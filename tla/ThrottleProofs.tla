--------------------------- MODULE ThrottleProofs ---------------------------
(***************************************************************************)
(* What suspends is also resumed, for any processes, kill roots, number of  *)
(* throttles and reloads, and any moment at which a timer fires, whether    *)
(* suspends nest (NtSuspendProcess) or not (SIGSTOP): every suspend is      *)
(* followed by a resume.  Where they nest, a process suspended k times is   *)
(* still suspended after fewer than k resumes: throttle_nested shows it.    *)
(* Coverage assumes that no process belongs to two kill roots: without it   *)
(* the run throttle_overlap is a counterexample.                            *)
(***************************************************************************)
EXTENDS Throttle, SequenceTheorems, TLAPS

DisjointTrees == \A s, t \in Trees : s = t \/ s \cap t = {}

Pending == {"new", "waiting"}

\* Only a throttle at work has suspended processes in its hands.
PhaseInv ==
    /\ stage \notin {"suspending", "recording", "starting"} => suspended = {}
    /\ stage \in {"recording", "starting"} => todo = {}
    /\ stage = "starting" =>
          /\ Len(timers) > 0
          /\ timers[Len(timers)].state = "new"
          /\ timers[Len(timers)].pids = suspended

StopsInv == \A p \in Processes : stops[p] > 0 => p \in living \ Denied

TrackedInv ==
    \A a \in 1..MaxActuators, p \in Processes :
        tracked[a][p] # 0 => p \in timers[tracked[a][p]].pids

\* A timer resumes all that is left to suspend of its tree.
TimerInv ==
    \A i \in TimerIds :
        \E t \in Trees : timers[i].pids \subseteq t /\ (t \cap living) \ Denied \subseteq timers[i].pids

\* So does the throttle at work, and no earlier timer of the tree misses any of it.
TreeInv ==
    stage \in {"suspending", "recording"} =>
        \E t \in Trees :
            /\ todo \cup suspended \subseteq t
            /\ (t \cap living) \ Denied \subseteq todo \cup suspended
            /\ \A i \in TimerIds : timers[i].pids \cap t # {} => suspended \subseteq timers[i].pids

\* A pending timer tracked for one of its processes is tracked for all, and
\* any other timer of the actuator that meets one of them has them all.
WholeInv ==
    \A a \in 1..MaxActuators, q \in Processes :
        \A i \in TimerIds :
            tracked[a][q] = i /\ timers[i].state \in Pending =>
                /\ \A p \in timers[i].pids : tracked[a][p] = i
                /\ \A j \in TimerIds :
                      timers[j].of = a /\ timers[j].pids \cap timers[i].pids # {} =>
                          timers[i].pids \subseteq timers[j].pids

CoverInv ==
    /\ ThrottleTypes
    /\ PhaseInv
    /\ StopsInv
    /\ TrackedInv
    /\ TimerInv
    /\ TreeInv
    /\ WholeInv
    /\ SuspendedIsCovered

\* As long as one actuator serves, a suspended process is in the hands of the
\* throttle at work, tracked, being resumed by the shutdown, or by a timer.
ExitInv ==
    /\ stage = "starting" => Len(timers) > 0
    /\ stage \in {"resuming", "exited"} => \A p \in Processes : tracked[actuator][p] = 0
    /\ actuator = 1 =>
          \A p \in Processes : AwaitsResume(p) =>
              \/ stage \in {"suspending", "recording"} /\ p \in suspended
              \/ tracked[1][p] # 0
              \/ stage = "resuming" /\ p \in todo
              \/ \E i \in TimerIds : timers[i].state = "resuming" /\ p \in timers[i].left
-----------------------------------------------------------------------------
(* What a suspend, a resume and an exit do to the suspended processes.     *)

LEMMA Suspends ==
    ASSUME ThrottleTypes, NEW q \in Processes, Suspend(q)
    PROVE  \A p \in Processes :
               /\ AwaitsResume(p)' => p = q \/ AwaitsResume(p)
               /\ stops'[p] > 0 => p = q \/ stops[p] > 0
BY DEF ThrottleTypes, Suspend, AwaitsResume

\* Nested or not, a resumed process awaits no resume.
LEMMA Resumes ==
    ASSUME ThrottleTypes, NEW q \in Processes, Resume(q)
    PROVE  \A p \in Processes :
               /\ AwaitsResume(p)' => p # q /\ AwaitsResume(p)
               /\ stops'[p] > 0 => stops[p] > 0
<1>1. \A p \in Processes \ {q} : stops'[p] = stops[p] /\ (p \in roused' <=> p \in roused)
    BY DEF ThrottleTypes, Resume
<1>2. stops'[q] > 0 => stops[q] > 0 /\ q \in roused'
    BY DEF ThrottleTypes, Resume
<1>3. QED
    BY <1>1, <1>2 DEF AwaitsResume

LEMMA Ends ==
    ASSUME ThrottleTypes, NEW q \in Processes, TargetExits(q)
    PROVE  \A p \in Processes :
               /\ AwaitsResume(p)' => p # q /\ AwaitsResume(p)
               /\ stops'[p] > 0 => p # q /\ stops[p] > 0
BY DEF ThrottleTypes, TargetExits, AwaitsResume
-----------------------------------------------------------------------------
(* The timers as a sequence.                                               *)

\* One timer is replaced.
LEMMA OneTimer ==
    ASSUME ThrottleTypes, NEW i \in TimerIds, NEW e \in Timer,
           timers' = [timers EXCEPT ![i] = e]
    PROVE  /\ timers' \in Seq(Timer)
           /\ Len(timers') = Len(timers)
           /\ TimerIds' = TimerIds
           /\ \A j \in TimerIds : timers'[j] = IF j = i THEN e ELSE timers[j]
BY ExceptSeq DEF ThrottleTypes, TimerIds

\* A timer of the sequence, field by field.
LEMMA TimerFields ==
    ASSUME ThrottleTypes
    PROVE  \A i \in TimerIds :
               /\ timers[i] \in Timer
               /\ timers[i].of \in 1..MaxActuators /\ timers[i].pids \subseteq Processes
               /\ timers[i].state \in TimerStates /\ timers[i].left \subseteq Processes
<1>1. \A i \in TimerIds : timers[i] \in Timer
    BY ElementOfSeq DEF ThrottleTypes, TimerIds
<1>2. QED
    BY <1>1 DEF Timer

\* What the actuators track is a timer, or nothing.
LEMMA TrackedRange ==
    ASSUME ThrottleTypes
    PROVE  \A a \in 1..MaxActuators, p \in Processes : tracked[a][p] \in TimerIds \cup {0}
<1>1. Len(timers) \in Nat
    BY LenProperties DEF ThrottleTypes
<1>2. \A a \in 1..MaxActuators, p \in Processes : tracked[a][p] \in 0..Len(timers)
    BY DEF ThrottleTypes
<1>3. QED
    BY <1>1, <1>2 DEF TimerIds

\* Cancelling changes states only, from pending to cancelled.
LEMMA CancelShape ==
    ASSUME ThrottleTypes, NEW ids, NEW ts, ts = Cancel(ids, timers)
    PROVE  /\ ts \in Seq(Timer)
           /\ Len(ts) = Len(timers)
           /\ \A i \in TimerIds :
                 /\ ts[i].of = timers[i].of
                 /\ ts[i].pids = timers[i].pids
                 /\ ts[i].left = timers[i].left
                 /\ ts[i].state = IF i \in ids /\ timers[i].state \in Pending
                                  THEN "cancelled" ELSE timers[i].state
<1>1. DOMAIN timers = TimerIds /\ Len(timers) \in Nat
    BY LenProperties DEF ThrottleTypes, TimerIds
<1>2. \A i \in TimerIds :
          ts[i] = IF i \in ids /\ timers[i].state \in Pending
                  THEN [timers[i] EXCEPT !.state = "cancelled"] ELSE timers[i]
    BY <1>1 DEF Cancel, Pending
<1>3. \A i \in TimerIds : ts[i] \in Timer
    BY <1>2, TimerFields DEF Timer, TimerStates
<1>4. ts \in [TimerIds -> Timer]
    BY <1>1, <1>3 DEF Cancel
<1>5. ts \in Seq(Timer) /\ Len(ts) = Len(timers)
    BY <1>1, <1>4, SeqDef DEF TimerIds
<1>6. QED
    BY <1>2, <1>5, TimerFields DEF Timer

\* A timer is added behind some cancelled ones.
LEMMA AppendShape ==
    ASSUME ThrottleTypes, NEW ts \in Seq(Timer), Len(ts) = Len(timers), NEW e \in Timer,
           timers' = Append(ts, e)
    PROVE  /\ timers' \in Seq(Timer)
           /\ Len(timers') = Len(timers) + 1
           /\ TimerIds' = TimerIds \cup {Len(timers) + 1}
           /\ \A i \in TimerIds : timers'[i] = ts[i]
           /\ timers'[Len(timers) + 1] = e
BY LenProperties DEF ThrottleTypes, TimerIds
-----------------------------------------------------------------------------
(* What each action does to the timers, to be cited instead of its text.   *)

LEMMA RecordShape ==
    ASSUME ThrottleTypes, Record
    PROVE  /\ timers' \in Seq(Timer)
           /\ Len(timers') = Len(timers) + 1
           /\ TimerIds' = TimerIds \cup {Len(timers) + 1}
           /\ \A i \in TimerIds :
                 /\ timers'[i].of = timers[i].of
                 /\ timers'[i].pids = timers[i].pids
                 /\ timers'[i].left = timers[i].left
                 /\ timers'[i].state =
                      IF timers[i].state \in Pending /\ \E p \in suspended : tracked[actuator][p] = i
                      THEN "cancelled" ELSE timers[i].state
           /\ timers'[Len(timers) + 1] = NewTimer
           /\ tracked' \in [1..MaxActuators -> [Processes -> 0..Len(timers')]]
           /\ \A a \in 1..MaxActuators, p \in Processes :
                 tracked'[a][p] = IF a = actuator /\ p \in suspended
                                  THEN Len(timers) + 1 ELSE tracked[a][p]
<1> DEFINE priors == {tracked[actuator][p] : p \in suspended} \ {0}
           ts == Cancel(priors, timers)
<1>1. timers' = Append(ts, NewTimer)
    BY DEF Record, TrackThrottle
<1>2. NewTimer \in Timer
    BY DEF NewTimer, Timer, ThrottleTypes, TimerStates
<1>3. /\ ts \in Seq(Timer) /\ Len(ts) = Len(timers)
      /\ \A i \in TimerIds :
            /\ ts[i].of = timers[i].of
            /\ ts[i].pids = timers[i].pids
            /\ ts[i].left = timers[i].left
            /\ ts[i].state = IF i \in priors /\ timers[i].state \in Pending
                             THEN "cancelled" ELSE timers[i].state
    <2> HIDE DEF priors
    <2>1. QED
        BY CancelShape
<1>4. \A i \in TimerIds : i \in priors <=> \E p \in suspended : tracked[actuator][p] = i
    BY DEF TimerIds
<1> HIDE DEF ts, priors
<1>5. /\ timers' \in Seq(Timer)
      /\ Len(timers') = Len(timers) + 1
      /\ TimerIds' = TimerIds \cup {Len(timers) + 1}
      /\ \A i \in TimerIds : timers'[i] = ts[i]
      /\ timers'[Len(timers) + 1] = NewTimer
    BY <1>1, <1>2, <1>3, AppendShape
<1>6. tracked' = [tracked EXCEPT ![actuator] =
                     [p \in Processes |-> IF p \in suspended THEN Len(timers) + 1 ELSE @[p]]]
    BY DEF Record, TrackThrottle
<1>7. Len(timers) \in Nat /\ actuator \in 1..MaxActuators
      /\ tracked \in [1..MaxActuators -> [Processes -> 0..Len(timers)]]
    BY LenProperties DEF ThrottleTypes
<1>8. tracked' \in [1..MaxActuators -> [Processes -> 0..Len(timers) + 1]]
    BY <1>6, <1>7
<1>9. \A a \in 1..MaxActuators, p \in Processes :
          tracked'[a][p] = IF a = actuator /\ p \in suspended
                           THEN Len(timers) + 1 ELSE tracked[a][p]
    BY <1>6, <1>7
<1>10. QED
    BY <1>3, <1>4, <1>5, <1>8, <1>9

LEMMA StartShape ==
    ASSUME ThrottleTypes, StartTimer, Len(timers) > 0
    PROVE  /\ timers' \in Seq(Timer) /\ Len(timers') = Len(timers) /\ TimerIds' = TimerIds
           /\ \A i \in TimerIds :
                 /\ timers'[i].of = timers[i].of
                 /\ timers'[i].pids = timers[i].pids
                 /\ timers'[i].left = timers[i].left
                 /\ timers'[i].state = IF i = Len(timers) /\ timers[i].state = "new"
                                       THEN "waiting" ELSE timers[i].state
<1> DEFINE n == Len(timers)
           e == Started(timers[n])
<1>1. n \in TimerIds
    BY LenProperties DEF ThrottleTypes, TimerIds
<1>2. /\ e \in Timer
      /\ e.of = timers[n].of /\ e.pids = timers[n].pids /\ e.left = timers[n].left
      /\ e.state = IF timers[n].state = "new" THEN "waiting" ELSE timers[n].state
    BY <1>1, TimerFields DEF Started, Timer, TimerStates
<1>3. timers' = [timers EXCEPT ![n] = e]
    BY DEF StartTimer
<1> HIDE DEF n, e
<1>4. /\ timers' \in Seq(Timer) /\ Len(timers') = Len(timers) /\ TimerIds' = TimerIds
      /\ \A i \in TimerIds : timers'[i] = IF i = n THEN e ELSE timers[i]
    BY <1>1, <1>2, <1>3, OneTimer
<1>5. QED
    BY <1>2, <1>4 DEF n

LEMMA FiresShape ==
    ASSUME ThrottleTypes, NEW k \in TimerIds, TimerFires(k)
    PROVE  /\ timers' \in Seq(Timer) /\ Len(timers') = Len(timers) /\ TimerIds' = TimerIds
           /\ timers[k].state = "waiting"
           /\ \A i \in TimerIds :
                 /\ timers'[i].of = timers[i].of
                 /\ timers'[i].pids = timers[i].pids
                 /\ timers'[i].left = timers[i].left
                 /\ timers'[i].state = IF i = k THEN "fired" ELSE timers[i].state
<1> DEFINE e == [timers[k] EXCEPT !.state = "fired"]
<1>1. /\ e \in Timer /\ e.state = "fired"
      /\ e.of = timers[k].of /\ e.pids = timers[k].pids /\ e.left = timers[k].left
    BY TimerFields DEF Timer, TimerStates
<1>2. timers' = [timers EXCEPT ![k] = e] /\ timers[k].state = "waiting"
    BY DEF TimerFires
<1> HIDE DEF e
<1>3. /\ timers' \in Seq(Timer) /\ Len(timers') = Len(timers) /\ TimerIds' = TimerIds
      /\ \A i \in TimerIds : timers'[i] = IF i = k THEN e ELSE timers[i]
    BY <1>1, <1>2, OneTimer
<1>4. QED
    BY <1>1, <1>2, <1>3

LEMMA ForgetsShape ==
    ASSUME ThrottleTypes, NEW k \in TimerIds, TimerForgets(k)
    PROVE  /\ timers' \in Seq(Timer) /\ Len(timers') = Len(timers) /\ TimerIds' = TimerIds
           /\ timers[k].state = "fired"
           /\ \A i \in TimerIds :
                 /\ timers'[i].of = timers[i].of
                 /\ timers'[i].pids = timers[i].pids
                 /\ timers'[i].left = IF i = k THEN timers[k].pids ELSE timers[i].left
                 /\ timers'[i].state = IF i = k THEN "resuming" ELSE timers[i].state
           /\ tracked' \in [1..MaxActuators -> [Processes -> 0..Len(timers')]]
           /\ \A a \in 1..MaxActuators, p \in Processes :
                 tracked'[a][p] = IF a = timers[k].of /\ p \in timers[k].pids
                                  THEN 0 ELSE tracked[a][p]
<1> DEFINE e == [timers[k] EXCEPT !.state = "resuming", !.left = timers[k].pids]
<1>1. /\ e \in Timer /\ e.state = "resuming" /\ e.left = timers[k].pids
      /\ e.of = timers[k].of /\ e.pids = timers[k].pids
    BY TimerFields DEF Timer, TimerStates
<1>2. timers \in [TimerIds -> Timer]
    BY LenProperties DEF ThrottleTypes, TimerIds
<1>3. timers' = [timers EXCEPT ![k] = e] /\ timers[k].state = "fired"
    BY <1>2 DEF TimerForgets, Timer
<1>4. tracked' = [tracked EXCEPT ![timers[k].of] =
                     [p \in Processes |-> IF p \in timers[k].pids THEN 0 ELSE @[p]]]
    BY DEF TimerForgets
<1> HIDE DEF e
<1>5. /\ timers' \in Seq(Timer) /\ Len(timers') = Len(timers) /\ TimerIds' = TimerIds
      /\ \A i \in TimerIds : timers'[i] = IF i = k THEN e ELSE timers[i]
    BY <1>1, <1>3, OneTimer
<1>6. /\ tracked' \in [1..MaxActuators -> [Processes -> 0..Len(timers)]]
      /\ \A a \in 1..MaxActuators, p \in Processes :
            tracked'[a][p] = IF a = timers[k].of /\ p \in timers[k].pids
                             THEN 0 ELSE tracked[a][p]
    BY <1>4, TimerFields, LenProperties DEF ThrottleTypes
<1>7. QED
    BY <1>1, <1>3, <1>5, <1>6

LEMMA ResumesShape ==
    ASSUME ThrottleTypes, NEW k \in TimerIds, NEW q \in Processes, TimerResumesOne(k, q)
    PROVE  /\ timers' \in Seq(Timer) /\ Len(timers') = Len(timers) /\ TimerIds' = TimerIds
           /\ timers[k].state = "resuming" /\ q \in timers[k].left
           /\ \A i \in TimerIds :
                 /\ timers'[i].of = timers[i].of
                 /\ timers'[i].pids = timers[i].pids
                 /\ timers'[i].left = IF i = k THEN timers[k].left \ {q} ELSE timers[i].left
                 /\ timers'[i].state = IF i = k /\ timers[k].left = {q}
                                       THEN "done" ELSE timers[i].state
<1> DEFINE e == [timers[k] EXCEPT !.left = @ \ {q},
                                  !.state = IF timers[k].left = {q} THEN "done" ELSE @]
<1>1. /\ e \in Timer /\ e.left = timers[k].left \ {q}
      /\ e.state = IF timers[k].left = {q} THEN "done" ELSE timers[k].state
      /\ e.of = timers[k].of /\ e.pids = timers[k].pids
    BY TimerFields DEF Timer, TimerStates
<1>2. timers \in [TimerIds -> Timer]
    BY LenProperties DEF ThrottleTypes, TimerIds
<1>3. timers' = [timers EXCEPT ![k] = e] /\ timers[k].state = "resuming" /\ q \in timers[k].left
    BY <1>2 DEF TimerResumesOne, Timer
<1> HIDE DEF e
<1>4. /\ timers' \in Seq(Timer) /\ Len(timers') = Len(timers) /\ TimerIds' = TimerIds
      /\ \A i \in TimerIds : timers'[i] = IF i = k THEN e ELSE timers[i]
    BY <1>1, <1>3, OneTimer
<1>5. ASSUME NEW i \in TimerIds, i = k
      PROVE  /\ timers'[i].of = timers[i].of
             /\ timers'[i].pids = timers[i].pids
             /\ timers'[i].left = timers[k].left \ {q}
             /\ timers'[i].state = IF timers[k].left = {q} THEN "done" ELSE timers[i].state
    BY <1>1, <1>4, <1>5
<1>6. \A i \in TimerIds :
          /\ timers'[i].of = timers[i].of
          /\ timers'[i].pids = timers[i].pids
          /\ timers'[i].left = IF i = k THEN timers[k].left \ {q} ELSE timers[i].left
          /\ timers'[i].state = IF i = k /\ timers[k].left = {q}
                                THEN "done" ELSE timers[i].state
    <2> TAKE i \in TimerIds
    <2>1. CASE i = k
        BY <1>5, <2>1
    <2>2. CASE i # k
        BY <1>4, <2>2
    <2>3. QED
        BY <2>1, <2>2
<1>7. QED
    BY <1>3, <1>4, <1>6

LEMMA ShutdownShape ==
    ASSUME ThrottleTypes, BeginShutdown
    PROVE  /\ timers' \in Seq(Timer) /\ Len(timers') = Len(timers) /\ TimerIds' = TimerIds
           /\ \A i \in TimerIds :
                 /\ timers'[i].of = timers[i].of
                 /\ timers'[i].pids = timers[i].pids
                 /\ timers'[i].left = timers[i].left
                 /\ timers'[i].state =
                      IF timers[i].state \in Pending /\ \E p \in Processes : tracked[actuator][p] = i
                      THEN "cancelled" ELSE timers[i].state
           /\ tracked' \in [1..MaxActuators -> [Processes -> 0..Len(timers')]]
           /\ \A a \in 1..MaxActuators, p \in Processes :
                 tracked'[a][p] = IF a = actuator THEN 0 ELSE tracked[a][p]
<1> DEFINE ids == {tracked[actuator][p] : p \in Processes}
<1>1. timers' = Cancel(ids, timers)
    BY DEF BeginShutdown
<1>2. \A i \in TimerIds : i \in ids <=> \E p \in Processes : tracked[actuator][p] = i
    OBVIOUS
<1> HIDE DEF ids
<1>3. /\ timers' \in Seq(Timer) /\ Len(timers') = Len(timers)
      /\ \A i \in TimerIds :
            /\ timers'[i].of = timers[i].of
            /\ timers'[i].pids = timers[i].pids
            /\ timers'[i].left = timers[i].left
            /\ timers'[i].state = IF i \in ids /\ timers[i].state \in Pending
                                  THEN "cancelled" ELSE timers[i].state
    BY <1>1, CancelShape
<1>4. /\ tracked' \in [1..MaxActuators -> [Processes -> 0..Len(timers)]]
      /\ \A a \in 1..MaxActuators, p \in Processes :
            tracked'[a][p] = IF a = actuator THEN 0 ELSE tracked[a][p]
    BY LenProperties DEF BeginShutdown, ThrottleTypes
<1>5. QED
    BY <1>2, <1>3, <1>4 DEF TimerIds
-----------------------------------------------------------------------------
LEMMA InitTypes == ThrottleInit => ThrottleTypes
BY ThrottleBounds, EmptySeq DEF ThrottleInit, ThrottleTypes

LEMMA TypeStep == ThrottleTypes /\ [ThrottleNext]_throttleVars => ThrottleTypes'
<1> SUFFICES ASSUME ThrottleTypes, [ThrottleNext]_throttleVars PROVE ThrottleTypes'
    OBVIOUS
<1> USE ThrottleBounds
<1>1. ASSUME NEW tree \in Trees, BeginThrottle(tree) PROVE ThrottleTypes'
    BY <1>1 DEF ThrottleTypes, BeginThrottle
<1>2. ASSUME NEW p \in Processes, SuspendOne(p) PROVE ThrottleTypes'
    BY <1>2 DEF ThrottleTypes, SuspendOne, Suspend
<1>3. ASSUME NEW p \in Processes, ShutdownResumesOne(p) PROVE ThrottleTypes'
    BY <1>3 DEF ThrottleTypes, ShutdownResumesOne, Resume
<1>4. CASE AllSuspended
    BY <1>4 DEF ThrottleTypes, AllSuspended
<1>5. CASE Record
    BY <1>5, RecordShape DEF ThrottleTypes, Record
<1>6. CASE StartTimer
    <2>1. CASE Len(timers) > 0
        BY <1>6, <2>1, StartShape DEF ThrottleTypes, StartTimer
    <2>2. CASE ~(Len(timers) > 0)
        <3>1. timers = <<>>
            BY <2>2, EmptySeq, LenProperties DEF ThrottleTypes
        <3>2. timers' = timers
            BY <1>6, <3>1 DEF StartTimer
        <3>3. QED
            BY <1>6, <3>2 DEF ThrottleTypes, StartTimer
    <2>3. QED
        BY <2>1, <2>2
<1>7. CASE Exit
    BY <1>7 DEF ThrottleTypes, Exit
<1>8. CASE Reload
    BY <1>8 DEF ThrottleTypes, Reload
<1>9. CASE BeginShutdown
    BY <1>9, ShutdownShape DEF ThrottleTypes, BeginShutdown, TakeTracked
<1>10. ASSUME NEW i \in TimerIds, TimerFires(i) PROVE ThrottleTypes'
    BY <1>10, FiresShape DEF ThrottleTypes, TimerFires
<1>11. ASSUME NEW i \in TimerIds, TimerForgets(i) PROVE ThrottleTypes'
    BY <1>11, ForgetsShape DEF ThrottleTypes, TimerForgets
<1>12. ASSUME NEW i \in TimerIds, NEW p \in Processes, TimerResumesOne(i, p) PROVE ThrottleTypes'
    <2>1. Resume(p) /\ UNCHANGED <<living, stage, todo, suspended, actuator, tracked>>
        BY <1>12 DEF TimerResumesOne
    <2>2. timers' \in Seq(Timer) /\ Len(timers') = Len(timers)
        BY <1>12, ResumesShape
    <2>3. QED
        BY <2>1, <2>2 DEF ThrottleTypes, Resume
<1>13. ASSUME NEW p \in living, TargetExits(p) PROVE ThrottleTypes'
    BY <1>13 DEF ThrottleTypes, TargetExits
<1>14. CASE UNCHANGED throttleVars
    BY <1>14 DEF ThrottleTypes, throttleVars
<1>15. QED
    BY <1>1, <1>2, <1>3, <1>4, <1>5, <1>6, <1>7, <1>8, <1>9, <1>10, <1>11, <1>12, <1>13, <1>14
    DEF ThrottleNext, ServiceStep, TimerStep
-----------------------------------------------------------------------------
(* Suspended processes are covered: the steps of the service thread.       *)

LEMMA InitCover == ThrottleInit => CoverInv
<1> SUFFICES ASSUME ThrottleInit PROVE CoverInv
    OBVIOUS
<1>1. ThrottleTypes
    BY InitTypes
<1>2. TimerIds = {}
    BY EmptySeq DEF ThrottleInit, TimerIds
<1>3. QED
    BY <1>1, <1>2, ThrottleBounds
    DEF ThrottleInit, CoverInv, PhaseInv, StopsInv, TrackedInv, TimerInv, TreeInv, WholeInv,
        SuspendedIsCovered, AwaitsResume

LEMMA CoverBegin ==
    ASSUME DisjointTrees, CoverInv, ThrottleTypes', NEW tree \in Trees, BeginThrottle(tree)
    PROVE  CoverInv'
<1>1. /\ stage = "idle" /\ stage' = "suspending"
      /\ todo' = tree \cap living /\ suspended' = {}
      /\ UNCHANGED <<living, stops, roused, actuator, timers, tracked>>
    BY DEF BeginThrottle
<1>2. suspended = {}
    BY <1>1 DEF CoverInv, PhaseInv
<1>3. PhaseInv' /\ StopsInv'
    BY <1>1 DEF CoverInv, PhaseInv, StopsInv
<1>4. TrackedInv' /\ TimerInv' /\ WholeInv'
    BY <1>1 DEF CoverInv, TrackedInv, TimerInv, WholeInv, TimerIds
<1>5. TreeInv'
    BY <1>1 DEF TreeInv, TimerIds
<1>6. SuspendedIsCovered'
    BY <1>1, <1>2 DEF CoverInv, SuspendedIsCovered, AwaitsResume, TimerIds
<1>7. QED
    BY <1>3, <1>4, <1>5, <1>6 DEF CoverInv

LEMMA CoverSuspendOne ==
    ASSUME DisjointTrees, CoverInv, ThrottleTypes', NEW q \in Processes, SuspendOne(q)
    PROVE  CoverInv'
<1>1. /\ stage = "suspending" /\ q \in todo /\ todo' = todo \ {q}
      /\ IF q \in living \ Denied
         THEN Suspend(q) /\ suspended' = suspended \cup {q}
         ELSE UNCHANGED <<stops, roused, suspended>>
      /\ UNCHANGED <<living, stage, actuator, timers, tracked>>
    BY DEF SuspendOne
<1>2. \A p \in Processes :
          /\ AwaitsResume(p)' => p \in suspended' \/ AwaitsResume(p)
          /\ stops'[p] > 0 => p \in living \ Denied \/ stops[p] > 0
    BY <1>1, Suspends DEF CoverInv, AwaitsResume
<1>3. PhaseInv'
    BY <1>1 DEF PhaseInv
<1>4. StopsInv'
    BY <1>1, <1>2 DEF CoverInv, StopsInv
<1>5. TrackedInv' /\ TimerInv' /\ WholeInv'
    BY <1>1 DEF CoverInv, TrackedInv, TimerInv, WholeInv, TimerIds
<1>6. TreeInv'
    <2>1. PICK t \in Trees :
              /\ todo \cup suspended \subseteq t
              /\ (t \cap living) \ Denied \subseteq todo \cup suspended
              /\ \A i \in TimerIds : timers[i].pids \cap t # {} => suspended \subseteq timers[i].pids
        BY <1>1 DEF CoverInv, TreeInv
    <2>2. todo' \cup suspended' \subseteq t /\ (t \cap living') \ Denied \subseteq todo' \cup suspended'
        BY <1>1, <2>1
    <2>3. ASSUME NEW i \in TimerIds, timers[i].pids \cap t # {}
          PROVE  suspended' \subseteq timers[i].pids
        <3>1. PICK s \in Trees : /\ timers[i].pids \subseteq s
                                 /\ (s \cap living) \ Denied \subseteq timers[i].pids
            BY DEF CoverInv, TimerInv
        <3>2. s = t
            BY <2>3, <3>1 DEF DisjointTrees
        <3>3. QED
            BY <1>1, <2>1, <2>3, <3>1, <3>2
    <2>4. QED
        BY <1>1, <2>2, <2>3 DEF TreeInv, TimerIds
<1>7. SuspendedIsCovered'
    <2> SUFFICES ASSUME NEW p \in Processes, AwaitsResume(p)', p \notin suspended'
                 PROVE  \E i \in TimerIds :
                            \/ timers[i].state \in {"new", "waiting", "fired"} /\ p \in timers[i].pids
                            \/ timers[i].state = "resuming" /\ p \in timers[i].left
        BY <1>1 DEF SuspendedIsCovered, AwaitsResume, TimerIds
    <2>1. AwaitsResume(p) /\ p \notin suspended
        BY <1>1, <1>2
    <2>2. QED
        BY <1>1, <2>1 DEF CoverInv, SuspendedIsCovered, AwaitsResume
<1>8. QED
    BY <1>3, <1>4, <1>5, <1>6, <1>7 DEF CoverInv

LEMMA CoverAllSuspended ==
    ASSUME CoverInv, ThrottleTypes', AllSuspended
    PROVE  CoverInv'
<1>1. /\ stage = "suspending" /\ todo = {} /\ stage' = IF suspended = {} THEN "idle" ELSE "recording"
      /\ UNCHANGED <<living, stops, roused, todo, suspended, actuator, timers, tracked>>
    BY DEF AllSuspended
<1>2. PhaseInv' /\ StopsInv'
    BY <1>1 DEF CoverInv, PhaseInv, StopsInv
<1>3. TrackedInv' /\ TimerInv' /\ WholeInv'
    BY <1>1 DEF CoverInv, TrackedInv, TimerInv, WholeInv, TimerIds
<1>4. TreeInv'
    BY <1>1 DEF CoverInv, TreeInv, TimerIds
<1>5. SuspendedIsCovered'
    BY <1>1 DEF CoverInv, SuspendedIsCovered, AwaitsResume, TimerIds
<1>6. QED
    BY <1>2, <1>3, <1>4, <1>5 DEF CoverInv

\* The new timer covers all that is suspended of the timers it replaces.
LEMMA CoverRecord ==
    ASSUME DisjointTrees, CoverInv, ThrottleTypes', Record
    PROVE  CoverInv'
<1> DEFINE n == Len(timers) + 1
<1>1. /\ stage = "recording" /\ stage' = "starting" /\ todo = {}
      /\ UNCHANGED <<living, stops, roused, todo, suspended, actuator>>
    BY DEF Record, CoverInv, PhaseInv
<1>2. /\ Len(timers') = n /\ n \in Nat /\ n > 0 /\ n \notin TimerIds
      /\ TimerIds' = TimerIds \cup {n}
      /\ actuator \in 1..MaxActuators /\ suspended \subseteq Processes
    BY RecordShape, LenProperties DEF CoverInv, ThrottleTypes, TimerIds
<1>3. \A i \in TimerIds :
          /\ timers'[i].of = timers[i].of
          /\ timers'[i].pids = timers[i].pids
          /\ timers'[i].left = timers[i].left
          /\ timers'[i].state =
               IF timers[i].state \in Pending /\ \E p \in suspended : tracked[actuator][p] = i
               THEN "cancelled" ELSE timers[i].state
    BY RecordShape DEF CoverInv
<1>4. /\ timers'[n].of = actuator /\ timers'[n].pids = suspended
      /\ timers'[n].state = "new"
    BY RecordShape DEF CoverInv, NewTimer
<1>5. \A a \in 1..MaxActuators, p \in Processes :
          /\ tracked'[a][p] = IF a = actuator /\ p \in suspended THEN n ELSE tracked[a][p]
          /\ tracked[a][p] \in TimerIds \cup {0}
    <2>1. \A a \in 1..MaxActuators, p \in Processes :
              tracked'[a][p] = IF a = actuator /\ p \in suspended THEN n ELSE tracked[a][p]
        BY RecordShape DEF CoverInv
    <2>2. \A a \in 1..MaxActuators, p \in Processes : tracked[a][p] \in TimerIds \cup {0}
        BY TrackedRange DEF CoverInv
    <2>3. QED
        BY <2>1, <2>2
<1>6. PICK t \in Trees :
          /\ suspended \subseteq t
          /\ (t \cap living) \ Denied \subseteq suspended
          /\ \A i \in TimerIds : timers[i].pids \cap t # {} => suspended \subseteq timers[i].pids
    BY <1>1 DEF CoverInv, TreeInv
<1>7. \A a \in 1..MaxActuators, p \in Processes :
          tracked[a][p] # 0 => tracked[a][p] \in TimerIds /\ p \in timers[tracked[a][p]].pids
    BY <1>5 DEF CoverInv, TrackedInv
<1> HIDE DEF n
<1>8. PhaseInv'
    BY <1>1, <1>2, <1>4 DEF PhaseInv
<1>9. StopsInv'
    BY <1>1 DEF CoverInv, StopsInv
<1>10. TrackedInv'
    BY <1>3, <1>4, <1>5, <1>7 DEF TrackedInv
<1>11. TimerInv'
    BY <1>1, <1>2, <1>3, <1>4, <1>6 DEF CoverInv, TimerInv
<1>12. TreeInv'
    BY <1>1 DEF TreeInv
<1>13. WholeInv'
    <2> SUFFICES ASSUME NEW a \in 1..MaxActuators, NEW q \in Processes, NEW i \in TimerIds',
                        tracked'[a][q] = i, timers'[i].state \in Pending
                 PROVE  /\ \A p \in timers'[i].pids : tracked'[a][p] = i
                        /\ \A j \in TimerIds' :
                              timers'[j].of = a /\ timers'[j].pids \cap timers'[i].pids # {} =>
                                  timers'[i].pids \subseteq timers'[j].pids
        BY DEF WholeInv
    <2>1. CASE i = n
        <3>1. a = actuator
            BY <1>2, <1>5, <2>1
        <3>2. \A p \in timers'[i].pids : tracked'[a][p] = i
            BY <1>2, <1>4, <1>5, <2>1, <3>1
        <3>3. ASSUME NEW j \in TimerIds, timers[j].pids \cap suspended # {}
              PROVE  suspended \subseteq timers[j].pids
            BY <1>6, <3>3
        <3>4. QED
            BY <1>2, <1>3, <1>4, <2>1, <3>2, <3>3
    <2>2. CASE i \in TimerIds
        <3>1. tracked[a][q] = i /\ timers[i].state \in Pending
            BY <1>2, <1>3, <1>5, <2>2 DEF Pending
        <3>2. /\ \A p \in timers[i].pids : tracked[a][p] = i
              /\ \A j \in TimerIds :
                    timers[j].of = a /\ timers[j].pids \cap timers[i].pids # {} =>
                        timers[i].pids \subseteq timers[j].pids
            BY <2>2, <3>1 DEF CoverInv, WholeInv
        <3>3. a = actuator => timers[i].pids \cap suspended = {}
            BY <1>3, <2>2, <3>1, <3>2 DEF Pending
        <3>4. timers[i].pids \subseteq Processes
            BY <2>2, TimerFields DEF CoverInv
        <3>5. \A p \in timers'[i].pids : tracked'[a][p] = i
            BY <1>3, <1>5, <2>2, <3>2, <3>3, <3>4
        <3>6. ASSUME NEW j \in TimerIds', timers'[j].of = a,
                     timers'[j].pids \cap timers'[i].pids # {}
              PROVE  timers'[i].pids \subseteq timers'[j].pids
            BY <1>2, <1>3, <1>4, <2>2, <3>2, <3>3, <3>6
        <3>7. QED
            BY <3>5, <3>6
    <2>3. QED
        BY <1>2, <2>1, <2>2
<1>14. SuspendedIsCovered'
    <2> SUFFICES ASSUME NEW p \in Processes, AwaitsResume(p), p \notin suspended
                 PROVE  \E i \in TimerIds :
                            \/ timers'[i].state \in {"new", "waiting", "fired"} /\ p \in timers'[i].pids
                            \/ timers'[i].state = "resuming" /\ p \in timers'[i].left
        BY <1>1, <1>2 DEF SuspendedIsCovered, AwaitsResume
    <2>1. PICK i \in TimerIds :
              \/ timers[i].state \in {"new", "waiting", "fired"} /\ p \in timers[i].pids
              \/ timers[i].state = "resuming" /\ p \in timers[i].left
        BY <1>1 DEF CoverInv, SuspendedIsCovered, AwaitsResume
    <2>2. ASSUME NEW r \in suspended, tracked[actuator][r] = i, p \in timers[i].pids
          PROVE  FALSE
        <3>1. r \in timers[i].pids
            BY <1>2, <1>7, <2>2 DEF TimerIds
        <3>2. PICK s \in Trees : timers[i].pids \subseteq s
            BY DEF CoverInv, TimerInv
        <3>3. s = t
            BY <1>6, <3>1, <3>2 DEF DisjointTrees
        <3>4. p \in (t \cap living) \ Denied
            BY <2>2, <3>2, <3>3 DEF CoverInv, StopsInv, AwaitsResume
        <3>5. QED
            BY <1>6, <3>4
    <2>3. QED
        BY <1>3, <2>1, <2>2 DEF Pending
<1>15. QED
    BY <1>8, <1>9, <1>10, <1>11, <1>12, <1>13, <1>14 DEF CoverInv
\* The timer of the throttle takes over from the service thread.
LEMMA CoverStart ==
    ASSUME CoverInv, ThrottleTypes', StartTimer
    PROVE  CoverInv'
<1> DEFINE n == Len(timers)
<1>1. /\ stage = "starting" /\ stage' = "idle" /\ suspended' = {}
      /\ UNCHANGED <<living, stops, roused, todo, actuator, tracked>>
    BY DEF StartTimer
<1>2. n \in TimerIds /\ n > 0 /\ timers[n].state = "new" /\ timers[n].pids = suspended
    BY <1>1, LenProperties DEF CoverInv, PhaseInv, ThrottleTypes, TimerIds
<1>3. /\ TimerIds' = TimerIds
      /\ \A i \in TimerIds :
            /\ timers'[i].of = timers[i].of
            /\ timers'[i].pids = timers[i].pids
            /\ timers'[i].left = timers[i].left
            /\ timers'[i].state = IF i = n /\ timers[i].state = "new"
                                  THEN "waiting" ELSE timers[i].state
    BY <1>2, StartShape DEF CoverInv
<1>4. \A a \in 1..MaxActuators, p \in Processes : tracked[a][p] \in TimerIds \cup {0}
    BY TrackedRange DEF CoverInv
<1> HIDE DEF n
<1>5. PhaseInv' /\ StopsInv'
    BY <1>1 DEF CoverInv, PhaseInv, StopsInv
<1>6. TrackedInv' /\ TimerInv'
    BY <1>1, <1>3, <1>4 DEF CoverInv, TrackedInv, TimerInv
<1>7. TreeInv'
    BY <1>1 DEF TreeInv
<1>8. WholeInv'
    BY <1>1, <1>3 DEF CoverInv, WholeInv, Pending
<1>9. SuspendedIsCovered'
    BY <1>1, <1>2, <1>3 DEF CoverInv, SuspendedIsCovered, AwaitsResume
<1>10. QED
    BY <1>5, <1>6, <1>7, <1>8, <1>9 DEF CoverInv

LEMMA CoverReload ==
    ASSUME CoverInv, ThrottleTypes', Reload
    PROVE  CoverInv'
<1>1. UNCHANGED <<living, stops, roused, stage, todo, suspended, timers, tracked>>
    BY DEF Reload
<1>2. QED
    BY <1>1 DEF CoverInv, PhaseInv, StopsInv, TrackedInv, TimerInv, TreeInv, WholeInv,
                SuspendedIsCovered, AwaitsResume, TimerIds

\* What the shutdown cancels it has tracked as a whole, and resumes itself.
LEMMA CoverShutdown ==
    ASSUME CoverInv, ThrottleTypes', BeginShutdown
    PROVE  CoverInv'
<1>1. /\ stage = "idle" /\ stage' = "resuming" /\ suspended = {}
      /\ todo' = {p \in Processes : tracked[actuator][p] # 0}
      /\ actuator \in 1..MaxActuators
      /\ UNCHANGED <<living, stops, roused, suspended, actuator>>
    BY DEF BeginShutdown, TakeTracked, CoverInv, PhaseInv, ThrottleTypes
<1>2. /\ TimerIds' = TimerIds
      /\ \A i \in TimerIds :
            /\ timers'[i].of = timers[i].of
            /\ timers'[i].pids = timers[i].pids
            /\ timers'[i].left = timers[i].left
            /\ timers'[i].state =
                 IF timers[i].state \in Pending /\ \E p \in Processes : tracked[actuator][p] = i
                 THEN "cancelled" ELSE timers[i].state
      /\ \A a \in 1..MaxActuators, p \in Processes :
            tracked'[a][p] = IF a = actuator THEN 0 ELSE tracked[a][p]
    BY ShutdownShape DEF CoverInv
<1>3. \A a \in 1..MaxActuators, p \in Processes : tracked[a][p] \in TimerIds \cup {0}
    BY TrackedRange DEF CoverInv
<1>4. \A i \in TimerIds : i # 0 /\ timers[i].pids \subseteq Processes
    BY TimerFields DEF CoverInv, TimerIds
<1>5. PhaseInv' /\ StopsInv' /\ TreeInv'
    BY <1>1 DEF CoverInv, PhaseInv, StopsInv, TreeInv
<1>6. TrackedInv' /\ TimerInv'
    BY <1>1, <1>2, <1>3 DEF CoverInv, TrackedInv, TimerInv
<1>7. WholeInv'
    <2> SUFFICES ASSUME NEW a \in 1..MaxActuators, NEW q \in Processes, NEW i \in TimerIds,
                        tracked'[a][q] = i, timers'[i].state \in Pending
                 PROVE  /\ \A p \in timers'[i].pids : tracked'[a][p] = i
                        /\ \A j \in TimerIds :
                              timers'[j].of = a /\ timers'[j].pids \cap timers'[i].pids # {} =>
                                  timers'[i].pids \subseteq timers'[j].pids
        BY <1>2 DEF WholeInv
    <2>1. a # actuator /\ tracked[a][q] = i /\ timers[i].state \in Pending
        BY <1>2, <1>4 DEF Pending
    <2>2. QED
        BY <1>2, <1>4, <2>1 DEF CoverInv, WholeInv
<1>8. SuspendedIsCovered'
    <2> SUFFICES ASSUME NEW p \in Processes, AwaitsResume(p), tracked[actuator][p] = 0
                 PROVE  \E i \in TimerIds :
                            \/ timers'[i].state \in {"new", "waiting", "fired"} /\ p \in timers'[i].pids
                            \/ timers'[i].state = "resuming" /\ p \in timers'[i].left
        BY <1>1, <1>2 DEF SuspendedIsCovered, AwaitsResume
    <2>1. PICK i \in TimerIds :
              \/ timers[i].state \in {"new", "waiting", "fired"} /\ p \in timers[i].pids
              \/ timers[i].state = "resuming" /\ p \in timers[i].left
        BY <1>1 DEF CoverInv, SuspendedIsCovered, AwaitsResume
    <2>2. ASSUME NEW q \in Processes, tracked[actuator][q] = i, timers[i].state \in Pending,
                 p \in timers[i].pids
          PROVE  FALSE
        BY <1>1, <1>4, <2>2 DEF CoverInv, WholeInv
    <2>3. QED
        BY <1>2, <2>1, <2>2 DEF Pending
<1>9. QED
    BY <1>5, <1>6, <1>7, <1>8 DEF CoverInv

LEMMA CoverShutdownResumes ==
    ASSUME CoverInv, ThrottleTypes', NEW q \in Processes, ShutdownResumesOne(q)
    PROVE  CoverInv'
<1>1. /\ stage = "resuming" /\ todo' = todo \ {q} /\ Resume(q)
      /\ UNCHANGED <<living, stage, suspended, actuator, timers, tracked>>
    BY DEF ShutdownResumesOne
<1>2. \A p \in Processes :
          /\ AwaitsResume(p)' => p # q /\ AwaitsResume(p)
          /\ stops'[p] > 0 => stops[p] > 0
    BY <1>1, Resumes DEF CoverInv
<1>3. PhaseInv' /\ StopsInv' /\ TreeInv'
    BY <1>1, <1>2 DEF CoverInv, PhaseInv, StopsInv, TreeInv
<1>4. TrackedInv' /\ TimerInv' /\ WholeInv'
    BY <1>1 DEF CoverInv, TrackedInv, TimerInv, WholeInv, TimerIds
<1>5. SuspendedIsCovered'
    BY <1>1, <1>2 DEF CoverInv, SuspendedIsCovered, AwaitsResume, TimerIds
<1>6. QED
    BY <1>3, <1>4, <1>5 DEF CoverInv

LEMMA CoverExit ==
    ASSUME CoverInv, ThrottleTypes', Exit
    PROVE  CoverInv'
<1>1. /\ stage = "resuming" /\ stage' = "exited"
      /\ UNCHANGED <<living, stops, roused, todo, suspended, actuator, timers, tracked>>
    BY DEF Exit
<1>2. QED
    BY <1>1 DEF CoverInv, PhaseInv, StopsInv, TrackedInv, TimerInv, TreeInv, WholeInv,
                SuspendedIsCovered, AwaitsResume, TimerIds
-----------------------------------------------------------------------------
(* Suspended processes are covered: the timers and the operating system.   *)

LEMMA CoverFires ==
    ASSUME CoverInv, ThrottleTypes', NEW k \in TimerIds, TimerFires(k)
    PROVE  CoverInv'
<1>1. UNCHANGED <<living, stops, roused, stage, todo, suspended, actuator, tracked>>
    BY DEF TimerFires
<1>2. /\ TimerIds' = TimerIds /\ Len(timers') = Len(timers) /\ timers[k].state = "waiting"
      /\ \A i \in TimerIds :
            /\ timers'[i].of = timers[i].of
            /\ timers'[i].pids = timers[i].pids
            /\ timers'[i].left = timers[i].left
            /\ timers'[i].state = IF i = k THEN "fired" ELSE timers[i].state
    BY FiresShape DEF CoverInv
<1>3. \A a \in 1..MaxActuators, p \in Processes : tracked[a][p] \in TimerIds \cup {0}
    BY TrackedRange DEF CoverInv
<1>4. Len(timers) > 0 => Len(timers) \in TimerIds
    BY LenProperties DEF CoverInv, ThrottleTypes, TimerIds
<1>5. PhaseInv'
    BY <1>1, <1>2, <1>4 DEF CoverInv, PhaseInv
<1>6. StopsInv' /\ TrackedInv' /\ TimerInv' /\ TreeInv'
    BY <1>1, <1>2, <1>3 DEF CoverInv, StopsInv, TrackedInv, TimerInv, TreeInv
<1>7. WholeInv'
    BY <1>1, <1>2 DEF CoverInv, WholeInv, Pending
<1>8. SuspendedIsCovered'
    BY <1>1, <1>2 DEF CoverInv, SuspendedIsCovered, AwaitsResume
<1>9. QED
    BY <1>5, <1>6, <1>7, <1>8 DEF CoverInv

\* A timer that forgets processes of another one forgets all of them.
LEMMA CoverForgets ==
    ASSUME CoverInv, ThrottleTypes', NEW k \in TimerIds, TimerForgets(k)
    PROVE  CoverInv'
<1>1. UNCHANGED <<living, stops, roused, stage, todo, suspended, actuator>>
    BY DEF TimerForgets
<1>2. /\ TimerIds' = TimerIds /\ Len(timers') = Len(timers) /\ timers[k].state = "fired"
      /\ \A i \in TimerIds :
            /\ timers'[i].of = timers[i].of
            /\ timers'[i].pids = timers[i].pids
            /\ timers'[i].left = IF i = k THEN timers[k].pids ELSE timers[i].left
            /\ timers'[i].state = IF i = k THEN "resuming" ELSE timers[i].state
      /\ \A a \in 1..MaxActuators, p \in Processes :
            tracked'[a][p] = IF a = timers[k].of /\ p \in timers[k].pids
                             THEN 0 ELSE tracked[a][p]
    BY ForgetsShape DEF CoverInv
<1>3. \A a \in 1..MaxActuators, p \in Processes : tracked[a][p] \in TimerIds \cup {0}
    BY TrackedRange DEF CoverInv
<1>4. Len(timers) > 0 => Len(timers) \in TimerIds
    BY LenProperties DEF CoverInv, ThrottleTypes, TimerIds
<1>5. \A i \in TimerIds : i # 0 /\ timers[i].pids \subseteq Processes
    BY TimerFields DEF CoverInv, TimerIds
<1>6. PhaseInv'
    BY <1>1, <1>2, <1>4 DEF CoverInv, PhaseInv
<1>7. StopsInv' /\ TrackedInv' /\ TimerInv' /\ TreeInv'
    BY <1>1, <1>2, <1>3 DEF CoverInv, StopsInv, TrackedInv, TimerInv, TreeInv
<1>8. WholeInv'
    <2> SUFFICES ASSUME NEW a \in 1..MaxActuators, NEW q \in Processes, NEW i \in TimerIds,
                        tracked'[a][q] = i, timers'[i].state \in Pending
                 PROVE  /\ \A p \in timers'[i].pids : tracked'[a][p] = i
                        /\ \A j \in TimerIds :
                              timers'[j].of = a /\ timers'[j].pids \cap timers'[i].pids # {} =>
                                  timers'[i].pids \subseteq timers'[j].pids
        BY <1>2 DEF WholeInv
    <2>1. /\ tracked[a][q] = i /\ timers[i].state \in Pending
          /\ ~(a = timers[k].of /\ q \in timers[k].pids)
        BY <1>2, <1>5 DEF Pending
    <2>2. /\ \A p \in timers[i].pids : tracked[a][p] = i
          /\ \A j \in TimerIds :
                timers[j].of = a /\ timers[j].pids \cap timers[i].pids # {} =>
                    timers[i].pids \subseteq timers[j].pids
        BY <2>1 DEF CoverInv, WholeInv
    <2>3. q \in timers[i].pids
        BY <1>5, <2>1 DEF CoverInv, TrackedInv
    <2>4. a = timers[k].of => timers[k].pids \cap timers[i].pids = {}
        BY <2>1, <2>2, <2>3
    <2>5. \A p \in timers'[i].pids : tracked'[a][p] = i
        BY <1>2, <1>5, <2>2, <2>4
    <2>6. QED
        BY <1>2, <2>2, <2>5
<1>9. SuspendedIsCovered'
    BY <1>1, <1>2 DEF CoverInv, SuspendedIsCovered, AwaitsResume
<1>10. QED
    BY <1>6, <1>7, <1>8, <1>9 DEF CoverInv

LEMMA CoverResumes ==
    ASSUME CoverInv, ThrottleTypes', NEW k \in TimerIds, NEW q \in Processes,
           TimerResumesOne(k, q)
    PROVE  CoverInv'
<1>1. Resume(q) /\ UNCHANGED <<living, stage, todo, suspended, actuator, tracked>>
    BY DEF TimerResumesOne
<1>2. /\ TimerIds' = TimerIds /\ Len(timers') = Len(timers) /\ timers[k].state = "resuming"
      /\ \A i \in TimerIds :
            /\ timers'[i].of = timers[i].of
            /\ timers'[i].pids = timers[i].pids
            /\ timers'[i].left = IF i = k THEN timers[k].left \ {q} ELSE timers[i].left
            /\ timers'[i].state = IF i = k /\ timers[k].left = {q}
                                  THEN "done" ELSE timers[i].state
    BY ResumesShape DEF CoverInv
<1>3. \A a \in 1..MaxActuators, p \in Processes : tracked[a][p] \in TimerIds \cup {0}
    BY TrackedRange DEF CoverInv
<1>4. Len(timers) > 0 => Len(timers) \in TimerIds
    BY LenProperties DEF CoverInv, ThrottleTypes, TimerIds
<1>5. \A p \in Processes :
          /\ AwaitsResume(p)' => p # q /\ AwaitsResume(p)
          /\ stops'[p] > 0 => stops[p] > 0
    BY <1>1, Resumes DEF CoverInv
<1>6. PhaseInv'
    BY <1>1, <1>2, <1>4 DEF CoverInv, PhaseInv
<1>7. StopsInv' /\ TrackedInv' /\ TimerInv' /\ TreeInv'
    BY <1>1, <1>2, <1>3, <1>5 DEF CoverInv, StopsInv, TrackedInv, TimerInv, TreeInv
<1>8. WholeInv'
    BY <1>1, <1>2 DEF CoverInv, WholeInv, Pending
<1>9. SuspendedIsCovered'
    BY <1>1, <1>2, <1>5 DEF CoverInv, SuspendedIsCovered, AwaitsResume
<1>10. QED
    BY <1>6, <1>7, <1>8, <1>9 DEF CoverInv

LEMMA CoverProcessExits ==
    ASSUME CoverInv, ThrottleTypes', NEW q \in living, TargetExits(q)
    PROVE  CoverInv'
<1>1. living' = living \ {q} /\ UNCHANGED <<stage, todo, suspended, actuator, timers, tracked>>
    BY DEF TargetExits
<1>2. \A p \in Processes :
          /\ AwaitsResume(p)' => p # q /\ AwaitsResume(p)
          /\ stops'[p] > 0 => p # q /\ stops[p] > 0
    BY Ends DEF CoverInv, ThrottleTypes
<1>3. PhaseInv' /\ StopsInv'
    BY <1>1, <1>2 DEF CoverInv, PhaseInv, StopsInv
<1>4. TrackedInv' /\ WholeInv'
    BY <1>1 DEF CoverInv, TrackedInv, WholeInv, TimerIds
<1>5. TimerInv' /\ TreeInv'
    BY <1>1 DEF CoverInv, TimerInv, TreeInv, TimerIds
<1>6. SuspendedIsCovered'
    BY <1>1, <1>2 DEF CoverInv, SuspendedIsCovered, AwaitsResume, TimerIds
<1>7. QED
    BY <1>3, <1>4, <1>5, <1>6 DEF CoverInv
LEMMA CoverStep ==
    ASSUME DisjointTrees
    PROVE  CoverInv /\ [ThrottleNext]_throttleVars => CoverInv'
<1> SUFFICES ASSUME CoverInv, [ThrottleNext]_throttleVars PROVE CoverInv'
    OBVIOUS
<1>1. ThrottleTypes'
    BY TypeStep DEF CoverInv
<1>2. ASSUME NEW tree \in Trees, BeginThrottle(tree) PROVE CoverInv'
    BY <1>1, <1>2, CoverBegin
<1>3. CASE ServiceStep
    <2>1. ASSUME NEW q \in Processes, SuspendOne(q) PROVE CoverInv'
        BY <1>1, <2>1, CoverSuspendOne
    <2>2. ASSUME NEW q \in Processes, ShutdownResumesOne(q) PROVE CoverInv'
        BY <1>1, <2>2, CoverShutdownResumes
    <2>3. QED
        BY <1>1, <1>3, <2>1, <2>2, CoverAllSuspended, CoverRecord, CoverStart, CoverExit
        DEF ServiceStep
<1>4. ASSUME NEW i \in TimerIds, TimerStep(i) PROVE CoverInv'
    <2>1. ASSUME NEW q \in Processes, TimerResumesOne(i, q) PROVE CoverInv'
        BY <1>1, <2>1, CoverResumes
    <2>2. QED
        BY <1>1, <1>4, <2>1, CoverFires, CoverForgets DEF TimerStep
<1>5. ASSUME NEW q \in living, TargetExits(q) PROVE CoverInv'
    BY <1>1, <1>5, CoverProcessExits
<1>6. CASE UNCHANGED throttleVars
    <2>1. UNCHANGED <<living, stops, roused, stage, todo, suspended, actuator, timers, tracked>>
        BY <1>6 DEF throttleVars
    <2>2. PhaseInv' /\ StopsInv' /\ TrackedInv'
        BY <2>1 DEF CoverInv, PhaseInv, StopsInv, TrackedInv
    <2>3. TimerInv' /\ TreeInv'
        BY <2>1 DEF CoverInv, TimerInv, TreeInv, TimerIds
    <2>4. WholeInv' /\ SuspendedIsCovered'
        BY <2>1 DEF CoverInv, WholeInv, SuspendedIsCovered, AwaitsResume, TimerIds
    <2>5. QED
        BY <1>1, <2>2, <2>3, <2>4 DEF CoverInv
<1>7. QED
    BY <1>1, <1>2, <1>3, <1>4, <1>5, <1>6, CoverReload, CoverShutdown DEF ThrottleNext

\* Whatever the timers, the reloads and the processes do, and for any number of
\* throttles: as long as the service runs, each process that _execute_throttle
\* suspended has somebody about to resume it.  Needs that kill roots are disjoint.
THEOREM SuspendedAreCovered ==
    ASSUME DisjointTrees
    PROVE  ThrottleSpec => []SuspendedIsCovered
<1>1. CoverInv => SuspendedIsCovered
    BY DEF CoverInv
<1>2. QED
    BY <1>1, InitCover, CoverStep, PTL DEF ThrottleSpec
-----------------------------------------------------------------------------
(* What an ended service leaves behind; here kill roots may overlap.       *)

LEMMA InitExit == ThrottleInit => ExitInv
BY DEF ThrottleInit, ExitInv, AwaitsResume

LEMMA ExitServiceStep ==
    ASSUME ThrottleTypes, ExitInv, ServiceStep
    PROVE  ExitInv'
<1>1. ASSUME NEW q \in Processes, SuspendOne(q) PROVE ExitInv'
    <2>1. /\ stage = "suspending"
          /\ IF q \in living \ Denied
             THEN Suspend(q) /\ suspended' = suspended \cup {q}
             ELSE UNCHANGED <<stops, roused, suspended>>
          /\ UNCHANGED <<stage, actuator, timers, tracked>>
        BY <1>1 DEF SuspendOne
    <2>2. \A p \in Processes : AwaitsResume(p)' => p \in suspended' \/ AwaitsResume(p)
        BY <2>1, Suspends DEF AwaitsResume
    <2>3. suspended \subseteq suspended'
        BY <2>1
    <2>4. QED
        BY <2>1, <2>2, <2>3 DEF ExitInv, AwaitsResume, TimerIds
<1>2. ASSUME NEW q \in Processes, ShutdownResumesOne(q) PROVE ExitInv'
    <2>1. /\ stage = "resuming" /\ todo' = todo \ {q} /\ Resume(q)
          /\ UNCHANGED <<stage, suspended, actuator, timers, tracked>>
        BY <1>2 DEF ShutdownResumesOne
    <2>2. \A p \in Processes : AwaitsResume(p)' => p # q /\ AwaitsResume(p)
        BY <2>1, Resumes
    <2>3. QED
        BY <2>1, <2>2 DEF ExitInv, AwaitsResume, TimerIds
<1>3. CASE AllSuspended
    BY <1>3 DEF AllSuspended, ExitInv, AwaitsResume, TimerIds
<1>4. CASE Record
    <2>1. stage = "recording" /\ stage' = "starting" /\ UNCHANGED <<stops, roused, actuator>>
        BY <1>4 DEF Record
    <2>2. /\ Len(timers) \in Nat /\ Len(timers') = Len(timers) + 1
          /\ TimerIds' = TimerIds \cup {Len(timers) + 1}
          /\ \A i \in TimerIds :
                /\ timers'[i].left = timers[i].left
                /\ timers[i].state = "resuming" => timers'[i].state = "resuming"
        BY <1>4, RecordShape, LenProperties DEF ThrottleTypes, Pending
    <2>3. \A a \in 1..MaxActuators, p \in Processes :
              tracked'[a][p] = IF a = actuator /\ p \in suspended
                               THEN Len(timers) + 1 ELSE tracked[a][p]
        BY <1>4, RecordShape
    <2>4. actuator \in 1..MaxActuators
        BY DEF ThrottleTypes
    <2>5. QED
        BY <2>1, <2>2, <2>3, <2>4 DEF ExitInv, AwaitsResume
<1>5. CASE StartTimer
    <2>1. stage = "starting" /\ stage' = "idle" /\ UNCHANGED <<stops, roused, actuator, tracked>>
        BY <1>5 DEF StartTimer
    <2>2. /\ TimerIds' = TimerIds
          /\ \A i \in TimerIds :
                /\ timers'[i].left = timers[i].left
                /\ timers[i].state = "resuming" => timers'[i].state = "resuming"
        BY <1>5, <2>1, StartShape DEF ExitInv, AwaitsResume
    <2>3. QED
        BY <2>1, <2>2 DEF ExitInv, AwaitsResume
<1>6. CASE Exit
    BY <1>6 DEF Exit, ExitInv, AwaitsResume, TimerIds
<1>7. QED
    BY <1>1, <1>2, <1>3, <1>4, <1>5, <1>6 DEF ServiceStep

LEMMA ExitTimerStep ==
    ASSUME ThrottleTypes, ExitInv, NEW k \in TimerIds, TimerStep(k)
    PROVE  ExitInv'
<1>1. CASE TimerFires(k)
    <2>1. UNCHANGED <<stops, roused, stage, todo, suspended, actuator, tracked>>
        BY <1>1 DEF TimerFires
    <2>2. /\ TimerIds' = TimerIds /\ Len(timers') = Len(timers)
          /\ \A i \in TimerIds :
                /\ timers'[i].left = timers[i].left
                /\ timers[i].state = "resuming" => timers'[i].state = "resuming"
        BY <1>1, FiresShape
    <2>3. QED
        BY <2>1, <2>2 DEF ExitInv, AwaitsResume
<1>2. CASE TimerForgets(k)
    <2>1. UNCHANGED <<stops, roused, stage, todo, suspended, actuator>>
        BY <1>2 DEF TimerForgets
    <2>2. /\ TimerIds' = TimerIds /\ Len(timers') = Len(timers)
          /\ timers'[k].state = "resuming" /\ timers'[k].left = timers[k].pids
          /\ \A i \in TimerIds :
                timers[i].state = "resuming" =>
                    timers'[i].state = "resuming" /\ timers'[i].left = timers[i].left
        BY <1>2, ForgetsShape
    <2>3. \A a \in 1..MaxActuators, p \in Processes :
              \/ tracked'[a][p] = tracked[a][p]
              \/ tracked'[a][p] = 0 /\ p \in timers[k].pids
        BY <1>2, ForgetsShape
    <2>4. actuator \in 1..MaxActuators
        BY DEF ThrottleTypes
    <2>5. QED
        BY <2>1, <2>2, <2>3, <2>4 DEF ExitInv, AwaitsResume
<1>3. ASSUME NEW q \in Processes, TimerResumesOne(k, q) PROVE ExitInv'
    <2>1. Resume(q) /\ UNCHANGED <<stage, todo, suspended, actuator, tracked>>
        BY <1>3 DEF TimerResumesOne
    <2>2. /\ TimerIds' = TimerIds /\ Len(timers') = Len(timers)
          /\ \A i \in TimerIds, p \in Processes :
                p # q /\ timers[i].state = "resuming" /\ p \in timers[i].left =>
                    timers'[i].state = "resuming" /\ p \in timers'[i].left
        <3>1. /\ TimerIds' = TimerIds /\ Len(timers') = Len(timers)
              /\ \A i \in TimerIds :
                    /\ timers'[i].left = IF i = k THEN timers[k].left \ {q} ELSE timers[i].left
                    /\ timers'[i].state = IF i = k /\ timers[k].left = {q}
                                          THEN "done" ELSE timers[i].state
            BY <1>3, ResumesShape
        <3>2. QED
            BY <3>1
    <2>3. \A p \in Processes : AwaitsResume(p)' => p # q /\ AwaitsResume(p)
        BY <2>1, Resumes
    <2>4. QED
        BY <2>1, <2>2, <2>3 DEF ExitInv, AwaitsResume
<1>4. QED
    BY <1>1, <1>2, <1>3 DEF TimerStep

LEMMA ExitStep == ThrottleTypes /\ ExitInv /\ [ThrottleNext]_throttleVars => ExitInv'
<1> SUFFICES ASSUME ThrottleTypes, ExitInv, [ThrottleNext]_throttleVars PROVE ExitInv'
    OBVIOUS
<1>1. ASSUME NEW tree \in Trees, BeginThrottle(tree) PROVE ExitInv'
    BY <1>1 DEF BeginThrottle, ExitInv, AwaitsResume, TimerIds
<1>2. CASE Reload
    BY <1>2 DEF Reload, ExitInv, AwaitsResume, ThrottleTypes
<1>3. CASE BeginShutdown
    <2>1. /\ stage = "idle" /\ stage' = "resuming" /\ UNCHANGED <<stops, roused, actuator>>
          /\ todo' = {p \in Processes : tracked[actuator][p] # 0}
          /\ actuator \in 1..MaxActuators
        BY <1>3 DEF BeginShutdown, TakeTracked, ThrottleTypes
    <2>2. /\ TimerIds' = TimerIds
          /\ \A i \in TimerIds :
                /\ timers'[i].left = timers[i].left
                /\ timers[i].state = "resuming" => timers'[i].state = "resuming"
          /\ \A a \in 1..MaxActuators, p \in Processes :
                tracked'[a][p] = IF a = actuator THEN 0 ELSE tracked[a][p]
        BY <1>3, ShutdownShape DEF Pending
    <2>3. QED
        BY <2>1, <2>2 DEF ExitInv, AwaitsResume
<1>4. ASSUME NEW q \in living, TargetExits(q) PROVE ExitInv'
    <2>1. UNCHANGED <<stage, todo, suspended, actuator, timers, tracked>>
        BY <1>4 DEF TargetExits
    <2>2. \A p \in Processes : AwaitsResume(p)' => AwaitsResume(p)
        BY <1>4, Ends DEF ThrottleTypes
    <2>3. QED
        BY <2>1, <2>2 DEF ExitInv, AwaitsResume, TimerIds
<1>5. CASE UNCHANGED throttleVars
    BY <1>5 DEF throttleVars, ExitInv, AwaitsResume, TimerIds
<1>6. QED
    BY <1>1, <1>2, <1>3, <1>4, <1>5, ExitServiceStep, ExitTimerStep DEF ThrottleNext

\* shutdown() of a service that never reloaded leaves no process suspended but
\* those a timer thread had taken over; for any processes and any kill roots.
THEOREM ExitLeavesInFlight == ThrottleSpec => []ExitLeavesOnlyInFlight
<1>1. ExitInv => ExitLeavesOnlyInFlight
    BY DEF ExitInv, AwaitsResume, ExitLeavesOnlyInFlight
<1>2. QED
    BY <1>1, InitTypes, TypeStep, InitExit, ExitStep, PTL DEF ThrottleSpec
=============================================================================
