------------------------------ MODULE Throttle ------------------------------
(***************************************************************************)
(* The throttle action of the actuator (src/atfield/actuator.py): suspend a *)
(* process tree and let a timer resume it.  The service thread suspends,    *)
(* reloads (a new Actuator replaces the old one) and shuts down; every      *)
(* threading.Timer is a thread of its own, and meets the service thread     *)
(* only at the lock of _active_throttles.  Durations are not modelled: a    *)
(* started timer may fire at any later moment.                              *)
(***************************************************************************)
EXTENDS Integers, Sequences

CONSTANTS
    Processes,              \* processes the actuator may target
    Trees,             \* target sets of the kill roots
    Denied,            \* processes the OS does not let us suspend
    Nested,            \* suspends nest: TRUE for NtSuspendProcess, FALSE for SIGSTOP
    MaxThrottles,      \* bound: throttles in a behaviour
    MaxActuators       \* bound: 1 + reloads

ASSUME TreesAssumption == Trees \subseteq SUBSET Processes /\ Denied \subseteq Processes

ASSUME ThrottleBounds ==
    /\ Nested \in BOOLEAN
    /\ MaxThrottles \in Nat
    /\ MaxActuators \in Nat \ {0}

VARIABLES
    living,            \* processes that have not exited
    stops,             \* stops[p]: how often the OS has p suspended
    roused,            \* resumed since last suspended, and yet suspended: stops nested
    stage,             \* where the service thread is
    todo,              \* processes it still has to suspend or to resume
    suspended,         \* processes this throttle has suspended
    actuator,          \* the current Actuator: 1 + the reloads so far
    timers,            \* all threading.Timers: actuator, pids, state, left
    tracked            \* tracked[a][p]: timer in a's _active_throttles, 0 for none

throttleVars == <<living, stops, roused, stage, todo, suspended, actuator, timers, tracked>>

TimerIds == 1..Len(timers)

TimerStates == {"new", "waiting", "cancelled", "fired", "resuming", "done"}

Timer == [of : 1..MaxActuators, pids : SUBSET Processes, state : TimerStates, left : SUBSET Processes]

ThrottleTypes ==
    /\ living \subseteq Processes
    /\ stops \in [Processes -> Nat]
    /\ roused \subseteq Processes
    /\ stage \in {"idle", "suspending", "recording", "starting", "resuming", "exited"}
    /\ todo \subseteq Processes
    /\ suspended \subseteq Processes
    /\ actuator \in 1..MaxActuators
    /\ timers \in Seq(Timer)
    /\ tracked \in [1..MaxActuators -> [Processes -> 0..Len(timers)]]

ThrottleInit ==
    /\ living = Processes
    /\ stops = [p \in Processes |-> 0]
    /\ roused = {}
    /\ stage = "idle"
    /\ todo = {}
    /\ suspended = {}
    /\ actuator = 1
    /\ timers = <<>>
    /\ tracked = [a \in 1..MaxActuators |-> [p \in Processes |-> 0]]
-----------------------------------------------------------------------------
(* The operating system.                                                   *)

Suspend(p) ==
    /\ stops' = [stops EXCEPT ![p] = IF Nested THEN @ + 1 ELSE 1]
    /\ roused' = roused \ {p}

\* Resuming a process that is not suspended, or gone, does nothing.
Resume(p) ==
    /\ stops' = [stops EXCEPT ![p] = IF Nested /\ @ > 0 THEN @ - 1 ELSE 0]
    /\ roused' = IF stops'[p] > 0 THEN roused \cup {p} ELSE roused \ {p}

TargetExits(p) ==
    /\ living' = living \ {p}
    /\ stops' = [stops EXCEPT ![p] = 0]
    /\ roused' = roused \ {p}
    /\ UNCHANGED <<stage, todo, suspended, actuator, timers, tracked>>
-----------------------------------------------------------------------------
(* The service thread: _execute_throttle().                                *)

\* The targets are chosen: what is living of the tree under the kill root.
BeginThrottle(tree) ==
    /\ stage = "idle"
    /\ Len(timers) < MaxThrottles
    /\ tree \cap living # {}
    /\ stage' = "suspending"
    /\ todo' = tree \cap living
    /\ suspended' = {}
    /\ UNCHANGED <<living, stops, roused, actuator, timers, tracked>>

SuspendOne(p) ==
    /\ stage = "suspending"
    /\ p \in todo
    /\ todo' = todo \ {p}
    /\ IF p \in living \ Denied
       THEN Suspend(p) /\ suspended' = suspended \cup {p}
       ELSE UNCHANGED <<stops, roused, suspended>>
    /\ UNCHANGED <<living, stage, actuator, timers, tracked>>

AllSuspended ==
    /\ stage = "suspending"
    /\ todo = {}
    /\ stage' = IF suspended = {} THEN "idle" ELSE "recording"
    /\ UNCHANGED <<living, stops, roused, todo, suspended, actuator, timers, tracked>>

\* Timer.cancel() on some of the timers: no effect once the wait is over.
Cancel(ids, ts) ==
    [i \in DOMAIN ts |->
        IF i \in ids /\ ts[i].state \in {"new", "waiting"}
        THEN [ts[i] EXCEPT !.state = "cancelled"] ELSE ts[i]]

NewTimer == [of |-> actuator, pids |-> suspended, state |-> "new", left |-> {}]

FaultyTrackThrottle_CancelAfterStore ==
    LET id == Len(timers) + 1
    IN  /\ tracked' = [tracked EXCEPT ![actuator] =
                         [p \in Processes |-> IF p \in suspended THEN id ELSE @[p]]]
        /\ timers' = Cancel({tracked'[actuator][p] : p \in suspended}, Append(timers, NewTimer))

\* For each suspended process: pop and cancel its timer, store the new one.
TrackThrottle ==
    LET id     == Len(timers) + 1
        priors == {tracked[actuator][p] : p \in suspended} \ {0}
    IN  /\ tracked' = [tracked EXCEPT ![actuator] =
                         [p \in Processes |-> IF p \in suspended THEN id ELSE @[p]]]
        /\ timers' = Append(Cancel(priors, timers), NewTimer)

\* Under _throttle_lock.
Record ==
    /\ stage = "recording"
    /\ TrackThrottle
    /\ stage' = "starting"
    /\ UNCHANGED <<living, stops, roused, todo, suspended, actuator>>

FaultyStarted_Forgotten(timer) == timer

\* A timer that was cancelled before its start never waits.
Started(timer) == [timer EXCEPT !.state = IF @ = "new" THEN "waiting" ELSE @]

\* timer.start(), outside the lock.
StartTimer ==
    /\ stage = "starting"
    /\ timers' = [timers EXCEPT ![Len(timers)] = Started(@)]
    /\ stage' = "idle"
    /\ suspended' = {}
    /\ UNCHANGED <<living, stops, roused, todo, actuator, tracked>>

\* A reload builds a new Actuator; the old one is dropped with its timers live.
Reload ==
    /\ stage = "idle"
    /\ actuator < MaxActuators
    /\ actuator' = actuator + 1
    /\ UNCHANGED <<living, stops, roused, stage, todo, suspended, timers, tracked>>
-----------------------------------------------------------------------------
(* The timer threads: _resume_pids().                                      *)

\* The wait is over and the timer was not cancelled.
TimerFires(i) ==
    /\ stage # "exited"
    /\ timers[i].state = "waiting"
    /\ timers' = [timers EXCEPT ![i].state = "fired"]
    /\ UNCHANGED <<living, stops, roused, stage, todo, suspended, actuator, tracked>>

\* Under the lock: forget the processes, whichever timer tracks them now.
TimerForgets(i) ==
    /\ stage # "exited"
    /\ timers[i].state = "fired"
    /\ tracked' = [tracked EXCEPT ![timers[i].of] =
                     [p \in Processes |-> IF p \in timers[i].pids THEN 0 ELSE @[p]]]
    /\ timers' = [timers EXCEPT ![i].state = "resuming", ![i].left = timers[i].pids]
    /\ UNCHANGED <<living, stops, roused, stage, todo, suspended, actuator>>

TimerResumesOne(i, p) ==
    /\ stage # "exited"
    /\ timers[i].state = "resuming"
    /\ p \in timers[i].left
    /\ Resume(p)
    /\ timers' = [timers EXCEPT ![i].left = @ \ {p},
                                ![i].state = IF timers[i].left = {p} THEN "done" ELSE @]
    /\ UNCHANGED <<living, stage, todo, suspended, actuator, tracked>>
-----------------------------------------------------------------------------
(* The service's finally block: shutdown() of the current actuator.        *)

FaultyTakeTracked_Nothing == todo' = {}

\* Copy the tracked processes, to be resumed below.
TakeTracked == todo' = {p \in Processes : tracked[actuator][p] # 0}

BeginShutdown ==
    /\ stage = "idle"
    /\ stage' = "resuming"
    /\ TakeTracked
    /\ timers' = Cancel({tracked[actuator][p] : p \in Processes}, timers)
    /\ tracked' = [tracked EXCEPT ![actuator] = [p \in Processes |-> 0]]
    /\ UNCHANGED <<living, stops, roused, suspended, actuator>>

ShutdownResumesOne(p) ==
    /\ stage = "resuming"
    /\ p \in todo
    /\ Resume(p)
    /\ todo' = todo \ {p}
    /\ UNCHANGED <<living, stage, suspended, actuator, timers, tracked>>

\* The process ends and its daemon timer threads with it.
Exit ==
    /\ stage = "resuming"
    /\ todo = {}
    /\ stage' = "exited"
    /\ UNCHANGED <<living, stops, roused, todo, suspended, actuator, timers, tracked>>
-----------------------------------------------------------------------------
ServiceStep ==
    \/ \E p \in Processes : SuspendOne(p) \/ ShutdownResumesOne(p)
    \/ AllSuspended
    \/ Record
    \/ StartTimer
    \/ Exit

TimerStep(i) ==
    \/ TimerFires(i)
    \/ TimerForgets(i)
    \/ \E p \in Processes : TimerResumesOne(i, p)

ThrottleNext ==
    \/ \E tree \in Trees : BeginThrottle(tree)
    \/ ServiceStep
    \/ Reload
    \/ BeginShutdown
    \/ \E i \in TimerIds : TimerStep(i)
    \/ \E p \in living : TargetExits(p)

ThrottleSpec == ThrottleInit /\ [][ThrottleNext]_throttleVars

\* The service thread runs on once it has begun, and so does every timer:
\* a wait ends, the lock is only held for a moment.
ThrottleFairSpec ==
    /\ ThrottleSpec
    /\ WF_throttleVars(ServiceStep)
    /\ \A i \in 1..MaxThrottles : WF_throttleVars(i \in TimerIds /\ TimerStep(i))
-----------------------------------------------------------------------------
\* Suspended, and not resumed since it was suspended last.
AwaitsResume(p) == stops[p] > 0 /\ p \notin roused

\* As long as the service runs, someone is about to resume each process that
\* still awaits its resume: its timer, a timer thread past the lock, or the
\* service thread.  Where suspends nest, that one resume need not wake it.
SuspendedIsCovered ==
    stage # "exited" =>
        \A p \in Processes :
            AwaitsResume(p) =>
                \/ p \in suspended
                \/ stage = "resuming" /\ p \in todo
                \/ \E i \in TimerIds :
                      \/ timers[i].state \in {"new", "waiting", "fired"} /\ p \in timers[i].pids
                      \/ timers[i].state = "resuming" /\ p \in timers[i].left

\* "We don't leave training jobs paused indefinitely": when a service that never
\* replaced its actuator has ended, a process it has not resumed since the last
\* suspend is one a timer thread had taken over, cut off between lock and resume.
ExitLeavesOnlyInFlight ==
    stage = "exited" /\ actuator = 1 =>
        \A p \in Processes :
            AwaitsResume(p) =>
                \E i \in TimerIds : timers[i].state = "resuming" /\ p \in timers[i].left

\* Every suspend is followed by a resume of the process, as long as the service
\* runs: what one throttle suspends is never left without any resume at all.
EverySuspendIsAnswered ==
    \A p \in Processes : AwaitsResume(p) ~> (~AwaitsResume(p) \/ stage = "exited")

\* A suspended process runs again in the end ("suspend ... then resume it").
EventuallyResumed ==
    \A p \in Processes : stops[p] > 0 ~> (stops[p] = 0 \/ stage = "exited")
=============================================================================
