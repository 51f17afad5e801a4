---------------------------- MODULE SensorProofs ----------------------------
(***************************************************************************)
(* What is proved of the components around the sensors, for any thresholds, *)
(* limits, processes and sequences of failures: the self-restart that a GPU *)
(* collector asks for (SelfRestart), the readings of the helper (LhmHelper), *)
(* the child of the LHM supervisor (LhmSupervisor), what GPU sensors are     *)
(* published as (SensorDiscovery), the mirror of signals that the API reads  *)
(* (StateMirror), and presence (InputIdle).                                  *)
(***************************************************************************)
EXTENDS SelfRestart, LhmHelper, LhmSupervisor, SensorDiscovery, StateMirror,
        InputIdle, Recursion, SequenceTheorems

(* SelfRestart: a collector asks, the budget of the loop decides.            *)

\* What is proved of the loop for any collector.
AnyLoop == INSTANCE RestartBudgetProofs

\* While the collector counts a run of failing ticks, that run is no longer
\* than the time without a good tick, a jump of the clock or a probe.
RunInv ==
    /\ failingFor \in Never..Persistent /\ goodFor \in 0..Persistent
    /\ failingFor # Never => failingFor <= goodFor
-----------------------------------------------------------------------------
\* A request of the collector starts nothing but a request of the loop.
LEMMA RequestStays == ASSUME Sample PROVE wants => wants'
BY DEF Sample, Request, wants

\* Each step of the two is a step of the loop, or none that it can tell.
LEMMA StepIsLoopStep == [Next]_vars => [Loop!Next]_(Loop!vars)
<1> SUFFICES ASSUME [Next]_vars PROVE [Loop!Next]_(Loop!vars)
    OBVIOUS
<1>1. CASE Poll
    <2>1. up /\ UNCHANGED loopVars
        BY <1>1 DEF Poll
    <2>2. CASE gpuHealth = "failed"
        <3>1. UNCHANGED asks
            BY <1>1, <2>2 DEF Poll, nvmlVars, session
        <3>2. QED
            BY <2>1, <3>1 DEF Loop!vars, loopVars, wants
    <2>3. CASE gpuHealth # "failed"
        <3>1. wants => wants'
            BY <1>1, <2>3, RequestStays DEF Poll
        <3>2. CASE wants = wants'
            BY <2>1, <3>2 DEF Loop!vars, loopVars
        <3>3. CASE ~wants /\ wants'
            <4>1. Loop!CollectorGivesUp
                BY <2>1, <3>3 DEF Loop!CollectorGivesUp, loopVars, wants
            <4>2. QED
                BY <4>1 DEF Loop!Next
        <3>4. QED
            BY <3>1, <3>2, <3>3 DEF wants
    <2>4. QED
        BY <2>2, <2>3
<1>2. CASE GoOn
    BY <1>2 DEF GoOn, Loop!Next, Loop!Loop
<1>3. CASE Answer
    BY <1>3 DEF Answer, Loop!Next, Loop!Loop
<1>4. CASE Stop
    BY <1>4 DEF Stop, Loop!Next
<1>5. CASE Start
    <2>1. Loop!Start
        BY <1>5 DEF Start, Probe, Loop!Start, wants
    <2>2. QED
        BY <2>1 DEF Loop!Next
<1>6. CASE Driver
    <2>1. UNCHANGED <<asks, loopVars>>
        BY <1>6 DEF Driver, Install, InstallEnds, Breaks, session
    <2>2. QED
        BY <2>1 DEF Loop!vars, loopVars, wants
<1>7. CASE UNCHANGED vars
    BY <1>7 DEF vars, nvmlVars, session, loopVars, Loop!vars, wants
<1>8. QED
    BY <1>1, <1>2, <1>3, <1>4, <1>5, <1>6, <1>7 DEF Next

\* A collector that follows nvml.py makes the loop the one whose budget is
\* proved: it asks at any time and never takes that back.
THEOREM CollectorFitsTheLoop == Spec => ImplementsRestartBudget
<1>1. Init => Loop!Init
    BY DEF Init, NvmlInit, Loop!Init, wants
<1>2. QED
    BY <1>1, StepIsLoopStep, PTL DEF Spec, ImplementsRestartBudget, Loop!Spec
-----------------------------------------------------------------------------
\* Both modules count with the same operator.
LEMMA SameCount == \A S : Loop!Cardinality(S) = AnyLoop!Cardinality(S)
BY DEF Loop!Cardinality, AnyLoop!Cardinality

\* So what is proved of that loop holds of this one.
LEMMA LoopInvariant == Spec => []AnyLoop!IInv
<1>1. AnyLoop!Bounds
    BY LimitsAssumption DEF AnyLoop!Bounds
<1>2. Init => AnyLoop!IInv
    <2>1. Init => AnyLoop!Init
        BY DEF Init, NvmlInit, AnyLoop!Init, wants
    <2>2. QED
        BY <1>1, <2>1, AnyLoop!InitIInv
<1>3. AnyLoop!IInv /\ [Next]_vars => AnyLoop!IInv'
    <2>1. [Loop!Next]_(Loop!vars) => [AnyLoop!Next]_(AnyLoop!vars)
        BY SameCount DEF Loop!Next, Loop!vars, Loop!Loop, Loop!TickOn, Loop!SelfRestart,
               Loop!BudgetSpent, Loop!CollectorGivesUp, Loop!Stop, Loop!Start,
               Loop!RestartDue, Loop!RestartAllowed, Loop!Recent,
               Loop!Readings, AnyLoop!Readings, Loop!RecordRestart, Loop!Older, Loop!Aged, AnyLoop!Next,
               AnyLoop!vars, AnyLoop!Loop, AnyLoop!TickOn, AnyLoop!SelfRestart,
               AnyLoop!BudgetSpent, AnyLoop!CollectorGivesUp, AnyLoop!Stop,
               AnyLoop!Start, AnyLoop!RestartDue, AnyLoop!RestartAllowed,
               AnyLoop!Recent, AnyLoop!RecordRestart, AnyLoop!Older,
               AnyLoop!Aged
    <2>2. QED
        BY <1>1, <2>1, StepIsLoopStep, AnyLoop!StepIInv
<1>4. QED
    BY <1>2, <1>3, PTL DEF Spec

\* A GPU collector that asks whenever it likes never crash-loops the watchdog:
\* of the self-restarts since the budget file last failed at most the budget
\* falls in any window, and with any file two of them are an uptime floor apart.
THEOREM BudgetHoldsForTheCard == Spec => []RestartsBounded
<1>1. AnyLoop!Bounds
    BY LimitsAssumption DEF AnyLoop!Bounds
<1>2. AnyLoop!WithinBudget => Loop!WithinBudget
    BY SameCount DEF Loop!WithinBudget, AnyLoop!WithinBudget
<1>3. AnyLoop!RestartsApart => Loop!RestartsApart
    BY DEF Loop!RestartsApart, AnyLoop!RestartsApart
<1>4. AnyLoop!IInv => RestartsBounded
    BY <1>1, <1>2, <1>3, AnyLoop!IInvIsEnough
       DEF RestartsBounded, Loop!RestartsBounded, AnyLoop!RestartsBounded
<1>5. QED
    BY <1>4, LoopInvariant, PTL
-----------------------------------------------------------------------------
\* No failing tick has been counted at the start.
LEMMA InitRunInv == Init => RunInv
BY LimitsAssumption DEF Init, NvmlInit, RunInv, Never

\* Every step of the collector and of the loop keeps it.
LEMMA StepRunInv == RunInv /\ [Next]_vars => RunInv'
<1> SUFFICES ASSUME RunInv, [Next]_vars PROVE RunInv'
    OBVIOUS
<1> USE LimitsAssumption DEF RunInv, Never
<1>1. ASSUME Sample PROVE RunInv'
    <2>1. PICK fails \in BOOLEAN :
            /\ failingFor' = FailingSince(fails)
            /\ goodFor' = IF gap \/ ~fails THEN 0 ELSE goodFor
        BY <1>1 DEF Sample
    <2>2. CASE ~fails
        BY <2>1, <2>2 DEF FailingSince
    <2>3. CASE fails
        BY <2>1, <2>3 DEF FailingSince
    <2>4. QED
        BY <2>2, <2>3
<1>2. ASSUME NEW d \in 1..SlowestTick, Pass(d) PROVE RunInv'
    BY <1>2 DEF Pass, Later, Bounded
<1>3. ASSUME Probe PROVE RunInv'
    BY <1>3 DEF Probe
<1>4. ASSUME UNCHANGED <<failingFor, goodFor>> PROVE RunInv'
    BY <1>4
<1>5. CASE Poll
    BY <1>1, <1>4, <1>5 DEF Poll, nvmlVars, session
<1>6. CASE GoOn
    BY <1>2, <1>6 DEF GoOn
<1>7. CASE Answer \/ Stop
    BY <1>4, <1>7 DEF Answer, Stop, nvmlVars, session
<1>8. CASE Start
    BY <1>3, <1>8 DEF Start
<1>9. CASE Driver
    BY <1>4, <1>9 DEF Driver, Install, InstallEnds, Breaks, session
<1>10. CASE UNCHANGED vars
    BY <1>4, <1>10 DEF vars, nvmlVars, session
<1>11. QED
    BY <1>5, <1>6, <1>7, <1>8, <1>9, <1>10 DEF Next

\* Only a sample makes a request, and one for a failing card only at the end
\* of a run that is long enough and that no jump of the clock has begun anew.
LEMMA StepIsPersistent ==
    RunInv /\ [Next]_vars =>
        (asks = "no" /\ asks' = "failing" => ~gap /\ goodFor >= Persistent)
<1> SUFFICES ASSUME RunInv, [Next]_vars, asks = "no", asks' = "failing"
             PROVE  ~gap /\ goodFor >= Persistent
    OBVIOUS
<1>1. Sample
    <2>1. asks # asks' /\ asks' # "no"
        OBVIOUS
    <2>2. ~(GoOn \/ Answer \/ Stop \/ Start \/ Driver \/ UNCHANGED vars)
        BY <2>1 DEF GoOn, Pass, Answer, Stop, Start, Probe, Driver, Install, InstallEnds,
                    Breaks, vars, nvmlVars, session
    <2>3. QED
        BY <2>1, <2>2 DEF Next, Poll, nvmlVars, session
<1>2. PICK fails \in BOOLEAN : asks' = Request(fails)
    BY <1>1 DEF Sample
<1>3. FailingSince(fails) >= Persistent
    BY <1>2 DEF Request
<1>4. fails /\ failingFor # Never /\ ~gap
    BY <1>3, LimitsAssumption DEF FailingSince, Never
<1>5. QED
    BY <1>3, <1>4, LimitsAssumption DEF FailingSince, RunInv, Never

\* A failure that a good tick, a jump of the clock or a new process interrupts
\* never costs a restart of the watchdog, whatever the thresholds.
THEOREM TransientsAreSpared == Spec => NoRestartForATransient
<1>1. Init => RunInv
    BY InitRunInv
<1>2. RunInv /\ [Next]_vars => RunInv'
    BY StepRunInv
<1>3. RunInv /\ [Next]_vars =>
        (asks = "no" /\ asks' = "failing" => ~gap /\ goodFor >= Persistent)
    BY StepIsPersistent
<1>4. QED
    BY <1>1, <1>2, <1>3, PTL DEF Spec, NoRestartForATransient

-----------------------------------------------------------------------------
(* LhmHelper: no reading is served that is too old.                         *)

\* The line in memory was printed no longer before it was read than the pipe
\* held it; the collector knows the time of reading alone.
AgeInv ==
    /\ stamp = NoLine <=> born = NoLine
    /\ born <= stamp + ReaderDelay

HelperInv == HelperTypes /\ AgeInv /\ ServedIsFresh
-----------------------------------------------------------------------------
\* Nothing has been read at the start.
LEMMA InitHelperInv == HelperInit => HelperInv
BY HelperAssumption DEF HelperInit, HelperInv, HelperTypes, AgeInv, ServedIsFresh,
   NoLine, AgeCap, SpawnCap

\* A second passes for a line that was read, up to the cap.
LEMMA AgedTogether ==
    ASSUME stamp \in NoLine..AgeCap, born \in NoLine..AgeCap, AgeInv
    PROVE  /\ Aged(stamp, AgeCap) \in NoLine..AgeCap
           /\ Aged(born, AgeCap) \in NoLine..AgeCap
           /\ Aged(stamp, AgeCap) = NoLine <=> Aged(born, AgeCap) = NoLine
           /\ Aged(born, AgeCap) <= Aged(stamp, AgeCap) + ReaderDelay
BY HelperAssumption DEF AgeInv, Aged, AgeCap, NoLine

\* A new helper changes nothing that has been read.
LEMMA SpawnTypes ==
    ASSUME spawnFailures \in 0..MaxSpawnFailures, Spawn
    PROVE  /\ sinceSpawn' \in 0..SpawnCap
           /\ helper' \in {"mute", "none"}
           /\ spawnFailures' \in 0..MaxSpawnFailures
BY HelperAssumption DEF Spawn, SpawnCap

\* Every step of the helper, the pipe and the collector keeps it.
LEMMA StepHelperInv == HelperInv /\ [HelperNext]_helperVars => HelperInv'
<1> SUFFICES ASSUME HelperInv, [HelperNext]_helperVars PROVE HelperInv'
    OBVIOUS
<1> USE HelperAssumption DEF HelperInv, HelperTypes, AgeInv, ServedIsFresh
<1>1. CASE Prints
    <2>1. pipe' \in SUBSET (0..ReaderDelay)
        BY <1>1 DEF Prints
    <2>2. QED
        BY <1>1, <2>1 DEF Prints
<1>2. CASE Hangs \/ Dies
    BY <1>2 DEF Hangs, Dies
<1>3. CASE Read
    <2>1. PICK a \in pipe : pipe' = pipe \ {a} /\ born' = a
        BY <1>3 DEF Read
    <2>2. a \in 0..ReaderDelay
        BY <2>1
    <2>3. born' \in NoLine..AgeCap /\ stamp' \in NoLine..AgeCap /\ AgeInv'
        BY <1>3, <2>1, <2>2 DEF Read, NoLine, AgeCap
    <2>4. recent' \in 0..DiscoverySamples /\ pipe' \in SUBSET (0..ReaderDelay)
      <3>1. pipe' \in SUBSET (0..ReaderDelay)
          BY <2>1
      <3>2. recent' \in 0..DiscoverySamples
          BY <1>3 DEF Read
      <3>3. QED
          BY <3>1, <3>2
    <2>5. UNCHANGED <<health, helper, sinceSpawn, spawnFailures, served>>
        BY <1>3 DEF Read
    <2>6. QED
        BY <2>3, <2>4, <2>5
<1>4. CASE Second
    <2>1. pipe' \in SUBSET (0..ReaderDelay)
        BY <1>4 DEF Second
    <2>2. sinceSpawn' \in 0..SpawnCap
        BY <1>4 DEF Second, Aged, SpawnCap, NoLine
    <2>3. born' \in NoLine..AgeCap /\ stamp' \in NoLine..AgeCap /\ AgeInv'
        BY <1>4, AgedTogether DEF Second
    <2>4. UNCHANGED <<health, helper, recent, spawnFailures, served>>
        BY <1>4 DEF Second
    <2>5. QED
        BY <2>1, <2>2, <2>3, <2>4
<1>5. CASE ProbeStarts
    <2>1. health' \in {"failed", "probing"} /\ UNCHANGED <<recent, stamp, pipe, born, served>>
        BY <1>5 DEF ProbeStarts
    <2>2. QED
        BY <1>5, <2>1, SpawnTypes DEF ProbeStarts
<1>6. CASE ProbeEnds
    <2>1. health' \in {"failed", "healthy"}
        BY <1>6 DEF ProbeEnds
    <2>2. QED
        BY <1>6, <2>1 DEF ProbeEnds
<1>7. CASE SampleDead
    <2>1. /\ sinceSpawn' \in 0..SpawnCap
          /\ helper' \in {"none", "mute", "prints", "hangs", "dead"}
          /\ spawnFailures' \in 0..MaxSpawnFailures
        BY <1>7, SpawnTypes DEF SampleDead
    <2>2. QED
        BY <1>7, <2>1 DEF SampleDead, NoLine, AgeCap
<1>8. CASE SampleStale
    BY <1>8 DEF SampleStale, NoLine, AgeCap
<1>9. CASE SampleServes
    <2>1. born <= MaxStale + ReaderDelay
        BY <1>9 DEF SampleServes, Fresh, NoLine, AgeCap
    <2>2. served' \in NoLine..AgeCap /\ served' <= MaxStale + ReaderDelay
        BY <1>9, <2>1 DEF SampleServes, NoLine, AgeCap
    <2>3. QED
        BY <1>9, <2>2 DEF SampleServes
<1>10. CASE Shutdown
    BY <1>10 DEF Shutdown, NoLine, AgeCap
<1>11. CASE UNCHANGED helperVars
    BY <1>11 DEF helperVars
<1>12. QED
    BY <1>1, <1>2, <1>3, <1>4, <1>5, <1>6, <1>7, <1>8, <1>9, <1>10, <1>11
       DEF HelperNext, Collector, Serve

\* The invariant of the helper and its collector.
THEOREM HelperInvariance == HelperSpec => []HelperInv
<1>1. HelperInit => HelperInv
    BY InitHelperInv
<1>2. HelperInv /\ [HelperNext]_helperVars => HelperInv'
    BY StepHelperInv
<1>3. QED
    BY <1>1, <1>2, PTL DEF HelperSpec

\* No rule ever sees a reading older than the limit and the delay of a pipe,
\* whichever helper printed it.
THEOREM ReadingsAreFresh == HelperSpec => []ServedIsFresh
<1>1. HelperInv => ServedIsFresh
    BY DEF HelperInv
<1>2. QED
    BY <1>1, HelperInvariance, PTL

-----------------------------------------------------------------------------
(* LhmSupervisor: what is said of the child, and what is left of it.        *)

\* "Ready" is said in two places of the loop alone, of the process they are
\* about, which the loop holds since it spawned it.
ReadyInPlace ==
    /\ loop \in {"probe", "judge", "wait"} /\ ~status.stopping => proc \in Pids
    /\ status.running /\ status.httpReady /\ ~status.stopping =>
        /\ loop \in {"judge", "wait"}
        /\ proc \in alive => proc \in bound \/ impostor

\* The event, what /health says and the caller of stop() agree.
StopIsSaid ==
    /\ stopEvent = status.stopping
    /\ stopEvent <=> stopper # "idle"

\* While the service runs, a child that lives is known to a thread that will
\* end it: the loop, in _proc or in its own hands, or stop(). Or it is killed.
ChildrenAreKnown ==
    loop # "gone" =>
        /\ alive \subseteq {proc, dying["loop"], dying["stop"]} \cup killed
        /\ loop \in {"head", "config", "backoff", "terminate", "done"} => proc \notin alive
        /\ loop \notin {"terminate", "drain"} => dying["loop"] = NoPid
        /\ stopper # "terminate" => dying["stop"] = NoPid
        /\ dying["loop"] # NoPid => proc = NoPid
        /\ loop \in {"drain", "done"} => stopEvent

\* The invariant of the supervisor.
SupervisorInv == SupervisorTypes /\ ReadyInPlace /\ StopIsSaid /\ ChildrenAreKnown

\* The supervisor starts with no child.
LEMMA InitSupervisorInv == SupervisorInit => SupervisorInv
<1> SUFFICES ASSUME SupervisorInit PROVE SupervisorInv
    OBVIOUS
<1>1. SupervisorTypes
  <2>1. dying \in [Threads -> Pids \cup {NoPid}]
      BY DEF SupervisorInit
  <2>2. status \in [running : BOOLEAN, httpReady : BOOLEAN, retrying : BOOLEAN,
                    stopping : BOOLEAN]
      BY DEF SupervisorInit
  <2>3. backoff \in BackoffInitial..BackoffMax /\ httpFailures \in 0..(HttpRestartLimit + 1)
        /\ launchFailures \in 0..MaxLaunchFailures
      BY SupervisorAssumption DEF SupervisorInit
  <2>4. /\ loop = "head" /\ proc = NoPid /\ stopEvent = FALSE /\ stopper = "idle"
        /\ alive = {} /\ bound = {} /\ killed = {}
        /\ foreign \in BOOLEAN /\ impostor = FALSE
      BY DEF SupervisorInit
  <2>5. QED
      BY <2>1, <2>2, <2>3, <2>4 DEF SupervisorTypes
<1>2. ReadyInPlace /\ StopIsSaid
    BY DEF SupervisorInit, ReadyInPlace, StopIsSaid
<1>3. ChildrenAreKnown
    BY DEF SupervisorInit, ChildrenAreKnown, Threads
<1>4. QED
    BY <1>1, <1>2, <1>3 DEF SupervisorInv

\* What LhmStatus holds.
StatusType == [running : BOOLEAN, httpReady : BOOLEAN, retrying : BOOLEAN,
               stopping : BOOLEAN]

\* The backoff stays within its bounds.
LEMMA DoublingIsBounded ==
    ASSUME backoff \in BackoffInitial..BackoffMax
    PROVE  Doubled \in BackoffInitial..BackoffMax
BY SupervisorAssumption DEF Doubled

\* Where the supervise loop looks, spawns and probes.
LEMMA SpawningKeeps ==
    SupervisorInv /\ (LoopHead \/ SpawnOnce \/ SpawnFails \/ ProbeHttp) => SupervisorInv'
<1> SUFFICES ASSUME SupervisorInv, LoopHead \/ SpawnOnce \/ SpawnFails \/ ProbeHttp
             PROVE  SupervisorInv'
    OBVIOUS
<1>1. SupervisorTypes /\ ReadyInPlace /\ StopIsSaid /\ ChildrenAreKnown
    BY DEF SupervisorInv
<1>2. CASE LoopHead
  <2>1. SupervisorTypes'
      BY <1>1, <1>2 DEF LoopHead, SupervisorTypes, processes, port, port
  <2>2. ReadyInPlace' /\ StopIsSaid' /\ ChildrenAreKnown'
      BY <1>1, <1>2 DEF LoopHead, processes, port, ReadyInPlace, StopIsSaid, ChildrenAreKnown
  <2>3. QED
      BY <2>1, <2>2 DEF SupervisorInv
<1>3. CASE SpawnOnce
  <2>1. PICK p \in Pids \ alive : proc' = p /\ alive' = alive \cup {p}
      BY <1>3 DEF SpawnOnce
  <2>2. /\ status' \in StatusType /\ status'.httpReady = FALSE
        /\ status'.stopping = status.stopping
      BY <1>1, <1>3 DEF SpawnOnce, SpawnedStatus, SupervisorTypes, StatusType
  <2>3. SupervisorTypes'
      BY <1>1, <1>3, <2>1, <2>2 DEF SpawnOnce, SupervisorTypes, StatusType
  <2>4. ReadyInPlace' /\ StopIsSaid'
      BY <1>1, <1>3, <2>2 DEF SpawnOnce, ReadyInPlace, StopIsSaid
  <2>5. ChildrenAreKnown'
      BY <1>1, <1>3, <2>1 DEF SpawnOnce, ChildrenAreKnown
  <2>6. QED
      BY <2>3, <2>4, <2>5 DEF SupervisorInv
<1>4. CASE SpawnFails
  <2>1. /\ status' \in StatusType /\ status'.running = FALSE
        /\ status'.stopping = status.stopping
      BY <1>1, <1>4 DEF SpawnFails, SupervisorTypes, StatusType
  <2>2. SupervisorTypes'
      BY <1>1, <1>4, <2>1, SupervisorAssumption
         DEF SpawnFails, SupervisorTypes, StatusType, processes, port, port
  <2>3. ReadyInPlace' /\ StopIsSaid' /\ ChildrenAreKnown'
      BY <1>1, <1>4, <2>1 DEF SpawnFails, processes, port, ReadyInPlace, StopIsSaid,
         ChildrenAreKnown
  <2>4. QED
      BY <2>2, <2>3 DEF SupervisorInv
<1>5. CASE ProbeHttp
  <2>1. PICK answered \in BOOLEAN :
            /\ status' = [status EXCEPT !.httpReady = answered]
            /\ impostor' = (answered /\ proc \notin bound)
      BY <1>5 DEF ProbeHttp
  <2>2. /\ status' \in StatusType /\ status'.httpReady = answered
        /\ status'.stopping = status.stopping
      BY <1>1, <2>1 DEF SupervisorTypes, StatusType
  <2>3. impostor' \in BOOLEAN
      BY <2>1
  <2>4. SupervisorTypes'
      BY <1>1, <1>5, <2>2, <2>3 DEF ProbeHttp, SupervisorTypes, StatusType, processes
  <2>5. answered /\ proc \notin bound => impostor'
      BY <2>1
  <2>6. /\ loop' = "judge" /\ loop = "probe"
        /\ UNCHANGED <<proc, dying, stopEvent, stopper, alive, bound, killed>>
      BY <1>5 DEF ProbeHttp, processes
  <2>7. ReadyInPlace' /\ StopIsSaid'
      BY <1>1, <2>2, <2>5, <2>6 DEF SupervisorTypes, ReadyInPlace, StopIsSaid, ChildrenAreKnown
  <2>8. ChildrenAreKnown'
      BY <1>1, <2>6 DEF ChildrenAreKnown
  <2>9. QED
      BY <2>4, <2>7, <2>8 DEF SupervisorInv
<1>6. QED
    BY <1>2, <1>3, <1>4, <1>5

\* What the loop makes of the answer of the port, and of the end of the child.
LEMMA JudgingKeeps ==
    SupervisorInv /\ (HttpUp \/ HttpDown \/ HttpGivenUp \/ ChildExited \/ StopSeen
                        \/ BackoffEnds) => SupervisorInv'
<1> SUFFICES ASSUME SupervisorInv,
                    HttpUp \/ HttpDown \/ HttpGivenUp \/ ChildExited \/ StopSeen \/ BackoffEnds
             PROVE  SupervisorInv'
    OBVIOUS
<1>1. SupervisorTypes /\ ReadyInPlace /\ StopIsSaid /\ ChildrenAreKnown
    BY DEF SupervisorInv
<1>2. CASE HttpUp
  <2>1. SupervisorTypes'
      BY <1>1, <1>2, SupervisorAssumption DEF HttpUp, SupervisorTypes, processes, port, port
  <2>2. ReadyInPlace' /\ StopIsSaid' /\ ChildrenAreKnown'
      BY <1>1, <1>2 DEF HttpUp, processes, port, ReadyInPlace, StopIsSaid, ChildrenAreKnown
  <2>3. QED
      BY <2>1, <2>2 DEF SupervisorInv
<1>3. CASE HttpDown
  <2>1. dying' \in [Threads -> Pids \cup {NoPid}] /\ dying'["loop"] = proc
        /\ dying'["stop"] = dying["stop"]
      BY <1>1, <1>3 DEF HttpDown, SupervisorTypes, Threads
  <2>2. SupervisorTypes'
      BY <1>1, <1>3, <2>1, SupervisorAssumption
         DEF HttpDown, RestartsForHttp, SupervisorTypes, processes, port, port
  <2>3. ReadyInPlace' /\ StopIsSaid'
      BY <1>1, <1>3 DEF HttpDown, processes, port, ReadyInPlace, StopIsSaid
  <2>4. ChildrenAreKnown'
      BY <1>1, <1>3, <2>1, SupervisorAssumption
         DEF HttpDown, processes, port, ChildrenAreKnown, SupervisorTypes
  <2>5. QED
      BY <2>2, <2>3, <2>4 DEF SupervisorInv
<1>4. CASE HttpGivenUp
  <2>1. SupervisorTypes'
      BY <1>1, <1>4, SupervisorAssumption DEF HttpGivenUp, SupervisorTypes, processes, port, port
  <2>2. ReadyInPlace' /\ StopIsSaid' /\ ChildrenAreKnown'
      BY <1>1, <1>4 DEF HttpGivenUp, processes, port, ReadyInPlace, StopIsSaid, ChildrenAreKnown
  <2>3. QED
      BY <2>1, <2>2 DEF SupervisorInv
<1>5. CASE ChildExited
  <2>1. /\ status' \in StatusType /\ status'.running = FALSE
        /\ status'.stopping = status.stopping
      BY <1>1, <1>5 DEF ChildExited, SupervisorTypes, StatusType
  <2>2. SupervisorTypes'
      BY <1>1, <1>5, <2>1 DEF ChildExited, SupervisorTypes, StatusType, processes, port, port
  <2>3. ReadyInPlace' /\ StopIsSaid' /\ ChildrenAreKnown'
      BY <1>1, <1>5, <2>1
         DEF ChildExited, processes, port, ReadyInPlace, StopIsSaid, ChildrenAreKnown
  <2>4. QED
      BY <2>2, <2>3 DEF SupervisorInv
<1>6. CASE StopSeen
  <2>1. SupervisorTypes'
      BY <1>1, <1>6 DEF StopSeen, SupervisorTypes, processes, port, port
  <2>2. ReadyInPlace' /\ StopIsSaid' /\ ChildrenAreKnown'
      BY <1>1, <1>6 DEF StopSeen, processes, port, ReadyInPlace, StopIsSaid, ChildrenAreKnown
  <2>3. QED
      BY <2>1, <2>2 DEF SupervisorInv
<1>7. CASE BackoffEnds
  <2>1. backoff' \in BackoffInitial..BackoffMax
      BY <1>1, <1>7, DoublingIsBounded DEF BackoffEnds, SupervisorTypes
  <2>2. SupervisorTypes'
      BY <1>1, <1>7, <2>1 DEF BackoffEnds, SupervisorTypes, processes, port, port
  <2>3. ReadyInPlace' /\ StopIsSaid' /\ ChildrenAreKnown'
      BY <1>1, <1>7 DEF BackoffEnds, processes, port, ReadyInPlace, StopIsSaid, ChildrenAreKnown
  <2>4. QED
      BY <2>2, <2>3 DEF SupervisorInv
<1>8. QED
    BY <1>2, <1>3, <1>4, <1>5, <1>6, <1>7

\* A thread ends the child it took, and no other.
LEMMA EndingKeeps ==
    SupervisorInv /\ (HttpRestart \/ Drain \/ StopTerminates) => SupervisorInv'
<1> SUFFICES ASSUME SupervisorInv, HttpRestart \/ Drain \/ StopTerminates
             PROVE  SupervisorInv'
    OBVIOUS
<1>1. SupervisorTypes /\ ReadyInPlace /\ StopIsSaid /\ ChildrenAreKnown
    BY DEF SupervisorInv
<1>2. ASSUME NEW t \in Threads, Terminated(t)
      PROVE  /\ alive' \subseteq alive /\ killed \cap alive' \subseteq killed'
             /\ dying[t] \in alive' => dying[t] \in killed'
             /\ dying' \in [Threads -> Pids \cup {NoPid}] /\ dying'[t] = NoPid
             /\ \A u \in Threads : u # t => dying'[u] = dying[u]
             /\ alive' \subseteq Pids /\ bound' \subseteq alive' /\ killed' \subseteq alive'
    BY <1>1, <1>2 DEF Terminated, SupervisorTypes
<1>3. CASE HttpRestart
  <2>1. /\ status' \in StatusType /\ status'.running = status.running
        /\ status'.httpReady = status.httpReady /\ status'.stopping = status.stopping
    <3>1. (~stopEvent \/ status.retrying) \in BOOLEAN
        OBVIOUS
    <3>2. status' = [status EXCEPT !.retrying = ~stopEvent \/ status.retrying]
        BY <1>1, <1>3 DEF HttpRestart
    <3>3. QED
        BY <1>1, <3>1, <3>2 DEF SupervisorTypes, StatusType
  <2>2. Terminated("loop") /\ "loop" \in Threads /\ "stop" \in Threads
      BY <1>3 DEF HttpRestart, Threads
  <2>3. SupervisorTypes'
      BY <1>1, <1>2, <1>3, <2>1, <2>2 DEF HttpRestart, SupervisorTypes, StatusType, port
  <2>4. ReadyInPlace' /\ StopIsSaid'
      BY <1>1, <1>3, <2>1 DEF HttpRestart, ReadyInPlace, StopIsSaid
  <2>5. ChildrenAreKnown'
      BY <1>1, <1>2, <1>3, <2>2 DEF HttpRestart, ChildrenAreKnown
  <2>6. QED
      BY <2>3, <2>4, <2>5 DEF SupervisorInv
<1>4. CASE Drain /\ dying["loop"] = NoPid /\ proc # NoPid
  <2>1. /\ dying' = [dying EXCEPT !["loop"] = proc] /\ proc' = NoPid
        /\ UNCHANGED <<loop, status, alive, bound, killed, port, stopEvent, stopper, backoff,
                       httpFailures, launchFailures>>
        /\ loop = "drain"
      BY <1>4 DEF Drain, Drains, processes, port, port
  <2>2. /\ dying' \in [Threads -> Pids \cup {NoPid}] /\ dying'["loop"] = proc
        /\ dying'["stop"] = dying["stop"]
      BY <1>1, <2>1 DEF SupervisorTypes, Threads
  <2>3. SupervisorTypes'
      BY <1>1, <2>1, <2>2 DEF SupervisorTypes, port
  <2>4. ReadyInPlace' /\ StopIsSaid'
      BY <1>1, <2>1 DEF ReadyInPlace, StopIsSaid
  <2>5. ChildrenAreKnown'
      BY <1>1, <1>4, <2>1, <2>2, SupervisorAssumption DEF ChildrenAreKnown, SupervisorTypes
  <2>6. QED
      BY <2>3, <2>4, <2>5 DEF SupervisorInv
<1>5. CASE Drain /\ ~(dying["loop"] = NoPid /\ proc # NoPid)
  <2>1. /\ Terminated("loop") /\ loop = "drain" /\ loop' = "done"
        /\ status' = [status EXCEPT !.running = FALSE]
        /\ UNCHANGED <<proc, stopEvent, stopper, backoff, httpFailures, launchFailures, port>>
        /\ "loop" \in Threads /\ "stop" \in Threads
      BY <1>5 DEF Drain, Drains, Threads
  <2>2. /\ status' \in StatusType /\ status'.running = FALSE
        /\ status'.stopping = status.stopping
      BY <1>1, <2>1 DEF SupervisorTypes, StatusType
  <2>3. SupervisorTypes'
      BY <1>1, <1>2, <2>1, <2>2 DEF SupervisorTypes, StatusType, port
  <2>4. ReadyInPlace' /\ StopIsSaid'
      BY <1>1, <2>1, <2>2 DEF ReadyInPlace, StopIsSaid
  <2>5. ChildrenAreKnown'
      BY <1>1, <1>2, <1>5, <2>1, SupervisorAssumption DEF ChildrenAreKnown, SupervisorTypes
  <2>6. QED
      BY <2>3, <2>4, <2>5 DEF SupervisorInv
<1>6. CASE StopTerminates
  <2>1. Terminated("stop") /\ "loop" \in Threads /\ "stop" \in Threads
      BY <1>6 DEF StopTerminates, Threads
  <2>2. SupervisorTypes'
      BY <1>1, <1>2, <1>6, <2>1 DEF StopTerminates, SupervisorTypes, port
  <2>3. ReadyInPlace' /\ StopIsSaid'
      BY <1>1, <1>6 DEF StopTerminates, ReadyInPlace, StopIsSaid
  <2>4. ChildrenAreKnown'
      BY <1>1, <1>2, <1>6, <2>1 DEF StopTerminates, ChildrenAreKnown
  <2>5. QED
      BY <2>2, <2>3, <2>4 DEF SupervisorInv
<1>7. QED
    BY <1>3, <1>4, <1>5, <1>6

\* stop() begins and returns, and the service exits.
LEMMA StoppingKeeps ==
    SupervisorInv /\ (StopBegins \/ StopReturns \/ ServiceExits) => SupervisorInv'
<1> SUFFICES ASSUME SupervisorInv, StopBegins \/ StopReturns \/ ServiceExits
             PROVE  SupervisorInv'
    OBVIOUS
<1>1. SupervisorTypes /\ ReadyInPlace /\ StopIsSaid /\ ChildrenAreKnown
    BY DEF SupervisorInv
<1>2. CASE StopBegins
  <2>1. status' \in StatusType /\ status'.stopping = TRUE
      BY <1>1, <1>2 DEF StopBegins, SupervisorTypes, StatusType
  <2>2. /\ dying' \in [Threads -> Pids \cup {NoPid}] /\ dying'["stop"] = proc
        /\ dying'["loop"] = dying["loop"]
      BY <1>1, <1>2 DEF StopBegins, SupervisorTypes, Threads
  <2>3. SupervisorTypes'
      BY <1>1, <1>2, <2>1, <2>2 DEF StopBegins, SupervisorTypes, StatusType, processes, port, port
  <2>4. ReadyInPlace' /\ StopIsSaid'
      BY <1>2, <2>1 DEF StopBegins, ReadyInPlace, StopIsSaid
  <2>5. ChildrenAreKnown'
      BY <1>1, <1>2, <2>2, SupervisorAssumption
         DEF StopBegins, processes, port, ChildrenAreKnown, SupervisorTypes
  <2>6. QED
      BY <2>3, <2>4, <2>5 DEF SupervisorInv
<1>3. CASE StopReturns
  <2>1. SupervisorTypes'
      BY <1>1, <1>3 DEF StopReturns, SupervisorTypes, processes, port, port
  <2>2. ReadyInPlace' /\ StopIsSaid' /\ ChildrenAreKnown'
      BY <1>1, <1>3 DEF StopReturns, processes, port, ReadyInPlace, StopIsSaid, ChildrenAreKnown
  <2>3. QED
      BY <2>1, <2>2 DEF SupervisorInv
<1>4. CASE ServiceExits
  <2>1. SupervisorTypes'
      BY <1>1, <1>4 DEF ServiceExits, SupervisorTypes, processes, port
  <2>2. status' = status /\ proc' = proc /\ UNCHANGED <<processes, port>>
      BY <1>4 DEF ServiceExits
  <2>3. StopIsSaid' /\ ChildrenAreKnown'
      BY <1>1, <1>4 DEF ServiceExits, processes, port, StopIsSaid, ChildrenAreKnown
  <2>4. status.stopping
      BY <1>1, <1>4 DEF ServiceExits, StopIsSaid
  <2>5. ReadyInPlace'
      BY <2>2, <2>4 DEF ReadyInPlace
  <2>6. QED
      BY <2>1, <2>3, <2>5 DEF SupervisorInv
<1>5. QED
    BY <1>2, <1>3, <1>4

\* The child binds its port or dies, and others take the port, whatever the
\* threads do.
LEMMA ChildKeeps == SupervisorInv /\ (LhmBinds \/ LhmDies \/ PortChanges) => SupervisorInv'
<1> SUFFICES ASSUME SupervisorInv, LhmBinds \/ LhmDies \/ PortChanges PROVE SupervisorInv'
    OBVIOUS
<1>1. SupervisorTypes /\ ReadyInPlace /\ StopIsSaid /\ ChildrenAreKnown
    BY DEF SupervisorInv
<1>2. /\ alive' \subseteq alive /\ bound' \subseteq alive' /\ killed' \subseteq alive'
      /\ \A p \in alive' : (p \in bound => p \in bound') /\ (p \in killed => p \in killed')
      /\ foreign' \in BOOLEAN
      /\ UNCHANGED <<loop, proc, dying, stopEvent, stopper, backoff, httpFailures,
                     status, impostor, launchFailures>>
    BY <1>1 DEF LhmBinds, LhmDies, Ends, PortChanges, SupervisorTypes, processes, port
<1>3. SupervisorTypes'
    BY <1>1, <1>2 DEF SupervisorTypes
<1>4. ReadyInPlace' /\ StopIsSaid'
    BY <1>1, <1>2 DEF ReadyInPlace, StopIsSaid
<1>5. ChildrenAreKnown'
    BY <1>1, <1>2 DEF ChildrenAreKnown
<1>6. QED
    BY <1>3, <1>4, <1>5 DEF SupervisorInv

\* Every step of the two threads and of their child keeps the invariant.
LEMMA StepSupervisorInv == SupervisorInv /\ [SupervisorNext]_supervisorVars => SupervisorInv'
<1>1. SupervisorInv /\ UNCHANGED supervisorVars => SupervisorInv'
    BY DEF supervisorVars, processes, port, SupervisorInv, SupervisorTypes, ReadyInPlace,
           StopIsSaid, ChildrenAreKnown
<1>2. QED
    BY <1>1, SpawningKeeps, JudgingKeeps, EndingKeeps, StoppingKeeps, ChildKeeps
       DEF SupervisorNext, SupervisorLoop, StopCall

\* The supervisor's variables keep their types, and its invariant holds.
THEOREM SupervisorInvariance == SupervisorSpec => []SupervisorInv
BY InitSupervisorInv, StepSupervisorInv, PTL DEF SupervisorSpec

\* For any backoff, limit, sequence of deaths and other listeners of the port:
\* /health says "ready" only of a child whose web server came up, or that has
\* just died, or whose own probe another listener has answered.
THEOREM ReadyIsSaidTruly == SupervisorSpec => []ReadyIsTrue
<1>1. SupervisorInv => ReadyIsTrue
    BY SupervisorAssumption
       DEF SupervisorInv, SupervisorTypes, ReadyInPlace, ReadyIsTrue, State
<1>2. QED
    BY <1>1, SupervisorInvariance, PTL

\* Once stop() has returned and the loop has ended, no child is left that is not
\* killed.
NoChildLeft ==
    stopper \in {"returned", "exited"} /\ loop = "done" => alive \subseteq killed

\* A loop that has ended behind a stop() leaves no child for the next service to
\* fight with but one that is killed, whether stop() waited for it or not and
\* also when it came between the loop's look at the event and the spawn.
THEOREM StopIsClean == SupervisorSpec => []NoChildLeft
<1>1. SupervisorInv => NoChildLeft
    BY SupervisorAssumption
       DEF SupervisorInv, SupervisorTypes, ChildrenAreKnown, NoChildLeft
<1>2. QED
    BY <1>1, SupervisorInvariance, PTL

-----------------------------------------------------------------------------
(* StateMirror: a rule that is blind is listed.                             *)

\* What a ring of the mirror keeps.
Recorded == [at : Nat, of : SUBSET Nat]

\* What the mirror holds of a signal at time t: its newest sample l, the ring of
\* its finest tier, and when it was last believed, b.
SignalInv(l, ring, b, t) ==
    /\ l.seen \in BOOLEAN /\ l.credible \in BOOLEAN
    /\ l.at \in Nat /\ l.at <= t
    /\ ring \in Seq(Recorded)
    /\ \A i \in DOMAIN ring : ring[i].at <= l.at
    /\ l.seen = TRUE => ring # <<>> /\ ring[Len(ring)].at = l.at
    /\ l.seen = TRUE /\ l.credible = TRUE => b = l.at

\* The newest sample ends the finest ring, and it is the last one believed if it
\* is credible.
MirrorInv ==
    /\ now \in Nat
    /\ \A s \in Signals :
         /\ SignalInv(latest[s], history[s].t0.samples, believed[s], now)
         /\ history[s].t0.pending = {}

\* What is in a ring has a time.
LEMMA RingEntries ==
    ASSUME NEW ring \in Seq(Recorded)
    PROVE  \A i \in DOMAIN ring : ring[i].at \in Nat
<1>1. \A i \in DOMAIN ring : ring[i] \in Recorded
    OBVIOUS
<1>2. QED
    BY <1>1 DEF Recorded

\* A sample that is pushed ends the ring of the finest tier.
LEMMA PushEndsTheRing ==
    ASSUME NEW tier, tier.samples \in Seq(Recorded), tier.pending = {}, NEW t \in Nat,
           \A i \in DOMAIN tier.samples : tier.samples[i].at <= t
    PROVE  LET p == Push(tier, t, {t}, TRUE, Cap0) IN
           /\ p.samples \in Seq(Recorded) /\ p.pending = {}
           /\ \A i \in DOMAIN p.samples : p.samples[i].at <= t
           /\ p.samples # <<>> /\ p.samples[Len(p.samples)].at = t
<1> DEFINE m == [at |-> t, of |-> {t}]
           ring == Append(tier.samples, m)
           kept == IF Len(ring) > Cap0 THEN Tail(ring) ELSE ring
<1>1. m \in Recorded /\ m.at = t
    BY DEF Recorded
<1>2. tier.pending \cup {t} = {t}
    OBVIOUS
<1>3. Push(tier, t, {t}, TRUE, Cap0) = [samples |-> kept, pending |-> {}]
    BY <1>2 DEF Push
<1> HIDE DEF m
<1>4. /\ ring \in Seq(Recorded) /\ Len(ring) = Len(tier.samples) + 1
      /\ Len(tier.samples) \in Nat
      /\ \A i \in 1..Len(tier.samples) : ring[i] = tier.samples[i]
      /\ ring[Len(tier.samples) + 1] = m
    BY <1>1, AppendProperties
<1> HIDE DEF ring
<1>5. \A i \in 1..Len(ring) : ring[i].at <= t
    BY <1>1, <1>4
<1>6. kept \in Seq(Recorded) /\ kept # <<>> /\ kept[Len(kept)] = m
      /\ \A i \in DOMAIN kept : kept[i].at <= t
  <2>1. CASE Len(ring) > Cap0
    <3>1. kept = Tail(ring) /\ Len(ring) >= 2 /\ ring # <<>>
        BY <1>4, <2>1, MirrorAssumption
    <3>2. /\ Tail(ring) \in Seq(Recorded) /\ Len(Tail(ring)) = Len(ring) - 1
          /\ \A i \in 1..(Len(ring) - 1) : Tail(ring)[i] = ring[i + 1]
        BY <1>4, <3>1, HeadTailProperties
    <3>3. Len(ring) - 1 \in 1..(Len(ring) - 1) /\ Len(ring) - 1 + 1 = Len(tier.samples) + 1
        BY <1>4, <3>1
    <3>4. Tail(ring)[Len(Tail(ring))] = m /\ Tail(ring) # <<>>
        BY <1>4, <3>1, <3>2, <3>3
    <3>5. \A i \in DOMAIN Tail(ring) : i \in 1..(Len(ring) - 1) /\ i + 1 \in 1..Len(ring)
        BY <1>4, <3>2
    <3>6. QED
        BY <1>5, <3>1, <3>2, <3>4, <3>5
  <2>2. CASE ~(Len(ring) > Cap0)
      BY <1>4, <1>5, <2>2
  <2>3. QED
      BY <2>1, <2>2
<1> HIDE DEF kept
<1> DEFINE p == Push(tier, t, {t}, TRUE, Cap0)
<1>7. p = [samples |-> kept, pending |-> {}]
    BY <1>3
<1> HIDE DEF p
<1>8. p.samples = kept /\ p.pending = {} /\ kept[Len(kept)].at = t
    BY <1>1, <1>6, <1>7
<1>9. QED
    BY <1>6, <1>8 DEF p

\* No signal has been seen at the start.
LEMMA InitMirrorInv == MirrorInit => MirrorInv
<1> SUFFICES ASSUME MirrorInit PROVE MirrorInv
    OBVIOUS
<1> SUFFICES ASSUME NEW s \in Signals
             PROVE  /\ SignalInv(latest[s], history[s].t0.samples, believed[s], now)
                    /\ history[s].t0.pending = {}
    BY DEF MirrorInit, MirrorInv
<1> DEFINE l == latest[s]
           tier == history[s].t0
<1>1. l.seen = FALSE /\ l.credible = TRUE /\ l.at = 0 /\ now = 0
    BY DEF MirrorInit, Unseen
<1>2. tier.samples = <<>> /\ tier.pending = {}
    BY DEF MirrorInit, Tier
<1> HIDE DEF l, tier
<1>3. SignalInv(l, <<>>, believed[s], now)
  <2>1. <<>> \in Seq(Recorded) /\ DOMAIN <<>> = {}
      OBVIOUS
  <2>2. l.seen \in BOOLEAN /\ l.credible \in BOOLEAN
      BY <1>1, Zenon
  <2>3. l.at \in Nat /\ l.at <= now
      BY <1>1
  <2>4. ~(l.seen = TRUE)
      BY <1>1, Zenon
  <2>5. QED
      BY <2>1, <2>2, <2>3, <2>4 DEF SignalInv
<1>4. QED
    BY <1>2, <1>3 DEF l, tier

\* A sample that arrives is the newest, ends the ring, and is believed or not.
LEMMA ArrivalKeeps ==
    ASSUME MirrorInv, NEW s \in Signals, NEW good \in BOOLEAN,
           NEW l, l = [seen |-> TRUE, credible |-> good, at |-> now],
           NEW h, h = Pushed(history[s], now),
           NEW b, b = IF good THEN now ELSE believed[s]
    PROVE  SignalInv(l, h.t0.samples, b, now) /\ h.t0.pending = {}
<1> DEFINE tier == history[s].t0
           p == Push(tier, now, {now}, TRUE, Cap0)
<1>1. /\ tier.samples \in Seq(Recorded) /\ tier.pending = {} /\ now \in Nat
      /\ \A i \in DOMAIN tier.samples : tier.samples[i].at <= now
  <2>1. /\ SignalInv(latest[s], tier.samples, believed[s], now) /\ tier.pending = {}
        /\ now \in Nat
      BY DEF MirrorInv
  <2> HIDE DEF tier
  <2>2. \A i \in DOMAIN tier.samples :
          tier.samples[i].at \in Nat /\ tier.samples[i].at <= latest[s].at
      BY <2>1, RingEntries DEF SignalInv
  <2>3. latest[s].at \in Nat /\ latest[s].at <= now
      BY <2>1 DEF SignalInv
  <2>4. QED
      BY <2>1, <2>2, <2>3 DEF SignalInv
<1>2. h.t0 = p
    BY DEF Pushed
<1> HIDE DEF tier
<1>3. /\ p.samples \in Seq(Recorded) /\ p.pending = {}
      /\ \A i \in DOMAIN p.samples : p.samples[i].at <= now
      /\ p.samples # <<>> /\ p.samples[Len(p.samples)].at = now
    BY <1>1, PushEndsTheRing
<1> HIDE DEF p
<1>4. l.seen = TRUE /\ l.credible = good /\ l.at = now /\ now <= now
    BY <1>1
<1>5. QED
    BY <1>1, <1>2, <1>3, <1>4 DEF SignalInv

\* A tick that is recorded keeps what the mirror knows of every signal.
LEMMA RecordingKeeps == MirrorInv /\ RecordTick => MirrorInv'
<1> SUFFICES ASSUME MirrorInv, RecordTick PROVE MirrorInv'
    OBVIOUS
<1>1. PICK arrived \in SUBSET Signals :
        \E sample \in [arrived -> [plausible : BOOLEAN,
                                    health : {"HEALTHY", "DEGRADED"}]] :
           /\ latest' = [s \in Signals |-> IF s \in arrived
                THEN [seen |-> TRUE, credible |-> Credible(sample[s]), at |-> now]
                ELSE latest[s]]
           /\ history' = [s \in Signals |-> IF s \in arrived
                THEN Pushed(history[s], now) ELSE history[s]]
           /\ believed' = [s \in Signals |->
                IF s \in arrived /\ sample[s].plausible
                     /\ sample[s].health = "HEALTHY"
                THEN now ELSE believed[s]]
    BY DEF RecordTick
<1>2. PICK sample \in [arrived -> [plausible : BOOLEAN,
                                    health : {"HEALTHY", "DEGRADED"}]] :
           /\ latest' = [s \in Signals |-> IF s \in arrived
                THEN [seen |-> TRUE, credible |-> Credible(sample[s]), at |-> now]
                ELSE latest[s]]
           /\ history' = [s \in Signals |-> IF s \in arrived
                THEN Pushed(history[s], now) ELSE history[s]]
           /\ believed' = [s \in Signals |->
                IF s \in arrived /\ sample[s].plausible
                     /\ sample[s].health = "HEALTHY"
                THEN now ELSE believed[s]]
    BY <1>1
<1>3. now' = now
    BY DEF RecordTick
<1>4. ASSUME NEW s \in arrived
      PROVE  SignalInv(latest'[s], history'[s].t0.samples, believed'[s], now)
             /\ history'[s].t0.pending = {}
  <2> DEFINE good == sample[s].plausible /\ sample[s].health = "HEALTHY"
  <2>1. sample[s].plausible \in BOOLEAN /\ good \in BOOLEAN /\ s \in Signals
      BY <1>2
  <2>2. Credible(sample[s]) = good
      BY DEF Credible
  <2>3. latest'[s] = [seen |-> TRUE, credible |-> good, at |-> now]
      BY <1>2, <2>1, <2>2
  <2>4. history'[s] = Pushed(history[s], now)
      BY <1>2, <2>1
  <2>5. believed'[s] = IF good THEN now ELSE believed[s]
      BY <1>2, <2>1
  <2> DEFINE l == latest'[s]
             h == history'[s]
             b == believed'[s]
  <2>6. /\ l = [seen |-> TRUE, credible |-> good, at |-> now]
        /\ h = Pushed(history[s], now)
        /\ b = IF good THEN now ELSE believed[s]
      BY <2>3, <2>4, <2>5
  <2> HIDE DEF good, l, h, b
  <2>7. SignalInv(l, h.t0.samples, b, now) /\ h.t0.pending = {}
      BY <2>1, <2>6, ArrivalKeeps
  <2>8. QED
      BY <2>7 DEF l, h, b
<1>5. ASSUME NEW s \in Signals \ arrived
      PROVE  latest'[s] = latest[s] /\ history'[s] = history[s] /\ believed'[s] = believed[s]
    BY <1>2
<1>6. QED
    BY <1>3, <1>4, <1>5 DEF MirrorInv

\* Every step of the loop, of reloads and of time keeps it.
LEMMA StepMirrorInv == MirrorInv /\ [MirrorNext]_mirrorVars => MirrorInv'
<1> SUFFICES ASSUME MirrorInv, [MirrorNext]_mirrorVars PROVE MirrorInv'
    OBVIOUS
<1>1. CASE AttachEngine \/ UNCHANGED mirrorVars
    BY <1>1 DEF AttachEngine, mirrorVars, MirrorInv
<1>2. CASE TimePasses
  <2>1. now' = now + 1 /\ UNCHANGED <<latest, history, believed>>
      BY <1>2 DEF TimePasses
  <2>2. now \in Nat /\ now' \in Nat
      BY <2>1 DEF MirrorInv
  <2>3. QED
      BY <2>1, <2>2 DEF MirrorInv, SignalInv
<1>3. QED
    BY <1>1, <1>2, RecordingKeeps DEF MirrorNext

\* The middle of the samples of a minute is a reading that is in it.
LEMMA CenterHoldsTheNewest ==
    ASSUME MirrorInv, NEW s \in Signals, latest[s].seen = TRUE
    PROVE  latest[s].at \in Center(s)
<1> DEFINE ring == history[s].t0.samples
           l == latest[s]
           newest == {n \in ToSet(ring) : n.at >= now - Detail}
<1>1. /\ SignalInv(l, ring, believed[s], now) /\ now \in Nat
    BY DEF MirrorInv
<1>9. l.seen = TRUE
    OBVIOUS
<1>4. Center(s) = IF {m.at : m \in newest} = {} THEN {l.at} ELSE {m.at : m \in newest}
    BY DEF Center
<1> HIDE DEF ring, l
<1>2. /\ ring \in Seq(Recorded) /\ ring # <<>> /\ ring[Len(ring)].at = l.at
      /\ l.at \in Nat /\ \A i \in DOMAIN ring : ring[i].at \in Nat /\ ring[i].at <= l.at
    BY <1>1, <1>9, RingEntries DEF SignalInv
<1>3. Len(ring) \in DOMAIN ring
    BY <1>2
<1>5. ASSUME NEW m \in newest PROVE ring[Len(ring)] \in newest
  <2>1. PICK i \in DOMAIN ring : m = ring[i]
      BY DEF ToSet
  <2>2. ring[i].at >= now - Detail /\ ring[i].at <= l.at /\ ring[i].at \in Nat
      BY <1>2, <2>1
  <2>3. l.at >= now - Detail
      BY <1>1, <1>2, <2>2, MirrorAssumption
  <2>4. ring[Len(ring)] \in ToSet(ring)
      BY <1>3 DEF ToSet
  <2>5. QED
      BY <1>2, <2>3, <2>4
<1> HIDE DEF newest
<1>6. CASE newest = {}
    BY <1>4, <1>6 DEF l
<1>7. CASE newest # {}
    BY <1>2, <1>4, <1>5, <1>7 DEF l
<1>8. QED
    BY <1>6, <1>7

\* For any signals, rules, grace and rings: a rule that nothing credible has fed
\* for longer than the grace is named, and has no number.
THEOREM BlindRulesAreListed == MirrorSpec => []BlindIsListed
<1>1. MirrorInv => BlindIsListed
  <2> SUFFICES ASSUME MirrorInv, NEW s \in Guarded
               PROVE  /\ believed[s] = -1 \/ now - believed[s] > Grace
                             => s \in NotLive /\ s \notin DOMAIN Headroom
                      /\ s \in DOMAIN Headroom => believed[s] \in Headroom[s]
      BY DEF BlindIsListed
  <2>1. /\ s \in Signals /\ now \in Nat
        /\ SignalInv(latest[s], history[s].t0.samples, believed[s], now)
      BY MirrorAssumption DEF MirrorInv
  <2>2. /\ latest[s].seen \in BOOLEAN /\ latest[s].credible \in BOOLEAN
        /\ latest[s].at \in Nat
        /\ latest[s].seen = TRUE /\ latest[s].credible = TRUE => believed[s] = latest[s].at
      BY <2>1 DEF SignalInv
  <2>3. Liveness(s) = "live" =>
          /\ latest[s].seen = TRUE /\ latest[s].credible = TRUE
          /\ ~(now - latest[s].at > Grace)
      BY <2>2 DEF Liveness, Age
  <2>4. DOMAIN Headroom = Guarded \ Excluded
      BY DEF Headroom
  <2>5. s \in DOMAIN Headroom => Liveness(s) = "live"
      BY <2>4 DEF Excluded
  <2>6. ASSUME believed[s] = -1 \/ now - believed[s] > Grace
        PROVE  Liveness(s) # "live"
      BY <2>2, <2>3, <2>6
  <2>7. Liveness(s) # "live" => s \in NotLive
      BY <2>1, <2>2 DEF NotLive
  <2>8. s \in DOMAIN Headroom => believed[s] \in Headroom[s]
    <3>1. s \in DOMAIN Headroom => Headroom[s] = Center(s)
        BY <2>4 DEF Headroom
    <3>2. QED
        BY <2>1, <2>2, <2>3, <2>5, <3>1, CenterHoldsTheNewest
  <2>9. QED
      BY <2>5, <2>6, <2>7, <2>8
<1>2. QED
    BY <1>1, InitMirrorInv, StepMirrorInv, PTL DEF MirrorSpec

-----------------------------------------------------------------------------
(* StateMirror: the history is exact. Each ring holds the newest blocks of    *)
(* what was pushed, and a block is as long as its samples are far apart, so   *)
(* the ring reaches as far back as it is read; what is missing of a span lies *)
(* in the one block that straddles its end, or waits to become a block.       *)

\* No two ticks are closer than a period.
Spaced(S) == \A x, y \in S : x < y => y - x >= Period

\* Of the samples S that came to it, in blocks of the same size, a ring holds
\* the newest blocks, in order; what is gone is a block older than its oldest.
GoodRing(ring, capacity, size, S) ==
    /\ ring \in Seq(Recorded)
    /\ \A i \in DOMAIN ring :
         /\ ring[i].of \subseteq S
         /\ ring[i].at \in ring[i].of
         /\ \A t \in ring[i].of : t <= ring[i].at
         /\ IsFiniteSet(ring[i].of) /\ Cardinality(ring[i].of) = size
    /\ \A i, j \in DOMAIN ring : i < j =>
         /\ \A t \in ring[j].of : ring[i].at < t
         /\ ring[j].at - ring[i].at >= (j - i) * (size * Period)
    /\ \A t \in S :
         \/ \E i \in DOMAIN ring : t \in ring[i].of
         \/ Len(ring) >= capacity /\ t + size * Period <= ring[1].at

RingInv(ring, capacity, size, S) ==
    GoodRing(ring, capacity, size, S) /\ Len(ring) <= capacity

LEMMA RingConstants ==
    /\ Period \in Nat \ {0}
    /\ Cap0 \in Nat \ {0} /\ Cap1 \in Nat \ {0} /\ Cap2 \in Nat \ {0}
    /\ Agg1 \in Nat \ {0} /\ Agg2 \in Nat \ {0}
    /\ Raw \in Nat /\ Middle \in Nat /\ Day \in Nat /\ Raw <= Middle /\ Middle <= Day
BY RingsAssumption

\* A block that follows an instant ends a block's length after it.
LEMMA BlockIsLong ==
    ASSUME NEW x \in Nat, NEW Q \in SUBSET Nat, IsFiniteSet(Q),
           NEW at \in Q, \A t \in Q : t <= at, \A t \in Q : x < t,
           Spaced({x} \cup Q)
    PROVE  x + Cardinality(Q) * Period <= at
<1> DEFINE T == {x} \cup Q
<1>1. x \in Int /\ at \in Int /\ Period \in Nat \ {0}
    BY RingConstants
<1>2. T \in SUBSET (x..at) /\ T # {}
    OBVIOUS
<1>3. \A u, v \in T : u < v => v - u >= Period
    BY DEF Spaced
<1>4. x \notin Q
    OBVIOUS
<1>5. Cardinality(Q) \in Nat /\ Cardinality(T) = Cardinality(Q) + 1
  <2>1. Cardinality(Q \cup {x}) = Cardinality(Q) + 1
      BY <1>4, FS_AddElement
  <2>2. T = Q \cup {x}
      OBVIOUS
  <2>3. QED
      BY <2>1, <2>2, FS_CardinalityType
<1> HIDE DEF T
<1>6. (Cardinality(T) - 1) * Period <= at - x
    BY <1>1, <1>2, <1>3, SpacedAreFew
<1>7. Cardinality(T) - 1 = Cardinality(Q) /\ Cardinality(Q) * Period \in Nat
    BY <1>1, <1>5, ProductIsNat
<1>8. QED
    BY <1>1, <1>6, <1>7

LEMMA DistancesAdd ==
    ASSUME NEW a \in Int, NEW b \in Int, NEW c \in Int, NEW x \in Int, NEW y \in Int,
           b - a >= x, b + y <= c
    PROVE  c - a >= x + y
OBVIOUS

\* Samples that follow all of S and fill a block that ends at an instant.
NextBlock(S, Q, at, size) ==
    /\ S \in SUBSET Nat /\ Q \in SUBSET Nat /\ Spaced(S \cup Q)
    /\ at \in Q /\ \A t \in Q : t <= at
    /\ IsFiniteSet(Q) /\ Cardinality(Q) = size
    /\ \A x \in S, y \in Q : x < y

\* A block that follows all of S is appended.
LEMMA AppendKeepsRing ==
    ASSUME NEW capacity \in Nat \ {0}, NEW size \in Nat \ {0},
           NEW S \in SUBSET Nat, NEW Q \in SUBSET Nat, NEW ring,
           GoodRing(ring, capacity, size, S),
           NEW at \in Q, \A t \in Q : t <= at, IsFiniteSet(Q), Cardinality(Q) = size,
           \A x \in S, y \in Q : x < y, Spaced(S \cup Q)
    PROVE  GoodRing(Append(ring, [at |-> at, of |-> Q]), capacity, size, S \cup Q)
<1> DEFINE m == [at |-> at, of |-> Q]
           long == Append(ring, m)
           n == Len(ring)
           block == size * Period
<1>1. m \in Recorded /\ m.at = at /\ m.of = Q
    BY DEF Recorded
<1>2. ring \in Seq(Recorded) /\ block \in Nat
    BY ProductIsNat, RingConstants DEF GoodRing
<1> HIDE DEF m
<1>3. /\ long \in Seq(Recorded) /\ Len(long) = n + 1 /\ n \in Nat
      /\ \A i \in 1..n : long[i] = ring[i]
      /\ long[n + 1] = m
      /\ DOMAIN ring = 1..n /\ DOMAIN long = 1..(n + 1)
    BY <1>1, <1>2, AppendProperties
<1>4. \A i \in 1..n :
        /\ ring[i].of \subseteq S
        /\ ring[i].at \in ring[i].of
        /\ \A t \in ring[i].of : t <= ring[i].at
        /\ IsFiniteSet(ring[i].of) /\ Cardinality(ring[i].of) = size
    BY <1>3 DEF GoodRing
<1>5. \A i, j \in 1..n : i < j =>
        /\ \A t \in ring[j].of : ring[i].at < t
        /\ ring[j].at - ring[i].at >= (j - i) * block
    BY <1>3 DEF GoodRing
<1>6. \A t \in S :
        \/ \E i \in 1..n : t \in ring[i].of
        \/ n >= capacity /\ t + block <= ring[1].at
    BY <1>3 DEF GoodRing
<1> HIDE DEF long, n, block
<1>7. ASSUME NEW i \in 1..(n + 1)
      PROVE  /\ long[i].of \subseteq S \cup Q
             /\ long[i].at \in long[i].of
             /\ \A t \in long[i].of : t <= long[i].at
             /\ IsFiniteSet(long[i].of) /\ Cardinality(long[i].of) = size
  <2>1. CASE i = n + 1
      BY <1>1, <1>3, <2>1
  <2>2. CASE i # n + 1
    <3>1. i \in 1..n /\ long[i] = ring[i]
        BY <1>3, <2>2
    <3>2. QED
        BY <1>4, <3>1
  <2>3. QED
      BY <2>1, <2>2
<1>8. ASSUME NEW i \in 1..n PROVE ring[i].at \in S /\ at - ring[i].at >= (n + 1 - i) * block
  <2>1. ring[i].at \in S /\ ring[n].at \in S /\ n \in 1..n
      BY <1>3, <1>4
  <2>2. ring[n].at + block <= at
    <3>1. Spaced({ring[n].at} \cup Q) /\ \A t \in Q : ring[n].at < t
        BY <2>1 DEF Spaced
    <3>2. QED
        BY <2>1, <3>1, BlockIsLong DEF block
  <2>3. ring[i].at \in Nat /\ ring[n].at \in Nat /\ at \in Nat
      BY <2>1
  <2>4. CASE i = n
    <3>1. n + 1 - i = 1
        BY <1>3, <2>4
    <3>2. (n + 1 - i) * block = block
        BY <1>2, <3>1
    <3>3. at - ring[i].at >= block
        BY <1>2, <2>2, <2>3, <2>4
    <3>4. at - ring[i].at >= (n + 1 - i) * block
        BY <3>2, <3>3
    <3>5. QED
        BY <2>1, <3>4
  <2>5. CASE i # n
    <3>1. i < n /\ n - i \in Nat
        BY <1>3, <2>5
    <3>2. ring[n].at - ring[i].at >= (n - i) * block
        BY <1>5, <2>1, <3>1
    <3>3. (n + 1 - i) * block = (n - i) * block + block
      <4>1. n + 1 - i = (n - i) + 1
          BY <1>3
      <4>2. ((n - i) + 1) * block = (n - i) * block + block
          BY <1>2, <3>1
      <4>3. QED
          BY <4>1, <4>2
    <3>4. (n - i) * block \in Nat
        BY <1>2, <3>1, ProductIsNat
    <3>5. at - ring[i].at >= (n - i) * block + block
      <4> DEFINE x == (n - i) * block
      <4>1. /\ x \in Int /\ block \in Int /\ ring[i].at \in Int
            /\ ring[n].at \in Int /\ at \in Int
          BY <1>2, <2>3, <3>4
      <4>2. ring[n].at - ring[i].at >= x
          BY <3>2
      <4> HIDE DEF x
      <4>3. at - ring[i].at >= x + block
          BY <2>2, <4>1, <4>2, DistancesAdd
      <4>4. QED
          BY <4>3 DEF x
    <3>6. at - ring[i].at >= (n + 1 - i) * block
        BY <3>3, <3>5
    <3>7. QED
        BY <2>1, <3>6
  <2>6. QED
      BY <2>4, <2>5
<1>9. ASSUME NEW i \in 1..(n + 1), NEW j \in 1..(n + 1), i < j
      PROVE  /\ \A t \in long[j].of : long[i].at < t
             /\ long[j].at - long[i].at >= (j - i) * block
  <2>1. i \in 1..n /\ long[i] = ring[i]
      BY <1>3, <1>9
  <2>2. CASE j = n + 1
    <3>1. long[j] = m /\ ring[i].at \in S /\ at - ring[i].at >= (n + 1 - i) * block
        BY <1>3, <1>8, <2>1, <2>2
    <3>2. \A t \in long[j].of : long[i].at < t
        BY <1>1, <2>1, <3>1
    <3>3. long[j].at = at
        BY <1>1, <3>1
    <3>4. long[i].at = ring[i].at
        BY <2>1
    <3>5. long[j].at - long[i].at >= (j - i) * block
      <4>0. j = n + 1
          BY <2>2
      <4>1. (j - i) * block = (n + 1 - i) * block
          BY <1>2, <1>3, <4>0
      <4>2. long[j].at - long[i].at = at - ring[i].at
          BY <3>3, <3>4, Zenon
      <4>3. QED
          BY <3>1, <4>1, <4>2, Zenon
    <3>6. QED
        BY <3>2, <3>5
  <2>3. CASE j # n + 1
    <3>1. j \in 1..n /\ long[j] = ring[j]
        BY <1>3, <2>3
    <3>2. QED
        BY <1>5, <1>9, <2>1, <3>1
  <2>4. QED
      BY <2>2, <2>3
<1>10. ASSUME NEW t \in S \cup Q
       PROVE  \/ \E i \in 1..(n + 1) : t \in long[i].of
              \/ n + 1 >= capacity /\ t + block <= long[1].at
  <2>1. CASE t \in Q
    <3>1. n + 1 \in 1..(n + 1) /\ t \in long[n + 1].of
        BY <1>1, <1>3, <2>1
    <3>2. QED
        BY <3>1
  <2>2. CASE \E i \in 1..n : t \in ring[i].of
    <3>1. PICK i \in 1..n : t \in ring[i].of
        BY <2>2
    <3>2. i \in 1..(n + 1) /\ t \in long[i].of
        BY <1>3, <3>1
    <3>3. QED
        BY <3>2
  <2>3. CASE n >= capacity /\ t + block <= ring[1].at
    <3>1. 1 \in 1..n /\ n + 1 >= capacity
        BY <1>3, <2>3
    <3>2. QED
        BY <1>3, <2>3, <3>1
  <2>4. QED
      BY <1>6, <2>1, <2>2, <2>3
<1>11. GoodRing(long, capacity, size, S \cup Q)
    BY <1>3, <1>7, <1>9, <1>10 DEF GoodRing, block
<1>12. QED
    BY <1>11 DEF long, m

\* The oldest block is dropped.
LEMMA TailKeepsRing ==
    ASSUME NEW capacity \in Nat \ {0}, NEW size \in Nat \ {0},
           NEW S \in SUBSET Nat, NEW long,
           GoodRing(long, capacity, size, S), Len(long) > capacity
    PROVE  /\ GoodRing(Tail(long), capacity, size, S)
           /\ Len(Tail(long)) = Len(long) - 1
           /\ \A i \in DOMAIN Tail(long) : i + 1 \in DOMAIN long /\ Tail(long)[i] = long[i + 1]
<1> DEFINE n == Len(long)
           kept == Tail(long)
           block == size * Period
<1>1. long \in Seq(Recorded) /\ block \in Nat
    BY ProductIsNat, RingConstants DEF GoodRing
<1>2. /\ n \in Nat /\ n >= 2 /\ n > capacity /\ DOMAIN long = 1..n
      /\ kept \in Seq(Recorded) /\ Len(kept) = n - 1 /\ DOMAIN kept = 1..(n - 1)
      /\ \A i \in 1..(n - 1) : kept[i] = long[i + 1]
  <2>1. n \in Nat /\ n >= 2 /\ DOMAIN long = 1..n /\ long # <<>>
      BY <1>1, LenProperties, EmptySeq
  <2>2. /\ kept \in Seq(Recorded) /\ Len(kept) = n - 1
        /\ \A i \in 1..(n - 1) : kept[i] = long[i + 1]
      BY <1>1, <2>1, HeadTailProperties
  <2>3. DOMAIN kept = 1..(n - 1)
      BY <2>2, LenProperties
  <2>4. QED
      BY <2>1, <2>2, <2>3
<1>3. \A i \in 1..n :
        /\ long[i].of \subseteq S
        /\ long[i].at \in long[i].of
        /\ \A t \in long[i].of : t <= long[i].at
        /\ IsFiniteSet(long[i].of) /\ Cardinality(long[i].of) = size
    BY <1>2 DEF GoodRing
<1>4. \A i, j \in 1..n : i < j =>
        /\ \A t \in long[j].of : long[i].at < t
        /\ long[j].at - long[i].at >= (j - i) * block
    BY <1>2 DEF GoodRing
<1>5. \A t \in S :
        \/ \E i \in 1..n : t \in long[i].of
        \/ t + block <= long[1].at
    BY <1>2 DEF GoodRing
<1> HIDE DEF n, kept, block
<1>6. \A i \in 1..(n - 1) : i + 1 \in 1..n /\ kept[i] = long[i + 1]
    BY <1>2
<1>7. ASSUME NEW i \in 1..(n - 1)
      PROVE  /\ kept[i].of \subseteq S
             /\ kept[i].at \in kept[i].of
             /\ \A t \in kept[i].of : t <= kept[i].at
             /\ IsFiniteSet(kept[i].of) /\ Cardinality(kept[i].of) = size
    BY <1>3, <1>6
<1>8. ASSUME NEW i \in 1..(n - 1), NEW j \in 1..(n - 1), i < j
      PROVE  /\ \A t \in kept[j].of : kept[i].at < t
             /\ kept[j].at - kept[i].at >= (j - i) * block
  <2>1. i + 1 \in 1..n /\ j + 1 \in 1..n /\ i + 1 < j + 1
      BY <1>2, <1>8
  <2>2. kept[i] = long[i + 1] /\ kept[j] = long[j + 1]
      BY <1>6
  <2>3. /\ \A t \in long[j + 1].of : long[i + 1].at < t
        /\ long[j + 1].at - long[i + 1].at >= ((j + 1) - (i + 1)) * block
      BY <1>4, <2>1
  <2>4. ((j + 1) - (i + 1)) * block = (j - i) * block
    <3>1. (j + 1) - (i + 1) = j - i
        BY <1>2
    <3>2. QED
        BY <1>1, <3>1
  <2>5. QED
      BY <2>2, <2>3, <2>4
<1>9. ASSUME NEW t \in S
      PROVE  \/ \E i \in 1..(n - 1) : t \in kept[i].of
             \/ n - 1 >= capacity /\ t + block <= kept[1].at
  <2>1. 1 \in 1..n /\ 2 \in 1..n /\ 1 \in 1..(n - 1) /\ kept[1] = long[2] /\ n - 1 >= capacity
      BY <1>2, <1>6
  <2>2. long[1].at \in Nat /\ long[2].at \in Nat /\ t \in Nat
      BY <1>3, <2>1
  <2>3. long[1].at + block <= long[2].at
    <3>1. long[2].at - long[1].at >= (2 - 1) * block
        BY <1>4, <2>1
    <3>2. (2 - 1) * block = block
        BY <1>1
    <3>3. QED
        BY <1>1, <2>2, <3>1, <3>2
  <2>4. ASSUME t <= long[1].at PROVE t + block <= kept[1].at
      BY <1>1, <2>1, <2>2, <2>3, <2>4
  <2>5. CASE \E i \in 1..n : t \in long[i].of
    <3>1. PICK i \in 1..n : t \in long[i].of
        BY <2>5
    <3>2. CASE i = 1
        BY <1>3, <2>1, <2>4, <3>1, <3>2
    <3>3. CASE i # 1
      <4>1. i - 1 \in 1..(n - 1) /\ (i - 1) + 1 = i
          BY <1>2, <3>3
      <4>2. kept[i - 1] = long[i]
          BY <1>6, <4>1
      <4>3. QED
          BY <3>1, <4>1, <4>2
    <3>4. QED
        BY <3>2, <3>3
  <2>6. CASE t + block <= long[1].at
    <3>1. t <= long[1].at
        BY <1>1, <2>2, <2>6
    <3>2. QED
        BY <2>1, <2>4, <3>1
  <2>7. QED
      BY <1>5, <2>5, <2>6
<1>10. GoodRing(kept, capacity, size, S)
    BY <1>2, <1>7, <1>8, <1>9 DEF GoodRing, block
<1>11. QED
    BY <1>2, <1>6, <1>10 DEF kept, n

\* The ring once a block is complete.
Extended(ring, at, Q, capacity) ==
    LET long == Append(ring, [at |-> at, of |-> Q]) IN
    IF Len(long) > capacity THEN Tail(long) ELSE long

\* It holds the new block, and blocks it had.
OnlyAdds(kept, m, ring) ==
    \A j \in DOMAIN kept : kept[j] = m \/ \E i \in DOMAIN ring : kept[j] = ring[i]

LEMMA ExtendedRing ==
    ASSUME NEW capacity \in Nat \ {0}, NEW size \in Nat \ {0},
           NEW S, NEW Q, NEW at, NextBlock(S, Q, at, size),
           NEW ring, RingInv(ring, capacity, size, S),
           NEW kept, kept = Extended(ring, at, Q, capacity)
    PROVE  /\ RingInv(kept, capacity, size, S \cup Q)
           /\ OnlyAdds(kept, [at |-> at, of |-> Q], ring)
<1> DEFINE m == [at |-> at, of |-> Q]
           long == Append(ring, m)
           n == Len(ring)
<1>1. GoodRing(ring, capacity, size, S) /\ ring \in Seq(Recorded) /\ n <= capacity
    BY DEF RingInv, GoodRing
<1>2. m \in Recorded /\ S \cup Q \in SUBSET Nat
    BY DEF Recorded, NextBlock
<1>3. GoodRing(long, capacity, size, S \cup Q)
    BY <1>1, AppendKeepsRing DEF NextBlock
<1>4. /\ Len(long) > capacity => kept = Tail(long)
      /\ ~(Len(long) > capacity) => kept = long
    BY DEF Extended
<1> HIDE DEF m
<1>5. /\ n \in Nat /\ Len(long) = n + 1 /\ DOMAIN ring = 1..n /\ DOMAIN long = 1..(n + 1)
      /\ \A i \in 1..n : long[i] = ring[i]
      /\ long[n + 1] = m
    BY <1>1, <1>2, AppendProperties, LenProperties
<1>6. \A j \in DOMAIN long : long[j] = m \/ \E i \in DOMAIN ring : long[j] = ring[i]
  <2>1. SUFFICES ASSUME NEW j \in 1..(n + 1)
                 PROVE  long[j] = m \/ \E i \in 1..n : long[j] = ring[i]
      BY <1>5
  <2>2. CASE j = n + 1
      BY <1>5, <2>2
  <2>3. CASE j # n + 1
    <3>1. j \in 1..n
        BY <1>5, <2>3
    <3>2. QED
        BY <1>5, <3>1
  <2>4. QED
      BY <2>2, <2>3
<1> HIDE DEF long
<1>7. CASE Len(long) > capacity
  <2>1. kept = Tail(long)
      BY <1>4, <1>7
  <2>2. /\ GoodRing(Tail(long), capacity, size, S \cup Q)
        /\ Len(Tail(long)) = Len(long) - 1
        /\ \A i \in DOMAIN Tail(long) : i + 1 \in DOMAIN long /\ Tail(long)[i] = long[i + 1]
      BY <1>2, <1>3, <1>7, TailKeepsRing
  <2>3. Len(Tail(long)) <= capacity
      BY <1>1, <1>5, <2>2
  <2>4. \A j \in DOMAIN Tail(long) :
           Tail(long)[j] = m \/ \E i \in DOMAIN ring : Tail(long)[j] = ring[i]
      BY <1>6, <2>2
  <2>5. QED
      BY <2>1, <2>2, <2>3, <2>4 DEF RingInv, m, OnlyAdds
<1>8. CASE ~(Len(long) > capacity)
  <2>1. kept = long
      BY <1>4, <1>8
  <2>2. Len(long) <= capacity
      BY <1>5, <1>8
  <2>3. QED
      BY <1>3, <1>6, <2>1, <2>2 DEF RingInv, m, OnlyAdds
<1>9. QED
    BY <1>7, <1>8

\* A ring reaches as far back as its capacity says.
LEMMA RingReaches ==
    ASSUME NEW capacity \in Nat \ {0}, NEW size \in Nat \ {0},
           NEW S \in SUBSET Nat, NEW ring, RingInv(ring, capacity, size, S),
           NEW n \in Nat, \A t \in S : t <= n,
           NEW reach \in Nat, reach <= capacity * (size * Period),
           NEW t \in S, t > n - reach
    PROVE  \E i \in DOMAIN ring : t \in ring[i].of
<1> DEFINE block == size * Period
<1>1. SUFFICES ASSUME Len(ring) = capacity, t + block <= ring[1].at PROVE FALSE
  <2>1. Len(ring) \in Nat
      BY LenProperties DEF RingInv, GoodRing
  <2>2. QED
      BY <2>1 DEF RingInv, GoodRing
<1>2. block \in Nat /\ capacity * block \in Nat /\ (capacity - 1) * block \in Nat
  <2>1. block \in Nat
      BY ProductIsNat, RingConstants
  <2> HIDE DEF block
  <2>2. capacity - 1 \in Nat
      OBVIOUS
  <2>3. QED
      BY <2>1, <2>2, ProductIsNat
<1>3. DOMAIN ring = 1..capacity /\ 1 \in 1..capacity /\ capacity \in 1..capacity
    BY <1>1, LenProperties DEF RingInv, GoodRing
<1>4. /\ ring[1].at \in Nat /\ ring[capacity].at \in Nat
      /\ ring[capacity].at <= n
    BY <1>3 DEF RingInv, GoodRing
<1>5. capacity * block = (capacity - 1) * block + block
    BY <1>2
<1> HIDE DEF block
<1>6. ring[capacity].at - ring[1].at >= (capacity - 1) * block
  <2>1. CASE capacity = 1
    <3>1. (capacity - 1) * block = 0
        BY <1>2, <2>1
    <3>2. QED
        BY <1>4, <2>1, <3>1
  <2>2. CASE capacity # 1
      BY <1>3, <2>2 DEF RingInv, GoodRing, block
  <2>3. QED
      BY <2>1, <2>2
<1>7. ring[1].at >= t + block
    BY <1>1 DEF block
<1>8. reach <= (capacity - 1) * block + block
    BY <1>5 DEF block
<1>9. ring[capacity].at - t >= (capacity - 1) * block + block
  <2> DEFINE x == (capacity - 1) * block
  <2>1. /\ x \in Int /\ block \in Int /\ t \in Int
        /\ ring[1].at \in Int /\ ring[capacity].at \in Int
      BY <1>2, <1>4 DEF block
  <2>2. ring[capacity].at - ring[1].at >= x /\ ring[1].at - t >= block
      BY <1>6, <1>7, <2>1
  <2> HIDE DEF x
  <2>3. ring[capacity].at - t >= x + block
      BY <2>1, <2>2
  <2>4. QED
      BY <2>3 DEF x
<1>10. ring[capacity].at - t >= reach
    BY <1>2, <1>4, <1>8, <1>9 DEF block
<1>11. t \in Int /\ n \in Int /\ reach \in Int /\ ring[capacity].at \in Int
    BY <1>4
<1>12. n - t >= reach
    BY <1>4, <1>10, <1>11
<1>13. QED
    BY <1>11, <1>12

\* What the slice leaves out of one ring up to an instant is one block, the one
\* that straddles it, or what waits to become a block.
LeftOut(k, tier, P, n, reach, end) ==
    {t \in P : n - reach < t /\ t <= end /\ t \notin Covered(From(k, tier, n - reach, end))}

\* What waits follows all that was emitted, and is less than a block.
Waiting(P, S, size) ==
    /\ S \in SUBSET P /\ IsFiniteSet(P \ S) /\ Cardinality(P \ S) <= size
    /\ \A x \in S, y \in P \ S : x < y

LEMMA Seam ==
    ASSUME NEW capacity \in Nat \ {0}, NEW size \in Nat \ {0},
           NEW P \in SUBSET Nat, NEW S, Waiting(P, S, size),
           NEW tier, RingInv(tier.samples, capacity, size, S),
           NEW n \in Nat, \A t \in P : t <= n,
           NEW reach \in Nat, reach <= capacity * (size * Period),
           NEW end \in Int, NEW k
    PROVE  /\ IsFiniteSet(LeftOut(k, tier, P, n, reach, end))
           /\ Cardinality(LeftOut(k, tier, P, n, reach, end)) <= size
<1> DEFINE ring == tier.samples
           U == LeftOut(k, tier, P, n, reach, end)
<1> USE DEF LeftOut, Waiting
<1>1. /\ \A i \in DOMAIN ring :
           /\ ring[i].of \subseteq S
           /\ ring[i].at \in ring[i].of
           /\ \A t \in ring[i].of : t <= ring[i].at
           /\ IsFiniteSet(ring[i].of) /\ Cardinality(ring[i].of) = size
      /\ \A i, j \in DOMAIN ring : i < j => \A t \in ring[j].of : ring[i].at < t
      /\ DOMAIN ring \subseteq Int
  <2>1. DOMAIN ring = 1..Len(ring) /\ Len(ring) \in Nat
      BY LenProperties DEF RingInv, GoodRing
  <2>2. QED
      BY <2>1 DEF RingInv, GoodRing
<1>2. \A t \in U \cap S : \E i \in DOMAIN ring : t \in ring[i].of
    BY RingReaches
<1>3. \A t \in U, i \in DOMAIN ring : t \in ring[i].of => ring[i].at >= end
  <2>1. SUFFICES ASSUME NEW t \in U, NEW i \in DOMAIN ring, t \in ring[i].of, ~(ring[i].at >= end)
                 PROVE  FALSE
      OBVIOUS
  <2>2. ring[i].at \in Nat /\ t <= ring[i].at /\ n - reach < t /\ t \in Nat
      BY <1>1, <2>1
  <2>3. n - reach <= ring[i].at /\ ring[i].at < end
      BY <2>1, <2>2
  <2>4. [tier |-> k, place |-> i, at |-> ring[i].at, of |-> ring[i].of]
           \in From(k, tier, n - reach, end)
      BY <2>3 DEF From
  <2>5. t \in Covered(From(k, tier, n - reach, end))
      BY <2>1, <2>4 DEF Covered
  <2>6. QED
      BY <2>1, <2>5
<1>4. CASE \E t \in U, i \in DOMAIN ring : t \in ring[i].of
  <2>1. PICK t \in U, i \in DOMAIN ring : t \in ring[i].of
      BY <1>4
  <2>2. ring[i].at \in Nat /\ end <= ring[i].at /\ t \in Nat /\ t <= end
      BY <1>1, <1>3, <2>1
  <2>3. U \subseteq ring[i].of
    <3>1. SUFFICES ASSUME NEW u \in U PROVE u \in ring[i].of
        OBVIOUS
    <3>2. u \in Nat /\ u <= end
        OBVIOUS
    <3>3. u \in S
        BY <1>1, <2>2, <3>2
    <3>4. PICK j \in DOMAIN ring : u \in ring[j].of
        BY <1>2, <3>3
    <3>5. ring[j].at \in Nat /\ end <= ring[j].at
        BY <1>1, <1>3, <3>4
    <3>6. ~(i < j)
        BY <1>1, <2>2, <3>2, <3>4
    <3>7. ~(j < i)
        BY <1>1, <2>1, <2>2, <3>5
    <3>8. i = j
        BY <1>1, <3>6, <3>7
    <3>9. QED
        BY <3>4, <3>8
  <2>4. IsFiniteSet(ring[i].of) /\ Cardinality(ring[i].of) = size
      BY <1>1
  <2>5. QED
      BY <2>3, <2>4, FS_Subset
<1>5. CASE ~\E t \in U, i \in DOMAIN ring : t \in ring[i].of
  <2>1. U \subseteq P \ S
      BY <1>2, <1>5
  <2>2. IsFiniteSet(U) /\ Cardinality(U) <= Cardinality(P \ S)
      BY <2>1, FS_Subset
  <2>3. Cardinality(U) \in Nat /\ Cardinality(P \ S) \in Nat
      BY <2>2, FS_CardinalityType
  <2>4. QED
      BY <2>2, <2>3
<1>6. QED
    BY <1>4, <1>5

\* What has left the pending mean of tier 1, and what has left that of tier 2.
Emitted1(h, P) == P \ h.t1.pending
Emitted2(h, P) == Emitted1(h, P) \ h.t2.pending

TierType == [samples : Seq(Recorded), pending : SUBSET Nat]

\* A block of tier 1 lies within one of tier 2 or follows it.
Aligned(older, newer) ==
    \A i \in DOMAIN older, j \in DOMAIN newer :
       newer[j].at <= older[i].at \/ \A t \in newer[j].of : older[i].at < t

\* The three rings hold the newest of what was pushed, each in blocks of its
\* size; what has not left a pending mean is less than one block.
HistoryInv(h, P, last) ==
    /\ P \in SUBSET Nat /\ Spaced(P) /\ \A t \in P : t <= last
    /\ h.t0 \in TierType /\ h.t1 \in TierType /\ h.t2 \in TierType
    /\ h.t0.pending = {}
    /\ h.t1.pending \subseteq P
    /\ IsFiniteSet(h.t1.pending) /\ Cardinality(h.t1.pending) < Agg1
    /\ h.t2.pending \subseteq Emitted1(h, P) /\ IsFiniteSet(h.t2.pending)
    /\ \E m \in 0..(Agg2 - 1) : Cardinality(h.t2.pending) = m * Agg1
    /\ RingInv(h.t0.samples, Cap0, 1, P)
    /\ RingInv(h.t1.samples, Cap1, Agg1, Emitted1(h, P))
    /\ RingInv(h.t2.samples, Cap2, Agg1 * Agg2, Emitted2(h, P))
    /\ \A x \in Emitted1(h, P), y \in h.t1.pending : x < y
    /\ \A x \in Emitted2(h, P), y \in h.t2.pending : x < y
    /\ Aligned(h.t2.samples, h.t1.samples)

\* An incomplete mean only collects.
LEMMA Collects ==
    ASSUME NEW tier \in TierType, NEW of \in SUBSET Nat, NEW at, NEW capacity,
           NEW p, p = Push(tier, at, of, FALSE, capacity)
    PROVE  p \in TierType /\ p.samples = tier.samples /\ p.pending = tier.pending \cup of
BY DEF Push, TierType

\* What follows everything that was pushed.
LEMMA NewSample ==
    ASSUME NEW h, NEW P, NEW last \in Int, HistoryInv(h, P, last),
           NEW at \in Nat, at - last >= Period
    PROVE  /\ at \notin P /\ \A x \in P : x < at
           /\ Spaced(P \cup {at}) /\ P \cup {at} \in SUBSET Nat
           /\ \A t \in P \cup {at} : t <= at
<1>1. P \in SUBSET Nat /\ Spaced(P) /\ \A t \in P : t <= last
    BY DEF HistoryInv
<1>2. \A x \in P : x < at /\ at - x >= Period
    BY <1>1, RingConstants
<1>3. Spaced(P \cup {at})
    BY <1>1, <1>2 DEF Spaced
<1>4. QED
    BY <1>1, <1>2, <1>3

\* The first tier keeps every sample.
LEMMA NewestKept ==
    ASSUME NEW h, NEW P, NEW last \in Int, HistoryInv(h, P, last),
           NEW at \in Nat, at - last >= Period,
           NEW p, p = Push(h.t0, at, {at}, TRUE, Cap0)
    PROVE  p \in TierType /\ p.pending = {} /\ RingInv(p.samples, Cap0, 1, P \cup {at})
<1> DEFINE Q == {at}
<1>1. /\ P \in SUBSET Nat /\ Spaced(P) /\ h.t0 \in TierType /\ h.t0.pending = {}
      /\ RingInv(h.t0.samples, Cap0, 1, P) /\ \A t \in P : t <= last
    BY DEF HistoryInv
<1>2. /\ Q = h.t0.pending \cup {at} /\ at \in Q /\ Q \in SUBSET Nat
      /\ \A t \in Q : t <= at
      /\ IsFiniteSet(Q) /\ Cardinality(Q) = 1
  <2>1. IsFiniteSet({at}) /\ Cardinality({at}) = 1
      BY FS_Singleton
  <2>2. QED
      BY <1>1, <2>1
<1>3. (\A x \in P, y \in Q : x < y) /\ Spaced(P \cup Q)
    BY NewSample
<1> HIDE DEF Q
<1>5. 1 \in Nat \ {0} /\ Cap0 \in Nat \ {0}
    BY RingConstants
<1>6. NextBlock(P, Q, at, 1)
    BY <1>1, <1>2, <1>3 DEF NextBlock
<1>7. p.samples = Extended(h.t0.samples, at, Q, Cap0) /\ p.pending = {}
      /\ (p.samples \in Seq(Recorded) => p \in TierType)
  <2>1. {at} \in SUBSET Nat
      OBVIOUS
  <2>2. /\ p.samples = Extended(h.t0.samples, at, h.t0.pending \cup {at}, Cap0)
        /\ p.pending = {}
        /\ (p.samples \in Seq(Recorded) => p \in TierType)
      BY <1>1 DEF Push, Extended, TierType
  <2>3. QED
      BY <1>2, <2>2
<1>8. RingInv(p.samples, Cap0, 1, P \cup Q)
  <2>1. RingInv(Extended(h.t0.samples, at, Q, Cap0), Cap0, 1, P \cup Q)
      BY <1>1, <1>5, <1>6, ExtendedRing
  <2>2. QED
      BY <1>7, <2>1
<1>9. p \in TierType
    BY <1>7, <1>8 DEF RingInv, GoodRing
<1>10. QED
    BY <1>7, <1>8, <1>9 DEF Q

\* Sizes of the pending means when a sample arrives.
LEMMA Grown ==
    ASSUME NEW h, NEW P, NEW last \in Int, HistoryInv(h, P, last),
           NEW at \in Nat, at - last >= Period
    PROVE  LET mean1 == h.t1.pending \cup {at} IN
           /\ IsFiniteSet(mean1) /\ Cardinality(mean1) \in Nat /\ mean1 \in SUBSET Nat
           /\ Complete(h.t1, {at}, Agg1, 1) => Cardinality(mean1) = Agg1
           /\ ~Complete(h.t1, {at}, Agg1, 1) => Cardinality(mean1) < Agg1
<1> DEFINE mean1 == h.t1.pending \cup {at}
<1>1. /\ h.t1.pending \subseteq P /\ P \in SUBSET Nat
      /\ IsFiniteSet(h.t1.pending) /\ Cardinality(h.t1.pending) < Agg1
    BY DEF HistoryInv
<1>2. at \notin h.t1.pending
    BY <1>1, NewSample
<1>3. /\ IsFiniteSet(mean1) /\ Cardinality(mean1) = Cardinality(h.t1.pending) + 1
      /\ Cardinality(h.t1.pending) \in Nat
    BY <1>1, <1>2, FS_AddElement, FS_CardinalityType
<1>4. Complete(h.t1, {at}, Agg1, 1) <=> Cardinality(mean1) >= Agg1
    BY RingConstants DEF Complete
<1>5. mean1 \in SUBSET Nat
    BY <1>1
<1>6. Cardinality(mean1) \in Nat /\ Cardinality(mean1) <= Agg1
    BY <1>1, <1>3, RingConstants
<1>7. QED
    BY <1>3, <1>4, <1>5, <1>6, RingConstants

LEMMA Grown2 ==
    ASSUME NEW h, NEW P, NEW last \in Int, HistoryInv(h, P, last),
           NEW mean1, IsFiniteSet(mean1), Cardinality(mean1) = Agg1,
           h.t2.pending \cap mean1 = {},
           NEW mean2, mean2 = h.t2.pending \cup mean1
    PROVE  /\ IsFiniteSet(mean2)
           /\ Complete(h.t2, mean1, Agg2, Agg1) => Cardinality(mean2) = Agg1 * Agg2
           /\ ~Complete(h.t2, mean1, Agg2, Agg1) =>
                \E m \in 0..(Agg2 - 1) : Cardinality(mean2) = m * Agg1
<1>1. PICK m \in 0..(Agg2 - 1) : Cardinality(h.t2.pending) = m * Agg1
    BY DEF HistoryInv
<1>2. /\ IsFiniteSet(mean2)
      /\ Cardinality(mean2) = Cardinality(h.t2.pending) + Cardinality(mean1)
                                - Cardinality(h.t2.pending \cap mean1)
    BY FS_Union DEF HistoryInv
<1>3. Cardinality(mean2) = m * Agg1 + Agg1
  <2>1. Cardinality(h.t2.pending \cap mean1) = 0
      BY FS_EmptySet
  <2>2. m * Agg1 \in Nat
      BY ProductIsNat, RingConstants
  <2>3. Cardinality(mean2) = m * Agg1 + Agg1 - 0
      BY <1>1, <1>2, <2>1
  <2>4. QED
      BY <2>2, <2>3, RingConstants
<1>4. m * Agg1 + Agg1 = (m + 1) * Agg1 /\ Agg2 * Agg1 = Agg1 * Agg2
    BY RingConstants
<1>5. Complete(h.t2, mean1, Agg2, Agg1) <=> (m + 1) * Agg1 >= Agg2 * Agg1
    BY <1>3, <1>4 DEF Complete
<1>6. CASE m + 1 = Agg2
  <2>1. (m + 1) * Agg1 = Agg2 * Agg1 /\ Agg2 * Agg1 \in Nat
      BY <1>6, RingConstants, ProductIsNat
  <2>2. QED
      BY <1>2, <1>3, <1>4, <1>5, <2>1
<1>7. CASE m + 1 # Agg2
  <2>1. m + 1 \in 0..(Agg2 - 1)
      BY <1>7, RingConstants
  <2>2. (m + 1) * Agg1 < Agg2 * Agg1
    <3>1. (Agg2 - (m + 1)) \in Nat \ {0}
        BY <2>1, RingConstants
    <3>2. (Agg2 - (m + 1)) * Agg1 >= Agg1
        BY <3>1, RingConstants, ProductGrows
    <3>3. (Agg2 - (m + 1)) * Agg1 = Agg2 * Agg1 - (m + 1) * Agg1
        BY RingConstants
    <3>4. Agg2 * Agg1 \in Nat /\ (m + 1) * Agg1 \in Nat
        BY RingConstants, ProductIsNat
    <3>5. QED
        BY <3>2, <3>3, <3>4, RingConstants
  <2>3. Agg2 * Agg1 \in Nat /\ (m + 1) * Agg1 \in Nat
      BY RingConstants, ProductIsNat
  <2>4. ~Complete(h.t2, mean1, Agg2, Agg1)
      BY <1>5, <2>2, <2>3
  <2>5. QED
      BY <1>2, <1>3, <1>4, <2>1, <2>4
<1>8. QED
    BY <1>6, <1>7

\* A sample completes no mean of tier 1: it waits with those before it.
LEMMA WaitsInTier1 ==
    ASSUME NEW h, NEW P, NEW last \in Int, HistoryInv(h, P, last),
           NEW at \in Nat, at - last >= Period, ~Complete(h.t1, {at}, Agg1, 1)
    PROVE  HistoryInv(Pushed(h, at), P \cup {at}, at)
<1> DEFINE g == Pushed(h, at)
           R == P \cup {at}
           mean1 == h.t1.pending \cup {at}
<1>1. g.t0 = Push(h.t0, at, {at}, TRUE, Cap0) /\ g.t2 = h.t2
    BY DEF Pushed
<1>2. g.t1 \in TierType /\ g.t1.samples = h.t1.samples /\ g.t1.pending = mean1
    BY DEF Pushed, Push, TierType, HistoryInv
<1>3. g.t0 \in TierType /\ g.t0.pending = {} /\ RingInv(g.t0.samples, Cap0, 1, R)
    BY <1>1, NewestKept
<1>4. /\ at \notin P /\ \A x \in P : x < at
      /\ Spaced(R) /\ R \in SUBSET Nat /\ \A t \in R : t <= at
    BY NewSample
<1>5. IsFiniteSet(mean1) /\ Cardinality(mean1) < Agg1
    BY Grown
<1> HIDE DEF g
<1>6. mean1 \subseteq R /\ R \ mean1 = Emitted1(h, P)
    BY <1>4 DEF HistoryInv, Emitted1
<1>7. Emitted1(g, R) = Emitted1(h, P) /\ Emitted2(g, R) = Emitted2(h, P)
    BY <1>1, <1>2, <1>6 DEF Emitted1, Emitted2
<1>8. \A x \in Emitted1(h, P), y \in mean1 : x < y
    BY <1>4 DEF HistoryInv, Emitted1
<1> HIDE DEF R, mean1
<1>9. HistoryInv(g, R, at)
    BY <1>1, <1>2, <1>3, <1>4, <1>5, <1>6, <1>7, <1>8 DEF HistoryInv
<1>10. QED
    BY <1>9 DEF g, R

\* A sample completes a mean of tier 1, which goes to tier 2.
LEMMA EmittedBlock ==
    ASSUME NEW h, NEW P, NEW last \in Int, HistoryInv(h, P, last),
           NEW at \in Nat, at - last >= Period, Complete(h.t1, {at}, Agg1, 1)
    PROVE  LET mean1 == h.t1.pending \cup {at} IN
           /\ NextBlock(Emitted1(h, P), mean1, at, Agg1)
           /\ Emitted1(h, P) \cup mean1 = P \cup {at}
           /\ h.t2.pending \cap mean1 = {}
<1> DEFINE mean1 == h.t1.pending \cup {at}
<1>1. /\ at \notin P /\ \A x \in P : x < at
      /\ Spaced(P \cup {at}) /\ P \cup {at} \in SUBSET Nat /\ \A t \in P \cup {at} : t <= at
    BY NewSample
<1>2. IsFiniteSet(mean1) /\ Cardinality(mean1) = Agg1
    BY Grown
<1>3. h.t1.pending \subseteq P /\ \A x \in Emitted1(h, P), y \in h.t1.pending : x < y
    BY DEF HistoryInv
<1>4. Emitted1(h, P) \cup mean1 = P \cup {at} /\ Emitted1(h, P) \subseteq P
    BY <1>3 DEF Emitted1
<1>5. \A x \in Emitted1(h, P), y \in mean1 : x < y
    BY <1>1, <1>3, <1>4
<1>6. h.t2.pending \cap mean1 = {}
    BY <1>1 DEF HistoryInv, Emitted1
<1>7. /\ Emitted1(h, P) \in SUBSET Nat /\ mean1 \in SUBSET Nat
      /\ at \in mean1 /\ \A t \in mean1 : t <= at
    BY <1>1, <1>3, <1>4
<1>8. NextBlock(Emitted1(h, P), mean1, at, Agg1)
    BY <1>1, <1>2, <1>4, <1>5, <1>7 DEF NextBlock
<1>9. QED
    BY <1>4, <1>6, <1>8

LEMMA WaitsInTier2 ==
    ASSUME NEW h, NEW P, NEW last \in Int, HistoryInv(h, P, last),
           NEW at \in Nat, at - last >= Period, Complete(h.t1, {at}, Agg1, 1),
           ~Complete(h.t2, h.t1.pending \cup {at}, Agg2, Agg1)
    PROVE  HistoryInv(Pushed(h, at), P \cup {at}, at)
<1> DEFINE g == Pushed(h, at)
           R == P \cup {at}
           mean1 == h.t1.pending \cup {at}
           mean2 == h.t2.pending \cup mean1
           E1 == Emitted1(h, P)
           E2 == Emitted2(h, P)
<1>1. g.t0 = Push(h.t0, at, {at}, TRUE, Cap0)
    BY DEF Pushed
<1>2. /\ g.t1.samples = Extended(h.t1.samples, at, mean1, Cap1) /\ g.t1.pending = {}
      /\ g.t1.samples \in Seq(Recorded) => g.t1 \in TierType
    BY DEF Pushed, Push, Extended, TierType, HistoryInv
<1>3. g.t0 \in TierType /\ g.t0.pending = {} /\ RingInv(g.t0.samples, Cap0, 1, R)
    BY <1>1, NewestKept
<1>4. /\ at \notin P /\ \A x \in P : x < at
      /\ Spaced(R) /\ R \in SUBSET Nat /\ \A t \in R : t <= at
    BY NewSample
<1>5. /\ NextBlock(E1, mean1, at, Agg1) /\ E1 \cup mean1 = R
      /\ h.t2.pending \cap mean1 = {}
  <2>1. NextBlock(Emitted1(h, P), h.t1.pending \cup {at}, at, Agg1)
      BY EmittedBlock
  <2>2. Emitted1(h, P) \cup (h.t1.pending \cup {at}) = P \cup {at}
      BY EmittedBlock
  <2>3. h.t2.pending \cap (h.t1.pending \cup {at}) = {}
      BY EmittedBlock
  <2>4. QED
      BY <2>1, <2>2, <2>3
<1>6. IsFiniteSet(mean1) /\ Cardinality(mean1) = Agg1 /\ mean1 \in SUBSET Nat
    BY Grown
<1>7. /\ IsFiniteSet(mean2)
      /\ \E m \in 0..(Agg2 - 1) : Cardinality(mean2) = m * Agg1
    BY <1>5, <1>6, Grown2
<1>8. g.t2 \in TierType /\ g.t2.samples = h.t2.samples /\ g.t2.pending = mean2
    BY <1>6 DEF Pushed, Push, TierType, HistoryInv
<1> HIDE DEF g
<1>9. /\ RingInv(h.t1.samples, Cap1, Agg1, E1) /\ RingInv(h.t2.samples, Cap2, Agg1 * Agg2, E2)
      /\ h.t2.pending \subseteq E1 /\ \A x \in E2, y \in h.t2.pending : x < y
      /\ Aligned(h.t2.samples, h.t1.samples)
    BY DEF HistoryInv
<1>10. E2 = E1 \ h.t2.pending /\ E2 \subseteq E1 /\ E1 \subseteq P
    BY DEF Emitted2, Emitted1
<1>11. Emitted1(g, R) = R /\ Emitted2(g, R) = E2
  <2>1. Emitted1(g, R) = R
      BY <1>2 DEF Emitted1
  <2>2. \A x \in E1 : x \notin mean1
      BY <1>5 DEF NextBlock
  <2>3. R \ mean1 = E1
      BY <1>5, <2>2
  <2>4. (R \ mean1) \ h.t2.pending = R \ mean2
      OBVIOUS
  <2>5. R \ mean2 = E2
      BY <1>10, <2>3, <2>4
  <2>6. QED
      BY <1>8, <2>1, <2>5 DEF Emitted2
<1>12. \A x \in E2, y \in mean2 : x < y
    BY <1>5, <1>9, <1>10 DEF NextBlock
<1>13. mean2 \subseteq R
    BY <1>5, <1>9
<1>14. /\ RingInv(g.t1.samples, Cap1, Agg1, R)
       /\ OnlyAdds(g.t1.samples, [at |-> at, of |-> mean1], h.t1.samples)
  <2> HIDE DEF mean1, E1, R
  <2> DEFINE kept == Extended(h.t1.samples, at, mean1, Cap1)
  <2> HIDE DEF kept
  <2>1. kept = Extended(h.t1.samples, at, mean1, Cap1)
      BY DEF kept
  <2>2. /\ RingInv(kept, Cap1, Agg1, E1 \cup mean1)
        /\ OnlyAdds(kept, [at |-> at, of |-> mean1], h.t1.samples)
    <3>1. Cap1 \in Nat \ {0} /\ Agg1 \in Nat \ {0}
        BY RingConstants
    <3>2. QED
        BY <1>5, <1>9, <2>1, <3>1, ExtendedRing, SMTT(60)
  <2>3. QED
      BY <1>2, <1>5, <2>1, <2>2
<1>15. Aligned(h.t2.samples, g.t1.samples)
  <2>1. SUFFICES ASSUME NEW i \in DOMAIN h.t2.samples, NEW j \in DOMAIN g.t1.samples
                 PROVE  \/ g.t1.samples[j].at <= h.t2.samples[i].at
                        \/ \A t \in g.t1.samples[j].of : h.t2.samples[i].at < t
      BY DEF Aligned
  <2>2. CASE g.t1.samples[j] = [at |-> at, of |-> mean1]
    <3>1. h.t2.samples[i].at \in E1
        BY <1>9, <1>10 DEF RingInv, GoodRing
    <3>2. \A t \in mean1 : h.t2.samples[i].at < t
        BY <1>5, <3>1 DEF NextBlock
    <3>3. QED
        BY <2>2, <3>2
  <2>3. CASE \E n \in DOMAIN h.t1.samples : g.t1.samples[j] = h.t1.samples[n]
      BY <1>9, <2>3 DEF Aligned
  <2>4. QED
      BY <1>14, <2>2, <2>3 DEF OnlyAdds
<1>16. g.t1 \in TierType
    BY <1>2, <1>14 DEF RingInv, GoodRing
<1>17. /\ g.t1.pending \subseteq R /\ IsFiniteSet(g.t1.pending) /\ Cardinality(g.t1.pending) < Agg1
       /\ \A x \in Emitted1(g, R), y \in g.t1.pending : x < y
    BY <1>2, FS_EmptySet, RingConstants
<1> HIDE DEF R, mean1, mean2, E1, E2
<1>18. HistoryInv(g, R, at)
    BY <1>3, <1>4, <1>7, <1>8, <1>9, <1>11, <1>12, <1>13, <1>14, <1>15, <1>16, <1>17
    DEF HistoryInv
<1>19. QED
    BY <1>18 DEF g, R

LEMMA EmittedTwice ==
    ASSUME NEW h, NEW P, NEW last \in Int, HistoryInv(h, P, last),
           NEW at \in Nat, at - last >= Period, Complete(h.t1, {at}, Agg1, 1),
           Complete(h.t2, h.t1.pending \cup {at}, Agg2, Agg1)
    PROVE  LET mean2 == h.t2.pending \cup (h.t1.pending \cup {at}) IN
           NextBlock(Emitted2(h, P), mean2, at, Agg1 * Agg2)
<1> DEFINE R == P \cup {at}
           mean1 == h.t1.pending \cup {at}
           mean2 == h.t2.pending \cup mean1
           E1 == Emitted1(h, P)
           E2 == Emitted2(h, P)
<1>1. Spaced(R) /\ R \in SUBSET Nat
    BY NewSample
<1>2. NextBlock(E1, mean1, at, Agg1)
    BY EmittedBlock
<1>3. E1 \cup mean1 = R
    BY DEF Emitted1, HistoryInv
<1>4. h.t2.pending \cap mean1 = {}
    BY EmittedBlock
<1>5. IsFiniteSet(mean1) /\ Cardinality(mean1) = Agg1
    BY <1>2 DEF NextBlock
<1>6. IsFiniteSet(mean2) /\ Cardinality(mean2) = Agg1 * Agg2
    BY <1>4, <1>5, Grown2
<1>7. h.t2.pending \subseteq E1 /\ \A x \in E2, y \in h.t2.pending : x < y
    BY DEF HistoryInv
<1>8. E2 = E1 \ h.t2.pending /\ E2 \subseteq E1
    BY DEF Emitted2
<1>9. E2 \cup mean2 = R
    BY <1>3, <1>7, <1>8
<1>10. \A x \in E2, y \in mean2 : x < y
    BY <1>2, <1>7, <1>8 DEF NextBlock
<1>11. at \in mean2 /\ \A t \in mean2 : t <= at
    BY <1>2, <1>7 DEF NextBlock
<1>12. E2 \in SUBSET Nat /\ mean2 \in SUBSET Nat
    BY <1>1, <1>9
<1> HIDE DEF mean2, E2, R
<1>13. NextBlock(E2, mean2, at, Agg1 * Agg2)
    BY <1>1, <1>6, <1>9, <1>10, <1>11, <1>12 DEF NextBlock
<1>14. QED
    BY <1>13 DEF mean2, E2

\* A sample completes a mean of tier 2 as well.
LEMMA ReachesTier2 ==
    ASSUME NEW h, NEW P, NEW last \in Int, HistoryInv(h, P, last),
           NEW at \in Nat, at - last >= Period, Complete(h.t1, {at}, Agg1, 1),
           Complete(h.t2, h.t1.pending \cup {at}, Agg2, Agg1)
    PROVE  HistoryInv(Pushed(h, at), P \cup {at}, at)
<1> DEFINE g == Pushed(h, at)
           R == P \cup {at}
           mean1 == h.t1.pending \cup {at}
           mean2 == h.t2.pending \cup mean1
           E1 == Emitted1(h, P)
           E2 == Emitted2(h, P)
<1>1. g.t0 = Push(h.t0, at, {at}, TRUE, Cap0)
    BY DEF Pushed
<1>2. /\ g.t1.samples = Extended(h.t1.samples, at, mean1, Cap1) /\ g.t1.pending = {}
      /\ g.t1.samples \in Seq(Recorded) => g.t1 \in TierType
    BY DEF Pushed, Push, Extended, TierType, HistoryInv
<1>3. g.t0 \in TierType /\ g.t0.pending = {} /\ RingInv(g.t0.samples, Cap0, 1, R)
    BY <1>1, NewestKept
<1>4. Spaced(R) /\ R \in SUBSET Nat /\ \A t \in R : t <= at
    BY NewSample
<1>5. NextBlock(E1, mean1, at, Agg1) /\ NextBlock(E2, mean2, at, Agg1 * Agg2)
  <2>1. NextBlock(Emitted1(h, P), h.t1.pending \cup {at}, at, Agg1)
      BY EmittedBlock
  <2>2. NextBlock(Emitted2(h, P), h.t2.pending \cup (h.t1.pending \cup {at}), at, Agg1 * Agg2)
      BY EmittedTwice
  <2>3. QED
      BY <2>1, <2>2
<1>6. E1 \cup mean1 = R /\ E2 \cup mean2 = R
  <2>1. h.t1.pending \subseteq P /\ h.t2.pending \subseteq E1
      BY DEF HistoryInv
  <2>2. E1 \cup mean1 = R
      BY <2>1 DEF Emitted1
  <2>3. E2 \cup h.t2.pending = E1
      BY <2>1 DEF Emitted2
  <2>4. E2 \cup mean2 = (E2 \cup h.t2.pending) \cup mean1
      OBVIOUS
  <2>5. QED
      BY <2>2, <2>3, <2>4
<1>7. /\ g.t2.samples = Extended(h.t2.samples, at, mean2, Cap2) /\ g.t2.pending = {}
      /\ g.t2.samples \in Seq(Recorded) => g.t2 \in TierType
    BY DEF Pushed, Push, Extended, TierType, HistoryInv
<1> HIDE DEF g
<1>8. /\ RingInv(h.t1.samples, Cap1, Agg1, E1) /\ RingInv(h.t2.samples, Cap2, Agg1 * Agg2, E2)
      /\ Aligned(h.t2.samples, h.t1.samples)
    BY DEF HistoryInv
<1>9. E2 \subseteq E1
    BY DEF Emitted2, Emitted1
<1>10. Emitted1(g, R) = R /\ Emitted2(g, R) = R
    BY <1>2, <1>7 DEF Emitted1, Emitted2
<1>11. /\ RingInv(g.t1.samples, Cap1, Agg1, R)
       /\ OnlyAdds(g.t1.samples, [at |-> at, of |-> mean1], h.t1.samples)
  <2> HIDE DEF mean1, mean2, E1, E2, R
  <2> DEFINE kept == Extended(h.t1.samples, at, mean1, Cap1)
  <2> HIDE DEF kept
  <2>1. kept = Extended(h.t1.samples, at, mean1, Cap1)
      BY DEF kept
  <2>2. NextBlock(E1, mean1, at, Agg1) /\ RingInv(h.t1.samples, Cap1, Agg1, E1)
      BY <1>5, <1>8
  <2>3. Cap1 \in Nat \ {0} /\ Agg1 \in Nat \ {0}
      BY RingConstants
  <2>4. /\ RingInv(kept, Cap1, Agg1, E1 \cup mean1)
        /\ OnlyAdds(kept, [at |-> at, of |-> mean1], h.t1.samples)
      BY <2>1, <2>2, <2>3, ExtendedRing, SMTT(60)
  <2>5. QED
      BY <1>2, <1>6, <2>1, <2>4
<1>12. /\ RingInv(g.t2.samples, Cap2, Agg1 * Agg2, R)
       /\ OnlyAdds(g.t2.samples, [at |-> at, of |-> mean2], h.t2.samples)
  <2> HIDE DEF mean1, mean2, E1, E2, R
  <2> DEFINE kept == Extended(h.t2.samples, at, mean2, Cap2)
             size == Agg1 * Agg2
  <2>1. kept = Extended(h.t2.samples, at, mean2, Cap2) /\ size \in Nat \ {0}
    <3>1. size \in Nat /\ size >= Agg1
        BY RingConstants, ProductIsNat, ProductGrows
    <3>2. QED
        BY <3>1, RingConstants
  <2>2. NextBlock(E2, mean2, at, size) /\ RingInv(h.t2.samples, Cap2, size, E2)
      BY <1>5, <1>8
  <2> HIDE DEF kept, size
  <2>3. Cap2 \in Nat \ {0}
      BY RingConstants
  <2>4. /\ RingInv(kept, Cap2, size, E2 \cup mean2)
        /\ OnlyAdds(kept, [at |-> at, of |-> mean2], h.t2.samples)
      BY <2>1, <2>2, <2>3, ExtendedRing, SMTT(60)
  <2>5. QED
      BY <1>6, <1>7, <2>1, <2>4 DEF size
<1>13. Aligned(g.t2.samples, g.t1.samples)
  <2>1. SUFFICES ASSUME NEW i \in DOMAIN g.t2.samples, NEW j \in DOMAIN g.t1.samples
                 PROVE  \/ g.t1.samples[j].at <= g.t2.samples[i].at
                        \/ \A t \in g.t1.samples[j].of : g.t2.samples[i].at < t
      BY DEF Aligned
  <2>2. CASE g.t2.samples[i] = [at |-> at, of |-> mean2]
    <3>1. g.t1.samples[j].at <= at
        BY <1>4, <1>11 DEF RingInv, GoodRing
    <3>2. QED
        BY <2>2, <3>1
  <2>3. ASSUME NEW n \in DOMAIN h.t2.samples, g.t2.samples[i] = h.t2.samples[n]
        PROVE  \/ g.t1.samples[j].at <= g.t2.samples[i].at
               \/ \A t \in g.t1.samples[j].of : g.t2.samples[i].at < t
    <3>1. CASE g.t1.samples[j] = [at |-> at, of |-> mean1]
      <4>1. h.t2.samples[n].at \in E1
          BY <1>8, <1>9 DEF RingInv, GoodRing
      <4>2. \A t \in mean1 : h.t2.samples[n].at < t
          BY <1>5, <4>1 DEF NextBlock
      <4>3. QED
          BY <2>3, <3>1, <4>2
    <3>2. CASE \E k \in DOMAIN h.t1.samples : g.t1.samples[j] = h.t1.samples[k]
        BY <1>8, <2>3, <3>2 DEF Aligned
    <3>3. QED
        BY <1>11, <3>1, <3>2 DEF OnlyAdds
  <2>4. QED
      BY <1>12, <2>2, <2>3 DEF OnlyAdds
<1>14. g.t1 \in TierType /\ g.t2 \in TierType
    BY <1>2, <1>7, <1>11, <1>12 DEF RingInv, GoodRing
<1>15. IsFiniteSet({}) /\ Cardinality({}) = 0 /\ 0 < Agg1
       /\ 0 \in 0..(Agg2 - 1) /\ 0 = 0 * Agg1
    BY FS_EmptySet, RingConstants
<1> HIDE DEF R, mean1, mean2, E1, E2
<1>16. \E m \in 0..(Agg2 - 1) : Cardinality(g.t2.pending) = m * Agg1
    BY <1>7, <1>15
<1>17. HistoryInv(g, R, at)
    BY <1>2, <1>3, <1>4, <1>7, <1>10, <1>11, <1>12, <1>13, <1>14, <1>15, <1>16
    DEF HistoryInv
<1>18. QED
    BY <1>17 DEF g, R

LEMMA PushedKeeps ==
    ASSUME NEW h, NEW P, NEW last \in Int, HistoryInv(h, P, last),
           NEW at \in Nat, at - last >= Period
    PROVE  HistoryInv(Pushed(h, at), P \cup {at}, at)
<1>1. CASE ~Complete(h.t1, {at}, Agg1, 1)
    BY <1>1, WaitsInTier1
<1>2. CASE /\ Complete(h.t1, {at}, Agg1, 1)
           /\ ~Complete(h.t2, h.t1.pending \cup {at}, Agg2, Agg1)
    BY <1>2, WaitsInTier2
<1>3. CASE /\ Complete(h.t1, {at}, Agg1, 1)
           /\ Complete(h.t2, h.t1.pending \cup {at}, Agg2, Agg1)
    BY <1>3, ReachesTier2
<1>4. QED
    BY <1>1, <1>2, <1>3
-----------------------------------------------------------------------------
\* The ring of a tier.
Ring(h, k) == IF k = 0 THEN h.t0.samples ELSE IF k = 1 THEN h.t1.samples ELSE h.t2.samples

\* The samples of a slice, and the span that each ring is read for.
LEMMA SliceMembers ==
    ASSUME NEW h, NEW reach, NEW m \in Slice(h, reach)
    PROVE  /\ m.tier \in {0, 1, 2} /\ m.place \in DOMAIN Ring(h, m.tier)
           /\ m.at = Ring(h, m.tier)[m.place].at /\ m.of = Ring(h, m.tier)[m.place].of
           /\ m.tier = 0 /\ ~(reach <= Raw) => now - Raw <= m.at
           /\ m.tier = 1 => ~(reach <= Raw) /\ m.at < now - Raw
           /\ m.tier = 1 /\ ~(reach <= Middle) => now - Middle <= m.at
           /\ m.tier = 2 => ~(reach <= Raw) /\ ~(reach <= Middle) /\ m.at < now - Middle
<1>1. \A k, tier, first, last : \A f \in From(k, tier, first, last) :
         /\ f.tier = k /\ f.place \in DOMAIN tier.samples
         /\ f.at = tier.samples[f.place].at /\ f.of = tier.samples[f.place].of
         /\ first <= f.at /\ f.at < last
    BY DEF From
<1>2. CASE reach <= Raw
  <2>1. m \in From(0, h.t0, now - reach, now + 1)
      BY <1>2 DEF Slice
  <2>2. QED
      BY <1>1, <1>2, <2>1 DEF Ring
<1>3. CASE ~(reach <= Raw) /\ reach <= Middle
  <2>1. \/ m \in From(1, h.t1, now - reach, now - Raw)
        \/ m \in From(0, h.t0, now - Raw, now + 1)
      BY <1>3 DEF Slice
  <2>2. CASE m \in From(1, h.t1, now - reach, now - Raw)
      BY <1>1, <1>3, <2>2 DEF Ring
  <2>3. CASE m \in From(0, h.t0, now - Raw, now + 1)
      BY <1>1, <1>3, <2>3 DEF Ring
  <2>4. QED
      BY <2>1, <2>2, <2>3
<1>4. CASE ~(reach <= Raw) /\ ~(reach <= Middle)
  <2>1. \/ m \in From(2, h.t2, now - reach, now - Middle)
        \/ m \in From(1, h.t1, now - Middle, now - Raw)
        \/ m \in From(0, h.t0, now - Raw, now + 1)
      BY <1>4 DEF Slice
  <2>2. CASE m \in From(2, h.t2, now - reach, now - Middle)
      BY <1>1, <1>4, <2>2 DEF Ring
  <2>3. CASE m \in From(1, h.t1, now - Middle, now - Raw)
      BY <1>1, <1>4, <2>3 DEF Ring
  <2>4. CASE m \in From(0, h.t0, now - Raw, now + 1)
      BY <1>1, <1>4, <2>4 DEF Ring
  <2>5. QED
      BY <2>1, <2>2, <2>3, <2>4
<1>5. QED
    BY <1>2, <1>3, <1>4

\* A ring's own order, whichever ring it is.
LEMMA RingOrder ==
    ASSUME NEW h, NEW P, NEW last, HistoryInv(h, P, last), NEW k \in {0, 1, 2}
    PROVE  /\ \A i \in DOMAIN Ring(h, k) :
                /\ Ring(h, k)[i].at \in Nat /\ Ring(h, k)[i].of \subseteq Nat
                /\ \A t \in Ring(h, k)[i].of : t <= Ring(h, k)[i].at
           /\ \A i, j \in DOMAIN Ring(h, k) : i < j =>
                \A t \in Ring(h, k)[j].of : Ring(h, k)[i].at < t
           /\ \A i \in DOMAIN Ring(h, k) : Ring(h, k)[i].at \in Ring(h, k)[i].of
<1>1. \E capacity, size, S : S \in SUBSET Nat /\ RingInv(Ring(h, k), capacity, size, S)
  <2>1. /\ RingInv(h.t0.samples, Cap0, 1, P)
        /\ RingInv(h.t1.samples, Cap1, Agg1, Emitted1(h, P))
        /\ RingInv(h.t2.samples, Cap2, Agg1 * Agg2, Emitted2(h, P))
      BY DEF HistoryInv
  <2>2. P \in SUBSET Nat /\ Emitted1(h, P) \in SUBSET Nat /\ Emitted2(h, P) \in SUBSET Nat
      BY DEF HistoryInv, Emitted1, Emitted2
  <2>3. CASE k = 0
      BY <2>1, <2>2, <2>3 DEF Ring
  <2>4. CASE k = 1
      BY <2>1, <2>2, <2>4 DEF Ring
  <2>5. CASE k = 2
      BY <2>1, <2>2, <2>5 DEF Ring
  <2>6. QED
      BY <2>3, <2>4, <2>5
<1>2. PICK capacity, size, S : S \in SUBSET Nat /\ RingInv(Ring(h, k), capacity, size, S)
    BY <1>1
<1>3. QED
    BY <1>2 DEF RingInv, GoodRing

\* The slice is in order, and its means are of different samples.
LEMMA SliceInOrder ==
    ASSUME NEW h, NEW P, NEW last \in Int, HistoryInv(h, P, last), now \in Nat,
           NEW reach \in 1..Day, NEW m \in Slice(h, reach), NEW n \in Slice(h, reach),
           Precedes(m, n)
    PROVE  m.at < n.at /\ m.of \cap n.of = {}
<1>1. SUFFICES m.at < n.at /\ \A t \in n.of : m.at < t
  <2>1. \A t \in m.of : t <= m.at /\ t \in Nat /\ m.at \in Nat
      BY SliceMembers, RingOrder
  <2>2. \A t \in n.of : t \in Nat
      BY SliceMembers, RingOrder
  <2>3. QED
      BY <2>1, <2>2
<1>2. /\ m.tier \in {0, 1, 2} /\ m.place \in DOMAIN Ring(h, m.tier)
      /\ m.at = Ring(h, m.tier)[m.place].at
      /\ m.tier = 1 => ~(reach <= Raw) /\ m.at < now - Raw
      /\ m.tier = 2 => ~(reach <= Raw) /\ ~(reach <= Middle) /\ m.at < now - Middle
    BY SliceMembers
<1>3. /\ n.tier \in {0, 1, 2} /\ n.place \in DOMAIN Ring(h, n.tier)
      /\ n.at = Ring(h, n.tier)[n.place].at /\ n.of = Ring(h, n.tier)[n.place].of
      /\ n.tier = 0 /\ ~(reach <= Raw) => now - Raw <= n.at
      /\ n.tier = 1 /\ ~(reach <= Middle) => now - Middle <= n.at
    BY SliceMembers
<1>4. m.at \in Nat /\ n.at \in Nat /\ n.at \in n.of
    BY <1>2, <1>3, RingOrder
<1>5. CASE m.tier = n.tier
  <2>1. m.place < n.place
      BY <1>2, <1>3, <1>5 DEF Precedes
  <2>2. \A t \in n.of : m.at < t
      BY <1>2, <1>3, <1>5, <2>1, RingOrder
  <2>3. QED
      BY <1>4, <2>2
<1>6. CASE n.tier = 0 /\ m.tier # 0
  <2>1. m.at < n.at
      BY <1>2, <1>3, <1>4, <1>6, RingConstants
  <2>2. n.of = {n.at}
    <3>1. h.t0.samples[n.place].at \in h.t0.samples[n.place].of
        BY <1>3, <1>4, <1>6 DEF Ring
    <3>2. Cardinality(h.t0.samples[n.place].of) = 1 /\ IsFiniteSet(h.t0.samples[n.place].of)
        BY <1>3, <1>6 DEF HistoryInv, RingInv, GoodRing, Ring
    <3>3. PICK x : h.t0.samples[n.place].of = {x}
        BY <3>2, FS_Singleton
    <3>4. QED
        BY <1>3, <1>6, <3>1, <3>3 DEF Ring
  <2>3. QED
      BY <2>1, <2>2
<1>7. CASE n.tier = 1 /\ m.tier = 2
  <2>1. m.at < n.at
      BY <1>2, <1>3, <1>4, <1>7, RingConstants
  <2>2. \/ n.at <= m.at
        \/ \A t \in n.of : m.at < t
      BY <1>2, <1>3, <1>7 DEF HistoryInv, Aligned, Ring
  <2>3. QED
      BY <1>4, <2>1, <2>2
<1>8. QED
    BY <1>2, <1>3, <1>5, <1>6, <1>7 DEF Precedes

\* What waits in front of a ring is less than one of its blocks.
LEMMA WaitingIsLess ==
    ASSUME NEW h, NEW P, NEW last, HistoryInv(h, P, last)
    PROVE  /\ IsFiniteSet(P \ Emitted1(h, P)) /\ Cardinality(P \ Emitted1(h, P)) <= Agg1
           /\ \A x \in Emitted1(h, P), y \in P \ Emitted1(h, P) : x < y
           /\ IsFiniteSet(P \ Emitted2(h, P))
           /\ Cardinality(P \ Emitted2(h, P)) <= Agg1 * Agg2
           /\ \A x \in Emitted2(h, P), y \in P \ Emitted2(h, P) : x < y
<1> DEFINE q1 == h.t1.pending
           q2 == h.t2.pending
<1>1. /\ q1 \subseteq P /\ IsFiniteSet(q1) /\ Cardinality(q1) < Agg1
      /\ q2 \subseteq Emitted1(h, P) /\ IsFiniteSet(q2)
      /\ \A x \in Emitted1(h, P), y \in q1 : x < y
      /\ \A x \in Emitted2(h, P), y \in q2 : x < y
    BY DEF HistoryInv
<1>2. PICK m \in 0..(Agg2 - 1) : Cardinality(q2) = m * Agg1
    BY DEF HistoryInv
<1>3. P \ Emitted1(h, P) = q1 /\ P \ Emitted2(h, P) = q1 \cup q2
    BY <1>1 DEF Emitted1, Emitted2
<1>4. Cardinality(q1) \in Nat /\ Cardinality(q1) <= Agg1
    BY <1>1, FS_CardinalityType, RingConstants
<1>5. IsFiniteSet(q1 \cup q2) /\ Cardinality(q1 \cup q2) = Cardinality(q1) + m * Agg1
  <2>1. q1 \cap q2 = {}
      BY <1>1 DEF Emitted1
  <2>2. Cardinality(q1 \cap q2) = 0
      BY <2>1, FS_EmptySet
  <2>3. /\ IsFiniteSet(q1 \cup q2)
        /\ Cardinality(q1 \cup q2) = Cardinality(q1) + Cardinality(q2) - Cardinality(q1 \cap q2)
      BY <1>1, FS_Union
  <2>4. m * Agg1 \in Nat
      BY ProductIsNat, RingConstants
  <2>5. Cardinality(q1 \cup q2) = Cardinality(q1) + m * Agg1 - 0
      BY <1>2, <2>2, <2>3
  <2>6. QED
      BY <1>4, <2>3, <2>4, <2>5
<1>6. Cardinality(q1) + m * Agg1 <= Agg1 * Agg2
  <2>1. Agg1 + m * Agg1 = (m + 1) * Agg1
      BY RingConstants
  <2>2. (m + 1) * Agg1 <= Agg2 * Agg1
      BY RingConstants, ProductGrows
  <2>3. Agg2 * Agg1 = Agg1 * Agg2
      BY RingConstants
  <2>4. m * Agg1 \in Nat /\ Agg2 * Agg1 \in Nat /\ (m + 1) * Agg1 \in Nat
      BY ProductIsNat, RingConstants
  <2>5. QED
      BY <1>4, <2>1, <2>2, <2>3, <2>4, RingConstants
<1>7. \A x \in Emitted2(h, P), y \in q1 \cup q2 : x < y
    BY <1>1 DEF Emitted2
<1>8. QED
    BY <1>1, <1>3, <1>4, <1>5, <1>6, <1>7

\* Each seam costs no more than one mean.
LEMMA Seams ==
    ASSUME NEW h, NEW P, NEW last \in Int, HistoryInv(h, P, last), now \in Nat, last <= now,
           NEW reach \in Nat, NEW end \in Int
    PROVE  /\ reach <= Middle => /\ IsFiniteSet(LeftOut(1, h.t1, P, now, reach, end))
                                /\ Cardinality(LeftOut(1, h.t1, P, now, reach, end)) <= Agg1
           /\ reach <= Day => /\ IsFiniteSet(LeftOut(2, h.t2, P, now, reach, end))
                             /\ Cardinality(LeftOut(2, h.t2, P, now, reach, end)) <= Agg1 * Agg2
<1>1. P \in SUBSET Nat /\ \A t \in P : t <= now
    BY DEF HistoryInv
<1>2. /\ RingInv(h.t1.samples, Cap1, Agg1, Emitted1(h, P))
      /\ RingInv(h.t2.samples, Cap2, Agg1 * Agg2, Emitted2(h, P))
      /\ Emitted1(h, P) \in SUBSET P /\ Emitted2(h, P) \in SUBSET P
    BY DEF HistoryInv, Emitted1, Emitted2
<1>3. Agg1 \in Nat \ {0} /\ Agg1 * Agg2 \in Nat \ {0}
      /\ Cap1 \in Nat \ {0} /\ Cap2 \in Nat \ {0} /\ Middle \in Nat /\ Day \in Nat
  <2>1. Agg1 * Agg2 \in Nat /\ Agg1 * Agg2 >= Agg1 * 1
      BY RingConstants, ProductIsNat, ProductGrows
  <2>2. QED
      BY <2>1, RingConstants
<1>4. Middle <= Cap1 * (Agg1 * Period) /\ Day <= Cap2 * ((Agg1 * Agg2) * Period)
    BY RingsAssumption
<1>5. Cap1 * (Agg1 * Period) \in Nat /\ Cap2 * ((Agg1 * Agg2) * Period) \in Nat
  <2>1. Agg1 * Period \in Nat /\ (Agg1 * Agg2) * Period \in Nat
      BY <1>3, ProductIsNat, RingConstants
  <2>2. QED
      BY <2>1, ProductIsNat, RingConstants
<1>6. ASSUME reach <= Middle
      PROVE  /\ IsFiniteSet(LeftOut(1, h.t1, P, now, reach, end))
             /\ Cardinality(LeftOut(1, h.t1, P, now, reach, end)) <= Agg1
  <2> DEFINE S == Emitted1(h, P)
             U == LeftOut(1, h.t1, P, now, reach, end)
  <2>1. reach <= Cap1 * (Agg1 * Period)
      BY <1>3, <1>4, <1>5, <1>6
  <2>2. Waiting(P, S, Agg1)
      BY <1>2, WaitingIsLess DEF Waiting
  <2> HIDE DEF S, U
  <2>4. S \in SUBSET P /\ RingInv(h.t1.samples, Cap1, Agg1, S)
      BY <1>2 DEF S
  <2>5. IsFiniteSet(U) /\ Cardinality(U) <= Agg1
      BY <1>1, <1>3, <2>1, <2>2, <2>4, Seam DEF U
  <2>6. QED
      BY <2>5 DEF U
<1>7. ASSUME reach <= Day
      PROVE  /\ IsFiniteSet(LeftOut(2, h.t2, P, now, reach, end))
             /\ Cardinality(LeftOut(2, h.t2, P, now, reach, end)) <= Agg1 * Agg2
  <2> DEFINE S == Emitted2(h, P)
             U == LeftOut(2, h.t2, P, now, reach, end)
             size == Agg1 * Agg2
  <2>1. reach <= Cap2 * (size * Period) /\ size \in Nat \ {0}
      BY <1>3, <1>4, <1>5, <1>7
  <2>2. Waiting(P, S, size)
      BY <1>2, WaitingIsLess DEF Waiting
  <2>4. S \in SUBSET P /\ RingInv(h.t2.samples, Cap2, size, S)
      BY <1>2
  <2> HIDE DEF S, U, size
  <2>5. IsFiniteSet(U) /\ Cardinality(U) <= size
      BY <1>1, <1>3, <2>1, <2>2, <2>4, Seam DEF U
  <2>6. QED
      BY <2>5 DEF U, size
<1>8. QED
    BY <1>6, <1>7

\* The newest samples are all there.
LEMMA NewestCovered ==
    ASSUME NEW h, NEW P, NEW last \in Int, HistoryInv(h, P, last), now \in Nat, last <= now,
           NEW reach \in Nat, reach <= Raw, NEW t \in P, t > now - reach
    PROVE  t \in Covered(From(0, h.t0, now - reach, now + 1))
<1>1. /\ P \in SUBSET Nat /\ \A x \in P : x <= now
      /\ RingInv(h.t0.samples, Cap0, 1, P)
    BY DEF HistoryInv
<1>2. reach <= Cap0 * (1 * Period)
  <2>1. Cap0 * (1 * Period) = Cap0 * Period /\ Cap0 * Period \in Nat
      BY RingConstants, ProductIsNat
  <2>2. QED
      BY <2>1, RingConstants, RingsAssumption
<1>3. PICK i \in DOMAIN h.t0.samples : t \in h.t0.samples[i].of
  <2>1. Cap0 \in Nat \ {0} /\ 1 \in Nat \ {0}
      BY RingConstants
  <2>2. QED
      BY <1>1, <1>2, <2>1, RingReaches
<1>4. h.t0.samples[i].at \in P /\ t <= h.t0.samples[i].at
    BY <1>1, <1>3 DEF RingInv, GoodRing
<1>5. now - reach <= h.t0.samples[i].at /\ h.t0.samples[i].at < now + 1
    BY <1>1, <1>4
<1>6. [tier |-> 0, place |-> i, at |-> h.t0.samples[i].at, of |-> h.t0.samples[i].of]
         \in From(0, h.t0, now - reach, now + 1)
    BY <1>5 DEF From
<1>7. QED
    BY <1>3, <1>6 DEF Covered

\* A slice misses no more than the means that straddle its seams.
LEMMA SliceMissesLittle ==
    ASSUME NEW h, NEW P, NEW last \in Int, HistoryInv(h, P, last), now \in Nat, last <= now,
           NEW reach \in 1..Day
    PROVE  Cardinality({t \in P : t > now - reach} \ Covered(Slice(h, reach)))
             <= Agg1 + Agg1 * Agg2
<1> DEFINE U == {t \in P : t > now - reach} \ Covered(Slice(h, reach))
<1> SUFFICES Cardinality(U) <= Agg1 + Agg1 * Agg2
    OBVIOUS
<1>1. P \in SUBSET Nat /\ reach \in Nat /\ Raw \in Nat /\ Middle \in Nat /\ Day \in Nat
      /\ Raw <= Middle
    BY RingConstants DEF HistoryInv
<1>2. Agg1 \in Nat /\ Agg1 * Agg2 \in Nat
    BY RingConstants, ProductIsNat
<1>3. ASSUME NEW part, part \subseteq Slice(h, reach), NEW t \in U PROVE t \notin Covered(part)
    BY <1>3 DEF Covered
<1>4. \A t \in U : t \in P /\ t > now - reach
    OBVIOUS
<1>5. CASE reach <= Raw
  <2>1. From(0, h.t0, now - reach, now + 1) \subseteq Slice(h, reach)
      BY <1>5 DEF Slice
  <2>2. \A t \in U : t \in Covered(From(0, h.t0, now - reach, now + 1))
      BY <1>1, <1>4, <1>5, NewestCovered
  <2>3. U = {}
      BY <1>3, <2>1, <2>2
  <2>4. Cardinality(U) = 0
      BY <2>3, FS_EmptySet
  <2>5. QED
      BY <1>2, <2>4
<1>6. ASSUME ~(reach <= Raw) PROVE \A t \in U : t <= now - Raw
  <2>1. From(0, h.t0, now - Raw, now + 1) \subseteq Slice(h, reach)
      BY <1>6 DEF Slice
  <2>2. \A t \in U : t \notin Covered(From(0, h.t0, now - Raw, now + 1))
      BY <1>3, <2>1
  <2>3. \A t \in P : t > now - Raw => t \in Covered(From(0, h.t0, now - Raw, now + 1))
      BY <1>1, NewestCovered
  <2>4. QED
      BY <1>1, <1>4, <2>2, <2>3
<1>7. CASE ~(reach <= Raw) /\ reach <= Middle
  <2> DEFINE M == LeftOut(1, h.t1, P, now, reach, now - Raw)
  <2>1. From(1, h.t1, now - reach, now - Raw) \subseteq Slice(h, reach)
      BY <1>7 DEF Slice
  <2>2. \A t \in U : t \notin Covered(From(1, h.t1, now - reach, now - Raw))
      BY <1>3, <2>1
  <2>3. U \subseteq M
      BY <1>1, <1>4, <1>6, <1>7, <2>2 DEF LeftOut
  <2>4. IsFiniteSet(M) /\ Cardinality(M) <= Agg1
    <3>1. now - Raw \in Int
        BY <1>1
    <3>2. QED
        BY <1>1, <1>7, <3>1, Seams
  <2> HIDE DEF M
  <2>5. IsFiniteSet(U) /\ Cardinality(U) <= Cardinality(M)
      BY <2>3, <2>4, FS_Subset
  <2>6. Cardinality(U) \in Nat /\ Cardinality(M) \in Nat
      BY <2>4, <2>5, FS_CardinalityType
  <2> HIDE DEF U
  <2>7. QED
      BY <1>2, <2>4, <2>5, <2>6
<1>8. CASE ~(reach <= Raw) /\ ~(reach <= Middle)
  <2> DEFINE M == LeftOut(1, h.t1, P, now, Middle, now - Raw)
             N == LeftOut(2, h.t2, P, now, reach, now - Middle)
  <2>1. /\ From(2, h.t2, now - reach, now - Middle) \subseteq Slice(h, reach)
        /\ From(1, h.t1, now - Middle, now - Raw) \subseteq Slice(h, reach)
      BY <1>8 DEF Slice
  <2>2. \A t \in U : /\ t \notin Covered(From(2, h.t2, now - reach, now - Middle))
                     /\ t \notin Covered(From(1, h.t1, now - Middle, now - Raw))
      BY <1>3, <2>1
  <2>3. U \subseteq M \cup N
    <3>1. SUFFICES ASSUME NEW t \in U PROVE t \in M \cup N
        OBVIOUS
    <3>2. t \in P /\ t \in Nat /\ t > now - reach /\ t <= now - Raw
        BY <1>1, <1>4, <1>6, <1>8
    <3>3. CASE t > now - Middle
        BY <2>2, <3>2, <3>3 DEF LeftOut
    <3>4. CASE ~(t > now - Middle)
      <4>1. t <= now - Middle
          BY <1>1, <3>2, <3>4
      <4>2. QED
          BY <2>2, <3>2, <4>1 DEF LeftOut
    <3>5. QED
        BY <3>3, <3>4
  <2>4. IsFiniteSet(M) /\ Cardinality(M) <= Agg1
    <3>1. now - Raw \in Int /\ Middle <= Middle
        BY <1>1
    <3>2. QED
        BY <1>1, <3>1, Seams
  <2>5. IsFiniteSet(N) /\ Cardinality(N) <= Agg1 * Agg2
    <3>1. now - Middle \in Int /\ reach <= Day
        BY <1>1
    <3>2. QED
        BY <1>1, <3>1, Seams
  <2> HIDE DEF M, N
  <2>6. /\ IsFiniteSet(M \cup N)
        /\ Cardinality(M \cup N) = Cardinality(M) + Cardinality(N) - Cardinality(M \cap N)
      BY <2>4, <2>5, FS_Union
  <2>7. IsFiniteSet(U) /\ Cardinality(U) <= Cardinality(M \cup N)
      BY <2>3, <2>6, FS_Subset
  <2>8. IsFiniteSet(M \cap N)
      BY <2>4, FS_Subset
  <2>9. /\ Cardinality(U) \in Nat /\ Cardinality(M) \in Nat /\ Cardinality(N) \in Nat
        /\ Cardinality(M \cap N) \in Nat
      BY <2>4, <2>5, <2>7, <2>8, FS_CardinalityType
  <2> HIDE DEF U
  <2>10. QED
      BY <1>2, <2>4, <2>5, <2>6, <2>7, <2>9
<1>9. QED
    BY <1>5, <1>7, <1>8

\* So is the history of every signal at the last tick.
HistoriesInv ==
    /\ now \in Nat /\ lastTick \in Int /\ lastTick <= now
    /\ \A s \in Signals : HistoryInv(history[s], pushed[s], lastTick)

LEMMA HistoriesInit ==
    ASSUME MirrorInit
    PROVE  HistoriesInv
<1>1. now \in Nat /\ lastTick \in Int /\ lastTick <= now
    BY RingConstants DEF MirrorInit
<1> SUFFICES ASSUME NEW s \in Signals PROVE HistoryInv(history[s], pushed[s], lastTick)
    BY <1>1 DEF HistoriesInv
<1> DEFINE h == history[s]
<1>2. h = [t0 |-> Tier, t1 |-> Tier, t2 |-> Tier] /\ pushed[s] = {}
    BY DEF MirrorInit
<1>3. /\ Tier \in TierType /\ Tier.pending = {} /\ Tier.samples = <<>>
      /\ h.t0 = Tier /\ h.t1 = Tier /\ h.t2 = Tier
    BY <1>2 DEF Tier, TierType
<1> HIDE DEF h
<1>4. \A capacity \in Nat \ {0} : \A size : RingInv(<<>>, capacity, size, {})
    BY DEF RingInv, GoodRing
<1>5. /\ Emitted1(h, {}) = {} /\ Emitted2(h, {}) = {}
    BY DEF Emitted1, Emitted2
<1>6. IsFiniteSet({}) /\ Cardinality({}) = 0
    BY FS_EmptySet
<1>7. 0 \in 0..(Agg2 - 1) /\ 0 = 0 * Agg1 /\ 0 < Agg1
    BY RingConstants
<1>8. Spaced({}) /\ Aligned(<<>>, <<>>)
    BY DEF Spaced, Aligned
<1>9. HistoryInv(h, {}, lastTick)
    BY <1>3, <1>4, <1>5, <1>6, <1>7, <1>8, RingConstants DEF HistoryInv
<1>10. QED
    BY <1>2, <1>9 DEF h

\* Nothing is pushed between two ticks.
LEMMA LaterTick ==
    ASSUME NEW h, NEW P, NEW last \in Int, HistoryInv(h, P, last),
           NEW at \in Int, last <= at
    PROVE  HistoryInv(h, P, at)
<1>1. \A t \in P : t <= at
    BY DEF HistoryInv
<1>2. QED
    BY <1>1 DEF HistoryInv

LEMMA HistoriesNext ==
    ASSUME HistoriesInv, [MirrorNext]_mirrorVars
    PROVE  HistoriesInv'
<1>1. /\ now \in Nat /\ lastTick \in Int /\ lastTick <= now
      /\ \A s \in Signals : HistoryInv(history[s], pushed[s], lastTick)
    BY DEF HistoriesInv
<1>2. CASE RecordTick
  <2>1. now' = now /\ lastTick' = now /\ now - lastTick >= Period
      BY <1>2 DEF RecordTick
  <2>2. PICK arrived \in SUBSET Signals :
          /\ history' = [s \in Signals |-> IF s \in arrived
                THEN Pushed(history[s], now) ELSE history[s]]
          /\ pushed' = [s \in Signals |-> IF s \in arrived
                THEN pushed[s] \cup {now} ELSE pushed[s]]
      BY <1>2 DEF RecordTick
  <2>3. ASSUME NEW s \in Signals PROVE HistoryInv(history'[s], pushed'[s], now)
    <3>1. CASE s \in arrived
      <4>1. history'[s] = Pushed(history[s], now) /\ pushed'[s] = pushed[s] \cup {now}
          BY <2>2, <3>1
      <4>2. HistoryInv(Pushed(history[s], now), pushed[s] \cup {now}, now)
          BY <1>1, <2>1, PushedKeeps
      <4>3. QED
          BY <4>1, <4>2
    <3>2. CASE s \notin arrived
      <4>1. history'[s] = history[s] /\ pushed'[s] = pushed[s]
          BY <2>2, <3>2
      <4>2. HistoryInv(history[s], pushed[s], now)
          BY <1>1, LaterTick
      <4>3. QED
          BY <4>1, <4>2
    <3>3. QED
        BY <3>1, <3>2
  <2>4. QED
      BY <1>1, <2>1, <2>3 DEF HistoriesInv
<1>3. CASE AttachEngine
    BY <1>1, <1>3 DEF AttachEngine, HistoriesInv
<1>4. CASE TimePasses
  <2>1. now' = now + 1 /\ UNCHANGED <<lastTick, history, pushed>>
      BY <1>4 DEF TimePasses
  <2>2. QED
      BY <1>1, <2>1 DEF HistoriesInv
<1>5. CASE UNCHANGED mirrorVars
    BY <1>1, <1>5 DEF mirrorVars, HistoriesInv
<1>6. QED
    BY <1>2, <1>3, <1>4, <1>5 DEF MirrorNext

\* For any rings that reach as far back as they are read: a history of any
\* length, at any moment, is in order, counts no sample twice, and misses no more
\* of its reach than the means at its two seams hold.
THEOREM HistoriesAreExact == MirrorSpec => []HistoryIsExact
<1>1. MirrorInit => HistoriesInv
    BY HistoriesInit
<1>2. HistoriesInv /\ [MirrorNext]_mirrorVars => HistoriesInv'
    BY HistoriesNext
<1>3. HistoriesInv => HistoryIsExact
  <2>1. SUFFICES ASSUME HistoriesInv, NEW s \in Signals, NEW reach \in 1..Day
                 PROVE  LET slice == Slice(history[s], reach) IN
                        /\ \A m, n \in slice :
                             Precedes(m, n) => m.at < n.at /\ m.of \cap n.of = {}
                        /\ Cardinality(InReach(s, reach) \ Covered(slice))
                             <= Agg1 + Agg1 * Agg2
      BY DEF HistoryIsExact
  <2>2. /\ now \in Nat /\ lastTick \in Int /\ lastTick <= now
        /\ HistoryInv(history[s], pushed[s], lastTick)
      BY <2>1 DEF HistoriesInv
  <2>3. \A m, n \in Slice(history[s], reach) :
           Precedes(m, n) => m.at < n.at /\ m.of \cap n.of = {}
      BY <2>2, SliceInOrder
  <2>4. Cardinality(InReach(s, reach) \ Covered(Slice(history[s], reach)))
           <= Agg1 + Agg1 * Agg2
      BY <2>2, SliceMissesLittle DEF InReach
  <2>5. QED
      BY <2>3, <2>4
<1>4. QED
    BY <1>1, <1>2, <1>3, PTL DEF MirrorSpec

-----------------------------------------------------------------------------
(* InputIdle: the sentinel stands for somebody.                             *)

\* The remainder of what is at most one period off.
LEMMA WrapsOnce ==
    ASSUME NEW k \in Nat \ {0}, NEW x \in Int, -k <= x, x < 2 * k
    PROVE  x % k = IF x < 0 THEN x + k ELSE IF x < k THEN x ELSE x - k
<1>1. x % k \in 0..(k - 1) /\ (x \div k) \in Int /\ x = (x \div k) * k + (x % k)
    OBVIOUS
<1>2. PICK q \in Int, r \in 0..(k - 1) : r = x % k /\ x = q * k + r
    BY <1>1
<1>3. CASE q >= 2
  <2>1. q * k >= 2 * k
      BY <1>3
  <2>2. QED
      BY <1>2, <2>1
<1>4. CASE q <= -2
  <2>1. q * k <= -2 * k
      BY <1>4
  <2>2. QED
      BY <1>2, <2>1
<1>5. CASE q \in {-1, 0, 1}
    BY <1>2, <1>5
<1>6. QED
    BY <1>2, <1>3, <1>4, <1>5

\* The tick counts are of one period, and a source that reads the own session has one.
IdleTypes ==
    /\ clock \in 0..(Wrap - 1)
    /\ untouched \in Nat
    /\ registered \subseteq Interactive
    /\ lastTouch \in [Interactive -> 0..(Wrap - 1)]
    /\ own # 0 => own \in registered
    /\ reader \in {"wts", "own session", "none"}
    /\ reader = "own session" => own # 0

\* No session was touched more recently than some session was.
TouchIsNear == \A s \in registered : untouched <= Since(s)

\* The loop's count of its silence is the age of what the last sample said.
SilenceIsAge ==
    /\ age \in Nat
    /\ silent = IF age < StaleAfter THEN age ELSE StaleAfter
    /\ toggles \in Nat /\ failures \in Nat

\* What the loop remembers of the file is what is there, unless an operation on
\* it failed, and of somebody at the machine it knows by a sample of late.
OpinionStands ==
    /\ failures = 0 /\ opinion = "present" => sentinel = TRUE
    /\ failures = 0 /\ said = "present" /\ age < StaleAfter => opinion = "present"
    /\ toggles = 0 => enabled
    /\ Undisturbed => /\ opinion = "away" => sentinel = FALSE
                      /\ opinion = "present" => said = "present"
                      /\ opinion = "unknown" => said = "nothing"
                      /\ sentinel = TRUE => age < StaleAfter
                      /\ opinion = "present" => untouched < Threshold + age

\* An opinion, and a file that is there or not.
OpinionTypes == opinion \in {"unknown", "present", "away"} /\ sentinel \in BOOLEAN

IdleInv == IdleTypes /\ TouchIsNear /\ SilenceIsAge /\ OpinionTypes /\ OpinionStands

\* The difference of two tick counts, up to a period.
LEMMA Elapsed ==
    ASSUME NEW c \in 0..(Wrap - 1), NEW l \in 0..(Wrap - 1)
    PROVE  (c - l) % Wrap = IF c >= l THEN c - l ELSE c - l + Wrap
<1>1. Wrap \in Nat \ {0}
    BY IdleAssumption
<1> DEFINE x == c - l
<1>2. x \in Int /\ -Wrap <= x /\ x < 2 * Wrap /\ x < Wrap
    BY <1>1
<1>3. x % Wrap = IF x < 0 THEN x + Wrap ELSE IF x < Wrap THEN x ELSE x - Wrap
    BY <1>1, <1>2, WrapsOnce
<1>4. QED
    BY <1>1, <1>2, <1>3

\* What has passed since a session's last input, in both ways of the code.
LEMMA SinceIsElapsed ==
    ASSUME IdleTypes, NEW s \in registered
    PROVE  Since(s) = TickCountSince(s) /\ Since(s) \in Nat
<1>1. lastTouch[s] \in 0..(Wrap - 1) /\ clock \in 0..(Wrap - 1) /\ Wrap \in Nat \ {0}
    BY IdleAssumption DEF IdleTypes
<1>2. Since(s) = IF clock >= lastTouch[s] THEN clock - lastTouch[s]
                 ELSE clock - lastTouch[s] + Wrap
    BY <1>1, Elapsed DEF Since
<1>3. QED
    BY <1>1, <1>2 DEF TickCountSince

\* A tick lets as much time pass for each session as for the clock.
LEMMA TickPasses ==
    ASSUME IdleInv, NEW d \in 1..LongestTick, Collect(d)
    PROVE  /\ IdleTypes' /\ TouchIsNear'
           /\ untouched \in Nat /\ untouched' <= untouched + d
<1>1. /\ clock \in 0..(Wrap - 1) /\ Wrap \in Nat \ {0} /\ d \in Nat
      /\ clock' = (clock + d) % Wrap
      /\ UNCHANGED <<own, registered, lastTouch, reader>>
      /\ untouched \in Nat
  <2>1. clock \in 0..(Wrap - 1) /\ untouched \in Nat
      BY DEF IdleInv, IdleTypes
  <2>2. clock' = (clock + d) % Wrap /\ UNCHANGED <<own, registered, lastTouch, reader>>
      BY DEF Collect
  <2>3. Wrap \in Nat \ {0} /\ d \in Nat
      BY IdleAssumption
  <2>4. QED
      BY <2>1, <2>2, <2>3
<1>2. clock' \in 0..(Wrap - 1)
    BY <1>1
<1>3. untouched' \in Nat /\ untouched' <= untouched + d
  <2>1. untouched' = IF untouched + d > UntouchedCap THEN UntouchedCap ELSE untouched + d
      BY DEF Collect, Older
  <2>2. UntouchedCap \in Nat
      BY IdleAssumption DEF UntouchedCap, PresenceAgeCap
  <2>3. QED
      BY <1>1, <2>1, <2>2
<1>4. IdleTypes'
    BY <1>1, <1>2, <1>3 DEF IdleInv, IdleTypes
<1>5. ASSUME NEW s \in registered' PROVE untouched' <= Since(s)'
  <2>1. /\ s \in registered /\ Since(s) + d < Wrap /\ untouched <= Since(s)
        /\ lastTouch'[s] = lastTouch[s] /\ lastTouch[s] \in 0..(Wrap - 1)
      BY <1>1, <1>5 DEF Collect, IdleInv, TouchIsNear, IdleTypes
  <2>2. /\ Since(s) \in Nat
        /\ Since(s) = IF clock >= lastTouch[s] THEN clock - lastTouch[s]
                      ELSE clock - lastTouch[s] + Wrap
      BY <1>1, <2>1, Elapsed, SinceIsElapsed DEF IdleInv, Since
  <2>3. Since(s)' = IF clock' >= lastTouch[s] THEN clock' - lastTouch[s]
                    ELSE clock' - lastTouch[s] + Wrap
      BY <1>2, <2>1, Elapsed DEF Since
  <2>4. clock' = IF clock + d < Wrap THEN clock + d ELSE clock + d - Wrap
    <3> DEFINE x == clock + d
    <3>1. x \in Int /\ -Wrap <= x /\ x < 2 * Wrap /\ ~(x < 0)
        BY <1>1, <2>1, <2>2
    <3> HIDE DEF x
    <3>2. x % Wrap = IF x < 0 THEN x + Wrap ELSE IF x < Wrap THEN x ELSE x - Wrap
        BY <1>1, <3>1, WrapsOnce
    <3>3. QED
        BY <1>1, <3>1, <3>2 DEF x
  <2> DEFINE since == Since(s)
             l == lastTouch[s]
  <2> HIDE DEF since, l
  <2>5. /\ l \in 0..(Wrap - 1) /\ since + d < Wrap /\ since \in Nat
        /\ since = IF clock >= l THEN clock - l ELSE clock - l + Wrap
        /\ untouched <= since
      BY <2>1, <2>2 DEF since, l
  <2>6. (IF clock' >= l THEN clock' - l ELSE clock' - l + Wrap) = since + d
      BY <1>1, <2>4, <2>5
  <2>7. Since(s)' = since + d
      BY <2>3, <2>6 DEF l
  <2>8. QED
      BY <1>1, <1>3, <2>5, <2>7
<1>6. QED
    BY <1>1, <1>3, <1>4, <1>5 DEF TouchIsNear

\* A sample that shows somebody is right.
LEMMA PresentIsTouched ==
    IdleTypes /\ TouchIsNear /\ CanRead /\ Verdict = "present" => untouched < Threshold
<1> SUFFICES ASSUME IdleTypes, TouchIsNear, CanRead, Verdict = "present"
             PROVE  untouched < Threshold
    OBVIOUS
<1>1. InputIdle < Threshold
    BY DEF Verdict
<1>2. CASE reader = "wts"
  <2>1. console \in registered /\ InputIdle = Since(console)
      BY <1>2 DEF CanRead, WtsAnswers, InputIdle
  <2>2. Since(console) \in Nat /\ untouched \in Nat /\ untouched <= Since(console)
      BY <2>1, SinceIsElapsed DEF TouchIsNear, IdleTypes
  <2>3. QED
      BY <1>1, <2>1, <2>2, IdleAssumption
<1>3. CASE reader = "own session"
  <2>1. own \in registered /\ InputIdle = TickCountSince(own)
      BY <1>3 DEF IdleTypes, InputIdle
  <2>2. /\ Since(own) = TickCountSince(own) /\ Since(own) \in Nat
        /\ untouched \in Nat /\ untouched <= Since(own)
      BY <2>1, SinceIsElapsed DEF TouchIsNear, IdleTypes
  <2>3. QED
      BY <1>1, <2>1, <2>2, IdleAssumption
<1>4. QED
    BY <1>2, <1>3 DEF CanRead

\* So is the sample of the next state.
LEMMA PresentIsTouchedNext ==
    (IdleTypes /\ TouchIsNear /\ CanRead /\ Verdict = "present" => untouched < Threshold)'
BY PresentIsTouched, PTL

\* Neither time nor input has passed at the start but since the last input.
LEMMA InitIdleInv == IdleInit => IdleInv
<1> SUFFICES ASSUME IdleInit PROVE IdleInv
    OBVIOUS
<1>1. IdleTypes
  <2>1. untouched = IF (IF registered = {} THEN UntouchedCap ELSE clock) > UntouchedCap
                    THEN UntouchedCap
                    ELSE (IF registered = {} THEN UntouchedCap ELSE clock)
      BY IdleAssumption DEF IdleInit, Older, UntouchedCap, PresenceAgeCap
  <2>2. UntouchedCap \in Nat /\ clock \in 0..(Wrap - 1) /\ Wrap \in Nat \ {0}
      BY IdleAssumption DEF UntouchedCap, PresenceAgeCap, IdleInit
  <2>3. untouched \in Nat
      BY <2>1, <2>2
  <2>4. lastTouch \in [Interactive -> 0..(Wrap - 1)]
      BY IdleAssumption DEF IdleInit
  <2>5. QED
      BY <2>2, <2>3, <2>4 DEF IdleInit, IdleTypes, Resolvable
<1>2. TouchIsNear
  <2> SUFFICES ASSUME NEW s \in registered PROVE untouched <= Since(s)
      BY DEF TouchIsNear
  <2>1. clock \in 0..(Wrap - 1) /\ lastTouch[s] = 0 /\ registered # {} /\ Wrap \in Nat \ {0}
        /\ 0 \in 0..(Wrap - 1)
      BY IdleAssumption DEF IdleInit
  <2>2. Since(s) = clock
      BY <2>1, Elapsed DEF Since
  <2>3. untouched = Older(0, clock, UntouchedCap)
      BY <2>1 DEF IdleInit
  <2>4. UntouchedCap \in Nat
      BY IdleAssumption DEF UntouchedCap, PresenceAgeCap
  <2>5. untouched <= clock
      BY <2>1, <2>3, <2>4 DEF Older
  <2>6. QED
      BY <2>2, <2>5
<1>3. SilenceIsAge /\ OpinionTypes /\ OpinionStands
    BY IdleAssumption
       DEF IdleInit, PresenceInit, SilenceIsAge, OpinionTypes, OpinionStands, Undisturbed
<1>4. QED
    BY <1>1, <1>2, <1>3 DEF IdleInv

\* A sample sets the opinion, and the file with it unless the operation fails.
LEMMA SampleKeeps ==
    ASSUME IdleInv, NEW d \in 1..LongestTick, Collect(d), CanRead',
           SampleArrives(Verdict', d)
    PROVE  IdleInv'
<1>1. IdleTypes' /\ TouchIsNear'
    BY TickPasses
<1>2. Verdict' = "present" => untouched' < Threshold
    BY <1>1, PresentIsTouchedNext
<1>3. Verdict' \in {"present", "away"}
    BY DEF Verdict
<1> DEFINE verdict == Verdict'
<1> HIDE DEF verdict
<1>4. /\ enabled /\ silent' = 0 /\ said' = verdict /\ age' = 0
      /\ UNCHANGED <<enabled, toggles>>
      /\ opinion' = verdict
      /\ \/ opinion # verdict /\ SetSentinel(verdict = "present")
         \/ opinion = verdict /\ sentinel' = sentinel /\ failures' = failures
  <2>1. SampleArrives(verdict, d)
      BY DEF verdict
  <2>2. QED
      BY <2>1 DEF SampleArrives, OpinionChanges
<1>5. /\ failures \in Nat /\ toggles \in Nat /\ failures' \in Nat
      /\ failures' = 0 => failures = 0
    BY <1>4 DEF IdleInv, SilenceIsAge, SetSentinel
<1>6. SilenceIsAge'
    BY <1>4, <1>5, IdleAssumption DEF SilenceIsAge
<1>7. verdict \in {"present", "away"} /\ (verdict = "present" => untouched' < Threshold)
    BY <1>2, <1>3 DEF verdict
<1>8. sentinel \in BOOLEAN /\ sentinel' \in BOOLEAN
    BY <1>4 DEF IdleInv, OpinionTypes, SetSentinel
<1>9. /\ failures' = 0 /\ verdict = "present" => sentinel' = TRUE
      /\ failures' = 0 /\ toggles = 0 /\ verdict = "away" => sentinel' = FALSE
  <2> SUFFICES ASSUME failures' = 0
               PROVE  /\ verdict = "present" => sentinel' = TRUE
                      /\ toggles = 0 /\ verdict = "away" => sentinel' = FALSE
      OBVIOUS
  <2>1. CASE opinion # verdict /\ SetSentinel(verdict = "present")
    <3>1. failures' # failures + 1
        BY <1>5
    <3>2. sentinel' = (verdict = "present")
        BY <2>1, <3>1 DEF SetSentinel
    <3>3. QED
        BY <3>2
  <2>2. CASE opinion = verdict /\ sentinel' = sentinel /\ failures' = failures
      BY <2>2 DEF IdleInv, OpinionStands, Undisturbed
  <2>3. QED
      BY <1>4, <2>1, <2>2
<1>10. OpinionStands'
  <2>1. toggles' = 0 => enabled'
      BY <1>4
  <2>2. 0 < StaleAfter /\ Threshold + 0 = Threshold
      BY IdleAssumption
  <2>3. QED
      BY <1>4, <1>7, <1>9, <2>1, <2>2 DEF OpinionStands, Undisturbed
<1>11. QED
    BY <1>1, <1>4, <1>6, <1>7, <1>8, <1>10 DEF IdleInv, OpinionTypes

\* Without one it ages, and the opinion falls once it is stale.
LEMMA SilenceKeeps ==
    ASSUME IdleInv, NEW d \in 1..LongestTick, Collect(d), NoSample(d)
    PROVE  IdleInv'
<1>1. /\ IdleTypes' /\ TouchIsNear'
      /\ untouched \in Nat /\ untouched' \in Nat /\ untouched' <= untouched + d
    BY TickPasses DEF IdleTypes
<1>2. /\ SilenceIsAge /\ OpinionTypes /\ OpinionStands
      /\ StaleAfter \in Nat \ {0} /\ LongestTick \in Nat /\ d \in Nat /\ d <= LongestTick
      /\ Threshold \in Nat
    BY IdleAssumption DEF IdleInv
<1>3. /\ silent' = IF silent + d > StaleAfter THEN StaleAfter ELSE silent + d
      /\ age' = IF age + d > StaleAfter + LongestTick THEN StaleAfter + LongestTick
                ELSE age + d
      /\ UNCHANGED <<enabled, said, toggles>>
    BY DEF NoSample, Older, PresenceAgeCap
<1>4. /\ age \in Nat /\ age' \in Nat
      /\ silent' = IF age' < StaleAfter THEN age' ELSE StaleAfter
      /\ silent' >= StaleAfter <=> ~(age' < StaleAfter)
      /\ age' < StaleAfter => age < StaleAfter /\ age' = age + d
    BY <1>2, <1>3 DEF SilenceIsAge
<1> DEFINE falls == enabled /\ silent' >= StaleAfter /\ opinion # "away"
<1>5. \/ falls /\ SetSentinel(FALSE) /\ opinion' = "away"
      \/ ~falls /\ UNCHANGED <<sentinel, opinion, failures>>
    BY DEF NoSample, GoneSilent
<1>6. /\ failures \in Nat /\ toggles \in Nat /\ failures' \in Nat
      /\ failures' = 0 => failures = 0
      /\ sentinel' \in BOOLEAN
  <2>1. failures \in Nat /\ toggles \in Nat
      BY <1>2 DEF SilenceIsAge
  <2>2. failures' = failures \/ failures' = failures + 1
      BY <1>5 DEF SetSentinel
  <2>3. sentinel' = sentinel \/ sentinel' = FALSE
      BY <1>5 DEF SetSentinel
  <2>4. sentinel' \in BOOLEAN
      BY <1>2, <2>3, Zenon DEF OpinionTypes
  <2>5. QED
      BY <2>1, <2>2, <2>4
<1>7. SilenceIsAge'
    BY <1>3, <1>4, <1>6 DEF SilenceIsAge
<1>8. OpinionTypes'
    BY <1>2, <1>5, <1>6 DEF OpinionTypes
<1>9. OpinionStands'
  <2>1. CASE falls /\ SetSentinel(FALSE) /\ opinion' = "away"
    <3>1. failures' = 0 => sentinel' = FALSE
      <4>1. failures' = 0 => failures' # failures + 1
          BY <1>6
      <4>2. QED
          BY <2>1, <4>1 DEF SetSentinel
    <3>2. ~(age' < StaleAfter)
        BY <1>4, <2>1
    <3>3. toggles' = 0 => enabled'
        BY <1>2, <1>3 DEF OpinionStands
    <3>4. QED
        BY <2>1, <3>1, <3>2, <3>3 DEF OpinionStands, Undisturbed
  <2>2. CASE ~falls /\ UNCHANGED <<sentinel, opinion, failures>>
    <3>1. failures' = 0 => /\ opinion' = "present" => sentinel' = TRUE
                           /\ said' = "present" /\ age' < StaleAfter => opinion' = "present"
        BY <1>2, <1>3, <1>4, <2>2 DEF OpinionStands
    <3>2. toggles' = 0 => enabled'
        BY <1>2, <1>3 DEF OpinionStands
    <3>3. Undisturbed' => /\ opinion' = "away" => sentinel' = FALSE
                          /\ opinion' = "present" => said' = "present"
                          /\ opinion' = "unknown" => said' = "nothing"
        BY <1>2, <1>3, <2>2 DEF OpinionStands, Undisturbed
    <3>4. Undisturbed' /\ sentinel' = TRUE => age' < StaleAfter
        BY <1>2, <1>3, <1>4, <2>2 DEF OpinionStands, Undisturbed, OpinionTypes
    <3>5. Undisturbed' /\ opinion' = "present" => untouched' < Threshold + age'
      <4> SUFFICES ASSUME Undisturbed', opinion' = "present"
                   PROVE  untouched' < Threshold + age'
          OBVIOUS
      <4>1. untouched < Threshold + age /\ sentinel' = TRUE
          BY <1>2, <1>3, <2>2, <3>1 DEF OpinionStands, Undisturbed
      <4>2. age' = age + d
          BY <1>4, <3>4, <4>1
      <4>3. QED
          BY <1>1, <1>2, <1>4, <4>1, <4>2
    <3>6. QED
        BY <3>1, <3>2, <3>3, <3>4, <3>5 DEF OpinionStands
  <2>3. QED
      BY <1>5, <2>1, <2>2
<1>10. QED
    BY <1>1, <1>7, <1>8, <1>9 DEF IdleInv

\* Somebody touches a session.
LEMMA TouchKeeps ==
    ASSUME IdleInv, NEW s \in Interactive, Touch(s)
    PROVE  IdleInv'
<1>1. /\ clock \in 0..(Wrap - 1) /\ Wrap \in Nat \ {0}
      /\ lastTouch \in [Interactive -> 0..(Wrap - 1)]
      /\ lastTouch' = [lastTouch EXCEPT ![s] = clock]
      /\ registered' = registered \cup {s} /\ untouched' = 0
      /\ UNCHANGED <<own, console, clock, reader>> /\ UNCHANGED presenceVars
    BY IdleAssumption DEF IdleInv, IdleTypes, Touch
<1>2. IdleTypes'
    BY <1>1 DEF IdleInv, IdleTypes
<1>3. TouchIsNear'
  <2> SUFFICES ASSUME NEW t \in registered' PROVE untouched' <= Since(t)'
      BY DEF TouchIsNear
  <2>1. lastTouch'[t] \in 0..(Wrap - 1) /\ clock' \in 0..(Wrap - 1)
      BY <1>1, <1>2 DEF IdleTypes
  <2>2. Since(t)' = IF clock' >= lastTouch'[t] THEN clock' - lastTouch'[t]
                    ELSE clock' - lastTouch'[t] + Wrap
      BY <2>1, Elapsed DEF Since
  <2>3. QED
      BY <1>1, <2>1, <2>2
<1>4. SilenceIsAge' /\ OpinionTypes'
    BY <1>1 DEF presenceVars, IdleInv, SilenceIsAge, OpinionTypes
<1>5. OpinionStands'
  <2>1. 0 < Threshold + age
      BY IdleAssumption DEF IdleInv, SilenceIsAge
  <2>2. QED
      BY <1>1, <2>1 DEF presenceVars, IdleInv, OpinionStands, Undisturbed
<1>6. QED
    BY <1>2, <1>3, <1>4, <1>5 DEF IdleInv

\* The next process starts without an opinion; so does a source.
LEMMA RestartKeeps == IdleInv /\ ProbeAgain => IdleInv'
<1> SUFFICES ASSUME IdleInv, ProbeAgain PROVE IdleInv'
    OBVIOUS
<1>1. /\ opinion' = "unknown" /\ silent' = 0 /\ said' = "nothing" /\ age' = 0
      /\ UNCHANGED <<sentinel, enabled, toggles, failures>>
      /\ UNCHANGED <<own, console, registered, lastTouch, clock, untouched>>
      /\ reader' \in {"wts", "own session", "none"}
      /\ reader' = "own session" => own # 0
    BY DEF ProbeAgain, ServiceRestarts, Resolvable
<1>2. IdleTypes' /\ TouchIsNear'
    BY <1>1 DEF IdleInv, IdleTypes, TouchIsNear, Since
<1>3. 0 < StaleAfter
    BY IdleAssumption
<1>4. SilenceIsAge' /\ OpinionTypes' /\ OpinionStands'
    BY <1>1, <1>3 DEF IdleInv, SilenceIsAge, OpinionTypes, OpinionStands, Undisturbed
<1>5. QED
    BY <1>2, <1>4 DEF IdleInv

\* A reload that turns the section off or on, and another user at the console.
LEMMA ToggleKeeps == IdleInv /\ (ReloadPresence \/ Switch) => IdleInv'
<1> SUFFICES ASSUME IdleInv, ReloadPresence \/ Switch PROVE IdleInv'
    OBVIOUS
<1>1. CASE ReloadPresence
  <2>1. /\ toggles' = toggles + 1 /\ toggles \in Nat
        /\ UNCHANGED <<sentinel, opinion, silent, failures, said, age>>
        /\ UNCHANGED <<own, console, registered, lastTouch, clock, reader, untouched>>
      BY <1>1 DEF ReloadPresence, Toggle, Reloaded, idleVars, IdleInv, SilenceIsAge
  <2>2. toggles' \in Nat /\ toggles' # 0
      BY <2>1
  <2>3. IdleTypes' /\ TouchIsNear'
      BY <2>1 DEF IdleInv, IdleTypes, TouchIsNear, Since
  <2>4. SilenceIsAge' /\ OpinionTypes' /\ OpinionStands'
      BY <2>1, <2>2 DEF IdleInv, SilenceIsAge, OpinionTypes, OpinionStands, Undisturbed
  <2>5. QED
      BY <2>3, <2>4 DEF IdleInv
<1>2. CASE Switch
    BY <1>2 DEF Switch, presenceVars, IdleInv, IdleTypes, TouchIsNear, Since, SilenceIsAge,
                OpinionTypes, OpinionStands, Undisturbed
<1>3. QED
    BY <1>1, <1>2

\* Every step of the service, its users and its clock keeps it.
LEMMA StepIdleInv == IdleInv /\ [IdleNext]_<<presenceVars, idleVars>> => IdleInv'
<1> SUFFICES ASSUME IdleInv, [IdleNext]_<<presenceVars, idleVars>> PROVE IdleInv'
    OBVIOUS
<1>1. CASE UNCHANGED <<presenceVars, idleVars>>
    BY <1>1 DEF presenceVars, idleVars, IdleInv, IdleTypes, TouchIsNear, Since,
       SilenceIsAge, OpinionTypes, OpinionStands, Undisturbed
<1>2. ASSUME NEW d \in 1..LongestTick, Collect(d) PROVE IdleInv'
  <2>1. (CanRead' /\ SampleArrives(Verdict', d)) \/ NoSample(d)
      BY <1>2 DEF Collect
  <2>2. QED
      BY <1>2, <2>1, SampleKeeps, SilenceKeeps
<1>3. QED
    BY <1>1, <1>2, TouchKeeps, RestartKeeps, ToggleKeeps DEF IdleNext

\* For any sessions, users at the console, wraps of the tick count, lengths of a
\* tick and restarts: the sentinel stands only on a recent touch, or right after a
\* start, and while somebody is known to be there it stands.
THEOREM SentinelIsTrue == IdleSpec => []PresenceIsTrue
<1>1. IdleInv => PresenceIsTrue
  <2> SUFFICES ASSUME IdleInv PROVE PresenceIsTrue
      OBVIOUS
  <2>1. OpinionStands /\ OpinionTypes
      BY DEF IdleInv
  <2>2. QED
      BY <2>1 DEF OpinionStands, OpinionTypes, PresenceIsTrue, Undisturbed
<1>2. QED
    BY <1>1, InitIdleInv, StepIdleInv, PTL DEF IdleSpec
-----------------------------------------------------------------------------
(* SensorDiscovery: a copy of the hot spot is not published as VRAM.        *)

Values == Nat \cup {Missing}

\* The places of the values that are there are finitely many, and so are those
\* of any of them.
LEMMA PlacesFinite ==
    ASSUME NEW x \in Seq(Values)
    PROVE  /\ IsFiniteSet(Present(x)) /\ Cardinality(Present(x)) \in Nat
           /\ \A P \in SUBSET Present(x) :
                IsFiniteSet(P) /\ Cardinality(P) \in Nat
                  /\ Cardinality(P) <= Cardinality(Present(x))
<1>1. IsFiniteSet(1..Len(x))
  <2>1. Len(x) \in Int /\ 1 \in Int
      OBVIOUS
  <2>2. QED
      BY <2>1, FS_Interval
<1>2. Present(x) \in SUBSET (1..Len(x))
    BY DEF Present
<1>3. IsFiniteSet(Present(x))
    BY <1>1, <1>2, FS_Subset
<1>4. QED
    BY <1>3, FS_Subset, FS_CardinalityType

\* A sequence of readings has a bound.
LEMMA HasBound ==
    ASSUME NEW x \in Seq(Values)
    PROVE  \E b \in Nat : \A i \in Present(x) : x[i] <= b
<1> DEFINE Within(m, b) == \A i \in Present(x) : i <= m => x[i] <= b
           S == {m \in Nat : \E b \in Nat : Within(m, b)}
<1>1. \A i \in Present(x) : i \in Nat /\ i >= 1 /\ i <= Len(x) /\ x[i] \in Nat
    BY DEF Present, Values
<1>2. 0 \in S
  <2>1. Within(0, 0)
      BY <1>1
  <2>2. QED
      BY <2>1
<1>3. ASSUME NEW m \in S PROVE m + 1 \in S
  <2>1. PICK b \in Nat : Within(m, b)
      OBVIOUS
  <2>2. m \in Nat
      OBVIOUS
  <2>3. CASE m + 1 \in Present(x)
    <3> DEFINE c == IF x[m + 1] > b THEN x[m + 1] ELSE b
    <3>1. c \in Nat /\ c >= b /\ c >= x[m + 1]
        BY <1>1, <2>3
    <3>2. Within(m + 1, c)
      <4>1. SUFFICES ASSUME NEW i \in Present(x), i <= m + 1 PROVE x[i] <= c
          OBVIOUS
      <4>2. CASE i = m + 1
          BY <3>1, <4>2
      <4>3. CASE i # m + 1
        <5>1. i <= m /\ x[i] \in Nat
            BY <1>1, <2>2, <4>1, <4>3
        <5>2. x[i] <= b
            BY <2>1, <5>1
        <5> HIDE DEF c
        <5>3. QED
            BY <3>1, <5>1, <5>2
      <4>4. QED
          BY <4>2, <4>3
    <3> HIDE DEF c, Within
    <3>3. QED
        BY <2>2, <3>1, <3>2
  <2>4. CASE m + 1 \notin Present(x)
    <3>1. \A i \in Present(x) : i <= m + 1 => i <= m
        BY <1>1, <2>2, <2>4
    <3>2. Within(m + 1, b)
        BY <2>1, <3>1
    <3> HIDE DEF Within
    <3>3. QED
        BY <2>2, <3>2
  <2>5. QED
      BY <2>3, <2>4
<1>4. S = Nat
  <2>1. S \in SUBSET Nat
      OBVIOUS
  <2> HIDE DEF S
  <2>2. QED
      BY <1>2, <1>3, <2>1, Induct
<1>5. PICK b \in Nat : Within(Len(x), b)
  <2>1. Len(x) \in S
    <3> HIDE DEF S
    <3>1. Len(x) \in Nat
        OBVIOUS
    <3>2. QED
        BY <1>4, <3>1
  <2>2. QED
      BY <2>1
<1>6. QED
    BY <1>1, <1>5

\* The k-th smallest reading is one with fewer than k below it and k up to it.
LEMMA RankedFacts ==
    ASSUME NEW x \in Seq(Values), NEW k \in 1..Cardinality(Present(x))
    PROVE  /\ Ranked(x, k) \in Nat
           /\ Cardinality({i \in Present(x) : x[i] < Ranked(x, k)}) < k
           /\ k <= Cardinality({i \in Present(x) : x[i] <= Ranked(x, k)})
<1> DEFINE Below(v) == {i \in Present(x) : x[i] < v}
           UpTo(v) == {i \in Present(x) : x[i] <= v}
           S == {v \in Nat : k <= Cardinality(UpTo(v))}
           IsRank(v) == /\ v # Missing
                        /\ Cardinality(Below(v)) < k
                        /\ k <= Cardinality(UpTo(v))
<1>1. k \in Nat /\ k >= 1 /\ k <= Cardinality(Present(x))
    BY PlacesFinite
<1>2. \A i \in Present(x) : x[i] \in Nat /\ i \in DOMAIN x
    BY DEF Present, Values
<1>3. \A v : Cardinality(Below(v)) \in Nat /\ Cardinality(UpTo(v)) \in Nat
  <2>1. \A v : Below(v) \in SUBSET Present(x) /\ UpTo(v) \in SUBSET Present(x)
      OBVIOUS
  <2> HIDE DEF Below, UpTo
  <2>2. QED
      BY <2>1, PlacesFinite
<1>4. S # {}
  <2>1. PICK b \in Nat : \A i \in Present(x) : x[i] <= b
      BY HasBound
  <2>2. UpTo(b) = Present(x)
      BY <2>1
  <2>3. b \in S
      BY <1>1, <2>2
  <2>4. QED
      BY <2>3
<1>5. PICK v \in S : \A u \in S : v <= u
  <2>1. S \in SUBSET Nat
      OBVIOUS
  <2> HIDE DEF S
  <2>2. QED
      BY <1>4, <2>1, Least
<1>6. v \in Nat /\ k <= Cardinality(UpTo(v))
    BY <1>5
<1>7. Cardinality(Below(v)) < k
  <2>1. CASE v = 0
    <3>1. Below(v) = {}
        BY <1>2, <2>1
    <3>2. Cardinality({}) = 0
        BY FS_EmptySet
    <3> HIDE DEF Below
    <3>3. QED
        BY <1>1, <3>1, <3>2
  <2>2. CASE v # 0
    <3>1. v - 1 \in Nat /\ ~(v <= v - 1)
        BY <1>6, <2>2
    <3>2. v - 1 \notin S
        BY <1>5, <3>1
    <3>3. Below(v) = UpTo(v - 1)
        BY <1>2, <1>6
    <3>4. ~(k <= Cardinality(UpTo(v - 1)))
        BY <3>1, <3>2
    <3> HIDE DEF Below, UpTo
    <3>5. Cardinality(UpTo(v - 1)) \in Nat
        BY <1>3
    <3>6. QED
        BY <1>1, <3>3, <3>4, <3>5
  <2>3. QED
      BY <2>1, <2>2
<1>8. v \in Range(x)
  <2>1. SUFFICES ASSUME v \notin Range(x) PROVE FALSE
      OBVIOUS
  <2>2. \A i \in Present(x) : x[i] # v
      BY <1>2, <2>1 DEF Range
  <2>3. Below(v) = UpTo(v)
      BY <1>2, <1>6, <2>2
  <2> HIDE DEF Below, UpTo
  <2>4. QED
      BY <1>1, <1>3, <1>6, <1>7, <2>3
<1>9. IsRank(v)
    BY <1>6, <1>7 DEF Missing
<1>10. Ranked(x, k) = CHOOSE u \in Range(x) : IsRank(u)
    BY DEF Ranked
<1>11. Ranked(x, k) \in Range(x) /\ IsRank(Ranked(x, k))
  <2> HIDE DEF IsRank
  <2>1. QED
      BY <1>8, <1>9, <1>10
<1>12. Ranked(x, k) \in Nat
    BY <1>11 DEF Range, Values
<1>13. QED
    BY <1>11, <1>12
\* The k-th smallest of readings that are pairwise close are close.
LEMMA RanksAreClose ==
    ASSUME NEW x \in Seq(Values), NEW y \in Seq(Values), NEW d \in Nat,
           Present(x) = Present(y),
           \A i \in Present(x) : x[i] - y[i] <= d,
           NEW k \in 1..Cardinality(Present(x))
    PROVE  Ranked(x, k) <= Ranked(y, k) + d
<1> DEFINE v == Ranked(x, k)
           w == Ranked(y, k)
           Below == {i \in Present(x) : x[i] < v}
           UpTo == {i \in Present(y) : y[i] <= w}
<1>1. v \in Nat /\ Cardinality(Below) < k
    BY RankedFacts
<1>2. w \in Nat /\ k <= Cardinality(UpTo)
  <2>1. k \in 1..Cardinality(Present(y))
      OBVIOUS
  <2>2. QED
      BY <2>1, RankedFacts
<1>3. ASSUME v > w + d PROVE FALSE
  <2>1. \A i \in Present(x) : x[i] \in Nat /\ y[i] \in Nat
      BY DEF Present, Values
  <2> HIDE DEF v, w
  <2>2. UpTo \in SUBSET Below
      BY <1>1, <1>2, <1>3, <2>1
  <2>3. Below \in SUBSET Present(x)
      OBVIOUS
  <2> HIDE DEF Below, UpTo
  <2>4. IsFiniteSet(Below) /\ Cardinality(Below) \in Nat
      BY <2>3, PlacesFinite
  <2>5. Cardinality(UpTo) \in Nat /\ Cardinality(UpTo) <= Cardinality(Below)
      BY <2>2, <2>4, FS_Subset, FS_CardinalityType
  <2>6. k \in Nat
      BY PlacesFinite
  <2>7. QED
      BY <1>1, <1>2, <2>4, <2>5, <2>6
<1> HIDE DEF v, w
<1>4. v <= w + d
    BY <1>1, <1>2, <1>3
<1>5. QED
    BY <1>4 DEF v, w

\* So are their medians.
LEMMA MediansAreClose ==
    ASSUME NEW x \in Seq(Values), NEW y \in Seq(Values), NEW d \in Nat,
           Present(x) = Present(y), Present(x) # {},
           \A i \in Present(x) : x[i] - y[i] <= d
    PROVE  /\ Median2(x) \in Nat /\ Median2(y) \in Nat
           /\ Median2(x) <= Median2(y) + 2 * d
<1> DEFINE n == Cardinality(Present(x))
           a == (n + 1) \div 2
           b == (n + 2) \div 2
<1>1. n \in Nat /\ n # 0
    BY PlacesFinite, FS_EmptySet
<1>2. n = Cardinality(Present(y))
    OBVIOUS
<1>3. Median2(x) = Ranked(x, a) + Ranked(x, b) /\ Median2(y) = Ranked(y, a) + Ranked(y, b)
    BY <1>2 DEF Median2
<1>4. a \in 1..n /\ b \in 1..n
  <2> HIDE DEF n
  <2>1. QED
      BY <1>1
<1> HIDE DEF a, b
<1>5. /\ Ranked(x, a) \in Nat /\ Ranked(x, b) \in Nat
      /\ Ranked(y, a) \in Nat /\ Ranked(y, b) \in Nat
    BY <1>2, <1>4, RankedFacts
<1>6. Ranked(x, a) <= Ranked(y, a) + d /\ Ranked(x, b) <= Ranked(y, b) + d
    BY <1>4, RanksAreClose
<1>7. QED
    BY <1>3, <1>5, <1>6

\* The only hot spot of a device, when it is usable, is the first of its kind.
LEMMA OnlyIsFirst ==
    ASSUME OneHotspotPerDevice, listing \in Seq(DOMAIN Catalog),
           NEW h \in Range(listing), Catalog[h].kind = "hotspot", Usable(h)
    PROVE  IsFirst(h)
<1> DEFINE S == {i \in DOMAIN listing : listing[i] = h}
<1>1. S \in SUBSET Nat /\ S # {}
    BY DEF Range
<1>2. PICK i \in S : \A k \in S : i <= k
  <2> HIDE DEF S
  <2>1. QED
      BY <1>1, Least
<1>3. i \in 1..Len(listing) /\ listing[i] = h
    OBVIOUS
<1>4. ASSUME NEW k \in 1..(i - 1), SameChannel(listing[k], h) PROVE FALSE
  <2>1. k \in 1..Len(listing) /\ listing[k] \in DOMAIN Catalog /\ k < i /\ k \in Nat /\ i \in Nat
      BY <1>3
  <2>2. h \in DOMAIN Catalog
      BY <1>3
  <2>3. listing[k] = h
      BY <1>4, <2>1, <2>2 DEF OneHotspotPerDevice, SameChannel
  <2>4. k \in S
      BY <2>1, <2>3
  <2>5. QED
      BY <1>2, <2>1, <2>4
<1>5. QED
    BY <1>3, <1>4 DEF IsFirst

\* A copy of a hot spot has its median within the tolerance.
LEMMA CopyIsSynthetic ==
    ASSUME NEW j \in DOMAIN Catalog, NEW h \in DOMAIN Catalog, readings \in Histories,
           Copies(j, h), Usable(j)
    PROVE  Usable(h) /\ SyntheticJunction(j, h)
<1> DEFINE x == readings[j]
           y == readings[h]
<1>1. x \in Seq(Values) /\ y \in Seq(Values) /\ x # <<>> /\ Len(x) = Len(y) /\ Tolerance \in Nat
    BY DiscoveryAssumption DEF Values
<1>2. Len(x) \in Nat /\ Len(x) \in DOMAIN x /\ Len(x) \in DOMAIN y /\ DOMAIN x = DOMAIN y
  <2> HIDE DEF x, y
  <2>1. Len(x) \in Nat /\ Len(x) # 0 /\ DOMAIN x = 1..Len(x) /\ DOMAIN y = 1..Len(y)
      BY <1>1
  <2>2. QED
      BY <1>1, <2>1
<1>3. \A i \in DOMAIN x :
        /\ x[i] = Missing <=> y[i] = Missing
        /\ x[i] > 0 <=> y[i] > 0
        /\ x[i] - y[i] <= Tolerance /\ y[i] - x[i] <= Tolerance
    BY DEF Copies
<1>4. Last(x) = x[Len(x)] /\ Last(y) = y[Len(x)] /\ x[Len(x)] > 0
    BY <1>1 DEF Last, Usable
<1>5. Usable(h)
    BY <1>2, <1>3, <1>4 DEF Usable
<1> HIDE DEF x, y
<1>6. Present(x) = Present(y)
    BY <1>2, <1>3 DEF Present
<1>7. Present(x) # {}
    BY <1>2, <1>4 DEF Present, Missing
<1>8. \A i \in Present(x) : x[i] - y[i] <= Tolerance /\ y[i] - x[i] <= Tolerance
    BY <1>3 DEF Present
<1>9. /\ Median2(x) \in Nat /\ Median2(y) \in Nat
      /\ Median2(x) <= Median2(y) + 2 * Tolerance
    BY <1>1, <1>6, <1>7, <1>8, MediansAreClose
<1>10. Median2(y) <= Median2(x) + 2 * Tolerance
    BY <1>1, <1>6, <1>7, <1>8, MediansAreClose
<1>11. -2 * Tolerance <= Median2(x) - Median2(y) /\ Median2(x) - Median2(y) <= 2 * Tolerance
    BY <1>1, <1>9, <1>10
<1>12. QED
    BY <1>5, <1>11 DEF SyntheticJunction, x, y

\* What is published was discovered, from the samples the probe saw.
DiscoveryInv ==
    /\ listing \in Listings
    /\ readings \in Histories
    /\ DOMAIN signals \subseteq Discovered

\* For any sensors, orders in which a sample lists them and readings, some of
\* them missing: _discover() publishes no copy of the hot spot as the memory
\* junction of a device, where a device has one hot spot.
THEOREM NoDieReadingIsVram ==
    ASSUME OneHotspotPerDevice
    PROVE  DiscoverySpec => []NoDieReadingAsVram
<1>1. DiscoveryInit => DiscoveryInv
    BY DEF DiscoveryInit, DiscoveryInv
<1>2. DiscoveryInv /\ [DiscoveryNext]_discoveryVars => DiscoveryInv'
  <2> SUFFICES ASSUME DiscoveryInv, [DiscoveryNext]_discoveryVars PROVE DiscoveryInv'
      OBVIOUS
  <2>1. UNCHANGED <<listing, readings>>
      BY DEF DiscoveryNext, Discover, discoveryVars
  <2>2. Discovered' = Discovered
      BY <2>1 DEF Discovered, GpuTemperature, IsFirst, Usable, SyntheticJunction
  <2>3. DOMAIN signals' \subseteq Discovered
      BY DEF DiscoveryNext, Discover, discoveryVars, DiscoveryInv
  <2>4. QED
      BY <2>1, <2>2, <2>3 DEF DiscoveryInv
<1>3. DiscoveryInv => NoDieReadingAsVram
  <2> SUFFICES ASSUME DiscoveryInv,
                      NEW j \in DOMAIN signals, Catalog[j].kind = "mem_junction",
                      NEW h \in Range(listing), Catalog[h].kind = "hotspot",
                      Catalog[h].hw = Catalog[j].hw, Copies(j, h)
               PROVE  FALSE
      BY DEF NoDieReadingAsVram
  <2>1. listing \in Seq(DOMAIN Catalog)
      BY DiscoveryAssumption DEF DiscoveryInv
  <2>2. j \in Discovered /\ j \in Range(listing)
      BY DEF DiscoveryInv, Discovered
  <2>3. j \in DOMAIN Catalog /\ h \in DOMAIN Catalog
      BY <2>1, <2>2 DEF Range
  <2>4. GpuTemperature(j)
      BY <2>2 DEF Discovered, CpuKinds
  <2>5. Usable(j)
      BY <2>4 DEF GpuTemperature, IsFirst
  <2>6. Usable(h) /\ SyntheticJunction(j, h)
      BY <2>3, <2>5, CopyIsSynthetic DEF DiscoveryInv
  <2>7. IsFirst(h)
      BY <2>1, <2>6, OnlyIsFirst
  <2>8. QED
      BY <2>3, <2>4, <2>6, <2>7 DEF GpuTemperature
<1>4. QED
    BY <1>1, <1>2, <1>3, PTL DEF DiscoverySpec
=============================================================================
