------------------------- MODULE ServiceLoopProofs -------------------------
(***************************************************************************)
(* What the service loop keeps whatever the check interval, the cooldown,   *)
(* the pauses and the length of a tick, with files, flags and pauses        *)
(* changing under it between any two phases.                                *)
(***************************************************************************)
EXTENDS ServiceLoop, TLAPS

Types ==
    /\ disk \in Files
    /\ lastRead \in {"config", "malformed", "undecodable", "missing"}
    /\ cfg \in Config /\ observeOnly \in BOOLEAN
    /\ sentinel \in Nat /\ mirror \in Nat /\ enginePause \in Nat /\ cooldown \in Nat
    /\ api \in [after : {"nothing", "patch", "pause"}, mirror : Nat]
    /\ requested \in BOOLEAN
    /\ pc \in Phases
    /\ sinceCheck \in 0..RecheckEvery /\ quiet \in 0..RecheckEvery
    /\ sinceAction \in 0..Cooldown

\* What the engine asked for is pending from its phase to the dispatch, what
\* was done is on record from the cap to the sleep, and the pause check is
\* over by the time the engine runs.
PhaseInv ==
    /\ pending \subseteq {cfg.action}
    /\ pending # {} => pc \in {"cap", "dispatch"}
    /\ did # {} => pc \in {"dispatch", "sleep"}
    /\ pc \in {"mirror", "engine", "cap", "dispatch", "sleep"} => sinceCheck < RecheckEvery

\* A malformed file disarms the service, and its default config can only kill.
DisarmedInv ==
    /\ lastRead = "malformed" => observeOnly
    /\ observeOnly => cfg = DefaultConfig
    /\ MalformedIsSafe

\* What is pending or done was decided on a ready rule of a running engine,
\* and the cooldown covers what the last action leaves of it.
GateInv ==
    /\ pending # {} \/ did \ {"cap"} # {} => enginePause = 0
    /\ pending # {} => cooldown = Cooldown /\ sinceAction = Cooldown
    /\ sinceAction + cooldown >= Cooldown

\* Engine and mirror agree with the sentinel, unless it was touched or the
\* engine replaced since the last check, or its second half is under way.
CopiesInv ==
    /\ enginePause = sentinel \/ quiet <= sinceCheck
    /\ \/ mirror = sentinel
       \/ quiet <= sinceCheck
       \/ api.after = "pause" \/ pc = "mirror"

IInv == Types /\ PhaseInv /\ DisarmedInv /\ GateInv /\ CopiesInv
-----------------------------------------------------------------------------
\* The files that are configs, and those that stand for the default one.
LEMMA FileFacts ==
    /\ DefaultConfig \in Config
    /\ NoFile \in Files
    /\ \A file \in Files :
         file.config \in Config /\ file.is \in {"config", "malformed", "undecodable", "missing"}
    /\ \A file \in Files : file.is # "config" => file.config = DefaultConfig
    /\ \A c \in Config : Valid(c) \in Files /\ Valid(c).is = "config"
    /\ \A c \in Config, a \in Actions : [c EXCEPT !.action = a] \in Config
<1>1. DefaultConfig \in Config
    BY ServiceBounds DEF DefaultConfig, Config
<1>2. NoFile \in NoConfig
    BY DEF NoFile, NoConfig
<1>3. ASSUME NEW file \in NoConfig
      PROVE  /\ file.config = DefaultConfig
             /\ file.is \in {"malformed", "undecodable", "missing"}
    BY DEF NoConfig
<1>4. ASSUME NEW c \in Config
      PROVE  Valid(c) \in Files /\ Valid(c).is = "config" /\ Valid(c).config = c
    BY DEF Valid, Files
<1>5. ASSUME NEW c \in Config, NEW a \in Actions
      PROVE  [c EXCEPT !.action = a] \in Config
    BY DEF Config
<1>6. ASSUME NEW file \in Files
      PROVE  /\ file.config \in Config
             /\ file.is \in {"config", "malformed", "undecodable", "missing"}
             /\ file.is # "config" => file.config = DefaultConfig
    <2>1. CASE file \in NoConfig
        BY <1>1, <1>3, <2>1
    <2>2. CASE file \in {Valid(c) : c \in Config}
        BY <1>4, <2>2
    <2>3. QED
        BY <2>1, <2>2 DEF Files
<1>7. QED
    BY <1>1, <1>2, <1>4, <1>5, <1>6 DEF Files

\* Left and Aged stay within their bounds and keep the order of two ages.
LEMMA ClockFacts ==
    ASSUME NEW d \in 1..SlowestTick
    PROVE  /\ \A n \in Nat : Left(n, d) \in Nat /\ (n = 0 => Left(n, d) = 0)
           /\ \A cap \in Nat : \A n \in 0..cap : Aged(n, d, cap) \in 0..cap
           /\ \A cap \in Nat : \A m \in 0..cap, n \in 0..cap :
                 m <= n => Aged(m, d, cap) <= Aged(n, d, cap)
BY ServiceBounds DEF Left, Aged

\* The HTTP thread between two requests.
LEMMA IdleFacts ==
    /\ Idle \in [after : {"nothing", "patch", "pause"}, mirror : Nat]
    /\ Idle.after = "nothing"
BY DEF Idle

\* A loop that starts.
LEMMA InitIInv == Init => IInv
<1> SUFFICES ASSUME Init PROVE IInv
    OBVIOUS
<1>1. disk \in Files /\ disk.config \in Config
    BY FileFacts, FirstDiskAssumption DEF Init
<1>2. observeOnly => cfg = DefaultConfig
    BY <1>1, FileFacts DEF Init, IsObserveOnly
<1>3. /\ observeOnly \in BOOLEAN
      /\ lastRead = "malformed" => observeOnly
    BY DEF Init, IsObserveOnly
<1>4. Types
    <2>1. /\ disk \in Files
          /\ lastRead \in {"config", "malformed", "undecodable", "missing"}
          /\ cfg \in Config /\ observeOnly \in BOOLEAN
        BY <1>1, <1>3, FileFacts DEF Init
    <2>2. /\ sentinel \in Nat /\ mirror \in Nat /\ enginePause \in Nat /\ cooldown \in Nat
          /\ requested \in BOOLEAN /\ pc \in Phases
          /\ sinceCheck \in 0..RecheckEvery /\ quiet \in 0..RecheckEvery
          /\ sinceAction \in 0..Cooldown
        <3>1. RecheckEvery \in 0..RecheckEvery /\ Cooldown \in 0..Cooldown
            BY ServiceBounds
        <3>2. pc \in Phases /\ requested \in BOOLEAN
            BY DEF Init, Phases
        <3>3. sentinel = 0 /\ mirror = 0 /\ enginePause = 0 /\ cooldown = 0
            BY DEF Init
        <3>4. sinceCheck = RecheckEvery /\ quiet = RecheckEvery /\ sinceAction = Cooldown
            BY DEF Init
        <3>5. QED
            BY <3>1, <3>2, <3>3, <3>4
    <2>3. api \in [after : {"nothing", "patch", "pause"}, mirror : Nat]
        BY IdleFacts DEF Init
    <2>4. QED
        BY <2>1, <2>2, <2>3 DEF Types
<1>5. PhaseInv
    BY DEF Init, PhaseInv
<1>6. DisarmedInv
    BY <1>2, <1>3 DEF Init, DisarmedInv, MalformedIsSafe
<1>7. GateInv
    BY ServiceBounds DEF Init, GateInv
<1>8. CopiesInv
    BY DEF Init, CopiesInv
<1>9. QED
    BY <1>4, <1>5, <1>6, <1>7, <1>8 DEF IInv

\* A phase of the tick.
LEMMA TickIInv == IInv /\ TickStep => IInv'
<1> SUFFICES ASSUME IInv, TickStep PROVE IInv'
    OBVIOUS
<1> USE ServiceBounds DEF IInv, Types, PhaseInv, DisarmedInv, GateInv, CopiesInv,
                          MalformedIsSafe, Phases
<1>1. CASE NoReload
    BY <1>1 DEF NoReload, files, apiVars, engineVars, history
<1>2. CASE Reload
    <2>1. Found(hasPath) = IF hasPath THEN disk ELSE NoFile
        BY DEF Found
    <2>2. /\ cfg' \in Config /\ observeOnly' \in BOOLEAN
          /\ lastRead' \in {"config", "malformed", "undecodable", "missing"}
          /\ lastRead' = "malformed" => observeOnly'
          /\ observeOnly' => cfg' = DefaultConfig
        BY <1>2, <2>1, FileFacts DEF Reload, Load, IsObserveOnly
    <2>3. /\ enginePause' = 0 /\ cooldown' = 0 /\ pending' = {} /\ did = {} /\ did' = {}
          /\ requested' = FALSE /\ sinceAction' = Cooldown /\ quiet' = 0 /\ pc' = "pause"
          /\ UNCHANGED <<disk, sentinel, api, mirror, sinceCheck>>
        BY <1>2 DEF Reload, NewEngine, files
    <2>4. Types'
        <3>1. /\ disk' \in Files /\ sentinel' \in Nat /\ mirror' \in Nat
              /\ api' \in [after : {"nothing", "patch", "pause"}, mirror : Nat]
              /\ sinceCheck' \in 0..RecheckEvery
            BY <2>3
        <3>2. /\ enginePause' \in Nat /\ cooldown' \in Nat /\ pc' \in Phases
            BY <2>3
        <3>3. requested' \in BOOLEAN
            BY <2>3
        <3>4. quiet' \in 0..RecheckEvery /\ sinceAction' \in 0..Cooldown
            BY <2>3, 0 \in 0..RecheckEvery, Cooldown \in 0..Cooldown
        <3>5. QED
            BY <2>2, <3>1, <3>2, <3>3, <3>4
    <2>5. PhaseInv' /\ DisarmedInv' /\ GateInv' /\ CopiesInv'
        BY <2>2, <2>3
    <2>6. QED
        BY <2>4, <2>5
<1>3. CASE ReloadFails
    <2>1. disk.is = "undecodable"
        BY <1>3 DEF ReloadFails, Found, NoFile
    <2>2. QED
        BY <1>3, <2>1 DEF ReloadFails, files, engineVars
<1>4. CASE SkipPauseCheck
    BY <1>4 DEF SkipPauseCheck, CheckIsDue, files, apiVars, engineVars, history
<1>5. CASE CheckPause
    BY <1>5 DEF CheckPause, files, apiVars, history
<1>6. CASE MirrorPause
    BY <1>6 DEF MirrorPause, MirrorOf, files, engineVars, history
<1>7. CASE EngineTick
    BY <1>7 DEF EngineTick, MayAct, files, apiVars, history
<1>8. CASE RssCap
    BY <1>8 DEF RssCap, CapMayKill, files, apiVars, engineVars
<1>9. CASE Dispatch
    BY <1>9 DEF Dispatch, Effective, DefaultConfig, files, apiVars
<1>10. ASSUME NEW d \in 1..SlowestTick, Sleep(d) PROVE IInv'
    <2>1. pending = {} /\ pending' = {} /\ did' = {}
        BY <1>10 DEF Sleep
    <2>2. Types' /\ PhaseInv' /\ DisarmedInv'
        BY <1>10, <2>1, ClockFacts DEF Sleep
    <2>3. sinceAction' + cooldown' >= Cooldown
        BY <1>10 DEF Sleep, Left, Aged
    <2>4. quiet <= sinceCheck => quiet' <= sinceCheck'
        BY <1>10, ClockFacts DEF Sleep
    <2>5. CopiesInv'
        BY <1>10, <2>4 DEF Sleep
    <2>6. QED
        BY <2>1, <2>2, <2>3, <2>5
<1>11. QED
    BY <1>1, <1>2, <1>3, <1>4, <1>5, <1>6, <1>7, <1>8, <1>9, <1>10 DEF TickStep

\* Whatever the others do to the files, the flags and the process.
LEMMA OthersIInv ==
    ASSUME IInv,
           \/ ApiStep
           \/ \E n \in Pauses \cup {0} : ApiPause(n) \/ CliPause(n)
           \/ \E action \in Actions : Patch(action)
           \/ \E file \in Files : Edit(file)
           \/ Restart
           \/ UNCHANGED vars
    PROVE  IInv'
<1> USE ServiceBounds DEF IInv, Types, PhaseInv, DisarmedInv, GateInv, CopiesInv,
                          MalformedIsSafe,
                          Phases
<1>1. CASE ApiMirrorsPause
    BY <1>1, IdleFacts DEF ApiMirrorsPause, files, engineVars, loop
<1>2. CASE PatchRequestsReload
    BY <1>2, IdleFacts DEF PatchRequestsReload, RequestReload, files, engineVars, history, loop
<1>3. ASSUME NEW n \in Pauses \cup {0}, ApiPause(n) PROVE IInv'
    BY <1>3 DEF ApiPause, engineVars, loop
<1>4. ASSUME NEW n \in Pauses \cup {0}, CliPause(n) PROVE IInv'
    BY <1>4 DEF CliPause, apiVars, engineVars, loop
<1>5. ASSUME NEW action \in Actions, Patch(action) PROVE IInv'
    <2>1. disk' \in Files
        BY <1>5, FileFacts DEF Patch
    <2>2. /\ api' \in [after : {"nothing", "patch", "pause"}, mirror : Nat]
          /\ api = Idle /\ api'.after = "patch"
          /\ UNCHANGED <<sentinel, requested, mirror, engineVars, history, loop>>
        BY <1>5 DEF Patch
    <2>3. QED
        BY <2>1, <2>2, IdleFacts DEF engineVars, history, loop
<1>6. ASSUME NEW file \in Files, Edit(file) PROVE IInv'
    BY <1>6 DEF Edit, apiVars, engineVars, history, loop
<1>7. CASE Restart
    <2>1. /\ cfg' \in Config /\ observeOnly' \in BOOLEAN
          /\ lastRead' \in {"config", "malformed", "undecodable", "missing"}
          /\ lastRead' = "malformed" => observeOnly'
          /\ observeOnly' => cfg' = DefaultConfig
          /\ pc' \in {"reload", "down"}
        <3>1. CASE disk.is = "undecodable"
            BY <1>7, <3>1 DEF Restart
        <3>2. CASE disk.is # "undecodable"
            BY <1>7, <3>2, FileFacts DEF Restart, Load, Found, IsObserveOnly
        <3>3. QED
            BY <3>1, <3>2
    <2>2. /\ enginePause' = 0 /\ cooldown' = 0 /\ pending' = {} /\ did' = {}
          /\ sinceCheck' = RecheckEvery /\ requested' = FALSE /\ mirror' = 0
          /\ api' = Idle
          /\ sinceAction' = Cooldown
          /\ UNCHANGED <<disk, sentinel, quiet>>
        BY <1>7 DEF Restart, NewEngine, files
    <2>3. Types'
        <3>1. pc' \in Phases /\ disk' \in Files
            BY <2>1, <2>2
        <3>2. RecheckEvery \in 0..RecheckEvery
            BY ServiceBounds
        <3>3. sinceCheck' \in 0..RecheckEvery /\ quiet' \in 0..RecheckEvery
            BY <2>2, <3>2
        <3>8. sinceAction' \in 0..Cooldown
            BY <2>2, ServiceBounds
        <3>4. sentinel' \in Nat /\ mirror' \in Nat /\ enginePause' \in Nat /\ cooldown' \in Nat
            BY <2>2
        <3>5. api' \in [after : {"nothing", "patch", "pause"}, mirror : Nat]
            BY <2>2, IdleFacts
        <3>6. requested' \in BOOLEAN
            BY <2>2
        <3>7. QED
            BY <2>1, <3>1, <3>3, <3>4, <3>5, <3>6, <3>8
    <2>4. PhaseInv' /\ DisarmedInv' /\ GateInv' /\ CopiesInv'
        BY <2>1, <2>2
    <2>5. QED
        BY <2>3, <2>4
<1>8. CASE UNCHANGED vars
    BY <1>8 DEF vars, files, apiVars, engineVars, history, loop
<1>9. QED
    BY <1>1, <1>2, <1>3, <1>4, <1>5, <1>6, <1>7, <1>8 DEF ApiStep

\* The invariant of the loop, with all of its events.
THEOREM Invariance == Spec => []IInv
<1>1. IInv /\ [Next]_vars => IInv'
    BY TickIInv, OthersIInv DEF Next
<1>2. QED
    BY InitIInv, <1>1, PTL DEF Spec

\* From the load of a malformed config file to the load of another one, no
\* process is killed or throttled, by a rule or by the cap.
THEOREM MalformedNeverActs == Spec => []MalformedIsSafe
<1>1. IInv => MalformedIsSafe
    BY DEF IInv, DisarmedInv
<1>2. QED
    BY <1>1, Invariance, PTL

\* A pause that was lifted or has run out stops holding the engine back within
\* one check interval, reloads and restarts included.
THEOREM PausesEnd == Spec => []PauseEnds
<1>1. IInv => PauseEnds
    BY ServiceBounds DEF IInv, Types, PhaseInv, CopiesInv, PauseEnds
<1>2. QED
    BY <1>1, Invariance, PTL

\* No rule touches a process in a pause that was set a check interval ago.
THEOREM PausesHold == Spec => []PauseHonoured
<1>1. IInv => PauseHonoured
    BY ServiceBounds DEF IInv, Types, PhaseInv, GateInv, CopiesInv, PauseHonoured, InForce
<1>2. QED
    BY <1>1, Invariance, PTL

\* /health reports the pause the engine is in.
THEOREM HealthIsTrue == Spec => []HealthTellsThePause
<1>1. IInv => HealthTellsThePause
    BY ServiceBounds, IdleFacts DEF IInv, Types, PhaseInv, CopiesInv, HealthTellsThePause
<1>2. QED
    BY <1>1, Invariance, PTL

\* Two actions of one engine's rule are a cooldown apart.
THEOREM CooldownsHold == Spec => CooldownKept
<1>1. IInv /\ [Next]_vars => [did' # did /\ pending # {} => sinceAction >= Cooldown]_vars
    BY ServiceBounds DEF IInv, Types, GateInv
<1>2. QED
    BY <1>1, Invariance, PTL DEF Spec, CooldownKept
=============================================================================
