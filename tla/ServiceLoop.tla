---------------------------- MODULE ServiceLoop ----------------------------
(***************************************************************************)
(* run_service() of src/atfield/service.py, one phase of a tick per step:   *)
(* reload, pause check, engine, RSS cap, dispatch, sleep.  Between any two  *)
(* phases the HTTP thread (src/atfield/http_api.py), atf (src/atfield/      *)
(* cli.py) and an operator's editor touch the files and flags they share.   *)
(* The engine is reduced to the gate it implements (see ActionGate): it     *)
(* decides when its one rule may act.  Times are what is left of them, in   *)
(* seconds, so the model has no clock.                                      *)
(***************************************************************************)
EXTENDS Integers, FiniteSets

CONSTANTS
    RecheckEvery,      \* pause_check_interval_ns
    Cooldown,          \* the rule's cooldown
    Actions,           \* bound: the actions a config gives the rule
    Pauses,            \* bound: the durations somebody pauses for
    SlowestTick,       \* bound: the longest tick
    Events,            \* bound: which of AllEvents happen
    FirstDisk          \* the config files a behaviour may start with

AllEvents == {"pause", "patch", "editor", "restart"}

ASSUME ServiceBounds ==
    /\ RecheckEvery \in Nat \ {0}
    /\ Cooldown \in Nat
    /\ "kill" \in Actions /\ Actions \subseteq {"kill", "throttle", "log"}
    /\ Pauses \subseteq Nat \ {0}
    /\ SlowestTick \in Nat \ {0}
    /\ Events \subseteq AllEvents

Config == [action : Actions, capKills : BOOLEAN]

\* default_config(): every rule kills, and there is no RSS cap.
DefaultConfig == [action |-> "kill", capKills |-> FALSE]

\* A file that is a config, one that fails validation, one that is not UTF-8,
\* and no file; all but the first carry the config they stand for.
Valid(c) == [is |-> "config", config |-> c]

NoConfig == [is : {"malformed", "undecodable", "missing"}, config : {DefaultConfig}]

Files == {Valid(c) : c \in Config} \cup NoConfig

NoFile == [is |-> "missing", config |-> DefaultConfig]

ASSUME FirstDiskAssumption ==
    FirstDisk \subseteq {file \in Files : file.is # "undecodable"}

VARIABLES
    disk,              \* config.toml
    sentinel,          \* pause.sentinel: seconds to run, 0 without
    api,               \* the HTTP thread: idle, or the second half of a request
    requested,         \* _reload_requested
    mirror,            \* _paused_until_unix of the API state: seconds to run
    pc,                \* the phase of the tick
    hasPath,           \* config_path is not None
    cfg,               \* the loaded config
    observeOnly,       \* observe_only
    enginePause,       \* _paused_until_ns of the engine: seconds to run
    cooldown,          \* cooldown_until_ns of its rule: seconds to run
    sinceCheck,        \* seconds since last_pause_check_ns
    pending,           \* the action the engine returned
    did,               \* history: what this tick has done to processes
    lastRead,          \* history: what the last load found
    sinceAction,       \* history: seconds since this engine's rule last acted
    quiet              \* history: seconds since the pause was last touched or
                       \* a reload replaced the engine

files == <<disk, sentinel>>
apiVars == <<api, requested, mirror>>
engineVars == <<enginePause, cooldown, pending>>
history == <<did, lastRead, sinceAction, quiet>>
loop == <<pc, hasPath, cfg, observeOnly, sinceCheck>>
vars == <<files, apiVars, engineVars, history, loop>>

Longest == CHOOSE n \in Pauses \cup {0} : \A m \in Pauses : m <= n

Phases == {"reload", "pause", "mirror", "engine", "cap", "dispatch", "sleep", "down"}

TypeInvariant ==
    /\ disk \in Files
    /\ sentinel \in 0..Longest
    /\ api \in [after : {"nothing", "patch", "pause"}, mirror : 0..Longest]
    /\ requested \in BOOLEAN
    /\ mirror \in 0..Longest
    /\ pc \in Phases
    /\ hasPath \in BOOLEAN
    /\ cfg \in Config
    /\ observeOnly \in BOOLEAN
    /\ enginePause \in 0..Longest
    /\ cooldown \in 0..Cooldown
    /\ sinceCheck \in 0..RecheckEvery
    /\ pending \subseteq Actions
    /\ did \subseteq {"kill", "throttle", "log", "cap"}
    /\ lastRead \in {"config", "malformed", "undecodable", "missing"}
    /\ sinceAction \in 0..Cooldown
    /\ quiet \in 0..RecheckEvery

Idle == [after |-> "nothing", mirror |-> 0]
-----------------------------------------------------------------------------
(* Loading the config.                                                     *)

\* What a load finds, without a path or with it: load_config() takes the
\* default for no file, _load_config_safe() for a malformed one, observe-only.
Found(path) == IF path THEN disk ELSE NoFile

IsObserveOnly(found) == found.is = "malformed"

\* A new PolicyEngine: not paused, no rule in cooldown.
NewEngine ==
    /\ enginePause' = 0
    /\ cooldown' = 0
    /\ pending' = {}

Load(path) ==
    /\ cfg' = Found(path).config
    /\ observeOnly' = IsObserveOnly(Found(path))
    /\ lastRead' = Found(path).is

\* The first pause check is due at once: last_pause_check_ns is 0.
Init ==
    /\ disk \in FirstDisk
    /\ sentinel = 0
    /\ api = Idle
    /\ requested = FALSE
    /\ mirror = 0
    /\ pc = "reload"
    /\ hasPath = (disk # NoFile)
    /\ lastRead = disk.is
    /\ cfg = disk.config
    /\ observeOnly = IsObserveOnly(disk)
    /\ enginePause = 0
    /\ cooldown = 0
    /\ sinceCheck = RecheckEvery
    /\ pending = {}
    /\ did = {}
    /\ sinceAction = Cooldown
    /\ quiet = RecheckEvery
-----------------------------------------------------------------------------
(* The tick.                                                               *)

\* consume_reload_request() is false.
NoReload ==
    /\ pc = "reload"
    /\ ~requested
    /\ pc' = "pause"
    /\ UNCHANGED <<files, apiVars, engineVars, history, hasPath, cfg, observeOnly,
                   sinceCheck>>

\* The flag is cleared before the file is read.
Reload ==
    /\ pc = "reload"
    /\ requested
    /\ Found(hasPath).is # "undecodable"
    /\ requested' = FALSE
    /\ Load(hasPath)
    /\ NewEngine
    /\ sinceAction' = Cooldown
    /\ quiet' = 0
    /\ pc' = "pause"
    /\ UNCHANGED <<files, api, mirror, did, hasPath, sinceCheck>>

\* tomllib raises what _load_config_safe() does not expect: keep the engine.
ReloadFails ==
    /\ pc = "reload"
    /\ requested
    /\ Found(hasPath).is = "undecodable"
    /\ requested' = FALSE
    /\ lastRead' = disk.is
    /\ pc' = "pause"
    /\ UNCHANGED <<files, api, mirror, engineVars, did, sinceAction, quiet, hasPath,
                   cfg, observeOnly, sinceCheck>>

FaultyCheckIsDue_UnlessPaused == sinceCheck >= RecheckEvery /\ enginePause = 0

CheckIsDue == sinceCheck >= RecheckEvery

SkipPauseCheck ==
    /\ pc = "pause"
    /\ ~CheckIsDue
    /\ pc' = "engine"
    /\ UNCHANGED <<files, apiVars, engineVars, history, hasPath, cfg, observeOnly,
                   sinceCheck>>

\* set_paused() with what _read_pause_sentinel() finds.
CheckPause ==
    /\ pc = "pause"
    /\ CheckIsDue
    /\ enginePause' = sentinel
    /\ sinceCheck' = 0
    /\ pc' = "mirror"
    /\ UNCHANGED <<files, apiVars, cooldown, pending, history, hasPath, cfg, observeOnly>>

FaultyMirrorOf_OnlyPauses == IF sentinel > 0 THEN sentinel ELSE mirror

MirrorOf == sentinel

\* set_paused_until() reads the sentinel a second time.
MirrorPause ==
    /\ pc = "mirror"
    /\ mirror' = MirrorOf
    /\ pc' = "engine"
    /\ UNCHANGED <<files, api, requested, engineVars, history, hasPath, cfg,
                   observeOnly, sinceCheck>>

FaultyMayAct_NoCooldown == enginePause = 0

FaultyMayAct_WhilePaused == cooldown = 0

MayAct == cooldown = 0 /\ enginePause = 0

\* engine.tick() with a rule that triggers or does not.
EngineTick ==
    /\ pc = "engine"
    /\ \E triggers \in BOOLEAN :
         IF triggers /\ MayAct
         THEN pending' = {cfg.action} /\ cooldown' = Cooldown
         ELSE UNCHANGED <<pending, cooldown>>
    /\ pc' = "cap"
    /\ UNCHANGED <<files, apiVars, enginePause, history, hasPath, cfg, observeOnly,
                   sinceCheck>>

CapMayKill == ~observeOnly /\ cfg.capKills

\* enforce_rss_cap(), when something is over the cap.
RssCap ==
    /\ pc = "cap"
    /\ did' \in IF CapMayKill THEN {did, did \cup {"cap"}} ELSE {did}
    /\ pc' = "dispatch"
    /\ UNCHANGED <<files, apiVars, engineVars, lastRead, sinceAction, quiet, hasPath,
                   cfg, observeOnly, sinceCheck>>

FaultyEffective_Armed(action) == action

\* demote_for_observe_only() turns a kill into a log, and only a kill.
Effective(action) == IF observeOnly /\ action = "kill" THEN "log" ELSE action

Dispatch ==
    /\ pc = "dispatch"
    /\ did' = did \cup {Effective(a) : a \in pending}
    /\ sinceAction' = IF pending = {} THEN sinceAction ELSE 0
    /\ pending' = {}
    /\ pc' = "sleep"
    /\ UNCHANGED <<files, apiVars, enginePause, cooldown, lastRead, quiet, hasPath, cfg,
                   observeOnly, sinceCheck>>

Left(n, d) == IF n > d THEN n - d ELSE 0

Aged(n, d, cap) == IF n + d > cap THEN cap ELSE n + d

\* d seconds pass, and every deadline is d seconds closer.
Sleep(d) ==
    /\ pc = "sleep"
    /\ pc' = "reload"
    /\ did' = {}
    /\ sentinel' = Left(sentinel, d)
    /\ mirror' = Left(mirror, d)
    /\ enginePause' = Left(enginePause, d)
    /\ cooldown' = Left(cooldown, d)
    /\ sinceCheck' = Aged(sinceCheck, d, RecheckEvery)
    /\ sinceAction' = Aged(sinceAction, d, Cooldown)
    /\ quiet' = Aged(quiet, d, RecheckEvery)
    /\ UNCHANGED <<disk, api, requested, pending, lastRead, hasPath, cfg, observeOnly>>
-----------------------------------------------------------------------------
(* Everyone else.                                                          *)

\* POST /pause and /unpause: the sentinel first, then the mirror.
ApiPause(n) ==
    /\ "pause" \in Events
    /\ pc # "down" /\ api = Idle
    /\ api' = [after |-> "pause", mirror |-> n]
    /\ sentinel' = n
    /\ quiet' = 0
    /\ UNCHANGED <<disk, requested, mirror, engineVars, did, lastRead, sinceAction, loop>>

ApiMirrorsPause ==
    /\ api.after = "pause"
    /\ mirror' = api.mirror
    /\ api' = Idle
    /\ quiet' = 0
    /\ UNCHANGED <<files, requested, engineVars, did, lastRead, sinceAction, loop>>

\* atf pause and atf unpause: the sentinel alone.
CliPause(n) ==
    /\ "pause" \in Events
    /\ sentinel' = n
    /\ quiet' = 0
    /\ UNCHANGED <<disk, apiVars, engineVars, did, lastRead, sinceAction, loop>>

\* PATCH /rules/<name>: the file, written as the default first if there is
\* none; a malformed file stays malformed.
Patch(action) ==
    /\ "patch" \in Events
    /\ pc # "down" /\ api = Idle
    /\ disk.is # "undecodable"
    /\ disk' = IF disk.is = "malformed" THEN disk
               ELSE Valid([disk.config EXCEPT !.action = action])
    /\ api' = [after |-> "patch", mirror |-> 0]
    /\ UNCHANGED <<sentinel, requested, mirror, engineVars, history, loop>>

FaultyRequestReload_Lost == requested' = requested

RequestReload == requested' = TRUE

\* ... and the request to reload it.
PatchRequestsReload ==
    /\ api.after = "patch"
    /\ RequestReload
    /\ api' = Idle
    /\ UNCHANGED <<files, mirror, engineVars, history, loop>>

\* Somebody saves config.toml in an editor.
Edit(file) ==
    /\ "editor" \in Events
    /\ disk' = file
    /\ UNCHANGED <<sentinel, apiVars, engineVars, history, loop>>

\* The service stops, or crashes anywhere, and NSSM starts it again: main()
\* passes a path only if there is a file.  An undecodable file crashes it again.
Restart ==
    /\ "restart" \in Events
    /\ hasPath' = (disk # NoFile)
    /\ IF disk.is = "undecodable"
       THEN pc' = "down" /\ lastRead' = disk.is /\ UNCHANGED <<cfg, observeOnly>>
       ELSE pc' = "reload" /\ Load(hasPath')
    /\ NewEngine
    /\ sinceCheck' = RecheckEvery
    /\ requested' = FALSE
    /\ mirror' = 0
    /\ api' = Idle
    /\ did' = {}
    /\ sinceAction' = Cooldown
    /\ UNCHANGED <<files, quiet>>

TickStep ==
    \/ NoReload \/ Reload \/ ReloadFails
    \/ SkipPauseCheck \/ CheckPause \/ MirrorPause
    \/ EngineTick \/ RssCap \/ Dispatch
    \/ \E d \in 1..SlowestTick : Sleep(d)

ApiStep == ApiMirrorsPause \/ PatchRequestsReload

Next ==
    \/ TickStep
    \/ ApiStep
    \/ \E n \in Pauses \cup {0} : ApiPause(n) \/ CliPause(n)
    \/ \E action \in Actions : Patch(action)
    \/ \E file \in Files : Edit(file)
    \/ Restart

Spec == Init /\ [][Next]_vars

\* The loop ticks on, and an HTTP request that has begun is finished.
FairSpec == Spec /\ WF_vars(TickStep) /\ WF_vars(ApiStep)
-----------------------------------------------------------------------------
\* A pause that was set a whole check interval ago.
InForce == sentinel > 0 /\ quiet >= RecheckEvery

\* Such a pause is honoured by the rules: no process is killed, throttled or
\* logged about for one by a tick that starts during it.  A reload voids the
\* pause until the next check; a service that restarts honours it at once.
PauseHonoured == did \ {"cap"} # {} => ~InForce

\* And by everything else the service does to processes: it "doesn't take any
\* kill / throttle / log actions while paused".
NothingWhilePaused == did # {} => ~InForce

\* And it ends: a lifted or expired pause stops holding the rule back within
\* the same interval ("resume actions on its next pause-check tick").
PauseEnds ==
    pc \in {"cap", "dispatch", "sleep"} /\ sentinel = 0 /\ quiet >= RecheckEvery
        => enginePause = 0

\* What /health says of the pause is what the engine does, once the last
\* request is a check interval old.
HealthTellsThePause ==
    pc \in {"cap", "dispatch", "sleep"} /\ api = Idle /\ quiet >= RecheckEvery
        => (mirror > 0) = (enginePause > 0)

\* "After a rule fires, it goes into cooldown ... won't take another action",
\* whatever else the tick does; a new engine starts with no rule in cooldown.
CooldownKept == [][did' # did /\ pending # {} => sinceAction >= Cooldown]_vars

\* "Malformed config -> observe-only mode (kills demoted to log entries)": from
\* the load of a malformed file to the load of another, no process is touched.
MalformedIsSafe == lastRead = "malformed" => did \subseteq {"log"}

\* A PATCH that was accepted is loaded in the end, whatever reload, restart or
\* editor gets in between: the file is the loaded config, or no config any more.
\* A service that was started without a config file never looks at the one a
\* PATCH creates.
PatchesTakeEffect ==
    (api.after = "patch" /\ hasPath) ~> (disk.is = "config" => cfg = disk.config)
=============================================================================
