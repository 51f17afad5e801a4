------------------------------ MODULE LhmHelper ------------------------------
(***************************************************************************)
(* src/atfield/collectors/lhmlib.py: a helper process prints a line of      *)
(* sensor readings a second, a reader thread per helper keeps the latest,   *)
(* and the tick loop serves it while it is fresh and starts a new helper    *)
(* when the old one has died. Time is in seconds.                           *)
(***************************************************************************)
EXTENDS Integers

CONSTANTS
    MaxStale,          \* _MAX_STALE_S
    RespawnBackoff,    \* _RESPAWN_BACKOFF_S
    StartupTimeout,    \* startup_timeout_s
    DiscoverySamples,  \* _DISCOVERY_SAMPLES
    ReaderDelay,       \* bound: how long a line is in the pipe
    MaxSpawnFailures   \* bound: starts of the helper that fail

ASSUME HelperAssumption ==
    /\ MaxStale \in Nat /\ ReaderDelay \in Nat
    /\ RespawnBackoff \in Nat /\ StartupTimeout \in Nat
    /\ DiscoverySamples \in Nat /\ MaxSpawnFailures \in Nat

VARIABLES
    health,            \* _health
    helper,            \* the helper: "none" (never started), "mute" (nothing
                       \* printed yet), "prints", "hangs" or "dead"
    sinceSpawn,        \* seconds since _last_spawn_at
    recent,            \* samples received for discovery
    stamp,             \* seconds since _latest_ts; NoLine: _latest is empty
    pipe,              \* the lines no reader has read yet, by their age
    spawnFailures,     \* failed starts so far
    born,              \* history: seconds since _latest was printed
    served             \* history: age of what sample() last returned

helperVars == <<health, helper, sinceSpawn, recent, stamp, pipe, spawnFailures,
                born, served>>

NoLine == -1

AgeCap == MaxStale + ReaderDelay + 1

SpawnCap == IF StartupTimeout > RespawnBackoff THEN StartupTimeout ELSE RespawnBackoff

HelperTypes ==
    /\ health \in {"unprobed", "probing", "healthy", "degraded", "failed", "shut"}
    /\ helper \in {"none", "mute", "prints", "hangs", "dead"}
    /\ sinceSpawn \in 0..SpawnCap
    /\ recent \in 0..DiscoverySamples
    /\ stamp \in NoLine..AgeCap /\ born \in NoLine..AgeCap
    /\ pipe \in SUBSET (0..ReaderDelay)
    /\ spawnFailures \in 0..MaxSpawnFailures
    /\ served \in NoLine..AgeCap

HelperInit ==
    /\ health = "unprobed"
    /\ helper = "none"
    /\ sinceSpawn = SpawnCap
    /\ recent = 0
    /\ stamp = NoLine /\ born = NoLine
    /\ pipe = {}
    /\ spawnFailures = 0
    /\ served = NoLine
-----------------------------------------------------------------------------
Alive == helper \in {"mute", "prints", "hangs"}

\* The helper prints, hangs, goes on, or ends; the loop has no part in it.
Prints ==
    /\ Alive
    /\ helper' = "prints"
    /\ pipe' = pipe \cup {0}
    /\ UNCHANGED <<health, sinceSpawn, recent, stamp, spawnFailures, born, served>>

Hangs ==
    /\ Alive
    /\ helper' = "hangs"
    /\ UNCHANGED <<health, sinceSpawn, recent, stamp, pipe, spawnFailures, born, served>>

Dies ==
    /\ Alive
    /\ helper' = "dead"
    /\ UNCHANGED <<health, sinceSpawn, recent, stamp, pipe, spawnFailures, born, served>>

\* _read_loop(): the reader of a helper that is gone may still deliver, and
\* after a line of its successor.
Read ==
    /\ health # "shut"
    /\ \E age \in pipe :
         /\ pipe' = pipe \ {age}
         /\ born' = age
    /\ stamp' = 0
    /\ recent' = IF recent < DiscoverySamples THEN recent + 1 ELSE recent
    /\ UNCHANGED <<health, helper, sinceSpawn, spawnFailures, served>>

Aged(n, cap) == IF n = NoLine \/ n = cap THEN n ELSE n + 1

\* A second passes. Readers keep up with the pipe.
Second ==
    /\ ReaderDelay \notin pipe
    /\ pipe' = {age + 1 : age \in pipe}
    /\ stamp' = Aged(stamp, AgeCap)
    /\ born' = Aged(born, AgeCap)
    /\ sinceSpawn' = Aged(sinceSpawn, SpawnCap)
    /\ UNCHANGED <<health, helper, recent, spawnFailures, served>>

\* _spawn(): a new process with its own reader, or an OSError.
Spawn ==
    /\ sinceSpawn' = 0
    /\ \/ helper' = "mute" /\ UNCHANGED spawnFailures
       \/ /\ spawnFailures < MaxSpawnFailures
          /\ spawnFailures' = spawnFailures + 1
          /\ helper' = "none"

\* probe(): at startup, once.
ProbeStarts ==
    /\ health = "unprobed"
    /\ Spawn
    /\ health' = IF helper' = "none" THEN "failed" ELSE "probing"
    /\ UNCHANGED <<recent, stamp, pipe, born, served>>

\* It waits for enough samples, for the timeout or for the end of the helper.
ProbeEnds ==
    /\ health = "probing"
    /\ recent = DiscoverySamples \/ sinceSpawn >= StartupTimeout \/ ~Alive
    /\ IF stamp = NoLine \/ (~Alive /\ recent < DiscoverySamples)
       THEN health' = "failed"
       ELSE health' \in {"healthy", "failed"}    \* no usable sensor: failed
    /\ UNCHANGED <<helper, sinceSpawn, recent, stamp, pipe, spawnFailures, born, served>>

Pollable == health \in {"healthy", "degraded"}

MayRespawn == sinceSpawn >= RespawnBackoff

\* sample(): the helper is not running.
SampleDead ==
    /\ Pollable /\ ~Alive
    /\ health' = "degraded"
    /\ IF MayRespawn THEN Spawn ELSE UNCHANGED <<helper, sinceSpawn, spawnFailures>>
    /\ served' = NoLine
    /\ UNCHANGED <<recent, stamp, pipe, born>>

FaultyFresh_AnyLine == stamp # NoLine

Fresh == stamp # NoLine /\ stamp <= MaxStale

\* sample(): nothing, or nothing recent.
SampleStale ==
    /\ Pollable /\ Alive /\ ~Fresh
    /\ health' = "degraded"
    /\ served' = NoLine
    /\ UNCHANGED <<helper, sinceSpawn, recent, stamp, pipe, spawnFailures, born>>

\* sample(): readings, unless no mapped sensor has a usable value.
SampleServes ==
    /\ Pollable /\ Alive /\ Fresh
    /\ \/ health' = "healthy" /\ served' = born
       \/ UNCHANGED health /\ served' = NoLine
    /\ UNCHANGED <<helper, sinceSpawn, recent, stamp, pipe, spawnFailures, born>>

Serve == SampleDead \/ SampleStale \/ SampleServes

\* shutdown(), at the end of the service, of the collectors it polls.
Shutdown ==
    /\ Pollable
    /\ health' = "shut"
    /\ helper' = IF Alive THEN "dead" ELSE helper
    /\ served' = NoLine
    /\ UNCHANGED <<sinceSpawn, recent, stamp, pipe, spawnFailures, born>>

Collector == ProbeStarts \/ ProbeEnds \/ Serve

HelperNext == Prints \/ Hangs \/ Dies \/ Read \/ Second \/ Collector \/ Shutdown

HelperSpec == HelperInit /\ [][HelperNext]_helperVars

\* The loop samples once a tick, readers read, time passes.
Fairness == WF_helperVars(Serve) /\ WF_helperVars(Read) /\ WF_helperVars(Second)

HelperFairSpec == HelperSpec /\ Fairness
-----------------------------------------------------------------------------
\* A rule never sees a reading older than _MAX_STALE_S (and the time its line
\* was in the pipe): not of a helper that hangs, nor of one that died and was
\* replaced, whose last line outlives it in _latest.
ServedIsFresh == served <= MaxStale + ReaderDelay

\* "A sample older than this means the helper has stalled. We trip DEGRADED and
\* try to re-spawn": whoever stalls prints again or is replaced.
HungIsReplaced ==
    (Pollable /\ helper = "hangs" /\ ~Fresh) ~> (helper # "hangs" \/ health = "shut")
=============================================================================
