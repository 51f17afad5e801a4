---------------------------- MODULE LhmSupervisor ----------------------------
(***************************************************************************)
(* src/atfield/lhm_supervisor.py: a thread that keeps one LibreHardware-    *)
(* Monitor process alive and its web server bound, beside a stop() from the *)
(* service and a status that /health condenses into one word. The port may  *)
(* have another listener, an LHM leaked by an earlier service above all,    *)
(* and stop() waits for the loop no longer than its join timeout.           *)
(***************************************************************************)
EXTENDS Integers, FiniteSets

CONSTANTS
    Pids,              \* bound: process ids, used again once free
    NoPid,
    BackoffInitial, BackoffMax,    \* backoff_initial_s, backoff_max_s; factor 2
    HttpRestartLimit,  \* http_failure_restart_limit
    MaxLaunchFailures  \* bound: starts that fail with an OSError

ASSUME SupervisorAssumption ==
    /\ NoPid \notin Pids
    /\ BackoffInitial \in Nat /\ BackoffMax \in Nat /\ BackoffInitial <= BackoffMax
    /\ HttpRestartLimit \in Nat /\ MaxLaunchFailures \in Nat

VARIABLES
    loop,              \* where the supervise loop is
    proc,              \* _proc
    dying,             \* what each thread took from _proc to terminate
    stopEvent,         \* _stop_event
    stopper,           \* where stop() is
    backoff,           \* the loop's backoff
    httpFailures,      \* _http_failures
    status,            \* LhmStatus: what the state of /health is made of
    alive,             \* processes that run
    bound,             \* those whose web server came up
    killed,            \* those killed, which nobody waits for
    foreign,           \* a process that is not ours listens on the port
    impostor,          \* history: not the child answered its probe
    launchFailures     \* failed starts so far

processes == <<alive, bound, killed>>
port == <<foreign, impostor>>
supervisorVars == <<loop, proc, dying, stopEvent, stopper, backoff, httpFailures,
                    status, processes, port, launchFailures>>

Threads == {"loop", "stop"}

SupervisorTypes ==
    /\ loop \in {"head", "config", "probe", "judge", "terminate", "wait",
                 "backoff", "drain", "done", "gone"}
    /\ proc \in Pids \cup {NoPid}
    /\ dying \in [Threads -> Pids \cup {NoPid}]
    /\ stopEvent \in BOOLEAN
    /\ stopper \in {"idle", "terminate", "join", "returned", "exited"}
    /\ backoff \in BackoffInitial..BackoffMax
    /\ httpFailures \in 0..(HttpRestartLimit + 1)
    /\ status \in [running : BOOLEAN, httpReady : BOOLEAN, retrying : BOOLEAN,
                   stopping : BOOLEAN]
    /\ alive \subseteq Pids /\ bound \subseteq alive /\ killed \subseteq alive
    /\ foreign \in BOOLEAN /\ impostor \in BOOLEAN
    /\ launchFailures \in 0..MaxLaunchFailures

SupervisorInit ==
    /\ loop = "head"
    /\ proc = NoPid
    /\ dying = [t \in Threads |-> NoPid]
    /\ stopEvent = FALSE
    /\ stopper = "idle"
    /\ backoff = BackoffInitial
    /\ httpFailures = 0
    /\ status = [running |-> FALSE, httpReady |-> FALSE, retrying |-> FALSE,
                 stopping |-> FALSE]
    /\ alive = {} /\ bound = {} /\ killed = {}
    /\ foreign \in BOOLEAN /\ impostor = FALSE
    /\ launchFailures = 0
-----------------------------------------------------------------------------
Doubled == IF backoff * 2 > BackoffMax THEN BackoffMax ELSE backoff * 2

\* while not self._stop_event.is_set()
LoopHead ==
    /\ loop = "head"
    /\ loop' = IF stopEvent THEN "drain" ELSE "config"
    /\ UNCHANGED <<proc, dying, stopEvent, stopper, backoff, httpFailures, status,
                   processes, port, launchFailures>>

FaultySpawnedStatus_KeepsHttp == [status EXCEPT !.running = TRUE, !.retrying = FALSE]

SpawnedStatus ==
    [status EXCEPT !.running = TRUE, !.retrying = FALSE, !.httpReady = FALSE]

\* _spawn_once(): config and URL reservation take a while, and nobody looks at
\* the stop event between them and the spawn.
SpawnOnce ==
    /\ loop = "config"
    /\ \E p \in Pids \ alive :
         /\ proc' = p
         /\ alive' = alive \cup {p}
    /\ status' = SpawnedStatus
    /\ impostor' = FALSE
    /\ loop' = "probe"
    /\ UNCHANGED <<dying, stopEvent, stopper, backoff, httpFailures, bound, killed,
                   foreign, launchFailures>>

SpawnFails ==
    /\ loop = "config"
    /\ launchFailures < MaxLaunchFailures
    /\ launchFailures' = launchFailures + 1
    /\ status' = [status EXCEPT !.running = FALSE, !.retrying = TRUE]
    /\ loop' = "backoff"
    /\ UNCHANGED <<proc, dying, stopEvent, stopper, backoff, httpFailures, processes,
                   port>>

\* A connection to the port succeeds, whoever takes it.
PortAnswers == foreign \/ bound # {}

\* probe_lhm_http(): until the port answers, the timeout or a stop.
ProbeHttp ==
    /\ loop = "probe"
    /\ \E answered \in BOOLEAN :
         /\ IF answered THEN PortAnswers ELSE ~PortAnswers \/ stopEvent
         /\ status' = [status EXCEPT !.httpReady = answered]
         /\ impostor' = (answered /\ proc \notin bound)
    /\ loop' = "judge"
    /\ UNCHANGED <<proc, dying, stopEvent, stopper, backoff, httpFailures,
                   processes, foreign, launchFailures>>

\* A live process is no proof of a working web server.
HttpUp ==
    /\ loop = "judge" /\ status.httpReady
    /\ httpFailures' = 0
    /\ backoff' = BackoffInitial
    /\ loop' = "wait"
    /\ UNCHANGED <<proc, dying, stopEvent, stopper, status, processes, port, launchFailures>>

RestartsForHttp == httpFailures < HttpRestartLimit

\* No port: the process is killed, within the limit of such restarts.
HttpDown ==
    /\ loop = "judge" /\ ~status.httpReady
    /\ RestartsForHttp
    /\ httpFailures' = httpFailures + 1
    /\ dying' = [dying EXCEPT !["loop"] = proc]
    /\ proc' = NoPid
    /\ loop' = "terminate"
    /\ UNCHANGED <<stopEvent, stopper, backoff, status, processes, port, launchFailures>>

HttpGivenUp ==
    /\ loop = "judge" /\ ~status.httpReady
    /\ ~RestartsForHttp
    /\ httpFailures' = HttpRestartLimit + 1
    /\ backoff' = BackoffInitial
    /\ loop' = "wait"
    /\ UNCHANGED <<proc, dying, stopEvent, stopper, status, processes, port, launchFailures>>

\* _terminate_proc(): gone within the grace period, or killed and left to go.
Terminated(t) ==
    /\ \/ /\ alive' = alive \ {dying[t]}
          /\ bound' = bound \ {dying[t]}
          /\ killed' = killed \ {dying[t]}
       \/ /\ killed' = killed \cup (alive \cap {dying[t]})
          /\ UNCHANGED <<alive, bound>>
    /\ dying' = [dying EXCEPT ![t] = NoPid]

HttpRestart ==
    /\ loop = "terminate"
    /\ Terminated("loop")
    /\ loop' = IF stopEvent THEN "drain" ELSE "backoff"
    /\ status' = [status EXCEPT !.retrying = ~stopEvent \/ @]
    /\ UNCHANGED <<proc, stopEvent, stopper, backoff, httpFailures, port,
                   launchFailures>>

\* _wait_for_proc(): a poll finds that the child has ended.
ChildExited ==
    /\ loop = "wait" /\ ~stopEvent
    /\ proc \notin alive
    /\ status' = [status EXCEPT !.running = FALSE, !.retrying = TRUE]
    /\ loop' = "backoff"
    /\ UNCHANGED <<proc, dying, stopEvent, stopper, backoff, httpFailures,
                   processes, port, launchFailures>>

StopSeen ==
    /\ loop = "wait" /\ stopEvent
    /\ loop' = "drain"
    /\ UNCHANGED <<proc, dying, stopEvent, stopper, backoff, httpFailures, status,
                   processes, port, launchFailures>>

\* _wait_with_backoff() returns, early if a stop is asked for.
BackoffEnds ==
    /\ loop = "backoff"
    /\ backoff' = Doubled
    /\ loop' = "head"
    /\ UNCHANGED <<proc, dying, stopEvent, stopper, httpFailures, status, processes, port,
                   launchFailures>>

FaultyDrains_Nothing == NoPid

Drains == proc

\* "Drain: ensure LHM is dead even if the loop exited via stop".
Drain ==
    /\ loop = "drain"
    /\ IF dying["loop"] = NoPid /\ Drains # NoPid
       THEN /\ dying' = [dying EXCEPT !["loop"] = Drains]
            /\ proc' = NoPid
            /\ UNCHANGED <<loop, status, processes>>
       ELSE /\ Terminated("loop")
            /\ loop' = "done"
            /\ status' = [status EXCEPT !.running = FALSE]
            /\ UNCHANGED proc
    /\ UNCHANGED <<stopEvent, stopper, backoff, httpFailures, port, launchFailures>>

SupervisorLoop ==
    \/ LoopHead \/ SpawnOnce \/ SpawnFails \/ ProbeHttp
    \/ HttpUp \/ HttpDown \/ HttpGivenUp \/ HttpRestart
    \/ ChildExited \/ StopSeen \/ BackoffEnds \/ Drain
-----------------------------------------------------------------------------
\* stop(): sets the event, takes the process it sees, joins the loop.
StopBegins ==
    /\ stopper = "idle"
    /\ stopEvent' = TRUE
    /\ status' = [status EXCEPT !.stopping = TRUE]
    /\ dying' = [dying EXCEPT !["stop"] = proc]
    /\ proc' = NoPid
    /\ stopper' = "terminate"
    /\ UNCHANGED <<loop, backoff, httpFailures, processes, port, launchFailures>>

StopTerminates ==
    /\ stopper = "terminate"
    /\ Terminated("stop")
    /\ stopper' = "join"
    /\ UNCHANGED <<loop, proc, stopEvent, backoff, httpFailures, status, port,
                   launchFailures>>

\* The join ends with the loop or after its timeout: "if the loop is wedged we
\* proceed anyway".
StopReturns ==
    /\ stopper = "join"
    /\ stopper' = "returned"
    /\ UNCHANGED <<loop, proc, dying, stopEvent, backoff, httpFailures, status,
                   processes, port, launchFailures>>

\* run_service() returns, and a loop that has not ended goes with its process.
ServiceExits ==
    /\ stopper = "returned"
    /\ stopper' = "exited"
    /\ loop' = IF loop = "done" THEN "done" ELSE "gone"
    /\ UNCHANGED <<proc, dying, stopEvent, backoff, httpFailures, status, processes,
                   port, launchFailures>>

StopCall == StopBegins \/ StopTerminates \/ StopReturns \/ ServiceExits

\* LHM binds its port, once if at all, and may end at any time.
LhmBinds ==
    /\ \E p \in alive \ bound : bound' = bound \cup {p}
    /\ UNCHANGED <<loop, proc, dying, stopEvent, stopper, backoff, httpFailures,
                   status, alive, killed, port, launchFailures>>

Ends(p) ==
    /\ alive' = alive \ {p} /\ bound' = bound \ {p} /\ killed' = killed \ {p}
    /\ UNCHANGED <<loop, proc, dying, stopEvent, stopper, backoff, httpFailures,
                   status, port, launchFailures>>

LhmDies == \E p \in alive : Ends(p)

KilledDies == \E p \in killed : Ends(p)

\* Another program takes the port, or frees it.
PortChanges ==
    /\ foreign' = ~foreign
    /\ UNCHANGED <<loop, proc, dying, stopEvent, stopper, backoff, httpFailures,
                   status, processes, impostor, launchFailures>>

SupervisorNext == SupervisorLoop \/ StopCall \/ LhmBinds \/ LhmDies \/ PortChanges

SupervisorSpec == SupervisorInit /\ [][SupervisorNext]_supervisorVars

\* The thread runs, a stop() that has begun goes on, a killed process ends.
SupervisorFairSpec ==
    /\ SupervisorSpec
    /\ WF_supervisorVars(SupervisorLoop)
    /\ WF_supervisorVars(StopTerminates)
    /\ WF_supervisorVars(StopReturns)
    /\ WF_supervisorVars(KilledDies)
-----------------------------------------------------------------------------
\* The state of the lhm_supervisor view of /health.
State(s) ==
    CASE s.stopping -> "stopping"
      [] ~s.stopping /\ s.running /\ s.httpReady -> "ready"
      [] ~s.stopping /\ s.running /\ ~s.httpReady -> "process_up_no_http"
      [] ~s.stopping /\ ~s.running /\ s.retrying -> "backoff"
      [] OTHER -> "down"

\* "Ready" is said of a child whose web server came up, or that has just died,
\* or whose own probe another listener of the port has answered: it is never
\* left over from the predecessor, nor said of one the loop has put down.
ReadyIsTrue ==
    State(status) = "ready" =>
        proc # NoPid /\ (proc \in alive => proc \in bound \/ impostor)

\* stop() gets its way, also over a loop that was about to spawn or outlasts
\* the join: it returns, and no child is left in the end for the next service
\* to fight with -- unless the service exits before its loop has drained.
StopLeavesNothing ==
    stopEvent ~> /\ stopper \in {"returned", "exited"}
                 /\ alive = {} \/ loop = "gone"
=============================================================================
