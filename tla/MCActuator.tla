----------------------------- MODULE MCActuator -----------------------------
(* The actuator: the walk to the job root over every process table of three *)
(* processes, the kill actions on a small pool, and throttles of a tree.    *)
(* They share no state, so one of them is chosen at the start and runs on   *)
(* its own; the others stay as they begin.                                  *)
EXTENDS KillRoot, MCKillTree, MCThrottle

VARIABLE subject

\* Below the first worker: a supervisor of its own with a protected role, a
\* notebook whose command line is on the list, a shell by a name on the list.
Newcomers == {Process(worker, "killable", "role", FALSE),
              Process(worker, "killable", "pattern", FALSE),
              Process(worker, "never", "none", FALSE)}

everything == <<subject, vars, killVars, throttleVars>>

WalkAlone == subject = "walk" /\ UNCHANGED <<subject, killVars, throttleVars>>
TreeAlone == subject = "tree" /\ UNCHANGED <<subject, vars, throttleVars>>
ThrottleAlone == subject = "throttle" /\ UNCHANGED <<subject, vars, killVars>>

\* The table of the walk has three processes; the client is none of them.
ThreeProcesses ==
    /\ offender # client /\ client \notin keepers \cup protected
    /\ parent[client] = NoPid /\ \A p \in Pids : parent[p] # client

\* The walk as it was not begun.
NoWalk ==
    /\ parent = [p \in Pids |-> NoPid]
    /\ keepers = {} /\ protected = {} /\ offender = worker

ActuatorInit ==
    /\ subject \in {"walk", "tree", "throttle"}
    /\ KillInit
    /\ ThrottleInit
    /\ Init
    /\ IF subject = "walk" THEN ThreeProcesses ELSE NoWalk

ActuatorNext ==
    \/ WalkAlone /\ Next
    \/ TreeAlone /\ KillNext
    \/ ThrottleAlone /\ ThrottleNext

\* A kill action is one call: once begun it goes on. The service thread of a
\* throttle goes on, and so does every timer.
ActuatorSpec ==
    /\ ActuatorInit /\ [][ActuatorNext]_everything
    /\ WF_everything(TreeAlone /\ KillStep)
    /\ WF_everything(ThrottleAlone /\ ServiceStep)
    /\ \A i \in 1..MaxThrottles :
          WF_everything(ThrottleAlone /\ i \in TimerIds /\ TimerStep(i))
=============================================================================
