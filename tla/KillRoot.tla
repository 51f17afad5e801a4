------------------------------ MODULE KillRoot ------------------------------
(***************************************************************************)
(* find_kill_root() of src/atfield/actuator.py, one iteration of its loop   *)
(* per step and over every process table: climb the parent chain through    *)
(* pythons and launchers, and stop below a protected supervisor.            *)
(* KillRootOf of ProcessTable says what the loop has to find.               *)
(***************************************************************************)
EXTENDS ProcessTable

ASSUME WalkingIsNoProcess == "walking" \notin Pids \cup {NoPid}

VARIABLES
    parent,            \* the process table: parent[p], NoPid for none
    keepers,           \* processes named in killable_names or launcher_names
    protected,         \* protected_pids
    offender,          \* where the walk starts
    cursor,            \* the walk: where it is
    seen,              \* the walk: the cycle guard
    result             \* the process returned, NoPid for None, "walking" before

table == <<parent, keepers, protected, offender>>

vars == <<table, cursor, seen, result>>

TypeInvariant ==
    /\ parent \in [Pids -> Pids \cup {NoPid}]
    /\ keepers \subseteq Pids
    /\ protected \subseteq Pids
    /\ offender \in Pids
    /\ cursor \in Pids
    /\ seen \subseteq Pids
    /\ result \in Pids \cup {NoPid, "walking"}

\* Every table there is, with cycles too: pids are recycled.
Init ==
    /\ parent \in [Pids -> Pids \cup {NoPid}]
    /\ keepers \in SUBSET Pids
    /\ protected \in SUBSET Pids
    /\ offender \in Pids
    /\ cursor = offender
    /\ seen = {}
    /\ result = IF offender \notin keepers \/ offender \in protected
                THEN NoPid ELSE "walking"

FaultyStops_PastProtected ==
    \/ cursor \in seen
    \/ parent[cursor] = NoPid
    \/ parent[cursor] \notin keepers

\* The returns of the loop: a cycle, no parent, a protected or foreign parent.
Stops ==
    \/ cursor \in seen
    \/ parent[cursor] = NoPid
    \/ parent[cursor] \in protected
    \/ parent[cursor] \notin keepers

Return ==
    /\ result = "walking"
    /\ Stops
    /\ result' = cursor
    /\ UNCHANGED <<table, cursor, seen>>

ClimbOne ==
    /\ result = "walking"
    /\ ~Stops
    /\ seen' = seen \cup {cursor}
    /\ cursor' = parent[cursor]
    /\ UNCHANGED <<table, result>>

Next == Return \/ ClimbOne

Spec == Init /\ [][Next]_vars /\ WF_vars(Next)
-----------------------------------------------------------------------------
Returned == result # "walking"

\* The walk returns the root of the job.  In a table with a parent cycle it
\* returns a process of the cycle.
FindsTheRoot ==
    Returned =>
        LET root == KillRootOf(offender, parent, keepers, protected)
        IN  \/ result = root
            \/ root = NoPid /\ result \in Climb(offender, parent, keepers, protected)
                 /\ offender \in keepers \ protected

\* The root is never a protected process and never a foreign one, so killing
\* its tree neither takes a supervisor nor a shell or service above the job.
RootIsFairGame ==
    Returned /\ result # NoPid => result \in keepers \ protected
=============================================================================
