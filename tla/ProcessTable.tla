---------------------------- MODULE ProcessTable ----------------------------
(***************************************************************************)
(* What the actuator (src/atfield/actuator.py) computes from the process    *)
(* table: who is below a process, and which process is the root of the job  *)
(* an offender belongs to.  A table is a function parent from processes to  *)
(* their living parents.                                                    *)
(***************************************************************************)
EXTENDS Integers, FiniteSets

CONSTANTS Pids, NoPid

ASSUME PidsAssumption == NoPid \notin Pids /\ IsFiniteSet(Pids)

\* Process.children(recursive=True) and the process itself.
Subtree(p, parent) ==
    LET below[n \in 0..Cardinality(Pids)] ==
          IF n = 0 THEN {p}
          ELSE LET above == below[n - 1]
               IN  above \cup {q \in Pids : parent[q] \in above}
    IN  below[Cardinality(Pids)]

\* The parent a process has, if it still lives.
Climbable(p, parent, keepers, protected) ==
    /\ parent[p] # NoPid
    /\ parent[p] \notin protected
    /\ parent[p] \in keepers

\* The processes reached from p in at most n climbs.
Climb(p, parent, keepers, protected) ==
    LET reach[n \in 0..Cardinality(Pids)] ==
          IF n = 0 THEN {p}
          ELSE LET chain == reach[n - 1]
               IN  chain \cup {parent[q] : q \in
                     {x \in chain : Climbable(x, parent, keepers, protected)}}
    IN  reach[Cardinality(Pids)]

\* The root of p's job: the end of the climb, and nothing if p is no keeper or
\* is protected itself.  (A table with a parent cycle has no end of the climb.)
KillRootOf(p, parent, keepers, protected) ==
    LET tops == {q \in Climb(p, parent, keepers, protected) :
                   ~Climbable(q, parent, keepers, protected)}
    IN  IF p \notin keepers \/ p \in protected \/ tops = {} THEN NoPid
        ELSE CHOOSE q \in tops : TRUE
=============================================================================
