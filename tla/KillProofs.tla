----------------------------- MODULE KillProofs -----------------------------
(***************************************************************************)
(* What is proved of the actuator for every machine: which process          *)
(* find_kill_root() returns (KillRoot), and whom a kill action takes        *)
(* (KillTree), whatever exits, starts and gets a recycled pid meanwhile.    *)
(***************************************************************************)
EXTENDS KillRoot, KillTree, Recursion, FiniteSetTheorems

(* The trees of a table: Subtree and Climb collect in as many rounds as     *)
(* there are processes, which is enough.                                   *)

\* One step of Subtree(): a set of processes with their children.
Children(above, A) == A \cup {q \in Pids : above[q] \in A}

\* Subtree() collects the children of what it has, as often as there are
\* processes.
LEMMA SubtreeSteps ==
    ASSUME NEW p \in Pids, NEW above \in [Pids -> Pids \cup {NoPid}]
    PROVE  \E f \in [0..Cardinality(Pids) -> SUBSET Pids] :
             /\ f[0] = {p}
             /\ \A n \in 1..Cardinality(Pids) : f[n] = Children(above, f[n - 1])
             /\ Subtree(p, above) = f[Cardinality(Pids)]
<1> DEFINE N == Cardinality(Pids)
           D(f) == f = [n \in 0..N |-> IF n = 0 THEN {p}
                          ELSE LET a == f[n - 1] IN a \cup {q \in Pids : above[q] \in a}]
           c == CHOOSE f : D(f)
<1>1. N \in Nat
    BY PidsAssumption, FS_CardinalityType
<1>2. \E g \in [0..N -> SUBSET Pids] : D(g)
  <2> DEFINE F == [n \in Nat |-> [A \in SUBSET Pids |-> A \cup {q \in Pids : above[q] \in A}]]
  <2>1. F \in [Nat -> [SUBSET Pids -> SUBSET Pids]]
      OBVIOUS
  <2>2. \E g \in [0..N -> SUBSET Pids] :
           g[0] = {p} /\ \A n \in 1..N : g[n] = F[n][g[n - 1]]
    <3> DEFINE X == SUBSET Pids
               start == {p}
    <3>1. start \in X /\ F \in [Nat -> [X -> X]]
        BY <2>1
    <3>2. \E g : Iterates(g, F, start, N, X)
      <4> HIDE DEF F, N, X, start
      <4>1. QED
          BY <1>1, <3>1, StepByStep
    <3>3. QED
        BY <3>2 DEF Iterates
  <2>3. PICK g \in [0..N -> SUBSET Pids] :
           g[0] = {p} /\ \A n \in 1..N : g[n] = F[n][g[n - 1]]
      BY <2>2
  <2>4. ASSUME NEW n \in 0..N, n # 0
        PROVE  F[n][g[n - 1]] = g[n - 1] \cup {q \in Pids : above[q] \in g[n - 1]}
      BY <1>1, <2>4
  <2> HIDE DEF F
  <2>5. \A n \in 0..N : g[n] = IF n = 0 THEN {p}
            ELSE LET a == g[n - 1] IN a \cup {q \in Pids : above[q] \in a}
      BY <1>1, <2>3, <2>4
  <2>6. D(g)
      BY <2>3, <2>5
  <2>7. QED
      BY <2>6
<1>3. PICK g \in [0..N -> SUBSET Pids] : D(g)
    BY <1>2
<1>4. D(c)
  <2> HIDE DEF D
  <2>1. QED
      BY <1>3, Zenon
<1>5. Subtree(p, above) = c[N]
    BY Zenon DEF Subtree, c, D
<1> HIDE DEF c
<1>6. c[0] = {p} /\ \A n \in 1..N : c[n] = Children(above, c[n - 1])
    BY <1>1, <1>4 DEF Children
<1>7. c \in [0..N -> SUBSET Pids]
  <2> DEFINE S == {n \in Nat : n > N \/ c[n] \in SUBSET Pids}
  <2>1. 0 \in S
      BY <1>6
  <2>2. \A n \in S : n + 1 \in S
      BY <1>1, <1>6 DEF Children
  <2>3. S = Nat
      BY <2>1, <2>2, Induct
  <2>4. QED
      BY <1>1, <1>4, <2>3
<1>8. QED
    BY <1>5, <1>6, <1>7

\* What is below p contains p, and everything else in it is a child of a
\* process in it.
LEMMA SubtreeUp ==
    ASSUME NEW p \in Pids, NEW above \in [Pids -> Pids \cup {NoPid}]
    PROVE  /\ p \in Subtree(p, above) /\ Subtree(p, above) \subseteq Pids
           /\ \A q \in Subtree(p, above) : q # p => above[q] \in Subtree(p, above)
<1> DEFINE N == Cardinality(Pids)
<1>1. N \in Nat
    BY PidsAssumption, FS_CardinalityType
<1>2. PICK f \in [0..N -> SUBSET Pids] :
        /\ f[0] = {p}
        /\ \A n \in 1..N : f[n] = Children(above, f[n - 1])
        /\ Subtree(p, above) = f[N]
    BY SubtreeSteps
<1> HIDE DEF N
<1> DEFINE S == {n \in Nat : n <= N =>
                   p \in f[n] /\ \A q \in f[n] : q # p => above[q] \in f[n]}
<1>3. 0 \in S
    BY <1>2
<1>4. ASSUME NEW n \in S PROVE n + 1 \in S
  <2>1. SUFFICES ASSUME n + 1 <= N
                 PROVE  p \in f[n + 1] /\ \A q \in f[n + 1] : q # p => above[q] \in f[n + 1]
      OBVIOUS
  <2>2. n + 1 \in 1..N /\ (n + 1) - 1 = n /\ n <= N
      BY <2>1, <1>1
  <2>3. f[n + 1] = Children(above, f[n])
      BY <2>2, <1>2
  <2>4. QED
      BY <2>2, <2>3 DEF Children
<1>5. S = Nat
  <2>1. S \in SUBSET Nat
      OBVIOUS
  <2> HIDE DEF S
  <2>2. QED
      BY <1>3, <1>4, <2>1, Induct
<1>6. p \in f[N] /\ \A q \in f[N] : q # p => above[q] \in f[N]
    BY <1>1, <1>5
<1>7. f[N] \subseteq Pids
    BY <1>1, <1>2
<1>8. QED
    BY <1>2, <1>6, <1>7

\* A set that contains p and the children of what it contains has all that is
\* below p.
LEMMA SubtreeLeast ==
    ASSUME NEW p \in Pids, NEW above \in [Pids -> Pids \cup {NoPid}],
           NEW S, p \in S, \A q \in Pids : above[q] \in S => q \in S
    PROVE  Subtree(p, above) \subseteq S
<1> DEFINE N == Cardinality(Pids)
<1>1. N \in Nat
    BY PidsAssumption, FS_CardinalityType
<1>2. PICK f \in [0..N -> SUBSET Pids] :
        /\ f[0] = {p}
        /\ \A n \in 1..N : f[n] = Children(above, f[n - 1])
        /\ Subtree(p, above) = f[N]
    BY SubtreeSteps
<1> HIDE DEF N
<1> DEFINE T == {n \in Nat : n <= N => f[n] \subseteq S}
<1>3. 0 \in T
    BY <1>2
<1>4. ASSUME NEW n \in T PROVE n + 1 \in T
  <2>1. SUFFICES ASSUME n + 1 <= N PROVE f[n + 1] \subseteq S
      OBVIOUS
  <2>2. n + 1 \in 1..N /\ (n + 1) - 1 = n /\ n <= N
      BY <2>1, <1>1
  <2>3. f[n + 1] = Children(above, f[n])
      BY <2>2, <1>2
  <2>4. QED
      BY <2>2, <2>3 DEF Children
<1>5. T = Nat
  <2>1. T \in SUBSET Nat
      OBVIOUS
  <2> HIDE DEF T
  <2>2. QED
      BY <1>3, <1>4, <2>1, Induct
<1>6. QED
    BY <1>1, <1>2, <1>5

Climbs(above, keep, spare, A) ==
    A \cup {above[q] : q \in {x \in A : Climbable(x, above, keep, spare)}}

\* What the recursion of Climb() makes.
MakesClimb(f, p, above, keep, spare) ==
    /\ f \in [0..Cardinality(Pids) -> SUBSET Pids]
    /\ f[0] = {p}
    /\ \A n \in 1..Cardinality(Pids) : f[n] = Climbs(above, keep, spare, f[n - 1])
    /\ Climb(p, above, keep, spare) = f[Cardinality(Pids)]

\* Climb() goes up from what it has, as often as there are processes.
LEMMA ClimbSteps ==
    ASSUME NEW p \in Pids, NEW above \in [Pids -> Pids \cup {NoPid}],
           NEW keep \in SUBSET Pids, NEW spare
    PROVE  \E f : MakesClimb(f, p, above, keep, spare)
<1> DEFINE N == Cardinality(Pids)
           Up(A) == {above[q] : q \in {x \in A : Climbable(x, above, keep, spare)}}
           D(f) == f = [n \in 0..N |-> IF n = 0 THEN {p}
                          ELSE LET chain == f[n - 1] IN chain \cup Up(chain)]
           c == CHOOSE f : D(f)
<1>1. N \in Nat
    BY PidsAssumption, FS_CardinalityType
<1>2. \A A \in SUBSET Pids : A \cup Up(A) \in SUBSET Pids
    BY DEF Climbable
<1>3. \E g \in [0..N -> SUBSET Pids] : D(g)
  <2> DEFINE F == [n \in Nat |-> [A \in SUBSET Pids |-> A \cup Up(A)]]
  <2>1. F \in [Nat -> [SUBSET Pids -> SUBSET Pids]]
    <3> HIDE DEF Up
    <3>1. QED
        BY <1>2
  <2>2. \E g \in [0..N -> SUBSET Pids] :
           g[0] = {p} /\ \A n \in 1..N : g[n] = F[n][g[n - 1]]
    <3> DEFINE X == SUBSET Pids
               start == {p}
    <3>1. start \in X /\ F \in [Nat -> [X -> X]]
        BY <2>1
    <3>2. \E g : Iterates(g, F, start, N, X)
      <4> HIDE DEF F, N, X, start
      <4>1. QED
          BY <1>1, <3>1, StepByStep
    <3>3. QED
        BY <3>2 DEF Iterates
  <2>3. PICK g \in [0..N -> SUBSET Pids] :
           g[0] = {p} /\ \A n \in 1..N : g[n] = F[n][g[n - 1]]
      BY <2>2
  <2>4. ASSUME NEW n \in 0..N, n # 0
        PROVE  g[n] = g[n - 1] \cup Up(g[n - 1])
    <3>1. g[n - 1] \in SUBSET Pids /\ n \in Nat /\ g[n] = F[n][g[n - 1]]
      <4> HIDE DEF F
      <4>1. QED
          BY <1>1, <2>3, <2>4
    <3> HIDE DEF Up
    <3>2. QED
        BY <3>1
  <2> HIDE DEF F
  <2>5. \A n \in 0..N : g[n] = IF n = 0 THEN {p} ELSE LET chain == g[n - 1] IN chain \cup Up(chain)
    <3> HIDE DEF Up
    <3>1. QED
        BY <1>1, <2>3, <2>4
  <2>6. D(g)
    <3> HIDE DEF Up
    <3>1. QED
        BY <2>3, <2>5
  <2>7. QED
      BY <2>6
<1>4. PICK g \in [0..N -> SUBSET Pids] : D(g)
    BY <1>3
<1>5. D(c)
  <2> HIDE DEF D
  <2>1. QED
      BY <1>4, Zenon
<1>6. Climb(p, above, keep, spare) = c[N]
    BY Zenon DEF Climb, c, D
<1> HIDE DEF c
<1>7. c[0] = {p} /\ \A n \in 1..N : c[n] = c[n - 1] \cup Up(c[n - 1])
  <2>1. \A n \in 0..N : c[n] = IF n = 0 THEN {p} ELSE c[n - 1] \cup Up(c[n - 1])
    <3>1. \A n \in 0..N : c[n] = IF n = 0 THEN {p} ELSE LET chain == c[n - 1] IN chain \cup Up(chain)
      <4> HIDE DEF Up, c
      <4>1. QED
          BY <1>5, Zenon
    <3>2. QED
        BY <3>1
  <2>2. 0 \in 0..N /\ \A n \in 1..N : n \in 0..N /\ n # 0
      BY <1>1
  <2> HIDE DEF Up, c
  <2>3. QED
      BY <2>1, <2>2
<1>8. c \in [0..N -> SUBSET Pids]
  <2> DEFINE S == {n \in Nat : n <= N => c[n] \in SUBSET Pids}
  <2>1. 0 \in S
      BY <1>7
  <2>2. ASSUME NEW n \in S PROVE n + 1 \in S
    <3>1. SUFFICES ASSUME n + 1 <= N PROVE c[n + 1] \in SUBSET Pids
        OBVIOUS
    <3>2. n + 1 \in 1..N /\ (n + 1) - 1 = n /\ n <= N
        BY <3>1, <1>1
    <3>3. c[n + 1] = c[n] \cup Up(c[n])
        BY <3>2, <1>7
    <3> HIDE DEF Up
    <3>4. QED
        BY <1>2, <3>2, <3>3
  <2>3. S = Nat
    <3>1. S \in SUBSET Nat
        OBVIOUS
    <3> HIDE DEF S
    <3>2. QED
        BY <2>1, <2>2, <3>1, Induct
  <2>4. QED
      BY <1>1, <1>5, <2>3
<1>9. \A A : A \cup Up(A) = Climbs(above, keep, spare, A)
    BY DEF Climbs
<1> HIDE DEF Up
<1>10. QED
    BY <1>6, <1>7, <1>8, <1>9 DEF MakesClimb

\* A set that contains p and goes up wherever one may has all of the climb.
LEMMA ClimbLeast ==
    ASSUME NEW p \in Pids, NEW above \in [Pids -> Pids \cup {NoPid}],
           NEW keep \in SUBSET Pids, NEW spare,
           NEW S, p \in S,
           \A q \in S : q \in Pids /\ Climbable(q, above, keep, spare) => above[q] \in S
    PROVE  Climb(p, above, keep, spare) \subseteq S
<1> DEFINE N == Cardinality(Pids)
<1>1. N \in Nat
    BY PidsAssumption, FS_CardinalityType
<1>0. PICK f : MakesClimb(f, p, above, keep, spare)
    BY ClimbSteps
<1>2. /\ f \in [0..N -> SUBSET Pids] /\ f[0] = {p}
      /\ \A n \in 1..N : f[n] = Climbs(above, keep, spare, f[n - 1])
      /\ Climb(p, above, keep, spare) = f[N]
    BY <1>0 DEF MakesClimb
<1> HIDE DEF N
<1> DEFINE T == {n \in Nat : n <= N => f[n] \subseteq S}
<1>3. 0 \in T
    BY <1>2
<1>4. ASSUME NEW n \in T PROVE n + 1 \in T
  <2>1. SUFFICES ASSUME n + 1 <= N PROVE f[n + 1] \subseteq S
      OBVIOUS
  <2>2. n + 1 \in 1..N /\ (n + 1) - 1 = n /\ n <= N /\ n \in 0..N
      BY <2>1, <1>1
  <2>3. f[n + 1] = Climbs(above, keep, spare, f[n])
      BY <2>2, <1>2
  <2>4. f[n] \subseteq S
      BY <2>2
  <2>5. ASSUME NEW q \in f[n], Climbable(q, above, keep, spare) PROVE above[q] \in S
    <3>1. q \in S
        BY <2>4
    <3>2. q \in Pids
        BY <1>2, <2>2
    <3>3. QED
        BY <2>5, <3>1, <3>2
  <2>6. QED
      BY <2>3, <2>4, <2>5 DEF Climbs
<1>5. T = Nat
  <2>1. T \in SUBSET Nat
      OBVIOUS
  <2> HIDE DEF T
  <2>2. QED
      BY <1>3, <1>4, <2>1, Induct
<1>6. QED
    BY <1>1, <1>2, <1>5

\* The climb goes to its end: it starts at p and goes up wherever one may,
\* since no chain has more processes than there are.
LEMMA ClimbClosed ==
    ASSUME NEW p \in Pids, NEW above \in [Pids -> Pids \cup {NoPid}],
           NEW keep \in SUBSET Pids, NEW spare
    PROVE  LET C == Climb(p, above, keep, spare) IN
           /\ C \subseteq Pids /\ p \in C
           /\ \A q \in C : Climbable(q, above, keep, spare) => above[q] \in C
<1> DEFINE N == Cardinality(Pids)
           Up(A) == Climbs(above, keep, spare, A)
<1>1. N \in Nat
    BY PidsAssumption, FS_CardinalityType
<1>0. PICK f : MakesClimb(f, p, above, keep, spare)
    BY ClimbSteps
<1>2. /\ f \in [0..N -> SUBSET Pids] /\ f[0] = {p}
      /\ \A n \in 1..N : f[n] = Up(f[n - 1])
      /\ Climb(p, above, keep, spare) = f[N]
    BY <1>0 DEF MakesClimb
<1>3. \A n \in 0..N : IsFiniteSet(f[n]) /\ Cardinality(f[n]) \in Nat /\ Cardinality(f[n]) <= N
    BY <1>2, PidsAssumption, FS_Subset, FS_CardinalityType
<1>4. \A A : A \subseteq Up(A)
    BY DEF Climbs
<1> HIDE DEF N, Up
<1> DEFINE T == {n \in Nat : n <= N => p \in f[n] /\ (Up(f[n]) = f[n] \/ Cardinality(f[n]) > n)}
<1>5. 0 \in T
  <2>1. Cardinality({p}) = 1
      BY FS_Singleton
  <2>2. p \in f[0] /\ Cardinality(f[0]) > 0
      BY <1>2, <2>1
  <2>3. QED
      BY <2>2
<1>6. ASSUME NEW n \in T PROVE n + 1 \in T
  <2>1. SUFFICES ASSUME n + 1 <= N
                 PROVE  /\ p \in f[n + 1]
                        /\ Up(f[n + 1]) = f[n + 1] \/ Cardinality(f[n + 1]) > n + 1
      OBVIOUS
  <2>2. n + 1 \in 1..N /\ (n + 1) - 1 = n /\ n <= N /\ n \in 0..N /\ n + 1 \in 0..N
      BY <2>1, <1>1
  <2>3. f[n + 1] = Up(f[n])
      BY <2>2, <1>2
  <2>4. p \in f[n] /\ (Up(f[n]) = f[n] \/ Cardinality(f[n]) > n)
      BY <2>2
  <2>5. CASE Up(f[n]) = f[n]
      BY <2>3, <2>4, <2>5
  <2>6. CASE Up(f[n]) # f[n]
    <3>1. f[n] \subseteq f[n + 1] /\ f[n] # f[n + 1]
        BY <1>4, <2>3, <2>6
    <3>2. Cardinality(f[n]) < Cardinality(f[n + 1])
        BY <1>3, <2>2, <3>1, FS_Subset
    <3>3. QED
        BY <1>3, <2>2, <2>4, <2>6, <3>1, <3>2
  <2>7. QED
      BY <2>5, <2>6
<1>7. T = Nat
  <2>1. T \in SUBSET Nat
      OBVIOUS
  <2> HIDE DEF T
  <2>2. QED
      BY <1>5, <1>6, <2>1, Induct
<1>8. p \in f[N] /\ Up(f[N]) = f[N]
    BY <1>1, <1>3, <1>7
<1>9. QED
    BY <1>1, <1>2, <1>8 DEF Climbs, Up
-----------------------------------------------------------------------------
(* find_kill_root() walks the climb to its end.                             *)

\* While the walk goes on, and where it ends, it is on a keeper that nobody
\* protects.
StandsOnFairGame ==
    /\ result = "walking" => cursor \in keepers \ protected
    /\ RootIsFairGame

MayGoUp(p) == Climbable(p, parent, keepers, protected)

\* What the walk has seen is a part of the climb, each process with the one
\* above it; it ends where one may not go up, or has been.
FollowsTheClimb ==
    /\ offender \notin keepers \ protected <=> result = NoPid
    /\ offender \in seen \cup {cursor}
    /\ seen \cup {cursor} \subseteq Climb(offender, parent, keepers, protected)
    /\ \A p \in seen : MayGoUp(p) /\ parent[p] \in seen \cup {cursor}
    /\ Returned /\ result # NoPid => result = cursor /\ (cursor \in seen \/ ~MayGoUp(cursor))

IInv == TypeInvariant /\ StandsOnFairGame /\ FollowsTheClimb

\* The offender is checked before the walk begins.
LEMMA InitIInv == Init => IInv
<1> SUFFICES ASSUME Init PROVE IInv
    OBVIOUS
<1>1. TypeInvariant /\ StandsOnFairGame
    BY WalkingIsNoProcess DEF Init, TypeInvariant, StandsOnFairGame, RootIsFairGame, Returned
<1>2. offender \in Climb(offender, parent, keepers, protected)
    BY <1>1, ClimbClosed DEF TypeInvariant
<1>3. FollowsTheClimb
    BY <1>2, WalkingIsNoProcess DEF Init, FollowsTheClimb, Returned
<1>4. QED
    BY <1>1, <1>3 DEF IInv

\* The loop ends where one has been or may not go up.
LEMMA StopsAtTheTop ==
    ASSUME TypeInvariant
    PROVE  Stops <=> cursor \in seen \/ ~MayGoUp(cursor)
BY DEF TypeInvariant, Stops, MayGoUp, Climbable

\* Each climb goes to a parent that passed the checks of Stops.
LEMMA StepIInv == IInv /\ [Next]_vars => IInv'
<1> SUFFICES ASSUME IInv, [Next]_vars PROVE IInv'
    OBVIOUS
<1>1. TypeInvariant /\ StandsOnFairGame /\ FollowsTheClimb
    BY DEF IInv
<1>2. Stops <=> cursor \in seen \/ ~MayGoUp(cursor)
    BY <1>1, StopsAtTheTop
<1>3. CASE Return
  <2>1. TypeInvariant' /\ StandsOnFairGame'
      BY <1>1, <1>3, WalkingIsNoProcess DEF Return, TypeInvariant, StandsOnFairGame,
         RootIsFairGame, Returned, table
  <2>2. FollowsTheClimb'
      BY <1>1, <1>2, <1>3, WalkingIsNoProcess, PidsAssumption
         DEF Return, FollowsTheClimb, MayGoUp, Returned, table, TypeInvariant
  <2>3. QED
      BY <2>1, <2>2 DEF IInv
<1>4. CASE ClimbOne
  <2>1. parent[cursor] \in keepers \ protected
      BY <1>1, <1>4 DEF ClimbOne, Stops, TypeInvariant
  <2>2. TypeInvariant' /\ StandsOnFairGame'
      BY <1>1, <1>4, <2>1 DEF ClimbOne, TypeInvariant, StandsOnFairGame, RootIsFairGame,
         Returned, table
  <2>3. MayGoUp(cursor)
      BY <1>2, <1>4 DEF ClimbOne
  <2>4. parent[cursor] \in Climb(offender, parent, keepers, protected)
      BY <1>1, <2>3, ClimbClosed DEF TypeInvariant, FollowsTheClimb, MayGoUp
  <2>5. FollowsTheClimb'
      BY <1>1, <1>4, <2>3, <2>4, WalkingIsNoProcess
         DEF ClimbOne, FollowsTheClimb, MayGoUp, Returned, table, TypeInvariant
  <2>6. QED
      BY <2>2, <2>5 DEF IInv
<1>5. CASE UNCHANGED vars
    BY <1>5 DEF vars, table, IInv, TypeInvariant, StandsOnFairGame, RootIsFairGame,
       FollowsTheClimb, MayGoUp, Returned
<1>6. QED
    BY <1>3, <1>4, <1>5 DEF Next

\* The invariant of the walk.
THEOREM Invariance == Spec => []IInv
<1>1. QED
    BY InitIInv, StepIInv, PTL DEF Spec

\* Where the walk has ended, it has been over the whole climb.
LEMMA EndIsTheRoot == IInv => FindsTheRoot
<1> SUFFICES ASSUME IInv, Returned PROVE FindsTheRoot
    BY DEF FindsTheRoot
<1> DEFINE C == Climb(offender, parent, keepers, protected)
           Tops == {q \in C : ~Climbable(q, parent, keepers, protected)}
<1>1. TypeInvariant /\ FollowsTheClimb
    BY DEF IInv
<1>2. CASE result = NoPid
    BY <1>1, <1>2 DEF FindsTheRoot, FollowsTheClimb, KillRootOf, TypeInvariant
<1>3. CASE result # NoPid
  <2>1. /\ result = cursor /\ (cursor \in seen \/ ~MayGoUp(cursor))
        /\ offender \in keepers \ protected
      BY <1>1, <1>3 DEF FollowsTheClimb
  <2>2. C \subseteq seen \cup {cursor}
    <3>1. \A q \in seen \cup {cursor} :
             q \in Pids /\ Climbable(q, parent, keepers, protected)
               => parent[q] \in seen \cup {cursor}
        BY <1>1, <2>1 DEF FollowsTheClimb, MayGoUp
    <3> DEFINE S == seen \cup {cursor}
    <3>2. offender \in S
        BY <1>1 DEF FollowsTheClimb
    <3>3. \A q \in S : q \in Pids /\ Climbable(q, parent, keepers, protected) => parent[q] \in S
        BY <3>1
    <3> HIDE DEF S
    <3>4. C \subseteq S
        BY <1>1, <3>2, <3>3, ClimbLeast DEF TypeInvariant
    <3>5. QED
        BY <3>4 DEF S
  <2>3. CASE cursor \in seen
    <3>1. Tops = {}
        BY <1>1, <2>2, <2>3 DEF FollowsTheClimb, MayGoUp
    <3>2. KillRootOf(offender, parent, keepers, protected) = NoPid
        BY <3>1 DEF KillRootOf
    <3>3. result \in C
        BY <1>1, <2>1 DEF FollowsTheClimb
    <3>4. QED
        BY <2>1, <3>2, <3>3 DEF FindsTheRoot
  <2>4. CASE cursor \notin seen
    <3>1. Tops = {cursor}
        BY <1>1, <2>1, <2>2, <2>4 DEF FollowsTheClimb, MayGoUp
    <3>2. KillRootOf(offender, parent, keepers, protected) = CHOOSE q \in Tops : TRUE
        BY <2>1, <3>1 DEF KillRootOf
    <3>3. (CHOOSE q \in Tops : TRUE) = cursor
        BY <3>1
    <3>4. QED
        BY <2>1, <3>2, <3>3 DEF FindsTheRoot
  <2>5. QED
      BY <2>3, <2>4
<1>4. QED
    BY <1>2, <1>3

\* For every process table, find_kill_root() returns the top of the job; in a
\* table with a parent cycle it returns a process of the climb.
THEOREM RootIsFound == Spec => []FindsTheRoot
<1>1. QED
    BY Invariance, EndIsTheRoot, PTL

\* On every process table, recycled pids and parent cycles included, the root
\* of a job is neither a protected process nor a foreign one: find_kill_root()
\* never hands a supervisor or a shell to the kill.
THEOREM RootIsSafe == Spec => []RootIsFairGame
<1>1. IInv => RootIsFairGame
    BY DEF IInv, StandsOnFairGame
<1>2. QED
    BY <1>1, Invariance, PTL

\* The variables of the walk keep their types.
THEOREM TypeCorrect == Spec => []TypeInvariant
<1>1. IInv => TypeInvariant
    BY DEF IInv
<1>2. QED
    BY <1>1, Invariance, PTL
-----------------------------------------------------------------------------
(* The kill action: an invariant about forests and the targets.             *)

\* Who lives has a parent that lives, or none.
ParentsLive == \A p \in alive : proc[p].parent \in alive \cup {NoPid}

\* Processes can be put in an order in which each comes after its parent.
Follows(order) == \A p \in alive : proc[p].parent # NoPid => order[proc[p].parent] < order[p]

Forest == ParentsLive /\ \E order \in [Pids -> Nat] : Follows(order)

\* From the choice of the targets on: nothing protected is among them, and of
\* the children of the owners above the offender at most one.
AtMostOneChild ==
    \A p \in targets, q \in targets :
        inspected[p].parent \in OwnersAbove /\ inspected[q].parent \in OwnersAbove => p = q

WellChosen ==
    /\ pc \in {"terminating", "killing", "grace", "escalating"} \/ victims # {}
         => targets \cap shielded = {} /\ AtMostOneChild
    /\ \A v \in KilledTree : v.pid \in targets

\* The invariant of the kill actions.
TreeInv == KillTypes /\ Forest /\ WellChosen

\* Deaths leave a forest: the children of the dead have no parent left.
LEMMA DieKeepsTheForest ==
    ASSUME KillTypes, Forest, NEW dead \in SUBSET Pids, Die(dead)
    PROVE  Forest' /\ proc' \in [Pids -> ProcessType] /\ alive' \subseteq Pids
<1>1. proc \in [Pids -> ProcessType] /\ alive \subseteq Pids
    BY DEF KillTypes
<1>2. proc' \in [Pids -> ProcessType] /\ alive' \subseteq Pids
    BY <1>1 DEF Die, ProcessType
<1>3. \A p \in Pids : proc'[p].parent = IF proc[p].parent \in dead THEN NoPid ELSE proc[p].parent
    BY <1>1 DEF Die, ProcessType
<1>4. ParentsLive'
    BY <1>1, <1>3 DEF Forest, ParentsLive, Die
<1>5. PICK order \in [Pids -> Nat] : Follows(order)
    BY DEF Forest
<1>6. \A p \in alive' : proc'[p].parent # NoPid => order[proc'[p].parent] < order[p]
    BY <1>1, <1>3, <1>5 DEF Follows, Die
<1>7. QED
    BY <1>2, <1>4, <1>5, <1>6 DEF Forest, Follows

\* So do births: what starts comes after its parent, and nothing below it lives.
LEMMA BirthKeepsTheForest ==
    ASSUME KillTypes, Forest, NEW p \in Pids \ alive, NEW info \in ProcessType,
           info.parent \in alive \cup {NoPid},
           alive' = alive \cup {p}, proc' = [proc EXCEPT ![p] = info]
    PROVE  Forest'
<1>1. proc \in [Pids -> ProcessType] /\ alive \subseteq Pids
    BY DEF KillTypes
<1>2. \A q \in Pids : proc'[q] = IF q = p THEN info ELSE proc[q]
    BY <1>1
<1>3. ParentsLive'
    BY <1>1, <1>2 DEF Forest, ParentsLive
<1>4. PICK order \in [Pids -> Nat] : Follows(order)
    BY DEF Forest
<1> DEFINE later == [order EXCEPT ![p] = IF info.parent = NoPid THEN 0 ELSE order[info.parent] + 1]
<1>5. later \in [Pids -> Nat]
    BY <1>1
<1>6. ASSUME NEW q \in alive', proc'[q].parent # NoPid
      PROVE  later[proc'[q].parent] < later[q]
  <2>1. CASE q = p
      BY <1>1, <1>2, <1>6, <2>1
  <2>2. CASE q # p
    <3>1. q \in alive /\ proc'[q] = proc[q] /\ proc[q].parent \in alive /\ proc[q].parent # p
        BY <1>1, <1>2, <1>6, <2>2 DEF Forest, ParentsLive
    <3>2. order[proc[q].parent] < order[q]
        BY <1>4, <1>6, <3>1 DEF Follows
    <3>3. QED
        BY <1>1, <2>2, <3>1, <3>2
  <2>3. QED
      BY <2>1, <2>2
<1> HIDE DEF later
<1>7. QED
    BY <1>3, <1>5, <1>6 DEF Forest, Follows
-----------------------------------------------------------------------------
\* The parents on record, of the dead too.
AllAbove == [p \in Pids |-> proc[p].parent]

\* What psutil shows are tables of processes, and Parent is a part of AllAbove.
LEMMA TablesAreTables ==
    ASSUME KillTypes
    PROVE  /\ Parent \in [Pids -> Pids \cup {NoPid}]
           /\ AllAbove \in [Pids -> Pids \cup {NoPid}]
           /\ Keepers \in SUBSET Pids
           /\ \A p \in Pids : Parent[p] # NoPid => p \in alive /\ Parent[p] = AllAbove[p]
BY PidsAssumption DEF KillTypes, ProcessType, Parent, AllAbove, Keepers

\* What is below a living process comes after it in the order.
LEMMA BelowIsLater ==
    ASSUME KillTypes, ParentsLive, NEW order \in [Pids -> Nat], Follows(order),
           NEW p \in alive
    PROVE  /\ \A q \in Subtree(p, Parent) : q = p \/ order[p] < order[q]
           /\ \A q \in Subtree(p, AllAbove) \cap alive : q = p \/ order[p] < order[q]
<1>1. /\ proc \in [Pids -> ProcessType] /\ alive \subseteq Pids
      /\ Parent \in [Pids -> Pids \cup {NoPid}]
      /\ AllAbove \in [Pids -> Pids \cup {NoPid}]
      /\ \A q \in Pids : Parent[q] # NoPid => q \in alive /\ Parent[q] = AllAbove[q]
      /\ \A q \in Pids : AllAbove[q] = proc[q].parent
    BY TablesAreTables DEF KillTypes, AllAbove
<1> DEFINE S == {q \in Pids : q \in alive => q = p \/ order[p] < order[q]}
<1>2. p \in S
    BY <1>1
<1>3. ASSUME NEW q \in Pids, AllAbove[q] \in S PROVE q \in S
  <2>1. SUFFICES ASSUME q \in alive PROVE order[p] < order[q]
      OBVIOUS
  <2>2. AllAbove[q] \in alive /\ order[AllAbove[q]] < order[q]
      BY <1>1, <1>3, <2>1, PidsAssumption DEF ParentsLive, Follows
  <2>3. AllAbove[q] = p \/ order[p] < order[AllAbove[q]]
      BY <1>3, <2>2
  <2>4. order[q] \in Nat /\ order[p] \in Nat /\ order[AllAbove[q]] \in Nat
      BY <1>1, <2>2
  <2>5. QED
      BY <2>2, <2>3, <2>4
<1>4. ASSUME NEW q \in Pids, Parent[q] \in S PROVE q \in S
    BY <1>1, <1>3, <1>4, PidsAssumption
<1> HIDE DEF S
<1>5. Subtree(p, AllAbove) \subseteq S /\ Subtree(p, Parent) \subseteq S
    BY <1>1, <1>2, <1>3, <1>4, SubtreeLeast
<1>6. \A q \in Subtree(p, Parent) : q = p \/ q \in alive
  <2>1. ASSUME NEW q \in Subtree(p, Parent), q # p PROVE q \in alive
    <3>1. Subtree(p, Parent) \subseteq Pids /\ Parent[q] \in Subtree(p, Parent)
        BY <1>1, <2>1, SubtreeUp
    <3>2. QED
        BY <1>1, <3>1, PidsAssumption
  <2>2. QED
      BY <2>1
<1>7. QED
    BY <1>5, <1>6 DEF S

\* Who is above a living process lives.
LEMMA AboveLives ==
    ASSUME KillTypes, ParentsLive, NEW p \in Pids, NEW q \in alive,
           q \in Subtree(p, AllAbove)
    PROVE  p \in alive
<1>1. /\ proc \in [Pids -> ProcessType] /\ alive \subseteq Pids
      /\ AllAbove \in [Pids -> Pids \cup {NoPid}]
      /\ \A r \in Pids : AllAbove[r] = proc[r].parent
    BY TablesAreTables DEF KillTypes, AllAbove
<1> SUFFICES ASSUME p \notin alive PROVE FALSE
    OBVIOUS
<1> DEFINE S == Pids \ alive
<1>2. p \in S
    OBVIOUS
<1>3. ASSUME NEW r \in Pids, AllAbove[r] \in S PROVE r \in S
    BY <1>1, <1>3, PidsAssumption DEF ParentsLive
<1> HIDE DEF S
<1>4. Subtree(p, AllAbove) \subseteq S
    BY <1>1, <1>2, <1>3, SubtreeLeast
<1>5. QED
    BY <1>4 DEF S

\* The climb from an offender stays below every protected process above it.
LEMMA ClimbStaysBelow ==
    ASSUME KillTypes, NEW p \in Pids, NEW o \in shielded \ {p}, p \in Subtree(o, AllAbove)
    PROVE  \A q \in Climb(p, Parent, Keepers, shielded) :
             q # o /\ q \in Subtree(o, AllAbove) /\ (q = p \/ q \in Keepers \ shielded)
<1> DEFINE C == Climb(p, Parent, Keepers, shielded)
           B == Subtree(o, AllAbove)
           F == {q \in Pids : q = p \/ q \in Keepers \ shielded}
           S == {q \in F : q \in B}
<1>1. /\ Parent \in [Pids -> Pids \cup {NoPid}]
      /\ AllAbove \in [Pids -> Pids \cup {NoPid}]
      /\ Keepers \in SUBSET Pids /\ shielded \in SUBSET Pids /\ o \in Pids
      /\ \A q \in Pids : Parent[q] # NoPid => q \in alive /\ Parent[q] = AllAbove[q]
    BY TablesAreTables DEF KillTypes
<1>2. p \in S
    OBVIOUS
<1>3. ASSUME NEW q \in S, q \in Pids, Climbable(q, Parent, Keepers, shielded)
      PROVE  Parent[q] \in S
  <2>1. Parent[q] \in Keepers \ shielded /\ Parent[q] = AllAbove[q]
      BY <1>1, <1>3 DEF Climbable
  <2>2. q # o
      BY DEF Keepers
  <2>3. AllAbove[q] \in B
      BY <1>1, <2>2, SubtreeUp
  <2>4. QED
      BY <1>1, <2>1, <2>3
<1> HIDE DEF S
<1>4. C \subseteq S
    BY <1>1, <1>2, <1>3, ClimbLeast
<1>5. QED
    BY <1>4 DEF S

\* The owners of the children among the targets are above the root as well,
\* so their child is the root.
LEMMA OneChildBelowTheRoot ==
    ASSUME KillTypes, Forest, NEW p \in Pids, NEW o \in shielded \ {p},
           p \in Subtree(o, AllAbove), p \in alive,
           NEW top \in Climb(p, Parent, Keepers, shielded),
           NEW q \in Subtree(top, Parent), proc[q].parent = o
    PROVE  q = top
<1>1. /\ Parent \in [Pids -> Pids \cup {NoPid}]
      /\ Keepers \in SUBSET Pids /\ shielded \subseteq Pids /\ o \in Pids
      /\ \A r \in Pids : Parent[r] # NoPid => r \in alive /\ Parent[r] = AllAbove[r]
      /\ AllAbove = [r \in Pids |-> proc[r].parent]
    BY TablesAreTables DEF KillTypes, AllAbove
<1>2. top # o /\ top \in Subtree(o, AllAbove) /\ top \in alive
    BY ClimbStaysBelow DEF Keepers
<1>3. PICK order \in [Pids -> Nat] : Follows(order)
    BY DEF Forest
<1>4. o \in alive
    BY <1>1, AboveLives DEF Forest
<1>5. order[o] < order[top]
    BY <1>2, <1>3, <1>4, BelowIsLater DEF Forest
<1>6. SUFFICES ASSUME q # top PROVE FALSE
    OBVIOUS
<1>7. top \in Pids
    BY <1>2 DEF KillTypes
<1>8. Parent[q] \in Subtree(top, Parent) /\ q \in Pids /\ Subtree(top, Parent) \subseteq Pids
    BY <1>1, <1>6, <1>7, SubtreeUp
<1>9. o \in Subtree(top, Parent)
    BY <1>1, <1>8, PidsAssumption
<1>10. order[top] < order[o]
    BY <1>2, <1>3, <1>9, BelowIsLater DEF Forest
<1>11. QED
    BY <1>1, <1>3, <1>5, <1>7, <1>10
-----------------------------------------------------------------------------
\* JobRoot() returns a process of the climb, or none.
LEMMA RootIsOnTheClimb ==
    ASSUME KillTypes, NEW p \in Pids
    PROVE  JobRoot(p) = NoPid \/ JobRoot(p) \in Climb(p, Parent, Keepers, shielded)
BY DEF JobRoot, KillRootOf

\* The targets are below the root, alive, and nothing protected.
LEMMA TargetsAreBelow ==
    ASSUME KillTypes, NEW top \in Pids
    PROVE  TargetsOf(top) \subseteq (Subtree(top, Parent) \cap alive) \ shielded
BY DEF TargetsOf, LivingSubtree

\* What the choice leaves: nothing protected, and one child of an owner above
\* the offender at most.
LEMMA ChoiceIsSound ==
    ASSUME TreeInv, NEW p \in Pids, Choose(p)
    PROVE  TreeInv'
<1> DEFINE top == IF kind = "cap" THEN p ELSE JobRoot(p)
           C == Climb(p, Parent, Keepers, shielded)
<1>1. KillTypes /\ Forest
    BY DEF TreeInv
<1>2. p \in alive /\ p \notin shielded
    BY DEF Choose, Eligible
<1>3. /\ blamed' = p /\ root' = top /\ inspected' = proc
      /\ victims' = {} /\ unyielding' = {}
      /\ owner' = IF top = NoPid THEN NoPid ELSE Parent[top]
      /\ targets' = IF top = NoPid THEN {} ELSE TargetsOf(top)
      /\ pc' \in {"idle", "killing", "terminating"}
      /\ recycled' = {}
      /\ UNCHANGED <<proc, alive, recycles, kind, shielded, clients, escalationVars>>
    BY DEF Choose
<1>4. Parent \in [Pids -> Pids \cup {NoPid}] /\ Keepers \in SUBSET Pids
    BY <1>1, TablesAreTables
<1>5. C \subseteq Pids /\ p \in C
    BY <1>4, ClimbClosed
<1>6. top = NoPid \/ top \in C
    BY <1>1, <1>5, RootIsOnTheClimb
<1> HIDE DEF top, C
<1>7. top \in Pids => targets' \subseteq (Subtree(top, Parent) \cap alive) \ shielded
    BY <1>1, <1>3, TargetsAreBelow, PidsAssumption
<1>8. targets' \subseteq alive \ shielded
    BY <1>3, <1>5, <1>6, <1>7
<1>9. owner' \in Pids \cup {NoPid}
    BY <1>3, <1>4, <1>5, <1>6
<1>10. KillTypes'
    BY <1>1, <1>3, <1>5, <1>6, <1>8, <1>9 DEF KillTypes, escalationVars
<1>11. Forest'
    BY <1>1, <1>3 DEF Forest, ParentsLive, Follows
<1>12. AtMostOneChild'
  <2>1. OwnersAbove' = {o \in shielded \ {p} : p \in Subtree(o, AllAbove)}
      BY <1>3 DEF OwnersAbove, AllAbove
  <2>2. ASSUME NEW q \in targets', proc[q].parent \in OwnersAbove' PROVE q = top
    <3>1. top \in C
        BY <1>3, <1>6, <2>2
    <3>2. q \in Subtree(top, Parent)
        BY <1>5, <1>7, <2>2, <3>1
    <3>3. QED
        BY <1>1, <1>2, <2>1, <2>2, <3>1, <3>2, OneChildBelowTheRoot DEF C
  <2>3. QED
      BY <1>3, <2>2 DEF AtMostOneChild
<1>13. WellChosen'
    BY <1>3, <1>8, <1>12 DEF WellChosen, KilledTree
<1>14. QED
    BY <1>10, <1>11, <1>13 DEF TreeInv

\* The record of a kill is typed and names who died.
LEMMA VictimsTyped ==
    ASSUME KillTypes, NEW dying \in SUBSET Pids, NEW how \in {"rule", "cap", "owner"}
    PROVE  /\ Victims(dying, how) \subseteq VictimType
           /\ \A v \in Victims(dying, how) : v.pid \in dying /\ v.how = how
<1>1. ASSUME NEW v \in Victims(dying, how)
      PROVE  v \in VictimType /\ v.pid \in dying /\ v.how = how
  <2>1. PICK p \in dying :
          v = [pid |-> p, was |-> proc[p], how |-> how, stranger |-> p \in recycled]
      BY DEF Victims
  <2>2. (p \in recycled) \in BOOLEAN
    <3>1. CASE p \in recycled
        BY <3>1
    <3>2. CASE p \notin recycled
        BY <3>2
    <3>3. QED
        BY <3>1, <3>2
  <2>3. proc[p] \in ProcessType
      BY DEF KillTypes
  <2>4. QED
      BY <2>1, <2>2, <2>3 DEF VictimType
<1>2. QED
    BY <1>1

\* The kill steps take targets only.
LEMMA KillingIsSound == TreeInv /\ (Terminate \/ ForceKill) => TreeInv'
<1> SUFFICES ASSUME TreeInv, Terminate \/ ForceKill PROVE TreeInv'
    OBVIOUS
<1>1. KillTypes /\ Forest /\ WellChosen
    BY DEF TreeInv
<1>2. PICK dead \in SUBSET (targets \cap alive) :
          /\ Die(dead)
          /\ victims' \in {Victims(dead, kind), victims \cup Victims(dead, kind)}
    BY DEF Terminate, ForceKill
<1>3. /\ pc \in {"terminating", "killing", "grace"} /\ pc' \in {"grace", "escalating"}
      /\ UNCHANGED <<recycled, recycles, kind, shielded, clients, blamed, root,
                     owner, targets, inspected, escalationVars, unyielding>>
    BY DEF Terminate, ForceKill
<1>4. targets \subseteq Pids /\ kind \in {"rule", "cap"}
    BY <1>1 DEF KillTypes
<1>5. Forest' /\ proc' \in [Pids -> ProcessType] /\ alive' \subseteq Pids
    BY <1>1, <1>2, <1>4, DieKeepsTheForest
<1>6. /\ Victims(dead, kind) \subseteq VictimType
      /\ \A v \in Victims(dead, kind) : v.pid \in targets
    BY <1>1, <1>4, VictimsTyped
<1>7. KillTypes'
    BY <1>1, <1>2, <1>3, <1>5, <1>6 DEF KillTypes, escalationVars
<1>8. AtMostOneChild' /\ targets' \cap shielded' = {}
    BY <1>1, <1>3 DEF WellChosen, AtMostOneChild, OwnersAbove
<1>9. \A v \in KilledTree' : v.pid \in targets'
    BY <1>1, <1>2, <1>3, <1>6 DEF WellChosen, KilledTree
<1>10. QED
    BY <1>5, <1>7, <1>8, <1>9 DEF TreeInv, WellChosen

\* The escalation kills processes of the table.
LEMMA OwnerTargetsTyped ==
    ASSUME KillTypes, owner \in Pids
    PROVE  OwnerTargets \subseteq Pids
BY TablesAreTables, SubtreeUp DEF OwnerTargets, LivingSubtree

\* The escalation kills owners, and counts them as such.
LEMMA EscalationIsSound == TreeInv /\ Escalate => TreeInv'
<1> SUFFICES ASSUME TreeInv, Escalate PROVE TreeInv'
    OBVIOUS
<1>1. KillTypes /\ Forest /\ WellChosen
    BY DEF TreeInv
<1>2. /\ pc = "escalating" /\ pc' \in {"idle", "choosing"}
      /\ UNCHANGED <<recycled, recycles, kind, shielded, clients, blamed,
                     root, owner, targets, inspected>>
    BY DEF Escalate
<1>3. FutileCount \in Nat \/ owner \notin Pids
    BY <1>1 DEF KillTypes, FutileCount
<1>4. /\ futile' \in [Pids -> 0..KillAfter]
      /\ asked' \subseteq Pids /\ stale' \subseteq Pids /\ polite' \subseteq Pids
  <2>1. CASE NoOwner
    <3>1. /\ futile' = [futile EXCEPT ![root] = 0] /\ futile \in [Pids -> 0..KillAfter]
          /\ 0 \in 0..KillAfter
        BY <1>1, <2>1, EscalationAssumption DEF NoOwner, KillTypes
    <3>2. futile' \in [Pids -> 0..KillAfter]
        BY <3>1
    <3>3. QED
        BY <1>1, <2>1, <3>2 DEF NoOwner, KillTypes
  <2>2. CASE owner \in shielded /\ CountOnly /\ stale' = stale \ {owner}
    <3>1. owner \in Pids /\ Capped(FutileCount) \in 0..KillAfter
        BY <1>1, <1>3, <2>2, EscalationAssumption DEF KillTypes, Capped
    <3>2. QED
        BY <1>1, <2>2, <3>1 DEF CountOnly, KillTypes
  <2>3. CASE owner \in shielded /\ AskOwner /\ stale' = stale \ {owner}
    <3>1. owner \in Pids /\ FutileCount \in 0..KillAfter
        BY <1>1, <1>3, <2>3, EscalationAssumption DEF KillTypes, AskOwner
    <3>2. QED
        BY <1>1, <2>3, <3>1 DEF AskOwner, KillTypes
  <2>4. CASE owner \in shielded /\ KillOwner /\ stale' = stale \ {owner}
      BY <1>1, <2>4, EscalationAssumption DEF KillOwner, KillTypes
  <2>5. QED
      BY <2>1, <2>2, <2>3, <2>4 DEF Escalate
<1>5. /\ Forest' /\ proc' \in [Pids -> ProcessType] /\ alive' \subseteq Pids
      /\ victims' \subseteq VictimType /\ unyielding' \subseteq Pids
      /\ \A v \in victims' : v.how = "owner"
  <2>1. CASE SpareAll
      BY <1>1, <2>1 DEF SpareAll, KillTypes, Forest, ParentsLive, Follows
  <2>2. CASE owner \in shielded /\ KillOwner
    <3>1. PICK dying \in SUBSET (OwnerTargets \cap alive) :
              /\ Die(dying) /\ victims' = Victims(dying, "owner")
              /\ unyielding' = (alive \cap {owner}) \ dying
        BY <2>2 DEF KillOwner
    <3>2. dying \subseteq Pids
        BY <1>1, <2>2, OwnerTargetsTyped DEF KillTypes
    <3>3. Forest' /\ proc' \in [Pids -> ProcessType] /\ alive' \subseteq Pids
        BY <1>1, <3>1, <3>2, DieKeepsTheForest
    <3>4. /\ Victims(dying, "owner") \subseteq VictimType
          /\ \A v \in Victims(dying, "owner") : v.how = "owner"
        BY <1>1, <3>2, VictimsTyped
    <3>5. QED
        BY <1>1, <3>1, <3>3, <3>4 DEF KillTypes
  <2>3. QED
      BY <2>1, <2>2 DEF Escalate, NoOwner, CountOnly, AskOwner
<1>6. KillTypes'
    BY <1>1, <1>2, <1>4, <1>5 DEF KillTypes
<1>7. WellChosen'
    BY <1>1, <1>2, <1>5 DEF WellChosen, AtMostOneChild, OwnersAbove, KilledTree
<1>8. QED
    BY <1>5, <1>6, <1>7 DEF TreeInv

\* A kill action that begins has chosen nothing yet.
LEMMA BeginningIsSound ==
    ASSUME TreeInv, NEW k \in {"rule", "cap"}, BeginKill(k) \/ Skip
    PROVE  TreeInv'
<1>1. KillTypes /\ Forest /\ WellChosen
    BY DEF TreeInv
<1>2. CASE BeginKill(k)
  <2>1. clients' \in [Pids -> {"none", "role", "never_kill"}]
    <3>1. \A p \in Pids : Manifest(p) \in {"none", "role", "never_kill"}
        BY <1>1 DEF KillTypes, Manifest, ProcessType
    <3>2. QED
        BY <1>2, <3>1 DEF BeginKill
  <2>2. KillTypes'
      BY <1>1, <1>2, <2>1 DEF KillTypes, BeginKill, machineVars, escalationVars
  <2>3. Forest' /\ WellChosen'
      BY <1>1, <1>2 DEF BeginKill, machineVars, Forest, ParentsLive, Follows, WellChosen,
         KilledTree
  <2>4. QED
      BY <2>2, <2>3 DEF TreeInv
<1>3. CASE Skip
  <2>1. KillTypes'
      BY <1>1, <1>3 DEF KillTypes, Skip, machineVars, escalationVars, reportVars
  <2>2. Forest' /\ WellChosen'
      BY <1>1, <1>3 DEF Skip, machineVars, reportVars, Forest, ParentsLive, Follows, WellChosen,
         KilledTree, AtMostOneChild, OwnersAbove
  <2>3. QED
      BY <2>1, <2>2 DEF TreeInv
<1>4. QED
    BY <1>2, <1>3

\* What the machine does meanwhile leaves the choice alone.
LEMMA MachineIsSound ==
    ASSUME TreeInv, NEW p \in Pids,
           Respawn(p) \/ ProcessExits(p) \/ Recycle(p) \/ LongCalm(p)
    PROVE  TreeInv'
<1>1. KillTypes /\ Forest /\ WellChosen
    BY DEF TreeInv
<1>2. UNCHANGED actionVars \/ LongCalm(p)
    BY DEF Respawn, ProcessExits, Recycle
<1>3. UNCHANGED <<pc, kind, shielded, clients, blamed, root, owner, targets, inspected, victims>>
    BY <1>2 DEF Respawn, ProcessExits, Recycle, LongCalm, actionVars, reportVars
<1>4. WellChosen'
    BY <1>1, <1>3 DEF WellChosen, AtMostOneChild, OwnersAbove, KilledTree
<1>5. /\ futile' \in [Pids -> 0..KillAfter] /\ stale' \subseteq Pids /\ asked' \subseteq Pids
      /\ polite' \subseteq Pids /\ unyielding' \subseteq Pids
    BY <1>1, EscalationAssumption DEF KillTypes, Respawn, ProcessExits, Recycle, LongCalm,
       escalationVars, reportVars
<1>6. recycled' \subseteq Pids /\ recycles' \in 0..MaxRecycled
    BY <1>1, EscalationAssumption DEF KillTypes, Respawn, ProcessExits, Recycle, LongCalm,
       machineVars
<1>7. Forest' /\ proc' \in [Pids -> ProcessType] /\ alive' \subseteq Pids
  <2>1. CASE Respawn(p)
    <3>1. p \in Pids \ alive /\ Start[p].parent \in alive /\ Start[p] \in ProcessType
        BY <2>1, MachineAssumption DEF Respawn
    <3>2. alive' = alive \cup {p} /\ proc' = [proc EXCEPT ![p] = Start[p]]
        BY <2>1 DEF Respawn
    <3>3. QED
        BY <1>1, <3>1, <3>2, BirthKeepsTheForest DEF KillTypes
  <2>2. CASE ProcessExits(p)
      BY <1>1, <2>2, DieKeepsTheForest DEF ProcessExits
  <2>3. CASE Recycle(p)
    <3>1. PICK stranger \in Strangers : /\ stranger.parent \in alive \cup {NoPid}
                                        /\ proc' = [proc EXCEPT ![p] = stranger]
        BY <2>3 DEF Recycle
    <3>2. p \in Pids \ alive /\ stranger \in ProcessType /\ alive' = alive \cup {p}
        BY <2>3, MachineAssumption DEF Recycle
    <3>3. QED
        BY <1>1, <3>1, <3>2, BirthKeepsTheForest DEF KillTypes
  <2>4. CASE LongCalm(p)
      BY <1>1, <2>4 DEF LongCalm, machineVars, KillTypes, Forest, ParentsLive, Follows
  <2>5. QED
      BY <2>1, <2>2, <2>3, <2>4
<1>8. KillTypes'
    BY <1>1, <1>3, <1>5, <1>6, <1>7 DEF KillTypes
<1>9. QED
    BY <1>4, <1>7, <1>8 DEF TreeInv

\* The machine starts as a forest, with no kill on its way.
LEMMA InitTreeInv == KillInit => TreeInv
<1> SUFFICES ASSUME KillInit PROVE TreeInv
    OBVIOUS
<1>1. KillTypes
    BY MachineAssumption, EscalationAssumption DEF KillInit, KillTypes
<1>2. ParentsLive
    BY MachineAssumption DEF KillInit, ParentsLive
<1>3. PICK order \in [Pids -> 0..Cardinality(Pids)] : \A p \in Running :
         Start[p].parent # NoPid => order[Start[p].parent] < order[p]
    BY MachineAssumption
<1>4. order \in [Pids -> Nat] /\ Follows(order)
    BY <1>3, FS_CardinalityType, PidsAssumption DEF KillInit, Follows
<1>5. WellChosen
    BY DEF KillInit, WellChosen, KilledTree
<1>6. QED
    BY <1>1, <1>2, <1>4, <1>5 DEF TreeInv, Forest

\* Every step of the actuator and of the machine keeps it.
LEMMA StepTreeInv == TreeInv /\ [KillNext]_killVars => TreeInv'
<1> SUFFICES ASSUME TreeInv, [KillNext]_killVars PROVE TreeInv'
    OBVIOUS
<1>1. CASE KillNext
    BY <1>1, BeginningIsSound, KillingIsSound, EscalationIsSound, ChoiceIsSound,
       MachineIsSound DEF KillNext, KillStep
<1>2. CASE UNCHANGED killVars
    BY <1>2 DEF killVars, machineVars, actionVars, escalationVars, reportVars, TreeInv,
       KillTypes, Forest, ParentsLive, Follows, WellChosen, AtMostOneChild, OwnersAbove, KilledTree
<1>3. QED
    BY <1>1, <1>2

\* The invariant of the kill actions.
THEOREM TreeInvariance == KillSpec => []TreeInv
<1>1. QED
    BY InitTreeInv, StepTreeInv, PTL DEF KillSpec

\* The actuator's variables keep their types, whatever the machine does.
THEOREM KillTypeCorrect == KillSpec => []KillTypes
<1>1. TreeInv => KillTypes
    BY DEF TreeInv
<1>2. QED
    BY <1>1, TreeInvariance, PTL

\* A rule's or the cap's kill takes no process that was protected when the action
\* began, for any processes, manifests, exits, respawns and recycled pids.
THEOREM ProtectedAreSpared == KillSpec => []ProtectedSpared
<1>1. TreeInv => ProtectedSpared
    BY DEF TreeInv, WellChosen, ProtectedSpared, KilledTree
<1>2. QED
    BY <1>1, TreeInvariance, PTL

\* A kill sheds one job of every protected supervisor above the offender, however
\* supervisors are nested: its other children live on.
THEOREM SiblingsAreSpared == KillSpec => []SiblingsSpared
<1>1. TreeInv => SiblingsSpared
    BY DEF TreeInv, WellChosen, AtMostOneChild, SiblingsSpared, KilledTree
<1>2. QED
    BY <1>1, TreeInvariance, PTL
-----------------------------------------------------------------------------
(* Owners are asked before they are killed.                                 *)

\* Without recycled pids a pid stands for one program.
SameProgram(info, p) ==
    /\ info[p].name = Start[p].name
    /\ info[p].shield = Start[p].shield
    /\ info[p].canStop = Start[p].canStop

CanBeAsked(p) == Start[p].shield = "role" /\ Start[p].canStop

\* An owner that can be asked was asked in this spell of futile kills, or not
\* yet often enough in vain.
AskedInTime ==
    \A p \in Pids : CanBeAsked(p) =>
        /\ p \in asked \ stale => p \in polite
        /\ p \notin stale /\ futile[p] >= AskAfter => p \in polite

AskInv ==
    /\ TreeInv
    /\ \A p \in Pids : SameProgram(proc, p) /\ SameProgram(inspected, p)
    /\ \A p \in shielded : Start[p].shield = "role" => clients[p] = "role"
    /\ AskedInTime

\* At the start nobody was asked and nothing was futile.
LEMMA InitAskInv == KillInit => AskInv
<1> SUFFICES ASSUME KillInit PROVE AskInv
    OBVIOUS
<1>1. TreeInv
    BY InitTreeInv
<1>2. QED
    BY <1>1, EscalationAssumption DEF KillInit, AskInv, SameProgram, AskedInTime

\* Whatever dies stays the program it was.
LEMMA ProgramsStay ==
    ASSUME AskInv, MaxRecycled = 0, KillNext
    PROVE  \A p \in Pids : SameProgram(proc, p)' /\ SameProgram(inspected, p)'
<1>1. KillTypes /\ \A p \in Pids : SameProgram(proc, p) /\ SameProgram(inspected, p)
    BY DEF AskInv, TreeInv
<1>2. ASSUME NEW dead, Die(dead) PROVE \A p \in Pids : SameProgram(proc, p)'
    BY <1>1, <1>2 DEF Die, KillTypes, ProcessType, SameProgram
<1>3. proc' = proc \/ (\E dead : Die(dead)) \/ (\E p \in Pids : Respawn(p))
  <2>1. ASSUME NEW p \in Pids PROVE ~Recycle(p)
      BY <1>1 DEF Recycle, KillTypes
  <2>2. CASE Escalate
      BY <2>2 DEF Escalate, NoOwner, CountOnly, AskOwner, KillOwner, SpareAll
  <2>3. CASE \E p \in Pids : Respawn(p) \/ ProcessExits(p) \/ Recycle(p) \/ LongCalm(p)
      BY <2>1, <2>3 DEF ProcessExits, LongCalm, machineVars
  <2>4. CASE Skip \/ Terminate \/ ForceKill
      BY <2>4 DEF Skip, Terminate, ForceKill, machineVars
  <2>5. CASE (\E k \in {"rule", "cap"} : BeginKill(k)) \/ \E p \in Pids : Choose(p)
      BY <2>5 DEF BeginKill, Choose, machineVars
  <2>6. QED
      BY <2>2, <2>3, <2>4, <2>5 DEF KillNext, KillStep
<1>4. \A p \in Pids : SameProgram(proc, p)'
  <2>1. CASE proc' = proc
      BY <1>1, <2>1 DEF SameProgram
  <2>2. CASE \E p \in Pids : Respawn(p)
      BY <1>1, <2>2 DEF Respawn, KillTypes, SameProgram
  <2>3. QED
      BY <1>2, <1>3, <2>1, <2>2
<1>5. inspected' \in {inspected, proc}
    BY DEF KillNext, KillStep, BeginKill, Skip, Terminate, ForceKill, Escalate, Choose,
       Respawn, ProcessExits, Recycle, LongCalm, actionVars
<1>6. QED
    BY <1>1, <1>4, <1>5 DEF SameProgram

\* What is shielded was read together with the manifests.
LEMMA ClientsAreRead ==
    ASSUME AskInv, KillNext
    PROVE  (\A p \in shielded : Start[p].shield = "role" => clients[p] = "role")'
<1>1. CASE \E k \in {"rule", "cap"} : BeginKill(k)
    BY <1>1 DEF AskInv, TreeInv, KillTypes, BeginKill, Manifest, SameProgram
<1>2. CASE UNCHANGED <<shielded, clients>>
    BY <1>2 DEF AskInv
<1>3. QED
    BY <1>1, <1>2 DEF KillNext, KillStep, Skip, Terminate, ForceKill, Escalate, Choose,
       Respawn, ProcessExits, Recycle, LongCalm, actionVars

\* The escalation asks before its count goes on.
LEMMA EscalationAsks ==
    ASSUME AskInv, Escalate
    PROVE  AskedInTime'
<1>1. /\ KillTypes /\ AskedInTime
      /\ \A p \in Pids : SameProgram(inspected, p)
      /\ \A p \in shielded : Start[p].shield = "role" => clients[p] = "role"
    BY DEF AskInv, TreeInv
<1>2. CASE NoOwner
    BY <1>1, <1>2, EscalationAssumption DEF NoOwner, AskedInTime, KillTypes
<1>3. CASE owner \in shielded /\ stale' = stale \ {owner} /\ (CountOnly \/ AskOwner \/ KillOwner)
  <2>1. owner \in Pids /\ futile[owner] \in 0..KillAfter
      BY <1>1, <1>3 DEF KillTypes
  <2>2. ASSUME NEW p \in Pids, p # owner
        PROVE  /\ p \in asked' <=> p \in asked
               /\ p \in stale' <=> p \in stale
               /\ p \in polite' <=> p \in polite
               /\ futile'[p] = futile[p]
      BY <1>1, <1>3, <2>2 DEF CountOnly, AskOwner, KillOwner, KillTypes
  <2>3. ASSUME CanBeAsked(owner)
        PROVE  /\ owner \in asked' => owner \in polite'
               /\ futile'[owner] >= AskAfter => owner \in polite'
    <3>1. clients[owner] = "role" /\ inspected[owner].canStop
        BY <1>1, <1>3, <2>1, <2>3 DEF CanBeAsked, SameProgram
    <3>2. CASE AskOwner
        BY <3>2 DEF AskOwner
    <3>3. CASE KillOwner
        BY <1>1, <2>1, <3>3, EscalationAssumption DEF KillOwner, KillTypes
    <3>4. CASE CountOnly
      <4>1. futile'[owner] = Capped(FutileCount) /\ asked' = asked \ (stale \cap {owner})
            /\ polite' = polite
          BY <1>1, <2>1, <3>4 DEF CountOnly, KillTypes
      <4>2. owner \in asked' => owner \in polite'
          BY <1>1, <2>1, <2>3, <4>1 DEF AskedInTime
      <4>3. CASE owner \in asked \ stale
          BY <1>1, <2>1, <2>3, <4>1, <4>2, <4>3 DEF AskedInTime
      <4>4. CASE owner \notin asked \ stale
        <5>1. FutileCount < AskAfter
            BY <3>1, <3>4, <4>4 DEF CountOnly, IsAbsolute
        <5>2. FutileCount \in Nat
            BY <2>1 DEF FutileCount
        <5>3. QED
            BY <4>1, <4>2, <5>1, <5>2, EscalationAssumption DEF Capped
      <4>5. QED
          BY <4>3, <4>4
    <3>5. QED
        BY <1>3, <3>2, <3>3, <3>4
  <2>4. QED
      BY <1>1, <2>1, <2>2, <2>3 DEF AskedInTime, CanBeAsked
<1>4. QED
    BY <1>2, <1>3 DEF Escalate

\* Every step keeps it, as long as no pid is recycled.
LEMMA StepAskInv ==
    ASSUME MaxRecycled = 0, AskInv, [KillNext]_killVars
    PROVE  AskInv'
<1>1. CASE KillNext
  <2>1. TreeInv'
      BY <1>1, StepTreeInv DEF AskInv
  <2>2. AskedInTime'
    <3>1. CASE Escalate
        BY <3>1, EscalationAsks
    <3>2. CASE \E p \in Pids : LongCalm(p)
        BY <3>2 DEF LongCalm, AskInv, AskedInTime, CanBeAsked
    <3>3. CASE UNCHANGED escalationVars
        BY <3>3 DEF escalationVars, AskInv, AskedInTime, CanBeAsked
    <3>4. QED
        BY <1>1, <3>1, <3>2, <3>3 DEF KillNext, KillStep, BeginKill, Skip, Terminate,
           ForceKill, Choose, Respawn, ProcessExits, Recycle, escalationVars
  <2>3. QED
      BY <1>1, <2>1, <2>2, ProgramsStay, ClientsAreRead DEF AskInv
<1>2. CASE UNCHANGED killVars
  <2>1. TreeInv'
      BY <1>2, StepTreeInv DEF AskInv
  <2>2. QED
      BY <1>2, <2>1 DEF killVars, machineVars, actionVars, escalationVars, AskInv,
         SameProgram, AskedInTime, CanBeAsked
<1>3. QED
    BY <1>1, <1>2

\* Only the escalation kills owners, and it has asked before.
LEMMA StepAsks ==
    ASSUME AskInv, [KillNext]_killVars
    PROVE  [\A v \in victims' \ victims :
             v.how = "owner" /\ v.pid = owner /\ v.was.shield = "role" /\ v.was.canStop
               => owner \in polite]_killVars
<1> SUFFICES ASSUME KillNext, NEW v \in victims' \ victims,
                    v.how = "owner", v.pid = owner, v.was.shield = "role", v.was.canStop
             PROVE  owner \in polite
    BY DEF killVars
<1>1. KillTypes /\ AskedInTime /\ \A p \in Pids : SameProgram(proc, p)
    BY DEF AskInv, TreeInv
<1>2. Escalate /\ KillOwner
  <2>1. CASE Terminate \/ ForceKill
    <3>1. PICK dying \in SUBSET Pids : v \in Victims(dying, kind)
        BY <1>1, <2>1 DEF Terminate, ForceKill, KillTypes
    <3>2. v.how = kind /\ kind \in {"rule", "cap"}
        BY <1>1, <3>1, VictimsTyped DEF KillTypes
    <3>3. QED
        BY <3>2
  <2>2. CASE Escalate
      BY <2>2 DEF Escalate, NoOwner, CountOnly, AskOwner, SpareAll
  <2>3. QED
      BY <2>1, <2>2 DEF KillNext, KillStep, BeginKill, Skip, Choose, Respawn,
         ProcessExits, Recycle, LongCalm, reportVars
<1>3. owner \in Pids
    BY <1>1, <1>2 DEF Escalate, NoOwner, SpareAll, KillTypes
<1>4. v.was = proc[owner]
  <2>1. \E dying \in SUBSET (OwnerTargets \cap alive) : v \in Victims(dying, "owner")
      BY <1>2 DEF KillOwner
  <2>2. QED
      BY <2>1 DEF Victims
<1>5. CanBeAsked(owner)
    BY <1>1, <1>3, <1>4 DEF CanBeAsked, SameProgram
<1>6. owner \notin stale /\ futile[owner] >= AskAfter
    BY <1>1, <1>2, <1>3, EscalationAssumption DEF KillOwner, FutileCount, KillTypes
<1>7. QED
    BY <1>1, <1>3, <1>5, <1>6 DEF AskedInTime

\* An owner that offers a stop channel is killed only after it was asked in the
\* same spell of futile kills.  The code counts futile kills by pid, so the theorem
\* is about machines that do not give a counted owner's pid to another program.
THEOREM OwnersAreAskedFirst ==
    ASSUME MaxRecycled = 0
    PROVE  KillSpec => AskedBeforeKilled
<1>1. AskInv /\ [KillNext]_killVars => AskInv'
    BY StepAskInv
<1>2. AskInv /\ [KillNext]_killVars =>
        [\A v \in victims' \ victims :
             v.how = "owner" /\ v.pid = owner /\ v.was.shield = "role" /\ v.was.canStop
               => owner \in polite]_killVars
    BY StepAsks
<1>3. QED
    BY InitAskInv, <1>1, <1>2, PTL DEF KillSpec, AskedBeforeKilled
=============================================================================
