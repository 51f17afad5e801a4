------------------------------ MODULE Recursion ------------------------------
(***************************************************************************)
(* Induction over the natural numbers for a set in place of a predicate,    *)
(* and the existence of a sequence that is defined step by step: what the   *)
(* proofs need of the recursive functions of ProcessTable and Forensics.    *)
(* And how many instants fit into a span when they are a distance apart,    *)
(* and how many there are when each block of the span has one: what the     *)
(* proofs need of the windows of PolicyEngine and the rings of StateMirror. *)
(***************************************************************************)
EXTENDS Integers, FiniteSetTheorems, WellFoundedInduction, TLAPS

\* Every set of naturals that is not empty has a smallest element.
LEMMA Least ==
    ASSUME NEW S \in SUBSET Nat, S # {}
    PROVE  \E m \in S : \A k \in S : m <= k
<1> DEFINE R == OpToRel(<, Nat)
<1>1. IsWellFoundedOn(R, Nat)
    BY NatLessThanWellFounded
<1>2. \A x, y \in Nat : y < x => <<y, x>> \in R
    BY DEF OpToRel
<1> HIDE DEF R
<1>3. PICK x \in S : \A y \in S : <<y, x>> \notin R
    BY <1>1, WFMin
<1>4. \A y \in S : ~(y < x)
    BY <1>2, <1>3
<1>5. \A y \in S : y \in Nat /\ x \in Nat
    OBVIOUS
<1>6. QED
    BY <1>4, <1>5

\* A set that holds 0 and with each number the next one is all of Nat.
LEMMA Induct ==
    ASSUME NEW S \in SUBSET Nat, 0 \in S, \A n \in S : n + 1 \in S
    PROVE  S = Nat
<1> DEFINE T == Nat \ S
<1>1. SUFFICES ASSUME T # {} PROVE FALSE
    OBVIOUS
<1>2. \E m \in T : \A k \in T : m <= k
  <2>1. T \in SUBSET Nat
      OBVIOUS
  <2> HIDE DEF T
  <2>2. QED
      BY <1>1, <2>1, Least
<1>3. PICK m \in T : \A k \in T : m <= k
    BY <1>2
<1>4. m # 0 /\ m - 1 \in Nat /\ m - 1 \notin T
    BY <1>3
<1>5. QED
    BY <1>4

\* g is what N steps from start make of it, the n-th by F[n].
Iterates(g, F, start, N, X) ==
    /\ g \in [0..N -> X]
    /\ g[0] = start
    /\ \A n \in 1..N : g[n] = F[n][g[n - 1]]

\* From any start, any number of steps, each by the function of its number,
\* can be taken one after the other.
LEMMA StepByStep ==
    ASSUME NEW X, NEW F \in [Nat -> [X -> X]], NEW start \in X, NEW N \in Nat
    PROVE  \E g : Iterates(g, F, start, N, X)
<1> DEFINE Taken(g, n) == /\ g \in [0..n -> X] /\ g[0] = start
                          /\ \A i \in 1..n : g[i] = F[i][g[i - 1]]
           S == {n \in Nat : \E g : Taken(g, n)}
<1>1. 0 \in S
  <2>1. Taken([i \in 0..0 |-> start], 0)
      OBVIOUS
  <2>2. QED
      BY <2>1
<1>2. ASSUME NEW n \in S PROVE n + 1 \in S
  <2>1. PICK g : Taken(g, n)
      OBVIOUS
  <2> DEFINE h == [i \in 0..(n + 1) |-> IF i = n + 1 THEN F[n + 1][g[n]] ELSE g[i]]
  <2>2. n \in Nat /\ n \in 0..n /\ g[n] \in X /\ F[n + 1] \in [X -> X]
      BY <2>1
  <2>3. h \in [0..(n + 1) -> X]
    <3>1. ASSUME NEW i \in 0..(n + 1) PROVE (IF i = n + 1 THEN F[n + 1][g[n]] ELSE g[i]) \in X
        BY <2>1, <2>2
    <3>2. QED
        BY <3>1
  <2>4. h[0] = start
      BY <2>1, <2>2
  <2>5. ASSUME NEW i \in 1..(n + 1) PROVE h[i] = F[i][h[i - 1]]
    <3>1. h[i - 1] = g[i - 1]
        BY <2>2
    <3>2. CASE i = n + 1
        BY <3>1, <3>2, <2>2
    <3>3. CASE i # n + 1
        BY <3>1, <3>3, <2>1, <2>2
    <3>4. QED
        BY <3>2, <3>3
  <2>6. Taken(h, n + 1)
      BY <2>3, <2>4, <2>5
  <2>7. \E k : Taken(k, n + 1)
    <3> HIDE DEF h, Taken
    <3>1. QED
        BY <2>6
  <2>8. QED
      BY <2>2, <2>7
<1>3. S = Nat
  <2>1. S \in SUBSET Nat
      OBVIOUS
  <2> HIDE DEF S
  <2>2. QED
      BY <1>1, <1>2, <2>1, Induct
<1>4. PICK g : Taken(g, N)
    BY <1>3
<1>5. QED
    BY <1>4 DEF Iterates
-----------------------------------------------------------------------------
LEMMA DivFacts ==
    ASSUME NEW x \in Nat, NEW d \in Nat \ {0}
    PROVE  /\ x \div d \in Nat
           /\ (x \div d) * d <= x
           /\ x < (x \div d) * d + d
OBVIOUS

LEMMA ProductGrows ==
    ASSUME NEW a \in Nat, NEW b \in Nat, NEW c \in Nat, a <= b
    PROVE  a * c <= b * c /\ c * a <= c * b
OBVIOUS

LEMMA ProductIsNat ==
    ASSUME NEW a \in Nat, NEW b \in Nat
    PROVE  a * b \in Nat
OBVIOUS

\* Instants of a span that are d apart are few: one more than d fits into it.
LEMMA SpacedAreFew ==
    ASSUME NEW lo \in Int, NEW hi \in Int, NEW d \in Nat \ {0},
           NEW T \in SUBSET (lo..hi), T # {},
           \A x, y \in T : x < y => y - x >= d
    PROVE  /\ IsFiniteSet(T)
           /\ Cardinality(T) \in Nat
           /\ (Cardinality(T) - 1) * d <= hi - lo
<1> DEFINE N == (hi - lo) \div d
           block == [x \in T |-> (x - lo) \div d]
<1>1. hi - lo \in Nat
  <2>1. PICK x \in T : x \in lo..hi
      OBVIOUS
  <2>2. QED
      BY <2>1
<1>2. N \in Nat /\ N * d <= hi - lo
    BY <1>1, DivFacts
<1>3. ASSUME NEW x \in T
      PROVE  /\ x \in Int /\ x - lo \in Nat /\ x - lo <= hi - lo
             /\ block[x] \in Nat
             /\ block[x] * d <= x - lo
             /\ x - lo < block[x] * d + d
  <2>1. x \in Int /\ x - lo \in Nat /\ x - lo <= hi - lo
      OBVIOUS
  <2>2. block[x] = (x - lo) \div d
      OBVIOUS
  <2>3. QED
      BY <2>1, <2>2, DivFacts
<1>4. ASSUME NEW x \in T PROVE block[x] \in 0..N
  <2> DEFINE k == block[x]
  <2>1. k \in Nat /\ k * d <= hi - lo
    <3>1. k * d \in Nat
        BY <1>3, ProductIsNat
    <3>2. QED
        BY <1>1, <1>3, <3>1
  <2>2. ASSUME k > N PROVE FALSE
    <3>1. N + 1 \in Nat /\ N + 1 <= k
        BY <1>2, <2>1, <2>2
    <3>2. (N + 1) * d <= k * d
        BY <2>1, <3>1, ProductGrows
    <3>3. (N + 1) * d = N * d + d
        BY <1>2
    <3>4. hi - lo < N * d + d
        BY <1>1, DivFacts
    <3>5. k * d \in Nat /\ N * d \in Nat
        BY <1>2, <2>1, ProductIsNat
    <3> HIDE DEF k, N
    <3>6. QED
        BY <1>1, <2>1, <3>2, <3>3, <3>4, <3>5
  <2> HIDE DEF k, N
  <2>3. k \in 0..N
      BY <1>2, <2>1, <2>2
  <2>4. QED
      BY <2>3 DEF k
<1>5. ASSUME NEW x \in T, NEW y \in T, x # y PROVE block[x] # block[y]
  <2>1. SUFFICES ASSUME NEW u \in T, NEW v \in T, u < v, block[u] = block[v] PROVE FALSE
      BY <1>3, <1>5
  <2>2. v - u >= d
      BY <2>1
  <2>3. block[u] * d \in Nat
      BY <1>3, ProductIsNat
  <2> HIDE DEF block
  <2>4. QED
      BY <1>3, <2>1, <2>2, <2>3
<1>6. block \in Injection(T, 0..N)
  <2>1. block \in [T -> 0..N]
      BY <1>4
  <2> HIDE DEF block, N
  <2>2. QED
      BY <1>5, <2>1 DEF Injection, IsInjective
<1>7. IsFiniteSet(0..N) /\ Cardinality(0..N) = N + 1
  <2> HIDE DEF N
  <2>1. 0 \in Int /\ N \in Int /\ ~(0 > N)
      BY <1>2
  <2>2. IsFiniteSet(0..N) /\ Cardinality(0..N) = N - 0 + 1
      BY <2>1, FS_Interval, Zenon
  <2>3. QED
      BY <1>2, <2>2
<1>8. IsFiniteSet(T) /\ Cardinality(T) <= N + 1
  <2> HIDE DEF block, N
  <2>1. QED
      BY <1>6, <1>7, FS_Injection
<1>9. Cardinality(T) \in Nat /\ Cardinality(T) # 0
    BY <1>8, FS_CardinalityType, FS_EmptySet
<1>10. (Cardinality(T) - 1) * d <= N * d
  <2> HIDE DEF N
  <2>1. Cardinality(T) - 1 \in Nat /\ Cardinality(T) - 1 <= N
      BY <1>2, <1>8, <1>9
  <2>2. QED
      BY <1>2, <2>1, ProductGrows
<1>11. (Cardinality(T) - 1) * d \in Nat /\ N * d \in Nat
    BY <1>2, <1>9, ProductIsNat
<1> HIDE DEF N
<1>12. QED
    BY <1>1, <1>2, <1>8, <1>9, <1>10, <1>11
\* When each of K blocks of g before the last instant has one, there are more
\* than K of them.
LEMMA FilledAreMany ==
    ASSUME NEW g \in Nat \ {0}, NEW K \in Nat,
           NEW T \in SUBSET Int, IsFiniteSet(T), NEW last \in T,
           \A k \in 1..K : \E x \in T : last - g * k <= x /\ x < last - g * (k - 1)
    PROVE  /\ Cardinality(T) \in Nat
           /\ K + 1 <= Cardinality(T)
<1> DEFINE InBlock(x, k) == last - g * k <= x /\ x < last - g * (k - 1)
           pick == [k \in 0..K |-> IF k = 0 THEN last ELSE CHOOSE x \in T : InBlock(x, k)]
<1>1. ASSUME NEW k \in 1..K PROVE pick[k] \in T /\ InBlock(pick[k], k)
  <2>1. pick[k] = CHOOSE x \in T : InBlock(x, k)
      OBVIOUS
  <2>2. \E x \in T : InBlock(x, k)
      OBVIOUS
  <2> HIDE DEF InBlock, pick
  <2>3. QED
      BY <2>1, <2>2
<1>2. pick[0] = last
    OBVIOUS
<1>3. pick \in [0..K -> T]
  <2>1. ASSUME NEW k \in 0..K PROVE pick[k] \in T
    <3>1. k = 0 \/ k \in 1..K
        OBVIOUS
    <3> HIDE DEF pick
    <3>2. QED
        BY <1>1, <1>2, <3>1
  <2>2. pick = [k \in 0..K |-> pick[k]]
      OBVIOUS
  <2> HIDE DEF pick
  <2>3. QED
      BY <2>1, <2>2
<1>4. ASSUME NEW j \in 0..K, NEW k \in 0..K, j < k PROVE pick[k] < pick[j]
  <2>1. k \in 1..K /\ j \in Nat /\ k - 1 \in Nat /\ j <= k - 1
      BY <1>4
  <2>2. g * j <= g * (k - 1)
    <3>1. j * g <= (k - 1) * g
        BY <2>1, ProductGrows
    <3>2. j * g = g * j /\ (k - 1) * g = g * (k - 1)
        BY <2>1
    <3>3. QED
        BY <3>1, <3>2
  <2>3. g * j \in Nat /\ g * (k - 1) \in Nat
      BY <2>1, ProductIsNat
  <2>4. pick[k] \in Int /\ pick[k] < last - g * (k - 1)
      BY <1>1, <2>1
  <2>5. pick[j] \in Int /\ last - g * j <= pick[j]
    <3>1. CASE j = 0
        BY <1>2, <2>3, <3>1
    <3>2. CASE j # 0
      <4>1. j \in 1..K
          BY <3>2, <2>1
      <4>2. QED
          BY <4>1, <1>1
    <3>3. QED
        BY <3>1, <3>2
  <2> HIDE DEF pick
  <2>6. QED
      BY <2>2, <2>3, <2>4, <2>5
<1> HIDE DEF pick
<1>5. ASSUME NEW j \in 0..K, NEW k \in 0..K, j # k PROVE pick[j] # pick[k]
  <2>1. pick[j] \in Int /\ pick[k] \in Int
      BY <1>3
  <2>2. QED
      BY <1>4, <1>5, <2>1
<1>6. pick \in Injection(0..K, T)
    BY <1>3, <1>5 DEF Injection, IsInjective
<1>7. Cardinality(0..K) = K + 1
  <2>1. 0 \in Int /\ K \in Int /\ ~(0 > K)
      OBVIOUS
  <2>2. Cardinality(0..K) = K - 0 + 1
      BY <2>1, FS_Interval, Zenon
  <2>3. QED
      BY <2>2
<1>8. QED
    BY <1>6, <1>7, FS_Injection, FS_CardinalityType
=============================================================================
