------------------------ MODULE RestartBudgetProofs ------------------------
(***************************************************************************)
(* The restart budget and the uptime floor hold for every budget, window,   *)
(* floor and pace of the loop, whatever stops and starts the process        *)
(* between two restarts and whatever becomes of the file.                   *)
(***************************************************************************)
EXTENDS RestartBudget, FiniteSetTheorems, TLAPS

Bounds ==
    /\ BudgetN \in Nat
    /\ Window \in Nat \ {0}
    /\ UptimeFloor \in Nat
    /\ SlowestTick \in Nat

\* The restarts the file answers for.
Counted == {a \in exits : a < Window /\ a < flawless}

\* The file holds every restart since it last failed, and no more than the
\* budget in all.
FileInv ==
    /\ Cardinality(past) <= BudgetN
    /\ Counted \subseteq past

\* The floor between two restarts, which a process that runs long enough for
\* the next one has kept already.
FloorInv ==
    /\ RestartsApart
    /\ up => \A a \in exits : a < Window => a >= uptime

IInv == TypeInvariant /\ FileInv /\ FloorInv
-----------------------------------------------------------------------------
\* What is read from the file is no more than what is in it.
LEMMA PartOfPast ==
    ASSUME Bounds, past \subseteq 0..Window, NEW S, S \subseteq past
    PROVE  IsFiniteSet(S) /\ Cardinality(S) \in Nat /\ Cardinality(S) <= Cardinality(past)
<1>1. IsFiniteSet(past)
    <2>1. IsFiniteSet(0..Window)
        BY FS_Interval DEF Bounds
    <2>2. QED
        BY <2>1, FS_Subset
<1>2. QED
    BY <1>1, FS_Subset, FS_CardinalityType

\* Restarts that grow older do not become more.
LEMMA OlderIsNoMore ==
    ASSUME Bounds, past \subseteq 0..Window, NEW d \in 1..SlowestTick
    PROVE  /\ Older(past, d) \subseteq 0..Window
           /\ Cardinality(Older(past, d)) <= Cardinality(past)
<1>1. \A a \in 0..Window : Aged(a, d, Window) \in 0..Window
    BY DEF Bounds, Aged
<1>2. Older(past, d) \subseteq 0..Window
    BY <1>1 DEF Older
<1>3. IsFiniteSet(past)
    BY PartOfPast
<1> DEFINE older == [a \in past |-> Aged(a, d, Window)]
<1>4. older \in Surjection(past, Older(past, d))
    BY DEF Surjection, Older
<1>5. Cardinality(Older(past, d)) <= Cardinality(past)
    BY <1>3, <1>4, FS_Surjection
<1>6. QED
    BY <1>2, <1>5

LEMMA InitIInv == Bounds /\ Init => IInv
<1> SUFFICES ASSUME Bounds, Init PROVE IInv
    OBVIOUS
<1>1. Cardinality(past) = 0
    BY FS_EmptySet DEF Init
<1>2. FileInv
    <2>1. Counted = {}
        BY DEF Init, Counted
    <2>2. QED
        BY <1>1, <2>1 DEF Bounds, FileInv
<1>3. TypeInvariant
    <2>1. past \in SUBSET (0..Window) /\ exits \in SUBSET (0..Window)
        BY DEF Init
    <2>2. Cardinality(past) <= BudgetN
        BY <1>1 DEF Bounds
    <2>3. uptime \in 0..UptimeFloor
        BY DEF Bounds, Init
    <2>4. up \in BOOLEAN /\ wants \in BOOLEAN /\ spent \in BOOLEAN
        BY DEF Init
    <2>5. flawless \in 0..Window
        BY DEF Bounds, Init
    <2>6. QED
        BY <2>1, <2>2, <2>3, <2>4, <2>5 DEF TypeInvariant
<1>4. FloorInv
    BY DEF Init, FloorInv, RestartsApart
<1>5. QED
    BY <1>2, <1>3, <1>4 DEF IInv

\* Time passes: ages grow alike, so what is counted was counted before, and
\* what is apart stays apart.
LEMMA TickKeeps ==
    ASSUME Bounds, IInv, NEW d \in 1..SlowestTick, TickOn(d)
    PROVE  IInv'
<1> USE DEF Bounds, IInv, TypeInvariant
<1>1. past' = Older(past, d) /\ exits' = Older(exits, d) /\ flawless' = Aged(flawless, d, Window)
    BY DEF TickOn
<1>2. past' \in SUBSET (0..Window) /\ Cardinality(past') <= BudgetN
    <2>1. Cardinality(past) \in Nat /\ Cardinality(Older(past, d)) \in Nat
        <3>1. IsFiniteSet(0..Window)
            BY FS_Interval
        <3>2. IsFiniteSet(past) /\ IsFiniteSet(Older(past, d))
            BY <3>1, OlderIsNoMore, FS_Subset
        <3>3. QED
            BY <3>2, FS_CardinalityType
    <2>2. QED
        BY <1>1, <2>1, OlderIsNoMore
<1>3. exits' \in SUBSET (0..Window)
    BY <1>1 DEF Older, Aged
<1>4. flawless' \in 0..Window
    BY <1>1 DEF Aged
<1>5. UNCHANGED <<up, wants, spent>> /\ uptime' = Aged(uptime, d, UptimeFloor)
    BY DEF TickOn
<1>6. uptime' \in 0..UptimeFloor
    BY <1>5 DEF Aged
\* An age below the window is that of a restart seen before, d seconds ago.
<1>7. ASSUME NEW b \in exits', b < Window
      PROVE  b - d \in exits /\ b = Aged(b - d, d, Window) /\ b - d < Window
    <2>1. PICK a \in exits : b = Aged(a, d, Window)
        BY <1>1, <1>7 DEF Older
    <2>2. a \in 0..Window /\ b = a + d
        BY <2>1, <1>7 DEF Aged
    <2>3. b - d = a
        BY <2>2
    <2>4. a < Window
        BY <2>2, <1>7
    <2>5. QED
        BY <2>1, <2>3, <2>4
<1>8. FileInv'
    <2>1. ASSUME NEW b \in Counted' PROVE b \in past'
        <3>1. b \in exits' /\ b < Window /\ b < flawless'
            BY <2>1 DEF Counted
        <3>2. b - d \in exits /\ b = Aged(b - d, d, Window) /\ b - d < Window
            BY <1>7, <3>1
        <3>3. b - d < flawless
            BY <3>1, <3>2, <1>1, b - d \in 0..Window DEF Aged
        <3>4. b - d \in past
            BY <3>2, <3>3 DEF FileInv, Counted
        <3>5. QED
            BY <3>2, <3>4, <1>1 DEF Older
    <2>2. QED
        BY <2>1, <1>2 DEF FileInv
<1>9. FloorInv'
    <2>1. ASSUME NEW a \in exits', NEW b \in exits', a < b, b < Window PROVE b - a >= UptimeFloor
        <3>1. a \in 0..Window /\ b \in 0..Window
            BY <1>3
        <3>2. a < Window
            BY <2>1, <3>1
        <3>3. a - d \in exits /\ b - d \in exits
            BY <1>7, <2>1, <3>2
        <3>4. b - d < Window
            BY <1>7, <2>1
        <3>5. a - d \in 0..Window /\ b - d \in 0..Window /\ a - d < b - d
            BY <3>1, <3>3, <2>1
        <3>6. (b - d) - (a - d) >= UptimeFloor
            BY <3>3, <3>4, <3>5 DEF FloorInv, RestartsApart
        <3>7. QED
            BY <3>1, <3>6
    <2>2. ASSUME up, NEW b \in exits', b < Window PROVE b >= uptime'
        <3>1. b - d \in exits /\ b - d < Window
            BY <1>7, <2>2
        <3>2. b - d \in 0..Window /\ b - d >= uptime
            BY <3>1, <2>2 DEF FloorInv
        <3>3. b \in 0..Window
            BY <1>3, <2>2
        <3>4. QED
            BY <3>2, <3>3, <1>5 DEF Aged
    <2>3. QED
        BY <2>1, <2>2, <1>5 DEF FloorInv, RestartsApart
<1>10. QED
    BY <1>2, <1>3, <1>4, <1>5, <1>6, <1>8, <1>9

\* A restart: the file takes it in or has failed just now, and the process was
\* up for the floor, with no restart since.
LEMMA RestartKeeps == Bounds /\ IInv /\ SelfRestart => IInv'
<1> SUFFICES ASSUME Bounds, IInv, SelfRestart PROVE IInv'
    OBVIOUS
<1> USE DEF Bounds, IInv, TypeInvariant
<1>1. PICK seen \in Readings : RestartAllowed(seen) /\ RecordRestart(seen)
    BY DEF SelfRestart
<1>2. seen \subseteq Recent /\ Recent \subseteq past
    BY DEF Readings, Recent
<1>3. IsFiniteSet(seen) /\ Cardinality(seen) < BudgetN /\ Cardinality(seen) \in Nat
    BY <1>1, <1>2, PartOfPast DEF RestartAllowed
<1>4. past' \in {seen \cup {0}, past, {}}
    BY <1>1 DEF RecordRestart
<1>5. exits' = exits \cup {0} /\ up' = FALSE /\ UNCHANGED <<uptime, wants, spent>>
    BY DEF SelfRestart
<1>6. Cardinality(past') <= BudgetN
    <2>1. CASE past' = seen \cup {0}
        <3>1. Cardinality(seen \cup {0}) \in {Cardinality(seen), Cardinality(seen) + 1}
            BY <1>3, FS_AddElement
        <3>2. QED
            BY <1>3, <2>1, <3>1
    <2>2. CASE past' = past
        BY <2>2
    <2>3. CASE past' = {}
        BY <2>3, FS_EmptySet
    <2>4. QED
        BY <1>4, <2>1, <2>2, <2>3
<1>7. past' \in SUBSET (0..Window) /\ exits' \in SUBSET (0..Window)
    BY <1>2, <1>4, <1>5, 0 \in 0..Window
<1>8. flawless' \in 0..Window
    BY <1>1 DEF RecordRestart
<1>9. Counted' \subseteq past'
    <2>1. CASE seen = Recent /\ past' = seen \cup {0}
        <3>1. flawless' = flawless
            BY <1>1, <2>1 DEF RecordRestart
        <3>2. Counted \subseteq Recent
            BY DEF FileInv, Counted, Recent
        <3>3. Counted' \subseteq Counted \cup {0}
            BY <1>5, <3>1 DEF Counted
        <3>4. QED
            BY <2>1, <3>2, <3>3
    <2>2. CASE ~(seen = Recent /\ past' = seen \cup {0})
        <3>1. flawless' = 0
            BY <1>1, <2>2 DEF RecordRestart
        <3>2. \A a \in exits' : ~(a < flawless')
            BY <1>7, <3>1
        <3>3. Counted' = {a \in exits' : a < Window /\ a < flawless'}
            BY DEF Counted
        <3>4. Counted' = {}
            BY <3>2, <3>3
        <3>5. QED
            BY <3>4
    <2>3. QED
        BY <2>1, <2>2
<1>10. RestartsApart'
    <2>1. ASSUME NEW a \in exits', NEW b \in exits', a < b, b < Window PROVE b - a >= UptimeFloor
        <3>1. a \in 0..Window /\ b \in 0..Window /\ b # 0
            BY <1>7, <2>1
        <3>2. b \in exits
            BY <1>5, <3>1
        <3>3. up /\ uptime >= UptimeFloor
            BY DEF SelfRestart, RestartDue
        <3>4. b >= UptimeFloor
            BY <2>1, <3>1, <3>2, <3>3 DEF FloorInv
        <3>5. CASE a = 0
            BY <3>1, <3>4, <3>5
        <3>6. CASE a \in exits
            BY <2>1, <3>2, <3>6 DEF FloorInv, RestartsApart
        <3>7. QED
            BY <1>5, <3>5, <3>6
    <2>2. QED
        BY <2>1 DEF RestartsApart
<1>11. QED
    BY <1>5, <1>6, <1>7, <1>8, <1>9, <1>10 DEF FileInv, FloorInv

LEMMA StepIInv == Bounds /\ IInv /\ [Next]_vars => IInv'
<1> SUFFICES ASSUME Bounds, IInv, [Next]_vars PROVE IInv'
    OBVIOUS
<1>1. ASSUME NEW d \in 1..SlowestTick, TickOn(d) PROVE IInv'
    BY <1>1, TickKeeps
<1>2. CASE SelfRestart
    BY <1>2, RestartKeeps
<1> USE DEF IInv, TypeInvariant, FileInv, FloorInv, RestartsApart, Counted
<1>3. CASE BudgetSpent
    BY <1>3 DEF BudgetSpent
<1>4. CASE CollectorGivesUp
    BY <1>4 DEF CollectorGivesUp
<1>5. CASE Stop
    BY <1>5 DEF Stop
<1>6. CASE Start
    <2>1. UNCHANGED <<past, exits, flawless>>
        BY <1>6 DEF Start
    <2>2. up' = TRUE /\ uptime' = 0 /\ wants' = FALSE /\ spent' = FALSE
        BY <1>6 DEF Start
    <2>3. TypeInvariant'
        <3>1. uptime' \in 0..UptimeFloor
            BY <2>2 DEF Bounds
        <3>2. Cardinality(past') <= BudgetN
            BY <2>1
        <3>3. QED
            BY <2>1, <2>2, <3>1, <3>2
    <2>4. FloorInv'
        BY <2>1, <2>2
    <2>5. QED
        BY <2>1, <2>3, <2>4
<1>7. CASE UNCHANGED vars
    BY <1>7 DEF vars
<1>8. QED
    BY <1>1, <1>2, <1>3, <1>4, <1>5, <1>6, <1>7 DEF Next, Loop

THEOREM Invariance == Bounds => (Spec => []IInv)
<1> SUFFICES ASSUME Bounds PROVE Spec => []IInv
    OBVIOUS
<1>1. Init => IInv
    BY InitIInv
<1>2. IInv /\ [Next]_vars => IInv'
    BY StepIInv
<1>3. QED
    BY <1>1, <1>2, PTL DEF Spec

LEMMA IInvIsEnough == Bounds /\ IInv => RestartsBounded
<1> SUFFICES ASSUME Bounds, IInv PROVE RestartsBounded
    OBVIOUS
<1>1. /\ Cardinality(Counted) \in Nat /\ Cardinality(Counted) <= Cardinality(past)
      /\ Cardinality(past) \in Nat
    BY PartOfPast DEF IInv, TypeInvariant, FileInv
<1>2. WithinBudget
    BY <1>1 DEF WithinBudget, IInv, FileInv, Bounds, Counted
<1>3. QED
    BY <1>2 DEF RestartsBounded, IInv, FloorInv

\* A broken GPU never crash-loops the watchdog, for every budget, window, floor
\* and pace of the loop: of the restarts since the budget file last failed at
\* most the budget fall in a window, and the file knows them all; and with a
\* file that fails as it likes, two restarts are an uptime floor apart.
THEOREM BudgetHolds == Bounds => (Spec => []RestartsBounded)
<1> SUFFICES ASSUME Bounds PROVE Spec => []RestartsBounded
    OBVIOUS
<1>1. IInv => RestartsBounded
    BY IInvIsEnough
<1>2. QED
    BY <1>1, Invariance, PTL
=============================================================================
