---------------------------- MODULE EngineProofs ----------------------------
(***************************************************************************)
(* Proofs about EnginePromises, for every rule table, reading, gap between  *)
(* ticks and pause.  The inductive invariant ties the engine's bookkeeping  *)
(* to the history: the cooldown deadline to the last action, the starvation *)
(* reference to the last reading, and the dose between the heat of the      *)
(* current hot run and all the heat measured since the last action.         *)
(***************************************************************************)
EXTENDS EnginePromises, Recursion

LEMMA ConfigFields ==
    ASSUME NEW r \in Rules
    PROVE  /\ Config[r].signal \in Signals
           /\ Config[r].action \in {"log", "throttle", "kill"}
           /\ Config[r].threshold \in Nat
           /\ Config[r].cooldown \in Nat
           /\ Config[r].isDose \in BOOLEAN
           /\ Config[r].budget \in Nat \ {0}
           /\ Config[r].drain \in Nat
BY ConfigAssumption DEF RuleConfig

LEMMA ReadingIsNat ==
    ASSUME NEW r \in Rules, NEW samples \in SampleSets, GotSample(r, samples)
    PROVE  Reading(r, samples) \in Nat
<1>1. PICK S \in SUBSET Signals : samples \in [S -> Values]
  BY DEF SampleSets
<1>2. samples[Config[r].signal] \in Values
  BY <1>1 DEF GotSample
<1>3. QED
  BY <1>2, BoundsAssumption DEF Reading

\* A tick acts for exactly the rules that fire.
LEMMA ActsIffFires ==
    ASSUME NEW samples, NEW t, NEW r \in Rules,
           actions' = TickActions(samples, t)
    PROVE  Acts(r) <=> Fires(r, samples, t)
<1>1. ASSUME Acts(r) PROVE Fires(r, samples, t)
  <2>1. PICK a \in TickActions(samples, t) : a.rule = r /\ ~a.warning
    BY <1>1 DEF Acts
  <2>2. PICK q \in {p \in Rules : Fires(p, samples, t)} :
             a = [rule |-> q, kind |-> Config[q].action, warning |-> FALSE]
    BY <2>1 DEF TickActions
  <2>3. QED  BY <2>1, <2>2
<1>2. ASSUME Fires(r, samples, t) PROVE Acts(r)
  <2> DEFINE a == [rule |-> r, kind |-> Config[r].action, warning |-> FALSE]
  <2>1. a \in TickActions(samples, t)
    BY <1>2 DEF TickActions
  <2>2. a.rule = r /\ ~a.warning
    OBVIOUS
  <2>3. QED  BY <2>1, <2>2 DEF Acts
<1>3. QED  BY <1>1, <1>2

\* One reading leaves the dose a natural number.
LEMMA DoseIsNat ==
    ASSUME NEW r \in Rules, NEW v \in Nat, NEW t \in Nat,
           dose[r] \in Nat, doseAt[r] \in Nat \cup {Never}, doseAt[r] <= t
    PROVE  /\ DoseDt(r, t) \in Nat
           /\ DoseAfterReading(r, v, t) \in Nat
<1>1. DoseDt(r, t) \in Nat
  BY DEF DoseDt, Never
<1>2. Config[r].drain * DoseDt(r, t) \in Nat
  BY <1>1, ConfigFields, ProductIsNat
<1>3. ASSUME IsOver(r, v) PROVE (v - Config[r].threshold) * DoseDt(r, t) \in Nat
  <2>1. v - Config[r].threshold \in Nat
    BY <1>3, ConfigFields DEF IsOver
  <2>2. QED  BY <2>1, <1>1, ProductIsNat
<1>4. QED
  BY <1>1, <1>2, <1>3 DEF DoseAfterReading, MaxOf
-----------------------------------------------------------------------------
THEOREM InitIInv == Init => IInv
<1> SUFFICES ASSUME Init PROVE IInv
  OBVIOUS
<1> USE DEF Init, EngineInit, HistoryInit, Never
<1>1. TypeInvariant
  <2>1. TypeOK
    BY DEF TypeOK
  <2>2. HistoryTypeOK
    BY ConfigFields DEF HistoryTypeOK
  <2>3. QED  BY <2>1, <2>2 DEF TypeInvariant
<1>2. ClockInv
  BY DEF ClockInv
<1>3. CooldownInv
  BY DEF CooldownInv
<1>4. StarvedExactly
  BY DEF StarvedExactly
<1>5. HeatInv /\ HeatIsPaidFor
  BY ConfigFields DEF HeatInv, HeatIsPaidFor, DoseRules
<1>6. HeatIsNotForgiven
  BY ConfigFields DEF HeatIsNotForgiven, DoseRules
<1>7. QED
  BY <1>1, <1>2, <1>3, <1>4, <1>5, <1>6 DEF IInv

\* The types survive a tick.
LEMMA TickType ==
    ASSUME IInv, NEW t \in Nat, t > now, NEW samples \in SampleSets,
           TickAt(t, samples), Observe(samples, t)
    PROVE  TypeInvariant'
<1> USE DEF IInv, TypeInvariant, TypeOK, HistoryTypeOK, ClockInv
<1>1. now' \in Nat /\ firstTickAt' \in Nat \cup {Never} /\ lastTickAt' \in Nat \cup {Never}
  BY DEF TickAt
<1>2. window' \in [Rules -> SUBSET SampleType]
  <2>1. ASSUME NEW r \in Rules PROVE NewWindow(r, samples, t) \subseteq SampleType
    <3>1. GotSample(r, samples) =>
            [at |-> t, value |-> Reading(r, samples)] \in SampleType
      BY ReadingIsNat DEF SampleType
    <3>2. window[r] \subseteq SampleType
      OBVIOUS
    <3>3. \A w \in SUBSET SampleType : Evict(r, w, t) \subseteq SampleType
      BY DEF Evict
    <3>4. QED  BY <3>1, <3>2, <3>3 DEF NewWindow
  <2>2. QED  BY <2>1 DEF TickAt
<1>3. verdict' \in [Rules -> {"INSUFFICIENT", "BELOW", "TRIGGER", "DOSING"}]
  <2>1. ASSUME NEW r \in Rules
        PROVE  NewVerdict(r, samples, t) \in {"INSUFFICIENT", "BELOW", "TRIGGER", "DOSING"}
    <3>1. verdict[r] \in {"INSUFFICIENT", "BELOW", "TRIGGER", "DOSING"}
      OBVIOUS
    <3>2. \A w, i : Evaluate(r, w, t, i) \in {"INSUFFICIENT", "BELOW", "TRIGGER"}
      BY DEF Evaluate
    <3>3. \A d : DoseVerdict(r, d) \in {"BELOW", "TRIGGER", "DOSING"}
      BY DEF DoseVerdict
    <3>4. QED  BY <3>1, <3>2, <3>3 DEF NewVerdict
  <2>2. QED  BY <2>1 DEF TickAt
<1>4. cooldownUntil' \in [Rules -> Nat]
  BY ConfigFields DEF TickAt
<1>5. lastSampleAt' \in [Rules -> Nat \cup {Never}] /\ starved' \in [Rules -> BOOLEAN]
  BY DEF TickAt, TrackStarvation, IsStarved
<1>6. changes' \in [Rules -> Seq({"starved", "recovered"})]
  BY DEF TickAt, TrackStarvation
<1>7. /\ dose' \in [Rules -> Nat]
      /\ doseAt' \in [Rules -> Nat \cup {Never}]
      /\ doseWarned' \in [Rules -> BOOLEAN]
  <2>1. ASSUME NEW r \in Rules, IsDose(r), GotSample(r, samples)
        PROVE  DoseLeft(r, samples, t) \in Nat
    <3>1. doseAt[r] \in Nat \cup {Never} /\ doseAt[r] <= t /\ dose[r] \in Nat
      BY <2>1 DEF Never
    <3>2. DoseAfterReading(r, Reading(r, samples), t) \in Nat
      BY <2>1, <3>1, DoseIsNat, ReadingIsNat
    <3>3. QED  BY <3>2 DEF DoseLeft
  <2>2. \A r \in Rules : WarnedLeft(r, samples, t) \in BOOLEAN
    BY DEF WarnedLeft
  <2>3. QED  BY <2>1, <2>2 DEF TickAt, TickDose
<1>8. tickInterval' \in Nat
  <2>1. ASSUME lastTickAt # Never, t - lastTickAt > 0
        PROVE  (t - lastTickAt) * Scale \in Nat
    <3>1. t - lastTickAt \in Nat /\ Scale \in Nat
      BY <2>1, BoundsAssumption DEF Never
    <3>2. QED  BY <3>1, ProductIsNat
  <2>2. QED  BY <2>1 DEF TickAt, NextInterval
<1>9. unable' \subseteq Rules /\ pausedUntil' \in Nat
  BY DEF TickAt
<1>10. actions' \subseteq ActionType
  <2>1. ASSUME NEW a \in TickActions(samples, t) PROVE a \in ActionType
    <3>1. PICK r \in Rules :
             \/ a = [rule |-> r, kind |-> Config[r].action, warning |-> FALSE]
             \/ a = [rule |-> r, kind |-> "log", warning |-> TRUE]
      BY <2>1 DEF TickActions
    <3>2. Config[r].action \in {"log", "throttle", "kill"}
      BY ConfigFields
    <3>3. CASE a = [rule |-> r, kind |-> Config[r].action, warning |-> FALSE]
      BY <3>2, <3>3 DEF ActionType
    <3>4. CASE a = [rule |-> r, kind |-> "log", warning |-> TRUE]
      BY <3>4 DEF ActionType
    <3>5. QED  BY <3>1, <3>3, <3>4
  <2>2. QED  BY <2>1 DEF TickAt
<1>11. HistoryTypeOK'
  <2>1. ASSUME NEW r \in Rules PROVE HeatGained(r, samples, t) \in Nat
    <3>1. CASE IsHot(r, samples) /\ Covers(r, t)
      <4>1. Reading(r, samples) - Config[r].threshold \in Nat
        BY <3>1, ReadingIsNat, ConfigFields DEF IsHot
      <4>2. t - readAt[r] \in Nat
        BY <3>1 DEF Covers
      <4>3. QED  BY <3>1, <4>1, <4>2, ProductIsNat DEF HeatGained
    <3>2. CASE ~(IsHot(r, samples) /\ Covers(r, t))
      BY <3>2 DEF HeatGained
    <3>3. QED  BY <3>1, <3>2
  <2>2. /\ lastFired' \in [Rules -> Nat \cup {Never}]
        /\ hotSince' \in [Rules -> Nat \cup {Never}]
        /\ readAt' \in [Rules -> Nat \cup {Never}]
    BY DEF Observe
  <2>3. /\ measured' \in [Rules -> Nat]
        /\ hotHeat' \in [Rules -> Nat]
        /\ paid' \in [Rules -> Nat]
    BY <2>1 DEF Observe
  <2>4. warnings' \in [Rules -> Nat] /\ announced' \in [Rules -> BOOLEAN]
    <3>1. warnings' \in [Rules -> Nat]
      BY DEF Observe
    <3>2. \A r \in Rules : (warnings[r] > 0) \in BOOLEAN
      OBVIOUS
    <3>3. \A r \in Rules : (IF Acts(r) THEN warnings[r] > 0 ELSE announced[r]) \in BOOLEAN
      BY <3>2, Zenon
    <3>4. announced' = [r \in Rules |-> IF Acts(r) THEN warnings[r] > 0 ELSE announced[r]]
      BY DEF Observe
    <3>5. QED  BY <3>1, <3>3, <3>4, Zenon
  <2>5. /\ step' \in Nat
        /\ heldBack' \in BOOLEAN
        /\ logged' \in [Rules -> {"starved", "recovered"}]
    <3>1. step' \in Nat
      BY DEF Observe
    <3>2. heldBack' \in BOOLEAN
      BY DEF Observe
    <3>3. QED  BY <3>1, <3>2 DEF Observe
  <2>6. QED  BY <2>2, <2>3, <2>4, <2>5
<1>12. QED
  BY <1>1, <1>2, <1>3, <1>4, <1>5, <1>6, <1>7, <1>8, <1>9, <1>10, <1>11

\* The engine keeps the instants of the last reading and of the first tick.
LEMMA TickClock ==
    ASSUME IInv, NEW t \in Nat, t > now, NEW samples \in SampleSets,
           TickAt(t, samples), Observe(samples, t)
    PROVE  ClockInv'
<1> USE DEF IInv, TypeInvariant, TypeOK, HistoryTypeOK, ClockInv
<1>1. lastSampleAt' = readAt'
  BY DEF TickAt, TrackStarvation, Observe
<1>2. now' = t /\ firstTickAt' <= t /\ firstTickAt' # Never
  BY DEF TickAt, Never
<1>3. ASSUME NEW r \in Rules
      PROVE  readAt'[r] <= t /\ (IsDose(r) => doseAt'[r] = readAt'[r])
  <2>1. readAt'[r] = IF GotSample(r, samples) THEN t ELSE readAt[r]
    BY DEF Observe
  <2>2. doseAt'[r] = IF IsDose(r) /\ GotSample(r, samples) THEN t ELSE doseAt[r]
    BY DEF TickAt, TickDose
  <2>3. readAt[r] <= now /\ (IsDose(r) => doseAt[r] = readAt[r])
    OBVIOUS
  <2>4. QED  BY <2>1, <2>2, <2>3 DEF Never
<1>4. QED  BY <1>1, <1>2, <1>3

\* The deadline of a rule that fires is set from this tick, and a rule fires
\* only past the deadline of its previous action.
LEMMA TickCooldown ==
    ASSUME IInv, NEW t \in Nat, t > now, NEW samples \in SampleSets,
           TickAt(t, samples), Observe(samples, t)
    PROVE  /\ CooldownInv'
           /\ \A r \in Rules :
                lastFired[r] # Never /\ lastFired'[r] # lastFired[r]
                   => lastFired'[r] >= lastFired[r] + Config[r].cooldown
<1> SUFFICES ASSUME NEW r \in Rules
             PROVE  /\ cooldownUntil'[r] = IF lastFired'[r] = Never THEN 0
                                           ELSE lastFired'[r] + Config[r].cooldown
                    /\ lastFired[r] # Never /\ lastFired'[r] # lastFired[r]
                         => lastFired'[r] >= lastFired[r] + Config[r].cooldown
  BY DEF CooldownInv
<1>1. Acts(r) <=> Fires(r, samples, t)
  BY ActsIffFires DEF TickAt
<1>2. /\ cooldownUntil'[r] = IF Fires(r, samples, t) THEN t + Config[r].cooldown
                             ELSE cooldownUntil[r]
      /\ lastFired'[r] = IF Acts(r) THEN t ELSE lastFired[r]
  BY DEF TickAt, Observe
<1>3. cooldownUntil[r] = IF lastFired[r] = Never THEN 0
                         ELSE lastFired[r] + Config[r].cooldown
  BY DEF IInv, CooldownInv
<1>4. Fires(r, samples, t) => t >= cooldownUntil[r]
  BY DEF Fires
<1>5. t # Never
  BY DEF Never
<1>6. QED  BY <1>1, <1>2, <1>3, <1>4, <1>5

\* A rule is starved after a tick exactly when it has been silent long enough.
LEMMA TickStarvation ==
    ASSUME IInv, NEW t \in Nat, t > now, NEW samples \in SampleSets,
           TickAt(t, samples), Observe(samples, t)
    PROVE  StarvedExactly'
<1> USE DEF IInv, TypeInvariant, TypeOK, HistoryTypeOK, ClockInv
<1> SUFFICES ASSUME NEW r \in Rules
             PROVE  starved'[r] <=>
                      /\ firstTickAt' # Never
                      /\ now' - (IF readAt'[r] = Never THEN firstTickAt' ELSE readAt'[r])
                            >= StarvationAfter
  BY DEF StarvedExactly
<1>1. /\ now' = t
      /\ firstTickAt' = IF firstTickAt = Never THEN t ELSE firstTickAt
      /\ readAt'[r] = IF GotSample(r, samples) THEN t ELSE readAt[r]
      /\ starved'[r] = IsStarved(r, samples, t)
  BY DEF TickAt, Observe, TrackStarvation
<1>2. StarvationAfter \in Nat /\ StarvationAfter > 0
  BY BoundsAssumption
<1>3. starved[r] <=>
        /\ firstTickAt # Never
        /\ now - (IF readAt[r] = Never THEN firstTickAt ELSE readAt[r]) >= StarvationAfter
  BY DEF StarvedExactly
<1>4. CASE GotSample(r, samples)
  BY <1>1, <1>2, <1>4 DEF IsStarved, Never
<1>5. CASE ~GotSample(r, samples)
  <2>1. lastSampleAt[r] = readAt[r] /\ (readAt[r] # Never => firstTickAt # Never)
    OBVIOUS
  <2>2. SilentFor(r, t) >= StarvationAfter
          <=> /\ firstTickAt' # Never
              /\ t - (IF readAt[r] = Never THEN firstTickAt' ELSE readAt[r]) >= StarvationAfter
    BY <1>1, <1>2, <2>1 DEF SilentFor, Never
  <2>3. starved[r] => SilentFor(r, t) >= StarvationAfter
    BY <1>3, <1>2, <2>1 DEF SilentFor, Never
  <2>4. starved'[r] <=> SilentFor(r, t) >= StarvationAfter
    BY <1>1, <1>5, <2>3 DEF IsStarved
  <2>5. QED  BY <1>1, <1>5, <2>2, <2>4
<1>6. QED  BY <1>4, <1>5

\* Heat is a natural number, and a hot reading that covers its gap adds
\* exactly its heat to the dose; any other reading adds nothing.
LEMMA HeatOfReading ==
    ASSUME IInv, NEW t \in Nat, t > now, NEW samples \in SampleSets,
           NEW r \in Rules, IsDose(r), GotSample(r, samples)
    PROVE  LET g == HeatGained(r, samples, t)
               d == DoseAfterReading(r, Reading(r, samples), t)
           IN  /\ g \in Nat
               /\ d \in Nat
               /\ d <= dose[r] + g
               /\ IsHot(r, samples) /\ Covers(r, t) => d = dose[r] + g
<1> USE DEF IInv, TypeInvariant, TypeOK, HistoryTypeOK, ClockInv
<1> DEFINE v == Reading(r, samples)
           dt == DoseDt(r, t)
           d == DoseAfterReading(r, v, t)
<1>1. v \in Nat /\ Config[r].threshold \in Nat /\ Config[r].drain \in Nat
  BY ReadingIsNat, ConfigFields
<1>2. doseAt[r] = readAt[r] /\ readAt[r] <= t /\ dose[r] \in Nat
  <2>1. readAt[r] \in Nat \cup {Never} /\ readAt[r] <= now /\ now \in Nat
    OBVIOUS
  <2>2. readAt[r] <= t
    BY <2>1 DEF Never
  <2>3. QED  BY <2>2
<1>3. dt \in Nat /\ d \in Nat
  BY <1>1, <1>2, DoseIsNat
<1>4. Config[r].drain * dt \in Nat
  BY <1>1, <1>3, ProductIsNat
<1>5. IsHot(r, samples) <=> IsOver(r, v)
  BY DEF IsHot, IsOver
<1>6. CASE IsHot(r, samples) /\ Covers(r, t)
  <2>1. dt = t - readAt[r] /\ dt <= DoseMaxGap
    BY <1>2, <1>6 DEF Covers, DoseDt
  <2>2. d = dose[r] + (v - Config[r].threshold) * dt
    BY <2>1, <1>5, <1>6, <1>3, BoundsAssumption DEF DoseAfterReading
  <2>3. HeatGained(r, samples, t) = (v - Config[r].threshold) * dt
    BY <2>1, <1>6 DEF HeatGained
  <2>4. v - Config[r].threshold \in Nat
    BY <1>1, <1>6 DEF IsHot
  <2>5. (v - Config[r].threshold) * dt \in Nat
    BY <2>4, <1>3, ProductIsNat
  <2>6. QED  BY <2>2, <2>3, <2>5, <1>2, <1>3
<1>7. CASE ~(IsHot(r, samples) /\ Covers(r, t))
  <2>1. HeatGained(r, samples, t) = 0
    BY <1>7 DEF HeatGained
  <2>2. d <= dose[r]
    <3>1. CASE dt > DoseMaxGap \/ ~IsOver(r, v)
      BY <3>1, <1>2, <1>4 DEF DoseAfterReading, MaxOf
    <3>2. CASE ~(dt > DoseMaxGap \/ ~IsOver(r, v))
      <4>1. ~Covers(r, t)
        BY <3>2, <1>5, <1>7
      <4>2. readAt[r] = Never
        BY <4>1, <3>2, <1>2, <1>3, BoundsAssumption DEF Covers, DoseDt
      <4>3. dt = 0
        BY <4>2, <1>2 DEF DoseDt
      <4>4. (v - Config[r].threshold) * dt = 0
        BY <4>3, <1>1
      <4>5. QED  BY <4>4, <3>2, <1>2 DEF DoseAfterReading
    <3>3. QED  BY <3>1, <3>2
  <2>3. QED  BY <2>1, <2>2, <1>2, <1>3, <1>7
<1>8. QED  BY <1>6, <1>7

\* The dose stays between the unbroken heat and all the heat, every action
\* was paid for, and a full budget of unbroken heat has made the rule act.
LEMMA TickHeat ==
    ASSUME IInv, NEW t \in Nat, t > now, NEW samples \in SampleSets,
           TickAt(t, samples), Observe(samples, t), TypeInvariant'
    PROVE  HeatInv' /\ HeatIsPaidFor' /\ HeatIsNotForgiven'
<1> SUFFICES ASSUME NEW r \in Rules, IsDose(r)
             PROVE  /\ dose'[r] <= measured'[r]
                    /\ hotHeat'[r] <= dose'[r]
                    /\ paid'[r] >= Config[r].budget
                    /\ hotHeat'[r] >= Config[r].budget /\ readAt'[r] = now'
                         => \/ lastFired'[r] # Never
                               /\ now' < lastFired'[r] + Config[r].cooldown
                            \/ heldBack'
  BY DEF HeatInv, HeatIsPaidFor, HeatIsNotForgiven, DoseRules
<1> DEFINE g == HeatGained(r, samples, t)
           d == DoseAfterReading(r, Reading(r, samples), t)
<1>1. Acts(r) <=> Fires(r, samples, t)
  BY ActsIffFires DEF TickAt
<1>2. /\ dose[r] <= measured[r]
      /\ hotHeat[r] <= dose[r]
      /\ paid[r] >= Config[r].budget
  BY DEF IInv, HeatInv, HeatIsPaidFor, DoseRules
<1>3. /\ Config[r].budget \in Nat /\ Config[r].budget > 0
      /\ Config[r].cooldown \in Nat
      /\ dose[r] \in Nat /\ measured[r] \in Nat /\ hotHeat[r] \in Nat /\ paid[r] \in Nat
      /\ cooldownUntil[r] \in Nat /\ pausedUntil \in Nat
      /\ lastFired[r] \in Nat \cup {Never}
  <2>1. Config[r].budget \in Nat /\ Config[r].budget > 0 /\ Config[r].cooldown \in Nat
    BY ConfigFields
  <2>2. dose[r] \in Nat /\ cooldownUntil[r] \in Nat /\ pausedUntil \in Nat
    BY DEF IInv, TypeInvariant, TypeOK
  <2>3. /\ measured[r] \in Nat /\ hotHeat[r] \in Nat /\ paid[r] \in Nat
        /\ lastFired[r] \in Nat \cup {Never}
    BY DEF IInv, TypeInvariant, HistoryTypeOK
  <2>4. QED  BY <2>1, <2>2, <2>3
<1>4. /\ measured'[r] = IF Acts(r) THEN 0 ELSE measured[r] + g
      /\ hotHeat'[r] = IF \/ Acts(r)
                          \/ GotSample(r, samples) /\ ~(IsHot(r, samples) /\ Covers(r, t))
                       THEN 0 ELSE hotHeat[r] + g
      /\ paid'[r] = IF Acts(r) THEN measured[r] + g ELSE paid[r]
      /\ lastFired'[r] = IF Acts(r) THEN t ELSE lastFired[r]
      /\ readAt'[r] = IF GotSample(r, samples) THEN t ELSE readAt[r]
      /\ heldBack' = (t < pausedUntil)
  BY DEF Observe
<1>5. dose'[r] = IF GotSample(r, samples) THEN DoseLeft(r, samples, t) ELSE dose[r]
  BY DEF TickAt, TickDose
<1>6. now' = t
  BY DEF TickAt
<1>7. CASE ~GotSample(r, samples)
  <2>1. ~Acts(r)
    BY <1>1, <1>7 DEF Fires
  <2>2. g = 0
    BY <1>7 DEF HeatGained, IsHot
  <2>3. readAt'[r] # now'
    <3>1. readAt[r] <= now /\ readAt[r] \in Nat \cup {Never} /\ now \in Nat
      BY DEF IInv, TypeInvariant, TypeOK, HistoryTypeOK, ClockInv
    <3>2. QED  BY <3>1, <1>4, <1>6, <1>7 DEF Never
  <2>4. /\ measured'[r] = measured[r] /\ hotHeat'[r] = hotHeat[r]
        /\ paid'[r] = paid[r] /\ dose'[r] = dose[r]
    BY <2>1, <2>2, <1>3, <1>4, <1>5, <1>7
  <2>5. QED  BY <2>3, <2>4, <1>2
<1>8. CASE GotSample(r, samples)
  <2>1. /\ g \in Nat
        /\ d \in Nat
        /\ d <= dose[r] + g
        /\ IsHot(r, samples) /\ Covers(r, t) => d = dose[r] + g
    BY <1>8, HeatOfReading
  <2>2. NewVerdict(r, samples, t) = DoseVerdict(r, d)
    BY <1>8 DEF NewVerdict
  <2>3. NewVerdict(r, samples, t) = "TRIGGER" <=> d >= Config[r].budget
    BY <2>2 DEF DoseVerdict
  <2>4. CASE Fires(r, samples, t)
    <3>1. d >= Config[r].budget
      BY <2>3, <2>4 DEF Fires
    <3>2. dose'[r] = 0
      BY <1>5, <1>8, <2>4 DEF DoseLeft
    <3>3. measured'[r] = 0 /\ hotHeat'[r] = 0 /\ paid'[r] = measured[r] + g
      BY <1>1, <1>4, <2>4
    <3>4. measured[r] + g >= Config[r].budget
      BY <3>1, <2>1, <1>2, <1>3
    <3>5. QED  BY <3>2, <3>3, <3>4, <1>3
  <2>5. CASE ~Fires(r, samples, t)
    <3>1. dose'[r] = d
      BY <1>5, <1>8, <2>5 DEF DoseLeft
    <3>2. measured'[r] = measured[r] + g /\ paid'[r] = paid[r] /\ lastFired'[r] = lastFired[r]
      BY <1>1, <1>4, <2>5
    <3>3. hotHeat'[r] <= d
      <4>1. CASE IsHot(r, samples) /\ Covers(r, t)
        <5>1. hotHeat'[r] = hotHeat[r] + g
          BY <4>1, <1>1, <1>4, <2>5
        <5>2. QED  BY <4>1, <5>1, <2>1, <1>2, <1>3
      <4>2. CASE ~(IsHot(r, samples) /\ Covers(r, t))
        <5>1. hotHeat'[r] = 0
          BY <4>2, <1>4, <1>8
        <5>2. QED  BY <5>1, <2>1
      <4>3. QED  BY <4>1, <4>2
    <3>4. ASSUME hotHeat'[r] >= Config[r].budget
          PROVE  \/ lastFired[r] # Never /\ t < lastFired[r] + Config[r].cooldown
                 \/ heldBack'
      <4>1. NewVerdict(r, samples, t) = "TRIGGER"
        <5>1. hotHeat'[r] \in Nat
          BY DEF TypeInvariant, HistoryTypeOK
        <5>2. d >= Config[r].budget
          BY <5>1, <2>1, <3>3, <3>4, <1>3
        <5>3. QED  BY <5>2, <2>3
      <4>2. t < cooldownUntil[r] \/ t < pausedUntil
        <5>1. t < cooldownUntil[r] \/ IsCurrentlyPaused(t)
          <6>1. ~(t >= cooldownUntil[r] /\ ~IsCurrentlyPaused(t))
            BY <4>1, <2>5, <1>8 DEF Fires
          <6>2. QED  BY <6>1, <1>3
        <5>2. QED  BY <5>1 DEF IsCurrentlyPaused
      <4>3. cooldownUntil[r] = IF lastFired[r] = Never THEN 0
                               ELSE lastFired[r] + Config[r].cooldown
        BY DEF IInv, CooldownInv
      <4>4. CASE t < pausedUntil
        BY <4>4, <1>4
      <4>5. CASE t < cooldownUntil[r]
        BY <4>3, <4>5, <1>3 DEF Never
      <4>6. QED  BY <4>2, <4>4, <4>5
    <3>5. dose'[r] <= measured'[r]
      BY <3>1, <3>2, <2>1, <1>2, <1>3
    <3>6. QED  BY <3>1, <3>2, <3>3, <3>4, <3>5, <1>2, <1>6
  <2>6. QED  BY <2>4, <2>5
<1>9. QED  BY <1>7, <1>8
-----------------------------------------------------------------------------
\* Every step keeps the invariant: a tick by the lemmas above, the others
\* because they touch only the pause or the queue of health changes.
THEOREM StepIInv == IInv /\ [Next]_vars => IInv'
<1> SUFFICES ASSUME IInv, [Next]_vars PROVE IInv'
  OBVIOUS
<1> DEFINE Kept == <<now, window, verdict, cooldownUntil, lastSampleAt, starved,
                     dose, doseAt, doseWarned, firstTickAt, lastTickAt,
                     tickInterval, unable, actions, lastFired, hotSince, readAt,
                     measured, hotHeat, paid, warnings, announced, step, heldBack>>
<1>1. CASE ObservedTick
  <2>1. PICK gap \in Gaps, samples \in SampleSets :
           TickAt(now + gap, samples) /\ Observe(samples, now + gap)
    BY <1>1 DEF ObservedTick
  <2>2. now + gap \in Nat /\ now + gap > now
    BY BoundsAssumption DEF IInv, TypeInvariant, TypeOK
  <2>3. TypeInvariant'
    BY <2>1, <2>2, TickType
  <2>4. ClockInv' /\ CooldownInv' /\ StarvedExactly'
    BY <2>1, <2>2, TickClock, TickCooldown, TickStarvation
  <2>5. HeatInv' /\ HeatIsPaidFor' /\ HeatIsNotForgiven'
    BY <2>1, <2>2, <2>3, TickHeat
  <2>6. QED  BY <2>3, <2>4, <2>5 DEF IInv
<1>2. ASSUME UNCHANGED Kept, TypeInvariant' PROVE IInv'
  <2>1. ClockInv' /\ CooldownInv' /\ StarvedExactly'
    BY <1>2 DEF IInv, ClockInv, CooldownInv, StarvedExactly
  <2>2. HeatInv' /\ HeatIsPaidFor' /\ HeatIsNotForgiven'
    BY <1>2 DEF IInv, HeatInv, HeatIsPaidFor, HeatIsNotForgiven, DoseRules
  <2>3. QED  BY <1>2, <2>1, <2>2 DEF IInv
<1>3. CASE ObservedPause \/ ObservedUnpause
  <2>1. UNCHANGED <<Kept, changes, logged>> /\ pausedUntil' \in Nat
    BY <1>3, BoundsAssumption DEF ObservedPause, ObservedUnpause, Pause, Unpause,
       SetPaused, historyVars, IInv, TypeInvariant, TypeOK
  <2>2. TypeInvariant'
    BY <2>1 DEF IInv, TypeInvariant, TypeOK, HistoryTypeOK
  <2>3. QED  BY <1>2, <2>1, <2>2
<1>4. CASE ObservedDrain
  <2>1. UNCHANGED <<Kept, pausedUntil>>
    BY <1>4 DEF ObservedDrain, Drain
  <2>2. changes' \in [Rules -> Seq({"starved", "recovered"})]
    BY <1>4 DEF ObservedDrain, Drain
  <2>3. logged' \in [Rules -> {"starved", "recovered"}]
    <3>1. ASSUME NEW r \in Rules PROVE LastChange(r) \in {"starved", "recovered"}
      <4>1. changes[r] \in Seq({"starved", "recovered"}) /\ logged[r] \in {"starved", "recovered"}
        BY DEF IInv, TypeInvariant, TypeOK, HistoryTypeOK
      <4>2. changes[r] # <<>> => Len(changes[r]) \in 1..Len(changes[r])
        BY <4>1
      <4>3. QED  BY <4>1, <4>2 DEF LastChange
    <3>2. QED  BY <3>1, <1>4 DEF ObservedDrain
  <2>4. TypeInvariant'
    BY <2>1, <2>2, <2>3 DEF IInv, TypeInvariant, TypeOK, HistoryTypeOK
  <2>5. QED  BY <1>2, <2>1, <2>4
<1>5. CASE UNCHANGED vars
  <2>1. UNCHANGED <<Kept, pausedUntil, changes, logged>>
    BY <1>5 DEF vars, engineVars, historyVars
  <2>2. TypeInvariant'
    BY <2>1 DEF IInv, TypeInvariant, TypeOK, HistoryTypeOK
  <2>3. QED  BY <1>2, <2>1, <2>2
<1>6. QED  BY <1>1, <1>3, <1>4, <1>5 DEF Next

\* IInv holds in every reachable state.
THEOREM Invariance == Spec => []IInv
<1>1. QED  BY InitIInv, StepIInv, PTL DEF Spec

\* policy.py keeps its per-rule state within its types at every step.
THEOREM TypeCorrect == Spec => []TypeInvariant
<1>1. IInv => TypeInvariant
  BY DEF IInv
<1>2. QED  BY <1>1, Invariance, PTL

\* _tick_dose() acts only on a full budget of heat measured since the rule
\* last acted: no sleep, gap or lost sample is billed.
THEOREM HeatPaidFor == Spec => []HeatIsPaidFor
<1>1. IInv => HeatIsPaidFor
  BY DEF IInv
<1>2. QED  BY <1>1, Invariance, PTL

\* _tick_dose() forgives no unbroken heat: at a full budget of it the rule
\* has acted, is cooling down or is paused.
THEOREM HeatNotForgiven == Spec => []HeatIsNotForgiven
<1>1. IInv => HeatIsNotForgiven
  BY DEF IInv
<1>2. QED  BY <1>1, Invariance, PTL

\* tick() keeps two actions of one rule its cooldown apart.
THEOREM CooldownHolds == Spec => CooldownSpacing
<1> DEFINE Spaced ==
      \A r \in Rules :
         lastFired[r] # Never /\ lastFired'[r] # lastFired[r]
            => lastFired'[r] >= lastFired[r] + Config[r].cooldown
<1>1. ASSUME IInv, [Next]_vars PROVE [Spaced]_vars
  <2>1. CASE ObservedTick
    <3>1. PICK gap \in Gaps, samples \in SampleSets :
             TickAt(now + gap, samples) /\ Observe(samples, now + gap)
      BY <2>1 DEF ObservedTick
    <3>2. now + gap \in Nat /\ now + gap > now
      BY <1>1, BoundsAssumption DEF IInv, TypeInvariant, TypeOK
    <3>3. QED  BY <1>1, <3>1, <3>2, TickCooldown
  <2>2. CASE ~ObservedTick
    <3>1. UNCHANGED lastFired
      BY <1>1, <2>2 DEF Next, ObservedPause, ObservedUnpause, ObservedDrain,
         historyVars, vars
    <3>2. QED  BY <3>1
  <2>3. QED  BY <2>1, <2>2
<1>2. QED  BY <1>1, Invariance, PTL DEF Spec, CooldownSpacing

\* A tick is a tick of the gate: who fires is out of its cooldown and not paused.
LEMMA TickIsGateTick ==
    ASSUME IInv, NEW t \in Nat, t > now, NEW samples \in SampleSets,
           TickAt(t, samples), Observe(samples, t)
    PROVE  Gate!Tick
<1>1. now' = t /\ pausedUntil' = pausedUntil
  BY DEF TickAt
<1>2. lastFired' = [r \in Rules |-> IF Acts(r) THEN t ELSE lastFired[r]]
  BY DEF Observe
<1>3. ASSUME NEW r \in Rules, lastFired'[r] # lastFired[r]
      PROVE  lastFired'[r] = now' /\ Gate!MayAct(r, now')
  <2>1. Acts(r) /\ lastFired'[r] = t
    BY <1>2, <1>3
  <2>2. Fires(r, samples, t)
    BY <2>1, ActsIffFires DEF TickAt
  <2>3. t >= cooldownUntil[r] /\ ~(t < pausedUntil)
    BY <2>2 DEF Fires, IsCurrentlyPaused
  <2>4. cooldownUntil[r] = IF lastFired[r] = Never THEN 0
                           ELSE lastFired[r] + Config[r].cooldown
    BY DEF IInv, CooldownInv
  <2>5. pausedUntil \in Nat
    BY DEF IInv, TypeInvariant, TypeOK
  <2>6. t >= pausedUntil
    BY <2>3, <2>5
  <2>7. QED  BY <1>1, <2>1, <2>3, <2>4, <2>6 DEF Gate!MayAct, Never
<1>4. DOMAIN lastFired' = Rules
  BY <1>2
<1>5. QED  BY <1>1, <1>3, <1>4 DEF Gate!Tick

\* The rule engine of policy.py implements the gate: every behaviour of tick(),
\* set_paused() and drain_signal_health_changes() is one of ActionGate.
THEOREM EngineIsGate == Spec => IsActionGate
<1>1. Init => Gate!Init
  BY DEF Init, EngineInit, HistoryInit, Gate!Init, Never
<1>2. ASSUME IInv, [Next]_vars PROVE [Gate!Next]_(Gate!gateVars)
  <2>1. CASE ObservedTick
    <3>1. PICK gap \in Gaps, samples \in SampleSets :
             TickAt(now + gap, samples) /\ Observe(samples, now + gap)
      BY <2>1 DEF ObservedTick
    <3>2. now + gap \in Nat /\ now + gap > now
      BY <1>2, BoundsAssumption DEF IInv, TypeInvariant, TypeOK
    <3>3. Gate!Tick
      BY <1>2, <3>1, <3>2, TickIsGateTick
    <3>4. QED  BY <3>3 DEF Gate!Next
  <2>2. CASE ObservedPause \/ ObservedUnpause
    <3>1. UNCHANGED <<now, lastFired>> /\ pausedUntil' \in Nat
      BY <1>2, <2>2, BoundsAssumption DEF ObservedPause, ObservedUnpause, Pause,
         Unpause, SetPaused, historyVars, IInv, TypeInvariant, TypeOK
    <3>2. QED  BY <3>1 DEF Gate!Next, Gate!SetPaused
  <2>3. CASE ObservedDrain \/ UNCHANGED vars
    <3>1. UNCHANGED <<now, pausedUntil, lastFired>>
      BY <2>3 DEF ObservedDrain, Drain, vars, engineVars, historyVars
    <3>2. QED  BY <3>1 DEF Gate!gateVars
  <2>4. QED  BY <1>2, <2>1, <2>2, <2>3 DEF Next
<1>3. QED  BY <1>1, <1>2, Invariance, PTL DEF Spec, IsActionGate, Gate!Spec
-----------------------------------------------------------------------------
(* A kill of a dose rule is announced.                                      *)

LEMMA SumTimes ==
    ASSUME NEW a \in Nat, NEW b \in Nat, NEW c \in Nat
    PROVE  (a + b) * c = a * c + b * c
OBVIOUS

LEMMA LessTimes ==
    ASSUME NEW a \in Nat, NEW b \in Nat, NEW c \in Nat, a * c < b * c
    PROVE  a < b
BY ProductGrows

LEMMA WarnFields ==
    ASSUME NEW r \in Rules
    PROVE  /\ Config[r].warnNum \in Nat \ {0}
           /\ Config[r].warnDen \in Nat \ {0}
           /\ Config[r].warnNum < Config[r].warnDen
BY ConfigAssumption, WarnAssumption DEF RuleConfig

\* A reading of a rule is one of the values a sample can carry.
LEMMA ReadingIsValue ==
    ASSUME NEW r \in Rules, NEW samples \in SampleSets, GotSample(r, samples)
    PROVE  Reading(r, samples) \in Values
<1>1. PICK S \in SUBSET Signals : samples \in [S -> Values]
  BY DEF SampleSets
<1>2. QED
  BY <1>1 DEF GotSample, Reading

\* A tick that is not paused warns for exactly the rules whose warning is due.
LEMMA SendsIffWarns ==
    ASSUME NEW samples, NEW t, NEW r \in Rules,
           actions' = TickActions(samples, t), ~IsCurrentlyPaused(t)
    PROVE  SendsWarning(r) <=> Warns(r, samples, t)
<1>1. ASSUME SendsWarning(r) PROVE Warns(r, samples, t)
  <2>1. PICK a \in TickActions(samples, t) : a.rule = r /\ a.warning
    BY <1>1 DEF SendsWarning
  <2>2. PICK q \in {p \in Rules : Warns(p, samples, t) /\ ~IsCurrentlyPaused(t)} :
             a = [rule |-> q, kind |-> "log", warning |-> TRUE]
    BY <2>1 DEF TickActions
  <2>3. QED  BY <2>1, <2>2
<1>2. ASSUME Warns(r, samples, t) PROVE SendsWarning(r)
  <2> DEFINE a == [rule |-> r, kind |-> "log", warning |-> TRUE]
  <2>1. a \in TickActions(samples, t)
    BY <1>2 DEF TickActions
  <2>2. a.rule = r /\ a.warning
    OBVIOUS
  <2>3. QED  BY <2>1, <2>2 DEF SendsWarning
<1>3. QED  BY <1>1, <1>2

\* A dose below the warn fraction is short of the budget after one reading,
\* and is still below the fraction when the reading is cool or after a gap.
LEMMA OneReadingIsSmall ==
    ASSUME IInv, StepsAreSmall, NEW t \in Nat, t > now, NEW samples \in SampleSets,
           NEW r \in DoseRules, GotSample(r, samples),
           dose[r] * Config[r].warnDen < Config[r].warnNum * Config[r].budget
    PROVE  LET d == DoseAfterReading(r, Reading(r, samples), t)
           IN  /\ d < Config[r].budget
               /\ ~IsOver(r, Reading(r, samples))
                    => d * Config[r].warnDen < Config[r].warnNum * Config[r].budget
<1> DEFINE v == Reading(r, samples)
           dt == DoseDt(r, t)
           d == DoseAfterReading(r, v, t)
           b == Config[r].budget
           wn == Config[r].warnNum
           wd == Config[r].warnDen
           x == dose[r]
<1>1. /\ r \in Rules /\ IsDose(r)
      /\ v \in Nat /\ v \in Values /\ Config[r].threshold \in Nat /\ Config[r].drain \in Nat
      /\ b \in Nat /\ wn \in Nat /\ wd \in Nat /\ wn < wd
      /\ x \in Nat
  BY ReadingIsNat, ReadingIsValue, ConfigFields, WarnFields
  DEF DoseRules, IInv, TypeInvariant, TypeOK
<1>2. dt \in Nat /\ d \in Nat
  <2>1. doseAt[r] = readAt[r] /\ readAt[r] <= now /\ now \in Nat
        /\ readAt[r] \in Nat \cup {Never}
    BY <1>1 DEF IInv, ClockInv, TypeInvariant, TypeOK, HistoryTypeOK
  <2>2. doseAt[r] \in Nat \cup {Never} /\ doseAt[r] <= t
    BY <2>1 DEF Never
  <2>3. QED  BY <2>2, <1>1, DoseIsNat
<1>3. wn * b \in Nat /\ wd * b \in Nat /\ x * wd \in Nat /\ wn * b <= wd * b
  BY <1>1, ProductIsNat, ProductGrows
<1>4. CASE dt > DoseMaxGap \/ ~IsOver(r, v)
  <2>1. Config[r].drain * dt \in Nat
    BY <1>1, <1>2, ProductIsNat
  <2>2. d <= x
    BY <1>1, <1>4, <2>1 DEF DoseAfterReading, MaxOf
  <2>3. d * wd <= x * wd
    BY <1>1, <1>2, <2>2, ProductGrows
  <2>4. d * wd \in Nat
    BY <1>1, <1>2, ProductIsNat
  <2>5. d * wd < wn * b
    BY <1>3, <2>3, <2>4
  <2>6. d * wd < b * wd
    BY <1>1, <1>3, <2>4, <2>5
  <2>7. d < b
    BY <1>1, <1>2, <2>6, LessTimes
  <2>8. QED  BY <2>5, <2>7
<1>5. CASE ~(dt > DoseMaxGap \/ ~IsOver(r, v))
  <2> DEFINE e == v - Config[r].threshold
             h == e * dt
  <2>1. e \in Nat /\ v > Config[r].threshold
    BY <1>1, <1>5 DEF IsOver
  <2>2. DoseMaxGap \in Nat /\ dt <= DoseMaxGap
    BY <1>2, <1>5, BoundsAssumption
  <2>3. h \in Nat /\ e * DoseMaxGap \in Nat /\ h <= e * DoseMaxGap
    BY <1>2, <2>1, <2>2, ProductIsNat, ProductGrows
  <2>4. h * wd <= (e * DoseMaxGap) * wd
    BY <1>1, <2>3, ProductGrows
  <2>5. (e * DoseMaxGap) * wd <= (wd - wn) * b
    BY <1>1, <2>1 DEF StepsAreSmall
  <2>6. wd - wn \in Nat /\ (wd - wn) * b + wn * b = wd * b
    <3>1. wd - wn \in Nat /\ (wd - wn) + wn = wd
      BY <1>1
    <3>2. QED  BY <1>1, <3>1, SumTimes
  <2>7. (x + h) * wd = x * wd + h * wd
    BY <1>1, <2>3, SumTimes
  <2>8. (x + h) * wd < b * wd
    <3>1. h * wd \in Nat /\ (e * DoseMaxGap) * wd \in Nat /\ (wd - wn) * b \in Nat
      BY <1>1, <2>3, <2>6, ProductIsNat
    <3>2. x * wd + h * wd < wd * b
      BY <1>3, <2>4, <2>5, <2>6, <3>1
    <3>3. wd * b = b * wd
      BY <1>1
    <3>4. QED  BY <2>7, <3>2, <3>3
  <2>9. d = x + h
    BY <1>5 DEF DoseAfterReading
  <2>10. d < b
    <3>1. x + h \in Nat
      BY <1>1, <2>3
    <3> HIDE DEF h, x, wd, b
    <3>2. x + h < b
      BY <1>1, <2>8, <3>1, LessTimes
    <3>3. QED  BY <2>9, <3>2
  <2>11. QED  BY <1>5, <2>10
<1>6. QED  BY <1>4, <1>5

\* After a tick that is not paused, what is beyond the fraction is flagged and
\* warned of, and who acted had been warned of before.
LEMMA TickWarning ==
    ASSUME AnnounceInv, StepsAreSmall, NEW t \in Nat, t > now, NEW samples \in SampleSets,
           TickAt(t, samples), Observe(samples, t), TypeInvariant'
    PROVE  WarningInv' /\ KillIsAnnounced'
<1> SUFFICES ASSUME NEW r \in DoseRules, Config[r].action = "kill"
             PROVE  /\ ~doseWarned'[r] => dose'[r] * Config[r].warnDen
                                            < Config[r].warnNum * Config[r].budget
                    /\ doseWarned'[r] => dose'[r] > 0 /\ warnings'[r] > 0
                    /\ announced'[r]
  BY DEF WarningInv, KillIsAnnounced, DoseRules
<1> DEFINE d == DoseAfterReading(r, Reading(r, samples), t)
           b == Config[r].budget
           wn == Config[r].warnNum
           wd == Config[r].warnDen
<1>1. /\ r \in Rules /\ IsDose(r) /\ IInv
      /\ b \in Nat /\ b > 0 /\ wn \in Nat /\ wn > 0 /\ wd \in Nat
  BY ConfigFields, WarnFields DEF DoseRules, AnnounceInv
<1>2. ~IsCurrentlyPaused(t)
  BY DEF AnnounceInv, IsCurrentlyPaused
<1>3. /\ Acts(r) <=> Fires(r, samples, t)
      /\ SendsWarning(r) <=> Warns(r, samples, t)
  BY <1>1, <1>2, ActsIffFires, SendsIffWarns DEF TickAt
<1>4. /\ ~doseWarned[r] => dose[r] * wd < wn * b
      /\ doseWarned[r] => dose[r] > 0 /\ warnings[r] > 0
      /\ announced[r]
  BY DEF AnnounceInv, WarningInv, KillIsAnnounced
<1>5. dose[r] \in Nat /\ warnings[r] \in Nat /\ doseWarned[r] \in BOOLEAN
  BY <1>1 DEF IInv, TypeInvariant, TypeOK, HistoryTypeOK
<1>6. /\ warnings'[r] = IF Acts(r) \/ dose'[r] = 0 THEN 0
                        ELSE IF SendsWarning(r) THEN warnings[r] + 1 ELSE warnings[r]
      /\ announced'[r] = IF Acts(r) THEN warnings[r] > 0 ELSE announced[r]
  BY <1>1 DEF Observe
<1>7. /\ dose'[r] = IF GotSample(r, samples) THEN DoseLeft(r, samples, t) ELSE dose[r]
      /\ doseWarned'[r] = IF GotSample(r, samples) THEN WarnedLeft(r, samples, t)
                          ELSE doseWarned[r]
  BY <1>1 DEF TickAt, TickDose
<1>8. 0 * wd < wn * b
  <2>1. wn * b > 0
    <3>1. wn >= 1 /\ b >= 1
      BY <1>1
    <3>2. 1 * b <= wn * b
      BY <1>1, <3>1, ProductGrows
    <3>3. wn * b \in Nat
      BY <1>1, ProductIsNat
    <3>4. QED  BY <3>1, <3>2, <3>3, <1>1
  <2>2. 0 * wd = 0
    BY <1>1
  <2>3. QED  BY <2>1, <2>2
<1>9. CASE ~GotSample(r, samples)
  <2>1. ~Acts(r) /\ ~SendsWarning(r)
    BY <1>1, <1>3, <1>9 DEF Fires, Warns
  <2>2. dose'[r] = dose[r] /\ doseWarned'[r] = doseWarned[r] /\ announced'[r] = announced[r]
    BY <2>1, <1>6, <1>7, <1>9
  <2>3. doseWarned[r] => warnings'[r] = warnings[r]
    BY <2>1, <2>2, <1>4, <1>5, <1>6
  <2>4. QED  BY <2>2, <2>3, <1>4
<1>10. CASE GotSample(r, samples)
  <2>1. d \in Nat
    BY <1>1, <1>10, HeatOfReading
  <2>2. NewVerdict(r, samples, t) = "TRIGGER" <=> d >= b
    BY <1>1, <1>10 DEF NewVerdict, DoseVerdict
  <2>3. CASE Fires(r, samples, t)
    <3>1. d >= b
      BY <2>2, <2>3 DEF Fires
    <3>2. doseWarned[r]
      <4>1. ASSUME ~doseWarned[r] PROVE FALSE
        <5>1. d < b
          BY <1>1, <1>4, <1>10, <4>1, OneReadingIsSmall
        <5>2. QED  BY <5>1, <3>1, <2>1, <1>1
      <4>2. QED  BY <4>1
    <3>3. warnings[r] > 0
      BY <3>2, <1>4
    <3>4. announced'[r]
      BY <3>3, <1>3, <1>6, <2>3, Zenon
    <3>5. dose'[r] = 0 /\ ~doseWarned'[r]
      BY <1>7, <1>10, <2>3 DEF DoseLeft, WarnedLeft
    <3>6. QED  BY <3>4, <3>5, <1>8
  <2>4. CASE ~Fires(r, samples, t)
    <3>1. dose'[r] = d /\ announced'[r] = announced[r]
      BY <1>3, <1>6, <1>7, <1>10, <2>4 DEF DoseLeft
    <3>2. doseWarned'[r] <=> (doseWarned[r] /\ d > 0) \/ Warns(r, samples, t)
      BY <1>7, <1>10, <2>4 DEF WarnedLeft
    <3>3. Warns(r, samples, t)
            <=> /\ d < b
                /\ ~(doseWarned[r] /\ d > 0)
                /\ d * wd >= wn * b
                /\ IsOver(r, Reading(r, samples))
      BY <1>1, <1>10 DEF Warns, WarnDue
    <3>4. d * wd \in Nat /\ wn * b \in Nat
      BY <1>1, <2>1, ProductIsNat
    <3>5. ASSUME doseWarned'[r] PROVE d > 0 /\ warnings'[r] > 0
      <4>1. d > 0
        <5>1. ASSUME Warns(r, samples, t), d = 0 PROVE FALSE
          BY <3>3, <5>1, <1>8, <3>4
        <5>2. QED  BY <3>2, <3>5, <5>1, <2>1
      <4>2. dose'[r] # 0 /\ ~Acts(r)
        BY <4>1, <3>1, <2>1, <2>4, <1>3
      <4>3. CASE Warns(r, samples, t)
        BY <4>1, <4>2, <4>3, <1>3, <1>5, <1>6
      <4>4. CASE ~Warns(r, samples, t)
        <5>1. warnings'[r] = warnings[r] /\ doseWarned[r]
          BY <4>2, <4>4, <1>3, <1>6, <3>2, <3>5
        <5>2. QED  BY <4>1, <5>1, <1>4
      <4>5. QED  BY <4>1, <4>3, <4>4
    <3>6. ASSUME ~doseWarned'[r] PROVE d * wd < wn * b
      <4>1. CASE d = 0
        BY <4>1, <1>8
      <4>2. CASE d # 0
        <5>1. ~doseWarned[r] /\ ~Warns(r, samples, t)
          BY <3>2, <3>6, <4>2, <2>1
        <5>2. /\ d < b
              /\ ~IsOver(r, Reading(r, samples)) => d * wd < wn * b
          BY <1>1, <1>4, <1>10, <5>1, OneReadingIsSmall
        <5>3. QED  BY <3>3, <3>4, <5>1, <5>2
      <4>3. QED  BY <4>1, <4>2
    <3>7. QED  BY <3>1, <3>5, <3>6, <1>4
  <2>5. QED  BY <2>3, <2>4
<1>11. QED  BY <1>9, <1>10

\* _tick_dose() warns the owners before a dose rule kills, where nothing pauses
\* the engine (a pause swallows the warning) and one reading is small against
\* what is left of the budget once the warning is due.
THEOREM KillsAreAnnounced ==
    ASSUME PauseLengths = {}, StepsAreSmall
    PROVE  Spec => []KillIsAnnounced
<1>1. Init => AnnounceInv
  <2> SUFFICES ASSUME Init PROVE AnnounceInv
    OBVIOUS
  <2>1. IInv
    BY InitIInv
  <2>2. pausedUntil = 0 /\ KillIsAnnounced
    BY DEF Init, EngineInit, HistoryInit, KillIsAnnounced, DoseRules
  <2>3. WarningInv
    <3>1. ASSUME NEW r \in DoseRules
          PROVE  0 * Config[r].warnDen < Config[r].warnNum * Config[r].budget
      <4>1. /\ Config[r].warnNum \in Nat /\ Config[r].warnNum >= 1
            /\ Config[r].budget \in Nat /\ Config[r].budget >= 1
            /\ Config[r].warnDen \in Nat
        BY ConfigFields, WarnFields DEF DoseRules
      <4>2. 1 * Config[r].budget <= Config[r].warnNum * Config[r].budget
        BY <4>1, ProductGrows
      <4>3. Config[r].warnNum * Config[r].budget \in Nat
        BY <4>1, ProductIsNat
      <4>4. QED  BY <4>1, <4>2, <4>3
    <3>2. \A r \in DoseRules : dose[r] = 0 /\ doseWarned[r] = FALSE
      BY DEF Init, EngineInit, DoseRules
    <3>3. QED  BY <3>1, <3>2 DEF WarningInv
  <2>4. QED  BY <2>1, <2>2, <2>3 DEF AnnounceInv
<1>2. ASSUME AnnounceInv, [Next]_vars PROVE AnnounceInv'
  <2>1. IInv'
    BY <1>2, StepIInv DEF AnnounceInv
  <2>2. CASE ObservedTick
    <3>1. PICK gap \in Gaps, samples \in SampleSets :
             TickAt(now + gap, samples) /\ Observe(samples, now + gap)
      BY <2>2 DEF ObservedTick
    <3>2. now + gap \in Nat /\ now + gap > now
      BY <1>2, BoundsAssumption DEF AnnounceInv, IInv, TypeInvariant, TypeOK
    <3>3. WarningInv' /\ KillIsAnnounced'
      BY <1>2, <2>1, <3>1, <3>2, TickWarning DEF IInv
    <3>4. pausedUntil' = 0
      BY <1>2, <3>1 DEF AnnounceInv, TickAt
    <3>5. QED  BY <2>1, <3>3, <3>4 DEF AnnounceInv
  <2>3. CASE ~ObservedTick
    <3>1. UNCHANGED <<dose, doseWarned, warnings, announced>>
      BY <1>2, <2>3 DEF Next, ObservedPause, ObservedUnpause, ObservedDrain, Pause,
         Unpause, SetPaused, Drain, historyVars, engineVars, vars
    <3>2. pausedUntil' = 0
      BY <1>2, <2>3 DEF Next, ObservedPause, ObservedUnpause, ObservedDrain, Pause,
         Unpause, SetPaused, Drain, engineVars, vars, AnnounceInv
    <3>3. WarningInv' /\ KillIsAnnounced'
      BY <1>2, <3>1 DEF AnnounceInv, WarningInv, KillIsAnnounced, DoseRules
    <3>4. QED  BY <2>1, <3>2, <3>3 DEF AnnounceInv
  <2>4. QED  BY <2>2, <2>3
<1>3. AnnounceInv => KillIsAnnounced
  BY DEF AnnounceInv
<1>4. QED  BY <1>1, <1>2, <1>3, PTL DEF Spec
-----------------------------------------------------------------------------
(* A window rule acts on evidence, and on evidence it acts.                 *)

LEMMA WindowFields ==
    ASSUME NEW r \in Rules
    PROVE  /\ Config[r].window \in Nat \ {0}
           /\ Config[r].fracNum \in Nat \ {0}
           /\ Config[r].fracDen \in Nat \ {0}
           /\ Config[r].fracNum <= Config[r].fracDen
BY ConfigAssumption, FractionAssumption DEF RuleConfig

\* Rounding up loses nothing, and rounds to no more than it has to.
LEMMA CeilDivFacts ==
    ASSUME NEW a \in Nat, NEW b \in Nat \ {0}
    PROVE  /\ CeilDiv(a, b) \in Nat
           /\ a <= CeilDiv(a, b) * b
           /\ \A n \in Nat : a <= n * b => CeilDiv(a, b) <= n
<1> DEFINE q == CeilDiv(a, b)
<1>1. a + b - 1 \in Nat
  OBVIOUS
<1>2. q \in Nat /\ q * b <= a + b - 1 /\ a + b - 1 < q * b + b
  BY <1>1, DivFacts DEF CeilDiv
<1>3. q * b \in Nat
  BY <1>2, ProductIsNat
<1>4. ASSUME NEW n \in Nat, a <= n * b, n < q PROVE FALSE
  <2>1. (n + 1) * b <= q * b
    BY <1>2, <1>4, ProductGrows
  <2>2. (n + 1) * b = n * b + b /\ n * b \in Nat
    BY ProductIsNat
  <2> HIDE DEF q
  <2>3. QED  BY <1>2, <1>3, <1>4, <2>1, <2>2
<1> HIDE DEF q
<1>5. a <= q * b
  BY <1>2, <1>3
<1>6. \A n \in Nat : a <= n * b => q <= n
  BY <1>2, <1>4
<1>7. QED  BY <1>2, <1>5, <1>6 DEF q

\* The samples a rule asks for span its fraction of the window at the cadence,
\* and no more samples than that and the floor are asked for.
LEMMA MinSamplesFacts ==
    ASSUME NEW r \in Rules, NEW interval \in Nat \ {0}
    PROVE  LET m == MinSamplesFor(r, interval)
               c == Config[r]
           IN  /\ m \in Nat
               /\ c.window * Scale * c.fracNum <= m * (interval * c.fracDen)
               /\ \A n \in Nat : MinSamplesFloor <= n
                     /\ c.window * Scale * c.fracNum <= n * (interval * c.fracDen)
                     => m <= n
<1> DEFINE a == Config[r].window * Scale * Config[r].fracNum
           b == interval * Config[r].fracDen
           m == MinSamplesFor(r, interval)
<1>1. a \in Nat
  <2>1. Config[r].window * Scale \in Nat
    BY WindowFields, BoundsAssumption, ProductIsNat
  <2>2. QED  BY <2>1, WindowFields, ProductIsNat
<1>2. b \in Nat \ {0}
  BY WindowFields
<1>3. m = MaxOf(MinSamplesFloor, CeilDiv(a, b))
  BY DEF MinSamplesFor
<1>4. MinSamplesFloor \in Nat
  BY BoundsAssumption
<1> HIDE DEF a, b, m
<1>5. /\ CeilDiv(a, b) \in Nat
      /\ a <= CeilDiv(a, b) * b
      /\ \A n \in Nat : a <= n * b => CeilDiv(a, b) <= n
  BY <1>1, <1>2, CeilDivFacts
<1>6. m \in Nat /\ CeilDiv(a, b) <= m
  BY <1>3, <1>4, <1>5 DEF MaxOf
<1>7. a <= m * b
  <2>1. CeilDiv(a, b) * b <= m * b
    BY <1>2, <1>5, <1>6, ProductGrows
  <2>2. CeilDiv(a, b) * b \in Nat /\ m * b \in Nat
    BY <1>2, <1>5, <1>6, ProductIsNat
  <2>3. QED  BY <1>1, <1>5, <2>1, <2>2
<1>8. \A n \in Nat : MinSamplesFloor <= n /\ a <= n * b => m <= n
  BY <1>3, <1>4, <1>5 DEF MaxOf
<1>9. QED  BY <1>6, <1>7, <1>8 DEF a, b, m

\* The smoothed interval is above zero from the second tick on.
LEMMA IntervalIsNat ==
    ASSUME IInv, NEW t \in Nat, t > now
    PROVE  NextInterval(t) \in Nat
<1>1. /\ lastTickAt \in Nat \cup {Never} /\ tickInterval \in Nat /\ Scale \in Nat
      /\ MaxPlausibleGap \in Nat
  BY BoundsAssumption DEF IInv, TypeInvariant, TypeOK
<1>2. ASSUME lastTickAt # Never, t - lastTickAt > 0
      PROVE  (t - lastTickAt) * Scale \in Nat
  <2>1. t - lastTickAt \in Nat
    BY <1>1, <1>2 DEF Never
  <2>2. QED  BY <1>1, <2>1, ProductIsNat
<1>3. QED  BY <1>1, <1>2 DEF NextInterval

\* What a window holds after a tick it held before, or it is the tick's sample.
LEMMA WindowAfterTick ==
    ASSUME NEW r \in Rules, NEW t, NEW samples, NEW s \in NewWindow(r, samples, t)
    PROVE  \/ s \in window[r]
           \/ GotSample(r, samples) /\ s = [at |-> t, value |-> Reading(r, samples)]
BY DEF NewWindow, Evict
\* A tick adds one sample to a window, at its own time.
LEMMA TickOneSample ==
    ASSUME IInv, OneSamplePerTick, NEW t \in Nat, t > now, NEW samples,
           TickAt(t, samples)
    PROVE  OneSamplePerTick'
<1> SUFFICES ASSUME NEW r \in Rules
             PROVE  /\ \A s \in window'[r] : s.at <= now'
                    /\ \A s, u \in window'[r] : s.at = u.at => s = u
  BY DEF OneSamplePerTick
<1>1. window'[r] = NewWindow(r, samples, t) /\ now' = t
  BY DEF TickAt
<1>2. ASSUME NEW s \in window'[r]
      PROVE  \/ s \in window[r] /\ s.at \in Nat /\ s.at < t
             \/ s = [at |-> t, value |-> Reading(r, samples)] /\ s.at = t
  <2>1. CASE s \in window[r]
    <3>1. s.at \in Nat /\ now \in Nat /\ s.at <= now
      BY <2>1 DEF OneSamplePerTick, IInv, TypeInvariant, TypeOK, SampleType
    <3>2. QED  BY <2>1, <3>1
  <2>2. CASE s \notin window[r]
    BY <1>1, <2>2, WindowAfterTick
  <2>3. QED  BY <2>1, <2>2
<1>3. \A s, u \in window[r] : s.at = u.at => s = u
  BY DEF OneSamplePerTick
<1>4. \A s \in window'[r] : s.at <= t
  BY <1>2
<1>5. ASSUME NEW s \in window'[r], NEW u \in window'[r], s.at = u.at PROVE s = u
  BY <1>2, <1>3, <1>5
<1>6. QED  BY <1>1, <1>4, <1>5

\* A window rule that triggers has its newest sample fresh and enough of them.
LEMMA TriggerHasSamples ==
    ASSUME NEW r, NEW w, NEW t, NEW interval, Evaluate(r, w, t, interval) = "TRIGGER"
    PROVE  w # {} /\ ~(Cardinality(w) < MinSamplesFor(r, interval))
BY DEF Evaluate

\* Enough of them are over its threshold.
LEMMA TriggerIsOver ==
    ASSUME NEW r, NEW w, NEW t, NEW interval, Evaluate(r, w, t, interval) = "TRIGGER"
    PROVE  Cardinality({s \in w : IsOver(r, s.value)}) * Config[r].fracDen
             >= Config[r].fracNum * Cardinality(w)
BY DEF Evaluate

\* Who acts in a tick fires, unless it is a dose rule that warns.
LEMMA ActionFires ==
    ASSUME NEW samples, NEW t, NEW a \in TickActions(samples, t), ~IsDose(a.rule)
    PROVE  a.rule \in Rules /\ Fires(a.rule, samples, t)
<1>1. CASE a \in {[rule |-> r, kind |-> Config[r].action, warning |-> FALSE] :
                     r \in {q \in Rules : Fires(q, samples, t)}}
  BY <1>1
<1>2. CASE a \in {[rule |-> r, kind |-> "log", warning |-> TRUE] :
                     r \in {q \in Rules : Warns(q, samples, t) /\ ~IsCurrentlyPaused(t)}}
  BY <1>2 DEF Warns
<1>3. QED  BY <1>1, <1>2 DEF TickActions

\* Samples of different ticks, d apart, span their number of steps of d.
LEMMA WindowSpan ==
    ASSUME NEW t \in Nat, NEW d \in Nat \ {0}, NEW w \in SUBSET SampleType, w # {},
           \A s \in w : s.at <= t,
           \A s, u \in w : s.at = u.at => s = u,
           Apart(w, d)
    PROVE  /\ IsFiniteSet(w)
           /\ Cardinality(w) \in Nat
           /\ \E s \in w : Cardinality(w) * d <= t - s.at + d
<1> DEFINE T == {s.at : s \in w}
<1>1. T \in SUBSET Nat /\ T # {}
  BY DEF SampleType
<1>2. PICK m \in T : \A k \in T : m <= k
  <2> HIDE DEF T
  <2>1. QED  BY <1>1, Least
<1>3. T \in SUBSET (m..t)
  BY <1>1, <1>2 DEF SampleType
<1>4. \A x, y \in T : x < y => y - x >= d
  BY DEF Apart
<1>5. PICK s \in w : s.at = m
  BY <1>2
<1>6. [u \in w |-> u.at] \in Injection(w, T)
  BY DEF Injection, IsInjective
<1> HIDE DEF T
<1>7. m \in Int /\ t \in Int
  BY <1>1, <1>2
<1>8. IsFiniteSet(T) /\ Cardinality(T) \in Nat /\ (Cardinality(T) - 1) * d <= t - m
  BY <1>1, <1>3, <1>4, <1>7, SpacedAreFew
<1>9. IsFiniteSet(w) /\ Cardinality(w) <= Cardinality(T)
  BY <1>6, <1>8, FS_Injection
<1>10. Cardinality(w) \in Nat
  BY <1>9, FS_CardinalityType
<1>11. Cardinality(w) * d <= t - m + d
  <2>1. Cardinality(w) * d <= Cardinality(T) * d
    BY <1>8, <1>9, <1>10, ProductGrows
  <2>2. (Cardinality(T) - 1) * d = Cardinality(T) * d - d
    BY <1>8
  <2>3. Cardinality(w) * d \in Nat /\ Cardinality(T) * d \in Nat
    BY <1>8, <1>10, ProductIsNat
  <2>4. QED  BY <1>7, <1>8, <2>1, <2>2, <2>3
<1>12. QED  BY <1>5, <1>9, <1>10, <1>11

\* The two parts of SustainedEvidence.
SpanEvidence ==
    \A a \in actions : ~IsDose(a.rule) /\ tickInterval > 0 =>
       \A d \in 1..Config[a.rule].window : Apart(window[a.rule], d) =>
          \E s \in window[a.rule] :
             (now - s.at + d) * (tickInterval * Config[a.rule].fracDen)
                >= d * (Config[a.rule].window * Scale * Config[a.rule].fracNum)

OverEvidence ==
    \A a \in actions : ~IsDose(a.rule) =>
       /\ {s \in window[a.rule] : IsOver(a.rule, s.value)} # {}
       /\ Cardinality({s \in window[a.rule] : IsOver(a.rule, s.value)})
              * Config[a.rule].fracDen
            >= Config[a.rule].fracNum * Cardinality(window[a.rule])

\* A window rule that acts in a tick has samples over the span it was configured
\* for, and as many of them over its threshold.
LEMMA TickSpan ==
    ASSUME IInv, OneSamplePerTick, NEW t \in Nat, t > now, NEW samples \in SampleSets,
           TickAt(t, samples), TypeInvariant', OneSamplePerTick'
    PROVE  SpanEvidence'
<1> SUFFICES ASSUME NEW a \in actions', ~IsDose(a.rule), tickInterval' > 0,
                    NEW d \in 1..Config[a.rule].window, Apart(window'[a.rule], d)
             PROVE  \E s \in window'[a.rule] :
                      (now' - s.at + d) * (tickInterval' * Config[a.rule].fracDen)
                         >= d * (Config[a.rule].window * Scale * Config[a.rule].fracNum)
  BY DEF SpanEvidence, Apart
<1> DEFINE r == a.rule
           w == window'[r]
           n == Cardinality(w)
           i == tickInterval'
           b == i * Config[r].fracDen
           c == Config[r].window * Scale * Config[r].fracNum
<1>1. r \in Rules /\ Fires(r, samples, t)
  BY ActionFires DEF TickAt
<1>2. /\ now' = t /\ i = NextInterval(t)
      /\ w = NewWindow(r, samples, t)
  BY <1>1 DEF TickAt
<1>3. i \in Nat \ {0}
  BY <1>2, IntervalIsNat
<1>4. Evaluate(r, w, t, i) = "TRIGGER"
  BY <1>1, <1>2 DEF Fires, NewVerdict
<1>5. w # {} /\ ~(n < MinSamplesFor(r, i))
  BY <1>4, TriggerHasSamples
<1>6. /\ w \in SUBSET SampleType
      /\ \A s \in w : s.at <= t
      /\ \A s, u \in w : s.at = u.at => s = u
      /\ Apart(w, d)
  BY <1>1, <1>2 DEF TypeInvariant, TypeOK, OneSamplePerTick
<1>7. d \in Nat \ {0}
  BY <1>1, WindowFields
<1>8. n \in Nat /\ \E s \in w : n * d <= t - s.at + d
  BY <1>5, <1>6, <1>7, WindowSpan
<1>9. PICK s \in w : n * d <= t - s.at + d
  BY <1>8
<1>10. MinSamplesFor(r, i) \in Nat /\ c <= MinSamplesFor(r, i) * b
  BY <1>1, <1>3, MinSamplesFacts
<1>11. b \in Nat /\ c \in Nat
  <2>1. Config[r].window * Scale \in Nat
    BY <1>1, WindowFields, BoundsAssumption, ProductIsNat
  <2>2. QED  BY <1>1, <1>3, <2>1, WindowFields, ProductIsNat
<1>12. t - s.at + d \in Nat
  BY <1>6, <1>7 DEF SampleType
<1>13. c <= n * b
  <2>1. MinSamplesFor(r, i) * b <= n * b
    BY <1>5, <1>8, <1>10, <1>11, ProductGrows
  <2>2. MinSamplesFor(r, i) * b \in Nat /\ n * b \in Nat
    BY <1>8, <1>10, <1>11, ProductIsNat
  <2>3. QED  BY <1>10, <1>11, <2>1, <2>2
<1> HIDE DEF n, b, c, i, w, r
<1>14. d * c <= (t - s.at + d) * b
  <2>1. d * c <= d * (n * b)
    BY <1>7, <1>8, <1>11, <1>13, ProductIsNat, ProductGrows
  <2>2. d * (n * b) = (n * d) * b
    BY <1>7, <1>8, <1>11
  <2>3. (n * d) * b <= (t - s.at + d) * b
    BY <1>7, <1>8, <1>9, <1>11, <1>12, ProductIsNat, ProductGrows
  <2>4. /\ d * c \in Nat /\ d * (n * b) \in Nat
        /\ (n * d) * b \in Nat /\ (t - s.at + d) * b \in Nat
    BY <1>7, <1>8, <1>11, <1>12, ProductIsNat
  <2>5. QED  BY <2>1, <2>2, <2>3, <2>4
<1>15. (t - s.at + d) * b >= d * c
  <2>1. d * c \in Nat /\ (t - s.at + d) * b \in Nat
    BY <1>7, <1>11, <1>12, ProductIsNat
  <2>2. QED  BY <1>14, <2>1
<1>16. QED  BY <1>2, <1>9, <1>15 DEF b, c, i, w, r

LEMMA TickOver ==
    ASSUME IInv, OneSamplePerTick, NEW t \in Nat, t > now, NEW samples \in SampleSets,
           TickAt(t, samples), TypeInvariant', OneSamplePerTick'
    PROVE  OverEvidence'
<1> SUFFICES ASSUME NEW a \in actions', ~IsDose(a.rule)
             PROVE  /\ {s \in window'[a.rule] : IsOver(a.rule, s.value)} # {}
                    /\ Cardinality({s \in window'[a.rule] : IsOver(a.rule, s.value)})
                           * Config[a.rule].fracDen
                         >= Config[a.rule].fracNum * Cardinality(window'[a.rule])
  BY DEF OverEvidence, IsOver
<1> DEFINE r == a.rule
           w == window'[r]
           over == {s \in w : IsOver(r, s.value)}
<1>1. r \in Rules /\ Fires(r, samples, t)
  BY ActionFires DEF TickAt
<1>2. now' = t /\ w = NewWindow(r, samples, t)
  BY <1>1 DEF TickAt
<1>3. Evaluate(r, w, t, NextInterval(t)) = "TRIGGER"
  BY <1>1, <1>2 DEF Fires, NewVerdict
<1>4. Cardinality(over) * Config[r].fracDen >= Config[r].fracNum * Cardinality(w)
  BY <1>3, TriggerIsOver
<1>5. /\ w # {} /\ w \in SUBSET SampleType
      /\ \A s \in w : s.at <= t
      /\ \A s, u \in w : s.at = u.at => s = u
  BY <1>1, <1>2, <1>3, TriggerHasSamples DEF TypeInvariant, TypeOK, OneSamplePerTick
<1>6. IsFiniteSet(w) /\ Cardinality(w) \in Nat
  <2>1. Apart(w, 1)
    BY <1>5 DEF Apart, SampleType
  <2> HIDE DEF w
  <2>2. QED  BY <1>5, <2>1, WindowSpan
<1>7. Config[r].fracDen \in Nat /\ Config[r].fracNum \in Nat \ {0}
  BY <1>1, WindowFields
<1> HIDE DEF w, r
<1>8. Cardinality(w) # 0
  BY <1>5, <1>6, FS_EmptySet
<1>9. ASSUME over = {} PROVE FALSE
  <2>1. Cardinality(over) = 0
    BY <1>9, FS_EmptySet
  <2>2. Cardinality(over) * Config[r].fracDen = 0
    BY <1>7, <2>1
  <2>3. Config[r].fracNum * Cardinality(w) \in Nat \ {0}
    BY <1>6, <1>7, <1>8, ProductIsNat
  <2>4. QED  BY <1>4, <2>2, <2>3
<1>10. QED  BY <1>4, <1>9 DEF w, r

LEMMA TickEvidence ==
    ASSUME IInv, OneSamplePerTick, NEW t \in Nat, t > now, NEW samples \in SampleSets,
           TickAt(t, samples), TypeInvariant', OneSamplePerTick'
    PROVE  SustainedEvidence'
<1>1. SpanEvidence' /\ OverEvidence'
  BY TickSpan, TickOver
<1>2. QED  BY <1>1 DEF SpanEvidence, OverEvidence, SustainedEvidence

\* A tick adds to a window what the rule has read in it.
LEMMA TickReadings ==
    ASSUME IInv, WindowIsRead, NEW t \in Nat, t > now, NEW samples \in SampleSets,
           TickAt(t, samples), Observe(samples, t)
    PROVE  WindowIsRead'
<1> SUFFICES ASSUME NEW r \in Rules, NEW s \in window'[r]
             PROVE  readAt'[r] # Never /\ s.at <= readAt'[r]
  BY DEF WindowIsRead
<1>1. readAt'[r] = IF GotSample(r, samples) THEN t ELSE readAt[r]
  BY DEF Observe
<1>2. window'[r] = NewWindow(r, samples, t)
  BY DEF TickAt
<1>3. CASE s \in window[r]
  <2>1. readAt[r] # Never /\ s.at <= readAt[r]
    BY <1>3 DEF WindowIsRead
  <2>2. s.at \in Nat /\ readAt[r] \in Nat \cup {Never} /\ readAt[r] <= now /\ now \in Nat
    BY <1>3 DEF IInv, ClockInv, TypeInvariant, TypeOK, HistoryTypeOK, SampleType
  <2>3. QED  BY <1>1, <2>1, <2>2 DEF Never
<1>4. CASE s \notin window[r]
  <2>1. GotSample(r, samples) /\ s = [at |-> t, value |-> Reading(r, samples)]
    BY <1>2, <1>4 DEF NewWindow, Evict
  <2>2. QED  BY <1>1, <2>1 DEF Never
<1>5. QED  BY <1>3, <1>4

\* Samples as old as the starvation limit are stale at the usual cadence.
LEMMA SilenceIsStale ==
    ASSUME NEW t \in Nat, NEW at \in Nat, NEW interval \in Nat,
           t - at >= StarvationAfter, ~(5 * interval >= 2 * Scale * StarvationAfter)
    PROVE  IsStale(at, t, interval)
<1>1. Scale \in Nat /\ StarvationAfter \in Nat /\ MaxSampleAge \in Nat
  BY BoundsAssumption
<1>2. StarvationAfter <= t - at /\ t - at \in Nat
  BY <1>1
<1>3. 2 * Scale * StarvationAfter <= 2 * Scale * (t - at)
  BY <1>1, <1>2, ProductGrows
<1>4. /\ 2 * Scale * StarvationAfter \in Nat
      /\ 2 * Scale * (t - at) \in Nat
  BY <1>1, <1>2, ProductIsNat
<1>5. 2 * Scale * (t - at) > 5 * interval
  BY <1>3, <1>4
<1>6. t - at > MaxSampleAge
  BY <1>1, <1>2, AgeAssumption
<1>7. QED  BY <1>5, <1>6 DEF IsStale

\* A tick that finds a rule starved finds its window stale.
LEMMA TickAbstains ==
    ASSUME IInv, NEW t \in Nat, t > now, NEW samples \in SampleSets,
           TickAt(t, samples), Observe(samples, t),
           TypeInvariant', StarvedExactly', WindowIsRead'
    PROVE  StarvedRulesAbstain'
<1> SUFFICES ASSUME NEW r \in Rules, starved'[r],
                    IsDose(r) \/ ~(5 * tickInterval' >= 2 * Scale * StarvationAfter)
             PROVE  verdict'[r] = "INSUFFICIENT"
  BY DEF StarvedRulesAbstain
<1>1. /\ now' = t
      /\ tickInterval' = NextInterval(t)
      /\ window'[r] = NewWindow(r, samples, t)
      /\ verdict'[r] = NewVerdict(r, samples, t)
      /\ IsStarved(r, samples, t)
  BY DEF TickAt, TrackStarvation
<1>2. CASE IsDose(r)
  BY <1>1, <1>2 DEF NewVerdict, IsStarved
<1>3. CASE ~IsDose(r)
  <2>1. ASSUME NEW s \in window'[r] PROVE IsStale(s.at, t, tickInterval')
    <3>1. readAt'[r] # Never /\ s.at <= readAt'[r]
      BY DEF WindowIsRead
    <3>2. t - readAt'[r] >= StarvationAfter
      BY <1>1, <3>1 DEF StarvedExactly
    <3>3. s.at \in Nat /\ readAt'[r] \in Nat /\ tickInterval' \in Nat
      BY <3>1 DEF TypeInvariant, TypeOK, HistoryTypeOK, SampleType
    <3>4. StarvationAfter \in Nat
      BY BoundsAssumption
    <3>5. t - s.at >= StarvationAfter
      BY <3>1, <3>2, <3>3, <3>4
    <3>6. QED  BY <1>3, <3>3, <3>5, SilenceIsStale
  <2>2. QED  BY <1>1, <1>3, <2>1 DEF NewVerdict, Evaluate
<1>4. QED  BY <1>2, <1>3

\* Only a tick touches the windows, the actions and the cadence.
LEMMA OtherStepsKeep ==
    ASSUME [Next]_vars, ~ObservedTick
    PROVE  UNCHANGED <<now, window, actions, lastTickAt, tickInterval, hotSince,
                       lastFired, heldBack, unable>>
BY DEF Next, ObservedPause, ObservedUnpause, ObservedDrain, Pause, Unpause,
   SetPaused, Drain, historyVars, engineVars, vars

\* _track_starvation() flags a rule exactly while its signal has been silent for
\* the starvation limit; and, by evaluate_window() and max_sample_age_for_tick(),
\* while 2.5 ticks are shorter than that limit, what was read before the silence
\* is no verdict.
THEOREM StarvationExact == Spec => []StarvedIsSilence
<1>1. Init => AbstainInv
  <2>1. Init => WindowIsRead /\ StarvedRulesAbstain
    BY DEF Init, EngineInit, WindowIsRead, StarvedRulesAbstain
  <2>2. QED  BY <2>1, InitIInv DEF AbstainInv
<1>2. ASSUME AbstainInv, [Next]_vars PROVE AbstainInv'
  <2>1. IInv'
    BY <1>2, StepIInv DEF AbstainInv
  <2>2. CASE ObservedTick
    <3>1. PICK gap \in Gaps, samples \in SampleSets :
             TickAt(now + gap, samples) /\ Observe(samples, now + gap)
      BY <2>2 DEF ObservedTick
    <3>2. now + gap \in Nat /\ now + gap > now
      BY <1>2, BoundsAssumption DEF AbstainInv, IInv, TypeInvariant, TypeOK
    <3>3. WindowIsRead'
      BY <1>2, <3>1, <3>2, TickReadings DEF AbstainInv
    <3>4. StarvedRulesAbstain'
      BY <1>2, <2>1, <3>1, <3>2, <3>3, TickAbstains DEF AbstainInv, IInv
    <3>5. QED  BY <2>1, <3>3, <3>4 DEF AbstainInv
  <2>3. CASE ~ObservedTick
    <3>1. UNCHANGED <<window, readAt, starved, verdict, tickInterval>>
      BY <1>2, <2>3 DEF Next, ObservedPause, ObservedUnpause, ObservedDrain, Pause,
         Unpause, SetPaused, Drain, historyVars, engineVars, vars
    <3>2. QED  BY <1>2, <2>1, <3>1 DEF AbstainInv, WindowIsRead, StarvedRulesAbstain
  <2>4. QED  BY <2>2, <2>3
<1>3. AbstainInv => StarvedIsSilence
  BY DEF AbstainInv, IInv, StarvedIsSilence
<1>4. QED  BY <1>1, <1>2, <1>3, PTL DEF Spec

\* evaluate_window() and min_samples_for(): a window rule acts only on samples
\* that span the configured fraction of its window and of which that fraction is
\* over its threshold, at whatever cadence the service ticks.
THEOREM EvidenceIsSustained == Spec => []SustainedEvidence
<1>1. Init => EvidenceInv
  <2>1. Init => OneSamplePerTick /\ SustainedEvidence
    BY DEF Init, EngineInit, OneSamplePerTick, SustainedEvidence
  <2>2. QED  BY <2>1, InitIInv DEF EvidenceInv
<1>2. ASSUME EvidenceInv, [Next]_vars PROVE EvidenceInv'
  <2>1. IInv'
    BY <1>2, StepIInv DEF EvidenceInv
  <2>2. CASE ObservedTick
    <3>1. PICK gap \in Gaps, samples \in SampleSets :
             TickAt(now + gap, samples) /\ Observe(samples, now + gap)
      BY <2>2 DEF ObservedTick
    <3>2. now + gap \in Nat /\ now + gap > now
      BY <1>2, BoundsAssumption DEF EvidenceInv, IInv, TypeInvariant, TypeOK
    <3>3. OneSamplePerTick'
      BY <1>2, <3>1, <3>2, TickOneSample DEF EvidenceInv
    <3>4. SustainedEvidence'
      BY <1>2, <2>1, <3>1, <3>2, <3>3, TickEvidence DEF EvidenceInv, IInv
    <3>5. QED  BY <2>1, <3>3, <3>4 DEF EvidenceInv
  <2>3. CASE ~ObservedTick
    <3>1. UNCHANGED <<now, window, actions, tickInterval>>
      BY <1>2, <2>3, OtherStepsKeep
    <3>2. OneSamplePerTick'
      BY <1>2, <3>1 DEF EvidenceInv, OneSamplePerTick
    <3>3. SustainedEvidence'
      BY <1>2, <3>1 DEF EvidenceInv, SustainedEvidence
    <3>4. QED  BY <2>1, <3>2, <3>3 DEF EvidenceInv
  <2>4. QED  BY <2>2, <2>3
<1>3. EvidenceInv => SustainedEvidence
  BY DEF EvidenceInv
<1>4. QED  BY <1>1, <1>2, <1>3, PTL DEF Spec
\* The smoothed interval never gets below the shortest distance of two ticks.
LEMMA TickCadence ==
    ASSUME NEW lo \in Nat \ {0}, NEW hi \in Nat \ {0}, CadenceFits(lo, hi),
           IInv, CadenceInv(lo), NEW gap \in Gaps, NEW samples \in SampleSets,
           TickAt(now + gap, samples), Observe(samples, now + gap)
    PROVE  CadenceInv(lo)'
<1> DEFINE t == now + gap
<1>1. /\ now \in Nat /\ gap \in Nat /\ lo <= gap /\ gap <= MaxPlausibleGap
      /\ tickInterval \in Nat /\ Scale \in Nat /\ Scale >= 1 /\ MaxPlausibleGap \in Nat
      /\ hotSince \in [Rules -> Nat \cup {Never}]
  BY BoundsAssumption DEF IInv, TypeInvariant, TypeOK, HistoryTypeOK, CadenceFits
<1>2. /\ now' = t /\ lastTickAt' = t /\ tickInterval' = NextInterval(t)
      /\ hotSince' = [r \in Rules |->
                        IF ~IsHot(r, samples) THEN Never
                        ELSE IF hotSince[r] = Never THEN t ELSE hotSince[r]]
  BY DEF TickAt, Observe
<1>3. lo * Scale \in Nat /\ lo * Scale >= 1
  <2>1. lo * 1 <= lo * Scale
    BY <1>1, ProductGrows
  <2>2. lo * Scale \in Nat
    BY <1>1, ProductIsNat
  <2>3. QED  BY <2>1, <2>2
<1>4. ASSUME lastTickAt # Never PROVE tickInterval' >= lo * Scale
  <2>1. t - lastTickAt = gap /\ gap > 0
    BY <1>1, <1>4 DEF CadenceInv
  <2>2. gap * Scale \in Nat /\ lo * Scale <= gap * Scale
    BY <1>1, ProductIsNat, ProductGrows
  <2>3. ~(lastTickAt = Never \/ t - lastTickAt <= 0 \/ t - lastTickAt > MaxPlausibleGap)
    BY <1>1, <1>4, <2>1
  <2>4. tickInterval' = IF tickInterval = 0 THEN gap * Scale
                        ELSE (4 * tickInterval + gap * Scale) \div 5
    BY <1>2, <2>1, <2>3 DEF NextInterval
  <2>5. CASE tickInterval = 0
    BY <1>3, <2>2, <2>4, <2>5
  <2>6. CASE tickInterval # 0
    <3>1. tickInterval >= lo * Scale
      BY <2>6 DEF CadenceInv
    <3> DEFINE a == lo * Scale
               b == gap * Scale
    <3>2. a \in Nat /\ b \in Nat /\ a <= b /\ tickInterval >= a
      BY <1>3, <2>2, <3>1
    <3>3. tickInterval' = (4 * tickInterval + b) \div 5
      BY <2>4, <2>6
    <3> HIDE DEF a, b
    <3>4. (4 * tickInterval + b) \div 5 >= a
      BY <1>1, <3>2
    <3>5. QED  BY <3>3, <3>4 DEF a
  <2>7. QED  BY <2>5, <2>6
<1>5. tickInterval' = 0 \/ tickInterval' >= lo * Scale
  <2>1. CASE lastTickAt = Never
    BY <1>2, <2>1 DEF NextInterval, CadenceInv
  <2>2. CASE lastTickAt # Never
    BY <1>4, <2>2
  <2>3. QED  BY <2>1, <2>2
<1>6. ASSUME NEW r \in Rules, hotSince'[r] # Never
      PROVE  hotSince'[r] <= t /\ (tickInterval' = 0 => hotSince'[r] = t)
  <2>1. CASE hotSince[r] = Never
    BY <1>1, <1>2, <1>6, <2>1
  <2>2. CASE hotSince[r] # Never
    <3>1. lastTickAt # Never /\ hotSince[r] <= now
      BY <1>1, <2>2 DEF CadenceInv, Never
    <3>2. hotSince'[r] = hotSince[r]
      BY <1>2, <1>6, <2>2
    <3>3. tickInterval' # 0
      BY <1>3, <1>4, <3>1
    <3>4. QED  BY <1>1, <3>1, <3>2, <3>3 DEF Never
  <2>3. QED  BY <2>1, <2>2
<1>7. QED  BY <1>2, <1>5, <1>6 DEF CadenceInv

\* A hot tick leaves its sample in the window, and no gap wider than a tick.
LEMMA TickFills ==
    ASSUME NEW lo \in Nat \ {0}, NEW hi \in Nat \ {0}, CadenceFits(lo, hi),
           IInv, CadenceInv(lo), OneSamplePerTick, FilledWhileHot(hi),
           NEW gap \in Gaps, NEW samples \in SampleSets,
           TickAt(now + gap, samples), Observe(samples, now + gap)
    PROVE  FilledWhileHot(hi)'
<1> DEFINE t == now + gap
<1> SUFFICES ASSUME NEW r \in WindowRules, hotSince'[r] # Never
             PROVE  /\ \E s \in window'[r] : s.at = now'
                    /\ \A s \in window'[r] : s.at >= hotSince'[r] => IsOver(r, s.value)
                    /\ \A x \in hotSince'[r]..now' :
                         x - hi + 1 >= now' - Config[r].window - Slack
                         => \E s \in window'[r] : x - hi < s.at /\ s.at <= x
  BY DEF FilledWhileHot, WindowRules
<1> DEFINE e == [at |-> t, value |-> Reading(r, samples)]
<1>1. /\ r \in Rules /\ ~IsDose(r)
      /\ now \in Nat /\ gap \in Nat \ {0} /\ gap <= hi /\ Slack \in Nat
      /\ Config[r].window \in Nat
      /\ hotSince[r] \in Nat \cup {Never}
      /\ window[r] \subseteq SampleType
  BY BoundsAssumption, WindowFields
  DEF WindowRules, IInv, TypeInvariant, TypeOK, HistoryTypeOK, CadenceFits
<1>2. /\ now' = t
      /\ window'[r] = NewWindow(r, samples, t)
      /\ hotSince'[r] = IF ~IsHot(r, samples) THEN Never
                        ELSE IF hotSince[r] = Never THEN t ELSE hotSince[r]
  BY <1>1 DEF TickAt, Observe
<1>3. IsHot(r, samples) /\ GotSample(r, samples) /\ IsOver(r, Reading(r, samples))
  BY <1>2 DEF IsHot, IsOver
<1>4. window'[r] = {s \in window[r] \cup {e} : s.at >= t - Config[r].window - Slack}
  BY <1>1, <1>2, <1>3 DEF NewWindow, Evict
<1>5. e.at = t /\ e \in window'[r]
  <2>1. t >= t - Config[r].window - Slack
    BY <1>1
  <2>2. QED  BY <1>4, <2>1
<1>6. hotSince[r] # Never =>
        /\ hotSince[r] <= now
        /\ \E s \in window[r] : s.at = now
        /\ \A s \in window[r] : s.at >= hotSince[r] => IsOver(r, s.value)
        /\ \A x \in hotSince[r]..now : x - hi + 1 >= now - Config[r].window - Slack
             => \E s \in window[r] : x - hi < s.at /\ s.at <= x
  BY <1>1 DEF FilledWhileHot, CadenceInv
<1>7. ASSUME NEW s \in window'[r], s.at >= hotSince'[r] PROVE IsOver(r, s.value)
  <2>1. CASE s = e
    BY <1>3, <2>1
  <2>2. CASE s \in window[r]
    <3>1. s.at \in Nat /\ s.at <= now
      BY <1>1, <2>2 DEF OneSamplePerTick, SampleType
    <3>2. hotSince[r] # Never
      BY <1>1, <1>2, <1>3, <1>7, <3>1
    <3>3. hotSince'[r] = hotSince[r]
      BY <1>2, <1>3, <3>2
    <3>4. QED  BY <1>6, <1>7, <2>2, <3>2, <3>3
  <2>3. QED  BY <1>4, <1>7, <2>1, <2>2
<1>8. ASSUME NEW x \in hotSince'[r]..t, x - hi + 1 >= t - Config[r].window - Slack
      PROVE  \E s \in window'[r] : x - hi < s.at /\ s.at <= x
  <2>1. x \in Int /\ x <= t /\ hotSince'[r] <= x
    BY <1>1, <1>2
  <2>2. CASE x = t
    <3>1. x - hi < e.at /\ e.at <= x
      BY <1>1, <1>5, <2>2
    <3>2. QED  BY <1>5, <3>1
  <2>3. CASE x # t
    <3>1. hotSince[r] # Never /\ hotSince'[r] = hotSince[r]
      BY <1>1, <1>2, <1>3, <2>1, <2>3
    <3>2. CASE x > now
      <4>1. PICK s \in window[r] : s.at = now
        BY <1>6, <3>1
      <4>2. x - hi < s.at /\ s.at <= x
        BY <1>1, <2>1, <2>3, <3>2, <4>1
      <4>3. s \in window'[r]
        BY <1>1, <1>4, <1>8, <2>1, <4>1, <4>2
      <4>4. QED  BY <4>2, <4>3
    <3>3. CASE x <= now
      <4>1. x \in hotSince[r]..now /\ x - hi + 1 >= now - Config[r].window - Slack
        BY <1>1, <1>8, <2>1, <3>1, <3>3
      <4>2. PICK s \in window[r] : x - hi < s.at /\ s.at <= x
        BY <1>6, <3>1, <4>1
      <4>3. s.at \in Nat
        BY <1>1, <4>2 DEF SampleType
      <4>4. s \in window'[r]
        BY <1>1, <1>4, <1>8, <2>1, <4>2, <4>3
      <4>5. QED  BY <4>2, <4>4
    <3>4. QED  BY <1>1, <2>1, <3>2, <3>3
  <2>4. QED  BY <2>2, <2>3
<1>9. QED  BY <1>2, <1>5, <1>7, <1>8
\* A window with a sample now and one in each tick before holds all it can ask for.
LEMMA EnoughSamples ==
    ASSUME NEW lo \in Nat \ {0}, NEW hi \in Nat \ {0}, CadenceFits(lo, hi),
           NEW r \in WindowRules, NEW t \in Nat, NEW since \in Nat,
           t - since >= Config[r].window + Slack,
           NEW interval \in Nat \ {0}, interval >= lo * Scale,
           NEW w \in SUBSET SampleType,
           \A s \in w : s.at <= t,
           \A s, u \in w : s.at = u.at => s = u,
           \E s \in w : s.at = t,
           \A x \in since..t : x - hi + 1 >= t - Config[r].window - Slack
             => \E s \in w : x - hi < s.at /\ s.at <= x
    PROVE  Cardinality(w) \in Nat /\ Cardinality(w) >= MinSamplesFor(r, interval)
<1> DEFINE c == Config[r]
           K == c.window \div hi
           T == {s.at : s \in w}
           n == Cardinality(w)
<1>1. /\ r \in Rules /\ Slack \in Nat /\ Scale \in Nat
      /\ c.window \in Nat \ {0} /\ c.fracNum \in Nat /\ c.fracDen \in Nat
  BY WindowFields, BoundsAssumption DEF WindowRules
<1>2. K \in Nat /\ K * hi <= c.window
  BY <1>1, DivFacts
<1>3. IsFiniteSet(w) /\ n \in Nat
  <2>1. Apart(w, 1) /\ w # {} /\ 1 \in Nat \ {0}
    BY DEF Apart, SampleType
  <2>2. QED  BY <2>1, WindowSpan
<1>4. T \in SUBSET Int /\ t \in T
  BY DEF SampleType
<1>5. [s \in w |-> s.at] \in Surjection(w, T)
  BY DEF Surjection
<1>6. IsFiniteSet(T) /\ Cardinality(T) <= n
  <2> HIDE DEF T
  <2>1. QED  BY <1>3, <1>5, FS_Surjection
<1>7. ASSUME NEW k \in 1..K
      PROVE  \E x \in T : t - hi * k <= x /\ x < t - hi * (k - 1)
  <2> DEFINE x == t - 1 - hi * (k - 1)
  <2>1. k \in Nat /\ k >= 1 /\ k <= K
    BY <1>2
  <2>2. hi * k \in Nat /\ hi * (k - 1) \in Nat /\ hi * k = hi * (k - 1) + hi
    <3>1. k - 1 \in Nat
      BY <2>1
    <3>2. hi * k \in Nat /\ hi * (k - 1) \in Nat
      BY <2>1, <3>1, ProductIsNat
    <3>3. hi * k = hi * (k - 1) + hi
      BY <2>1
    <3>4. QED  BY <3>2, <3>3
  <2>3. hi * k <= c.window
    <3>1. k * hi <= K * hi
      BY <1>2, <2>1, ProductGrows
    <3>2. k * hi = hi * k /\ K * hi \in Nat
      BY <1>2, <2>1, ProductIsNat
    <3> HIDE DEF K
    <3>3. QED  BY <1>1, <1>2, <2>2, <3>1, <3>2
  <2> HIDE DEF K, T
  <2>4. x \in since..t
    BY <1>1, <2>2, <2>3
  <2>5. x - hi + 1 >= t - c.window - Slack
    BY <1>1, <2>2, <2>3
  <2>6. PICK s \in w : x - hi < s.at /\ s.at <= x
    BY <2>4, <2>5
  <2>7. s.at \in Nat
    BY DEF SampleType
  <2>8. t - hi * k <= s.at /\ s.at < t - hi * (k - 1)
    BY <2>2, <2>6, <2>7
  <2>9. QED  BY <2>8 DEF T
<1>8. K + 1 <= n
  <2> HIDE DEF K, T, n
  <2>1. Cardinality(T) \in Nat /\ K + 1 <= Cardinality(T)
    BY <1>2, <1>4, <1>6, <1>7, FilledAreMany
  <2>2. QED  BY <1>2, <1>3, <1>6, <2>1
<1>9. /\ MinSamplesFloor <= K + 1
      /\ c.window * c.fracNum <= (K + 1) * (lo * c.fracDen)
  BY DEF CadenceFits
<1>10. c.window * Scale * c.fracNum <= (K + 1) * (interval * c.fracDen)
  <2> DEFINE W == c.window
             f == c.fracNum
             D == c.fracDen
             S == Scale
             m == K + 1
  <2>1. W \in Nat /\ f \in Nat /\ D \in Nat /\ S \in Nat /\ m \in Nat
    BY <1>1, <1>2
  <2>2. W * f <= m * (lo * D)
    BY <1>9
  <2>3. interval >= lo * S
    OBVIOUS
  <2> HIDE DEF W, f, D, S, m
  <2>4. W * f \in Nat /\ lo * D \in Nat /\ lo * S \in Nat
    BY <2>1, ProductIsNat
  <2>5. m * (lo * D) \in Nat
    BY <2>1, <2>4, ProductIsNat
  <2>6. (W * f) * S <= (m * (lo * D)) * S
    BY <2>1, <2>2, <2>4, <2>5, ProductGrows
  <2>7. W * S * f = (W * f) * S /\ (m * (lo * D)) * S = m * ((lo * S) * D)
    <3>1. W * S * f = (W * f) * S
      BY <2>1
    <3>2. (m * (lo * D)) * S = m * ((lo * D) * S)
      BY <2>1, <2>4
    <3>3. (lo * D) * S = (lo * S) * D
      BY <2>1
    <3>4. QED  BY <3>1, <3>2, <3>3
  <2>8. (lo * S) * D <= interval * D
    BY <2>1, <2>3, <2>4, ProductGrows
  <2>9. (lo * S) * D \in Nat /\ interval * D \in Nat
    BY <2>1, <2>4, ProductIsNat
  <2>10. m * ((lo * S) * D) <= m * (interval * D)
    BY <2>1, <2>8, <2>9, ProductGrows
  <2>11. /\ (W * f) * S \in Nat /\ m * ((lo * S) * D) \in Nat
         /\ m * (interval * D) \in Nat
    BY <2>1, <2>4, <2>9, ProductIsNat
  <2>12. W * S * f <= m * (interval * D)
    BY <2>6, <2>7, <2>10, <2>11
  <2>13. QED  BY <2>12 DEF W, f, D, S, m
<1>11. MinSamplesFor(r, interval) \in Nat /\ MinSamplesFor(r, interval) <= K + 1
  <2>1. K + 1 \in Nat
    BY <1>2
  <2>2. QED  BY <1>1, <1>9, <1>10, <2>1, MinSamplesFacts
<1> HIDE DEF K, n
<1>12. n >= MinSamplesFor(r, interval)
  BY <1>2, <1>3, <1>8, <1>11
<1>13. QED  BY <1>3, <1>12 DEF n
\* A rule hot for a whole window triggers in the tick, so it acts unless it is
\* cooling down or paused.
LEMMA TickHotFires ==
    ASSUME NEW lo \in Nat \ {0}, NEW hi \in Nat \ {0}, CadenceFits(lo, hi),
           IInv, CadenceInv(lo), NEW gap \in Gaps, NEW samples \in SampleSets,
           TickAt(now + gap, samples), Observe(samples, now + gap),
           TypeInvariant', OneSamplePerTick', CadenceInv(lo)', FilledWhileHot(hi)'
    PROVE  HotRuleFires'
<1> DEFINE t == now + gap
<1> SUFFICES ASSUME NEW r \in WindowRules, hotSince'[r] # Never,
                    now' - hotSince'[r] >= Config[r].window + Slack
             PROVE  \/ lastFired'[r] # Never /\ now' < lastFired'[r] + Config[r].cooldown
                    \/ lastFired'[r] = now'
                    \/ heldBack'
  BY DEF HotRuleFires, WindowRules
<1> DEFINE w == window'[r]
           i == tickInterval'
           c == Config[r]
<1>1. /\ r \in Rules /\ ~IsDose(r)
      /\ now \in Nat /\ gap \in Nat \ {0} /\ t \in Nat /\ Slack \in Nat
      /\ MaxSampleAge \in Nat
      /\ c.window \in Nat \ {0} /\ c.fracNum \in Nat /\ c.fracDen \in Nat
      /\ c.fracNum <= c.fracDen
      /\ hotSince'[r] \in Nat
      /\ w \in SUBSET SampleType
      /\ i \in Nat
  <2>1. r \in Rules /\ ~IsDose(r)
    BY DEF WindowRules
  <2>2. now \in Nat /\ gap \in Nat \ {0} /\ Slack \in Nat /\ MaxSampleAge \in Nat
    BY BoundsAssumption DEF IInv, TypeInvariant, TypeOK
  <2>3. window'[r] \in SUBSET SampleType /\ tickInterval' \in Nat
    BY <2>1 DEF TypeInvariant, TypeOK
  <2>4. hotSince'[r] \in Nat
    BY <2>1 DEF TypeInvariant, HistoryTypeOK
  <2>5. QED  BY <2>1, <2>2, <2>3, <2>4, WindowFields
<1>2. /\ now' = t /\ i = NextInterval(t)
      /\ w = NewWindow(r, samples, t)
      /\ lastFired'[r] = IF Acts(r) THEN t ELSE lastFired[r]
      /\ heldBack' = (t < pausedUntil)
      /\ Acts(r) <=> Fires(r, samples, t)
  BY <1>1, ActsIffFires DEF TickAt, Observe
<1>3. /\ \A s \in w : s.at <= t
      /\ \A s, u \in w : s.at = u.at => s = u
      /\ \E s \in w : s.at = t
      /\ \A s \in w : s.at >= hotSince'[r] => IsOver(r, s.value)
      /\ \A x \in hotSince'[r]..t : x - hi + 1 >= t - c.window - Slack
             => \E s \in w : x - hi < s.at /\ s.at <= x
  BY <1>1, <1>2 DEF OneSamplePerTick, FilledWhileHot, WindowRules
<1>4. i \in Nat \ {0} /\ i >= lo * Scale
  <2>1. i # 0
    BY <1>1, <1>2 DEF CadenceInv
  <2>2. QED  BY <1>1, <2>1 DEF CadenceInv
<1>5. \A s \in w : s.at >= t - c.window - Slack
  BY <1>1, <1>2 DEF NewWindow, Evict
<1>6. \A s \in w : IsOver(r, s.value)
  BY <1>1, <1>2, <1>3, <1>5 DEF SampleType
<1>7. Cardinality(w) \in Nat /\ Cardinality(w) >= MinSamplesFor(r, i)
  <2> HIDE DEF w, i
  <2>1. t - hotSince'[r] >= Config[r].window + Slack
    BY <1>2
  <2>2. QED  BY <1>1, <1>3, <1>4, <2>1, EnoughSamples
<1>8. MinSamplesFor(r, i) \in Nat
  BY <1>1, <1>4, MinSamplesFacts
<1>9. \E s \in w : ~IsStale(s.at, t, i)
  <2>1. PICK s \in w : s.at = t
    BY <1>3
  <2>2. ~(t - s.at > MaxSampleAge)
    BY <1>1, <2>1
  <2>3. QED  BY <2>2 DEF IsStale
<1>10. {s \in w : IsOver(r, s.value)} = w
  BY <1>6
<1>11. Cardinality(w) * c.fracDen >= c.fracNum * Cardinality(w)
  BY <1>1, <1>7, ProductGrows
<1>12. NewVerdict(r, samples, t) = "TRIGGER"
  <2>1. ~(Cardinality(w) < MinSamplesFor(r, i))
    BY <1>7, <1>8
  <2>2. Evaluate(r, w, t, i) = "TRIGGER"
    BY <1>9, <1>10, <1>11, <2>1 DEF Evaluate
  <2>3. QED  BY <1>1, <1>2, <2>2 DEF NewVerdict
<1>13. CASE Fires(r, samples, t)
  BY <1>2, <1>13
<1>14. CASE ~Fires(r, samples, t)
  <2>1. t < pausedUntil \/ ~(t >= cooldownUntil[r])
    BY <1>1, <1>12, <1>14 DEF Fires, IsCurrentlyPaused
  <2>2. /\ cooldownUntil[r] = IF lastFired[r] = Never THEN 0
                              ELSE lastFired[r] + Config[r].cooldown
        /\ cooldownUntil[r] \in Nat
    BY <1>1 DEF IInv, CooldownInv, TypeInvariant, TypeOK
  <2>3. lastFired'[r] = lastFired[r]
    BY <1>2, <1>14
  <2>4. CASE t < pausedUntil
    BY <1>2, <2>4
  <2>5. CASE ~(t >= cooldownUntil[r])
    BY <1>1, <1>2, <2>2, <2>3, <2>5
  <2>6. QED  BY <2>1, <2>4, <2>5
<1>15. QED  BY <1>13, <1>14

\* tick(): a window rule that read hot for as long as its window keeps samples
\* has acted, unless it is cooling down or paused, where the ticks are regular
\* enough for a full window to hold what min_samples_for() asks for.
THEOREM HotRulesFire ==
    ASSUME NEW lo \in Nat \ {0}, NEW hi \in Nat \ {0}, CadenceFits(lo, hi)
    PROVE  Spec => []HotRuleFires
<1>1. Init => HotInv(lo, hi)
  <2>1. Init => OneSamplePerTick /\ CadenceInv(lo) /\ FilledWhileHot(hi) /\ HotRuleFires
    BY DEF Init, EngineInit, HistoryInit, OneSamplePerTick, CadenceInv, FilledWhileHot,
       HotRuleFires, WindowRules
  <2>2. QED  BY <2>1, InitIInv DEF HotInv
<1>2. ASSUME HotInv(lo, hi), [Next]_vars PROVE HotInv(lo, hi)'
  <2>1. IInv'
    BY <1>2, StepIInv DEF HotInv
  <2>2. CASE ObservedTick
    <3>1. PICK gap \in Gaps, samples \in SampleSets :
             TickAt(now + gap, samples) /\ Observe(samples, now + gap)
      BY <2>2 DEF ObservedTick
    <3>2. now + gap \in Nat /\ now + gap > now
      BY <1>2, BoundsAssumption DEF HotInv, IInv, TypeInvariant, TypeOK
    <3>3. OneSamplePerTick'
      BY <1>2, <3>1, <3>2, TickOneSample DEF HotInv
    <3>4. CadenceInv(lo)'
      BY <1>2, <3>1, TickCadence DEF HotInv
    <3>5. FilledWhileHot(hi)'
      BY <1>2, <3>1, TickFills DEF HotInv
    <3>6. HotRuleFires'
      BY <1>2, <2>1, <3>1, <3>3, <3>4, <3>5, TickHotFires DEF HotInv, IInv
    <3>7. QED  BY <2>1, <3>3, <3>4, <3>5, <3>6 DEF HotInv
  <2>3. CASE ~ObservedTick
    <3>1. UNCHANGED <<now, window, lastTickAt, tickInterval, hotSince, lastFired,
                      heldBack, unable>>
      BY <1>2, <2>3, OtherStepsKeep
    <3>2. OneSamplePerTick' /\ CadenceInv(lo)'
      BY <1>2, <3>1 DEF HotInv, OneSamplePerTick, CadenceInv
    <3>3. FilledWhileHot(hi)' /\ HotRuleFires'
      BY <1>2, <3>1 DEF HotInv, FilledWhileHot, HotRuleFires, WindowRules
    <3>4. QED  BY <2>1, <3>2, <3>3 DEF HotInv
  <2>4. QED  BY <2>2, <2>3
<1>3. HotInv(lo, hi) => HotRuleFires
  BY DEF HotInv
<1>4. QED  BY <1>1, <1>2, <1>3, PTL DEF Spec
=============================================================================
