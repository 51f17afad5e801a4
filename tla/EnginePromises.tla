--------------------------- MODULE EnginePromises ---------------------------
(***************************************************************************)
(* What PolicyEngine promises, stated over the engine and a record of what  *)
(* was measured and what was done.  The history variables are computed from *)
(* the samples and the returned actions only, never from the engine's own   *)
(* bookkeeping, so an engine that loses track of either is caught.          *)
(***************************************************************************)
EXTENDS PolicyEngine

CONSTANT MaxPending    \* bound: undrained health changes of one rule

ASSUME PendingAssumption == MaxPending \in Nat \ {0}

\* dose_warn_fraction is below one, as config.py requires of it.
ASSUME WarnAssumption == \A r \in Rules : Config[r].warnNum < Config[r].warnDen

\* min_fraction_over is at most one, as config.py requires of it.
ASSUME FractionAssumption == \A r \in Rules : Config[r].fracNum <= Config[r].fracDen

\* max(2 / hz, 2) seconds against max(10, 5 / hz).
ASSUME AgeAssumption == MaxSampleAge < StarvationAfter

VARIABLES
    lastFired,         \* lastFired[r]: when the rule last acted
    hotSince,          \* hotSince[r]: start of the unbroken run of hot readings
    readAt,            \* readAt[r]: when the rule last got a reading
    measured,          \* measured[r]: heat measured since the rule last acted
    hotHeat,           \* hotHeat[r]: the part of it since the last cool reading
    paid,              \* paid[r]: heat measured up to the rule's last action
    warnings,          \* warnings[r]: warnings emitted in this dose episode
    announced,         \* announced[r]: a warning preceded the rule's last kill
    step,              \* distance between the last two ticks
    heldBack,          \* the last tick was taken while paused
    logged             \* logged[r]: last health event the service drained

historyVars == <<lastFired, hotSince, readAt, measured, hotHeat, paid,
                 warnings, announced, step, heldBack, logged>>

vars == <<engineVars, historyVars>>

HistoryTypeOK ==
    /\ lastFired \in [Rules -> Nat \cup {Never}]
    /\ hotSince \in [Rules -> Nat \cup {Never}]
    /\ readAt \in [Rules -> Nat \cup {Never}]
    /\ measured \in [Rules -> Nat]
    /\ hotHeat \in [Rules -> Nat]
    /\ paid \in [Rules -> Nat]
    /\ warnings \in [Rules -> Nat]
    /\ announced \in [Rules -> BOOLEAN]
    /\ step \in Nat
    /\ heldBack \in BOOLEAN
    /\ logged \in [Rules -> {"starved", "recovered"}]

HistoryInit ==
    /\ lastFired = [r \in Rules |-> Never]
    /\ hotSince = [r \in Rules |-> Never]
    /\ readAt = [r \in Rules |-> Never]
    /\ measured = [r \in Rules |-> 0]
    /\ hotHeat = [r \in Rules |-> 0]
    /\ paid = [r \in Rules |-> Config[r].budget]
    /\ warnings = [r \in Rules |-> 0]
    /\ announced = [r \in Rules |-> TRUE]
    /\ step = 0
    /\ heldBack = FALSE
    /\ logged = [r \in Rules |-> "recovered"]

Init == EngineInit /\ HistoryInit

\* The rule acted (a warning is not an action) in the tick now being taken.
Acts(r) == \E a \in actions' : a.rule = r /\ ~a.warning

SendsWarning(r) == \E a \in actions' : a.rule = r /\ a.warning

IsHot(r, samples) == GotSample(r, samples) /\ Reading(r, samples) > Config[r].threshold

\* A reading is trusted to cover the time since the one before it, up to a cap.
Covers(r, t) == readAt[r] # Never /\ t - readAt[r] <= DoseMaxGap

HeatGained(r, samples, t) ==
    IF IsHot(r, samples) /\ Covers(r, t)
    THEN (Reading(r, samples) - Config[r].threshold) * (t - readAt[r])
    ELSE 0

Observe(samples, t) ==
    /\ lastFired' = [r \in Rules |-> IF Acts(r) THEN t ELSE lastFired[r]]
    /\ hotSince' = [r \in Rules |->
                      IF ~IsHot(r, samples) THEN Never
                      ELSE IF hotSince[r] = Never THEN t ELSE hotSince[r]]
    /\ readAt' = [r \in Rules |-> IF GotSample(r, samples) THEN t ELSE readAt[r]]
    /\ measured' = [r \in Rules |->
                      IF Acts(r) THEN 0 ELSE measured[r] + HeatGained(r, samples, t)]
    /\ hotHeat' = [r \in Rules |->
                     IF \/ Acts(r)
                        \/ GotSample(r, samples) /\ ~(IsHot(r, samples) /\ Covers(r, t))
                     THEN 0 ELSE hotHeat[r] + HeatGained(r, samples, t)]
    /\ paid' = [r \in Rules |->
                  IF Acts(r) THEN measured[r] + HeatGained(r, samples, t) ELSE paid[r]]
    /\ warnings' = [r \in Rules |->
                      IF Acts(r) \/ dose'[r] = 0 THEN 0
                      ELSE IF SendsWarning(r) THEN warnings[r] + 1 ELSE warnings[r]]
    /\ announced' = [r \in Rules |-> IF Acts(r) THEN warnings[r] > 0 ELSE announced[r]]
    /\ step' = t - now
    /\ heldBack' = (t < pausedUntil)
    /\ UNCHANGED logged

ObservedTick ==
    \E gap \in Gaps, samples \in SampleSets :
        /\ now + gap <= MaxTime
        /\ \A r \in Rules : Len(changes[r]) < MaxPending
        /\ TickAt(now + gap, samples)
        /\ Observe(samples, now + gap)

ObservedPause == Pause /\ UNCHANGED historyVars

ObservedUnpause == Unpause /\ UNCHANGED historyVars

LastChange(r) ==
    IF changes[r] = <<>> THEN logged[r] ELSE changes[r][Len(changes[r])]

ObservedDrain ==
    /\ Drain
    /\ logged' = [r \in Rules |-> LastChange(r)]
    /\ UNCHANGED <<lastFired, hotSince, readAt, measured, hotHeat, paid,
                   warnings, announced, step, heldBack>>

Next == ObservedTick \/ ObservedPause \/ ObservedUnpause \/ ObservedDrain

Spec == Init /\ [][Next]_vars

TypeInvariant == TypeOK /\ HistoryTypeOK
-----------------------------------------------------------------------------
WindowRules == {r \in Rules : ~IsDose(r)}
DoseRules   == {r \in Rules : IsDose(r)}

\* Two actions of one rule are at least its cooldown apart, whatever the
\* pauses, the missing samples and the warnings in between.
CooldownSpacing ==
    [][\A r \in Rules :
         lastFired[r] # Never /\ lastFired'[r] # lastFired[r]
            => lastFired'[r] >= lastFired[r] + Config[r].cooldown]_vars

\* The engine implements the gate the service relies on: whatever is measured,
\* a rule acts at most once per cooldown and never during a pause.
Gate == INSTANCE ActionGate
          WITH Cooldown <- [r \in Rules |-> Config[r].cooldown],
               lastActed <- lastFired

IsActionGate == Gate!Spec

\* A rule is flagged starved exactly while its signal has been silent for
\* StarvationAfter: since its last sample, or since the first tick if none came.
StarvedExactly ==
    \A r \in Rules :
        starved[r] <=>
            /\ firstTickAt # Never
            /\ now - (IF readAt[r] = Never THEN firstTickAt ELSE readAt[r])
                  >= StarvationAfter

\* A rule that is reported starved renders no verdict, though the age at which
\* a sample is stale grows with the cadence: at ticks so slow that 2.5 of them
\* outlast the starvation limit a window rule still judges its last samples.
StarvedRulesAbstain ==
    \A r \in Rules :
        starved[r] =>
          \/ verdict[r] = "INSUFFICIENT"
          \/ ~IsDose(r) /\ 5 * tickInterval >= 2 * Scale * StarvationAfter

\* What the engine reports of a dead signal is true, and what was read before
\* the silence leaves no verdict standing behind the report.
StarvedIsSilence == StarvedExactly /\ StarvedRulesAbstain

Apart(w, d) == \A s, u \in w : s.at < u.at => u.at - s.at >= d

\* A window rule acts only when its samples span the fraction of the window
\* it was configured for, up to one tick, and that fraction of them is over its
\* threshold: "67% of the last 30 s".  They span as much when they are no denser
\* than the smoothed cadence; where that lags behind, right after a stall, they
\* span as much less as they are denser.
SustainedEvidence ==
    \A a \in actions :
        LET c == Config[a.rule]
            w == window[a.rule]
            over == {s \in w : IsOver(a.rule, s.value)}
        IN  ~IsDose(a.rule) =>
              /\ over # {} /\ Cardinality(over) * c.fracDen >= c.fracNum * Cardinality(w)
              /\ tickInterval > 0 =>
                   \A d \in 1..c.window : Apart(w, d) =>
                      \E s \in w : (now - s.at + d) * (tickInterval * c.fracDen)
                                      >= d * (c.window * Scale * c.fracNum)

\* A window rule whose every reading was hot for as long as its window keeps
\* samples acts, unless it acted within its cooldown, is paused, or is
\* reported unable to fire.
HotRuleFires ==
    \A r \in WindowRules :
        (hotSince[r] # Never /\ now - hotSince[r] >= Config[r].window + Slack)
        => \/ lastFired[r] # Never /\ now < lastFired[r] + Config[r].cooldown
           \/ lastFired[r] = now
           \/ heldBack
           \/ r \in unable

\* Every action of a dose rule was paid for: a whole budget of heat was
\* measured since the rule's previous action, sleeps and gaps not counted.
HeatIsPaidFor ==
    \A r \in DoseRules : paid[r] >= Config[r].budget

\* Unbroken heat is not forgiven: once the heat since the last cool reading
\* reaches the budget the rule has acted, unless cooling down or paused.
HeatIsNotForgiven ==
    \A r \in DoseRules :
        hotHeat[r] >= Config[r].budget /\ readAt[r] = now
        => \/ lastFired[r] # Never /\ now < lastFired[r] + Config[r].cooldown
           \/ heldBack

\* The owners are warned at the warn fraction of the budget, so a dose rule's
\* kill was announced earlier in its episode.
KillIsAnnounced ==
    \A r \in DoseRules : Config[r].action = "kill" => announced[r]
-----------------------------------------------------------------------------
(* The inductive invariant behind the theorems of EngineProofs.             *)

\* The engine's instants are those of the readings and ticks it was given.
ClockInv ==
    /\ lastSampleAt = readAt
    /\ firstTickAt <= now
    /\ \A r \in Rules :
         /\ readAt[r] <= now
         /\ readAt[r] # Never => firstTickAt # Never
         /\ IsDose(r) => doseAt[r] = readAt[r]

\* A rule's cooldown runs from its last action.
CooldownInv ==
    \A r \in Rules :
        cooldownUntil[r] = IF lastFired[r] = Never THEN 0
                           ELSE lastFired[r] + Config[r].cooldown

\* The dose is at least the unbroken heat and at most all the heat.
HeatInv ==
    \A r \in DoseRules :
        /\ dose[r] <= measured[r]
        /\ hotHeat[r] <= dose[r]

IInv ==
    /\ TypeInvariant
    /\ ClockInv
    /\ CooldownInv
    /\ StarvedExactly
    /\ HeatInv
    /\ HeatIsPaidFor
    /\ HeatIsNotForgiven

\* No single reading carries a dose from below the warning to a full budget:
\* its heat over the longest gap it is trusted for fits between the two.  (At a
\* tick a second the shipped rule, 300 degree-seconds, is far from the limit.)
StepsAreSmall ==
    \A r \in DoseRules, v \in Values :
        v > Config[r].threshold
        => (v - Config[r].threshold) * DoseMaxGap * Config[r].warnDen
              <= (Config[r].warnDen - Config[r].warnNum) * Config[r].budget

\* A dose beyond the warn fraction is flagged, a flagged dose is above zero and
\* its warning was sent.
WarningInv ==
    \A r \in DoseRules :
        Config[r].action = "kill" =>
          /\ ~doseWarned[r] => dose[r] * Config[r].warnDen
                                 < Config[r].warnNum * Config[r].budget
          /\ doseWarned[r] => dose[r] > 0 /\ warnings[r] > 0

\* What makes every kill of a dose rule an announced one while nothing pauses.
AnnounceInv ==
    /\ IInv
    /\ pausedUntil = 0
    /\ WarningInv
    /\ KillIsAnnounced
-----------------------------------------------------------------------------
(* What makes every action of a window rule rest on evidence.               *)

\* A window holds one sample of each tick that gave it one.
OneSamplePerTick ==
    \A r \in Rules :
        /\ \A s \in window[r] : s.at <= now
        /\ \A s, u \in window[r] : s.at = u.at => s = u

\* A window holds what its rule has read, and nothing since.
WindowIsRead ==
    \A r \in Rules : \A s \in window[r] : readAt[r] # Never /\ s.at <= readAt[r]

AbstainInv == IInv /\ WindowIsRead /\ StarvedRulesAbstain

EvidenceInv == IInv /\ OneSamplePerTick /\ SustainedEvidence

\* Ticks are between lo and hi apart, and at the slowest of them a window holds
\* as many samples as the rule can ever ask for, at the fastest.
CadenceFits(lo, hi) ==
    /\ \A gap \in Gaps : lo <= gap /\ gap <= hi
    /\ hi <= MaxPlausibleGap
    /\ \A r \in WindowRules :
         LET held == Config[r].window \div hi + 1 IN
         /\ MinSamplesFloor <= held
         /\ Config[r].window * Config[r].fracNum <= held * (lo * Config[r].fracDen)

\* The smoothed interval is that of the ticks, once there were two of them.
CadenceInv(lo) ==
    /\ lastTickAt \in {Never, now}
    /\ tickInterval = 0 \/ tickInterval >= lo * Scale
    /\ \A r \in Rules : hotSince[r] # Never =>
         /\ lastTickAt = now
         /\ hotSince[r] <= now
         /\ tickInterval = 0 => hotSince[r] = now

\* While a rule is hot its window has the sample of each tick, hot since it began.
FilledWhileHot(hi) ==
    \A r \in WindowRules : hotSince[r] # Never =>
        /\ \E s \in window[r] : s.at = now
        /\ \A s \in window[r] : s.at >= hotSince[r] => IsOver(r, s.value)
        /\ \A x \in hotSince[r]..now : x - hi + 1 >= now - Config[r].window - Slack
             => \E s \in window[r] : x - hi < s.at /\ s.at <= x

HotInv(lo, hi) ==
    /\ IInv
    /\ OneSamplePerTick
    /\ CadenceInv(lo)
    /\ FilledWhileHot(hi)
    /\ HotRuleFires
=============================================================================
