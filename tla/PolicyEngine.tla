---------------------------- MODULE PolicyEngine ----------------------------
(***************************************************************************)
(* The rule engine of the watchdog (src/atfield/policy.py) together with    *)
(* the window evaluation it calls (src/atfield/signals.py).                 *)
(*                                                                         *)
(* The service calls tick() once per loop with the credible samples of      *)
(* that loop, and set_paused() / drain_signal_health_changes() in between.  *)
(* A rule is either a WINDOW rule (a fraction of a sliding window over the  *)
(* threshold) or a DOSE rule (excess degrees times seconds, an inverse-time *)
(* breaker).  Time is in seconds.  A window is the set of the samples it    *)
(* holds: ticks are at distinct times, so the deque order is the time order.*)
(***************************************************************************)
EXTENDS Integers, Sequences, FiniteSets

CONSTANTS
    Rules,             \* the effective rules (globs already expanded)
    Signals,           \* the working signal map
    Config,            \* Config[r]: the rule's entry of config.toml
    Values,            \* readings a credible sample can carry
    Slack,             \* SlidingWindow slack_s
    MinSamplesFloor,   \* signals.MIN_SAMPLES_FOR_DECISION
    MaxSampleAge,      \* max(2 / tick_hz, 2.0)
    StarvationAfter,   \* max(starvation_after_s, 5 / tick_hz)
    MaxPlausibleGap,   \* _MAX_PLAUSIBLE_TICK_GAP_NS
    DoseMaxGap,        \* _DOSE_MAX_GAP_S
    TickHz,            \* general.tick_hz
    Scale,             \* resolution of the smoothed tick interval, per second
    Gaps,              \* bound: distances between consecutive ticks
    PauseLengths,      \* bound: lengths of a pause
    MaxTime            \* bound: the clock stops here

RuleConfig ==
    [signal : Signals, action : {"log", "throttle", "kill"}, threshold : Nat,
     cooldown : Nat, isDose : BOOLEAN,
     window : Nat \ {0}, fracNum : Nat \ {0}, fracDen : Nat \ {0},
     budget : Nat \ {0}, drain : Nat, warnNum : Nat \ {0}, warnDen : Nat \ {0}]

ASSUME ConfigAssumption == Config \in [Rules -> RuleConfig]

ASSUME BoundsAssumption ==
    /\ Values \subseteq Nat
    /\ Gaps \subseteq Nat \ {0}
    /\ PauseLengths \subseteq Nat
    /\ {Slack, MaxSampleAge, MaxPlausibleGap, DoseMaxGap, MaxTime} \subseteq Nat
    /\ {StarvationAfter, MinSamplesFloor, TickHz, Scale} \subseteq Nat \ {0}

Never == -1            \* Python's None for an instant

VARIABLES
    now,               \* the injected monotonic clock
    window,            \* window[r]: the samples in the rule's SlidingWindow
    verdict,           \* verdict[r]: last_eval_verdict
    cooldownUntil,     \* cooldownUntil[r]: 0 means ready
    lastSampleAt,      \* lastSampleAt[r]: last_sample_at_ns
    starved,           \* starved[r]
    dose,              \* dose[r]: degree-seconds over the line
    doseAt,            \* doseAt[r]: when the dose was last advanced
    doseWarned,        \* doseWarned[r]: this episode's warning is out
    firstTickAt,       \* _first_tick_ns
    lastTickAt,        \* _last_tick_ns
    tickInterval,      \* _tick_interval_ns in 1/Scale s, 0 for None
    unable,            \* _unable_rules
    pausedUntil,       \* _paused_until_ns, 0 for no pause
    changes,           \* changes[r]: the rule's queued SignalHealthChanges
    actions            \* the list the last tick returned

engineVars == <<now, window, verdict, cooldownUntil, lastSampleAt, starved,
                dose, doseAt, doseWarned, firstTickAt, lastTickAt,
                tickInterval, unable, pausedUntil, changes, actions>>

MaxOf(a, b) == IF a >= b THEN a ELSE b

CeilDiv(a, b) == (a + b - 1) \div b

IsDose(r) == Config[r].isDose

\* An Action: a dose rule's warning is a notifying "log" of the same rule.
ActionType == [rule : Rules, kind : {"log", "throttle", "kill"}, warning : BOOLEAN]

SampleType == [at : Nat, value : Nat]

TypeOK ==
    /\ now \in Nat
    /\ window \in [Rules -> SUBSET SampleType]
    /\ verdict \in [Rules -> {"INSUFFICIENT", "BELOW", "TRIGGER", "DOSING"}]
    /\ cooldownUntil \in [Rules -> Nat]
    /\ lastSampleAt \in [Rules -> Nat \cup {Never}]
    /\ starved \in [Rules -> BOOLEAN]
    /\ dose \in [Rules -> Nat]
    /\ doseAt \in [Rules -> Nat \cup {Never}]
    /\ doseWarned \in [Rules -> BOOLEAN]
    /\ firstTickAt \in Nat \cup {Never}
    /\ lastTickAt \in Nat \cup {Never}
    /\ tickInterval \in Nat
    /\ unable \subseteq Rules
    /\ pausedUntil \in Nat
    /\ changes \in [Rules -> Seq({"starved", "recovered"})]
    /\ actions \subseteq ActionType

EngineInit ==
    /\ now = 0
    /\ window = [r \in Rules |-> {}]
    /\ verdict = [r \in Rules |-> "INSUFFICIENT"]
    /\ cooldownUntil = [r \in Rules |-> 0]
    /\ lastSampleAt = [r \in Rules |-> Never]
    /\ starved = [r \in Rules |-> FALSE]
    /\ dose = [r \in Rules |-> 0]
    /\ doseAt = [r \in Rules |-> Never]
    /\ doseWarned = [r \in Rules |-> FALSE]
    /\ firstTickAt = Never
    /\ lastTickAt = Never
    /\ tickInterval = 0
    /\ unable = {}
    /\ pausedUntil = 0
    /\ changes = [r \in Rules |-> <<>>]
    /\ actions = {}
-----------------------------------------------------------------------------
(* Cadence: every limit is re-derived from the observed tick rate.         *)

\* Faulty variants ("Faulty...") below are not part of the model: each is a bug
\* the properties of EnginePromises have to catch when it replaces the
\* definition that follows it.

\* The smoothed interval after a tick at t: (1 - 0.2) * old + 0.2 * delta,
\* ignoring a first tick, a clock that stood still and an implausible gap.
NextInterval(t) ==
    LET delta == t - lastTickAt
    IN  IF lastTickAt = Never \/ delta <= 0 \/ delta > MaxPlausibleGap
        THEN tickInterval
        ELSE IF tickInterval = 0
             THEN delta * Scale
             ELSE (4 * tickInterval + delta * Scale) \div 5

FaultyMinSamples_FloorOnly(r, interval) == MinSamplesFloor

\* min_samples_for() under the floor evaluate_window() applies.
MinSamplesFor(r, interval) ==
    LET c == Config[r]
    IN  MaxOf(MinSamplesFloor,
              IF interval = 0
              THEN CeilDiv(c.window * TickHz * c.fracNum, c.fracDen)
              ELSE CeilDiv(c.window * Scale * c.fracNum, interval * c.fracDen))

FaultyIsStale_AgedByWindow(at, t, interval) == t - at > MaxPlausibleGap

\* Sample.is_stale() against max_sample_age_for_tick(): 2.5 observed ticks,
\* and never less than the configured age.
IsStale(at, t, interval) ==
    /\ t - at > MaxSampleAge
    /\ 2 * Scale * (t - at) > 5 * interval

\* The window cannot hold the samples the rule needs at this cadence.
CannotFire(r, interval) ==
    Config[r].window * Scale < MinSamplesFor(r, interval) * interval
-----------------------------------------------------------------------------
(* Window rules.                                                           *)

GotSample(r, samples) == Config[r].signal \in DOMAIN samples

Reading(r, samples) == samples[Config[r].signal]

IsOver(r, value) == value > Config[r].threshold

Evict(r, w, reference) ==
    {s \in w : s.at >= reference - Config[r].window - Slack}

FaultyNewWindow_NotWhilePaused(r, samples, t) ==
    IF GotSample(r, samples) /\ t >= pausedUntil
    THEN Evict(r, window[r] \cup {[at |-> t, value |-> Reading(r, samples)]}, t)
    ELSE Evict(r, window[r], t)

\* SlidingWindow.add() on a sample, then (window rules only) the eviction
\* that evaluate_window() does whether or not a sample came.
NewWindow(r, samples, t) ==
    LET added == IF GotSample(r, samples)
                 THEN Evict(r, window[r] \cup {[at |-> t, value |-> Reading(r, samples)]}, t)
                 ELSE window[r]
    IN  IF IsDose(r) THEN added ELSE Evict(r, added, t)

\* evaluate_window(): abstain unless the newest sample is fresh and there
\* are enough of them; only then compare the fraction.
Evaluate(r, w, t, interval) ==
    LET over == {s \in w : IsOver(r, s.value)}
        c    == Config[r]
    IN  IF \/ \A s \in w : IsStale(s.at, t, interval)
           \/ Cardinality(w) < MinSamplesFor(r, interval)
        THEN "INSUFFICIENT"
        ELSE IF Cardinality(over) * c.fracDen >= c.fracNum * Cardinality(w)
             THEN "TRIGGER"
             ELSE "BELOW"
-----------------------------------------------------------------------------
(* Dose rules.                                                             *)

DoseDt(r, t) == IF doseAt[r] = Never THEN 0 ELSE t - doseAt[r]

FaultyDoseAfterReading_GapOffByOne(r, value, t) ==
    IF DoseDt(r, t) >= DoseMaxGap \/ ~IsOver(r, value)
    THEN MaxOf(0, dose[r] - Config[r].drain * DoseDt(r, t))
    ELSE dose[r] + (value - Config[r].threshold) * DoseDt(r, t)

\* The dose after one reading, before any firing spends it.
DoseAfterReading(r, value, t) ==
    LET dt == DoseDt(r, t)
        c  == Config[r]
    IN  IF dt > DoseMaxGap \/ ~IsOver(r, value)
        THEN MaxOf(0, dose[r] - c.drain * dt)
        ELSE dose[r] + (value - c.threshold) * dt

DoseVerdict(r, d) ==
    IF d >= Config[r].budget THEN "TRIGGER" ELSE IF d > 0 THEN "DOSING" ELSE "BELOW"

\* The near-limit warning is due: armed, a kill rule, half spent, still hot.
WarnDue(r, value, d) ==
    /\ d < Config[r].budget
    /\ ~(doseWarned[r] /\ d > 0)
    /\ Config[r].action = "kill"
    /\ d * Config[r].warnDen >= Config[r].warnNum * Config[r].budget
    /\ IsOver(r, value)
-----------------------------------------------------------------------------
(* tick()                                                                  *)

IsCurrentlyPaused(t) == t < pausedUntil

SilentFor(r, t) ==
    t - (IF lastSampleAt[r] # Never THEN lastSampleAt[r]
         ELSE IF firstTickAt # Never THEN firstTickAt
         ELSE t)

FaultyIsStarved_NeverSeenIsFine(r, samples, t) ==
    /\ ~GotSample(r, samples)
    /\ lastSampleAt[r] # Never
    /\ starved[r] \/ SilentFor(r, t) >= StarvationAfter

IsStarved(r, samples, t) ==
    /\ ~GotSample(r, samples)
    /\ starved[r] \/ SilentFor(r, t) >= StarvationAfter

\* The rule's verdict in the tick at t.
NewVerdict(r, samples, t) ==
    IF IsDose(r)
    THEN IF GotSample(r, samples)
         THEN DoseVerdict(r, DoseAfterReading(r, Reading(r, samples), t))
         ELSE IF IsStarved(r, samples, t) THEN "INSUFFICIENT" ELSE verdict[r]
    ELSE Evaluate(r, NewWindow(r, samples, t), t, NextInterval(t))

FaultyFires_WhilePaused(r, samples, t) ==
    /\ NewVerdict(r, samples, t) = "TRIGGER"
    /\ IsDose(r) => GotSample(r, samples)
    /\ t >= cooldownUntil[r]

\* The rule acts: over its limit, out of its cooldown, engine not paused.
\* A dose rule acts on a reading only.
Fires(r, samples, t) ==
    /\ NewVerdict(r, samples, t) = "TRIGGER"
    /\ IsDose(r) => GotSample(r, samples)
    /\ t >= cooldownUntil[r]
    /\ ~IsCurrentlyPaused(t)

Warns(r, samples, t) ==
    /\ IsDose(r)
    /\ GotSample(r, samples)
    /\ WarnDue(r, Reading(r, samples), DoseAfterReading(r, Reading(r, samples), t))

\* _track_starvation(): one event when a signal goes dark, one when it is back.
TrackStarvation(samples, t) ==
    /\ lastSampleAt' = [r \in Rules |-> IF GotSample(r, samples) THEN t ELSE lastSampleAt[r]]
    /\ starved' = [r \in Rules |-> IsStarved(r, samples, t)]
    /\ changes' = [r \in Rules |->
                     IF IsStarved(r, samples, t) = starved[r] THEN changes[r]
                     ELSE Append(changes[r], IF starved[r] THEN "recovered" ELSE "starved")]

\* What a reading leaves of the dose: firing spends all of it.
FaultyDoseLeft_NotSpent(r, samples, t) == DoseAfterReading(r, Reading(r, samples), t)

DoseLeft(r, samples, t) ==
    IF Fires(r, samples, t) THEN 0 ELSE DoseAfterReading(r, Reading(r, samples), t)

\* The warned flag after a reading: it ends with the episode.  It is raised
\* before the pause is looked at, so a pause swallows the warning.
FaultyWarnedLeft_KeptOnFire(r, samples, t) ==
    doseWarned[r] \/ Warns(r, samples, t)

WarnedLeft(r, samples, t) ==
    /\ ~Fires(r, samples, t)
    /\ \/ doseWarned[r] /\ DoseAfterReading(r, Reading(r, samples), t) > 0
       \/ Warns(r, samples, t)

\* _tick_dose() on every dose rule that got a reading.
TickDose(samples, t) ==
    LET Dosed == {r \in Rules : IsDose(r) /\ GotSample(r, samples)}
    IN  /\ doseAt' = [r \in Rules |-> IF r \in Dosed THEN t ELSE doseAt[r]]
        /\ dose' = [r \in Rules |-> IF r \in Dosed THEN DoseLeft(r, samples, t) ELSE dose[r]]
        /\ doseWarned' = [r \in Rules |->
                            IF r \in Dosed THEN WarnedLeft(r, samples, t) ELSE doseWarned[r]]

TickActions(samples, t) ==
    {[rule |-> r, kind |-> Config[r].action, warning |-> FALSE] :
        r \in {q \in Rules : Fires(q, samples, t)}}
    \cup
    {[rule |-> r, kind |-> "log", warning |-> TRUE] :
        r \in {q \in Rules : Warns(q, samples, t) /\ ~IsCurrentlyPaused(t)}}

\* One tick at time t.  A dose rule skips the can-it-ever-fire check.
TickAt(t, samples) ==
    /\ now' = t
    /\ firstTickAt' = IF firstTickAt = Never THEN t ELSE firstTickAt
    /\ lastTickAt' = t
    /\ tickInterval' = NextInterval(t)
    /\ window' = [r \in Rules |-> NewWindow(r, samples, t)]
    /\ TrackStarvation(samples, t)
    /\ verdict' = [r \in Rules |-> NewVerdict(r, samples, t)]
    /\ unable' = IF NextInterval(t) = 0 THEN unable
                 ELSE {r \in Rules : ~IsDose(r) /\ CannotFire(r, NextInterval(t))}
    /\ cooldownUntil' = [r \in Rules |->
                           IF Fires(r, samples, t) THEN t + Config[r].cooldown
                           ELSE cooldownUntil[r]]
    /\ TickDose(samples, t)
    /\ actions' = TickActions(samples, t)
    /\ UNCHANGED pausedUntil

SampleSets == UNION {[S -> Values] : S \in SUBSET Signals}

Tick ==
    \E gap \in Gaps, samples \in SampleSets :
        /\ now + gap <= MaxTime
        /\ TickAt(now + gap, samples)

\* set_paused(): the service re-applies the pause sentinel, 0 clears it.
SetPaused(until) ==
    /\ pausedUntil' = until
    /\ UNCHANGED <<now, window, verdict, cooldownUntil, lastSampleAt, starved,
                   dose, doseAt, doseWarned, firstTickAt, lastTickAt,
                   tickInterval, unable, changes, actions>>

Pause == \E d \in PauseLengths : SetPaused(now + d)

Unpause == SetPaused(0)

\* drain_signal_health_changes(): return and clear.
Drain ==
    /\ changes' = [r \in Rules |-> <<>>]
    /\ UNCHANGED <<now, window, verdict, cooldownUntil, lastSampleAt, starved,
                   dose, doseAt, doseWarned, firstTickAt, lastTickAt,
                   tickInterval, unable, pausedUntil, actions>>

EngineNext == Tick \/ Pause \/ Unpause \/ Drain

EngineSpec == EngineInit /\ [][EngineNext]_engineVars
=============================================================================
