---------------------------- MODULE StateMirror ----------------------------
(***************************************************************************)
(* src/atfield/http_api.py ServiceState: what the tick loop tells the API   *)
(* about signals, and what the API tells its readers. The tick loop records *)
(* every sample with its credibility; readers in other threads ask at any   *)
(* time, also when the loop has stopped, for the verdict on a signal and    *)
(* for its history, spliced from rings of three densities.                  *)
(***************************************************************************)
EXTENDS Integers, Sequences, SequencesExt, FiniteSetsExt

CONSTANTS
    Signals,           \* signals that collectors may produce
    Guarded,           \* signals that an effective kill rule reads
    Grace,             \* starvation_after_s of the engine
    Period,            \* time between two ticks, at least
    Cap0, Cap1, Cap2,  \* _TIERn_CAPACITY
    Agg1, Agg2,        \* _TIERn_AGGREGATE
    Raw, Middle,       \* reach of tier 0 (1 h) and of tier 1 (6 h)
    Day,               \* the longest history (24 h)
    Detail,            \* _DETAIL_WINDOW_S
    MaxTime,           \* bound: how long the service is watched
    MaxReloads         \* bound: reloads of the configuration

ASSUME MirrorAssumption ==
    /\ Guarded \subseteq Signals
    /\ Grace \in Nat /\ Detail \in Nat /\ Cap0 \in Nat \ {0}

\* Each ring reaches at least as far back as it is read.
ASSUME RingsAssumption ==
    /\ {Period, Cap0, Cap1, Cap2, Agg1, Agg2} \subseteq Nat \ {0}
    /\ {Raw, Middle, Day} \subseteq Nat /\ Raw <= Middle /\ Middle <= Day
    /\ Raw <= Cap0 * Period
    /\ Middle <= Cap1 * (Agg1 * Period)
    /\ Day <= Cap2 * ((Agg1 * Agg2) * Period)

VARIABLES
    now,               \* the clock, wall and monotonic
    lastTick,          \* when the last tick was recorded
    latest,            \* _latest_signal, _credible and _mono, per signal
    history,           \* _history, per signal
    evaluated,         \* rules of this engine that have a last_value
    reloads,           \* reloads so far
    believed,          \* history: when a credible sample last arrived
    pushed             \* history: every sample that was recorded

engine == <<evaluated, reloads>>
mirrorVars == <<now, lastTick, latest, history, engine, believed, pushed>>

Unseen == [seen |-> FALSE, credible |-> TRUE, at |-> 0]

Tier == [samples |-> <<>>, pending |-> {}]

MirrorInit ==
    /\ now = 0
    /\ lastTick = -Period
    /\ latest = [s \in Signals |-> Unseen]
    /\ history = [s \in Signals |-> [t0 |-> Tier, t1 |-> Tier, t2 |-> Tier]]
    /\ evaluated = {}
    /\ reloads = 0
    /\ believed = [s \in Signals |-> -1]
    /\ pushed = [s \in Signals |-> {}]
-----------------------------------------------------------------------------
\* split_by_credibility() and is_credible(): a possible value, from a collector
\* that says it is working. Other samples are recorded too.
Credible(sample) == sample.plausible /\ sample.health = "HEALTHY"

\* _Tier.push(): once the aggregate is complete it is emitted, stamped with its
\* latest time. A mean is known here by the times it is the mean of.
Complete(tier, of, aggregate, pushes) ==
    Cardinality(tier.pending \cup of) >= aggregate * pushes

Push(tier, at, of, full, capacity) ==
    LET ring == Append(tier.samples, [at |-> at, of |-> tier.pending \cup of]) IN
    IF full THEN [samples |-> IF Len(ring) > capacity THEN Tail(ring) ELSE ring,
                  pending |-> {}]
    ELSE [tier EXCEPT !.pending = @ \cup of]

\* _MultiResHistory.push(): each tier feeds the next with what it emits.
Pushed(h, at) ==
    LET full1 == Complete(h.t1, {at}, Agg1, 1)
        mean1 == h.t1.pending \cup {at}
        full2 == Complete(h.t2, mean1, Agg2, Agg1) IN
    [t0 |-> Push(h.t0, at, {at}, TRUE, Cap0),
     t1 |-> Push(h.t1, at, {at}, full1, Cap1),
     t2 |-> IF full1 THEN Push(h.t2, at, mean1, full2, Cap2) ELSE h.t2]

\* record_tick(): any of the signals arrive, credible or not.
RecordTick ==
    /\ now - lastTick >= Period
    /\ \E arrived \in SUBSET Signals :
         \E sample \in [arrived -> [plausible : BOOLEAN,
                                    health : {"HEALTHY", "DEGRADED"}]] :
           /\ latest' = [s \in Signals |-> IF s \in arrived
                THEN [seen |-> TRUE, credible |-> Credible(sample[s]), at |-> now]
                ELSE latest[s]]
           /\ history' = [s \in Signals |-> IF s \in arrived
                THEN Pushed(history[s], now) ELSE history[s]]
           /\ believed' = [s \in Signals |->
                IF s \in arrived /\ sample[s].plausible
                     /\ sample[s].health = "HEALTHY"
                THEN now ELSE believed[s]]
           /\ pushed' = [s \in Signals |-> IF s \in arrived
                THEN pushed[s] \cup {now} ELSE pushed[s]]
           /\ evaluated' = evaluated \cup
                {s \in arrived \cap Guarded : Credible(sample[s])}
    /\ lastTick' = now
    /\ UNCHANGED <<now, reloads>>

\* attach_engine(): a new engine has not evaluated anything; the mirror stays.
AttachEngine ==
    /\ reloads < MaxReloads
    /\ reloads' = reloads + 1
    /\ evaluated' = {}
    /\ UNCHANGED <<now, lastTick, latest, history, believed, pushed>>

\* Time passes whether or not the loop runs.
TimePasses ==
    /\ now < MaxTime
    /\ now' = now + 1
    /\ UNCHANGED <<lastTick, latest, history, engine, believed, pushed>>

MirrorNext == RecordTick \/ AttachEngine \/ TimePasses

MirrorSpec == MirrorInit /\ [][MirrorNext]_mirrorVars
-----------------------------------------------------------------------------
Age(s) == now - latest[s].at

FaultyLiveness_AgeOnly(s) ==
    CASE ~latest[s].seen -> "never"
      [] latest[s].seen /\ Age(s) > Grace -> "stale"
      [] OTHER -> "live"

\* liveness(): decided when it is read.
Liveness(s) ==
    CASE ~latest[s].seen -> "never"
      [] latest[s].seen /\ ~latest[s].credible -> "suspect"
      [] latest[s].seen /\ latest[s].credible /\ Age(s) > Grace -> "stale"
      [] OTHER -> "live"

\* _not_live(): what the mirror holds, and what a rule waits for in vain.
NotLive ==
    {s \in Signals : latest[s].seen /\ Liveness(s) # "live"}
        \cup {s \in Guarded : ~latest[s].seen}

\* The samples of a ring in a span of time, each with its tier and its place.
From(k, tier, first, last) ==
    {[tier |-> k, place |-> i, at |-> tier.samples[i].at, of |-> tier.samples[i].of] :
        i \in {n \in DOMAIN tier.samples :
                first <= tier.samples[n].at /\ tier.samples[n].at < last}}

FaultySlice_Overlap(h, reach) ==
    From(2, h.t2, now - reach, now - Middle)
      \cup From(1, h.t1, now - reach, now + 1) \cup From(0, h.t0, now - Raw, now + 1)

\* slice(): the newest from tier 0, older from tier 1, the oldest from tier 2.
Slice(h, reach) ==
    IF reach <= Raw THEN From(0, h.t0, now - reach, now + 1)
    ELSE IF reach <= Middle
      THEN From(1, h.t1, now - reach, now - Raw) \cup From(0, h.t0, now - Raw, now + 1)
    ELSE From(2, h.t2, now - reach, now - Middle)
           \cup From(1, h.t1, now - Middle, now - Raw) \cup From(0, h.t0, now - Raw, now + 1)

\* It is read tier by tier, the oldest first, and each ring from its oldest on.
Precedes(m, n) == m.tier > n.tier \/ (m.tier = n.tier /\ m.place < n.place)

\* _detail_center(): a median, known by the samples it is the median of; all of
\* the window, also those that were not credible.
Center(s) ==
    LET window == {m.at : m \in {n \in ToSet(history[s].t0.samples) :
                                  n.at >= now - Detail}} IN
    IF window = {} THEN {latest[s].at} ELSE window

\* snapshot_headroom(): each kill rule has a number, or a reason why it has none.
Excluded ==
    {s \in Guarded : Liveness(s) # "live" \/ s \notin evaluated}

Headroom == [s \in Guarded \ Excluded |-> Center(s)]
-----------------------------------------------------------------------------
(* A signal of a rule that nothing credible has reported for longer than the *)
(* grace is named on /health, however it got there: it never arrived, its    *)
(* collector is broken, its value is impossible, it went silent, or the loop *)
(* itself has stopped and nothing is left to mark it. And /headroom gives a  *)
(* number only for rules that are not blind, of a minute that contains the   *)
(* reading that makes them so.                                               *)
BlindIsListed ==
    \A s \in Guarded :
      /\ believed[s] = -1 \/ now - believed[s] > Grace
            => s \in NotLive /\ s \notin DOMAIN Headroom
      /\ s \in DOMAIN Headroom => believed[s] \in Headroom[s]

Covered(slice) == UNION {m.of : m \in slice}

InReach(s, reach) == {t \in pushed[s] : t > now - reach}

(* A history of any length is in order, counts no sample twice although the  *)
(* rings hold the same time in several densities, and misses no more of the  *)
(* samples in its reach than the means that straddle its two seams.          *)
HistoryIsExact ==
    \A s \in Signals, reach \in 1..Day :
      LET slice == Slice(history[s], reach) IN
      /\ \A m, n \in slice : Precedes(m, n) => m.at < n.at /\ m.of \cap n.of = {}
      /\ Cardinality(InReach(s, reach) \ Covered(slice)) <= Agg1 + Agg1 * Agg2
=============================================================================
