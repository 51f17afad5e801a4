------------------------------ MODULE Notices ------------------------------
(***************************************************************************)
(* src/atfield/agent_inbox.py and notify_prefs.py: the owner of a process   *)
(* that was killed, or that a warning is about, is told so in its session,  *)
(* unless it is snoozed or muted or was told the same kind of thing a       *)
(* moment ago. HTTP threads write the preferences, the tick loop reads      *)
(* them; both hold their lock, so a call is one step. The preferences and   *)
(* their wall-clock times outlive the process; the rate limit does not.     *)
(*                                                                          *)
(* Times are kept as what is left of them: of a snooze, of MUTE_JOB_GONE_S  *)
(* since a muted job was last seen, of the period of the rate limit.        *)
(***************************************************************************)
EXTENDS Integers, FiniteSets, FiniteSetsExt

CONSTANTS
    Sessions,          \* Claude sessions, each with an inbox
    Jobs,              \* Kiroshi jobs
    Rules,             \* rules that may fire
    AnyRule,           \* a preference for every rule
    Period,            \* period_s of the rate limit
    JobGone,           \* MUTE_JOB_GONE_S
    CheckInterval,     \* between two looks at the live workers (60 s)
    Snoozes,           \* how long a snooze may be
    MaxPrefs,          \* bound: preferences at a time
    MaxFaults          \* bound: crashes and failing writes

\* A look at the workers comes well before a job counts as gone.
ASSUME NoticesAssumption ==
    /\ Period \in Nat
    /\ JobGone \in Nat /\ CheckInterval \in Nat /\ CheckInterval < JobGone
    /\ Snoozes \subseteq Nat
    /\ MaxPrefs \in Nat /\ MaxFaults \in Nat

VARIABLES
    prefs,             \* NotifyPrefs._prefs
    saved,             \* notify_prefs.json
    budget,            \* RateLimit._last, as time left per session and class
    checkIn,           \* time left until the jobs are observed
    liveJobs,          \* jobs with a live worker on this host
    up,                \* the service runs
    faults,            \* crashes and failed writes so far
    unsaved,           \* the last write failed
    outage,            \* history: time down since the jobs were observed
    mustHold,          \* history: mutes of jobs that have lived ever since
    killAgo,           \* history: time left until Period after a kill notice
    lostAgo,           \* history: the same after one whose post failed
    missed             \* history: sessions nobody tried to tell of a kill

memory == <<prefs, budget, checkIn>>
disk == <<saved, unsaved>>
told == <<killAgo, lostAgo, missed>>
vars == <<memory, disk, liveJobs, up, faults, outage, mustHold, told>>

Owners == [kind : {"session"}, id : Sessions] \cup [kind : {"job"}, id : Jobs]
            \cup {[kind |-> "unattributed", id |-> "-"]}
Classes == {"kill", "warning"}

Preferences ==
    [kind : {"snooze", "mute"}, scope : {"session", "job"},
     target : Sessions \cup Jobs, rule : Rules \cup {AnyRule}, left : Nat]

TypeInvariant ==
    /\ prefs \in SUBSET Preferences /\ saved \in SUBSET Preferences
    /\ budget \in [Sessions -> [Classes -> Nat]]
    /\ checkIn \in 0..CheckInterval
    /\ liveJobs \in SUBSET Jobs
    /\ up \in BOOLEAN /\ unsaved \in BOOLEAN
    /\ faults \in 0..MaxFaults
    /\ outage \in 0..JobGone
    /\ mustHold \in SUBSET (Jobs \X (Rules \cup {AnyRule}))
    /\ killAgo \in [Sessions -> Nat] /\ lostAgo \in [Sessions -> Nat]
    /\ missed \in SUBSET Sessions

Init ==
    /\ prefs = {} /\ saved = {}
    /\ budget = [s \in Sessions |-> [c \in Classes |-> 0]]
    /\ checkIn = 0
    /\ liveJobs \in SUBSET Jobs
    /\ up = TRUE
    /\ faults = 0 /\ outage = 0 /\ unsaved = FALSE
    /\ mustHold = {}
    /\ killAgo = [s \in Sessions |-> 0] /\ lostAgo = [s \in Sessions |-> 0]
    /\ missed = {}
-----------------------------------------------------------------------------
\* _prune_locked(): a snooze that has run out, a mute whose job has gone.
Live(ps) == {p \in ps : p.left > 0}

\* _save(): an unwritable file is logged; memory holds until the restart.
Save(ps) ==
    \/ /\ saved' = ps /\ unsaved' = FALSE
       /\ UNCHANGED faults
    \/ /\ faults < MaxFaults /\ faults' = faults + 1
       /\ unsaved' = TRUE
       /\ UNCHANGED saved

SaveIfChanged(ps, force) ==
    IF force \/ Cardinality(ps) # Cardinality(prefs) THEN Save(ps) ELSE UNCHANGED <<disk, faults>>

Address(p) == <<p.kind, p.scope, p.target, p.rule>>

\* _put(): one entry per kind, target and rule; a new one takes its place.
Put(p) ==
    LET others == {q \in prefs : Address(q) # Address(p)} IN
    /\ up
    /\ Cardinality(others) < MaxPrefs
    /\ prefs' = others \cup {p}
    /\ Save(others \cup {p})
    /\ UNCHANGED <<budget, checkIn, liveJobs, up, outage, told>>

Snooze(owner, rule, time) ==
    /\ owner.kind # "unattributed"
    /\ Put([kind |-> "snooze", scope |-> owner.kind, target |-> owner.id,
            rule |-> rule, left |-> time])
    /\ UNCHANGED mustHold

Mute(job, rule) ==
    /\ Put([kind |-> "mute", scope |-> "job", target |-> job, rule |-> rule,
            left |-> JobGone])
    /\ mustHold' = mustHold \cup ({<<job, rule>>} \cap (liveJobs \X {rule}))

\* unmute(): snoozes and mutes of the owner, of one rule or (AnyRule) of all.
Unmute(owner, rule) ==
    LET Named(p) == /\ p.scope = owner.kind /\ p.target = owner.id
                    /\ rule \in {AnyRule, p.rule} IN
    /\ up
    /\ prefs' = {p \in prefs : ~Named(p)}
    /\ Save({p \in prefs : ~Named(p)})
    /\ mustHold' = {m \in mustHold : ~(/\ <<"job", m[1]>> = <<owner.kind, owner.id>>
                                       /\ rule \in {AnyRule, m[2]})}
    /\ UNCHANGED <<budget, checkIn, liveJobs, up, outage, told>>

\* snapshot(), for GET /notify/prefs.
Snapshot ==
    /\ up
    /\ prefs' = Live(prefs)
    /\ SaveIfChanged(Live(prefs), FALSE)
    /\ UNCHANGED <<budget, checkIn, liveJobs, up, outage, mustHold, told>>
-----------------------------------------------------------------------------
Silences(p, owner, rule) ==
    p.scope = owner.kind /\ p.target = owner.id /\ p.rule \in {AnyRule, rule}

\* match()
Match(ps, owner, rule) == {p \in Live(ps) : Silences(p, owner, rule)}

FaultyClassOf_One(kind) == "warning"

\* Kills and warnings are limited separately.
ClassOf(kind) == IF kind = "kill" THEN "kill" ELSE "warning"

\* A warning about the size of one process and a drill are not limited here.
Limited(kind) == kind \in {"kill", "warning"}

\* needs_action(): only a warning may need none.
MayNeedNothing(kind) == kind = "warning"

(* deliver() to one owner. A worker is told by the webhook; a session in its *)
(* inbox, if the limit allows it. The limit is spent before post() and       *)
(* whether or not the post gets through; nothing is sent again.              *)
Notify(owner, kind, rule) ==
    \E needed \in {TRUE} \cup (IF MayNeedNothing(kind) THEN {FALSE} ELSE {}),
       through \in BOOLEAN :
      LET session == owner.kind = "session"
          wanted == session /\ needed /\ Match(prefs, owner, rule) = {}
          within == Limited(kind) => budget[owner.id][ClassOf(kind)] = 0
          posted == wanted /\ within
          killTold(outcome) == posted /\ kind = "kill" /\ through = outcome IN
      /\ up
      /\ prefs' = Live(prefs)
      /\ SaveIfChanged(Live(prefs), FALSE)
      /\ budget' = IF posted /\ Limited(kind)
                   THEN [budget EXCEPT ![owner.id][ClassOf(kind)] = Period]
                   ELSE budget
      /\ killAgo' = IF killTold(TRUE)
                    THEN [killAgo EXCEPT ![owner.id] = Period] ELSE killAgo
      /\ lostAgo' = IF killTold(FALSE)
                    THEN [lostAgo EXCEPT ![owner.id] = Period] ELSE lostAgo
      /\ missed' = missed \cup
            (IF /\ session /\ kind = "kill" /\ ~posted
                /\ ~\E p \in prefs : p.left > 0 /\ Silences(p, owner, rule)
                /\ killAgo[owner.id] = 0 /\ lostAgo[owner.id] = 0
             THEN {owner.id} ELSE {})
      /\ UNCHANGED <<checkIn, liveJobs, up, outage, mustHold>>
-----------------------------------------------------------------------------
\* A muted job that has a live worker has just been seen.
Seen(p) == IF p.kind = "mute" /\ p.target \in liveJobs
           THEN [p EXCEPT !.left = JobGone] ELSE p

FaultyObserve_NotSaved ==
    LET seen == {Seen(p) : p \in prefs} IN
    /\ up
    /\ checkIn = 0
    /\ checkIn' = CheckInterval
    /\ outage' = 0
    /\ prefs' = Live(seen)
    /\ SaveIfChanged(Live(seen), FALSE)
    /\ UNCHANGED <<budget, liveJobs, up, mustHold, told>>

\* observe_jobs(), every CheckInterval of the tick loop.
Observe ==
    LET seen == {Seen(p) : p \in prefs}
        refreshed == \E p \in prefs : p.kind = "mute" /\ p.target \in liveJobs IN
    /\ up
    /\ checkIn = 0
    /\ checkIn' = CheckInterval
    /\ outage' = 0
    /\ prefs' = Live(seen)
    /\ SaveIfChanged(Live(seen), refreshed)
    /\ UNCHANGED <<budget, liveJobs, up, mustHold, told>>

JobStarts(j) ==
    /\ liveJobs' = liveJobs \cup {j}
    /\ UNCHANGED <<memory, disk, up, faults, outage, mustHold, told>>

JobEnds(j) ==
    /\ liveJobs' = liveJobs \ {j}
    /\ mustHold' = {m \in mustHold : m[1] # j}
    /\ UNCHANGED <<memory, disk, up, faults, outage, told>>

\* Only what is in the file comes back.
Crash ==
    /\ up
    /\ faults < MaxFaults
    /\ faults' = faults + 1
    /\ up' = FALSE
    /\ mustHold' = IF unsaved THEN {} ELSE mustHold
    /\ UNCHANGED <<memory, disk, liveJobs, outage, told>>

Restart ==
    /\ ~up
    /\ up' = TRUE
    /\ prefs' = saved
    /\ budget' = [s \in Sessions |-> [c \in Classes |-> 0]]
    /\ checkIn' = 0
    /\ UNCHANGED <<disk, liveJobs, faults, outage, mustHold, told>>

Less(n) == IF n > 0 THEN n - 1 ELSE 0
Aged(ps) == {[p EXCEPT !.left = Less(@)] : p \in ps}

\* A tick of the loop does not outlast the check. An outage as long as
\* JobGone, less the time since the last look, ends a mute.
Tick ==
    /\ up => checkIn > 0
    /\ prefs' = Aged(prefs)
    /\ saved' = Aged(saved)
    /\ budget' = [s \in Sessions |-> [c \in Classes |-> Less(budget[s][c])]]
    /\ killAgo' = [s \in Sessions |-> Less(killAgo[s])]
    /\ lostAgo' = [s \in Sessions |-> Less(lostAgo[s])]
    /\ checkIn' = Less(checkIn)
    /\ outage' = IF up \/ outage = JobGone THEN outage ELSE outage + 1
    /\ mustHold' = IF outage' >= JobGone - CheckInterval THEN {} ELSE mustHold
    /\ UNCHANGED <<unsaved, liveJobs, up, faults, missed>>

Next ==
    \/ \E o \in Owners, r \in Rules \cup {AnyRule}, t \in Snoozes : Snooze(o, r, t)
    \/ \E j \in Jobs, r \in Rules \cup {AnyRule} : Mute(j, r)
    \/ \E o \in Owners, r \in Rules \cup {AnyRule} : Unmute(o, r)
    \/ Snapshot
    \/ \E o \in Owners, r \in Rules, k \in {"kill", "warning", "cap", "drill"} :
         Notify(o, k, r)
    \/ Observe
    \/ \E j \in Jobs : JobStarts(j) \/ JobEnds(j)
    \/ Crash \/ Restart \/ Tick

Spec == Init /\ [][Next]_vars
-----------------------------------------------------------------------------
(* A session is sent a notice of every kill of its processes, unless it has  *)
(* asked not to be, for this rule and now, or within the period it was told  *)
(* of another kill or the post about another one failed: a warning, a drill, *)
(* a restart or a preference that has run out never swallow the notice. What *)
(* is sent may fail too; it is not sent again.                               *)
KillsAreTold == missed = {}

(* A job that has lived ever since it was muted is still muted, over         *)
(* restarts, prunes and the mutes and snoozes of others, unless it was       *)
(* unmuted, the last write had failed before a restart, or the service was   *)
(* away about as long as it takes for a job to count as gone.                *)
MuteHolds ==
    up => \A m \in mustHold : \E p \in prefs :
            p.kind = "mute" /\ <<p.target, p.rule>> = m
=============================================================================
