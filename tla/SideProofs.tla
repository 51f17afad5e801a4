----------------------------- MODULE SideProofs -----------------------------
(***************************************************************************)
(* What is proved of the components beside the tick, for any clients, jobs, *)
(* webhooks, bounds and breakdowns: notices to owners (Notices), the        *)
(* configuration that clients edit (ConfigPatch), the forensic stream       *)
(* (Forensics) and reports to webhooks (Reporter).                          *)
(***************************************************************************)
EXTENDS Notices, ConfigPatch, Forensics, Reporter, Recursion, FiniteSetTheorems,
        SequenceTheorems

(* Notices: kills are told, and a mute lasts as long as its job.             *)

\* A session whose limiter is spent has been told of a kill, or a post about a
\* kill has failed, not about something else, and within the period.
LimitInv == \A s \in Sessions : \/ budget[s]["kill"] <= killAgo[s]
                               \/ budget[s]["kill"] <= lostAgo[s]

\* What is left of JobGone once the next look is over.
Slack == JobGone - CheckInterval + (IF up THEN checkIn ELSE 0) - outage

Holds(p, m) ==
    /\ p.kind = "mute" /\ p.scope = "job" /\ p.target = m[1] /\ p.rule = m[2]
    /\ p.left >= 1 /\ p.left >= Slack

\* Each mute that must hold is in memory with time to spare, is of a live job,
\* and would be read again after a crash.
MuteInv ==
    /\ IsFiniteSet(prefs) /\ IsFiniteSet(saved)
    /\ ~unsaved => saved = prefs
    /\ unsaved /\ ~up => mustHold = {}
    /\ up /\ checkIn > 0 => outage = 0
    /\ \A m \in mustHold : m[1] \in liveJobs /\ \E p \in prefs : Holds(p, m)

IInv == TypeInvariant /\ LimitInv /\ MuteInv /\ KillsAreTold
-----------------------------------------------------------------------------
\* At the start nobody is told and nothing is muted.
LEMMA InitIInv == Init => IInv
<1> SUFFICES ASSUME Init PROVE IInv
    OBVIOUS
<1> USE NoticesAssumption DEF Init
<1>1. TypeInvariant
    <2>1. /\ prefs \in SUBSET Preferences /\ saved \in SUBSET Preferences
          /\ mustHold \in SUBSET (Jobs \X (Rules \cup {AnyRule}))
          /\ liveJobs \in SUBSET Jobs /\ missed \in SUBSET Sessions
        OBVIOUS
    <2>2. budget \in [Sessions -> [Classes -> Nat]] /\ killAgo \in [Sessions -> Nat]
          /\ lostAgo \in [Sessions -> Nat]
        OBVIOUS
    <2>3. /\ checkIn \in 0..CheckInterval /\ outage \in 0..JobGone
          /\ faults \in 0..MaxFaults
        OBVIOUS
    <2>4. up \in BOOLEAN /\ unsaved \in BOOLEAN
        OBVIOUS
    <2>5. QED
        BY <2>1, <2>2, <2>3, <2>4 DEF TypeInvariant
<1>2. LimitInv
    BY DEF LimitInv, Classes
<1>3. MuteInv
    BY FS_EmptySet DEF MuteInv
<1>4. QED
    BY <1>1, <1>2, <1>3 DEF IInv, KillsAreTold

\* A write succeeds, or leaves the file as it was.
LEMMA SaveTypes ==
    ASSUME TypeInvariant, IsFiniteSet(saved),
           NEW ps, ps \in SUBSET Preferences, IsFiniteSet(ps), Save(ps)
    PROVE  /\ ~unsaved' => saved' = ps
           /\ IsFiniteSet(saved')
           /\ saved' \in SUBSET Preferences /\ unsaved' \in BOOLEAN
           /\ faults' \in 0..MaxFaults
<1>1. saved \in SUBSET Preferences /\ faults \in 0..MaxFaults
    BY DEF TypeInvariant
<1>2. CASE saved' = ps /\ unsaved' = FALSE /\ UNCHANGED faults
    BY <1>1, <1>2
<1>3. CASE /\ faults < MaxFaults /\ faults' = faults + 1
           /\ unsaved' = TRUE
           /\ UNCHANGED saved
    BY <1>1, <1>3, NoticesAssumption
<1>4. QED
    BY <1>2, <1>3 DEF Save

\* Preferences that are pruned lose none that has time left, and are saved
\* unless nothing changed.
LEMMA Pruned ==
    ASSUME TypeInvariant, MuteInv, NEW ps, ps \in SUBSET Preferences, IsFiniteSet(ps),
           NEW force \in BOOLEAN, ~force => ps \subseteq prefs,
           prefs' = ps, SaveIfChanged(ps, force)
    PROVE  /\ ~unsaved' => saved' = prefs'
           /\ IsFiniteSet(saved')
           /\ saved' \in SUBSET Preferences /\ unsaved' \in BOOLEAN
           /\ faults' \in 0..MaxFaults
<1>1. CASE Save(ps)
    BY <1>1, SaveTypes DEF MuteInv
<1>2. CASE ~Save(ps)
    <2>1. UNCHANGED <<saved, unsaved, faults>> /\ ~force /\ Cardinality(ps) = Cardinality(prefs)
        BY <1>2 DEF SaveIfChanged, disk
    <2>2. ps = prefs
        BY <2>1, FS_Subset DEF MuteInv
    <2>3. QED
        BY <2>1, <2>2 DEF MuteInv, TypeInvariant
<1>3. QED
    BY <1>1, <1>2

\* What has run out leaves less to keep.
LEMMA LiveIsSmaller ==
    ASSUME NEW ps, ps \in SUBSET Preferences, IsFiniteSet(ps)
    PROVE  Live(ps) \in SUBSET Preferences /\ Live(ps) \subseteq ps /\ IsFiniteSet(Live(ps))
BY FS_Subset DEF Live

\* A preference takes the place of those with its address.
LEMMA PutKeeps ==
    ASSUME IInv, NEW p \in Preferences, Put(p),
           mustHold' \subseteq mustHold \cup
               ({<<p.target, p.rule>>} \cap (liveJobs \X {p.rule})),
           mustHold' # mustHold => p.kind = "mute" /\ p.scope = "job" /\ p.target \in Jobs,
           p.kind = "mute" => p.left = JobGone /\ p.scope = "job"
    PROVE  IInv'
<1> DEFINE others == {q \in prefs : Address(q) # Address(p)}
<1>1. prefs' = others \cup {p} /\ Save(others \cup {p}) /\ up
    BY DEF Put, told
<1>2. UNCHANGED <<budget, checkIn, liveJobs, up, outage, killAgo, lostAgo, missed>>
    BY DEF Put, told
<1>3. IsFiniteSet(prefs')
    <2>1. IsFiniteSet(others)
        BY FS_Subset DEF IInv, MuteInv
    <2>2. QED
        BY <1>1, <2>1, FS_AddElement
<1>4. /\ prefs' \in SUBSET Preferences /\ saved' \in SUBSET Preferences
      /\ unsaved' \in BOOLEAN /\ faults' \in 0..MaxFaults
      /\ ~unsaved' => saved' = prefs'
      /\ IsFiniteSet(saved')
    <2>1. prefs' \in SUBSET Preferences
        BY <1>1 DEF IInv, TypeInvariant
    <2>2. QED
        BY <1>1, <1>3, <2>1, SaveTypes DEF IInv, MuteInv
<1>5. mustHold' \in SUBSET (Jobs \X (Rules \cup {AnyRule}))
    <2>1. CASE mustHold' = mustHold
        BY <2>1 DEF IInv, TypeInvariant
    <2>2. CASE mustHold' # mustHold
        <3>1. p.target \in Jobs /\ p.rule \in Rules \cup {AnyRule}
            BY <2>2 DEF Preferences
        <3>2. QED
            BY <3>1 DEF IInv, TypeInvariant
    <2>3. QED
        BY <2>1, <2>2
<1>6. TypeInvariant'
    BY <1>2, <1>4, <1>5 DEF IInv, TypeInvariant
<1>7. JobGone >= 1 /\ JobGone >= Slack /\ Slack' = Slack
    BY <1>2, NoticesAssumption DEF Slack, IInv, TypeInvariant
<1>8. ASSUME NEW m \in mustHold'
      PROVE  m[1] \in liveJobs' /\ \E q \in prefs' : Holds(q, m)'
    <2>1. CASE m \in mustHold
        <3>1. PICK q \in prefs : Holds(q, m)
            BY <2>1 DEF IInv, MuteInv
        <3>2. CASE q \in others
            BY <1>1, <1>2, <1>7, <2>1, <3>1, <3>2 DEF Holds, IInv, MuteInv
        <3>3. CASE q \notin others
            <4>1. Address(q) = Address(p)
                BY <3>3
            <4>2. /\ p.kind = q.kind /\ p.scope = q.scope
                  /\ p.target = q.target /\ p.rule = q.rule
                BY <4>1 DEF Address
            <4>3. p.left = JobGone
                BY <3>1, <4>2 DEF Holds
            <4>4. Holds(p, m)'
                BY <1>7, <3>1, <4>2, <4>3 DEF Holds
            <4>5. QED
                BY <1>1, <1>2, <2>1, <4>4 DEF IInv, MuteInv
        <3>4. QED
            BY <3>2, <3>3
    <2>2. CASE m \notin mustHold
        <3>1. m = <<p.target, p.rule>> /\ m[1] \in liveJobs /\ p.kind = "mute"
            BY <2>2
        <3>2. p.scope = "job" /\ p.left = JobGone
            BY <3>1
        <3>3. Holds(p, m)'
            BY <1>7, <3>1, <3>2 DEF Holds
        <3>4. QED
            BY <1>1, <1>2, <3>1, <3>3
    <2>3. QED
        BY <2>1, <2>2
<1>9. MuteInv'
    BY <1>1, <1>2, <1>3, <1>4, <1>8 DEF IInv, MuteInv
<1>10. QED
    BY <1>2, <1>6, <1>9 DEF IInv, LimitInv, KillsAreTold

\* So do preferences that are only pruned, at a notice or a look at them.
LEMMA PruneKeeps ==
    ASSUME IInv, up, prefs' = Live(prefs), SaveIfChanged(Live(prefs), FALSE),
           UNCHANGED <<checkIn, liveJobs, up, outage, mustHold>>
    PROVE  /\ MuteInv'
           /\ prefs' \in SUBSET Preferences /\ saved' \in SUBSET Preferences
           /\ unsaved' \in BOOLEAN /\ faults' \in 0..MaxFaults
<1>1. /\ Live(prefs) \in SUBSET Preferences /\ Live(prefs) \subseteq prefs
      /\ IsFiniteSet(Live(prefs))
    BY LiveIsSmaller DEF IInv, TypeInvariant, MuteInv
<1>2. /\ ~unsaved' => saved' = prefs'
      /\ IsFiniteSet(saved')
      /\ saved' \in SUBSET Preferences /\ unsaved' \in BOOLEAN
      /\ faults' \in 0..MaxFaults
    BY <1>1, Pruned DEF IInv
<1>3. ASSUME NEW m \in mustHold
      PROVE  m[1] \in liveJobs' /\ \E p \in prefs' : Holds(p, m)'
    <2>1. PICK p \in prefs : Holds(p, m)
        BY DEF IInv, MuteInv
    <2>2. p \in prefs'
        BY <2>1 DEF Live, Holds, IInv, TypeInvariant, Preferences
    <2>3. Holds(p, m)'
        BY <2>1 DEF Holds, Slack
    <2>4. QED
        BY <2>2, <2>3 DEF IInv, MuteInv
<1>4. QED
    BY <1>1, <1>2, <1>3 DEF IInv, MuteInv

\* The notice of a tick, within the budget of its session.
LEMMA ObserveKeeps == IInv /\ Observe => IInv'
<1> SUFFICES ASSUME IInv, Observe PROVE IInv'
    OBVIOUS
<1> DEFINE seen == {Seen(p) : p \in prefs}
           refreshed == \E p \in prefs : p.kind = "mute" /\ p.target \in liveJobs
<1>1. /\ up /\ up' /\ checkIn' = CheckInterval /\ outage' = 0
      /\ prefs' = Live(seen) /\ SaveIfChanged(Live(seen), refreshed)
      /\ UNCHANGED <<budget, liveJobs, mustHold, killAgo, lostAgo, missed>>
    BY DEF Observe, told
<1>2. \A p \in prefs : Seen(p) \in Preferences
    BY NoticesAssumption DEF Seen, Preferences, IInv, TypeInvariant
<1>3. seen \in SUBSET Preferences /\ IsFiniteSet(seen)
    <2>1. seen \in SUBSET Preferences
        BY <1>2
    <2>2. IsFiniteSet(seen)
        <3> DEFINE f == [p \in prefs |-> Seen(p)]
        <3>1. f \in Surjection(prefs, seen)
            BY DEF Surjection
        <3>2. QED
            BY <3>1, FS_Surjection DEF IInv, MuteInv
    <2>3. QED
        BY <2>1, <2>2
<1>4. Live(seen) \in SUBSET Preferences /\ IsFiniteSet(Live(seen)) /\ Live(seen) \subseteq seen
    BY <1>3, LiveIsSmaller
<1>5. ~refreshed => Live(seen) \subseteq prefs
    BY <1>4 DEF Seen
<1>6. /\ ~unsaved' => saved' = prefs'
      /\ IsFiniteSet(saved')
      /\ saved' \in SUBSET Preferences /\ unsaved' \in BOOLEAN
      /\ faults' \in 0..MaxFaults
    <2>1. refreshed \in BOOLEAN
        OBVIOUS
    <2> HIDE DEF seen, refreshed
    <2>2. QED
        BY <1>1, <1>4, <1>5, <2>1, Pruned DEF IInv
<1>7. ASSUME NEW m \in mustHold
      PROVE  m[1] \in liveJobs' /\ \E p \in prefs' : Holds(p, m)'
    <2>1. PICK p \in prefs : Holds(p, m)
        BY DEF IInv, MuteInv
    <2>2. m[1] \in liveJobs
        BY DEF IInv, MuteInv
    <2>3. Seen(p) = [p EXCEPT !.left = JobGone] /\ p \in Preferences
        BY <2>1, <2>2 DEF Seen, Holds, IInv, TypeInvariant
    <2>4. PICK q \in seen : q = Seen(p)
        OBVIOUS
    <2>5. /\ q.kind = "mute" /\ q.scope = "job" /\ q.target = m[1]
          /\ q.rule = m[2] /\ q.left = JobGone
        BY <2>1, <2>3, <2>4 DEF Holds, Preferences
    <2>6. Slack' = JobGone
        BY <1>1, NoticesAssumption DEF Slack
    <2>7. q \in prefs'
        BY <1>1, <2>5, NoticesAssumption DEF Live
    <2>8. Holds(q, m)'
        BY <2>5, <2>6, NoticesAssumption DEF Holds
    <2>9. QED
        BY <1>1, <2>2, <2>7, <2>8
<1>8. MuteInv'
    BY <1>1, <1>4, <1>6, <1>7 DEF MuteInv
<1>9. TypeInvariant'
    BY <1>1, <1>4, <1>6, NoticesAssumption DEF IInv, TypeInvariant
<1>10. QED
    BY <1>1, <1>8, <1>9 DEF IInv, LimitInv, KillsAreTold

\* A snooze adds one preference.
LEMMA SnoozeKeeps ==
    ASSUME IInv, NEW o \in Owners, NEW r \in Rules \cup {AnyRule}, NEW t \in Snoozes,
           Snooze(o, r, t)
    PROVE  IInv'
<1> DEFINE p == [kind |-> "snooze", scope |-> o.kind, target |-> o.id,
                 rule |-> r, left |-> t]
<1>1. p \in Preferences
    BY NoticesAssumption DEF Snooze, Owners, Preferences
<1>2. Put(p) /\ mustHold' = mustHold
    BY DEF Snooze
<1>3. p.kind = "snooze"
    OBVIOUS
<1> HIDE DEF p
<1>4. QED
    BY <1>1, <1>2, <1>3, PutKeeps

\* So does a mute, and its job is looked after from then on.
LEMMA MuteKeeps ==
    ASSUME IInv, NEW j \in Jobs, NEW r \in Rules \cup {AnyRule}, Mute(j, r)
    PROVE  IInv'
<1> DEFINE p == [kind |-> "mute", scope |-> "job", target |-> j, rule |-> r,
                 left |-> JobGone]
<1>1. p \in Preferences
    BY NoticesAssumption DEF Preferences
<1>2. Put(p) /\ mustHold' = mustHold \cup ({<<j, r>>} \cap (liveJobs \X {r}))
    BY DEF Mute
<1>3. /\ p.kind = "mute" /\ p.scope = "job" /\ p.target = j /\ p.rule = r
      /\ p.left = JobGone
    OBVIOUS
<1> HIDE DEF p
<1>4. QED
    BY <1>1, <1>2, <1>3, PutKeeps

\* Unmuting takes away what it should, and the job's promise with it.
LEMMA UnmuteKeeps ==
    ASSUME IInv, NEW o \in Owners, NEW r \in Rules \cup {AnyRule}, Unmute(o, r)
    PROVE  IInv'
<1> DEFINE Named(p) == /\ p.scope = o.kind /\ p.target = o.id
                       /\ r \in {AnyRule, p.rule}
           rest == {p \in prefs : ~Named(p)}
<1>1. /\ up /\ prefs' = rest /\ Save(rest)
      /\ mustHold' = {m \in mustHold : ~(/\ <<"job", m[1]>> = <<o.kind, o.id>>
                                         /\ r \in {AnyRule, m[2]})}
      /\ UNCHANGED <<budget, checkIn, liveJobs, up, outage, killAgo, lostAgo, missed>>
    BY DEF Unmute, told
<1>2. rest \in SUBSET Preferences /\ IsFiniteSet(rest)
    BY FS_Subset DEF IInv, TypeInvariant, MuteInv
<1>3. /\ ~unsaved' => saved' = prefs'
      /\ IsFiniteSet(saved')
      /\ saved' \in SUBSET Preferences /\ unsaved' \in BOOLEAN
      /\ faults' \in 0..MaxFaults
    <2> HIDE DEF rest
    <2>1. QED
        BY <1>1, <1>2, SaveTypes DEF IInv, MuteInv
<1>4. ASSUME NEW m \in mustHold'
      PROVE  m[1] \in liveJobs' /\ \E p \in prefs' : Holds(p, m)'
    <2>1. m \in mustHold /\ m[1] \in liveJobs
        BY <1>1 DEF IInv, MuteInv
    <2>2. PICK p \in prefs : Holds(p, m)
        BY <2>1 DEF IInv, MuteInv
    <2>3. ~Named(p)
        BY <1>1, <2>2 DEF Holds
    <2>4. Holds(p, m)'
        BY <1>1, <2>2 DEF Holds, Slack
    <2>5. QED
        BY <1>1, <2>1, <2>2, <2>3, <2>4
<1>5. MuteInv'
    <2> HIDE DEF rest
    <2>1. QED
        BY <1>1, <1>2, <1>3, <1>4 DEF IInv, MuteInv
<1>6. TypeInvariant'
    <2>1. mustHold' \subseteq mustHold
        BY <1>1
    <2> HIDE DEF rest
    <2>2. QED
        BY <1>1, <1>2, <1>3, <2>1 DEF IInv, TypeInvariant
<1>7. QED
    BY <1>1, <1>5, <1>6 DEF IInv, LimitInv, KillsAreTold

\* A snapshot writes what memory holds.
LEMMA SnapshotKeeps == IInv /\ Snapshot => IInv'
<1> SUFFICES ASSUME IInv, Snapshot PROVE IInv'
    OBVIOUS
<1>1. /\ up /\ prefs' = Live(prefs) /\ SaveIfChanged(Live(prefs), FALSE)
      /\ UNCHANGED <<budget, checkIn, liveJobs, up, outage, mustHold, killAgo, lostAgo, missed>>
    BY DEF Snapshot, told
<1>2. TypeInvariant'
    BY <1>1, PruneKeeps DEF IInv, TypeInvariant
<1>3. QED
    BY <1>1, <1>2, PruneKeeps DEF IInv, LimitInv, KillsAreTold

\* The heart of KillsAreTold: a kill of an unsilenced session is posted unless
\* the limiter is spent, and then it was told of another kill, or a post was lost.
LEMMA NotifyKeeps ==
    ASSUME IInv, NEW o \in Owners, NEW r \in Rules,
           NEW k \in {"kill", "warning", "cap", "drill"}, Notify(o, k, r)
    PROVE  IInv'
<1> DEFINE session == o.kind = "session"
           silent == \E p \in prefs : p.left > 0 /\ Silences(p, o, r)
<1>1. PICK needed \in {TRUE} \cup (IF MayNeedNothing(k) THEN {FALSE} ELSE {}),
           posted \in BOOLEAN, through \in BOOLEAN :
        /\ posted <=> /\ session /\ needed /\ Match(prefs, o, r) = {}
                      /\ Limited(k) => budget[o.id][ClassOf(k)] = 0
        /\ budget' = IF posted /\ Limited(k)
                     THEN [budget EXCEPT ![o.id][ClassOf(k)] = Period] ELSE budget
        /\ killAgo' = IF posted /\ k = "kill" /\ through
                      THEN [killAgo EXCEPT ![o.id] = Period] ELSE killAgo
        /\ lostAgo' = IF posted /\ k = "kill" /\ ~through
                      THEN [lostAgo EXCEPT ![o.id] = Period] ELSE lostAgo
        /\ missed' = missed \cup
             (IF session /\ k = "kill" /\ ~posted /\ ~silent /\ killAgo[o.id] = 0
                         /\ lostAgo[o.id] = 0
              THEN {o.id} ELSE {})
    <2> SUFFICES
          ASSUME NEW needed \in {TRUE} \cup (IF MayNeedNothing(k) THEN {FALSE} ELSE {}),
                 NEW through \in BOOLEAN,
                 LET wanted == session /\ needed /\ Match(prefs, o, r) = {}
                     within == Limited(k) => budget[o.id][ClassOf(k)] = 0
                     posted == wanted /\ within IN
                 /\ budget' = IF posted /\ Limited(k)
                              THEN [budget EXCEPT ![o.id][ClassOf(k)] = Period]
                              ELSE budget
                 /\ killAgo' = IF posted /\ k = "kill" /\ through = TRUE
                               THEN [killAgo EXCEPT ![o.id] = Period] ELSE killAgo
                 /\ lostAgo' = IF posted /\ k = "kill" /\ through = FALSE
                               THEN [lostAgo EXCEPT ![o.id] = Period] ELSE lostAgo
                 /\ missed' = missed \cup
                      (IF /\ session /\ k = "kill" /\ ~posted
                          /\ ~\E p \in prefs : p.left > 0 /\ Silences(p, o, r)
                          /\ killAgo[o.id] = 0 /\ lostAgo[o.id] = 0
                       THEN {o.id} ELSE {})
          PROVE  \E n \in {TRUE} \cup (IF MayNeedNothing(k) THEN {FALSE} ELSE {}),
                    posted \in BOOLEAN, t \in BOOLEAN :
                 /\ posted <=> /\ session /\ n /\ Match(prefs, o, r) = {}
                               /\ Limited(k) => budget[o.id][ClassOf(k)] = 0
                 /\ budget' = IF posted /\ Limited(k)
                              THEN [budget EXCEPT ![o.id][ClassOf(k)] = Period] ELSE budget
                 /\ killAgo' = IF posted /\ k = "kill" /\ t
                               THEN [killAgo EXCEPT ![o.id] = Period] ELSE killAgo
                 /\ lostAgo' = IF posted /\ k = "kill" /\ ~t
                               THEN [lostAgo EXCEPT ![o.id] = Period] ELSE lostAgo
                 /\ missed' = missed \cup
                      (IF /\ session /\ k = "kill" /\ ~posted /\ ~silent
                          /\ killAgo[o.id] = 0 /\ lostAgo[o.id] = 0
                       THEN {o.id} ELSE {})
        BY DEF Notify
    <2>1. QED
        OBVIOUS
<1>2. /\ up /\ prefs' = Live(prefs) /\ SaveIfChanged(Live(prefs), FALSE)
      /\ UNCHANGED <<checkIn, liveJobs, up, outage, mustHold>>
    BY DEF Notify
<1>3. session => o.id \in Sessions
    BY DEF Owners
<1>4. /\ budget \in [Sessions -> [Classes -> Nat]] /\ killAgo \in [Sessions -> Nat]
      /\ lostAgo \in [Sessions -> Nat]
      /\ LimitInv /\ missed = {}
    BY DEF IInv, TypeInvariant, KillsAreTold
<1>5. posted => session /\ o.id \in Sessions
    BY <1>1, <1>3
<1>6. /\ budget' \in [Sessions -> [Classes -> Nat]] /\ killAgo' \in [Sessions -> Nat]
      /\ lostAgo' \in [Sessions -> Nat]
    BY <1>1, <1>4, <1>5, NoticesAssumption DEF Classes, ClassOf
<1>7. LimitInv'
    <2>1. ASSUME NEW s \in Sessions
          PROVE  \/ budget'[s]["kill"] <= killAgo'[s]
                 \/ budget'[s]["kill"] <= lostAgo'[s]
        <3>1. \/ budget[s]["kill"] <= killAgo[s]
              \/ budget[s]["kill"] <= lostAgo[s]
            BY <1>4 DEF LimitInv
        <3>2. CASE posted /\ k = "kill" /\ s = o.id
            <4>1. budget'[s]["kill"] = Period
                BY <1>1, <1>4, <3>2 DEF Classes, ClassOf, Limited
            <4>2. killAgo'[s] = Period \/ lostAgo'[s] = Period
                BY <1>1, <1>4, <3>2
            <4>3. QED
                BY <4>1, <4>2, NoticesAssumption
        <3>3. CASE ~(posted /\ k = "kill" /\ s = o.id)
            <4>1. budget'[s]["kill"] = budget[s]["kill"]
                BY <1>1, <1>4, <1>5, <3>3 DEF Classes, ClassOf, Limited
            <4>2. killAgo'[s] = killAgo[s] /\ lostAgo'[s] = lostAgo[s]
                BY <1>1, <1>4, <1>5, <3>3
            <4>3. QED
                BY <3>1, <4>1, <4>2
        <3>4. QED
            BY <3>2, <3>3
    <2>2. QED
        BY <2>1 DEF LimitInv
<1>8. missed' = {}
    <2> SUFFICES ASSUME session, k = "kill", ~posted, ~silent, killAgo[o.id] = 0,
                        lostAgo[o.id] = 0
                 PROVE  FALSE
        BY <1>1, <1>4
    <2>1. needed
        BY DEF MayNeedNothing
    <2>2. Match(prefs, o, r) = {}
        BY DEF Match, Live
    <2>3. budget[o.id]["kill"] = 0
        BY <1>3, <1>4 DEF LimitInv, Classes
    <2>4. QED
        BY <1>1, <2>1, <2>2, <2>3 DEF ClassOf
<1>9. TypeInvariant'
    BY <1>2, <1>6, <1>8, PruneKeeps DEF IInv, TypeInvariant
<1>10. QED
    BY <1>2, <1>7, <1>8, <1>9, PruneKeeps DEF IInv, KillsAreTold

\* Jobs come and go.
LEMMA JobsKeep == ASSUME IInv, NEW j \in Jobs, JobStarts(j) \/ JobEnds(j) PROVE IInv'
<1>1. /\ UNCHANGED <<prefs, saved, unsaved, budget, checkIn, up, faults, outage, killAgo,
                     lostAgo, missed>>
      /\ liveJobs' \in SUBSET Jobs
      /\ mustHold' \subseteq mustHold
      /\ \A m \in mustHold' : m[1] \in liveJobs => m[1] \in liveJobs'
    BY DEF JobStarts, JobEnds, memory, disk, told, IInv, TypeInvariant
<1>2. TypeInvariant'
    BY <1>1 DEF IInv, TypeInvariant
<1>3. \A m \in mustHold, p \in prefs : Holds(p, m) => Holds(p, m)'
    BY <1>1 DEF Holds, Slack
<1>4. \A m \in mustHold' : m[1] \in liveJobs' /\ \E p \in prefs' : Holds(p, m)'
    BY <1>1, <1>3 DEF IInv, MuteInv
<1>5. MuteInv'
    BY <1>1, <1>4 DEF IInv, MuteInv
<1>6. QED
    BY <1>1, <1>2, <1>5 DEF IInv, LimitInv, KillsAreTold

\* A crash leaves the file.
LEMMA CrashKeeps == IInv /\ Crash => IInv'
<1> SUFFICES ASSUME IInv, Crash PROVE IInv'
    OBVIOUS
<1>1. /\ up /\ ~up' /\ faults' \in 0..MaxFaults
      /\ mustHold' = IF unsaved THEN {} ELSE mustHold
      /\ UNCHANGED <<prefs, saved, unsaved, budget, checkIn, liveJobs, outage, killAgo,
                     lostAgo, missed>>
    BY NoticesAssumption DEF Crash, memory, disk, told, IInv, TypeInvariant
<1>2. TypeInvariant'
    BY <1>1 DEF Crash, IInv, TypeInvariant
<1>3. \A m \in mustHold, p \in prefs : p.left \in Nat /\ Holds(p, m) => Holds(p, m)'
    BY <1>1, NoticesAssumption DEF Holds, Slack, IInv, TypeInvariant
<1>4. \A p \in prefs : p.left \in Nat
    BY DEF IInv, TypeInvariant, Preferences
<1>5. \A m \in mustHold' : m[1] \in liveJobs' /\ \E p \in prefs' : Holds(p, m)'
    BY <1>1, <1>3, <1>4 DEF IInv, MuteInv
<1>6. MuteInv'
    BY <1>1, <1>5 DEF IInv, MuteInv
<1>7. QED
    BY <1>1, <1>2, <1>6 DEF IInv, LimitInv, KillsAreTold

\* What is read is what was in memory, or nothing has to hold.
LEMMA RestartKeeps == IInv /\ Restart => IInv'
<1> SUFFICES ASSUME IInv, Restart PROVE IInv'
    OBVIOUS
<1>1. /\ ~up /\ up' /\ prefs' = saved /\ checkIn' = 0
      /\ budget' = [s \in Sessions |-> [c \in Classes |-> 0]]
      /\ UNCHANGED <<saved, unsaved, liveJobs, faults, outage, mustHold, killAgo, lostAgo, missed>>
    BY DEF Restart, disk, told
<1>2. TypeInvariant'
    <2>1. budget' \in [Sessions -> [Classes -> Nat]]
        BY <1>1
    <2>2. QED
        BY <1>1, <2>1, NoticesAssumption DEF Restart, IInv, TypeInvariant
<1>3. LimitInv'
    BY <1>1 DEF LimitInv, IInv, TypeInvariant, Classes
<1>4. \A m \in mustHold, p \in prefs : Holds(p, m) => Holds(p, m)'
    BY <1>1 DEF Holds, Slack
<1>5. IsFiniteSet(prefs') /\ IsFiniteSet(saved')
    BY <1>1 DEF IInv, MuteInv
<1>6. MuteInv'
    BY <1>1, <1>4, <1>5 DEF IInv, MuteInv
<1>7. QED
    BY <1>1, <1>2, <1>3, <1>6 DEF IInv, KillsAreTold

\* Time leaves no more preferences than there were.
LEMMA AgedIsFinite == ASSUME NEW ps, IsFiniteSet(ps) PROVE IsFiniteSet(Aged(ps))
<1> DEFINE f == [p \in ps |-> [p EXCEPT !.left = Less(p.left)]]
<1>1. f \in Surjection(ps, Aged(ps))
    BY DEF Surjection, Aged
<1>2. QED
    BY <1>1, FS_Surjection

\* Mutes and limits run together with the clock that they are compared with.
LEMMA TickKeeps == IInv /\ Tick => IInv'
<1> SUFFICES ASSUME IInv, Tick PROVE IInv'
    OBVIOUS
<1>1. /\ up => checkIn > 0
      /\ prefs' = Aged(prefs) /\ saved' = Aged(saved) /\ checkIn' = Less(checkIn)
      /\ budget' = [s \in Sessions |-> [c \in Classes |-> Less(budget[s][c])]]
      /\ killAgo' = [s \in Sessions |-> Less(killAgo[s])]
      /\ lostAgo' = [s \in Sessions |-> Less(lostAgo[s])]
      /\ outage' = IF up \/ outage = JobGone THEN outage ELSE outage + 1
      /\ mustHold' = IF outage' >= JobGone - CheckInterval THEN {} ELSE mustHold
      /\ UNCHANGED <<unsaved, liveJobs, up, faults, missed>>
    BY DEF Tick
<1>2. /\ budget \in [Sessions -> [Classes -> Nat]] /\ killAgo \in [Sessions -> Nat]
      /\ lostAgo \in [Sessions -> Nat]
      /\ checkIn \in 0..CheckInterval /\ outage \in 0..JobGone
      /\ prefs \in SUBSET Preferences /\ saved \in SUBSET Preferences
    BY DEF IInv, TypeInvariant
<1>3. \A n \in Nat : Less(n) \in Nat /\ Less(n) <= n
    BY DEF Less
<1>4. \A p \in Preferences : [p EXCEPT !.left = Less(p.left)] \in Preferences
    BY <1>3 DEF Preferences
<1>5. prefs' \in SUBSET Preferences /\ saved' \in SUBSET Preferences
    BY <1>1, <1>2, <1>4 DEF Aged
<1>6. /\ budget' \in [Sessions -> [Classes -> Nat]] /\ killAgo' \in [Sessions -> Nat]
      /\ lostAgo' \in [Sessions -> Nat] /\ LimitInv'
    <2>1. /\ budget' \in [Sessions -> [Classes -> Nat]] /\ killAgo' \in [Sessions -> Nat]
          /\ lostAgo' \in [Sessions -> Nat]
        BY <1>1, <1>2, <1>3
    <2>2. ASSUME NEW s \in Sessions
          PROVE  \/ budget'[s]["kill"] <= killAgo'[s]
                 \/ budget'[s]["kill"] <= lostAgo'[s]
        <3>1. /\ budget[s]["kill"] \in Nat /\ killAgo[s] \in Nat /\ lostAgo[s] \in Nat
              /\ \/ budget[s]["kill"] <= killAgo[s]
                 \/ budget[s]["kill"] <= lostAgo[s]
            BY <1>2 DEF Classes, IInv, LimitInv
        <3>2. /\ budget'[s]["kill"] = Less(budget[s]["kill"])
              /\ killAgo'[s] = Less(killAgo[s]) /\ lostAgo'[s] = Less(lostAgo[s])
            BY <1>1 DEF Classes
        <3>3. QED
            BY <3>1, <3>2 DEF Less
    <2>3. QED
        BY <2>1, <2>2 DEF LimitInv
<1>7. checkIn' \in 0..CheckInterval /\ outage' \in 0..JobGone
    BY <1>1, <1>2, NoticesAssumption DEF Less
<1>8. TypeInvariant'
    BY <1>1, <1>5, <1>6, <1>7 DEF IInv, TypeInvariant
<1>9. IsFiniteSet(prefs') /\ IsFiniteSet(saved')
    BY <1>1, AgedIsFinite DEF IInv, MuteInv
<1>10. ~unsaved' => saved' = prefs'
    BY <1>1 DEF IInv, MuteInv
<1>11. up' /\ checkIn' > 0 => outage' = 0
    BY <1>1, <1>2 DEF IInv, MuteInv, Less
<1>12. ASSUME NEW m \in mustHold'
       PROVE  m[1] \in liveJobs' /\ \E p \in prefs' : Holds(p, m)'
    <2>1. m \in mustHold /\ m[1] \in liveJobs /\ outage' < JobGone - CheckInterval
        BY <1>1, <1>7, NoticesAssumption DEF IInv, MuteInv
    <2>2. PICK p \in prefs : Holds(p, m)
        BY <2>1 DEF IInv, MuteInv
    <2>3. PICK q \in prefs' : q = [p EXCEPT !.left = Less(p.left)]
        BY <1>1, <2>2 DEF Aged
    <2>4. p \in Preferences /\ p.left \in Nat
        BY <1>2, <2>2 DEF Preferences
    <2>5. /\ q.kind = "mute" /\ q.scope = "job" /\ q.target = m[1] /\ q.rule = m[2]
          /\ q.left = p.left - 1
        BY <2>2, <2>3, <2>4 DEF Holds, Preferences, Less
    <2>6. q.left >= 1 /\ q.left >= Slack'
        <3>1. CASE up
            <4>1. outage = 0 /\ outage' = 0 /\ checkIn' = checkIn - 1 /\ up'
                BY <1>1, <1>2, <3>1 DEF IInv, MuteInv, Less
            <4>2. p.left >= JobGone - CheckInterval + checkIn
                BY <1>2, <2>2, <3>1, <4>1, NoticesAssumption DEF Holds, Slack
            <4>3. Slack' = JobGone - CheckInterval + checkIn - 1
                BY <1>2, <4>1, NoticesAssumption DEF Slack
            <4>4. QED
                BY <1>1, <1>2, <2>4, <2>5, <3>1, <4>2, <4>3, NoticesAssumption
        <3>2. CASE ~up
            <4>1. outage' = outage + 1 /\ ~up'
                BY <1>1, <1>2, <2>1, <3>2, NoticesAssumption
            <4>2. p.left >= JobGone - CheckInterval - outage
                BY <1>2, <2>2, <3>2, NoticesAssumption DEF Holds, Slack
            <4>3. Slack' = JobGone - CheckInterval - (outage + 1)
                BY <1>2, <4>1, NoticesAssumption DEF Slack
            <4>4. QED
                BY <1>2, <2>1, <2>4, <2>5, <4>1, <4>2, <4>3, NoticesAssumption
        <3>3. QED
            BY <3>1, <3>2
    <2>7. Holds(q, m)'
        BY <2>5, <2>6 DEF Holds
    <2>8. QED
        BY <1>1, <2>1, <2>7
<1>13. unsaved' /\ ~up' => mustHold' = {}
    BY <1>1 DEF IInv, MuteInv
<1>14. QED
    BY <1>1, <1>6, <1>8, <1>9, <1>10, <1>11, <1>12, <1>13 DEF IInv, MuteInv, KillsAreTold
-----------------------------------------------------------------------------
\* Every step keeps the invariant.
LEMMA StepIInv == IInv /\ [Next]_vars => IInv'
<1> SUFFICES ASSUME IInv, [Next]_vars PROVE IInv'
    OBVIOUS
<1>1. CASE UNCHANGED vars
    BY <1>1 DEF vars, memory, disk, told, IInv, TypeInvariant, LimitInv, MuteInv, Holds, Slack,
                KillsAreTold
<1>2. CASE Next
    BY <1>2, SnoozeKeeps, MuteKeeps, UnmuteKeeps, SnapshotKeeps, NotifyKeeps, ObserveKeeps,
       JobsKeep, CrashKeeps, RestartKeeps, TickKeeps DEF Next
<1>3. QED
    BY <1>1, <1>2

\* The invariant of the notices.
THEOREM Invariance == Spec => []IInv
<1>1. QED
    BY InitIInv, StepIInv, PTL DEF Spec

\* The notices' variables keep their types.
THEOREM TypeCorrect == Spec => []TypeInvariant
<1>1. IInv => TypeInvariant
    BY DEF IInv
<1>2. QED
    BY <1>1, Invariance, PTL

\* Every kill that its session has not silenced is posted to it, unless within
\* the period it was told of another one or the post about another one failed,
\* for any number of sessions, rules, preferences and restarts.
THEOREM KillsAreAlwaysTold == Spec => []KillsAreTold
<1>1. IInv => KillsAreTold
    BY DEF IInv
<1>2. QED
    BY <1>1, Invariance, PTL

\* A mute lives as long as its job, for every check interval that is shorter
\* than the time after which a job counts as gone.
THEOREM MutesAlwaysHold == Spec => []MuteHolds
<1>1. IInv => MuteHolds
    <2> SUFFICES ASSUME IInv, NEW m \in mustHold
                 PROVE  \E p \in prefs : p.kind = "mute" /\ <<p.target, p.rule>> = m
        BY DEF MuteHolds
    <2>1. PICK p \in prefs : Holds(p, m)
        BY DEF IInv, MuteInv
    <2>2. m \in Jobs \X (Rules \cup {AnyRule})
        BY DEF IInv, TypeInvariant
    <2>3. QED
        BY <2>1, <2>2 DEF Holds
<1>2. QED
    BY <1>1, Invariance, PTL

-----------------------------------------------------------------------------
(* ConfigPatch: the engine runs what is in the file, or is about to.        *)

\* A thread's record has these fields.
Shaped(t) == DOMAIN t = {"at", "edits", "kind", "text", "wrote"}

HandlersShaped ==
    /\ handler = [h \in Handlers |-> handler[h]]
    /\ \A h \in Handlers : Shaped(handler[h])

\* A request that has written and not yet answered or failed.
Unanswered(h) == handler[h].at # "idle" /\ handler[h].wrote = TRUE

\* An engine that does not run what is in the file is about to reload it.
ConfigInv ==
    /\ HandlersShaped
    /\ hasPath /\ ~leftover /\ loaded # Load(file) =>
         requested \/ loading \/ \E h \in Handlers : Unanswered(h)

\* An idle thread has all fields.
LEMMA IdleIsShaped == Shaped(Idle)
BY DEF Idle, Shaped

\* The loop started from the file it was given.
LEMMA InitConfigInv == ConfigInit => ConfigInv
<1> SUFFICES ASSUME ConfigInit PROVE ConfigInv
    OBVIOUS
<1>1. Shaped(Idle)
    BY IdleIsShaped
<1>2. HandlersShaped
    BY <1>1 DEF ConfigInit, HandlersShaped
<1>3. QED
    BY <1>2 DEF ConfigInit, ConfigInv

\* What a thread does leaves the records of the others.
LEMMA BecomeKeepsTheOthers ==
    ASSUME HandlersShaped, NEW h \in Handlers, NEW next, Shaped(next), Become(h, next)
    PROVE  /\ HandlersShaped'
           /\ handler'[h] = next
           /\ \A k \in Handlers : k # h => handler'[k] = handler[k]
<1>1. handler' = [k \in Handlers |-> IF k = h THEN next ELSE handler[k]]
    BY DEF HandlersShaped, Become
<1>2. QED
    BY <1>1 DEF HandlersShaped

\* A thread that fails after a write leaves the file ahead of the engine.
LEMMA RefusalIsLeftover ==
    ASSUME ConfigInv, NEW h \in Handlers, Refuse(h)
    PROVE  ConfigInv'
<1>1. Shaped(Idle)
    BY IdleIsShaped
<1>2. /\ HandlersShaped' /\ \A k \in Handlers : k # h => handler'[k] = handler[k]
    BY <1>1, BecomeKeepsTheOthers DEF Refuse, ConfigInv
<1>3. QED
    BY <1>2 DEF Refuse, ConfigInv, Unanswered, loop

\* A request on its way keeps the file it has written in view.
LEMMA RequestsGoOn ==
    ASSUME ConfigInv, NEW h \in Handlers,
           Receive(h) \/ Look(h) \/ Materialize(h) \/ Read(h) \/ Write(h)
    PROVE  ConfigInv'
<1> DEFINE t == handler[h]
<1>1. HandlersShaped /\ Shaped(t)
    BY DEF ConfigInv, HandlersShaped
<1>2. \E n : /\ Become(h, n) /\ Shaped(n)
             /\ n.at # "idle"
             /\ t.wrote = TRUE => n.wrote = TRUE \/ Receive(h)
             /\ file' = file \/ n.wrote = TRUE
  <2>1. CASE Receive(h)
    <3>1. PICK r \in Requests : Become(h, [Idle EXCEPT !.at = "field", !.edits = r.edits,
                                                    !.kind = r.kind])
        BY <2>1 DEF Receive
    <3> DEFINE n == [Idle EXCEPT !.at = "field", !.edits = r.edits, !.kind = r.kind]
    <3>2. Shaped(n) /\ n.at = "field"
        BY DEF Idle, Shaped
    <3> HIDE DEF n
    <3>3. QED
        BY <2>1, <3>1, <3>2 DEF Receive, n
  <2>2. CASE Look(h)
    <3>1. PICK at \in {"materialize", "read"} : Become(h, [t EXCEPT !.at = at])
        BY <2>2 DEF Look
    <3> DEFINE n == [t EXCEPT !.at = at]
    <3>2. Shaped(n) /\ n.at = at /\ n.wrote = t.wrote
        BY <1>1 DEF Shaped
    <3>3. QED
        BY <2>2, <3>1, <3>2 DEF Look
  <2>3. CASE Materialize(h)
    <3> DEFINE n == [t EXCEPT !.at = "read", !.wrote = TRUE]
    <3>1. Shaped(n) /\ n.at = "read" /\ n.wrote = TRUE
        BY <1>1 DEF Shaped
    <3>2. Become(h, n)
        BY <2>3 DEF Materialize
    <3> HIDE DEF n
    <3>3. QED
        BY <3>1, <3>2
  <2>4. CASE Read(h)
    <3> DEFINE n == [t EXCEPT !.at = "write", !.text = Replaced(file, Edit(h))]
    <3>1. Shaped(n) /\ n.at = "write" /\ n.wrote = t.wrote
        BY <1>1 DEF Shaped
    <3>2. Become(h, n) /\ file' = file
        BY <2>4 DEF Read
    <3> HIDE DEF n
    <3>3. QED
        BY <3>1, <3>2
  <2>5. CASE Write(h)
    <3> DEFINE n(at) == [t EXCEPT !.at = at, !.edits = Tail(@), !.text = <<>>, !.wrote = TRUE]
    <3>1. PICK at \in {"request", "field"} : Become(h, n(at))
        BY <2>5 DEF Write
    <3>2. Shaped(n(at)) /\ n(at).at = at /\ n(at).wrote = TRUE
        BY <1>1 DEF Shaped
    <3> HIDE DEF n
    <3>3. QED
        BY <3>1, <3>2
  <2>6. QED
      BY <2>1, <2>2, <2>3, <2>4, <2>5
<1>3. PICK n : /\ Become(h, n) /\ Shaped(n)
               /\ n.at # "idle"
               /\ t.wrote = TRUE => n.wrote = TRUE \/ Receive(h)
               /\ file' = file \/ n.wrote = TRUE
    BY <1>2
<1>4. /\ HandlersShaped' /\ handler'[h] = n
      /\ \A k \in Handlers : k # h => handler'[k] = handler[k]
    BY <1>1, <1>3, BecomeKeepsTheOthers
<1>5. /\ UNCHANGED <<hasPath, requested, loop, leftover>>
      /\ Receive(h) => t.at = "idle" /\ file' = file
    BY DEF Receive, Look, Materialize, Read, Write
<1>6. QED
    BY <1>3, <1>4, <1>5 DEF ConfigInv, Unanswered, loop

\* Who answers, or asks for a reload on the way, has requested one.
LEMMA AnswersAskForAReload ==
    ASSUME ConfigInv, NEW h \in Handlers, RequestReload(h) \/ Answer(h)
    PROVE  ConfigInv'
<1> DEFINE t == handler[h]
<1>1. HandlersShaped /\ Shaped(Idle)
    BY IdleIsShaped DEF ConfigInv
<1>2. PICK n \in {Idle, [t EXCEPT !.at = "field"]} : Become(h, n)
    BY DEF RequestReload, Answer
<1>3. Shaped(n)
    BY <1>1, <1>2 DEF HandlersShaped, Shaped
<1>4. HandlersShaped' /\ requested' = TRUE
    BY <1>1, <1>2, <1>3, BecomeKeepsTheOthers DEF RequestReload, Answer
<1>5. QED
    BY <1>4 DEF ConfigInv

\* Every step of the handlers, the loop and the owner keeps it.
LEMMA StepConfigInv == ConfigInv /\ [ConfigNext]_configVars => ConfigInv'
<1> SUFFICES ASSUME ConfigInv, [ConfigNext]_configVars PROVE ConfigInv'
    OBVIOUS
<1>1. CASE Consume
    BY <1>1 DEF Consume, ConfigInv, HandlersShaped, Unanswered
<1>2. CASE Reload
    BY <1>2 DEF Reload, ConfigInv, HandlersShaped, Unanswered
<1>3. ASSUME NEW h \in Handlers, Receive(h) \/ Serve(h) \/ WriteFails(h) PROVE ConfigInv'
    BY <1>3, RefusalIsLeftover, RequestsGoOn, AnswersAskForAReload
       DEF Serve, RejectValue, RuleNotFound, WriteFails
<1>4. CASE UNCHANGED configVars
    BY <1>4 DEF configVars, loop, bounds, ConfigInv, HandlersShaped, Unanswered
<1>5. QED
    BY <1>1, <1>2, <1>3, <1>4 DEF ConfigNext, Loop

\* For any clients, texts and threads: an engine that does not run what the file
\* says is about to load it, or a client was told that its change failed.
THEOREM EngineFollowsTheFile == ConfigFileSpec => []LoadedFollowsFile
<1>1. ConfigInv => LoadedFollowsFile
    BY DEF ConfigInv, LoadedFollowsFile, Quiet, Unanswered
<1>2. QED
    BY <1>1, InitConfigInv, StepConfigInv, PTL DEF ConfigFileSpec

-----------------------------------------------------------------------------
(* ConfigPatch: an edit changes the field it names, and no other.           *)

\* A set of numbers with a bound has a greatest.
LEMMA Greatest ==
    ASSUME NEW S \in SUBSET Nat, S # {}, NEW n \in Nat, \A k \in S : k <= n
    PROVE  Max(S) \in S /\ \A k \in S : k <= Max(S)
<1> DEFINE U == {u \in Nat : \A k \in S : k <= u}
<1>1. PICK u \in U : \A k \in U : u <= k
    BY Least
<1>2. u \in S
  <2>1. ASSUME u \notin S PROVE FALSE
    <3>1. PICK k \in S : TRUE
        OBVIOUS
    <3>2. u - 1 \in Nat /\ \A j \in S : j <= u - 1
        BY <2>1, <3>1
    <3>3. u <= u - 1
        BY <1>1, <3>2
    <3>4. QED
        BY <3>3
  <2>2. QED
      BY <2>1
<1>3. \E x \in S : \A y \in S : x >= y
    BY <1>2
<1>4. QED
    BY <1>3 DEF Max

LEMMA Smallest ==
    ASSUME NEW S \in SUBSET Nat, S # {}
    PROVE  Min(S) \in S
<1>1. PICK m \in S : \A k \in S : m <= k
    BY Least
<1>2. \E x \in S : \A y \in S : x =< y
    BY <1>1
<1>3. QED
    BY <1>2 DEF Min

\* A line has these fields; a text is a sequence of lines.
IsLine(l) == l = [key |-> l.key, value |-> l.value, marks |-> l.marks]

IsText(text) == \E S : text \in Seq(S) /\ \A l \in S : IsLine(l)

\* No header separates two lines.
Together(text, i, j) ==
    \A k \in DOMAIN text : IsHeader(text[k]) => (k <= i <=> k <= j)

\* A table has one name.
OneName(text) ==
    \A i, j \in DOMAIN text :
       text[i].key = "name" /\ text[j].key = "name" /\ Together(text, i, j)
       => text[i].value = text[j].value

IsPlain(text) == IsText(text) /\ OneName(text)

\* A text's lines are numbered from 1.
LEMMA LinesOfText ==
    ASSUME NEW text, IsText(text)
    PROVE  /\ Len(text) \in Nat
           /\ DOMAIN text = 1..Len(text)
           /\ \A i \in DOMAIN text : IsLine(text[i])
<1>1. PICK S : text \in Seq(S) /\ \A l \in S : IsLine(l)
    BY DEF IsText
<1>2. /\ Len(text) \in Nat /\ DOMAIN text = 1..Len(text)
      /\ \A i \in DOMAIN text : text[i] \in S
    BY <1>1
<1>3. QED
    BY <1>1, <1>2

\* Two lines are of one table when no header separates them.
LEMMA SameIfTogether ==
    ASSUME NEW text, IsText(text), NEW i \in DOMAIN text, NEW j \in DOMAIN text
    PROVE  SameRule(text, i, j) <=> Together(text, i, j)
<1> DEFINE H(n) == {0} \cup {k \in 1..n : IsHeader(text[k])}
<1>1. DOMAIN text = 1..Len(text) /\ Len(text) \in Nat /\ i \in Nat /\ j \in Nat
    BY LinesOfText
<1>2. ASSUME NEW n \in Nat
      PROVE Max(H(n)) \in H(n) /\ \A k \in H(n) : k <= Max(H(n))
  <2>1. H(n) \in SUBSET Nat /\ H(n) # {} /\ \A k \in H(n) : k <= n
      OBVIOUS
  <2> HIDE DEF H
  <2>2. QED
      BY <2>1, Greatest
<1>3. RuleOf(text, i) = Max(H(i)) /\ RuleOf(text, j) = Max(H(j))
    BY DEF RuleOf
<1>4. ASSUME Max(H(i)) = Max(H(j)) PROVE Together(text, i, j)
  <2> DEFINE m == Max(H(i))
  <2>1. m \in Nat /\ m <= i /\ m <= j
      BY <1>1, <1>2, <1>4
  <2>2. ASSUME NEW k \in DOMAIN text, IsHeader(text[k]) PROVE k <= i <=> k <= j
    <3>1. k \in Nat /\ k >= 1
        BY <1>1
    <3>2. k <= i => k \in H(i)
        BY <1>1, <2>2, <3>1
    <3>3. k <= j => k \in H(j)
        BY <1>1, <2>2, <3>1
    <3>4. (k <= i => k <= m) /\ (k <= j => k <= m)
        BY <1>1, <1>2, <1>4, <3>2, <3>3
    <3> HIDE DEF m
    <3>5. QED
        BY <1>1, <2>1, <3>1, <3>4
  <2>3. QED
      BY <2>2 DEF Together
<1>5. ASSUME Together(text, i, j) PROVE H(i) = H(j)
  <2>1. ASSUME NEW k, k >= 1, k \in Nat PROVE k \in H(i) <=> k \in H(j)
    <3>1. CASE k \in DOMAIN text
        BY <1>1, <1>5, <2>1, <3>1 DEF Together
    <3>2. CASE k \notin DOMAIN text
        BY <1>1, <2>1, <3>2
    <3>3. QED
        BY <3>1, <3>2
  <2>2. QED
      BY <1>1, <2>1
<1>6. QED
    BY <1>3, <1>4, <1>5 DEF SameRule

\* What a text says, line by line.
LEMMA SaidOfLines ==
    ASSUME NEW text, IsText(text), NEW r, NEW f, NEW v
    PROVE  v \in Said(text, r, f)
             <=> \E i, n \in DOMAIN text :
                   /\ text[i].key = f /\ ValueOf(text[i]) = v
                   /\ Names(text[n], r)
                   /\ Together(text, i, n)
<1>1. v \in Said(text, r, f)
        <=> \E i \in DOMAIN text :
              /\ text[i].key = f /\ ValueOf(text[i]) = v
              /\ \E n \in DOMAIN text : Names(text[n], r) /\ SameRule(text, i, n)
    BY DEF Said
<1>2. \A i, n \in DOMAIN text : SameRule(text, i, n) <=> Together(text, i, n)
    BY SameIfTogether
<1>3. QED
    BY <1>1, <1>2

\* The line an edit writes.
LineOf(e) == [key |-> e.field, value |-> e.value, marks |-> {}]

\* The new text has the line of the edit at place m, where the old one had a
\* line of the same table, and otherwise the old lines in their order.
Inserted(text, new, p, line) ==
    /\ IsText(new)
    /\ Len(new) = Len(text) + 1
    /\ p \in 1..Len(text) + 1
    /\ new[p] = line
    /\ \A k \in DOMAIN text : new[IF k < p THEN k ELSE k + 1] = text[k]

LEMMA InsertAtInserts ==
    ASSUME NEW text, IsText(text), NEW p \in 1..(Len(text) + 1), NEW line,
           IsLine(line)
    PROVE  Inserted(text, InsertAt(text, p, line), p, line)
<1> DEFINE new == InsertAt(text, p, line)
           before == SubSeq(text, 1, p - 1)
           after == SubSeq(text, p, Len(text))
<1>1. PICK S : text \in Seq(S) /\ \A l \in S : IsLine(l)
    BY DEF IsText
<1> DEFINE T == S \cup {line}
<1>2. /\ Len(text) \in Nat /\ p \in Nat /\ p >= 1 /\ p - 1 <= Len(text)
      /\ DOMAIN text = 1..Len(text)
      /\ \A i \in 1..Len(text) : text[i] \in T
    BY <1>1
<1>3. /\ before \in Seq(T) /\ Len(before) = p - 1
      /\ \A i \in 1..(p - 1) : before[i] = text[i]
  <2>1. \A i \in 1..(p - 1) : text[i] \in T
      BY <1>2
  <2>2. 1 \in Int /\ p - 1 \in Int /\ (p - 1) - 1 + 1 = p - 1
      BY <1>2
  <2> HIDE DEF T
  <2>3. /\ before \in Seq(T)
        /\ Len(before) = IF 1 <= p - 1 THEN (p - 1) - 1 + 1 ELSE 0
        /\ \A i \in 1..((p - 1) - 1 + 1) : before[i] = text[1 + i - 1]
      BY <2>1, <2>2, SubSeqProperties
  <2>4. QED
      BY <2>3, <1>2
<1>4. /\ after \in Seq(T) /\ Len(after) = Len(text) - p + 1
      /\ \A i \in 1..(Len(text) - p + 1) : after[i] = text[p + i - 1]
  <2>1. \A i \in p..Len(text) : text[i] \in T
      BY <1>2
  <2>2. p \in Int /\ Len(text) \in Int
      BY <1>2
  <2> HIDE DEF T
  <2>3. /\ after \in Seq(T)
        /\ Len(after) = IF p <= Len(text) THEN Len(text) - p + 1 ELSE 0
        /\ \A i \in 1..(Len(text) - p + 1) : after[i] = text[p + i - 1]
      BY <2>1, <2>2, SubSeqProperties
  <2>4. QED
      BY <2>3, <1>2
<1>5. <<line>> \in Seq(T) /\ Len(<<line>>) = 1 /\ <<line>>[1] = line
    OBVIOUS
<1> DEFINE front == before \o <<line>>
<1>6. /\ front \in Seq(T) /\ Len(front) = p
      /\ \A i \in 1..p : front[i] = IF i <= p - 1 THEN text[i] ELSE line
  <2> HIDE DEF T, before
  <2>1. /\ front \in Seq(T)
        /\ Len(front) = Len(before) + Len(<<line>>)
        /\ \A i \in 1..Len(before) + Len(<<line>>) :
             front[i] = IF i <= Len(before) THEN before[i] ELSE <<line>>[i - Len(before)]
      BY <1>3, <1>5, ConcatProperties
  <2>2. Len(before) + Len(<<line>>) = p
      BY <1>2, <1>3, <1>5
  <2>3. ASSUME NEW i \in 1..p PROVE front[i] = IF i <= p - 1 THEN text[i] ELSE line
    <3>1. CASE i <= p - 1
        BY <1>2, <1>3, <2>1, <2>2, <3>1
    <3>2. CASE i = p
      <4>1. i - Len(before) = 1 /\ ~(i <= Len(before))
          BY <1>2, <1>3, <3>2
      <4>2. QED
          BY <1>2, <1>5, <2>1, <2>2, <3>2, <4>1
    <3>3. i <= p - 1 \/ i = p
        BY <1>2
    <3>4. QED
        BY <3>1, <3>2, <3>3
  <2>4. QED
      BY <2>1, <2>2, <2>3
<1>7. /\ new \in Seq(T) /\ Len(new) = Len(text) + 1
      /\ \A i \in 1..(Len(text) + 1) :
           new[i] = IF i <= p THEN front[i] ELSE after[i - p]
  <2>1. new = front \o after
      BY DEF InsertAt
  <2> HIDE DEF T, front, after, new
  <2>2. /\ front \o after \in Seq(T)
        /\ Len(front \o after) = Len(front) + Len(after)
        /\ \A i \in 1..Len(front) + Len(after) :
             (front \o after)[i] = IF i <= Len(front) THEN front[i] ELSE after[i - Len(front)]
      BY <1>4, <1>6, ConcatProperties
  <2>3. Len(front) + Len(after) = Len(text) + 1
      BY <1>2, <1>4, <1>6
  <2>4. QED
      BY <1>6, <2>1, <2>2, <2>3
<1>8. IsText(new)
  <2>1. \A l \in T : IsLine(l)
      BY <1>1
  <2>2. QED
      BY <1>7, <2>1 DEF IsText
<1> HIDE DEF new, front, after
<1>9. new[p] = line
    BY <1>2, <1>6, <1>7
<1>10. ASSUME NEW k \in DOMAIN text
       PROVE new[IF k < p THEN k ELSE k + 1] = text[k]
  <2>1. k \in 1..Len(text)
      BY <1>2
  <2>2. CASE k < p
      BY <1>2, <1>6, <1>7, <2>1, <2>2
  <2>3. CASE ~(k < p)
    <3>1. k + 1 \in 1..(Len(text) + 1) /\ ~(k + 1 <= p)
        BY <1>2, <2>1, <2>3
    <3>2. new[k + 1] = after[k + 1 - p]
        BY <1>2, <1>7, <2>1, <3>1
    <3>3. k + 1 - p \in 1..(Len(text) - p + 1) /\ p + (k + 1 - p) - 1 = k
        BY <1>2, <2>1, <2>3
    <3>4. after[k + 1 - p] = text[p + (k + 1 - p) - 1]
        BY <1>4, <3>3
    <3>5. QED
        BY <2>3, <3>2, <3>3, <3>4
  <2>4. QED
      BY <2>2, <2>3
<1>11. QED
    BY <1>7, <1>8, <1>9, <1>10 DEF Inserted, new

\* Where the lines of the old text went.
Place(p, k) == IF k < p THEN k ELSE k + 1

\* A line put after one of a table belongs to that table, and what was together
\* or apart stays so.
LEMMA InsertionKeepsTables ==
    ASSUME NEW text, IsText(text), NEW new, NEW p, NEW line,
           Inserted(text, new, p, line), ~IsHeader(line), p > 1
    PROVE  /\ DOMAIN new = {p} \cup {Place(p, k) : k \in DOMAIN text}
           /\ \A i, j \in DOMAIN text :
                Together(new, Place(p, i), Place(p, j)) <=> Together(text, i, j)
           /\ \A j \in DOMAIN text :
                /\ Together(new, p, Place(p, j)) <=> Together(text, p - 1, j)
                /\ Together(new, Place(p, j), p) <=> Together(text, j, p - 1)
<1>1. /\ Len(text) \in Nat /\ DOMAIN text = 1..Len(text)
      /\ DOMAIN new = 1..(Len(text) + 1)
      /\ p \in Nat /\ p <= Len(text) + 1
    BY LinesOfText DEF Inserted
<1>2. DOMAIN new = {p} \cup {Place(p, k) : k \in DOMAIN text}
  <2>1. ASSUME NEW i \in DOMAIN new, i # p PROVE \E k \in DOMAIN text : i = Place(p, k)
    <3>1. CASE i < p
        BY <1>1, <2>1, <3>1 DEF Place
    <3>2. CASE i > p
      <4>1. i - 1 \in DOMAIN text /\ ~(i - 1 < p) /\ i = (i - 1) + 1
          BY <1>1, <3>2
      <4>2. QED
          BY <4>1 DEF Place
    <3>3. QED
        BY <1>1, <2>1, <3>1, <3>2
  <2>2. \A k \in DOMAIN text : Place(p, k) \in DOMAIN new
      BY <1>1 DEF Place
  <2>3. p \in DOMAIN new
      BY <1>1
  <2>4. QED
      BY <2>1, <2>2, <2>3
<1>3. /\ ~IsHeader(new[p])
      /\ \A k \in DOMAIN text : new[Place(p, k)] = text[k]
    BY DEF Inserted, Place
<1>4. \A i, j \in Nat :
        Together(new, i, j)
          <=> \A k \in DOMAIN text : IsHeader(text[k]) => (Place(p, k) <= i <=> Place(p, k) <= j)
    BY <1>2, <1>3 DEF Together
<1>5. \A k, i \in DOMAIN text : Place(p, k) <= Place(p, i) <=> k <= i
    BY <1>1 DEF Place
<1>6. \A k \in DOMAIN text : Place(p, k) <= p <=> k <= p - 1
    BY <1>1 DEF Place
<1>7. p \in Nat /\ \A k \in DOMAIN text : Place(p, k) \in Nat
    BY <1>1 DEF Place
<1>8. \A i, j \in DOMAIN text :
        Together(new, Place(p, i), Place(p, j)) <=> Together(text, i, j)
    BY <1>4, <1>5, <1>7 DEF Together
<1>9. \A j \in DOMAIN text :
        /\ Together(new, p, Place(p, j)) <=> Together(text, p - 1, j)
        /\ Together(new, Place(p, j), p) <=> Together(text, j, p - 1)
    BY <1>4, <1>5, <1>6, <1>7 DEF Together
<1>10. QED
    BY <1>2, <1>8, <1>9

\* A text whose lines keep their keys and its names, and one with a line added
\* below the first, has one name in each table.
LEMMA AlikeIsPlain ==
    ASSUME NEW text, IsPlain(text), NEW new, IsText(new), DOMAIN new = DOMAIN text,
           \A k \in DOMAIN text :
              /\ new[k].key = text[k].key
              /\ text[k].key = "name" => new[k].value = text[k].value
    PROVE  /\ IsPlain(new)
           /\ \A i, j : Together(new, i, j) <=> Together(text, i, j)
<1>1. \A i, j : Together(new, i, j) <=> Together(text, i, j)
    BY DEF Together, IsHeader
<1>2. QED
    BY <1>1 DEF IsPlain, OneName

LEMMA InsertedIsPlain ==
    ASSUME NEW text, IsPlain(text), NEW line, line.key \notin {"header", "name"},
           NEW new, NEW p, Inserted(text, new, p, line), p > 1
    PROVE  IsPlain(new)
<1>1. ~IsHeader(line) /\ IsText(text) /\ IsText(new)
    BY DEF IsHeader, IsPlain, Inserted
<1>2. /\ DOMAIN new = {p} \cup {Place(p, k) : k \in DOMAIN text}
      /\ \A i, j \in DOMAIN text :
           Together(new, Place(p, i), Place(p, j)) <=> Together(text, i, j)
      /\ \A j \in DOMAIN text :
           /\ Together(new, p, Place(p, j)) <=> Together(text, p - 1, j)
           /\ Together(new, Place(p, j), p) <=> Together(text, j, p - 1)
    BY <1>1, InsertionKeepsTables
<1>3. new[p] = line /\ \A k \in DOMAIN text : new[Place(p, k)] = text[k]
    BY DEF Inserted, Place
<1>4. ASSUME NEW i \in DOMAIN new, NEW j \in DOMAIN new,
             new[i].key = "name", new[j].key = "name", Together(new, i, j)
      PROVE  new[i].value = new[j].value
  <2>1. i # p /\ j # p
      BY <1>3, <1>4
  <2>2. PICK k, l \in DOMAIN text : i = Place(p, k) /\ j = Place(p, l)
      BY <1>2, <2>1
  <2>3. Together(text, k, l) /\ new[i] = text[k] /\ new[j] = text[l]
      BY <1>2, <1>3, <1>4, <2>2
  <2>4. QED
      BY <1>4, <2>3 DEF IsPlain, OneName
<1>5. QED
    BY <1>1, <1>4 DEF IsPlain, OneName

\* A line given another value, and one glued to what follows, are lines.
LEMMA LinesStayLines ==
    ASSUME NEW l, IsLine(l), NEW v
    PROVE  /\ IsLine([l EXCEPT !.value = v]) /\ IsLine(Glued(l))
           /\ [l EXCEPT !.value = v].key = l.key /\ [l EXCEPT !.value = v].value = v
           /\ [l EXCEPT !.value = v].marks = l.marks
           /\ Glued(l).key = l.key /\ Glued(l).value = l.value
BY DEF IsLine, Glued

\* A text with one line exchanged.
LEMMA ExchangeIsText ==
    ASSUME NEW text, IsText(text), NEW m \in DOMAIN text, NEW l, IsLine(l)
    PROVE  /\ IsText([text EXCEPT ![m] = l])
           /\ DOMAIN [text EXCEPT ![m] = l] = DOMAIN text
           /\ [text EXCEPT ![m] = l][m] = l
           /\ \A k \in DOMAIN text : k # m => [text EXCEPT ![m] = l][k] = text[k]
<1>1. PICK S : text \in Seq(S) /\ \A x \in S : IsLine(x)
    BY DEF IsText
<1>2. [text EXCEPT ![m] = l] \in Seq(S \cup {l}) /\ \A x \in S \cup {l} : IsLine(x)
    BY <1>1
<1>3. IsText([text EXCEPT ![m] = l])
    BY <1>2 DEF IsText
<1>4. QED
    BY <1>1, <1>3

\* The new text says what the edit says, and otherwise what the old one said.
LocalEdit(text, new, e) ==
    /\ e.value \in Said(new, e.rule, e.field)
    /\ \A r, f : <<r, f>> # <<e.rule, e.field>> => Said(new, r, f) = Said(text, r, f)

\* A line added to the table of the rule it is for.
LEMMA InsertedIsLocal ==
    ASSUME NEW text, IsPlain(text), NEW e, e.field \notin {"header", "name"},
           NEW new, NEW p, Inserted(text, new, p, LineOf(e)), p > 1,
           NEW n0 \in DOMAIN text, Names(text[n0], e.rule), Together(text, p - 1, n0)
    PROVE  LocalEdit(text, new, e)
<1> DEFINE line == LineOf(e)
<1>1. ~IsHeader(line) /\ line.key = e.field /\ line.value = e.value /\ line.key # "name"
    BY DEF LineOf, IsHeader
<1>2. IsText(text) /\ IsText(new)
    BY DEF IsPlain, Inserted
<1> HIDE DEF line
<1>3. /\ DOMAIN new = {p} \cup {Place(p, k) : k \in DOMAIN text}
      /\ \A i, j \in DOMAIN text :
           Together(new, Place(p, i), Place(p, j)) <=> Together(text, i, j)
      /\ \A j \in DOMAIN text :
           /\ Together(new, p, Place(p, j)) <=> Together(text, p - 1, j)
           /\ Together(new, Place(p, j), p) <=> Together(text, j, p - 1)
    BY <1>1, <1>2, InsertionKeepsTables DEF line
<1>4. new[p] = line /\ \A k \in DOMAIN text : new[Place(p, k)] = text[k]
    BY DEF Inserted, Place, line
<1>5. \A i \in DOMAIN new : i = p \/ \E k \in DOMAIN text : i = Place(p, k)
    BY <1>3
<1>6. ValueOf(line) = e.value
    BY <1>1 DEF ValueOf, LineOf, line
<1>7. e.value \in Said(new, e.rule, e.field)
  <2>1. Place(p, n0) \in DOMAIN new /\ p \in DOMAIN new
      BY <1>3
  <2>2. Names(new[Place(p, n0)], e.rule) /\ Together(new, p, Place(p, n0))
      BY <1>3, <1>4
  <2>3. QED
      BY <1>1, <1>2, <1>4, <1>6, <2>1, <2>2, SaidOfLines
<1>8. ASSUME NEW r, NEW f, <<r, f>> # <<e.rule, e.field>>, NEW v
      PROVE v \in Said(new, r, f) <=> v \in Said(text, r, f)
  <2>1. ASSUME v \in Said(text, r, f) PROVE v \in Said(new, r, f)
    <3>1. PICK i, n \in DOMAIN text :
             /\ text[i].key = f /\ ValueOf(text[i]) = v
             /\ Names(text[n], r)
             /\ Together(text, i, n)
        BY <1>2, <2>1, SaidOfLines
    <3>2. Place(p, i) \in DOMAIN new /\ Place(p, n) \in DOMAIN new
        BY <1>3
    <3>3. /\ new[Place(p, i)] = text[i] /\ new[Place(p, n)] = text[n]
          /\ Together(new, Place(p, i), Place(p, n))
        BY <1>3, <1>4, <3>1
    <3>4. QED
        BY <1>2, <3>1, <3>2, <3>3, SaidOfLines
  <2>2. ASSUME v \in Said(new, r, f) PROVE v \in Said(text, r, f)
    <3>1. PICK i, n \in DOMAIN new :
             /\ new[i].key = f /\ ValueOf(new[i]) = v
             /\ Names(new[n], r)
             /\ Together(new, i, n)
        BY <1>2, <2>2, SaidOfLines
    <3>2. n # p
        BY <1>1, <1>4, <3>1 DEF Names
    <3>3. PICK m \in DOMAIN text : n = Place(p, m)
        BY <1>5, <3>2
    <3>4. Names(text[m], r)
        BY <1>4, <3>1, <3>3
    <3>5. i # p
      <4>1. ASSUME i = p PROVE FALSE
        <5>1. f = e.field
            BY <1>1, <1>4, <3>1, <4>1
        <5>2. Together(text, p - 1, m)
            BY <1>3, <3>1, <3>3, <4>1
        <5>3. Together(text, m, n0)
            BY <5>2 DEF Together
        <5>4. r = e.rule
            BY <3>4, <5>3 DEF IsPlain, OneName, Names
        <5>5. QED
            BY <1>8, <5>1, <5>4
      <4>2. QED
          BY <4>1
    <3>6. PICK k \in DOMAIN text : i = Place(p, k)
        BY <1>5, <3>5
    <3>7. text[k] = new[i] /\ Together(text, k, m)
        BY <1>3, <1>4, <3>1, <3>3, <3>6
    <3>8. QED
        BY <1>2, <3>1, <3>4, <3>7, SaidOfLines
  <2>3. QED
      BY <2>1, <2>2
<1>9. ASSUME NEW r, NEW f, <<r, f>> # <<e.rule, e.field>>
      PROVE Said(new, r, f) = Said(text, r, f)
  <2>1. \A v : v \in Said(new, r, f) <=> v \in Said(text, r, f)
      BY <1>9, <1>8
  <2>2. QED
      BY <2>1, Zenon
<1>10. QED
    BY <1>7, <1>9 DEF LocalEdit

\* A line of the table of the rule rewritten in its place.
LEMMA RewrittenIsLocal ==
    ASSUME NEW text, IsPlain(text), NEW e, e.field \notin {"header", "name"},
           NEW m \in DOMAIN text, text[m].key = e.field, "exponent" \notin text[m].marks,
           NEW n0 \in DOMAIN text, Names(text[n0], e.rule), Together(text, m, n0)
    PROVE  LocalEdit(text, [text EXCEPT ![m] = [text[m] EXCEPT !.value = e.value]], e)
<1> DEFINE line == [text[m] EXCEPT !.value = e.value]
           new == [text EXCEPT ![m] = line]
<1>1. /\ ~IsHeader(line) /\ line.key = e.field /\ line.key # "name"
      /\ ValueOf(line) = e.value /\ IsLine(line)
    BY LinesOfText, LinesStayLines DEF IsPlain, IsHeader, ValueOf
<1> HIDE DEF line
<1>2. /\ IsText(text) /\ IsText(new) /\ DOMAIN new = DOMAIN text
      /\ new[m] = line
      /\ \A k \in DOMAIN text : k # m => new[k] = text[k]
    BY <1>1, ExchangeIsText DEF IsPlain
<1>3. IsText(text) /\ IsText(new)
    BY <1>2
<1> HIDE DEF new
<1>4. \A k \in DOMAIN text :
        /\ new[k].key = text[k].key
        /\ new[k].key = "name" \/ text[k].key = "name" => new[k] = text[k]
    BY <1>1, <1>2
<1>5. \A i, j : Together(new, i, j) <=> Together(text, i, j)
    BY <1>2, <1>4, AlikeIsPlain
<1>6. \A r : \A k \in DOMAIN text : Names(new[k], r) <=> Names(text[k], r)
    BY <1>4 DEF Names
<1>7. e.value \in Said(new, e.rule, e.field)
    BY <1>1, <1>3, <1>2, <1>5, <1>6, SaidOfLines
<1>8. ASSUME NEW r, NEW f, <<r, f>> # <<e.rule, e.field>>, NEW v
       PROVE v \in Said(new, r, f) <=> v \in Said(text, r, f)
  <2>1. ASSUME NEW i \in DOMAIN text, NEW n \in DOMAIN text,
               text[i].key = f, Names(text[n], r), Together(text, i, n)
        PROVE  i # m
    <3>1. ASSUME i = m PROVE FALSE
      <4>1. f = e.field
          BY <2>1, <3>1
      <4>2. Together(text, n, n0)
          BY <2>1, <3>1 DEF Together
      <4>3. r = e.rule
          BY <2>1, <4>2 DEF IsPlain, OneName, Names
      <4>4. QED
          BY <1>8, <4>1, <4>3
    <3>2. QED
        BY <3>1
  <2>2. ASSUME v \in Said(text, r, f) PROVE v \in Said(new, r, f)
    <3>1. PICK i, n \in DOMAIN text :
             /\ text[i].key = f /\ ValueOf(text[i]) = v
             /\ Names(text[n], r)
             /\ Together(text, i, n)
        BY <1>3, <2>2, SaidOfLines
    <3>2. i # m
        BY <2>1, <3>1
    <3>3. new[i] = text[i] /\ Names(new[n], r) /\ Together(new, i, n)
        BY <1>2, <1>5, <1>6, <3>1, <3>2
    <3>4. QED
        BY <1>3, <1>2, <3>1, <3>3, SaidOfLines
  <2>3. ASSUME v \in Said(new, r, f) PROVE v \in Said(text, r, f)
    <3>1. PICK i, n \in DOMAIN new :
             /\ new[i].key = f /\ ValueOf(new[i]) = v
             /\ Names(new[n], r)
             /\ Together(new, i, n)
        BY <1>3, <2>3, SaidOfLines
    <3>2. text[i].key = f /\ Names(text[n], r) /\ Together(text, i, n)
        BY <1>2, <1>5, <1>4, <1>6, <3>1
    <3>3. i # m
        BY <1>2, <2>1, <3>2
    <3>4. ValueOf(text[i]) = v
        BY <1>2, <3>1, <3>3
    <3>5. QED
        BY <1>3, <1>2, <3>2, <3>4, SaidOfLines
  <2>4. QED
      BY <2>2, <2>3
<1>9. ASSUME NEW r, NEW f, <<r, f>> # <<e.rule, e.field>>
      PROVE Said(new, r, f) = Said(text, r, f)
  <2>1. \A v : v \in Said(new, r, f) <=> v \in Said(text, r, f)
      BY <1>9, <1>8
  <2>2. QED
      BY <2>1, Zenon
<1>10. LocalEdit(text, new, e)
    BY <1>7, <1>9 DEF LocalEdit
<1>11. QED
    BY <1>10 DEF new, line

\* Where the writer adds a line, or rewrites one.
LEMMA BlockOfRule ==
    ASSUME NEW text, IsText(text), NEW rule, Known(text, rule)
    PROVE  /\ Block(text, rule) \in SUBSET (DOMAIN text)
           /\ NameLines(text, rule) \in SUBSET (DOMAIN text)
           /\ Max(Block(text, rule) \cup NameLines(text, rule))
                \in Block(text, rule) \cup NameLines(text, rule)
           /\ Len(text) \in Nat /\ DOMAIN text = 1..Len(text)
<1> DEFINE B == Block(text, rule) \cup NameLines(text, rule)
<1>1. Len(text) \in Nat /\ DOMAIN text = 1..Len(text)
    BY LinesOfText
<1>2. Block(text, rule) \in SUBSET (DOMAIN text) /\ NameLines(text, rule) \in SUBSET (DOMAIN text)
    BY DEF Block, NameLines
<1>3. B \in SUBSET Nat /\ B # {} /\ \A k \in B : k <= Len(text)
    BY <1>1, <1>2 DEF Known
<1> HIDE DEF B
<1>4. Max(B) \in B
    BY <1>1, <1>3, Greatest
<1>5. QED
    BY <1>1, <1>2, <1>4 DEF B

\* The line that is rewritten is one of the block and has the field.
LEMMA FirstHit ==
    ASSUME NEW text, IsText(text), NEW e, Known(text, e.rule), NEW hits,
           hits = {i \in Block(text, e.rule) : Matches(text[i], e.field)}, hits # {}
    PROVE  /\ Min(hits) \in Block(text, e.rule) /\ Min(hits) \in DOMAIN text
           /\ text[Min(hits)].key = e.field
<1>1. hits \in SUBSET Nat
  <2>1. hits \subseteq Block(text, e.rule)
      OBVIOUS
  <2>2. Block(text, e.rule) \subseteq DOMAIN text
      BY DEF Block
  <2>3. DOMAIN text \subseteq Nat
      BY LinesOfText
  <2>4. QED
      BY <2>1, <2>2, <2>3
<1>2. Min(hits) \in hits
    BY <1>1, Smallest
<1>3. QED
    BY <1>2, BlockOfRule DEF Matches

\* However the writer misreads a text, each table keeps its one name.
LEMMA ReplacedIsPlain ==
    ASSUME NEW text, IsPlain(text), NEW e, e.field \notin {"header", "name"},
           Known(text, e.rule)
    PROVE  IsPlain(Replaced(text, e))
<1> DEFINE hits == {i \in Block(text, e.rule) : Matches(text[i], e.field)}
           last == Max(Block(text, e.rule) \cup NameLines(text, e.rule))
<1>1. IsText(text) /\ \A i \in DOMAIN text : IsLine(text[i])
    BY LinesOfText DEF IsPlain
<1>2. last \in DOMAIN text /\ Len(text) \in Nat /\ DOMAIN text = 1..Len(text)
    BY <1>1, BlockOfRule
<1>3. Replaced(text, e)
        = IF hits # {} THEN [text EXCEPT ![Min(hits)].value = e.value]
          ELSE Injected(text, last, e)
    BY DEF Replaced
<1> HIDE DEF last
<1>4. CASE hits # {}
  <2> DEFINE m == Min(hits)
             l == [text[m] EXCEPT !.value = e.value]
  <2>1. m \in DOMAIN text /\ text[m].key = e.field
      BY <1>1, <1>4, FirstHit
  <2> HIDE DEF m
  <2>2. IsLine(l) /\ l.key = text[m].key
      BY <1>1, <2>1, LinesStayLines
  <2> HIDE DEF l
  <2>3. IsPlain([text EXCEPT ![m] = l])
      BY <1>1, <2>1, <2>2, ExchangeIsText, AlikeIsPlain
  <2>4. QED
      BY <1>3, <1>4, <2>3 DEF l, m
<1>5. CASE hits = {} /\ "unended" \in text[last].marks
  <2>1. IsLine(Glued(text[last])) /\ Glued(text[last]).key = text[last].key
        /\ Glued(text[last]).value = text[last].value
      BY <1>1, <1>2, LinesStayLines
  <2> DEFINE l == Glued(text[last])
             new == [text EXCEPT ![last] = l]
  <2> HIDE DEF l
  <2>2. /\ IsText(new) /\ DOMAIN new = DOMAIN text /\ new[last] = l
        /\ \A k \in DOMAIN text : k # last => new[k] = text[k]
      BY <1>1, <1>2, <2>1, ExchangeIsText DEF l
  <2> HIDE DEF new
  <2>3. \A k \in DOMAIN text :
           /\ new[k].key = text[k].key
           /\ text[k].key = "name" => new[k].value = text[k].value
      BY <2>1, <2>2 DEF l
  <2>4. IsPlain(new)
      BY <2>2, <2>3, AlikeIsPlain
  <2>5. QED
      BY <1>3, <1>5, <2>4 DEF Injected, new, l
<1>6. CASE hits = {} /\ "unended" \notin text[last].marks
  <2>1. last + 1 \in 1..(Len(text) + 1) /\ last + 1 > 1
      BY <1>2
  <2>2. IsLine(LineOf(e)) /\ LineOf(e).key = e.field
      BY DEF IsLine, LineOf
  <2>3. Inserted(text, InsertAt(text, last + 1, LineOf(e)), last + 1, LineOf(e))
      BY <1>1, <2>1, <2>2, InsertAtInserts
  <2>4. IsPlain(InsertAt(text, last + 1, LineOf(e)))
      BY <2>1, <2>2, <2>3, InsertedIsPlain
  <2>5. QED
      BY <1>3, <1>6, <2>4 DEF Injected, LineOf
<1>7. QED
    BY <1>4, <1>5, <1>6

\* _replace_or_inject_rule_field() on a file that names the rule and that it
\* reads as the loader does.
LEMMA ReplacedIsLocal ==
    ASSUME NEW text, IsPlain(text), NEW e, e.field \notin {"header", "name"},
           Known(text, e.rule), ReadsAlike(text, e)
    PROVE  LocalEdit(text, Replaced(text, e), e)
<1> DEFINE block == Block(text, e.rule)
           hits == {i \in block : Matches(text[i], e.field)}
           last == Max(block \cup NameLines(text, e.rule))
<1>1. IsText(text) /\ Len(text) \in Nat /\ DOMAIN text = 1..Len(text)
    BY LinesOfText DEF IsPlain
<1>2. Replaced(text, e)
        = IF hits # {} THEN [text EXCEPT ![Min(hits)].value = e.value]
          ELSE Injected(text, last, e)
    BY DEF Replaced
<1>3. ASSUME NEW i \in block \cup NameLines(text, e.rule)
      PROVE \E n \in DOMAIN text : Names(text[n], e.rule) /\ Together(text, i, n)
  <2>1. CASE i \in NameLines(text, e.rule)
      BY <2>1 DEF Together, NameLines
  <2>2. CASE i \in block
    <3>1. i \in DOMAIN text
          /\ \E n \in NameLines(text, e.rule) :
               n < i /\ \A k \in n..i : ~SeenHeader(text[k])
        BY <2>2 DEF InTarget, Block
    <3>2. PICK n \in NameLines(text, e.rule) :
             n < i /\ \A k \in n..i : ~SeenHeader(text[k])
        BY <3>1
    <3>3. n \in DOMAIN text /\ Names(text[n], e.rule)
        BY DEF NameLines
    <3>4. Together(text, i, n)
      <4>1. ASSUME NEW k \in DOMAIN text, IsHeader(text[k]) PROVE k <= i <=> k <= n
        <5>1. SeenHeader(text[k])
            BY <4>1 DEF ReadsAlike
        <5>2. k \notin n..i
            BY <3>2, <5>1
        <5>3. QED
            BY <1>1, <3>1, <3>2, <3>3, <5>2
      <4>2. QED
          BY <4>1 DEF Together
    <3>5. QED
        BY <3>3, <3>4
  <2>3. QED
      BY <2>1, <2>2
<1>4. CASE hits # {}
  <2> DEFINE m == Min(hits)
  <2>1. m \in block /\ m \in DOMAIN text /\ text[m].key = e.field
      BY <1>1, <1>4, FirstHit
  <2> HIDE DEF m
  <2>2. "exponent" \notin text[m].marks
      BY <2>1 DEF ReadsAlike
  <2>3. PICK n0 \in DOMAIN text : Names(text[n0], e.rule) /\ Together(text, m, n0)
      BY <1>3, <2>1
  <2>4. LocalEdit(text, [text EXCEPT ![m] = [text[m] EXCEPT !.value = e.value]], e)
      BY <2>1, <2>2, <2>3, RewrittenIsLocal
  <2>5. QED
      BY <1>2, <1>4, <2>4 DEF m
<1>5. CASE hits = {}
  <2>1. last \in block \cup NameLines(text, e.rule) /\ last \in DOMAIN text
      BY <1>1, BlockOfRule
  <2> HIDE DEF last
  <2>2. {i \in block : text[i].key = e.field} = {}
      BY <1>5 DEF ReadsAlike, Matches
  <2>3. "unended" \notin text[last].marks
      BY <2>1, <2>2 DEF ReadsAlike
  <2>4. PICK n0 \in DOMAIN text : Names(text[n0], e.rule) /\ Together(text, last, n0)
      BY <1>3, <2>1
  <2>5. last + 1 \in 1..(Len(text) + 1) /\ last + 1 > 1 /\ (last + 1) - 1 = last
      BY <1>1, <2>1
  <2>6. Inserted(text, InsertAt(text, last + 1, LineOf(e)), last + 1, LineOf(e))
      BY <1>1, <2>5, InsertAtInserts DEF LineOf, IsLine
  <2>7. LocalEdit(text, InsertAt(text, last + 1, LineOf(e)), e)
      BY <2>4, <2>5, <2>6, InsertedIsLocal
  <2>8. QED
      BY <1>2, <1>5, <2>3, <2>7 DEF Injected, LineOf
<1>6. QED
    BY <1>4, <1>5

EditsSent == UNION {ToSet(r.edits) : r \in Requests}

\* Clients send sequences of edits of fields that may be edited.
LEMMA RequestsAreEdits ==
    /\ \A r \in Requests : r.edits \in Seq(EditsSent)
    /\ \A e \in EditsSent : e.field \in MutableFields
<1>1. ASSUME NEW r \in Requests PROVE r.edits \in Seq(EditsSent)
  <2> DEFINE s == r.edits
             n == Len(s)
  <2>1. n \in Nat /\ s = [i \in 1..n |-> s[i]]
      BY RequestsAssumption
  <2>2. \A i \in 1..n : s[i] \in EditsSent
      BY <2>1 DEF EditsSent, ToSet
  <2> HIDE DEF s, n
  <2>3. [i \in 1..n |-> s[i]] \in Seq(EditsSent)
      BY <2>1, <2>2
  <2>4. QED
      BY <2>1, <2>3 DEF s
<1>2. ASSUME NEW e \in EditsSent PROVE e.field \in MutableFields
  <2>1. PICK r \in Requests : e \in ToSet(r.edits)
      BY DEF EditsSent
  <2>2. PICK i \in DOMAIN r.edits : e = r.edits[i]
      BY <2>1 DEF ToSet
  <2>3. DOMAIN r.edits = 1..Len(r.edits)
    <3> DEFINE s == r.edits
    <3>1. s = [k \in 1..Len(s) |-> s[k]]
        BY RequestsAssumption
    <3> HIDE DEF s
    <3>2. DOMAIN s = 1..Len(s)
        BY <3>1
    <3>3. QED
        BY <3>2 DEF s
  <2>4. QED
      BY <2>2, <2>3, RequestsAssumption
<1>3. QED
    BY <1>1, <1>2

\* What a thread is about to write, and the file, are plain texts; it is at an
\* edit that a client sent.
PlainThread(t) ==
    /\ Shaped(t)
    /\ t.edits \in Seq(EditsSent)
    /\ t.at \in {"materialize", "read", "write"} => t.edits # <<>>
    /\ t.at = "write" => IsPlain(t.text)

PlainInv ==
    /\ handler = [h \in Handlers |-> handler[h]]
    /\ \A h \in Handlers : PlainThread(handler[h])
    /\ IsPlain(file)

LEMMA IdleIsPlain == PlainThread(Idle)
<1>1. Idle.edits = <<>> /\ Idle.at = "idle"
    BY DEF Idle
<1>2. <<>> \in Seq(EditsSent)
    OBVIOUS
<1>3. QED
    BY <1>1, <1>2, IdleIsShaped DEF PlainThread

LEMMA BecomeKeepsPlain ==
    ASSUME PlainInv, NEW h \in Handlers, NEW next, PlainThread(next), Become(h, next)
    PROVE  /\ handler' = [k \in Handlers |-> handler'[k]]
           /\ \A k \in Handlers : PlainThread(handler'[k])
<1>1. handler' = [k \in Handlers |-> IF k = h THEN next ELSE handler[k]]
    BY DEF PlainInv, Become
<1>2. QED
    BY <1>1 DEF PlainInv

\* The edit a thread is at, and those that are left after it.
LEMMA EditSent ==
    ASSUME NEW t, t.edits \in Seq(EditsSent), t.edits # <<>>
    PROVE  /\ Head(t.edits) \in EditsSent
           /\ Tail(t.edits) \in Seq(EditsSent)
           /\ Head(t.edits).field \notin {"header", "name"}
<1>1. Head(t.edits) \in EditsSent /\ Tail(t.edits) \in Seq(EditsSent)
    BY HeadTailProperties
<1>2. Head(t.edits).field \in MutableFields
    BY <1>1, RequestsAreEdits
<1>3. QED
    BY <1>1, <1>2 DEF MutableFields

\* The text a thread prepares is plain, and if the writer reads the file as the
\* loader does it differs from it in the field of its edit.
LEMMA ReadIsLocal ==
    ASSUME PlainInv, NEW h \in Handlers, Read(h)
    PROVE  /\ IsPlain(Replaced(file, Edit(h)))
           /\ ReadsAlike(file, Edit(h)) => LocalEdit(file, Replaced(file, Edit(h)), Edit(h))
<1>1. handler[h].edits \in Seq(EditsSent) /\ handler[h].edits # <<>>
    BY DEF PlainInv, PlainThread, Read
<1>2. Edit(h).field \notin {"header", "name"}
    BY <1>1, EditSent DEF Edit
<1>3. IsPlain(file) /\ Known(file, Edit(h).rule)
    BY DEF PlainInv, Read
<1>4. QED
    BY <1>2, <1>3, ReplacedIsPlain, ReplacedIsLocal

\* Every step of a thread leaves plain texts.
LEMMA ServingIsPlain ==
    ASSUME PlainInv, \A text \in OnDisk \cup {Default} : IsPlain(text),
           NEW h \in Handlers, Receive(h) \/ Serve(h) \/ WriteFails(h)
    PROVE  PlainInv'
<1> DEFINE t == handler[h]
<1>1. PlainThread(t) /\ Shaped(t) /\ t.edits \in Seq(EditsSent)
    BY DEF PlainInv, PlainThread
<1>2. IsPlain(file) /\ PlainThread(Idle)
    BY IdleIsPlain DEF PlainInv
<1>3. \E n : PlainThread(n) /\ Become(h, n) /\ IsPlain(file')
  <2>1. CASE RejectValue(h) \/ RuleNotFound(h) \/ WriteFails(h) \/ Answer(h)
      BY <1>2, <2>1 DEF RejectValue, RuleNotFound, WriteFails, Answer, Refuse
  <2>2. CASE Receive(h)
    <3>1. PICK r \in Requests :
             Become(h, [Idle EXCEPT !.at = "field", !.edits = r.edits, !.kind = r.kind])
        BY <2>2 DEF Receive
    <3> DEFINE n == [Idle EXCEPT !.at = "field", !.edits = r.edits, !.kind = r.kind]
    <3>2. Shaped(n) /\ n.at = "field" /\ n.edits = r.edits
        BY DEF Idle, Shaped
    <3>3. r.edits \in Seq(EditsSent)
        BY RequestsAreEdits
    <3>4. PlainThread(n)
        BY <3>2, <3>3 DEF PlainThread
    <3>5. file' = file
        BY <2>2 DEF Receive
    <3>6. QED
        BY <1>2, <3>1, <3>4, <3>5
  <2>3. CASE Look(h)
    <3> DEFINE n(at) == [t EXCEPT !.at = at]
    <3>1. PICK at \in {"materialize", "read"} : Become(h, n(at))
        BY <2>3 DEF Look
    <3>2. Shaped(n(at)) /\ n(at).at = at /\ n(at).edits = t.edits
        BY <1>1 DEF Shaped
    <3>3. t.edits # <<>> /\ file' = file
        BY <2>3 DEF Look
    <3>4. PlainThread(n(at))
        BY <1>1, <3>1, <3>2, <3>3 DEF PlainThread
    <3>5. QED
        BY <1>2, <3>1, <3>3, <3>4
  <2>4. CASE Materialize(h)
    <3> DEFINE n == [t EXCEPT !.at = "read", !.wrote = TRUE]
    <3>1. Become(h, n) /\ file' = Default /\ t.at = "materialize"
        BY <2>4 DEF Materialize
    <3>2. Shaped(n) /\ n.at = "read" /\ n.edits = t.edits
        BY <1>1 DEF Shaped
    <3>3. t.edits # <<>>
        BY <1>1, <3>1 DEF PlainThread
    <3>4. PlainThread(n)
        BY <1>1, <3>2, <3>3 DEF PlainThread
    <3>5. QED
        BY <3>1, <3>4
  <2>5. CASE Read(h)
    <3> DEFINE n == [t EXCEPT !.at = "write", !.text = Replaced(file, Edit(h))]
    <3>1. Become(h, n) /\ file' = file /\ t.at = "read"
        BY <2>5 DEF Read
    <3>2. Shaped(n) /\ n.at = "write" /\ n.edits = t.edits /\ n.text = Replaced(file, Edit(h))
        BY <1>1 DEF Shaped
    <3>3. t.edits # <<>>
        BY <1>1, <3>1 DEF PlainThread
    <3>4. IsPlain(Replaced(file, Edit(h)))
        BY <2>5, ReadIsLocal
    <3>5. PlainThread(n)
        BY <1>1, <3>2, <3>3, <3>4 DEF PlainThread
    <3>6. QED
        BY <1>2, <3>1, <3>5
  <2>6. CASE Write(h)
    <3> DEFINE n(at) == [t EXCEPT !.at = at, !.edits = Tail(@), !.text = <<>>, !.wrote = TRUE]
    <3>1. PICK at \in {"request", "field"} : Become(h, n(at))
        BY <2>6 DEF Write
    <3>2. file' = t.text /\ t.at = "write"
        BY <2>6 DEF Write
    <3>3. IsPlain(t.text) /\ t.edits # <<>>
        BY <1>1, <3>2 DEF PlainThread
    <3>4. Shaped(n(at)) /\ n(at).at = at /\ n(at).edits = Tail(t.edits)
        BY <1>1 DEF Shaped
    <3>5. Tail(t.edits) \in Seq(EditsSent)
        BY <1>1, <3>3, EditSent
    <3>6. PlainThread(n(at))
        BY <3>1, <3>4, <3>5 DEF PlainThread
    <3>7. QED
        BY <3>1, <3>2, <3>3, <3>6
  <2>7. CASE RequestReload(h)
    <3> DEFINE n == [t EXCEPT !.at = "field"]
    <3>1. Become(h, n) /\ file' = file
        BY <2>7 DEF RequestReload
    <3>2. Shaped(n) /\ n.at = "field" /\ n.edits = t.edits
        BY <1>1 DEF Shaped
    <3>3. PlainThread(n)
        BY <1>1, <3>2 DEF PlainThread
    <3>4. QED
        BY <1>2, <3>1, <3>3
  <2>8. Receive(h) \/ Serve(h) \/ WriteFails(h)
      OBVIOUS
  <2>9. QED
      BY <2>1, <2>2, <2>3, <2>4, <2>5, <2>6, <2>7, <2>8 DEF Serve
<1>4. QED
    BY <1>3, BecomeKeepsPlain DEF PlainInv

\* A thread that comes to a write has just read.
LEMMA OnlyReadPrepares ==
    ASSUME PlainInv, [ConfigNext]_configVars, NEW h \in Handlers,
           handler'[h].at = "write", handler[h].at = "read"
    PROVE  Read(h) /\ handler'[h].text = Replaced(file, Edit(h))
<1>1. handler'[h] # handler[h]
    OBVIOUS
<1>2. PICK k \in Handlers : Receive(k) \/ Serve(k) \/ WriteFails(k)
    BY <1>1 DEF ConfigNext, configVars, Loop, Consume, Reload
<1>3. \E n : Become(k, n)
    BY <1>2 DEF Receive, Serve, WriteFails, RejectValue, Look, Materialize, Read,
       RuleNotFound, Write, RequestReload, Answer, Refuse
<1>4. k = h
    BY <1>1, <1>3 DEF PlainInv, Become
<1>5. Read(h) \/ RuleNotFound(h)
    BY <1>2, <1>4 DEF Receive, Serve, WriteFails, RejectValue, Look, Materialize,
       RuleNotFound, Write, RequestReload, Answer
<1>6. DOMAIN handler = Handlers /\ Shaped(handler[h])
    BY DEF PlainInv, PlainThread
<1>7. ~RuleNotFound(h)
  <2>1. ASSUME RuleNotFound(h) PROVE FALSE
    <3>1. handler'[h] = Idle
        BY <1>6, <2>1 DEF RuleNotFound, Refuse, Become
    <3>2. QED
        BY <3>1 DEF Idle
  <2>2. QED
      BY <2>1
<1>8. handler' = [handler EXCEPT ![h] =
                    [handler[h] EXCEPT !.at = "write", !.text = Replaced(file, Edit(h))]]
    BY <1>5, <1>7 DEF Read, Become
<1>9. handler'[h].text = Replaced(file, Edit(h))
    BY <1>6, <1>8 DEF Shaped
<1>10. QED
    BY <1>5, <1>7, <1>9

\* update_rule_field() with any number of clients, on any file whose tables have
\* one name each: where the writer reads the file as the loader does (ReadsAlike),
\* what it is about to write says the new value of the field and, of every other
\* field and rule, what the file said.
THEOREM EditsStayLocal ==
    ASSUME \A text \in OnDisk \cup {Default} : IsPlain(text)
    PROVE  ConfigFileSpec => EditsAreLocal
<1> DEFINE Local ==
      \A h \in Handlers : handler'[h].at = "write" /\ handler[h].at = "read"
                           /\ ReadsAlike(file, Edit(h)) =>
         LET edit == Edit(h)
             rules == {line.value : line \in {l \in ToSet(file) : l.key = "name"}}
             fields == {line.key : line \in ToSet(file)} \cup {edit.field} IN
         /\ edit.value \in Said(handler'[h].text, edit.rule, edit.field)
         /\ \A r \in rules, f \in fields : <<r, f>> # <<edit.rule, edit.field>> =>
              Said(handler'[h].text, r, f) = Said(file, r, f)
<1>1. ConfigInit => PlainInv
  <2> SUFFICES ASSUME ConfigInit PROVE PlainInv
      OBVIOUS
  <2>1. IsPlain(Missing)
    <3>1. <<>> \in Seq({}) /\ DOMAIN <<>> = {}
        OBVIOUS
    <3>2. IsText(<<>>)
        BY <3>1 DEF IsText
    <3>3. QED
        BY <3>1, <3>2 DEF IsPlain, OneName, Missing
  <2>2. IsPlain(file)
      BY <2>1 DEF ConfigInit
  <2>3. QED
      BY <2>2, IdleIsPlain DEF ConfigInit, PlainInv
<1>2. PlainInv /\ [ConfigNext]_configVars => PlainInv'
  <2> SUFFICES ASSUME PlainInv, [ConfigNext]_configVars PROVE PlainInv'
      OBVIOUS
  <2>1. CASE Loop \/ UNCHANGED configVars
      BY <2>1 DEF Loop, Consume, Reload, configVars, PlainInv
  <2>2. ASSUME NEW h \in Handlers, Receive(h) \/ Serve(h) \/ WriteFails(h) PROVE PlainInv'
      BY <2>2, ServingIsPlain
  <2>3. QED
      BY <2>1, <2>2 DEF ConfigNext
<1>3. PlainInv /\ [ConfigNext]_configVars => [Local]_configVars
  <2> SUFFICES ASSUME PlainInv, [ConfigNext]_configVars,
                      NEW h \in Handlers, handler'[h].at = "write", handler[h].at = "read",
                      ReadsAlike(file, Edit(h))
               PROVE  /\ Edit(h).value \in Said(handler'[h].text, Edit(h).rule, Edit(h).field)
                      /\ \A r, f : <<r, f>> # <<Edit(h).rule, Edit(h).field>> =>
                           Said(handler'[h].text, r, f) = Said(file, r, f)
      OBVIOUS
  <2>1. Read(h) /\ handler'[h].text = Replaced(file, Edit(h))
      BY OnlyReadPrepares
  <2>2. LocalEdit(file, Replaced(file, Edit(h)), Edit(h))
      BY <2>1, ReadIsLocal
  <2>3. QED
      BY <2>1, <2>2 DEF LocalEdit
<1>4. QED
    BY <1>1, <1>2, <1>3, PTL DEF ConfigFileSpec, EditsAreLocal

-----------------------------------------------------------------------------
(* Forensics: rotation loses no tick but the oldest archive.                *)

\* What the files may hold.
Archives == [Slots -> SUBSET Nat]

\* One rename moves what is in its way out, and nothing else.
LEMMA MovedStores ==
    ASSUME NEW f \in Archives, NEW s \in Slots, s < KeepArchives
    PROVE  /\ Moved(f, s) \in Archives
           /\ Moved(f, s)[s] = {}
           /\ Stored(Moved(f, s)) \subseteq Stored(f)
           /\ Stored(f) \subseteq Stored(Moved(f, s)) \cup f[s + 1]
           /\ f[s + 1] = {} \/ f[s] # {} \/ Moved(f, s) = f
<1>1. s + 1 \in Slots /\ s # s + 1
    BY ArchivesAssumption DEF Slots, LiveFile
<1>2. CASE f[s] = {}
    BY <1>2 DEF Moved, Archives
<1>3. CASE f[s] # {}
  <2>1. Moved(f, s) = [f EXCEPT ![s + 1] = f[s], ![s] = {}]
      BY <1>3 DEF Moved
  <2>2. \A t \in Slots : Moved(f, s)[t] = IF t = s THEN {} ELSE IF t = s + 1 THEN f[s] ELSE f[t]
      BY <1>1, <2>1 DEF Archives
  <2>3. Moved(f, s) \in Archives
      BY <1>1, <2>1 DEF Archives
  <2>4. ASSUME NEW x \in Stored(f) PROVE x \in Stored(Moved(f, s)) \cup f[s + 1]
    <3>1. PICK t \in Slots : x \in f[t]
        BY DEF Stored
    <3>2. CASE t = s
        BY <1>1, <2>2, <3>1, <3>2 DEF Stored
    <3>3. CASE t # s /\ t # s + 1
        BY <2>2, <3>1, <3>3 DEF Stored
    <3>4. QED
        BY <3>1, <3>2, <3>3
  <2>5. ASSUME NEW x \in Stored(Moved(f, s)) PROVE x \in Stored(f)
      BY <1>1, <2>2, <2>5 DEF Stored
  <2>6. QED
      BY <1>1, <1>3, <2>2, <2>3, <2>4, <2>5
<1>4. QED
    BY <1>2, <1>3

Renames(c, f, n) ==
    /\ c[0] = f
    /\ \A i \in 1..n : c[i] = Moved(c[i - 1], KeepArchives - i)
    /\ Cascade(f, n) = c[n]

\* The cascade is made of its renames.
LEMMA CascadeSteps ==
    ASSUME NEW f \in Archives, NEW n \in 0..WholeCascade
    PROVE  \E c : Renames(c, f, n)
<1> DEFINE D(g) == g = [i \in 0..n |-> IF i = 0 THEN f ELSE Moved(g[i - 1], KeepArchives - i)]
           c == CHOOSE g : D(g)
           F == [i \in Nat |-> [a \in Archives |->
                   IF i \in 1..WholeCascade THEN Moved(a, KeepArchives - i) ELSE a]]
<1>1. /\ n \in Nat
      /\ \A i \in 1..WholeCascade : /\ KeepArchives - i \in Slots
                                    /\ KeepArchives - i < KeepArchives
    BY ArchivesAssumption DEF WholeCascade, Slots, LiveFile
<1>2. F \in [Nat -> [Archives -> Archives]]
  <2>1. ASSUME NEW i \in Nat, NEW a \in Archives
        PROVE  (IF i \in 1..WholeCascade THEN Moved(a, KeepArchives - i) ELSE a) \in Archives
      BY <1>1, MovedStores
  <2>2. QED
      BY <2>1
<1>3. \E g : Iterates(g, F, f, n, Archives)
  <2> HIDE DEF F
  <2>1. QED
      BY <1>1, <1>2, StepByStep
<1>4. PICK g : Iterates(g, F, f, n, Archives)
    BY <1>3
<1>5. \A i \in 1..n : g[i] = Moved(g[i - 1], KeepArchives - i)
  <2>1. ASSUME NEW i \in 1..n PROVE g[i] = Moved(g[i - 1], KeepArchives - i)
    <3>1. i \in Nat /\ i \in 1..WholeCascade /\ g[i - 1] \in Archives
        BY <1>1, <1>4, ArchivesAssumption DEF Iterates, WholeCascade
    <3>2. g[i] = F[i][g[i - 1]]
        BY <1>4 DEF Iterates
    <3>3. F[i][g[i - 1]] = Moved(g[i - 1], KeepArchives - i)
        BY <3>1
    <3>4. QED
        BY <3>2, <3>3
  <2>2. QED
      BY <2>1
<1>6. D(g)
    BY <1>1, <1>4, <1>5 DEF Iterates
<1>7. D(c)
  <2> HIDE DEF D
  <2>1. QED
      BY <1>6, Zenon
<1>8. Cascade(f, n) = c[n]
    BY Zenon DEF Cascade, c, D
<1>9. c[0] = f /\ \A i \in 1..n : c[i] = Moved(c[i - 1], KeepArchives - i)
  <2> HIDE DEF c
  <2>1. QED
      BY <1>1, <1>7
<1>10. Renames(c, f, n)
    BY <1>8, <1>9 DEF Renames
<1> HIDE DEF c
<1>11. QED
    BY <1>10

\* However far the cascade gets, only the oldest archive is written over, and
\* behind it there is room for the next rename.
LEMMA CascadeStores ==
    ASSUME NEW f \in Archives, NEW n \in 0..WholeCascade
    PROVE  /\ Cascade(f, n) \in Archives
           /\ Stored(Cascade(f, n)) \subseteq Stored(f)
           /\ Stored(f) \subseteq Stored(Cascade(f, n)) \cup f[KeepArchives]
           /\ n = 0 => Cascade(f, n) = f
           /\ n # 0 => Cascade(f, n)[KeepArchives - n] = {}
<1>1. PICK c : Renames(c, f, n)
    BY CascadeSteps
<1> DEFINE Fine(i) == /\ c[i] \in Archives
                      /\ Stored(c[i]) \subseteq Stored(f)
                      /\ Stored(f) \subseteq Stored(c[i]) \cup f[KeepArchives]
                      /\ i = 0 => c[i] = f
                      /\ i # 0 => c[i][KeepArchives - i] = {}
           S == {i \in Nat : i <= n => Fine(i)}
<1>2. 0 \in S
    BY <1>1 DEF Renames
<1>3. ASSUME NEW i \in S PROVE i + 1 \in S
  <2>1. SUFFICES ASSUME i + 1 <= n PROVE Fine(i + 1)
      OBVIOUS
  <2>2. i \in Nat /\ Fine(i)
      BY <2>1
  <2> DEFINE s == KeepArchives - (i + 1)
  <2>3. s \in Slots /\ s < KeepArchives /\ s + 1 = KeepArchives - i
      BY <2>1, <2>2, ArchivesAssumption DEF WholeCascade, Slots, LiveFile
  <2>4. c[i + 1] = Moved(c[i], s)
      BY <1>1, <2>1, <2>2 DEF Renames
  <2>5. /\ c[i + 1] \in Archives /\ c[i + 1][s] = {}
        /\ Stored(c[i + 1]) \subseteq Stored(c[i])
        /\ Stored(c[i]) \subseteq Stored(c[i + 1]) \cup c[i][s + 1]
      BY <2>2, <2>3, <2>4, MovedStores
  <2>6. c[i][s + 1] = {} \/ c[i][s + 1] = f[KeepArchives]
      BY <2>2, <2>3, ArchivesAssumption
  <2>7. i + 1 # 0
      BY <2>2
  <2>8. QED
      BY <2>2, <2>5, <2>6, <2>7
<1>4. S = Nat
  <2>1. S \in SUBSET Nat
      OBVIOUS
  <2> HIDE DEF S
  <2>2. QED
      BY <1>2, <1>3, <2>1, Induct
<1>5. n \in Nat
    BY ArchivesAssumption DEF WholeCascade
<1>6. Fine(n)
    BY <1>4, <1>5
<1>7. QED
    BY <1>1, <1>6 DEF Renames

\* A rename that fails leaves room where nothing, or the oldest archive, was.
LEMMA UnlinkedStores ==
    ASSUME NEW f \in Archives, NEW n \in 0..(WholeCascade - 1)
    PROVE  LET g == Unlinked(Cascade(f, n), KeepArchives - n - 1) IN
           /\ g \in Archives
           /\ Stored(g) \subseteq Stored(f)
           /\ Stored(f) \subseteq Stored(g) \cup f[KeepArchives]
<1> DEFINE c == Cascade(f, n)
           s == KeepArchives - n
           g == Unlinked(c, KeepArchives - n - 1)
<1>1. n \in 0..WholeCascade /\ n \in Nat /\ s \in Slots /\ KeepArchives \in Slots
      /\ KeepArchives - n - 1 + 1 = s
    BY ArchivesAssumption DEF WholeCascade, Slots, LiveFile
<1>2. /\ c \in Archives /\ Stored(c) \subseteq Stored(f)
      /\ Stored(f) \subseteq Stored(c) \cup f[KeepArchives]
      /\ n = 0 => c = f
      /\ n # 0 => c[s] = {}
    BY <1>1, CascadeStores
<1> HIDE DEF c
<1>3. g = c \/ g = [c EXCEPT ![s] = {}]
    BY <1>1 DEF Unlinked
<1>4. g \in Archives /\ \A t \in Slots : g[t] = c[t] \/ (t = s /\ g[t] = {})
    BY <1>1, <1>2, <1>3 DEF Archives
<1>5. c[s] \subseteq f[KeepArchives]
    BY <1>1, <1>2, ArchivesAssumption
<1> HIDE DEF g, s
<1>6. Stored(g) \subseteq Stored(c)
    BY <1>4 DEF Stored
<1>7. Stored(c) \subseteq Stored(g) \cup c[s]
    BY <1>4 DEF Stored
<1>8. QED
    BY <1>2, <1>4, <1>5, <1>6, <1>7 DEF g, c

\* Every tick recorded is somewhere, and the files are files.
ForensicsInv ==
    /\ tick \in Nat
    /\ archives \in Archives
    /\ batch = [w \in Writers |-> batch[w]]
    /\ NothingSlips

\* A rotation keeps what it does not push out.
LEMMA RotationKeeps ==
    ASSUME archives \in Archives, Rotate
    PROVE  /\ archives' \in Archives
           /\ Stored(archives') \cup excused' = Stored(archives) \cup excused
<1>1. /\ archives' \in Archives /\ Stored(archives') \subseteq Stored(archives)
      /\ Stored(archives) \subseteq Stored(archives') \cup archives[KeepArchives]
  <2>1. CASE archives' = Cascade(archives, WholeCascade)
    <3>1. WholeCascade \in 0..WholeCascade
        BY ArchivesAssumption DEF WholeCascade
    <3>2. QED
        BY <2>1, <3>1, CascadeStores
  <2>2. ASSUME NEW n \in 0..(WholeCascade - 1),
               archives' \in {Cascade(archives, n),
                              Unlinked(Cascade(archives, n), KeepArchives - n - 1)}
        PROVE  /\ archives' \in Archives /\ Stored(archives') \subseteq Stored(archives)
               /\ Stored(archives) \subseteq Stored(archives') \cup archives[KeepArchives]
    <3>1. n \in 0..WholeCascade
        BY ArchivesAssumption DEF WholeCascade
    <3>2. QED
        BY <2>2, <3>1, CascadeStores, UnlinkedStores
  <2>3. QED
      BY <2>1, <2>2 DEF Rotate
<1>2. excused' = excused \cup PushedOut
    BY DEF Rotate
<1>3. archives[KeepArchives] \subseteq Stored(archives)
    BY ArchivesAssumption DEF Stored, Slots, LiveFile
<1>4. QED
    BY <1>1, <1>2, <1>3 DEF PushedOut

\* The stream starts empty.
LEMMA InitForensicsInv == ForensicsInit => ForensicsInv
BY DEF ForensicsInit, ForensicsInv, Archives, NothingSlips, Stored, Writers

\* A tick goes from the staged ones to a batch, to the live file, and down the
\* cascade.
LEMMA StepForensicsInv == ForensicsInv /\ [ForensicsNext]_forensicsVars => ForensicsInv'
<1> SUFFICES ASSUME ForensicsInv, [ForensicsNext]_forensicsVars PROVE ForensicsInv'
    OBVIOUS
<1>1. /\ tick \in Nat /\ archives \in Archives /\ batch = [w \in Writers |-> batch[w]]
      /\ 1..tick = Stored(archives) \cup staged \cup batch["flusher"]
                     \cup batch["stopper"] \cup excused
    BY DEF ForensicsInv, NothingSlips
<1>2. CASE Start
  <2>1. archives' \in Archives /\ Stored(archives') \cup excused' = Stored(archives) \cup excused
      BY <1>1, <1>2, RotationKeeps DEF Start
  <2>2. QED
      BY <1>1, <1>2, <2>1 DEF Start, ForensicsInv, NothingSlips
<1>3. CASE MaybeRotate
  <2>1. archives' \in Archives /\ Stored(archives') \cup excused' = Stored(archives) \cup excused
      BY <1>1, <1>3, RotationKeeps DEF MaybeRotate
  <2>2. QED
      BY <1>1, <1>3, <2>1 DEF MaybeRotate, ForensicsInv, NothingSlips
<1>4. CASE Record
  <2>1. 1..(tick + 1) = (1..tick) \cup {tick + 1} /\ tick + 1 \in Nat
      BY <1>1
  <2>2. QED
      BY <1>1, <1>4, <2>1 DEF Record, ForensicsInv, NothingSlips
<1>5. ASSUME NEW w \in Writers, TakeBatch(w) PROVE ForensicsInv'
  <2>1. batch' = [v \in Writers |-> IF v = w THEN staged ELSE batch[v]]
      BY <1>1, <1>5 DEF TakeBatch
  <2>2. batch'["flusher"] \cup batch'["stopper"]
          = staged \cup batch["flusher"] \cup batch["stopper"]
      BY <1>5, <2>1 DEF TakeBatch, Writers
  <2>3. QED
      BY <1>1, <1>5, <2>1, <2>2 DEF TakeBatch, ForensicsInv, NothingSlips
<1>6. ASSUME NEW w \in Writers, WriteBatch(w) PROVE ForensicsInv'
  <2>1. batch' = [v \in Writers |-> IF v = w THEN {} ELSE batch[v]]
      BY <1>1, <1>6 DEF WriteBatch
  <2>2. batch'["flusher"] \cup batch'["stopper"] \cup batch[w]
          = batch["flusher"] \cup batch["stopper"]
      BY <2>1 DEF Writers
  <2>3. archives' \in Archives
        /\ Stored(archives') \cup excused' = Stored(archives) \cup excused \cup batch[w]
    <3>1. CASE archives' = [archives EXCEPT ![LiveFile] = @ \cup batch[w]] /\ excused' = excused
      <4>1. LiveFile \in Slots /\ batch[w] \in SUBSET Nat
          BY <1>1, ArchivesAssumption DEF Slots, LiveFile, Writers
      <4>2. \A s \in Slots : archives'[s] = IF s = LiveFile THEN archives[s] \cup batch[w]
                                                          ELSE archives[s]
          BY <1>1, <3>1, <4>1 DEF Archives
      <4>3. archives' \in Archives
          BY <1>1, <3>1, <4>1 DEF Archives
      <4>4. Stored(archives') = Stored(archives) \cup batch[w]
          BY <4>1, <4>2 DEF Stored
      <4>5. QED
          BY <3>1, <4>3, <4>4
    <3>2. CASE archives' = archives /\ excused' = excused \cup batch[w]
        BY <1>1, <3>2
    <3>3. QED
        BY <1>6, <3>1, <3>2 DEF WriteBatch
  <2>4. QED
      BY <1>1, <1>6, <2>1, <2>2, <2>3 DEF WriteBatch, ForensicsInv, NothingSlips
<1>7. CASE StopRequested \/ FlusherExits \/ UNCHANGED forensicsVars
    BY <1>1, <1>7 DEF StopRequested, FlusherExits, forensicsVars, ForensicsInv, NothingSlips
<1>8. CASE Exit
    BY <1>1, <1>8 DEF Exit, Drained, ForensicsInv, NothingSlips, Writers
<1>9. CASE ProcessDies
    BY <1>1, <1>9 DEF ProcessDies, ForensicsInv, NothingSlips, Writers
<1>10. QED
    BY <1>2, <1>3, <1>4, <1>5, <1>6, <1>7, <1>8, <1>9 DEF ForensicsNext

\* For any number of archives and any failing renames and writes, crashes and
\* stops, a tick that was recorded is in memory or on disk, or the code gave it
\* up: it was not yet written when the process died, its write failed, or it was
\* in the oldest archive.
THEOREM NoTickSlips == ForensicsSpec => []NothingSlips
<1>1. ForensicsInv => NothingSlips
    BY DEF ForensicsInv
<1>2. QED
    BY <1>1, InitForensicsInv, StepForensicsInv, PTL DEF ForensicsSpec

-----------------------------------------------------------------------------
(* Reporter: what the queue and the spool hold.                             *)

\* What a sequence holds after the operations of the queue and the spool.
LEMMA SequenceHolds ==
    ASSUME NEW X, NEW s \in Seq(X)
    PROVE  /\ ToSet(s) \subseteq X
           /\ \A x \in X : ToSet(Append(s, x)) = ToSet(s) \cup {x}
           /\ \A t \in Seq(X) : ToSet(s \o t) = ToSet(s) \cup ToSet(t)
           /\ s # <<>> => /\ ToSet(s) = {Head(s)} \cup ToSet(Tail(s))
                          /\ Head(s) \in X /\ Tail(s) \in Seq(X)
           /\ ToSet(<<>>) = {}
           /\ \A x \in X : ToSet(<<x>>) = {x}
<1>1. ToSet(s) \subseteq X /\ ToSet(<<>>) = {} /\ \A x \in X : ToSet(<<x>>) = {x}
    BY DEF ToSet
<1>2. ASSUME NEW x \in X PROVE ToSet(Append(s, x)) = ToSet(s) \cup {x}
  <2>1. /\ Append(s, x) \in Seq(X) /\ Len(Append(s, x)) = Len(s) + 1
        /\ \A i \in 1..Len(s) : Append(s, x)[i] = s[i]
        /\ Append(s, x)[Len(s) + 1] = x
      BY AppendProperties
  <2>2. Len(s) \in Nat
      OBVIOUS
  <2>3. QED
      BY <2>1, <2>2 DEF ToSet
<1>3. ASSUME NEW t \in Seq(X) PROVE ToSet(s \o t) = ToSet(s) \cup ToSet(t)
  <2>1. \A y \in ToSet(s \o t) : y \in ToSet(s) \cup ToSet(t)
    <3>1. TAKE y \in ToSet(s \o t)
    <3>2. PICK i \in 1..(Len(s) + Len(t)) : y = (s \o t)[i]
        BY DEF ToSet
    <3>3. QED
        BY <3>2 DEF ToSet
  <2>2. \A y \in ToSet(s) : y \in ToSet(s \o t)
    <3>1. TAKE y \in ToSet(s)
    <3>2. PICK i \in 1..Len(s) : y = s[i]
        BY DEF ToSet
    <3>3. i \in 1..Len(s \o t) /\ (s \o t)[i] = y
        BY <3>2
    <3>4. QED
        BY <3>3 DEF ToSet
  <2>3. \A y \in ToSet(t) : y \in ToSet(s \o t)
    <3>1. TAKE y \in ToSet(t)
    <3>2. PICK i \in 1..Len(t) : y = t[i]
        BY DEF ToSet
    <3>3. Len(s) + i \in 1..Len(s \o t) /\ (s \o t)[Len(s) + i] = y
        BY <3>2
    <3>4. QED
        BY <3>3 DEF ToSet
  <2>4. QED
      BY <2>1, <2>2, <2>3
<1>4. ASSUME s # <<>>
      PROVE  /\ ToSet(s) = {Head(s)} \cup ToSet(Tail(s))
             /\ Head(s) \in X /\ Tail(s) \in Seq(X)
  <2>1. /\ Head(s) \in X /\ Head(s) = s[1] /\ Tail(s) \in Seq(X)
        /\ Len(s) \in Nat \ {0} /\ Len(Tail(s)) = Len(s) - 1
        /\ \A i \in 1..Len(Tail(s)) : Tail(s)[i] = s[i + 1]
      BY <1>4
  <2>2. \A i \in 2..Len(s) : s[i] = Tail(s)[i - 1] /\ i - 1 \in 1..Len(Tail(s))
      BY <2>1
  <2>3. \A y \in ToSet(s) : y \in {Head(s)} \cup ToSet(Tail(s))
    <3>1. TAKE y \in ToSet(s)
    <3>2. PICK i \in 1..Len(s) : y = s[i]
        BY DEF ToSet
    <3>3. i = 1 \/ i \in 2..Len(s)
        BY <2>1
    <3>4. DOMAIN Tail(s) = 1..Len(Tail(s))
        BY <2>1
    <3>5. QED
        BY <2>1, <2>2, <3>2, <3>3, <3>4 DEF ToSet
  <2>4. \A y \in ToSet(Tail(s)) : y \in ToSet(s)
    <3>1. TAKE y \in ToSet(Tail(s))
    <3>2. PICK i \in 1..Len(Tail(s)) : y = Tail(s)[i]
        BY <2>1 DEF ToSet
    <3>3. i + 1 \in 1..Len(s) /\ s[i + 1] = y
        BY <2>1, <3>2
    <3>4. QED
        BY <3>3 DEF ToSet
  <2>5. Head(s) \in ToSet(s)
      BY <2>1 DEF ToSet
  <2>6. QED
      BY <2>1, <2>3, <2>4, <2>5
<1>5. QED
    BY <1>1, <1>2, <1>3, <1>4

\* The first part of a sequence.
LEMMA FirstPart ==
    ASSUME NEW X, NEW s \in Seq(X), NEW n \in Nat, n <= Len(s)
    PROVE  /\ SubSeq(s, 1, n) \in Seq(X)
           /\ ToSet(SubSeq(s, 1, n)) \subseteq ToSet(s)
           /\ Len(SubSeq(s, 1, n)) = n
           /\ \A i \in 1..n : SubSeq(s, 1, n)[i] = s[i]
<1>1. /\ SubSeq(s, 1, n) \in Seq(X) /\ Len(SubSeq(s, 1, n)) = n
      /\ \A i \in 1..n : SubSeq(s, 1, n)[i] = s[i]
  <2>1. /\ 1 \in Int /\ n \in Int /\ \A i \in 1..n : s[i] \in X
        /\ n - 1 + 1 = n /\ \A i \in 1..n : 1 + i - 1 = i
      OBVIOUS
  <2>2. /\ SubSeq(s, 1, n) \in Seq(X)
        /\ Len(SubSeq(s, 1, n)) = IF 1 <= n THEN n - 1 + 1 ELSE 0
        /\ \A i \in 1..(n - 1 + 1) : SubSeq(s, 1, n)[i] = s[1 + i - 1]
      BY <2>1, SubSeqProperties
  <2>3. QED
      BY <2>1, <2>2
<1>2. DOMAIN SubSeq(s, 1, n) = 1..n /\ 1..n \subseteq DOMAIN s
    BY <1>1
<1>3. QED
    BY <1>1, <1>2 DEF ToSet

Items == [id : Nat, url : Urls]

\* A report is sent to webhooks one by one.
LEMMA ReportIsASequence ==
    ASSUME NEW webhooks \in SUBSET Urls, NEW id \in Nat
    PROVE  LET s == SetToSeq({[id |-> id, url |-> u] : u \in webhooks}) IN
           /\ s \in Seq(Items)
           /\ \A i \in ToSet(s) : i.id = id
           /\ \A i, j \in DOMAIN s : s[i] = s[j] => i = j
<1> DEFINE S == {[id |-> id, url |-> u] : u \in webhooks}
           n == Cardinality(S)
<1>1. S \subseteq Items /\ \A i \in S : i.id = id
    BY DEF Items
<1>2. IsFiniteSet(S)
  <2> DEFINE T == webhooks
  <2>1. IsFiniteSet(webhooks)
      BY ReporterAssumption, FS_Subset
  <2> DEFINE f == [u \in webhooks |-> [id |-> id, url |-> u]]
  <2>2. f \in Surjection(webhooks, S)
      BY DEF Surjection
  <2>3. QED
      BY <2>1, <2>2, FS_Surjection
<1>3. n \in Nat /\ ExistsBijection(1..n, S)
    BY <1>2, FS_CardinalityType
<1>4. PICK f \in [1..n -> S] : IsInjective(f)
  <2>1. PICK f : f \in Bijection(1..n, S)
      BY <1>3 DEF ExistsBijection
  <2>2. f \in [1..n -> S] /\ \A a, b \in 1..n : f[a] = f[b] => a = b
      BY <2>1 DEF Bijection, Injection, IsInjective
  <2>3. IsInjective(f)
      BY <2>2 DEF IsInjective
  <2>4. QED
      BY <2>2, <2>3
<1> HIDE DEF S, n
<1>5. SetToSeq(S) \in [1..n -> S] /\ IsInjective(SetToSeq(S))
    BY <1>4, Zenon DEF SetToSeq, n
<1>6. SetToSeq(S) \in Seq(S)
    BY <1>3, <1>5
<1>7. SetToSeq(S) \in Seq(Items)
    BY <1>1, <1>6
<1>8. ToSet(SetToSeq(S)) \subseteq S
    BY <1>5 DEF ToSet
<1>9. QED
    BY <1>1, <1>5, <1>7, <1>8 DEF IsInjective, S

\* What a pass over the spool remembers.
PassType == [running : BOOLEAN, read : BOOLEAN, rest : Seq(Items), keep : Seq(Items),
             unreachable : SUBSET Urls, progressed : BOOLEAN]

\* Telemetry is never spooled.
NoTelemetry(s) == \A i \in ToSet(s) : i.id # Telemetry

\* The bounds of the queue and of the spool hold.
QueueTypes ==
    /\ queue \in Seq(Items) /\ Len(queue) <= QueueMax
    /\ posting \in Seq(Items) /\ Len(posting) <= 1

SpoolTypes ==
    /\ spool \in Seq(Items) /\ Len(spool) <= SpoolMax /\ NoTelemetry(spool)
    /\ pass \in PassType /\ NoTelemetry(pass.rest) /\ NoTelemetry(pass.keep)
    /\ Len(pass.rest) + Len(pass.keep) <= SpoolMax

OtherTypes ==
    /\ diskOk \in BOOLEAN
    /\ breakdowns \in Nat
    /\ sent \in SUBSET Items /\ \A i \in sent : i.id # Telemetry

ReporterTypes == QueueTypes /\ SpoolTypes /\ OtherTypes

\* The thread either delivers or is in a pass.
OneThread ==
    /\ posting # <<>> => ~pass.running
    /\ ~pass.running => pass = NoPass
    /\ ~pass.read => pass.rest = <<>> /\ pass.keep = <<>>

\* What a pass has read and neither delivered nor given up is yet to be tried,
\* or to be written back.
PassAccounts ==
    pass.read => ToSet(spool) \subseteq got \cup lost \cup ToSet(pass.rest) \cup ToSet(pass.keep)

\* Beside NothingVanishes: a pass drops no line that it has not dealt with.
ReporterInv == ReporterTypes /\ OneThread /\ PassAccounts /\ NothingVanishes

\* No pass is a pass with nothing to try.
LEMMA NoPassIsAPass ==
    /\ NoPass \in PassType /\ NoTelemetry(NoPass.rest) /\ NoTelemetry(NoPass.keep)
    /\ NoPass.running = FALSE /\ NoPass.read = FALSE
    /\ NoPass.rest = <<>> /\ NoPass.keep = <<>>
    /\ Len(NoPass.rest) + Len(NoPass.keep) <= SpoolMax
BY ReporterAssumption DEF NoPass, PassType, NoTelemetry, ToSet

\* A pass begins with the spool to go through and nothing kept.
LEMMA PassBeginning ==
    ASSUME NEW lines \in Seq(Items), diskOk \in BOOLEAN, Len(lines) <= SpoolMax,
           NoTelemetry(lines), NEW p, p = PassBegins(lines)
    PROVE  /\ p \in PassType /\ p.running = TRUE
           /\ p.read <=> diskOk /\ lines # <<>>
           /\ p.rest = IF diskOk THEN lines ELSE <<>>
           /\ p.keep = <<>>
           /\ ~p.read => p.rest = <<>>
           /\ NoTelemetry(p.rest) /\ NoTelemetry(p.keep)
           /\ Len(p.rest) + Len(p.keep) <= SpoolMax
<1>1. NoPass \in PassType /\ NoPass.keep = <<>> /\ NoTelemetry(<<>>)
    BY NoPassIsAPass
<1>2. (diskOk /\ lines # <<>>) \in BOOLEAN
    OBVIOUS
<1>3. p = [NoPass EXCEPT !.running = TRUE, !.read = diskOk /\ lines # <<>>,
                                         !.rest = IF diskOk THEN lines ELSE <<>>]
    BY DEF PassBegins
<1> HIDE DEF NoPass
<1>4. /\ p \in PassType /\ p.running = TRUE /\ p.keep = NoPass.keep
      /\ p.read = (diskOk /\ lines # <<>>)
      /\ p.rest = IF diskOk THEN lines ELSE <<>>
    BY <1>1, <1>2, <1>3 DEF PassType
<1>5. /\ diskOk /\ lines # <<>> => p.read = TRUE
      /\ ~(diskOk /\ lines # <<>>) => p.read = FALSE
    BY <1>4
<1>6. Len(p.rest) <= SpoolMax /\ Len(p.keep) = 0 /\ NoTelemetry(p.rest) /\ Len(p.rest) \in Nat
    BY <1>1, <1>4, ReporterAssumption
<1>7. QED
    BY <1>1, <1>4, <1>5, <1>6, ReporterAssumption

\* The queue takes a first part of what is put in.
LEMMA QueuedIsAPart ==
    ASSUME queue \in Seq(Items), Len(queue) <= QueueMax, NEW items \in Seq(Items)
    PROVE  LET q == queue \o Queued(items) IN
           /\ Queued(items) \in Seq(Items) /\ q \in Seq(Items) /\ Len(q) <= QueueMax
           /\ ToSet(q) = ToSet(queue) \cup ToSet(Queued(items))
           /\ ToSet(Queued(items)) \subseteq ToSet(items)
           /\ \A i \in DOMAIN Queued(items) : i \in DOMAIN items /\ Queued(items)[i] = items[i]
<1> DEFINE n == IF Len(items) <= QueueMax - Len(queue) THEN Len(items)
                ELSE QueueMax - Len(queue)
<1>1. n \in Nat /\ n <= Len(items) /\ n + Len(queue) <= QueueMax
    BY ReporterAssumption
<1>2. Queued(items) = SubSeq(items, 1, n)
    BY DEF Queued
<1> HIDE DEF n
<1>3. /\ Queued(items) \in Seq(Items) /\ Len(Queued(items)) = n
      /\ ToSet(Queued(items)) \subseteq ToSet(items)
      /\ \A i \in 1..n : Queued(items)[i] = items[i]
    BY <1>1, <1>2, FirstPart
<1>4. ToSet(queue \o Queued(items)) = ToSet(queue) \cup ToSet(Queued(items))
    BY <1>3, SequenceHolds
<1>5. QED
    BY <1>1, <1>3, <1>4

\* The spool takes what is appended, and a full one gives up its oldest line.
LEMMA SpoolTakes ==
    ASSUME spool \in Seq(Items), Len(spool) <= SpoolMax, NEW item \in Items
    PROVE  LET s == SpoolAppended(item) IN
           /\ s \in Seq(Items) /\ Len(s) <= SpoolMax
           /\ s = Append(spool, item) \/ s = Tail(Append(spool, item))
           /\ item \in ToSet(s) /\ ToSet(s) \subseteq ToSet(spool) \cup {item}
           /\ ToSet(spool) \subseteq ToSet(s)
                 \cup (IF Len(spool) = SpoolMax THEN {Head(spool)} ELSE {})
<1> DEFINE all == Append(spool, item)
<1>1. /\ all \in Seq(Items) /\ all # <<>> /\ Len(all) = Len(spool) + 1
      /\ all[Len(spool) + 1] = item
      /\ ToSet(all) = ToSet(spool) \cup {item}
      /\ Len(spool) \in Nat /\ SpoolMax \in Nat \ {0}
    BY SequenceHolds, AppendProperties, ReporterAssumption
<1>2. CASE Len(spool) < SpoolMax
  <2>1. SpoolAppended(item) = all
      BY <1>1, <1>2 DEF SpoolAppended
  <2>2. QED
      BY <1>1, <1>2, <2>1
<1>3. CASE Len(spool) = SpoolMax
  <2>1. SpoolAppended(item) = SubSeq(all, 2, Len(all))
      BY <1>1, <1>3 DEF SpoolAppended, NewestOf
  <2>2. SpoolAppended(item) = Tail(all)
      BY <1>1, <2>1, TailIsSubSeq
  <2>3. /\ Tail(all) \in Seq(Items) /\ Len(Tail(all)) = Len(spool)
        /\ \A i \in 1..Len(spool) : Tail(all)[i] = all[i + 1]
      BY <1>1, HeadTailProperties
  <2>4. item \in ToSet(Tail(all))
    <3>1. Len(spool) \in DOMAIN Tail(all) /\ Tail(all)[Len(spool)] = item
        BY <1>1, <1>3, <2>3
    <3>2. QED
        BY <3>1 DEF ToSet
  <2>5. ToSet(all) = {Head(all)} \cup ToSet(Tail(all))
      BY <1>1, SequenceHolds
  <2>6. Head(all) = Head(spool)
      BY <1>1, <1>3
  <2>7. QED
      BY <1>1, <1>3, <2>2, <2>3, <2>4, <2>5, <2>6
<1>4. QED
    BY <1>1, <1>2, <1>3

\* A single item is posted.
LEMMA PostingIsOne ==
    ASSUME ReporterTypes, posting # <<>>
    PROVE  posting[1] \in Items /\ ToSet(posting) = {posting[1]}
BY DEF ReporterTypes, QueueTypes, SpoolTypes, OtherTypes, ToSet

\* At the start nothing is under way.
LEMMA InitReporterInv == ReporterInit => ReporterInv
<1> SUFFICES ASSUME ReporterInit PROVE ReporterInv
    OBVIOUS
<1>1. NoTelemetry(<<>>) /\ <<>> \in Seq(Items) /\ Len(<<>>) = 0
    BY NoPassIsAPass, EmptySeq DEF NoPass
<1>2. ReporterTypes
    BY <1>1, NoPassIsAPass, ReporterAssumption DEF ReporterInit, ReporterTypes,
       QueueTypes, SpoolTypes, OtherTypes
<1>3. OneThread /\ PassAccounts /\ NothingVanishes
    BY NoPassIsAPass DEF ReporterInit, OneThread, PassAccounts, NothingVanishes
<1>4. QED
    BY <1>2, <1>3 DEF ReporterInv

\* What the tick loop queues, or finds no room for.
LEMMA QueueingKeeps == ReporterInv /\ (Report \/ Ping) => ReporterInv'
<1> SUFFICES ASSUME ReporterInv, Report \/ Ping PROVE ReporterInv'
    OBVIOUS
<1>1. ReporterTypes /\ OneThread /\ PassAccounts /\ NothingVanishes
    BY DEF ReporterInv
<1>2. CASE Ping
  <2> DEFINE items == <<[id |-> Telemetry, url |-> NewestUrl]>>
  <2>1. items \in Seq(Items)
      BY ReporterAssumption DEF Items, Telemetry
  <2>2. queue' = queue \o Queued(items)
      BY <1>2 DEF Ping
  <2> HIDE DEF items
  <2>3. queue' \in Seq(Items) /\ Len(queue') <= QueueMax /\ ToSet(queue) \subseteq ToSet(queue')
      BY <1>1, <2>1, <2>2, QueuedIsAPart DEF ReporterTypes, QueueTypes, SpoolTypes,
         OtherTypes
  <2>4. QED
      BY <1>1, <1>2, <2>3 DEF Ping, environment, receipts, ReporterInv, ReporterTypes,
         QueueTypes, SpoolTypes, OtherTypes, OneThread, PassAccounts, NothingVanishes
<1>3. CASE Report
  <2>1. PICK id \in 1..MaxReports, webhooks \in SUBSET Urls :
          LET items == SetToSeq({[id |-> id, url |-> u] : u \in webhooks}) IN
           /\ queue' = queue \o Queued(items)
           /\ sent' = sent \cup ToSet(items)
           /\ lost' = lost \cup (ToSet(items) \ ToSet(Queued(items)))
      BY <1>3 DEF Report
  <2> DEFINE items == SetToSeq({[id |-> id, url |-> u] : u \in webhooks})
  <2>2. items \in Seq(Items) /\ \A i \in ToSet(items) : i.id = id
    <3>1. id \in Nat
        OBVIOUS
    <3>2. QED
        BY <3>1, ReportIsASequence
  <2>3. /\ queue' = queue \o Queued(items)
        /\ sent' = sent \cup ToSet(items)
        /\ lost' = lost \cup (ToSet(items) \ ToSet(Queued(items)))
      BY <2>1
  <2> HIDE DEF items
  <2>4. /\ queue' \in Seq(Items) /\ Len(queue') <= QueueMax
        /\ ToSet(queue') = ToSet(queue) \cup ToSet(Queued(items))
      BY <1>1, <2>2, <2>3, QueuedIsAPart DEF ReporterTypes, QueueTypes, SpoolTypes,
         OtherTypes
  <2>5. sent' \in SUBSET Items /\ \A i \in sent' : i.id # Telemetry
      BY <1>1, <2>2, <2>3, SequenceHolds DEF ReporterTypes, QueueTypes, SpoolTypes,
         OtherTypes, Telemetry
  <2>6. QED
      BY <1>1, <1>3, <2>3, <2>4, <2>5 DEF Report, environment, receipts, ReporterInv,
         ReporterTypes, QueueTypes, SpoolTypes, OtherTypes, OneThread, PassAccounts,
         NothingVanishes
<1>4. QED
    BY <1>2, <1>3

\* The thread takes the oldest item of the queue.
LEMMA TakingKeeps == ReporterInv /\ Take => ReporterInv'
<1> SUFFICES ASSUME ReporterInv, Take PROVE ReporterInv'
    OBVIOUS
<1>1. ReporterTypes /\ OneThread /\ PassAccounts /\ NothingVanishes
    BY DEF ReporterInv
<1>2. /\ queue # <<>> /\ posting = <<>> /\ ~pass.running
      /\ posting' = <<Head(queue)>> /\ queue' = Tail(queue)
      /\ UNCHANGED <<spool, pass, environment, sent, receipts, lost>>
    BY DEF Take, WorkerIdle
<1>3. /\ ToSet(queue) = {Head(queue)} \cup ToSet(Tail(queue))
      /\ Head(queue) \in Items /\ Tail(queue) \in Seq(Items)
      /\ Len(Tail(queue)) <= QueueMax
  <2>1. queue \in Seq(Items) /\ Len(queue) \in Nat /\ Len(queue) <= QueueMax /\ QueueMax \in Nat
      BY <1>1, ReporterAssumption DEF ReporterTypes, QueueTypes, SpoolTypes, OtherTypes
  <2>2. Len(Tail(queue)) = Len(queue) - 1
      BY <1>2, <2>1, HeadTailProperties
  <2>3. QED
      BY <1>2, <2>1, <2>2, SequenceHolds
<1>4. /\ posting' \in Seq(Items) /\ Len(posting') = 1 /\ ToSet(posting') = {Head(queue)}
      /\ ToSet(posting) = {}
    BY <1>2, <1>3 DEF ToSet
<1>5. ReporterTypes'
  <2>1. QueueTypes'
      BY <1>2, <1>3, <1>4 DEF QueueTypes
  <2>2. SpoolTypes' /\ OtherTypes'
      BY <1>1, <1>2 DEF environment, ReporterTypes, SpoolTypes, OtherTypes
  <2>3. QED
      BY <2>1, <2>2 DEF ReporterTypes
<1>6. OneThread' /\ PassAccounts'
    BY <1>1, <1>2 DEF receipts, OneThread, PassAccounts
<1>7. NothingVanishes'
    BY <1>1, <1>2, <1>3, <1>4 DEF receipts, NothingVanishes
<1>8. QED
    BY <1>5, <1>6, <1>7 DEF ReporterInv

\* A delivery is taken, spooled or given up.
LEMMA DeliveryKeeps == ReporterInv /\ Deliver => ReporterInv'
<1> SUFFICES ASSUME ReporterInv, Deliver PROVE ReporterInv'
    OBVIOUS
<1> DEFINE item == posting[1]
           spools == WorthRetrying(item) /\ item.id # Telemetry /\ diskOk
           oldest == IF spools /\ Len(spool) = SpoolMax THEN {Head(spool)} ELSE {}
<1>1. ReporterTypes /\ OneThread /\ PassAccounts /\ NothingVanishes
    BY DEF ReporterInv
<1>2. /\ posting # <<>> /\ posting' = <<>>
      /\ Posted(item)
      /\ spool' = IF spools THEN SpoolAppended(item) ELSE spool
      /\ lost' = lost \cup oldest \cup (IF Accepted(item) \/ spools THEN {} ELSE {item})
      /\ pass' = PassBegins(spool') \/ pass' = pass
      /\ UNCHANGED <<queue, environment, sent>>
    BY DEF Deliver
<1>3. item \in Items /\ ToSet(posting) = {item} /\ pass = NoPass /\ ToSet(posting') = {}
  <2>1. pass = NoPass
      BY <1>1, <1>2 DEF OneThread
  <2>2. ToSet(posting') = {}
      BY <1>2, EmptySeq, SequenceHolds
  <2>3. QED
      BY <1>1, <1>2, <2>1, <2>2, PostingIsOne
<1> HIDE DEF item
<1>4. /\ spool' \in Seq(Items) /\ Len(spool') <= SpoolMax /\ NoTelemetry(spool')
      /\ ToSet(spool) \subseteq ToSet(spool') \cup oldest
      /\ spools => item \in ToSet(spool')
  <2>1. CASE spools
      BY <1>1, <1>2, <1>3, <2>1, SpoolTakes DEF ReporterTypes, QueueTypes, SpoolTypes,
         OtherTypes, NoTelemetry
  <2>2. CASE ~spools
      BY <1>1, <1>2, <2>2 DEF ReporterTypes, QueueTypes, SpoolTypes, OtherTypes
  <2>3. QED
      BY <2>1, <2>2
<1> HIDE DEF spools, oldest
<1>5. /\ pass' \in PassType /\ NoTelemetry(pass'.rest) /\ NoTelemetry(pass'.keep)
      /\ Len(pass'.rest) + Len(pass'.keep) <= SpoolMax
      /\ ~pass'.running => pass' = NoPass
      /\ pass'.read => pass'.rest = spool'
      /\ ~pass'.read => pass'.rest = <<>> /\ pass'.keep = <<>>
  <2>1. CASE pass' = pass
      BY <1>3, <2>1, NoPassIsAPass
  <2>2. CASE pass' = PassBegins(spool')
      BY <1>1, <1>4, <2>2, PassBeginning DEF ReporterTypes, QueueTypes, SpoolTypes,
         OtherTypes
  <2>3. QED
      BY <1>2, <2>1, <2>2
<1>6. got \subseteq got' /\ (Accepted(item) /\ item.id # Telemetry => item \in got')
    BY <1>2 DEF Posted, Accepted, Receives
<1>7. sent' \subseteq got' \cup lost' \cup ToSet(queue') \cup ToSet(posting') \cup ToSet(spool')
  <2>1. item \in sent => item \in got' \cup lost' \cup ToSet(spool')
      BY <1>1, <1>2, <1>4, <1>6 DEF ReporterTypes, QueueTypes, SpoolTypes, OtherTypes
  <2>2. QED
      BY <1>1, <1>2, <1>3, <1>4, <1>6, <2>1 DEF NothingVanishes
<1>8. ReporterTypes'
  <2>1. QueueTypes'
      BY <1>1, <1>2, EmptySeq DEF ReporterTypes, QueueTypes
  <2>2. SpoolTypes'
      BY <1>4, <1>5 DEF SpoolTypes
  <2>3. OtherTypes'
      BY <1>1, <1>2 DEF environment, ReporterTypes, OtherTypes
  <2>4. QED
      BY <2>1, <2>2, <2>3 DEF ReporterTypes
<1>9. OneThread' /\ PassAccounts'
    BY <1>2, <1>5 DEF OneThread, PassAccounts
<1>10. QED
    BY <1>7, <1>8, <1>9 DEF ReporterInv, NothingVanishes

\* The pass tries one line and keeps it, delivers it or gives it up.
LEMMA ResendingKeeps == ReporterInv /\ Resend => ReporterInv'
<1> SUFFICES ASSUME ReporterInv, Resend PROVE ReporterInv'
    OBVIOUS
<1> DEFINE item == Head(pass.rest)
<1>1. ReporterTypes /\ OneThread /\ PassAccounts /\ NothingVanishes
    BY DEF ReporterInv
<1>2. /\ pass.rest # <<>>
      /\ pass' = [pass EXCEPT
                       !.rest = Tail(@),
                       !.keep = IF Kept(item) THEN Append(@, item) ELSE @,
                       !.unreachable = IF Kept(item) THEN @ \cup {item.url} ELSE @,
                       !.progressed = @ \/ (~Skipped(item) /\ Accepted(item))]
      /\ IF Skipped(item) THEN UNCHANGED receipts ELSE Posted(item)
      /\ lost' = IF Skipped(item) \/ Accepted(item) \/ WorthRetrying(item)
                    THEN lost ELSE lost \cup {item}
      /\ UNCHANGED <<queue, posting, spool, known, schedule, environment, sent>>
    BY DEF Resend
<1>3. /\ pass \in PassType /\ pass.rest \in Seq(Items) /\ pass.keep \in Seq(Items)
      /\ pass.running = TRUE /\ pass.read = TRUE
      /\ pass.unreachable \in SUBSET Urls /\ pass.progressed \in BOOLEAN
    BY <1>1, <1>2, NoPassIsAPass DEF ReporterTypes, QueueTypes, SpoolTypes, OtherTypes,
       OneThread, PassType
<1>4. /\ item \in Items /\ Tail(pass.rest) \in Seq(Items)
      /\ ToSet(pass.rest) = {item} \cup ToSet(Tail(pass.rest))
      /\ Len(Tail(pass.rest)) = Len(pass.rest) - 1 /\ Len(pass.rest) \in Nat
      /\ Len(pass.keep) \in Nat
    BY <1>2, <1>3, SequenceHolds
<1> HIDE DEF item
<1> DEFINE keep == IF Kept(item) THEN Append(pass.keep, item) ELSE pass.keep
<1>5. /\ keep \in Seq(Items) /\ Len(keep) <= Len(pass.keep) + 1 /\ Len(keep) \in Nat
      /\ ToSet(keep) = ToSet(pass.keep) \cup (IF Kept(item) THEN {item} ELSE {})
    BY <1>3, <1>4, SequenceHolds
<1>6. /\ pass' \in PassType /\ pass'.running = TRUE /\ pass'.read = TRUE
      /\ pass'.rest = Tail(pass.rest) /\ pass'.keep = keep
  <2> DEFINE u == IF Kept(item) THEN pass.unreachable \cup {item.url} ELSE pass.unreachable
             g == pass.progressed \/ (~Skipped(item) /\ Accepted(item))
  <2>1. u \in SUBSET Urls /\ g \in BOOLEAN
      BY <1>3, <1>4 DEF Items
  <2>2. pass' = [pass EXCEPT !.rest = Tail(pass.rest), !.keep = keep, !.unreachable = u,
                             !.progressed = g]
      BY <1>2, <1>3
  <2> HIDE DEF u, g, keep
  <2>3. QED
      BY <1>3, <1>4, <1>5, <2>1, <2>2 DEF PassType
<1> HIDE DEF keep
<1>7. /\ NoTelemetry(pass'.rest) /\ NoTelemetry(pass'.keep) /\ item.id # Telemetry
      /\ Len(pass'.rest) + Len(pass'.keep) <= SpoolMax
  <2>1. NoTelemetry(Tail(pass.rest)) /\ item.id # Telemetry
      BY <1>1, <1>4 DEF ReporterTypes, QueueTypes, SpoolTypes, OtherTypes, NoTelemetry
  <2>2. NoTelemetry(keep)
      BY <1>1, <1>5, <2>1 DEF ReporterTypes, QueueTypes, SpoolTypes, OtherTypes, NoTelemetry
  <2>3. Len(Tail(pass.rest)) + Len(keep) <= SpoolMax
    <3>1. Len(pass.rest) + Len(pass.keep) <= SpoolMax /\ SpoolMax \in Nat
        BY <1>1, ReporterAssumption DEF ReporterTypes, SpoolTypes
    <3> DEFINE a == Len(pass.rest)
               b == Len(pass.keep)
               c == Len(Tail(pass.rest))
               d == Len(keep)
    <3>2. /\ a \in Nat /\ b \in Nat /\ d \in Nat /\ c = a - 1 /\ d <= b + 1
          /\ a + b <= SpoolMax
        BY <1>4, <1>5, <3>1
    <3> HIDE DEF a, b, c, d
    <3>3. c + d <= SpoolMax
        BY <3>1, <3>2
    <3>4. QED
        BY <3>3 DEF c, d
  <2>4. QED
      BY <1>6, <2>1, <2>2, <2>3
<1>8. got \subseteq got' /\ lost \subseteq lost' /\ item \in got' \cup lost' \cup ToSet(keep)
    BY <1>2, <1>5, <1>7 DEF Posted, Kept, Accepted, Receives, receipts
<1>9. PassAccounts'
    BY <1>1, <1>2, <1>3, <1>4, <1>5, <1>6, <1>8 DEF PassAccounts
<1>10. QED
    BY <1>1, <1>2, <1>3, <1>6, <1>7, <1>8, <1>9 DEF environment, ReporterInv,
       ReporterTypes, QueueTypes, SpoolTypes, OtherTypes, OneThread, NothingVanishes

\* A pass begins with the whole spool and ends with what it kept.
LEMMA PassesKeep == ReporterInv /\ (Timeout \/ PassEnds) => ReporterInv'
<1> SUFFICES ASSUME ReporterInv, Timeout \/ PassEnds PROVE ReporterInv'
    OBVIOUS
<1>1. ReporterTypes /\ OneThread /\ PassAccounts /\ NothingVanishes
    BY DEF ReporterInv
<1>2. CASE Timeout
  <2>1. /\ posting = <<>> /\ pass' = PassBegins(spool)
        /\ UNCHANGED <<queue, posting, spool, environment, sent, receipts, lost>>
      BY <1>2 DEF Timeout, WorkerIdle
  <2>2. /\ pass' \in PassType /\ pass'.running = TRUE
        /\ NoTelemetry(pass'.rest) /\ NoTelemetry(pass'.keep)
        /\ Len(pass'.rest) + Len(pass'.keep) <= SpoolMax
        /\ pass'.read => pass'.rest = spool
        /\ ~pass'.read => pass'.rest = <<>> /\ pass'.keep = <<>>
      BY <1>1, <2>1, PassBeginning DEF ReporterTypes, QueueTypes, SpoolTypes, OtherTypes
  <2>3. QED
      BY <1>1, <2>1, <2>2 DEF environment, receipts, ReporterInv, ReporterTypes,
         QueueTypes, SpoolTypes, OtherTypes, OneThread, PassAccounts, NothingVanishes
<1>3. CASE PassEnds
  <2>1. /\ pass.running /\ pass.rest = <<>> /\ spool' = Rewritten /\ pass' = NoPass
        /\ UNCHANGED <<queue, posting, environment, sent, receipts, lost>>
      BY <1>3 DEF PassEnds
  <2>2. /\ spool' \in Seq(Items) /\ Len(spool') <= SpoolMax /\ NoTelemetry(spool')
        /\ ToSet(spool) \subseteq got \cup lost \cup ToSet(spool')
    <3>1. CASE diskOk /\ pass.read
      <4>1. spool' = pass.keep /\ Len(pass.rest) = 0 /\ ToSet(pass.rest) = {}
          BY <2>1, <3>1 DEF Rewritten, ToSet
      <4>2. pass.keep \in Seq(Items)
          BY <1>1 DEF ReporterTypes, QueueTypes, SpoolTypes, OtherTypes, PassType
      <4>3. QED
          BY <1>1, <3>1, <4>1, <4>2 DEF ReporterTypes, QueueTypes, SpoolTypes,
             OtherTypes, PassAccounts
    <3>2. CASE ~(diskOk /\ pass.read)
        BY <1>1, <2>1, <3>2 DEF Rewritten, ReporterTypes, QueueTypes, SpoolTypes, OtherTypes
    <3>3. QED
        BY <3>1, <3>2
  <2>3. QED
      BY <1>1, <2>1, <2>2, NoPassIsAPass DEF environment, receipts, ReporterInv,
         ReporterTypes, QueueTypes, SpoolTypes, OtherTypes, OneThread, PassAccounts,
         NothingVanishes
<1>4. QED
    BY <1>2, <1>3

\* The world around the reporter; a crash gives up what was queued.
LEMMA WorldKeeps == ReporterInv /\ (RetryTimer \/ Environment) => ReporterInv'
<1> SUFFICES ASSUME ReporterInv, RetryTimer \/ Environment PROVE ReporterInv'
    OBVIOUS
<1>1. ReporterTypes /\ OneThread /\ PassAccounts /\ NothingVanishes
    BY DEF ReporterInv
<1>2. CASE NewProcess
  <2>1. /\ queue' = <<>> /\ posting' = <<>> /\ pass' = NoPass
        /\ lost' = lost \cup ((ToSet(queue) \cup ToSet(posting)) \cap sent)
        /\ breakdowns' = breakdowns + 1
        /\ UNCHANGED <<spool, diskOk, sent, receipts>>
      BY <1>2 DEF NewProcess
  <2>2. ReporterTypes'
      BY <1>1, <2>1, NoPassIsAPass, ReporterAssumption DEF ReporterTypes, QueueTypes,
         SpoolTypes, OtherTypes
  <2>3. OneThread' /\ PassAccounts'
      BY <2>1, NoPassIsAPass DEF OneThread, PassAccounts
  <2>4. NothingVanishes'
      BY <1>1, <2>1 DEF NothingVanishes, receipts
  <2>5. QED
      BY <2>2, <2>3, <2>4 DEF ReporterInv
<1>3. CASE RetryTimer \/ Outage \/ Recovery \/ DiskFails \/ DiskRecovers
  <2>1. /\ UNCHANGED <<queue, posting, spool, pass, sent, receipts, lost>>
        /\ diskOk' \in BOOLEAN /\ breakdowns' \in Nat
    <3>1. CASE RetryTimer
        BY <1>1, <3>1 DEF ReporterTypes, QueueTypes, SpoolTypes, OtherTypes, RetryTimer,
           environment
    <3>2. CASE Outage
        BY <1>1, <3>2 DEF ReporterTypes, QueueTypes, SpoolTypes, OtherTypes, Outage
    <3>3. CASE Recovery
        BY <1>1, <3>3 DEF ReporterTypes, QueueTypes, SpoolTypes, OtherTypes, Recovery
    <3>4. CASE DiskFails
      <4>1. breakdowns \in Nat
          BY <1>1 DEF ReporterTypes, OtherTypes
      <4>2. diskOk' \in BOOLEAN
          BY <3>4 DEF DiskFails
      <4>3. breakdowns' = breakdowns + 1
          BY <3>4 DEF DiskFails
      <4>4. breakdowns' \in Nat
          BY <4>1, <4>3
      <4>5. UNCHANGED <<queue, posting, spool, pass, sent, receipts, lost>>
          BY <3>4 DEF DiskFails
      <4>6. QED
          BY <4>2, <4>4, <4>5
    <3>5. CASE DiskRecovers
        BY <1>1, <3>5 DEF ReporterTypes, QueueTypes, SpoolTypes, OtherTypes, DiskRecovers
    <3>6. QED
        BY <1>3, <3>1, <3>2, <3>3, <3>4, <3>5
  <2>2. QED
      BY <1>1, <2>1 DEF ReporterInv, ReporterTypes, QueueTypes, SpoolTypes, OtherTypes,
         OneThread, PassAccounts, NothingVanishes, receipts
<1>4. QED
    BY <1>2, <1>3 DEF Environment

\* Every step of the threads and of the world keeps it.
LEMMA StepReporterInv == ReporterInv /\ [ReporterNext]_reporterVars => ReporterInv'
<1>1. ReporterInv /\ UNCHANGED reporterVars => ReporterInv'
    BY DEF reporterVars, environment, receipts, ReporterInv, ReporterTypes, QueueTypes,
       SpoolTypes, OtherTypes, OneThread, PassAccounts, NothingVanishes
<1>2. QED
    BY <1>1, QueueingKeeps, TakingKeeps, DeliveryKeeps, ResendingKeeps, PassesKeep,
       WorldKeeps DEF ReporterNext, Worker

\* Whatever subscribers answer, whenever the disk fails and processes end: a report
\* is under way, on disk, received, or given up for a reason the code accepts.
THEOREM NoReportVanishes == ReporterSpec => []NothingVanishes
<1>1. ReporterInv => NothingVanishes
    BY DEF ReporterInv
<1>2. QED
    BY <1>1, InitReporterInv, StepReporterInv, PTL DEF ReporterSpec

-----------------------------------------------------------------------------
(* Reporter: no answered report arrives twice, short of a breakdown.        *)

\* The reports in a sequence, without telemetry.
Reports(s) == {i \in ToSet(s) : i.id # Telemetry}

\* No report is in the sequence twice.
Distinct(s) == \A i, j \in DOMAIN s : s[i] = s[j] /\ s[i].id # Telemetry => i = j

\* What has still to be sent again: in a pass, what the pass still has to try
\* or will write back.
Waiting == IF pass.read THEN ToSet(pass.rest) \cup ToSet(pass.keep) ELSE ToSet(spool)

\* And each waits once.
WaitingIsDistinct ==
    IF pass.read
    THEN /\ Distinct(pass.rest) /\ Distinct(pass.keep)
         /\ ToSet(pass.rest) \cap ToSet(pass.keep) = {}
    ELSE Distinct(spool)

\* What a subscriber has received, and answered when it did.
Settled == got \ unanswered

\* A report is in one place at a time, and once there.
OnePlace ==
    /\ Reports(queue) \cup Reports(posting) \cup Waiting \cup Settled \subseteq sent
    /\ Reports(queue) \cap (Reports(posting) \cup Waiting \cup Settled) = {}
    /\ Reports(posting) \cap (Waiting \cup Settled) = {}
    /\ Waiting \cap Settled = {}

\* Before the first breakdown, that is.
OnceInv == breakdowns = 0 => /\ twice \subseteq unanswered /\ diskOk = TRUE
                             /\ OnePlace
                             /\ Distinct(queue) /\ WaitingIsDistinct

\* How the operations on a sequence keep what it holds distinct.
LEMMA DistinctTail ==
    ASSUME NEW s \in Seq(Items), s # <<>>, Distinct(s)
    PROVE  /\ Distinct(Tail(s))
           /\ Head(s).id # Telemetry => Head(s) \notin ToSet(Tail(s))
<1>1. /\ Len(s) \in Nat \ {0} /\ DOMAIN Tail(s) = 1..(Len(s) - 1) /\ Head(s) = s[1]
      /\ \A i \in 1..(Len(s) - 1) : Tail(s)[i] = s[i + 1]
      /\ DOMAIN s = 1..Len(s)
    BY HeadTailProperties
<1>2. \A i \in DOMAIN Tail(s) : i + 1 \in DOMAIN s /\ i + 1 # 1 /\ i \in Nat
    BY <1>1
<1>3. Distinct(Tail(s))
  <2> SUFFICES ASSUME NEW i \in DOMAIN Tail(s), NEW j \in DOMAIN Tail(s),
                      Tail(s)[i] = Tail(s)[j], Tail(s)[i].id # Telemetry
               PROVE  i = j
      BY DEF Distinct
  <2>1. s[i + 1] = s[j + 1] /\ s[i + 1].id # Telemetry
      BY <1>1
  <2>2. i + 1 = j + 1
      BY <1>2, <2>1 DEF Distinct
  <2>3. QED
      BY <1>2, <2>2
<1>4. ASSUME Head(s).id # Telemetry PROVE Head(s) \notin ToSet(Tail(s))
  <2> SUFFICES ASSUME NEW i \in DOMAIN Tail(s), Tail(s)[i] = Head(s) PROVE FALSE
      BY DEF ToSet
  <2>1. s[i + 1] = s[1] /\ s[1].id # Telemetry /\ 1 \in DOMAIN s
      BY <1>1, <1>4
  <2>2. 1 = i + 1
      BY <1>2, <2>1 DEF Distinct
  <2>3. QED
      BY <1>2, <2>2
<1>5. QED
    BY <1>3, <1>4

\* A sequence of distinct reports takes one it does not hold.
LEMMA DistinctAppend ==
    ASSUME NEW s \in Seq(Items), Distinct(s), NEW x \in Items, x \notin ToSet(s)
    PROVE  Distinct(Append(s, x))
<1>1. /\ Len(s) \in Nat /\ DOMAIN s = 1..Len(s)
      /\ DOMAIN Append(s, x) = 1..(Len(s) + 1)
      /\ \A i \in 1..Len(s) : Append(s, x)[i] = s[i]
      /\ Append(s, x)[Len(s) + 1] = x
    BY AppendProperties
<1> DEFINE a == Append(s, x)
<1>2. \A i \in 1..Len(s) : a[i] # x
    BY <1>1 DEF ToSet
<1>3. \A i \in DOMAIN a : i \in DOMAIN s \/ i = Len(s) + 1
    BY <1>1
<1> HIDE DEF a
<1> SUFFICES ASSUME NEW i \in DOMAIN a, NEW j \in DOMAIN a, a[i] = a[j], a[i].id # Telemetry
             PROVE  i = j
    BY DEF Distinct, a
<1>4. CASE i \in DOMAIN s /\ j \in DOMAIN s
    BY <1>1, <1>4 DEF Distinct, a
<1>5. CASE ~(i \in DOMAIN s /\ j \in DOMAIN s)
    BY <1>1, <1>2, <1>3, <1>5 DEF a
<1>6. QED
    BY <1>4, <1>5

\* Two of them that share no report can follow one another.
LEMMA DistinctConcat ==
    ASSUME NEW s \in Seq(Items), Distinct(s), NEW t \in Seq(Items), Distinct(t),
           Reports(s) \cap Reports(t) = {}
    PROVE  Distinct(s \o t)
<1> DEFINE a == s \o t
           n == Len(s)
<1>1. /\ n \in Nat /\ Len(t) \in Nat /\ DOMAIN s = 1..n /\ DOMAIN t = 1..Len(t)
      /\ DOMAIN a = 1..(n + Len(t))
      /\ \A i \in 1..n : a[i] = s[i]
      /\ \A i \in (n + 1)..(n + Len(t)) : a[i] = t[i - n] /\ i - n \in 1..Len(t)
    BY ConcatProperties
<1> HIDE DEF a, n
<1> SUFFICES ASSUME NEW i \in DOMAIN a, NEW j \in DOMAIN a, a[i] = a[j], a[i].id # Telemetry
             PROVE  i = j
    BY DEF Distinct, a
<1>2. \A k \in DOMAIN a : /\ k \in Int
                          /\ k \in 1..n \/ k \in (n + 1)..(n + Len(t))
    BY <1>1
<1>3. ASSUME NEW k \in 1..n, NEW l \in (n + 1)..(n + Len(t)), a[k] = a[l],
             a[k].id # Telemetry
      PROVE  FALSE
  <2>1. a[k] \in Reports(s) /\ a[l] \in Reports(t)
      BY <1>1, <1>3 DEF Reports, ToSet
  <2>2. QED
      BY <1>3, <2>1
<1>4. CASE i \in 1..n /\ j \in 1..n
    BY <1>1, <1>4 DEF Distinct
<1>5. CASE i \in (n + 1)..(n + Len(t)) /\ j \in (n + 1)..(n + Len(t))
  <2>1. t[i - n] = t[j - n] /\ t[i - n].id # Telemetry
        /\ i - n \in DOMAIN t /\ j - n \in DOMAIN t
      BY <1>1, <1>5
  <2>2. i - n = j - n
      BY <2>1 DEF Distinct
  <2>3. QED
      BY <1>1, <1>2, <2>2
<1>6. QED
    BY <1>2, <1>3, <1>4, <1>5

\* At the start there is no report.
LEMMA InitOnce == ReporterInit => OnceInv
<1> SUFFICES ASSUME ReporterInit PROVE OnceInv
    OBVIOUS
<1>1. /\ queue = <<>> /\ posting = <<>> /\ spool = <<>> /\ pass.read = FALSE
      /\ got = {} /\ twice = {} /\ unanswered = {} /\ diskOk = TRUE
    BY NoPassIsAPass DEF ReporterInit
<1>2. ToSet(<<>>) = {} /\ DOMAIN <<>> = {}
    BY DEF ToSet
<1>3. QED
    BY <1>1, <1>2 DEF OnceInv, OnePlace, Settled, receipts, Reports, Distinct, Waiting,
       WaitingIsDistinct

\* A report is new when it is queued, and a row of telemetry is not one.
LEMMA QueueingOnce == ReporterInv /\ OnceInv /\ (Report \/ Ping) => OnceInv'
<1> SUFFICES ASSUME ReporterInv, OnceInv, Report \/ Ping, breakdowns' = 0 PROVE OnceInv'
    BY DEF OnceInv
<1>1. /\ queue \in Seq(Items) /\ Len(queue) <= QueueMax
      /\ UNCHANGED <<posting, spool, pass, diskOk, receipts>> /\ breakdowns = 0
    BY DEF ReporterInv, ReporterTypes, QueueTypes, Report, Ping, environment, receipts
<1>2. twice \subseteq unanswered /\ diskOk = TRUE /\ OnePlace /\ Distinct(queue) /\ WaitingIsDistinct
    BY <1>1 DEF OnceInv
<1>3. PICK items : /\ items \in Seq(Items) /\ Distinct(items)
                   /\ queue' = queue \o Queued(items)
                   /\ Reports(items) \cap sent = {}
                   /\ sent' = sent \cup Reports(items)
  <2>1. CASE Ping
    <3> DEFINE items == <<[id |-> Telemetry, url |-> NewestUrl]>>
    <3>1. items \in Seq(Items) /\ \A i \in ToSet(items) : i.id = Telemetry
        BY ReporterAssumption DEF Items, Telemetry, ToSet
    <3>2. Reports(items) = {} /\ Distinct(items)
        BY <3>1 DEF Reports, Distinct, ToSet
    <3>3. queue' = queue \o Queued(items) /\ sent' = sent
        BY <2>1 DEF Ping
    <3> HIDE DEF items
    <3>4. QED
        BY <3>1, <3>2, <3>3
  <2>2. CASE Report
    <3>1. PICK id \in 1..MaxReports, webhooks \in SUBSET Urls :
            LET items == SetToSeq({[id |-> id, url |-> u] : u \in webhooks}) IN
             /\ {i.id : i \in sent} = 1..(id - 1)
             /\ queue' = queue \o Queued(items)
             /\ sent' = sent \cup ToSet(items)
        BY <2>2 DEF Report
    <3> DEFINE items == SetToSeq({[id |-> id, url |-> u] : u \in webhooks})
    <3>2. id \in Nat /\ id # 0
        OBVIOUS
    <3>3. /\ items \in Seq(Items) /\ \A i \in ToSet(items) : i.id = id
          /\ \A i, j \in DOMAIN items : items[i] = items[j] => i = j
        BY <3>2, ReportIsASequence
    <3>4. /\ {i.id : i \in sent} = 1..(id - 1)
          /\ queue' = queue \o Queued(items) /\ sent' = sent \cup ToSet(items)
        BY <3>1
    <3> HIDE DEF items
    <3>5. Reports(items) = ToSet(items) /\ Distinct(items)
        BY <3>2, <3>3 DEF Reports, Distinct, Telemetry
    <3>6. \A i \in sent : i.id \in 1..(id - 1)
        BY <3>4
    <3>7. id \notin 1..(id - 1)
        BY <3>2
    <3>8. Reports(items) \cap sent = {}
        BY <3>3, <3>5, <3>6, <3>7
    <3>9. QED
        BY <3>3, <3>4, <3>5, <3>8
  <2>3. QED
      BY <2>1, <2>2
<1>4. /\ Queued(items) \in Seq(Items)
      /\ ToSet(queue') = ToSet(queue) \cup ToSet(Queued(items))
      /\ ToSet(Queued(items)) \subseteq ToSet(items)
      /\ \A i \in DOMAIN Queued(items) : i \in DOMAIN items /\ Queued(items)[i] = items[i]
    BY <1>1, <1>3, QueuedIsAPart
<1>5. Distinct(Queued(items)) /\ Reports(Queued(items)) \subseteq Reports(items)
      /\ Reports(queue') = Reports(queue) \cup Reports(Queued(items))
    BY <1>3, <1>4 DEF Distinct, Reports
<1>6. Reports(queue) \cap Reports(Queued(items)) = {}
    BY <1>2, <1>3, <1>5 DEF OnePlace
<1>7. Distinct(queue')
    BY <1>1, <1>2, <1>3, <1>4, <1>5, <1>6, DistinctConcat
<1>8. Reports(posting)' = Reports(posting) /\ Waiting' = Waiting /\ WaitingIsDistinct'
    BY <1>1, <1>2 DEF Reports, Waiting, WaitingIsDistinct, Distinct
<1>9. OnePlace'
    BY <1>1, <1>2, <1>3, <1>5, <1>8 DEF OnePlace, Settled, receipts
<1>10. QED
    BY <1>1, <1>2, <1>7, <1>8, <1>9 DEF OnceInv, receipts

\* The report that the thread takes has left the queue.
LEMMA TakingOnce == ReporterInv /\ OnceInv /\ Take => OnceInv'
<1> SUFFICES ASSUME ReporterInv, OnceInv, Take, breakdowns' = 0 PROVE OnceInv'
    BY DEF OnceInv
<1>1. /\ queue # <<>> /\ posting = <<>>
      /\ posting' = <<Head(queue)>> /\ queue' = Tail(queue)
      /\ UNCHANGED <<spool, pass, diskOk, sent, receipts>> /\ breakdowns = 0
    BY DEF Take, WorkerIdle, environment, receipts
<1>2. twice \subseteq unanswered /\ diskOk = TRUE /\ OnePlace /\ Distinct(queue) /\ WaitingIsDistinct
    BY <1>1 DEF OnceInv
<1>3. /\ ToSet(queue) = {Head(queue)} \cup ToSet(queue')
      /\ ToSet(posting') = {Head(queue)}
      /\ Distinct(queue') /\ (Head(queue).id # Telemetry => Head(queue) \notin ToSet(queue'))
  <2>1. queue \in Seq(Items)
      BY DEF ReporterInv, ReporterTypes, QueueTypes
  <2>2. QED
      BY <1>1, <1>2, <2>1, SequenceHolds, DistinctTail
<1>4. /\ Reports(queue) = Reports(queue') \cup Reports(posting')
      /\ Reports(queue') \cap Reports(posting') = {}
    BY <1>3 DEF Reports
<1>5. Waiting' = Waiting /\ WaitingIsDistinct' /\ (Reports(posting))' = Reports(posting')
    BY <1>1, <1>2 DEF Reports, Waiting, WaitingIsDistinct, Distinct
<1>6. OnePlace'
    BY <1>1, <1>2, <1>4, <1>5 DEF OnePlace, Settled, receipts
<1>7. QED
    BY <1>1, <1>2, <1>3, <1>5, <1>6 DEF OnceInv, receipts

\* A pass reads the whole spool or nothing.
LEMMA PassReads ==
    ASSUME NEW lines \in Seq(Items), diskOk = TRUE, Len(lines) <= SpoolMax,
           NoTelemetry(lines), NEW p, p = PassBegins(lines)
    PROVE  \/ p.read = FALSE
           \/ p.read = TRUE /\ p.rest = lines /\ p.keep = <<>>
<1>1. /\ p \in PassType /\ p.rest = IF diskOk THEN lines ELSE <<>>
      /\ p.keep = <<>>
    BY PassBeginning
<1>2. p.read \in BOOLEAN
    BY <1>1 DEF PassType
<1>3. QED
    BY <1>1, <1>2

\* What is delivered has not been before, and what is spooled was not there.
LEMMA DeliveryOnce == ReporterInv /\ OnceInv /\ Deliver => OnceInv'
<1> SUFFICES ASSUME ReporterInv, OnceInv, Deliver, breakdowns' = 0 PROVE OnceInv'
    BY DEF OnceInv
<1> DEFINE item == posting[1]
           spools == WorthRetrying(item) /\ item.id # Telemetry
<1>1. /\ posting # <<>> /\ posting' = <<>> /\ Posted(item) /\ diskOk' = diskOk
      /\ spool' = IF spools /\ diskOk THEN SpoolAppended(item) ELSE spool
      /\ pass' = PassBegins(spool') \/ pass' = pass
      /\ UNCHANGED <<queue, sent>> /\ breakdowns = 0
    BY DEF Deliver, environment
<1>2. twice \subseteq unanswered /\ diskOk = TRUE /\ OnePlace /\ Distinct(queue) /\ WaitingIsDistinct
    BY <1>1 DEF OnceInv
<1>3. /\ item \in Items /\ ToSet(posting) = {item} /\ ToSet(posting') = {}
      /\ pass = NoPass /\ pass.read = FALSE
      /\ spool \in Seq(Items) /\ Len(spool) <= SpoolMax /\ NoTelemetry(spool)
  <2>1. ToSet(<<>>) = {}
      BY DEF ToSet
  <2>2. QED
      BY <1>1, <2>1, PostingIsOne, NoPassIsAPass DEF ReporterInv, ReporterTypes,
         SpoolTypes, OneThread
<1> HIDE DEF item
<1>4. /\ Waiting = ToSet(spool) /\ Distinct(spool)
      /\ Reports(posting) = IF item.id # Telemetry THEN {item} ELSE {}
      /\ Reports(posting') = {}
    BY <1>2, <1>3 DEF Waiting, WaitingIsDistinct, Reports
<1>5. spools => ~Accepted(item) /\ item \notin ToSet(spool)
    BY <1>2, <1>4 DEF WorthRetrying, Accepted, OnePlace
<1>6. /\ spool' \in Seq(Items) /\ Len(spool') <= SpoolMax /\ NoTelemetry(spool')
      /\ Distinct(spool')
      /\ ToSet(spool') \subseteq ToSet(spool) \cup (IF spools THEN {item} ELSE {})
  <2>1. CASE spools
    <3>1. Append(spool, item) \in Seq(Items) /\ Append(spool, item) # <<>>
        BY <1>3
    <3>2. Distinct(Append(spool, item))
        BY <1>3, <1>4, <1>5, <2>1, DistinctAppend
    <3>3. Distinct(Tail(Append(spool, item)))
        BY <3>1, <3>2, DistinctTail
    <3>4. QED
        BY <1>1, <1>2, <1>3, <2>1, <3>2, <3>3, SpoolTakes DEF NoTelemetry
  <2>2. CASE ~spools
      BY <1>1, <1>3, <1>4, <2>2
  <2>3. QED
      BY <2>1, <2>2
<1>7. /\ (pass' = pass) => pass'.read = FALSE
      /\ (pass' = PassBegins(spool')) =>
           \/ pass'.read = FALSE
           \/ pass'.read = TRUE /\ pass'.rest = spool' /\ pass'.keep = <<>>
  <2>1. CASE pass' = PassBegins(spool')
      BY <1>2, <1>3, <1>6, <2>1, PassReads
  <2>2. QED
      BY <1>3, <2>1
<1>8. Waiting' = ToSet(spool') /\ WaitingIsDistinct'
  <2>1. ToSet(<<>>) = {} /\ DOMAIN <<>> = {}
      BY DEF ToSet
  <2>2. CASE pass'.read = FALSE
      BY <1>6, <2>2 DEF Waiting, WaitingIsDistinct, Distinct
  <2>3. CASE pass'.read = TRUE /\ pass'.rest = spool' /\ pass'.keep = <<>>
      BY <1>6, <2>1, <2>3 DEF Waiting, WaitingIsDistinct, Distinct
  <2>4. QED
      BY <1>1, <1>7, <2>2, <2>3
<1> DEFINE receipt == IF Receives(item) /\ item.id # Telemetry THEN {item} ELSE {}
<1>9. /\ got' = got \cup receipt /\ twice' = twice \cup (got \cap receipt)
      /\ unanswered' = IF Accepted(item) THEN unanswered ELSE unanswered \cup receipt
    BY <1>1 DEF Posted
<1>10. /\ receipt \subseteq Reports(posting) /\ (spools => ~Accepted(item))
       /\ Settled' \subseteq Settled \cup (IF spools THEN {} ELSE Reports(posting))
    BY <1>4, <1>5, <1>9 DEF Settled
<1>11. twice' \subseteq unanswered'
    BY <1>2, <1>9, <1>10 DEF OnePlace, Settled
<1>12. ToSet(spool') \subseteq ToSet(spool) \cup (IF spools THEN Reports(posting) ELSE {})
    BY <1>4, <1>6
<1> HIDE DEF receipt, spools
<1>13. OnePlace'
  <2>1. Reports(queue)' = Reports(queue) /\ Reports(posting)' = {} /\ sent' = sent
      BY <1>1, <1>4 DEF Reports
  <2>2. QED
      BY <1>2, <1>4, <1>8, <1>9, <1>10, <1>12, <2>1 DEF OnePlace
<1>14. QED
    BY <1>1, <1>2, <1>8, <1>11, <1>13 DEF OnceInv, Distinct

\* A line of the spool is delivered once or kept; the pass tries it once.
LEMMA ResendingOnce == ReporterInv /\ OnceInv /\ Resend => OnceInv'
<1> SUFFICES ASSUME ReporterInv, OnceInv, Resend, breakdowns' = 0 PROVE OnceInv'
    BY DEF OnceInv
<1> DEFINE item == Head(pass.rest)
           keep == IF Kept(item) THEN Append(pass.keep, item) ELSE pass.keep
<1>1. /\ pass.rest # <<>>
      /\ pass' = [pass EXCEPT
                       !.rest = Tail(@),
                       !.keep = IF Kept(item) THEN Append(@, item) ELSE @,
                       !.unreachable = IF Kept(item) THEN @ \cup {item.url} ELSE @,
                       !.progressed = @ \/ (~Skipped(item) /\ Accepted(item))]
      /\ IF Skipped(item) THEN UNCHANGED receipts ELSE Posted(item)
      /\ UNCHANGED <<queue, posting, spool, diskOk, sent>> /\ breakdowns = 0
    BY DEF Resend, environment
<1>2. twice \subseteq unanswered /\ diskOk = TRUE /\ OnePlace /\ Distinct(queue) /\ WaitingIsDistinct
    BY <1>1 DEF OnceInv
<1>3. /\ pass \in PassType /\ pass.rest \in Seq(Items) /\ pass.keep \in Seq(Items)
      /\ pass.read = TRUE /\ NoTelemetry(pass.rest)
    BY <1>1, NoPassIsAPass DEF ReporterInv, ReporterTypes, SpoolTypes, OneThread, PassType
<1>4. pass'.rest = Tail(pass.rest) /\ pass'.keep = keep /\ pass'.read = TRUE
    BY <1>1, <1>3 DEF PassType
<1>5. /\ item \in Items /\ ToSet(pass.rest) = {item} \cup ToSet(Tail(pass.rest))
      /\ item.id # Telemetry
    BY <1>1, <1>3, SequenceHolds DEF NoTelemetry
<1>6. /\ Waiting = ToSet(pass.rest) \cup ToSet(pass.keep)
      /\ Distinct(pass.rest) /\ Distinct(pass.keep)
      /\ ToSet(pass.rest) \cap ToSet(pass.keep) = {}
    BY <1>2, <1>3 DEF Waiting, WaitingIsDistinct
<1>7. Distinct(Tail(pass.rest)) /\ item \notin ToSet(Tail(pass.rest))
    BY <1>1, <1>3, <1>5, <1>6, DistinctTail
<1> HIDE DEF item
<1>8. /\ Distinct(keep)
      /\ ToSet(keep) = ToSet(pass.keep) \cup (IF Kept(item) THEN {item} ELSE {})
    BY <1>3, <1>5, <1>6, DistinctAppend, SequenceHolds
<1> HIDE DEF keep
<1>9. /\ Waiting' = ToSet(Tail(pass.rest)) \cup ToSet(keep) /\ WaitingIsDistinct'
  <2>1. ToSet(Tail(pass.rest)) \cap ToSet(keep) = {}
      BY <1>5, <1>6, <1>7, <1>8
  <2>2. QED
      BY <1>4, <1>7, <1>8, <2>1 DEF Waiting, WaitingIsDistinct, Distinct
<1> DEFINE receipt == IF ~Skipped(item) /\ Receives(item) THEN {item} ELSE {}
<1>10. /\ got' = got \cup receipt /\ twice' = twice \cup (got \cap receipt)
       /\ unanswered' = IF Accepted(item) \/ Skipped(item) THEN unanswered
                        ELSE unanswered \cup receipt
    BY <1>1, <1>5 DEF Posted, receipts
<1>11. receipt \subseteq Waiting /\ Waiting' \subseteq Waiting
    BY <1>5, <1>6, <1>7, <1>8, <1>9
<1>12. /\ Settled' \subseteq Settled \cup Waiting /\ Settled' \cap Waiting' \subseteq Settled
  <2>1. Kept(item) => Settled' \subseteq Settled
      BY <1>10 DEF Settled, Kept, WorthRetrying, Accepted
  <2>2. ~Kept(item) => item \notin Waiting'
      BY <1>5, <1>6, <1>7, <1>8, <1>9
  <2>3. Settled' \subseteq Settled \cup {item} /\ item \in Waiting
      BY <1>5, <1>6, <1>10 DEF Settled
  <2>4. QED
      BY <2>1, <2>2, <2>3
<1> HIDE DEF receipt
<1>13. twice' \subseteq unanswered'
    BY <1>2, <1>10, <1>11 DEF OnePlace, Settled
<1>14. OnePlace'
  <2>1. Reports(queue)' = Reports(queue) /\ Reports(posting)' = Reports(posting) /\ sent' = sent
      BY <1>1 DEF Reports
  <2>2. QED
      BY <1>2, <1>11, <1>12, <2>1 DEF OnePlace
<1>15. QED
    BY <1>1, <1>2, <1>9, <1>13, <1>14 DEF OnceInv, Distinct

\* A pass waits for what the spool holds, and writes back what still waits.
LEMMA PassesOnce == ReporterInv /\ OnceInv /\ (Timeout \/ PassEnds) => OnceInv'
<1> SUFFICES ASSUME ReporterInv, OnceInv, Timeout \/ PassEnds, breakdowns' = 0 PROVE OnceInv'
    BY DEF OnceInv
<1>1. UNCHANGED <<queue, posting, diskOk, sent, receipts>> /\ breakdowns = 0
    BY DEF Timeout, PassEnds, environment, receipts
<1>2. twice \subseteq unanswered /\ diskOk = TRUE /\ OnePlace /\ Distinct(queue) /\ WaitingIsDistinct
    BY <1>1 DEF OnceInv
<1>3. ToSet(<<>>) = {} /\ DOMAIN <<>> = {}
    BY DEF ToSet
<1>4. Waiting' = Waiting /\ WaitingIsDistinct'
  <2>1. CASE Timeout
    <3>1. /\ pass' = PassBegins(spool) /\ spool' = spool /\ pass.read = FALSE
          /\ spool \in Seq(Items) /\ Len(spool) <= SpoolMax /\ NoTelemetry(spool)
        BY <2>1, NoPassIsAPass
           DEF Timeout, WorkerIdle, ReporterInv, ReporterTypes, SpoolTypes, OneThread
    <3>2. \/ pass'.read = FALSE
          \/ pass'.read = TRUE /\ pass'.rest = spool /\ pass'.keep = <<>>
        BY <1>2, <3>1, PassReads
    <3>3. Waiting = ToSet(spool) /\ Distinct(spool)
        BY <1>2, <3>1 DEF Waiting, WaitingIsDistinct
    <3>4. CASE pass'.read = FALSE
        BY <3>1, <3>3, <3>4 DEF Waiting, WaitingIsDistinct, Distinct
    <3>5. CASE pass'.read = TRUE /\ pass'.rest = spool /\ pass'.keep = <<>>
      <4>1. Distinct(<<>>)
          BY <1>3 DEF Distinct
      <4>2. Waiting' = Waiting
          BY <1>3, <3>1, <3>3, <3>5 DEF Waiting
      <4>3. /\ Distinct(pass'.rest) /\ Distinct(pass'.keep)
            /\ ToSet(pass'.rest) \cap ToSet(pass'.keep) = {}
          BY <1>3, <3>3, <3>5, <4>1
      <4>4. WaitingIsDistinct'
          BY <3>5, <4>3 DEF WaitingIsDistinct, Distinct
      <4>5. QED
          BY <4>2, <4>4
    <3>6. QED
        BY <3>2, <3>4, <3>5
  <2>2. CASE PassEnds
    <3>1. /\ pass.rest = <<>> /\ pass'.read = FALSE /\ pass.read \in BOOLEAN
          /\ spool' = IF pass.read THEN pass.keep ELSE spool
        BY <1>2, <2>2, NoPassIsAPass
           DEF PassEnds, Rewritten, ReporterInv, ReporterTypes, SpoolTypes, PassType
    <3>2. CASE pass.read = TRUE
        BY <1>2, <1>3, <3>1, <3>2 DEF Waiting, WaitingIsDistinct, Distinct
    <3>3. CASE pass.read = FALSE
        BY <1>2, <3>1, <3>3 DEF Waiting, WaitingIsDistinct, Distinct
    <3>4. QED
        BY <3>1, <3>2, <3>3
  <2>3. QED
      BY <2>1, <2>2
<1>5. Reports(queue)' = Reports(queue) /\ Reports(posting)' = Reports(posting)
    BY <1>1 DEF Reports
<1>6. OnePlace'
    BY <1>1, <1>2, <1>4, <1>5 DEF OnePlace, Settled, receipts
<1>7. QED
    BY <1>1, <1>2, <1>4, <1>6 DEF OnceInv, Distinct, receipts

\* Short of a breakdown the world moves no report.
LEMMA WorldOnce == ReporterInv /\ OnceInv /\ (RetryTimer \/ Environment) => OnceInv'
<1> SUFFICES ASSUME ReporterInv, OnceInv, RetryTimer \/ Environment, breakdowns' = 0
             PROVE  OnceInv'
    BY DEF OnceInv
<1>1. breakdowns \in Nat
    BY DEF ReporterInv, ReporterTypes, OtherTypes
<1>2. breakdowns' # breakdowns + 1
    BY <1>1
<1>3. ~NewProcess /\ ~DiskFails
    BY <1>2 DEF NewProcess, DiskFails
<1>4. breakdowns = 0
    BY <1>3 DEF Environment, RetryTimer, Outage, Recovery, DiskRecovers, environment
<1>5. twice \subseteq unanswered /\ diskOk = TRUE /\ OnePlace /\ Distinct(queue) /\ WaitingIsDistinct
    BY <1>4 DEF OnceInv
<1>6. UNCHANGED <<queue, posting, spool, pass, diskOk, sent, receipts>>
  <2>1. CASE RetryTimer
      BY <2>1 DEF RetryTimer, environment, receipts
  <2>2. CASE Outage
      BY <2>2 DEF Outage, receipts
  <2>3. CASE Recovery
      BY <2>3 DEF Recovery, receipts
  <2>4. CASE DiskRecovers
      BY <1>5, <2>4 DEF DiskRecovers
  <2>5. QED
      BY <1>3, <2>1, <2>2, <2>3, <2>4 DEF Environment
<1>7. QED
    BY <1>5, <1>6 DEF OnceInv, OnePlace, Settled, receipts, Reports, Distinct, Waiting,
       WaitingIsDistinct

\* Every step keeps reports in one place, until something breaks down.
LEMMA StepOnce == ReporterInv /\ OnceInv /\ [ReporterNext]_reporterVars => OnceInv'
<1>1. OnceInv /\ UNCHANGED reporterVars => OnceInv'
    BY DEF reporterVars, environment, receipts, OnceInv, OnePlace, Settled, Reports, Distinct,
       Waiting, WaitingIsDistinct
<1>2. QED
    BY <1>1, QueueingOnce, TakingOnce, DeliveryOnce, ResendingOnce, PassesOnce, WorldOnce
       DEF ReporterNext, Worker

\* For any webhooks, answers and pauses: short of a crash or a failing disk, no
\* subscriber receives a report twice that it answered, however often the spool
\* is sent again.
THEOREM ReportsArriveOnce == ReporterSpec => []DeliveredOnce
<1>1. breakdowns \in Nat /\ OnceInv => DeliveredOnce
    BY DEF OnceInv, DeliveredOnce
<1>2. ReporterInv /\ OnceInv => DeliveredOnce
    BY <1>1 DEF ReporterInv, ReporterTypes, OtherTypes
<1>3. QED
    BY <1>2, InitReporterInv, StepReporterInv, InitOnce, StepOnce, PTL DEF ReporterSpec
=============================================================================
