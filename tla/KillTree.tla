------------------------------ MODULE KillTree ------------------------------
(***************************************************************************)
(* The kill actions of the actuator (src/atfield/actuator.py): a rule's kill *)
(* and the RSS cap's kill, from the reading of the client manifests to the  *)
(* last process killed, and the escalation to a protected owner whose pool  *)
(* keeps respawning what is killed.  Between any two steps the machine      *)
(* moves on: processes exit, are respawned, register, or have their pid     *)
(* recycled by a stranger.                                                  *)
(***************************************************************************)
EXTENDS ProcessTable

CONSTANTS
    Start,             \* Start[p]: what runs as p when it runs
    Running,           \* the processes alive at the start
    Strangers,         \* what may run under a recycled pid
    OwnPid,            \* the watchdog itself
    AskAfter,          \* _ESCALATE_ASK_AFTER
    KillAfter,         \* _ESCALATE_KILL_AFTER
    MaxRecycled        \* bound: recycled pids

ASSUME EscalationAssumption ==
    /\ OwnPid \in Pids
    /\ AskAfter \in Nat \ {0}
    /\ KillAfter \in Nat /\ AskAfter < KillAfter
    /\ MaxRecycled \in Nat

\* name: killable_names, launcher_names, never_kill_names or neither.
\* shield: the manifest's claim, or a never_kill_cmdline_pattern.
ProcessType ==
    [parent : Pids \cup {NoPid}, name : {"killable", "launcher", "never", "other"},
     shield : {"none", "role", "never_kill", "pattern"}, canStop : BOOLEAN]

\* A process starts after its parent, which runs at that time.
ASSUME MachineAssumption ==
    /\ Start \in [Pids -> ProcessType] /\ Strangers \subseteq ProcessType
    /\ Running \subseteq Pids
    /\ \A p \in Running : Start[p].parent \in Running \cup {NoPid}
    /\ \E order \in [Pids -> 0..Cardinality(Pids)] : \A p \in Running :
         Start[p].parent # NoPid => order[Start[p].parent] < order[p]

VARIABLES
    proc,              \* proc[p]: what runs, or ran last, as p
    inspected,         \* proc as it was when the owner was looked up
    alive,             \* the living processes
    pc,                \* where the kill action is
    kind,              \* "rule" or "cap": who asked for the kill
    shielded,          \* the _protected_pids() of this action
    clients,           \* _clients_by_pid: the shield each manifest claimed
    root,              \* the kill root of this action
    owner,             \* its parent, looked up before the kill
    targets,           \* the processes chosen to die
    futile,            \* _futile_kills: count per owner
    stale,             \* owners whose last futile kill left the window
    asked,             \* _stop_requested
    recycled,          \* pids that were recycled since the targets were chosen
    recycles,          \* recycled pids so far
    blamed,            \* history: the offender this action started from
    victims,           \* history: what the kill, then its escalation, took
    unyielding,        \* history: an owner that outlived its escalation
    polite             \* history: owners asked to stop since the last quiet spell

machineVars == <<proc, alive, recycled, recycles>>

actionVars == <<pc, kind, shielded, clients, blamed, root, owner, targets, inspected>>

escalationVars == <<futile, stale, asked, polite>>

reportVars == <<victims, unyielding>>

killVars == <<machineVars, actionVars, escalationVars, reportVars>>

VictimType == [pid : Pids, was : ProcessType, how : {"rule", "cap", "owner"},
               stranger : BOOLEAN]

KillTypes ==
    /\ proc \in [Pids -> ProcessType]
    /\ inspected \in [Pids -> ProcessType]
    /\ alive \subseteq Pids
    /\ pc \in {"idle", "choosing", "terminating", "killing", "grace", "escalating"}
    /\ kind \in {"rule", "cap"}
    /\ shielded \subseteq Pids
    /\ clients \in [Pids -> {"none", "role", "never_kill"}]
    /\ blamed \in Pids \cup {NoPid}
    /\ root \in Pids \cup {NoPid}
    /\ owner \in Pids \cup {NoPid}
    /\ targets \subseteq Pids
    /\ futile \in [Pids -> 0..KillAfter]
    /\ stale \subseteq Pids
    /\ asked \subseteq Pids
    /\ recycled \subseteq Pids
    /\ recycles \in 0..MaxRecycled
    /\ victims \subseteq VictimType
    /\ unyielding \subseteq Pids
    /\ polite \subseteq Pids

KillInit ==
    /\ proc = Start
    /\ inspected = Start
    /\ alive = Running
    /\ pc = "idle"
    /\ kind = "rule"
    /\ shielded = {}
    /\ clients = [p \in Pids |-> "none"]
    /\ blamed = NoPid
    /\ root = NoPid
    /\ owner = NoPid
    /\ targets = {}
    /\ futile = [p \in Pids |-> 0]
    /\ stale = {}
    /\ asked = {}
    /\ recycled = {}
    /\ recycles = 0
    /\ victims = {}
    /\ unyielding = {}
    /\ polite = {}
-----------------------------------------------------------------------------
(* The table as psutil shows it.                                           *)

Parent == [p \in Pids |-> IF p \in alive /\ proc[p].parent \in alive
                          THEN proc[p].parent ELSE NoPid]

Keepers == {p \in alive : proc[p].name \in {"killable", "launcher"}}

LivingSubtree(p) == {q \in Subtree(p, Parent) : q \in alive}

\* The table without the dead: what they leave behind has no parent.
Die(dead) ==
    /\ alive' = alive \ dead
    /\ proc' = [p \in Pids |-> IF proc[p].parent \in dead
                               THEN [proc[p] EXCEPT !.parent = NoPid] ELSE proc[p]]

IsKillable(p, info) ==
    /\ p # OwnPid
    /\ info.name # "never"
    /\ info.shield # "pattern"

\* What the manifest of a living process claims; a pattern is no manifest.
Manifest(p) == IF p \in alive /\ proc[p].shield # "pattern" THEN proc[p].shield ELSE "none"

Eligible(p) ==
    /\ p \in alive
    /\ proc[p].name = "killable"
    /\ p # OwnPid
    /\ p \notin shielded
    /\ proc[p].shield # "pattern"

FaultyJobRoot_IgnoresProtection(p) == KillRootOf(p, Parent, Keepers, {})

\* find_kill_root(), see KillRoot.
JobRoot(p) == KillRootOf(p, Parent, Keepers, shielded)

FaultyTargetsOf_RootOnlyChecked(p) == {q \in LivingSubtree(p) : IsKillable(q, proc[q])}

\* Root and descendants, minus never_kill names and protected processes.
TargetsOf(p) == {q \in LivingSubtree(p) : IsKillable(q, proc[q]) /\ q \notin shielded}
-----------------------------------------------------------------------------
(* One kill action of the service thread.                                  *)

\* _protected_pids(): manifests of living processes, and the patterns.
BeginKill(k) ==
    /\ pc = "idle"
    /\ pc' = "choosing"
    /\ kind' = k
    /\ clients' = [p \in Pids |-> Manifest(p)]
    /\ shielded' = {p \in alive : proc[p].shield # "none"}
    /\ victims' = {} /\ unyielding' = {}
    /\ UNCHANGED <<machineVars, escalationVars, blamed, root, owner, targets,
                   inspected>>

\* execute(): offender, kill root, owner and targets, all before any kill.
\* The RSS cap takes its offender as the root and grants no grace.
Choose(offender) ==
    LET top == IF kind = "cap" THEN offender ELSE JobRoot(offender)
    IN  /\ pc = "choosing"
        /\ Eligible(offender)
        /\ blamed' = offender
        /\ root' = top
        /\ owner' = IF top = NoPid THEN NoPid ELSE Parent[top]
        /\ targets' = IF top = NoPid THEN {} ELSE TargetsOf(top)
        /\ inspected' = proc
        /\ recycled' = {}
        /\ victims' = {} /\ unyielding' = {}
        /\ pc' \in IF targets' = {} THEN {"idle"}
                   ELSE IF kind = "cap" THEN {"killing"}
                   ELSE {"terminating", "killing"}
        /\ UNCHANGED <<proc, alive, recycles, kind, shielded, clients,
                       escalationVars>>

\* Nothing is eligible, or over the cap; the load has no identified source.
Skip ==
    /\ pc = "choosing"
    /\ pc' = "idle"
    /\ UNCHANGED <<machineVars, escalationVars, kind, shielded, clients, blamed,
                   root, owner, targets, inspected, reportVars>>

Victims(dying, how) ==
    {[pid |-> p, was |-> proc[p], how |-> how, stranger |-> p \in recycled] : p \in dying}

\* terminate() each target, by pid: some of them close in the grace period.
Terminate ==
    /\ pc = "terminating"
    /\ \E dying \in SUBSET (targets \cap alive) :
         /\ Die(dying)
         /\ victims' = Victims(dying, kind)
    /\ pc' = "grace"
    /\ UNCHANGED <<recycled, recycles, kind, shielded, clients, blamed, root,
                   owner, targets, inspected, escalationVars, unyielding>>

\* kill() each target that is_alive() after the grace period, or all of them
\* at once in an immediate kill: by pid again.  The system may refuse any of
\* them: an AccessDenied is swallowed, a survivor only reported.
ForceKill ==
    /\ pc \in {"grace", "killing"}
    /\ \E dying \in SUBSET (targets \cap alive) :
         /\ Die(dying)
         /\ victims' = victims \cup Victims(dying, kind)
    /\ pc' = "escalating"
    /\ UNCHANGED <<recycled, recycles, kind, shielded, clients, blamed, root,
                   owner, targets, inspected, escalationVars, unyielding>>
-----------------------------------------------------------------------------
(* _escalate().                                                            *)

SpareAll ==
    /\ victims' = {} /\ unyielding' = {}
    /\ UNCHANGED <<proc, alive>>

FaultyFutileCount_NoWindow == futile[owner] + 1

\* This kill included; a count from before a quiet spell is forgotten.
FutileCount == IF owner \in stale THEN 1 ELSE futile[owner] + 1

Capped(n) == IF n > KillAfter THEN KillAfter ELSE n

\* The root's owner was not spared: forget what is known of the root.
NoOwner ==
    /\ owner = NoPid \/ owner \notin shielded
    /\ futile' = [futile EXCEPT ![root] = 0]
    /\ SpareAll
    /\ UNCHANGED <<asked, stale, polite>>

FaultyIsAbsolute_Always == TRUE

\* is_absolute_protection() of the owner's client.
IsAbsolute == clients[owner] = "never_kill"

\* Too few futile kills to do anything, the owner was asked before or offers
\* no channel, or its refusal is absolute: count, and no more.
CountOnly ==
    /\ \/ FutileCount < AskAfter
       \/ FutileCount \in AskAfter..(KillAfter - 1)
            /\ (clients[owner] = "none" \/ owner \in asked \ stale
                  \/ ~inspected[owner].canStop)
       \/ FutileCount >= KillAfter /\ IsAbsolute
    /\ futile' = [futile EXCEPT ![owner] = Capped(FutileCount)]
    /\ asked' = asked \ (stale \cap {owner})
    /\ SpareAll
    /\ UNCHANGED polite

\* request_stop(): a stop file beside the owner's manifest, if it can be written.
AskOwner ==
    /\ FutileCount \in AskAfter..(KillAfter - 1)
    /\ clients[owner] # "none" /\ inspected[owner].canStop
    /\ owner \notin asked \ stale
    /\ futile' = [futile EXCEPT ![owner] = FutileCount]
    /\ asked' \in {asked \cup {owner}, asked \ {owner}}
    /\ polite' = polite \cup {owner}
    /\ SpareAll

\* The owner and everything below it, protected or not.
OwnerTargets ==
    {q \in LivingSubtree(owner) \cup {owner} :
        IsKillable(q, IF q = owner THEN inspected[q] ELSE proc[q])}

\* The count starts over, also for an owner that survived.
KillOwner ==
    /\ FutileCount >= KillAfter
    /\ ~IsAbsolute
    /\ \E dying \in SUBSET (OwnerTargets \cap alive) :
         /\ Die(dying)
         /\ victims' = Victims(dying, "owner")
         /\ unyielding' = (alive \cap {owner}) \ dying
    /\ futile' = [futile EXCEPT ![owner] = 0]
    /\ asked' = asked \ {owner}
    /\ polite' = polite \ {owner}

\* The RSS cap goes on to its next offender with the protection it read once.
Escalate ==
    /\ pc = "escalating"
    /\ pc' \in IF kind = "cap" THEN {"choosing", "idle"} ELSE {"idle"}
    /\ \/ NoOwner
       \/ /\ owner # NoPid /\ owner \in shielded
          /\ CountOnly \/ AskOwner \/ KillOwner
          /\ stale' = stale \ {owner}
    /\ UNCHANGED <<recycled, recycles, kind, shielded, clients, blamed,
                   root, owner, targets, inspected>>
-----------------------------------------------------------------------------
(* The machine.                                                            *)

\* A supervisor starts a worker again, never under a pid being killed.
Respawn(p) ==
    /\ p \notin alive
    /\ pc = "idle" \/ p \notin targets
    /\ Start[p].parent \in alive /\ proc[Start[p].parent] = Start[Start[p].parent]
    /\ alive' = alive \cup {p}
    /\ proc' = [proc EXCEPT ![p] = Start[p]]
    /\ UNCHANGED <<recycled, recycles, actionVars, escalationVars, reportVars>>

\* A process ends by itself: a worker is done, an owner honours its stop file.
ProcessExits(p) ==
    /\ p \in alive \ {OwnPid}
    /\ Die({p})
    /\ UNCHANGED <<recycled, recycles, actionVars, escalationVars, reportVars>>

\* The system gives a dead process's pid to a stranger.
Recycle(p) ==
    /\ p \notin alive
    /\ recycles < MaxRecycled
    /\ \E stranger \in Strangers :
         /\ stranger.parent \in alive \cup {NoPid}
         /\ proc' = [proc EXCEPT ![p] = stranger]
    /\ alive' = alive \cup {p}
    /\ recycled' = recycled \cup {p}
    /\ recycles' = recycles + 1
    /\ UNCHANGED <<actionVars, escalationVars, reportVars>>

\* No kill for longer than the futility window below a p that was counted or asked.
LongCalm(p) ==
    /\ pc = "idle"
    /\ futile[p] > 0 \/ p \in asked \cup polite
    /\ stale' = stale \cup {p}
    /\ polite' = polite \ {p}
    /\ UNCHANGED <<machineVars, actionVars, futile, asked, reportVars>>

KillStep ==
    \/ Skip
    \/ Terminate
    \/ ForceKill
    \/ Escalate
    \/ \E p \in Pids : Choose(p)

KillNext ==
    \/ \E k \in {"rule", "cap"} : BeginKill(k)
    \/ KillStep
    \/ \E p \in Pids : Respawn(p) \/ ProcessExits(p) \/ Recycle(p) \/ LongCalm(p)

KillSpec == KillInit /\ [][KillNext]_killVars

\* A kill action that has begun runs to its end: it is one call.
KillFairSpec == KillSpec /\ WF_killVars(KillStep)
-----------------------------------------------------------------------------
\* What a rule or the cap killed, as opposed to the escalation.
KilledTree == {v \in victims : v.how # "owner"}

\* A rule's or the cap's kill takes no process that was protected when the
\* action began, whatever exits and respawns while it runs.
ProtectedSpared ==
    \A v \in KilledTree : ~v.stranger => v.pid \notin shielded

\* The protected processes above the offender when the targets were chosen.
OwnersAbove ==
    {o \in shielded \ {blamed} :
        blamed \in Subtree(o, [p \in Pids |-> inspected[p].parent])}

\* A kill sheds one job: of the children of the protected owners above the
\* offender it takes one, and the siblings live on.
SiblingsSpared ==
    \A v \in KilledTree, w \in KilledTree :
        /\ ~v.stranger /\ inspected[v.pid].parent \in OwnersAbove
        /\ ~w.stranger /\ inspected[w.pid].parent \in OwnersAbove
        => v.pid = w.pid

\* "atfield_never_kill: true is the client's own hard refusal and is never
\* overridden": no kill takes a client whose refusal it has read.
NeverKillHonoured ==
    \A v \in victims : ~v.stranger => clients[v.pid] # "never_kill"

\* An owner that offers a stop channel is killed only after it was asked to
\* stop, or the asking failed, within the same spell of futile kills.
AskedBeforeKilled ==
    [][\A v \in victims' \ victims :
         v.how = "owner" /\ v.pid = owner /\ v.was.shield = "role" /\ v.was.canStop
           => owner \in polite]_killVars

\* The treadmill ends: if the workers of supervisors that may be overridden are
\* killed and respawned for ever, then a supervisor goes, again and again, or the
\* system refuses its kill again and again, or quiet spells keep forgetting the count.
TreadmillEnds ==
    LET Supervisors == {p \in Pids : Start[p].shield = "role"}
    IN  []<>(pc = "escalating" /\ owner \in Supervisors)
          => \/ []<>(\E p \in Supervisors : p \notin alive)
             \/ []<>(Supervisors \cap unyielding # {})
             \/ []<>(Supervisors \cap stale # {})
=============================================================================
