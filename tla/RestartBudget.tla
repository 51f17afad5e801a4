--------------------------- MODULE RestartBudget ---------------------------
(***************************************************************************)
(* The self-restart of src/atfield/service.py: a collector that cannot mend *)
(* itself in this process asks for a fresh one, and the loop exits for the  *)
(* supervisor (NSSM) to start it again -- above an uptime floor, and within *)
(* a budget kept in a file across process lifetimes. The file may fail: a   *)
(* reading that fails counts as an empty file, and one that cannot be       *)
(* written, or is cut off while it is, does not hold the restart back.      *)
(***************************************************************************)
EXTENDS Integers, FiniteSets

CONSTANTS
    BudgetN,           \* _RESTART_BUDGET_N
    Window,            \* _RESTART_BUDGET_WINDOW_S
    UptimeFloor,       \* _RESTART_UPTIME_FLOOR_S
    SlowestTick        \* bound: seconds from one tick to the next

VARIABLES
    past,              \* restart_budget.json: how long ago each restart was
    up,                \* the process runs
    uptime,            \* how long, up to the floor
    wants,             \* a collector has wants_process_restart
    spent,             \* restart_budget_spent
    exits,             \* history: how long ago the service restarted itself
    flawless           \* history: how long ago a restart lost from the file

vars == <<past, up, uptime, wants, spent, exits, flawless>>

TypeInvariant ==
    /\ past \in SUBSET (0..Window) /\ Cardinality(past) <= BudgetN
    /\ up \in BOOLEAN
    /\ uptime \in 0..UptimeFloor
    /\ wants \in BOOLEAN
    /\ spent \in BOOLEAN
    /\ exits \in SUBSET (0..Window)
    /\ flawless \in 0..Window

Init ==
    /\ past = {}
    /\ up = TRUE
    /\ uptime = 0
    /\ wants = FALSE
    /\ spent = FALSE
    /\ exits = {}
    /\ flawless = Window
-----------------------------------------------------------------------------
Aged(n, d, cap) == IF n + d > cap THEN cap ELSE n + d

Older(ages, d) == {Aged(a, d, Window) : a \in ages}

\* What _restart_allowed() keeps of the file.
Recent == {a \in past : a < Window}

\* What it has to go by: an unreadable or torn file counts as an empty one.
Readings == {Recent, {}}

FaultyRestartAllowed_OffByOne(seen) == Cardinality(seen) <= BudgetN

RestartAllowed(seen) == Cardinality(seen) < BudgetN

FaultyRestartDue_AnyUptime == up /\ wants /\ ~spent

FaultyRestartDue_FreshOnly == up /\ wants /\ ~spent /\ uptime = 0

RestartDue == up /\ wants /\ ~spent /\ uptime >= UptimeFloor

\* The end of a tick: d seconds later the next one begins.
TickOn(d) ==
    /\ up
    /\ ~RestartDue
    /\ uptime' = Aged(uptime, d, UptimeFloor)
    /\ past' = Older(past, d)
    /\ exits' = Older(exits, d)
    /\ flawless' = Aged(flawless, d, Window)
    /\ UNCHANGED <<up, wants, spent>>

\* _record_restart(): what was recent, and this one. A write that fails is
\* only logged; one that is cut off leaves no list at all.
RecordRestart(seen) ==
    /\ past' \in {seen \cup {0}, past, {}}
    /\ flawless' = IF seen = Recent /\ past' = seen \cup {0} THEN flawless ELSE 0

\* Exit with _EXIT_WANTS_RESTART.
SelfRestart ==
    /\ RestartDue
    /\ \E seen \in Readings : RestartAllowed(seen) /\ RecordRestart(seen)
    /\ exits' = exits \cup {0}
    /\ up' = FALSE
    /\ UNCHANGED <<uptime, wants, spent>>

\* The card degrades and its rules starve; this process does not ask again.
BudgetSpent ==
    /\ RestartDue
    /\ \E seen \in Readings : ~RestartAllowed(seen)
    /\ spent' = TRUE
    /\ UNCHANGED <<past, up, uptime, wants, exits, flawless>>

\* A collector gives up on this process, and does not take that back.
CollectorGivesUp ==
    /\ up
    /\ ~wants
    /\ wants' = TRUE
    /\ UNCHANGED <<past, up, uptime, spent, exits, flawless>>

\* A crash, or the operator stops the service.
Stop ==
    /\ up
    /\ up' = FALSE
    /\ UNCHANGED <<past, uptime, wants, spent, exits, flawless>>

\* NSSM starts a fresh process: the file is all that is left of the old one.
Start ==
    /\ ~up
    /\ up' = TRUE
    /\ uptime' = 0
    /\ wants' = FALSE
    /\ spent' = FALSE
    /\ UNCHANGED <<past, exits, flawless>>

Loop == (\E d \in 1..SlowestTick : TickOn(d)) \/ SelfRestart \/ BudgetSpent

Next == Loop \/ CollectorGivesUp \/ Stop \/ Start

Spec == Init /\ [][Next]_vars
-----------------------------------------------------------------------------
\* Of the restarts since the file last failed at most BudgetN fall in a
\* window, and the file holds them all, whatever crashes and starts lie between.
WithinBudget ==
    LET counted == {a \in exits : a < Window /\ a < flawless}
    IN  Cardinality(counted) <= BudgetN /\ counted \subseteq past

\* With every reading and writing of the file lost, two restarts of the service
\* are still an uptime floor apart.
RestartsApart ==
    \A a, b \in exits : a < b /\ b < Window => b - a >= UptimeFloor

\* "A broken GPU can never crash-loop the watchdog": the budget bounds its
\* restarts as far as the file goes, and the uptime floor with any file.
RestartsBounded == WithinBudget /\ RestartsApart
=============================================================================
