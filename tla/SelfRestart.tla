----------------------------- MODULE SelfRestart -----------------------------
(***************************************************************************)
(* The GPU collector and the service loop together: what the collector asks *)
(* for, the end of a tick answers, and the process that NSSM starts next    *)
(* probes anew. RestartBudget is the loop's side; here its "a collector     *)
(* gives up" is what NvmlCollector does.                                    *)
(***************************************************************************)
EXTENDS NvmlCollector

CONSTANTS BudgetN, Window, UptimeFloor, SlowestTick    \* of RestartBudget

ASSUME LimitsAssumption ==
    /\ Persistent \in Nat \ {0}
    /\ BudgetN \in Nat
    /\ Window \in Nat \ {0}
    /\ UptimeFloor \in Nat
    /\ SlowestTick \in Nat

VARIABLES
    past, up, uptime, spent, exits, flawless,    \* of RestartBudget
    sampled            \* this tick has polled the collector

wants == asks # "no"

Loop == INSTANCE RestartBudget

loopVars == <<past, up, uptime, spent, exits, flawless>>
vars == <<nvmlVars, loopVars, sampled>>

Init ==
    /\ NvmlInit
    /\ past = {} /\ up = TRUE /\ uptime = 0 /\ spent = FALSE /\ exits = {}
    /\ flawless = Window
    /\ sampled = FALSE
-----------------------------------------------------------------------------
\* The tick polls the collectors first ...
Poll ==
    /\ up /\ ~sampled
    /\ IF gpuHealth = "failed" THEN UNCHANGED nvmlVars ELSE Sample
    /\ sampled' = TRUE
    /\ UNCHANGED loopVars

\* ... and ends by looking at their requests, or goes to sleep.
GoOn ==
    /\ sampled
    /\ \E d \in 1..SlowestTick : Pass(d) /\ Loop!TickOn(d)
    /\ sampled' = FALSE

Answer ==
    /\ sampled
    /\ UNCHANGED <<nvmlVars, sampled>>
    /\ Loop!SelfRestart \/ Loop!BudgetSpent

Stop == UNCHANGED <<nvmlVars, sampled>> /\ Loop!Stop

Start ==
    /\ ~up
    /\ Probe
    /\ up' = TRUE /\ uptime' = 0 /\ spent' = FALSE
    /\ sampled' = FALSE
    /\ UNCHANGED <<past, exits, flawless>>

Driver == (Install \/ InstallEnds \/ (up /\ Breaks)) /\ UNCHANGED <<loopVars, sampled>>

Next == Poll \/ GoOn \/ Answer \/ Stop \/ Start \/ Driver

Spec == Init /\ [][Next]_vars

\* The loop ticks.
FairSpec == Spec /\ WF_vars(Poll \/ GoOn \/ Answer)
-----------------------------------------------------------------------------
\* With a collector that follows nvml.py, the loop is the one RestartBudget
\* describes: a request, once made, stands for the life of the process.
ImplementsRestartBudget == Loop!Spec

\* What that loop promises is kept with this collector: a broken GPU does not
\* crash-loop the watchdog, by the budget as long as its file works and by the
\* uptime floor with any file.
RestartsBounded == Loop!RestartsBounded

\* A failing card costs a restart of the watchdog only if every tick since the
\* last good one, the last jump of the clock and the probe failed, for
\* _PERSISTENT_FAILURE_S: a laptop that sleeps with a transient does not.
NoRestartForATransient ==
    [][asks = "no" /\ asks' = "failing" => ~gap /\ goodFor >= Persistent]_vars

Stale == installed \notin {opened, Unreadable}

\* A session that is wedged, or opened against a driver that is gone, is ended
\* by a fresh process unless the budget is spent: also one whose calls all
\* succeed ("a constant 0.0 C for four days, health HEALTHY").
CardComesBack ==
    (up /\ gpuHealth # "failed" /\ (broken \/ Stale))
        ~> (~up \/ spent \/ ~(broken \/ Stale))
=============================================================================
