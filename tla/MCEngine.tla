------------------------------ MODULE MCEngine ------------------------------
(* Instances of EnginePromises for TLC: the rule tables of the runs.        *)
EXTENDS EnginePromises

\* A window rule: hot in at least num/den of the last w seconds.
WindowRule(signal, w, num, den, cooldown) ==
    [signal |-> signal, action |-> "kill", threshold |-> 0, cooldown |-> cooldown,
     isDose |-> FALSE, window |-> w, fracNum |-> num, fracDen |-> den,
     budget |-> 1, drain |-> 0, warnNum |-> 1, warnDen |-> 2]

\* A dose rule: budget in degree-seconds, warned at half of it.
DoseRule(signal, budget, drain, cooldown) ==
    [signal |-> signal, action |-> "kill", threshold |-> 1, cooldown |-> cooldown,
     isDose |-> TRUE, window |-> 1, fracNum |-> 1, fracDen |-> 1,
     budget |-> budget, drain |-> drain, warnNum |-> 1, warnDen |-> 2]

\* One kill rule over one signal, two thirds of six seconds.
TwoThirds == [r \in Rules |-> WindowRule("cpu", 6, 2, 3, 3)]

\* A budget that no single reading can carry from unwarned to spent.
OneDose == [r \in Rules |-> DoseRule("cpu", 8, 2, 3)]

\* The hypotheses of the theorems KillsAreAnnounced and HotRulesFire hold here.
ASSUME HypothesesAssumption == StepsAreSmall /\ \E lo, hi \in Gaps : CadenceFits(lo, hi)
=============================================================================
