----------------------------- MODULE ActionGate -----------------------------
(***************************************************************************)
(* What the service may rely on from the rule engine, with nothing said of  *)
(* readings, windows or doses: time moves forward, a rule acts at most once *)
(* per cooldown, and no rule acts while the engine is paused.               *)
(***************************************************************************)
EXTENDS Integers

CONSTANTS
    Rules,             \* the rules of the engine
    Cooldown           \* Cooldown[r]: the least distance of two of its actions

VARIABLES
    now,               \* the time of the last tick
    pausedUntil,       \* no action before this time
    lastActed          \* lastActed[r]: when the rule last acted, -1 for never

gateVars == <<now, pausedUntil, lastActed>>

Init ==
    /\ now = 0
    /\ pausedUntil = 0
    /\ lastActed = [r \in Rules |-> -1]

MayAct(r, t) ==
    /\ t >= pausedUntil
    /\ lastActed[r] = -1 \/ t >= lastActed[r] + Cooldown[r]

\* A tick: some of the rules that may act do.
Tick ==
    /\ now' \in Nat /\ now' > now
    /\ \A r \in Rules :
         lastActed'[r] # lastActed[r] => lastActed'[r] = now' /\ MayAct(r, now')
    /\ DOMAIN lastActed' = Rules
    /\ UNCHANGED pausedUntil

\* The operator pauses or resumes the engine.
SetPaused ==
    /\ pausedUntil' \in Nat
    /\ UNCHANGED <<now, lastActed>>

Next == Tick \/ SetPaused

Spec == Init /\ [][Next]_gateVars
=============================================================================
