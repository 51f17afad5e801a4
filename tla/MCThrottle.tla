----------------------------- MODULE MCThrottle -----------------------------
(* Instances of Throttle for TLC.                                          *)
EXTENDS Throttle

CONSTANTS p1, p2, p3

TwoTargets == {p1, p2}

ThreeTargets == {p1, p2, p3}

\* One kill root: every throttle targets the whole of it.
PairTree == {TwoTargets}

WholeTree == {ThreeTargets}

\* p2's parent died between two throttles, so the second tree is smaller.
ShrinkingTrees == {{p1, p2}, {p1}}
=============================================================================
