---------------------------- MODULE MCConfigVar ----------------------------
(* Three threads use two variables.                                          *)
EXTENDS ConfigVar, TLC

CONSTANTS t1, t2, t3, v1, v2, l1, l2, l3, x1, x2

ThreeThreads == {t1, t2, t3}
TwoVars == {v1, v2}
ThreeListeners == {l1, l2, l3}
TwoValues == {x1, x2}

Alike ==
  Permutations(ThreeThreads) \cup Permutations(TwoVars)
    \cup Permutations(ThreeListeners) \cup Permutations(TwoValues)
=============================================================================
