----------------------------- MODULE MCSessions -----------------------------
(* Finite instances of Sessions for TLC.                                   *)
EXTENDS Sessions, TLC

CONSTANTS c1, c2, k1, k2

Symmetry == Permutations(Tab) \cup Permutations(Call)
=============================================================================
