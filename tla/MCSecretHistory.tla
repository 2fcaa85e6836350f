-------------------------- MODULE MCSecretHistory --------------------------
(* SecretHistory on small instances: two paths, one more array than paths, *)
(* and, as the run asks, one value or two, metadata maps with one content  *)
(* or two, or no maps at all.                                              *)
EXTENDS SecretHistory, TLC

CONSTANTS a, b, d1, d2, m0, m1, x1, x2, x3, x4, x5, x6, x7, x8

Paths  == {a, b}
Values == {d1, d2}
Arrays == {x1, x2, x3}
Maps   == {x4, x5, x6, x7, x8}
FewMaps == {x4}
NoMaps == {}
OneMeta == {m0}
TwoMetas == {m0, m1}
OneValue == {d1}
PathSymmetry == Permutations(Paths)
Symmetry == PathSymmetry \cup Permutations(Values)
=============================================================================
