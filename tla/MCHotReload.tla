---------------------------- MODULE MCHotReload ----------------------------
(***************************************************************************)
(* HotReload on a small instance: two paths, two values, two connections   *)
(* waiting for the parent's mutex, a pipe that takes one entry or two.     *)
(***************************************************************************)
EXTENDS HotReload, TLC

Symmetry == Permutations(Path) \cup Permutations(Value)
=============================================================================
