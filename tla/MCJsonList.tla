----------------------------- MODULE MCJsonList -----------------------------
(* Five items, so that one in the middle can be replaced, that may each hold the others, for model checking JsonList. *)
EXTENDS JsonList, TLC

Symmetry == Permutations(Nodes)
=============================================================================
