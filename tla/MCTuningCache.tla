--------------------------- MODULE MCTuningCache ---------------------------
(***************************************************************************)
(* TuningCache for TLC: a file that may be replaced by one of another size *)
(* and another context length.                                             *)
(***************************************************************************)
EXTENDS TuningCache, TLC

MCFiles == {[size |-> 1, ctx |-> 1], [size |-> 2, ctx |-> 2]}

Symmetry == Permutations(Loads) \cup Permutations(Models) \cup Permutations(Hardware)
=============================================================================
