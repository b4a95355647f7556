------------------------------ MODULE MCTuning ------------------------------
(***************************************************************************)
(* Tuning for TLC: a model that declares nothing, one shorter than every   *)
(* rung, one exactly on a rung and one between two, with few layers.       *)
(***************************************************************************)
EXTENDS Tuning

MCGGUFs ==
  {[ContextLength |-> 0, BlockCount |-> 0],
   [ContextLength |-> 300, BlockCount |-> 1],
   [ContextLength |-> 1024, BlockCount |-> 5],
   [ContextLength |-> 3000, BlockCount |-> 2]}

MCCapacities == {-1, 0, 4, 63}
=============================================================================
