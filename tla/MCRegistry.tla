----------------------------- MODULE MCRegistry -----------------------------
(* Registry for TLC.  Requests are interchangeable. *)
EXTENDS Registry, TLC

Symmetry == Permutations(Requests) \cup Permutations(Models)
=============================================================================
