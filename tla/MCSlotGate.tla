----------------------------- MODULE MCSlotGate -----------------------------
(***************************************************************************)
(* SlotGate for TLC.                                                       *)
(***************************************************************************)
EXTENDS SlotGate
=============================================================================
