--------------------------- MODULE MCChildProcess ---------------------------
(***************************************************************************)
(* ChildProcess for TLC.                                                   *)
(***************************************************************************)
EXTENDS ChildProcess
=============================================================================
