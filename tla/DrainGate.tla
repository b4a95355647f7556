----------------------------- MODULE DrainGate ------------------------------
(***************************************************************************)
(* What one loaded model promises its requests, without slots counters,    *)
(* condition variables, timers or goroutines: a gate of a fixed capacity   *)
(* that can be drained.                                                    *)
(*                                                                         *)
(*   - a request enters only while the gate is open and below capacity;    *)
(*   - a drain closes the gate only when the last request has left;        *)
(*   - only an explicit abort (shutdown, a tuning run, a dead process) may *)
(*     close it over the heads of the requests inside;                     *)
(*   - a gate that is not open never opens again.                          *)
(***************************************************************************)
EXTENDS Integers, FiniteSets

CONSTANTS Requests, Capacity

VARIABLES holders, phase

gateVars == <<holders, phase>>

GateInit == phase = "open" /\ \E r \in Requests : holders = {r}

Enter(r) ==
  /\ phase = "open"
  /\ r \notin holders
  /\ Cardinality(holders) < Capacity
  /\ holders' = holders \cup {r}
  /\ UNCHANGED phase

Leave(r) ==
  /\ r \in holders
  /\ holders' = holders \ {r}
  /\ UNCHANGED phase

StartDrain ==
  /\ phase = "open"
  /\ phase' = "draining"
  /\ UNCHANGED holders

Shut ==
  /\ phase \in {"open", "draining"}
  /\ holders = {}
  /\ phase' = "closed"
  /\ UNCHANGED holders

Abort ==
  /\ phase \in {"open", "draining"}
  /\ phase' = "aborted"
  /\ UNCHANGED holders

GateNext ==
  \/ \E r \in Requests : Enter(r) \/ Leave(r)
  \/ StartDrain
  \/ Shut
  \/ Abort

GateSpec == GateInit /\ [][GateNext]_gateVars
=============================================================================
