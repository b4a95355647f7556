-------------------------- MODULE ResidentInstance --------------------------
(***************************************************************************)
(* The critical sections of residentInstance (internal/supervisor/         *)
(* supervisor.go) as operators on one record: what each method does to the *)
(* bookkeeping of a loaded model while it holds ri.mu.                     *)
(*                                                                         *)
(*   activeCount  slots held by requests                                   *)
(*   maxSlots     the slot limit                                           *)
(*   draining     no new request may enter, the ones inside may finish     *)
(*   stopped      the instance is finished with                            *)
(*   ttl          whether ttl > 0 (durations are not modelled)             *)
(*   timerActive  the field of that name: "the idle timer counts"          *)
(*   armed        the runtime timer behind idleTimer is still pending      *)
(*                                                                         *)
(* timerActive and armed differ: a timer that has fired leaves timerActive *)
(* set until its callback gets ri.mu.  lastUsed is kept by Registry, which *)
(* is where its order matters.                                             *)
(***************************************************************************)
EXTENDS Integers

ResidentInstances ==
  [activeCount : Nat, maxSlots : Nat \ {0}, draining : BOOLEAN,
   stopped : BOOLEAN, ttl : BOOLEAN, timerActive : BOOLEAN, armed : BOOLEAN]

MutNewUnclamped(ttl, slots) ==
  [activeCount |-> 0, maxSlots |-> slots, draining |-> FALSE,
   stopped |-> FALSE, ttl |-> ttl, timerActive |-> FALSE, armed |-> FALSE]

\* A slot count that is not positive becomes 1.
newResidentInstance(ttl, slots) ==
  [activeCount |-> 0, maxSlots |-> IF slots <= 0 THEN 1 ELSE slots,
   draining |-> FALSE, stopped |-> FALSE, ttl |-> ttl,
   timerActive |-> FALSE, armed |-> FALSE]

Closed(ri) == ri.draining \/ ri.stopped

MutFullOffByOne(ri) == ri.activeCount > ri.maxSlots
Full(ri) == ri.activeCount >= ri.maxSlots

\* "if ri.idleTimer != nil && ri.timerActive": a timer nobody counts on any
\* more is left running.
StopTimer(ri) ==
  IF ri.timerActive
    THEN [ri EXCEPT !.armed = FALSE, !.timerActive = FALSE]
    ELSE ri

\* time.AfterFunc, after Stop on whatever timer there was.
ArmTimer(ri) == [ri EXCEPT !.timerActive = TRUE, !.armed = TRUE]

\* The tail of acquire: the slot is taken and the idle timer stopped.
Admit(ri) == StopTimer([ri EXCEPT !.activeCount = @ + 1])

MutReleaseNoTimer(ri) == [ri EXCEPT !.activeCount = @ - 1]

\* release: give the slot back; the last one out arms the idle timer.
Release(ri) ==
  LET back == [ri EXCEPT !.activeCount = IF @ > 0 THEN @ - 1 ELSE 0]
  IN  IF back.activeCount = 0 /\ ~Closed(ri) /\ ri.ttl
        THEN ArmTimer(back) ELSE back

\* stopTimerAndMarkStopped stops the timer whether or not timerActive is set.
MarkStopped(ri) ==
  [ri EXCEPT !.timerActive = FALSE, !.armed = FALSE, !.stopped = TRUE]

\* evictLRULocked on its victim: closed at once, idle or not.
BeginDrain(ri) == [StopTimer(ri) EXCEPT !.draining = TRUE]

\* onInstanceIdleTimeout, when it decides to drain.
TakeTimeout(ri) == [ri EXCEPT !.timerActive = FALSE]

\* The runtime timer runs out; its callback is now a goroutine.
Expire(ri) == [ri EXCEPT !.armed = FALSE]

\* The critical section of SetModelTTL on a resident instance.
SetTTL(ri, ttl) ==
  IF ri.activeCount = 0 /\ ~Closed(ri)
    THEN [ri EXCEPT !.ttl = ttl, !.timerActive = ttl, !.armed = ttl]
    ELSE [ri EXCEPT !.ttl = ttl]
=============================================================================
