------------------------------ MODULE SlotGate ------------------------------
(***************************************************************************)
(* One loaded model and everything that happens around its residentInstance*)
(* (internal/supervisor/supervisor.go): requests that acquire and release  *)
(* slots, requests that block in idleCond.Wait because every slot is taken,*)
(* the goroutines that watch a blocked request's context, the idle timer   *)
(* and its callbacks, drains started by the timer, by evictByID and by the *)
(* LRU cap, and the forced stop of Close and evictAllResidentInstances.    *)
(*                                                                         *)
(* An action is one critical section of ri.mu (or of s.mu, where that is   *)
(* what the code holds); between two of them anything may run.             *)
(* idleCond.Broadcast moves every waiting goroutine to "woken", from where *)
(* it re-acquires ri.mu and evaluates its loop condition again.            *)
(***************************************************************************)
EXTENDS ResidentInstance, FiniteSets

CONSTANTS
  Callers,     \* goroutines that serve HTTP requests
  Drainers,    \* goroutines that run drainAndStop, Stop, a timer callback
  Slots        \* resolveSlots(m), before newResidentInstance clamps it

ASSUME SlotsAssumption == Slots \in Int
ASSUME CallersAssumption == IsFiniteSet(Callers)

VARIABLES
  ri,          \* the residentInstance record
  registered,  \* s.instances[ri.modelID] == ri
  proc,        \* the llama-server child
  ended,       \* history: what set ri.stopped first
  pc,          \* where each caller is
  ctxDone,     \* its request context is cancelled
  watch,       \* the goroutine acquire starts beside a blocked caller
  dpc          \* where each drainer is

vars == <<ri, registered, proc, ended, pc, ctxDone, watch, dpc>>

CallerPC  == {"out", "ready", "waiting", "woken", "serving", "refused"}
DrainerPC == {"idle", "fired", "called", "waiting", "woken", "unregister",
              "stopping", "waitexit"}

TypeOK ==
  /\ ri \in ResidentInstances
  /\ registered \in BOOLEAN
  /\ proc \in {"running", "signalled", "killed", "exited"}
  /\ ended \in {"none", "drain", "abort"}
  /\ pc \in [Callers -> CallerPC]
  /\ ctxDone \in [Callers -> BOOLEAN]
  /\ watch \in [Callers -> {"off", "on", "fired"}]
  /\ dpc \in [Drainers -> DrainerPC]

Serving == {c \in Callers : pc[c] = "serving"}

\* idleCond.Broadcast, seen by one family of goroutines.
MutWoken(f) == f
Woken(f) == [x \in DOMAIN f |-> IF f[x] = "waiting" THEN "woken" ELSE f[x]]

-----------------------------------------------------------------------------
\* getOrLaunchInstance registers the instance with the launcher's own
\* acquire already done.
Init ==
  \E c \in Callers, ttl \in BOOLEAN :
    /\ ri = Admit(newResidentInstance(ttl, Slots))
    /\ pc = [x \in Callers |-> IF x = c THEN "serving" ELSE "out"]
    /\ registered = TRUE
    /\ proc = "running"
    /\ ended = "none"
    /\ ctxDone = [x \in Callers |-> FALSE]
    /\ watch = [x \in Callers |-> "off"]
    /\ dpc = [d \in Drainers |-> "idle"]

-----------------------------------------------------------------------------
(* Requests.                                                               *)

\* getOrLaunchInstance under s.mu: the instance is resident and alive.
Lookup(c) ==
  /\ pc[c] = "out" /\ watch[c] = "off"
  /\ registered /\ proc # "exited"
  /\ pc' = [pc EXCEPT ![c] = "ready"]
  /\ ctxDone' = [ctxDone EXCEPT ![c] = FALSE]
  /\ UNCHANGED <<ri, registered, proc, ended, watch, dpc>>

\* ... or its process has exited: stop its timer and forget it.
LookupDead(c) ==
  /\ pc[c] = "out"
  /\ registered /\ proc = "exited"
  /\ ri' = MarkStopped(ri)
  /\ ended' = IF ri.stopped THEN ended ELSE "abort"
  /\ registered' = FALSE
  /\ pc' = Woken(pc) /\ dpc' = Woken(dpc)
  /\ UNCHANGED <<proc, ctxDone, watch>>

\* acquire returns: stopCtxWait is closed, and a watcher whose select finds
\* both channels ready may still choose ctx.Done.
StopWatch(c) ==
  watch' \in {[watch EXCEPT ![c] = w] :
                w \in IF watch[c] = "on"
                        THEN IF ctxDone[c] THEN {"off", "fired"} ELSE {"off"}
                        ELSE {watch[c]}}

\* acquire, with ri.mu held: on entry and every time Wait returns.
InAcquire(c) == pc[c] \in {"ready", "woken"}

MutMustRefuse(c) == ctxDone[c] \/ ri.stopped \/ proc = "exited"

MustRefuse(c) == ctxDone[c] \/ Closed(ri) \/ proc = "exited"

Refuse(c) ==
  /\ InAcquire(c) /\ MustRefuse(c)
  /\ pc' = [pc EXCEPT ![c] = "refused"]
  /\ StopWatch(c)
  /\ UNCHANGED <<ri, registered, proc, ended, ctxDone, dpc>>

Wait(c) ==
  /\ InAcquire(c) /\ ~MustRefuse(c) /\ Full(ri)
  /\ pc' = [pc EXCEPT ![c] = "waiting"]
  /\ watch' = [watch EXCEPT ![c] = IF pc[c] = "ready" THEN "on" ELSE @]
  /\ UNCHANGED <<ri, registered, proc, ended, ctxDone, dpc>>

Enter(c) ==
  /\ InAcquire(c) /\ ~MustRefuse(c) /\ ~Full(ri)
  /\ ri' = Admit(ri)
  /\ pc' = [pc EXCEPT ![c] = "serving"]
  /\ StopWatch(c)
  /\ UNCHANGED <<registered, proc, ended, ctxDone, dpc>>

MutLeave(c) ==
  /\ pc[c] = "serving"
  /\ ri' = Release(ri)
  /\ pc' = [pc EXCEPT ![c] = "out"]
  /\ UNCHANGED <<registered, proc, ended, ctxDone, watch, dpc>>

\* release
Leave(c) ==
  /\ pc[c] = "serving"
  /\ ri' = Release(ri)
  /\ pc' = [Woken(pc) EXCEPT ![c] = "out"]
  /\ dpc' = Woken(dpc)
  /\ UNCHANGED <<registered, proc, ended, ctxDone, watch>>

\* acquire returned false: the request's own context explains it ...
GiveUp(c) ==
  /\ pc[c] = "refused" /\ ctxDone[c]
  /\ pc' = [pc EXCEPT ![c] = "out"]
  /\ UNCHANGED <<ri, registered, proc, ended, ctxDone, watch, dpc>>

\* ... or the instance is on its way out: unregister it and look again.  (A
\* request that came here by joining a load only looks again.)
Forget(c) ==
  /\ pc[c] = "refused" /\ ~ctxDone[c]
  /\ registered' \in {registered, FALSE}
  /\ pc' = [pc EXCEPT ![c] = "out"]
  /\ UNCHANGED <<ri, proc, ended, ctxDone, watch, dpc>>

\* The client disconnects.
Cancel(c) ==
  /\ pc[c] # "out" /\ ~ctxDone[c]
  /\ ctxDone' = [ctxDone EXCEPT ![c] = TRUE]
  /\ UNCHANGED <<ri, registered, proc, ended, pc, watch, dpc>>

\* The watcher goroutine sees ctx.Done, then gets ri.mu and broadcasts.
WatcherSees(c) ==
  /\ watch[c] = "on" /\ ctxDone[c]
  /\ watch' = [watch EXCEPT ![c] = "fired"]
  /\ UNCHANGED <<ri, registered, proc, ended, pc, ctxDone, dpc>>

MutWatcherBroadcasts(c) ==
  /\ watch[c] = "fired"
  /\ watch' = [watch EXCEPT ![c] = "off"]
  /\ UNCHANGED <<ri, registered, proc, ended, ctxDone, pc, dpc>>

WatcherBroadcasts(c) ==
  /\ watch[c] = "fired"
  /\ watch' = [watch EXCEPT ![c] = "off"]
  /\ pc' = Woken(pc) /\ dpc' = Woken(dpc)
  /\ UNCHANGED <<ri, registered, proc, ended, ctxDone>>

-----------------------------------------------------------------------------
(* The idle timer and SetModelTTL.                                         *)

SetModelTTL(ttl) ==
  /\ ri' = SetTTL(ri, ttl)
  /\ UNCHANGED <<registered, proc, ended, pc, ctxDone, watch, dpc>>

TimerFires(d) ==
  /\ dpc[d] = "idle" /\ ri.armed
  /\ ri' = Expire(ri)
  /\ dpc' = [dpc EXCEPT ![d] = "fired"]
  /\ UNCHANGED <<registered, proc, ended, pc, ctxDone, watch>>

MutOnInstanceIdleTimeout(d) ==
  /\ dpc[d] = "fired"
  /\ IF ri.stopped \/ ~ri.timerActive
       THEN dpc' = [dpc EXCEPT ![d] = "idle"] /\ UNCHANGED ri
       ELSE dpc' = [dpc EXCEPT ![d] = "idle"] /\ ri' = TakeTimeout(ri)
  /\ UNCHANGED <<registered, proc, ended, pc, ctxDone, watch>>

OnInstanceIdleTimeout(d) ==
  /\ dpc[d] = "fired"
  /\ IF ri.stopped \/ ~ri.timerActive
       THEN dpc' = [dpc EXCEPT ![d] = "idle"] /\ UNCHANGED ri
       ELSE dpc' = [dpc EXCEPT ![d] = "called"] /\ ri' = TakeTimeout(ri)
  /\ UNCHANGED <<registered, proc, ended, pc, ctxDone, watch>>

-----------------------------------------------------------------------------
(* drainAndStop and the forced stop.                                       *)

\* evictByID found the instance resident and is about to drain it.
EvictByID(d) ==
  /\ dpc[d] = "idle" /\ registered
  /\ dpc' = [dpc EXCEPT ![d] = "called"]
  /\ UNCHANGED <<ri, registered, proc, ended, pc, ctxDone, watch>>

\* evictLRULocked, down to the goroutine it starts.
EvictLRULocked(d) ==
  /\ dpc[d] = "idle" /\ registered
  /\ registered' = FALSE
  /\ ri' = BeginDrain(ri)
  /\ dpc' = [dpc EXCEPT ![d] = "called"]
  /\ UNCHANGED <<proc, ended, pc, ctxDone, watch>>

\* Close and evictAllResidentInstances, this instance's part under s.mu.
StopNow(d) ==
  /\ dpc[d] = "idle" /\ registered
  /\ registered' = FALSE
  /\ ri' = MarkStopped(ri)
  /\ ended' = IF ri.stopped THEN ended ELSE "abort"
  /\ pc' = Woken(pc)
  /\ dpc' = [Woken(dpc) EXCEPT ![d] = "stopping"]
  /\ UNCHANGED <<proc, ctxDone, watch>>

InDrain(d) == dpc[d] \in {"called", "woken"}

\* The timer is stopped on the way in only.
OnEntry(d, r) == IF dpc[d] = "called" THEN StopTimer(r) ELSE r

DrainNoop(d) ==
  /\ InDrain(d) /\ ri.stopped
  /\ dpc' = [dpc EXCEPT ![d] = "idle"]
  /\ UNCHANGED <<ri, registered, proc, ended, pc, ctxDone, watch>>

DrainWait(d) ==
  /\ InDrain(d) /\ ~ri.stopped /\ ri.activeCount > 0
  /\ ri' = [OnEntry(d, ri) EXCEPT !.draining = TRUE]
  /\ dpc' = [dpc EXCEPT ![d] = "waiting"]
  /\ UNCHANGED <<registered, proc, ended, pc, ctxDone, watch>>

MutDrainDone(d) ==
  /\ InDrain(d) /\ ~ri.stopped
  /\ ri' = [OnEntry(d, ri) EXCEPT !.stopped = TRUE]
  /\ ended' = "drain"
  /\ dpc' = [dpc EXCEPT ![d] = "unregister"]
  /\ UNCHANGED <<registered, proc, pc, ctxDone, watch>>

DrainDone(d) ==
  /\ InDrain(d) /\ ~ri.stopped /\ ri.activeCount = 0
  /\ ri' = [OnEntry(d, ri) EXCEPT !.stopped = TRUE]
  /\ ended' = "drain"
  /\ dpc' = [dpc EXCEPT ![d] = "unregister"]
  /\ UNCHANGED <<registered, proc, pc, ctxDone, watch>>

\* "current == ri": unregisters this instance and nothing else.
Unregister(d) ==
  /\ dpc[d] = "unregister"
  /\ registered' = FALSE
  /\ dpc' = [dpc EXCEPT ![d] = "stopping"]
  /\ UNCHANGED <<ri, proc, ended, pc, ctxDone, watch>>

-----------------------------------------------------------------------------
(* stopInstance and host.Instance.Stop: interrupt, wait, kill.             *)

StopSignals(d) ==
  /\ dpc[d] = "stopping"
  /\ proc' = IF proc = "running" THEN "signalled" ELSE proc
  /\ dpc' = [dpc EXCEPT ![d] = "waitexit"]
  /\ UNCHANGED <<ri, registered, ended, pc, ctxDone, watch>>

StopReturns(d) ==
  /\ dpc[d] = "waitexit" /\ proc = "exited"
  /\ dpc' = [dpc EXCEPT ![d] = "idle"]
  /\ UNCHANGED <<ri, registered, proc, ended, pc, ctxDone, watch>>

MutStopTimesOut(d) ==
  /\ dpc[d] = "waitexit" /\ proc # "exited"
  /\ dpc' = [dpc EXCEPT ![d] = "idle"]
  /\ UNCHANGED <<ri, registered, proc, ended, pc, ctxDone, watch>>

\* stopCtx runs out first: kill and do not wait.
StopTimesOut(d) ==
  /\ dpc[d] = "waitexit" /\ proc # "exited"
  /\ proc' = "killed"
  /\ dpc' = [dpc EXCEPT ![d] = "idle"]
  /\ UNCHANGED <<ri, registered, ended, pc, ctxDone, watch>>

\* The child exits: by itself, on the interrupt, or because it was killed.
ProcExits ==
  /\ proc # "exited"
  /\ proc' = "exited"
  /\ UNCHANGED <<ri, registered, ended, pc, ctxDone, watch, dpc>>

-----------------------------------------------------------------------------
CallerStep(c) ==
  \/ Lookup(c) \/ LookupDead(c)
  \/ Refuse(c) \/ Wait(c) \/ Enter(c) \/ Leave(c)
  \/ GiveUp(c) \/ Forget(c)
  \/ Cancel(c) \/ WatcherSees(c) \/ WatcherBroadcasts(c)

DrainerStep(d) ==
  \/ TimerFires(d) \/ OnInstanceIdleTimeout(d)
  \/ EvictByID(d) \/ EvictLRULocked(d) \/ StopNow(d)
  \/ DrainNoop(d) \/ DrainWait(d) \/ DrainDone(d) \/ Unregister(d)
  \/ StopSignals(d) \/ StopReturns(d) \/ StopTimesOut(d)

Next ==
  \/ \E c \in Callers : CallerStep(c)
  \/ \E d \in Drainers : DrainerStep(d)
  \/ \E ttl \in BOOLEAN : SetModelTTL(ttl)
  \/ ProcExits

Spec == Init /\ [][Next]_vars

\* What the Go scheduler and the kernel guarantee: a goroutine that can take
\* its next step eventually does, a pending timer runs out, a process that
\* was killed dies, and a request whose client is gone or whose process has
\* exited is abandoned by the proxy.  Nothing here says that a generation ends.
SchedFairness ==
  /\ \A c \in Callers :
       /\ WF_vars(Refuse(c) \/ Wait(c) \/ Enter(c))
       /\ WF_vars(GiveUp(c) \/ Forget(c))
       /\ WF_vars(WatcherSees(c) \/ WatcherBroadcasts(c))
       /\ WF_vars((ctxDone[c] \/ proc = "exited") /\ Leave(c))
  /\ \A d \in Drainers :
       /\ WF_vars(OnInstanceIdleTimeout(d))
       /\ WF_vars(DrainNoop(d) \/ DrainWait(d) \/ DrainDone(d))
       /\ WF_vars(Unregister(d) \/ StopSignals(d))
       /\ WF_vars(StopReturns(d) \/ StopTimesOut(d))
  /\ WF_vars(\E d \in Drainers : TimerFires(d))
  /\ WF_vars(proc = "killed" /\ ProcExits)

\* In addition every request in flight ends sooner or later.  A property that
\* needs it says so; the specification does not assume it.
CompletionFairness == \A c \in Callers : WF_vars(Leave(c))

SchedSpec == Spec /\ SchedFairness

-----------------------------------------------------------------------------
(* Safety.                                                                 *)

\* acquire and release keep activeCount equal to the number of requests that
\* really are in flight, through every wait, refusal and cancellation, and
\* the slot limit is never exceeded.
SlotAccounting ==
  /\ ri.activeCount = Cardinality(Serving)
  /\ ri.activeCount <= ri.maxSlots

\* drainAndStop promises to let in-flight requests finish: the process is
\* interrupted or killed under a request only if Close, a tuning run or the
\* discovery of a dead process stopped the instance, never by a drain.
DrainSparesInFlight ==
  proc \in {"signalled", "killed"} /\ Serving # {} => ended = "abort"

\* No goroutine sleeps in idleCond.Wait with nobody left to wake it: a slot
\* waiter sleeps only while every slot is held, a drainer only while some
\* slot is, neither past stopped, and a sleeping request whose context is
\* done still has its watcher goroutine to broadcast.
NoLostWakeup ==
  /\ \A c \in Callers : pc[c] = "waiting" =>
       /\ Full(ri) /\ ~ri.stopped
       /\ watch[c] # "off"
  /\ \A d \in Drainers : dpc[d] = "waiting" =>
       ri.activeCount > 0 /\ ri.draining /\ ~ri.stopped

\* An instance that sits idle with a TTL is never forgotten by its timer,
\* whatever Stop, re-arming, SetModelTTL and delayed callbacks do: the timer
\* is pending, its callback is about to look, or a drain is on its way.
IdleHasWayOut ==
  ri.activeCount = 0 /\ ri.ttl /\ ~Closed(ri) =>
    \/ ri.armed
    \/ \E d \in Drainers : dpc[d] = "called"
    \/ ri.timerActive /\ \E d \in Drainers : dpc[d] = "fired"

\* A child that has neither exited nor been killed is always somebody's: it
\* is in s.instances, or a goroutine is on its way to stop it.
ProcessOwned ==
  proc \in {"running", "signalled"} =>
    \/ registered
    \/ \E d \in Drainers : dpc[d] \notin {"idle", "fired"}

\* The instance implements the gate: see DrainGate.
Phase ==
  CASE ended = "drain" -> "closed"
    [] ended = "abort" -> "aborted"
    [] ended = "none" /\ ri.draining -> "draining"
    [] OTHER -> "open"

Gate == INSTANCE DrainGate WITH
          Requests <- Callers,
          Capacity <- IF Slots <= 0 THEN 1 ELSE Slots,
          holders <- Serving,
          phase <- Phase

\* acquire, release, drainAndStop and the forced stop, with all their waiting
\* and waking, implement a gate that admits up to capacity, never reopens, and
\* is shut by a drain only when it is empty.
ImplementsGate == Gate!GateSpec

-----------------------------------------------------------------------------
(* Liveness.                                                               *)

\* A drain that has begun stops the instance once its requests have ended.
DrainCompletes == CompletionFairness => (ri.draining ~> ri.stopped)

\* A request that waits for a slot and whose client goes away is let go,
\* even if no slot is ever released.
CancelledWaiterReturns ==
  \A c \in Callers :
    pc[c] \in {"waiting", "woken"} /\ ctxDone[c] ~> pc[c] = "out"

\* An idle instance with a TTL is eventually stopped, unless a request or a
\* change of TTL comes in between.
IdleEventuallyStops ==
  ri.activeCount = 0 /\ ri.ttl ~> ri.stopped \/ ri.activeCount > 0 \/ ~ri.ttl

\* An instance that left the registry, on whatever path, does not keep its
\* process (the ghost process of ADR-0001).
UnregisteredProcessExits ==
  CompletionFairness => (~registered ~> proc = "exited")
=============================================================================
