------------------------------ MODULE Registry ------------------------------
(***************************************************************************)
(* The Supervisor's registry of loaded models (internal/supervisor/        *)
(* supervisor.go): getOrLaunchInstance with its coalesced loads, the LRU   *)
(* cap, evictByID as Rescan and Evict call it, evictAllResidentInstances   *)
(* and Close, over several models and concurrent requests.                 *)
(*                                                                         *)
(* A loaded model appears here as the gate that SlotGate is proved to      *)
(* implement (DrainGate): its holders are the requests that serve on it,   *)
(* its phase is open, draining or stopped.  What SlotGate resolves inside  *)
(* the instance (the condition variable, watchers, timers, interrupt and   *)
(* kill) does not reappear.                                                *)
(*                                                                         *)
(* A request launches at most one load, so loads, the pendingInstance      *)
(* records they share, and the instances they produce are named by the     *)
(* request that launched them.                                             *)
(***************************************************************************)
EXTENDS Integers, FiniteSets

CONSTANTS
  Models, Requests, None,
  MaxInstances,  \* s.maxInstances, 0 for no cap
  Slots,         \* resolveSlots, the same for every model
  Evictable,     \* bound: the models that scans and evictions are about
  Unloading      \* the requests that carry "keep_alive": 0

ASSUME NoneAssumption == None \notin Requests /\ None \notin Models
ASSUME LimitsAssumption == MaxInstances \in Nat /\ Slots \in Nat \ {0}
ASSUME FiniteAssumption == IsFiniteSet(Models) /\ IsFiniteSet(Requests)
ASSUME BoundsAssumption == Evictable \subseteq Models /\ Unloading \subseteq Requests

VARIABLES
  models,     \* s.models: the catalogue the last scan left
  closed,     \* s.closed
  instances,  \* s.instances
  loading,    \* s.loading
  lastUsed,   \* ri.lastUsed of each instance, as a rank among those registered
  pc, mdl, at,  \* each request: where it is, its model, its load or instance
  ctxDone,    \* its client is gone
  monitor,    \* the load whose caller count its monitor goroutine guards
  unload,     \* what it will drain when it ends: <<>> if it has yet to look
  load,       \* the pendingInstance of each load, and its req.err when ready
  phase,      \* the gate of each instance
  closer,     \* the goroutine that drains or stops each instance
  proc,       \* the child process of each load
  asleep,     \* the requests that wait for a slot in idleCond.Wait
  evictor,    \* the goroutine in Rescan's or Evict's evictByID
  evicted     \* history: the loads that evictions cancelled, unless they end otherwise

reqVars  == <<pc, mdl, at, ctxDone, monitor, unload>>
instVars == <<phase, closer, proc, asleep>>
evictVars == <<evictor, evicted>>
vars == <<models, closed, instances, loading, lastUsed, reqVars, load,
          instVars, evictVars>>

Waiting  == {"resolved", "acquire", "reacquire", "join", "launching",
             "launched", "launchfailed", "stopown"}
InFlight == {"serving", "slotless"}
Answered == {"done", "error", "silent"}
Settled  == {"ok", "ctx", "failed", "closed"}

TypeOK ==
  /\ models \subseteq Models /\ closed \in BOOLEAN
  /\ instances \in [Models -> Requests \cup {None}]
  /\ loading \in [Models -> Requests \cup {None}]
  /\ lastUsed \in [Requests -> Nat]
  /\ pc \in [Requests -> {"new"} \cup Waiting \cup InFlight \cup Answered]
  /\ mdl \in [Requests -> Models \cup {None}]
  /\ at \in [Requests -> Requests \cup {None}]
  /\ \A r \in Requests :
       pc[r] \in (Waiting \ {"resolved"}) \cup InFlight => at[r] # None
  /\ ctxDone \in [Requests -> BOOLEAN]
  /\ monitor \in [Requests -> Requests \cup {None}]
  /\ unload \in [Requests -> {<<>>} \cup {<<k>> : k \in Requests \cup {None}}]
  /\ load \in [Requests -> {"none", "loading", "cancelled"} \cup Settled]
  /\ phase \in [Requests -> {"none", "open", "draining", "stopped"}]
  /\ closer \in [Requests -> {"none", "drain", "unregister", "stop", "done"}]
  /\ proc \in [Requests -> {"none", "running", "exited"}]
  /\ evictor \in [pc : {"idle", "gaveup", "sample", "drain", "await"},
                  model : Models \cup {None},
                  res : Requests \cup {None}, load : Requests \cup {None}]
  /\ asleep \subseteq Requests /\ evicted \subseteq Requests

Resident == {m \in Models : instances[m] # None}
Holders(k) == {r \in Requests : pc[r] = "serving" /\ at[r] = k}

\* req.callers: the joined requests whose monitor has not counted them out.
Callers(k) == {r \in Requests : monitor[r] = k}

NoEviction == [pc |-> "idle", model |-> None, res |-> None, load |-> None]

Init ==
  /\ models = Models /\ closed = FALSE
  /\ instances = [m \in Models |-> None]
  /\ loading = [m \in Models |-> None]
  /\ lastUsed = [r \in Requests |-> 0]
  /\ pc = [r \in Requests |-> "new"]
  /\ mdl = [r \in Requests |-> None]
  /\ at = [r \in Requests |-> None]
  /\ ctxDone = [r \in Requests |-> FALSE]
  /\ monitor = [r \in Requests |-> None]
  /\ unload = [r \in Requests |-> IF r \in Unloading THEN <<>> ELSE <<None>>]
  /\ load = [r \in Requests |-> "none"]
  /\ phase = [r \in Requests |-> "none"]
  /\ closer = [r \in Requests |-> "none"]
  /\ proc = [r \in Requests |-> "none"]
  /\ asleep = {} /\ evictor = NoEviction /\ evicted = {}

-----------------------------------------------------------------------------
(* Helpers.                                                                *)

\* getOrLaunchInstance or the whole request returns: its locals are gone.  The
\* handlers answer an error, and a cancellation with nothing.
Return(r, outcome) ==
  /\ pc' = [pc EXCEPT ![r] = outcome]
  /\ at' = [at EXCEPT ![r] = None]

\* ri.lastUsed = time.Now(), as far as it is ever read again: k comes last among
\* the instances that are registered after this step.
Touch(k) ==
  LET Registered == {x \in Requests : \E m \in Models : instances'[m] = x}
      Older(x) == {y \in Registered \ {k} : lastUsed[y] < lastUsed[x]}
  IN  lastUsed' = [x \in Requests |->
                     IF x \notin Registered THEN 0
                     ELSE IF x = k THEN Cardinality(Registered)
                     ELSE Cardinality(Older(x)) + 1]

\* drainAndStop is called on k; a second call while one is under way changes
\* nothing, and on a stopped instance none does.
StartDrain(c, k) == IF c[k] = "none" THEN [c EXCEPT ![k] = "drain"] ELSE c

\* idleCond.Broadcast of the instances ks: who waits for a slot looks again.
Wake(ks) == asleep' = {r \in asleep : at[r] \notin ks}

\* stopTimerAndMarkStopped on every resident instance, then stopInstance.  A
\* drain under way on one of them finds it stopped and leaves.
ForceAll ==
  LET ks == {instances[m] : m \in Resident}
  IN  /\ phase' = [k \in Requests |-> IF k \in ks THEN "stopped" ELSE phase[k]]
      /\ closer' = [k \in Requests |->
                      IF k \in ks /\ closer[k] \in {"none", "drain"}
                        THEN "stop" ELSE closer[k]]
      /\ instances' = [m \in Models |-> None]
      /\ Wake(ks)

\* evictLRULocked: the resident that was used least recently.
LRUVictim ==
  LET resident == {instances[m] : m \in Resident}
  IN  CHOOSE k \in resident : \A x \in resident : lastUsed[k] <= lastUsed[x]

MutOverCap == MaxInstances > 0 /\ Cardinality(Resident) > MaxInstances
OverCap == MaxInstances > 0 /\ Cardinality(Resident) >= MaxInstances

-----------------------------------------------------------------------------
(* getOrLaunchInstance.                                                    *)

\* Under s.mu: the references that resolve are those of the last scan.
resolveModel(m) == m \in models

\* A handler resolves its model, well before it asks for an instance.
Resolve(r, m) ==
  /\ pc[r] = "new" /\ resolveModel(m)
  /\ pc' = [pc EXCEPT ![r] = "resolved"]
  /\ mdl' = [mdl EXCEPT ![r] = m]
  /\ UNCHANGED <<models, closed, instances, loading, lastUsed, at, ctxDone,
                 monitor, load, instVars, unload, evictVars>>

\* A reference that no model of the last scan answers to, or more than one.
ResolveFails(r) ==
  /\ pc[r] = "new"
  /\ Return(r, "error")
  /\ UNCHANGED <<models, closed, instances, loading, lastUsed, mdl, ctxDone,
                 monitor, load, instVars, unload, evictVars>>

\* The top of the loop, one critical section of s.mu.
RejectClosed(r) ==
  /\ pc[r] = "resolved" /\ closed
  /\ Return(r, "error")
  /\ UNCHANGED <<models, closed, instances, loading, lastUsed, mdl, ctxDone,
                 monitor, load, instVars, unload, evictVars>>

Dead(k) == k # None /\ proc[k] = "exited"

FindResident(r) ==
  LET k == instances[mdl[r]] IN
  /\ pc[r] = "resolved" /\ ~closed
  /\ k # None /\ ~Dead(k)
  /\ pc' = [pc EXCEPT ![r] = "acquire"]
  /\ at' = [at EXCEPT ![r] = k]
  /\ UNCHANGED <<models, closed, instances, loading, lastUsed, mdl, ctxDone,
                 monitor, load, instVars, unload, evictVars>>

\* An exited instance is dropped on the way, in the same critical section.
NoneResident(r) ==
  LET k == instances[mdl[r]] IN
  /\ pc[r] = "resolved" /\ ~closed
  /\ k # None => Dead(k)
  /\ instances' = [instances EXCEPT ![mdl[r]] = None]
  /\ phase' = IF k = None THEN phase ELSE [phase EXCEPT ![k] = "stopped"]
  /\ Wake({k} \ {None})
  /\ UNCHANGED <<models, closed, lastUsed, mdl, ctxDone, closer, proc, unload,
                 evictVars>>

JoinLoad(r) ==
  LET k == loading[mdl[r]] IN
  /\ NoneResident(r)
  /\ k # None
  /\ monitor' = [monitor EXCEPT ![r] = k]
  /\ pc' = [pc EXCEPT ![r] = "join"]
  /\ at' = [at EXCEPT ![r] = k]
  /\ UNCHANGED <<loading, load>>

MutStartLoad(r) ==
  /\ NoneResident(r)
  /\ load' = [load EXCEPT ![r] = "loading"]
  /\ loading' = [loading EXCEPT ![mdl[r]] = r]
  /\ monitor' = [monitor EXCEPT ![r] = r]
  /\ pc' = [pc EXCEPT ![r] = "launching"]
  /\ at' = [at EXCEPT ![r] = r]

StartLoad(r) ==
  /\ NoneResident(r)
  /\ loading[mdl[r]] = None
  /\ load' = [load EXCEPT ![r] = "loading"]
  /\ loading' = [loading EXCEPT ![mdl[r]] = r]
  /\ monitor' = [monitor EXCEPT ![r] = r]
  /\ pc' = [pc EXCEPT ![r] = "launching"]
  /\ at' = [at EXCEPT ![r] = r]

\* acquire, on entry and whenever idleCond.Wait returns: the gate admits r,
InAcquire(r) == pc[r] \in {"acquire", "reacquire"} /\ r \notin asleep

Acquire(r) ==
  /\ InAcquire(r) /\ ~ctxDone[r]
  /\ phase[at[r]] = "open" /\ ~Dead(at[r])
  /\ Cardinality(Holders(at[r])) < Slots
  /\ pc' = [pc EXCEPT ![r] = "serving"]
  /\ UNCHANGED <<models, closed, instances, loading, mdl, at, ctxDone,
                 monitor, load, instVars, unload, evictVars>>
  /\ Touch(at[r])

\* makes it wait for a slot,
SlotWait(r) ==
  /\ InAcquire(r) /\ ~ctxDone[r]
  /\ phase[at[r]] = "open" /\ ~Dead(at[r])
  /\ Cardinality(Holders(at[r])) >= Slots
  /\ asleep' = asleep \cup {r}
  /\ UNCHANGED <<models, closed, instances, loading, lastUsed, reqVars, load,
                 phase, closer, proc, evictVars>>

\* sees that its client is gone (if it sleeps, its watcher wakes everybody),
AcquireCancelled(r) ==
  /\ pc[r] \in {"acquire", "reacquire"} /\ ctxDone[r]
  /\ Return(r, "silent")
  /\ Wake(IF r \in asleep THEN {at[r]} ELSE {})
  /\ UNCHANGED <<models, closed, instances, loading, lastUsed, mdl, ctxDone,
                 monitor, load, phase, closer, proc, unload, evictVars>>

MutAcquireRefused(r) ==
  /\ InAcquire(r) /\ ~ctxDone[r]
  /\ phase[at[r]] # "open" \/ Dead(at[r])
  /\ instances' = [instances EXCEPT ![mdl[r]] = None]
  /\ pc' = [pc EXCEPT ![r] = "resolved"]
  /\ UNCHANGED <<models, closed, loading, lastUsed, mdl, at, ctxDone, monitor,
                 load, instVars, unload, evictVars>>

\* or refuses it: go round again.  The first path unregisters the instance
\* first, if it is still the registered one; the path after a join does not.
\* A drain wakes nobody: who sleeps when it begins learns of it at a release.
AcquireRefused(r) ==
  /\ InAcquire(r) /\ ~ctxDone[r]
  /\ phase[at[r]] # "open" \/ Dead(at[r])
  /\ instances' =
       IF pc[r] = "acquire" /\ instances[mdl[r]] = at[r]
         THEN [instances EXCEPT ![mdl[r]] = None] ELSE instances
  /\ pc' = [pc EXCEPT ![r] = "resolved"]
  /\ UNCHANGED <<models, closed, loading, lastUsed, mdl, at, ctxDone, monitor,
                 load, instVars, unload, evictVars>>

MutJoinFails(r) ==
  /\ pc[r] = "join" /\ load[at[r]] \in Settled \ {"ok"}
  /\ Return(r, IF load[at[r]] = "failed" THEN "error" ELSE "silent")
  /\ UNCHANGED <<models, closed, instances, loading, lastUsed, mdl, ctxDone,
                 monitor, load, instVars, unload, evictVars>>

\* The load r waits for has settled with an error, which r returns as its own,
JoinFails(r) ==
  /\ pc[r] = "join" /\ load[at[r]] \in Settled \ {"ok"}
  /\ Return(r, IF load[at[r]] = "ctx" THEN "silent" ELSE "error")
  /\ UNCHANGED <<models, closed, instances, loading, lastUsed, mdl, ctxDone,
                 monitor, load, instVars, unload, evictVars>>

MutJoinSucceeds(r) ==
  /\ pc[r] = "join" /\ load[at[r]] = "ok"
  /\ pc' = [pc EXCEPT ![r] = "reacquire"]
  /\ at' = [at EXCEPT ![r] = instances[mdl[r]]]
  /\ UNCHANGED <<models, closed, instances, loading, lastUsed, mdl, ctxDone,
                 monitor, load, instVars, unload, evictVars>>

MutJoinSlotless(r) ==
  /\ pc[r] = "join" /\ load[at[r]] = "ok"
  /\ pc' = [pc EXCEPT ![r] = "slotless"]
  /\ UNCHANGED <<models, closed, instances, loading, lastUsed, mdl, at,
                 ctxDone, monitor, load, instVars, unload, evictVars>>

\* or it succeeded: r acquires the instance that is resident now, or uses the
\* loaded process without a slot if none is.
JoinSucceeds(r) ==
  LET resident == instances[mdl[r]] IN
  /\ pc[r] = "join" /\ load[at[r]] = "ok"
  /\ IF resident # None
       THEN /\ pc' = [pc EXCEPT ![r] = "reacquire"]
            /\ at' = [at EXCEPT ![r] = resident]
       ELSE /\ pc' = [pc EXCEPT ![r] = "slotless"]
            /\ UNCHANGED at
  /\ UNCHANGED <<models, closed, instances, loading, lastUsed, mdl, ctxDone,
                 monitor, load, instVars, unload, evictVars>>

JoinCancelled(r) ==
  /\ pc[r] = "join" /\ ctxDone[r]
  /\ Return(r, "silent")
  /\ UNCHANGED <<models, closed, instances, loading, lastUsed, mdl, ctxDone,
                 monitor, load, instVars, unload, evictVars>>

\* launchInstance returns.  A cancelled load may still win the race.
LaunchSucceeds(r) ==
  /\ pc[r] = "launching"
  /\ proc' = [proc EXCEPT ![r] = "running"]
  /\ pc' = [pc EXCEPT ![r] = "launched"]
  /\ UNCHANGED <<models, closed, instances, loading, lastUsed, mdl, at,
                 ctxDone, monitor, load, phase, closer, unload, evictVars,
                 asleep>>

LaunchFails(r) ==
  /\ pc[r] = "launching"
  /\ pc' = [pc EXCEPT ![r] = "launchfailed"]
  /\ UNCHANGED <<models, closed, instances, loading, lastUsed, mdl, at,
                 ctxDone, monitor, load, instVars, unload, evictVars>>

MutSettle(r, err) ==
  /\ loading' = [loading EXCEPT ![mdl[r]] = None]
  /\ load' = IF err = "ok" THEN [load EXCEPT ![r] = err] ELSE load
  /\ monitor' = [x \in Requests |-> IF monitor[x] = r THEN None ELSE monitor[x]]
  /\ evicted' = IF err = "ctx" THEN evicted ELSE evicted \ {r}
  /\ UNCHANGED <<models, closed, mdl, ctxDone, proc, unload, evictor,
                 asleep>>

\* The critical section after launchInstance: the load settles, and its
\* callers' monitors end with it.
Settle(r, err) ==
  /\ loading' = [loading EXCEPT ![mdl[r]] = None]
  /\ load' = [load EXCEPT ![r] = err]
  /\ monitor' = [x \in Requests |-> IF monitor[x] = r THEN None ELSE monitor[x]]
  /\ evicted' = IF err = "ctx" THEN evicted ELSE evicted \ {r}
  /\ UNCHANGED <<models, closed, mdl, ctxDone, proc, unload, evictor,
                 asleep>>

\* A launch that failed under a cancelled loadCtx reports the cancellation,
\* unless it had failed before.
SettleFailed(r) ==
  /\ pc[r] = "launchfailed"
  /\ \E err \in IF load[r] = "cancelled" THEN {"ctx", "failed"} ELSE {"failed"} :
       /\ Settle(r, err)
       /\ Return(r, IF err = "ctx" THEN "silent" ELSE "error")
  /\ UNCHANGED <<instances, lastUsed, phase, closer>>

SettleClosed(r) ==
  /\ pc[r] = "launched" /\ closed
  /\ Settle(r, "closed")
  /\ pc' = [pc EXCEPT ![r] = "stopown"]
  /\ UNCHANGED <<at, instances, lastUsed, phase, closer>>

\* The instance is registered with its launcher inside.  Room is made first,
\* even if the launcher then turns out to be gone or the process dead.
SettleRegister(r) ==
  LET admitted == ~ctxDone[r] /\ ~Dead(r)
      victims == IF OverCap THEN {LRUVictim} ELSE {}
      err == IF admitted THEN "ok" ELSE IF ctxDone[r] THEN "ctx" ELSE "failed"
  IN
  /\ pc[r] = "launched" /\ ~closed
  /\ Settle(r, err)
  /\ instances' = [m \in Models |->
                     IF admitted /\ m = mdl[r] THEN r
                     ELSE IF instances[m] \in victims THEN None
                     ELSE instances[m]]
  /\ phase' = [k \in Requests |->
                 IF admitted /\ k = r THEN "open"
                 ELSE IF k \in victims /\ phase[k] = "open" THEN "draining"
                 ELSE phase[k]]
  /\ closer' = [k \in Requests |->
                  IF k \in victims /\ closer[k] = "none" THEN "drain"
                  ELSE closer[k]]
  /\ Touch(r)
  /\ pc' = [pc EXCEPT ![r] = IF admitted THEN "serving" ELSE "stopown"]
  /\ UNCHANGED at

\* stopInstance on a process that was launched for nothing.
StopOwn(r) ==
  /\ pc[r] = "stopown"
  /\ proc' = [proc EXCEPT ![r] = "exited"]
  /\ Return(r, IF load[r] = "ctx" THEN "silent" ELSE "error")
  /\ UNCHANGED <<models, closed, instances, loading, lastUsed, mdl, ctxDone,
                 monitor, load, phase, closer, unload, evictVars, asleep>>

\* "keep_alive": 0: what is resident now, which need not be what r got, will
\* be drained when r ends.
SampleUnload(r) ==
  /\ pc[r] \in InFlight /\ unload[r] = <<>>
  /\ unload' = [unload EXCEPT ![r] = <<instances[mdl[r]]>>]
  /\ UNCHANGED <<models, closed, instances, loading, lastUsed, pc, mdl, at,
                 ctxDone, monitor, load, instVars, evictVars>>

Unload(r) ==
  closer' = IF unload[r] = <<None>> THEN closer ELSE StartDrain(closer, unload[r][1])

\* The request ends: release, or the empty release of a request without slot.
\* handleAPIEmbed starts its drain after the release,
Leave(r) ==
  /\ pc[r] \in InFlight /\ unload[r] # <<>>
  /\ Return(r, "done")
  /\ Unload(r)
  /\ UNCHANGED <<models, closed, instances, loading, mdl, ctxDone, monitor,
                 load, phase, proc, unload, evictVars>>
  /\ IF pc[r] = "serving" THEN Touch(at[r]) /\ Wake({at[r]})
                          ELSE UNCHANGED <<lastUsed, asleep>>

\* serveOllamaCompletion before it.
UnloadEarly(r) ==
  /\ pc[r] \in InFlight /\ unload[r] \notin {<<>>, <<None>>}
  /\ Unload(r)
  /\ unload' = [unload EXCEPT ![r] = <<None>>]
  /\ UNCHANGED <<models, closed, instances, loading, lastUsed, pc, mdl, at,
                 ctxDone, monitor, load, phase, proc, evictVars, asleep>>

-----------------------------------------------------------------------------
(* Clients that go away, and the monitors that count them.                 *)

Disconnect(r) ==
  /\ pc[r] \in Waiting /\ ~ctxDone[r]
  /\ ctxDone' = [ctxDone EXCEPT ![r] = TRUE]
  /\ UNCHANGED <<models, closed, instances, loading, lastUsed, pc, mdl, at,
                 monitor, load, instVars, unload, evictVars>>

\* The last caller to go cancels the load.  A monitor whose request returned
\* first may choose doneMonitor and never fire; one that chooses ctx.Done
\* although the load has settled can at most kill the child (ProcExits).
MonitorFires(r) ==
  LET k == monitor[r] IN
  /\ k # None /\ ctxDone[r]
  /\ load' = IF Callers(k) = {r} THEN [load EXCEPT ![k] = "cancelled"] ELSE load
  /\ monitor' = [monitor EXCEPT ![r] = None]
  /\ UNCHANGED <<models, closed, instances, loading, lastUsed, pc, mdl, at,
                 ctxDone, instVars, unload, evictVars>>

-----------------------------------------------------------------------------
(* drainAndStop and stopInstance on instance k.                            *)

\* onInstanceIdleTimeout decides to drain.
IdleTimeout(k) ==
  /\ phase[k] = "open" /\ Holders(k) = {} /\ closer[k] = "none"
  /\ closer' = [closer EXCEPT ![k] = "drain"]
  /\ UNCHANGED <<models, closed, instances, loading, lastUsed, reqVars, load,
                 phase, proc, evictVars, asleep>>

DrainBegins(k) ==
  /\ closer[k] = "drain" /\ phase[k] = "open" /\ Holders(k) # {}
  /\ phase' = [phase EXCEPT ![k] = "draining"]
  /\ UNCHANGED <<models, closed, instances, loading, lastUsed, reqVars, load,
                 closer, proc, evictVars, asleep>>

DrainNoop(k) ==
  /\ closer[k] = "drain" /\ phase[k] = "stopped"
  /\ closer' = [closer EXCEPT ![k] = "none"]
  /\ UNCHANGED <<models, closed, instances, loading, lastUsed, reqVars, load,
                 phase, proc, evictVars, asleep>>

DrainShuts(k) ==
  /\ closer[k] = "drain" /\ phase[k] # "stopped" /\ Holders(k) = {}
  /\ phase' = [phase EXCEPT ![k] = "stopped"]
  /\ closer' = [closer EXCEPT ![k] = "unregister"]
  /\ UNCHANGED <<models, closed, instances, loading, lastUsed, reqVars, load,
                 proc, evictVars, asleep>>

MutDrainUnregisters(k) ==
  /\ closer[k] = "unregister"
  /\ instances' = [instances EXCEPT ![mdl[k]] = None]
  /\ closer' = [closer EXCEPT ![k] = "stop"]
  /\ UNCHANGED <<models, closed, loading, lastUsed, reqVars, load, phase,
                 proc, evictVars, asleep>>

\* "current == ri": a successor registered meanwhile is left alone.
DrainUnregisters(k) ==
  /\ closer[k] = "unregister"
  /\ instances' = IF instances[mdl[k]] = k
                    THEN [instances EXCEPT ![mdl[k]] = None] ELSE instances
  /\ closer' = [closer EXCEPT ![k] = "stop"]
  /\ UNCHANGED <<models, closed, loading, lastUsed, reqVars, load, phase,
                 proc, evictVars, asleep>>

StopProcess(k) ==
  /\ closer[k] = "stop"
  /\ proc' = [proc EXCEPT ![k] = "exited"]
  /\ closer' = [closer EXCEPT ![k] = "done"]
  /\ UNCHANGED <<models, closed, instances, loading, lastUsed, reqVars, load,
                 phase, evictVars, asleep>>

\* A child dies by itself.
ProcExits(k) ==
  /\ proc[k] = "running"
  /\ proc' = [proc EXCEPT ![k] = "exited"]
  /\ UNCHANGED <<models, closed, instances, loading, lastUsed, reqVars, load,
                 phase, closer, evictVars, asleep>>

-----------------------------------------------------------------------------
(* Rescan, Evict, evictAllResidentInstances, Close.                        *)

\* Rescan swaps the catalogue and remembers what it orphaned ...
RescanRemoves(m) ==
  /\ evictor.pc \in {"idle", "gaveup"} /\ ~closed /\ m \in models
  /\ models' = models \ {m}
  /\ evictor' = [NoEviction EXCEPT !.pc = "sample", !.model = m]
  /\ UNCHANGED <<closed, instances, loading, lastUsed, reqVars, load,
                 instVars, evicted>>

RescanAdds(m) ==
  /\ evictor.pc \in {"idle", "gaveup"} /\ ~closed /\ m \notin models
  /\ models' = models \cup {m}
  /\ UNCHANGED <<closed, instances, loading, lastUsed, reqVars, load,
                 instVars, evictVars>>

Evict(m) ==
  /\ evictor.pc \in {"idle", "gaveup"} /\ resolveModel(m)
  /\ evictor' = [NoEviction EXCEPT !.pc = "sample", !.model = m]
  /\ UNCHANGED <<models, closed, instances, loading, lastUsed, reqVars, load,
                 instVars, evicted>>

\* ... and evictByID samples the registry and cancels a pending load,
EvictSample ==
  LET m == evictor.model IN
  /\ evictor.pc = "sample"
  /\ evictor' = [evictor EXCEPT !.pc = "drain", !.res = instances[m],
                                !.load = loading[m]]
  /\ load' = IF loading[m] = None THEN load
             ELSE [load EXCEPT ![loading[m]] = "cancelled"]
  /\ evicted' = evicted \cup ({loading[m]} \ {None})
  /\ closer' = IF instances[m] = None THEN closer
               ELSE StartDrain(closer, instances[m])
  /\ UNCHANGED <<models, closed, instances, loading, lastUsed, reqVars, phase,
                 proc, asleep>>

\* waits for the drain of what was resident, then for the load to settle,
EvictDrained ==
  LET k == evictor.res IN
  /\ evictor.pc = "drain"
  /\ k # None => phase[k] = "stopped"
  /\ evictor' = IF evictor.load = None THEN NoEviction
                ELSE [evictor EXCEPT !.pc = "await", !.res = None]
  /\ UNCHANGED <<models, closed, instances, loading, lastUsed, reqVars, load,
                 instVars, evicted>>

MutEvictSettled ==
  /\ evictor.pc = "await" /\ load[evictor.load] \in Settled
  /\ evictor' = NoEviction
  /\ UNCHANGED <<models, closed, instances, loading, lastUsed, reqVars, load,
                 instVars, evicted>>

\* and drains whatever the load left behind.
EvictSettled ==
  LET k == instances[evictor.model] IN
  /\ evictor.pc = "await" /\ load[evictor.load] \in Settled
  /\ closer' = IF k = None THEN closer ELSE StartDrain(closer, k)
  /\ evictor' = IF k = None THEN NoEviction
                ELSE [evictor EXCEPT !.pc = "drain", !.res = k, !.load = None]
  /\ UNCHANGED <<models, closed, instances, loading, lastUsed, reqVars, load,
                 phase, proc, evicted, asleep>>

\* The evictor's own context ends first.
EvictGivesUp ==
  /\ evictor.pc = "await"
  /\ evictor' = [NoEviction EXCEPT !.pc = "gaveup"]
  /\ UNCHANGED <<models, closed, instances, loading, lastUsed, reqVars, load,
                 instVars, evicted>>

\* A tuning run, or a reset of the whole tuning cache (a reset for one model
\* is an Evict).
EvictAllResidentInstances ==
  /\ Resident # {}
  /\ ForceAll
  /\ UNCHANGED <<models, closed, loading, lastUsed, reqVars, load, proc, evictVars>>

Close ==
  /\ ~closed
  /\ closed' = TRUE
  /\ ForceAll
  /\ UNCHANGED <<models, loading, lastUsed, reqVars, load, proc, evictVars>>

-----------------------------------------------------------------------------
RequestStep(r) ==
  \/ (\E m \in Models : Resolve(r, m)) \/ ResolveFails(r)
  \/ RejectClosed(r) \/ FindResident(r) \/ JoinLoad(r) \/ StartLoad(r)
  \/ Acquire(r) \/ SlotWait(r) \/ AcquireCancelled(r) \/ AcquireRefused(r)
  \/ JoinFails(r) \/ JoinSucceeds(r) \/ JoinCancelled(r)
  \/ LaunchSucceeds(r) \/ LaunchFails(r)
  \/ SettleFailed(r) \/ SettleClosed(r) \/ SettleRegister(r) \/ StopOwn(r)
  \/ SampleUnload(r) \/ UnloadEarly(r) \/ Leave(r)
  \/ Disconnect(r) \/ MonitorFires(r)

InstanceStep(k) ==
  \/ IdleTimeout(k) \/ DrainBegins(k) \/ DrainNoop(k) \/ DrainShuts(k)
  \/ DrainUnregisters(k) \/ StopProcess(k) \/ ProcExits(k)

EvictorStep ==
  \/ EvictSample \/ EvictDrained \/ EvictSettled \/ EvictGivesUp
  \/ \E m \in Evictable : RescanRemoves(m) \/ RescanAdds(m) \/ Evict(m)

Next ==
  \/ \E r \in Requests : RequestStep(r)
  \/ \E k \in Requests : InstanceStep(k)
  \/ EvictorStep
  \/ EvictAllResidentInstances
  \/ Close

Spec == Init /\ [][Next]_vars

\* Every goroutine that can go on does; a launch returns (readiness is polled
\* under a 30 s deadline); a request in flight ends.
RequestProgress(r) ==
  \/ RejectClosed(r) \/ FindResident(r) \/ JoinLoad(r) \/ StartLoad(r)
  \/ Acquire(r) \/ SlotWait(r) \/ AcquireCancelled(r) \/ AcquireRefused(r)
  \/ JoinFails(r) \/ JoinSucceeds(r) \/ JoinCancelled(r)
  \/ LaunchSucceeds(r) \/ LaunchFails(r)
  \/ SettleFailed(r) \/ SettleClosed(r) \/ SettleRegister(r) \/ StopOwn(r)
  \/ SampleUnload(r) \/ UnloadEarly(r) \/ Leave(r)

DrainProgress(k) ==
  \/ DrainBegins(k) \/ DrainNoop(k) \/ DrainShuts(k)
  \/ DrainUnregisters(k) \/ StopProcess(k)

\* This holds as long as the daemon runs: runServer returns after Close, and the
\* process may end with any of these goroutines under way.  (A drain step that
\* is enabled stays so until it is taken, so one condition for all drains asks
\* no more than one for each.)
Fairness ==
  /\ \A r \in Requests : WF_vars(~closed /\ RequestProgress(r))
  /\ WF_vars(~closed /\ \E k \in Requests : DrainProgress(k))
  /\ WF_vars(~closed /\ (EvictSample \/ EvictDrained \/ EvictSettled))

FairSpec == Spec /\ Fairness

-----------------------------------------------------------------------------
(* Safety.                                                                 *)

\* The cap of -max-instances: the registry never holds more, although a load
\* decides to make room long after it was started; and after Close it holds
\* nothing any more, in particular not what a load that was under way produced.
ResidentCap ==
  /\ MaxInstances > 0 => Cardinality(Resident) <= MaxInstances
  /\ closed => Resident = {}

\* Coalescing: a model has at most one load under way, and none while it is
\* resident, so the two never race to register.
SingleFlight ==
  /\ \A m \in Models : loading[m] # None => instances[m] = None
  /\ \A k \in Requests :
       load[k] \in {"loading", "cancelled"} => loading[mdl[k]] = k

\* Every child that runs is accounted for: registered and open to requests,
\* being drained or stopped by somebody, or still in its launcher's hands.
ProcessAccounted ==
  \A k \in Requests : proc[k] = "running" =>
    \/ instances[mdl[k]] = k
    \/ closer[k] \in {"drain", "unregister", "stop"}
    \/ pc[k] \in {"launched", "stopown"}

\* A request that joined a load goes on without a slot, where no drain waits for
\* it, only in the last moments of the process: its instance was registered, and
\* somebody has closed it to others or is about to, or the process is gone.
SlotlessOnlyWhenClosing ==
  \A r \in Requests : pc[r] = "slotless" =>
    \/ closer[at[r]] # "none" \/ phase[at[r]] \in {"draining", "stopped"}
    \/ Dead(at[r])

\* A request is left without a response only because a client of that model
\* went away: its own, or, and that is what sharing a load costs, the one that
\* launched the load, or the last that waited for it before this one came; or
\* else because an eviction has cancelled a load of that model.
SilentOnlyIfCancelled ==
  \A r \in Requests : pc[r] = "silent" =>
    \E k \in Requests : mdl[k] = mdl[r] /\ (ctxDone[k] \/ k \in evicted)

-----------------------------------------------------------------------------
(* Liveness.                                                               *)

\* Every request is answered, as long as the daemon is not closed: no load it
\* waits for is left unsettled, no slot it waits for is lost, it learns of a
\* drain although that wakes nobody, and its retries end.  (Every request comes
\* once, and an answer is final.)
RequestAnswered ==
  []~closed => <>[](\A r \in Requests : pc[r] \in {"new"} \cup Answered)

\* evictByID's wait: what a load left behind although it was cancelled does
\* not stay, unless the evictor's own context ends first, or the daemon.
EvictedLoadDies ==
  \A k \in Requests :
    evictor.pc = "await" /\ evictor.load = k
      ~> evictor.pc = "gaveup" \/ proc[k] # "running" \/ closed

\* "keep_alive": 0 unloads the model: the instance that such a request was
\* served by stops running, although the request drains whatever is resident
\* when it looks, and somebody else may have unregistered the instance before.
\* (Or the daemon closes: what it leaves running then, Daemon says.)
KeepAliveZeroUnloads ==
  \A r \in Unloading, k \in Requests :
    pc[r] = "serving" /\ at[r] = k ~> proc[k] # "running" \/ closed

-----------------------------------------------------------------------------
(* What the documentation says and the code does not do.                   *)

\* ADR-0001: the instance of a model that a rescan found missing is stopped.
\* Once the eviction has returned, no instance of that model is resident.
NoGhost ==
  evictor.pc = "idle" =>
    \A m \in Models : m \notin models => instances[m] = None
=============================================================================
