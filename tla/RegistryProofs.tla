--------------------------- MODULE RegistryProofs ---------------------------
(***************************************************************************)
(* Proofs about Registry, for every finite set of models and requests and  *)
(* every limit.                                                            *)
(***************************************************************************)
EXTENDS Registry, FiniteSetTheorems, WellFoundedInduction, TLAPS

-----------------------------------------------------------------------------
(* The inductive invariant.                                                *)

\* A load is under way exactly while its launcher is in launchInstance or on
\* its way to the critical section behind it.
Pending(k) == load[k] \in {"loading", "cancelled"}
Launching(k) == pc[k] \in {"launching", "launched", "launchfailed"}

\* Somebody closes the instance to requests, or has, or its process is gone.
Closing(k) ==
  closer[k] # "none" \/ phase[k] \in {"draining", "stopped"} \/ Dead(k)

\* Somebody is on the way to stop the process.
Stopping(k) == closer[k] \in {"drain", "unregister", "stop"}

\* A request has a model once it is resolved, and launches at most one load; one
\* whose reference fails has none.
RequestInv ==
  \A r \in Requests :
    /\ pc[r] = "new" => mdl[r] = None
    /\ mdl[r] = None => pc[r] \in {"new", "error"} /\ load[r] = "none"
    /\ pc[r] \in {"new", "resolved", "acquire", "reacquire", "join"} => load[r] = "none"
    /\ pc[r] = "stopown" => load[r] \in {"ctx", "failed", "closed"}
    /\ Pending(r) <=> Launching(r)

\* s.loading has exactly the loads under way, each under its model, and
\* whoever waits for a load or is counted by it asked for the same model.
LoadInv ==
  /\ \A k \in Requests : Pending(k) => loading[mdl[k]] = k
  /\ \A m \in Models : loading[m] # None =>
       /\ Pending(loading[m]) /\ mdl[loading[m]] = m
       /\ instances[m] = None
  /\ \A r \in Requests : monitor[r] # None =>
       Pending(monitor[r]) /\ mdl[monitor[r]] = mdl[r]
  /\ \A r \in Requests : pc[r] = "join" =>
       load[at[r]] # "none" /\ mdl[at[r]] = mdl[r]

\* Instances come from loads that succeeded; one that is not registered any
\* more is closing.
InstanceInv ==
  /\ \A m \in Models : instances[m] # None =>
       load[instances[m]] = "ok" /\ mdl[instances[m]] = m
  /\ \A k \in Requests :
       /\ phase[k] # "none" <=> load[k] = "ok"
       /\ closer[k] # "none" => load[k] = "ok"
       /\ load[k] = "ok" => instances[mdl[k]] = k \/ Closing(k)

\* What a request uses without a slot is an instance that is closing, and what
\* it will drain when it ends is an instance.
SlotlessInv ==
  \A r \in Requests : pc[r] = "slotless" => load[at[r]] = "ok" /\ Closing(at[r])

UnloadInv ==
  \A r \in Requests, k \in Requests : unload[r] = <<k>> => load[k] = "ok"

\* A process runs in its launcher's hands or for an instance, and once the
\* instance is closed or unregistered somebody is going to stop it.
ProcessInv ==
  \A k \in Requests : proc[k] = "running" =>
    /\ load[k] = "ok" \/ pc[k] \in {"launched", "stopown"}
    /\ load[k] = "ok" => instances[mdl[k]] = k \/ Stopping(k)
    /\ phase[k] \in {"draining", "stopped"} => Stopping(k)
    /\ closer[k] = "drain" => phase[k] # "stopped"
    /\ closer[k] # "done"

\* A client of the model of request k left, or an eviction cancelled a load of
\* it that ended with the cancellation.
ClientGone(k) == \E q \in Requests : mdl[q] = mdl[k] /\ ctxDone[q]
Excused(k) ==
  ClientGone(k) \/
  \E q \in Requests : mdl[q] = mdl[k] /\ q \in evicted /\ load[q] = "ctx"

CancelInv ==
  /\ \A r \in Requests : pc[r] = "silent" \/ load[r] = "ctx" => Excused(r)
  /\ \A r \in Requests : load[r] = "cancelled" => r \in evicted \/ ClientGone(r)

\* The evictor knows its model, and waits for a load only if there was one.
EvictorInv ==
  /\ evictor.pc \in {"sample", "drain", "await"} => evictor.model \in Models
  /\ evictor.pc = "await" => evictor.load # None

Inv ==
  /\ TypeOK /\ RequestInv /\ LoadInv /\ InstanceInv
  /\ SlotlessInv /\ UnloadInv /\ ProcessInv /\ CancelInv /\ EvictorInv
  /\ ResidentCap

-----------------------------------------------------------------------------
(* The operators the actions are made of.                                  *)

\* A set of numbers has a least one.
LEMMA LeastNat ==
  ASSUME NEW S \in SUBSET Nat, S # {}
  PROVE  \E x \in S : \A y \in S : x <= y
<1> DEFINE R == {ss \in Nat \X Nat : ss[1] < ss[2]}
<1>1. IsWellFoundedOn(R, Nat)
  BY NatLessThanWellFounded DEF OpToRel
<1>2. PICK x \in S : \A y \in S : ~(<<y, x>> \in R)
  <2> HIDE DEF R
  <2> QED
    BY <1>1, WFMin
<1>3. \A y \in S : ~(y < x)
  BY <1>2
<1> QED
  BY <1>3

\* evictLRULocked finds a victim whenever the cap is reached.
LEMMA VictimResident ==
  ASSUME TypeOK, OverCap
  PROVE  \E m \in Resident : LRUVictim = instances[m]
<1> DEFINE resident == {instances[m] : m \in Resident}
           used == {lastUsed[k] : k \in resident}
<1>1. Resident # {}
  BY FS_EmptySet, LimitsAssumption DEF OverCap
<1>2. used # {} /\ used \in SUBSET Nat
  BY <1>1 DEF Resident, TypeOK
<1>3. PICK x \in used : \A y \in used : x <= y
  <2> HIDE DEF used
  <2> QED
    BY <1>2, LeastNat
<1>4. PICK k \in resident : lastUsed[k] = x
  BY <1>3
<1>5. \A y \in resident : lastUsed[k] <= lastUsed[y]
  BY <1>3, <1>4
<1>6. LRUVictim = CHOOSE v \in resident : \A y \in resident : lastUsed[v] <= lastUsed[y]
  BY DEF LRUVictim
<1>7. LRUVictim \in resident
  <2> HIDE DEF resident
  <2> QED
    BY <1>4, <1>5, <1>6
<1> QED
  BY <1>7

\* A rank is a number of instances.
LEMMA TouchType ==
  ASSUME NEW k, Touch(k)
  PROVE  lastUsed' \in [Requests -> Nat]
<1> DEFINE Registered == {x \in Requests : \E m \in Models : instances'[m] = x}
           Older(x) == {y \in Registered \ {k} : lastUsed[y] < lastUsed[x]}
<1>1. \A S \in SUBSET Requests : Cardinality(S) \in Nat
  BY FiniteAssumption, FS_Subset, FS_CardinalityType
<1>2. Cardinality(Registered) \in Nat /\ \A x : Cardinality(Older(x)) \in Nat
  BY <1>1
<1>3. lastUsed' = [x \in Requests |->
                     IF x \notin Registered THEN 0
                     ELSE IF x = k THEN Cardinality(Registered)
                     ELSE Cardinality(Older(x)) + 1]
  BY DEF Touch
<1> HIDE DEF Registered, Older
<1> QED BY <1>2, <1>3

\* Whoever is past the look-up in the catalogue has a model.
LEMMA HasModel ==
  ASSUME Inv, NEW r \in Requests, pc[r] \notin {"new", "error"}
  PROVE  mdl[r] \in Models
BY DEF Inv, TypeOK, RequestInv

-----------------------------------------------------------------------------
(* Type correctness.                                                       *)

\* Every step keeps every variable in its type.
LEMMA TypeKept == Inv /\ Next => TypeOK'
<1> SUFFICES ASSUME Inv, Next PROVE TypeOK'
  OBVIOUS
<1> USE NoneAssumption, BoundsAssumption DEF evictVars, Wake, Inv, TypeOK, Waiting, InFlight,
   Answered, Settled
<1>1. ASSUME NEW r \in Requests, NEW m \in Models, Resolve(r, m) PROVE TypeOK'
  BY <1>1 DEF Resolve, RequestInv, instVars
<1>2. ASSUME NEW r \in Requests, RejectClosed(r) PROVE TypeOK'
  BY <1>2 DEF RejectClosed, Return, RequestInv, instVars
<1>3. ASSUME NEW r \in Requests, FindResident(r) PROVE TypeOK'
  <2>1. mdl[r] \in Models
    BY <1>3, HasModel DEF FindResident
  <2> QED
    BY <1>3, <2>1 DEF FindResident, instVars
<1>4. ASSUME NEW r \in Requests, JoinLoad(r) PROVE TypeOK'
  <2>1. mdl[r] \in Models
    BY <1>4, HasModel DEF JoinLoad, NoneResident
  <2> QED
    BY <1>4, <2>1 DEF JoinLoad, NoneResident
<1>5. ASSUME NEW r \in Requests, StartLoad(r) PROVE TypeOK'
  <2>1. mdl[r] \in Models
    BY <1>5, HasModel DEF StartLoad, NoneResident
  <2> QED
    BY <1>5, <2>1 DEF StartLoad, NoneResident
<1>6. ASSUME NEW r \in Requests, AcquireCancelled(r) PROVE TypeOK'
  BY <1>6 DEF AcquireCancelled, Return, RequestInv, instVars
<1>7. ASSUME NEW r \in Requests, AcquireRefused(r) PROVE TypeOK'
  <2>1. mdl[r] \in Models
    BY <1>7, HasModel DEF AcquireRefused, InAcquire
  <2> QED
    BY <1>7, <2>1 DEF AcquireRefused, InAcquire, instVars
<1>8. ASSUME NEW r \in Requests, JoinFails(r) PROVE TypeOK'
  BY <1>8 DEF JoinFails, Return, RequestInv, instVars
<1>9. ASSUME NEW r \in Requests, JoinCancelled(r) PROVE TypeOK'
  BY <1>9 DEF JoinCancelled, Return, RequestInv, instVars
<1>10. ASSUME NEW r \in Requests, LaunchSucceeds(r) PROVE TypeOK'
  BY <1>10 DEF LaunchSucceeds, RequestInv
<1>11. ASSUME NEW r \in Requests, LaunchFails(r) PROVE TypeOK'
  BY <1>11 DEF LaunchFails, RequestInv, instVars
<1>12. ASSUME NEW r \in Requests, SettleFailed(r) PROVE TypeOK'
  BY <1>12 DEF SettleFailed, Settle, Return, RequestInv
<1>13. ASSUME NEW r \in Requests, SettleClosed(r) PROVE TypeOK'
  <2>1. mdl[r] \in Models
    BY <1>13, HasModel DEF SettleClosed
  <2> QED
    BY <1>13, <2>1 DEF SettleClosed, Settle
<1>14. ASSUME NEW r \in Requests, StopOwn(r) PROVE TypeOK'
  BY <1>14 DEF StopOwn, Return, RequestInv
<1>15. ASSUME NEW r \in Requests, SampleUnload(r) PROVE TypeOK'
  <2>1. mdl[r] \in Models
    BY <1>15, HasModel DEF SampleUnload, InFlight
  <2> QED
    BY <1>15, <2>1 DEF SampleUnload, instVars
<1>16. ASSUME NEW r \in Requests, UnloadEarly(r) PROVE TypeOK'
  BY <1>16 DEF UnloadEarly, Unload, StartDrain, RequestInv
<1>17. ASSUME NEW r \in Requests, Disconnect(r) PROVE TypeOK'
  BY <1>17 DEF Disconnect, RequestInv, instVars
<1>18. ASSUME NEW r \in Requests, MonitorFires(r) PROVE TypeOK'
  BY <1>18 DEF MonitorFires, RequestInv, instVars
<1>19. ASSUME NEW r \in Requests, Acquire(r) PROVE TypeOK'
  BY <1>19, TouchType DEF Acquire, InAcquire, instVars
<1>20. ASSUME NEW r \in Requests, JoinSucceeds(r) PROVE TypeOK'
  <2>1. mdl[r] \in Models
    BY <1>20, HasModel DEF JoinSucceeds
  <2>2. /\ pc' \in [Requests -> {"new"} \cup Waiting \cup InFlight \cup Answered]
        /\ at' \in [Requests -> Requests \cup {None}]
        /\ at'[r] # None /\ pc'[r] \in {"reacquire", "slotless"}
        /\ \A q \in Requests : q # r => pc'[q] = pc[q] /\ at'[q] = at[q]
    <3>1. \/ /\ instances[mdl[r]] # None /\ pc' = [pc EXCEPT ![r] = "reacquire"]
             /\ at' = [at EXCEPT ![r] = instances[mdl[r]]]
          \/ pc' = [pc EXCEPT ![r] = "slotless"] /\ at' = at
      BY <1>20 DEF JoinSucceeds
    <3>2. at[r] \in Requests /\ instances[mdl[r]] \in Requests \cup {None}
      BY <1>20, <2>1 DEF JoinSucceeds
    <3>3. CASE /\ instances[mdl[r]] # None /\ pc' = [pc EXCEPT ![r] = "reacquire"]
               /\ at' = [at EXCEPT ![r] = instances[mdl[r]]]
      BY <3>2, <3>3
    <3>4. CASE pc' = [pc EXCEPT ![r] = "slotless"] /\ at' = at
      BY <3>2, <3>4
    <3> QED
      BY <3>1, <3>3, <3>4
  <2>3. UNCHANGED <<models, closed, instances, loading, lastUsed, mdl, ctxDone,
                    monitor, load, phase, closer, proc, unload, evictor,
                    asleep, evicted>>
    BY <1>20 DEF JoinSucceeds, instVars
  <2> QED
    BY <2>2, <2>3
<1>21. ASSUME NEW r \in Requests, SettleRegister(r) PROVE TypeOK'
  <2>1. mdl[r] \in Models
    BY <1>21, HasModel DEF SettleRegister
  <2> QED
    BY <1>21, <2>1, TouchType DEF SettleRegister, Settle
<1>22. ASSUME NEW r \in Requests, Leave(r) PROVE TypeOK'
  BY <1>22, TouchType DEF Leave, Return, Unload, StartDrain
<1>23. ASSUME NEW k \in Requests, IdleTimeout(k) PROVE TypeOK'
  BY <1>23 DEF IdleTimeout, reqVars
<1>24. ASSUME NEW k \in Requests, DrainBegins(k) PROVE TypeOK'
  BY <1>24 DEF DrainBegins, reqVars
<1>25. ASSUME NEW k \in Requests, DrainNoop(k) PROVE TypeOK'
  BY <1>25 DEF DrainNoop, reqVars
<1>26. ASSUME NEW k \in Requests, DrainShuts(k) PROVE TypeOK'
  BY <1>26 DEF DrainShuts, reqVars
<1>27. ASSUME NEW k \in Requests, DrainUnregisters(k) PROVE TypeOK'
  BY <1>27 DEF DrainUnregisters, reqVars
<1>28. ASSUME NEW k \in Requests, StopProcess(k) PROVE TypeOK'
  BY <1>28 DEF StopProcess, reqVars
<1>29. ASSUME NEW k \in Requests, ProcExits(k) PROVE TypeOK'
  BY <1>29 DEF ProcExits, reqVars
<1>30. ASSUME NEW m \in Evictable, RescanRemoves(m) PROVE TypeOK'
  BY <1>30 DEF RescanRemoves, reqVars, instVars, NoEviction
<1>31. ASSUME NEW m \in Evictable, RescanAdds(m) PROVE TypeOK'
  BY <1>31 DEF RescanAdds, reqVars, instVars
<1>32. ASSUME NEW m \in Evictable, Evict(m) PROVE TypeOK'
  BY <1>32 DEF Evict, reqVars, instVars, NoEviction
<1>33. ASSUME EvictSample PROVE TypeOK'
  <2>1. evictor.model \in Models
    BY <1>33 DEF EvictSample, EvictorInv
  <2>2. evicted' \subseteq Requests
    BY <1>33, <2>1 DEF EvictSample
  <2> QED
    BY <1>33, <2>1, <2>2 DEF EvictSample, reqVars, StartDrain
<1>34. ASSUME EvictDrained PROVE TypeOK'
  BY <1>34 DEF EvictDrained, reqVars, instVars, NoEviction, EvictorInv
<1>35. ASSUME EvictSettled PROVE TypeOK'
  BY <1>35 DEF EvictSettled, reqVars, NoEviction, StartDrain, EvictorInv
<1>36. ASSUME EvictGivesUp PROVE TypeOK'
  BY <1>36 DEF EvictGivesUp, reqVars, instVars, NoEviction, EvictorInv
<1>37. ASSUME EvictAllResidentInstances PROVE TypeOK'
  BY <1>37 DEF EvictAllResidentInstances, reqVars, ForceAll, Resident
<1>38. ASSUME Close PROVE TypeOK'
  BY <1>38 DEF Close, reqVars, ForceAll, Resident
<1>39. ASSUME NEW r \in Requests, ResolveFails(r) PROVE TypeOK'
  BY <1>39 DEF ResolveFails, Return, instVars
<1>40. ASSUME NEW r \in Requests, SlotWait(r) PROVE TypeOK'
  BY <1>40 DEF SlotWait, InAcquire, reqVars
<1> HIDE DEF Inv, TypeOK
<1> QED
  BY <1>1, <1>2, <1>3, <1>4, <1>5, <1>6, <1>7, <1>8, <1>9, <1>10, <1>11,
     <1>12, <1>13, <1>14, <1>15, <1>16, <1>17, <1>18, <1>19, <1>20, <1>21,
     <1>22, <1>23, <1>24, <1>25, <1>26, <1>27, <1>28, <1>29, <1>30, <1>31,
     <1>32, <1>33, <1>34, <1>35, <1>36, <1>37, <1>38, <1>39, <1>40 DEF Next, RequestStep,
     InstanceStep, EvictorStep

-----------------------------------------------------------------------------
(* Facts that several steps need.                                          *)

\* What a request drains when it ends: nothing, or an instance nobody drains yet.
LEMMA UnloadFacts ==
  ASSUME Inv, NEW r \in Requests, unload[r] # <<>>, Unload(r)
  PROVE  \/ closer' = closer
         \/ \E k \in Requests : /\ load[k] = "ok" /\ closer[k] = "none"
                                /\ closer' = [closer EXCEPT ![k] = "drain"]
<1>1. PICK k \in Requests \cup {None} : unload[r] = <<k>>
  BY DEF Inv, TypeOK
<1>2. CASE k = None
  BY <1>1, <1>2 DEF Unload
<1>3. CASE k # None
  <2>1. unload[r] # <<None>> /\ unload[r][1] = k /\ k \in Requests
    BY <1>1, <1>3
  <2>2. load[k] = "ok"
    BY <1>1, <2>1 DEF Inv, UnloadInv
  <2>3. closer' = StartDrain(closer, k)
    BY <2>1 DEF Unload
  <2> QED
    BY <2>1, <2>2, <2>3 DEF StartDrain
<1> QED
  BY <1>2, <1>3

\* The load that settles was pending, so that nobody uses an instance of it.
LEMMA LaunchedFacts ==
  ASSUME Inv, NEW r \in Requests, Launching(r)
  PROVE  /\ Pending(r) /\ load[r] # "ok"
         /\ phase[r] = "none" /\ closer[r] = "none"
         /\ \A m \in Models : instances[m] # r
         /\ mdl[r] \in Models /\ instances[mdl[r]] = None
         /\ \A q \in Requests : pc[q] = "slotless" => at[q] # r
<1>1. Pending(r) /\ load[r] # "ok" /\ mdl[r] \in Models
  BY DEF Inv, TypeOK, RequestInv, Pending, Launching
<1>2. phase[r] = "none" /\ closer[r] = "none" /\ \A m \in Models : instances[m] # r
  BY <1>1, NoneAssumption DEF Inv, TypeOK, InstanceInv
<1>3. instances[mdl[r]] = None
  BY <1>1, NoneAssumption DEF Inv, LoadInv
<1>4. \A q \in Requests : pc[q] = "slotless" => at[q] # r
  BY <1>1 DEF Inv, SlotlessInv
<1> QED
  BY <1>1, <1>2, <1>3, <1>4

\* A load that succeeded stays so, and an instance that is closing too.
ClosingStays ==
  \A k \in Requests : load[k] = "ok" =>
    load'[k] = "ok" /\ (Closing(k) => Closing(k)')

-----------------------------------------------------------------------------
(* The other parts of the invariant, one step per action.                  *)

\* A request has its model and at most one load.
LEMMA RequestKept == Inv /\ Next => RequestInv'
<1> SUFFICES ASSUME Inv, Next PROVE RequestInv'
  OBVIOUS
<1>0. TypeOK /\ RequestInv /\ LoadInv /\ EvictorInv
  BY DEF Inv
<1> USE <1>0, NoneAssumption, BoundsAssumption DEF evictVars, TypeOK, RequestInv,
   LoadInv, EvictorInv, Pending, Launching, Waiting
<1>1. ASSUME NEW r \in Requests, NEW m \in Models, Resolve(r, m)
      PROVE  RequestInv'
  BY <1>1 DEF Resolve, instVars
<1>2. ASSUME NEW r \in Requests, RejectClosed(r) PROVE RequestInv'
  BY <1>2 DEF RejectClosed, Return, instVars
<1>3. ASSUME NEW r \in Requests, FindResident(r) PROVE RequestInv'
  BY <1>3 DEF FindResident, instVars
<1>4. ASSUME NEW r \in Requests, JoinLoad(r) PROVE RequestInv'
  BY <1>4 DEF JoinLoad, NoneResident
<1>5. ASSUME NEW r \in Requests, StartLoad(r) PROVE RequestInv'
  BY <1>5 DEF StartLoad, NoneResident
<1>6. ASSUME NEW r \in Requests, Acquire(r) PROVE RequestInv'
  BY <1>6 DEF Acquire, InAcquire, instVars
<1>7. ASSUME NEW r \in Requests, AcquireCancelled(r) PROVE RequestInv'
  BY <1>7 DEF AcquireCancelled, Return, instVars
<1>8. ASSUME NEW r \in Requests, AcquireRefused(r) PROVE RequestInv'
  BY <1>8 DEF AcquireRefused, InAcquire, instVars
<1>9. ASSUME NEW r \in Requests, JoinFails(r) PROVE RequestInv'
  BY <1>9 DEF JoinFails, Return, instVars
<1>10. ASSUME NEW r \in Requests, JoinSucceeds(r) PROVE RequestInv'
  BY <1>10 DEF JoinSucceeds, instVars
<1>11. ASSUME NEW r \in Requests, JoinCancelled(r) PROVE RequestInv'
  BY <1>11 DEF JoinCancelled, Return, instVars
<1>12. ASSUME NEW r \in Requests, LaunchSucceeds(r) PROVE RequestInv'
  BY <1>12 DEF LaunchSucceeds
<1>13. ASSUME NEW r \in Requests, LaunchFails(r) PROVE RequestInv'
  BY <1>13 DEF LaunchFails, instVars
<1>14. ASSUME NEW r \in Requests, SettleFailed(r) PROVE RequestInv'
  BY <1>14 DEF SettleFailed, Settle, Return
<1>15. ASSUME NEW r \in Requests, SettleClosed(r) PROVE RequestInv'
  BY <1>15 DEF SettleClosed, Settle
<1>16. ASSUME NEW r \in Requests, SettleRegister(r) PROVE RequestInv'
  BY <1>16 DEF SettleRegister, Settle
<1>17. ASSUME NEW r \in Requests, StopOwn(r) PROVE RequestInv'
  BY <1>17 DEF StopOwn, Return
<1>18. ASSUME NEW r \in Requests, SampleUnload(r) PROVE RequestInv'
  BY <1>18 DEF SampleUnload, InFlight, instVars
<1>19. ASSUME NEW r \in Requests, UnloadEarly(r) PROVE RequestInv'
  BY <1>19 DEF UnloadEarly, Unload, StartDrain
<1>20. ASSUME NEW r \in Requests, Leave(r) PROVE RequestInv'
  BY <1>20 DEF Leave, Return, Unload, StartDrain, InFlight
<1>21. ASSUME NEW r \in Requests, Disconnect(r) PROVE RequestInv'
  BY <1>21 DEF Disconnect, instVars
<1>22. ASSUME NEW r \in Requests, MonitorFires(r) PROVE RequestInv'
  BY <1>22 DEF MonitorFires, instVars
<1>23. ASSUME NEW k \in Requests, IdleTimeout(k) PROVE RequestInv'
  BY <1>23 DEF IdleTimeout, reqVars
<1>24. ASSUME NEW k \in Requests, DrainBegins(k) PROVE RequestInv'
  BY <1>24 DEF DrainBegins, reqVars
<1>25. ASSUME NEW k \in Requests, DrainNoop(k) PROVE RequestInv'
  BY <1>25 DEF DrainNoop, reqVars
<1>26. ASSUME NEW k \in Requests, DrainShuts(k) PROVE RequestInv'
  BY <1>26 DEF DrainShuts, reqVars
<1>27. ASSUME NEW k \in Requests, DrainUnregisters(k) PROVE RequestInv'
  BY <1>27 DEF DrainUnregisters, reqVars
<1>28. ASSUME NEW k \in Requests, StopProcess(k) PROVE RequestInv'
  BY <1>28 DEF StopProcess, reqVars
<1>29. ASSUME NEW k \in Requests, ProcExits(k) PROVE RequestInv'
  BY <1>29 DEF ProcExits, reqVars
<1>30. ASSUME NEW m \in Evictable, RescanRemoves(m) PROVE RequestInv'
  BY <1>30 DEF RescanRemoves, reqVars, NoEviction, instVars
<1>31. ASSUME NEW m \in Evictable, RescanAdds(m) PROVE RequestInv'
  BY <1>31 DEF RescanAdds, reqVars, instVars
<1>32. ASSUME NEW m \in Evictable, Evict(m) PROVE RequestInv'
  BY <1>32 DEF Evict, reqVars, NoEviction, instVars
<1>33. ASSUME EvictSample PROVE RequestInv'
  BY <1>33 DEF EvictSample, reqVars, StartDrain
<1>34. ASSUME EvictDrained PROVE RequestInv'
  BY <1>34 DEF EvictDrained, reqVars, NoEviction, instVars
<1>35. ASSUME EvictSettled PROVE RequestInv'
  BY <1>35 DEF EvictSettled, reqVars, NoEviction, StartDrain
<1>36. ASSUME EvictGivesUp PROVE RequestInv'
  BY <1>36 DEF EvictGivesUp, reqVars, NoEviction, instVars
<1>37. ASSUME EvictAllResidentInstances PROVE RequestInv'
  BY <1>37 DEF EvictAllResidentInstances, ForceAll, Resident, reqVars
<1>38. ASSUME Close PROVE RequestInv'
  BY <1>38 DEF Close, ForceAll, Resident, reqVars
<1>39. ASSUME NEW r \in Requests, ResolveFails(r) PROVE RequestInv'
  BY <1>39 DEF ResolveFails, Return, instVars
<1>40. ASSUME NEW r \in Requests, SlotWait(r) PROVE RequestInv'
  BY <1>40 DEF SlotWait, InAcquire, reqVars
<1> QED
  BY <1>1, <1>2, <1>3, <1>4, <1>5, <1>6, <1>7, <1>8, <1>9, <1>10, <1>11,
     <1>12, <1>13, <1>14, <1>15, <1>16, <1>17, <1>18, <1>19, <1>20, <1>21,
     <1>22, <1>23, <1>24, <1>25, <1>26, <1>27, <1>28, <1>29, <1>30, <1>31,
     <1>32, <1>33, <1>34, <1>35, <1>36, <1>37, <1>38, <1>39, <1>40 DEF Next, RequestStep,
     InstanceStep, EvictorStep

\* s.loading agrees with the loads under way, through joins, cancellations and
\* evictions.
LEMMA LoadKept == Inv /\ Next => LoadInv'
<1> SUFFICES ASSUME Inv, Next PROVE LoadInv'
  OBVIOUS
<1>0. TypeOK /\ RequestInv /\ LoadInv /\ InstanceInv /\ EvictorInv
  BY DEF Inv
<1> USE <1>0, NoneAssumption, BoundsAssumption DEF evictVars, TypeOK, RequestInv,
   LoadInv, InstanceInv, EvictorInv, Pending, Launching, Waiting, Settled
<1>1. ASSUME NEW r \in Requests, NEW m \in Models, Resolve(r, m) PROVE LoadInv'
  BY <1>1 DEF Resolve, instVars
<1>2. ASSUME NEW r \in Requests, RejectClosed(r) PROVE LoadInv'
  BY <1>2 DEF RejectClosed, Return, instVars
<1>3. ASSUME NEW r \in Requests, FindResident(r) PROVE LoadInv'
  BY <1>3 DEF FindResident, instVars
<1>4. ASSUME NEW r \in Requests, JoinLoad(r) PROVE LoadInv'
  <2>1. mdl[r] \in Models
    BY <1>4, HasModel DEF JoinLoad, NoneResident
  <2> QED
    BY <1>4, <2>1 DEF JoinLoad, NoneResident
<1>5. ASSUME NEW r \in Requests, StartLoad(r) PROVE LoadInv'
  <2>1. mdl[r] \in Models
    BY <1>5, HasModel DEF StartLoad, NoneResident
  <2> QED
    BY <1>5, <2>1 DEF StartLoad, NoneResident
<1>6. ASSUME NEW r \in Requests, Acquire(r) PROVE LoadInv'
  BY <1>6 DEF Acquire, InAcquire, instVars
<1>7. ASSUME NEW r \in Requests, AcquireCancelled(r) PROVE LoadInv'
  BY <1>7 DEF AcquireCancelled, Return, instVars
<1>8. ASSUME NEW r \in Requests, AcquireRefused(r) PROVE LoadInv'
  BY <1>8 DEF AcquireRefused, InAcquire, instVars
<1>9. ASSUME NEW r \in Requests, JoinFails(r) PROVE LoadInv'
  BY <1>9 DEF JoinFails, Return, instVars
<1>10. ASSUME NEW r \in Requests, JoinSucceeds(r) PROVE LoadInv'
  <2>1. mdl[r] \in Models
    BY <1>10, HasModel DEF JoinSucceeds
  <2> QED
    BY <1>10, <2>1 DEF JoinSucceeds, instVars
<1>11. ASSUME NEW r \in Requests, JoinCancelled(r) PROVE LoadInv'
  BY <1>11 DEF JoinCancelled, Return, instVars
<1>12. ASSUME NEW r \in Requests, LaunchSucceeds(r) PROVE LoadInv'
  BY <1>12 DEF LaunchSucceeds
<1>13. ASSUME NEW r \in Requests, LaunchFails(r) PROVE LoadInv'
  BY <1>13 DEF LaunchFails, instVars
<1>14. ASSUME NEW r \in Requests, SettleFailed(r) PROVE LoadInv'
  BY <1>14 DEF SettleFailed, Settle, Return
<1>15. ASSUME NEW r \in Requests, SettleClosed(r) PROVE LoadInv'
  BY <1>15 DEF SettleClosed, Settle
<1>16. ASSUME NEW r \in Requests, SettleRegister(r) PROVE LoadInv'
  BY <1>16 DEF SettleRegister, Settle
<1>17. ASSUME NEW r \in Requests, StopOwn(r) PROVE LoadInv'
  BY <1>17 DEF StopOwn, Return
<1>18. ASSUME NEW r \in Requests, SampleUnload(r) PROVE LoadInv'
  BY <1>18 DEF SampleUnload, InFlight, instVars
<1>19. ASSUME NEW r \in Requests, UnloadEarly(r) PROVE LoadInv'
  BY <1>19 DEF UnloadEarly, Unload, StartDrain
<1>20. ASSUME NEW r \in Requests, Leave(r) PROVE LoadInv'
  BY <1>20 DEF Leave, Return, Unload, StartDrain, InFlight
<1>21. ASSUME NEW r \in Requests, Disconnect(r) PROVE LoadInv'
  BY <1>21 DEF Disconnect, instVars
<1>22. ASSUME NEW r \in Requests, MonitorFires(r) PROVE LoadInv'
  BY <1>22 DEF MonitorFires, instVars
<1>23. ASSUME NEW k \in Requests, IdleTimeout(k) PROVE LoadInv'
  BY <1>23 DEF IdleTimeout, reqVars
<1>24. ASSUME NEW k \in Requests, DrainBegins(k) PROVE LoadInv'
  BY <1>24 DEF DrainBegins, reqVars
<1>25. ASSUME NEW k \in Requests, DrainNoop(k) PROVE LoadInv'
  BY <1>25 DEF DrainNoop, reqVars
<1>26. ASSUME NEW k \in Requests, DrainShuts(k) PROVE LoadInv'
  BY <1>26 DEF DrainShuts, reqVars
<1>27. ASSUME NEW k \in Requests, DrainUnregisters(k) PROVE LoadInv'
  BY <1>27 DEF DrainUnregisters, reqVars
<1>28. ASSUME NEW k \in Requests, StopProcess(k) PROVE LoadInv'
  BY <1>28 DEF StopProcess, reqVars
<1>29. ASSUME NEW k \in Requests, ProcExits(k) PROVE LoadInv'
  BY <1>29 DEF ProcExits, reqVars
<1>30. ASSUME NEW m \in Evictable, RescanRemoves(m) PROVE LoadInv'
  BY <1>30 DEF RescanRemoves, reqVars, NoEviction, instVars
<1>31. ASSUME NEW m \in Evictable, RescanAdds(m) PROVE LoadInv'
  BY <1>31 DEF RescanAdds, reqVars, instVars
<1>32. ASSUME NEW m \in Evictable, Evict(m) PROVE LoadInv'
  BY <1>32 DEF Evict, reqVars, NoEviction, instVars
<1>33. ASSUME EvictSample PROVE LoadInv'
  BY <1>33 DEF EvictSample, reqVars, StartDrain
<1>34. ASSUME EvictDrained PROVE LoadInv'
  BY <1>34 DEF EvictDrained, reqVars, NoEviction, instVars
<1>35. ASSUME EvictSettled PROVE LoadInv'
  BY <1>35 DEF EvictSettled, reqVars, NoEviction, StartDrain
<1>36. ASSUME EvictGivesUp PROVE LoadInv'
  BY <1>36 DEF EvictGivesUp, reqVars, NoEviction, instVars
<1>37. ASSUME EvictAllResidentInstances PROVE LoadInv'
  BY <1>37 DEF EvictAllResidentInstances, ForceAll, Resident, reqVars
<1>38. ASSUME Close PROVE LoadInv'
  BY <1>38 DEF Close, ForceAll, Resident, reqVars
<1>39. ASSUME NEW r \in Requests, ResolveFails(r) PROVE LoadInv'
  BY <1>39 DEF ResolveFails, Return, instVars
<1>40. ASSUME NEW r \in Requests, SlotWait(r) PROVE LoadInv'
  BY <1>40 DEF SlotWait, InAcquire, reqVars
<1> QED
  BY <1>1, <1>2, <1>3, <1>4, <1>5, <1>6, <1>7, <1>8, <1>9, <1>10, <1>11,
     <1>12, <1>13, <1>14, <1>15, <1>16, <1>17, <1>18, <1>19, <1>20, <1>21,
     <1>22, <1>23, <1>24, <1>25, <1>26, <1>27, <1>28, <1>29, <1>30, <1>31,
     <1>32, <1>33, <1>34, <1>35, <1>36, <1>37, <1>38, <1>39, <1>40 DEF Next, RequestStep,
     InstanceStep, EvictorStep

\* Nothing takes a success back or opens an instance again.
LEMMA ClosingKept == Inv /\ Next => ClosingStays
<1> SUFFICES ASSUME Inv, Next PROVE ClosingStays
  OBVIOUS
<1>0. TypeOK /\ RequestInv /\ LoadInv /\ InstanceInv /\ EvictorInv
  BY DEF Inv
<1> USE <1>0, NoneAssumption, BoundsAssumption DEF evictVars, TypeOK, RequestInv,
   LoadInv, InstanceInv, EvictorInv, Pending, Launching, Closing, Dead,
   ClosingStays, ClosingStays
<1>1. ASSUME NEW r \in Requests, NEW m \in Models, Resolve(r, m)
      PROVE  ClosingStays
  BY <1>1 DEF Resolve, instVars
<1>2. ASSUME NEW r \in Requests, RejectClosed(r) PROVE ClosingStays
  BY <1>2 DEF RejectClosed, Return, instVars
<1>3. ASSUME NEW r \in Requests, FindResident(r) PROVE ClosingStays
  BY <1>3 DEF FindResident, instVars
<1>4. ASSUME NEW r \in Requests, JoinLoad(r) PROVE ClosingStays
  BY <1>4 DEF JoinLoad, NoneResident
<1>5. ASSUME NEW r \in Requests, StartLoad(r) PROVE ClosingStays
  BY <1>5 DEF StartLoad, NoneResident
<1>6. ASSUME NEW r \in Requests, Acquire(r) PROVE ClosingStays
  BY <1>6 DEF Acquire, InAcquire, instVars
<1>7. ASSUME NEW r \in Requests, AcquireCancelled(r) PROVE ClosingStays
  BY <1>7 DEF AcquireCancelled, Return, instVars
<1>8. ASSUME NEW r \in Requests, AcquireRefused(r) PROVE ClosingStays
  BY <1>8 DEF AcquireRefused, InAcquire, instVars
<1>9. ASSUME NEW r \in Requests, JoinFails(r) PROVE ClosingStays
  BY <1>9 DEF JoinFails, Return, instVars
<1>10. ASSUME NEW r \in Requests, JoinSucceeds(r) PROVE ClosingStays
  BY <1>10 DEF JoinSucceeds, instVars
<1>11. ASSUME NEW r \in Requests, JoinCancelled(r) PROVE ClosingStays
  BY <1>11 DEF JoinCancelled, Return, instVars
<1>12. ASSUME NEW r \in Requests, LaunchSucceeds(r) PROVE ClosingStays
  BY <1>12, LaunchedFacts DEF LaunchSucceeds
<1>13. ASSUME NEW r \in Requests, LaunchFails(r) PROVE ClosingStays
  BY <1>13 DEF LaunchFails, instVars
<1>14. ASSUME NEW r \in Requests, SettleFailed(r) PROVE ClosingStays
  BY <1>14 DEF SettleFailed, Settle, Return
<1>15. ASSUME NEW r \in Requests, SettleClosed(r) PROVE ClosingStays
  <2>1. Launching(r)
    BY <1>15 DEF SettleClosed
  <2> QED
    BY <1>15, <2>1, LaunchedFacts DEF SettleClosed, Settle
<1>16. ASSUME NEW r \in Requests, SettleRegister(r) PROVE ClosingStays
  <2>1. Launching(r)
    BY <1>16 DEF SettleRegister
  <2> QED
    BY <1>16, <2>1, LaunchedFacts DEF SettleRegister, Settle
<1>17. ASSUME NEW r \in Requests, StopOwn(r) PROVE ClosingStays
  BY <1>17 DEF StopOwn, Return
<1>18. ASSUME NEW r \in Requests, SampleUnload(r) PROVE ClosingStays
  BY <1>18 DEF SampleUnload, InFlight, instVars
<1>19. ASSUME NEW r \in Requests, UnloadEarly(r) PROVE ClosingStays
  <2>1. unload[r] # <<>> /\ Unload(r)
    BY <1>19 DEF UnloadEarly
  <2>2. \/ closer' = closer
        \/ \E k \in Requests : /\ load[k] = "ok" /\ closer[k] = "none"
                               /\ closer' = [closer EXCEPT ![k] = "drain"]
    BY <2>1, UnloadFacts
  <2> QED
    BY <1>19, <2>2 DEF UnloadEarly
<1>20. ASSUME NEW r \in Requests, Leave(r) PROVE ClosingStays
  <2>1. unload[r] # <<>> /\ Unload(r)
    BY <1>20 DEF Leave
  <2>2. \/ closer' = closer
        \/ \E k \in Requests : /\ load[k] = "ok" /\ closer[k] = "none"
                               /\ closer' = [closer EXCEPT ![k] = "drain"]
    BY <2>1, UnloadFacts
  <2> QED
    BY <1>20, <2>2 DEF Leave, Return
<1>21. ASSUME NEW r \in Requests, Disconnect(r) PROVE ClosingStays
  BY <1>21 DEF Disconnect, instVars
<1>22. ASSUME NEW r \in Requests, MonitorFires(r) PROVE ClosingStays
  BY <1>22 DEF MonitorFires, instVars
<1>23. ASSUME NEW k \in Requests, IdleTimeout(k) PROVE ClosingStays
  BY <1>23 DEF IdleTimeout, reqVars
<1>24. ASSUME NEW k \in Requests, DrainBegins(k) PROVE ClosingStays
  BY <1>24 DEF DrainBegins, reqVars
<1>25. ASSUME NEW k \in Requests, DrainNoop(k) PROVE ClosingStays
  BY <1>25 DEF DrainNoop, reqVars
<1>26. ASSUME NEW k \in Requests, DrainShuts(k) PROVE ClosingStays
  BY <1>26 DEF DrainShuts, reqVars
<1>27. ASSUME NEW k \in Requests, DrainUnregisters(k) PROVE ClosingStays
  BY <1>27 DEF DrainUnregisters, reqVars
<1>28. ASSUME NEW k \in Requests, StopProcess(k) PROVE ClosingStays
  BY <1>28 DEF StopProcess, reqVars
<1>29. ASSUME NEW k \in Requests, ProcExits(k) PROVE ClosingStays
  BY <1>29 DEF ProcExits, reqVars
<1>30. ASSUME NEW m \in Evictable, RescanRemoves(m) PROVE ClosingStays
  BY <1>30 DEF RescanRemoves, reqVars, NoEviction, instVars
<1>31. ASSUME NEW m \in Evictable, RescanAdds(m) PROVE ClosingStays
  BY <1>31 DEF RescanAdds, reqVars, instVars
<1>32. ASSUME NEW m \in Evictable, Evict(m) PROVE ClosingStays
  BY <1>32 DEF Evict, reqVars, NoEviction, instVars
<1>33. ASSUME EvictSample PROVE ClosingStays
  <2>1. evictor.model \in Models
    BY <1>33 DEF EvictSample
  <2>2. loading[evictor.model] # None => load[loading[evictor.model]] # "ok"
    BY <2>1
  <2> QED
    BY <1>33, <2>1, <2>2 DEF EvictSample, StartDrain, reqVars
<1>34. ASSUME EvictDrained PROVE ClosingStays
  BY <1>34 DEF EvictDrained, reqVars, NoEviction, instVars
<1>35. ASSUME EvictSettled PROVE ClosingStays
  BY <1>35 DEF EvictSettled, reqVars, NoEviction, StartDrain
<1>36. ASSUME EvictGivesUp PROVE ClosingStays
  BY <1>36 DEF EvictGivesUp, reqVars, NoEviction, instVars
<1>37. ASSUME EvictAllResidentInstances PROVE ClosingStays
  BY <1>37 DEF EvictAllResidentInstances, ForceAll, Resident, reqVars
<1>38. ASSUME Close PROVE ClosingStays
  BY <1>38 DEF Close, ForceAll, Resident, reqVars
<1>39. ASSUME NEW r \in Requests, ResolveFails(r) PROVE ClosingStays
  BY <1>39 DEF ResolveFails, Return, instVars
<1>40. ASSUME NEW r \in Requests, SlotWait(r) PROVE ClosingStays
  BY <1>40 DEF SlotWait, InAcquire, reqVars
<1> QED
  BY <1>1, <1>2, <1>3, <1>4, <1>5, <1>6, <1>7, <1>8, <1>9, <1>10, <1>11,
     <1>12, <1>13, <1>14, <1>15, <1>16, <1>17, <1>18, <1>19, <1>20, <1>21,
     <1>22, <1>23, <1>24, <1>25, <1>26, <1>27, <1>28, <1>29, <1>30, <1>31,
     <1>32, <1>33, <1>34, <1>35, <1>36, <1>37, <1>38, <1>39, <1>40 DEF Next, RequestStep,
     InstanceStep, EvictorStep

\* What leaves the registry is closing.
LEMMA InstanceKept == Inv /\ Next => InstanceInv'
<1> SUFFICES ASSUME Inv, Next PROVE InstanceInv'
  OBVIOUS
<1>0. TypeOK /\ RequestInv /\ LoadInv /\ InstanceInv /\ EvictorInv
  BY DEF Inv
<1> USE <1>0, NoneAssumption, BoundsAssumption DEF evictVars, TypeOK, RequestInv,
   LoadInv, InstanceInv, EvictorInv, Pending, Launching, Closing, Dead
<1>1. ASSUME NEW r \in Requests, NEW m \in Models, Resolve(r, m)
      PROVE  InstanceInv'
  BY <1>1 DEF Resolve, instVars
<1>2. ASSUME NEW r \in Requests, RejectClosed(r) PROVE InstanceInv'
  BY <1>2 DEF RejectClosed, Return, instVars
<1>3. ASSUME NEW r \in Requests, FindResident(r) PROVE InstanceInv'
  BY <1>3 DEF FindResident, instVars
<1>4. ASSUME NEW r \in Requests, JoinLoad(r) PROVE InstanceInv'
  <2>1. mdl[r] \in Models
    BY <1>4, HasModel DEF JoinLoad, NoneResident
  <2> QED
    BY <1>4, <2>1 DEF JoinLoad, NoneResident
<1>5. ASSUME NEW r \in Requests, StartLoad(r) PROVE InstanceInv'
  BY <1>5 DEF StartLoad, NoneResident
<1>6. ASSUME NEW r \in Requests, Acquire(r) PROVE InstanceInv'
  BY <1>6 DEF Acquire, InAcquire, instVars
<1>7. ASSUME NEW r \in Requests, AcquireCancelled(r) PROVE InstanceInv'
  BY <1>7 DEF AcquireCancelled, Return, instVars
<1>8. ASSUME NEW r \in Requests, AcquireRefused(r) PROVE InstanceInv'
  BY <1>8 DEF AcquireRefused, InAcquire, instVars
<1>9. ASSUME NEW r \in Requests, JoinFails(r) PROVE InstanceInv'
  BY <1>9 DEF JoinFails, Return, instVars
<1>10. ASSUME NEW r \in Requests, JoinSucceeds(r) PROVE InstanceInv'
  BY <1>10 DEF JoinSucceeds, instVars
<1>11. ASSUME NEW r \in Requests, JoinCancelled(r) PROVE InstanceInv'
  BY <1>11 DEF JoinCancelled, Return, instVars
<1>12. ASSUME NEW r \in Requests, LaunchSucceeds(r) PROVE InstanceInv'
  BY <1>12, LaunchedFacts DEF LaunchSucceeds
<1>13. ASSUME NEW r \in Requests, LaunchFails(r) PROVE InstanceInv'
  BY <1>13 DEF LaunchFails, instVars
<1>14. ASSUME NEW r \in Requests, SettleFailed(r) PROVE InstanceInv'
  BY <1>14 DEF SettleFailed, Settle, Return
<1>15. ASSUME NEW r \in Requests, SettleClosed(r) PROVE InstanceInv'
  <2>1. Launching(r)
    BY <1>15 DEF SettleClosed
  <2> QED
    BY <1>15, <2>1, LaunchedFacts DEF SettleClosed, Settle
<1>16. ASSUME NEW r \in Requests, SettleRegister(r) PROVE InstanceInv'
  <2>1. Launching(r)
    BY <1>16 DEF SettleRegister
  <2>2. /\ load[r] # "ok" /\ phase[r] = "none" /\ closer[r] = "none"
        /\ \A m \in Models : instances[m] # r
        /\ mdl[r] \in Models /\ instances[mdl[r]] = None
    BY <2>1, LaunchedFacts
  <2>v. OverCap => LRUVictim \in Requests /\ load[LRUVictim] = "ok"
    BY VictimResident DEF Resident
  <2>3. \A m \in Models : instances'[m] # None =>
          load'[instances'[m]] = "ok" /\ mdl'[instances'[m]] = m
    BY <1>16, <2>2 DEF SettleRegister, Settle
  <2>4. \A k \in Requests :
          /\ phase'[k] # "none" <=> load'[k] = "ok"
          /\ closer'[k] # "none" => load'[k] = "ok"
    BY <1>16, <2>2, <2>v DEF SettleRegister, Settle
  <2>5. \A k \in Requests : load'[k] = "ok" => instances'[mdl'[k]] = k \/ Closing(k)'
    BY <1>16, <2>2 DEF SettleRegister, Settle
  <2> QED
    BY <2>3, <2>4, <2>5
<1>17. ASSUME NEW r \in Requests, StopOwn(r) PROVE InstanceInv'
  BY <1>17 DEF StopOwn, Return
<1>18. ASSUME NEW r \in Requests, SampleUnload(r) PROVE InstanceInv'
  BY <1>18 DEF SampleUnload, InFlight, instVars
<1>19. ASSUME NEW r \in Requests, UnloadEarly(r) PROVE InstanceInv'
  <2>1. unload[r] # <<>> /\ Unload(r)
    BY <1>19 DEF UnloadEarly
  <2>2. \/ closer' = closer
        \/ \E k \in Requests : /\ load[k] = "ok" /\ closer[k] = "none"
                               /\ closer' = [closer EXCEPT ![k] = "drain"]
    BY <2>1, UnloadFacts
  <2> QED
    BY <1>19, <2>2 DEF UnloadEarly
<1>20. ASSUME NEW r \in Requests, Leave(r) PROVE InstanceInv'
  <2>1. unload[r] # <<>> /\ Unload(r)
    BY <1>20 DEF Leave
  <2>2. \/ closer' = closer
        \/ \E k \in Requests : /\ load[k] = "ok" /\ closer[k] = "none"
                               /\ closer' = [closer EXCEPT ![k] = "drain"]
    BY <2>1, UnloadFacts
  <2> QED
    BY <1>20, <2>2 DEF Leave, Return
<1>21. ASSUME NEW r \in Requests, Disconnect(r) PROVE InstanceInv'
  BY <1>21 DEF Disconnect, instVars
<1>22. ASSUME NEW r \in Requests, MonitorFires(r) PROVE InstanceInv'
  BY <1>22 DEF MonitorFires, instVars
<1>23. ASSUME NEW k \in Requests, IdleTimeout(k) PROVE InstanceInv'
  BY <1>23 DEF IdleTimeout, reqVars
<1>24. ASSUME NEW k \in Requests, DrainBegins(k) PROVE InstanceInv'
  BY <1>24 DEF DrainBegins, reqVars
<1>25. ASSUME NEW k \in Requests, DrainNoop(k) PROVE InstanceInv'
  BY <1>25 DEF DrainNoop, reqVars
<1>26. ASSUME NEW k \in Requests, DrainShuts(k) PROVE InstanceInv'
  BY <1>26 DEF DrainShuts, reqVars
<1>27. ASSUME NEW k \in Requests, DrainUnregisters(k) PROVE InstanceInv'
  BY <1>27 DEF DrainUnregisters, reqVars
<1>28. ASSUME NEW k \in Requests, StopProcess(k) PROVE InstanceInv'
  BY <1>28 DEF StopProcess, reqVars
<1>29. ASSUME NEW k \in Requests, ProcExits(k) PROVE InstanceInv'
  BY <1>29 DEF ProcExits, reqVars
<1>30. ASSUME NEW m \in Evictable, RescanRemoves(m) PROVE InstanceInv'
  BY <1>30 DEF RescanRemoves, reqVars, NoEviction, instVars
<1>31. ASSUME NEW m \in Evictable, RescanAdds(m) PROVE InstanceInv'
  BY <1>31 DEF RescanAdds, reqVars, instVars
<1>32. ASSUME NEW m \in Evictable, Evict(m) PROVE InstanceInv'
  BY <1>32 DEF Evict, reqVars, NoEviction, instVars
<1>33. ASSUME EvictSample PROVE InstanceInv'
  BY <1>33 DEF EvictSample, reqVars, StartDrain
<1>34. ASSUME EvictDrained PROVE InstanceInv'
  BY <1>34 DEF EvictDrained, reqVars, NoEviction, instVars
<1>35. ASSUME EvictSettled PROVE InstanceInv'
  BY <1>35 DEF EvictSettled, reqVars, NoEviction, StartDrain
<1>36. ASSUME EvictGivesUp PROVE InstanceInv'
  BY <1>36 DEF EvictGivesUp, reqVars, NoEviction, instVars
<1>37. ASSUME EvictAllResidentInstances PROVE InstanceInv'
  BY <1>37 DEF EvictAllResidentInstances, ForceAll, Resident, reqVars
<1>38. ASSUME Close PROVE InstanceInv'
  BY <1>38 DEF Close, ForceAll, Resident, reqVars
<1>39. ASSUME NEW r \in Requests, ResolveFails(r) PROVE InstanceInv'
  BY <1>39 DEF ResolveFails, Return, instVars
<1>40. ASSUME NEW r \in Requests, SlotWait(r) PROVE InstanceInv'
  BY <1>40 DEF SlotWait, InAcquire, reqVars
<1> QED
  BY <1>1, <1>2, <1>3, <1>4, <1>5, <1>6, <1>7, <1>8, <1>9, <1>10, <1>11,
     <1>12, <1>13, <1>14, <1>15, <1>16, <1>17, <1>18, <1>19, <1>20, <1>21,
     <1>22, <1>23, <1>24, <1>25, <1>26, <1>27, <1>28, <1>29, <1>30, <1>31,
     <1>32, <1>33, <1>34, <1>35, <1>36, <1>37, <1>38, <1>39, <1>40 DEF Next, RequestStep,
     InstanceStep, EvictorStep

\* A request goes without a slot only on an instance that is closing.
LEMMA SlotlessKept == Inv /\ Next => SlotlessInv'
<1> SUFFICES ASSUME Inv, Next PROVE SlotlessInv'
  OBVIOUS
<1>1. TypeOK /\ LoadInv /\ InstanceInv /\ SlotlessInv /\ ClosingStays
  BY ClosingKept DEF Inv
<1> SUFFICES ASSUME NEW q \in Requests, pc'[q] = "slotless"
             PROVE  \E k \in Requests : at'[q] = k /\ load[k] = "ok" /\ Closing(k)
  BY <1>1 DEF SlotlessInv, ClosingStays, Closing, Dead
<1>2. CASE JoinSucceeds(q)
  <2>1. /\ pc[q] = "join" /\ load[at[q]] = "ok" /\ at' = at
        /\ at[q] \in Requests /\ instances[mdl[q]] # at[q]
    BY <1>1, <1>2, NoneAssumption DEF JoinSucceeds, TypeOK, Waiting
  <2> QED
    BY <1>1, <2>1 DEF LoadInv, InstanceInv
<1>3. CASE pc[q] = "slotless" /\ at'[q] = at[q]
  BY <1>1, <1>3 DEF SlotlessInv, TypeOK, InFlight
<1>4. JoinSucceeds(q) \/ (pc[q] = "slotless" /\ at'[q] = at[q])
  <2> USE <1>1 DEF TypeOK
  <2>1. ASSUME NEW r \in Requests, NEW m \in Models, Resolve(r, m)
        PROVE  JoinSucceeds(q) \/ (pc[q] = "slotless" /\ at'[q] = at[q])
    BY <2>1 DEF Resolve
  <2>2. ASSUME NEW r \in Requests, ResolveFails(r) \/ RejectClosed(r) \/ FindResident(r) \/
               JoinLoad(r) \/ StartLoad(r)
        PROVE  JoinSucceeds(q) \/ (pc[q] = "slotless" /\ at'[q] = at[q])
    BY <2>2 DEF ResolveFails, RejectClosed, Return, FindResident, JoinLoad, NoneResident,
       StartLoad
  <2>3. ASSUME NEW r \in Requests, Acquire(r) \/ SlotWait(r) \/ AcquireCancelled(r) \/
               AcquireRefused(r) \/ JoinFails(r)
        PROVE  JoinSucceeds(q) \/ (pc[q] = "slotless" /\ at'[q] = at[q])
    BY <2>3 DEF Acquire, SlotWait, reqVars, InAcquire, AcquireCancelled, Return, AcquireRefused, JoinFails
  <2>4. ASSUME NEW r \in Requests, JoinSucceeds(r) \/ JoinCancelled(r) \/
               LaunchSucceeds(r) \/ LaunchFails(r)
        PROVE  JoinSucceeds(q) \/ (pc[q] = "slotless" /\ at'[q] = at[q])
    BY <2>4 DEF JoinSucceeds, JoinCancelled, Return, LaunchSucceeds,
       LaunchFails
  <2>5. ASSUME NEW r \in Requests, SettleFailed(r) \/ SettleClosed(r) \/
               SettleRegister(r) \/ StopOwn(r)
        PROVE  JoinSucceeds(q) \/ (pc[q] = "slotless" /\ at'[q] = at[q])
    BY <2>5 DEF SettleFailed, Settle, Return, SettleClosed, SettleRegister,
       StopOwn
  <2>6. ASSUME NEW r \in Requests, SampleUnload(r) \/ UnloadEarly(r) \/
               Leave(r) \/ Disconnect(r)
        PROVE  JoinSucceeds(q) \/ (pc[q] = "slotless" /\ at'[q] = at[q])
    BY <2>6 DEF SampleUnload, UnloadEarly, Leave, Return, Disconnect
  <2>7. ASSUME NEW r \in Requests, MonitorFires(r)
        PROVE  JoinSucceeds(q) \/ (pc[q] = "slotless" /\ at'[q] = at[q])
    BY <2>7 DEF MonitorFires
  <2>8. ASSUME NEW k \in Requests, IdleTimeout(k) \/ DrainBegins(k) \/
               DrainNoop(k) \/ DrainShuts(k) \/ DrainUnregisters(k) \/
               StopProcess(k) \/ ProcExits(k)
        PROVE  JoinSucceeds(q) \/ (pc[q] = "slotless" /\ at'[q] = at[q])
    BY <2>8 DEF IdleTimeout, reqVars, DrainBegins, DrainNoop, DrainShuts,
       DrainUnregisters, StopProcess, ProcExits
  <2>9. ASSUME NEW m \in Evictable, RescanRemoves(m) \/ RescanAdds(m) \/
               Evict(m)
        PROVE  JoinSucceeds(q) \/ (pc[q] = "slotless" /\ at'[q] = at[q])
    BY <2>9 DEF RescanRemoves, reqVars, RescanAdds, Evict
  <2>10. ASSUME EvictSample \/ EvictDrained \/ EvictSettled \/ EvictGivesUp \/
                EvictAllResidentInstances \/ Close
         PROVE  JoinSucceeds(q) \/ (pc[q] = "slotless" /\ at'[q] = at[q])
    BY <2>10 DEF EvictSample, reqVars, EvictDrained, EvictSettled,
       EvictGivesUp, EvictAllResidentInstances, Close
  <2> QED
    BY <2>1, <2>2, <2>3, <2>4, <2>5, <2>6, <2>7, <2>8, <2>9, <2>10 DEF Next,
       RequestStep, InstanceStep, EvictorStep
<1> QED
  BY <1>2, <1>3, <1>4

\* What a request will drain when it ends is an instance.
LEMMA UnloadKept == Inv /\ Next => UnloadInv'
<1> SUFFICES ASSUME Inv, Next PROVE UnloadInv'
  OBVIOUS
<1>1. TypeOK /\ InstanceInv /\ UnloadInv /\ ClosingStays
  BY ClosingKept DEF Inv
<1> SUFFICES ASSUME NEW q \in Requests, NEW k \in Requests, unload'[q] = <<k>>
             PROVE  load[k] = "ok"
  BY <1>1 DEF UnloadInv, ClosingStays
<1>2. CASE unload'[q] = unload[q]
  BY <1>1, <1>2 DEF UnloadInv
<1>3. CASE SampleUnload(q)
  <2>1. mdl[q] \in Models
    BY <1>3, HasModel DEF SampleUnload, InFlight
  <2>2. instances[mdl[q]] = k
    BY <1>1, <1>3 DEF SampleUnload, TypeOK
  <2> QED
    BY <1>1, <2>1, <2>2, NoneAssumption DEF InstanceInv
<1>4. CASE UnloadEarly(q)
  <2>1. unload'[q] = <<None>>
    BY <1>1, <1>4 DEF UnloadEarly, TypeOK
  <2> QED
    BY <2>1, NoneAssumption
<1>5. SampleUnload(q) \/ UnloadEarly(q) \/ unload'[q] = unload[q]
  <2> USE <1>1 DEF TypeOK
  <2>1. ASSUME NEW r \in Requests, NEW m \in Models, Resolve(r, m)
        PROVE  SampleUnload(q) \/ UnloadEarly(q) \/ unload'[q] = unload[q]
    BY <2>1 DEF Resolve
  <2>2. ASSUME NEW r \in Requests, ResolveFails(r) \/ RejectClosed(r) \/ FindResident(r) \/
               JoinLoad(r) \/ StartLoad(r)
        PROVE  SampleUnload(q) \/ UnloadEarly(q) \/ unload'[q] = unload[q]
    BY <2>2 DEF ResolveFails, RejectClosed, FindResident, JoinLoad, NoneResident, StartLoad
  <2>3. ASSUME NEW r \in Requests, Acquire(r) \/ SlotWait(r) \/ AcquireCancelled(r) \/
               AcquireRefused(r) \/ JoinFails(r)
        PROVE  SampleUnload(q) \/ UnloadEarly(q) \/ unload'[q] = unload[q]
    BY <2>3 DEF Acquire, SlotWait, reqVars, InAcquire, AcquireCancelled, AcquireRefused, JoinFails
  <2>4. ASSUME NEW r \in Requests, JoinSucceeds(r) \/ JoinCancelled(r) \/
               LaunchSucceeds(r) \/ LaunchFails(r)
        PROVE  SampleUnload(q) \/ UnloadEarly(q) \/ unload'[q] = unload[q]
    BY <2>4 DEF JoinSucceeds, JoinCancelled, LaunchSucceeds, LaunchFails
  <2>5. ASSUME NEW r \in Requests, SettleFailed(r) \/ SettleClosed(r) \/
               SettleRegister(r) \/ StopOwn(r)
        PROVE  SampleUnload(q) \/ UnloadEarly(q) \/ unload'[q] = unload[q]
    BY <2>5 DEF SettleFailed, Settle, SettleClosed, SettleRegister, StopOwn
  <2>6. ASSUME NEW r \in Requests, SampleUnload(r) \/ UnloadEarly(r) \/
               Leave(r) \/ Disconnect(r)
        PROVE  SampleUnload(q) \/ UnloadEarly(q) \/ unload'[q] = unload[q]
    BY <2>6 DEF SampleUnload, UnloadEarly, Leave, Disconnect
  <2>7. ASSUME NEW r \in Requests, MonitorFires(r)
        PROVE  SampleUnload(q) \/ UnloadEarly(q) \/ unload'[q] = unload[q]
    BY <2>7 DEF MonitorFires
  <2>8. ASSUME NEW i \in Requests, IdleTimeout(i) \/ DrainBegins(i) \/
               DrainNoop(i) \/ DrainShuts(i) \/ DrainUnregisters(i) \/
               StopProcess(i) \/ ProcExits(i)
        PROVE  SampleUnload(q) \/ UnloadEarly(q) \/ unload'[q] = unload[q]
    BY <2>8 DEF IdleTimeout, reqVars, DrainBegins, DrainNoop, DrainShuts,
       DrainUnregisters, StopProcess, ProcExits
  <2>9. ASSUME NEW m \in Evictable, RescanRemoves(m) \/ RescanAdds(m) \/
               Evict(m)
        PROVE  SampleUnload(q) \/ UnloadEarly(q) \/ unload'[q] = unload[q]
    BY <2>9 DEF RescanRemoves, reqVars, RescanAdds, Evict
  <2>10. ASSUME EvictSample \/ EvictDrained \/ EvictSettled \/ EvictGivesUp \/
                EvictAllResidentInstances \/ Close
         PROVE  SampleUnload(q) \/ UnloadEarly(q) \/ unload'[q] = unload[q]
    BY <2>10 DEF EvictSample, reqVars, EvictDrained, EvictSettled,
       EvictGivesUp, EvictAllResidentInstances, Close
  <2> QED
    BY <2>1, <2>2, <2>3, <2>4, <2>5, <2>6, <2>7, <2>8, <2>9, <2>10 DEF Next,
       RequestStep, InstanceStep, EvictorStep
<1> QED
  BY <1>2, <1>3, <1>4, <1>5

\* Whoever unregisters or closes an instance sees to its process.
LEMMA ProcessKept == Inv /\ Next => ProcessInv'
<1> SUFFICES ASSUME Inv, Next PROVE ProcessInv'
  OBVIOUS
<1>0. TypeOK /\ RequestInv /\ LoadInv /\ InstanceInv /\ ProcessInv /\ EvictorInv
  BY DEF Inv
<1> USE <1>0, NoneAssumption, BoundsAssumption DEF evictVars, TypeOK, RequestInv,
   LoadInv, InstanceInv, ProcessInv, EvictorInv, Pending, Launching, Closing,
   Stopping, Dead
<1>1. ASSUME NEW r \in Requests, NEW m \in Models, Resolve(r, m)
      PROVE  ProcessInv'
  BY <1>1 DEF Resolve, instVars
<1>2. ASSUME NEW r \in Requests, RejectClosed(r) PROVE ProcessInv'
  BY <1>2 DEF RejectClosed, Return, instVars
<1>3. ASSUME NEW r \in Requests, FindResident(r) PROVE ProcessInv'
  BY <1>3 DEF FindResident, instVars
<1>4. ASSUME NEW r \in Requests, JoinLoad(r) PROVE ProcessInv'
  BY <1>4 DEF JoinLoad, NoneResident
<1>5. ASSUME NEW r \in Requests, StartLoad(r) PROVE ProcessInv'
  BY <1>5 DEF StartLoad, NoneResident
<1>6. ASSUME NEW r \in Requests, Acquire(r) PROVE ProcessInv'
  BY <1>6 DEF Acquire, InAcquire, instVars
<1>7. ASSUME NEW r \in Requests, AcquireCancelled(r) PROVE ProcessInv'
  BY <1>7 DEF AcquireCancelled, Return, instVars
<1>8. ASSUME NEW r \in Requests, AcquireRefused(r) PROVE ProcessInv'
  BY <1>8 DEF AcquireRefused, InAcquire, instVars
<1>9. ASSUME NEW r \in Requests, JoinFails(r) PROVE ProcessInv'
  BY <1>9 DEF JoinFails, Return, instVars
<1>10. ASSUME NEW r \in Requests, JoinSucceeds(r) PROVE ProcessInv'
  <2>1. \A k \in Requests : pc[k] \in {"launched", "stopown"} => pc'[k] = pc[k]
    BY <1>10 DEF JoinSucceeds
  <2>2. UNCHANGED <<instances, load, mdl, phase, closer, proc>>
    BY <1>10 DEF JoinSucceeds, instVars
  <2> QED
    BY <2>1, <2>2
<1>11. ASSUME NEW r \in Requests, JoinCancelled(r) PROVE ProcessInv'
  BY <1>11 DEF JoinCancelled, Return, instVars
<1>12. ASSUME NEW r \in Requests, LaunchSucceeds(r) PROVE ProcessInv'
  <2>1. load[r] # "ok" /\ phase[r] = "none" /\ closer[r] = "none"
    BY <1>12, LaunchedFacts DEF LaunchSucceeds
  <2> QED
    BY <1>12, <2>1 DEF LaunchSucceeds
<1>13. ASSUME NEW r \in Requests, LaunchFails(r) PROVE ProcessInv'
  BY <1>13 DEF LaunchFails, instVars
<1>14. ASSUME NEW r \in Requests, SettleFailed(r) PROVE ProcessInv'
  BY <1>14 DEF SettleFailed, Settle, Return
<1>15. ASSUME NEW r \in Requests, SettleClosed(r) PROVE ProcessInv'
  BY <1>15 DEF SettleClosed, Settle
<1>16. ASSUME NEW r \in Requests, SettleRegister(r) PROVE ProcessInv'
  BY <1>16 DEF SettleRegister, Settle
<1>17. ASSUME NEW r \in Requests, StopOwn(r) PROVE ProcessInv'
  BY <1>17 DEF StopOwn, Return
<1>18. ASSUME NEW r \in Requests, SampleUnload(r) PROVE ProcessInv'
  BY <1>18 DEF SampleUnload, InFlight, instVars
<1>19. ASSUME NEW r \in Requests, UnloadEarly(r) PROVE ProcessInv'
  BY <1>19 DEF UnloadEarly, Unload, StartDrain
<1>20. ASSUME NEW r \in Requests, Leave(r) PROVE ProcessInv'
  BY <1>20 DEF Leave, Return, Unload, StartDrain, InFlight
<1>21. ASSUME NEW r \in Requests, Disconnect(r) PROVE ProcessInv'
  BY <1>21 DEF Disconnect, instVars
<1>22. ASSUME NEW r \in Requests, MonitorFires(r) PROVE ProcessInv'
  BY <1>22 DEF MonitorFires, instVars
<1>23. ASSUME NEW k \in Requests, IdleTimeout(k) PROVE ProcessInv'
  BY <1>23 DEF IdleTimeout, reqVars
<1>24. ASSUME NEW k \in Requests, DrainBegins(k) PROVE ProcessInv'
  BY <1>24 DEF DrainBegins, reqVars
<1>25. ASSUME NEW k \in Requests, DrainNoop(k) PROVE ProcessInv'
  BY <1>25 DEF DrainNoop, reqVars
<1>26. ASSUME NEW k \in Requests, DrainShuts(k) PROVE ProcessInv'
  BY <1>26 DEF DrainShuts, reqVars
<1>27. ASSUME NEW k \in Requests, DrainUnregisters(k) PROVE ProcessInv'
  BY <1>27 DEF DrainUnregisters, reqVars
<1>28. ASSUME NEW k \in Requests, StopProcess(k) PROVE ProcessInv'
  BY <1>28 DEF StopProcess, reqVars
<1>29. ASSUME NEW k \in Requests, ProcExits(k) PROVE ProcessInv'
  BY <1>29 DEF ProcExits, reqVars
<1>30. ASSUME NEW m \in Evictable, RescanRemoves(m) PROVE ProcessInv'
  BY <1>30 DEF RescanRemoves, reqVars, NoEviction, instVars
<1>31. ASSUME NEW m \in Evictable, RescanAdds(m) PROVE ProcessInv'
  BY <1>31 DEF RescanAdds, reqVars, instVars
<1>32. ASSUME NEW m \in Evictable, Evict(m) PROVE ProcessInv'
  BY <1>32 DEF Evict, reqVars, NoEviction, instVars
<1>33. ASSUME EvictSample PROVE ProcessInv'
  BY <1>33 DEF EvictSample, reqVars, StartDrain
<1>34. ASSUME EvictDrained PROVE ProcessInv'
  BY <1>34 DEF EvictDrained, reqVars, NoEviction, instVars
<1>35. ASSUME EvictSettled PROVE ProcessInv'
  BY <1>35 DEF EvictSettled, reqVars, NoEviction, StartDrain
<1>36. ASSUME EvictGivesUp PROVE ProcessInv'
  BY <1>36 DEF EvictGivesUp, reqVars, NoEviction, instVars
<1>37. ASSUME EvictAllResidentInstances PROVE ProcessInv'
  BY <1>37 DEF EvictAllResidentInstances, ForceAll, Resident, reqVars
<1>38. ASSUME Close PROVE ProcessInv'
  BY <1>38 DEF Close, ForceAll, Resident, reqVars
<1>39. ASSUME NEW r \in Requests, ResolveFails(r) PROVE ProcessInv'
  BY <1>39 DEF ResolveFails, Return, instVars
<1>40. ASSUME NEW r \in Requests, SlotWait(r) PROVE ProcessInv'
  BY <1>40 DEF SlotWait, InAcquire, reqVars
<1> QED
  BY <1>1, <1>2, <1>3, <1>4, <1>5, <1>6, <1>7, <1>8, <1>9, <1>10, <1>11,
     <1>12, <1>13, <1>14, <1>15, <1>16, <1>17, <1>18, <1>19, <1>20, <1>21,
     <1>22, <1>23, <1>24, <1>25, <1>26, <1>27, <1>28, <1>29, <1>30, <1>31,
     <1>32, <1>33, <1>34, <1>35, <1>36, <1>37, <1>38, <1>39, <1>40 DEF Next, RequestStep,
     InstanceStep, EvictorStep

\* Nothing that explains a silence is taken back.
Growth ==
  \A q \in Requests :
    /\ mdl[q] # None => mdl'[q] = mdl[q]
    /\ ctxDone[q] => ctxDone'[q]
    /\ load[q] = "ctx" => load'[q] = "ctx"
    /\ q \in evicted /\ load'[q] \in {"ctx", "cancelled"} => q \in evicted'

\* ... by any step.
LEMMA GrowthKept == Inv /\ Next => Growth
<1> SUFFICES ASSUME Inv, Next PROVE Growth
  OBVIOUS
<1>0. TypeOK /\ RequestInv /\ LoadInv /\ InstanceInv /\ EvictorInv
  BY DEF Inv
<1> USE <1>0, NoneAssumption, BoundsAssumption DEF evictVars, Growth, TypeOK, RequestInv,
   LoadInv, InstanceInv, EvictorInv, Pending, Launching, Waiting
<1>1. ASSUME NEW r \in Requests, NEW m \in Models, Resolve(r, m)
      PROVE  Growth
  BY <1>1 DEF Resolve, instVars
<1>2. ASSUME NEW r \in Requests, RejectClosed(r) PROVE Growth
  BY <1>2 DEF RejectClosed, Return, instVars
<1>3. ASSUME NEW r \in Requests, FindResident(r) PROVE Growth
  BY <1>3 DEF FindResident, instVars
<1>4. ASSUME NEW r \in Requests, JoinLoad(r) PROVE Growth
  BY <1>4 DEF JoinLoad, NoneResident
<1>5. ASSUME NEW r \in Requests, StartLoad(r) PROVE Growth
  BY <1>5 DEF StartLoad, NoneResident
<1>6. ASSUME NEW r \in Requests, Acquire(r) PROVE Growth
  BY <1>6 DEF Acquire, InAcquire, instVars
<1>7. ASSUME NEW r \in Requests, AcquireCancelled(r) PROVE Growth
  BY <1>7 DEF AcquireCancelled, Return, instVars
<1>8. ASSUME NEW r \in Requests, AcquireRefused(r) PROVE Growth
  BY <1>8 DEF AcquireRefused, InAcquire, instVars
<1>9. ASSUME NEW r \in Requests, JoinFails(r) PROVE Growth
  BY <1>9 DEF JoinFails, Return, instVars
<1>10. ASSUME NEW r \in Requests, JoinSucceeds(r) PROVE Growth
  BY <1>10 DEF JoinSucceeds, instVars
<1>11. ASSUME NEW r \in Requests, JoinCancelled(r) PROVE Growth
  BY <1>11 DEF JoinCancelled, Return, instVars
<1>12. ASSUME NEW r \in Requests, LaunchSucceeds(r) PROVE Growth
  BY <1>12 DEF LaunchSucceeds
<1>13. ASSUME NEW r \in Requests, LaunchFails(r) PROVE Growth
  BY <1>13 DEF LaunchFails, instVars
<1>14. ASSUME NEW r \in Requests, SettleFailed(r) PROVE Growth
  BY <1>14 DEF SettleFailed, Settle, Return
<1>15. ASSUME NEW r \in Requests, SettleClosed(r) PROVE Growth
  BY <1>15 DEF SettleClosed, Settle
<1>16. ASSUME NEW r \in Requests, SettleRegister(r) PROVE Growth
  BY <1>16 DEF SettleRegister, Settle
<1>17. ASSUME NEW r \in Requests, StopOwn(r) PROVE Growth
  BY <1>17 DEF StopOwn, Return
<1>18. ASSUME NEW r \in Requests, SampleUnload(r) PROVE Growth
  BY <1>18 DEF SampleUnload, InFlight, instVars
<1>19. ASSUME NEW r \in Requests, UnloadEarly(r) PROVE Growth
  BY <1>19 DEF UnloadEarly, Unload, StartDrain
<1>20. ASSUME NEW r \in Requests, Leave(r) PROVE Growth
  BY <1>20 DEF Leave, Return, Unload, StartDrain, InFlight
<1>21. ASSUME NEW r \in Requests, Disconnect(r) PROVE Growth
  BY <1>21 DEF Disconnect, instVars
<1>22. ASSUME NEW r \in Requests, MonitorFires(r) PROVE Growth
  BY <1>22 DEF MonitorFires, instVars
<1>23. ASSUME NEW k \in Requests, IdleTimeout(k) PROVE Growth
  BY <1>23 DEF IdleTimeout, reqVars
<1>24. ASSUME NEW k \in Requests, DrainBegins(k) PROVE Growth
  BY <1>24 DEF DrainBegins, reqVars
<1>25. ASSUME NEW k \in Requests, DrainNoop(k) PROVE Growth
  BY <1>25 DEF DrainNoop, reqVars
<1>26. ASSUME NEW k \in Requests, DrainShuts(k) PROVE Growth
  BY <1>26 DEF DrainShuts, reqVars
<1>27. ASSUME NEW k \in Requests, DrainUnregisters(k) PROVE Growth
  BY <1>27 DEF DrainUnregisters, reqVars
<1>28. ASSUME NEW k \in Requests, StopProcess(k) PROVE Growth
  BY <1>28 DEF StopProcess, reqVars
<1>29. ASSUME NEW k \in Requests, ProcExits(k) PROVE Growth
  BY <1>29 DEF ProcExits, reqVars
<1>30. ASSUME NEW m \in Evictable, RescanRemoves(m) PROVE Growth
  BY <1>30 DEF RescanRemoves, reqVars, NoEviction, instVars
<1>31. ASSUME NEW m \in Evictable, RescanAdds(m) PROVE Growth
  BY <1>31 DEF RescanAdds, reqVars, instVars
<1>32. ASSUME NEW m \in Evictable, Evict(m) PROVE Growth
  BY <1>32 DEF Evict, reqVars, NoEviction, instVars
<1>33. ASSUME EvictSample PROVE Growth
  BY <1>33 DEF EvictSample, reqVars, StartDrain
<1>34. ASSUME EvictDrained PROVE Growth
  BY <1>34 DEF EvictDrained, reqVars, NoEviction, instVars
<1>35. ASSUME EvictSettled PROVE Growth
  BY <1>35 DEF EvictSettled, reqVars, NoEviction, StartDrain
<1>36. ASSUME EvictGivesUp PROVE Growth
  BY <1>36 DEF EvictGivesUp, reqVars, NoEviction, instVars
<1>37. ASSUME EvictAllResidentInstances PROVE Growth
  BY <1>37 DEF EvictAllResidentInstances, ForceAll, Resident, reqVars
<1>38. ASSUME Close PROVE Growth
  BY <1>38 DEF Close, ForceAll, Resident, reqVars
<1>39. ASSUME NEW r \in Requests, ResolveFails(r) PROVE Growth
  BY <1>39 DEF ResolveFails, Return, instVars
<1>40. ASSUME NEW r \in Requests, SlotWait(r) PROVE Growth
  BY <1>40 DEF SlotWait, InAcquire, reqVars
<1> QED
  BY <1>1, <1>2, <1>3, <1>4, <1>5, <1>6, <1>7, <1>8, <1>9, <1>10, <1>11,
     <1>12, <1>13, <1>14, <1>15, <1>16, <1>17, <1>18, <1>19, <1>20, <1>21,
     <1>22, <1>23, <1>24, <1>25, <1>26, <1>27, <1>28, <1>29, <1>30, <1>31,
     <1>32, <1>33, <1>34, <1>35, <1>36, <1>37, <1>38, <1>39, <1>40 DEF Next, RequestStep,
     InstanceStep, EvictorStep

\* A step that silences nobody and cancels nothing, and the others.
Calm ==
  \A q \in Requests :
    /\ pc'[q] = "silent" => pc[q] = "silent"
    /\ load'[q] \in {"ctx", "cancelled"} => load'[q] = load[q]
Loud ==
  \/ \E r \in Requests :
       \/ AcquireCancelled(r) \/ JoinCancelled(r) \/ JoinFails(r)
       \/ SettleFailed(r) \/ SettleRegister(r) \/ StopOwn(r) \/ MonitorFires(r)
  \/ EvictSample

\* There are no others.
LEMMA CalmKept == Inv /\ Next => Calm \/ Loud
<1> SUFFICES ASSUME Inv, Next PROVE Calm \/ Loud
  OBVIOUS
<1>0. TypeOK /\ RequestInv /\ LoadInv /\ InstanceInv /\ EvictorInv
  BY DEF Inv
<1> USE <1>0, NoneAssumption, BoundsAssumption DEF Calm, TypeOK, RequestInv,
   LoadInv, InstanceInv, EvictorInv, Pending, Launching, Waiting
<1>1. ASSUME NEW r \in Requests, NEW m \in Models, Resolve(r, m)
      PROVE  Calm
  BY <1>1 DEF Resolve, instVars
<1>2. ASSUME NEW r \in Requests, RejectClosed(r) PROVE Calm
  BY <1>2 DEF RejectClosed, Return, instVars
<1>3. ASSUME NEW r \in Requests, FindResident(r) PROVE Calm
  BY <1>3 DEF FindResident, instVars
<1>4. ASSUME NEW r \in Requests, JoinLoad(r) PROVE Calm
  BY <1>4 DEF JoinLoad, NoneResident
<1>5. ASSUME NEW r \in Requests, StartLoad(r) PROVE Calm
  BY <1>5 DEF StartLoad, NoneResident
<1>6. ASSUME NEW r \in Requests, Acquire(r) PROVE Calm
  BY <1>6 DEF Acquire, InAcquire, instVars
<1>8. ASSUME NEW r \in Requests, AcquireRefused(r) PROVE Calm
  BY <1>8 DEF AcquireRefused, InAcquire, instVars
<1>10. ASSUME NEW r \in Requests, JoinSucceeds(r) PROVE Calm
  BY <1>10 DEF JoinSucceeds, instVars
<1>12. ASSUME NEW r \in Requests, LaunchSucceeds(r) PROVE Calm
  BY <1>12 DEF LaunchSucceeds
<1>13. ASSUME NEW r \in Requests, LaunchFails(r) PROVE Calm
  BY <1>13 DEF LaunchFails, instVars
<1>15. ASSUME NEW r \in Requests, SettleClosed(r) PROVE Calm
  BY <1>15 DEF SettleClosed, Settle
<1>18. ASSUME NEW r \in Requests, SampleUnload(r) PROVE Calm
  BY <1>18 DEF SampleUnload, InFlight, instVars
<1>19. ASSUME NEW r \in Requests, UnloadEarly(r) PROVE Calm
  BY <1>19 DEF UnloadEarly, Unload, StartDrain
<1>20. ASSUME NEW r \in Requests, Leave(r) PROVE Calm
  BY <1>20 DEF Leave, Return, Unload, StartDrain, InFlight
<1>21. ASSUME NEW r \in Requests, Disconnect(r) PROVE Calm
  BY <1>21 DEF Disconnect, instVars
<1>23. ASSUME NEW k \in Requests, IdleTimeout(k) PROVE Calm
  BY <1>23 DEF IdleTimeout, reqVars
<1>24. ASSUME NEW k \in Requests, DrainBegins(k) PROVE Calm
  BY <1>24 DEF DrainBegins, reqVars
<1>25. ASSUME NEW k \in Requests, DrainNoop(k) PROVE Calm
  BY <1>25 DEF DrainNoop, reqVars
<1>26. ASSUME NEW k \in Requests, DrainShuts(k) PROVE Calm
  BY <1>26 DEF DrainShuts, reqVars
<1>27. ASSUME NEW k \in Requests, DrainUnregisters(k) PROVE Calm
  BY <1>27 DEF DrainUnregisters, reqVars
<1>28. ASSUME NEW k \in Requests, StopProcess(k) PROVE Calm
  BY <1>28 DEF StopProcess, reqVars
<1>29. ASSUME NEW k \in Requests, ProcExits(k) PROVE Calm
  BY <1>29 DEF ProcExits, reqVars
<1>30. ASSUME NEW m \in Evictable, RescanRemoves(m) PROVE Calm
  BY <1>30 DEF RescanRemoves, reqVars, NoEviction, instVars
<1>31. ASSUME NEW m \in Evictable, RescanAdds(m) PROVE Calm
  BY <1>31 DEF RescanAdds, reqVars, instVars
<1>32. ASSUME NEW m \in Evictable, Evict(m) PROVE Calm
  BY <1>32 DEF Evict, reqVars, NoEviction, instVars
<1>34. ASSUME EvictDrained PROVE Calm
  BY <1>34 DEF EvictDrained, reqVars, NoEviction, instVars
<1>35. ASSUME EvictSettled PROVE Calm
  BY <1>35 DEF EvictSettled, reqVars, NoEviction, StartDrain
<1>36. ASSUME EvictGivesUp PROVE Calm
  BY <1>36 DEF EvictGivesUp, reqVars, NoEviction, instVars
<1>37. ASSUME EvictAllResidentInstances PROVE Calm
  BY <1>37 DEF EvictAllResidentInstances, ForceAll, Resident, reqVars
<1>38. ASSUME Close PROVE Calm
  BY <1>38 DEF Close, ForceAll, Resident, reqVars
<1>39. ASSUME NEW r \in Requests, ResolveFails(r) PROVE Calm
  BY <1>39 DEF ResolveFails, Return, instVars
<1>40. ASSUME NEW r \in Requests, SlotWait(r) PROVE Calm
  BY <1>40 DEF SlotWait, InAcquire, reqVars
<1> HIDE DEF Calm
<1> QED
  BY <1>1, <1>2, <1>3, <1>4, <1>5, <1>6, <1>8, <1>10,
     <1>12, <1>13, <1>15, <1>18, <1>19, <1>20, <1>21,
     <1>23, <1>24, <1>25, <1>26, <1>27, <1>28, <1>29, <1>30, <1>31,
     <1>32, <1>34, <1>35, <1>36, <1>37, <1>38, <1>39, <1>40 DEF Loud, Next, RequestStep,
     InstanceStep, EvictorStep

\* evictByID knows its model, and waits for a load only if there was one.
LEMMA EvictorKept == Inv /\ Next => EvictorInv'
<1> SUFFICES ASSUME Inv, Next PROVE EvictorInv'
  OBVIOUS
<1>1. EvictorInv /\ TypeOK
  BY DEF Inv
<1>2. CASE evictor' = evictor
  BY <1>1, <1>2 DEF EvictorInv
<1>3. ASSUME NEW m \in Evictable, RescanRemoves(m) \/ Evict(m) PROVE EvictorInv'
  BY <1>3, BoundsAssumption DEF RescanRemoves, Evict, NoEviction, EvictorInv
<1>4. ASSUME EvictSample \/ EvictDrained \/ EvictSettled \/ EvictGivesUp PROVE EvictorInv'
  <2> USE <1>1 DEF EvictorInv, TypeOK
  <2>1. CASE EvictSample
    BY <2>1 DEF EvictSample
  <2>2. CASE EvictDrained
    BY <2>2 DEF EvictDrained, NoEviction
  <2>3. CASE EvictSettled
    BY <2>3 DEF EvictSettled, NoEviction
  <2>4. CASE EvictGivesUp
    BY <2>4 DEF EvictGivesUp, NoEviction
  <2> QED
    BY <1>4, <2>1, <2>2, <2>3, <2>4
<1>5. \/ evictor' = evictor
      \/ \E m \in Evictable : RescanRemoves(m) \/ Evict(m)
      \/ EvictSample \/ EvictDrained \/ EvictSettled \/ EvictGivesUp
  <2> USE DEF evictVars
  <2>1. ASSUME NEW r \in Requests, RequestStep(r) PROVE evictor' = evictor
    BY <2>1 DEF RequestStep, Resolve, ResolveFails, RejectClosed, FindResident,
       JoinLoad, StartLoad, NoneResident, Acquire, SlotWait, AcquireCancelled,
       AcquireRefused, JoinFails, JoinSucceeds, JoinCancelled, LaunchSucceeds,
       LaunchFails, SettleFailed, SettleClosed, SettleRegister, Settle, StopOwn,
       SampleUnload, UnloadEarly, Leave, Disconnect, MonitorFires
  <2>2. ASSUME NEW k \in Requests, InstanceStep(k) PROVE evictor' = evictor
    BY <2>2 DEF InstanceStep, IdleTimeout, DrainBegins, DrainNoop, DrainShuts,
       DrainUnregisters, StopProcess, ProcExits
  <2>3. ASSUME NEW m \in Evictable, RescanAdds(m) PROVE evictor' = evictor
    BY <2>3 DEF RescanAdds
  <2>4. ASSUME EvictAllResidentInstances \/ Close PROVE evictor' = evictor
    BY <2>4 DEF EvictAllResidentInstances, Close
  <2> QED
    BY <2>1, <2>2, <2>3, <2>4 DEF Next, EvictorStep
<1> QED
  BY <1>2, <1>3, <1>4, <1>5

\* A load is cancelled for a client that left or for an eviction.
LEMMA CancelKept == Inv /\ Next => CancelInv'
<1> SUFFICES ASSUME Inv, Next PROVE CancelInv'
  OBVIOUS
<1>0. TypeOK /\ RequestInv /\ LoadInv /\ CancelInv /\ EvictorInv /\ Growth
  BY GrowthKept DEF Inv
<1>1. ASSUME NEW q \in Requests, mdl[q] # None, ClientGone(q) PROVE ClientGone(q)'
  BY <1>0, <1>1 DEF Growth, ClientGone
<1>2. ASSUME NEW q \in Requests, mdl[q] # None, Excused(q) PROVE Excused(q)'
  BY <1>0, <1>1, <1>2 DEF Growth, Excused
<1>3. ASSUME NEW q \in Requests, ctxDone[q], mdl[q] # None, NEW k \in Requests, mdl[k] = mdl[q]
      PROVE  ClientGone(k)'
  BY <1>0, <1>3 DEF Growth, ClientGone
<1>4. ASSUME NEW q \in Requests, pc[q] = "silent" \/ load[q] # "none" PROVE mdl[q] # None
  BY <1>0, <1>4 DEF RequestInv
<1>5. ASSUME NEW q \in Requests, pc[q] = "silent" \/ load[q] = "ctx" PROVE Excused(q)'
  BY <1>0, <1>2, <1>4, <1>5 DEF CancelInv
<1>6. ASSUME NEW q \in Requests, load[q] = "cancelled", load'[q] = "cancelled"
      PROVE  (q \in evicted)' \/ ClientGone(q)'
  BY <1>0, <1>1, <1>4, <1>6 DEF CancelInv, Growth
<1> DEFINE Explained(q) == /\ pc'[q] = "silent" \/ load'[q] = "ctx" => Excused(q)'
                           /\ load'[q] = "cancelled" => (q \in evicted)' \/ ClientGone(q)'
           Same(q) == /\ pc'[q] = "silent" => pc[q] = "silent"
                      /\ load'[q] \in {"ctx", "cancelled"} => load'[q] = load[q]
<1>7. ASSUME NEW q \in Requests, Same(q) PROVE Explained(q)
  BY <1>5, <1>6, <1>7
<1>8. SUFFICES ASSUME NEW q \in Requests PROVE Explained(q)
  BY DEF CancelInv
<1>9. ASSUME ClientGone(q)' PROVE Excused(q)'
  BY <1>9 DEF Excused
<1> HIDE DEF Explained, Same
<1>10. CASE Calm
  BY <1>7, <1>10 DEF Calm, Same
<1>11. ASSUME NEW r \in Requests, AcquireCancelled(r) \/ JoinCancelled(r) PROVE Explained(q)
  <2>1. ctxDone[r] /\ mdl[r] # None
    BY <1>0, <1>11 DEF AcquireCancelled, JoinCancelled, RequestInv
  <2>2. load' = load /\ (q # r => pc'[q] = pc[q])
    BY <1>0, <1>11 DEF AcquireCancelled, JoinCancelled, Return, TypeOK
  <2>3. CASE q # r
    BY <1>7, <2>2, <2>3 DEF Same
  <2>4. CASE q = r
    <3>1. ClientGone(q)'
      BY <1>3, <2>1, <2>4
    <3> QED
      BY <1>9, <3>1 DEF Explained
  <2> QED
    BY <2>3, <2>4
<1>12. ASSUME NEW r \in Requests, JoinFails(r) PROVE Explained(q)
  <2>1. load' = load /\ (q # r => pc'[q] = pc[q])
    BY <1>0, <1>12 DEF JoinFails, Return, TypeOK
  <2>2. CASE q # r \/ pc'[q] # "silent"
    BY <1>7, <2>1, <2>2 DEF Same
  <2>3. CASE q = r /\ pc'[q] = "silent"
    <3>1. PICK k \in Requests : load[k] = "ctx" /\ mdl[k] = mdl[r]
      BY <1>0, <1>12, <2>3 DEF JoinFails, Return, TypeOK, LoadInv, Waiting
    <3>2. mdl[r] # None
      BY <1>0, <1>12 DEF JoinFails, RequestInv
    <3>k. Excused(k)' /\ mdl'[k] = mdl'[r]
      BY <1>0, <1>5, <3>1, <3>2 DEF Growth
    <3>3. Excused(q)'
      BY <2>3, <3>1, <3>k DEF Excused, ClientGone
    <3>4. load[r] = "none"
      BY <1>0, <1>12 DEF JoinFails, RequestInv
    <3> QED
      BY <2>1, <2>3, <3>3, <3>4 DEF Explained
  <2> QED
    BY <2>2, <2>3
<1>13. ASSUME NEW r \in Requests, SettleFailed(r) PROVE Explained(q)
  <2>1. q # r => pc'[q] = pc[q] /\ load'[q] = load[q]
    BY <1>0, <1>13 DEF SettleFailed, Settle, Return, TypeOK
  <2>2. CASE q # r
    BY <1>7, <2>1, <2>2 DEF Same
  <2>3. CASE q = r
    <3>1. \/ load'[q] = "failed" /\ pc'[q] = "error"
          \/ load[q] = "cancelled" /\ load'[q] = "ctx" /\ pc'[q] = "silent"
      BY <1>0, <1>13, <2>3 DEF SettleFailed, Settle, Return, TypeOK
    <3>2. load[q] = "cancelled" /\ load'[q] = "ctx" => Excused(q)'
      BY <1>0, <1>1, <1>4, <1>9 DEF CancelInv, Growth, Excused
    <3> QED
      BY <3>1, <3>2 DEF Explained
  <2> QED
    BY <2>2, <2>3
<1>14. ASSUME NEW r \in Requests, SettleRegister(r) PROVE Explained(q)
  <2>1. q # r => pc'[q] = pc[q] /\ load'[q] = load[q]
    BY <1>0, <1>14 DEF SettleRegister, Settle, TypeOK
  <2>2. CASE q # r
    BY <1>7, <2>1, <2>2 DEF Same
  <2>3. CASE q = r
    <3>1. pc'[q] # "silent" /\ load'[q] # "cancelled" /\ (load'[q] = "ctx" => ctxDone[q])
      BY <1>0, <1>14, <2>3 DEF SettleRegister, Settle, TypeOK
    <3>2. ctxDone[q] => ClientGone(q)'
      <4>1. mdl[q] # None
        BY <1>0, <1>14, <2>3 DEF SettleRegister, RequestInv
      <4> QED
        BY <1>3, <4>1
    <3> QED
      BY <1>9, <3>1, <3>2 DEF Explained
  <2> QED
    BY <2>2, <2>3
<1>15. ASSUME NEW r \in Requests, StopOwn(r) PROVE Explained(q)
  <2>1. load' = load /\ (q # r \/ load[r] # "ctx" => pc'[q] # "silent" \/ pc[q] = "silent")
    BY <1>0, <1>15 DEF StopOwn, Return, TypeOK
  <2>2. CASE q # r \/ load[r] # "ctx"
    BY <1>7, <2>1, <2>2 DEF Same
  <2>3. CASE q = r /\ load[r] = "ctx"
    BY <1>5, <2>1, <2>3 DEF Explained
  <2> QED
    BY <2>2, <2>3
<1>16. ASSUME NEW r \in Requests, MonitorFires(r) PROVE Explained(q)
  <2>1. pc' = pc /\ (q # monitor[r] => load'[q] = load[q])
    BY <1>0, <1>16 DEF MonitorFires, TypeOK
  <2>2. CASE q # monitor[r] \/ load'[q] = load[q]
    BY <1>7, <2>1, <2>2 DEF Same
  <2>3. CASE q = monitor[r] /\ load'[q] # load[q]
    <3>1. load'[q] = "cancelled" /\ ctxDone[r] /\ mdl[q] = mdl[r]
      BY <1>0, <1>16, <2>3 DEF MonitorFires, TypeOK, LoadInv
    <3>2. load[q] # "none" /\ pc[q] # "silent"
      BY <1>0, <1>16, <2>3 DEF MonitorFires, LoadInv, RequestInv, Pending, Launching
    <3>3. ClientGone(q)'
      BY <1>3, <1>4, <3>1, <3>2
    <3> QED
      BY <2>1, <3>1, <3>2, <3>3 DEF Explained
  <2> QED
    BY <2>2, <2>3
<1>17. ASSUME EvictSample PROVE Explained(q)
  <2>1. evictor.model \in Models
    BY <1>0, <1>17 DEF EvictSample, EvictorInv
  <2>2. pc' = pc
    BY <1>17 DEF EvictSample, reqVars
  <2>3. CASE q # loading[evictor.model]
    <3>1. load'[q] = load[q]
      BY <1>0, <1>17, <2>1, <2>3, NoneAssumption DEF EvictSample, TypeOK
    <3> QED
      BY <1>7, <2>2, <3>1 DEF Same
  <2>4. CASE q = loading[evictor.model]
    <3>1. load'[q] = "cancelled" /\ q \in evicted'
      BY <1>0, <1>17, <2>1, <2>4, NoneAssumption DEF EvictSample, TypeOK
    <3>2. pc[q] # "silent"
      BY <1>0, <2>1, <2>4, NoneAssumption DEF LoadInv, RequestInv, Pending, Launching
    <3> QED
      BY <2>2, <3>1, <3>2 DEF Explained
  <2> QED
    BY <2>3, <2>4
<1> QED
  BY <1>10, <1>11, <1>12, <1>13, <1>14, <1>15, <1>16, <1>17, CalmKept DEF Loud

\* The registry keeps to its cap, and stays empty after Close.
LEMMA CapKept == Inv /\ Next => ResidentCap'
<1> SUFFICES ASSUME Inv, Next PROVE ResidentCap'
  OBVIOUS
<1>1. TypeOK /\ ResidentCap
  BY DEF Inv
<1>2. ASSUME NEW S \in SUBSET Models
      PROVE  /\ IsFiniteSet(S) /\ Cardinality(S) \in Nat
             /\ \A T \in SUBSET S : Cardinality(T) <= Cardinality(S)
  BY FiniteAssumption, FS_Subset, FS_CardinalityType
<1>3. Resident \in SUBSET Models /\ Resident' \in SUBSET Models
  BY DEF Resident
<1>4. CASE Resident' \subseteq Resident /\ (closed' => closed \/ Resident' = {})
  BY <1>1, <1>2, <1>3, <1>4, LimitsAssumption DEF ResidentCap
<1>5. ASSUME NEW r \in Requests, SettleRegister(r) PROVE ResidentCap'
  <2>1. ~closed' /\ mdl[r] \in Models
    BY <1>1, <1>5 DEF SettleRegister, Settle, Inv, TypeOK, RequestInv
  <2>2. CASE ~OverCap
    <3>1. Resident' \in SUBSET (Resident \cup {mdl[r]})
      BY <1>1, <1>5, <2>2 DEF SettleRegister, Resident, TypeOK
    <3>2. Cardinality(Resident \cup {mdl[r]}) <= Cardinality(Resident) + 1
      BY <1>2, <1>3, FS_AddElement
    <3> QED
      BY <1>2, <1>3, <2>1, <2>2, <3>1, <3>2, LimitsAssumption DEF OverCap,
         ResidentCap
  <2>3. CASE OverCap
    <3>1. PICK v \in Resident : LRUVictim = instances[v]
      BY <1>1, <2>3, VictimResident
    <3>2. Resident' \in SUBSET ((Resident \ {v}) \cup {mdl[r]})
      BY <1>1, <1>5, <2>3, <3>1 DEF SettleRegister, Resident, TypeOK
    <3>3. Cardinality(Resident \ {v}) = Cardinality(Resident) - 1
      BY <1>2, <1>3, <3>1, FS_RemoveElement
    <3>4. Cardinality((Resident \ {v}) \cup {mdl[r]}) <= Cardinality(Resident \ {v}) + 1
      <4>1. (Resident \ {v}) \in SUBSET Models
        BY <1>3
      <4> QED
        BY <1>2, <4>1, FS_AddElement
    <3>5. Cardinality(Resident') <= Cardinality(Resident)
      BY <1>2, <1>3, <2>1, <3>2, <3>3, <3>4
    <3> QED
      BY <1>1, <1>2, <1>3, <2>1, <3>5, LimitsAssumption DEF ResidentCap
  <2> QED
    BY <2>2, <2>3
<1>6. \/ Resident' \subseteq Resident /\ (closed' => closed \/ Resident' = {})
      \/ \E r \in Requests : SettleRegister(r)
  <2> DEFINE Shrinks == /\ Resident' \subseteq Resident
                        /\ closed' => closed \/ Resident' = {}
  <2> USE <1>1 DEF TypeOK, Resident
  <2>1. ASSUME NEW r \in Requests, NEW m \in Models, Resolve(r, m)
        PROVE  Shrinks
    BY <2>1 DEF Resolve
  <2>2. ASSUME NEW r \in Requests, ResolveFails(r) \/ RejectClosed(r) \/ FindResident(r) \/
               JoinLoad(r) \/ StartLoad(r)
        PROVE  Shrinks
    BY <2>2 DEF ResolveFails, RejectClosed, FindResident, JoinLoad, NoneResident, StartLoad
  <2>3. ASSUME NEW r \in Requests, Acquire(r) \/ SlotWait(r) \/ AcquireCancelled(r) \/
               AcquireRefused(r) \/ JoinFails(r)
        PROVE  Shrinks
    BY <2>3 DEF Acquire, SlotWait, reqVars, InAcquire, AcquireCancelled, AcquireRefused, JoinFails
  <2>4. ASSUME NEW r \in Requests, JoinSucceeds(r) \/ JoinCancelled(r) \/
               LaunchSucceeds(r) \/ LaunchFails(r)
        PROVE  Shrinks
    BY <2>4 DEF JoinSucceeds, JoinCancelled, LaunchSucceeds, LaunchFails
  <2>5. ASSUME NEW r \in Requests, SettleFailed(r) \/ SettleClosed(r) \/
               StopOwn(r) \/ SampleUnload(r)
        PROVE  Shrinks
    BY <2>5 DEF SettleFailed, Settle, SettleClosed, StopOwn, SampleUnload
  <2>6. ASSUME NEW r \in Requests, UnloadEarly(r) \/ Leave(r) \/
               Disconnect(r) \/ MonitorFires(r)
        PROVE  Shrinks
    BY <2>6 DEF UnloadEarly, Leave, Disconnect, MonitorFires
  <2>7. ASSUME NEW k \in Requests, IdleTimeout(k) \/ DrainBegins(k) \/
               DrainNoop(k) \/ DrainShuts(k) \/ DrainUnregisters(k) \/
               StopProcess(k) \/ ProcExits(k)
        PROVE  Shrinks
    BY <2>7 DEF IdleTimeout, reqVars, DrainBegins, DrainNoop, DrainShuts,
       DrainUnregisters, StopProcess, ProcExits
  <2>8. ASSUME NEW m \in Evictable, RescanRemoves(m) \/ RescanAdds(m) \/
               Evict(m)
        PROVE  Shrinks
    BY <2>8 DEF RescanRemoves, reqVars, RescanAdds, Evict
  <2>9. ASSUME EvictSample \/ EvictDrained \/ EvictSettled \/ EvictGivesUp \/
               EvictAllResidentInstances \/ Close
        PROVE  Shrinks
    BY <2>9 DEF EvictSample, reqVars, EvictDrained, EvictSettled,
       EvictGivesUp, EvictAllResidentInstances, ForceAll, Close
  <2> QED
    BY <2>1, <2>2, <2>3, <2>4, <2>5, <2>6, <2>7, <2>8, <2>9 DEF Next,
       RequestStep, InstanceStep, EvictorStep
<1> QED
  BY <1>4, <1>5, <1>6

-----------------------------------------------------------------------------
(* The theorems.                                                           *)

\* The daemon starts in the invariant.
LEMMA InvInit == Init => Inv
<1> SUFFICES ASSUME Init PROVE Inv
  OBVIOUS
<1>1. TypeOK
  <2>1. unload \in [Requests -> {<<>>} \cup {<<k>> : k \in Requests \cup {None}}]
    BY DEF Init
  <2>2. evictor \in [pc : {"idle", "gaveup", "sample", "drain", "await"},
                    model : Models \cup {None},
                    res : Requests \cup {None}, load : Requests \cup {None}]
    BY DEF Init, NoEviction
  <2> QED
    BY <2>1, <2>2 DEF Init, TypeOK, Waiting, InFlight
<1>2. RequestInv /\ LoadInv /\ InstanceInv
  BY NoneAssumption DEF Init, RequestInv, LoadInv, InstanceInv, Pending,
     Launching
<1>3. SlotlessInv /\ ProcessInv /\ CancelInv /\ EvictorInv
  BY DEF Init, SlotlessInv, ProcessInv, CancelInv, EvictorInv, NoEviction
<1>4. UnloadInv
  <2> SUFFICES ASSUME NEW r \in Requests, NEW k \in Requests, unload[r] = <<k>>
               PROVE  FALSE
    BY DEF UnloadInv
  <2>1. unload[r] = <<>> \/ unload[r] = <<None>>
    BY DEF Init
  <2> QED
    BY <2>1, NoneAssumption
<1>5. Resident = {}
  BY DEF Init, Resident
<1>6. ResidentCap
  BY <1>5, FS_EmptySet, LimitsAssumption DEF ResidentCap
<1> QED
  BY <1>1, <1>2, <1>3, <1>4, <1>6 DEF Inv

\* A step that changes nothing keeps it.
LEMMA InvStutter == Inv /\ UNCHANGED vars => Inv'
<1> SUFFICES ASSUME Inv, UNCHANGED vars PROVE Inv'
  OBVIOUS
<1> USE DEF vars, reqVars, instVars, evictVars
<1>1. TypeOK'
  BY DEF Inv, TypeOK
<1>2. RequestInv' /\ LoadInv' /\ InstanceInv'
  BY DEF Inv, RequestInv, LoadInv, InstanceInv, Pending, Launching, Closing,
     Dead
<1>3. SlotlessInv' /\ UnloadInv'
  BY DEF Inv, SlotlessInv, UnloadInv, Closing, Dead
<1>4. ProcessInv' /\ CancelInv' /\ EvictorInv'
  BY DEF Inv, ProcessInv, CancelInv, EvictorInv, Stopping, Excused, ClientGone
<1>5. ResidentCap'
  BY DEF Inv, ResidentCap, Resident
<1> QED
  BY <1>1, <1>2, <1>3, <1>4, <1>5 DEF Inv

\* The invariant holds in every state of every behaviour.
THEOREM Invariance == Spec => []Inv
<1>1. Inv /\ Next => Inv'
  BY TypeKept, RequestKept, LoadKept, InstanceKept, SlotlessKept, UnloadKept,
     ProcessKept, CancelKept, EvictorKept, CapKept DEF Inv
<1>2. Inv /\ [Next]_vars => Inv'
  BY <1>1, InvStutter
<1> QED
  BY <1>2, InvInit, PTL DEF Spec

\* getOrLaunchInstance and everything around it keep the registry well typed.
THEOREM TypeCorrect == Spec => []TypeOK
<1>1. Inv => TypeOK
  BY DEF Inv
<1> QED
  BY <1>1, Invariance, PTL

\* -max-instances is never exceeded, and after Close nothing is registered.
THEOREM ResidentCapHolds == Spec => []ResidentCap
<1>1. Inv => ResidentCap
  BY DEF Inv
<1> QED
  BY <1>1, Invariance, PTL

\* The coalescing of getOrLaunchInstance: at most one load of a model is under
\* way, and none while the model is resident.
THEOREM SingleFlightHolds == Spec => []SingleFlight
<1>1. Inv => SingleFlight
  BY DEF Inv, LoadInv, Pending, SingleFlight
<1> QED
  BY <1>1, Invariance, PTL

\* No child process is lost, whatever evictions, drains, failures and Close do
\* to the registry while it is launched or used.
THEOREM ProcessAccountedHolds == Spec => []ProcessAccounted
<1>1. Inv => ProcessAccounted
  BY DEF Inv, ProcessInv, Stopping, ProcessAccounted
<1> QED
  BY <1>1, Invariance, PTL

\* The path that returns an instance without a slot is taken only when the
\* instance is closing.
THEOREM SlotlessOnlyWhenClosingHolds == Spec => []SlotlessOnlyWhenClosing
<1>1. Inv => SlotlessOnlyWhenClosing
  BY DEF Inv, SlotlessInv, Closing, SlotlessOnlyWhenClosing
<1> QED
  BY <1>1, Invariance, PTL

\* A request without a response shared its model with a client that left, or
\* with a load that an eviction cancelled.
THEOREM SilentOnlyIfCancelledHolds == Spec => []SilentOnlyIfCancelled
<1>1. Inv => SilentOnlyIfCancelled
  BY DEF Inv, CancelInv, Excused, ClientGone, SilentOnlyIfCancelled
<1> QED
  BY <1>1, Invariance, PTL
=============================================================================
