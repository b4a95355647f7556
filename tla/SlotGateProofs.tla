--------------------------- MODULE SlotGateProofs ---------------------------
(***************************************************************************)
(* Proofs about SlotGate for every finite set of callers, every set of     *)
(* drainers and every configured slot count.                               *)
(***************************************************************************)
EXTENDS SlotGate, FiniteSetTheorems, TLAPS

-----------------------------------------------------------------------------
(* The operators the actions are made of.                                  *)

\* newResidentInstance clamps the slot count to at least one.
LEMMA NewType ==
  ASSUME NEW ttl \in BOOLEAN
  PROVE  /\ newResidentInstance(ttl, Slots) \in ResidentInstances
         /\ newResidentInstance(ttl, Slots).activeCount = 0
BY SlotsAssumption DEF newResidentInstance, ResidentInstances

\* Stopping the idle timer changes nothing else.
LEMMA StopTimerFacts ==
  ASSUME NEW r \in ResidentInstances
  PROVE  /\ StopTimer(r) \in ResidentInstances
         /\ StopTimer(r).activeCount = r.activeCount
         /\ StopTimer(r).maxSlots = r.maxSlots
         /\ StopTimer(r).draining = r.draining
         /\ StopTimer(r).stopped = r.stopped
BY DEF StopTimer, ResidentInstances

\* acquire's tail takes exactly one slot.
LEMMA AdmitFacts ==
  ASSUME NEW r \in ResidentInstances
  PROVE  /\ Admit(r) \in ResidentInstances
         /\ Admit(r).activeCount = r.activeCount + 1
         /\ Admit(r).maxSlots = r.maxSlots
         /\ Admit(r).draining = r.draining
         /\ Admit(r).stopped = r.stopped
<1> DEFINE up == [r EXCEPT !.activeCount = @ + 1]
<1>1. /\ up \in ResidentInstances
      /\ up.activeCount = r.activeCount + 1
      /\ up.maxSlots = r.maxSlots
      /\ up.draining = r.draining
      /\ up.stopped = r.stopped
  BY DEF ResidentInstances
<1>2. Admit(r) = StopTimer(up)
  BY DEF Admit
<1> HIDE DEF up
<1> QED BY <1>1, <1>2, StopTimerFacts

\* release gives exactly one slot back, if one is held.
LEMMA ReleaseFacts ==
  ASSUME NEW r \in ResidentInstances
  PROVE  /\ Release(r) \in ResidentInstances
         /\ r.activeCount > 0 => Release(r).activeCount = r.activeCount - 1
         /\ Release(r).maxSlots = r.maxSlots
         /\ Release(r).draining = r.draining
         /\ Release(r).stopped = r.stopped
<1> DEFINE back == [r EXCEPT !.activeCount = IF @ > 0 THEN @ - 1 ELSE 0]
<1>1. /\ back \in ResidentInstances
      /\ r.activeCount > 0 => back.activeCount = r.activeCount - 1
      /\ back.maxSlots = r.maxSlots
      /\ back.draining = r.draining
      /\ back.stopped = r.stopped
  BY DEF ResidentInstances
<1>2. Release(r) = back \/ Release(r) = ArmTimer(back)
  BY DEF Release
<1> HIDE DEF back
<1>3. /\ ArmTimer(back) \in ResidentInstances
      /\ ArmTimer(back).activeCount = back.activeCount
      /\ ArmTimer(back).maxSlots = back.maxSlots
      /\ ArmTimer(back).draining = back.draining
      /\ ArmTimer(back).stopped = back.stopped
  BY <1>1 DEF ArmTimer, ResidentInstances
<1> QED BY <1>1, <1>2, <1>3

\* A forced stop touches neither slots nor draining.
LEMMA MarkStoppedFacts ==
  ASSUME NEW r \in ResidentInstances
  PROVE  /\ MarkStopped(r) \in ResidentInstances
         /\ MarkStopped(r).activeCount = r.activeCount
         /\ MarkStopped(r).maxSlots = r.maxSlots
         /\ MarkStopped(r).draining = r.draining
         /\ MarkStopped(r).stopped = TRUE
BY DEF MarkStopped, ResidentInstances

\* The LRU cap's mark.
LEMMA BeginDrainFacts ==
  ASSUME NEW r \in ResidentInstances
  PROVE  /\ BeginDrain(r) \in ResidentInstances
         /\ BeginDrain(r).activeCount = r.activeCount
         /\ BeginDrain(r).maxSlots = r.maxSlots
         /\ BeginDrain(r).draining = TRUE
         /\ BeginDrain(r).stopped = r.stopped
<1>1. StopTimer(r) \in ResidentInstances
  BY StopTimerFacts
<1> QED BY <1>1, StopTimerFacts DEF BeginDrain, ResidentInstances

\* Nothing the timer or SetModelTTL does touches slots, draining or stopped.
LEMMA TimerFacts ==
  ASSUME NEW r \in ResidentInstances, NEW t \in ResidentInstances,
         \/ t = TakeTimeout(r)
         \/ t = Expire(r)
         \/ \E ttl \in BOOLEAN : t = SetTTL(r, ttl)
  PROVE  /\ t.activeCount = r.activeCount
         /\ t.maxSlots = r.maxSlots
         /\ t.draining = r.draining
         /\ t.stopped = r.stopped
BY DEF TakeTimeout, Expire, SetTTL, ResidentInstances

\* The timer's operations and SetModelTTL keep the record well formed.
LEMMA TimerOpsType ==
  ASSUME NEW r \in ResidentInstances
  PROVE  /\ TakeTimeout(r) \in ResidentInstances
         /\ Expire(r) \in ResidentInstances
         /\ \A ttl \in BOOLEAN : SetTTL(r, ttl) \in ResidentInstances
<1>1. TakeTimeout(r) \in ResidentInstances /\ Expire(r) \in ResidentInstances
  BY DEF TakeTimeout, Expire, ResidentInstances
<1>2. \A ttl \in BOOLEAN : SetTTL(r, ttl) \in ResidentInstances
  BY DEF SetTTL, Closed, ResidentInstances
<1> QED BY <1>1, <1>2

\* A broadcast moves the sleepers and nobody else.
LEMMA WokenFacts ==
  ASSUME NEW S, NEW V, "woken" \in V, NEW f \in [S -> V]
  PROVE  /\ Woken(f) \in [S -> V]
         /\ \A x \in S : f[x] # "waiting" => Woken(f)[x] = f[x]
         /\ \A x \in S : f[x] = "waiting" => Woken(f)[x] = "woken"
BY DEF Woken

\* drainAndStop's two changes of the record, on entry or after a wait.
LEMMA DrainFacts ==
  ASSUME NEW r \in ResidentInstances, NEW t \in ResidentInstances,
         NEW d, t = OnEntry(d, r)
  PROVE  /\ [t EXCEPT !.draining = TRUE] \in ResidentInstances
         /\ [t EXCEPT !.stopped = TRUE] \in ResidentInstances
         /\ t.activeCount = r.activeCount
         /\ t.maxSlots = r.maxSlots
         /\ t.draining = r.draining
         /\ t.stopped = r.stopped
<1>1. t.activeCount = r.activeCount /\ t.maxSlots = r.maxSlots
  BY StopTimerFacts DEF OnEntry
<1>2. t.draining = r.draining /\ t.stopped = r.stopped
  BY StopTimerFacts DEF OnEntry
<1>3. /\ [t EXCEPT !.draining = TRUE] \in ResidentInstances
      /\ [t EXCEPT !.stopped = TRUE] \in ResidentInstances
  BY DEF ResidentInstances
<1> QED BY <1>1, <1>2, <1>3

-----------------------------------------------------------------------------
(* Type correctness.                                                       *)

\* The initial states are well typed.
LEMMA TypeInit == Init => TypeOK
<1> SUFFICES ASSUME Init PROVE TypeOK
  OBVIOUS
<1>1. PICK c \in Callers, ttl \in BOOLEAN :
        /\ ri = Admit(newResidentInstance(ttl, Slots))
        /\ pc = [x \in Callers |-> IF x = c THEN "serving" ELSE "out"]
  BY DEF Init
<1>2. ri \in ResidentInstances
  BY <1>1, NewType, AdmitFacts
<1> QED BY <1>1, <1>2 DEF Init, TypeOK, CallerPC, DrainerPC

\* Every step of every goroutine keeps the state well typed.
LEMMA TypeStep == TypeOK /\ [Next]_vars => TypeOK'
<1> SUFFICES ASSUME TypeOK, [Next]_vars PROVE TypeOK'
  OBVIOUS
<1> USE DEF TypeOK
<1>w. /\ Woken(pc) \in [Callers -> CallerPC]
      /\ Woken(dpc) \in [Drainers -> DrainerPC]
  BY WokenFacts DEF CallerPC, DrainerPC
<1>1. ASSUME NEW c \in Callers, Lookup(c) PROVE TypeOK'
  BY <1>1 DEF Lookup, CallerPC
<1>2. ASSUME NEW c \in Callers, LookupDead(c) PROVE TypeOK'
  BY <1>2, <1>w, MarkStoppedFacts DEF LookupDead
<1>3. ASSUME NEW c \in Callers, Refuse(c) PROVE TypeOK'
  BY <1>3 DEF Refuse, StopWatch, CallerPC
<1>4. ASSUME NEW c \in Callers, Wait(c) PROVE TypeOK'
  BY <1>4 DEF Wait, CallerPC
<1>5. ASSUME NEW c \in Callers, Enter(c) PROVE TypeOK'
  BY <1>5, AdmitFacts DEF Enter, StopWatch, CallerPC
<1>6. ASSUME NEW c \in Callers, Leave(c) PROVE TypeOK'
  BY <1>6, <1>w, ReleaseFacts DEF Leave, CallerPC
<1>7. ASSUME NEW c \in Callers, GiveUp(c) \/ Forget(c) PROVE TypeOK'
  BY <1>7 DEF GiveUp, Forget, CallerPC
<1>8. ASSUME NEW c \in Callers, Cancel(c) \/ WatcherSees(c) PROVE TypeOK'
  BY <1>8 DEF Cancel, WatcherSees
<1>9. ASSUME NEW c \in Callers, WatcherBroadcasts(c) PROVE TypeOK'
  BY <1>9, <1>w DEF WatcherBroadcasts
<1>10. ASSUME NEW d \in Drainers, TimerFires(d) PROVE TypeOK'
  BY <1>10, TimerOpsType DEF TimerFires, DrainerPC
<1>11. ASSUME NEW d \in Drainers, OnInstanceIdleTimeout(d) PROVE TypeOK'
  BY <1>11, TimerOpsType DEF OnInstanceIdleTimeout, DrainerPC
<1>12. ASSUME NEW d \in Drainers, EvictByID(d) PROVE TypeOK'
  BY <1>12 DEF EvictByID, DrainerPC
<1>13. ASSUME NEW d \in Drainers, EvictLRULocked(d) PROVE TypeOK'
  BY <1>13, BeginDrainFacts DEF EvictLRULocked, DrainerPC
<1>14. ASSUME NEW d \in Drainers, StopNow(d) PROVE TypeOK'
  BY <1>14, <1>w, MarkStoppedFacts DEF StopNow, DrainerPC
<1>15. ASSUME NEW d \in Drainers, DrainNoop(d) PROVE TypeOK'
  BY <1>15 DEF DrainNoop, DrainerPC
<1>16. ASSUME NEW d \in Drainers, DrainWait(d) PROVE TypeOK'
  <2>1. OnEntry(d, ri) \in ResidentInstances
    BY StopTimerFacts DEF OnEntry
  <2>2. ri' \in ResidentInstances
    BY <1>16, <2>1, DrainFacts DEF DrainWait
  <2> QED BY <1>16, <2>2 DEF DrainWait, DrainerPC
<1>17. ASSUME NEW d \in Drainers, DrainDone(d) PROVE TypeOK'
  <2>1. OnEntry(d, ri) \in ResidentInstances
    BY StopTimerFacts DEF OnEntry
  <2>2. ri' \in ResidentInstances
    BY <1>17, <2>1, DrainFacts DEF DrainDone
  <2> QED BY <1>17, <2>2 DEF DrainDone, DrainerPC
<1>18. ASSUME NEW d \in Drainers, Unregister(d) PROVE TypeOK'
  BY <1>18 DEF Unregister, DrainerPC
<1>19. ASSUME NEW d \in Drainers,
              StopSignals(d) \/ StopReturns(d) \/ StopTimesOut(d)
       PROVE TypeOK'
  BY <1>19 DEF StopSignals, StopReturns, StopTimesOut, DrainerPC
<1>20. ASSUME NEW ttl \in BOOLEAN, SetModelTTL(ttl) PROVE TypeOK'
  BY <1>20, TimerOpsType DEF SetModelTTL
<1>21. ASSUME ProcExits PROVE TypeOK'
  BY <1>21 DEF ProcExits
<1>22. ASSUME UNCHANGED vars PROVE TypeOK'
  BY <1>22 DEF vars
<1> QED
  BY <1>1, <1>2, <1>3, <1>4, <1>5, <1>6, <1>7, <1>8, <1>9, <1>10, <1>11,
     <1>12, <1>13, <1>14, <1>15, <1>16, <1>17, <1>18, <1>19, <1>20, <1>21,
     <1>22 DEF Next, CallerStep, DrainerStep

\* In every reachable state of one resident instance the slot count is a
\* natural number (release never underflows it), the slot limit is positive
\* whatever was configured, and every goroutine is at a place the code has.
THEOREM TypeCorrect == Spec => []TypeOK
BY TypeInit, TypeStep, PTL DEF Spec

-----------------------------------------------------------------------------
(* The inductive invariant.                                                *)

\* newResidentInstance's clamp, and nothing ever changes the limit.
CapacityInv == ri.maxSlots = IF Slots <= 0 THEN 1 ELSE Slots

\* A caller inside acquire's wait loop has a watcher, or a done context that
\* its next check sees.
Watched(c) ==
  /\ pc[c] = "waiting" => watch[c] # "off"
  /\ pc[c] = "woken" => watch[c] # "off" \/ ctxDone[c]
  /\ pc[c] \in {"waiting", "woken"} /\ watch[c] = "fired" => ctxDone[c]

WatchInv == \A c \in Callers : Watched(c)

\* stopped is set once; a drain sets it with nobody inside; nobody touches the
\* process before.
EndInv ==
  /\ ri.stopped <=> ended # "none"
  /\ ended = "drain" => ri.activeCount = 0
  /\ proc \in {"signalled", "killed"} => ri.stopped
  /\ \A d \in Drainers :
       dpc[d] \in {"unregister", "stopping", "waitexit"} => ri.stopped

IInv ==
  /\ TypeOK
  /\ SlotAccounting
  /\ CapacityInv
  /\ WatchInv
  /\ EndInv
  /\ NoLostWakeup

\* The requests in flight can be counted.
LEMMA ServingFinite == IsFiniteSet(Serving) /\ Cardinality(Serving) \in Nat
BY CallersAssumption, FS_Subset, FS_CardinalityType DEF Serving

\* The inductive invariant holds when the instance is registered.
LEMMA IInvInit == Init => IInv
<1> SUFFICES ASSUME Init PROVE IInv
  OBVIOUS
<1>1. PICK c \in Callers, ttl \in BOOLEAN :
        /\ ri = Admit(newResidentInstance(ttl, Slots))
        /\ pc = [x \in Callers |-> IF x = c THEN "serving" ELSE "out"]
  BY DEF Init
<1> DEFINE new == newResidentInstance(ttl, Slots)
<1>2. /\ new \in ResidentInstances /\ new.activeCount = 0
      /\ new.maxSlots = IF Slots <= 0 THEN 1 ELSE Slots
      /\ new.stopped = FALSE
  BY NewType DEF newResidentInstance
<1> HIDE DEF new
<1>3. /\ ri.activeCount = 1
      /\ ri.maxSlots = IF Slots <= 0 THEN 1 ELSE Slots
      /\ ri.stopped = FALSE
  BY <1>1, <1>2, AdmitFacts DEF new
<1>4. Serving = {c}
  BY <1>1 DEF Serving
<1>5. Cardinality(Serving) = 1
  BY <1>4, FS_Singleton
<1>6. SlotAccounting /\ CapacityInv
  BY <1>3, <1>5, SlotsAssumption DEF SlotAccounting, CapacityInv
<1>7. WatchInv /\ EndInv /\ NoLostWakeup
  BY <1>1, <1>3 DEF Init, WatchInv, Watched, EndInv, NoLostWakeup
<1> QED BY <1>6, <1>7, TypeInit DEF IInv

\* Who is in flight changes only where a slot is taken or given back.
LEMMA ServingStep ==
  ASSUME TypeOK, [Next]_vars
  PROVE  \/ Serving' = Serving
         \/ \E c \in Callers :
              Enter(c) /\ c \notin Serving /\ Serving' = Serving \cup {c}
         \/ \E c \in Callers :
              Leave(c) /\ c \in Serving /\ Serving' = Serving \ {c}
<1>t. Woken(pc) \in [Callers -> CallerPC]
  BY WokenFacts DEF TypeOK, CallerPC
<1>w. \A x \in Callers : Woken(pc)[x] = "serving" <=> pc[x] = "serving"
  BY DEF TypeOK, Woken
<1>1. ASSUME pc' = pc \/ pc' = Woken(pc) PROVE Serving' = Serving
  BY <1>1, <1>w DEF Serving
<1>2. ASSUME NEW c \in Callers, NEW p \in {"ready", "waiting", "refused", "out"},
             pc[c] # "serving", pc' = [pc EXCEPT ![c] = p]
      PROVE  Serving' = Serving
  BY <1>2 DEF Serving, TypeOK
<1>3. ASSUME NEW c \in Callers, Enter(c)
      PROVE  c \notin Serving /\ Serving' = Serving \cup {c}
  BY <1>3 DEF Enter, InAcquire, Serving, TypeOK
<1>4. ASSUME NEW c \in Callers, Leave(c)
      PROVE  c \in Serving /\ Serving' = Serving \ {c}
  BY <1>4, <1>t, <1>w DEF Leave, Serving, TypeOK
<1>5. ASSUME NEW c \in Callers,
             Lookup(c) \/ Refuse(c) \/ Wait(c) \/ GiveUp(c) \/ Forget(c)
      PROVE  Serving' = Serving
  BY <1>5, <1>2 DEF Lookup, Refuse, Wait, GiveUp, Forget, InAcquire
<1>6. ASSUME NEW c \in Callers,
             LookupDead(c) \/ Cancel(c) \/ WatcherSees(c) \/ WatcherBroadcasts(c)
      PROVE  Serving' = Serving
  BY <1>6, <1>1 DEF LookupDead, Cancel, WatcherSees, WatcherBroadcasts
<1>7. ASSUME NEW d \in Drainers, DrainerStep(d) PROVE Serving' = Serving
  BY <1>7, <1>1
     DEF DrainerStep, TimerFires, OnInstanceIdleTimeout, EvictByID,
         EvictLRULocked, StopNow, DrainNoop, DrainWait, DrainDone, Unregister,
         StopSignals, StopReturns, StopTimesOut
<1>8. ASSUME \/ \E ttl \in BOOLEAN : SetModelTTL(ttl)
             \/ ProcExits
             \/ UNCHANGED vars
      PROVE  Serving' = Serving
  BY <1>8, <1>1 DEF SetModelTTL, ProcExits, vars
<1> QED
  BY <1>3, <1>4, <1>5, <1>6, <1>7, <1>8 DEF Next, CallerStep

\* What a step does to the record, as far as slots, draining and stopped go.
LEMMA RecordStep ==
  ASSUME TypeOK, [Next]_vars
  PROVE  /\ ri'.maxSlots = ri.maxSlots
         /\ \/ ri'.activeCount = ri.activeCount
            \/ \E c \in Callers :
                 Enter(c) /\ ri'.activeCount = ri.activeCount + 1
            \/ \E c \in Callers :
                 Leave(c) /\ (ri.activeCount > 0 =>
                                ri'.activeCount = ri.activeCount - 1)
<1> USE DEF TypeOK
<1>1. ASSUME NEW c \in Callers, Enter(c)
      PROVE  ri'.maxSlots = ri.maxSlots /\ ri'.activeCount = ri.activeCount + 1
  BY <1>1, AdmitFacts DEF Enter
<1>2. ASSUME NEW c \in Callers, Leave(c)
      PROVE  /\ ri'.maxSlots = ri.maxSlots
             /\ ri.activeCount > 0 => ri'.activeCount = ri.activeCount - 1
  BY <1>2, ReleaseFacts DEF Leave
<1> DEFINE Same ==
      ri'.maxSlots = ri.maxSlots /\ ri'.activeCount = ri.activeCount
<1>3. ASSUME ri' = ri PROVE Same
  BY <1>3
<1>4. ASSUME ri' = MarkStopped(ri) \/ ri' = BeginDrain(ri) PROVE Same
  BY <1>4, MarkStoppedFacts, BeginDrainFacts
<1>5. ASSUME \/ ri' = TakeTimeout(ri)
             \/ ri' = Expire(ri)
             \/ \E ttl \in BOOLEAN : ri' = SetTTL(ri, ttl)
      PROVE  Same
  <2>1. ri' \in ResidentInstances
    BY <1>5, TimerOpsType
  <2> QED BY <1>5, <2>1, TimerFacts
<1>6. ASSUME NEW d \in Drainers, DrainWait(d) \/ DrainDone(d) PROVE Same
  <2>1. OnEntry(d, ri) \in ResidentInstances
    BY StopTimerFacts DEF OnEntry
  <2>2. /\ OnEntry(d, ri).maxSlots = ri.maxSlots
        /\ OnEntry(d, ri).activeCount = ri.activeCount
    BY <2>1, DrainFacts
  <2> QED BY <1>6, <2>1, <2>2 DEF DrainWait, DrainDone, ResidentInstances
<1> HIDE DEF Same
<1>7. ASSUME NEW c \in Callers,
             \/ Lookup(c) \/ LookupDead(c) \/ Refuse(c) \/ Wait(c) \/ GiveUp(c)
             \/ Forget(c) \/ Cancel(c) \/ WatcherSees(c) \/ WatcherBroadcasts(c)
      PROVE  Same
  BY <1>7, <1>3, <1>4
     DEF Lookup, LookupDead, Refuse, Wait, GiveUp, Forget, Cancel, WatcherSees,
         WatcherBroadcasts
<1>8. ASSUME NEW d \in Drainers, DrainerStep(d) PROVE Same
  BY <1>8, <1>3, <1>4, <1>5, <1>6
     DEF DrainerStep, TimerFires, OnInstanceIdleTimeout, EvictByID,
         EvictLRULocked, StopNow, DrainNoop, Unregister, StopSignals,
         StopReturns, StopTimesOut
<1>9. ASSUME \/ \E ttl \in BOOLEAN : SetModelTTL(ttl)
             \/ ProcExits
             \/ UNCHANGED vars
      PROVE  Same
  BY <1>9, <1>3, <1>5 DEF SetModelTTL, ProcExits, vars
<1> QED
  BY <1>1, <1>2, <1>7, <1>8, <1>9 DEF Next, CallerStep, Same

\* Slots: the count follows the requests in flight, and stays under the limit.
LEMMA SlotStep == IInv /\ [Next]_vars => SlotAccounting' /\ CapacityInv'
<1> SUFFICES ASSUME IInv, [Next]_vars PROVE SlotAccounting' /\ CapacityInv'
  OBVIOUS
<1> USE DEF IInv
<1>t. /\ ri \in ResidentInstances
      /\ ri.activeCount \in Nat /\ ri.maxSlots \in Nat
  BY DEF TypeOK, ResidentInstances
<1>f. IsFiniteSet(Serving) /\ Cardinality(Serving) \in Nat
  BY ServingFinite
<1>c. CapacityInv'
  BY RecordStep DEF CapacityInv
<1>1. CASE \E c \in Callers : Enter(c)
  <2>1. PICK c \in Callers : Enter(c)
    BY <1>1
  <2>2. c \notin Serving /\ Serving' = Serving \cup {c}
    BY <2>1 DEF Enter, InAcquire, Serving, TypeOK
  <2>3. Cardinality(Serving') = Cardinality(Serving) + 1
    BY <2>2, <1>f, FS_AddElement
  <2>4. /\ ri'.activeCount = ri.activeCount + 1
        /\ ri'.maxSlots = ri.maxSlots
        /\ ri.activeCount < ri.maxSlots
    BY <2>1, <1>t, AdmitFacts DEF Enter, Full
  <2> QED BY <1>c, <1>t, <2>3, <2>4 DEF SlotAccounting
<1>2. CASE \E c \in Callers : Leave(c)
  <2>1. PICK c \in Callers : Leave(c)
    BY <1>2
  <2>2. c \in Serving
    BY <2>1 DEF Leave, Serving
  <2>3. \A x \in Callers : x # c =>
          (pc'[x] = "serving" <=> pc[x] = "serving")
    BY <2>1 DEF Leave, Woken, TypeOK
  <2>4. pc'[c] = "out"
    BY <2>1 DEF Leave, Woken, TypeOK
  <2>5. Serving' = Serving \ {c}
    BY <2>2, <2>3, <2>4 DEF Serving
  <2>6. Cardinality(Serving') = Cardinality(Serving) - 1
    BY <2>2, <2>5, <1>f, FS_RemoveElement
  <2>7. Cardinality(Serving) # 0
    BY <2>2, <1>f, FS_EmptySet
  <2>8. /\ ri.activeCount > 0
        /\ ri'.activeCount = ri.activeCount - 1
        /\ ri'.maxSlots = ri.maxSlots
    BY <2>1, <2>7, <1>t, ReleaseFacts DEF Leave, SlotAccounting
  <2> QED BY <1>c, <1>t, <2>6, <2>8 DEF SlotAccounting
<1>3. CASE ~(\E c \in Callers : Enter(c)) /\ ~(\E c \in Callers : Leave(c))
  <2>1. Serving' = Serving /\ ri'.activeCount = ri.activeCount
    BY <1>3, ServingStep, RecordStep
  <2> QED BY <1>c, <2>1, RecordStep DEF SlotAccounting
<1> QED BY <1>1, <1>2, <1>3

\* The watcher of a blocked request outlives its wait.
LEMMA WatchStep == IInv /\ [Next]_vars => WatchInv'
<1> SUFFICES ASSUME IInv, [Next]_vars, NEW c \in Callers
             PROVE  Watched(c)'
  BY DEF WatchInv
<1> USE DEF IInv, WatchInv, Watched, TypeOK
<1>w. /\ pc[c] # "waiting" => Woken(pc)[c] = pc[c]
      /\ pc[c] = "waiting" => Woken(pc)[c] = "woken"
      /\ DOMAIN Woken(pc) = Callers
  BY DEF Woken
<1>1. ASSUME NEW b \in Callers,
             Lookup(b) \/ Refuse(b) \/ Wait(b) \/ Enter(b)
      PROVE  Watched(c)'
  BY <1>1
     DEF Lookup, Refuse, Wait, Enter, StopWatch, InAcquire, MustRefuse
<1>2. ASSUME NEW b \in Callers,
             LookupDead(b) \/ Leave(b) \/ WatcherBroadcasts(b)
      PROVE  Watched(c)'
  BY <1>2, <1>w DEF LookupDead, Leave, WatcherBroadcasts
<1>3. ASSUME NEW b \in Callers,
             GiveUp(b) \/ Forget(b) \/ Cancel(b) \/ WatcherSees(b)
      PROVE  Watched(c)'
  BY <1>3 DEF GiveUp, Forget, Cancel, WatcherSees
<1>4. ASSUME /\ pc' = pc \/ pc' = Woken(pc)
             /\ watch' = watch /\ ctxDone' = ctxDone
      PROVE  Watched(c)'
  BY <1>4, <1>w
<1>5. ASSUME \/ \E d \in Drainers : DrainerStep(d)
             \/ \E ttl \in BOOLEAN : SetModelTTL(ttl)
             \/ ProcExits
             \/ UNCHANGED vars
      PROVE  /\ pc' = pc \/ pc' = Woken(pc)
             /\ watch' = watch /\ ctxDone' = ctxDone
  BY <1>5
     DEF DrainerStep, TimerFires, OnInstanceIdleTimeout, EvictByID,
         EvictLRULocked, StopNow, DrainNoop, DrainWait, DrainDone, Unregister,
         StopSignals, StopReturns, StopTimesOut, SetModelTTL, ProcExits, vars
<1> QED BY <1>1, <1>2, <1>3, <1>4, <1>5 DEF Next, CallerStep

\* What a step does to draining, stopped and their history.
LEMMA StoppedStep ==
  ASSUME TypeOK, [Next]_vars
  PROVE  \/ /\ ri'.stopped = ri.stopped
            /\ ended' = ended
            /\ ri.draining => ri'.draining
         \/ /\ \/ \E c \in Callers : LookupDead(c)
               \/ \E d \in Drainers : StopNow(d)
            /\ ri'.stopped = TRUE
            /\ ri'.draining = ri.draining
            /\ ended' = IF ri.stopped THEN ended ELSE "abort"
         \/ /\ \E d \in Drainers : DrainDone(d)
            /\ ri.activeCount = 0
            /\ ri'.stopped = TRUE
            /\ ri'.draining = ri.draining
            /\ ended' = "drain"
<1> USE DEF TypeOK
<1> DEFINE Same == /\ ri'.stopped = ri.stopped
                   /\ ended' = ended
                   /\ ri.draining => ri'.draining
<1>1. ASSUME ri' = ri, ended' = ended PROVE Same
  BY <1>1
<1>2. ASSUME \/ ri' = Admit(ri)
             \/ ri' = Release(ri)
             \/ ri' = BeginDrain(ri),
             ended' = ended
      PROVE  Same
  <2>1. CASE ri' = Admit(ri)
    BY <1>2, <2>1, AdmitFacts
  <2>2. CASE ri' = Release(ri)
    BY <1>2, <2>2, ReleaseFacts
  <2>3. CASE ri' = BeginDrain(ri)
    <3>1. ri'.stopped = ri.stopped /\ ri'.draining = TRUE
      BY <2>3, BeginDrainFacts
    <3> QED BY <1>2, <3>1
  <2> QED BY <1>2, <2>1, <2>2, <2>3
<1>3. ASSUME \/ ri' = TakeTimeout(ri)
             \/ ri' = Expire(ri)
             \/ \E ttl \in BOOLEAN : ri' = SetTTL(ri, ttl),
             ended' = ended
      PROVE  Same
  <2>1. ri' \in ResidentInstances
    BY <1>3, TimerOpsType
  <2> QED BY <1>3, <2>1, TimerFacts
<1>e. ASSUME NEW d \in Drainers
      PROVE  /\ OnEntry(d, ri) \in ResidentInstances
             /\ OnEntry(d, ri).draining = ri.draining
             /\ OnEntry(d, ri).stopped = ri.stopped
  <2>1. OnEntry(d, ri) \in ResidentInstances
    BY StopTimerFacts DEF OnEntry
  <2> QED BY <2>1, DrainFacts
<1>4. ASSUME NEW d \in Drainers, DrainWait(d) PROVE Same
  BY <1>4, <1>e DEF DrainWait, ResidentInstances
<1>5. ASSUME NEW d \in Drainers, DrainDone(d)
      PROVE  /\ ri.activeCount = 0
             /\ ri'.stopped = TRUE
             /\ ri'.draining = ri.draining
             /\ ended' = "drain"
  BY <1>5, <1>e DEF DrainDone, ResidentInstances
<1>6. ASSUME \/ \E c \in Callers : LookupDead(c)
             \/ \E d \in Drainers : StopNow(d)
      PROVE  /\ ri'.stopped = TRUE
             /\ ri'.draining = ri.draining
             /\ ended' = IF ri.stopped THEN ended ELSE "abort"
  BY <1>6, MarkStoppedFacts DEF LookupDead, StopNow
<1> HIDE DEF Same
<1>7. ASSUME NEW c \in Callers, CallerStep(c), ~LookupDead(c) PROVE Same
  BY <1>7, <1>1, <1>2
     DEF CallerStep, Lookup, Refuse, Wait, Enter, Leave, GiveUp, Forget,
         Cancel, WatcherSees, WatcherBroadcasts
<1>8. ASSUME NEW d \in Drainers, DrainerStep(d), ~StopNow(d), ~DrainDone(d)
      PROVE  Same
  BY <1>8, <1>1, <1>2, <1>3, <1>4
     DEF DrainerStep, TimerFires, OnInstanceIdleTimeout, EvictByID,
         EvictLRULocked, DrainNoop, Unregister, StopSignals, StopReturns,
         StopTimesOut
<1>9. ASSUME \/ \E ttl \in BOOLEAN : SetModelTTL(ttl)
             \/ ProcExits
             \/ UNCHANGED vars
      PROVE  Same
  BY <1>9, <1>1, <1>3 DEF SetModelTTL, ProcExits, vars
<1> QED BY <1>5, <1>6, <1>7, <1>8, <1>9 DEF Next, Same

\* stopped never goes back, is set by a drain only with nobody inside, and
\* comes before anybody touches the process.
LEMMA EndStep == IInv /\ [Next]_vars => EndInv'
<1> SUFFICES ASSUME IInv, [Next]_vars PROVE EndInv'
  OBVIOUS
<1> USE DEF IInv
<1>t. /\ ri \in ResidentInstances /\ ri.activeCount \in Nat
      /\ ri.maxSlots \in Nat /\ ri.stopped \in BOOLEAN
  BY DEF TypeOK, ResidentInstances
<1>1. ri.stopped => ri'.stopped
  BY <1>t, StoppedStep
<1>2. ri'.stopped <=> ended' # "none"
  BY <1>t, StoppedStep DEF EndInv
<1>3. ended' = "drain" => ri'.activeCount = 0
  <2>1. CASE ended = "drain"
    <3>1. ri.stopped /\ ri.activeCount = 0
      BY <2>1 DEF EndInv
    <3>2. ASSUME NEW c \in Callers PROVE ~Enter(c)
      BY <3>1 DEF Enter, MustRefuse, Closed
    <3>3. Serving = {}
      BY <3>1, ServingFinite, FS_EmptySet DEF SlotAccounting
    <3>4. ASSUME NEW c \in Callers PROVE ~Leave(c)
      BY <3>3 DEF Leave, Serving
    <3> QED BY <3>1, <3>2, <3>4, RecordStep
  <2>2. CASE ended # "drain" /\ ended' = "drain"
    <3>1. PICK d \in Drainers : DrainDone(d) /\ ri.activeCount = 0
      BY <2>2, StoppedStep
    <3>2. ASSUME NEW c \in Callers PROVE ~Enter(c) /\ ~Leave(c)
      BY <3>1 DEF DrainDone, InDrain, Enter, Leave, InAcquire, TypeOK
    <3> QED BY <3>1, <3>2, RecordStep
  <2> QED BY <2>1, <2>2
<1>4. proc' \in {"signalled", "killed"} => ri'.stopped
  <2>1. proc' = proc \/ proc' = "exited"
        \/ \E d \in Drainers : dpc[d] \in {"stopping", "waitexit"}
    BY DEF Next, vars, CallerStep, DrainerStep, Lookup, LookupDead, Refuse,
           Wait, Enter, Leave, GiveUp, Forget, Cancel, WatcherSees,
           WatcherBroadcasts, TimerFires, OnInstanceIdleTimeout, EvictByID,
           EvictLRULocked, StopNow, DrainNoop, DrainWait, DrainDone,
           Unregister, StopSignals, StopReturns, StopTimesOut, SetModelTTL,
           ProcExits
  <2> QED BY <1>1, <2>1 DEF EndInv
<1>5. ASSUME NEW d \in Drainers,
             dpc'[d] \in {"unregister", "stopping", "waitexit"}
      PROVE  ri'.stopped
  <2>1. \/ dpc[d] \in {"unregister", "stopping", "waitexit"}
        \/ \E e \in Drainers : StopNow(e) \/ DrainDone(e)
    <3>w. dpc[d] # "waiting" => Woken(dpc)[d] = dpc[d]
      BY DEF Woken, TypeOK
    <3>v. dpc[d] = "waiting" => Woken(dpc)[d] = "woken"
      BY DEF Woken, TypeOK
    <3>1. CASE \E c \in Callers : CallerStep(c)
      BY <1>5, <3>1, <3>w, <3>v
         DEF CallerStep, Lookup, LookupDead, Refuse, Wait, Enter, Leave,
             GiveUp, Forget, Cancel, WatcherSees, WatcherBroadcasts
    <3>2. CASE \E e \in Drainers : DrainerStep(e)
      BY <1>5, <3>2, <3>w, <3>v
         DEF DrainerStep, TimerFires, OnInstanceIdleTimeout, EvictByID,
             EvictLRULocked, DrainNoop, DrainWait, Unregister, StopSignals,
             StopReturns, StopTimesOut, TypeOK
    <3>3. CASE \/ \E ttl \in BOOLEAN : SetModelTTL(ttl)
               \/ ProcExits
               \/ UNCHANGED vars
      BY <1>5, <3>3 DEF SetModelTTL, ProcExits, vars
    <3> QED BY <3>1, <3>2, <3>3 DEF Next
  <2>2. ASSUME NEW e \in Drainers, StopNow(e) PROVE ri'.stopped
    BY <2>2, <1>t, MarkStoppedFacts DEF StopNow
  <2>3. ASSUME NEW e \in Drainers, DrainDone(e) PROVE ri'.stopped
    <3>1. OnEntry(e, ri) \in ResidentInstances
      BY <1>t, StopTimerFacts DEF OnEntry
    <3> QED BY <2>3, <3>1 DEF DrainDone, ResidentInstances
  <2> QED BY <1>1, <2>1, <2>2, <2>3 DEF EndInv
<1> QED BY <1>2, <1>3, <1>4, <1>5 DEF EndInv

\* Sleepers: a slot waiter sleeps only while every slot is held, a drainer only
\* while some slot is, and no step takes the reason away without a broadcast.
LEMMA SleepStep == IInv /\ [Next]_vars => NoLostWakeup'
<1> SUFFICES ASSUME IInv, [Next]_vars PROVE NoLostWakeup'
  OBVIOUS
<1> USE DEF IInv
<1>t. /\ ri \in ResidentInstances /\ ri.activeCount \in Nat
      /\ ri.maxSlots \in Nat \ {0} /\ ri.stopped \in BOOLEAN
  BY DEF TypeOK, ResidentInstances
<1>w. WatchInv'
  BY WatchStep
<1>1. CASE \/ \E c \in Callers : LookupDead(c) \/ Leave(c) \/ WatcherBroadcasts(c)
           \/ \E d \in Drainers : StopNow(d)
  <2>1. ASSUME NEW c \in Callers PROVE pc'[c] # "waiting"
    BY <1>1 DEF LookupDead, Leave, WatcherBroadcasts, StopNow, Woken, TypeOK
  <2>2. ASSUME NEW d \in Drainers PROVE dpc'[d] # "waiting"
    BY <1>1 DEF LookupDead, Leave, WatcherBroadcasts, StopNow, Woken, TypeOK
  <2> QED BY <2>1, <2>2 DEF NoLostWakeup
<1>2. ASSUME NEW d \in Drainers, DrainDone(d) PROVE NoLostWakeup'
  <2>1. ri.activeCount = 0
    BY <1>2 DEF DrainDone
  <2>2. ASSUME NEW c \in Callers PROVE pc[c] # "waiting"
    BY <2>1, <1>t DEF NoLostWakeup, Full
  <2>3. ASSUME NEW e \in Drainers PROVE dpc[e] # "waiting"
    BY <2>1, <1>t DEF NoLostWakeup
  <2> QED BY <1>2, <2>2, <2>3 DEF DrainDone, NoLostWakeup, TypeOK
<1>3. CASE /\ ~(\E c \in Callers :
                  LookupDead(c) \/ Leave(c) \/ WatcherBroadcasts(c))
           /\ ~(\E d \in Drainers : StopNow(d) \/ DrainDone(d))
  <2>1. /\ ri'.maxSlots = ri.maxSlots
        /\ \/ ri'.activeCount = ri.activeCount
           \/ ri'.activeCount = ri.activeCount + 1
    BY <1>3, RecordStep
  <2>2. ri'.stopped = ri.stopped /\ (ri.draining => ri'.draining)
    BY <1>3, StoppedStep
  <2>3. ASSUME NEW c \in Callers, pc'[c] = "waiting"
        PROVE  Full(ri') /\ ~ri'.stopped
    <3>1. pc[c] = "waiting" \/ Wait(c)
      BY <1>3, <2>3
         DEF Next, vars, CallerStep, DrainerStep, Lookup, Refuse, Wait, Enter,
             GiveUp, Forget, Cancel, WatcherSees, TimerFires,
             OnInstanceIdleTimeout, EvictByID, EvictLRULocked, DrainNoop,
             DrainWait, Unregister, StopSignals, StopReturns, StopTimesOut,
             SetModelTTL, ProcExits, TypeOK
    <3>2. Full(ri) /\ ~ri.stopped
      BY <3>1 DEF NoLostWakeup, Wait, MustRefuse, Closed
    <3> QED BY <3>2, <2>1, <2>2, <1>t DEF Full
  <2>4. ASSUME NEW d \in Drainers, dpc'[d] = "waiting"
        PROVE  ri'.activeCount > 0 /\ ri'.draining /\ ~ri'.stopped
    <3>1. dpc[d] = "waiting" \/ DrainWait(d)
      BY <1>3, <2>4
         DEF Next, vars, CallerStep, DrainerStep, Lookup, Refuse, Wait, Enter,
             GiveUp, Forget, Cancel, WatcherSees, TimerFires,
             OnInstanceIdleTimeout, EvictByID, EvictLRULocked, DrainNoop,
             DrainWait, Unregister, StopSignals, StopReturns, StopTimesOut,
             SetModelTTL, ProcExits, TypeOK
    <3>2. CASE dpc[d] = "waiting"
      BY <3>2, <2>1, <2>2, <1>t DEF NoLostWakeup
    <3>3. CASE DrainWait(d)
      <4>1. OnEntry(d, ri) \in ResidentInstances
        BY <1>t, StopTimerFacts DEF OnEntry
      <4>2. ri'.draining
        BY <3>3, <4>1 DEF DrainWait, ResidentInstances
      <4>3. ri.activeCount > 0 /\ ~ri.stopped
        BY <3>3 DEF DrainWait
      <4> QED BY <4>2, <4>3, <2>1, <2>2, <1>t
    <3> QED BY <3>1, <3>2, <3>3
  <2> QED BY <2>3, <2>4, <1>w DEF NoLostWakeup, WatchInv, Watched
<1> QED BY <1>1, <1>2, <1>3

\* Every step preserves the inductive invariant.
LEMMA IInvStep == IInv /\ [Next]_vars => IInv'
<1> SUFFICES ASSUME IInv, [Next]_vars PROVE IInv'
  OBVIOUS
<1>1. TypeOK'
  BY TypeStep DEF IInv
<1>2. SlotAccounting' /\ CapacityInv'
  BY SlotStep
<1>3. WatchInv' /\ EndInv' /\ NoLostWakeup'
  BY WatchStep, EndStep, SleepStep
<1> QED BY <1>1, <1>2, <1>3 DEF IInv

\* The inductive invariant holds in every reachable state.
THEOREM IInvHolds == Spec => []IInv
BY IInvInit, IInvStep, PTL DEF Spec

-----------------------------------------------------------------------------
(* The properties the runs check, for every value of the constants.        *)

\* However requests, cancellations, drains and shutdowns interleave, the slot
\* counter equals the number of requests in flight and respects the limit.
THEOREM SlotAccountingHolds == Spec => []SlotAccounting
<1>1. IInv => SlotAccounting
  BY DEF IInv
<1> QED BY <1>1, IInvHolds, PTL

\* No goroutine sleeps in idleCond.Wait with nobody left to wake it.
THEOREM NoLostWakeupHolds == Spec => []NoLostWakeup
<1>1. IInv => NoLostWakeup
  BY DEF IInv
<1> QED BY <1>1, IInvHolds, PTL

\* A drain never interrupts or kills the process under a request that holds a
\* slot.
THEOREM DrainSparesInFlightHolds == Spec => []DrainSparesInFlight
<1>1. IInv => DrainSparesInFlight
  <2> SUFFICES ASSUME IInv, proc \in {"signalled", "killed"}, Serving # {}
               PROVE  ended = "abort"
    BY DEF DrainSparesInFlight
  <2>1. ended # "none"
    BY DEF IInv, EndInv
  <2>2. ri.activeCount # 0
    BY ServingFinite, FS_EmptySet DEF IInv, SlotAccounting
  <2>3. ended # "drain"
    BY <2>2 DEF IInv, EndInv
  <2> QED BY <2>1, <2>3 DEF IInv, TypeOK
<1> QED BY <1>1, IInvHolds, PTL

-----------------------------------------------------------------------------
(* Refinement.                                                             *)

\* A freshly registered instance is a gate with its launcher inside.
LEMMA GateInitial == Init => Gate!GateInit
<1> SUFFICES ASSUME Init PROVE Gate!GateInit
  OBVIOUS
<1>1. PICK c \in Callers, ttl \in BOOLEAN :
        /\ ri = Admit(newResidentInstance(ttl, Slots))
        /\ pc = [x \in Callers |-> IF x = c THEN "serving" ELSE "out"]
        /\ ended = "none"
  BY DEF Init
<1>2. newResidentInstance(ttl, Slots).draining = FALSE
  BY DEF newResidentInstance
<1>3. ri.draining = FALSE
  BY <1>1, <1>2, NewType, AdmitFacts
<1>4. Serving = {c}
  BY <1>1 DEF Serving
<1>5. Phase = "open"
  BY <1>1, <1>3 DEF Phase
<1> QED BY <1>4, <1>5 DEF Gate!GateInit

\* Every step of the instance is a step of the gate or invisible to it.
LEMMA GateStep ==
  IInv /\ [Next]_vars => [Gate!GateNext]_(Gate!gateVars)
<1> SUFFICES ASSUME IInv, [Next]_vars
             PROVE  Gate!GateNext \/ (Serving' = Serving /\ Phase' = Phase)
  BY DEF Gate!gateVars
<1> USE DEF IInv
<1>t. /\ ri \in ResidentInstances /\ ri.activeCount \in Nat
      /\ ri.maxSlots \in Nat /\ ri.stopped \in BOOLEAN
      /\ ri.draining \in BOOLEAN /\ ended \in {"none", "drain", "abort"}
  BY DEF TypeOK, ResidentInstances
<1>1. ASSUME NEW c \in Callers, Enter(c) PROVE Gate!Enter(c)
  <2>1. ~ri.draining /\ ~ri.stopped /\ ~Full(ri)
    BY <1>1 DEF Enter, MustRefuse, Closed
  <2>2. ended = "none"
    BY <2>1 DEF EndInv
  <2>3. Phase = "open"
    BY <2>1, <2>2 DEF Phase
  <2>4. ri'.draining = ri.draining /\ ended' = ended
    BY <1>1, <1>t, AdmitFacts DEF Enter
  <2>5. Phase' = Phase
    BY <2>4 DEF Phase
  <2>6. c \notin Serving /\ Serving' = Serving \cup {c}
    BY <1>1 DEF Enter, InAcquire, Serving, TypeOK
  <2>7. Cardinality(Serving) < IF Slots <= 0 THEN 1 ELSE Slots
    BY <2>1, <1>t, SlotsAssumption DEF SlotAccounting, CapacityInv, Full
  <2>8. Gate!Cardinality(Serving) = Cardinality(Serving)
    BY DEF Gate!Cardinality, Cardinality
  <2> QED BY <2>3, <2>5, <2>6, <2>7, <2>8 DEF Gate!Enter
<1>2. ASSUME NEW c \in Callers, Leave(c) PROVE Gate!Leave(c)
  <2>1. ri'.draining = ri.draining /\ ended' = ended
    BY <1>2, <1>t, ReleaseFacts DEF Leave
  <2>2. Phase' = Phase
    BY <2>1 DEF Phase
  <2>3. c \in Serving
    BY <1>2 DEF Leave, Serving
  <2>4. \A x \in Callers : x # c =>
          (pc'[x] = "serving" <=> pc[x] = "serving")
    BY <1>2 DEF Leave, Woken, TypeOK
  <2>5. pc'[c] = "out"
    BY <1>2 DEF Leave, Woken, TypeOK
  <2>6. Serving' = Serving \ {c}
    BY <2>3, <2>4, <2>5 DEF Serving
  <2> QED BY <2>2, <2>3, <2>6 DEF Gate!Leave
<1>3. CASE ~(\E c \in Callers : Enter(c)) /\ ~(\E c \in Callers : Leave(c))
  <2>1. Serving' = Serving
    BY <1>3, ServingStep
  <2>2. CASE /\ ri'.stopped = ri.stopped
             /\ ended' = ended
             /\ ri.draining => ri'.draining
    <3>1. CASE Phase' = Phase
      BY <2>1, <3>1
    <3>2. CASE Phase' # Phase
      <4>1. ended = "none" /\ ~ri.draining /\ ri'.draining
        BY <1>t, <2>2, <3>2 DEF Phase
      <4>2. Phase = "open" /\ Phase' = "draining"
        BY <2>2, <4>1 DEF Phase
      <4> QED BY <2>1, <4>2 DEF Gate!GateNext, Gate!StartDrain
    <3> QED BY <3>1, <3>2
  <2>3. CASE ended' = IF ri.stopped THEN ended ELSE "abort"
    <3>1. CASE ri.stopped
      <4>1. ended # "none" /\ ended' = ended
        BY <2>3, <3>1 DEF EndInv
      <4>2. Phase' = Phase
        BY <1>t, <4>1 DEF Phase
      <4> QED BY <2>1, <4>2
    <3>2. CASE ~ri.stopped
      <4>1. ended = "none" /\ ended' = "abort"
        BY <2>3, <3>2 DEF EndInv
      <4>2. Phase \in {"open", "draining"} /\ Phase' = "aborted"
        BY <4>1 DEF Phase
      <4> QED BY <2>1, <4>2 DEF Gate!GateNext, Gate!Abort
    <3> QED BY <3>1, <3>2
  <2>4. CASE /\ \E d \in Drainers : DrainDone(d)
             /\ ri.activeCount = 0
             /\ ended' = "drain"
    <3>1. ended = "none"
      BY <2>4 DEF DrainDone, EndInv
    <3>2. Phase \in {"open", "draining"} /\ Phase' = "closed"
      BY <3>1, <2>4 DEF Phase
    <3>3. Serving = {}
      BY <2>4, ServingFinite, FS_EmptySet DEF SlotAccounting
    <3> QED BY <2>1, <3>2, <3>3 DEF Gate!GateNext, Gate!Shut
  <2>5. \/ /\ ri'.stopped = ri.stopped
           /\ ended' = ended
           /\ ri.draining => ri'.draining
        \/ ended' = IF ri.stopped THEN ended ELSE "abort"
        \/ /\ \E d \in Drainers : DrainDone(d)
           /\ ri.activeCount = 0
           /\ ended' = "drain"
    BY StoppedStep
  <2> QED BY <2>2, <2>3, <2>4, <2>5
<1> QED BY <1>1, <1>2, <1>3 DEF Gate!GateNext

\* residentInstance with its condition variable, timers, watchers and drains
\* implements the drainable gate: capacity respected, never reopened, shut by
\* a drain only when empty.
THEOREM Implements == Spec => ImplementsGate
<1>1. Spec => Gate!GateInit
  BY GateInitial DEF Spec
<1> QED
  BY <1>1, GateStep, IInvHolds, PTL DEF Spec, ImplementsGate, Gate!GateSpec

-----------------------------------------------------------------------------
(* Ownership of the process.                                               *)

\* A closed instance has somebody who will finish it, and a request is turned
\* away only from an instance that is closed, dead, or because it was itself
\* cancelled.
OwnerInv ==
  /\ ri.draining /\ ~ri.stopped =>
       \E d \in Drainers : dpc[d] \in {"called", "waiting", "woken"}
  /\ ri.stopped /\ proc \in {"running", "signalled"} =>
       \E d \in Drainers : dpc[d] \in {"unregister", "stopping", "waitexit"}
  /\ ~registered /\ proc # "exited" => Closed(ri)
  /\ \A c \in Callers :
       pc[c] = "refused" => ctxDone[c] \/ Closed(ri) \/ proc = "exited"

\* Closed and stopped are stable.
LEMMA ClosedStable ==
  ASSUME IInv, [Next]_vars
  PROVE  /\ ri.stopped => ri'.stopped
         /\ Closed(ri) => Closed(ri')
<1>1. ri.stopped \in BOOLEAN /\ ri.draining \in BOOLEAN
  BY DEF IInv, TypeOK, ResidentInstances
<1>2. TypeOK
  BY DEF IInv
<1> QED BY <1>1, <1>2, StoppedStep DEF Closed

\* A drain that has not finished keeps its goroutine.
LEMMA DrainOwnerStep ==
  ASSUME IInv, OwnerInv, [Next]_vars, ri'.draining, ~ri'.stopped
  PROVE  \E d \in Drainers : dpc'[d] \in {"called", "waiting", "woken"}
<1> USE DEF IInv
<1>t. ri \in ResidentInstances /\ ri.draining \in BOOLEAN
  BY DEF TypeOK, ResidentInstances
<1>s. ~ri.stopped
  BY ClosedStable
<1>w. \A e \in Drainers :
        /\ dpc[e] # "waiting" => Woken(dpc)[e] = dpc[e]
        /\ dpc[e] = "waiting" => Woken(dpc)[e] = "woken"
  BY DEF Woken, TypeOK
<1>1. CASE ri.draining
  <2>1. PICK e \in Drainers : dpc[e] \in {"called", "waiting", "woken"}
    BY <1>1, <1>s DEF OwnerInv
  <2>2. CASE \E c \in Callers : CallerStep(c)
    <3>1. dpc' = dpc \/ dpc' = Woken(dpc)
      BY <2>2
         DEF CallerStep, Lookup, LookupDead, Refuse, Wait, Enter, Leave,
             GiveUp, Forget, Cancel, WatcherSees, WatcherBroadcasts
    <3> QED BY <2>1, <3>1, <1>w
  <2>3. ASSUME NEW d \in Drainers, DrainerStep(d)
        PROVE  dpc'[e] \in {"called", "waiting", "woken"}
    <3>1. ~StopNow(d)
      BY <1>t, MarkStoppedFacts DEF StopNow
    <3>2. ~DrainNoop(d)
      BY <1>s DEF DrainNoop
    <3>3. ~DrainDone(d)
      <4>1. OnEntry(d, ri) \in ResidentInstances
        BY <1>t, StopTimerFacts DEF OnEntry
      <4> QED BY <4>1 DEF DrainDone, ResidentInstances
    <3> QED
      BY <2>1, <2>3, <3>1, <3>2, <3>3
         DEF DrainerStep, TimerFires, OnInstanceIdleTimeout, EvictByID,
             EvictLRULocked, DrainWait, Unregister, StopSignals, StopReturns,
             StopTimesOut, TypeOK
  <2>4. CASE \/ \E ttl \in BOOLEAN : SetModelTTL(ttl)
             \/ ProcExits
             \/ UNCHANGED vars
    BY <2>1, <2>4 DEF SetModelTTL, ProcExits, vars
  <2> QED BY <2>2, <2>3, <2>4 DEF Next
<1>2. CASE ~ri.draining
  <2>1. \E d \in Drainers : EvictLRULocked(d) \/ DrainWait(d)
    <3>1. ASSUME ri' = ri PROVE FALSE
      BY <3>1, <1>2
    <3>2. ASSUME \/ ri' = MarkStopped(ri)
                 \/ ri' = Admit(ri)
                 \/ ri' = Release(ri)
          PROVE  FALSE
      <4>1. ri' = MarkStopped(ri) => ri'.draining = ri.draining
        BY <1>t, MarkStoppedFacts
      <4>2. ri' = Admit(ri) => ri'.draining = ri.draining
        BY <1>t, AdmitFacts
      <4>3. ri' = Release(ri) => ri'.draining = ri.draining
        BY <1>t, ReleaseFacts
      <4> QED BY <3>2, <4>1, <4>2, <4>3, <1>2
    <3>3. ASSUME \/ ri' = TakeTimeout(ri)
                 \/ ri' = Expire(ri)
                 \/ \E ttl \in BOOLEAN : ri' = SetTTL(ri, ttl)
          PROVE  FALSE
      <4>1. ri' \in ResidentInstances
        BY <3>3, <1>t, TimerOpsType
      <4>2. ri'.draining = ri.draining
        BY <3>3, <4>1, <1>t, TimerFacts
      <4> QED BY <4>2, <1>2
    <3>4. ASSUME NEW d \in Drainers, DrainDone(d) PROVE FALSE
      <4>1. OnEntry(d, ri) \in ResidentInstances
        BY <1>t, StopTimerFacts DEF OnEntry
      <4> QED BY <3>4, <4>1 DEF DrainDone, ResidentInstances
    <3>5. CASE \E c \in Callers : CallerStep(c)
      BY <3>5, <3>1, <3>2
         DEF CallerStep, Lookup, LookupDead, Refuse, Wait, Enter, Leave,
             GiveUp, Forget, Cancel, WatcherSees, WatcherBroadcasts
    <3>6. CASE \E d \in Drainers : DrainerStep(d)
      BY <3>6, <3>1, <3>2, <3>3, <3>4
         DEF DrainerStep, TimerFires, OnInstanceIdleTimeout, EvictByID,
             StopNow, DrainNoop, Unregister, StopSignals, StopReturns,
             StopTimesOut
    <3>7. CASE \/ \E ttl \in BOOLEAN : SetModelTTL(ttl)
               \/ ProcExits
               \/ UNCHANGED vars
      BY <3>7, <3>1, <3>3 DEF SetModelTTL, ProcExits, vars
    <3> QED BY <3>5, <3>6, <3>7 DEF Next
  <2> QED BY <2>1 DEF EvictLRULocked, DrainWait, TypeOK
<1> QED BY <1>1, <1>2, <1>t

\* A stopped instance whose process still runs keeps the goroutine that stops
\* it.
LEMMA StopOwnerStep ==
  ASSUME IInv, OwnerInv, [Next]_vars,
         ri'.stopped, proc' \in {"running", "signalled"}
  PROVE  \E d \in Drainers :
           dpc'[d] \in {"unregister", "stopping", "waitexit"}
<1> USE DEF IInv
<1>w. \A e \in Drainers :
        /\ dpc[e] # "waiting" => Woken(dpc)[e] = dpc[e]
        /\ dpc[e] = "waiting" => Woken(dpc)[e] = "woken"
  BY DEF Woken, TypeOK
<1>p. proc \in {"running", "signalled"}
  BY DEF Next, vars, CallerStep, DrainerStep, Lookup, LookupDead, Refuse,
         Wait, Enter, Leave, GiveUp, Forget, Cancel, WatcherSees,
         WatcherBroadcasts, TimerFires, OnInstanceIdleTimeout, EvictByID,
         EvictLRULocked, StopNow, DrainNoop, DrainWait, DrainDone,
         Unregister, StopSignals, StopReturns, StopTimesOut, SetModelTTL,
         ProcExits, TypeOK
<1>1. CASE ri.stopped
  <2>1. PICK e \in Drainers : dpc[e] \in {"unregister", "stopping", "waitexit"}
    BY <1>1, <1>p DEF OwnerInv
  <2>2. CASE \E c \in Callers : CallerStep(c)
    <3>1. dpc' = dpc \/ dpc' = Woken(dpc)
      BY <2>2
         DEF CallerStep, Lookup, LookupDead, Refuse, Wait, Enter, Leave,
             GiveUp, Forget, Cancel, WatcherSees, WatcherBroadcasts
    <3> QED BY <2>1, <3>1, <1>w
  <2>3. ASSUME NEW d \in Drainers, DrainerStep(d)
        PROVE  dpc'[e] \in {"unregister", "stopping", "waitexit"}
    <3>1. CASE StopNow(d)
      BY <2>1, <3>1 DEF StopNow, Woken, TypeOK
    <3>2. CASE DrainNoop(d) \/ DrainWait(d) \/ DrainDone(d)
      BY <2>1, <3>2 DEF DrainNoop, DrainWait, DrainDone, InDrain, TypeOK
    <3>3. CASE Unregister(d) \/ StopSignals(d) \/ StopReturns(d)
               \/ StopTimesOut(d)
      BY <2>1, <3>3, <1>p
         DEF Unregister, StopSignals, StopReturns, StopTimesOut, TypeOK
    <3>4. CASE TimerFires(d) \/ OnInstanceIdleTimeout(d) \/ EvictByID(d)
               \/ EvictLRULocked(d)
      BY <2>1, <3>4
         DEF TimerFires, OnInstanceIdleTimeout, EvictByID, EvictLRULocked,
             TypeOK
    <3> QED BY <2>3, <3>1, <3>2, <3>3, <3>4 DEF DrainerStep
  <2>4. CASE \/ \E ttl \in BOOLEAN : SetModelTTL(ttl)
             \/ ProcExits
             \/ UNCHANGED vars
    BY <2>1, <2>4 DEF SetModelTTL, ProcExits, vars
  <2> QED BY <2>2, <2>3, <2>4 DEF Next
<1>2. CASE ~ri.stopped
  <2>1. \/ \E c \in Callers : LookupDead(c)
        \/ \E d \in Drainers : StopNow(d) \/ DrainDone(d)
    <3>1. \/ ri'.stopped = ri.stopped
          \/ \E c \in Callers : LookupDead(c)
          \/ \E d \in Drainers : StopNow(d) \/ DrainDone(d)
      BY StoppedStep
    <3> QED BY <3>1, <1>2
  <2>2. ASSUME NEW c \in Callers PROVE ~LookupDead(c)
    BY <1>p DEF LookupDead
  <2>3. PICK d \in Drainers : StopNow(d) \/ DrainDone(d)
    BY <2>1, <2>2
  <2>4. dpc'[d] \in {"unregister", "stopping"}
    BY <2>3 DEF StopNow, DrainDone, Woken, TypeOK
  <2> QED BY <2>4
<1> QED BY <1>1, <1>2

\* Every step preserves the ownership of the child.
LEMMA OwnerStep == IInv /\ OwnerInv /\ [Next]_vars => OwnerInv'
<1> SUFFICES ASSUME IInv, OwnerInv, [Next]_vars PROVE OwnerInv'
  OBVIOUS
<1>t. ri \in ResidentInstances
  BY DEF IInv, TypeOK
<1>x. proc = "exited" => proc' = "exited"
  BY DEF Next, vars, CallerStep, DrainerStep, Lookup, LookupDead, Refuse,
         Wait, Enter, Leave, GiveUp, Forget, Cancel, WatcherSees,
         WatcherBroadcasts, TimerFires, OnInstanceIdleTimeout, EvictByID,
         EvictLRULocked, StopNow, DrainNoop, DrainWait, DrainDone,
         Unregister, StopSignals, StopReturns, StopTimesOut, SetModelTTL,
         ProcExits
<1>1. ASSUME ~registered', proc' # "exited" PROVE Closed(ri')
  <2>1. CASE ~registered
    BY <1>1, <1>x, <2>1, ClosedStable DEF OwnerInv
  <2>2. CASE registered
    <3>1. \/ \E c \in Callers : LookupDead(c) \/ Forget(c)
          \/ \E d \in Drainers :
               EvictLRULocked(d) \/ StopNow(d) \/ Unregister(d)
      BY <1>1, <2>2
         DEF Next, vars, CallerStep, DrainerStep, Lookup, Refuse, Wait, Enter,
             Leave, GiveUp, Cancel, WatcherSees, WatcherBroadcasts,
             TimerFires, OnInstanceIdleTimeout, EvictByID, DrainNoop,
             DrainWait, DrainDone, StopSignals, StopReturns, StopTimesOut,
             SetModelTTL, ProcExits
    <3>2. ASSUME NEW c \in Callers, LookupDead(c) \/ Forget(c)
          PROVE  Closed(ri')
      <4>1. ~LookupDead(c)
        BY <1>1, <1>x DEF LookupDead
      <4>2. Closed(ri)
        BY <3>2, <4>1, <1>1, <1>x DEF Forget, OwnerInv
      <4> QED BY <4>2, ClosedStable
    <3>3. ASSUME NEW d \in Drainers, EvictLRULocked(d) PROVE Closed(ri')
      BY <3>3, <1>t, BeginDrainFacts DEF EvictLRULocked, Closed
    <3>4. ASSUME NEW d \in Drainers, StopNow(d) PROVE Closed(ri')
      BY <3>4, <1>t, MarkStoppedFacts DEF StopNow, Closed
    <3>5. ASSUME NEW d \in Drainers, Unregister(d) PROVE Closed(ri')
      <4>1. ri.stopped
        BY <3>5 DEF Unregister, IInv, EndInv
      <4> QED BY <4>1, ClosedStable DEF Closed
    <3> QED BY <3>1, <3>2, <3>3, <3>4, <3>5
  <2> QED BY <2>1, <2>2
<1>2. ASSUME NEW c \in Callers, pc'[c] = "refused"
      PROVE  ctxDone'[c] \/ Closed(ri') \/ proc' = "exited"
  <2>1. ctxDone[c] \/ Closed(ri) \/ proc = "exited"
    <3>1. pc[c] = "refused" \/ Refuse(c)
      BY <1>2
         DEF Next, vars, CallerStep, DrainerStep, Lookup, LookupDead, Refuse,
             Wait, Enter, Leave, GiveUp, Forget, Cancel, WatcherSees,
             WatcherBroadcasts, TimerFires, OnInstanceIdleTimeout, EvictByID,
             EvictLRULocked, StopNow, DrainNoop, DrainWait, DrainDone,
             Unregister, StopSignals, StopReturns, StopTimesOut, SetModelTTL,
             ProcExits, Woken, IInv, TypeOK
    <3> QED BY <3>1 DEF Refuse, MustRefuse, OwnerInv
  <2>2. ctxDone[c] => ctxDone'[c]
    BY <1>2
       DEF Next, vars, CallerStep, DrainerStep, Lookup, LookupDead, Refuse,
           Wait, Enter, Leave, GiveUp, Forget, Cancel, WatcherSees,
           WatcherBroadcasts, TimerFires, OnInstanceIdleTimeout, EvictByID,
           EvictLRULocked, StopNow, DrainNoop, DrainWait, DrainDone,
           Unregister, StopSignals, StopReturns, StopTimesOut, SetModelTTL,
           ProcExits, IInv, TypeOK
  <2> QED BY <2>1, <2>2, <1>x, ClosedStable
<1> QED BY <1>1, <1>2, DrainOwnerStep, StopOwnerStep DEF OwnerInv

\* A freshly registered child is owned by the registry.
LEMMA OwnerInit == Init => OwnerInv
<1> SUFFICES ASSUME Init PROVE OwnerInv
  OBVIOUS
<1>1. PICK c \in Callers, ttl \in BOOLEAN :
        /\ ri = Admit(newResidentInstance(ttl, Slots))
        /\ pc = [x \in Callers |-> IF x = c THEN "serving" ELSE "out"]
  BY DEF Init
<1>2. /\ newResidentInstance(ttl, Slots).draining = FALSE
      /\ newResidentInstance(ttl, Slots).stopped = FALSE
  BY DEF newResidentInstance
<1>3. ri.draining = FALSE /\ ri.stopped = FALSE
  BY <1>1, <1>2, NewType, AdmitFacts
<1> QED BY <1>1, <1>3 DEF Init, OwnerInv

\* A child that is neither dead nor killed is in the registry or has a
\* goroutine on its way to stop it: no sequence of evictions, LRU victims,
\* timeouts, refused requests and shutdowns loses track of it.
THEOREM ProcessOwnedHolds == Spec => []ProcessOwned
<1>1. IInv /\ OwnerInv => ProcessOwned
  <2> SUFFICES ASSUME IInv, OwnerInv, proc \in {"running", "signalled"},
                      ~registered
               PROVE  \E d \in Drainers : dpc[d] \notin {"idle", "fired"}
    BY DEF ProcessOwned
  <2>1. Closed(ri)
    BY DEF OwnerInv
  <2>2. CASE ri.stopped
    BY <2>2 DEF OwnerInv
  <2>3. CASE ~ri.stopped
    BY <2>1, <2>3 DEF OwnerInv, Closed
  <2> QED BY <2>2, <2>3
<1> QED
  BY <1>1, IInvHolds, IInvInit, IInvStep, OwnerInit, OwnerStep, PTL DEF Spec

-----------------------------------------------------------------------------
(* The idle timer.                                                         *)

DrainCalled == \E d \in Drainers : dpc[d] = "called"

\* A timer that is pending in an open instance counts, unless a callback that
\* was late has taken its place and is about to drain.
ArmedInv == ri.armed /\ ~Closed(ri) => ri.timerActive \/ DrainCalled

TimerInv == IdleHasWayOut /\ ArmedInv

\* A step that leaves the record, the callbacks and the drains that were called
\* alone leaves the way out alone.
LEMMA TimerLeftAlone ==
  ASSUME TimerInv, ri' = ri,
         \A d \in Drainers : dpc[d] \in {"called", "fired"} => dpc'[d] = dpc[d]
  PROVE  TimerInv'
BY DEF TimerInv, IdleHasWayOut, ArmedInv, DrainCalled, Closed

\* A broadcast disturbs neither callbacks nor drains that have not begun.
LEMMA WokenCallbacks ==
  ASSUME TypeOK, NEW d \in Drainers
  PROVE  dpc[d] \in {"called", "fired"} => Woken(dpc)[d] = dpc[d]
BY DEF TypeOK, Woken

\* Every step keeps the way out of an idle instance.
LEMMA TimerStep == TypeOK /\ TimerInv /\ [Next]_vars => TimerInv'
<1> SUFFICES ASSUME TypeOK, TimerInv, [Next]_vars PROVE TimerInv'
  OBVIOUS
<1>t. ri \in ResidentInstances /\ dpc \in [Drainers -> DrainerPC]
  BY DEF TypeOK
<1> USE DEF TimerInv, IdleHasWayOut, ArmedInv, DrainCalled, Closed
<1>1. ASSUME NEW c \in Callers, Lookup(c) \/ Refuse(c) \/ Wait(c) \/ GiveUp(c)
                                \/ Forget(c) \/ Cancel(c) \/ WatcherSees(c)
      PROVE  TimerInv'
  BY <1>1, TimerLeftAlone DEF Lookup, Refuse, Wait, GiveUp, Forget, Cancel,
     WatcherSees
<1>2. ASSUME NEW c \in Callers, WatcherBroadcasts(c) PROVE TimerInv'
  BY <1>2, TimerLeftAlone, WokenCallbacks DEF WatcherBroadcasts
<1>3. ASSUME NEW c \in Callers, LookupDead(c) PROVE TimerInv'
  BY <1>3, <1>t, MarkStoppedFacts DEF LookupDead
<1>4. ASSUME NEW c \in Callers, Enter(c) PROVE TimerInv'
  <2>1. ri'.activeCount > 0 /\ ri'.draining = ri.draining /\ ri'.stopped = ri.stopped
    BY <1>4, <1>t, AdmitFacts DEF Enter, ResidentInstances
  <2>2. ri'.armed => ri.armed /\ ~ri.timerActive
    BY <1>4, <1>t DEF Enter, Admit, StopTimer, ResidentInstances
  <2>3. dpc' = dpc
    BY <1>4 DEF Enter
  <2> QED
    BY <2>1, <2>2, <2>3
<1>5. ASSUME NEW c \in Callers, Leave(c) PROVE TimerInv'
  <2> DEFINE back == [ri EXCEPT !.activeCount = IF @ > 0 THEN @ - 1 ELSE 0]
  <2>1. /\ back \in ResidentInstances /\ back.ttl = ri.ttl /\ back.armed = ri.armed
        /\ back.timerActive = ri.timerActive
        /\ back.draining = ri.draining /\ back.stopped = ri.stopped
    BY <1>t DEF ResidentInstances
  <2>2. ri' = IF back.activeCount = 0 /\ ~Closed(ri) /\ ri.ttl
                THEN ArmTimer(back) ELSE back
    BY <1>5 DEF Leave, Release
  <2> HIDE DEF back
  <2>3. ArmTimer(back).armed /\ ArmTimer(back).timerActive
    BY <2>1 DEF ArmTimer, ResidentInstances
  <2>4. \A d \in Drainers : dpc[d] = "called" => dpc'[d] = "called"
    BY <1>5, WokenCallbacks DEF Leave
  <2> QED
    BY <2>1, <2>2, <2>3, <2>4
<1>6. ASSUME NEW ttl \in BOOLEAN, SetModelTTL(ttl) PROVE TimerInv'
  <2>1. dpc' = dpc /\ ri' = SetTTL(ri, ttl)
    BY <1>6 DEF SetModelTTL
  <2>2. CASE ri.activeCount = 0 /\ ~Closed(ri)
    BY <2>1, <2>2, <1>t DEF SetTTL, ResidentInstances
  <2>3. CASE ~(ri.activeCount = 0 /\ ~Closed(ri))
    BY <2>1, <2>3, <1>t DEF SetTTL, ResidentInstances
  <2> QED
    BY <2>2, <2>3
<1>7. ASSUME NEW d \in Drainers, TimerFires(d) PROVE TimerInv'
  <2>1. /\ ri.armed /\ ~ri'.armed /\ ri'.timerActive = ri.timerActive
        /\ ri'.draining = ri.draining /\ ri'.stopped = ri.stopped
    BY <1>7, <1>t DEF TimerFires, Expire, ResidentInstances
  <2>2. dpc'[d] = "fired" /\ \A e \in Drainers : dpc[e] = "called" => dpc'[e] = "called"
    BY <1>7, <1>t DEF TimerFires
  <2> QED
    BY <2>1, <2>2
<1>8. ASSUME NEW d \in Drainers, OnInstanceIdleTimeout(d) PROVE TimerInv'
  <2>1. CASE ri.stopped \/ ~ri.timerActive
    <3>1. ri' = ri /\ \A e \in Drainers : dpc[e] = "called" => dpc'[e] = "called"
      BY <1>8, <1>t, <2>1 DEF OnInstanceIdleTimeout
    <3> QED
      BY <2>1, <3>1
  <2>2. CASE ~(ri.stopped \/ ~ri.timerActive)
    BY <1>8, <1>t, <2>2 DEF OnInstanceIdleTimeout
  <2> QED
    BY <2>1, <2>2
<1>9. ASSUME NEW d \in Drainers, EvictByID(d) PROVE TimerInv'
  BY <1>9, <1>t DEF EvictByID
<1>10. ASSUME NEW d \in Drainers, EvictLRULocked(d) PROVE TimerInv'
  BY <1>10, <1>t, BeginDrainFacts DEF EvictLRULocked
<1>11. ASSUME NEW d \in Drainers, StopNow(d) PROVE TimerInv'
  BY <1>11, <1>t, MarkStoppedFacts DEF StopNow
<1>12. ASSUME NEW d \in Drainers, DrainNoop(d) PROVE TimerInv'
  BY <1>12 DEF DrainNoop
<1>13. ASSUME NEW d \in Drainers, DrainWait(d) PROVE TimerInv'
  BY <1>13, <1>t, DrainFacts DEF DrainWait
<1>14. ASSUME NEW d \in Drainers, DrainDone(d) PROVE TimerInv'
  BY <1>14, <1>t, DrainFacts DEF DrainDone
<1>15. ASSUME NEW d \in Drainers, Unregister(d) \/ StopSignals(d) \/ StopReturns(d)
                                  \/ StopTimesOut(d)
       PROVE  TimerInv'
  BY <1>15, <1>t, TimerLeftAlone DEF Unregister, StopSignals, StopReturns, StopTimesOut
<1>16. CASE ProcExits \/ UNCHANGED vars
  BY <1>16, TimerLeftAlone DEF ProcExits, vars
<1> QED
  BY <1>1, <1>2, <1>3, <1>4, <1>5, <1>6, <1>7, <1>8, <1>9, <1>10, <1>11, <1>12,
     <1>13, <1>14, <1>15, <1>16 DEF Next, CallerStep, DrainerStep

\* A registered instance starts with its launcher's request in flight and no
\* timer.
LEMMA TimerInit == Init => TimerInv
<1> SUFFICES ASSUME Init PROVE TimerInv
  OBVIOUS
<1>1. PICK ttl \in BOOLEAN : ri = Admit(newResidentInstance(ttl, Slots))
  BY DEF Init
<1>2. ri.activeCount = 1
  BY <1>1, NewType, AdmitFacts
<1>3. ~newResidentInstance(ttl, Slots).armed /\ ~newResidentInstance(ttl, Slots).timerActive
  BY DEF newResidentInstance
<1>4. ~ri.armed
  BY <1>1, <1>3, NewType DEF Admit, StopTimer, ResidentInstances
<1> QED
  BY <1>2, <1>4 DEF TimerInv, IdleHasWayOut, ArmedInv

\* An idle instance with a TTL always has a timer pending, a callback about to
\* look, or a drain on its way, through late callbacks, re-arming and
\* SetModelTTL.
THEOREM IdleHasWayOutHolds == Spec => []IdleHasWayOut
<1>1. TimerInv => IdleHasWayOut
  BY DEF TimerInv
<1> QED
  BY <1>1, TypeCorrect, TimerInit, TimerStep, PTL DEF Spec
=============================================================================
