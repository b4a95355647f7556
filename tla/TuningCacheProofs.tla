------------------------- MODULE TuningCacheProofs --------------------------
(***************************************************************************)
(* Proofs about TuningCache, for every set of models, loads, files and     *)
(* machines and any number of disturbances.                                *)
(***************************************************************************)
EXTENDS TuningCache, TLAPS

-----------------------------------------------------------------------------
(* The inductive invariant.                                                *)

\* A load under way.
Flying(l) == load[l].pc \in InFlight

\* s.mu is held only by somebody who is saving, and a load is saving exactly in
\* these two places; one load of a model is in flight at a time; and nothing is
\* under way in a daemon that is down.
FlightInv ==
  /\ save.step # "none" =>
       \/ save.by = "reset" /\ reset.pc = "saving"
       \/ save.by \in Loads /\ load[save.by].pc \in {"dropping", "storing"}
  /\ ~up => save = NoSave /\ reset = NoReset /\ \A l \in Loads : ~Measuring(l)
  /\ \A l \in Loads : load[l].pc \in {"dropping", "storing"} =>
       ~Unlocked /\ save.by = l
  /\ \A l \in Loads : Measuring(l) => load[l].model \in Models
  /\ \A k, l \in Loads : Flying(k) /\ Flying(l) /\ k # l =>
       load[k].model # load[l].model

\* An entry is a load of its model that has ended, or, in memory, the one whose
\* save is under way.
EntryInv ==
  /\ \A m \in Models : tuned[m] # None =>
       load[tuned[m]].model = m /\ load[tuned[m]].pc \in {"storing", "done"}
  /\ \A m \in Models : file.entries[m] # None =>
       load[file.entries[m]].model = m /\ load[file.entries[m]].pc = "done"
  /\ \A l \in Loads : load[l].seen # None =>
       /\ load[load[l].seen].model = load[l].model
       /\ load[load[l].seen].pc = "done"

\* What a load knows of the machine and of its file was true during the load.
MeasureInv ==
  \A l \in Loads :
    /\ Measuring(l) => hw \in load[l].machines
    /\ load[l].model # None => load[l].digest \in load[l].sizes
    /\ load[l].pc \in {"measured", "storing"}
         \/ (load[l].pc = "done" /\ load[l].model # None)
       => load[l].fp = Blind \/ load[l].fp \in load[l].machines

\* What a reset is to remove has ended, but for the loads it waits for; and
\* while its save is under way the entry is gone from memory.
ResetInv ==
  /\ \A m \in Models : \A l \in banned[m] : load[l].pc \in {"done", "dead"}
  /\ \A l \in reset.before : l \in reset.waits \/ load[l].pc \in {"done", "dead"}
  /\ reset.pc # "idle" => reset.model \in Models
  /\ reset.pc \in {"delete", "saving"} => reset.waits = {}
  /\ ~Unlocked /\ save.by = "reset" => tuned[reset.model] = None

\* A load that found no entry, or dropped it, still has none to meet; the entry
\* that a load looks at is in memory unless a reset has removed it; and a
\* configuration taken from the cache comes from an entry.
LookInv ==
  \A l \in Loads :
    /\ load[l].pc = "looked" => tuned[load[l].model] \in {load[l].seen, None}
    /\ load[l].pc = "cached" => load[l].seen # None
    /\ load[l].pc \in {"dropping", "tune", "tuning", "measured"} =>
         tuned[load[l].model] = None

\* An entry that nothing has disturbed is current in the file and in memory,
\* nobody is about to remove it, and a save under way writes it again.
DurableInv ==
  \A m \in durable :
    /\ file.is = "whole" /\ file.fp = hw /\ Current(m, file.entries[m])
    /\ up => Current(m, tuned[m])
    /\ Calm(m)
    /\ ~Unlocked => save.fp = hw

Inv ==
  /\ TypeOK /\ FlightInv /\ EntryInv /\ MeasureInv /\ LookInv
  /\ CachedConfigMeasuredHere /\ ResetInv /\ ResetSticks /\ DurableInv

-----------------------------------------------------------------------------
(* Types.                                                                  *)

\* Where a load, and what replaces it when it ends, begins.
LEMMA NoLoadTyped ==
  /\ NoLoad \in LoadRecords
  /\ \A pc \in {"done", "dead"} : Ended(pc) \in LoadRecords
<1>1. NoLoad \in LoadRecords
  BY DEF NoLoad, LoadRecords, Fingerprints
<1> QED
  BY <1>1 DEF Ended, LoadRecords

\* A load that goes on keeps its type.
LEMMA LoadMoves ==
  ASSUME load \in [Loads -> LoadRecords], NEW l \in Loads, NEW pc \in InFlight
  PROVE  [load EXCEPT ![l].pc = pc] \in [Loads -> LoadRecords]
<1>1. load[l] \in LoadRecords
  OBVIOUS
<1>2. [load[l] EXCEPT !.pc = pc] \in LoadRecords
  BY <1>1 DEF LoadRecords
<1> QED
  BY <1>2

\* Where everything else begins.
LEMMA NothingTyped ==
  /\ NoSave \in SaveRecords /\ NoReset \in ResetRecords
  /\ NoEntries \in Entries /\ Absent \in CacheFiles
<1>1. NoEntries \in Entries
  BY DEF NoEntries, Entries
<1>2. Absent \in CacheFiles
  BY <1>1 DEF Absent, CacheFiles, Fingerprints
<1> QED
  BY <1>1, <1>2 DEF NoSave, NoReset, SaveRecords, ResetRecords, Fingerprints

\* What the end of its save means for a load: only where it is changes, and the
\* reset that waited for it to store its entry waits no longer.
GoesOn(l) ==
  /\ load[l].pc \in {"dropping", "storing"}
  /\ load'[l].pc = IF load[l].pc = "dropping" THEN "tune" ELSE "done"
  /\ load'[l].model = load[l].model /\ load'[l].seen = load[l].seen
  /\ load'[l].digest = load[l].digest /\ load'[l].ctx = load[l].ctx
  /\ load'[l].machines = load[l].machines /\ load'[l].sizes = load[l].sizes
  /\ load'[l].fp = load[l].fp
  /\ \A k \in Loads : k # l => load'[k] = load[k]
  /\ reset'.pc = reset.pc /\ reset'.model = reset.model
  /\ reset'.before = reset.before
  /\ reset'.waits = IF load[l].pc = "storing" THEN reset.waits \ {l} ELSE reset.waits
  /\ save' = NoSave /\ banned' = banned

\* A load that was saving goes on, whether or not the save succeeded.
LEMMA LoadGoesOn ==
  ASSUME Inv, SaveFails \/ SaveRenames, save.by \in Loads
  PROVE  GoesOn(save.by)
<1> DEFINE l == save.by
<1>1. TypeOK /\ FlightInv /\ l # "reset"
  BY EntryAssumption DEF Inv
<1>2. load[l].pc \in {"dropping", "storing"}
  BY <1>1, EntryAssumption DEF FlightInv, Unlocked, SaveFails, SaveRenames
<1>3. /\ load' = [load EXCEPT ![l].pc = IF @ = "dropping" THEN "tune" ELSE "done"]
      /\ reset' = [reset EXCEPT !.waits = IF load[l].pc = "storing" THEN @ \ {l} ELSE @]
      /\ save' = NoSave /\ banned' = banned
  BY <1>1 DEF AfterSave, SaveFails, SaveRenames
<1>4. load \in [Loads -> LoadRecords] /\ reset \in ResetRecords
  BY <1>1 DEF TypeOK
<1> QED
  BY <1>2, <1>3, <1>4 DEF GoesOn, LoadRecords, ResetRecords

\* Types are kept; a load looks up the entry of a model.
LEMMA TypeKept == Inv /\ Next => TypeOK'
<1> SUFFICES ASSUME Inv, Next PROVE TypeOK'
  OBVIOUS
<1>0. TypeOK /\ FlightInv /\ ResetInv
  BY DEF Inv
<1> USE <1>0, EntryAssumption, ModelAssumption DEF TypeOK
<1>1. ASSUME NEW h \in Hardware, HardwareChanges(h) PROVE TypeOK'
  <2>1. load' \in [Loads -> LoadRecords]
    BY <1>1 DEF HardwareChanges, LoadRecords, InFlight
  <2>2. faults' \in 0 .. MaxFaults /\ banned' \in [Models -> SUBSET Loads]
    BY <1>1, FaultsAssumption DEF HardwareChanges, Disturbed, ResetRecords
  <2> QED
    BY <1>1, <2>1, <2>2 DEF HardwareChanges
<1>2. ASSUME NEW m \in Models, NEW f \in Files, FileChanges(m, f) PROVE TypeOK'
  <2>1. load' \in [Loads -> LoadRecords]
    BY <1>2 DEF FileChanges, LoadRecords, InFlight, Sizes
  <2>2. faults' \in 0 .. MaxFaults /\ banned' \in [Models -> SUBSET Loads]
    BY <1>2, FaultsAssumption DEF FileChanges, Disturbed, ResetRecords
  <2> QED
    BY <1>2, <2>1, <2>2 DEF FileChanges
<1>3. ASSUME NEW m \in Models, Rescan(m) PROVE TypeOK'
  BY <1>3 DEF Rescan
<1>4. ASSUME NEW g \in Fingerprints, Start(g) PROVE TypeOK'
  <2>1. tuned' \in Entries /\ file' \in CacheFiles
    BY <1>4, NothingTyped DEF Start, loadTuningCache, Loaded, Entries,
       CacheFiles, SaveRecords
  <2>2. faults' \in 0 .. MaxFaults /\ banned' \in [Models -> SUBSET Loads]
    BY <1>4, FaultsAssumption DEF Start, loadTuningCache, Loaded,
       Fingerprint, Disturbed, ResetRecords
  <2> QED
    BY <1>4, <2>1, <2>2 DEF Start, loadTuningCache, Loaded, Kept
<1>5. ASSUME Crash PROVE TypeOK'
  <2>1. load' \in [Loads -> LoadRecords]
    BY <1>5, NoLoadTyped DEF Crash, LoadRecords, InFlight, Sizes, Ctxs, Entries
  <2>2. save' \in SaveRecords /\ reset' \in ResetRecords
    BY <1>5, NothingTyped DEF Crash
  <2>3. tuned' \in Entries /\ file' \in CacheFiles
    BY <1>5, NothingTyped DEF Crash, Entries, CacheFiles, SaveRecords
  <2>4. faults' \in 0 .. MaxFaults /\ banned' \in [Models -> SUBSET Loads]
    BY <1>5, FaultsAssumption DEF Crash, Disturbed, ResetRecords
  <2> QED
    BY <1>5, <2>1, <2>2, <2>3, <2>4 DEF Crash, diskVars
<1>6. ASSUME SaveWrites PROVE TypeOK'
  <2>1. save' \in SaveRecords /\ reset' \in ResetRecords
    BY <1>6, NothingTyped DEF SaveWrites, SaveRecords, ResetRecords
  <2> QED
    BY <1>6, <2>1 DEF SaveWrites, diskVars
<1>7. ASSUME SaveFails PROVE TypeOK'
  <2>1. load' \in [Loads -> LoadRecords]
    BY <1>7 DEF SaveFails, AfterSave, LoadRecords, InFlight
  <2>2. save' \in SaveRecords /\ reset' \in ResetRecords
    BY <1>7, NothingTyped DEF SaveFails, AfterSave, SaveRecords, ResetRecords
  <2>3. faults' \in 0 .. MaxFaults /\ banned' \in [Models -> SUBSET Loads]
    BY <1>7, FaultsAssumption DEF SaveFails, AfterSave, Disturbed, ResetRecords
  <2> QED
    BY <1>7, <2>1, <2>2, <2>3 DEF SaveFails, AfterSave, diskVars
<1>8. ASSUME SaveRenames PROVE TypeOK'
  <2>1. load' \in [Loads -> LoadRecords]
    BY <1>8 DEF SaveRenames, AfterSave, LoadRecords, InFlight
  <2>2. save' \in SaveRecords /\ reset' \in ResetRecords
    BY <1>8, NothingTyped DEF SaveRenames, AfterSave, SaveRecords, ResetRecords
  <2>3. tuned' \in Entries /\ file' \in CacheFiles
    BY <1>8, NothingTyped DEF SaveRenames, AfterSave, Entries, CacheFiles,
       SaveRecords
  <2>4. faults' \in 0 .. MaxFaults /\ banned' \in [Models -> SUBSET Loads]
    BY <1>8, FaultsAssumption DEF SaveRenames, AfterSave, ResetRecords
  <2> QED
    BY <1>8, <2>1, <2>2, <2>3, <2>4 DEF SaveRenames, AfterSave, diskVars
<1>9. ASSUME NEW l \in Loads, NEW m \in Models, resolveModel(l, m)
      PROVE  TypeOK'
  <2>1. /\ computeDigest(disk[m]) \in Sizes /\ disk[m].size \in Sizes
        /\ catalogue[m].ctx \in Ctxs
    BY DEF computeDigest, Sizes, Ctxs
  <2>2. [NoLoad EXCEPT !.pc = "resolved", !.model = m, !.digest = computeDigest(disk[m]),
          !.ctx = catalogue[m].ctx, !.machines = {hw}, !.sizes = {disk[m].size}]
          \in LoadRecords
    BY <2>1, NoLoadTyped DEF LoadRecords
  <2>3. load' \in [Loads -> LoadRecords]
    BY <1>9, <2>2 DEF resolveModel
  <2> QED
    BY <1>9, <2>3 DEF resolveModel, diskVars
<1>10. ASSUME NEW l \in Loads, Look(l) PROVE TypeOK'
  <2> DEFINE to == [load[l] EXCEPT !.pc = "looked", !.seen = tuned[load[l].model]]
  <2>1. load[l] \in LoadRecords
    OBVIOUS
  <2>2. tuned[load[l].model] \in Loads \cup {None}
    BY <1>10 DEF Look, FlightInv, Measuring, Entries
  <2>3. to \in LoadRecords
    BY <2>1, <2>2 DEF LoadRecords, InFlight
  <2>4. load' = [load EXCEPT ![l] = to]
    BY <1>10 DEF Look, LoadRecords
  <2>5. load' \in [Loads -> LoadRecords]
    BY <2>3, <2>4
  <2> QED
    BY <1>10, <2>5 DEF Look, diskVars
<1>11. ASSUME NEW l \in Loads, NEW g \in Fingerprints, Compare(l, g)
       PROVE  TypeOK'
  <2>1. load[l] \in LoadRecords
    OBVIOUS
  <2>2. [load[l] EXCEPT !.pc = "tune"] \in LoadRecords
    BY <2>1 DEF LoadRecords, InFlight
  <2>3. [load[l] EXCEPT !.pc = "cached", !.fp = g] \in LoadRecords
    BY <2>1 DEF LoadRecords, InFlight
  <2>4. [load[l] EXCEPT !.pc = "stale", !.seen = None] \in LoadRecords
    BY <2>1 DEF LoadRecords, InFlight
  <2>5. load' \in [Loads -> LoadRecords]
    BY <1>11, <2>2, <2>3, <2>4 DEF Compare
  <2>6. faults' \in 0 .. MaxFaults
    BY <1>11, FaultsAssumption DEF Compare, Fingerprint, Disturbed
  <2> QED
    BY <1>11, <2>5, <2>6 DEF Compare, Kept, diskVars
<1>12. ASSUME NEW l \in Loads, NEW g \in Fingerprints, DropStale(l, g)
       PROVE  TypeOK'
  <2>1. load' \in [Loads -> LoadRecords]
    BY <1>12, LoadMoves DEF DropStale, InFlight
  <2>2. save' \in SaveRecords /\ reset' \in ResetRecords
    BY <1>12, NothingTyped DEF DropStale, SaveTuningCacheLocked,
       SaveRecords, ResetRecords
  <2>3. tuned' \in Entries /\ file' \in CacheFiles
    BY <1>12, NothingTyped DEF DropStale, Entries, CacheFiles, SaveRecords
  <2>4. faults' \in 0 .. MaxFaults /\ banned' \in [Models -> SUBSET Loads]
    BY <1>12, FaultsAssumption DEF DropStale, Fingerprint, Disturbed,
       ResetRecords
  <2> QED
    BY <1>12, <2>1, <2>2, <2>3, <2>4 DEF DropStale, Kept, diskVars
<1>13. ASSUME NEW l \in Loads, BeginTuning(l) PROVE TypeOK'
  <2>1. load' \in [Loads -> LoadRecords]
    BY <1>13, LoadMoves DEF BeginTuning, InFlight
  <2> QED
    BY <1>13, <2>1 DEF BeginTuning, diskVars
<1>14. ASSUME NEW l \in Loads, NEW g \in Fingerprints, Measured(l, g)
       PROVE  TypeOK'
  <2>1. load[l] \in LoadRecords
    OBVIOUS
  <2>2. [load[l] EXCEPT !.pc = "measured", !.fp = g] \in LoadRecords
    BY <2>1 DEF LoadRecords, InFlight
  <2>3. load' = [load EXCEPT ![l] = [load[l] EXCEPT !.pc = "measured", !.fp = g]]
    BY <1>14 DEF Measured, LoadRecords
  <2>4. load' \in [Loads -> LoadRecords]
    BY <2>2, <2>3
  <2>5. faults' \in 0 .. MaxFaults
    BY <1>14, FaultsAssumption DEF Measured, Fingerprint, Disturbed
  <2> QED
    BY <1>14, <2>4, <2>5 DEF Measured, Kept, diskVars
<1>15. ASSUME NEW l \in Loads, NEW g \in Fingerprints, Store(l, g)
       PROVE  TypeOK'
  <2>1. load' \in [Loads -> LoadRecords]
    BY <1>15, LoadMoves DEF Store, InFlight
  <2>2. save' \in SaveRecords /\ reset' \in ResetRecords
    BY <1>15, NothingTyped DEF Store, SaveTuningCacheLocked, SaveRecords,
       ResetRecords
  <2>3. tuned' \in Entries /\ file' \in CacheFiles
    BY <1>15, NothingTyped DEF Store, Entries, CacheFiles, SaveRecords
  <2>4. faults' \in 0 .. MaxFaults /\ banned' \in [Models -> SUBSET Loads]
    BY <1>15, FaultsAssumption DEF Store, Fingerprint, Disturbed, ResetRecords
  <2> QED
    BY <1>15, <2>1, <2>2, <2>3, <2>4 DEF Store, Kept, diskVars
<1>16. ASSUME NEW l \in Loads, Settle(l) PROVE TypeOK'
  <2>1. load' \in [Loads -> LoadRecords]
    BY <1>16, NoLoadTyped DEF Settle, LoadRecords, InFlight, Sizes, Ctxs,
       Entries
  <2>2. save' \in SaveRecords /\ reset' \in ResetRecords
    BY <1>16, NothingTyped DEF Settle, SaveRecords, ResetRecords
  <2> QED
    BY <1>16, <2>1, <2>2 DEF Settle, diskVars
<1>17. ASSUME NEW m \in Models, ResetEvict(m) PROVE TypeOK'
  <2>1. save' \in SaveRecords /\ reset' \in ResetRecords
    BY <1>17, NothingTyped DEF ResetEvict, SaveRecords, ResetRecords
  <2> QED
    BY <1>17, <2>1 DEF ResetEvict, diskVars
<1>18. ASSUME ResetEvicted PROVE TypeOK'
  <2>1. save' \in SaveRecords /\ reset' \in ResetRecords
    BY <1>18, NothingTyped DEF ResetEvicted, SaveRecords, ResetRecords
  <2> QED
    BY <1>18, <2>1 DEF ResetEvicted, diskVars
<1>19. ASSUME ResetGivesUp PROVE TypeOK'
  <2>1. save' \in SaveRecords /\ reset' \in ResetRecords
    BY <1>19, NothingTyped DEF ResetGivesUp, SaveRecords, ResetRecords
  <2>2. faults' \in 0 .. MaxFaults /\ banned' \in [Models -> SUBSET Loads]
    BY <1>19, FaultsAssumption DEF ResetGivesUp, Disturbed, ResetRecords
  <2> QED
    BY <1>19, <2>1, <2>2 DEF ResetGivesUp, diskVars
<1>20. ASSUME NEW g \in Fingerprints, ResetDelete(g) PROVE TypeOK'
  <2>1. save' \in SaveRecords /\ reset' \in ResetRecords
    BY <1>20, NothingTyped DEF ResetDelete, SaveTuningCacheLocked,
       SaveRecords, ResetRecords
  <2>2. tuned' \in Entries /\ file' \in CacheFiles
    BY <1>20, NothingTyped DEF ResetDelete, Entries, CacheFiles, SaveRecords
  <2>3. faults' \in 0 .. MaxFaults /\ banned' \in [Models -> SUBSET Loads]
    BY <1>20, FaultsAssumption DEF ResetDelete, Fingerprint, Disturbed,
       ResetRecords
  <2> QED
    BY <1>20, <2>1, <2>2, <2>3 DEF ResetDelete, Kept, diskVars
<1>21. ASSUME ResetAll PROVE TypeOK'
  <2>1. tuned' \in Entries /\ file' \in CacheFiles
    BY <1>21, NothingTyped DEF ResetAll, Entries, CacheFiles, SaveRecords
  <2>2. faults' \in 0 .. MaxFaults /\ banned' \in [Models -> SUBSET Loads]
    BY <1>21, FaultsAssumption DEF ResetAll, Disturbed, ResetRecords
  <2> QED
    BY <1>21, <2>1, <2>2 DEF ResetAll, diskVars
<1> QED
  BY <1>1, <1>2, <1>3, <1>4, <1>5, <1>6, <1>7, <1>8, <1>9, <1>10, <1>11,
     <1>12, <1>13, <1>14, <1>15, <1>16, <1>17, <1>18, <1>19, <1>20, <1>21 DEF
     Next

\* One load of a model is in flight, and whoever saves holds s.mu to the end.
LEMMA FlightKept == Inv /\ Next => FlightInv'
<1> SUFFICES ASSUME Inv, Next PROVE FlightInv'
  OBVIOUS
<1>0. TypeOK /\ FlightInv /\ ResetInv
  BY DEF Inv
<1> USE <1>0, EntryAssumption, ModelAssumption, FaultsAssumption DEF TypeOK,
   FlightInv, ResetInv, InFlight, Measuring, Unlocked, Flying, LoadRecords,
   SaveRecords, ResetRecords, Entries, CacheFiles
<1>1. ASSUME NEW h \in Hardware, HardwareChanges(h) PROVE FlightInv'
  BY <1>1 DEF HardwareChanges
<1>2. ASSUME NEW m \in Models, NEW f \in Files, FileChanges(m, f)
      PROVE  FlightInv'
  BY <1>2 DEF FileChanges
<1>3. ASSUME NEW m \in Models, Rescan(m) PROVE FlightInv'
  BY <1>3 DEF Rescan
<1>4. ASSUME NEW g \in Fingerprints, Start(g) PROVE FlightInv'
  BY <1>4 DEF Start, loadTuningCache, Loaded
<1>5. ASSUME Crash PROVE FlightInv'
  BY <1>5 DEF Crash, Ended, NoSave
<1>6. ASSUME SaveWrites PROVE FlightInv'
  BY <1>6 DEF SaveWrites, NoSave
<1>7. ASSUME SaveFails PROVE FlightInv'
  <2>1. CASE save.by = "reset"
    BY <1>7, <2>1 DEF SaveFails, AfterSave, NoSave
  <2>2. CASE save.by \in Loads
    <3> DEFINE l == save.by
    <3>1. GoesOn(l)
      BY <1>7, <2>2, LoadGoesOn
    <3> HIDE DEF l
    <3>2. l \in Loads /\ save.by = l
      BY <2>2 DEF l
    <3> QED
      BY <1>7, <3>1, <3>2 DEF GoesOn, SaveFails, NoSave
  <2> QED
    BY <1>7, <2>1, <2>2 DEF SaveFails
<1>8. ASSUME SaveRenames PROVE FlightInv'
  <2>1. CASE save.by = "reset"
    BY <1>8, <2>1 DEF SaveRenames, AfterSave, NoSave
  <2>2. CASE save.by \in Loads
    <3> DEFINE l == save.by
    <3>1. GoesOn(l)
      BY <1>8, <2>2, LoadGoesOn
    <3> HIDE DEF l
    <3>2. l \in Loads /\ save.by = l
      BY <2>2 DEF l
    <3> QED
      BY <1>8, <3>1, <3>2 DEF GoesOn, SaveRenames, NoSave, diskVars
  <2> QED
    BY <1>8, <2>1, <2>2 DEF SaveRenames
<1>9. ASSUME NEW l \in Loads, NEW m \in Models, resolveModel(l, m)
      PROVE  FlightInv'
  BY <1>9 DEF resolveModel, computeDigest
<1>10. ASSUME NEW l \in Loads, Look(l) PROVE FlightInv'
  BY <1>10 DEF Look
<1>11. ASSUME NEW l \in Loads, NEW g \in Fingerprints, Compare(l, g)
       PROVE  FlightInv'
  BY <1>11 DEF Compare, Matches
<1>12. ASSUME NEW l \in Loads, NEW g \in Fingerprints, DropStale(l, g)
       PROVE  FlightInv'
  BY <1>12 DEF DropStale, SaveTuningCacheLocked
<1>13. ASSUME NEW l \in Loads, BeginTuning(l) PROVE FlightInv'
  BY <1>13 DEF BeginTuning
<1>14. ASSUME NEW l \in Loads, NEW g \in Fingerprints, Measured(l, g)
       PROVE  FlightInv'
  BY <1>14 DEF Measured
<1>15. ASSUME NEW l \in Loads, NEW g \in Fingerprints, Store(l, g)
       PROVE  FlightInv'
  BY <1>15 DEF Store, SaveTuningCacheLocked
<1>16. ASSUME NEW l \in Loads, Settle(l) PROVE FlightInv'
  BY <1>16 DEF Settle, Ended
<1>17. ASSUME NEW m \in Models, ResetEvict(m) PROVE FlightInv'
  BY <1>17 DEF ResetEvict
<1>18. ASSUME ResetEvicted PROVE FlightInv'
  BY <1>18 DEF ResetEvicted, NoReset
<1>19. ASSUME ResetGivesUp PROVE FlightInv'
  BY <1>19 DEF ResetGivesUp, NoReset
<1>20. ASSUME NEW g \in Fingerprints, ResetDelete(g) PROVE FlightInv'
  BY <1>20 DEF ResetDelete, NoReset, SaveTuningCacheLocked
<1>21. ASSUME ResetAll PROVE FlightInv'
  BY <1>21 DEF ResetAll
<1> QED
  BY <1>1, <1>2, <1>3, <1>4, <1>5, <1>6, <1>7, <1>8, <1>9, <1>10, <1>11,
     <1>12, <1>13, <1>14, <1>15, <1>16, <1>17, <1>18, <1>19, <1>20, <1>21 DEF
     Next

\* An entry reaches the file, or the eyes of another load, only when its load has
\* ended: s.mu is held from the moment it is stored until it is saved.
LEMMA EntryKept == Inv /\ Next => EntryInv'
<1> SUFFICES ASSUME Inv, Next PROVE EntryInv'
  OBVIOUS
<1>0. TypeOK /\ FlightInv /\ EntryInv /\ LookInv
  BY DEF Inv
<1> USE <1>0, EntryAssumption, ModelAssumption, FaultsAssumption DEF TypeOK,
   FlightInv, EntryInv, LookInv, InFlight, Measuring, Unlocked, Flying,
   LoadRecords, SaveRecords, ResetRecords, Entries, CacheFiles
<1>1. ASSUME NEW h \in Hardware, HardwareChanges(h) PROVE EntryInv'
  BY <1>1 DEF HardwareChanges
<1>2. ASSUME NEW m \in Models, NEW f \in Files, FileChanges(m, f)
      PROVE  EntryInv'
  BY <1>2 DEF FileChanges
<1>3. ASSUME NEW m \in Models, Rescan(m) PROVE EntryInv'
  BY <1>3 DEF Rescan
<1>4. ASSUME NEW g \in Fingerprints, Start(g) PROVE EntryInv'
  BY <1>4 DEF Start, loadTuningCache, Loaded, Absent, NoEntries
<1>5. ASSUME Crash PROVE EntryInv'
  BY <1>5 DEF Crash, Ended, NoLoad, NoEntries
<1>6. ASSUME SaveWrites PROVE EntryInv'
  BY <1>6 DEF SaveWrites
<1>7. ASSUME SaveFails PROVE EntryInv'
  <2>1. CASE save.by = "reset"
    BY <1>7, <2>1 DEF SaveFails, AfterSave
  <2>2. CASE save.by \in Loads
    <3> DEFINE l == save.by
    <3>1. GoesOn(l)
      BY <1>7, <2>2, LoadGoesOn
    <3> HIDE DEF l
    <3>2. l \in Loads /\ save.by = l
      BY <2>2 DEF l
    <3>3. \A k \in Loads :
            /\ load'[k].model = load[k].model /\ load'[k].seen = load[k].seen
            /\ load[k].pc = "done" => load'[k].pc = "done"
            /\ load[k].pc = "storing" => load'[k].pc = "done"
      BY <3>1, <3>2 DEF GoesOn
    <3>4. UNCHANGED <<tuned, file>>
      BY <1>7 DEF SaveFails
    <3> QED
      BY <3>3, <3>4
  <2> QED
    BY <1>7, <2>1, <2>2 DEF SaveFails
<1>8. ASSUME SaveRenames PROVE EntryInv'
  <2>1. CASE save.by = "reset"
    BY <1>8, <2>1 DEF SaveRenames, AfterSave
  <2>2. CASE save.by \in Loads
    <3> DEFINE l == save.by
    <3>1. GoesOn(l)
      BY <1>8, <2>2, LoadGoesOn
    <3> HIDE DEF l
    <3>2. l \in Loads /\ save.by = l
      BY <2>2 DEF l
    <3>3. \A k \in Loads :
            /\ load'[k].model = load[k].model /\ load'[k].seen = load[k].seen
            /\ load[k].pc = "done" => load'[k].pc = "done"
            /\ load[k].pc = "storing" => load'[k].pc = "done"
      BY <3>1, <3>2 DEF GoesOn
    <3>4. tuned' = tuned /\ file'.entries = tuned
      BY <1>8 DEF SaveRenames
    <3> QED
      BY <3>3, <3>4
  <2> QED
    BY <1>8, <2>1, <2>2 DEF SaveRenames
<1>9. ASSUME NEW l \in Loads, NEW m \in Models, resolveModel(l, m)
      PROVE  EntryInv'
  BY <1>9 DEF resolveModel, NoLoad, computeDigest
<1>10. ASSUME NEW l \in Loads, Look(l) PROVE EntryInv'
  <2> DEFINE e == tuned[load[l].model]
  <2>1. /\ load[l].model \in Models
        /\ \A k \in Loads : load'[k].model = load[k].model
        /\ \A k \in Loads : k # l => load'[k] = load[k]
        /\ load'[l].pc = "looked" /\ load'[l].seen = e
    BY <1>10 DEF Look
  <2>2. \A k \in Loads : load[k].pc \in {"storing", "done"} => load'[k].pc = load[k].pc
    BY <1>10, <2>1 DEF Look
  <2>3. e # None => e \in Loads /\ load[e].model = load[l].model /\ load[e].pc = "done"
    BY <1>10, <2>1 DEF Look
  <2> QED
    BY <1>10, <2>1, <2>2, <2>3 DEF Look
<1>11. ASSUME NEW l \in Loads, NEW g \in Fingerprints, Compare(l, g)
       PROVE  EntryInv'
  BY <1>11 DEF Compare, Matches
<1>12. ASSUME NEW l \in Loads, NEW g \in Fingerprints, DropStale(l, g)
       PROVE  EntryInv'
  BY <1>12 DEF DropStale
<1>13. ASSUME NEW l \in Loads, BeginTuning(l) PROVE EntryInv'
  BY <1>13 DEF BeginTuning
<1>14. ASSUME NEW l \in Loads, NEW g \in Fingerprints, Measured(l, g)
       PROVE  EntryInv'
  BY <1>14 DEF Measured, Fingerprint
<1>15. ASSUME NEW l \in Loads, NEW g \in Fingerprints, Store(l, g)
       PROVE  EntryInv'
  BY <1>15 DEF Store
<1>16. ASSUME NEW l \in Loads, Settle(l) PROVE EntryInv'
  BY <1>16 DEF Settle, Ended, NoLoad
<1>17. ASSUME NEW m \in Models, ResetEvict(m) PROVE EntryInv'
  BY <1>17 DEF ResetEvict
<1>18. ASSUME ResetEvicted PROVE EntryInv'
  BY <1>18 DEF ResetEvicted
<1>19. ASSUME ResetGivesUp PROVE EntryInv'
  BY <1>19 DEF ResetGivesUp
<1>20. ASSUME NEW g \in Fingerprints, ResetDelete(g) PROVE EntryInv'
  BY <1>20 DEF ResetDelete
<1>21. ASSUME ResetAll PROVE EntryInv'
  BY <1>21 DEF ResetAll, NoEntries, Absent
<1> QED
  BY <1>1, <1>2, <1>3, <1>4, <1>5, <1>6, <1>7, <1>8, <1>9, <1>10, <1>11,
     <1>12, <1>13, <1>14, <1>15, <1>16, <1>17, <1>18, <1>19, <1>20, <1>21 DEF
     Next

\* A load notes every machine and size it meets.
LEMMA MeasureKept == Inv /\ Next => MeasureInv'
<1> SUFFICES ASSUME Inv, Next PROVE MeasureInv'
  OBVIOUS
<1>0. TypeOK /\ FlightInv /\ MeasureInv
  BY DEF Inv
<1> USE <1>0, EntryAssumption, ModelAssumption, FaultsAssumption DEF TypeOK,
   FlightInv, MeasureInv, InFlight, Measuring, Unlocked, LoadRecords,
   SaveRecords, ResetRecords, Entries, CacheFiles
<1>1. ASSUME NEW h \in Hardware, HardwareChanges(h) PROVE MeasureInv'
  BY <1>1 DEF HardwareChanges
<1>2. ASSUME NEW m \in Models, NEW f \in Files, FileChanges(m, f)
      PROVE  MeasureInv'
  BY <1>2 DEF FileChanges
<1>3. ASSUME NEW m \in Models, Rescan(m) PROVE MeasureInv'
  BY <1>3 DEF Rescan
<1>4. ASSUME NEW g \in Fingerprints, Start(g) PROVE MeasureInv'
  BY <1>4 DEF Start, loadTuningCache, Loaded
<1>5. ASSUME Crash PROVE MeasureInv'
  BY <1>5 DEF Crash, Ended, NoLoad
<1>6. ASSUME SaveWrites PROVE MeasureInv'
  BY <1>6 DEF SaveWrites, diskVars
<1>7. ASSUME SaveFails PROVE MeasureInv'
  <2>1. CASE save.by = "reset"
    BY <1>7, <2>1 DEF SaveFails, AfterSave, diskVars
  <2>2. CASE save.by \in Loads
    <3> DEFINE l == save.by
    <3>1. GoesOn(l)
      BY <1>7, <2>2, LoadGoesOn
    <3> HIDE DEF l
    <3>2. l \in Loads /\ save.by = l
      BY <2>2 DEF l
    <3> QED
      BY <1>7, <3>1, <3>2 DEF GoesOn, SaveFails, diskVars
  <2> QED
    BY <1>7, <2>1, <2>2 DEF SaveFails
<1>8. ASSUME SaveRenames PROVE MeasureInv'
  <2>1. CASE save.by = "reset"
    BY <1>8, <2>1 DEF SaveRenames, AfterSave, diskVars
  <2>2. CASE save.by \in Loads
    <3> DEFINE l == save.by
    <3>1. GoesOn(l)
      BY <1>8, <2>2, LoadGoesOn
    <3> HIDE DEF l
    <3>2. l \in Loads /\ save.by = l
      BY <2>2 DEF l
    <3> QED
      BY <1>8, <3>1, <3>2 DEF GoesOn, SaveRenames, diskVars
  <2> QED
    BY <1>8, <2>1, <2>2 DEF SaveRenames
<1>9. ASSUME NEW l \in Loads, NEW m \in Models, resolveModel(l, m)
      PROVE  MeasureInv'
  BY <1>9 DEF resolveModel, computeDigest, diskVars
<1>10. ASSUME NEW l \in Loads, Look(l) PROVE MeasureInv'
  BY <1>10 DEF Look, diskVars
<1>11. ASSUME NEW l \in Loads, NEW g \in Fingerprints, Compare(l, g)
       PROVE  MeasureInv'
  BY <1>11 DEF Compare, Matches, diskVars
<1>12. ASSUME NEW l \in Loads, NEW g \in Fingerprints, DropStale(l, g)
       PROVE  MeasureInv'
  BY <1>12 DEF DropStale, diskVars
<1>13. ASSUME NEW l \in Loads, BeginTuning(l) PROVE MeasureInv'
  BY <1>13 DEF BeginTuning, diskVars
<1>14. ASSUME NEW l \in Loads, NEW g \in Fingerprints, Measured(l, g)
       PROVE  MeasureInv'
  BY <1>14 DEF Measured, Fingerprint, diskVars
<1>15. ASSUME NEW l \in Loads, NEW g \in Fingerprints, Store(l, g)
       PROVE  MeasureInv'
  BY <1>15 DEF Store, diskVars
<1>16. ASSUME NEW l \in Loads, Settle(l) PROVE MeasureInv'
  BY <1>16 DEF Settle, Ended, NoLoad, diskVars
<1>17. ASSUME NEW m \in Models, ResetEvict(m) PROVE MeasureInv'
  BY <1>17 DEF ResetEvict, diskVars
<1>18. ASSUME ResetEvicted PROVE MeasureInv'
  BY <1>18 DEF ResetEvicted, diskVars
<1>19. ASSUME ResetGivesUp PROVE MeasureInv'
  BY <1>19 DEF ResetGivesUp, diskVars
<1>20. ASSUME NEW g \in Fingerprints, ResetDelete(g) PROVE MeasureInv'
  BY <1>20 DEF ResetDelete, diskVars
<1>21. ASSUME ResetAll PROVE MeasureInv'
  BY <1>21 DEF ResetAll, diskVars
<1> QED
  BY <1>1, <1>2, <1>3, <1>4, <1>5, <1>6, <1>7, <1>8, <1>9, <1>10, <1>11,
     <1>12, <1>13, <1>14, <1>15, <1>16, <1>17, <1>18, <1>19, <1>20, <1>21 DEF
     Next

\* Only the one load of a model in flight puts an entry there.
LEMMA LookKept == Inv /\ Next => LookInv'
<1> SUFFICES ASSUME Inv, Next PROVE LookInv'
  OBVIOUS
<1>0. TypeOK /\ FlightInv /\ EntryInv /\ LookInv
  BY DEF Inv
<1> USE <1>0, EntryAssumption, ModelAssumption, FaultsAssumption DEF TypeOK,
   FlightInv, EntryInv, LookInv, InFlight, Measuring, Unlocked, Flying,
   LoadRecords, SaveRecords, ResetRecords, Entries, CacheFiles
<1>1. ASSUME NEW h \in Hardware, HardwareChanges(h) PROVE LookInv'
  BY <1>1 DEF HardwareChanges
<1>2. ASSUME NEW m \in Models, NEW f \in Files, FileChanges(m, f)
      PROVE  LookInv'
  BY <1>2 DEF FileChanges
<1>3. ASSUME NEW m \in Models, Rescan(m) PROVE LookInv'
  BY <1>3 DEF Rescan
<1>4. ASSUME NEW g \in Fingerprints, Start(g) PROVE LookInv'
  BY <1>4 DEF Start, loadTuningCache, Loaded
<1>5. ASSUME Crash PROVE LookInv'
  BY <1>5 DEF Crash, Ended
<1>6. ASSUME SaveWrites PROVE LookInv'
  BY <1>6 DEF SaveWrites
<1>7. ASSUME SaveFails PROVE LookInv'
  <2>1. CASE save.by = "reset"
    BY <1>7, <2>1 DEF SaveFails, AfterSave
  <2>2. CASE save.by \in Loads
    <3> DEFINE l == save.by
    <3>1. GoesOn(l)
      BY <1>7, <2>2, LoadGoesOn
    <3> HIDE DEF l
    <3>2. l \in Loads /\ save.by = l
      BY <2>2 DEF l
    <3> QED
      BY <1>7, <3>1, <3>2 DEF GoesOn, SaveFails
  <2> QED
    BY <1>7, <2>1, <2>2 DEF SaveFails
<1>8. ASSUME SaveRenames PROVE LookInv'
  <2>1. CASE save.by = "reset"
    BY <1>8, <2>1 DEF SaveRenames, AfterSave
  <2>2. CASE save.by \in Loads
    <3> DEFINE l == save.by
    <3>1. GoesOn(l)
      BY <1>8, <2>2, LoadGoesOn
    <3> HIDE DEF l
    <3>2. l \in Loads /\ save.by = l
      BY <2>2 DEF l
    <3> QED
      BY <1>8, <3>1, <3>2 DEF GoesOn, SaveRenames
  <2> QED
    BY <1>8, <2>1, <2>2 DEF SaveRenames
<1>9. ASSUME NEW l \in Loads, NEW m \in Models, resolveModel(l, m)
      PROVE  LookInv'
  BY <1>9 DEF resolveModel, computeDigest
<1>10. ASSUME NEW l \in Loads, Look(l) PROVE LookInv'
  BY <1>10 DEF Look
<1>11. ASSUME NEW l \in Loads, NEW g \in Fingerprints, Compare(l, g)
       PROVE  LookInv'
  BY <1>11 DEF Compare, Matches
<1>12. ASSUME NEW l \in Loads, NEW g \in Fingerprints, DropStale(l, g)
       PROVE  LookInv'
  BY <1>12 DEF DropStale
<1>13. ASSUME NEW l \in Loads, BeginTuning(l) PROVE LookInv'
  BY <1>13 DEF BeginTuning
<1>14. ASSUME NEW l \in Loads, NEW g \in Fingerprints, Measured(l, g)
       PROVE  LookInv'
  BY <1>14 DEF Measured
<1>15. ASSUME NEW l \in Loads, NEW g \in Fingerprints, Store(l, g)
       PROVE  LookInv'
  BY <1>15 DEF Store
<1>16. ASSUME NEW l \in Loads, Settle(l) PROVE LookInv'
  BY <1>16 DEF Settle, Ended
<1>17. ASSUME NEW m \in Models, ResetEvict(m) PROVE LookInv'
  BY <1>17 DEF ResetEvict
<1>18. ASSUME ResetEvicted PROVE LookInv'
  BY <1>18 DEF ResetEvicted
<1>19. ASSUME ResetGivesUp PROVE LookInv'
  BY <1>19 DEF ResetGivesUp
<1>20. ASSUME NEW g \in Fingerprints, ResetDelete(g) PROVE LookInv'
  BY <1>20 DEF ResetDelete
<1>21. ASSUME ResetAll PROVE LookInv'
  BY <1>21 DEF ResetAll, NoEntries
<1> QED
  BY <1>1, <1>2, <1>3, <1>4, <1>5, <1>6, <1>7, <1>8, <1>9, <1>10, <1>11,
     <1>12, <1>13, <1>14, <1>15, <1>16, <1>17, <1>18, <1>19, <1>20, <1>21 DEF
     Next

\* A lookup that succeeds compares what the entry was measured with, and what an
\* ended load measured does not change.
LEMMA CachedKept == Inv /\ Next => CachedConfigMeasuredHere'
<1> SUFFICES ASSUME Inv, Next PROVE CachedConfigMeasuredHere'
  OBVIOUS
<1>0. TypeOK /\ FlightInv /\ EntryInv /\ MeasureInv /\ LookInv /\ CachedConfigMeasuredHere
  BY DEF Inv
<1> USE <1>0, EntryAssumption, ModelAssumption, FaultsAssumption DEF TypeOK,
   FlightInv, EntryInv, MeasureInv, LookInv, CachedConfigMeasuredHere,
   InFlight, Measuring, Unlocked, LoadRecords, SaveRecords, ResetRecords,
   Entries, CacheFiles
<1>1. ASSUME NEW h \in Hardware, HardwareChanges(h)
      PROVE  CachedConfigMeasuredHere'
  BY <1>1 DEF HardwareChanges
<1>2. ASSUME NEW m \in Models, NEW f \in Files, FileChanges(m, f)
      PROVE  CachedConfigMeasuredHere'
  BY <1>2 DEF FileChanges
<1>3. ASSUME NEW m \in Models, Rescan(m) PROVE CachedConfigMeasuredHere'
  BY <1>3 DEF Rescan
<1>4. ASSUME NEW g \in Fingerprints, Start(g) PROVE CachedConfigMeasuredHere'
  BY <1>4 DEF Start, loadTuningCache, Loaded
<1>5. ASSUME Crash PROVE CachedConfigMeasuredHere'
  BY <1>5 DEF Crash, Ended
<1>6. ASSUME SaveWrites PROVE CachedConfigMeasuredHere'
  BY <1>6 DEF SaveWrites
<1>7. ASSUME SaveFails PROVE CachedConfigMeasuredHere'
  <2>1. CASE save.by = "reset"
    BY <1>7, <2>1 DEF SaveFails, AfterSave
  <2>2. CASE save.by \in Loads
    <3> DEFINE l == save.by
    <3>1. GoesOn(l)
      BY <1>7, <2>2, LoadGoesOn
    <3> HIDE DEF l
    <3>2. l \in Loads /\ save.by = l
      BY <2>2 DEF l
    <3>3. \A k \in Loads :
            /\ load'[k].pc = "cached" => load[k].pc = "cached"
            /\ load'[k].model = load[k].model /\ load'[k].seen = load[k].seen
            /\ load'[k].digest = load[k].digest /\ load'[k].fp = load[k].fp
            /\ load'[k].machines = load[k].machines /\ load'[k].sizes = load[k].sizes
      BY <3>1, <3>2 DEF GoesOn
    <3> QED
      BY <3>3
  <2> QED
    BY <1>7, <2>1, <2>2 DEF SaveFails
<1>8. ASSUME SaveRenames PROVE CachedConfigMeasuredHere'
  <2>1. CASE save.by = "reset"
    BY <1>8, <2>1 DEF SaveRenames, AfterSave
  <2>2. CASE save.by \in Loads
    <3> DEFINE l == save.by
    <3>1. GoesOn(l)
      BY <1>8, <2>2, LoadGoesOn
    <3> HIDE DEF l
    <3>2. l \in Loads /\ save.by = l
      BY <2>2 DEF l
    <3>3. \A k \in Loads :
            /\ load'[k].pc = "cached" => load[k].pc = "cached"
            /\ load'[k].model = load[k].model /\ load'[k].seen = load[k].seen
            /\ load'[k].digest = load[k].digest /\ load'[k].fp = load[k].fp
            /\ load'[k].machines = load[k].machines /\ load'[k].sizes = load[k].sizes
      BY <3>1, <3>2 DEF GoesOn
    <3> QED
      BY <3>3
  <2> QED
    BY <1>8, <2>1, <2>2 DEF SaveRenames
<1>9. ASSUME NEW l \in Loads, NEW m \in Models, resolveModel(l, m)
      PROVE  CachedConfigMeasuredHere'
  BY <1>9 DEF resolveModel, computeDigest
<1>10. ASSUME NEW l \in Loads, Look(l) PROVE CachedConfigMeasuredHere'
  BY <1>10 DEF Look
<1>11. ASSUME NEW l \in Loads, NEW g \in Fingerprints, Compare(l, g)
       PROVE  CachedConfigMeasuredHere'
  BY <1>11 DEF Compare, Matches
<1>12. ASSUME NEW l \in Loads, NEW g \in Fingerprints, DropStale(l, g)
       PROVE  CachedConfigMeasuredHere'
  BY <1>12 DEF DropStale
<1>13. ASSUME NEW l \in Loads, BeginTuning(l) PROVE CachedConfigMeasuredHere'
  BY <1>13 DEF BeginTuning
<1>14. ASSUME NEW l \in Loads, NEW g \in Fingerprints, Measured(l, g)
       PROVE  CachedConfigMeasuredHere'
  BY <1>14 DEF Measured
<1>15. ASSUME NEW l \in Loads, NEW g \in Fingerprints, Store(l, g)
       PROVE  CachedConfigMeasuredHere'
  BY <1>15 DEF Store
<1>16. ASSUME NEW l \in Loads, Settle(l) PROVE CachedConfigMeasuredHere'
  BY <1>16 DEF Settle, Ended
<1>17. ASSUME NEW m \in Models, ResetEvict(m) PROVE CachedConfigMeasuredHere'
  BY <1>17 DEF ResetEvict
<1>18. ASSUME ResetEvicted PROVE CachedConfigMeasuredHere'
  BY <1>18 DEF ResetEvicted
<1>19. ASSUME ResetGivesUp PROVE CachedConfigMeasuredHere'
  BY <1>19 DEF ResetGivesUp
<1>20. ASSUME NEW g \in Fingerprints, ResetDelete(g)
       PROVE  CachedConfigMeasuredHere'
  BY <1>20 DEF ResetDelete
<1>21. ASSUME ResetAll PROVE CachedConfigMeasuredHere'
  BY <1>21 DEF ResetAll
<1> QED
  BY <1>1, <1>2, <1>3, <1>4, <1>5, <1>6, <1>7, <1>8, <1>9, <1>10, <1>11,
     <1>12, <1>13, <1>14, <1>15, <1>16, <1>17, <1>18, <1>19, <1>20, <1>21 DEF
     Next

\* A load that a reset waits for leaves only by ending.
LEMMA ResetKept == Inv /\ Next => ResetInv'
<1> SUFFICES ASSUME Inv, Next PROVE ResetInv'
  OBVIOUS
<1>0. TypeOK /\ FlightInv /\ EntryInv /\ ResetInv
  BY DEF Inv
<1> USE <1>0, EntryAssumption, ModelAssumption, FaultsAssumption DEF TypeOK,
   FlightInv, EntryInv, ResetInv, InFlight, Measuring, Unlocked, Flying,
   LoadRecords, SaveRecords, ResetRecords, Entries, CacheFiles
<1>1. ASSUME NEW h \in Hardware, HardwareChanges(h) PROVE ResetInv'
  BY <1>1 DEF HardwareChanges
<1>2. ASSUME NEW m \in Models, NEW f \in Files, FileChanges(m, f)
      PROVE  ResetInv'
  BY <1>2 DEF FileChanges
<1>3. ASSUME NEW m \in Models, Rescan(m) PROVE ResetInv'
  BY <1>3 DEF Rescan
<1>4. ASSUME NEW g \in Fingerprints, Start(g) PROVE ResetInv'
  BY <1>4 DEF Start, NoSave, loadTuningCache, Loaded
<1>5. ASSUME Crash PROVE ResetInv'
  BY <1>5 DEF Crash, NoSave, NoReset
<1>6. ASSUME SaveWrites PROVE ResetInv'
  BY <1>6 DEF SaveWrites
<1>7. ASSUME SaveFails PROVE ResetInv'
  <2>1. CASE save.by = "reset"
    BY <1>7, <2>1 DEF SaveFails, AfterSave, NoSave, NoReset
  <2>2. CASE save.by \in Loads
    <3> DEFINE l == save.by
    <3>1. GoesOn(l)
      BY <1>7, <2>2, LoadGoesOn
    <3> HIDE DEF l
    <3>2. l \in Loads /\ save.by = l
      BY <2>2 DEF l
    <3> QED
      BY <1>7, <3>1, <3>2 DEF GoesOn, SaveFails, NoSave
  <2> QED
    BY <1>7, <2>1, <2>2 DEF SaveFails
<1>8. ASSUME SaveRenames PROVE ResetInv'
  <2>1. CASE save.by = "reset"
    BY <1>8, <2>1 DEF SaveRenames, AfterSave, NoSave, NoReset
  <2>2. CASE save.by \in Loads
    <3> DEFINE l == save.by
    <3>1. GoesOn(l)
      BY <1>8, <2>2, LoadGoesOn
    <3> HIDE DEF l
    <3>2. l \in Loads /\ save.by = l
      BY <2>2 DEF l
    <3> QED
      BY <1>8, <3>1, <3>2 DEF GoesOn, SaveRenames, NoSave
  <2> QED
    BY <1>8, <2>1, <2>2 DEF SaveRenames
<1>9. ASSUME NEW l \in Loads, NEW m \in Models, resolveModel(l, m)
      PROVE  ResetInv'
  BY <1>9 DEF resolveModel, computeDigest
<1>10. ASSUME NEW l \in Loads, Look(l) PROVE ResetInv'
  BY <1>10 DEF Look
<1>11. ASSUME NEW l \in Loads, NEW g \in Fingerprints, Compare(l, g)
       PROVE  ResetInv'
  BY <1>11 DEF Compare, Matches
<1>12. ASSUME NEW l \in Loads, NEW g \in Fingerprints, DropStale(l, g)
       PROVE  ResetInv'
  BY <1>12 DEF DropStale, SaveTuningCacheLocked
<1>13. ASSUME NEW l \in Loads, BeginTuning(l) PROVE ResetInv'
  BY <1>13 DEF BeginTuning
<1>14. ASSUME NEW l \in Loads, NEW g \in Fingerprints, Measured(l, g)
       PROVE  ResetInv'
  BY <1>14 DEF Measured
<1>15. ASSUME NEW l \in Loads, NEW g \in Fingerprints, Store(l, g)
       PROVE  ResetInv'
  BY <1>15 DEF Store, SaveTuningCacheLocked
<1>16. ASSUME NEW l \in Loads, Settle(l) PROVE ResetInv'
  BY <1>16 DEF Settle, Ended
<1>17. ASSUME NEW m \in Models, ResetEvict(m) PROVE ResetInv'
  BY <1>17 DEF ResetEvict
<1>18. ASSUME ResetEvicted PROVE ResetInv'
  BY <1>18 DEF ResetEvicted
<1>19. ASSUME ResetGivesUp PROVE ResetInv'
  BY <1>19 DEF ResetGivesUp
<1>20. ASSUME NEW g \in Fingerprints, ResetDelete(g) PROVE ResetInv'
  BY <1>20 DEF ResetDelete
<1>21. ASSUME ResetAll PROVE ResetInv'
  BY <1>21 DEF ResetAll
<1> QED
  BY <1>1, <1>2, <1>3, <1>4, <1>5, <1>6, <1>7, <1>8, <1>9, <1>10, <1>11,
     <1>12, <1>13, <1>14, <1>15, <1>16, <1>17, <1>18, <1>19, <1>20, <1>21 DEF
     Next

\* What a reset bans has ended and is in neither place; only a load in flight
\* stores its entry, and only memory is saved.
LEMMA SticksKept == Inv /\ Next => ResetSticks'
<1> SUFFICES ASSUME Inv, Next PROVE ResetSticks'
  OBVIOUS
<1>0. TypeOK /\ FlightInv /\ EntryInv /\ ResetInv /\ ResetSticks
  BY DEF Inv
<1> USE <1>0, EntryAssumption, ModelAssumption, FaultsAssumption DEF TypeOK,
   FlightInv, EntryInv, ResetInv, ResetSticks, InFlight, Measuring, Unlocked,
   Stored, LoadRecords, SaveRecords, ResetRecords, Entries, CacheFiles
<1>1. ASSUME NEW h \in Hardware, HardwareChanges(h) PROVE ResetSticks'
  BY <1>1 DEF HardwareChanges
<1>2. ASSUME NEW m \in Models, NEW f \in Files, FileChanges(m, f)
      PROVE  ResetSticks'
  BY <1>2 DEF FileChanges
<1>3. ASSUME NEW m \in Models, Rescan(m) PROVE ResetSticks'
  BY <1>3 DEF Rescan
<1>4. ASSUME NEW g \in Fingerprints, Start(g) PROVE ResetSticks'
  BY <1>4 DEF Start, loadTuningCache, Loaded, Absent, NoEntries
<1>5. ASSUME Crash PROVE ResetSticks'
  BY <1>5 DEF Crash, NoEntries
<1>6. ASSUME SaveWrites PROVE ResetSticks'
  BY <1>6 DEF SaveWrites
<1>7. ASSUME SaveFails PROVE ResetSticks'
  <2>1. CASE save.by = "reset"
    BY <1>7, <2>1 DEF SaveFails, AfterSave
  <2>2. CASE save.by \in Loads
    <3> DEFINE l == save.by
    <3>1. GoesOn(l)
      BY <1>7, <2>2, LoadGoesOn
    <3> HIDE DEF l
    <3>2. l \in Loads /\ save.by = l
      BY <2>2 DEF l
    <3> QED
      BY <1>7, <3>1, <3>2 DEF GoesOn, SaveFails
  <2> QED
    BY <1>7, <2>1, <2>2 DEF SaveFails
<1>8. ASSUME SaveRenames PROVE ResetSticks'
  <2>1. CASE save.by = "reset"
    BY <1>8, <2>1 DEF SaveRenames, AfterSave
  <2>2. CASE save.by \in Loads
    <3> DEFINE l == save.by
    <3>1. GoesOn(l)
      BY <1>8, <2>2, LoadGoesOn
    <3> HIDE DEF l
    <3>2. l \in Loads /\ save.by = l
      BY <2>2 DEF l
    <3> QED
      BY <1>8, <3>1, <3>2 DEF GoesOn, SaveRenames
  <2> QED
    BY <1>8, <2>1, <2>2 DEF SaveRenames
<1>9. ASSUME NEW l \in Loads, NEW m \in Models, resolveModel(l, m)
      PROVE  ResetSticks'
  BY <1>9 DEF resolveModel, computeDigest
<1>10. ASSUME NEW l \in Loads, Look(l) PROVE ResetSticks'
  BY <1>10 DEF Look
<1>11. ASSUME NEW l \in Loads, NEW g \in Fingerprints, Compare(l, g)
       PROVE  ResetSticks'
  BY <1>11 DEF Compare, Matches
<1>12. ASSUME NEW l \in Loads, NEW g \in Fingerprints, DropStale(l, g)
       PROVE  ResetSticks'
  BY <1>12 DEF DropStale
<1>13. ASSUME NEW l \in Loads, BeginTuning(l) PROVE ResetSticks'
  BY <1>13 DEF BeginTuning
<1>14. ASSUME NEW l \in Loads, NEW g \in Fingerprints, Measured(l, g)
       PROVE  ResetSticks'
  BY <1>14 DEF Measured
<1>15. ASSUME NEW l \in Loads, NEW g \in Fingerprints, Store(l, g)
       PROVE  ResetSticks'
  BY <1>15 DEF Store
<1>16. ASSUME NEW l \in Loads, Settle(l) PROVE ResetSticks'
  BY <1>16 DEF Settle
<1>17. ASSUME NEW m \in Models, ResetEvict(m) PROVE ResetSticks'
  BY <1>17 DEF ResetEvict
<1>18. ASSUME ResetEvicted PROVE ResetSticks'
  BY <1>18 DEF ResetEvicted
<1>19. ASSUME ResetGivesUp PROVE ResetSticks'
  BY <1>19 DEF ResetGivesUp
<1>20. ASSUME NEW g \in Fingerprints, ResetDelete(g) PROVE ResetSticks'
  BY <1>20 DEF ResetDelete
<1>21. ASSUME ResetAll PROVE ResetSticks'
  BY <1>21 DEF ResetAll, NoEntries, Absent
<1> QED
  BY <1>1, <1>2, <1>3, <1>4, <1>5, <1>6, <1>7, <1>8, <1>9, <1>10, <1>11,
     <1>12, <1>13, <1>14, <1>15, <1>16, <1>17, <1>18, <1>19, <1>20, <1>21 DEF
     Next

\* No step but the disturbances removes a current entry, and a save replaces the
\* file by one that still has it.
LEMMA DurableKept == Inv /\ Next => DurableInv'
<1> SUFFICES ASSUME Inv, Next PROVE DurableInv'
  OBVIOUS
<1>0. TypeOK /\ FlightInv /\ EntryInv /\ LookInv /\ DurableInv
  BY DEF Inv
<1> USE <1>0, EntryAssumption, ModelAssumption, FaultsAssumption DEF TypeOK,
   FlightInv, EntryInv, LookInv, DurableInv, InFlight, Measuring, Unlocked,
   Current, Calm, LoadRecords, SaveRecords, ResetRecords, Entries, CacheFiles
<1>1. ASSUME NEW h \in Hardware, HardwareChanges(h) PROVE DurableInv'
  BY <1>1 DEF HardwareChanges
<1>2. ASSUME NEW m \in Models, NEW f \in Files, FileChanges(m, f)
      PROVE  DurableInv'
  BY <1>2 DEF FileChanges
<1>3. ASSUME NEW m \in Models, Rescan(m) PROVE DurableInv'
  BY <1>3 DEF Rescan
<1>4. ASSUME NEW g \in Fingerprints, Start(g) PROVE DurableInv'
  BY <1>4 DEF Start, loadTuningCache, Loaded, Kept, Fingerprint
<1>5. ASSUME Crash PROVE DurableInv'
  BY <1>5 DEF Crash, Ended, NoSave, NoReset, diskVars
<1>6. ASSUME SaveWrites PROVE DurableInv'
  BY <1>6 DEF SaveWrites, diskVars
<1>7. ASSUME SaveFails PROVE DurableInv'
  <2>1. CASE save.by = "reset"
    BY <1>7, <2>1 DEF SaveFails, AfterSave, NoSave, NoReset, diskVars
  <2>2. CASE save.by \in Loads
    <3> DEFINE l == save.by
    <3>1. GoesOn(l)
      BY <1>7, <2>2, LoadGoesOn
    <3> HIDE DEF l
    <3>2. l \in Loads /\ save.by = l
      BY <2>2 DEF l
    <3>3. \A k \in Loads :
            /\ load'[k].model = load[k].model /\ load'[k].digest = load[k].digest
            /\ load'[k].ctx = load[k].ctx /\ load'[k].fp = load[k].fp
            /\ load'[k].pc = "stale" => load[k].pc = "stale"
            /\ Measuring(k)' => Measuring(k)
      BY <3>1, <3>2 DEF GoesOn
    <3>4. /\ UNCHANGED <<up, hw, disk, catalogue>>
          /\ reset'.model = reset.model /\ save' = NoSave
      BY <1>7, <3>1 DEF GoesOn, SaveFails, diskVars
    <3>5. \A m \in Models, e \in Loads : Current(m, e) => Current(m, e)'
      BY <3>3, <3>4
    <3>6. \A m \in Models : Calm(m) => Calm(m)'
      BY <3>3, <3>4
    <3>7. durable \subseteq Models /\ \A m \in Models : ~Current(m, None)
      OBVIOUS
    <3> HIDE DEF Current, Calm, Measuring
    <3> QED
      BY <1>7, <3>4, <3>5, <3>6, <3>7 DEF SaveFails, Entries, CacheFiles,
         NoSave
  <2> QED
    BY <1>7, <2>1, <2>2 DEF SaveFails
<1>8. ASSUME SaveRenames PROVE DurableInv'
  <2>1. CASE save.by = "reset"
    BY <1>8, <2>1 DEF SaveRenames, AfterSave, NoSave, NoReset, diskVars
  <2>2. CASE save.by \in Loads
    <3> DEFINE l == save.by
    <3>1. GoesOn(l)
      BY <1>8, <2>2, LoadGoesOn
    <3> HIDE DEF l
    <3>2. l \in Loads /\ save.by = l
      BY <2>2 DEF l
    <3>3. \A k \in Loads :
            /\ load'[k].model = load[k].model /\ load'[k].digest = load[k].digest
            /\ load'[k].ctx = load[k].ctx /\ load'[k].fp = load[k].fp
            /\ load'[k].pc = "stale" => load[k].pc = "stale"
            /\ Measuring(k)' => Measuring(k)
      BY <3>1, <3>2 DEF GoesOn
    <3>4. /\ UNCHANGED <<up, hw, disk, catalogue>>
          /\ reset'.model = reset.model /\ save' = NoSave
      BY <1>8, <3>1 DEF GoesOn, SaveRenames, diskVars
    <3>5. \A m \in Models, e \in Loads : Current(m, e) => Current(m, e)'
      BY <3>3, <3>4
    <3>6. \A m \in Models : Calm(m) => Calm(m)'
      BY <3>3, <3>4
    <3>7. durable \subseteq Models /\ \A m \in Models : ~Current(m, None)
      OBVIOUS
    <3> HIDE DEF Current, Calm, Measuring
    <3> QED
      BY <1>8, <3>4, <3>5, <3>6, <3>7 DEF SaveRenames, Entries, NoSave
  <2> QED
    BY <1>8, <2>1, <2>2 DEF SaveRenames
<1>9. ASSUME NEW l \in Loads, NEW m \in Models, resolveModel(l, m)
      PROVE  DurableInv'
  BY <1>9 DEF resolveModel, computeDigest, diskVars
<1>10. ASSUME NEW l \in Loads, Look(l) PROVE DurableInv'
  BY <1>10 DEF Look, diskVars
<1>11. ASSUME NEW l \in Loads, NEW g \in Fingerprints, Compare(l, g)
       PROVE  DurableInv'
  BY <1>11 DEF Compare, Matches, Fingerprint, Kept, diskVars
<1>12. ASSUME NEW l \in Loads, NEW g \in Fingerprints, DropStale(l, g)
       PROVE  DurableInv'
  BY <1>12 DEF DropStale, SaveTuningCacheLocked, Fingerprint, Kept, diskVars
<1>13. ASSUME NEW l \in Loads, BeginTuning(l) PROVE DurableInv'
  BY <1>13 DEF BeginTuning, diskVars
<1>14. ASSUME NEW l \in Loads, NEW g \in Fingerprints, Measured(l, g)
       PROVE  DurableInv'
  BY <1>14 DEF Measured, Kept, diskVars
<1>15. ASSUME NEW l \in Loads, NEW g \in Fingerprints, Store(l, g)
       PROVE  DurableInv'
  BY <1>15 DEF Store, SaveTuningCacheLocked, Fingerprint, Kept, diskVars
<1>16. ASSUME NEW l \in Loads, Settle(l) PROVE DurableInv'
  BY <1>16 DEF Settle, Ended, diskVars
<1>17. ASSUME NEW m \in Models, ResetEvict(m) PROVE DurableInv'
  BY <1>17 DEF ResetEvict, diskVars
<1>18. ASSUME ResetEvicted PROVE DurableInv'
  BY <1>18 DEF ResetEvicted, diskVars
<1>19. ASSUME ResetGivesUp PROVE DurableInv'
  BY <1>19 DEF ResetGivesUp, diskVars
<1>20. ASSUME NEW g \in Fingerprints, ResetDelete(g) PROVE DurableInv'
  BY <1>20 DEF ResetDelete, SaveTuningCacheLocked, Fingerprint, Kept, diskVars
<1>21. ASSUME ResetAll PROVE DurableInv'
  BY <1>21 DEF ResetAll
<1> QED
  BY <1>1, <1>2, <1>3, <1>4, <1>5, <1>6, <1>7, <1>8, <1>9, <1>10, <1>11,
     <1>12, <1>13, <1>14, <1>15, <1>16, <1>17, <1>18, <1>19, <1>20, <1>21 DEF
     Next

-----------------------------------------------------------------------------
(* The theorems.                                                           *)

\* The invariant holds at the start.
LEMMA InvInit == Init => Inv
<1> SUFFICES ASSUME Init PROVE Inv
  OBVIOUS
<1>1. TypeOK
  <2>1. load \in [Loads -> LoadRecords] /\ banned \in [Models -> SUBSET Loads]
    BY NoLoadTyped DEF Init
  <2>2. up \in BOOLEAN
    BY DEF Init
  <2>3. faults \in 0 .. MaxFaults
    BY FaultsAssumption DEF Init
  <2> QED
    BY <2>1, <2>2, <2>3, NothingTyped DEF Init, TypeOK
<1>2. \A l \in Loads : load[l] = NoLoad /\ ~Measuring(l)
  BY DEF Init, NoLoad, Measuring, InFlight
<1>3. FlightInv /\ MeasureInv /\ LookInv /\ CachedConfigMeasuredHere
  BY <1>2 DEF Init, NoLoad, NoSave, NoReset, InFlight, Flying, Unlocked,
     FlightInv, MeasureInv, LookInv, CachedConfigMeasuredHere
<1>4. EntryInv /\ ResetInv /\ ResetSticks /\ DurableInv
  BY <1>2 DEF Init, NoLoad, NoSave, NoReset, NoEntries, Absent, Unlocked,
     Stored,
     EntryInv, ResetInv, ResetSticks, DurableInv
<1> QED
  BY <1>1, <1>3, <1>4 DEF Inv

\* Every step keeps it.
LEMMA InvNext == Inv /\ [Next]_vars => Inv'
<1> SUFFICES ASSUME Inv, [Next]_vars PROVE Inv'
  OBVIOUS
<1>1. CASE Next
  BY <1>1, TypeKept, FlightKept, EntryKept, MeasureKept, LookKept, CachedKept,
     ResetKept, SticksKept, DurableKept DEF Inv
<1>2. CASE UNCHANGED vars
  BY <1>2 DEF vars, diskVars, Inv, TypeOK, FlightInv, EntryInv, MeasureInv,
     LookInv,
     CachedConfigMeasuredHere, ResetInv, ResetSticks, DurableInv, Flying, Measuring,
     Unlocked, Stored, Current, Calm
<1> QED
  BY <1>1, <1>2

\* The inductive invariant holds in every reachable state.
THEOREM Invariance == Spec => []Inv
<1> QED
  BY InvInit, InvNext, PTL DEF Spec

\* A configuration that launchInstance takes from the cache was measured on the
\* machine its lookup saw and for a file of the size its request saw.
THEOREM CachedConfigMeasuredHereHolds == Spec => []CachedConfigMeasuredHere
<1>1. Inv => CachedConfigMeasuredHere
  BY DEF Inv
<1> QED
  BY <1>1, Invariance, PTL

\* What a model's reset found or waited for, and what a reset of all found, is never
\* in memory or in the file again once the reset reached the disk, whatever loads,
\* saves, crashes and restarts follow.
THEOREM ResetSticksHolds == Spec => []ResetSticks
<1>1. Inv => ResetSticks
  BY DEF Inv
<1> QED
  BY <1>1, Invariance, PTL

\* An entry that was saved and not disturbed is whole in the file at every
\* moment, those in the middle of a later save or of a crash included.
THEOREM SavedEntrySurvivesHolds == Spec => []SavedEntrySurvives
<1>1. Inv => SavedEntrySurvives
  BY DEF Inv, DurableInv, SavedEntrySurvives
<1> QED
  BY <1>1, Invariance, PTL
=============================================================================
