---------------------------- MODULE TuningCache ----------------------------
(***************************************************************************)
(* The tuning cache (internal/supervisor/supervisor.go): the entries in    *)
(* memory (s.tuned), the file behind them, loadTuningCache at start,       *)
(* saveTuningCacheLocked with its temporary file, the lookup and the       *)
(* invalidation in launchInstance, the entry that tune stores, and the     *)
(* reset endpoint, with crashes, failing writes, files and hardware that   *)
(* change, and a hardware detection that fails for a moment.               *)
(*                                                                         *)
(* What tune measures is Tuning's business.  Here a load stands for the    *)
(* entry it measures, so that an entry is the name of the load that made   *)
(* it and its fields are found in the load's record.  A model with a Pin   *)
(* takes no part in the cache and does not appear.                         *)
(*                                                                         *)
(* A crash is one of the process: what was handed to the operating system  *)
(* survives it.                                                            *)
(***************************************************************************)
EXTENDS Integers, FiniteSets

CONSTANTS
  Models,
  Loads,      \* the loads of the whole history, restarts included
  Files,      \* the contents of a model file: [size, ctx]
  Hardware,   \* what Fingerprint reads from the machine, a llama-server upgrade included
  Blind,      \* what it reads when a detection command fails
  None,
  MaxFaults   \* bound: disturbances from outside in a behaviour

ASSUME FilesAssumption == \A f \in Files : DOMAIN f = {"size", "ctx"}
ASSUME BlindAssumption == Blind \notin Hardware
ASSUME EntryAssumption == None \notin Loads /\ "reset" \notin Loads
ASSUME ModelAssumption == None \notin Models
ASSUME FaultsAssumption == MaxFaults \in Nat

VARIABLES
  up,         \* the daemon runs
  hw,         \* the machine's fingerprint
  disk,       \* the file of each model
  catalogue,  \* the file of each model as the last scan read its header
  tuned,      \* s.tuned
  file,       \* the cache file
  save,       \* saveTuningCacheLocked under way; s.mu is held while it is
  load,       \* each load: where it is, and the fields of its entry
  reset,      \* the goroutine in handleV1TuningReset
  faults,     \* disturbances so far
  banned,     \* history: the entries that resets have removed, from the disk too
  durable     \* history: the models whose entry nothing has disturbed since it was saved

diskVars == <<hw, disk, catalogue>>
vars == <<up, diskVars, tuned, file, save, load, reset, faults, banned, durable>>

Fingerprints == Hardware \cup {Blind}
Entries == [Models -> Loads \cup {None}]
NoEntries == [m \in Models |-> None]

\* The cache file: absent, cut off in the middle, or whole.
CacheFiles == [is : {"absent", "partial", "whole"}, fp : Fingerprints, entries : Entries]
Absent == [is |-> "absent", fp |-> Blind, entries |-> NoEntries]
Sizes == {f.size : f \in Files}
Ctxs == {f.ctx : f \in Files}

\* A load ends "done", or "dead" with its process; what it knew goes with it
\* unless it left an entry.
InFlight == {"looked", "stale", "cached", "dropping", "tune", "tuning", "measured", "storing"}
Tuning == {"tuning", "measured", "storing"}

\* The loads that may probe, or are about to.
Measuring(l) == load[l].pc \in {"resolved"} \cup InFlight

NoLoad == [pc |-> "new", model |-> None, digest |-> 0, ctx |-> 0, seen |-> None,
           fp |-> Blind, machines |-> {}, sizes |-> {}]
Ended(pc) == [NoLoad EXCEPT !.pc = pc]
NoSave == [step |-> "none", by |-> None, fp |-> Blind]
NoReset == [pc |-> "idle", model |-> None, waits |-> {}, before |-> {}]

LoadRecords ==
  [pc : {"new", "resolved", "done", "dead"} \cup InFlight,
   model : Models \cup {None}, digest : Sizes \cup {0}, ctx : Ctxs \cup {0},
   seen : Loads \cup {None}, fp : Fingerprints,
   machines : SUBSET Hardware, sizes : SUBSET Sizes]
SaveRecords ==
  [step : {"none", "write", "rename"}, by : Loads \cup {"reset", None}, fp : Fingerprints]
ResetRecords ==
  [pc : {"idle", "evict", "delete", "saving"}, model : Models \cup {None},
   waits : SUBSET Loads, before : SUBSET Loads]

\* Every variable has its type.
TypeOK ==
  /\ up \in BOOLEAN /\ hw \in Hardware
  /\ disk \in [Models -> Files] /\ catalogue \in [Models -> Files]
  /\ tuned \in Entries
  /\ file \in CacheFiles
  /\ save \in SaveRecords /\ load \in [Loads -> LoadRecords] /\ reset \in ResetRecords
  /\ faults \in 0 .. MaxFaults
  /\ banned \in [Models -> SUBSET Loads] /\ durable \subseteq Models

Init ==
  /\ up = FALSE /\ hw \in Hardware
  /\ disk \in [Models -> Files] /\ catalogue = disk
  /\ tuned = NoEntries
  /\ file = Absent
  /\ save = NoSave
  /\ load = [l \in Loads |-> NoLoad]
  /\ reset = NoReset
  /\ faults = 0
  /\ banned = [m \in Models |-> {}] /\ durable = {}

-----------------------------------------------------------------------------
(* The machine.                                                            *)

Disturbed == faults < MaxFaults /\ faults' = faults + 1

\* Fingerprint returns f: the machine's own, or that of a machine without
\* accelerators when a detection command fails this once.
Fingerprint(f) ==
  \/ f = hw /\ UNCHANGED faults
  \/ f = Blind /\ Disturbed

\* A failed detection, whoever meets it, ends what is known of the saved entries.
Kept(f, ms) == IF f = Blind THEN {} ELSE ms

\* Another llama-server build, another accelerator.
HardwareChanges(h) ==
  /\ h # hw /\ Disturbed
  /\ hw' = h
  /\ load' = [l \in Loads |->
                IF Measuring(l) THEN [load[l] EXCEPT !.machines = @ \cup {h}] ELSE load[l]]
  /\ durable' = {}
  /\ UNCHANGED <<up, disk, catalogue, tuned, file, save, reset, banned>>

FileChanges(m, f) ==
  /\ f # disk[m] /\ Disturbed
  /\ disk' = [disk EXCEPT ![m] = f]
  /\ load' = [l \in Loads |->
                IF Measuring(l) /\ load[l].model = m
                  THEN [load[l] EXCEPT !.sizes = @ \cup {f.size}] ELSE load[l]]
  /\ durable' = durable \ {m}
  /\ UNCHANGED <<up, hw, catalogue, tuned, file, save, reset, banned>>

\* A scan reads the header of m's file again.
Rescan(m) ==
  /\ up /\ catalogue[m] # disk[m]
  /\ catalogue' = [catalogue EXCEPT ![m] = disk[m]]
  /\ durable' = durable \ {m}
  /\ UNCHANGED <<up, hw, disk, tuned, file, save, load, reset, faults, banned>>

-----------------------------------------------------------------------------
(* loadTuningCache and a crash.                                            *)

\* The entries that loadTuningCache takes from a whole file whose fingerprint is f.
Loaded(f) ==
  [m \in Models |->
     LET e == file.entries[m] IN
     IF e # None /\ load[e].fp = f THEN e ELSE None]

\* A file that does not parse, or belongs to another machine, is removed.
loadTuningCache(f) ==
  IF file.is # "whole" \/ file.fp # f
    THEN tuned' = NoEntries /\ file' = Absent
    ELSE tuned' = Loaded(f) /\ UNCHANGED file

Start(f) ==
  /\ ~up /\ up' = TRUE
  /\ Fingerprint(f)
  /\ loadTuningCache(f)
  /\ catalogue' = disk
  /\ durable' = Kept(f, durable)
  /\ UNCHANGED <<hw, disk, save, load, reset, banned>>

\* The process dies, or is shut down: Close does not save.
Crash ==
  /\ up /\ Disturbed
  /\ up' = FALSE
  /\ tuned' = NoEntries
  /\ save' = NoSave
  /\ load' = [l \in Loads |->
                IF Measuring(l) THEN Ended("dead") ELSE load[l]]
  /\ reset' = NoReset
  /\ UNCHANGED <<diskVars, file, banned, durable>>

-----------------------------------------------------------------------------
(* saveTuningCacheLocked: the caller holds s.mu to its end, so the entries *)
(* it writes are those in memory.                                          *)

Unlocked == save.step = "none"

SaveTuningCacheLocked(by, f) == save' = [step |-> "write", by |-> by, fp |-> f]

\* What the caller does after the save, successful or not.
AfterSave(ok) ==
  LET l == save.by IN
  /\ save' = NoSave
  /\ IF l = "reset"
       THEN /\ reset' = NoReset
            /\ banned' = IF ok THEN [banned EXCEPT ![reset.model] = @ \cup reset.before]
                               ELSE banned
            /\ UNCHANGED load
       ELSE /\ load' = [load EXCEPT ![l].pc = IF @ = "dropping" THEN "tune" ELSE "done"]
            /\ reset' = [reset EXCEPT !.waits =
                           IF load[l].pc = "storing" THEN @ \ {l} ELSE @]
            /\ UNCHANGED banned

MutSaveWrites ==
  /\ save.step = "write"
  /\ file' = [Absent EXCEPT !.is = "partial"]
  /\ save' = [save EXCEPT !.step = "rename"]
  /\ UNCHANGED <<up, diskVars, tuned, load, reset, faults, banned, durable>>

\* The temporary file is whole; nobody reads it but the rename.
SaveWrites ==
  /\ save.step = "write"
  /\ save' = [save EXCEPT !.step = "rename"]
  /\ UNCHANGED <<up, diskVars, tuned, file, load, reset, faults, banned, durable>>

\* The directory, the write or the rename fails: logged, and the caller goes on.
SaveFails ==
  /\ ~Unlocked /\ Disturbed
  /\ AfterSave(FALSE)
  /\ UNCHANGED <<up, diskVars, tuned, file, durable>>

\* l's entry is what a load of m would look for now.
Current(m, e) ==
  /\ e # None
  /\ load[e].fp = hw /\ load[e].digest = disk[m].size /\ load[e].ctx = disk[m].ctx

\* Nobody at work on m resolved another file or is about to remove its entry.
Calm(m) ==
  /\ catalogue[m] = disk[m] /\ reset.model # m
  /\ \A l \in Loads :
       Measuring(l) /\ load[l].model = m =>
         /\ load[l].pc # "stale"
         /\ load[l].digest = disk[m].size /\ load[l].ctx = disk[m].ctx

SaveRenames ==
  /\ save.step = "rename"
  /\ file' = [is |-> "whole", fp |-> save.fp, entries |-> tuned]
  /\ AfterSave(TRUE)
  /\ durable' = durable \cup
       {m \in Models : save.fp = hw /\ Current(m, tuned[m]) /\ Calm(m)}
  /\ UNCHANGED <<up, diskVars, tuned, faults>>

-----------------------------------------------------------------------------
(* A load: resolveModel, launchInstance and the end of tune.               *)

\* The digest is a hash of the ID, the path and the size: neither the content nor
\* the time of the last change is in it.
computeDigest(f) == f.size

\* resolveModel stats the file for the digest; the header is the last scan's.
resolveModel(l, m) ==
  /\ up /\ load[l].pc = "new"
  /\ load' = [load EXCEPT ![l] = [NoLoad EXCEPT
       !.pc = "resolved", !.model = m, !.digest = computeDigest(disk[m]),
       !.ctx = catalogue[m].ctx, !.machines = {hw}, !.sizes = {disk[m].size}]]
  /\ UNCHANGED <<up, diskVars, tuned, file, save, reset, faults, banned, durable>>

\* One load of a model at a time (Registry's SingleFlight); s.tuned is read
\* under s.mu.
Look(l) ==
  /\ load[l].pc = "resolved" /\ Unlocked
  /\ \A k \in Loads : load[k].pc \in InFlight => load[k].model # load[l].model
  /\ load' = [load EXCEPT ![l].pc = "looked", ![l].seen = tuned[load[l].model]]
  /\ UNCHANGED <<up, diskVars, tuned, file, save, reset, faults, banned, durable>>

MutMatches(l, e, f) == load[e].digest = load[l].digest /\ load[e].ctx = load[l].ctx

\* The entry is for this fingerprint, this digest and this context length.
Matches(l, e, f) ==
  load[e].fp = f /\ load[e].digest = load[l].digest /\ load[e].ctx = load[l].ctx

\* The lookup proper, after s.mu was released.
Compare(l, f) ==
  LET e == load[l].seen IN
  /\ load[l].pc = "looked" /\ Fingerprint(f)
  /\ load' = [load EXCEPT ![l] =
       IF e = None THEN [@ EXCEPT !.pc = "tune"]
       ELSE IF Matches(l, e, f) THEN [@ EXCEPT !.pc = "cached", !.fp = f]
       ELSE [@ EXCEPT !.pc = "stale", !.seen = None]]
  /\ durable' = Kept(f, durable)
  /\ UNCHANGED <<up, diskVars, tuned, file, save, reset, banned>>

\* An entry that does not match is deleted, and the cache is saved without it.
DropStale(l, f) ==
  /\ load[l].pc = "stale" /\ Unlocked /\ Fingerprint(f)
  /\ load' = [load EXCEPT ![l].pc = "dropping"]
  /\ tuned' = [tuned EXCEPT ![load[l].model] = None]
  /\ SaveTuningCacheLocked(l, f)
  /\ durable' = Kept(f, durable)
  /\ UNCHANGED <<up, diskVars, file, reset, banned>>

\* tuningMu.
BeginTuning(l) ==
  /\ load[l].pc = "tune" /\ \A k \in Loads : load[k].pc \notin Tuning
  /\ load' = [load EXCEPT ![l].pc = "tuning"]
  /\ UNCHANGED <<up, diskVars, tuned, file, save, reset, faults, banned, durable>>

\* The last launch of the run (or of its fallback) succeeded and the entry is
\* filled in, its fingerprint read now.
Measured(l, f) ==
  /\ load[l].pc = "tuning" /\ Fingerprint(f)
  /\ load' = [load EXCEPT ![l].pc = "measured", ![l].fp = f]
  /\ durable' = Kept(f, durable)
  /\ UNCHANGED <<up, diskVars, tuned, file, save, reset, banned>>

Store(l, f) ==
  /\ load[l].pc = "measured" /\ Unlocked /\ Fingerprint(f)
  /\ load' = [load EXCEPT ![l].pc = "storing"]
  /\ tuned' = [tuned EXCEPT ![load[l].model] = l]
  /\ SaveTuningCacheLocked(l, f)
  /\ durable' = Kept(f, durable)
  /\ UNCHANGED <<up, diskVars, file, reset, banned>>

\* The load settles with the cached configuration launched, or with an error:
\* a launch that fails, a load that was cancelled.
Settle(l) ==
  /\ load[l].pc \in {"cached", "tuning"}
  /\ load' = [load EXCEPT ![l] = Ended("done")]
  /\ reset' = [reset EXCEPT !.waits = @ \ {l}]
  /\ UNCHANGED <<up, diskVars, tuned, file, save, faults, banned, durable>>

-----------------------------------------------------------------------------
(* handleV1TuningReset.                                                    *)

\* evictByID samples the load of m under s.mu.
ResetEvict(m) ==
  LET started == {l \in Loads : load[l].model = m /\ load[l].pc \notin {"new", "resolved"}} IN
  /\ up /\ reset.pc = "idle" /\ Unlocked
  /\ reset' = [pc |-> "evict", model |-> m, before |-> started,
               waits |-> {l \in started : load[l].pc \in InFlight}]
  /\ durable' = durable \ {m}
  /\ UNCHANGED <<up, diskVars, tuned, file, save, load, faults, banned>>

MutResetEvicted ==
  /\ reset.pc = "evict"
  /\ reset' = [reset EXCEPT !.pc = "delete"]
  /\ UNCHANGED <<up, diskVars, tuned, file, save, load, faults, banned, durable>>

\* Evict returns once the load it cancelled has settled,
ResetEvicted ==
  /\ reset.pc = "evict" /\ reset.waits = {}
  /\ reset' = [reset EXCEPT !.pc = "delete"]
  /\ UNCHANGED <<up, diskVars, tuned, file, save, load, faults, banned, durable>>

\* or fails: its client is gone, or the model no longer resolves.  The reset
\* goes on, without a claim on the load it did not wait for.
ResetGivesUp ==
  /\ reset.pc = "evict" /\ reset.waits # {} /\ Disturbed
  /\ reset' = [reset EXCEPT !.pc = "delete", !.waits = {}, !.before = @ \ reset.waits]
  /\ UNCHANGED <<up, diskVars, tuned, file, save, load, banned, durable>>

ResetDelete(f) ==
  /\ reset.pc = "delete" /\ Unlocked /\ Fingerprint(f)
  /\ tuned' = [tuned EXCEPT ![reset.model] = None]
  /\ SaveTuningCacheLocked("reset", f)
  /\ reset' = [reset EXCEPT !.pc = "saving"]
  /\ durable' = Kept(f, durable)
  /\ UNCHANGED <<up, diskVars, file, load, banned>>

\* Without a model: the whole cache goes, the loads in flight do not (evicting
\* the residents neither cancels nor awaits them) and will store what they
\* measure.  os.Remove may fail, which nobody looks at: the file stays.
ResetAll ==
  LET gone == {l \in Loads : load[l].pc \in {"done", "dead"}} IN
  /\ up /\ reset.pc = "idle" /\ Unlocked
  /\ tuned' = NoEntries
  /\ \/ /\ file' = Absent
        /\ banned' = [m \in Models |-> banned[m] \cup {l \in gone : load[l].model = m}]
        /\ UNCHANGED faults
     \/ Disturbed /\ UNCHANGED <<file, banned>>
  /\ durable' = {}
  /\ UNCHANGED <<up, diskVars, save, load, reset>>

Next ==
  \/ \E h \in Hardware : HardwareChanges(h)
  \/ \E m \in Models, f \in Files : FileChanges(m, f)
  \/ \E m \in Models : Rescan(m) \/ ResetEvict(m)
  \/ \E f \in Fingerprints : Start(f) \/ ResetDelete(f)
  \/ Crash \/ SaveWrites \/ SaveFails \/ SaveRenames
  \/ ResetEvicted \/ ResetGivesUp \/ ResetAll
  \/ \E l \in Loads, m \in Models : resolveModel(l, m)
  \/ \E l \in Loads : Look(l) \/ BeginTuning(l) \/ Settle(l)
  \/ \E l \in Loads, f \in Fingerprints :
       Compare(l, f) \/ DropStale(l, f) \/ Measured(l, f) \/ Store(l, f)

Spec == Init /\ [][Next]_vars

-----------------------------------------------------------------------------
(* Properties.                                                             *)

\* A configuration taken from the cache was measured on this machine and for
\* this file: the fingerprint the lookup read and the size its request saw both
\* held at some moment of the load that measured it, through saves, restarts
\* and changes in between.  A lookup that was itself blind is the exception:
\* it may meet an entry measured as blindly on another machine.
CachedConfigMeasuredHere ==
  \A l \in Loads :
    load[l].pc = "cached" /\ load[l].fp # Blind =>
      LET e == load[l].seen IN
      /\ load[e].model = load[l].model
      /\ load[l].fp \in load[e].machines
      /\ load[l].digest \in load[e].sizes

Stored(m) == {tuned[m], file.entries[m]}

\* A reset that reached the disk is final for what it took on.  After a model's
\* own reset, no entry that was there, or was being measured by a load that the
\* reset waited for, comes back; after a reset of all, no entry that was there, be
\* it from memory, from the file after a restart, or by the save of another load.
\* (A load in flight during a reset of all stores its entry all the same, and
\* if the file could not be removed, its entries are back with the next start.)
ResetSticks == \A m \in Models : Stored(m) \cap banned[m] = {}

\* An entry that was saved and that nothing has disturbed since (no reset of
\* its model, no change of its file or of the machine, no blind reading) is in
\* the file whole, whenever a restart may come to read it.
SavedEntrySurvives ==
  \A m \in durable :
    /\ file.is = "whole" /\ file.fp = hw
    /\ Current(m, file.entries[m])
=============================================================================
