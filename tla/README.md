# A TLA+ model of llm-server

llm-server is a supervisor for local language models: it finds GGUF files, runs
one `llama-server` child per model on demand, forwards OpenAI and Ollama
requests to it, measures how much of a model fits on the GPU, and stops
children that are idle, evicted or in the way. This directory models it,
checks the models with TLC on small instances,
and proves the main results with TLAPS for all instances.

Source paths below are relative to the repository; `supervisor.go` is
`internal/supervisor/supervisor.go`. `PROJECT.json` maps every definition to the
lines it models.

## 1. Inventory

| Component | State | Operations | Hard part |
|---|---|---|---|
| Resident instance (`supervisor.go`, `residentInstance`) | slot counter and limit, `draining`, `stopped`, TTL, idle timer | `acquire`, `release`, `drainAndStop`, `stopTimerAndMarkStopped`, `onInstanceIdleTimeout`, `SetModelTTL` | one condition variable for two kinds of waiters, a goroutine per waiter that watches its context, timer callbacks that run late |
| Registry (`Supervisor.instances`, `loading`) | resident instances, pending loads and their caller counts, `closed` | `getOrLaunchInstance`, `evictLRULocked`, `evictByID`, `evictAllResidentInstances`, `Close` | coalesced loads, locks dropped between look-up and use, clients that go away, loads that are cancelled and win the race |
| Catalogue (`Supervisor.models`, `discovery.go`) | the models of the last scan | `Rescan`, ticker, `POST /v1/rescan` | scans that race requests, each other and `Close` |
| Tuning (`tune`) | ladder, bisection bounds, budget, the child under test | one long run under `tuningMu` | search arithmetic, four nested contexts, launches that fail for reasons of their own |
| Tuning cache (`tuned`, `tuning.json`) | entries, a file | load, save, look up, reset | crash between write and rename, changing fingerprints, reset during a run |
| Host (`internal/host`) | the child process, its stderr, its exit status | `Launch`, `WaitReady`, `Stop` | interrupt, wait, kill; context cancellation; classification of an exit |
| Handlers (`ollama.go`, proxy in `supervisor.go`) | one request | resolve, admit, forward, release, `keep_alive` | what a handler sampled earlier and uses later |
| Configuration, GGUF reader, `httpserve`, `cmd` | read once | sequential | precedence, parsing, graceful shutdown |

The components meet in a few places. A handler resolves a model in the
catalogue, asks the registry for an instance, holds a slot of it while it
forwards, and gives it back. The registry launches through tuning or the cache,
and through the host. Timers, scans, tuning runs, the LRU cap, `keep_alive = 0`
and `Close` all stop instances, in two ways: a *drain* waits for the requests
inside, a *forced stop* does not. Two locks matter, `s.mu` for the maps and
`ri.mu` for one instance; almost every hazard in `PROJECT.json` sits where one of
them is dropped.

What makes the components correct:

- instance: slots are neither lost nor exceeded; nobody sleeps for ever; a drain
  cuts nobody off and ends; an idle instance is stopped;
- registry: at most one load and one instance per model, never more than the cap; no
  child without an owner; every request ends; nothing is registered after `Close`;
- tuning: it ends, and what it caches is the best that fits;
- cache: what it returns was measured on this machine for this file; what a reset
  has removed stays away; a saved entry survives a crash;
- catalogue: it follows the disk, and only what is gone is evicted;
- host: an exit is reported as what it was, and `Stop` ends the child;
- handlers: one answer per request, the child's, unless its client or its load was
  cancelled; the idle TTL in force is the one that was set last;
- shutdown: the daemon exits, whatever its clients do.

## 2. Modules

| Module | Models | Proofs |
|---|---|---|
| `DrainGate` | what an instance promises: the abstract specification | |
| `ResidentInstance` | the record and each critical section on it, as operators | |
| `SlotGate` | one instance and everything around it; implements `DrainGate` | `SlotGateProofs` |
| `Registry` | several models and requests, each instance as a gate | `RegistryProofs` |
| `ContextLadder` | the ladder loop of `tune` | `ContextLadder`, `TuningProofs` |
| `Tuning` | one run of `tune` | `TuningProofs` |
| `TuningCache` | the entries, their file, restarts, look-ups and resets | `TuningCacheProofs` |
| `GGUF`, `Discovery` | the header reader and `inspectFile`, as operators | |
| `Daemon` | scans, the catalogue, the children as far as scans and shutdown see them, `Serve`, `Close`, exit | `DaemonProofs` |
| `ChildProcess` | one child with its pipe, its reader, its waiter, `launchConfig` and `Stop` | `ChildProcessProofs` |
| `Config` | configuration file and precedence rules, as operators | |
| `Ollama` | chat, generate and embed requests, `SetModelTTL`, the translation of answers | `OllamaProofs` |
| `MC...` | instances for TLC | |

`Daemon` extends `Discovery`, which extends `GGUF`; `Ollama` extends `Config`. The
layers meet at their edges rather than in one product: `SlotGate` is the inside of
an instance, `Registry` has instances as gates and loads as steps, `Daemon` has a
model's child as one word, and `Tuning`, `TuningCache` and `ChildProcess` open up
the step that `Registry` calls a launch.

### SlotGate

State: the record `ri`, whether it is `registered`, the child (`proc`: running,
signalled, killed, exited), and the program counters of requests (`pc`), of their
context watchers (`watch`) and of the goroutines that drain or carry a timer
callback (`dpc`). Each action is one critical section. `acquire` is `Refuse`,
`Wait` and `Enter`, entered from "ready" the first time and from "woken" after
every `Wait`; `Broadcast` moves all sleepers to "woken". The runtime timer
(`armed`) is kept apart from the field `timerActive`, because a fired timer
leaves the field set until its callback gets the lock. `drainAndStop` is
`DrainNoop`, `DrainWait`, `DrainDone`, `Unregister`, then `Stop`: `StopSignals`,
`StopReturns`, `StopTimesOut`. The drains of `evictByID` and of `keep_alive = 0`
start with `EvictByID`, the forced stops of `Close` and
`evictAllResidentInstances` with `StopNow`. `ended` is a history variable that
remembers whether a drain or a forced stop set `stopped`.

Durations are abstracted: a TTL is set or not, a timer may fire at any moment.

### Registry

An instance is the gate of `DrainGate`: its holders are the requests that serve on
it and its `phase` is open, draining or stopped. A request launches at most one
load, so a load, its `pendingInstance` and the instance it produces carry the
request's name. A handler that does not find its model answers an error
(`ResolveFails`). `getOrLaunchInstance` is a loop over `FindResident`, `JoinLoad`
and `StartLoad`, each with the actions that follow it; what happens after a launch
is one critical section (`SettleFailed`, `SettleClosed` or `SettleRegister`, with
the LRU eviction inside). `monitor[r] = k` says that r's monitor goroutine still
counts for load k; `MonitorFires` is its `ctx.Done` branch. `asleep` holds the
requests in `idleCond.Wait` (`SlotWait`): a release, a forced stop and the watcher
of a cancelled waiter wake those of their instance (`Wake`), a drain wakes nobody.
`lastUsed` is a rank among the registered instances. `closer[k]` is the goroutine
that drains or stops instance k. `evictor` is the goroutine inside `evictByID`,
started by a scan or by `Evict`; the history variable `evicted` collects the loads
it cancelled. `unload[r]` is what a `keep_alive = 0` request will drain when it
ends: `handleAPIEmbed` drains after its release (`Leave`), `serveOllamaCompletion`
before (`UnloadEarly`). A process may exit at any time.

A request ends as "done", "error" or "silent"; the last is a handler that returns
without a response because the error it got is `context.Canceled`.

### Tuning

The machine is a function `cap` from context lengths to the largest offload that
fits, falling with the context. `launchConfig` is one step with three outcomes:
`LaunchOK`, `LaunchOOM`, `LaunchErr`. Memory may also hold other models (those with
a pin or a cached entry are launched without `tuningMu`) and children that were
killed and not waited for; a launch that fits and still runs out of memory
because of them sets the history variable `disturbed`. The contexts are "budget"
(derived from the load's), "load", and "rescue" (the one `fallback` makes when the
load's is gone).

### TuningCache

A load stands for the entry it measures: `tuned` and the file map a model to the
load that made its entry, and the entry's fingerprint, digest and context length
are fields of that load. `save` is `saveTuningCacheLocked` under way; since `s.mu` is
held to its end the entries it writes are those in memory, and a crash between
`SaveWrites` (the temporary file) and `SaveRenames` leaves the old file. A launch is
`resolveModel` (which stats the file, so that the digest is fresh while the
context length is the last scan's), `Look`, `Compare`, `DropStale`, `BeginTuning`,
`Measured`, `Store`: the lock is dropped between all of them. Every call of
`Fingerprint` may return the machine's value or, when `nvidia-smi` fails, `Blind`.
The history fields `machines` and `sizes` of a load collect what the machine and the
file were while it ran; `banned` the entries that resets have removed from memory and
from the disk: for one model, also those that a load which the reset waited for was
measuring. A reset of all (`ResetAll`) waits for no load, and when `os.Remove` fails it
removes nothing from the disk, so that `banned` does not grow;
`durable` the models whose saved entry nothing has disturbed since.

The digest is a hash of ID, path and size. A file replaced by one of the same size
keeps its entry unless its context length changed and a scan saw it; the model
keeps that (`computeDigest`), and `CachedConfigMeasuredHere` is about sizes.

### Discovery, GGUF, Daemon

A file is its header cut into fields and its name cut into stem, shard suffix and
quantisation; `inspectFile` returns the model's ID or nothing. `MCDaemon` evaluates it
on twelve kinds of file (shards by name and by metadata, a name that contradicts
the metadata, projectors of three sorts, a file being copied, a repeated key, an
unknown type) against what each file is. In `Daemon` places are visited one by
one while files appear, vanish and move; `steady` is a history field of a scan,
the places nothing has happened to since it began. An entry that changed after
its directory was listed may be missed. A model has one child, `busy` says that
requests use it. `main` follows `runServer` through `Serve`, `Shutdown` (whose grace
period closes no connection), the parts of `Close` and the exit, which ends all
goroutines and no child.

### ChildProcess

A line of standard error is a log line, an out-of-memory line, or one too long for
`bufio.Scanner`. The kernel's pipe (`pipe`) and the scanner's buffer (`held`) are
kept apart, because `cmd.Wait` closes the pipe with what is in it while the buffer
is still read; `Publish` classifies the exit by what has been recorded (`buf`).
`heard` is a history variable: the out-of-memory line was recorded when `cmd.Wait`
returned. A health check is answered by whoever has the port.

### Ollama, Config

Each request goes through `Arrive`, `SetTTLMap` and `SetTTLInstance` (the two locks
of `SetModelTTL`), to an instance, then through the child's answer line by line. It
finds a resident (`Join`), joins the load under way (`JoinLoad`, `LoadReady`) or
starts one (`StartLoad`, then `Launch` or `LaunchFails`); loads are numbered, `err`
is their `req.err`, and a load is cancelled by an eviction (`EvictLoad`) or by the
watcher of its last caller (`AbandonLoad`). Each line brings a piece of text (a
member of `Chunks`) or none. `resp` is what the client has been sent: "ok" for a
status of 200, pieces, "final", or "error". `content` is `fullContent`, where an
answer that is not streamed is collected; `sent` is a history variable, the text the
child sent. Time is counted in an abstract smallest duration; `parseKeepAlive`
returns a set because converting a float that does not fit is up to the machine.
`Config`'s operators are compared in `MCOllama` with three statements of what they
are for: what can unload a model or change its TTL, any runtime override before any
of the file, and what an accepted configuration can never do to the command line.

## 3. Runs

| Run | Instance | Shows |
|---|---|---|
| `slot_gate` | 2 requests, 2 drainers, slots 0 (clamped to 1) | slot accounting, no lost wake-up, drains spare requests in flight, the idle timer is never forgotten, the process is owned, `SlotGate` implements `DrainGate`; cancelled waiters return, drains end, idle instances stop, unregistered processes exit |
| `registry_cap` | 2 models, 3 requests, cap 1 | the cap, nothing registered after `Close`, one load per model, every process accounted for; who may go without a slot or without an answer |
| `registry_evict` | 1 model, 2 requests (one with `keep_alive = 0`), scans and evictions | until `Close` requests end, a cancelled load that won is drained, an instance to be unloaded stops; who may go without an answer when models are evicted |
| `tuning_search` | 4 GGUF headers, every monotone machine over {-1, 0, 4, 63} | the search ends and is optimal, the ladder is right, probes do not overlap, a disconnect records no fallback |
| `tuning_cache` | 2 models, 2 loads, 2 machines, 2 disturbances | a cached configuration was measured here, what a reset has removed stays away, saved entries survive |
| `daemon` | 2 places, 1 change on the disk, timer and 1 client | whole scans evict only what is gone, the catalogue converges, the daemon exits and leaves no registered child |
| `child` | 2 callers of `Stop`, 3 lines, a pipe of 2 | out of memory is reported if it had been read when the child was reaped, and never by mistake; `Stop` ends the child |
| `ollama` | 2 requests, 2 loads, answers of up to 2 pieces out of 2 | one answer, through shared, failed and cancelled loads; the child's answer; the TTL that was set last |

Four runs expect a violation: each states a sentence of the documentation or an
expectation of a test, and TLC shows an execution of the code that breaks it.
`PROJECT.json` quotes them under `findings`.

| Run | What happens |
|---|---|
| `registry_ghost` | a request resolves a model, a scan removes it, the request loads and registers it. Later scans do not find it either: orphans are looked for in `s.models`, which has forgotten it |
| `rescan_truncated` | the client of `POST /v1/rescan` leaves during the walk; the part that was read is installed as the whole, and models whose files never moved are evicted |
| `tuning_context` | `defer cancel()` ends the context of the child that `tune` returns |
| `child_oom` | a child writes the out-of-memory line and exits with status 1; `cmd.Wait` returns, and closes the pipe, before `scanStderr` has read the line, and the exit is published as a crash, which ends tuning instead of lowering the offload. `TestRealHost_OOMClassification` passes as long as the reader is faster |

The models contain more behaviours that disagree with a sentence of the
repository, at least in its plain reading. They have no run of their own; the
properties name them as exceptions:

- `README.md:23-25` has requests "block on a `sync.Cond` until a slot frees up or the
  instance is draining". A drain sets `draining` without a broadcast
  (`supervisor.go:259`), so a sleeping request learns of it when a generation ends
  (`DrainWait`; `asleep` in `Registry`). `NoLostWakeup` therefore asks only for somebody
  who will wake it, and `RequestAnswered` that it gets on in the end;
- `README.md:59`: a reset "forces re-measurement of a model (`?model=ref`) or all models".
  A reset of all neither cancels nor awaits loads, so that one in flight stores what
  it measures all the same, and it ignores the error of `os.Remove`
  (`supervisor.go:1839-1846`), after which the next start reads the entries back.
  `ResetSticks` is about entries that were there and that left the disk;
- `CONTEXT.md:13`: "A Model tuned on one Fingerprint does not need retuning unless the
  hardware changes", and `host.go:100`: "Fingerprint returns a stable hardware
  identifier". One failure of `nvidia-smi` changes it for one call; at start that deletes
  the whole cache file, later an entry (`Fingerprint`, `Start`, `DropStale`).
  `SavedEntrySurvives` excepts such readings;
- `supervisor.go:907`: "Close stops all resident Instances supervised by the daemon". It
  does so of those that are registered. But it cancels no load, tells those who wait
  for a load that it is ready before the child is stopped, gives up after 10 s, and
  does not wait for instances that drain outside the registry: the process may exit
  first and leave such children. `ExitLeavesNoneRegistered` names what may be left.

Others have no such sentence:

- a timer callback that fired before a request came and went takes the new timer's
  `timerActive` for its own, and drains an instance whose idle time has just begun
  (`OnInstanceIdleTimeout`);
- a request that joined a load inherits the `context.Canceled` of its launcher, or of an
  eviction, and its handler returns without a word although its own client waits;
  `SilentOnlyIfCancelled` and `OneAnswer` say that nobody else goes without an answer;
- a request that joined a load and finds its instance already evicted uses the
  process without a slot; `SlotlessOnlyWhenClosing` says that this is the only case;
- every child killed by SIGKILL, a cancelled one included, counts as out of memory; and
  a line too long for `bufio.Scanner` ends the reading, after which the child blocks on
  a full pipe (`ScanLine`, `Write`) until it is stopped;
- a streamed answer that breaks off ends with `done: true` (`ReadBreaks`), and an error
  object inside the child's stream is skipped like any line without choices;
- of two overlapping `SetModelTTL` the instance may keep the older TTL (`raced`).

Bounds. In `SlotGate` one slot and two requests make a waiter behind a holder, and
two drainers let a stale callback or a fresh timer meet a drain; both can start
again, so that later rounds meet what earlier ones left. Its invariants and the
refinement are proved for any number of slots, requests and drainers. In `Registry`
three requests are a launcher, a caller that joins and the launcher of the model
that evicts them; two requests and one model are enough for a load that races an
eviction, and keep the liveness graph small. In `TuningCache` a second load is the
one that meets the first one's entry, and two disturbances let a crash follow a
change or a blind reading; a third adds no new pair. In `Daemon` two places are what
a rename and a walk cut in the middle need; the timer and one client overlap. There
is one model: the LRU cap acts on it when a model outside the instance settles
(`EvictLRU`). In `ChildProcess` three lines fill a pipe of two and leave one to
write. In `Ollama` two requests race in `SetModelTTL`, and a second load shows a TTL
outliving its instance; two different pieces can be lost, doubled or swapped. The
four headers of `MCTuning` are a file that declares nothing (2048 tokens, 100
layers), one shorter than every step, one on a step and one between two; the limits
are "does not fit", "fits without offload", a value inside small models and one
inside the 100-layer default. Runs without liveness (`registry_cap`, `tuning_cache`,
`ollama`) use symmetry over requests, models, loads or machines. Only `SlotGate`,
whose requests start again, is checked for deadlock: elsewhere a finite set of
requests or loads, a tuning run, a child or the daemon comes to its end.

Fairness. In `SlotGate` weak fairness on a goroutine's next step, on pending
timers and on the death of a killed process is what the Go scheduler and the
kernel give. A generation need not end: only `DrainCompletes` and
`UnregisteredProcessExits` assume that, in their own statements, because
`drainAndStop` has no time limit. A request whose client is gone or whose process
has exited does end, since the proxy's transport fails. In `Registry` launches
return (`WaitReady` has a 30 s deadline and tuning terminates, which
`tuning_search` checks) and requests in flight end. Disconnects, timeouts, exits,
scans, evictions and `Close` have no fairness. All this holds until `Close`: `runServer`
returns after it and the process exits with whatever goroutines are under way, so the
liveness properties of `Registry` promise nothing after it, and `Daemon` says what is
left. In `Daemon` the goroutines run, the
ticker ticks, loads and stops keep their time limits; generations may last for
ever, and only `CatalogueConverges` assumes otherwise, in its statement, since the
timer's goroutine waits for drains itself. In `ChildProcess` the goroutines run,
`WaitReady` and `Stop` expire, and a done context kills; the child does as it likes.

## 4. Proofs

Every invariant that a passing run checks is also a theorem, for arbitrary
constants; so is the refinement of `DrainGate`. Each inductive invariant was
checked by TLC on the instance of its run before it was proved.

The assumptions are named in the modules. `Slots` is an integer and `Callers` finite
(`SlotGate`); models and requests are finite sets, and the slots positive, as
`newResidentInstance` clamps them (`Registry`); GGUF fields are naturals, capacities
naturals or -1 (`Tuning`); a pipe holds at least one line (`ChildProcess`); the
target is in the catalogue under its four keys, and no piece of text is one of the
words that stand for a status (`Ollama`). The rest says that a stand-in for nil is
no member of the set it is added to, and that bounds are naturals. One assumption is
about the world: `RecognisedAssumption` (`Daemon`) says that `inspectFile`
recognises the first part of a model as that model; without it the evictions of a
scan can say nothing about files. `MCDaemon` evaluates it on its twelve kinds of
file.

`SlotGateProofs`. `TypeCorrect` by induction on its own. The other safety theorems
rest on `IInv`: slot accounting alone is not inductive, since a broadcast must not
lose a waiter (`WatchInv`: who sleeps has a watcher, who was woken without one sees a
done context), and a drain must have set `stopped` with nobody inside (`EndInv`).
`SlotAccountingHolds`, `NoLostWakeupHolds` and `DrainSparesInFlightHolds` follow.
`Implements` shows that each step is a step of `DrainGate` or a stutter;
`CapacityInv` links the clamped slot count to the gate's capacity. `ProcessOwnedHolds`
adds `OwnerInv`: a closed instance has a goroutine that will finish it, and a request
is refused only by a closed or dead instance or because of its own context.
`IdleHasWayOutHolds` adds `ArmedInv`, which links the runtime's timer to the field
`timerActive`: a timer that is armed for an open instance is known to it, or a drain
has been called already. Without it a timer could fire, find the field clear and
leave the instance with nothing pending.

`RegistryProofs`. The properties are proved from one invariant. `RequestInv` ties a
request's program counter to the load it launched; `LoadInv` says that `s.loading` holds
exactly the loads under way, each under its own model and none beside a resident, and
that whoever waits for a load or is counted by its monitor asked for the same model;
`InstanceInv`, that an instance that is no longer registered is closing, which is why
an instance without a slot (`SlotlessInv`) is; `ProcessInv`, that a process runs in its
launcher's hands or for an instance that is registered or has a goroutine on the
way to stop it; `CancelInv`, that a cancelled load was evicted or has lost a client, and
that whoever returned in silence shares its model with one that was; `EvictorInv`, that the
evictor awaits a load that there was. For
`ResidentCapHolds` the eviction has to find a victim: `VictimResident` shows, from the
finiteness of the sets, that at the cap a least recently used instance exists, and
that its removal makes room for one more.

`TuningProofs`. `Built` describes a ladder after some rounds of the loop; eight uses of
`ExtendBuilds` give `LadderDescendsHolds`. For `TunedBestHolds` the invariant says that
while a rung is bisected the true limit lies between `low - 1` and `high`, that `best`
is `low - 1` at the head of the loop, and that every earlier rung does not fit at all;
when the bounds meet, `best` is the limit. `TypeCorrect` uses the same invariant: that the
counters stay in their ranges, and that what is recorded is a rung of the ladder,
needs the loop bounds. `FallbackOnlyOnDeadlineHolds` needs only that `fallback` is entered
after the deadline; `ProbesDoNotOverlap` is inductive by itself.

`TuningCacheProofs`. `FlightInv` says who may hold `s.mu`, and that one load of a
model is in flight at a time; `EntryInv`, that an entry comes from a load of its
model that has ended (in memory it may be the one that is saving); `MeasureInv`,
that what a load knows of machine and file was true while it ran, from which
`CachedConfigMeasuredHereHolds` follows for entries in memory and in the file.
`ResetSticksHolds` needs `ResetInv`: the loads whose entries a reset of one model is
to erase have ended or are waited for, and those of a reset of all have ended, so
none can store after the deletion, and while the reset saves, its entry is gone from
memory. `SavedEntrySurvivesHolds` needs `LookInv` and `DurableInv`: an undisturbed
entry is current in memory as well, no load is about to drop it, and a save under
way has read the true machine, so that it writes the entry again.

`ChildProcessProofs`. Whatever is in a buffer was written (`LineInv`); what had been
recorded when the child was reaped stays so (`HeardInv`); when `done` is closed
`exitErr` is in place and agrees with the cause of the exit, and what `launchConfig`
returns is what was published (`ExitInv`, `ReadyInv`).

`OllamaProofs`. `WrittenInv` says for each place of a handler what it has written:
nothing before the child's answer, the status and the text so far while a stream is
read, nothing but the collected text otherwise, and at the end one of the three
answers. `LoadInv` ties each load to its launcher: one that ended with
`context.Canceled` was evicted, or its launcher's client is gone, also when it was
the last other caller whose watcher cancelled it; and neither fact is ever lost,
which is why a request that inherits it is excused for good. `OneAnswerHolds` and
`AnswerFaithfulHolds` follow. For `ResidentTTLAgreesHolds`, `SettingInv` covers the
moment between the two locks of `SetModelTTL`: the table already has the new TTL,
and the resident has it or is the one about to get it.

`DaemonProofs`. For `RescanOnlyEvictsOrphansHolds` the loop invariant of the walk (`Sound`):
a model at a place behind the walk, unchanged since the scan began, has been found;
at the end it is therefore no orphan, whatever catalogue another scan has put in the
meantime, and what is waited for was an orphan. For `ExitLeavesNoneRegisteredHolds`,
`CloseInv`: from the critical section of `Close` on nothing is registered, and each
instance it forced is still on its list.

Only model-checked: liveness, for which the prover has no rule for fairness here
(`CancelledWaiterReturns`, `DrainCompletes`, `IdleEventuallyStops`,
`UnregisteredProcessExits`, `RequestAnswered`, `EvictedLoadDies`,
`KeepAliveZeroUnloads`, `TuningTerminates`, `CatalogueConverges`, `ShutdownCompletes`,
`StopEndsChild`); what `Config`, `GGUF` and `Discovery` compute, which the `ASSUME`s of
`MCOllama` and `MCDaemon` evaluate on small sets; and the four violations.

## 5. Not modelled

Read-only endpoints (`health`, `tags`, `models`, `ps`, `show`, `version`, `GET
tuning`) change nothing. The `FakeHost` and the GGUF fixtures are for tests. The
reverse proxy of the OpenAI endpoints is `net/http`: its request is admitted and
released in `Registry`, its bytes are not modelled. Flag parsing, `inspect` and
`ConventionalModelDirs` are sequential text. Token counts, durations, VRAM and RAM
figures are data nobody decides by. Numbers of 2^31 and more (a block count that
does not fit an int) and the bytes of a GGUF file are beyond TLC. The composition of
`Daemon` with the inside of `Registry` (several models, coalesced loads and scans in
one state space) is too large to check; the two overlap in `evictByID` and `Close`,
which both model.

## 6. Plan

The model is complete up to section 5, and every safety property of the runs is
proved. What could be added are proofs of safety facts that the liveness
properties rest on:

1. `Registry`: an instance as a gate. That each instance of `Registry` implements
   `DrainGate`, as `SlotGate` does, would join the two layers by a theorem.
2. `Tuning`: a bound on the number of launches, the safety half of `TuningTerminates`
   (the interval `high - low` shrinks with every probe).
3. `Daemon`: that `models` always is what some scan found, the safety half of
   `CatalogueConverges`.
