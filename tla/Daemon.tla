------------------------------- MODULE Daemon -------------------------------
(***************************************************************************)
(* The life of the daemon: scans of the model directories, on the timer    *)
(* (startRescanTimer) and on request (handleV1Rescan), while files come    *)
(* and go; the eviction of orphans; the requests and loads that keep the   *)
(* HTTP server busy; and the way down: a signal, http.Server.Shutdown with *)
(* its grace period (internal/httpserve), Supervisor.Close with its time   *)
(* limits, and the exit of the process (cmd/llm-server/main.go).           *)
(*                                                                         *)
(* Registry has the races inside getOrLaunchInstance.  Here a model has    *)
(* one child at a time, known by where it stands, and a flag that says     *)
(* whether requests use it.                                                *)
(***************************************************************************)
EXTENDS Discovery, FiniteSets

CONSTANTS
  NumPlaces,  \* the paths under the scanned directories, numbered in the order of the walk
  Content,    \* the files that may be found there, by name
  Is,         \* the model each is the first or only part of, <<>> if of none
  Clients,    \* the requests for POST /v1/rescan
  MaxChanges  \* bound: changes on the disk

ASSUME PlacesAssumption == NumPlaces \in Nat \ {0}
ASSUME ChangesAssumption == MaxChanges \in Nat

\* The first part of a model is recognised as what it is.
ASSUME RecognisedAssumption ==
  \A f \in DOMAIN Content : Is[f] # <<>> => inspectFile(Content[f]) = Is[f]

Places == 1 .. NumPlaces
Timer == "timer"
Scanners == Clients \cup {Timer}
Files == DOMAIN Content
NoFile == "none"

\* inspectFile on each file: the ID of the model it yields, <<>> if it yields none.
Inspected == [f \in Files |-> inspectFile(Content[f])]
IDs == ({Is[f] : f \in Files} \cup {Inspected[f] : f \in Files}) \ {<<>>}

\* A catalogue says at which place each model is, 0 if it is nowhere.
Nothing == [id \in IDs |-> 0]

VARIABLES
  disk, changes,
  models,     \* s.models
  child,      \* the child process of each model
  busy,       \* the models whose child requests use
  scan,       \* each goroutine in Rescan
  gone,       \* the rescan requests whose client has left
  rescanCancelled, closed,  \* rescanCtx, s.closed
  main,       \* runServer, from Serve to its return
  toStop,     \* instancesToStop
  inFlight    \* the loads that Close waits for

diskVars == <<disk, changes>>
closeVars == <<rescanCancelled, closed, main, toStop, inFlight>>
vars == <<diskVars, models, child, busy, scan, gone, closeVars>>

\* A child is registered while "resident" or "draining"; a "victim" of the LRU
\* cap drains outside the registry; "stopping" is in stopInstance, called by a
\* drain, or by a load that found the supervisor closed; "forced" waits for Close.
Alive == {"loading", "resident", "draining", "victim", "stopping", "forced"}
Registered == {"resident", "draining"}

NoScan == [pc |-> "idle", at |-> 1, found |-> Nothing, steady |-> {}, cut |-> FALSE,
           orphans |-> {}, on |-> <<>>]

Catalogue(IDAt) ==
  [id \in IDs |->
     LET at == {p \in Places : disk[p] # NoFile /\ IDAt[disk[p]] = id} IN
     IF at = {} THEN 0 ELSE CHOOSE p \in at : \A q \in at : p <= q]

\* discoverModels on a disk at rest, as NewWithOpts runs it,
AllDiscovered == Catalogue(Inspected)

\* and what it ought to find, by what the files are.
View == Catalogue(Is)

\* Right after NewWithOpts and Listen.
Init ==
  /\ disk \in [Places -> Files \cup {NoFile}] /\ changes = 0
  /\ models = AllDiscovered
  /\ child = [id \in IDs |-> "none"] /\ busy = {}
  /\ scan = [s \in Scanners |-> NoScan] /\ gone = {}
  /\ rescanCancelled = FALSE /\ closed = FALSE
  /\ main = "serving" /\ toStop = {} /\ inFlight = {}

-----------------------------------------------------------------------------
(* The disk.                                                               *)

\* A file appears, disappears or is replaced: that place is no longer what a
\* scan under way may have listed.
Put(p, f) ==
  /\ changes < MaxChanges /\ f # disk[p] /\ main = "serving"
  /\ disk' = [disk EXCEPT ![p] = f] /\ changes' = changes + 1
  /\ scan' = [s \in Scanners |-> [scan[s] EXCEPT !.steady = @ \ {p}]]
  /\ UNCHANGED <<models, child, busy, gone, closeVars>>

\* A file is renamed.
Move(p, q) ==
  /\ changes < MaxChanges /\ main = "serving"
  /\ disk[p] # NoFile /\ disk[q] = NoFile
  /\ disk' = [disk EXCEPT ![p] = NoFile, ![q] = disk[p]] /\ changes' = changes + 1
  /\ scan' = [s \in Scanners |-> [scan[s] EXCEPT !.steady = @ \ {p, q}]]
  /\ UNCHANGED <<models, child, busy, gone, closeVars>>

-----------------------------------------------------------------------------
(* discoverModels and Rescan.                                              *)

\* What the walk makes of place p when it sees the file there.
Discovered(found, p) ==
  LET f == disk[p] IN
  IF f = NoFile THEN found
  ELSE [id \in IDs |-> IF id = Inspected[f] /\ found[id] = 0 THEN p ELSE found[id]]

CtxDone(s) == IF s = Timer THEN rescanCancelled ELSE s \in gone

BeginScan(s) ==
  /\ scan[s].pc = "idle" /\ ~closed
  /\ s # Timer => s \notin gone /\ main = "serving"
  /\ scan' = [scan EXCEPT ![s] = [NoScan EXCEPT !.pc = "walk", !.steady = Places]]
  /\ UNCHANGED <<diskVars, models, child, busy, gone, closeVars>>

\* One entry of the walk.  The directory was listed earlier: an entry that
\* changed since the scan began may be missing from the list.
Visit(s) ==
  LET p == scan[s].at
      next == IF p = NumPlaces THEN [scan[s] EXCEPT !.pc = "scanned", !.at = 1]
                               ELSE [scan[s] EXCEPT !.at = p + 1]
  IN
  /\ scan[s].pc = "walk" /\ ~CtxDone(s)
  /\ \/ scan' = [scan EXCEPT ![s] = [next EXCEPT !.found = Discovered(@, p)]]
     \/ p \notin scan[s].steady /\ scan' = [scan EXCEPT ![s] = next]
  /\ UNCHANGED <<diskVars, models, child, busy, gone, closeVars>>

\* A walk whose context is done stops at its next entry, and discoverModels
\* returns what it has, without an error.
WalkCut(s) ==
  /\ scan[s].pc = "walk" /\ CtxDone(s)
  /\ scan' = [scan EXCEPT ![s].pc = "scanned", ![s].at = 1, ![s].cut = TRUE]
  /\ UNCHANGED <<diskVars, models, child, busy, gone, closeVars>>

MutOrphans(found) == {id \in IDs : models[id] # found[id]}

Orphans(found) == {id \in IDs : models[id] # 0 /\ found[id] = 0}

MutInstall(s) ==
  /\ scan[s].pc = "scanned"
  /\ IF closed THEN scan' = [scan EXCEPT ![s] = NoScan] /\ UNCHANGED models
     ELSE /\ scan' = [scan EXCEPT ![s].pc = "evict", ![s].found = Nothing]
          /\ models' = [id \in IDs |-> IF scan[s].found[id] = 0 THEN models[id]
                                       ELSE scan[s].found[id]]
  /\ UNCHANGED <<diskVars, child, busy, gone, closeVars>>

Install(s) ==
  /\ scan[s].pc = "scanned"
  /\ IF closed THEN scan' = [scan EXCEPT ![s] = NoScan] /\ UNCHANGED models
     ELSE /\ scan' = [scan EXCEPT ![s].pc = "evict", ![s].found = Nothing,
                                  ![s].orphans = Orphans(scan[s].found)]
          /\ models' = scan[s].found
  /\ UNCHANGED <<diskVars, child, busy, gone, closeVars>>

\* evictByID on the next orphan: drain the instance that is resident, cancel
\* and await the load that is under way, or neither.
EvictOrphan(s, id) ==
  /\ scan[s].pc = "evict" /\ scan[s].on = <<>> /\ id \in scan[s].orphans
  /\ child' = IF child[id] = "resident" THEN [child EXCEPT ![id] = "draining"] ELSE child
  /\ scan' = [scan EXCEPT ![s].orphans = @ \ {id},
                          ![s].on = IF child[id] \in Registered \cup {"loading"}
                                      THEN id ELSE <<>>]
  /\ UNCHANGED <<diskVars, models, busy, gone, closeVars>>

\* The awaited load is ready: what it left resident is drained.
OrphanLoaded(s) ==
  LET id == scan[s].on IN
  /\ scan[s].pc = "evict" /\ id # <<>> /\ child[id] = "resident"
  /\ child' = [child EXCEPT ![id] = "draining"]
  /\ UNCHANGED <<diskVars, models, busy, scan, gone, closeVars>>

\* The wait for a load, unlike that for a drain, ends with the context.
OrphanGivenUp(s) ==
  LET id == scan[s].on IN
  /\ scan[s].pc = "evict" /\ id # <<>> /\ child[id] = "loading" /\ CtxDone(s)
  /\ scan' = [scan EXCEPT ![s].on = <<>>]
  /\ UNCHANGED <<diskVars, models, child, busy, gone, closeVars>>

RescanReturns(s) ==
  /\ scan[s].pc = "evict" /\ scan[s].on = <<>> /\ scan[s].orphans = {}
  /\ scan' = [scan EXCEPT ![s] = NoScan]
  /\ gone' = IF s = Timer THEN gone ELSE gone \cup {s}
  /\ UNCHANGED <<diskVars, models, child, busy, closeVars>>

ClientLeaves(s) ==
  /\ s \in Clients \ gone /\ scan[s].pc # "idle"
  /\ gone' = gone \cup {s}
  /\ UNCHANGED <<diskVars, models, child, busy, scan, closeVars>>

\* The goroutines that waited for these children go on.
Released(ids) ==
  scan' = [s \in Scanners |-> IF scan[s].on \in ids THEN [scan[s] EXCEPT !.on = <<>>] ELSE scan[s]]

\* The timer goroutine leaves when it finds rescanCtx done between two scans;
\* a tick that is due as well may still win.
TimerExits ==
  /\ scan[Timer].pc = "idle" /\ rescanCancelled
  /\ scan' = [scan EXCEPT ![Timer].pc = "exited"]
  /\ UNCHANGED <<diskVars, models, child, busy, gone, closeVars>>

-----------------------------------------------------------------------------
(* Requests, loads and children, as long as the process runs.              *)

Running == main # "exited"

StartLoad(id) ==
  /\ main = "serving" /\ models[id] # 0 /\ child[id] = "none"
  /\ child' = [child EXCEPT ![id] = "loading"]
  /\ UNCHANGED <<diskVars, models, busy, scan, gone, closeVars>>

\* The load settles.  The new instance is registered, or, if the supervisor is
\* closed or the client that launched it is gone, its child is stopped after
\* everybody was told that the load is ready.
LoadSettles(id) ==
  /\ Running /\ child[id] = "loading"
  /\ \/ /\ child' = [child EXCEPT ![id] = "stopping"]
        /\ Released({id})
        /\ inFlight' = inFlight \ {id}
        /\ UNCHANGED busy
     \/ /\ ~closed
        /\ child' = [child EXCEPT ![id] = "resident"]
        /\ busy' = busy \cup {id}
        /\ UNCHANGED <<scan, inFlight>>
  /\ UNCHANGED <<diskVars, models, gone, rescanCancelled, closed, main, toStop>>

\* The load of a model that is not among these settles at the cap, and
\* evictLRULocked takes id's instance: it leaves the registry and drains in a
\* goroutine of its own.  (The cap among the models themselves: Registry.)
EvictLRU(id) ==
  /\ Running /\ ~closed /\ child[id] \in Registered
  /\ child' = [child EXCEPT ![id] = "victim"]
  /\ UNCHANGED <<diskVars, models, busy, scan, gone, closeVars>>

LoadFails(id) ==
  /\ Running /\ child[id] = "loading"
  /\ child' = [child EXCEPT ![id] = "none"]
  /\ Released({id})
  /\ inFlight' = inFlight \ {id}
  /\ UNCHANGED <<diskVars, models, busy, gone, rescanCancelled, closed, main, toStop>>

RequestBegins(id) ==
  /\ main = "serving" /\ child[id] = "resident" /\ id \notin busy
  /\ busy' = busy \cup {id}
  /\ UNCHANGED <<diskVars, models, child, scan, gone, closeVars>>

RequestEnds(id) ==
  /\ Running /\ id \in busy
  /\ busy' = busy \ {id}
  /\ UNCHANGED <<diskVars, models, child, scan, gone, closeVars>>

\* A drain that waited for the last request, or an idle timer: the instance is
\* unregistered and stopInstance is called.
Drained(id) ==
  /\ Running /\ id \notin busy /\ child[id] \in {"resident", "draining", "victim"}
  /\ child' = [child EXCEPT ![id] = "stopping"]
  /\ UNCHANGED <<diskVars, models, busy, scan, gone, closeVars>>

\* stopInstance returns: the child has left, or was killed at its time limit.
Stopped(id) ==
  /\ Running /\ child[id] = "stopping"
  /\ child' = [child EXCEPT ![id] = "none"]
  /\ busy' = busy \ {id}
  /\ Released({id})
  /\ UNCHANGED <<diskVars, models, gone, closeVars>>

-----------------------------------------------------------------------------
(* Serve and Shutdown, then Close, then the end of the process.            *)

\* The connections that Shutdown waits for.
Connected ==
  \/ busy # {}
  \/ \E id \in IDs : child[id] = "loading"
  \/ \E s \in Clients : scan[s].pc # "idle"

Signal ==
  /\ main = "serving" /\ main' = "shutdown"
  /\ UNCHANGED <<diskVars, models, child, busy, scan, gone, rescanCancelled, closed,
                 toStop, inFlight>>

\* Every connection is idle, or the grace period is over, which closes none.
\* The deferred Close begins with stopRescanTimer.
ServeReturns(graceOver) ==
  /\ main = "shutdown" /\ (graceOver \/ ~Connected)
  /\ main' = "close" /\ rescanCancelled' = TRUE
  /\ UNCHANGED <<diskVars, models, child, busy, scan, gone, closed, toStop, inFlight>>

MutCloseMarks ==
  LET now == {id \in IDs : child[id] \in Registered} IN
  /\ main = "close" /\ main' = "awaitRescan"
  /\ toStop' = now /\ inFlight' = {id \in IDs : child[id] = "loading"}
  /\ child' = [id \in IDs |-> IF id \in now THEN "forced" ELSE child[id]]
  /\ Released(now)
  /\ UNCHANGED <<diskVars, models, busy, gone, rescanCancelled, closed>>

\* Under s.mu: the registry is emptied and its instances marked stopped, which
\* ends the drains that wait on them.
CloseMarks ==
  LET now == {id \in IDs : child[id] \in Registered} IN
  /\ main = "close" /\ main' = "awaitRescan"
  /\ closed' = TRUE
  /\ toStop' = now /\ inFlight' = {id \in IDs : child[id] = "loading"}
  /\ child' = [id \in IDs |-> IF id \in now THEN "forced" ELSE child[id]]
  /\ Released(now)
  /\ UNCHANGED <<diskVars, models, busy, gone, rescanCancelled>>

MutRescanAwaited ==
  /\ main = "awaitRescan" /\ scan[Timer].pc = "exited"
  /\ main' = "stop"
  /\ UNCHANGED <<diskVars, models, child, busy, scan, gone, rescanCancelled, closed,
                 toStop, inFlight>>

\* The timer goroutine has left, or ten seconds have passed.
RescanAwaited ==
  /\ main = "awaitRescan"
  /\ main' = "stop"
  /\ UNCHANGED <<diskVars, models, child, busy, scan, gone, rescanCancelled, closed,
                 toStop, inFlight>>

CloseStops(id) ==
  /\ main = "stop" /\ id \in toStop
  /\ toStop' = toStop \ {id}
  /\ child' = [child EXCEPT ![id] = "none"] /\ busy' = busy \ {id}
  /\ UNCHANGED <<diskVars, models, scan, gone, rescanCancelled, closed, main, inFlight>>

\* A load that is not ready within ten seconds is left to itself.
CloseGivesUpLoad(id) ==
  /\ main = "stop" /\ toStop = {} /\ id \in inFlight
  /\ inFlight' = inFlight \ {id}
  /\ UNCHANGED <<diskVars, models, child, busy, scan, gone, rescanCancelled, closed,
                 main, toStop>>

\* The process ends with every goroutine in it; children are not its threads.
Exit ==
  /\ main = "stop" /\ toStop = {} /\ inFlight = {}
  /\ main' = "exited"
  /\ models' = Nothing /\ busy' = {}
  /\ scan' = [s \in Scanners |-> NoScan] /\ gone' = Clients
  /\ UNCHANGED <<diskVars, child, rescanCancelled, closed, toStop, inFlight>>

RescanStep(s) ==
  \/ Visit(s) \/ WalkCut(s) \/ Install(s) \/ RescanReturns(s)
  \/ (\E id \in IDs : EvictOrphan(s, id)) \/ OrphanLoaded(s) \/ OrphanGivenUp(s)

\* What the goroutines that carry a load, a drain or a stop do.
ChildStep(id) ==
  \/ LoadSettles(id) \/ LoadFails(id) \/ Stopped(id)
  \/ child[id] \in {"draining", "victim"} /\ Drained(id)

TimerStep == Running /\ (BeginScan(Timer) \/ RescanStep(Timer) \/ TimerExits)
ClientStep(s) == Running /\ RescanStep(s)

CloseStep ==
  \/ \E b \in BOOLEAN : ServeReturns(b)
  \/ CloseMarks \/ RescanAwaited \/ Exit
  \/ \E id \in IDs : CloseStops(id) \/ CloseGivesUpLoad(id)

Next ==
  \/ \E p \in Places, f \in Files \cup {NoFile} : Put(p, f)
  \/ \E p, q \in Places : Move(p, q)
  \/ TimerStep
  \/ \E s \in Clients : BeginScan(s) \/ ClientStep(s) \/ ClientLeaves(s)
  \/ \E id \in IDs : StartLoad(id) \/ EvictLRU(id) \/ RequestBegins(id) \/ RequestEnds(id)
                     \/ Drained(id) \/ ChildStep(id)
  \/ Signal \/ CloseStep

Spec == Init /\ [][Next]_vars

\* The goroutines of the daemon run, its timers tick, a load ends within its
\* limits and so does stopInstance.  A generation may go on for ever, a client
\* may stay, and nobody need send a signal.
Fairness ==
  /\ WF_vars(TimerStep) /\ \A s \in Clients : WF_vars(ClientStep(s))
  /\ \A id \in IDs : WF_vars(ChildStep(id))
  /\ WF_vars(CloseStep)

FairSpec == Spec /\ Fairness

-----------------------------------------------------------------------------
(* Properties.                                                             *)

\* A rescan takes the instances of those models only that are really gone: if a
\* model's file stayed where it was from the first to the last step of a scan
\* that ran to its end, its instance is not evicted, whatever else happened on
\* the disk and whatever another scan installed in the meantime.
RescanOnlyEvictsOrphans ==
  \A s \in Scanners : scan[s].pc = "evict" /\ ~scan[s].cut =>
    \A p \in scan[s].steady :
      disk[p] # NoFile /\ Is[disk[p]] # <<>> =>
        Is[disk[p]] \notin scan[s].orphans \cup {scan[s].on}

\* "Rescan ... never restarts resident Instances" (and ADR-0001, decision 3,
\* evicts for a model that is deleted from disk): the same, of every scan.
RescanKeepsPresentModels ==
  \A s \in Scanners : scan[s].pc = "evict" =>
    \A p \in scan[s].steady :
      disk[p] # NoFile /\ Is[disk[p]] # <<>> =>
        Is[disk[p]] \notin scan[s].orphans \cup {scan[s].on}

\* Once the disk is left alone the catalogue comes to agree with it, without a
\* restart, for good and up to shutdown: a newly dropped model is served, from
\* the first of its files, and a deleted one is not.  Scans that overlap, that
\* a client cuts short or that install an older view only delay it.  It needs
\* generations to end: the timer's goroutine itself drains the orphans.
CatalogueConverges ==
  (\A id \in IDs : []<>(id \notin busy)) =>
    <>[](main # "serving" \/ models = View)

\* After a signal the daemon exits, even if a generation, a client or a scan
\* that waits for them never ends.
ShutdownCompletes == main = "shutdown" ~> main = "exited"

\* What the process leaves behind when it exits is only what Close does not
\* track: an instance that was unregistered and is being drained or stopped by
\* a goroutine that died with the process, or a load that outlasted its limit.
\* No registered instance survives, nor one that Close was to stop.
ExitLeavesNoneRegistered ==
  main = "exited" => \A id \in IDs : child[id] \notin Registered \cup {"forced"}
=============================================================================
