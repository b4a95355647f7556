---------------------------- MODULE DaemonProofs ----------------------------
(***************************************************************************)
(* What TLAPS proves of Daemon, for any number of places, files, models    *)
(* and rescans: a scan that runs to its end evicts nothing that stayed     *)
(* where it was, and the process leaves no registered instance behind.     *)
(*                                                                         *)
(* The first is the loop invariant of the walk: each place behind it that  *)
(* has not changed since the scan began is accounted for in what it has    *)
(* found.  The second follows the children from CloseMarks on: none is     *)
(* registered any more, and those it forced are the ones still to stop.    *)
(***************************************************************************)
EXTENDS Daemon, TLAPS

ScanPlaces == {"idle", "walk", "scanned", "evict", "exited"}

ScanRecords ==
  [pc : ScanPlaces, at : Places, found : [IDs -> Nat], steady : SUBSET Places,
   cut : BOOLEAN, orphans : SUBSET IDs, on : IDs \cup {<<>>}]

MainPlaces == {"serving", "shutdown", "close", "awaitRescan", "stop", "exited"}

TypeInv ==
  /\ disk \in [Places -> Files \cup {NoFile}]
  /\ child \in [IDs -> Alive \cup {"none"}]
  /\ scan \in [Scanners -> ScanRecords]
  /\ main \in MainPlaces

\* There is a model at place p.
IsModel(p) == disk[p] # NoFile /\ Is[disk[p]] # <<>>

\* What a scan that is not cut short has seen, or has left to evict.
Sound(r) ==
  /\ r.pc # "evict" => r.on = <<>>
  /\ ~r.cut /\ r.pc \in {"walk", "scanned"} =>
       \A p \in r.steady :
         IsModel(p) /\ (r.pc = "walk" => p < r.at) => r.found[Is[disk[p]]] # 0
  /\ ~r.cut /\ r.pc = "evict" =>
       \A p \in r.steady :
         IsModel(p) => Is[disk[p]] \notin r.orphans \cup {r.on}

ScanInv == \A s \in Scanners : Sound(scan[s])

Late == main \in {"awaitRescan", "stop", "exited"}

\* Before CloseMarks no child is forced, and after it none is registered.
CloseInv ==
  /\ ~Late => \A id \in IDs : child[id] # "forced"
  /\ Late => /\ closed
             /\ \A id \in IDs : /\ child[id] \notin Registered
                                /\ child[id] = "forced" => id \in toStop
  /\ main = "exited" => toStop = {}

Inv == TypeInv /\ ScanInv /\ CloseInv

-----------------------------------------------------------------------------
(* Scans.                                                                  *)

\* A model on the disk is one of the models, recognised by its file.
LEMMA ModelInspected ==
  ASSUME TypeInv, NEW p \in Places, IsModel(p)
  PROVE  /\ disk[p] \in Files /\ Is[disk[p]] \in IDs
         /\ Inspected[disk[p]] = Is[disk[p]]
<1>1. disk[p] \in Files /\ Is[disk[p]] # <<>>
  BY DEF TypeInv, IsModel
<1> QED
  BY <1>1, RecognisedAssumption DEF Files, IDs, Inspected

\* A scan that has not begun.
LEMMA NoScanSound == NoScan \in ScanRecords /\ NoScan.pc = "idle" /\ Sound(NoScan)
<1>1. Nothing \in [IDs -> Nat] /\ 1 \in Places
  BY PlacesAssumption DEF Nothing, Places
<1>2. NoScan \in ScanRecords
  BY <1>1 DEF NoScan, ScanRecords, ScanPlaces
<1>3. NoScan.pc = "idle" /\ NoScan.on = <<>>
  BY DEF NoScan
<1> QED
  BY <1>2, <1>3 DEF Sound

\* What is said of a scan depends on the disk only.
LEMMA SoundStable ==
  ASSUME NEW r, Sound(r), UNCHANGED disk
  PROVE  Sound(r)'
BY DEF Sound, IsModel

\* One scan goes on, the disk and the others stay.
LEMMA OneScan ==
  ASSUME scan \in [Scanners -> ScanRecords], ScanInv, UNCHANGED disk,
         NEW s \in Scanners, NEW r \in ScanRecords, Sound(r),
         scan' = [scan EXCEPT ![s] = r]
  PROVE  scan' \in [Scanners -> ScanRecords] /\ ScanInv'
<1>1. scan' \in [Scanners -> ScanRecords]
  OBVIOUS
<1>2. \A t \in Scanners : scan'[t] = IF t = s THEN r ELSE scan[t]
  OBVIOUS
<1>3. \A t \in Scanners : Sound(scan'[t])
  BY <1>2 DEF ScanInv
<1>4. ASSUME NEW t \in Scanners PROVE Sound(scan[t])'
  <2>1. PICK x : x = scan'[t] /\ Sound(x)
    BY <1>3
  <2>2. Sound(x)'
    BY <2>1, SoundStable
  <2> QED
    BY <2>1, <2>2 DEF Sound, IsModel
<1> QED
  BY <1>1, <1>4 DEF ScanInv

\* The waits for some children end.
LEMMA ReleasedScans ==
  ASSUME scan \in [Scanners -> ScanRecords], ScanInv, UNCHANGED disk,
         NEW ids, Released(ids)
  PROVE  scan' \in [Scanners -> ScanRecords] /\ ScanInv'
<1>1. ASSUME NEW t \in Scanners
      PROVE  /\ scan'[t] \in {scan[t], [scan[t] EXCEPT !.on = <<>>]}
             /\ scan'[t] \in ScanRecords /\ Sound(scan[t])'
  <2>1. scan[t] \in ScanRecords /\ Sound(scan[t])
    BY DEF ScanInv
  <2>2. scan'[t] \in {scan[t], [scan[t] EXCEPT !.on = <<>>]}
    BY DEF Released
  <2>3. CASE scan'[t] = scan[t]
    BY <2>1, <2>3 DEF Sound, IsModel
  <2>4. CASE scan'[t] = [scan[t] EXCEPT !.on = <<>>]
    <3>1. [scan[t] EXCEPT !.on = <<>>] \in ScanRecords
      BY <2>1 DEF ScanRecords
    <3>2. /\ scan'[t].on = <<>> /\ scan'[t].pc = scan[t].pc
          /\ scan'[t].cut = scan[t].cut /\ scan'[t].steady = scan[t].steady
          /\ scan'[t].found = scan[t].found /\ scan'[t].at = scan[t].at
          /\ scan'[t].orphans = scan[t].orphans
      BY <2>1, <2>4 DEF ScanRecords
    <3> QED
      BY <2>1, <2>4, <3>1, <3>2 DEF Sound, IsModel
  <2> QED
    BY <2>2, <2>3, <2>4, <2>1
<1>2. scan' \in [Scanners -> ScanRecords]
  BY <1>1 DEF Released
<1> QED
  BY <1>1, <1>2 DEF ScanInv

\* Some places change, and are no longer what a scan may rely on.
LEMMA DiskChanges ==
  ASSUME scan \in [Scanners -> ScanRecords], ScanInv, NEW P \in SUBSET Places,
         \A p \in Places \ P : disk'[p] = disk[p],
         scan' = [s \in Scanners |-> [scan[s] EXCEPT !.steady = @ \ P]]
  PROVE  scan' \in [Scanners -> ScanRecords] /\ ScanInv'
<1>1. ASSUME NEW t \in Scanners
      PROVE  scan'[t] \in ScanRecords /\ Sound(scan[t])'
  <2>1. scan[t] \in ScanRecords /\ Sound(scan[t])
    BY DEF ScanInv
  <2>2. scan'[t] = [scan[t] EXCEPT !.steady = scan[t].steady \ P]
    OBVIOUS
  <2>3. scan[t].steady \in SUBSET Places
    BY <2>1 DEF ScanRecords
  <2>4. [scan[t] EXCEPT !.steady = scan[t].steady \ P] \in ScanRecords
    BY <2>1, <2>3 DEF ScanRecords
  <2>5. /\ scan'[t].on = scan[t].on /\ scan'[t].pc = scan[t].pc
        /\ scan'[t].cut = scan[t].cut /\ scan'[t].steady = scan[t].steady \ P
        /\ scan'[t].found = scan[t].found /\ scan'[t].at = scan[t].at
        /\ scan'[t].orphans = scan[t].orphans
    BY <2>1, <2>2 DEF ScanRecords
  <2>6. \A p \in scan'[t].steady : p \in scan[t].steady /\ disk'[p] = disk[p]
    BY <2>3, <2>5
  <2> QED
    BY <2>1, <2>2, <2>4, <2>5, <2>6 DEF Sound, IsModel
<1>2. scan' \in [Scanners -> ScanRecords]
  BY <1>1
<1> QED
  BY <1>1, <1>2 DEF ScanInv

-----------------------------------------------------------------------------
(* The steps of Rescan.                                                    *)

ScanOK == scan \in [Scanners -> ScanRecords] /\ ScanInv

\* BeginScan: every place is steady, none has been walked.
LEMMA BeginScanStep ==
  ASSUME TypeInv, ScanOK, NEW s \in Scanners, BeginScan(s)
  PROVE  ScanOK'
<1> DEFINE r == [NoScan EXCEPT !.pc = "walk", !.steady = Places]
<1>1. r \in ScanRecords
  BY NoScanSound DEF ScanRecords, ScanPlaces
<1>2. r.pc = "walk" /\ r.at = 1 /\ r.on = <<>> /\ r.steady = Places
  BY DEF NoScan
<1>3. \A p \in Places : ~(p < r.at)
  BY <1>2 DEF Places
<1>4. Sound(r)
  BY <1>2, <1>3 DEF Sound
<1>5. scan' = [scan EXCEPT ![s] = r] /\ UNCHANGED disk
  BY DEF BeginScan, diskVars
<1> HIDE DEF r
<1> QED
  BY <1>1, <1>4, <1>5, OneScan DEF ScanOK

\* What the walk has found it keeps, and a model at the place it sees is found.
LEMMA DiscoveredFinds ==
  ASSUME TypeInv, NEW found \in [IDs -> Nat], NEW p \in Places
  PROVE  /\ Discovered(found, p) \in [IDs -> Nat]
         /\ \A id \in IDs : found[id] # 0 => Discovered(found, p)[id] # 0
         /\ IsModel(p) => Discovered(found, p)[Is[disk[p]]] # 0
<1>1. p \in Nat /\ p # 0
  BY PlacesAssumption DEF Places
<1>2. CASE disk[p] = NoFile
  BY <1>2 DEF Discovered, IsModel
<1>3. CASE disk[p] # NoFile
  <2>1. Discovered(found, p) =
          [id \in IDs |-> IF id = Inspected[disk[p]] /\ found[id] = 0
                            THEN p ELSE found[id]]
    BY <1>3 DEF Discovered
  <2>2. Discovered(found, p) \in [IDs -> Nat]
    BY <1>1, <2>1
  <2>3. \A id \in IDs : found[id] # 0 => Discovered(found, p)[id] # 0
    BY <2>1
  <2>4. IsModel(p) => Discovered(found, p)[Is[disk[p]]] # 0
    BY <1>1, <2>1, ModelInspected
  <2> QED
    BY <2>2, <2>3, <2>4
<1> QED
  BY <1>2, <1>3

\* Visit: the place is seen, or has changed.
LEMMA VisitStep ==
  ASSUME TypeInv, ScanOK, NEW s \in Scanners, Visit(s)
  PROVE  ScanOK'
<1> DEFINE o == scan[s]
           p == o.at
           next == IF p = NumPlaces THEN [o EXCEPT !.pc = "scanned", !.at = 1]
                                    ELSE [o EXCEPT !.at = p + 1]
           full == [next EXCEPT !.found = Discovered(o.found, p)]
<1>1. o \in ScanRecords /\ Sound(o) /\ o.pc = "walk" /\ UNCHANGED disk
  BY DEF ScanOK, ScanInv, Visit, diskVars
<1>2. p \in Places /\ p \in Nat /\ NumPlaces \in Nat /\ p >= 1 /\ p <= NumPlaces
      /\ o.found \in [IDs -> Nat] /\ o.steady \in SUBSET Places
  BY <1>1, PlacesAssumption DEF ScanRecords, Places
<1>3. next \in ScanRecords
  <2>1. CASE p = NumPlaces
    <3>1. 1 \in Places
      BY PlacesAssumption DEF Places
    <3> QED
      BY <1>1, <2>1, <3>1 DEF ScanRecords, ScanPlaces
  <2>2. CASE p # NumPlaces
    <3>1. p + 1 \in Places
      BY <1>2, <2>2 DEF Places
    <3> QED
      BY <1>1, <2>2, <3>1 DEF ScanRecords
  <2> QED
    BY <2>1, <2>2
<1>4. /\ next.pc \in {"walk", "scanned"} /\ next.on = o.on /\ next.cut = o.cut
      /\ next.steady = o.steady /\ next.found = o.found
      /\ next.orphans = o.orphans
      /\ next.pc = "walk" => next.at = p + 1
  BY <1>1 DEF ScanRecords
<1>5. full \in ScanRecords
  BY <1>2, <1>3, DiscoveredFinds DEF ScanRecords
<1>6. /\ full.pc = next.pc /\ full.on = next.on /\ full.cut = next.cut
      /\ full.steady = next.steady /\ full.at = next.at
      /\ full.found = Discovered(o.found, p)
  BY <1>3 DEF ScanRecords
<1>7. \A q \in o.steady : (next.pc = "walk" => q < next.at) => q < p \/ q = p
      \/ next.pc # "walk"
  BY <1>2, <1>4 DEF Places
<1>8. \A q \in o.steady : next.pc # "walk" => q < p \/ q = p
  BY <1>2, <1>1 DEF ScanRecords, Places
<1>9. \A q \in o.steady : ~o.cut /\ IsModel(q) /\ q < p =>
        o.found[Is[disk[q]]] # 0 /\ Is[disk[q]] \in IDs
  BY <1>1, <1>2, ModelInspected DEF Sound
<1>10. o.on = <<>>
  BY <1>1 DEF Sound
<1>11. Sound(full)
  <2>1. full.pc # "evict" /\ full.on = <<>>
    BY <1>4, <1>6, <1>10
  <2>2. ASSUME ~full.cut, NEW q \in full.steady, IsModel(q),
               full.pc = "walk" => q < full.at
        PROVE  full.found[Is[disk[q]]] # 0
    <3>1. q \in o.steady /\ ~o.cut /\ (q < p \/ q = p)
      BY <2>2, <1>4, <1>6, <1>7, <1>8
    <3>2. CASE q = p
      BY <3>2, <2>2, <1>2, <1>6, DiscoveredFinds
    <3>3. CASE q < p
      BY <3>1, <3>3, <2>2, <1>2, <1>6, <1>9, DiscoveredFinds
    <3> QED
      BY <3>1, <3>2, <3>3
  <2> QED
    BY <2>1, <2>2 DEF Sound
<1>12. p \notin o.steady => Sound(next)
  <2> SUFFICES ASSUME p \notin o.steady PROVE Sound(next)
    OBVIOUS
  <2>1. next.pc # "evict" /\ next.on = <<>>
    BY <1>4, <1>10
  <2>2. ASSUME ~next.cut, NEW q \in next.steady, IsModel(q),
               next.pc = "walk" => q < next.at
        PROVE  next.found[Is[disk[q]]] # 0
    <3>1. q \in o.steady /\ ~o.cut /\ q < p
      BY <2>2, <1>4, <1>7, <1>8
    <3> QED
      BY <3>1, <2>2, <1>4, <1>9
  <2> QED
    BY <2>1, <2>2 DEF Sound
<1>13. \/ scan' = [scan EXCEPT ![s] = full]
       \/ p \notin o.steady /\ scan' = [scan EXCEPT ![s] = next]
  <2>1. full = [next EXCEPT !.found = Discovered(next.found, p)]
    BY <1>4
  <2>2. full = [next EXCEPT !.found = Discovered(@, p)]
    BY <2>1, <1>3 DEF ScanRecords
  <2> QED
    BY <2>2 DEF Visit
<1> HIDE DEF next, full
<1> QED
  BY <1>1, <1>3, <1>5, <1>11, <1>12, <1>13, OneScan DEF ScanOK

\* WalkCut: nothing is claimed of a scan that was cut.
LEMMA WalkCutStep ==
  ASSUME TypeInv, ScanOK, NEW s \in Scanners, WalkCut(s)
  PROVE  ScanOK'
<1> DEFINE r == [scan[s] EXCEPT !.pc = "scanned", !.at = 1, !.cut = TRUE]
<1>1. scan[s] \in ScanRecords /\ Sound(scan[s]) /\ scan[s].pc = "walk"
      /\ UNCHANGED disk
  BY DEF ScanOK, ScanInv, WalkCut, diskVars
<1>2. r \in ScanRecords
  <2>1. 1 \in Places
    BY PlacesAssumption DEF Places
  <2> QED
    BY <1>1, <2>1 DEF ScanRecords, ScanPlaces
<1>3. r.pc = "scanned" /\ r.cut /\ r.on = scan[s].on
  BY <1>1 DEF ScanRecords
<1>4. Sound(r)
  BY <1>1, <1>3 DEF Sound
<1>5. scan' = [scan EXCEPT ![s] = r]
  BY <1>1 DEF WalkCut, ScanOK, ScanRecords
<1> HIDE DEF r
<1> QED
  BY <1>1, <1>2, <1>4, <1>5, OneScan DEF ScanOK

\* Install: an orphan is a model that the walk did not find.
LEMMA InstallStep ==
  ASSUME TypeInv, ScanOK, NEW s \in Scanners, Install(s)
  PROVE  ScanOK'
<1> DEFINE r == [scan[s] EXCEPT !.pc = "evict", !.found = Nothing,
                                !.orphans = Orphans(scan[s].found)]
<1>1. scan[s] \in ScanRecords /\ Sound(scan[s]) /\ scan[s].pc = "scanned"
      /\ UNCHANGED disk
  BY DEF ScanOK, ScanInv, Install, diskVars
<1>2. CASE closed
  <2>1. scan' = [scan EXCEPT ![s] = NoScan]
    BY <1>2 DEF Install
  <2> QED
    BY <1>1, <2>1, NoScanSound, OneScan DEF ScanOK
<1>3. CASE ~closed
  <2>2. Orphans(scan[s].found) \in SUBSET IDs /\ Nothing \in [IDs -> Nat]
    BY DEF Orphans, Nothing
  <2>3. r \in ScanRecords
    BY <1>1, <2>2 DEF ScanRecords, ScanPlaces
  <2>4. /\ r.pc = "evict" /\ r.cut = scan[s].cut /\ r.on = scan[s].on
        /\ r.steady = scan[s].steady /\ r.orphans = Orphans(scan[s].found)
    BY <1>1 DEF ScanRecords
  <2>5. r.on = <<>>
    BY <1>1, <2>4 DEF Sound
  <2>6. ASSUME ~r.cut, NEW p \in r.steady, IsModel(p)
        PROVE  Is[disk[p]] \notin r.orphans \cup {r.on}
    <3>1. scan[s].found[Is[disk[p]]] # 0
      BY <1>1, <2>4, <2>6 DEF Sound
    <3>2. Is[disk[p]] # <<>>
      BY <2>6 DEF IsModel
    <3> QED
      BY <2>4, <2>5, <3>1, <3>2 DEF Orphans
  <2>7. Sound(r)
    BY <2>4, <2>6 DEF Sound
  <2>8. scan' = [scan EXCEPT ![s] = r]
    BY <1>1, <1>3 DEF Install, ScanOK, ScanRecords
  <2> HIDE DEF r
  <2> QED
    BY <1>1, <2>3, <2>7, <2>8, OneScan DEF ScanOK
<1> QED
  BY <1>2, <1>3

\* EvictOrphan: what is waited for was an orphan.
LEMMA EvictOrphanStep ==
  ASSUME TypeInv, ScanOK, NEW s \in Scanners, NEW id \in IDs, EvictOrphan(s, id)
  PROVE  ScanOK'
<1> DEFINE w == IF child[id] \in Registered \cup {"loading"} THEN id ELSE <<>>
           r == [scan[s] EXCEPT !.orphans = scan[s].orphans \ {id}, !.on = w]
<1>1. scan[s] \in ScanRecords /\ Sound(scan[s]) /\ scan[s].pc = "evict"
      /\ id \in scan[s].orphans /\ UNCHANGED disk
  BY DEF ScanOK, ScanInv, EvictOrphan, diskVars
<1>2. scan[s].orphans \in SUBSET IDs /\ w \in {id, <<>>}
  BY <1>1 DEF ScanRecords
<1>3. scan' = [scan EXCEPT ![s] = r]
  BY <1>1 DEF EvictOrphan, ScanOK, ScanRecords
<1> HIDE DEF w
<1>4. r \in ScanRecords
  BY <1>1, <1>2 DEF ScanRecords
<1>5. /\ r.pc = "evict" /\ r.cut = scan[s].cut /\ r.on = w
      /\ r.steady = scan[s].steady /\ r.orphans = scan[s].orphans \ {id}
  BY <1>1 DEF ScanRecords
<1>6. ASSUME ~r.cut, NEW p \in r.steady, IsModel(p)
      PROVE  Is[disk[p]] \notin r.orphans \cup {r.on}
  <2>1. Is[disk[p]] \notin scan[s].orphans /\ Is[disk[p]] # <<>>
    BY <1>1, <1>5, <1>6 DEF Sound, IsModel
  <2> QED
    BY <1>1, <1>2, <1>5, <2>1
<1>7. Sound(r)
  BY <1>5, <1>6 DEF Sound
<1> HIDE DEF r
<1> QED
  BY <1>1, <1>3, <1>4, <1>7, OneScan DEF ScanOK

\* OrphanGivenUp: one wait less.
LEMMA OrphanGivenUpStep ==
  ASSUME TypeInv, ScanOK, NEW s \in Scanners, OrphanGivenUp(s)
  PROVE  ScanOK'
<1> DEFINE r == [scan[s] EXCEPT !.on = <<>>]
<1>1. scan[s] \in ScanRecords /\ Sound(scan[s]) /\ scan[s].pc = "evict"
      /\ UNCHANGED disk
  BY DEF ScanOK, ScanInv, OrphanGivenUp, diskVars
<1>2. r \in ScanRecords
  BY <1>1 DEF ScanRecords
<1>3. /\ r.pc = "evict" /\ r.cut = scan[s].cut /\ r.on = <<>>
      /\ r.steady = scan[s].steady /\ r.orphans = scan[s].orphans
  BY <1>1 DEF ScanRecords
<1>4. Sound(r)
  BY <1>1, <1>3 DEF Sound, IsModel
<1>5. scan' = [scan EXCEPT ![s] = r]
  BY <1>1 DEF OrphanGivenUp, ScanOK, ScanRecords
<1> HIDE DEF r
<1> QED
  BY <1>1, <1>2, <1>4, <1>5, OneScan DEF ScanOK

\* RescanReturns and TimerExits: the scan is over.
LEMMA ScanOver ==
  ASSUME TypeInv, ScanOK,
         TimerExits \/ \E s \in Scanners : RescanReturns(s)
  PROVE  ScanOK'
<1>1. CASE \E s \in Scanners : RescanReturns(s)
  <2>1. PICK s \in Scanners : scan' = [scan EXCEPT ![s] = NoScan] /\ UNCHANGED disk
    BY <1>1 DEF RescanReturns, diskVars
  <2> QED
    BY <2>1, NoScanSound, OneScan DEF ScanOK
<1>2. CASE TimerExits
  <2> DEFINE r == [scan[Timer] EXCEPT !.pc = "exited"]
  <2>0. Timer \in Scanners
    BY DEF Scanners
  <2>1. scan[Timer] \in ScanRecords /\ Sound(scan[Timer])
        /\ scan[Timer].pc = "idle" /\ UNCHANGED disk
    BY <1>2, <2>0 DEF ScanOK, ScanInv, TimerExits, diskVars
  <2>2. r \in ScanRecords
    BY <2>1 DEF ScanRecords, ScanPlaces
  <2>3. r.pc = "exited" /\ r.on = scan[Timer].on
    BY <2>1 DEF ScanRecords
  <2>4. Sound(r)
    BY <2>1, <2>3 DEF Sound
  <2>5. scan' = [scan EXCEPT ![Timer] = r]
    BY <1>2, <2>0, <2>1 DEF TimerExits, ScanOK, ScanRecords
  <2> HIDE DEF r
  <2> QED
    BY <2>0, <2>1, <2>2, <2>4, <2>5, OneScan DEF ScanOK
<1> QED
  BY <1>1, <1>2

\* Every step keeps the scans sound.
LEMMA ScanStep ==
  ASSUME TypeInv, ScanInv, [Next]_vars
  PROVE  scan' \in [Scanners -> ScanRecords] /\ ScanInv'
<1>0. ScanOK /\ Timer \in Scanners /\ \A s \in Clients : s \in Scanners
  BY DEF ScanOK, TypeInv, Scanners
<1>1. CASE UNCHANGED <<disk, scan>>
  BY <1>0, <1>1 DEF ScanOK, ScanInv, Sound, IsModel
<1>2. ASSUME NEW s \in Scanners,
             BeginScan(s) \/ RescanStep(s) \/ (s = Timer /\ TimerExits)
      PROVE  ScanOK'
  <2>1. CASE \E id \in IDs : EvictOrphan(s, id)
    BY <1>0, <2>1, EvictOrphanStep
  <2>2. CASE OrphanLoaded(s)
    BY <1>0, <1>1, <2>2 DEF OrphanLoaded, diskVars, ScanOK
  <2> QED
    BY <1>0, <1>2, <2>1, <2>2, BeginScanStep, VisitStep, WalkCutStep, InstallStep,
       OrphanGivenUpStep, ScanOver DEF RescanStep
<1>3. ASSUME NEW p \in Places, NEW f \in Files \cup {NoFile}, Put(p, f)
      PROVE  ScanOK'
  <2>1. /\ {p} \in SUBSET Places /\ \A q \in Places \ {p} : disk'[q] = disk[q]
        /\ scan' = [s \in Scanners |-> [scan[s] EXCEPT !.steady = @ \ {p}]]
    BY <1>3 DEF Put, TypeInv
  <2> QED
    BY <1>0, <2>1, DiskChanges DEF ScanOK
<1>4. ASSUME NEW p \in Places, NEW q \in Places, Move(p, q)
      PROVE  ScanOK'
  <2>1. /\ {p, q} \in SUBSET Places
        /\ \A x \in Places \ {p, q} : disk'[x] = disk[x]
        /\ scan' = [s \in Scanners |-> [scan[s] EXCEPT !.steady = @ \ {p, q}]]
    BY <1>4 DEF Move, TypeInv
  <2> QED
    BY <1>0, <2>1, DiskChanges DEF ScanOK
<1>5. CASE \E ids : Released(ids) /\ UNCHANGED disk
  BY <1>0, <1>5, ReleasedScans DEF ScanOK
<1>6. ASSUME NEW id \in IDs, ChildStep(id) PROVE ScanOK'
  <2>1. CASE LoadSettles(id)
    <3>1. UNCHANGED disk /\ (Released({id}) \/ UNCHANGED scan)
      BY <2>1 DEF LoadSettles, diskVars
    <3> QED
      BY <1>1, <1>5, <3>1 DEF ScanOK
  <2>2. CASE LoadFails(id) \/ Stopped(id)
    BY <1>5, <2>2 DEF LoadFails, Stopped, diskVars, ScanOK
  <2>3. CASE Drained(id)
    BY <1>1, <2>3 DEF Drained, diskVars, ScanOK
  <2> QED
    BY <1>6, <2>1, <2>2, <2>3 DEF ChildStep
<1>7. CASE CloseMarks
  BY <1>5, <1>7 DEF CloseMarks, diskVars
<1>8. CASE Exit
  <2>1. scan' = [s \in Scanners |-> NoScan] /\ UNCHANGED disk
    BY <1>8 DEF Exit, diskVars
  <2>2. scan' \in [Scanners -> ScanRecords]
    BY <2>1, NoScanSound
  <2>3. \A s \in Scanners : scan'[s] = NoScan
    BY <2>1
  <2>4. ScanInv'
    <3>1. Sound(NoScan)
      BY NoScanSound
    <3> QED
      BY <2>1, <2>3, <3>1 DEF ScanInv, Sound, IsModel
  <2> QED
    BY <2>2, <2>4
<1>9. CASE \/ Signal \/ RescanAwaited \/ \E b \in BOOLEAN : ServeReturns(b)
           \/ \E id \in IDs : \/ CloseStops(id) \/ CloseGivesUpLoad(id)
                              \/ StartLoad(id) \/ EvictLRU(id) \/ Drained(id)
                              \/ RequestBegins(id) \/ RequestEnds(id)
           \/ \E s \in Clients : ClientLeaves(s)
  BY <1>1, <1>9 DEF Signal, RescanAwaited, ServeReturns, CloseStops,
     CloseGivesUpLoad, StartLoad, EvictLRU, Drained, RequestBegins, RequestEnds,
     ClientLeaves, diskVars
<1>10. CASE UNCHANGED vars
  BY <1>1, <1>10 DEF vars, diskVars
<1> QED
  BY <1>0, <1>2, <1>3, <1>4, <1>6, <1>7, <1>8, <1>9, <1>10
     DEF Next, TimerStep, ClientStep, CloseStep, ScanOK

-----------------------------------------------------------------------------
(* Children.                                                               *)

\* What each step makes of the children while the instances are not yet
\* Close's: it starts a load, registers one, or takes one away.
ChildMoves ==
  /\ UNCHANGED <<main, closed, toStop>>
  /\ \/ UNCHANGED child
     \/ \E id \in IDs, v \in (Alive \cup {"none"}) \ {"forced"} :
          /\ child' = [child EXCEPT ![id] = v]
          /\ v \in Registered => ~closed \/ child[id] \in Registered

\* No step but those of Close and of the way to it does anything else.
LEMMA ChildSteps ==
  ASSUME TypeInv, CloseInv, [Next]_vars
  PROVE  \/ ChildMoves \/ Signal \/ CloseMarks \/ RescanAwaited \/ Exit
         \/ \E b \in BOOLEAN : ServeReturns(b)
         \/ \E id \in IDs : CloseStops(id)
<1>0. Timer \in Scanners /\ \A s \in Clients : s \in Scanners
  BY DEF Scanners
<1>1. CASE UNCHANGED <<main, closed, toStop, child>>
  BY <1>1 DEF ChildMoves
<1>2. ASSUME NEW id \in IDs, NEW v \in (Alive \cup {"none"}) \ {"forced"},
             child' = [child EXCEPT ![id] = v], UNCHANGED <<main, closed, toStop>>,
             v \in Registered => ~closed \/ child[id] \in Registered
      PROVE  ChildMoves
  BY <1>2 DEF ChildMoves
<1>3. ASSUME NEW s \in Scanners,
             BeginScan(s) \/ RescanStep(s) \/ TimerExits \/ ClientLeaves(s)
      PROVE  ChildMoves
  <2>1. ASSUME NEW id \in IDs, EvictOrphan(s, id) PROVE ChildMoves
    <3>1. UNCHANGED <<main, closed, toStop>>
      BY <2>1 DEF EvictOrphan, closeVars
    <3>2. CASE child[id] = "resident"
      BY <1>2, <2>1, <3>1, <3>2 DEF EvictOrphan, Registered, Alive
    <3>3. CASE child[id] # "resident"
      BY <2>1, <3>1, <3>3 DEF EvictOrphan, ChildMoves
    <3> QED
      BY <3>2, <3>3
  <2>2. CASE OrphanLoaded(s)
    <3>1. scan[s].on \in IDs
      BY <2>2 DEF OrphanLoaded, TypeInv, ScanRecords
    <3> QED
      BY <1>2, <2>2, <3>1 DEF OrphanLoaded, closeVars, Registered, Alive
  <2>3. CASE BeginScan(s) \/ Visit(s) \/ WalkCut(s) \/ Install(s) \/ RescanReturns(s)
             \/ OrphanGivenUp(s) \/ TimerExits \/ ClientLeaves(s)
    BY <2>3 DEF BeginScan, Visit, WalkCut, Install, RescanReturns, OrphanGivenUp,
       TimerExits, ClientLeaves, closeVars, ChildMoves
  <2> QED
    BY <1>3, <2>1, <2>2, <2>3 DEF RescanStep
<1>4. ASSUME NEW id \in IDs,
             \/ StartLoad(id) \/ EvictLRU(id) \/ Drained(id) \/ LoadSettles(id)
             \/ LoadFails(id) \/ Stopped(id)
      PROVE  ChildMoves
  <2>1. PICK v \in {"loading", "victim", "stopping", "none", "resident"} :
          /\ child' = [child EXCEPT ![id] = v] /\ UNCHANGED <<main, closed, toStop>>
          /\ v = "resident" => ~closed
    BY <1>4 DEF StartLoad, EvictLRU, Drained, LoadSettles, LoadFails, Stopped,
       closeVars
  <2> QED
    BY <1>2, <2>1 DEF Alive, Registered
<1>5. CASE \/ \E id \in IDs : RequestBegins(id) \/ RequestEnds(id)
                              \/ CloseGivesUpLoad(id)
           \/ \E p \in Places, f \in Files \cup {NoFile} : Put(p, f)
           \/ \E p, q \in Places : Move(p, q)
           \/ UNCHANGED vars
  BY <1>1, <1>5 DEF RequestBegins, RequestEnds, CloseGivesUpLoad, Put, Move,
     closeVars, vars
<1> QED
  BY <1>0, <1>3, <1>4, <1>5
     DEF Next, TimerStep, ClientStep, ChildStep, CloseStep

\* The children, on the way down and before.
LEMMA CloseInvStep ==
  ASSUME TypeInv, CloseInv, [Next]_vars
  PROVE  /\ child' \in [IDs -> Alive \cup {"none"}] /\ main' \in MainPlaces
         /\ CloseInv'
<1>0. child \in [IDs -> Alive \cup {"none"}] /\ main \in MainPlaces
  BY DEF TypeInv
<1>1. CASE ChildMoves
  <2>1. UNCHANGED <<main, closed, toStop>>
    BY <1>1 DEF ChildMoves
  <2>2. CASE UNCHANGED child
    BY <1>0, <2>1, <2>2 DEF CloseInv, Late
  <2>3. CASE \E id \in IDs, v \in (Alive \cup {"none"}) \ {"forced"} :
               /\ child' = [child EXCEPT ![id] = v]
               /\ v \in Registered => ~closed \/ child[id] \in Registered
    <3>1. PICK id \in IDs, v \in (Alive \cup {"none"}) \ {"forced"} :
            /\ child' = [child EXCEPT ![id] = v]
            /\ v \in Registered => ~closed \/ child[id] \in Registered
      BY <2>3
    <3>2. child' \in [IDs -> Alive \cup {"none"}]
      BY <1>0, <3>1
    <3>3. \A x \in IDs : child'[x] = IF x = id THEN v ELSE child[x]
      BY <1>0, <3>1
    <3>4. Late => v \notin Registered
      BY <3>1 DEF CloseInv
    <3> QED
      BY <1>0, <2>1, <3>1, <3>2, <3>3, <3>4 DEF CloseInv, Late
  <2> QED
    BY <1>1, <2>2, <2>3 DEF ChildMoves
<1>2. CASE Signal \/ RescanAwaited \/ \E b \in BOOLEAN : ServeReturns(b)
  BY <1>0, <1>2 DEF Signal, RescanAwaited, ServeReturns, CloseInv, Late, MainPlaces
<1>3. CASE CloseMarks
  <2>1. PICK now : /\ now = {id \in IDs : child[id] \in Registered}
                   /\ toStop' = now
                   /\ child' = [id \in IDs |-> IF id \in now THEN "forced"
                                               ELSE child[id]]
    BY <1>3 DEF CloseMarks
  <2>2. main = "close" /\ main' = "awaitRescan" /\ closed'
    BY <1>3 DEF CloseMarks
  <2>3. \A id \in IDs : child[id] # "forced"
    BY <2>2 DEF CloseInv, Late
  <2>4. child' \in [IDs -> Alive \cup {"none"}]
    BY <1>0, <2>1 DEF Alive
  <2>5. \A id \in IDs : /\ child'[id] \notin Registered
                        /\ child'[id] = "forced" => id \in toStop'
    BY <2>1, <2>3 DEF Registered
  <2> QED
    BY <2>2, <2>4, <2>5 DEF CloseInv, Late, MainPlaces
<1>4. CASE \E id \in IDs : CloseStops(id)
  <2>1. PICK id \in IDs : /\ main = "stop" /\ toStop' = toStop \ {id}
                          /\ child' = [child EXCEPT ![id] = "none"]
                          /\ UNCHANGED <<main, closed>>
    BY <1>4 DEF CloseStops
  <2>2. child' \in [IDs -> Alive \cup {"none"}]
    BY <1>0, <2>1
  <2>3. \A x \in IDs : child'[x] = IF x = id THEN "none" ELSE child[x]
    BY <1>0, <2>1
  <2> QED
    BY <1>0, <2>1, <2>2, <2>3 DEF CloseInv, Late, Registered
<1>5. CASE Exit
  BY <1>0, <1>5 DEF Exit, CloseInv, Late, MainPlaces
<1> QED
  BY <1>1, <1>2, <1>3, <1>4, <1>5, ChildSteps

\* Only Put and Move touch the disk.
LEMMA DiskStep ==
  ASSUME TypeInv, [Next]_vars
  PROVE  disk' \in [Places -> Files \cup {NoFile}]
<1>0. disk \in [Places -> Files \cup {NoFile}]
  BY DEF TypeInv
<1>1. CASE \E p \in Places, f \in Files \cup {NoFile} : Put(p, f)
  BY <1>0, <1>1 DEF Put
<1>2. CASE \E p, q \in Places : Move(p, q)
  BY <1>0, <1>2 DEF Move
<1>3. CASE UNCHANGED disk
  BY <1>0, <1>3
<1>4. ASSUME NEW s,
             BeginScan(s) \/ RescanStep(s) \/ TimerExits \/ ClientLeaves(s)
      PROVE  UNCHANGED disk
  BY <1>4 DEF RescanStep, BeginScan, Visit, WalkCut, Install, RescanReturns,
     EvictOrphan, OrphanLoaded, OrphanGivenUp, TimerExits, ClientLeaves, diskVars
<1>5. ASSUME NEW id,
             \/ StartLoad(id) \/ EvictLRU(id) \/ RequestBegins(id) \/ RequestEnds(id)
             \/ Drained(id) \/ ChildStep(id) \/ CloseStops(id)
             \/ CloseGivesUpLoad(id)
      PROVE  UNCHANGED disk
  BY <1>5 DEF StartLoad, EvictLRU, RequestBegins, RequestEnds, Drained, ChildStep,
     LoadSettles, LoadFails, Stopped, CloseStops, CloseGivesUpLoad, diskVars
<1>6. CASE \/ Signal \/ CloseMarks \/ RescanAwaited \/ Exit \/ UNCHANGED vars
           \/ \E b \in BOOLEAN : ServeReturns(b)
  BY <1>3, <1>6 DEF Signal, CloseMarks, RescanAwaited, Exit, ServeReturns, diskVars,
     vars
<1> QED
  BY <1>1, <1>2, <1>3, <1>4, <1>5, <1>6
     DEF Next, TimerStep, ClientStep, CloseStep

-----------------------------------------------------------------------------
(* The daemon.                                                             *)

\* The invariant holds when the daemon is up and is kept by every step.
THEOREM Invariance == Spec => []Inv
<1>1. Init => Inv
  <2> SUFFICES ASSUME Init PROVE Inv
    OBVIOUS
  <2>2. scan \in [Scanners -> ScanRecords] /\ ScanInv
    BY NoScanSound DEF Init, ScanInv
  <2>3. TypeInv
    BY <2>2 DEF Init, TypeInv, Alive, MainPlaces
  <2>4. CloseInv
    BY DEF Init, CloseInv, Late
  <2> QED
    BY <2>2, <2>3, <2>4 DEF Inv
<1>2. Inv /\ [Next]_vars => Inv'
  <2> SUFFICES ASSUME Inv, [Next]_vars PROVE Inv'
    OBVIOUS
  <2>0. TypeInv /\ ScanInv /\ CloseInv
    BY DEF Inv
  <2>1. scan' \in [Scanners -> ScanRecords] /\ ScanInv'
    BY <2>0, ScanStep
  <2>2. /\ child' \in [IDs -> Alive \cup {"none"}] /\ main' \in MainPlaces
        /\ CloseInv'
    BY <2>0, CloseInvStep
  <2>3. disk' \in [Places -> Files \cup {NoFile}]
    BY <2>0, DiskStep
  <2>4. TypeInv'
    BY <2>1, <2>2, <2>3 DEF TypeInv
  <2> QED
    BY <2>1, <2>2, <2>4 DEF Inv
<1> QED
  BY <1>1, <1>2, PTL DEF Spec

\* However many scans overlap, and whatever is put, moved and removed under
\* them: Rescan evicts the instance of no model whose file was in its place from
\* the first to the last step of a walk that was not cut short.
THEOREM RescanOnlyEvictsOrphansHolds == Spec => []RescanOnlyEvictsOrphans
<1>1. Inv => RescanOnlyEvictsOrphans
  BY DEF Inv, ScanInv, Sound, IsModel, RescanOnlyEvictsOrphans
<1> QED
  BY <1>1, Invariance, PTL

\* When runServer returns, every instance that was registered when Close took
\* the lock has been stopped, and none was registered after it.
THEOREM ExitLeavesNoneRegisteredHolds == Spec => []ExitLeavesNoneRegistered
<1>1. Inv => ExitLeavesNoneRegistered
  BY DEF Inv, CloseInv, Late, ExitLeavesNoneRegistered
<1> QED
  BY <1>1, Invariance, PTL
=============================================================================
