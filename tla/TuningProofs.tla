---------------------------- MODULE TuningProofs ----------------------------
(***************************************************************************)
(* What TLAPS proves of Tuning, for every model and every machine: the     *)
(* ladder is what it should be, and the search over it records the best    *)
(* configuration.                                                          *)
(*                                                                         *)
(* The argument is the bisection's loop invariant: as long as no launch    *)
(* was disturbed, every rung before the current one is hopeless, and the   *)
(* limit of the current one lies between low - 1 and high.  When the two   *)
(* meet, low - 1 is the limit itself, and best is low - 1.                 *)
(***************************************************************************)
EXTENDS Tuning

-----------------------------------------------------------------------------
(* The loop that builds the ladder, for every context length.              *)

\* What the loop has built after trying the steps in done.
Built(b, done, c) ==
  /\ b \in Seq(Nat) /\ Len(b) >= 1
  /\ \A i \in 1 .. Len(b) : b[i] = c \/ (b[i] \in done /\ b[i] < c)
  /\ \A i \in 1 .. Len(b) - 1 : b[i] > b[i + 1]
  /\ \E i \in 1 .. Len(b) : b[i] = c
  /\ \A x \in done : x < c => \E i \in 1 .. Len(b) : b[i] = x

\* One round of the loop, with a step below all those already tried.
LEMMA ExtendBuilds ==
  ASSUME NEW c \in Nat, NEW s \in Nat, NEW done \in SUBSET Nat, NEW b,
         Built(b, done, c), \A x \in done : s < x
  PROVE  Built(Extend(b, s, c), done \cup {s}, c)
<1>0. b \in Seq(Nat) /\ Len(b) \in Nat /\ Len(b) >= 1
  BY DEF Built
<1>1. CASE ~(s <= c /\ b[Len(b)] # s)
  <2>1. Extend(b, s, c) = b
    BY <1>0, <1>1, ExtendSkips
  <2>2. s < c => \E i \in 1 .. Len(b) : b[i] = s
    BY <1>0, <1>1
  <2> QED
    BY <2>1, <2>2 DEF Built
<1>2. CASE s <= c /\ b[Len(b)] # s
  <2>1. PICK e : e = Append(b, s)
    OBVIOUS
  <2>2. /\ e \in Seq(Nat) /\ Len(e) = Len(b) + 1 /\ e[Len(b) + 1] = s
        /\ \A i \in 1 .. Len(b) : e[i] = b[i]
    BY <1>0, <2>1
  <2>3. b[Len(b)] > s
    BY <1>0, <1>2 DEF Built
  <2>4. s < c
    <3> SUFFICES ASSUME s = c PROVE FALSE
      BY <1>2
    <3>1. \A i \in 1 .. Len(b) : b[i] = c
      BY <1>0 DEF Built
    <3> QED
      BY <3>1, <1>0, <1>2
  <2>5. \A i \in 1 .. Len(e) : e[i] = c \/ (e[i] \in done \cup {s} /\ e[i] < c)
    <3> TAKE i \in 1 .. Len(e)
    <3>1. CASE i = Len(b) + 1
      BY <3>1, <2>2, <2>4
    <3>2. CASE i \in 1 .. Len(b)
      BY <3>2, <2>2 DEF Built
    <3> QED
      BY <3>1, <3>2, <1>0, <2>2
  <2>6. \A i \in 1 .. Len(e) - 1 : e[i] > e[i + 1]
    <3> TAKE i \in 1 .. Len(e) - 1
    <3>1. CASE i = Len(b)
      BY <3>1, <1>0, <2>2, <2>3
    <3>2. CASE i \in 1 .. Len(b) - 1
      <4>1. b[i] > b[i + 1]
        BY <3>2 DEF Built
      <4>2. i \in 1 .. Len(b) /\ i + 1 \in 1 .. Len(b)
        BY <3>2, <1>0
      <4> QED
        BY <4>1, <4>2, <2>2
    <3> QED
      BY <3>1, <3>2, <1>0, <2>2
  <2>7. \E i \in 1 .. Len(e) : e[i] = c
    BY <1>0, <2>2 DEF Built
  <2>8. \A x \in done \cup {s} : x < c => \E i \in 1 .. Len(e) : e[i] = x
    <3> TAKE x \in done \cup {s}
    <3> HAVE x < c
    <3>1. CASE x = s
      <4>1. Len(b) + 1 \in 1 .. Len(e)
        BY <1>0, <2>2
      <4> QED
        BY <3>1, <4>1, <2>2
    <3>2. CASE x \in done
      <4>1. PICK i \in 1 .. Len(b) : b[i] = x
        BY <3>2 DEF Built
      <4> QED
        BY <4>1, <2>2, <1>0
    <3> QED
      BY <3>1, <3>2
  <2>9. Built(e, done \cup {s}, c)
    BY <2>2, <2>5, <2>6, <2>7, <2>8, <1>0 DEF Built
  <2>10. Extend(b, s, c) = Append(b, s)
    BY <1>0, <1>2, ExtendAppends
  <2> QED
    BY <2>1, <2>9, <2>10
<1> QED
  BY <1>1, <1>2

\* The whole loop.
LEMMA LadderBuilds ==
  ASSUME NEW c \in Nat
  PROVE  Built(Ladder(c), Steps, c)
<1> DEFINE b0 == Extend(<<>>, c, c)
           b1 == Extend(b0, 32768, c)
           b2 == Extend(b1, 16384, c)
           b3 == Extend(b2, 8192, c)
           b4 == Extend(b3, 4096, c)
           b5 == Extend(b4, 2048, c)
           b6 == Extend(b5, 1024, c)
           b7 == Extend(b6, 512, c)
<1>0. Built(b0, {}, c)
  <2>1. <<>> \in Seq(Nat) /\ Len(<<>>) = 0
    OBVIOUS
  <2>2. c <= c /\ Extend(<<>>, c, c) = Append(<<>>, c)
    <3>1. c <= c /\ Len(<<>>) = 0
      OBVIOUS
    <3> QED
      BY <2>1, <3>1, ExtendAppends, Zenon
  <2>3. Append(<<>>, c) \in Seq(Nat) /\ Len(Append(<<>>, c)) = 1
        /\ Append(<<>>, c)[1] = c
    BY <2>1
  <2>4. PICK e : e = Append(<<>>, c)
    OBVIOUS
  <2>5. Built(e, {}, c)
    BY <2>3, <2>4 DEF Built
  <2> QED
    BY <2>2, <2>4, <2>5
<1> HIDE DEF b0
<1>1. Built(b1, {} \cup {32768}, c)
  BY <1>0, ExtendBuilds
<1> HIDE DEF b1
<1>2. Built(b2, {32768} \cup {16384}, c)
  BY <1>1, ExtendBuilds
<1> HIDE DEF b2
<1>3. Built(b3, {32768, 16384} \cup {8192}, c)
  BY <1>2, ExtendBuilds
<1> HIDE DEF b3
<1>4. Built(b4, {32768, 16384, 8192} \cup {4096}, c)
  BY <1>3, ExtendBuilds
<1> HIDE DEF b4
<1>5. Built(b5, {32768, 16384, 8192, 4096} \cup {2048}, c)
  BY <1>4, ExtendBuilds
<1> HIDE DEF b5
<1>6. Built(b6, {32768, 16384, 8192, 4096, 2048} \cup {1024}, c)
  BY <1>5, ExtendBuilds
<1> HIDE DEF b6
<1>7. Built(b7, {32768, 16384, 8192, 4096, 2048, 1024} \cup {512}, c)
  BY <1>6, ExtendBuilds
<1> HIDE DEF b7
<1>8. Ladder(c) = b7
  BY DEF Ladder, b0, b1, b2, b3, b4, b5, b6, b7
<1>9. Steps = {32768, 16384, 8192, 4096, 2048, 1024} \cup {512}
  BY DEF Steps
<1> QED
  BY <1>7, <1>8, <1>9

-----------------------------------------------------------------------------
(* The search.                                                             *)

\* The model and the machine, which no step changes.
Machine ==
  /\ m \in [ContextLength : Nat, BlockCount : Nat]
  /\ Built(ladder, Steps, CtxLen)
  /\ \A i \in 1 .. Len(ladder) : cap[ladder[i]] \in Int /\ cap[ladder[i]] >= -1

Counters ==
  /\ rung \in Nat \ {0}
  /\ low \in Nat /\ high \in Int /\ best \in Int

Bisecting == pc \in {"bisect", "probe", "stopprobe"}

\* The bounds of the loops.
BoundsInv ==
  /\ pc \in {"full", "bisect", "probe", "stopprobe", "final"} =>
       rung <= Len(ladder)
  /\ Bisecting =>
       /\ low <= high + 1 /\ high < MaxOffload
       /\ pc # "bisect" => low <= high
       /\ best = IF pc = "stopprobe" THEN Mid ELSE low - 1
  /\ pc = "final" => best >= 0 /\ best < MaxOffload

Searching == pc \in {"idle", "rung", "full", "bisect", "probe", "stopprobe", "final"}

\* What the search has learned of the machine.
LimitInv ==
  ~disturbed =>
    /\ Searching =>
         \A j \in 1 .. rung - 1 : j <= Len(ladder) => cap[ladder[j]] = -1
    /\ Bisecting => low - 1 <= cap[ladder[rung]] /\ cap[ladder[rung]] <= high
    /\ pc = "stopprobe" => Mid <= cap[ladder[rung]]
    /\ pc = "final" => cap[ladder[rung]] = best

\* An entry is there only once the run has ended.
EntryInv == (pc = "idle" => rung = 1) /\ (pc \notin Ended => entry = {})

IInv == Machine /\ Counters /\ BoundsInv /\ LimitInv /\ EntryInv /\ TunedBest

-----------------------------------------------------------------------------
\* MaxOffload is a positive number of layers.
LEMMA MaxOffloadNat ==
  ASSUME m \in [ContextLength : Nat, BlockCount : Nat]
  PROVE  MaxOffload \in Nat /\ MaxOffload >= 1 /\ CtxLen \in Nat
BY DEF MaxOffload, CtxLen

\* The bisection looks between its bounds.
LEMMA MidBetween ==
  ASSUME low \in Nat, high \in Int, low <= high
  PROVE  Mid \in Nat /\ low <= Mid /\ Mid <= high
BY DEF Mid

\* The ladder's length is a positive number.
LEMMA LadderLen ==
  ASSUME Machine
  PROVE  Len(ladder) \in Nat /\ Len(ladder) >= 1
BY DEF Machine, Built

\* The invariant holds when tune is called.
THEOREM InitIInv == Init => IInv
<1> SUFFICES ASSUME Init PROVE IInv
  OBVIOUS
<1>1. m \in [ContextLength : Nat, BlockCount : Nat]
  BY GGUFsAssumption DEF Init
<1>2. Built(ladder, Steps, CtxLen)
  BY <1>1, MaxOffloadNat, LadderBuilds DEF Init
<1>3. \A i \in 1 .. Len(ladder) : cap[ladder[i]] \in Int /\ cap[ladder[i]] >= -1
  <2>1. cap \in [RungSet -> Capacities]
    BY DEF Init
  <2>2. \A i \in 1 .. Len(ladder) : cap[ladder[i]] \in Capacities
    BY <2>1 DEF RungSet
  <2>3. \A x \in Capacities : x \in Int /\ x >= -1
    BY CapacitiesAssumption
  <2> QED
    BY <2>2, <2>3
<1>4. rung = 1 /\ low = 0 /\ high = -1 /\ best = -1
      /\ pc = "idle" /\ entry = {}
  BY DEF Init
<1>5. Machine /\ Counters
  <2>1. Machine
    BY <1>1, <1>2, <1>3, Zenon DEF Machine
  <2>2. Counters
    BY <1>4 DEF Counters
  <2> QED
    BY <2>1, <2>2
<1>6. BoundsInv /\ LimitInv /\ EntryInv
  BY <1>4 DEF BoundsInv, LimitInv, EntryInv, Bisecting
<1>7. TunedBest
  BY <1>4 DEF TunedBest
<1> QED
  BY <1>5, <1>6, <1>7 DEF IInv

-----------------------------------------------------------------------------
(* Steps.                                                                  *)

\* The model, the machine and the ladder stay as they are.
LEMMA MachineStable ==
  ASSUME Machine, UNCHANGED inputs
  PROVE  Machine' /\ MaxOffload' = MaxOffload /\ CtxLen' = CtxLen
<1>1. m' = m /\ cap' = cap /\ ladder' = ladder
  BY DEF inputs
<1> QED
  BY <1>1 DEF Machine, MaxOffload, CtxLen

\* No entry, nothing to show.
LEMMA NoEntry == ASSUME entry' = {} PROVE TunedBest'
BY DEF TunedBest

\* A measured entry at the limit of the first rung that has one is the best.
LEMMA BestEntry ==
  ASSUME Machine, Counters, UNCHANGED <<inputs, rung>>,
         rung <= Len(ladder),
         NEW o \in Nat, Record(ladder[rung], o, "measured"),
         o <= MaxOffload,
         ~disturbed' => /\ \A j \in 1 .. rung - 1 :
                             j <= Len(ladder) => cap[ladder[j]] = -1
                        /\ o <= cap[ladder[rung]]
                        /\ o < MaxOffload => cap[ladder[rung]] = o
  PROVE  TunedBest'
<1> SUFFICES ASSUME ~disturbed' PROVE Best(ladder[rung], o)'
  <2>1. ~disturbed' => Best(ladder[rung], o)'
    OBVIOUS
  <2>2. \A e \in entry' : e.ctx = ladder[rung] /\ e.offload = o
    BY DEF Record
  <2>3. ladder' = ladder /\ rung' = rung
    BY DEF inputs
  <2> QED
    BY <2>1, <2>2, <2>3 DEF TunedBest
<1>1. cap' = cap /\ ladder' = ladder /\ MaxOffload' = MaxOffload
  BY MachineStable DEF inputs
<1>2. /\ rung \in 1 .. Len(ladder) /\ Len(ladder) \in Nat
      /\ cap[ladder[rung]] \in Int
  BY LadderLen DEF Machine, Counters
<1>3. MaxOffload \in Nat
  BY MaxOffloadNat DEF Machine
<1>4. o < MaxOffload => ~(o + 1 <= cap[ladder[rung]])
  BY <1>2, <1>3
<1>5. \A j \in 1 .. rung - 1 : ~(0 <= cap[ladder[j]])
  BY <1>2
<1> QED
  BY <1>1, <1>2, <1>4, <1>5 DEF Best, Fits

-----------------------------------------------------------------------------
(* The invariant, one step per action.                                     *)

\* A step that leaves the search for good keeps the rest, if it leaves no
\* entry.
LEMMA Leaving ==
  ASSUME IInv, UNCHANGED <<inputs, search>>, entry' = {},
         pc' \in {"fallback", "cancelled", "failed", "unservable"}
  PROVE  IInv'
<1>1. Machine'
  BY MachineStable DEF IInv
<1>2. Counters'
  BY DEF IInv, Counters, search
<1>3. BoundsInv' /\ LimitInv' /\ EntryInv'
  BY DEF BoundsInv, LimitInv, EntryInv, Bisecting, Searching
<1>4. TunedBest'
  BY NoEntry
<1> QED
  BY <1>1, <1>2, <1>3, <1>4 DEF IInv

\* A step that moves neither the search nor the entry.
LEMMA Standing ==
  ASSUME IInv, UNCHANGED <<inputs, search, entry, disturbed, pc>>
  PROVE  IInv'
<1>1. Machine'
  BY MachineStable DEF IInv
<1>2. /\ Counters' /\ BoundsInv' /\ EntryInv'
  BY MachineStable DEF IInv, Counters, search, BoundsInv, EntryInv, Bisecting,
     Mid, inputs
<1>3. LimitInv'
  BY DEF IInv, LimitInv, search, inputs, Bisecting, Searching, Mid
<1>4. TunedBest'
  BY MachineStable DEF IInv, TunedBest, Best, Fits, inputs
<1> QED
  BY <1>1, <1>2, <1>3, <1>4 DEF IInv

\* A run that ends with an instance: the entry speaks for itself.
LEMMA Returning ==
  ASSUME IInv, UNCHANGED <<inputs, search>>, pc' = "returned", TunedBest'
  PROVE  IInv'
<1>1. Machine'
  BY MachineStable DEF IInv
<1>2. Counters'
  BY DEF IInv, Counters, search
<1>3. BoundsInv' /\ LimitInv' /\ EntryInv'
  BY DEF BoundsInv, LimitInv, EntryInv, Bisecting, Searching, Ended
<1> QED
  BY <1>1, <1>2, <1>3 DEF IInv

\* Start and NextRung: nothing is learned.
LEMMA StartStep == ASSUME IInv, Start PROVE IInv'
<1>1. UNCHANGED <<inputs, search, entry, disturbed>> /\ pc = "idle" /\ pc' = "rung"
  BY DEF Start
<1>2. Machine'
  BY <1>1, MachineStable DEF IInv
<1>3. Counters' /\ BoundsInv' /\ EntryInv'
  BY <1>1 DEF IInv, Counters, BoundsInv, EntryInv, Bisecting, search, Ended
<1>4. LimitInv'
  BY <1>1 DEF IInv, LimitInv, search, inputs, Bisecting, Searching
<1>5. TunedBest'
  BY <1>1, NoEntry DEF IInv, EntryInv, Ended
<1> QED
  BY <1>2, <1>3, <1>4, <1>5 DEF IInv

\* A rung is begun only if the ladder has it.
LEMMA NextRungStep == ASSUME IInv, NextRung PROVE IInv'
<1>1. /\ UNCHANGED <<inputs, search, entry, disturbed>>
      /\ pc = "rung" /\ entry = {}
  BY DEF NextRung, memory, IInv, EntryInv, Ended
<1>2. CASE pc' \in {"fallback", "cancelled", "unservable"}
  BY <1>1, <1>2, Leaving
<1>3. CASE pc' = "full" /\ rung <= Len(ladder)
  <2>1. Machine'
    BY <1>1, MachineStable DEF IInv
  <2>2. Counters' /\ BoundsInv' /\ EntryInv'
    BY <1>1, <1>3 DEF IInv, Counters, BoundsInv, EntryInv, Bisecting, search,
       inputs
  <2>3. LimitInv'
    BY <1>1, <1>3 DEF IInv, LimitInv, search, inputs, Bisecting, Searching
  <2>4. TunedBest'
    BY <1>1, NoEntry
  <2> QED
    BY <2>1, <2>2, <2>3, <2>4 DEF IInv
<1>4. rung \in Nat /\ Len(ladder) \in Nat
  BY LadderLen DEF IInv, Counters
<1> QED
  BY <1>2, <1>3, <1>4 DEF NextRung, Abandon

\* Everything offloaded fits: no larger offload is possible.
LEMMA FullFitsStep == ASSUME IInv, FullFits PROVE IInv'
<1>1. /\ UNCHANGED <<inputs, search, disturbed>>
      /\ pc = "full" /\ pc' = "returned"
      /\ MaxOffload <= cap[ladder[rung]]
      /\ Record(ladder[rung], MaxOffload, "measured")
  BY DEF FullFits, LaunchOK, inputs, Fits, currentCtx
<1>2. TunedBest'
  <2>1. MaxOffload \in Nat /\ rung' = rung /\ rung <= Len(ladder)
    BY <1>1, MaxOffloadNat DEF IInv, Machine, search, BoundsInv
  <2>2. ~disturbed' =>
          \A j \in 1 .. rung - 1 : j <= Len(ladder) => cap[ladder[j]] = -1
    BY <1>1 DEF IInv, LimitInv, Searching
  <2>3. MaxOffload <= MaxOffload /\ ~(MaxOffload < MaxOffload)
    BY <2>1
  <2> QED
    BY <1>1, <2>1, <2>2, <2>3, BestEntry DEF IInv
<1> QED
  BY <1>1, <1>2, Returning

\* The full offload does not: the limit lies between -1 and MaxOffload - 1.
LEMMA FullTooBigStep == ASSUME IInv, FullTooBig PROVE IInv'
<1>1. UNCHANGED <<inputs, entry, rung>> /\ pc = "full" /\ entry = {}
  BY DEF FullTooBig, LaunchOOM, IInv, EntryInv, Ended, inputs, search
<1>2. CASE BudgetErr
  BY <1>1, <1>2, Leaving DEF FullTooBig, Abandon
<1>3. CASE ~BudgetErr
  <2>1. pc' = "bisect" /\ low' = 0 /\ high' = MaxOffload - 1 /\ best' = -1
    BY <1>3 DEF FullTooBig
  <2>2. MaxOffload \in Nat /\ MaxOffload >= 1 /\ MaxOffload' = MaxOffload
    BY <1>1, MaxOffloadNat, MachineStable DEF IInv, Machine
  <2>3. Machine'
    BY <1>1, MachineStable DEF IInv
  <2>4. Counters' /\ BoundsInv' /\ EntryInv'
    BY <1>1, <2>1, <2>2 DEF IInv, Counters, BoundsInv, EntryInv, Bisecting, inputs
  <2>5. LimitInv'
    <3> SUFFICES ASSUME ~disturbed'
                 PROVE  /\ \A j \in 1 .. rung - 1 :
                             j <= Len(ladder) => cap[ladder[j]] = -1
                        /\ -1 <= cap[ladder[rung]]
                        /\ cap[ladder[rung]] <= MaxOffload - 1
      BY <1>1, <2>1, <2>2 DEF LimitInv, Bisecting, Searching, inputs
    <3>1. ~disturbed /\ ~(MaxOffload <= cap[ladder[rung]])
      BY DEF FullTooBig, LaunchOOM, Fits, currentCtx
    <3>2. cap[ladder[rung]] \in Int /\ cap[ladder[rung]] >= -1
      BY <1>1, LadderLen DEF IInv, Machine, Counters, BoundsInv
    <3> QED
      BY <1>1, <2>2, <3>1, <3>2 DEF IInv, LimitInv, Searching
  <2>6. TunedBest'
    BY <1>1, NoEntry
  <2> QED
    BY <2>3, <2>4, <2>5, <2>6 DEF IInv
<1> QED
  BY <1>2, <1>3

\* A launch that fails otherwise ends the search, here and at the end.
LEMMA FailSteps ==
  ASSUME IInv, FullFails \/ ProbeFails \/ FinalFails \/ FallbackFails
  PROVE  IInv'
<1>1. /\ UNCHANGED <<inputs, search, entry>>
      /\ pc \in {"full", "probe", "final", "fallback"}
      /\ pc' \in {"cancelled", "fallback", "failed"}
  BY DEF FullFails, ProbeFails, FinalFails, FallbackFails, LaunchErr, LaunchOOM,
         Abandon, inputs
<1>2. entry' = {}
  BY <1>1 DEF IInv, EntryInv, Ended
<1> QED
  BY <1>1, <1>2, Leaving

\* The loop: when the bounds have met, low - 1 is the limit.
LEMMA BisectStep == ASSUME IInv, Bisect PROVE IInv'
<1>1. /\ UNCHANGED <<inputs, entry, disturbed, low, high, best>>
      /\ pc = "bisect" /\ entry = {}
  BY DEF Bisect, memory, search, IInv, EntryInv, Ended
<1>2. /\ rung \in Nat \ {0} /\ low \in Nat /\ high \in Int /\ rung <= Len(ladder)
      /\ low <= high + 1 /\ high < MaxOffload /\ best = low - 1
      /\ MaxOffload \in Nat /\ MaxOffload' = MaxOffload
      /\ Len(ladder) \in Nat /\ cap[ladder[rung]] \in Int
  BY <1>1, LadderLen, MaxOffloadNat, MachineStable
     DEF IInv, Machine, Counters, BoundsInv, Bisecting
<1>3. ~disturbed =>
        /\ \A j \in 1 .. rung - 1 : j <= Len(ladder) => cap[ladder[j]] = -1
        /\ low - 1 <= cap[ladder[rung]] /\ cap[ladder[rung]] <= high
  BY <1>1 DEF IInv, LimitInv, Bisecting, Searching
<1>4. Machine'
  BY <1>1, MachineStable DEF IInv
<1>5. TunedBest'
  BY <1>1, NoEntry
<1>6. CASE low > high /\ best >= 0
  <2>1. pc' = "final" /\ rung' = rung
    BY <1>1, <1>6 DEF Bisect, search
  <2>2. Counters' /\ BoundsInv' /\ EntryInv'
    BY <1>1, <1>2, <1>6, <2>1 DEF IInv, Counters, BoundsInv, EntryInv, Bisecting,
       inputs
  <2>3. LimitInv'
    BY <1>1, <1>2, <1>3, <1>6, <2>1 DEF LimitInv, Bisecting, Searching, inputs
  <2> QED
    BY <1>4, <1>5, <2>2, <2>3 DEF IInv
<1>7. CASE low > high /\ ~(best >= 0)
  <2>1. pc' = "rung" /\ rung' = rung + 1
    BY <1>1, <1>7 DEF Bisect
  <2>2. Counters' /\ BoundsInv' /\ EntryInv'
    BY <1>1, <1>2, <2>1 DEF IInv, Counters, BoundsInv, EntryInv, Bisecting
  <2>3. ~disturbed => cap[ladder[rung]] = -1
    BY <1>2, <1>3, <1>7
  <2>4. ~disturbed =>
          \A j \in 1 .. rung' - 1 : j <= Len(ladder) => cap[ladder[j]] = -1
    BY <1>2, <1>3, <2>1, <2>3
  <2>5. LimitInv'
    BY <1>1, <2>1, <2>4 DEF LimitInv, Bisecting, Searching, inputs
  <2> QED
    BY <1>4, <1>5, <2>2, <2>5 DEF IInv
<1>8. CASE ~(low > high) /\ BudgetErr
  BY <1>1, <1>8, Leaving DEF Bisect, Abandon, search
<1>9. CASE ~(low > high) /\ ~BudgetErr
  <2>1. pc' = "probe" /\ rung' = rung
    BY <1>1, <1>9 DEF Bisect, search
  <2>2. Counters' /\ BoundsInv' /\ EntryInv'
    BY <1>1, <1>2, <1>9, <2>1 DEF IInv, Counters, BoundsInv, EntryInv, Bisecting,
       inputs
  <2>3. LimitInv'
    BY <1>1, <1>3, <2>1 DEF LimitInv, Bisecting, Searching, inputs
  <2> QED
    BY <1>4, <1>5, <2>2, <2>3 DEF IInv
<1> QED
  BY <1>6, <1>7, <1>8, <1>9

\* What holds while a probe is launched or being stopped.
LEMMA InProbe ==
  ASSUME IInv, pc \in {"probe", "stopprobe"}
  PROVE  /\ rung \in Nat \ {0} /\ rung <= Len(ladder) /\ entry = {}
         /\ low \in Nat /\ high \in Int /\ high < MaxOffload
         /\ Mid \in Nat /\ low <= Mid /\ Mid <= high
         /\ best = IF pc = "stopprobe" THEN Mid ELSE low - 1
         /\ cap[ladder[rung]] \in Int
         /\ ~disturbed =>
              /\ \A j \in 1 .. rung - 1 : j <= Len(ladder) => cap[ladder[j]] = -1
              /\ low - 1 <= cap[ladder[rung]] /\ cap[ladder[rung]] <= high
              /\ pc = "stopprobe" => Mid <= cap[ladder[rung]]
<1>1. /\ rung \in Nat \ {0} /\ rung <= Len(ladder)
      /\ low \in Nat /\ high \in Int /\ high < MaxOffload /\ low <= high
      /\ best = IF pc = "stopprobe" THEN Mid ELSE low - 1
  BY DEF IInv, Counters, BoundsInv, Bisecting
<1>2. Mid \in Nat /\ low <= Mid /\ Mid <= high
  BY <1>1, MidBetween
<1>3. cap[ladder[rung]] \in Int
  BY <1>1, LadderLen DEF IInv, Machine
<1>4. entry = {}
  BY DEF IInv, EntryInv, Ended
<1>5. ~disturbed =>
        /\ \A j \in 1 .. rung - 1 : j <= Len(ladder) => cap[ladder[j]] = -1
        /\ low - 1 <= cap[ladder[rung]] /\ cap[ladder[rung]] <= high
        /\ pc = "stopprobe" => Mid <= cap[ladder[rung]]
  BY DEF IInv, LimitInv, Bisecting, Searching
<1> QED
  BY <1>1, <1>2, <1>3, <1>4, <1>5

\* A probe that fits: the limit is at least the middle,
LEMMA ProbeFitsStep == ASSUME IInv, ProbeFits PROVE IInv'
<1>1. /\ UNCHANGED <<inputs, rung, low, high, entry, disturbed>>
      /\ pc = "probe" /\ pc' = "stopprobe" /\ best' = Mid
      /\ Mid <= cap[ladder[rung]]
  BY DEF ProbeFits, LaunchOK, inputs, Fits, currentCtx
<1>2. Mid' = Mid
  BY <1>1 DEF Mid
<1>3. Machine' /\ MaxOffload' = MaxOffload
  BY <1>1, MachineStable DEF IInv
<1>4. low <= high + 1 /\ low <= high
  BY <1>1 DEF IInv, BoundsInv, Bisecting
<1>5. Counters' /\ BoundsInv' /\ EntryInv'
  BY <1>1, <1>2, <1>3, <1>4, InProbe DEF Counters, BoundsInv, EntryInv, Bisecting,
     inputs
<1>6. LimitInv'
  BY <1>1, <1>2, InProbe DEF LimitInv, Bisecting, Searching, inputs
<1>7. TunedBest'
  BY <1>1, InProbe, NoEntry
<1> QED
  BY <1>3, <1>5, <1>6, <1>7 DEF IInv

\* and the search goes on above it.
LEMMA StopProbeStep == ASSUME IInv, StopProbe PROVE IInv'
<1>1. /\ UNCHANGED <<inputs, rung, high, best, entry, disturbed>>
      /\ pc = "stopprobe" /\ pc' = "bisect" /\ low' = Mid + 1
  BY DEF StopProbe, inputs
<1>2. Machine' /\ MaxOffload' = MaxOffload
  BY <1>1, MachineStable DEF IInv
<1>3. best' = low' - 1 /\ low' <= high' + 1
  BY <1>1, InProbe
<1>4. Counters' /\ BoundsInv' /\ EntryInv'
  BY <1>1, <1>2, <1>3, InProbe DEF Counters, BoundsInv, EntryInv, Bisecting,
     inputs
<1>5. ~disturbed => low' - 1 <= cap[ladder[rung]]
  BY <1>1, InProbe
<1>6. LimitInv'
  BY <1>1, <1>5, InProbe DEF LimitInv, Bisecting, Searching, inputs
<1>7. TunedBest'
  BY <1>1, InProbe, NoEntry
<1> QED
  BY <1>2, <1>4, <1>6, <1>7 DEF IInv

\* A probe that does not fit: the limit is below the middle.
LEMMA ProbeTooBigStep == ASSUME IInv, ProbeTooBig PROVE IInv'
<1>1. UNCHANGED <<inputs, entry>> /\ pc = "probe" /\ entry = {}
  BY InProbe DEF ProbeTooBig, LaunchOOM, inputs
<1>2. CASE BudgetErr
  BY <1>1, <1>2, Leaving DEF ProbeTooBig, Abandon
<1>3. CASE ~BudgetErr
  <2>1. pc' = "bisect" /\ high' = Mid - 1 /\ UNCHANGED <<rung, low, best>>
    BY <1>3 DEF ProbeTooBig
  <2>2. Machine' /\ MaxOffload' = MaxOffload /\ MaxOffload \in Nat
    BY <1>1, MachineStable, MaxOffloadNat DEF IInv, Machine
  <2>3. low <= high' + 1 /\ high' < MaxOffload /\ best = low - 1
    BY <1>1, <2>1, <2>2, InProbe
  <2>4. Counters' /\ BoundsInv' /\ EntryInv'
    BY <1>1, <2>1, <2>2, <2>3, InProbe DEF Counters, BoundsInv, EntryInv,
       Bisecting, inputs
  <2>5. ~disturbed' => ~disturbed /\ ~(Mid <= cap[ladder[rung]])
    BY DEF ProbeTooBig, LaunchOOM, Fits, currentCtx
  <2>6. ~disturbed' => cap[ladder[rung]] <= high'
    BY <1>1, <2>1, <2>5, InProbe
  <2>7. LimitInv'
    BY <1>1, <2>1, <2>5, <2>6, InProbe DEF LimitInv, Bisecting, Searching, inputs
  <2>8. TunedBest'
    BY <1>1, NoEntry
  <2> QED
    BY <2>2, <2>4, <2>7, <2>8 DEF IInv
<1> QED
  BY <1>2, <1>3

\* The best configuration is the limit of the first rung that has one.
LEMMA FinalFitsStep == ASSUME IInv, FinalFits PROVE IInv'
<1>1. /\ UNCHANGED <<inputs, search, disturbed>>
      /\ pc = "final" /\ pc' = "returned"
      /\ best <= cap[ladder[rung]]
      /\ Record(ladder[rung], best, "measured")
  BY DEF FinalFits, LaunchOK, inputs, Fits, currentCtx
<1>2. TunedBest'
  <2>1. /\ best \in Nat /\ best < MaxOffload /\ rung' = rung
        /\ rung <= Len(ladder)
    BY <1>1 DEF IInv, Counters, search, BoundsInv
  <2>2. ~disturbed' =>
          /\ \A j \in 1 .. rung - 1 : j <= Len(ladder) => cap[ladder[j]] = -1
          /\ cap[ladder[rung]] = best
    BY <1>1 DEF IInv, LimitInv, Searching
  <2>3. best <= MaxOffload
    BY <2>1, MaxOffloadNat DEF IInv, Machine
  <2> QED
    BY <1>1, <2>1, <2>2, <2>3, BestEntry DEF IInv
<1> QED
  BY <1>1, <1>2, Returning

\* The fallback claims nothing.
LEMMA FallbackFitsStep == ASSUME IInv, FallbackFits PROVE IInv'
<1>1. UNCHANGED <<inputs, search>> /\ pc' = "returned"
  BY DEF FallbackFits, LaunchOK, inputs
<1>2. TunedBest'
  BY DEF FallbackFits, Record, TunedBest
<1> QED
  BY <1>1, <1>2, Returning

\* Budget, cancellation, kills and neighbours do not touch the search.
LEMMA EnvironmentStep == ASSUME IInv, Environment PROVE IInv'
<1>1. UNCHANGED <<inputs, search, entry, disturbed, pc>>
  BY DEF Environment, BudgetRunsOut, LoadCancelled, ContextKills, OtherLoads,
         DyingExits, memory
<1> QED
  BY <1>1, Standing

\* Every step of tune and of what happens beside it preserves the invariant.
THEOREM NextIInv == IInv /\ [Next]_vars => IInv'
<1> SUFFICES ASSUME IInv, [Next]_vars PROVE IInv'
  OBVIOUS
<1>1. CASE TuneStep
  BY <1>1, StartStep, NextRungStep, FullFitsStep, FullTooBigStep, FailSteps,
     BisectStep, ProbeFitsStep, StopProbeStep, ProbeTooBigStep, FinalFitsStep,
     FallbackFitsStep DEF TuneStep
<1>2. CASE Environment
  BY <1>2, EnvironmentStep
<1>3. CASE UNCHANGED vars
  BY <1>3, Standing DEF vars, memory
<1> QED
  BY <1>1, <1>2, <1>3 DEF Next

\* tune caches the best configuration the machine can hold: for every model,
\* every ladder and every memory limit, unless a launch was disturbed.
THEOREM TunedBestHolds == Spec => []TunedBest
<1>1. IInv => TunedBest
  BY DEF IInv
<1> QED
  BY <1>1, InitIInv, NextIInv, PTL DEF Spec

\* For every context length, the ladder is the model's own length followed by
\* exactly the standard steps below it, in strictly descending order.
THEOREM LadderDescendsHolds == Spec => []LadderDescends
<1>1. IInv => LadderDescends
  <2> SUFFICES ASSUME IInv PROVE LadderDescends
    OBVIOUS
  <2>1. Built(ladder, Steps, CtxLen)
    BY DEF IInv, Machine
  <2>2. RungSet = {CtxLen} \cup {step \in Steps : step < CtxLen}
    BY <2>1 DEF Built, RungSet
  <2>3. \A i \in 1 .. Len(ladder) - 1 : ladder[i] > ladder[i + 1]
    BY <2>1 DEF Built
  <2> QED
    BY <2>2, <2>3 DEF LadderDescends
<1> QED
  BY <1>1, InitIInv, NextIInv, PTL DEF Spec

-----------------------------------------------------------------------------
(* The fallback.                                                           *)

FallbackInv == (pc = "fallback" => deadline) /\ FallbackOnlyOnDeadline

\* The conservative configuration is cached only when the budget ran out: a
\* cancelled load, whenever it is cancelled, never puts it there.
THEOREM FallbackOnlyOnDeadlineHolds == Spec => []FallbackOnlyOnDeadline
<1>1. Init => FallbackInv
  BY DEF Init, FallbackInv, FallbackOnlyOnDeadline
<1>2. FallbackInv /\ [Next]_vars => FallbackInv'
  <2> SUFFICES ASSUME FallbackInv, [Next]_vars PROVE FallbackInv'
    OBVIOUS
  <2>1. CASE NextRung \/ FullTooBig \/ FullFails \/ Bisect \/ ProbeTooBig
             \/ ProbeFails \/ FinalFails
    <3>1. UNCHANGED <<entry, deadline>> /\ (pc' = "fallback" => deadline)
      BY <2>1 DEF NextRung, FullTooBig, FullFails, Bisect, ProbeTooBig, ProbeFails,
         FinalFails, LaunchOOM, LaunchErr, Abandon, BudgetErr
    <3> QED
      BY <3>1 DEF FallbackInv, FallbackOnlyOnDeadline
  <2>2. CASE FullFits \/ FinalFits
    BY <2>2 DEF FullFits, FinalFits, Record, LaunchOK, FallbackInv,
       FallbackOnlyOnDeadline
  <2>3. CASE FallbackFits
    BY <2>3 DEF FallbackFits, Record, LaunchOK, FallbackInv, FallbackOnlyOnDeadline
  <2>4. CASE Start \/ ProbeFits \/ StopProbe \/ FallbackFails
    BY <2>4 DEF Start, ProbeFits, StopProbe, FallbackFails, LaunchOK, LaunchErr,
       FallbackInv, FallbackOnlyOnDeadline
  <2>5. CASE Environment
    BY <2>5 DEF Environment, BudgetRunsOut, LoadCancelled, ContextKills,
       OtherLoads, DyingExits, FallbackInv, FallbackOnlyOnDeadline
  <2>6. CASE UNCHANGED vars
    BY <2>6 DEF vars, FallbackInv, FallbackOnlyOnDeadline
  <2> QED
    BY <2>1, <2>2, <2>3, <2>4, <2>5, <2>6 DEF Next, TuneStep
<1>3. FallbackInv => FallbackOnlyOnDeadline
  BY DEF FallbackInv
<1> QED
  BY <1>1, <1>2, <1>3, PTL DEF Spec

-----------------------------------------------------------------------------
(* One child at a time.                                                    *)

\* Every launch of tune finds the child of the one before it stopped: the full
\* offload, each probe, the final launch and the fallback, whatever runs out or
\* is cancelled in between.
THEOREM ProbesDoNotOverlapHolds == Spec => []ProbesDoNotOverlap
<1>1. Init => ProbesDoNotOverlap
  BY DEF Init, NoChild, ProbesDoNotOverlap
<1>2. ProbesDoNotOverlap /\ [Next]_vars => ProbesDoNotOverlap'
  <2> SUFFICES ASSUME ProbesDoNotOverlap, [Next]_vars PROVE ProbesDoNotOverlap'
    OBVIOUS
  <2>1. CASE FullTooBig \/ FullFails \/ StopProbe \/ ProbeTooBig \/ ProbeFails
             \/ FinalFails \/ FallbackFails
    <3>1. child' = NoChild
      BY <2>1 DEF FullTooBig, FullFails, StopProbe, ProbeTooBig, ProbeFails,
         FinalFails, FallbackFails, LaunchOOM, LaunchErr, Stopped
    <3> QED
      BY <3>1 DEF NoChild, ProbesDoNotOverlap
  <2>2. CASE FullFits \/ ProbeFits \/ FinalFits \/ FallbackFits
    BY <2>2 DEF FullFits, ProbeFits, FinalFits, FallbackFits, ProbesDoNotOverlap
  <2>3. CASE Start \/ NextRung \/ Bisect
    BY <2>3 DEF Start, NextRung, Bisect, ProbesDoNotOverlap
  <2>4. CASE ContextKills
    BY <2>4 DEF ContextKills, ProbesDoNotOverlap
  <2>5. CASE BudgetRunsOut \/ LoadCancelled \/ OtherLoads \/ DyingExits
    BY <2>5 DEF BudgetRunsOut, LoadCancelled, OtherLoads, DyingExits,
       ProbesDoNotOverlap
  <2>6. CASE UNCHANGED vars
    BY <2>6 DEF vars, ProbesDoNotOverlap
  <2> QED
    BY <2>1, <2>2, <2>3, <2>4, <2>5, <2>6 DEF Next, TuneStep, Environment
<1> QED
  BY <1>1, <1>2, PTL DEF Spec

-----------------------------------------------------------------------------
(* Types.                                                                  *)

InputsType ==
  /\ m \in GGUFs
  /\ ladder \in Seq(Nat)
  /\ cap \in [RungSet -> Capacities]

\* The counters stay in range at every place of tune, not only where they are
\* used: a run that is abandoned leaves them as they are.
SearchType ==
  /\ rung \in 1 .. Len(ladder) + 1
  /\ low \in 0 .. MaxOffload
  /\ high \in -1 .. MaxOffload - 1
  /\ best \in -1 .. MaxOffload - 1

Entries == [ctx : RungSet, offload : 0 .. MaxOffload, by : {"measured", "fallback"}]

Places == {"idle", "rung", "full", "bisect", "probe", "stopprobe", "final",
           "fallback"} \cup Ended

ChildType ==
  child \in [state : {"none", "running", "killed"},
             ctx : {"none", "budget", "load", "rescue"}]

FlagsType ==
  /\ deadline \in BOOLEAN /\ cancelled \in BOOLEAN /\ disturbed \in BOOLEAN

CrowdType == crowd \in [others : BOOLEAN, dying : BOOLEAN]

\* Fallback runs at a rung of the ladder.
LEMMA FallbackOnLadder ==
  ASSUME Machine
  PROVE  FallbackCtx \in RungSet
<1>1. Built(ladder, Steps, CtxLen) /\ CtxLen \in Nat
  BY MaxOffloadNat DEF Machine
<1>2. RungSet = {CtxLen} \cup {step \in Steps : step < CtxLen}
  BY <1>1 DEF Built, RungSet
<1>3. CtxLen > 2048 => 2048 \in RungSet
  BY <1>1, <1>2 DEF Steps
<1> QED
  BY <1>1, <1>2, <1>3 DEF FallbackCtx

\* What is recorded names a rung and an offload of the model.
LEMMA EntryTyped ==
  ASSUME IInv, InputsType, SearchType, entry \subseteq Entries, [Next]_vars
  PROVE  (entry \subseteq Entries)'
<1>0. /\ IInv /\ Machine /\ Counters /\ BoundsInv
  BY DEF IInv
<1>1. UNCHANGED inputs
  BY DEF Next, TuneStep, Environment, Start, NextRung, FullFits, FullTooBig,
     FullFails, Bisect, ProbeFits, StopProbe, ProbeTooBig, ProbeFails, FinalFits,
     FinalFails, FallbackFits, FallbackFails, BudgetRunsOut, LoadCancelled,
     ContextKills, OtherLoads, DyingExits, LaunchOK, LaunchOOM, LaunchErr,
     memory, vars
<1>2. Entries' = Entries
  BY <1>1 DEF inputs, Entries, RungSet, MaxOffload
<1>3. MaxOffload \in Nat /\ MaxOffload >= 1 /\ Len(ladder) \in Nat
  BY <1>0, MaxOffloadNat, LadderLen DEF Machine
<1>4. \A c \in RungSet, o \in 0 .. MaxOffload, b \in {"measured", "fallback"} :
        Record(c, o, b) => entry' \subseteq Entries
  BY DEF Record, Entries
<1>5. pc \in {"full", "final"} => currentCtx \in RungSet
  BY <1>0, <1>3 DEF currentCtx, RungSet, Counters, BoundsInv
<1>6. CASE FullFits
  <2>1. Record(currentCtx, MaxOffload, "measured") /\ pc = "full"
    BY <1>6 DEF FullFits
  <2>2. MaxOffload \in 0 .. MaxOffload
    BY <1>3
  <2> QED
    BY <1>2, <1>4, <1>5, <2>1, <2>2
<1>7. CASE FinalFits
  <2>1. Record(currentCtx, best, "measured") /\ pc = "final"
    BY <1>7 DEF FinalFits
  <2>2. best \in 0 .. MaxOffload
    BY <1>0, <1>3, <2>1 DEF BoundsInv, Counters
  <2> QED
    BY <1>2, <1>4, <1>5, <2>1, <2>2
<1>8. CASE FallbackFits
  <2>1. Record(FallbackCtx, 0, "fallback")
    BY <1>8 DEF FallbackFits
  <2>2. 0 \in 0 .. MaxOffload
    BY <1>3
  <2> QED
    BY <1>0, <1>2, <1>4, <2>1, <2>2, FallbackOnLadder
<1>9. CASE entry' = entry
  BY <1>2, <1>9
<1> QED
  BY <1>6, <1>7, <1>8, <1>9
     DEF Next, TuneStep, Environment, Start, NextRung, FullTooBig, FullFails,
     Bisect, ProbeFits, StopProbe, ProbeTooBig, ProbeFails, FinalFails,
     FallbackFails, BudgetRunsOut, LoadCancelled, ContextKills, OtherLoads,
     DyingExits, vars

\* Where the counters are moved, they stay in range.
LEMMA SearchTyped ==
  ASSUME IInv, InputsType, SearchType, [Next]_vars
  PROVE  SearchType' /\ InputsType'
<1>0. /\ IInv /\ Machine /\ Counters /\ BoundsInv
  BY DEF IInv
<1>1. UNCHANGED inputs
  BY DEF Next, TuneStep, Environment, Start, NextRung, FullFits, FullTooBig,
     FullFails, Bisect, ProbeFits, StopProbe, ProbeTooBig, ProbeFails, FinalFits,
     FinalFails, FallbackFits, FallbackFails, BudgetRunsOut, LoadCancelled,
     ContextKills, OtherLoads, DyingExits, LaunchOK, LaunchOOM, LaunchErr,
     memory, vars
<1>2. MaxOffload' = MaxOffload /\ ladder' = ladder /\ InputsType'
  BY <1>1 DEF inputs, MaxOffload, InputsType, RungSet
<1>3. MaxOffload \in Nat /\ MaxOffload >= 1 /\ Len(ladder) \in Nat
  BY <1>0, MaxOffloadNat, LadderLen DEF Machine
<1>4. CASE UNCHANGED search
  BY <1>2, <1>4 DEF search, SearchType
<1>5. CASE FullTooBig /\ ~UNCHANGED search
  <2>1. low' = 0 /\ high' = MaxOffload - 1 /\ best' = -1 /\ rung' = rung
    BY <1>5 DEF FullTooBig
  <2> QED
    BY <1>2, <1>3, <2>1 DEF SearchType
<1>6. CASE Bisect /\ ~UNCHANGED search
  <2>1. rung' = rung + 1 /\ UNCHANGED <<low, high, best>> /\ pc = "bisect"
    BY <1>6 DEF Bisect
  <2>2. rung <= Len(ladder)
    BY <1>0, <2>1 DEF BoundsInv
  <2> QED
    BY <1>2, <1>3, <2>1, <2>2 DEF SearchType
<1>7. CASE (ProbeFits \/ StopProbe \/ ProbeTooBig) /\ ~UNCHANGED search
  <2>1. pc \in {"probe", "stopprobe"} /\ rung' = rung
    BY <1>7 DEF ProbeFits, StopProbe, ProbeTooBig
  <2>2. Mid \in Nat /\ Mid <= high /\ high < MaxOffload /\ high \in Int
    BY <1>0, <2>1, InProbe
  <2>3. /\ low' \in {low, Mid + 1} /\ high' \in {high, Mid - 1}
        /\ best' \in {best, Mid}
    BY <1>7 DEF ProbeFits, StopProbe, ProbeTooBig
  <2> QED
    BY <1>2, <1>3, <2>1, <2>2, <2>3 DEF SearchType
<1> QED
  BY <1>2, <1>4, <1>5, <1>6, <1>7
     DEF Next, TuneStep, Environment, Start, NextRung, FullFits, FullFails,
     ProbeFails, FinalFits, FinalFails, FallbackFits, FallbackFails,
     BudgetRunsOut, LoadCancelled, ContextKills, OtherLoads, DyingExits, vars

\* The place, the child, the flags and the memory.
LEMMA RestTyped ==
  ASSUME pc \in Places, ChildType, FlagsType, CrowdType, [Next]_vars
  PROVE  pc' \in Places /\ ChildType' /\ FlagsType' /\ CrowdType'
<1>1. pc' \in Places
  BY DEF Places, Ended, Next, TuneStep, Environment, Start, NextRung, FullFits,
     FullTooBig, FullFails, Bisect, ProbeFits, StopProbe, ProbeTooBig, ProbeFails,
     FinalFits, FinalFails, FallbackFits, FallbackFails, BudgetRunsOut,
     LoadCancelled, ContextKills, OtherLoads, DyingExits, Abandon, vars
<1>2. ChildType'
  <2>1. CASE ContextKills
    <3>1. child' = [child EXCEPT !.state = "killed"]
      BY <2>1 DEF ContextKills
    <3> QED
      BY <3>1 DEF ChildType
  <2>2. CASE child' = NoChild
    BY <2>2 DEF ChildType, NoChild
  <2>3. CASE \E c \in {"budget", "load", "rescue"} :
               child' = [state |-> "running", ctx |-> c]
    BY <2>3 DEF ChildType
  <2>4. CASE child' = child
    BY <2>4 DEF ChildType
  <2>5. FullTooBig \/ FullFails \/ StopProbe \/ ProbeTooBig \/ ProbeFails
        \/ FinalFails \/ FallbackFails => child' = NoChild
    BY DEF FullTooBig, FullFails, StopProbe, ProbeTooBig, ProbeFails, FinalFails,
       FallbackFails, LaunchOOM, LaunchErr, Stopped
  <2>6. FullFits \/ ProbeFits \/ FinalFits \/ FallbackFits =>
          \E c \in {"budget", "load", "rescue"} :
            child' = [state |-> "running", ctx |-> c]
    BY DEF FullFits, ProbeFits, FinalFits, FallbackFits, LaunchOK
  <2>7. Start \/ NextRung \/ Bisect \/ BudgetRunsOut \/ LoadCancelled
        \/ OtherLoads \/ DyingExits \/ UNCHANGED vars => child' = child
    BY DEF Start, NextRung, Bisect, BudgetRunsOut, LoadCancelled, OtherLoads,
       DyingExits, vars
  <2> QED
    BY <2>1, <2>2, <2>3, <2>4, <2>5, <2>6, <2>7 DEF Next, TuneStep, Environment
<1>3. FlagsType'
  BY DEF FlagsType, Next, TuneStep, Environment, Start, NextRung,
     FullFits, FullTooBig, FullFails, Bisect, ProbeFits, StopProbe, ProbeTooBig,
     ProbeFails, FinalFits, FinalFails, FallbackFits, FallbackFails,
     BudgetRunsOut, LoadCancelled, ContextKills, OtherLoads, DyingExits,
     LaunchOK, LaunchOOM, LaunchErr, vars
<1>4. CrowdType'
  BY DEF CrowdType, Next, TuneStep, Environment, Start, NextRung,
     FullFits, FullTooBig, FullFails, Bisect, ProbeFits, StopProbe, ProbeTooBig,
     ProbeFails, FinalFits, FinalFails, FallbackFits, FallbackFails,
     BudgetRunsOut, LoadCancelled, ContextKills, OtherLoads, DyingExits,
     LaunchOK, LaunchOOM, LaunchErr, Stopped, memory, vars
<1> QED
  BY <1>1, <1>2, <1>3, <1>4

TypeInv ==
  /\ IInv /\ InputsType /\ SearchType /\ entry \subseteq Entries
  /\ pc \in Places /\ ChildType /\ FlagsType /\ CrowdType

\* tune's counters, its entry and its child stay what they are declared to be,
\* for every model and every machine: the bisection's bounds never leave the
\* range of the offloads, and what is cached is a rung of the ladder.
THEOREM TypeCorrect == Spec => []TypeOK
<1>1. Init => TypeInv
  <2> SUFFICES ASSUME Init PROVE TypeInv
    OBVIOUS
  <2>1. IInv
    BY InitIInv
  <2>2. InputsType
    BY <2>1 DEF Init, InputsType, IInv, Machine, Built
  <2>3. SearchType
    BY <2>1, MaxOffloadNat, LadderLen DEF Init, SearchType, IInv, Machine
  <2>4. entry \subseteq Entries /\ pc \in Places /\ ChildType
    BY DEF Init, Places, ChildType, NoChild
  <2>5. FlagsType /\ CrowdType
    BY DEF Init, FlagsType, CrowdType
  <2> QED
    BY <2>1, <2>2, <2>3, <2>4, <2>5 DEF TypeInv
<1>2. TypeInv /\ [Next]_vars => TypeInv'
  BY NextIInv, EntryTyped, SearchTyped, RestTyped DEF TypeInv
<1>3. TypeInv => TypeOK
  BY DEF TypeInv, TypeOK, InputsType, SearchType, Entries, Places, ChildType,
     FlagsType, CrowdType
<1> QED
  BY <1>1, <1>2, <1>3, PTL DEF Spec
=============================================================================
