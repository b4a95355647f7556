------------------------------- MODULE Tuning -------------------------------
(***************************************************************************)
(* One run of Supervisor.tune (internal/supervisor/supervisor.go): the     *)
(* context ladder, the bisection of the offload on each rung, the budget,  *)
(* the fallback, and the contexts that the launched children live under.   *)
(*                                                                         *)
(* The machine is a function cap: with a context of c the model fits with  *)
(* an offload of at most cap[c] (-1: not at all), and a shorter context    *)
(* never fits less.  A launch can in addition fail for a reason that is not*)
(* memory, run out of memory because something else occupies the machine,  *)
(* or lose its context.                                                    *)
(*                                                                         *)
(* launchConfig (launch, wait for readiness, stop on failure) is one step. *)
(* tuningMu is held throughout, so there is one run at a time.             *)
(***************************************************************************)
EXTENDS ContextLadder

CONSTANTS
  GGUFs,       \* bound: the (ContextLength, BlockCount) pairs of the models
  Capacities   \* bound: the memory limits cap takes its values from

ASSUME GGUFsAssumption ==
  GGUFs \subseteq [ContextLength : Nat, BlockCount : Nat]
ASSUME CapacitiesAssumption == Capacities \subseteq Nat \cup {-1}

VARIABLES
  m,          \* the model: its ContextLength and BlockCount
  cap,        \* the machine: see above
  ladder,     \* the contexts to try, longest first
  pc,         \* where tune is
  rung,       \* index of currentCtx in ladder
  low, high,  \* the bisection's bounds, and bestCfg.Offload if found
  best,
  entry,      \* s.tuned[m.ID]: no entry, or one
  deadline,   \* the budget is spent
  cancelled,  \* loadCtx is cancelled
  child,      \* the instance tune holds, and the context it was launched with
  crowd,      \* what else is in memory: other models, stopped children that
              \* were killed and have not exited yet
  disturbed   \* history: a configuration that fits ran out of memory

inputs == <<m, cap, ladder>>
memory == <<inputs, crowd>>
search == <<rung, low, high, best>>
vars == <<memory, pc, search, entry, deadline, cancelled, child, disturbed>>

Ended == {"returned", "cancelled", "failed", "unservable"}

\* The fields of the GGUF header that may be missing, and their stand-ins.
CtxLen == IF m.ContextLength = 0 THEN 2048 ELSE m.ContextLength
MaxOffload == IF m.BlockCount = 0 THEN 100 ELSE m.BlockCount

RungSet == {ladder[i] : i \in 1 .. Len(ladder)}

FallbackCtx == IF CtxLen < 2048 THEN CtxLen ELSE 2048

Fits(ctx, offload) == offload <= cap[ctx]

NoChild == [state |-> "none", ctx |-> "none"]

TypeOK ==
  /\ m \in GGUFs
  /\ ladder \in Seq(Nat)
  /\ cap \in [RungSet -> Capacities]
  /\ pc \in {"idle", "rung", "full", "bisect", "probe", "stopprobe", "final",
             "fallback"} \cup Ended
  /\ rung \in 1 .. Len(ladder) + 1
  /\ low \in 0 .. MaxOffload
  /\ high \in -1 .. MaxOffload - 1
  /\ best \in -1 .. MaxOffload - 1
  /\ entry \subseteq [ctx : RungSet, offload : 0 .. MaxOffload,
                      by : {"measured", "fallback"}]
  /\ deadline \in BOOLEAN /\ cancelled \in BOOLEAN /\ disturbed \in BOOLEAN
  /\ child \in [state : {"none", "running", "killed"},
                ctx : {"none", "budget", "load", "rescue"}]
  /\ crowd \in [others : BOOLEAN, dying : BOOLEAN]

Init ==
  /\ m \in GGUFs
  /\ ladder = Ladder(CtxLen)
  /\ cap \in {f \in [RungSet -> Capacities] :
                \A c, d \in RungSet : c < d => f[d] <= f[c]}
  /\ pc = "idle"
  /\ rung = 1 /\ low = 0 /\ high = -1 /\ best = -1
  /\ entry = {}
  /\ deadline = FALSE /\ cancelled = FALSE /\ disturbed = FALSE
  /\ child = NoChild
  /\ crowd \in [others : BOOLEAN, dying : {FALSE}]

-----------------------------------------------------------------------------
(* Contexts and launches.                                                  *)

\* budgetCtx is derived from loadCtx, and cancelled when tune returns; so is
\* the context fallback makes for itself once loadCtx is gone.
BudgetErr == deadline \/ cancelled

CtxDone(ctx) ==
  \/ ctx = "budget" /\ (BudgetErr \/ pc \in Ended)
  \/ ctx = "load" /\ cancelled
  \/ ctx = "rescue" /\ pc \in Ended

MutAbandon == pc' = "fallback"

\* "if budgetCtx.Err() != nil": tune ends if its callers are gone and falls
\* back if only its time is up.
Abandon == pc' = IF cancelled THEN "cancelled" ELSE "fallback"

\* stopInstance gives a child five seconds, kills it and does not wait: it may
\* still hold memory when the next one starts.
Stopped ==
  /\ child' = NoChild
  /\ crowd' \in {crowd, [crowd EXCEPT !.dying = TRUE]}

\* launchConfig at (ctxLen, offload): the child is up and ready,
LaunchOK(ctxLen, offload, ctx) ==
  /\ Fits(ctxLen, offload) /\ ~CtxDone(ctx)
  /\ child' = [state |-> "running", ctx |-> ctx]
  /\ UNCHANGED <<inputs, crowd, disturbed, deadline, cancelled>>

\* or it exits and reports out of memory, for its own size or for what is
\* beside it,
LaunchOOM(ctxLen, offload) ==
  /\ ~Fits(ctxLen, offload) \/ crowd.others \/ crowd.dying
  /\ disturbed' = (disturbed \/ Fits(ctxLen, offload))
  /\ child' = NoChild
  /\ UNCHANGED <<inputs, crowd, deadline, cancelled>>

\* or fails otherwise: its context is done, it is not ready in 30 seconds, it
\* crashes, or the end of its stderr was not read before it was classified.
LaunchErr ==
  /\ Stopped
  /\ UNCHANGED <<inputs, deadline, cancelled, disturbed>>

Record(ctxLen, offload, by) ==
  entry' = {[ctx |-> ctxLen, offload |-> offload, by |-> by]}

-----------------------------------------------------------------------------
(* tune.                                                                   *)

\* tuningMu is ours; evictAllResidentInstances.
Start ==
  /\ pc = "idle"
  /\ pc' = "rung"
  /\ crowd' \in [others : {FALSE}, dying : {crowd.dying, crowd.others}]
  /\ UNCHANGED <<inputs, search, entry, deadline, cancelled, child, disturbed>>

currentCtx == ladder[rung]

\* The loop over the ladder.
NextRung ==
  /\ pc = "rung"
  /\ IF rung > Len(ladder) THEN pc' = "unservable"
     ELSE IF BudgetErr THEN Abandon
     ELSE pc' = "full"
  /\ UNCHANGED <<memory, search, entry, deadline, cancelled, child, disturbed>>

\* Everything offloaded: it fits and is kept,
FullFits ==
  /\ pc = "full"
  /\ LaunchOK(currentCtx, MaxOffload, "budget")
  /\ Record(currentCtx, MaxOffload, "measured")
  /\ pc' = "returned"
  /\ UNCHANGED search

MutFullTooBigHigh ==
  /\ pc = "full"
  /\ LaunchOOM(currentCtx, MaxOffload)
  /\ IF BudgetErr THEN Abandon /\ UNCHANGED search
     ELSE /\ pc' = "bisect"
          /\ low' = 0 /\ high' = MaxOffload /\ best' = -1
          /\ UNCHANGED rung
  /\ UNCHANGED entry

MutFullTooBig ==
  /\ pc = "full"
  /\ LaunchOOM(currentCtx, MaxOffload)
  /\ IF BudgetErr THEN Abandon /\ UNCHANGED search
     ELSE /\ pc' = "bisect"
          /\ low' = 0 /\ high' = MaxOffload - 2 /\ best' = -1
          /\ UNCHANGED rung
  /\ UNCHANGED entry

\* or it does not, and the bisection starts,
FullTooBig ==
  /\ pc = "full"
  /\ LaunchOOM(currentCtx, MaxOffload)
  /\ IF BudgetErr THEN Abandon /\ UNCHANGED search
     ELSE /\ pc' = "bisect"
          /\ low' = 0 /\ high' = MaxOffload - 1 /\ best' = -1
          /\ UNCHANGED rung
  /\ UNCHANGED entry

FullFails ==
  /\ pc = "full"
  /\ LaunchErr
  /\ IF BudgetErr THEN Abandon ELSE pc' = "failed"
  /\ UNCHANGED <<search, entry>>

\* The loop of the bisection.
Bisect ==
  /\ pc = "bisect"
  /\ IF low > high
       THEN IF best >= 0
              THEN pc' = "final" /\ UNCHANGED search
              ELSE /\ pc' = "rung" /\ rung' = rung + 1
                   /\ UNCHANGED <<low, high, best>>
       ELSE /\ IF BudgetErr THEN Abandon ELSE pc' = "probe"
            /\ UNCHANGED search
  /\ UNCHANGED <<memory, entry, deadline, cancelled, child, disturbed>>

Mid == low + (high - low) \div 2

ProbeFits ==
  /\ pc = "probe"
  /\ LaunchOK(currentCtx, Mid, "budget")
  /\ best' = Mid
  /\ pc' = "stopprobe"
  /\ UNCHANGED <<rung, low, high, entry>>

MutStopProbeNoStop ==
  /\ pc = "stopprobe"
  /\ low' = Mid + 1
  /\ pc' = "bisect"
  /\ UNCHANGED <<inputs, crowd, child, rung, high, best, entry, deadline,
                 cancelled, disturbed>>

MutStopProbe ==
  /\ pc = "stopprobe"
  /\ Stopped
  /\ low' = Mid
  /\ pc' = "bisect"
  /\ UNCHANGED <<inputs, rung, high, best, entry, deadline, cancelled,
                 disturbed>>

StopProbe ==
  /\ pc = "stopprobe"
  /\ Stopped
  /\ low' = Mid + 1
  /\ pc' = "bisect"
  /\ UNCHANGED <<inputs, rung, high, best, entry, deadline, cancelled,
                 disturbed>>

ProbeTooBig ==
  /\ pc = "probe"
  /\ LaunchOOM(currentCtx, Mid)
  /\ IF BudgetErr THEN Abandon /\ UNCHANGED search
     ELSE /\ pc' = "bisect" /\ high' = Mid - 1
          /\ UNCHANGED <<rung, low, best>>
  /\ UNCHANGED entry

ProbeFails ==
  /\ pc = "probe"
  /\ LaunchErr
  /\ IF BudgetErr THEN Abandon ELSE pc' = "failed"
  /\ UNCHANGED <<search, entry>>

\* The best configuration is launched once more, to be kept.
FinalFits ==
  /\ pc = "final"
  /\ LaunchOK(currentCtx, best, "budget")
  /\ Record(currentCtx, best, "measured")
  /\ pc' = "returned"
  /\ UNCHANGED search

FinalFails ==
  /\ pc = "final"
  /\ LaunchErr \/ LaunchOOM(currentCtx, best)
  /\ IF BudgetErr THEN Abandon ELSE pc' = "failed"
  /\ UNCHANGED <<search, entry>>

\* fallback, with loadCtx if that is still alive.
FallbackFits ==
  /\ pc = "fallback"
  /\ LaunchOK(FallbackCtx, 0, IF cancelled THEN "rescue" ELSE "load")
  /\ Record(FallbackCtx, 0, "fallback")
  /\ pc' = "returned"
  /\ UNCHANGED search

FallbackFails ==
  /\ pc = "fallback"
  /\ LaunchErr
  /\ pc' = "failed"
  /\ UNCHANGED <<search, entry>>

-----------------------------------------------------------------------------
(* What happens beside it.                                                 *)

BudgetRunsOut ==
  /\ pc \notin {"idle"} \cup Ended /\ ~deadline
  /\ deadline' = TRUE
  /\ UNCHANGED <<memory, pc, search, entry, cancelled, child, disturbed>>

\* The last caller's monitor, or evictByID, cancels the load.
LoadCancelled ==
  /\ pc # "idle" /\ ~cancelled
  /\ cancelled' = TRUE
  /\ UNCHANGED <<memory, pc, search, entry, deadline, child, disturbed>>

\* exec.CommandContext: a child whose context is done is killed.
ContextKills ==
  /\ child.state = "running" /\ CtxDone(child.ctx)
  /\ child' = [child EXCEPT !.state = "killed"]
  /\ UNCHANGED <<memory, pc, search, entry, deadline, cancelled, disturbed>>

\* A model with a pin or a cached entry is launched without tuningMu; one
\* that was tuned before this run may be registered only now.
OtherLoads ==
  /\ ~crowd.others
  /\ crowd' = [crowd EXCEPT !.others = TRUE]
  /\ UNCHANGED <<inputs, pc, search, entry, deadline, cancelled, child,
                 disturbed>>

DyingExits ==
  /\ crowd.dying
  /\ crowd' = [crowd EXCEPT !.dying = FALSE]
  /\ UNCHANGED <<inputs, pc, search, entry, deadline, cancelled, child,
                 disturbed>>

-----------------------------------------------------------------------------
TuneStep ==
  \/ Start \/ NextRung
  \/ FullFits \/ FullTooBig \/ FullFails
  \/ Bisect \/ ProbeFits \/ StopProbe \/ ProbeTooBig \/ ProbeFails
  \/ FinalFits \/ FinalFails
  \/ FallbackFits \/ FallbackFails

Environment ==
  BudgetRunsOut \/ LoadCancelled \/ ContextKills \/ OtherLoads \/ DyingExits

Next == TuneStep \/ Environment

Spec == Init /\ [][Next]_vars

\* Every launch returns: readiness is waited for under a 30 s deadline.
FairSpec == Spec /\ WF_vars(TuneStep)

-----------------------------------------------------------------------------
(* Properties.                                                             *)

\* The longest context of the ladder that fits at all, with the largest offload
\* that fits there.
Best(ctxLen, offload) ==
  /\ Fits(ctxLen, offload)
  /\ offload < MaxOffload => ~Fits(ctxLen, offload + 1)
  /\ \E i \in 1 .. Len(ladder) :
       ctxLen = ladder[i] /\ \A j \in 1 .. i - 1 : ~Fits(ladder[j], 0)

\* The promise of Tuning: unless a launch was disturbed by something else in
\* memory, what is measured and cached is the longest context of the ladder
\* that fits at all, with the largest offload that fits there; neither the
\* bisection's arithmetic nor its early exits lose a layer or skip a rung.
TunedBest ==
  \A e \in entry : e.by = "measured" /\ ~disturbed => Best(e.ctx, e.offload)

\* The loop over the eight candidate steps yields exactly the model's own
\* context and the standard steps below it, longest first and none twice, for
\* a length on a step, between two and below all of them.
LadderDescends ==
  /\ RungSet = {CtxLen} \cup {step \in Steps : step < CtxLen}
  /\ \A i \in 1 .. Len(ladder) - 1 : ladder[i] > ladder[i + 1]

\* Only one child of the run is ever up: a probe is stopped before the next
\* launch, and a run that ends with an error leaves none behind.
ProbesDoNotOverlap ==
  child.state = "running" => pc \in {"stopprobe", "returned"}

\* A client that goes away does not leave the conservative fallback in the
\* cache: it is recorded only if the budget really ran out.
FallbackOnlyOnDeadline ==
  \A e \in entry : e.by = "fallback" => deadline

\* Tuning ends, whatever fits and whatever fails.
TuningTerminates == pc = "rung" ~> pc \in Ended

-----------------------------------------------------------------------------
(* What the tests expect and the code does not do.                         *)

\* The instance tune returns is there to serve the request: its context is
\* not ended by tune itself, only by the load's.
ReturnedInstanceSurvives ==
  pc = "returned" /\ child.state = "killed" => cancelled
=============================================================================
