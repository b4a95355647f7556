------------------------- MODULE ChildProcessProofs -------------------------
(***************************************************************************)
(* Proofs about ChildProcess, for any number of callers of Stop, any       *)
(* capacity of the pipe and any number of lines.                           *)
(***************************************************************************)
EXTENDS ChildProcess, TLAPS

-----------------------------------------------------------------------------
(* Lines that move from one buffer to the next.                            *)

\* Write, and scanStderr's append to stderrBuf.
LEMMA ContainsAppend ==
  ASSUME NEW s \in Seq(Lines), NEW e \in Lines, NEW x
  PROVE  Contains(Append(s, e), x) <=> Contains(s, x) \/ x = e
<1> DEFINE t == Append(s, e)
<1>1. /\ Len(t) = Len(s) + 1 /\ t[Len(s) + 1] = e /\ Len(s) \in Nat
      /\ \A i \in 1 .. Len(s) : t[i] = s[i]
  OBVIOUS
<1> HIDE DEF t
<1>2. Contains(t, x) <=> Contains(s, x) \/ x = e
  BY <1>1 DEF Contains
<1> QED
  BY <1>2 DEF t

\* scanStderr takes the first line of what it holds.
LEMMA ContainsHeadTail ==
  ASSUME NEW s \in Seq(Lines), s # <<>>
  PROVE  /\ Head(s) \in Lines /\ Tail(s) \in Seq(Lines)
         /\ Contains(s, Head(s))
         /\ \A x : Contains(Tail(s), x) => Contains(s, x)
<1>1. /\ Len(s) \in Nat \ {0} /\ Head(s) = s[1] /\ Head(s) \in Lines
      /\ Tail(s) \in Seq(Lines) /\ Len(Tail(s)) = Len(s) - 1
      /\ \A i \in 1 .. Len(s) - 1 : Tail(s)[i] = s[i + 1]
  OBVIOUS
<1>2. Contains(s, Head(s))
  BY <1>1 DEF Contains
<1>3. \A x : Contains(Tail(s), x) => Contains(s, x)
  BY <1>1 DEF Contains
<1> QED
  BY <1>1, <1>2, <1>3

\* A buffer that was taken over or closed.
LEMMA ContainsEmpty == \A x : ~Contains(<<>>, x)
BY DEF Contains

-----------------------------------------------------------------------------
(* The inductive invariant.                                                *)

\* The buffers hold lines.
BufferInv ==
  /\ written \in Seq(Lines) /\ pipe \in Seq(Lines)
  /\ held \in Seq(Lines) /\ buf \in Seq(Lines)

\* Whatever is read was written.
LineInv ==
  \A x \in Lines :
    Contains(pipe, x) \/ Contains(held, x) \/ Contains(buf, x) => Contains(written, x)

\* stderrBuf only grows.
HeardInv == heard => Contains(buf, "oom")

\* Nobody marks the instance stopped while launchConfig polls; cmd.Wait returns
\* after the exit; and when done is closed, exitErr is in place.
ExitInv ==
  /\ ready = "polling" => ~stopped
  /\ reaper \in {"reaped", "done"} => proc = "exited"
  /\ reaper = "done" =>
       /\ exitErr \in {"nil", "oom", "other"}
       /\ exitErr = "nil" => stopped \/ cause = "exit0"
       /\ exitErr = "oom" => cause = "kill" \/ Contains(written, "oom")
       /\ exitErr = "other" => cause # "kill" /\ ~heard

\* What launchConfig returns is what was published, whoever calls Stop later.
ReadyInv ==
  /\ ready = "oom" => reaper = "done" /\ exitErr = "oom"
  /\ ready = "failed" => reaper = "done" /\ (exitErr = "other" \/ cause = "exit0")

Inv == BufferInv /\ LineInv /\ HeardInv /\ ExitInv /\ ReadyInv

\* cmd.Start has returned.
LEMMA InvInit == Init => Inv
BY ContainsEmpty DEF Init, Inv, BufferInv, LineInv, HeardInv, ExitInv, ReadyInv

\* Every step of the child and of the goroutines keeps the invariant.
LEMMA InvStep == Inv /\ [Next]_vars => Inv'
<1> SUFFICES ASSUME Inv, [Next]_vars PROVE Inv'
  OBVIOUS
<1>0. BufferInv /\ LineInv /\ HeardInv /\ ExitInv /\ ReadyInv
  BY DEF Inv
<1> USE <1>0 DEF procVars, readVars, waitVars, callVars
<1>1. ASSUME NEW line \in Lines, Write(line) PROVE Inv'
  <2>1. /\ proc # "exited" /\ written' = Append(written, line) /\ pipe' = Append(pipe, line)
        /\ UNCHANGED <<proc, cause, held, scanner, buf, reaper, exitErr, heard,
                       stopped, ready>>
    BY <1>1 DEF Write
  <2>2. BufferInv'
    BY <2>1 DEF BufferInv
  <2>3. \A x \in Lines : /\ Contains(written', x) <=> Contains(written, x) \/ x = line
                         /\ Contains(pipe', x) <=> Contains(pipe, x) \/ x = line
    BY <2>1, ContainsAppend DEF BufferInv
  <2>4. LineInv' /\ HeardInv'
    BY <2>1, <2>3 DEF LineInv, HeardInv, Lines
  <2>5. ExitInv' /\ ReadyInv'
    BY <2>1 DEF ExitInv, ReadyInv
  <2> QED
    BY <2>2, <2>4, <2>5 DEF Inv
<1>2. ASSUME NEW how \in {"exit0", "fail", "kill"}, Exits(how) PROVE Inv'
  BY <1>2 DEF Exits, Ends, Inv, BufferInv, LineInv, HeardInv, ExitInv, ReadyInv
<1>3. CASE PortTaken \/ Serves \/ Cancel
  BY <1>3 DEF PortTaken, Serves, Cancel, Inv, BufferInv, LineInv, HeardInv, ExitInv, ReadyInv
<1>4. CASE CtxKills
  BY <1>4 DEF CtxKills, Ends, Inv, BufferInv, LineInv, HeardInv, ExitInv, ReadyInv
<1>5. CASE ScanRead
  BY <1>5, ContainsEmpty DEF ScanRead, Inv, BufferInv, LineInv, HeardInv, ExitInv, ReadyInv
<1>6. CASE ScanLine
  <2>1. /\ held # <<>> /\ UNCHANGED <<proc, cause, written, pipe, reaper, exitErr, heard,
                                      stopped, ready>>
    BY <1>6 DEF ScanLine
  <2>2. /\ Head(held) \in Lines /\ Tail(held) \in Seq(Lines) /\ Contains(held, Head(held))
        /\ \A x \in Lines : Contains(Tail(held), x) => Contains(held, x)
    BY <2>1, ContainsHeadTail DEF BufferInv
  <2>3. CASE Head(held) = "long"
    <3>1. held' = <<>> /\ buf' = buf /\ Contains(written, "long")
      BY <1>6, <2>2, <2>3 DEF ScanLine, LineInv
    <3> QED
      BY <2>1, <3>1, ContainsEmpty
      DEF Inv, BufferInv, LineInv, HeardInv, ExitInv, ReadyInv
  <2>4. CASE Head(held) # "long"
    <3>1. held' = Tail(held) /\ buf' = Append(buf, Head(held)) /\ scanner' = scanner
      BY <1>6, <2>4 DEF ScanLine
    <3>2. \A x \in Lines : Contains(buf', x) <=> Contains(buf, x) \/ x = Head(held)
      BY <2>2, <3>1, ContainsAppend DEF BufferInv
    <3>3. BufferInv' /\ LineInv'
      BY <2>1, <2>2, <3>1, <3>2 DEF BufferInv, LineInv
    <3>4. Contains(buf, "oom") => Contains(buf', "oom")
      BY <3>2 DEF Lines
    <3> QED
      BY <2>1, <3>1, <3>3, <3>4 DEF Inv, HeardInv, ExitInv, ReadyInv
  <2> QED
    BY <2>3, <2>4
<1>7. CASE ScanEnds
  BY <1>7 DEF ScanEnds, Inv, BufferInv, LineInv, HeardInv, ExitInv, ReadyInv
<1>8. CASE Reap
  BY <1>8, ContainsEmpty DEF Reap, Inv, BufferInv, LineInv, HeardInv, ExitInv, ReadyInv
<1>9. CASE Publish
  <2>1. UNCHANGED <<proc, cause, written, pipe, held, scanner, buf, stopped, ready>>
    BY <1>9 DEF Publish
  <2>2. ExitInv'
    <3>1. /\ proc' = "exited" /\ (ready' = "polling" => ~stopped')
      BY <1>9, <2>1 DEF Publish, ExitInv
    <3>2. Contains(buf, "oom") => Contains(written, "oom")
      BY DEF LineInv, Lines
    <3>3. heard' = heard /\ (heard => Contains(buf, "oom"))
      BY <1>9 DEF Publish, HeardInv
    <3>4. exitErr' = IF stopped \/ cause = "exit0" THEN "nil"
                     ELSE IF cause = "kill" \/ Contains(buf, "oom") THEN "oom"
                     ELSE "other"
      BY <1>9 DEF Publish, isOOMFailure
    <3> QED
      BY <2>1, <3>1, <3>2, <3>3, <3>4 DEF ExitInv
  <2> QED
    BY <1>9, <2>1, <2>2 DEF Publish, Inv, BufferInv, LineInv, HeardInv, ReadyInv
<1>10. CASE HealthOK \/ ReadyTimesOut
  BY <1>10 DEF HealthOK, ReadyTimesOut, Inv, BufferInv, LineInv, HeardInv, ExitInv, ReadyInv
<1>11. CASE ExitBeforeReady
  BY <1>11 DEF ExitBeforeReady, Inv, BufferInv, LineInv, HeardInv, ExitInv, ReadyInv
<1>12. ASSUME NEW c \in Callers, StopCalled(c) PROVE Inv'
  BY <1>12 DEF StopCalled, Inv, BufferInv, LineInv, HeardInv, ExitInv, ReadyInv
<1>13. ASSUME NEW c \in Callers, StopReturns(c) PROVE Inv'
  BY <1>13 DEF StopReturns, Inv, BufferInv, LineInv, HeardInv, ExitInv, ReadyInv
<1>14. ASSUME NEW c \in Callers, StopExpires(c) PROVE Inv'
  BY <1>14 DEF StopExpires, Ends, Inv, BufferInv, LineInv, HeardInv, ExitInv, ReadyInv
<1>15. CASE UNCHANGED vars
  BY <1>15 DEF vars, Inv, BufferInv, LineInv, HeardInv, ExitInv, ReadyInv
<1> QED
  BY <1>1, <1>2, <1>3, <1>4, <1>5, <1>6, <1>7, <1>8, <1>9, <1>10, <1>11, <1>12,
     <1>13, <1>14, <1>15 DEF Next, ScanStep, LaunchStep, StopStep, Callers

\* The invariant holds in every state of every behaviour.
THEOREM Invariance == Spec => []Inv
BY InvInit, InvStep, PTL DEF Spec

\* launchConfig reports an exit as it was classified: a child that had been heard
\* to be out of memory when cmd.Wait returned, or was killed, is never reported as
\* something else, and no other failure as out of memory.
THEOREM OOMReachesTunerHolds == Spec => []OOMReachesTuner
<1>1. Inv => OOMReachesTuner
  BY DEF Inv, ExitInv, ReadyInv, OOMReachesTuner
<1> QED
  BY <1>1, Invariance, PTL
=============================================================================
