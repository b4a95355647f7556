---------------------------- MODULE ChildProcess ----------------------------
(***************************************************************************)
(* One llama-server child and the goroutines around it (internal/host/     *)
(* real.go, launchConfig in supervisor.go): scanStderr reads its standard  *)
(* error, another goroutine waits for its exit and classifies it, launch-  *)
(* Config polls its health, Stop is called from several places, and the    *)
(* context it was started under kills it.                                  *)
(*                                                                         *)
(* A line of standard error is "log", "oom" (one of isOOMFailure's         *)
(* patterns) or "long" (more than bufio.Scanner takes).                    *)
(***************************************************************************)
EXTENDS Integers, Sequences, SequencesExt

CONSTANTS
  Stoppers,  \* the goroutines that call Stop; launchConfig is one more
  PipeCap,   \* lines the kernel keeps for a reader before the writer blocks
  MaxLines   \* bound: lines the child writes

ASSUME PipeAssumption == PipeCap \in Nat \ {0} /\ MaxLines \in Nat

Launcher == "launcher"
Callers == Stoppers \cup {Launcher}
Lines == {"log", "oom", "long"}

VARIABLES
  proc,      \* the process
  cause,     \* how it ended
  port,      \* who listens on the port that getFreePort found and let go
  written,   \* every line the child wrote
  pipe,      \* the lines in the pipe
  held,      \* the lines in scanStderr's buffer
  scanner,   \* scanStderr
  buf,       \* stderrBuf
  reaper,    \* the goroutine in cmd.Wait; done is closed when it is "done"
  exitErr,   \* inst.exitErr
  heard,     \* history: stderrBuf had the line "oom" when cmd.Wait returned
  stopped,   \* inst.stopped
  ctxDone,   \* the context of exec.CommandContext, and of WaitReady, is done
  ready,     \* launchConfig
  stop       \* each caller of Stop

procVars == <<proc, cause, port, written>>
readVars == <<pipe, held, scanner, buf>>
waitVars == <<reaper, exitErr, heard>>
callVars == <<stopped, ctxDone, ready, stop>>
vars == <<procVars, readVars, waitVars, callVars>>

\* cmd.Start has returned and both goroutines run.
Init ==
  /\ proc = "starting" /\ cause = "none" /\ port = "free" /\ written = <<>>
  /\ pipe = <<>> /\ held = <<>> /\ scanner = "reading" /\ buf = <<>>
  /\ reaper = "wait" /\ exitErr = "nil" /\ heard = FALSE
  /\ stopped = FALSE /\ ctxDone = FALSE /\ ready = "polling"
  /\ stop = [c \in Callers |-> "idle"]

-----------------------------------------------------------------------------
(* The child.                                                              *)

\* A write blocks while the pipe is full.
Write(line) ==
  /\ proc # "exited" /\ Len(pipe) < PipeCap /\ Len(written) < MaxLines
  /\ written' = Append(written, line) /\ pipe' = Append(pipe, line)
  /\ UNCHANGED <<proc, cause, port, held, scanner, buf, waitVars, callVars>>

\* getFreePort closed its listener: anybody may take the port before the child.
PortTaken ==
  /\ port = "free" /\ port' = "other"
  /\ UNCHANGED <<proc, cause, written, readVars, waitVars, callVars>>

Serves ==
  /\ proc = "starting" /\ port = "free"
  /\ proc' = "serving" /\ port' = "child"
  /\ UNCHANGED <<cause, written, readVars, waitVars, callVars>>

Ends(how) ==
  /\ proc # "exited"
  /\ proc' = "exited" /\ cause' = how
  /\ port' = IF port = "child" THEN "free" ELSE port

\* It fails by itself, answers the interrupt, or is killed by the kernel's OOM
\* killer, which is not something the supervisor sees.
Exits(how) ==
  /\ Ends(how)
  /\ UNCHANGED <<written, readVars, waitVars, callVars>>

\* exec.CommandContext.
CtxKills ==
  /\ ctxDone /\ Ends("kill")
  /\ UNCHANGED <<written, readVars, waitVars, callVars>>

-----------------------------------------------------------------------------
(* scanStderr.                                                             *)

\* One read takes what the pipe holds.
ScanRead ==
  /\ scanner = "reading" /\ held = <<>> /\ pipe # <<>>
  /\ held' = pipe /\ pipe' = <<>>
  /\ UNCHANGED <<procVars, scanner, buf, waitVars, callVars>>

\* One line, under inst.mu.  A line that is too long ends the scan for good.
ScanLine ==
  /\ scanner = "reading" /\ held # <<>>
  /\ IF Head(held) = "long"
       THEN scanner' = "ended" /\ held' = <<>> /\ UNCHANGED buf
       ELSE held' = Tail(held) /\ buf' = Append(buf, Head(held)) /\ UNCHANGED scanner
  /\ UNCHANGED <<procVars, pipe, waitVars, callVars>>

\* The other end is closed, or Wait has closed this one.
ScanEnds ==
  /\ scanner = "reading" /\ held = <<>> /\ pipe = <<>> /\ proc = "exited"
  /\ scanner' = "ended"
  /\ UNCHANGED <<procVars, pipe, held, buf, waitVars, callVars>>

-----------------------------------------------------------------------------
(* The goroutine that waits.                                               *)

MutReap ==
  /\ reaper = "wait" /\ proc = "exited"
  /\ reaper' = "done" /\ pipe' = <<>>
  /\ heard' = Contains(buf, "oom")
  /\ UNCHANGED <<procVars, held, scanner, buf, exitErr, callVars>>

\* cmd.Wait returns, and has closed the pipe with what was in it.
Reap ==
  /\ reaper = "wait" /\ proc = "exited"
  /\ reaper' = "reaped" /\ pipe' = <<>>
  /\ heard' = Contains(buf, "oom")
  /\ UNCHANGED <<procVars, held, scanner, buf, exitErr, callVars>>

\* SIGKILL, whoever sent it, or a line that was recorded by now.
isOOMFailure == cause = "kill" \/ Contains(buf, "oom")

\* Under inst.mu: exitErr, then close(done).
Publish ==
  /\ reaper = "reaped" /\ reaper' = "done"
  /\ exitErr' = IF stopped \/ cause = "exit0" THEN "nil"
                ELSE IF isOOMFailure THEN "oom" ELSE "other"
  /\ UNCHANGED <<procVars, readVars, heard, callVars>>

-----------------------------------------------------------------------------
(* launchConfig: WaitReady, and Stop if it fails.                          *)

\* GET /health is answered by whoever has the port.
HealthOK ==
  /\ ready = "polling" /\ port # "free"
  /\ ready' = "ready"
  /\ UNCHANGED <<procVars, readVars, waitVars, stopped, ctxDone, stop>>

\* What launchConfig returns is an out-of-memory error to its caller or not.
ExitBeforeReady ==
  /\ ready = "polling" /\ reaper = "done"
  /\ ready' = IF exitErr = "oom" THEN "oom" ELSE "failed"
  /\ UNCHANGED <<procVars, readVars, waitVars, stopped, ctxDone, stop>>

ReadyTimesOut ==
  /\ ready = "polling"
  /\ ready' = "ctx"
  /\ UNCHANGED <<procVars, readVars, waitVars, stopped, ctxDone, stop>>

\* The load, or the tuning run it is a probe of, is over or cancelled.
Cancel ==
  /\ ~ctxDone /\ ctxDone' = TRUE
  /\ UNCHANGED <<procVars, readVars, waitVars, stopped, ready, stop>>

-----------------------------------------------------------------------------
(* Stop.                                                                   *)

\* The first caller marks the instance and interrupts the child; launchConfig
\* calls Stop if the child was not ready in time, the others once it was.
StopCalled(c) ==
  /\ stop[c] = "idle"
  /\ ready \in IF c = Launcher THEN {"ctx", "oom", "failed"} ELSE {"ready"}
  /\ stop' = [stop EXCEPT ![c] = "wait"]
  /\ stopped' = TRUE
  /\ UNCHANGED <<procVars, readVars, waitVars, ctxDone, ready>>

StopReturns(c) ==
  /\ stop[c] = "wait" /\ reaper = "done"
  /\ stop' = [stop EXCEPT ![c] = "nil"]
  /\ UNCHANGED <<procVars, readVars, waitVars, stopped, ctxDone, ready>>

MutStopExpires(c) ==
  /\ stop[c] = "wait"
  /\ stop' = [stop EXCEPT ![c] = "err"]
  /\ UNCHANGED <<procVars, readVars, waitVars, stopped, ctxDone, ready>>

\* The caller's time is up: the child is killed, if it is still there.
StopExpires(c) ==
  /\ stop[c] = "wait"
  /\ stop' = [stop EXCEPT ![c] = "err"]
  /\ IF proc = "exited" THEN UNCHANGED procVars ELSE Ends("kill") /\ UNCHANGED written
  /\ UNCHANGED <<readVars, waitVars, stopped, ctxDone, ready>>

ScanStep == ScanRead \/ ScanLine \/ ScanEnds
LaunchStep == ReadyTimesOut \/ ExitBeforeReady \/ StopCalled(Launcher)
StopStep(c) == StopReturns(c) \/ StopExpires(c)

Next ==
  \/ \E line \in Lines : Write(line)
  \/ \E how \in {"exit0", "fail", "kill"} : Exits(how)
  \/ PortTaken \/ Serves \/ CtxKills \/ Cancel
  \/ ScanStep \/ Reap \/ Publish
  \/ LaunchStep \/ HealthOK
  \/ \E c \in Stoppers : StopCalled(c)
  \/ \E c \in Callers : StopStep(c)

Spec == Init /\ [][Next]_vars

\* The goroutines run, WaitReady and Stop have time limits, a done context
\* kills.  The child need not do anything, nor anybody call Stop on it.
Fairness ==
  /\ WF_vars(ScanStep) /\ WF_vars(Reap \/ Publish) /\ WF_vars(CtxKills)
  /\ WF_vars(LaunchStep) /\ \A c \in Callers : WF_vars(StopStep(c))

FairSpec == Spec /\ Fairness

-----------------------------------------------------------------------------
(* Properties.                                                             *)

\* Tuning goes on only if it learns that a child ran out of memory.  What
\* scanStderr had recorded of it when cmd.Wait returned reaches launchConfig,
\* through two goroutines and the close of done; a killed child is always
\* reported as out of memory; and nothing is that did not say so.
OOMReachesTuner ==
  /\ ready = "failed" /\ heard => cause = "exit0"
  /\ ready = "failed" => cause # "kill"
  /\ ready = "oom" => cause = "kill" \/ Contains(written, "oom")

\* TestRealHost_OOMClassification: a child that writes that it is out of memory,
\* with no line too long to scan, and fails is classified so once done is closed.
\* False of the code: cmd.Wait does not wait for scanStderr, and closes the pipe.
OOMClassified ==
  reaper = "done" /\ cause = "fail" /\ ~stopped /\ Contains(written, "oom")
    /\ ~Contains(written, "long") => exitErr = "oom"

\* A child on which Stop was called is gone in the end, whatever it does with
\* the interrupt and however many call; and so is one that was never ready, as
\* launchConfig stops it.
StopEndsChild ==
  /\ \A c \in Stoppers : stop[c] = "wait" ~> proc = "exited"
  /\ ready \in {"ctx", "oom", "failed"} ~> proc = "exited"
=============================================================================
