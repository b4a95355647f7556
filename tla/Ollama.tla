------------------------------- MODULE Ollama -------------------------------
(***************************************************************************)
(* Concurrent requests to the Ollama endpoints (ollama.go): /api/chat and  *)
(* /api/generate, streamed or not, through serveOllamaCompletion, and      *)
(* /api/embed.  Each resolves its model, may set the model's idle TTL by   *)
(* its keep_alive (SetModelTTL: first under s.mu, then under ri.mu), gets  *)
(* an instance, and turns the child's answer into its own.                 *)
(*                                                                         *)
(* The catalogue does not change and one model of it is asked for; its     *)
(* loads are numbered, each shared by the requests that come while it is   *)
(* under way, and an instance has the number of its load.  It leaves the   *)
(* registry at any time (Registry and SlotGate say when).                  *)
(***************************************************************************)
EXTENDS Config

CONSTANTS
  Requests,
  Catalogue, Refs,   \* s.models, and the names that clients use
  Target,            \* the model that a ref of Refs resolves to
  KeepAlives,        \* the keep_alive fields of the requests
  Chunks,            \* the pieces of text that a child sends
  modelTTLs0, cfgTTL, DefaultTTL,  \* WithModelTTL, configTTL, WithDefaultTTL
  MaxDuration,       \* the largest time.Duration
  MaxLoads, MaxChunks \* bounds: loads, and pieces of an answer

ASSUME TargetAssumption ==
  \A ref \in Refs : Matches(Catalogue, ref) = {Target} \/
                    Target \notin Matches(Catalogue, ref)
ASSUME BoundAssumption == MaxDuration \in Nat /\ MaxLoads \in Nat /\ MaxChunks \in Nat
ASSUME KeysAssumption == Target \in Catalogue /\ DOMAIN Target.keys = 1..4
ASSUME ChunkAssumption == Chunks \cap {"none", "ok", "final", "error"} = {}

VARIABLES
  modelTTLs,  \* s.modelTTLs
  inst,       \* s.instances[Target], 0 if none
  loads,      \* loads so far
  ttl,        \* ri.ttl of each
  err,        \* req.err of each: "none" before req.ready is closed, then "ok",
              \* "error" or "ctx" (context.Canceled)
  launcher,   \* history: whose load it is
  evicted,    \* the loads that evictByID cancelled
  abandoned,  \* the loads that the watcher of their last caller cancelled
  raced,      \* history: two calls of SetModelTTL have overlapped
  pc, kind, ka, at,  \* each request: where it is, its kind, its keep_alive, its load or instance
  ctxDone,    \* its client is gone
  resp,       \* what it has written to its client
  content,    \* fullContent, of an answer that is not streamed
  sent,       \* history: the text the child sent it
  ending      \* history: how the child's answer ended

loadVars == <<loads, err, launcher, evicted, abandoned>>
ttlVars == <<modelTTLs, inst, ttl, raced, loadVars>>
reqVars == <<pc, kind, ka, at, ctxDone>>
outVars == <<resp, content, sent, ending>>
vars == <<ttlVars, reqVars, outVars>>

-----------------------------------------------------------------------------
(* parseKeepAlive.                                                         *)

Unset == [ttl |-> 0, ok |-> FALSE]
Keep(d) == [ttl |-> d, ok |-> TRUE]

\* time.Duration(f * float64(time.Second)) for f >= 0, given in tenths of the
\* smallest duration: the fraction is cut off, and what does not fit is up to
\* the machine.
FloatDurations(tenths) ==
  IF tenths \div 10 <= MaxDuration THEN {tenths \div 10} ELSE {-MaxDuration - 1, MaxDuration}

\* The results that a field can have: a string with a unit (v in the smallest
\* duration), a number or a string that is one (v in tenths of it), the string
\* "-1s", the string "NaN"; anything else is as good as none.
parseKeepAlive(raw) ==
  CASE raw.form = "minus1s" -> {Keep(-1)}
    [] raw.form = "unit" -> {IF raw.v \in -MaxDuration - 1 .. MaxDuration THEN Keep(raw.v) ELSE Unset}
    [] raw.form \in {"bare", "number"} ->
         IF raw.v < 0 THEN {Keep(-1)} ELSE {Keep(d) : d \in FloatDurations(raw.v)}
    [] raw.form = "nan" -> {Keep(0), Keep(-MaxDuration - 1)}
    [] OTHER -> {Unset}

-----------------------------------------------------------------------------
Init ==
  /\ modelTTLs = modelTTLs0 /\ inst = 0 /\ loads = 0
  /\ ttl = [k \in 1..MaxLoads |-> 0] /\ raced = FALSE
  /\ err = [k \in 1..MaxLoads |-> "none"] /\ launcher = [k \in 1..MaxLoads |-> 0]
  /\ evicted = {} /\ abandoned = {}
  /\ pc = [r \in Requests |-> "new"]
  /\ kind = [r \in Requests |-> "none"]
  /\ ka = [r \in Requests |-> Unset]
  /\ at = [r \in Requests |-> 0]
  /\ ctxDone = [r \in Requests |-> FALSE]
  /\ resp = [r \in Requests |-> <<>>]
  /\ content = [r \in Requests |-> <<>>]
  /\ sent = [r \in Requests |-> <<>>]
  /\ ending = [r \in Requests |-> "none"]

\* The handler returns, having written the rest of its answer.
Answer(r, rest) ==
  /\ pc' = [pc EXCEPT ![r] = "ended"]
  /\ resp' = [resp EXCEPT ![r] = @ \o rest]
  /\ UNCHANGED <<kind, ka, at, ctxDone>>

Goto(r, where) ==
  /\ pc' = [pc EXCEPT ![r] = where]
  /\ UNCHANGED <<kind, ka, ctxDone>>

\* handleAPIChat, handleAPIGenerate and handleAPIEmbed up to the model: an invalid
\* body, an unknown and an ambiguous name are errors.
Arrive(r) ==
  /\ pc[r] = "new"
  /\ \/ \E ref \in Refs, raw \in KeepAlives, k \in {"stream", "plain", "embed"} :
          /\ Matches(Catalogue, ref) = {Target}
          /\ kind' = [kind EXCEPT ![r] = k]
          /\ \E parsed \in parseKeepAlive(raw) : ka' = [ka EXCEPT ![r] = parsed]
          /\ pc' = [pc EXCEPT ![r] = "resolved"]
          /\ UNCHANGED <<at, ctxDone, resp>>
     \/ /\ \E ref \in Refs : Matches(Catalogue, ref) # {Target}
        /\ Answer(r, <<"error">>)
  /\ UNCHANGED <<ttlVars, content, sent, ending>>

-----------------------------------------------------------------------------
(* SetModelTTL.                                                            *)

Setting(r) == pc[r] = "setting"

MutSetTTLMap(r) ==
  /\ pc[r] = "resolved" /\ ka[r].ok /\ ka[r].ttl # 0
  /\ modelTTLs' = [k \in DOMAIN modelTTLs \cup {Target.keys[1]} |->
                     IF k = Target.keys[1] THEN ka[r].ttl ELSE modelTTLs[k]]
  /\ at' = [at EXCEPT ![r] = 0]
  /\ raced' = (raced \/ \E q \in Requests : Setting(q))
  /\ Goto(r, "setting")
  /\ UNCHANGED <<inst, ttl, loadVars, outVars>>

\* Under s.mu: the override, and the resident it is for.
SetTTLMap(r) ==
  /\ pc[r] = "resolved" /\ ka[r].ok /\ ka[r].ttl # 0
  /\ modelTTLs' = [k \in DOMAIN modelTTLs \cup {Target.keys[1]} |->
                     IF k = Target.keys[1] THEN ka[r].ttl ELSE modelTTLs[k]]
  /\ at' = [at EXCEPT ![r] = inst]
  /\ raced' = (raced \/ \E q \in Requests : Setting(q))
  /\ Goto(r, "setting")
  /\ UNCHANGED <<inst, ttl, loadVars, outVars>>

\* Under ri.mu, if there was a resident: ri.ttl, be it registered still or not.
\* (The timer that goes with it: SlotGate.)
SetTTLInstance(r) ==
  /\ Setting(r)
  /\ ttl' = [k \in DOMAIN ttl |-> IF k = at[r] THEN ka[r].ttl ELSE ttl[k]]
  /\ at' = [at EXCEPT ![r] = 0]
  /\ Goto(r, "acquire")
  /\ UNCHANGED <<modelTTLs, inst, raced, loadVars, outVars>>

NoTTL(r) ==
  /\ pc[r] = "resolved" /\ ~(ka[r].ok /\ ka[r].ttl # 0)
  /\ Goto(r, "acquire")
  /\ UNCHANGED <<ttlVars, at, outVars>>

-----------------------------------------------------------------------------
(* getOrLaunchInstance, and the registry around it.                        *)

\* The load in s.loading, if there is one.
Loading == {k \in 1..loads : err[k] = "none"}

Join(r) ==
  /\ pc[r] = "acquire" /\ inst # 0
  /\ at' = [at EXCEPT ![r] = inst]
  /\ Goto(r, "serving")
  /\ UNCHANGED <<ttlVars, outVars>>

JoinLoad(r) ==
  /\ pc[r] = "acquire" /\ inst = 0
  /\ \E k \in Loading : at' = [at EXCEPT ![r] = k]
  /\ Goto(r, "joined")
  /\ UNCHANGED <<ttlVars, outVars>>

StartLoad(r) ==
  /\ pc[r] = "acquire" /\ inst = 0 /\ Loading = {} /\ loads < MaxLoads
  /\ loads' = loads + 1
  /\ launcher' = [launcher EXCEPT ![loads + 1] = r]
  /\ at' = [at EXCEPT ![r] = loads + 1]
  /\ Goto(r, "loading")
  /\ UNCHANGED <<modelTTLs, inst, ttl, raced, err, evicted, abandoned, outVars>>

\* evictByID (Evict, Rescan) cancels the load whoever waits for it.
EvictLoad ==
  /\ Loading # {} /\ evicted' = evicted \cup Loading
  /\ UNCHANGED <<modelTTLs, inst, ttl, raced, loads, err, launcher, abandoned, reqVars, outVars>>

\* The watcher of the last caller of a load cancels it; a request that joins
\* after that does not bring it back.
AbandonLoad ==
  /\ \E k \in Loading :
       /\ \A q \in Requests : at[q] = k => ctxDone[q]
       /\ abandoned' = abandoned \cup {k}
  /\ UNCHANGED <<modelTTLs, inst, ttl, raced, loads, err, launcher, evicted, reqVars, outVars>>

SettleAs(r, e) ==
  /\ pc[r] = "loading"
  /\ err' = [err EXCEPT ![at[r]] = e]
  /\ UNCHANGED <<modelTTLs, raced, loads, launcher, evicted, abandoned, content, sent, ending>>

\* The load registers (a cancelled one too, if it wins the race): the TTL is
\* resolved under the same s.mu.
Launch(r) ==
  /\ ~ctxDone[r] /\ SettleAs(r, "ok")
  /\ inst' = at[r]
  /\ ttl' = [ttl EXCEPT ![at[r]] = resolveTTLLocked(Target, Catalogue, modelTTLs, cfgTTL, DefaultTTL)]
  /\ Goto(r, "serving")
  /\ UNCHANGED <<at, resp>>

\* The launch fails; or its context is cancelled; or it succeeds and the acquire
\* of the launcher, whose client is gone, does not.  The error goes to all that
\* wait, and context.Canceled is not answered.
LaunchFails(r) ==
  /\ \/ SettleAs(r, "error") /\ Answer(r, <<"error">>)
     \/ /\ ctxDone[r] \/ at[r] \in evicted \cup abandoned
        /\ SettleAs(r, "ctx") /\ Answer(r, <<>>)
  /\ UNCHANGED <<inst, ttl>>

MutLoadReady(r) ==
  /\ pc[r] = "joined" /\ err[at[r]] # "none"
  /\ \/ err[at[r]] = "error" /\ Answer(r, <<>>)
     \/ err[at[r]] = "ctx" /\ Answer(r, <<>>)
     \/ /\ err[at[r]] = "ok"
        /\ at' = [at EXCEPT ![r] = IF inst # 0 THEN inst ELSE @]
        /\ Goto(r, "serving") /\ UNCHANGED resp
     \/ /\ err[at[r]] = "ok"
        /\ at' = [at EXCEPT ![r] = 0]
        /\ Goto(r, "acquire") /\ UNCHANGED resp
  /\ UNCHANGED <<ttlVars, content, sent, ending>>

\* The load that a request joined is ready: it gets its error, or a slot of the
\* resident, or without one the child of the load, or tries again.
LoadReady(r) ==
  /\ pc[r] = "joined" /\ err[at[r]] # "none"
  /\ \/ err[at[r]] = "error" /\ Answer(r, <<"error">>)
     \/ err[at[r]] = "ctx" /\ Answer(r, <<>>)
     \/ /\ err[at[r]] = "ok"
        /\ at' = [at EXCEPT ![r] = IF inst # 0 THEN inst ELSE @]
        /\ Goto(r, "serving") /\ UNCHANGED resp
     \/ /\ err[at[r]] = "ok"
        /\ at' = [at EXCEPT ![r] = 0]
        /\ Goto(r, "acquire") /\ UNCHANGED resp
  /\ UNCHANGED <<ttlVars, content, sent, ending>>

\* The supervisor is closed; or the client is gone, before its request has a slot
\* or while it waits for a load.
AcquireFails(r) ==
  /\ pc[r] \in {"acquire", "joined"}
  /\ \/ pc[r] = "acquire" /\ Answer(r, <<"error">>)
     \/ ctxDone[r] /\ Answer(r, <<>>)
  /\ UNCHANGED <<ttlVars, content, sent, ending>>

\* A drain, an eviction, the LRU cap, or the exit of the child.
Unload ==
  /\ inst # 0 /\ inst' = 0
  /\ UNCHANGED <<modelTTLs, ttl, raced, loadVars, reqVars, outVars>>

ClientLeaves(r) ==
  /\ pc[r] \notin {"new", "ended"} /\ ~ctxDone[r]
  /\ ctxDone' = [ctxDone EXCEPT ![r] = TRUE]
  /\ UNCHANGED <<ttlVars, pc, kind, ka, at, outVars>>

-----------------------------------------------------------------------------
(* The child's answer.                                                     *)

\* http.DefaultClient.Do fails, or the status is not 200.
ChildRefuses(r) ==
  /\ pc[r] = "serving"
  /\ \/ Answer(r, <<"error">>)
     \/ ctxDone[r] /\ Answer(r, <<>>)
  /\ UNCHANGED <<ttlVars, content, sent, ending>>

\* handleAPIEmbed reads and decodes the whole body before it writes.
Embed(r) ==
  /\ pc[r] = "serving" /\ kind[r] = "embed"
  /\ \/ Answer(r, <<"ok", "final">>)
     \/ Answer(r, <<"error">>)
  /\ UNCHANGED <<ttlVars, content, sent, ending>>

\* A stream has its status written here, before anything of the answer is known.
Accepted(r) ==
  /\ pc[r] = "serving" /\ kind[r] # "embed"
  /\ resp' = [resp EXCEPT ![r] = IF kind[r] = "stream" THEN <<"ok">> ELSE <<>>]
  /\ Goto(r, "reading")
  /\ UNCHANGED <<ttlVars, at, content, sent, ending>>

\* A chunk without text, like a line that is no chunk or has no choices (usage,
\* an error of the child's), leaves no trace.
Piece(text) == IF text = "none" THEN <<>> ELSE <<text>>

\* One line: its text is passed on or collected.
ReadLine(r) ==
  /\ pc[r] = "reading" /\ Len(sent[r]) < MaxChunks
  /\ \E text \in Chunks \cup {"none"} :
       /\ sent' = [sent EXCEPT ![r] = @ \o Piece(text)]
       /\ IF kind[r] = "stream"
            THEN resp' = [resp EXCEPT ![r] = @ \o Piece(text)] /\ UNCHANGED content
            ELSE content' = [content EXCEPT ![r] = @ \o Piece(text)] /\ UNCHANGED resp
  /\ UNCHANGED <<ttlVars, reqVars, ending>>

\* The final chunk; without a stream it holds all of the content.
Final(r) == IF kind[r] = "stream" THEN <<"final">> ELSE <<"ok">> \o content[r] \o <<"final">>

\* [DONE], or the end of the body.
ReadEnds(r) ==
  /\ pc[r] = "reading"
  /\ ending' = [ending EXCEPT ![r] = "whole"]
  /\ Answer(r, Final(r))
  /\ UNCHANGED <<ttlVars, content, sent>>

MutReadBreaksSilently(r) ==
  /\ pc[r] = "reading"
  /\ ending' = [ending EXCEPT ![r] = "broken"]
  /\ Answer(r, Final(r))
  /\ UNCHANGED <<ttlVars, content, sent>>

\* scanner.Err(): the child died, the client left, a line was too long.  A
\* stream is ended as if nothing had happened.
ReadBreaks(r) ==
  /\ pc[r] = "reading"
  /\ ending' = [ending EXCEPT ![r] = "broken"]
  /\ Answer(r, IF kind[r] = "stream" THEN Final(r) ELSE <<"error">>)
  /\ UNCHANGED <<ttlVars, content, sent>>

Step(r) ==
  \/ Arrive(r) \/ SetTTLMap(r) \/ SetTTLInstance(r) \/ NoTTL(r)
  \/ Join(r) \/ JoinLoad(r) \/ StartLoad(r) \/ Launch(r) \/ LaunchFails(r)
  \/ LoadReady(r) \/ AcquireFails(r)
  \/ ChildRefuses(r) \/ Embed(r) \/ Accepted(r)
  \/ ReadLine(r) \/ ReadEnds(r) \/ ReadBreaks(r)

Next ==
  \/ EvictLoad \/ AbandonLoad \/ Unload
  \/ \E r \in Requests : Step(r) \/ ClientLeaves(r)

Spec == Init /\ [][Next]_vars

-----------------------------------------------------------------------------
(* Properties.                                                             *)

\* The load that a request waits for or waited for was evicted, or its launcher's
\* client is gone.
Inherits(r) ==
  at[r] \in 1..loads /\ (at[r] \in evicted \/ ctxDone[launcher[at[r]]])

\* A client gets one answer: an error, or a status and pieces and one final
\* chunk, never an error behind the status of a stream; and a handler that
\* returns without a word (or before the final chunk) does so only if its client
\* is gone, or if the load it waited for was evicted or was that of a request
\* whose client is gone: then a client that still waits gets nothing.
OneAnswer ==
  \A r \in Requests :
    LET out == resp[r] IN
    /\ out = <<"error">> \/
       \A i \in DOMAIN out :
         /\ (out[i] = "ok") <=> (i = 1)
         /\ out[i] = "final" => i = Len(out) /\ pc[r] = "ended"
         /\ out[i] # "error"
    /\ pc[r] = "ended" =>
         \/ out # <<>> /\ out[Len(out)] \in {"error", "final"}
         \/ out = <<>> /\ (ctxDone[r] \/ Inherits(r))

\* What a client is told is complete is what the child sent, piece by piece and
\* in its order: nothing is lost or doubled between the two, and an answer that
\* is not streamed is never made of a broken one.  (A broken stream ends with
\* done: true; its client cannot tell.)
AnswerFaithful ==
  \A r \in Requests :
    LET out == resp[r]
        whole == <<"ok">> \o sent[r] \o <<"final">>
    IN
    /\ kind[r] = "stream" /\ out # <<>> /\ out # <<"error">> =>
         out = <<"ok">> \o sent[r] \/ (out = whole /\ pc[r] = "ended")
    /\ kind[r] = "plain" /\ out # <<>> /\ out # <<"error">> =>
         out = whole /\ ending[r] = "whole"

\* The TTL that the resident instance idles by is the one that GetModelTTL
\* reports, the last that a client set if one did, whenever no call of
\* SetModelTTL is between its two locks, unless two of them have overlapped: then
\* the instance may keep the TTL of the one that came first.
ResidentTTLAgrees ==
  inst # 0 /\ ~raced /\ (\A r \in Requests : ~Setting(r)) =>
    ttl[inst] = resolveTTLLocked(Target, Catalogue, modelTTLs, cfgTTL, DefaultTTL)
=============================================================================
