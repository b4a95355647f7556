---------------------------- MODULE OllamaProofs ----------------------------
(***************************************************************************)
(* Proofs about Ollama, for any number of requests and instances, answers  *)
(* of any length, and every catalogue and table of TTLs.                   *)
(***************************************************************************)
EXTENDS Ollama, SequenceTheorems, TLAPS

-----------------------------------------------------------------------------
(* The inductive invariant.                                                *)

Tokens == Chunks \cup {"ok", "final", "error"}
Before == {"new", "resolved", "setting", "acquire", "loading", "joined", "serving"}

TypeOK ==
  /\ loads \in 0..MaxLoads /\ inst \in 0..loads /\ DOMAIN ttl = 1..MaxLoads
  /\ raced \in BOOLEAN
  /\ err \in [1..MaxLoads -> {"none", "ok", "error", "ctx"}]
  /\ DOMAIN launcher = 1..MaxLoads /\ evicted \subseteq 1..loads /\ abandoned \subseteq 1..loads
  /\ pc \in [Requests -> Before \cup {"reading", "ended"}]
  /\ kind \in [Requests -> {"none", "stream", "plain", "embed"}]
  /\ DOMAIN ka = Requests /\ at \in [Requests -> 0..MaxLoads]
  /\ ctxDone \in [Requests -> BOOLEAN]
  /\ resp \in [Requests -> Seq(Tokens)]
  /\ content \in [Requests -> Seq(Chunks)] /\ sent \in [Requests -> Seq(Chunks)]
  /\ ending \in [Requests -> {"none", "whole", "broken"}]

Whole(s) == <<"ok">> \o s \o <<"final">>

\* What a request has written, by where it is.
Written(r) ==
  /\ pc[r] \notin {"new", "ended"} => kind[r] # "none"
  /\ pc[r] \in Before => resp[r] = <<>> /\ content[r] = <<>> /\ sent[r] = <<>>
  /\ pc[r] = "reading" =>
       \/ kind[r] = "stream" /\ resp[r] = <<"ok">> \o sent[r]
       \/ kind[r] = "plain" /\ resp[r] = <<>> /\ content[r] = sent[r]
  /\ pc[r] = "ended" =>
       \/ resp[r] = <<"error">>
       \/ resp[r] = <<>> /\ (ctxDone[r] \/ Inherits(r))
       \/ resp[r] = Whole(sent[r]) /\ (kind[r] = "plain" => ending[r] = "whole")

WrittenInv == \A r \in Requests : Written(r)

\* A load is its launcher's until it is ready; the launcher of one that its last
\* caller cancelled has lost its client; and one that is cancelled is either that
\* one or somebody evicted it.
LoadOf(k) ==
  /\ launcher[k] \in Requests
  /\ err[k] = "none" => pc[launcher[k]] = "loading" /\ at[launcher[k]] = k
  /\ k \in abandoned => ctxDone[launcher[k]]
  /\ err[k] = "ctx" => k \in evicted \/ ctxDone[launcher[k]]

LoadInv ==
  /\ \A r \in Requests : pc[r] \in {"loading", "joined"} => at[r] \in 1..loads
  /\ \A r \in Requests : pc[r] = "loading" => launcher[at[r]] = r
  /\ \A k \in 1..MaxLoads : k > loads => err[k] = "none"
  /\ \A k \in 1..loads : LoadOf(k)

\* The TTL that GetModelTTL reports.
Reported == resolveTTLLocked(Target, Catalogue, modelTTLs, cfgTTL, DefaultTTL)

\* A request that is setting its TTL alone has been heard by GetModelTTL; the
\* resident has its TTL too, or is the one that the request is about to set.
SettingInv ==
  ~raced => \A r \in Requests : Setting(r) =>
    /\ \A q \in Requests : Setting(q) => q = r
    /\ Reported = ka[r].ttl
    /\ inst # 0 => at[r] = inst \/ ttl[inst] = ka[r].ttl

Inv == TypeOK /\ WrittenInv /\ LoadInv /\ SettingInv /\ ResidentTTLAgrees

-----------------------------------------------------------------------------
(* Answers and TTLs.                                                       *)

\* A whole answer: its status, the child's text, the final chunk.
LEMMA WholeAnswer ==
  ASSUME NEW s \in Seq(Chunks)
  PROVE  /\ Whole(s) \in Seq(Tokens)
         /\ Len(Whole(s)) = Len(s) + 2
         /\ Whole(s)[1] = "ok" /\ Whole(s)[Len(s) + 2] = "final"
         /\ \A i \in 2..Len(s) + 1 : Whole(s)[i] \in Chunks
<1>1. <<"ok">> \o s \in Seq(Tokens)
  BY DEF Tokens
<1> QED
  BY <1>1 DEF Whole, Tokens

\* The child's text goes behind the status.
LEMMA PieceTyped ==
  ASSUME NEW text \in Chunks \cup {"none"}
  PROVE  Piece(text) \in Seq(Chunks) /\ Piece(text) \in Seq(Tokens)
<1>1. CASE text = "none"
  BY <1>1 DEF Piece
<1>2. CASE text # "none" /\ text \in Chunks
  BY <1>2 DEF Piece, Tokens
<1> QED
  BY <1>1, <1>2

\* The status stays in front of what follows.
LEMMA StatusConcat ==
  ASSUME NEW s \in Seq(Chunks), NEW t \in Seq(Chunks)
  PROVE  (<<"ok">> \o s) \o t = <<"ok">> \o (s \o t)
<1>1. s \in Seq(Tokens) /\ t \in Seq(Tokens) /\ <<"ok">> \in Seq(Tokens)
  BY DEF Tokens
<1> QED
  BY <1>1, ConcatAssociative

\* The override that SetModelTTL puts under the model's ID comes before all else.
LEMMA OverrideReported ==
  ASSUME NEW byKey, NEW d, Target.keys[1] \in DOMAIN byKey, byKey[Target.keys[1]] = d
  PROVE  resolveTTLLocked(Target, Catalogue, byKey, cfgTTL, DefaultTTL) = d
<1> DEFINE hits == {i \in DOMAIN Target.keys : Target.keys[i] \in DOMAIN byKey}
<1>1. 1 \in hits /\ hits \subseteq 1..4
  BY KeysAssumption
<1>2. Min(hits) = 1
  <2>1. \A x \in hits : (\A y \in hits : x =< y) <=> x = 1
    BY <1>1
  <2> QED
    BY <1>1, <2>1 DEF Min
<1>3. lookupByModelKeys(Target, byKey) = <<d>>
  BY <1>1, <1>2 DEF lookupByModelKeys
<1> QED
  BY <1>3, KeysAssumption DEF resolveTTLLocked

-----------------------------------------------------------------------------
(* What a step of one request leaves alone, and what an answer does.       *)

Others(r) ==
  \A q \in Requests : q # r =>
    /\ pc'[q] = pc[q] /\ kind'[q] = kind[q] /\ at'[q] = at[q] /\ ctxDone'[q] = ctxDone[q]
    /\ resp'[q] = resp[q] /\ content'[q] = content[q] /\ sent'[q] = sent[q]
    /\ ending'[q] = ending[q]

\* A request writes to its own client.
LEMMA OthersAlone ==
  ASSUME TypeOK, NEW r \in Requests, Step(r) \/ ClientLeaves(r)
  PROVE  Others(r)
<1> USE DEF TypeOK, Others
<1>1. CASE Arrive(r)
  BY <1>1 DEF Arrive, Answer
<1>2. CASE SetTTLMap(r)
  BY <1>2 DEF SetTTLMap, Goto, outVars
<1>3. CASE SetTTLInstance(r)
  BY <1>3 DEF SetTTLInstance, Goto, outVars
<1>4. CASE NoTTL(r)
  BY <1>4 DEF NoTTL, Goto, outVars
<1>5. CASE Join(r)
  BY <1>5 DEF Join, Goto, outVars
<1>6. CASE Launch(r)
  BY <1>6 DEF Launch, SettleAs, Goto
<1>7. CASE AcquireFails(r)
  BY <1>7 DEF AcquireFails, Answer
<1>8. CASE ChildRefuses(r)
  BY <1>8 DEF ChildRefuses, Answer
<1>9. CASE Embed(r)
  BY <1>9 DEF Embed, Answer
<1>10. CASE Accepted(r)
  BY <1>10 DEF Accepted, Goto
<1>11. CASE ReadLine(r)
  BY <1>11 DEF ReadLine, reqVars
<1>12. CASE ReadEnds(r)
  BY <1>12 DEF ReadEnds, Answer, Final
<1>13. CASE ReadBreaks(r)
  BY <1>13 DEF ReadBreaks, Answer, Final
<1>14. CASE ClientLeaves(r)
  BY <1>14 DEF ClientLeaves, outVars
<1>15. CASE JoinLoad(r)
  BY <1>15 DEF JoinLoad, Goto, outVars
<1>16. CASE StartLoad(r)
  BY <1>16 DEF StartLoad, Goto, outVars
<1>17. CASE LaunchFails(r)
  BY <1>17 DEF LaunchFails, SettleAs, Answer
<1>18. CASE LoadReady(r)
  BY <1>18 DEF LoadReady, Answer, Goto
<1> QED
  BY <1>1, <1>2, <1>3, <1>4, <1>5, <1>6, <1>7, <1>8, <1>9, <1>10, <1>11,
     <1>12, <1>13, <1>14, <1>15, <1>16, <1>17, <1>18 DEF Step

\* Cancellations are for ever, and so is who launched a load.
Growth ==
  /\ loads \in Nat /\ loads' \in Nat /\ loads' >= loads
  /\ \A k \in 1..loads : launcher'[k] = launcher[k]
  /\ \A k \in 1..loads : k \in evicted => k \in evicted'
  /\ \A q \in Requests : ctxDone[q] => ctxDone'[q]

\* Only StartLoad, EvictLoad and ClientLeaves add to them.
LEMMA Grows ==
  ASSUME TypeOK, Next
  PROVE  Growth
<1> USE BoundAssumption DEF TypeOK, Growth
<1>1. loads \in Nat
  OBVIOUS
<1>2. ASSUME UNCHANGED <<loadVars, ctxDone>> PROVE Growth
  BY <1>1, <1>2 DEF loadVars
<1>3. ASSUME NEW r \in Requests, StartLoad(r) PROVE Growth
  BY <1>1, <1>3 DEF StartLoad, Goto
<1>4. ASSUME NEW r \in Requests, Launch(r) \/ LaunchFails(r) PROVE Growth
  BY <1>1, <1>4 DEF Launch, LaunchFails, SettleAs, Goto, Answer
<1>5. ASSUME EvictLoad PROVE Growth
  BY <1>1, <1>5 DEF EvictLoad, reqVars
<1>6. ASSUME AbandonLoad PROVE Growth
  BY <1>1, <1>6 DEF AbandonLoad, reqVars
<1>7. ASSUME Unload PROVE UNCHANGED <<loadVars, ctxDone>>
  BY <1>7 DEF Unload, reqVars
<1>8. ASSUME NEW r \in Requests, ClientLeaves(r) PROVE Growth
  BY <1>1, <1>8 DEF ClientLeaves, ttlVars, loadVars
<1>9. ASSUME NEW r \in Requests,
             \/ SetTTLMap(r) \/ SetTTLInstance(r) \/ NoTTL(r) \/ Join(r) \/ JoinLoad(r)
      PROVE  UNCHANGED <<loadVars, ctxDone>>
  BY <1>9 DEF SetTTLMap, SetTTLInstance, NoTTL, Join, JoinLoad, Goto, ttlVars
<1>10. ASSUME NEW r \in Requests, Arrive(r) \/ LoadReady(r) \/ AcquireFails(r)
       PROVE  UNCHANGED <<loadVars, ctxDone>>
  BY <1>10 DEF Arrive, LoadReady, AcquireFails, Answer, Goto, ttlVars
<1>11. ASSUME NEW r \in Requests, ChildRefuses(r) \/ Embed(r) \/ Accepted(r)
       PROVE  UNCHANGED <<loadVars, ctxDone>>
  BY <1>11 DEF ChildRefuses, Embed, Accepted, Answer, Goto, ttlVars
<1>12. ASSUME NEW r \in Requests, ReadLine(r) \/ ReadEnds(r) \/ ReadBreaks(r)
       PROVE  UNCHANGED <<loadVars, ctxDone>>
  BY <1>12 DEF ReadLine, ReadEnds, ReadBreaks, Answer, ttlVars, reqVars
<1> QED
  BY <1>2, <1>3, <1>4, <1>5, <1>6, <1>7, <1>8, <1>9, <1>10, <1>11, <1>12 DEF
     Next, Step

\* What excuses a silent answer goes on excusing it.
LEMMA InheritsKept ==
  ASSUME Growth, LoadInv, NEW q \in Requests, at'[q] = at[q], Inherits(q)
  PROVE  Inherits(q)'
BY DEF Growth, LoadInv, LoadOf, Inherits

\* A request that answers has ended, and has written the rest.
LEMMA Answered ==
  ASSUME TypeOK, NEW r \in Requests, NEW rest \in Seq(Tokens), Answer(r, rest)
  PROVE  /\ pc' \in [Requests -> Before \cup {"reading", "ended"}]
         /\ resp' \in [Requests -> Seq(Tokens)]
         /\ pc'[r] = "ended" /\ resp'[r] = resp[r] \o rest
         /\ resp[r] = <<>> => resp'[r] = rest
         /\ UNCHANGED <<kind, ka, at, ctxDone>>
<1>1. resp[r] \o rest \in Seq(Tokens)
  BY ConcatProperties DEF TypeOK
<1>2. resp[r] = <<>> => resp[r] \o rest = rest
  BY ConcatEmptySeq
<1> QED
  BY <1>1, <1>2 DEF TypeOK, Answer

\* The answers that handlers write at once.
LEMMA ShortAnswers ==
  /\ <<"error">> \in Seq(Tokens) /\ <<>> \in Seq(Tokens)
  /\ <<"ok">> \in Seq(Tokens) /\ <<"final">> \in Seq(Tokens)
  /\ <<"ok", "final">> \in Seq(Tokens) /\ <<"ok", "final">> = Whole(<<>>)
BY DEF Tokens, Whole

\* It is enough to look at the request that takes a step.
LEMMA OthersWritten ==
  ASSUME Inv, Next, NEW r \in Requests, Others(r), Written(r)'
  PROVE  WrittenInv'
<1>1. ASSUME NEW q \in Requests, q # r PROVE Written(q)'
  <2>1. Growth /\ LoadInv /\ Written(q)
    BY <1>1, Grows DEF Inv, WrittenInv
  <2>2. Inherits(q) => Inherits(q)'
    BY <1>1, <2>1, InheritsKept DEF Others
  <2> QED
    BY <1>1, <2>1, <2>2 DEF Written, Others
<1> QED
  BY <1>1 DEF WrittenInv

\* Types are kept.
LEMMA TypeKept == Inv /\ Next => TypeOK'
<1> SUFFICES ASSUME Inv, Next PROVE TypeOK'
  OBVIOUS
<1>0. TypeOK
  BY DEF Inv
<1> USE <1>0, BoundAssumption DEF TypeOK, Before
<1>1. ASSUME NEW r \in Requests, Arrive(r) PROVE TypeOK'
  <2>1. ASSUME Answer(r, <<"error">>) PROVE TypeOK'
    BY <1>1, <2>1, Answered, ShortAnswers DEF Arrive, ttlVars, loadVars
  <2>2. ASSUME NEW k \in {"stream", "plain", "embed"}, NEW parsed,
               kind' = [kind EXCEPT ![r] = k], ka' = [ka EXCEPT ![r] = parsed],
               pc' = [pc EXCEPT ![r] = "resolved"], UNCHANGED <<at, ctxDone, resp>>
        PROVE  TypeOK'
    BY <1>1, <2>2 DEF Arrive, ttlVars, loadVars
  <2> QED
    BY <1>1, <2>1, <2>2 DEF Arrive
<1>2. ASSUME NEW r \in Requests, SetTTLMap(r) PROVE TypeOK'
  BY <1>2 DEF SetTTLMap, loadVars, Goto, outVars
<1>3. ASSUME NEW r \in Requests, SetTTLInstance(r) PROVE TypeOK'
  BY <1>3 DEF SetTTLInstance, loadVars, Goto, outVars
<1>4. ASSUME NEW r \in Requests, NoTTL(r) PROVE TypeOK'
  BY <1>4 DEF NoTTL, Goto, ttlVars, loadVars, outVars
<1>5. ASSUME NEW r \in Requests, Join(r) PROVE TypeOK'
  BY <1>5 DEF Join, Goto, ttlVars, loadVars, outVars
<1>6. ASSUME NEW r \in Requests, Launch(r) PROVE TypeOK'
  <2>1. at[r] \in 1..loads
    BY <1>6 DEF Launch, SettleAs, Inv, LoadInv
  <2> QED
    BY <1>6, <2>1 DEF Launch, SettleAs, Goto
<1>7. ASSUME NEW r \in Requests, AcquireFails(r) PROVE TypeOK'
  <2>1. PICK rest \in {<<"error">>, <<>>} : Answer(r, rest)
    BY <1>7 DEF AcquireFails
  <2>2. rest \in Seq(Tokens)
    BY ShortAnswers
  <2> QED
    BY <1>7, <2>1, <2>2, Answered DEF AcquireFails, ttlVars, loadVars
<1>8. ASSUME NEW r \in Requests, ChildRefuses(r) PROVE TypeOK'
  <2>1. PICK rest \in {<<"error">>, <<>>} : Answer(r, rest)
    BY <1>8 DEF ChildRefuses
  <2>2. rest \in Seq(Tokens)
    BY ShortAnswers
  <2> QED
    BY <1>8, <2>1, <2>2, Answered DEF ChildRefuses, ttlVars, loadVars
<1>9. ASSUME NEW r \in Requests, Embed(r) PROVE TypeOK'
  <2>1. PICK rest \in {<<"ok", "final">>, <<"error">>} : Answer(r, rest)
    BY <1>9 DEF Embed
  <2>2. rest \in Seq(Tokens)
    BY ShortAnswers
  <2> QED
    BY <1>9, <2>1, <2>2, Answered DEF Embed, ttlVars, loadVars
<1>10. ASSUME NEW r \in Requests, Accepted(r) PROVE TypeOK'
  <2>1. resp' \in [Requests -> Seq(Tokens)]
    BY <1>10, ShortAnswers DEF Accepted
  <2> QED
    BY <1>10, <2>1 DEF Accepted, Goto, ttlVars, loadVars
<1>11. ASSUME NEW r \in Requests, ReadLine(r) PROVE TypeOK'
  <2>1. PICK text \in Chunks \cup {"none"} :
          /\ sent' = [sent EXCEPT ![r] = @ \o Piece(text)]
          /\ IF kind[r] = "stream"
               THEN resp' = [resp EXCEPT ![r] = @ \o Piece(text)] /\ UNCHANGED content
               ELSE content' = [content EXCEPT ![r] = @ \o Piece(text)] /\ UNCHANGED resp
    BY <1>11 DEF ReadLine
  <2>2. /\ sent[r] \o Piece(text) \in Seq(Chunks)
        /\ content[r] \o Piece(text) \in Seq(Chunks)
        /\ resp[r] \o Piece(text) \in Seq(Tokens)
    BY PieceTyped, ConcatProperties
  <2>3. /\ sent' \in [Requests -> Seq(Chunks)]
        /\ content' \in [Requests -> Seq(Chunks)]
        /\ resp' \in [Requests -> Seq(Tokens)]
    BY <2>1, <2>2
  <2> QED
    BY <1>11, <2>3 DEF ReadLine, ttlVars, loadVars, reqVars
<1>12. ASSUME NEW r \in Requests, ReadEnds(r) PROVE TypeOK'
  <2>1. Whole(content[r]) \in Seq(Tokens)
    BY WholeAnswer
  <2>2. PICK rest \in {<<"error">>, <<"final">>, Whole(content[r])} : Answer(r, rest)
    BY <1>12 DEF ReadEnds, Final, Whole
  <2>3. rest \in Seq(Tokens)
    BY <2>1, ShortAnswers
  <2> QED
    BY <1>12, <2>2, <2>3, Answered DEF ReadEnds, ttlVars, loadVars
<1>13. ASSUME NEW r \in Requests, ReadBreaks(r) PROVE TypeOK'
  <2>1. Whole(content[r]) \in Seq(Tokens)
    BY WholeAnswer
  <2>2. PICK rest \in {<<"error">>, <<"final">>, Whole(content[r])} : Answer(r, rest)
    BY <1>13 DEF ReadBreaks, Final, Whole
  <2>3. rest \in Seq(Tokens)
    BY <2>1, ShortAnswers
  <2> QED
    BY <1>13, <2>2, <2>3, Answered DEF ReadBreaks, ttlVars, loadVars
<1>14. ASSUME NEW r \in Requests, ClientLeaves(r) PROVE TypeOK'
  BY <1>14 DEF ClientLeaves, ttlVars, loadVars, outVars
<1>15. ASSUME Unload PROVE TypeOK'
  BY <1>15 DEF Unload, loadVars, reqVars, outVars
<1>16. ASSUME NEW r \in Requests, JoinLoad(r) PROVE TypeOK'
  BY <1>16 DEF JoinLoad, Loading, Goto, ttlVars, loadVars, outVars
<1>17. ASSUME NEW r \in Requests, StartLoad(r) PROVE TypeOK'
  BY <1>17 DEF StartLoad, Goto, outVars
<1>18. ASSUME NEW r \in Requests, LaunchFails(r) PROVE TypeOK'
  <2>1. PICK rest \in {<<"error">>, <<>>} : Answer(r, rest)
    BY <1>18 DEF LaunchFails
  <2>2. rest \in Seq(Tokens)
    BY ShortAnswers
  <2>3. err' \in [1..MaxLoads -> {"none", "ok", "error", "ctx"}]
    BY <1>18 DEF LaunchFails, SettleAs
  <2> QED
    BY <1>18, <2>1, <2>2, <2>3, Answered DEF LaunchFails, SettleAs
<1>19. ASSUME NEW r \in Requests, LoadReady(r) PROVE TypeOK'
  <2>1. ASSUME NEW rest \in {<<"error">>, <<>>}, Answer(r, rest) PROVE TypeOK'
    <3>1. rest \in Seq(Tokens)
      BY ShortAnswers
    <3> QED
      BY <1>19, <2>1, <3>1, Answered DEF LoadReady, ttlVars, loadVars
  <2>2. ASSUME NEW k \in {inst, at[r], 0}, NEW where \in {"serving", "acquire"},
               at' = [at EXCEPT ![r] = k], Goto(r, where), UNCHANGED resp
        PROVE  TypeOK'
    BY <1>19, <2>2 DEF LoadReady, Goto, ttlVars, loadVars
  <2> QED
    BY <1>19, <2>1, <2>2 DEF LoadReady
<1>20. ASSUME EvictLoad PROVE TypeOK'
  BY <1>20 DEF EvictLoad, Loading, reqVars, outVars
<1>21. ASSUME AbandonLoad PROVE TypeOK'
  BY <1>21 DEF AbandonLoad, Loading, reqVars, outVars
<1> QED
  BY <1>1, <1>2, <1>3, <1>4, <1>5, <1>6, <1>7, <1>8, <1>9, <1>10, <1>11,
     <1>12, <1>13, <1>14, <1>15, <1>16, <1>17, <1>18, <1>19, <1>20, <1>21 DEF
     Next, Step

\* Each handler writes what belongs to where it is, and to its own client only.
LEMMA WrittenKept == Inv /\ Next => WrittenInv'
<1> SUFFICES ASSUME Inv, Next PROVE WrittenInv'
  OBVIOUS
<1>0. TypeOK /\ WrittenInv /\ LoadInv
  BY DEF Inv
<1> USE <1>0
<1>1. ASSUME NEW r \in Requests, Arrive(r) PROVE WrittenInv'
  <2>1. Others(r)
    BY <1>1, OthersAlone DEF Step
  <2>2. Written(r) /\ TypeOK
    BY DEF WrittenInv
  <2>3. ASSUME Answer(r, <<"error">>) PROVE Written(r)'
    BY <1>1, <2>2, <2>3, Answered, ShortAnswers DEF Arrive, Written, Before
  <2>4. ASSUME NEW k \in {"stream", "plain", "embed"}, kind' = [kind EXCEPT ![r] = k],
               pc' = [pc EXCEPT ![r] = "resolved"], resp' = resp
        PROVE  Written(r)'
    BY <1>1, <2>2, <2>4 DEF Arrive, Written, Before, TypeOK
  <2> QED
    BY <1>1, <2>1, <2>2, <2>3, <2>4, OthersWritten DEF Arrive
<1>2. ASSUME NEW r \in Requests, SetTTLMap(r) PROVE WrittenInv'
  <2>1. Others(r)
    BY <1>2, OthersAlone DEF Step
  <2>2. Written(r) /\ TypeOK
    BY DEF WrittenInv
  <2>3. Written(r)'
    BY <1>2, <2>2 DEF SetTTLMap, Goto, outVars, Written, TypeOK, Before,
       Setting
  <2> QED
    BY <2>1, <2>3, OthersWritten
<1>3. ASSUME NEW r \in Requests, SetTTLInstance(r) PROVE WrittenInv'
  <2>1. Others(r)
    BY <1>3, OthersAlone DEF Step
  <2>2. Written(r) /\ TypeOK
    BY DEF WrittenInv
  <2>3. Written(r)'
    BY <1>3, <2>2 DEF SetTTLInstance, Goto, outVars, Written, TypeOK,
       Before, Setting
  <2> QED
    BY <2>1, <2>3, OthersWritten
<1>4. ASSUME NEW r \in Requests, NoTTL(r) PROVE WrittenInv'
  <2>1. Others(r)
    BY <1>4, OthersAlone DEF Step
  <2>2. Written(r) /\ TypeOK
    BY DEF WrittenInv
  <2>3. Written(r)'
    BY <1>4, <2>2 DEF NoTTL, Goto, outVars, Written, TypeOK, Before, Setting
  <2> QED
    BY <2>1, <2>3, OthersWritten
<1>5. ASSUME NEW r \in Requests, Join(r) PROVE WrittenInv'
  <2>1. Others(r)
    BY <1>5, OthersAlone DEF Step
  <2>2. Written(r) /\ TypeOK
    BY DEF WrittenInv
  <2>3. Written(r)'
    BY <1>5, <2>2 DEF Join, Goto, outVars, Written, TypeOK, Before, Setting
  <2> QED
    BY <2>1, <2>3, OthersWritten
<1>6. ASSUME NEW r \in Requests, Launch(r) PROVE WrittenInv'
  <2>1. Others(r)
    BY <1>6, OthersAlone DEF Step
  <2>2. Written(r) /\ TypeOK
    BY DEF WrittenInv
  <2>3. Written(r)'
    BY <1>6, <2>2 DEF Launch, SettleAs, Goto, Written, TypeOK, Before
  <2> QED
    BY <2>1, <2>3, OthersWritten
<1>7. ASSUME NEW r \in Requests, AcquireFails(r) PROVE WrittenInv'
  <2>1. Others(r)
    BY <1>7, OthersAlone DEF Step
  <2>2. Written(r) /\ TypeOK
    BY DEF WrittenInv
  <2>3. ASSUME Answer(r, <<"error">>) PROVE Written(r)'
    BY <1>7, <2>2, <2>3, Answered, ShortAnswers DEF AcquireFails, Written,
       Before
  <2>4. ASSUME ctxDone[r] /\ Answer(r, <<>>) PROVE Written(r)'
    BY <1>7, <2>2, <2>4, Answered, ShortAnswers DEF AcquireFails, Written,
       Before
  <2> QED
    BY <1>7, <2>1, <2>2, <2>3, <2>4, OthersWritten DEF AcquireFails
<1>8. ASSUME NEW r \in Requests, ChildRefuses(r) PROVE WrittenInv'
  <2>1. Others(r)
    BY <1>8, OthersAlone DEF Step
  <2>2. Written(r) /\ TypeOK
    BY DEF WrittenInv
  <2>3. ASSUME Answer(r, <<"error">>) PROVE Written(r)'
    BY <1>8, <2>2, <2>3, Answered, ShortAnswers DEF ChildRefuses, Written,
       Before
  <2>4. ASSUME ctxDone[r] /\ Answer(r, <<>>) PROVE Written(r)'
    BY <1>8, <2>2, <2>4, Answered, ShortAnswers DEF ChildRefuses, Written,
       Before
  <2> QED
    BY <1>8, <2>1, <2>2, <2>3, <2>4, OthersWritten DEF ChildRefuses
<1>9. ASSUME NEW r \in Requests, Embed(r) PROVE WrittenInv'
  <2>1. Others(r)
    BY <1>9, OthersAlone DEF Step
  <2>2. Written(r) /\ TypeOK
    BY DEF WrittenInv
  <2>3. resp[r] = <<>> /\ sent[r] = <<>> /\ sent' = sent /\ kind[r] = "embed"
    BY <1>9, <2>2 DEF Embed, Written, Before
  <2>4. ASSUME Answer(r, <<"error">>) PROVE Written(r)'
    BY <2>2, <2>3, <2>4, Answered, ShortAnswers DEF Written, Before
  <2>5. ASSUME Answer(r, <<"ok", "final">>) PROVE Written(r)'
    BY <2>2, <2>3, <2>5, Answered, ShortAnswers DEF Written, Before
  <2> QED
    BY <1>9, <2>1, <2>2, <2>4, <2>5, OthersWritten DEF Embed
<1>10. ASSUME NEW r \in Requests, Accepted(r) PROVE WrittenInv'
  <2>1. Others(r)
    BY <1>10, OthersAlone DEF Step
  <2>2. Written(r) /\ TypeOK
    BY DEF WrittenInv
  <2>3. /\ resp'[r] = IF kind[r] = "stream" THEN <<"ok">> ELSE <<>>
        /\ sent' = sent /\ content' = content /\ kind' = kind /\ pc'[r] = "reading"
    BY <1>10, <2>2 DEF Accepted, Goto, TypeOK
  <2>4. kind[r] \in {"stream", "plain"} /\ sent[r] = <<>> /\ content[r] = <<>>
    BY <1>10, <2>2 DEF Accepted, Written, Before, TypeOK
  <2>5. <<"ok">> \o <<>> = <<"ok">>
    BY ShortAnswers, ConcatEmptySeq
  <2>6. Written(r)'
    BY <2>3, <2>4, <2>5 DEF Written, Before
  <2> QED
    BY <2>1, <2>6, OthersWritten
<1>11. ASSUME NEW r \in Requests, ReadLine(r) PROVE WrittenInv'
  <2>1. Others(r)
    BY <1>11, OthersAlone DEF Step
  <2>2. Written(r) /\ TypeOK
    BY DEF WrittenInv
  <2>3. PICK text \in Chunks \cup {"none"} :
          /\ sent' = [sent EXCEPT ![r] = @ \o Piece(text)]
          /\ IF kind[r] = "stream"
               THEN resp' = [resp EXCEPT ![r] = @ \o Piece(text)] /\ UNCHANGED content
               ELSE content' = [content EXCEPT ![r] = @ \o Piece(text)] /\ UNCHANGED resp
    BY <1>11 DEF ReadLine
  <2>4. Piece(text) \in Seq(Chunks) /\ sent[r] \in Seq(Chunks)
    BY <2>2, <2>3, PieceTyped DEF TypeOK
  <2>5. UNCHANGED <<pc, kind, ctxDone, ending>> /\ pc[r] = "reading"
    BY <1>11 DEF ReadLine, reqVars
  <2>6. (<<"ok">> \o sent[r]) \o Piece(text) = <<"ok">> \o (sent[r] \o Piece(text))
    BY <2>4, StatusConcat
  <2>7. ASSUME kind[r] = "stream" PROVE Written(r)'
    <3>1. resp[r] = <<"ok">> \o sent[r]
      BY <2>2, <2>5, <2>7 DEF Written
    <3>2. resp'[r] = resp[r] \o Piece(text) /\ sent'[r] = sent[r] \o Piece(text)
      BY <2>2, <2>3, <2>7 DEF TypeOK
    <3>3. resp'[r] = <<"ok">> \o sent'[r]
      BY <2>6, <3>1, <3>2
    <3> QED
      BY <2>5, <2>7, <3>3 DEF Written, Before
  <2>8. ASSUME kind[r] # "stream" PROVE Written(r)'
    BY <2>2, <2>3, <2>5, <2>8 DEF Written, TypeOK, Before
  <2> QED
    BY <2>1, <2>7, <2>8, OthersWritten
<1>12. ASSUME NEW r \in Requests, ReadEnds(r) PROVE WrittenInv'
  <2>1. Others(r)
    BY <1>12, OthersAlone DEF Step
  <2>2. Written(r) /\ TypeOK
    BY DEF WrittenInv
  <2>3. /\ pc[r] = "reading" /\ ending'[r] = "whole"
        /\ sent' = sent /\ sent[r] \in Seq(Chunks)
    BY <1>12, <2>2 DEF ReadEnds, TypeOK
  <2>4. ASSUME kind[r] = "stream" PROVE Written(r)'
    <3>1. Answer(r, <<"final">>) /\ resp[r] = <<"ok">> \o sent[r]
      BY <1>12, <2>2, <2>3, <2>4 DEF ReadEnds, Final, Written
    <3>2. resp'[r] = Whole(sent[r]) /\ pc'[r] = "ended" /\ kind' = kind
      BY <3>1, <2>2, Answered, ShortAnswers DEF Whole
    <3> QED
      BY <2>3, <2>4, <3>2 DEF Written, Before
  <2>5. ASSUME kind[r] = "plain" PROVE Written(r)'
    <3>1. Answer(r, Whole(sent[r])) /\ resp[r] = <<>>
      BY <1>12, <2>2, <2>3, <2>5 DEF ReadEnds, Final, Written, Whole
    <3>2. resp'[r] = Whole(sent[r]) /\ pc'[r] = "ended" /\ kind' = kind
      BY <3>1, <2>2, <2>3, Answered, WholeAnswer
    <3> QED
      BY <2>3, <2>5, <3>2 DEF Written, Before
  <2> QED
    BY <2>1, <2>2, <2>3, <2>4, <2>5, OthersWritten DEF Written
<1>13. ASSUME NEW r \in Requests, ReadBreaks(r) PROVE WrittenInv'
  <2>1. Others(r)
    BY <1>13, OthersAlone DEF Step
  <2>2. Written(r) /\ TypeOK
    BY DEF WrittenInv
  <2>3. /\ pc[r] = "reading" /\ ending'[r] = "broken"
        /\ sent' = sent /\ sent[r] \in Seq(Chunks)
    BY <1>13, <2>2 DEF ReadBreaks, TypeOK
  <2>4. ASSUME kind[r] = "stream" PROVE Written(r)'
    <3>1. Answer(r, <<"final">>) /\ resp[r] = <<"ok">> \o sent[r]
      BY <1>13, <2>2, <2>3, <2>4 DEF ReadBreaks, Final, Written
    <3>2. resp'[r] = Whole(sent[r]) /\ pc'[r] = "ended" /\ kind' = kind
      BY <3>1, <2>2, Answered, ShortAnswers DEF Whole
    <3> QED
      BY <2>3, <2>4, <3>2 DEF Written, Before
  <2>5. ASSUME kind[r] = "plain" PROVE Written(r)'
    <3>1. Answer(r, <<"error">>) /\ resp[r] = <<>>
      BY <1>13, <2>2, <2>3, <2>5 DEF ReadBreaks, Written
    <3> QED
      BY <3>1, <2>2, Answered, ShortAnswers DEF Written, Before
  <2> QED
    BY <2>1, <2>2, <2>3, <2>4, <2>5, OthersWritten DEF Written
<1>14. ASSUME NEW r \in Requests, ClientLeaves(r) PROVE WrittenInv'
  <2>1. Others(r)
    BY <1>14, OthersAlone DEF Step
  <2>2. Written(r) /\ TypeOK
    BY DEF WrittenInv
  <2>3. Written(r)'
    BY <1>14, <2>2 DEF ClientLeaves, outVars, Written, TypeOK, Before, Setting
  <2> QED
    BY <2>1, <2>3, OthersWritten
<1>15. ASSUME Unload PROVE WrittenInv'
  <2>1. Growth
    BY Grows
  <2>2. UNCHANGED <<pc, kind, at, ctxDone, resp, content, sent, ending>>
    BY <1>15 DEF Unload, reqVars, outVars
  <2>3. ASSUME NEW q \in Requests PROVE Written(q)'
    <3>1. Written(q) /\ (Inherits(q) => Inherits(q)')
      BY <2>1, <2>2, InheritsKept DEF WrittenInv
    <3> QED
      BY <2>2, <3>1 DEF Written
  <2> QED
    BY <2>3 DEF WrittenInv
<1>16. ASSUME NEW r \in Requests, JoinLoad(r) PROVE WrittenInv'
  <2>1. Others(r)
    BY <1>16, OthersAlone DEF Step
  <2>2. Written(r) /\ TypeOK
    BY DEF WrittenInv
  <2>3. Written(r)'
    BY <1>16, <2>2 DEF JoinLoad, Goto, outVars, Written, TypeOK, Before
  <2> QED
    BY <2>1, <2>3, OthersWritten
<1>17. ASSUME NEW r \in Requests, StartLoad(r) PROVE WrittenInv'
  <2>1. Others(r)
    BY <1>17, OthersAlone DEF Step
  <2>2. Written(r) /\ TypeOK
    BY DEF WrittenInv
  <2>3. Written(r)'
    BY <1>17, <2>2 DEF StartLoad, Goto, outVars, Written, TypeOK, Before
  <2> QED
    BY <2>1, <2>3, OthersWritten
<1>18. ASSUME NEW r \in Requests, LaunchFails(r) PROVE WrittenInv'
  <2>1. Others(r)
    BY <1>18, OthersAlone DEF Step
  <2>2. Written(r) /\ TypeOK /\ at[r] \in 1..loads /\ LoadOf(at[r]) /\ pc[r] = "loading"
    BY <1>18 DEF WrittenInv, LaunchFails, SettleAs, LoadInv
  <2>3. ASSUME Answer(r, <<"error">>) PROVE Written(r)'
    BY <2>2, <2>3, Answered, ShortAnswers DEF Written, Before
  <2>4. ASSUME ctxDone[r] \/ at[r] \in evicted \cup abandoned, Answer(r, <<>>)
        PROVE  Written(r)'
    <3>1. ctxDone[r] \/ Inherits(r)
      BY <2>2, <2>4 DEF LoadOf, Inherits
    <3>2. Growth /\ at' = at /\ ctxDone' = ctxDone
      BY <2>4, Grows DEF Answer
    <3>3. ctxDone'[r] \/ Inherits(r)'
      BY <3>1, <3>2, InheritsKept
    <3> QED
      BY <2>2, <2>4, <3>3, Answered, ShortAnswers DEF Written, Before
  <2> QED
    BY <1>18, <2>1, <2>3, <2>4, OthersWritten DEF LaunchFails
<1>19. ASSUME NEW r \in Requests, LoadReady(r) PROVE WrittenInv'
  <2>1. Others(r)
    BY <1>19, OthersAlone DEF Step
  <2>2. Written(r) /\ TypeOK /\ at[r] \in 1..loads /\ LoadOf(at[r]) /\ pc[r] = "joined"
    BY <1>19 DEF WrittenInv, LoadReady, LoadInv
  <2>3. ASSUME Answer(r, <<"error">>) PROVE Written(r)'
    BY <2>2, <2>3, Answered, ShortAnswers DEF Written, Before
  <2>4. ASSUME err[at[r]] = "ctx", Answer(r, <<>>) PROVE Written(r)'
    <3>1. Inherits(r)
      BY <2>2, <2>4 DEF LoadOf, Inherits
    <3>2. Growth /\ at' = at
      BY <2>4, Grows DEF Answer
    <3>3. Inherits(r)'
      BY <3>1, <3>2, InheritsKept
    <3> QED
      BY <2>2, <2>4, <3>3, Answered, ShortAnswers DEF Written, Before
  <2>5. ASSUME NEW where \in {"serving", "acquire"}, Goto(r, where), UNCHANGED resp
        PROVE  Written(r)'
    BY <1>19, <2>2, <2>5 DEF LoadReady, Goto, Written, TypeOK, Before
  <2> QED
    BY <1>19, <2>1, <2>3, <2>4, <2>5, OthersWritten DEF LoadReady
<1>20. ASSUME EvictLoad PROVE WrittenInv'
  <2>1. Growth
    BY Grows
  <2>2. UNCHANGED <<pc, kind, at, ctxDone, resp, content, sent, ending>>
    BY <1>20 DEF EvictLoad, reqVars, outVars
  <2>3. ASSUME NEW q \in Requests PROVE Written(q)'
    <3>1. Written(q) /\ (Inherits(q) => Inherits(q)')
      BY <2>1, <2>2, InheritsKept DEF WrittenInv
    <3> QED
      BY <2>2, <3>1 DEF Written
  <2> QED
    BY <2>3 DEF WrittenInv
<1>21. ASSUME AbandonLoad PROVE WrittenInv'
  <2>1. Growth
    BY Grows
  <2>2. UNCHANGED <<pc, kind, at, ctxDone, resp, content, sent, ending>>
    BY <1>21 DEF AbandonLoad, reqVars, outVars
  <2>3. ASSUME NEW q \in Requests PROVE Written(q)'
    <3>1. Written(q) /\ (Inherits(q) => Inherits(q)')
      BY <2>1, <2>2, InheritsKept DEF WrittenInv
    <3> QED
      BY <2>2, <3>1 DEF Written
  <2> QED
    BY <2>3 DEF WrittenInv
<1> QED
  BY <1>1, <1>2, <1>3, <1>4, <1>5, <1>6, <1>7, <1>8, <1>9, <1>10, <1>11,
     <1>12, <1>13, <1>14, <1>15, <1>16, <1>17, <1>18, <1>19, <1>20, <1>21 DEF
     Next, Step

\* Requests that are not a load's launcher leave it alone.
LEMMA LoadAlone ==
  ASSUME Inv, NEW r \in Requests, Others(r), UNCHANGED <<loadVars, ctxDone>>,
         pc[r] # "loading", pc'[r] # "loading", pc'[r] = "joined" => at'[r] \in 1..loads
  PROVE  LoadInv'
<1>1. LoadInv /\ TypeOK
  BY DEF Inv
<1>2. ASSUME NEW q \in Requests
      PROVE  pc'[q] \in {"loading", "joined"} => at'[q] \in 1..loads'
  BY <1>1 DEF LoadInv, Others, loadVars
<1>3. ASSUME NEW q \in Requests, pc'[q] = "loading" PROVE launcher'[at'[q]] = q
  BY <1>1, <1>3 DEF LoadInv, Others, loadVars
<1>4. ASSUME NEW k \in 1..loads' PROVE LoadOf(k)'
  <2>1. k \in 1..loads /\ LoadOf(k) /\ UNCHANGED <<loads, err, launcher, evicted, abandoned>>
    BY <1>1, <1>4 DEF LoadInv, loadVars
  <2> QED
    BY <2>1 DEF LoadOf, Others
<1>5. \A k \in 1..MaxLoads : k > loads' => err'[k] = "none"
  BY <1>1 DEF LoadInv, loadVars
<1> QED
  BY <1>2, <1>3, <1>4, <1>5 DEF LoadInv

\* A load ends with its launcher's, and is cancelled for a reason.
LEMMA LoadKept == Inv /\ Next => LoadInv'
<1> SUFFICES ASSUME Inv, Next PROVE LoadInv'
  OBVIOUS
<1>0. TypeOK /\ LoadInv
  BY DEF Inv
<1> USE <1>0
<1>others. ASSUME NEW r \in Requests, Step(r) PROVE Others(r)
  BY <1>others, OthersAlone
<1>1. ASSUME NEW r \in Requests, Arrive(r) PROVE LoadInv'
  <2>1. /\ UNCHANGED <<loadVars, ctxDone>>
        /\ pc[r] # "loading" /\ pc'[r] \notin {"loading", "joined"}
    BY <1>1 DEF Arrive, Answer, ttlVars, TypeOK
  <2> QED
    BY <1>1, <1>others, <2>1, LoadAlone DEF Step
<1>2. ASSUME NEW r \in Requests, SetTTLMap(r) PROVE LoadInv'
  <2>1. /\ UNCHANGED <<loadVars, ctxDone>>
        /\ pc[r] # "loading" /\ pc'[r] \notin {"loading", "joined"}
    BY <1>2 DEF SetTTLMap, Goto, TypeOK
  <2> QED
    BY <1>2, <1>others, <2>1, LoadAlone DEF Step
<1>3. ASSUME NEW r \in Requests, SetTTLInstance(r) PROVE LoadInv'
  <2>1. /\ UNCHANGED <<loadVars, ctxDone>>
        /\ pc[r] # "loading" /\ pc'[r] \notin {"loading", "joined"}
    BY <1>3 DEF SetTTLInstance, Goto, Setting, TypeOK
  <2> QED
    BY <1>3, <1>others, <2>1, LoadAlone DEF Step
<1>4. ASSUME NEW r \in Requests, NoTTL(r) PROVE LoadInv'
  <2>1. /\ UNCHANGED <<loadVars, ctxDone>>
        /\ pc[r] # "loading" /\ pc'[r] \notin {"loading", "joined"}
    BY <1>4 DEF NoTTL, Goto, ttlVars, TypeOK
  <2> QED
    BY <1>4, <1>others, <2>1, LoadAlone DEF Step
<1>5. ASSUME NEW r \in Requests, Join(r) PROVE LoadInv'
  <2>1. /\ UNCHANGED <<loadVars, ctxDone>>
        /\ pc[r] # "loading" /\ pc'[r] \notin {"loading", "joined"}
    BY <1>5 DEF Join, Goto, ttlVars, TypeOK
  <2> QED
    BY <1>5, <1>others, <2>1, LoadAlone DEF Step
<1>6. ASSUME NEW r \in Requests, Launch(r) PROVE LoadInv'
  <2>1. Others(r) /\ Growth
    BY <1>6, <1>others, Grows DEF Step
  <2>2. /\ pc[r] = "loading" /\ at[r] \in 1..loads /\ launcher[at[r]] = r
        /\ UNCHANGED <<loads, launcher, evicted, abandoned, at, ctxDone>>
        /\ pc'[r] \in {"serving", "ended"}
    BY <1>6 DEF Launch, Goto, SettleAs, LoadInv, TypeOK
  <2>3. PICK e \in {"ok", "error", "ctx"} :
          /\ err' = [err EXCEPT ![at[r]] = e]
          /\ e = "ctx" => ctxDone[r] \/ at[r] \in evicted \cup abandoned
    BY <1>6 DEF Launch, SettleAs
  <2>4. \A k \in 1..loads : err'[k] = IF k = at[r] THEN e ELSE err[k]
    BY <2>3, BoundAssumption DEF TypeOK
  <2>5. ASSUME NEW q \in Requests PROVE
          /\ pc'[q] \in {"loading", "joined"} => at'[q] \in 1..loads'
          /\ pc'[q] = "loading" => launcher'[at'[q]] = q
    BY <2>1, <2>2 DEF LoadInv, Others
  <2>6. ASSUME NEW k \in 1..loads PROVE LoadOf(k)'
    <3>1. LoadOf(k)
      BY DEF LoadInv
    <3>2. CASE k = at[r]
      BY <2>2, <2>3, <2>4, <3>1, <3>2 DEF LoadOf
    <3>3. CASE k # at[r]
      <4>1. err'[k] = "none" => launcher[k] # r
        BY <2>2, <2>4, <3>1, <3>3 DEF LoadOf
      <4> QED
        BY <2>1, <2>2, <2>4, <3>1, <3>3, <4>1 DEF LoadOf, Others
    <3> QED
      BY <3>2, <3>3
  <2>7. \A k \in 1..MaxLoads : k > loads' => err'[k] = "none"
    <3>1. \A k \in 1..MaxLoads : k > loads => k # at[r]
      BY <2>2, BoundAssumption DEF TypeOK
    <3> QED
      BY <2>2, <2>3, <3>1 DEF LoadInv, TypeOK
  <2> QED
    BY <2>2, <2>5, <2>6, <2>7 DEF LoadInv
<1>7. ASSUME NEW r \in Requests, AcquireFails(r) PROVE LoadInv'
  <2>1. /\ UNCHANGED <<loadVars, ctxDone>>
        /\ pc[r] # "loading" /\ pc'[r] \notin {"loading", "joined"}
    BY <1>7 DEF AcquireFails, Answer, ttlVars, TypeOK
  <2> QED
    BY <1>7, <1>others, <2>1, LoadAlone DEF Step
<1>8. ASSUME NEW r \in Requests, ChildRefuses(r) PROVE LoadInv'
  <2>1. /\ UNCHANGED <<loadVars, ctxDone>>
        /\ pc[r] # "loading" /\ pc'[r] \notin {"loading", "joined"}
    BY <1>8 DEF ChildRefuses, Answer, ttlVars, TypeOK
  <2> QED
    BY <1>8, <1>others, <2>1, LoadAlone DEF Step
<1>9. ASSUME NEW r \in Requests, Embed(r) PROVE LoadInv'
  <2>1. /\ UNCHANGED <<loadVars, ctxDone>>
        /\ pc[r] # "loading" /\ pc'[r] \notin {"loading", "joined"}
    BY <1>9 DEF Embed, Answer, ttlVars, TypeOK
  <2> QED
    BY <1>9, <1>others, <2>1, LoadAlone DEF Step
<1>10. ASSUME NEW r \in Requests, Accepted(r) PROVE LoadInv'
  <2>1. /\ UNCHANGED <<loadVars, ctxDone>>
        /\ pc[r] # "loading" /\ pc'[r] \notin {"loading", "joined"}
    BY <1>10 DEF Accepted, Goto, ttlVars, TypeOK
  <2> QED
    BY <1>10, <1>others, <2>1, LoadAlone DEF Step
<1>11. ASSUME NEW r \in Requests, ReadLine(r) PROVE LoadInv'
  <2>1. /\ UNCHANGED <<loadVars, ctxDone>>
        /\ pc[r] # "loading" /\ pc'[r] \notin {"loading", "joined"}
    BY <1>11 DEF ReadLine, ttlVars, reqVars, TypeOK
  <2> QED
    BY <1>11, <1>others, <2>1, LoadAlone DEF Step
<1>12. ASSUME NEW r \in Requests, ReadEnds(r) PROVE LoadInv'
  <2>1. /\ UNCHANGED <<loadVars, ctxDone>>
        /\ pc[r] # "loading" /\ pc'[r] \notin {"loading", "joined"}
    BY <1>12 DEF ReadEnds, Answer, ttlVars, TypeOK
  <2> QED
    BY <1>12, <1>others, <2>1, LoadAlone DEF Step
<1>13. ASSUME NEW r \in Requests, ReadBreaks(r) PROVE LoadInv'
  <2>1. /\ UNCHANGED <<loadVars, ctxDone>>
        /\ pc[r] # "loading" /\ pc'[r] \notin {"loading", "joined"}
    BY <1>13 DEF ReadBreaks, Answer, ttlVars, TypeOK
  <2> QED
    BY <1>13, <1>others, <2>1, LoadAlone DEF Step
<1>14. ASSUME NEW r \in Requests, ClientLeaves(r) PROVE LoadInv'
  <2>1. /\ UNCHANGED <<loads, err, launcher, evicted, abandoned, pc, at>>
        /\ \A q \in Requests : ctxDone[q] => ctxDone'[q]
    BY <1>14 DEF ClientLeaves, ttlVars, loadVars, TypeOK
  <2> QED
    BY <2>1 DEF LoadInv, LoadOf
<1>15. ASSUME Unload PROVE LoadInv'
  BY <1>15 DEF Unload, loadVars, reqVars, LoadInv, LoadOf
<1>16. ASSUME NEW r \in Requests, JoinLoad(r) PROVE LoadInv'
  <2>1. /\ UNCHANGED <<loadVars, ctxDone>> /\ pc[r] # "loading" /\ pc'[r] # "loading"
        /\ at'[r] \in 1..loads
    BY <1>16, BoundAssumption DEF JoinLoad, Loading, Goto, ttlVars, TypeOK
  <2> QED
    BY <1>16, <1>others, <2>1, LoadAlone DEF Step
<1>17. ASSUME NEW r \in Requests, StartLoad(r) PROVE LoadInv'
  <2>1. Others(r)
    BY <1>17, <1>others DEF Step
  <2>2. /\ pc[r] = "acquire" /\ pc'[r] = "loading" /\ at'[r] = loads + 1
        /\ loads \in Nat /\ loads' = loads + 1 /\ loads + 1 \in 1..MaxLoads
        /\ UNCHANGED <<err, evicted, abandoned, ctxDone>>
        /\ launcher'[loads + 1] = r /\ \A k \in 1..loads : launcher'[k] = launcher[k]
    BY <1>17, BoundAssumption DEF StartLoad, Goto, TypeOK
  <2>3. ASSUME NEW q \in Requests PROVE
          /\ pc'[q] \in {"loading", "joined"} => at'[q] \in 1..loads'
          /\ pc'[q] = "loading" => launcher'[at'[q]] = q
    BY <2>1, <2>2 DEF LoadInv, Others
  <2>4. ASSUME NEW k \in 1..loads PROVE LoadOf(k)'
    BY <2>1, <2>2 DEF LoadInv, LoadOf, Others
  <2>5. ASSUME NEW k \in {loads + 1} PROVE LoadOf(k)'
    <3>1. err[k] = "none" /\ k \notin abandoned
      <4>1. k \in 1..MaxLoads /\ k > loads /\ k \notin 1..loads
        BY <2>2
      <4> QED
        BY <4>1 DEF LoadInv, TypeOK
    <3> QED
      BY <2>2, <3>1 DEF LoadOf
  <2>6. \A k \in 1..loads' : k \in 1..loads \/ k \in {loads + 1}
    BY <2>2
  <2>7. \A k \in 1..loads' : LoadOf(k)'
    BY <2>4, <2>5, <2>6
  <2>8. \A k \in 1..MaxLoads : k > loads' => err'[k] = "none"
    BY <2>2, BoundAssumption DEF LoadInv
  <2> QED
    BY <2>3, <2>7, <2>8 DEF LoadInv
<1>18. ASSUME NEW r \in Requests, LaunchFails(r) PROVE LoadInv'
  <2>1. Others(r) /\ Growth
    BY <1>18, <1>others, Grows DEF Step
  <2>2. /\ pc[r] = "loading" /\ at[r] \in 1..loads /\ launcher[at[r]] = r
        /\ UNCHANGED <<loads, launcher, evicted, abandoned, at, ctxDone>>
        /\ pc'[r] \in {"serving", "ended"}
    BY <1>18 DEF LaunchFails, Answer, SettleAs, LoadInv, TypeOK
  <2>3. PICK e \in {"ok", "error", "ctx"} :
          /\ err' = [err EXCEPT ![at[r]] = e]
          /\ e = "ctx" => ctxDone[r] \/ at[r] \in evicted \cup abandoned
    BY <1>18 DEF LaunchFails, SettleAs
  <2>4. \A k \in 1..loads : err'[k] = IF k = at[r] THEN e ELSE err[k]
    BY <2>3, BoundAssumption DEF TypeOK
  <2>5. ASSUME NEW q \in Requests PROVE
          /\ pc'[q] \in {"loading", "joined"} => at'[q] \in 1..loads'
          /\ pc'[q] = "loading" => launcher'[at'[q]] = q
    BY <2>1, <2>2 DEF LoadInv, Others
  <2>6. ASSUME NEW k \in 1..loads PROVE LoadOf(k)'
    <3>1. LoadOf(k)
      BY DEF LoadInv
    <3>2. CASE k = at[r]
      BY <2>2, <2>3, <2>4, <3>1, <3>2 DEF LoadOf
    <3>3. CASE k # at[r]
      <4>1. err'[k] = "none" => launcher[k] # r
        BY <2>2, <2>4, <3>1, <3>3 DEF LoadOf
      <4> QED
        BY <2>1, <2>2, <2>4, <3>1, <3>3, <4>1 DEF LoadOf, Others
    <3> QED
      BY <3>2, <3>3
  <2>7. \A k \in 1..MaxLoads : k > loads' => err'[k] = "none"
    <3>1. \A k \in 1..MaxLoads : k > loads => k # at[r]
      BY <2>2, BoundAssumption DEF TypeOK
    <3> QED
      BY <2>2, <2>3, <3>1 DEF LoadInv, TypeOK
  <2> QED
    BY <2>2, <2>5, <2>6, <2>7 DEF LoadInv
<1>19. ASSUME NEW r \in Requests, LoadReady(r) PROVE LoadInv'
  <2>1. /\ UNCHANGED <<loadVars, ctxDone>>
        /\ pc[r] # "loading" /\ pc'[r] \notin {"loading", "joined"}
    BY <1>19 DEF LoadReady, Answer, Goto, ttlVars, TypeOK
  <2> QED
    BY <1>19, <1>others, <2>1, LoadAlone DEF Step
<1>20. ASSUME EvictLoad PROVE LoadInv'
  BY <1>20 DEF EvictLoad, reqVars, LoadInv, LoadOf
<1>21. ASSUME AbandonLoad PROVE LoadInv'
  <2>1. PICK k \in Loading :
          /\ \A q \in Requests : at[q] = k => ctxDone[q]
          /\ abandoned' = abandoned \cup {k}
    BY <1>21 DEF AbandonLoad
  <2>2. k \in 1..loads /\ LoadOf(k) /\ err[k] = "none"
    BY <2>1 DEF Loading, LoadInv
  <2>3. ctxDone[launcher[k]]
    BY <2>1, <2>2 DEF LoadOf
  <2> QED
    BY <1>21, <2>1, <2>3 DEF AbandonLoad, reqVars, LoadInv, LoadOf
<1> QED
  BY <1>1, <1>2, <1>3, <1>4, <1>5, <1>6, <1>7, <1>8, <1>9, <1>10, <1>11,
     <1>12, <1>13, <1>14, <1>15, <1>16, <1>17, <1>18, <1>19, <1>20, <1>21 DEF
     Next, Step

\* A second call of SetModelTTL between the two locks of the first is a race.
LEMMA SettingKept == Inv /\ Next => SettingInv'
<1> SUFFICES ASSUME Inv, Next PROVE SettingInv'
  OBVIOUS
<1>0. TypeOK /\ SettingInv /\ ResidentTTLAgrees
  BY DEF Inv
<1> USE <1>0, BoundAssumption DEF TypeOK, SettingInv, ResidentTTLAgrees,
   Before, Setting, Reported
<1>1. ASSUME NEW r \in Requests, Arrive(r) PROVE SettingInv'
  <2>1. UNCHANGED ttlVars /\ at' = at
    BY <1>1 DEF Arrive, Answer
  <2>2. \A q \in Requests :
          (Setting(q)' <=> Setting(q)) /\ (Setting(q) => ka'[q] = ka[q])
    BY <1>1 DEF Arrive, Answer
  <2> QED
    BY <2>1, <2>2 DEF ttlVars
<1>2. ASSUME NEW r \in Requests, SetTTLMap(r) PROVE SettingInv'
  <2> DEFINE key == Target.keys[1]
  <2>1. key \in DOMAIN modelTTLs' /\ modelTTLs'[key] = ka[r].ttl
    BY <1>2 DEF SetTTLMap
  <2>2. Reported' = ka[r].ttl
    BY <2>1, OverrideReported
  <2>3. /\ UNCHANGED <<inst, ttl, ka>> /\ at'[r] = inst /\ Setting(r)'
        /\ \A q \in Requests : q # r => (Setting(q)' <=> Setting(q))
    BY <1>2 DEF SetTTLMap, Goto
  <2>4. ~raced' => \A q \in Requests : ~Setting(q)
    BY <1>2 DEF SetTTLMap
  <2> HIDE DEF Reported
  <2> QED
    BY <2>2, <2>3, <2>4
<1>3. ASSUME NEW r \in Requests, SetTTLInstance(r) PROVE SettingInv'
  <2>1. ~raced' => \A q \in Requests : ~Setting(q)'
    BY <1>3 DEF SetTTLInstance, Goto
  <2> QED
    BY <2>1
<1>4. ASSUME NEW r \in Requests, NoTTL(r) PROVE SettingInv'
  BY <1>4 DEF NoTTL, Goto, ttlVars
<1>5. ASSUME NEW r \in Requests, Join(r) PROVE SettingInv'
  BY <1>5 DEF Join, Goto, ttlVars
<1>6. ASSUME NEW r \in Requests, Launch(r) PROVE SettingInv'
  <2>0. at[r] \in 1..loads
    BY <1>6 DEF Launch, SettleAs, Inv, LoadInv
  <2>1. /\ Reported' = Reported /\ inst' = at[r] /\ ttl'[at[r]] = Reported
        /\ UNCHANGED <<raced, ka, at>>
        /\ \A q \in Requests : Setting(q)' <=> Setting(q)
    BY <1>6, <2>0 DEF Launch, SettleAs, Goto
  <2> HIDE DEF Reported
  <2> QED
    BY <2>0, <2>1
<1>7. ASSUME NEW r \in Requests, AcquireFails(r) PROVE SettingInv'
  <2>1. /\ UNCHANGED <<ttlVars, ka, at>>
        /\ \A q \in Requests : Setting(q)' <=> Setting(q)
    BY <1>7 DEF AcquireFails, Answer
  <2> QED
    BY <2>1 DEF ttlVars
<1>8. ASSUME NEW r \in Requests, ChildRefuses(r) PROVE SettingInv'
  <2>1. /\ UNCHANGED <<ttlVars, ka, at>>
        /\ \A q \in Requests : Setting(q)' <=> Setting(q)
    BY <1>8 DEF ChildRefuses, Answer
  <2> QED
    BY <2>1 DEF ttlVars
<1>9. ASSUME NEW r \in Requests, Embed(r) PROVE SettingInv'
  <2>1. /\ UNCHANGED <<ttlVars, ka, at>>
        /\ \A q \in Requests : Setting(q)' <=> Setting(q)
    BY <1>9 DEF Embed, Answer
  <2> QED
    BY <2>1 DEF ttlVars
<1>10. ASSUME NEW r \in Requests, Accepted(r) PROVE SettingInv'
  BY <1>10 DEF Accepted, Goto, ttlVars
<1>11. ASSUME NEW r \in Requests, ReadLine(r) PROVE SettingInv'
  BY <1>11 DEF ReadLine, ttlVars, reqVars
<1>12. ASSUME NEW r \in Requests, ReadEnds(r) PROVE SettingInv'
  <2>1. /\ UNCHANGED <<ttlVars, ka, at>>
        /\ \A q \in Requests : Setting(q)' <=> Setting(q)
    BY <1>12 DEF ReadEnds, Answer
  <2> QED
    BY <2>1 DEF ttlVars
<1>13. ASSUME NEW r \in Requests, ReadBreaks(r) PROVE SettingInv'
  <2>1. /\ UNCHANGED <<ttlVars, ka, at>>
        /\ \A q \in Requests : Setting(q)' <=> Setting(q)
    BY <1>13 DEF ReadBreaks, Answer
  <2> QED
    BY <2>1 DEF ttlVars
<1>14. ASSUME NEW r \in Requests, ClientLeaves(r) PROVE SettingInv'
  BY <1>14 DEF ClientLeaves, ttlVars
<1>15. ASSUME Unload PROVE SettingInv'
  BY <1>15 DEF Unload, reqVars
<1>16. ASSUME NEW r \in Requests, JoinLoad(r) PROVE SettingInv'
  <2>1. /\ UNCHANGED <<modelTTLs, inst, ttl, raced, ka>>
        /\ \A q \in Requests : (Setting(q)' <=> Setting(q)) /\ (Setting(q) => at'[q] = at[q])
    BY <1>16 DEF JoinLoad, Goto, ttlVars
  <2> QED
    BY <2>1
<1>17. ASSUME NEW r \in Requests, StartLoad(r) PROVE SettingInv'
  <2>1. /\ UNCHANGED <<modelTTLs, inst, ttl, raced, ka>>
        /\ \A q \in Requests : (Setting(q)' <=> Setting(q)) /\ (Setting(q) => at'[q] = at[q])
    BY <1>17 DEF StartLoad, Goto
  <2> QED
    BY <2>1
<1>18. ASSUME NEW r \in Requests, LaunchFails(r) PROVE SettingInv'
  <2>1. /\ UNCHANGED <<modelTTLs, inst, ttl, raced, ka>>
        /\ \A q \in Requests : (Setting(q)' <=> Setting(q)) /\ (Setting(q) => at'[q] = at[q])
    BY <1>18 DEF LaunchFails, SettleAs, Answer
  <2> QED
    BY <2>1
<1>19. ASSUME NEW r \in Requests, LoadReady(r) PROVE SettingInv'
  <2>1. /\ UNCHANGED <<modelTTLs, inst, ttl, raced, ka>>
        /\ \A q \in Requests : (Setting(q)' <=> Setting(q)) /\ (Setting(q) => at'[q] = at[q])
    BY <1>19 DEF LoadReady, Answer, Goto, ttlVars
  <2> QED
    BY <2>1
<1>20. ASSUME EvictLoad PROVE SettingInv'
  <2>1. /\ UNCHANGED <<modelTTLs, inst, ttl, raced, ka>>
        /\ \A q \in Requests : (Setting(q)' <=> Setting(q)) /\ (Setting(q) => at'[q] = at[q])
    BY <1>20 DEF EvictLoad, reqVars
  <2> QED
    BY <2>1
<1>21. ASSUME AbandonLoad PROVE SettingInv'
  <2>1. /\ UNCHANGED <<modelTTLs, inst, ttl, raced, ka>>
        /\ \A q \in Requests : (Setting(q)' <=> Setting(q)) /\ (Setting(q) => at'[q] = at[q])
    BY <1>21 DEF AbandonLoad, reqVars
  <2> QED
    BY <2>1
<1> QED
  BY <1>1, <1>2, <1>3, <1>4, <1>5, <1>6, <1>7, <1>8, <1>9, <1>10, <1>11,
     <1>12, <1>13, <1>14, <1>15, <1>16, <1>17, <1>18, <1>19, <1>20, <1>21 DEF
     Next, Step

\* The TTL is set last in the instance, and a load takes the one that is set.
LEMMA AgreesKept == Inv /\ Next => ResidentTTLAgrees'
<1> SUFFICES ASSUME Inv, Next PROVE ResidentTTLAgrees'
  OBVIOUS
<1>0. TypeOK /\ SettingInv /\ ResidentTTLAgrees
  BY DEF Inv
<1> USE <1>0, BoundAssumption DEF TypeOK, SettingInv, ResidentTTLAgrees,
   Before, Setting, Reported
<1>1. ASSUME NEW r \in Requests, Arrive(r) PROVE ResidentTTLAgrees'
  <2>1. UNCHANGED ttlVars /\ at' = at
    BY <1>1 DEF Arrive, Answer
  <2>2. \A q \in Requests :
          (Setting(q)' <=> Setting(q)) /\ (Setting(q) => ka'[q] = ka[q])
    BY <1>1 DEF Arrive, Answer
  <2> QED
    BY <2>1, <2>2 DEF ttlVars
<1>2. ASSUME NEW r \in Requests, SetTTLMap(r) PROVE ResidentTTLAgrees'
  <2> DEFINE key == Target.keys[1]
  <2>1. key \in DOMAIN modelTTLs' /\ modelTTLs'[key] = ka[r].ttl
    BY <1>2 DEF SetTTLMap
  <2>2. Reported' = ka[r].ttl
    BY <2>1, OverrideReported
  <2>3. /\ UNCHANGED <<inst, ttl, ka>> /\ at'[r] = inst /\ Setting(r)'
        /\ \A q \in Requests : q # r => (Setting(q)' <=> Setting(q))
    BY <1>2 DEF SetTTLMap, Goto
  <2>4. ~raced' => \A q \in Requests : ~Setting(q)
    BY <1>2 DEF SetTTLMap
  <2> HIDE DEF Reported
  <2> QED
    BY <2>2, <2>3, <2>4
<1>3. ASSUME NEW r \in Requests, SetTTLInstance(r) PROVE ResidentTTLAgrees'
  BY <1>3 DEF SetTTLInstance
<1>4. ASSUME NEW r \in Requests, NoTTL(r) PROVE ResidentTTLAgrees'
  BY <1>4 DEF NoTTL, Goto, ttlVars
<1>5. ASSUME NEW r \in Requests, Join(r) PROVE ResidentTTLAgrees'
  BY <1>5 DEF Join, Goto, ttlVars
<1>6. ASSUME NEW r \in Requests, Launch(r) PROVE ResidentTTLAgrees'
  <2>0. at[r] \in 1..loads
    BY <1>6 DEF Launch, SettleAs, Inv, LoadInv
  <2> QED
    BY <1>6, <2>0 DEF Launch, SettleAs, Goto
<1>7. ASSUME NEW r \in Requests, AcquireFails(r) PROVE ResidentTTLAgrees'
  <2>1. /\ UNCHANGED <<ttlVars, ka, at>>
        /\ \A q \in Requests : Setting(q)' <=> Setting(q)
    BY <1>7 DEF AcquireFails, Answer
  <2> QED
    BY <2>1 DEF ttlVars
<1>8. ASSUME NEW r \in Requests, ChildRefuses(r) PROVE ResidentTTLAgrees'
  <2>1. /\ UNCHANGED <<ttlVars, ka, at>>
        /\ \A q \in Requests : Setting(q)' <=> Setting(q)
    BY <1>8 DEF ChildRefuses, Answer
  <2> QED
    BY <2>1 DEF ttlVars
<1>9. ASSUME NEW r \in Requests, Embed(r) PROVE ResidentTTLAgrees'
  <2>1. /\ UNCHANGED <<ttlVars, ka, at>>
        /\ \A q \in Requests : Setting(q)' <=> Setting(q)
    BY <1>9 DEF Embed, Answer
  <2> QED
    BY <2>1 DEF ttlVars
<1>10. ASSUME NEW r \in Requests, Accepted(r) PROVE ResidentTTLAgrees'
  BY <1>10 DEF Accepted, Goto, ttlVars
<1>11. ASSUME NEW r \in Requests, ReadLine(r) PROVE ResidentTTLAgrees'
  BY <1>11 DEF ReadLine, ttlVars, reqVars
<1>12. ASSUME NEW r \in Requests, ReadEnds(r) PROVE ResidentTTLAgrees'
  <2>1. /\ UNCHANGED <<ttlVars, ka, at>>
        /\ \A q \in Requests : Setting(q)' <=> Setting(q)
    BY <1>12 DEF ReadEnds, Answer
  <2> QED
    BY <2>1 DEF ttlVars
<1>13. ASSUME NEW r \in Requests, ReadBreaks(r) PROVE ResidentTTLAgrees'
  <2>1. /\ UNCHANGED <<ttlVars, ka, at>>
        /\ \A q \in Requests : Setting(q)' <=> Setting(q)
    BY <1>13 DEF ReadBreaks, Answer
  <2> QED
    BY <2>1 DEF ttlVars
<1>14. ASSUME NEW r \in Requests, ClientLeaves(r) PROVE ResidentTTLAgrees'
  BY <1>14 DEF ClientLeaves, ttlVars
<1>15. ASSUME Unload PROVE ResidentTTLAgrees'
  BY <1>15 DEF Unload
<1>16. ASSUME NEW r \in Requests, JoinLoad(r) PROVE ResidentTTLAgrees'
  <2>1. /\ UNCHANGED <<modelTTLs, inst, ttl, raced, ka>>
        /\ \A q \in Requests : (Setting(q)' <=> Setting(q)) /\ (Setting(q) => at'[q] = at[q])
    BY <1>16 DEF JoinLoad, Goto, ttlVars
  <2> QED
    BY <2>1
<1>17. ASSUME NEW r \in Requests, StartLoad(r) PROVE ResidentTTLAgrees'
  <2>1. /\ UNCHANGED <<modelTTLs, inst, ttl, raced, ka>>
        /\ \A q \in Requests : (Setting(q)' <=> Setting(q)) /\ (Setting(q) => at'[q] = at[q])
    BY <1>17 DEF StartLoad, Goto
  <2> QED
    BY <2>1
<1>18. ASSUME NEW r \in Requests, LaunchFails(r) PROVE ResidentTTLAgrees'
  <2>1. /\ UNCHANGED <<modelTTLs, inst, ttl, raced, ka>>
        /\ \A q \in Requests : (Setting(q)' <=> Setting(q)) /\ (Setting(q) => at'[q] = at[q])
    BY <1>18 DEF LaunchFails, SettleAs, Answer
  <2> QED
    BY <2>1
<1>19. ASSUME NEW r \in Requests, LoadReady(r) PROVE ResidentTTLAgrees'
  <2>1. /\ UNCHANGED <<modelTTLs, inst, ttl, raced, ka>>
        /\ \A q \in Requests : (Setting(q)' <=> Setting(q)) /\ (Setting(q) => at'[q] = at[q])
    BY <1>19 DEF LoadReady, Answer, Goto, ttlVars
  <2> QED
    BY <2>1
<1>20. ASSUME EvictLoad PROVE ResidentTTLAgrees'
  <2>1. /\ UNCHANGED <<modelTTLs, inst, ttl, raced, ka>>
        /\ \A q \in Requests : (Setting(q)' <=> Setting(q)) /\ (Setting(q) => at'[q] = at[q])
    BY <1>20 DEF EvictLoad, reqVars
  <2> QED
    BY <2>1
<1>21. ASSUME AbandonLoad PROVE ResidentTTLAgrees'
  <2>1. /\ UNCHANGED <<modelTTLs, inst, ttl, raced, ka>>
        /\ \A q \in Requests : (Setting(q)' <=> Setting(q)) /\ (Setting(q) => at'[q] = at[q])
    BY <1>21 DEF AbandonLoad, reqVars
  <2> QED
    BY <2>1
<1> QED
  BY <1>1, <1>2, <1>3, <1>4, <1>5, <1>6, <1>7, <1>8, <1>9, <1>10, <1>11,
     <1>12, <1>13, <1>14, <1>15, <1>16, <1>17, <1>18, <1>19, <1>20, <1>21 DEF
     Next, Step

-----------------------------------------------------------------------------
(* The theorems.                                                           *)

\* The invariant holds at the start.
LEMMA InvInit == Init => Inv
<1> SUFFICES ASSUME Init PROVE Inv
  OBVIOUS
<1>1. TypeOK
  <2>1. raced \in BOOLEAN /\ ctxDone \in [Requests -> BOOLEAN]
    BY DEF Init
  <2>2. /\ resp \in [Requests -> Seq(Tokens)] /\ content \in [Requests -> Seq(Chunks)]
        /\ sent \in [Requests -> Seq(Chunks)]
    BY DEF Init
  <2> QED
    BY <2>1, <2>2, BoundAssumption DEF Init, TypeOK, Before
<1>2. WrittenInv
  BY DEF Init, WrittenInv, Written, Before
<1>3. SettingInv /\ ResidentTTLAgrees
  BY DEF Init, SettingInv, ResidentTTLAgrees, Setting
<1>4. LoadInv
  BY BoundAssumption DEF Init, LoadInv
<1> QED
  BY <1>1, <1>2, <1>3, <1>4 DEF Inv

\* Every step keeps it.
LEMMA InvNext == Inv /\ [Next]_vars => Inv'
<1> SUFFICES ASSUME Inv, [Next]_vars PROVE Inv'
  OBVIOUS
<1>1. CASE Next
  BY <1>1, TypeKept, WrittenKept, LoadKept, SettingKept, AgreesKept DEF Inv
<1>2. CASE UNCHANGED vars
  BY <1>2 DEF vars, ttlVars, reqVars, outVars, Inv, TypeOK, WrittenInv,
     Written, Inherits, LoadInv, LoadOf, loadVars, SettingInv, Setting, Reported, ResidentTTLAgrees
<1> QED
  BY <1>1, <1>2

\* The inductive invariant holds in every reachable state.
THEOREM Invariance == Spec => []Inv
<1> QED
  BY InvInit, InvNext, PTL DEF Spec

\* Every client of the Ollama endpoints gets one answer: an error, or a status
\* with one final chunk; silence is for a client that is gone, or for a request
\* whose load was evicted or was launched for a client that is gone.
THEOREM OneAnswerHolds == Spec => []OneAnswer
<1>1. Inv => OneAnswer
  <2> SUFFICES ASSUME Inv, NEW r \in Requests
               PROVE  LET out == resp[r] IN
                      /\ out = <<"error">> \/
                         \A i \in DOMAIN out :
                           /\ (out[i] = "ok") <=> (i = 1)
                           /\ out[i] = "final" => i = Len(out) /\ pc[r] = "ended"
                           /\ out[i] # "error"
                      /\ pc[r] = "ended" =>
                           \/ out # <<>> /\ out[Len(out)] \in {"error", "final"}
                           \/ out = <<>> /\ (ctxDone[r] \/ Inherits(r))
    BY DEF OneAnswer
  <2>1. Written(r) /\ TypeOK
    BY DEF Inv, WrittenInv
  <2>2. sent[r] \in Seq(Chunks) /\ pc[r] \in Before \cup {"reading", "ended"}
    BY <2>1 DEF TypeOK
  <2>3. CASE resp[r] = <<>>
    BY <2>1, <2>3 DEF Written, Whole
  <2>4. CASE resp[r] = <<"error">>
    BY <2>4
  <2>5. CASE pc[r] = "ended" /\ resp[r] = Whole(sent[r])
    <3> DEFINE n == Len(sent[r]) + 2
    <3>1. /\ resp[r] \in Seq(Tokens) /\ n \in Nat /\ n >= 2 /\ Len(resp[r]) = n
          /\ resp[r][1] = "ok" /\ resp[r][n] = "final"
          /\ \A i \in 2..n - 1 : resp[r][i] \in Chunks
      BY <2>2, <2>5, WholeAnswer
    <3>2. DOMAIN resp[r] = 1..n
      BY <3>1
    <3> HIDE DEF n
    <3>3. \A i \in 1..n : i = 1 \/ i = n \/ resp[r][i] \in Chunks
      BY <3>1
    <3>4. resp[r] # <<>>
      BY <3>1
    <3> QED
      BY <2>5, <3>1, <3>2, <3>3, <3>4, ChunkAssumption
  <2>6. CASE pc[r] = "reading" /\ resp[r] = <<"ok">> \o sent[r]
    <3>1. DOMAIN resp[r] = 1..Len(sent[r]) + 1 /\ resp[r][1] = "ok"
      BY <2>2, <2>6
    <3>2. \A i \in DOMAIN resp[r] : i = 1 \/ resp[r][i] \in Chunks
      BY <2>2, <2>6
    <3> QED
      BY <2>6, <3>1, <3>2, ChunkAssumption
  <2> QED
    BY <2>1, <2>2, <2>3, <2>4, <2>5, <2>6 DEF Written
<1> QED
  BY <1>1, Invariance, PTL

\* What serveOllamaCompletion calls complete is what the child sent, in its order,
\* and an answer that is not streamed is never made of a broken one.
THEOREM AnswerFaithfulHolds == Spec => []AnswerFaithful
<1>1. Inv => AnswerFaithful
  BY DEF Inv, TypeOK, WrittenInv, Written, Whole, Before, AnswerFaithful
<1> QED
  BY <1>1, Invariance, PTL

\* Once SetModelTTL has returned, the resident instance idles by the TTL that
\* GetModelTTL reports, unless two calls have overlapped.
THEOREM ResidentTTLAgreesHolds == Spec => []ResidentTTLAgrees
<1>1. Inv => ResidentTTLAgrees
  BY DEF Inv
<1> QED
  BY <1>1, Invariance, PTL
=============================================================================
