--------------------------- MODULE ContextLadder ----------------------------
(***************************************************************************)
(* The context lengths that Supervisor.tune (internal/supervisor/          *)
(* supervisor.go) tries for a model: its own, then the standard steps.     *)
(***************************************************************************)
EXTENDS Integers, Sequences, TLAPS

Steps == {32768, 16384, 8192, 4096, 2048, 1024, 512}

MutExtend(built, step, ctxLen) ==
  IF step <= ctxLen THEN Append(built, step) ELSE built

\* The loop that builds the ladder, one round: no step above ctxLen, and none
\* twice in a row.
Extend(built, step, ctxLen) ==
  IF step <= ctxLen /\ (Len(built) = 0 \/ built[Len(built)] # step)
    THEN Append(built, step) ELSE built

\* The two outcomes of a round of the ladder loop: the step goes to the end,
LEMMA ExtendAppends ==
  ASSUME NEW b, NEW s, NEW c, s <= c /\ (Len(b) = 0 \/ b[Len(b)] # s)
  PROVE  Extend(b, s, c) = Append(b, s)
BY DEF Extend

\* or it is left out.  (Both are stated here, before Ladder nests eight
\* rounds: a proof that expands Extend below would expand it in all of them.)
LEMMA ExtendSkips ==
  ASSUME NEW b, NEW s, NEW c, ~(s <= c /\ (Len(b) = 0 \/ b[Len(b)] # s))
  PROVE  Extend(b, s, c) = b
BY DEF Extend

Ladder(ctxLen) ==
  LET With(built, step) == Extend(built, step, ctxLen)
      long == With(With(With(<<>>, ctxLen), 32768), 16384)
      middle == With(With(With(long, 8192), 4096), 2048)
  IN  With(With(middle, 1024), 512)
=============================================================================
