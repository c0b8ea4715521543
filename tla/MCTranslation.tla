---------------------------- MODULE MCTranslation ----------------------------
(* Model-checking instance of Translation.                                 *)
EXTENDS Translation

NoLineMC == <<0, 0>>
LinesMC == {ChunkLine(t, c) : t \in Turns, c \in 1..MaxChunks}

\* A client that follows the protocol meets a translator that is slow, exits, or is
\* not there yet; a translator that is there and answers meets every client.
MCInit ==
  /\ TranslationInit
  /\ slow => conduct = {} /\ connection = 0
  /\ ~slow => connection = 1

\* Bound: the segments of the client of a slow translator.  It stops no step of a
\* task, since a hard cut still has its segment left.
SlowSegments == 2
Bounded ==
  slow => /\ segments <= SlowSegments
          /\ flush.why = "hard-cut" => segments < SlowSegments

MCSpec ==
  MCInit /\ [][TranslationNext /\ Bounded']_allVars /\ TranslationFairness
=============================================================================
