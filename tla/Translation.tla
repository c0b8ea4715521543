----------------------------- MODULE Translation -----------------------------
(***************************************************************************)
(* The translation of final rows over the one connection to the            *)
(* translator: the turns of TurnLifecycle beside the link of               *)
(* TranslatorLink.                                                         *)
(*                                                                         *)
(* In TurnLifecycle the translator answers or fails; here it does so after *)
(* the steps of _translation_worker and of the link.                       *)
(***************************************************************************)
EXTENDS TurnLifecycle, TranslatorLink

CONSTANTS
  MaxChunks     \* bound: chunks that a source text is sent in

\* A line is a chunk of a final row's source.
ChunkLine(t, c) == <<t, c>>

ASSUME TranslationAssumption ==
  /\ MaxChunks \in Nat \ {0}
  /\ Lines = {ChunkLine(t, c) : t \in Turns, c \in 1..MaxChunks}

VARIABLES
  final,      \* where _translation_worker is with the job in translation_active_keys
  chunk,      \* the chunk it translates
  warming,    \* _warm_translator runs
  translator_available

workerVars == <<final, chunk, warming, translator_available>>
allVars == <<vars, linkVars, workerVars>>

TranslationInit ==
  /\ Init /\ LinkInit
  /\ final = "idle" /\ chunk = 0
  /\ translator_available = (connection # 0) /\ warming = (connection = 0)

\* Nothing that TurnLifecycle knows of changes.
TurnsStay == UNCHANGED vars
-----------------------------------------------------------------------------
(* Availability: _ensure_translator_ready and _warm_translator.            *)

\* The connection is there and trusted, or is made under the lock.
EnsureReady ==
  /\ \/ translator_available /\ connection # 0 /\ UNCHANGED linkVars
     \/ /\ holder = NoLine
        /\ Connect \/ (connection # 0 /\ UNCHANGED linkVars)
  /\ translator_available' = TRUE

\* No socket until the deadline.
EnsureFails ==
  /\ holder = NoLine /\ connection = 0 /\ ~daemon
  /\ translator_available' = FALSE
  /\ UNCHANGED linkVars

\* The start-up task tries until the translator is there.
Warm ==
  /\ warming
  /\ EnsureReady
  /\ warming' = FALSE
  /\ UNCHANGED <<final, chunk>> /\ TurnsStay
-----------------------------------------------------------------------------
(* _translation_worker.                                                    *)

FinalTakes ==
  /\ TakeJob /\ UNCHANGED conduct
  /\ final' = IF active' # active THEN "ensuring" ELSE final
  /\ UNCHANGED <<linkVars, chunk, warming, translator_available>>

FinalReady ==
  /\ final = "ensuring"
  /\ EnsureReady
  /\ final' = "asking" /\ chunk' = 1
  /\ UNCHANGED warming /\ TurnsStay
FinalUnready ==
  /\ final = "ensuring"
  /\ EnsureFails
  /\ final' = "failed"
  /\ Reply /\ shown' = shown /\ UNCHANGED conduct
  /\ UNCHANGED <<chunk, warming>>

FinalAsks ==
  /\ final = "asking"
  /\ Ask(ChunkLine(active, chunk))
  /\ final' = "waiting"
  /\ UNCHANGED <<chunk, warming, translator_available>> /\ TurnsStay

\* A reply is good and another chunk follows; the last is good and the text accepted
\* for an unchanged row; or a reply or the text is rejected, or the row has changed.
FinalAnswered ==
  /\ final = "waiting" /\ Answered
  /\ \/ /\ chunk < MaxChunks /\ chunk' = chunk + 1
        /\ final' = "asking" /\ TurnsStay
     \/ /\ Reply /\ UNCHANGED <<conduct, chunk>>
        /\ final' = IF shown' # shown THEN "done" ELSE "failed"
  /\ UNCHANGED <<warming, translator_available>>

FinalRaises ==
  /\ final = "waiting" /\ AskRaises
  /\ translator_available' = FALSE /\ final' = "failed"
  /\ Reply /\ shown' = shown /\ UNCHANGED conduct
  /\ UNCHANGED <<chunk, warming>>

\* The broadcast of the result is done.
FinalEnds ==
  /\ JobEnds /\ UNCHANGED conduct
  /\ translator_available' = (translator_available \/ final = "done")
  /\ final' = "idle" /\ chunk' = 0
  /\ UNCHANGED <<linkVars, warming>>

ProxyStep == Proxy /\ UNCHANGED workerVars /\ TurnsStay

FinalWorker ==
  \/ FinalTakes \/ FinalReady \/ FinalUnready
  \/ FinalAsks \/ FinalAnswered \/ FinalRaises \/ FinalEnds

\* The sessions, the finalize tasks and the utterance worker.
BesideTranslation ==
  /\ \/ Session \/ FlushStep \/ Clock
     \/ UtteranceWorker \/ (\E t \in Turns : Finalizer(t))
  /\ UNCHANGED <<linkVars, workerVars>>

TranslationNext ==
  BesideTranslation \/ Warm \/ FinalWorker \/ ProxyStep

TranslationSpec == TranslationInit /\ [][TranslationNext]_allVars

\* TurnLifecycle's fairness, but for its translation worker.
Beside(A) == A /\ UNCHANGED <<linkVars, workerVars>>
TranslationFairness ==
  /\ WF_allVars(Beside(FlushStep)) /\ WF_allVars(Beside(Clock))
  /\ WF_allVars(Beside(UtteranceWorker))
  /\ \A t \in Turns : WF_allVars(Beside(Finalizer(t)))
=============================================================================
