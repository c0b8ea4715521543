---------------------------- MODULE TurnLifecycle ----------------------------
(***************************************************************************)
(* Logical turns of one WebSocket session of meeting-server (server.py):   *)
(* the capture protocol and the segments of a turn, the finalize task that *)
(* closes a turn after a gap, the FINAL decodes that feed its transcript   *)
(* row, and the translation queue that a finalized turn enters.            *)
(*                                                                         *)
(* The handler of the session, a finalize task per turn, the utterance     *)
(* worker and the translation worker are tasks of one event loop: an       *)
(* action runs from one suspension point to the next.  Audio files are     *)
(* left to FinalPipeline; here a submitted segment only counts.            *)
(***************************************************************************)
EXTENDS Naturals, Sequences

CONSTANTS
  MaxTurns,      \* bound: turn ids of the session
  MaxSegments,   \* bound: segments the session captures
  TranslationCapacity, \* maxsize of translation_queue
  WritesFail,    \* whether a flush may raise
  Conducts       \* the sets of Liberties that are explored

ASSUME LifecycleAssumption ==
  /\ MaxTurns \in Nat \ {0}
  /\ MaxSegments \in Nat
  /\ TranslationCapacity \in Nat \ {0}
  /\ WritesFail \in BOOLEAN
  /\ Conducts \subseteq SUBSET {"reused_ids", "mixed_modes", "outages"}

Turns == 1..MaxTurns

VARIABLES
  conduct,        \* what may happen besides a client that follows the protocol:
                  \* a PTT client sends an utterance_id again, a client sends
                  \* speech_end while it captures, the VIT request of a FINAL raises
  connected,      \* the session is in meeting.clients
  capture_active,
  current,        \* client.current_id is set
  turn,           \* client.turn_id, 0 for ""
  recent,         \* within LOGICAL_TURN_GAP_MS of logical_last_end_mono
  flush,          \* the handler inside _flush_client_segment, or none
  started,        \* turn ids given out
  segments,       \* segments begun
  vit_available,
  turn_pending,
  worker,         \* the turn whose row the utterance worker broadcasts, or 0
  row,            \* turn_rows: none, open (not is_final) or final
  source_revision,
  finalizer,      \* turn_finalize_tasks, and where each task is
  queue,          \* translation_queue
  active,         \* translation_active_keys, 0 for none
  asked,          \* the source revision under translation, 0 for none
  shown,          \* translation_source_revision of the row, 0 for none
  jobs            \* how many translation jobs were queued for the turn

sessionVars == <<connected, capture_active, current, turn, recent>>
captureVars == <<flush, started, segments>>
rowVars == <<vit_available, turn_pending, worker, row, source_revision>>
translationVars == <<queue, active, asked, shown, jobs>>
vars == <<conduct, sessionVars, captureVars, rowVars, finalizer, translationVars>>

NoFlush == [at |-> "none", why |-> "none", turn |-> 0]
Ready == connected /\ flush = NoFlush

Init ==
  /\ conduct \in Conducts
  /\ connected = TRUE /\ capture_active = FALSE /\ current = FALSE
  /\ turn = 0 /\ recent = FALSE
  /\ flush = NoFlush /\ started = 0 /\ segments = 0
  /\ vit_available = TRUE /\ worker = 0
  /\ turn_pending = [t \in Turns |-> 0]
  /\ row = [t \in Turns |-> "none"]
  /\ source_revision = [t \in Turns |-> 0]
  /\ finalizer = [t \in Turns |-> "none"]
  /\ queue = <<>> /\ active = 0 /\ asked = 0
  /\ shown = [t \in Turns |-> 0]
  /\ jobs = [t \in Turns |-> 0]
-----------------------------------------------------------------------------
(* The session handler: control messages and VAD.                          *)

\* _schedule_turn_finalize: the older task of the key is cancelled.
Schedule(tasks, t, delay) ==
  IF t = 0 THEN tasks ELSE [tasks EXCEPT ![t] = delay]

\* Seeded defect: only the segment index and the context audio are reset.
ResetSegmentsOnly == UNCHANGED <<turn, recent>>
ResetLogicalTurn == turn' = 0 /\ recent' = FALSE

\* capture_start of a session that is not capturing.
CaptureStart ==
  /\ Ready /\ ~capture_active /\ ~current /\ vit_available
  /\ capture_active' = TRUE
  /\ ResetLogicalTurn
  /\ UNCHANGED <<connected, current, captureVars, rowVars, finalizer,
                 translationVars>>

\* Seeded defect: the gap since the last segment is not looked at.
ContinuesAnyway == turn # 0

\* continue_turn of _begin_segment.
Continues == turn # 0 /\ recent

\* VAD onset: the segment continues the logical turn, whose finalize task is
\* cancelled, or starts one.
SpeechOnset ==
  /\ Ready /\ capture_active /\ ~current /\ segments < MaxSegments
  /\ \/ /\ Continues
        /\ finalizer' = [finalizer EXCEPT ![turn] = "none"]
        /\ UNCHANGED <<turn, recent, started>>
     \/ /\ ~Continues /\ started < MaxTurns
        /\ started' = started + 1
        /\ turn' = started + 1 /\ recent' = FALSE
        /\ UNCHANGED finalizer
  /\ current' = TRUE /\ segments' = segments + 1
  /\ UNCHANGED <<connected, capture_active, flush, rowVars, translationVars>>

\* speech_start: push-to-talk names its turn.
SpeechStart(t) ==
  /\ Ready /\ ~capture_active /\ ~current /\ vit_available
  /\ segments < MaxSegments
  /\ t = started + 1 \/ ("reused_ids" \in conduct /\ t <= started)
  /\ started' = IF t > started THEN t ELSE started
  /\ turn' = t /\ recent' = FALSE
  /\ current' = TRUE /\ segments' = segments + 1
  /\ UNCHANGED <<connected, capture_active, flush, rowVars, finalizer,
                 translationVars>>

\* A long enough segment is handed to the spool writer.
StartFlush(why) == flush' = [at |-> "writing", why |-> why, turn |-> turn]

\* Hangover silence, a soft cut and a hard cut flush what is surely long enough.
Cut ==
  /\ Ready /\ current
  /\ \/ capture_active /\ StartFlush("silence")
     \/ segments < MaxSegments /\ StartFlush("hard-cut")
  /\ UNCHANGED <<sessionVars, started, segments, rowVars, finalizer,
                 translationVars>>

\* capture_stop and speech_end: flush, then finalize without a gap; a segment
\* that is too short is dropped.
Stop ==
  /\ Ready
  /\ \/ capture_active' = FALSE
     \/ current /\ (capture_active => "mixed_modes" \in conduct) /\ UNCHANGED capture_active
  /\ \/ /\ current
        /\ StartFlush("stop")
        /\ UNCHANGED <<current, finalizer>>
     \/ /\ current' = FALSE
        /\ finalizer' = Schedule(finalizer, turn, "due")
        /\ UNCHANGED flush
  /\ UNCHANGED <<connected, turn, recent, started, segments, rowVars,
                 translationVars>>

\* _stop_capture_for_stt_unavailable, on the next binary message of an outage.
StopForOutage ==
  /\ Ready /\ capture_active /\ ~vit_available
  /\ capture_active' = FALSE
  /\ \/ /\ current
        /\ StartFlush("stt-unavailable")
        /\ UNCHANGED current
     \/ /\ current' = FALSE
        /\ UNCHANGED flush
  /\ UNCHANGED <<connected, turn, recent, started, segments, rowVars, finalizer,
                 translationVars>>

\* The handler's finally: flush, finalize without a gap, leave.
Disconnect ==
  /\ Ready
  /\ \/ /\ current
        /\ StartFlush("disconnect")
        /\ UNCHANGED <<connected, current, finalizer>>
     \/ /\ connected' = FALSE /\ current' = FALSE
        /\ finalizer' = Schedule(finalizer, turn, "due")
        /\ UNCHANGED flush
  /\ UNCHANGED <<capture_active, turn, recent, started, segments, rowVars,
                 translationVars>>
-----------------------------------------------------------------------------
(* _flush_client_segment.                                                  *)

\* submit_utterance: the segment counts before the first suspension after the write.
Submit ==
  /\ flush.at = "writing"
  /\ turn_pending' = [turn_pending EXCEPT ![turn] = @ + 1]
  /\ flush' = [flush EXCEPT !.at = "announcing"]
  /\ UNCHANGED <<sessionVars, started, segments, vit_available, worker, row,
                 source_revision, finalizer, translationVars>>

\* What the caller does once the flush returned.
After(tasks) ==
  IF flush.why \in {"stop", "disconnect"}
  THEN Schedule(tasks, flush.turn, "due") ELSE tasks

\* The end of the flush: a hard cut opens the next segment of the turn, unless
\* storage pressure stops the capture; any other end schedules the finalization.
FinishFlush ==
  /\ flush.at = "announcing"
  /\ \E pressure \in BOOLEAN :
       LET keep_overlap == flush.why = "hard-cut" /\ ~pressure
       IN /\ capture_active' = (capture_active /\ ~pressure)
          /\ current' = keep_overlap
          /\ segments' = IF keep_overlap THEN segments + 1 ELSE segments
          /\ finalizer' = IF keep_overlap THEN finalizer
                          ELSE After(Schedule(finalizer, turn, "gap"))
  /\ recent' = TRUE
  /\ connected' = (flush.why # "disconnect")
  /\ flush' = NoFlush
  /\ UNCHANGED <<turn, started, rowVars, translationVars>>

\* The flush raises with current_id still set: in an outage it is logged; in the
\* finally it is logged and the session leaves; otherwise it ends the message
\* loop, whose finally flushes again.
FlushRaises ==
  /\ WritesFail /\ flush.at = "writing"
  /\ \/ /\ flush.why = "stt-unavailable"
        /\ flush' = NoFlush /\ UNCHANGED <<connected, current, finalizer>>
     \/ /\ flush.why = "disconnect"
        /\ flush' = NoFlush /\ connected' = FALSE /\ current' = FALSE
        /\ finalizer' = After(finalizer)
     \/ /\ flush.why \notin {"stt-unavailable", "disconnect"}
        /\ StartFlush("disconnect") /\ UNCHANGED <<connected, current, finalizer>>
  /\ UNCHANGED <<capture_active, turn, recent, started, segments, rowVars,
                 translationVars>>
-----------------------------------------------------------------------------
(* The utterance worker (in any order: FinalPipeline says which).          *)

\* _upsert_turn_row: the row is created, or rewritten and no longer final.
Upsert(t) ==
  /\ row' = [row EXCEPT ![t] = "open"]
  /\ source_revision' = [source_revision EXCEPT ![t] = @ + 1]

\* A FINAL is decoded: its text goes into the row, or it is unresolved, or the
\* request raises.
Decode(t) ==
  /\ worker = 0 /\ turn_pending[t] > 0
  /\ worker' = t
  /\ \/ vit_available' = TRUE /\ Upsert(t)
     \/ vit_available' = TRUE /\ UNCHANGED <<row, source_revision>>
     \/ "outages" \in conduct /\ vit_available' = FALSE /\ UNCHANGED <<row, source_revision>>
  /\ UNCHANGED <<sessionVars, captureVars, turn_pending, finalizer,
                 translationVars>>

\* Seeded defect: the except clause and the finally both count down.
CountedTwice(n) == n - 2
CountedDown(n) == n - 1

\* The worker's finally, after the broadcasts about the row.
Settle ==
  /\ worker # 0
  /\ turn_pending' = [turn_pending EXCEPT ![worker] = CountedDown(@)]
  /\ worker' = 0
  /\ UNCHANGED <<sessionVars, captureVars, vit_available, row, source_revision,
                 finalizer, translationVars>>
-----------------------------------------------------------------------------
(* _finalize_turn_after_gap.                                               *)

GapOver ==
  /\ recent
  /\ recent' = FALSE
  /\ UNCHANGED <<connected, capture_active, current, turn, captureVars, rowVars,
                 finalizer, translationVars>>

\* Seeded defect: the session is busy while it is on the turn.
OnTurn(t) == connected /\ turn = t
\* The client is on the turn with a segment in progress: the task returns.
Busy(t) == connected /\ turn = t /\ current

\* Seeded defect: current_id is not looked at again after the suspensions.
ResetTurnOf(t) ==
  IF connected /\ turn = t THEN ResetLogicalTurn ELSE UNCHANGED <<turn, recent>>
\* The end of the task resets the logical turn of an idle session.
ResetIfIdle(t) ==
  IF connected /\ turn = t /\ ~current
  THEN ResetLogicalTurn ELSE UNCHANGED <<turn, recent>>

\* No window of the turn is pending: an open row becomes final and is broadcast.
Close(t) ==
  IF row[t] = "open"
  THEN /\ row' = [row EXCEPT ![t] = "final"]
       /\ finalizer' = [finalizer EXCEPT ![t] = "announcing"]
       /\ UNCHANGED <<turn, recent>>
  ELSE /\ ResetIfIdle(t)
       /\ finalizer' = [finalizer EXCEPT ![t] = "none"]
       /\ UNCHANGED row

\* The sleep is over (a gap that started at the end of the turn's last segment is
\* at least as long as LOGICAL_TURN_GAP_MS since that end).
Wake(t) ==
  /\ \/ finalizer[t] = "due"
     \/ finalizer[t] = "gap" /\ ~(turn = t /\ recent)
  /\ \/ /\ Busy(t)
        /\ finalizer' = [finalizer EXCEPT ![t] = "none"]
        /\ UNCHANGED <<turn, recent, row>>
     \/ /\ ~Busy(t) /\ turn_pending[t] > 0
        /\ finalizer' = [finalizer EXCEPT ![t] = "waiting"]
        /\ UNCHANGED <<turn, recent, row>>
     \/ ~Busy(t) /\ turn_pending[t] = 0 /\ Close(t)
  /\ UNCHANGED <<connected, capture_active, current, captureVars, vit_available,
                 turn_pending, worker, source_revision, translationVars>>

Poll(t) ==
  /\ finalizer[t] = "waiting" /\ turn_pending[t] = 0
  /\ Close(t)
  /\ UNCHANGED <<connected, capture_active, current, captureVars, vit_available,
                 turn_pending, worker, source_revision, translationVars>>

\* _queue_translation_job: coalesced with a job of the same turn, or rejected when
\* the queue is full.
QueueTranslationJob(t) ==
  IF /\ row[t] = "final" /\ active # t
     /\ \A i \in 1..Len(queue) : queue[i] # t
     /\ Len(queue) < TranslationCapacity
  THEN queue' = Append(queue, t) /\ jobs' = [jobs EXCEPT ![t] = @ + 1]
  ELSE UNCHANGED <<queue, jobs>>

\* The broadcast of the final row is done.
Announced(t) ==
  /\ finalizer[t] = "announcing"
  /\ QueueTranslationJob(t)
  /\ ResetIfIdle(t)
  /\ finalizer' = [finalizer EXCEPT ![t] = "none"]
  /\ UNCHANGED <<connected, capture_active, current, captureVars, rowVars,
                 active, asked, shown>>
-----------------------------------------------------------------------------
(* The translation worker.                                                 *)

\* A job whose turn was reopened meanwhile is skipped.
TakeJob ==
  /\ active = 0 /\ queue # <<>>
  /\ queue' = Tail(queue)
  /\ IF row[Head(queue)] = "final"
     THEN active' = Head(queue) /\ asked' = source_revision[Head(queue)]
     ELSE UNCHANGED <<active, asked>>
  /\ UNCHANGED <<sessionVars, captureVars, rowVars, finalizer, shown, jobs>>

\* Seeded defect: the revision is not compared when the reply arrives.
StillFinal(t) == row[t] = "final"
\* The row is as it was when the translator was asked.
SameSource(t) == row[t] = "final" /\ source_revision[t] = asked

\* The translator's reply is attached to an unchanged row; a stale one, a rejected
\* one and a failure are not, and there is no second attempt.
Reply ==
  /\ asked # 0
  /\ \/ /\ SameSource(active)
        /\ shown' = [shown EXCEPT ![active] = asked]
     \/ UNCHANGED shown
  /\ asked' = 0
  /\ UNCHANGED <<sessionVars, captureVars, rowVars, finalizer, queue, active,
                 jobs>>

\* The finally, after the broadcast of the result.
JobEnds ==
  /\ active # 0 /\ asked = 0
  /\ active' = 0
  /\ UNCHANGED <<sessionVars, captureVars, rowVars, finalizer, queue, asked,
                 shown, jobs>>
-----------------------------------------------------------------------------
Session ==
  /\ \/ CaptureStart \/ SpeechOnset \/ (\E t \in Turns : SpeechStart(t))
     \/ Cut \/ Stop \/ StopForOutage \/ Disconnect
  /\ UNCHANGED conduct

FlushStep == (Submit \/ FinishFlush \/ FlushRaises) /\ UNCHANGED conduct
Clock == GapOver /\ UNCHANGED conduct
Finalizer(t) == (Wake(t) \/ Poll(t) \/ Announced(t)) /\ UNCHANGED conduct
UtteranceWorker ==
  (Settle \/ \E t \in Turns : Decode(t)) /\ UNCHANGED conduct
TranslationWorker == (TakeJob \/ Reply \/ JobEnds) /\ UNCHANGED conduct

Next ==
  \/ Session \/ FlushStep \/ Clock
  \/ UtteranceWorker \/ (\E t \in Turns : Finalizer(t))
  \/ TranslationWorker

Spec == Init /\ [][Next]_vars

\* The event loop runs every ready task, time passes, and the requests of both
\* workers have timeouts.  Nothing is assumed of what the client sends.
Fairness ==
  /\ WF_vars(FlushStep) /\ WF_vars(Clock) /\ WF_vars(UtteranceWorker)
  /\ \A t \in Turns : WF_vars(Finalizer(t))
  /\ WF_vars(TranslationWorker)

FairSpec == Spec /\ Fairness
-----------------------------------------------------------------------------
(* Properties.                                                             *)

TypeOK ==
  /\ conduct \in Conducts
  /\ connected \in BOOLEAN /\ capture_active \in BOOLEAN /\ current \in BOOLEAN
  /\ turn \in 0..MaxTurns /\ recent \in BOOLEAN
  /\ flush \in [at : {"none", "writing", "announcing"},
                why : {"none", "silence", "hard-cut", "stop", "stt-unavailable",
                       "disconnect"},
                turn : 0..MaxTurns]
  /\ started \in 0..MaxTurns /\ segments \in 0..MaxSegments
  /\ vit_available \in BOOLEAN
  /\ turn_pending \in [Turns -> Nat]
  /\ worker \in 0..MaxTurns
  /\ row \in [Turns -> {"none", "open", "final"}]
  /\ source_revision \in [Turns -> Nat]
  /\ finalizer \in [Turns -> {"none", "gap", "due", "waiting", "announcing"}]
  /\ queue \in Seq(Turns)
  /\ active \in 0..MaxTurns
  /\ asked \in Nat
  /\ shown \in [Turns -> Nat]
  /\ jobs \in [Turns -> Nat]

\* A segment in progress, and a flush in progress, always belong to the logical turn
\* the session is on: no finalize task resets a turn under the handler's feet while
\* the handler waits for the spool or a broadcast (_finalize_turn_after_gap looks
\* at current_id again after its own suspensions).
SegmentKeepsTurn ==
  /\ connected /\ current => turn # 0
  /\ flush # NoFlush => turn = flush.turn /\ turn # 0

\* A translation is attached only to the final row it was made from, although the
\* turn may be reopened and finalized again while the translator works.
TranslationMatchesSource ==
  [][\A t \in Turns : shown'[t] # shown[t] =>
       row[t] = "final" /\ shown'[t] = source_revision[t]]_vars

\* A finalized turn is closed: no window of it is pending, in progress or about to
\* be submitted ("Never finalize before all captured FINAL windows for this turn
\* have completed") and none will be, as long as the client neither reuses a turn id
\* nor ends a segment of a continuous capture with speech_end.
FinalIsClosed ==
  conduct = {} => \A t \in Turns : row[t] = "final" =>
    turn_pending[t] = 0 /\ ~(connected /\ turn = t /\ current)

\* However many finalize tasks a turn of such a client had (gap, stop, disconnect),
\* it enters the translation queue at most once.
AtMostOneJob == conduct = {} => \A t \in Turns : jobs[t] <= 1

\* An open row of a turn that is not being captured is finalized in the end, while
\* the authoritative STT answers and the client follows the protocol.
EveryTurnFinalizes ==
  \A t \in Turns :
    conduct = {} /\ row[t] = "open" ~> row[t] = "final" \/ (connected /\ turn = t /\ current)

\* "Queue exactly one logical-FINAL translation job per turn" (_queue_translation_job):
\* once nothing is left to finalize it, a finalized turn has had its job.
ExactlyOneJob ==
  \A t \in Turns : row[t] = "final" /\ finalizer[t] = "none" => jobs[t] = 1
=============================================================================
