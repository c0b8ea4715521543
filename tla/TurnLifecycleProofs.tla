------------------------ MODULE TurnLifecycleProofs ------------------------
(***************************************************************************)
(* For any number of turns and segments and every conduct of the client: a *)
(* flush keeps its turn; and, for a client that follows the protocol, a    *)
(* final row is closed for good and its turn is queued for translation at  *)
(* most once.  Beside the translator's link the turns are no different,    *)
(* and what is read from the link answers what was asked.                  *)
(***************************************************************************)
EXTENDS Translation, SequenceTheorems, TLAPS

Reasons == {"silence", "hard-cut", "stop", "stt-unavailable", "disconnect"}
FlushType == [at : {"none", "writing", "announcing"},
              why : {"none"} \cup Reasons, turn : 0..MaxTurns]
Delays == {"none", "gap", "due", "waiting", "announcing"}
Tasks == [Turns -> Delays]

\* TypeOK in the parts that actions leave alone.
Flags ==
  /\ connected \in BOOLEAN /\ capture_active \in BOOLEAN /\ current \in BOOLEAN
  /\ recent \in BOOLEAN /\ vit_available \in BOOLEAN
CaptureTyped ==
  /\ turn \in 0..MaxTurns /\ flush \in FlushType /\ started \in 0..MaxTurns
  /\ segments \in 0..MaxSegments
RowTyped ==
  /\ turn_pending \in [Turns -> Nat] /\ worker \in 0..MaxTurns
  /\ row \in [Turns -> {"none", "open", "final"}]
  /\ source_revision \in [Turns -> Nat]
TranslationTyped ==
  /\ queue \in Seq(Turns) /\ active \in 0..MaxTurns /\ asked \in Nat
  /\ shown \in [Turns -> Nat] /\ jobs \in [Turns -> Nat]

Typed ==
  /\ conduct \in Conducts /\ Flags /\ CaptureTyped /\ RowTyped
  /\ finalizer \in Tasks /\ TranslationTyped

\* A hard cut has a segment left to open, and the segment whose row is being
\* broadcast still counts.
Counted ==
  /\ flush.why = "hard-cut" => segments < MaxSegments
  /\ worker # 0 => turn_pending[worker] > 0

\* A flush is the handler's own: the session is there, in the segment and on
\* the turn the flush began with.
Handled ==
  /\ connected /\ current => turn # 0
  /\ flush # NoFlush => connected /\ current /\ turn = flush.turn

\* A turn id that was not given out has left no trace.
Unstarted ==
  /\ turn <= started
  /\ \A t \in Turns : t > started =>
       /\ row[t] = "none" /\ finalizer[t] = "none"
       /\ turn_pending[t] = 0 /\ jobs[t] = 0

TurnInv == Typed /\ Counted /\ Handled /\ Unstarted
-----------------------------------------------------------------------------
(* Types.                                                                  *)

LEMMA TypedIsTypeOK == Typed <=> TypeOK
BY DEF Typed, TypeOK, Flags, CaptureTyped, RowTyped, TranslationTyped,
       FlushType, Reasons, Tasks, Delays

LEMMA TurnInit == LifecycleAssumption /\ Init => TurnInv
<1> SUFFICES ASSUME LifecycleAssumption, Init PROVE TurnInv
  OBVIOUS
<1> USE DEF LifecycleAssumption, Init, Turns
<1>1. CaptureTyped
  BY DEF CaptureTyped, FlushType, Reasons, NoFlush
<1>2. Flags
  BY DEF Flags
<1>7. RowTyped
  BY DEF RowTyped
<1>3. TranslationTyped
  BY EmptySeq DEF TranslationTyped
<1>4. finalizer \in Tasks
  BY DEF Tasks, Delays
<1>5. Counted /\ Handled
  BY DEF Counted, Handled, NoFlush
<1>6. Unstarted
  BY DEF Unstarted
<1> QED
  BY <1>1, <1>2, <1>3, <1>4, <1>5, <1>6, <1>7 DEF TurnInv, Typed

\* What an action leaves alone stays typed.
LEMMA TypedFrame ==
  /\ CaptureTyped /\ UNCHANGED <<turn, captureVars>> => CaptureTyped'
  /\ RowTyped /\ UNCHANGED <<turn_pending, worker, row, source_revision>> => RowTyped'
  /\ TranslationTyped /\ UNCHANGED translationVars => TranslationTyped'
BY DEF CaptureTyped, RowTyped, TranslationTyped, captureVars, translationVars

\* A flush begins with the turn the session is on.
LEMMA FlushBegins ==
  ASSUME Typed, NEW why \in Reasons, StartFlush(why)
  PROVE  /\ flush' \in FlushType /\ flush' # NoFlush
         /\ flush'.why = why /\ flush'.turn = turn /\ flush'.at = "writing"
BY DEF Typed, CaptureTyped, StartFlush, NoFlush, FlushType, Reasons

LEMMA Scheduled ==
  ASSUME NEW t \in 0..MaxTurns, NEW tasks \in Tasks, NEW delay \in {"gap", "due"}
  PROVE  /\ Schedule(tasks, t, delay) \in Tasks
         /\ \A s \in Turns : s # t => Schedule(tasks, t, delay)[s] = tasks[s]
         /\ t # 0 => Schedule(tasks, t, delay)[t] = delay
         /\ t = 0 => Schedule(tasks, t, delay) = tasks
BY LifecycleAssumption DEF LifecycleAssumption, Schedule, Turns, Tasks, Delays

-----------------------------------------------------------------------------
(* Each action keeps the types, and each of the other parts.               *)

LEMMA FlagsStep ==
  ASSUME Flags, [Next]_vars
  PROVE  Flags' /\ conduct' = conduct
<1> USE DEF Flags
<1>1. CASE Session
  BY <1>1 DEF Session, CaptureStart, SpeechOnset, SpeechStart, Cut, Stop, StopForOutage,
              Disconnect, ResetLogicalTurn, sessionVars, rowVars
<1>2. CASE FlushStep
  BY <1>2 DEF FlushStep, Submit, FinishFlush, FlushRaises, sessionVars, rowVars
<1>3. CASE Clock \/ UtteranceWorker \/ TranslationWorker
  BY <1>3 DEF Clock, GapOver, UtteranceWorker, Decode, Settle, TranslationWorker,
              TakeJob, Reply, JobEnds, sessionVars, rowVars
<1>4. ASSUME NEW t \in Turns, Finalizer(t) PROVE Flags' /\ conduct' = conduct
  BY <1>4 DEF Finalizer, Wake, Poll, Announced, Close, ResetIfIdle, ResetLogicalTurn,
              rowVars
<1>5. CASE UNCHANGED vars
  BY <1>5 DEF vars, sessionVars, rowVars
<1> QED
  BY <1>1, <1>2, <1>3, <1>4, <1>5 DEF Next

LEMMA CaptureStartKeeps ==
  ASSUME LifecycleAssumption, TurnInv, CaptureStart
  PROVE  /\ CaptureTyped' /\ RowTyped' /\ finalizer' \in Tasks /\ TranslationTyped'
         /\ Counted' /\ Handled' /\ Unstarted'
<1> USE DEF CaptureStart, ResetLogicalTurn, TurnInv, Typed
<1>1. CaptureTyped'
  BY DEF CaptureTyped, LifecycleAssumption, captureVars
<1>2. finalizer' \in Tasks /\ RowTyped' /\ TranslationTyped'
  BY TypedFrame DEF rowVars
<1>3. Counted' /\ Handled' /\ Unstarted'
  BY DEF Counted, Handled, Unstarted, captureVars, rowVars, translationVars, Ready,
         CaptureTyped
<1> QED
  BY <1>1, <1>2, <1>3

LEMMA SpeechOnsetKeeps ==
  ASSUME LifecycleAssumption, TurnInv, SpeechOnset
  PROVE  /\ CaptureTyped' /\ RowTyped' /\ finalizer' \in Tasks /\ TranslationTyped'
         /\ Counted' /\ Handled' /\ Unstarted'
<1> USE DEF SpeechOnset, TurnInv, Typed, Continues
<1>1. CaptureTyped'
  BY DEF CaptureTyped, LifecycleAssumption
<1>2. RowTyped' /\ TranslationTyped'
  BY TypedFrame DEF rowVars
<1>3. finalizer' \in Tasks
  BY DEF Tasks, Delays
<1>6. turn' # 0 /\ segments \in Nat
  BY DEF CaptureTyped, LifecycleAssumption
<1>4. Counted' /\ Handled'
  BY <1>6 DEF Counted, Handled, rowVars, Ready, NoFlush
<1>5. Unstarted'
  BY DEF Unstarted, rowVars, translationVars, CaptureTyped, Tasks, Turns
<1> QED
  BY <1>1, <1>2, <1>3, <1>4, <1>5

LEMMA SpeechStartKeeps ==
  ASSUME LifecycleAssumption, TurnInv, NEW t \in Turns, SpeechStart(t)
  PROVE  /\ CaptureTyped' /\ RowTyped' /\ finalizer' \in Tasks /\ TranslationTyped'
         /\ Counted' /\ Handled' /\ Unstarted'
<1> USE DEF SpeechStart, TurnInv, Typed
<1>1. CaptureTyped'
  BY DEF CaptureTyped, LifecycleAssumption, Turns
<1>2. finalizer' \in Tasks /\ RowTyped' /\ TranslationTyped'
  BY TypedFrame DEF rowVars
<1>5. turn' # 0
  BY DEF Turns
<1>3. Counted' /\ Handled'
  BY <1>5 DEF Counted, Handled, rowVars, Ready, NoFlush
<1>4. Unstarted'
  BY DEF Unstarted, rowVars, translationVars, CaptureTyped, Turns
<1> QED
  BY <1>1, <1>2, <1>3, <1>4

\* A flush begins, or a segment that is too short is dropped and its turn
\* perhaps finalized; the session may leave.
Stopping ==
  /\ Ready
  /\ \/ /\ \E why \in Reasons :
             /\ StartFlush(why)
             /\ why = "hard-cut" => segments < MaxSegments
        /\ current /\ UNCHANGED <<connected, current, finalizer>>
     \/ /\ current' = FALSE /\ flush' = flush
        /\ finalizer' \in {finalizer, Schedule(finalizer, turn, "due")}
  /\ UNCHANGED <<turn, recent, started, segments, rowVars, translationVars>>

LEMMA StoppingActions ==
  Cut \/ Stop \/ StopForOutage \/ Disconnect => Stopping
BY DEF Cut, Stop, StopForOutage, Disconnect, Stopping, Reasons, sessionVars

LEMMA StoppingKeeps ==
  ASSUME LifecycleAssumption, TurnInv, Stopping
  PROVE  /\ CaptureTyped' /\ RowTyped' /\ finalizer' \in Tasks /\ TranslationTyped'
         /\ Counted' /\ Handled' /\ Unstarted'
<1> USE DEF Stopping, TurnInv, Typed
<1>1. CASE UNCHANGED flush
  <2>1. turn \in 0..MaxTurns /\ finalizer' \in Tasks
    BY <1>1, Scheduled DEF CaptureTyped
  <2>2. CaptureTyped' /\ RowTyped' /\ TranslationTyped'
    BY <1>1, TypedFrame DEF captureVars, rowVars
  <2>3. Counted' /\ Handled'
    BY <1>1 DEF Counted, Handled, rowVars, Ready
  <2>4. Unstarted'
    BY <1>1, <2>1, Scheduled DEF Unstarted, rowVars, translationVars, CaptureTyped, Turns
  <2> QED
    BY <2>1, <2>2, <2>3, <2>4
<1>2. ASSUME NEW why \in Reasons, StartFlush(why), current,
             UNCHANGED <<connected, current, finalizer>>,
             why = "hard-cut" => segments < MaxSegments
      PROVE  /\ CaptureTyped' /\ RowTyped' /\ finalizer' \in Tasks /\ TranslationTyped'
             /\ Counted' /\ Handled' /\ Unstarted'
  <2>1. flush' \in FlushType /\ flush'.why = why /\ flush'.turn = turn
    BY <1>2, FlushBegins
  <2>2. CaptureTyped' /\ RowTyped' /\ TranslationTyped'
    BY <2>1, TypedFrame DEF CaptureTyped, rowVars
  <2>3. Counted' /\ Handled'
    BY <1>2, <2>1 DEF Counted, Handled, rowVars, Ready
  <2>4. Unstarted'
    BY <1>2 DEF Unstarted, rowVars, translationVars
  <2> QED
    BY <1>2, <2>2, <2>3, <2>4
<1> QED
  BY <1>1, <1>2

LEMMA SubmitKeeps ==
  ASSUME LifecycleAssumption, TurnInv, Submit
  PROVE  /\ CaptureTyped' /\ RowTyped' /\ finalizer' \in Tasks /\ TranslationTyped'
         /\ Counted' /\ Handled' /\ Unstarted'
<1> USE DEF Submit, TurnInv, Typed
<1>1. /\ flush' \in FlushType /\ flush'.why = flush.why /\ flush'.turn = flush.turn
      /\ flush # NoFlush
  BY DEF CaptureTyped, FlushType, NoFlush
<1>2. turn \in Turns /\ turn <= started
  BY <1>1 DEF Handled, CaptureTyped, Turns, Unstarted
<1>3. CaptureTyped' /\ TranslationTyped' /\ finalizer' \in Tasks
  BY <1>1, TypedFrame DEF CaptureTyped, sessionVars
<1>4. turn_pending' \in [Turns -> Nat] /\ RowTyped'
  BY <1>2 DEF RowTyped
<1>5. Counted' /\ Handled'
  BY <1>1, <1>2 DEF Counted, Handled, RowTyped, sessionVars, Turns
<1>6. Unstarted'
  BY <1>2 DEF Unstarted, sessionVars, translationVars, RowTyped, CaptureTyped, Turns
<1> QED
  BY <1>3, <1>4, <1>5, <1>6

\* Where a flush ends, its finalize task and that of the caller are scheduled.
LEMMA FinishedTasks ==
  ASSUME LifecycleAssumption, TurnInv, flush # NoFlush, FinishFlush
  PROVE  /\ finalizer' \in Tasks
         /\ \A t \in Turns \ {turn} : finalizer'[t] = finalizer[t]
<1>1. turn \in 0..MaxTurns /\ flush.turn = turn /\ finalizer \in Tasks
  BY DEF TurnInv, Typed, CaptureTyped, Handled
<1> DEFINE later == Schedule(finalizer, turn, "gap")
<1>2. later \in Tasks /\ \A t \in Turns \ {turn} : later[t] = finalizer[t]
  BY <1>1, Scheduled
<1>3. /\ Schedule(later, turn, "due") \in Tasks
      /\ \A t \in Turns \ {turn} : Schedule(later, turn, "due")[t] = finalizer[t]
  BY <1>1, <1>2, Scheduled
<1>4. finalizer' \in {finalizer, later, Schedule(later, turn, "due")}
  BY <1>1 DEF FinishFlush, After
<1> QED
  BY <1>1, <1>2, <1>3, <1>4

LEMMA FinishFlushKeeps ==
  ASSUME LifecycleAssumption, TurnInv, FinishFlush
  PROVE  /\ CaptureTyped' /\ RowTyped' /\ finalizer' \in Tasks /\ TranslationTyped'
         /\ Counted' /\ Handled' /\ Unstarted'
<1>1. flush # NoFlush /\ flush' = NoFlush
  BY DEF FinishFlush, NoFlush
<1>2. RowTyped' /\ TranslationTyped'
  BY TypedFrame DEF FinishFlush, TurnInv, Typed, rowVars
<1>3. segments' \in 0..MaxSegments
  BY DEF FinishFlush, TurnInv, Typed, CaptureTyped, Counted, LifecycleAssumption
<1>4. CaptureTyped'
  BY <1>1, <1>3 DEF FinishFlush, TurnInv, Typed, CaptureTyped, NoFlush, FlushType
<1>5. Counted'
  BY <1>1 DEF Counted, NoFlush, FinishFlush, TurnInv, rowVars
<1>6. Handled'
  BY <1>1 DEF Handled, FinishFlush, TurnInv
<1>7. turn <= started /\ started' = started /\ turn' = turn
  BY DEF Unstarted, FinishFlush, TurnInv
<1>8. Unstarted'
  BY <1>1, <1>7, FinishedTasks
     DEF Unstarted, FinishFlush, TurnInv, rowVars, translationVars, Typed,
         CaptureTyped, Turns
<1> QED
  BY <1>1, <1>2, <1>4, <1>5, <1>6, <1>8, FinishedTasks

LEMMA FlushRaisesKeeps ==
  ASSUME LifecycleAssumption, TurnInv, FlushRaises
  PROVE  /\ CaptureTyped' /\ RowTyped' /\ finalizer' \in Tasks /\ TranslationTyped'
         /\ Counted' /\ Handled' /\ Unstarted'
<1>1. flush # NoFlush /\ flush.turn = turn /\ turn \in 0..MaxTurns
  BY DEF FlushRaises, NoFlush, TurnInv, Handled, Typed, CaptureTyped
<1>2. RowTyped' /\ TranslationTyped'
  BY TypedFrame DEF FlushRaises, TurnInv, Typed, rowVars
<1>3. /\ finalizer' \in Tasks
      /\ \A t \in Turns \ {turn} : finalizer'[t] = finalizer[t]
  <2>1. finalizer' \in {finalizer, Schedule(finalizer, turn, "due")}
    BY <1>1 DEF FlushRaises, After
  <2> QED
    BY <1>1, <2>1, Scheduled DEF TurnInv, Typed
<1>4. \/ flush' = NoFlush
      \/ /\ flush' \in FlushType /\ flush'.why = "disconnect" /\ flush'.turn = turn
         /\ UNCHANGED <<connected, current>>
  BY FlushBegins DEF FlushRaises, TurnInv, Reasons
<1>5. CaptureTyped'
  BY <1>4 DEF FlushRaises, TurnInv, Typed, CaptureTyped, NoFlush, FlushType
<1>6. Counted'
  BY <1>4 DEF Counted, NoFlush, FlushRaises, TurnInv, rowVars
<1>9. turn' = turn /\ (connected' /\ current' => connected /\ current)
  BY DEF FlushRaises
<1>7. Handled'
  BY <1>1, <1>4, <1>9 DEF Handled, TurnInv
<1>8. Unstarted'
  BY <1>3 DEF Unstarted, FlushRaises, TurnInv, rowVars, translationVars, Typed,
         CaptureTyped, Turns
<1> QED
  BY <1>2, <1>3, <1>5, <1>6, <1>7, <1>8

LEMMA UtteranceWorkerKeeps ==
  ASSUME LifecycleAssumption, TurnInv, UtteranceWorker
  PROVE  /\ CaptureTyped' /\ RowTyped' /\ finalizer' \in Tasks /\ TranslationTyped'
         /\ Counted' /\ Handled' /\ Unstarted'
<1> USE DEF TurnInv, Typed, Turns
<1>1. UNCHANGED <<turn, captureVars, sessionVars, finalizer, translationVars>>
  BY DEF UtteranceWorker, Decode, Settle, sessionVars
<1>2. CaptureTyped' /\ finalizer' \in Tasks /\ TranslationTyped' /\ Handled'
  BY <1>1, TypedFrame DEF Handled, sessionVars, captureVars
<1>3. CASE Settle
  <2>1. worker \in Turns /\ worker' = 0
    BY <1>3 DEF Settle, RowTyped
  <2>2. turn_pending' = [turn_pending EXCEPT ![worker] = turn_pending[worker] - 1]
    BY <1>3, <2>1 DEF Settle, CountedDown
  <2>3. turn_pending[worker] - 1 \in Nat
    BY <2>1 DEF Counted, RowTyped
  <2>4. RowTyped'
    BY <1>3, <2>1, <2>2, <2>3 DEF RowTyped, Settle
  <2>5. Counted' /\ Unstarted'
    BY <1>1, <1>3, <2>1, <2>2, <2>3
       DEF Counted, Unstarted, Settle, captureVars, translationVars, RowTyped
  <2> QED
    BY <1>2, <2>4, <2>5
<1>4. ASSUME NEW t \in Turns, Decode(t)
      PROVE  RowTyped' /\ Counted' /\ Unstarted'
  <2>1. /\ worker' = t /\ turn_pending' = turn_pending /\ turn_pending[t] > 0
        /\ \A s \in Turns : s # t => row'[s] = row[s]
    BY <1>4 DEF Decode, Upsert, RowTyped
  <2>4. /\ row' = row \/ row' = [row EXCEPT ![t] = "open"]
        /\ \/ source_revision' = source_revision
           \/ source_revision' = [source_revision EXCEPT ![t] = source_revision[t] + 1]
    BY <1>4 DEF Decode, Upsert
  <2>5. source_revision[t] + 1 \in Nat
    BY DEF RowTyped
  <2>6. worker' \in 0..MaxTurns
    BY <2>1 DEF LifecycleAssumption
  <2>7. row' \in [Turns -> {"none", "open", "final"}]
    BY <2>4 DEF RowTyped
  <2>8. source_revision' \in [Turns -> Nat]
    BY <2>4, <2>5 DEF RowTyped
  <2>2. RowTyped'
    BY <2>1, <2>6, <2>7, <2>8 DEF RowTyped
  <2>3. t <= started
    BY <2>1 DEF Unstarted, CaptureTyped
  <2> QED
    BY <1>1, <2>1, <2>2, <2>3
       DEF Counted, Unstarted, captureVars, translationVars, CaptureTyped
<1> QED
  BY <1>2, <1>3, <1>4 DEF UtteranceWorker

\* A finalize task leaves the segment alone, and resets the turn of an idle
\* session only.
LEMMA FinalizerSteps ==
  ASSUME LifecycleAssumption, TurnInv, NEW t \in Turns, Finalizer(t)
  PROVE  /\ UNCHANGED <<connected, capture_active, current, captureVars>>
         /\ UNCHANGED <<turn_pending, worker, source_revision, active, asked, shown>>
         /\ finalizer[t] # "none"
         /\ finalizer' = [finalizer EXCEPT ![t] = finalizer'[t]]
         /\ finalizer'[t] \in Delays
         /\ \/ row' = row
            \/ row[t] = "open" /\ row' = [row EXCEPT ![t] = "final"]
         /\ \/ UNCHANGED <<turn, recent>>
            \/ connected /\ turn = t /\ ~current /\ turn' = 0 /\ recent' = FALSE
         /\ \/ UNCHANGED <<queue, jobs>>
            \/ queue' = Append(queue, t) /\ jobs' = [jobs EXCEPT ![t] = jobs[t] + 1]
<1> USE DEF TurnInv, Typed, Tasks, Delays
<1>1. CASE Wake(t)
  BY <1>1 DEF Wake, Close, ResetIfIdle, ResetLogicalTurn, translationVars
<1>2. CASE Poll(t)
  BY <1>2 DEF Poll, Close, ResetIfIdle, ResetLogicalTurn, translationVars
<1>3. CASE Announced(t)
  BY <1>3 DEF Announced, QueueTranslationJob, ResetIfIdle, ResetLogicalTurn, rowVars
<1> QED
  BY <1>1, <1>2, <1>3 DEF Finalizer

LEMMA FinalizerKeeps ==
  ASSUME LifecycleAssumption, TurnInv, NEW t \in Turns, Finalizer(t)
  PROVE  /\ CaptureTyped' /\ RowTyped' /\ finalizer' \in Tasks /\ TranslationTyped'
         /\ Counted' /\ Handled' /\ Unstarted'
<1> USE DEF TurnInv, Typed
<1>1. finalizer' \in Tasks
  BY FinalizerSteps DEF Tasks
<1>9. \/ UNCHANGED turn
      \/ connected /\ turn = t /\ ~current /\ turn' = 0
  BY FinalizerSteps
<1>10. UNCHANGED <<connected, current, flush, started, segments, turn_pending, worker>>
  BY FinalizerSteps DEF captureVars
<1>2. CaptureTyped'
  BY <1>9, <1>10 DEF CaptureTyped, LifecycleAssumption
<1>3. RowTyped'
  BY FinalizerSteps DEF RowTyped
<1>4. TranslationTyped'
  <2>1. \/ UNCHANGED <<queue, jobs>>
        \/ queue' = Append(queue, t) /\ jobs' = [jobs EXCEPT ![t] = jobs[t] + 1]
    BY FinalizerSteps
  <2>2. Append(queue, t) \in Seq(Turns) /\ jobs[t] + 1 \in Nat
    BY AppendProperties DEF TranslationTyped
  <2>3. UNCHANGED <<active, asked, shown>>
    BY FinalizerSteps
  <2> QED
    BY <2>1, <2>2, <2>3 DEF TranslationTyped
<1>5. Counted'
  BY <1>10 DEF Counted
<1>6. Handled'
  BY <1>9, <1>10 DEF Handled
<1>7. t <= started
  <2>1. finalizer[t] # "none"
    BY FinalizerSteps
  <2> QED
    BY <2>1 DEF Unstarted, CaptureTyped, Turns
<1>8. Unstarted'
  <2>1. turn' <= started'
    BY <1>9, <1>10 DEF Unstarted, CaptureTyped
  <2>2. ASSUME NEW s \in Turns, s # t
        PROVE  row'[s] = row[s] /\ finalizer'[s] = finalizer[s] /\ jobs'[s] = jobs[s]
    <3>1. finalizer' = [finalizer EXCEPT ![t] = finalizer'[t]]
      BY FinalizerSteps
    <3>2. row' = row \/ row' = [row EXCEPT ![t] = "final"]
      BY FinalizerSteps
    <3>3. jobs' = jobs \/ jobs' = [jobs EXCEPT ![t] = jobs[t] + 1]
      BY FinalizerSteps
    <3> QED
      BY <2>2, <3>1, <3>2, <3>3 DEF Tasks, RowTyped, TranslationTyped
  <2> QED
    BY <1>7, <1>10, <2>1, <2>2 DEF Unstarted, CaptureTyped, Turns
<1> QED
  BY <1>1, <1>2, <1>3, <1>4, <1>5, <1>6, <1>8

LEMMA OthersKeep ==
  ASSUME LifecycleAssumption, TurnInv, Clock \/ TranslationWorker \/ UNCHANGED vars
  PROVE  /\ CaptureTyped' /\ RowTyped' /\ finalizer' \in Tasks /\ TranslationTyped'
         /\ Counted' /\ Handled' /\ Unstarted'
<1> USE DEF TurnInv, Typed
<1>1. UNCHANGED <<connected, current, turn, captureVars, rowVars, finalizer, jobs>>
  BY DEF Clock, GapOver, TranslationWorker, TakeJob, Reply, JobEnds, vars, sessionVars,
         translationVars
<1>2. CaptureTyped' /\ RowTyped' /\ finalizer' \in Tasks
  BY <1>1, TypedFrame DEF rowVars
<1>3. Counted' /\ Handled' /\ Unstarted'
  BY <1>1 DEF Counted, Handled, Unstarted, captureVars, rowVars
<1>4. TranslationTyped'
  <2>1. CASE TakeJob
    <3>1. queue # <<>> => Head(queue) \in Turns /\ Tail(queue) \in Seq(Turns)
      BY HeadTailProperties DEF TranslationTyped
    <3>2. queue' \in Seq(Turns) /\ UNCHANGED <<shown, jobs>>
      BY <2>1, <3>1 DEF TakeJob
    <3>4. \/ UNCHANGED <<active, asked>>
          \/ /\ queue # <<>> /\ active' = Head(queue)
             /\ asked' = source_revision[Head(queue)]
      BY <2>1 DEF TakeJob
    <3>3. active' \in 0..MaxTurns /\ asked' \in Nat
      <4>1. CASE UNCHANGED <<active, asked>>
        BY <4>1 DEF TranslationTyped
      <4>2. ASSUME NEW t \in Turns, active' = t, asked' = source_revision[t]
            PROVE  active' \in 0..MaxTurns /\ asked' \in Nat
        BY <4>2 DEF RowTyped, Turns, LifecycleAssumption
      <4> QED
        BY <3>1, <3>4, <4>1, <4>2
    <3> QED
      BY <3>2, <3>3 DEF TranslationTyped
  <2>2. CASE Reply
    BY <2>2 DEF Reply, TranslationTyped
  <2>3. CASE JobEnds
    BY <2>3 DEF JobEnds, TranslationTyped, LifecycleAssumption
  <2>4. CASE UNCHANGED translationVars
    BY <2>4, TypedFrame
  <2> QED
    BY <2>1, <2>2, <2>3, <2>4 DEF Clock, GapOver, TranslationWorker, vars
<1> QED
  BY <1>2, <1>3, <1>4
-----------------------------------------------------------------------------
LEMMA TurnStep == LifecycleAssumption /\ TurnInv /\ [Next]_vars => TurnInv'
<1> SUFFICES ASSUME LifecycleAssumption, TurnInv, [Next]_vars
             PROVE  TurnInv'
  OBVIOUS
<1>1. Flags' /\ conduct' \in Conducts
  BY FlagsStep DEF TurnInv, Typed
<1>2. /\ CaptureTyped' /\ RowTyped' /\ finalizer' \in Tasks /\ TranslationTyped'
      /\ Counted' /\ Handled' /\ Unstarted'
  <2>1. CASE Session
    BY <2>1, CaptureStartKeeps, SpeechOnsetKeeps, SpeechStartKeeps, StoppingActions,
       StoppingKeeps DEF Session
  <2>2. CASE FlushStep
    BY <2>2, SubmitKeeps, FinishFlushKeeps, FlushRaisesKeeps DEF FlushStep
  <2> QED
    BY <2>1, <2>2, UtteranceWorkerKeeps, FinalizerKeeps, OthersKeep DEF Next
<1> QED
  BY <1>1, <1>2 DEF TurnInv, Typed

\* Every reachable state of a session, its rows and its tasks is well typed, for
\* any number of turns and segments, any failures and any client.
THEOREM TurnTypesHold == LifecycleAssumption => (Spec => []TypeOK)
<1> SUFFICES ASSUME LifecycleAssumption PROVE Spec => []TypeOK
  OBVIOUS
<1>1. Init => TurnInv
  BY TurnInit
<1>2. TurnInv /\ [Next]_vars => TurnInv'
  BY TurnStep
<1>3. TurnInv => TypeOK
  BY TypedIsTypeOK DEF TurnInv
<1> QED
  BY <1>1, <1>2, <1>3, PTL DEF Spec

\* The segment in progress and the flush in progress belong to the logical turn
\* of the session (_finalize_turn_after_gap, _flush_client_segment), whatever
\* finalize tasks do while the handler is suspended.
THEOREM SegmentsKeepTheirTurn == LifecycleAssumption => (Spec => []SegmentKeepsTurn)
<1> SUFFICES ASSUME LifecycleAssumption PROVE Spec => []SegmentKeepsTurn
  OBVIOUS
<1>1. Init => TurnInv
  BY TurnInit
<1>2. TurnInv /\ [Next]_vars => TurnInv'
  BY TurnStep
<1>3. TurnInv => SegmentKeepsTurn
  BY DEF TurnInv, Handled, SegmentKeepsTurn
<1> QED
  BY <1>1, <1>2, <1>3, PTL DEF Spec
-----------------------------------------------------------------------------
(* What a client that follows the protocol finds closed stays closed.      *)

\* The handler ended the capture before it flushes for a stop, or finalizes at
\* once.
Stopped ==
  /\ flush.why = "stop" => ~capture_active
  /\ \A t \in Turns : finalizer[t] = "due" /\ connected /\ turn = t => ~capture_active

\* The session has left t, or will not continue it.
Left(t) ==
  connected /\ turn = t => ~current /\ (~capture_active \/ ~recent)

\* A task that only waits for the decodes, and a final row, are of a turn that
\* the session has left; no decode of a final row is pending.
Closed ==
  \A t \in Turns :
    /\ row[t] = "final" \/ finalizer[t] = "waiting" => Left(t)
    /\ row[t] = "final" => turn_pending[t] = 0

\* A job is queued at the end of the one task that made the row final.
Queued ==
  \A t \in Turns :
    /\ finalizer[t] = "announcing" => row[t] = "final" /\ jobs[t] = 0
    /\ jobs[t] > 0 => row[t] = "final" /\ jobs[t] = 1

ClosedInv == conduct = {} => Stopped /\ Closed /\ Queued

LEMMA ClosedInit == Init => ClosedInv
BY DEF Init, ClosedInv, Stopped, Closed, Queued, NoFlush

LEMMA SessionCloses ==
  ASSUME LifecycleAssumption, TurnInv, conduct = {}, Stopped, Closed, Queued, Session
  PROVE  Stopped' /\ Closed' /\ Queued'
<1> USE DEF Stopped, Closed, Queued, Left
<1>1. CASE CaptureStart
  BY <1>1 DEF CaptureStart, ResetLogicalTurn, captureVars, rowVars, translationVars, Ready,
              NoFlush, Turns
<1>2. CASE SpeechOnset
  BY <1>2 DEF SpeechOnset, Continues, rowVars, translationVars, Ready, NoFlush, TurnInv,
              Typed, CaptureTyped, Unstarted, Tasks
<1>3. ASSUME NEW t \in Turns, SpeechStart(t) PROVE Stopped' /\ Closed' /\ Queued'
  BY <1>3 DEF SpeechStart, rowVars, translationVars, Ready, NoFlush, TurnInv, Typed,
              CaptureTyped, Unstarted
<1>4. CASE Cut
  BY <1>4, FlushBegins DEF Cut, sessionVars, rowVars, translationVars, TurnInv, Reasons
<1>5. CASE Stop
  BY <1>5, FlushBegins, Scheduled
     DEF Stop, rowVars, translationVars, TurnInv, Typed, CaptureTyped, Reasons, Ready,
         NoFlush
<1>6. CASE StopForOutage
  BY <1>6, FlushBegins DEF StopForOutage, rowVars, translationVars, TurnInv, Reasons
<1>7. CASE Disconnect
  <2>1. UNCHANGED <<capture_active, turn, recent, turn_pending, row, jobs>>
    BY <1>7 DEF Disconnect, rowVars, translationVars
  <2>2. CASE StartFlush("disconnect") /\ UNCHANGED <<connected, current, finalizer>>
    BY <2>1, <2>2, FlushBegins DEF TurnInv, Reasons
  <2>3. CASE ~connected' /\ UNCHANGED flush
             /\ finalizer' = Schedule(finalizer, turn, "due")
    <3>1. \A t \in Turns : finalizer'[t] \in {finalizer[t], "due"}
      BY <2>3, Scheduled DEF TurnInv, Typed, CaptureTyped
    <3> QED
      BY <2>1, <2>3, <3>1
  <2> QED
    BY <1>7, <2>2, <2>3 DEF Disconnect
<1> QED
  BY <1>1, <1>2, <1>3, <1>4, <1>5, <1>6, <1>7 DEF Session

LEMMA FlushStepCloses ==
  ASSUME LifecycleAssumption, TurnInv, conduct = {}, Stopped, Closed, Queued, FlushStep
  PROVE  Stopped' /\ Closed' /\ Queued'
<1> USE DEF Stopped, Closed, Queued, Left
<1>1. CASE Submit
  BY <1>1 DEF Submit, TurnInv, Handled, Typed, CaptureTyped, RowTyped, FlushType, NoFlush,
              sessionVars, translationVars
<1>2. CASE FinishFlush
  <2>1. /\ flush # NoFlush /\ flush' = NoFlush /\ connected /\ current
        /\ turn = flush.turn /\ UNCHANGED <<turn, turn_pending, row, jobs>>
    BY <1>2 DEF FinishFlush, TurnInv, Handled, NoFlush, rowVars, translationVars
  <2>2. /\ finalizer' \in Tasks
        /\ \A t \in Turns \ {turn} : finalizer'[t] = finalizer[t]
    BY <1>2, <2>1, FinishedTasks
  <2>3. /\ capture_active' => capture_active
        /\ connected' => flush.why # "disconnect"
    BY <1>2 DEF FinishFlush
  <2>4. turn \in Turns => finalizer'[turn] \in {finalizer[turn], "gap", "due"}
    BY <1>2, <2>1, Scheduled DEF FinishFlush, After, TurnInv, Typed, CaptureTyped
  <2>5. turn \in Turns /\ finalizer'[turn] = "due" /\ finalizer[turn] # "due"
          => flush.why \in {"stop", "disconnect"}
    BY <1>2, <2>1, Scheduled DEF FinishFlush, After, TurnInv, Typed, CaptureTyped
  <2>6. Stopped'
    BY <2>1, <2>2, <2>3, <2>5 DEF NoFlush
  <2>7. turn \in Turns => row[turn] # "final" /\ finalizer[turn] # "waiting"
    BY <2>1
  <2>8. Closed'
    BY <2>1, <2>2, <2>4, <2>7
  <2>9. Queued'
    BY <2>1, <2>2, <2>4
  <2> QED
    BY <2>6, <2>8, <2>9
<1>3. CASE FlushRaises
  <2>1. /\ flush # NoFlush /\ connected /\ current /\ turn = flush.turn
        /\ UNCHANGED <<capture_active, turn, recent, turn_pending, row, jobs>>
    BY <1>3 DEF FlushRaises, TurnInv, Handled, NoFlush, rowVars, translationVars
  <2>2. \/ /\ flush' = NoFlush \/ flush'.why = "disconnect"
           /\ UNCHANGED <<connected, current, finalizer>>
        \/ /\ flush' = NoFlush /\ ~connected'
           /\ finalizer' = Schedule(finalizer, turn, "due")
    BY <1>3, <2>1, FlushBegins DEF FlushRaises, After, TurnInv, Reasons
  <2>3. CASE (flush' = NoFlush \/ flush'.why = "disconnect")
             /\ UNCHANGED <<connected, current, finalizer>>
    <3>1. flush'.why # "stop"
      BY <2>3 DEF NoFlush
    <3> QED
      BY <2>1, <2>3, <3>1
  <2>4. CASE flush' = NoFlush /\ ~connected'
             /\ finalizer' = Schedule(finalizer, turn, "due")
    <3>1. flush'.why # "stop"
      BY <2>4 DEF NoFlush
    <3>2. finalizer \in Tasks /\ turn \in 0..MaxTurns
      BY DEF TurnInv, Typed, CaptureTyped
    <3>3. \A t \in Turns : finalizer'[t] \in {finalizer[t], "due"}
      BY <2>4, <3>2, Scheduled
    <3> QED
      BY <2>1, <2>4, <3>1, <3>3
  <2> QED
    BY <2>2, <2>3, <2>4
<1> QED
  BY <1>1, <1>2, <1>3 DEF FlushStep

LEMMA WorkerCloses ==
  ASSUME LifecycleAssumption, TurnInv, conduct = {}, Stopped, Closed, Queued,
         UtteranceWorker
  PROVE  Stopped' /\ Closed' /\ Queued'
<1> USE DEF Stopped, Closed, Queued, Left
<1>1. UNCHANGED <<connected, capture_active, current, turn, recent, flush, finalizer, jobs>>
  BY DEF UtteranceWorker, Decode, Settle, sessionVars, captureVars, translationVars
<1>2. CASE Settle
  <2>1. worker \in Turns /\ row' = row
    BY <1>2 DEF Settle, TurnInv, Typed, RowTyped, Turns
  <2>2. row[worker] # "final"
    BY <1>2, <2>1 DEF Settle, TurnInv, Counted
  <2>3. \A t \in Turns : t # worker => turn_pending'[t] = turn_pending[t]
    BY <1>2 DEF Settle, TurnInv, Typed, RowTyped
  <2> QED
    BY <1>1, <2>1, <2>2, <2>3
<1>3. ASSUME NEW t \in Turns, Decode(t) PROVE Stopped' /\ Closed' /\ Queued'
  <2>1. /\ turn_pending[t] > 0 /\ turn_pending' = turn_pending
        /\ row' = row \/ row' = [row EXCEPT ![t] = "open"]
    BY <1>3 DEF Decode, Upsert
  <2>2. row[t] # "final"
    BY <2>1
  <2> QED
    BY <1>1, <2>1, <2>2 DEF TurnInv, Typed, RowTyped
<1> QED
  BY <1>2, <1>3 DEF UtteranceWorker

LEMMA FinalizerCloses ==
  ASSUME LifecycleAssumption, TurnInv, conduct = {}, Stopped, Closed, Queued,
         NEW t \in Turns, Finalizer(t)
  PROVE  Stopped' /\ Closed' /\ Queued'
<1>1. UNCHANGED <<connected, capture_active, current, flush, turn_pending>>
  BY FinalizerSteps DEF captureVars
<1>2. UNCHANGED <<turn, recent>> \/ (turn' = 0 /\ recent' = FALSE)
  BY FinalizerSteps
<1>3. /\ finalizer \in Tasks /\ row \in [Turns -> {"none", "open", "final"}]
      /\ jobs \in [Turns -> Nat]
  BY DEF TurnInv, Typed, RowTyped, TranslationTyped
<1>4. ASSUME NEW s \in Turns, s # t
      PROVE  finalizer'[s] = finalizer[s] /\ row'[s] = row[s] /\ jobs'[s] = jobs[s]
  <2>1. finalizer' = [finalizer EXCEPT ![t] = finalizer'[t]]
    BY FinalizerSteps
  <2>2. row' = row \/ row' = [row EXCEPT ![t] = "final"]
    BY FinalizerSteps
  <2>3. jobs' = jobs \/ jobs' = [jobs EXCEPT ![t] = jobs[t] + 1]
    BY FinalizerSteps
  <2> QED
    BY <1>3, <1>4, <2>1, <2>2, <2>3 DEF Tasks
\* What the task has seen of t, at each of its suspension points.
<1> DEFINE Waits == finalizer'[t] = "waiting" /\ row'[t] = row[t] /\ jobs'[t] = jobs[t]
                    /\ Left(t)
           Finalizes == /\ finalizer'[t] = "announcing" /\ row[t] = "open"
                        /\ row'[t] = "final" /\ jobs'[t] = jobs[t]
                        /\ Left(t) /\ turn_pending[t] = 0
           Returns == finalizer'[t] = "none" /\ row'[t] = row[t] /\ jobs'[t] = jobs[t]
           Queues == /\ finalizer[t] = "announcing" /\ finalizer'[t] = "none"
                     /\ row'[t] = row[t] /\ jobs'[t] = jobs[t] + 1
<1>5. ASSUME Close(t), turn_pending[t] = 0, Left(t), jobs' = jobs
      PROVE  Finalizes \/ Returns
  <2>1. CASE row[t] = "open"
    <3>1. /\ row' = [row EXCEPT ![t] = "final"]
          /\ finalizer' = [finalizer EXCEPT ![t] = "announcing"]
      BY <1>5, <2>1 DEF Close
    <3>2. row'[t] = "final" /\ finalizer'[t] = "announcing"
      BY <1>3, <3>1 DEF Tasks
    <3> QED
      BY <1>5, <2>1, <3>2
  <2>2. CASE row[t] # "open"
    <3>1. row' = row /\ finalizer' = [finalizer EXCEPT ![t] = "none"]
      BY <1>5, <2>2 DEF Close
    <3>2. finalizer'[t] = "none"
      BY <1>3, <3>1 DEF Tasks
    <3> QED
      BY <1>5, <3>1, <3>2
  <2> QED
    BY <2>1, <2>2
<1>6. Waits \/ Finalizes \/ Returns \/ Queues
  <2>1. CASE Wake(t)
    <3>1. jobs' = jobs
      BY <2>1 DEF Wake, translationVars
    <3>2. \/ finalizer[t] = "due"
          \/ ~(turn = t /\ recent)
      BY <2>1 DEF Wake
    <3>3. ~Busy(t) => Left(t)
      BY <3>2 DEF Busy, Left, Stopped
    <3>4. CASE Busy(t) /\ finalizer' = [finalizer EXCEPT ![t] = "none"] /\ row' = row
      <4>1. finalizer'[t] = "none"
        BY <1>3, <3>4 DEF Tasks
      <4> QED
        BY <3>1, <3>4, <4>1
    <3>5. CASE ~Busy(t) /\ finalizer' = [finalizer EXCEPT ![t] = "waiting"] /\ row' = row
      <4>1. finalizer'[t] = "waiting"
        BY <1>3, <3>5 DEF Tasks
      <4> QED
        BY <3>1, <3>3, <3>5, <4>1
    <3>6. CASE ~Busy(t) /\ turn_pending[t] = 0 /\ Close(t)
      BY <1>5, <3>1, <3>3, <3>6
    <3> QED
      BY <2>1, <3>4, <3>5, <3>6 DEF Wake
  <2>2. CASE Poll(t)
    <3>1. finalizer[t] = "waiting" /\ turn_pending[t] = 0 /\ Close(t) /\ jobs' = jobs
      BY <2>2 DEF Poll, translationVars
    <3>2. Left(t)
      BY <3>1 DEF Closed
    <3> QED
      BY <1>5, <3>1, <3>2
  <2>3. CASE Announced(t)
    <3>1. finalizer[t] = "announcing" /\ row' = row
      BY <2>3 DEF Announced, rowVars
    <3>2. finalizer' = [finalizer EXCEPT ![t] = "none"]
      BY <2>3 DEF Announced
    <3>3. finalizer'[t] = "none"
      BY <1>3, <3>2 DEF Tasks
    <3>4. jobs' = jobs \/ jobs' = [jobs EXCEPT ![t] = jobs[t] + 1]
      BY FinalizerSteps
    <3>5. jobs'[t] = jobs[t] \/ jobs'[t] = jobs[t] + 1
      BY <1>3, <3>4
    <3> QED
      BY <3>1, <3>3, <3>5
  <2> QED
    BY <2>1, <2>2, <2>3 DEF Finalizer
<1>7. ASSUME NEW s \in Turns, Left(s) PROVE Left(s)'
  BY <1>1, <1>2, <1>7 DEF Left, Turns
<1>8. Stopped'
  <2>1. ASSUME NEW s \in Turns, finalizer'[s] = "due", connected', turn' = s
        PROVE  ~capture_active'
    <3>1. s # t
      BY <1>6, <2>1
    <3>2. finalizer[s] = "due"
      BY <1>4, <2>1, <3>1
    <3>3. turn = s
      BY <1>2, <2>1 DEF Turns
    <3> QED
      BY <1>1, <2>1, <3>2, <3>3 DEF Stopped
  <2> QED
    BY <1>1, <2>1 DEF Stopped
<1>9. Closed'
  <2>1. ASSUME NEW s \in Turns
        PROVE  /\ row'[s] = "final" \/ finalizer'[s] = "waiting" => Left(s)'
               /\ row'[s] = "final" => turn_pending'[s] = 0
    <3>1. CASE s # t
      BY <1>1, <1>4, <1>7, <3>1 DEF Closed
    <3>2. CASE s = t
      <4>1. row'[t] = "final" \/ finalizer'[t] = "waiting" => Left(t)
        BY <1>6 DEF Closed
      <4>2. row'[t] = "final" => turn_pending[t] = 0
        BY <1>6 DEF Closed
      <4> QED
        BY <1>1, <1>7, <3>2, <4>1, <4>2
    <3> QED
      BY <3>1, <3>2
  <2> QED
    BY <2>1 DEF Closed
<1>10. Queued'
  <2>1. ASSUME NEW s \in Turns
        PROVE  /\ finalizer'[s] = "announcing" => row'[s] = "final" /\ jobs'[s] = 0
               /\ jobs'[s] > 0 => row'[s] = "final" /\ jobs'[s] = 1
    <3>1. CASE s # t
      BY <1>4, <3>1 DEF Queued
    <3>2. CASE s = t
      <4>1. CASE Waits
        BY <3>2, <4>1 DEF Queued
      <4>2. CASE Returns
        BY <3>2, <4>2 DEF Queued
      <4>3. CASE Finalizes
        <5>1. jobs[t] = 0
          BY <1>3, <4>3 DEF Queued
        <5> QED
          BY <3>2, <4>3, <5>1
      <4>4. CASE Queues
        <5>1. row[t] = "final" /\ jobs[t] = 0
          BY <4>4 DEF Queued
        <5> QED
          BY <3>2, <4>4, <5>1
      <4> QED
        BY <1>6, <4>1, <4>2, <4>3, <4>4
    <3> QED
      BY <3>1, <3>2
  <2> QED
    BY <2>1 DEF Queued
<1> QED
  BY <1>8, <1>9, <1>10

LEMMA OthersClose ==
  ASSUME TurnInv, Stopped, Closed, Queued, Clock \/ TranslationWorker \/ UNCHANGED vars
  PROVE  Stopped' /\ Closed' /\ Queued'
<1>1. /\ UNCHANGED <<connected, capture_active, current, turn, flush, turn_pending, row>>
      /\ UNCHANGED <<finalizer, jobs>>
      /\ recent' = recent \/ recent' = FALSE
  BY DEF Clock, GapOver, TranslationWorker, TakeJob, Reply, JobEnds, vars, sessionVars,
         captureVars, rowVars, translationVars
<1> QED
  BY <1>1 DEF Stopped, Closed, Queued, Left

LEMMA ClosedStep ==
  LifecycleAssumption /\ TurnInv /\ ClosedInv /\ [Next]_vars => ClosedInv'
<1> SUFFICES ASSUME LifecycleAssumption, TurnInv, ClosedInv, [Next]_vars, conduct' = {}
             PROVE  Stopped' /\ Closed' /\ Queued'
  BY DEF ClosedInv
<1>1. conduct = {}
  BY FlagsStep DEF TurnInv, Typed
<1>2. Stopped /\ Closed /\ Queued
  BY <1>1 DEF ClosedInv
<1> QED
  BY <1>1, <1>2, SessionCloses, FlushStepCloses, WorkerCloses, FinalizerCloses,
     OthersClose DEF Next

\* A final row of a client that follows the protocol is closed
\* (_finalize_turn_after_gap): no window of it is pending or in progress.
THEOREM FinalRowsAreClosed == LifecycleAssumption => (Spec => []FinalIsClosed)
<1> SUFFICES ASSUME LifecycleAssumption PROVE Spec => []FinalIsClosed
  OBVIOUS
<1>1. Init => TurnInv /\ ClosedInv
  BY TurnInit, ClosedInit
<1>2. TurnInv /\ ClosedInv /\ [Next]_vars => TurnInv' /\ ClosedInv'
  BY TurnStep, ClosedStep
<1>3. ClosedInv => FinalIsClosed
  BY DEF ClosedInv, Closed, Left, FinalIsClosed
<1> QED
  BY <1>1, <1>2, <1>3, PTL DEF Spec

\* The turn of such a client enters the translation queue at most once
\* (_queue_translation_job), however many finalize tasks it has had.
THEOREM TurnsQueuedOnce == LifecycleAssumption => (Spec => []AtMostOneJob)
<1> SUFFICES ASSUME LifecycleAssumption PROVE Spec => []AtMostOneJob
  OBVIOUS
<1>1. Init => TurnInv /\ ClosedInv
  BY TurnInit, ClosedInit
<1>2. TurnInv /\ ClosedInv /\ [Next]_vars => TurnInv' /\ ClosedInv'
  BY TurnStep, ClosedStep
<1>3. TurnInv /\ ClosedInv => AtMostOneJob
  BY DEF TurnInv, Typed, TranslationTyped, ClosedInv, Queued, AtMostOneJob
<1> QED
  BY <1>1, <1>2, <1>3, PTL DEF Spec

\* A translation is only attached to the final row it was made from
\* (_translation_worker), whatever happened to the row meanwhile.
THEOREM TranslationsMatch == LifecycleAssumption => (Spec => TranslationMatchesSource)
<1> SUFFICES ASSUME LifecycleAssumption PROVE Spec => TranslationMatchesSource
  OBVIOUS
<1>1. ASSUME TurnInv, [Next]_vars, NEW t \in Turns, shown'[t] # shown[t]
      PROVE  row[t] = "final" /\ shown'[t] = source_revision[t]
  <2>1. shown' # shown
    BY <1>1
  <2>2. Reply
    BY <1>1, <2>1
       DEF Next, Session, CaptureStart, SpeechOnset, SpeechStart, Cut, Stop, StopForOutage,
           Disconnect, FlushStep, Submit, FinishFlush, FlushRaises, Clock, GapOver,
           UtteranceWorker, Decode, Settle, Finalizer, Wake, Poll, Announced,
           TranslationWorker, TakeJob, JobEnds, vars, translationVars
  <2>3. SameSource(active) /\ shown' = [shown EXCEPT ![active] = asked]
    BY <2>1, <2>2 DEF Reply
  <2>4. shown \in [Turns -> Nat]
    BY <1>1 DEF TurnInv, Typed, TranslationTyped
  <2>5. t = active
    BY <1>1, <2>3, <2>4
  <2>6. shown'[t] = asked
    BY <2>3, <2>4, <2>5
  <2> QED
    BY <2>3, <2>5, <2>6 DEF SameSource
<1>2. TurnInv /\ [Next]_vars =>
        [\A t \in Turns : shown'[t] # shown[t] =>
           row[t] = "final" /\ shown'[t] = source_revision[t]]_vars
  BY <1>1
<1>3. Init => TurnInv
  BY TurnInit
<1>4. TurnInv /\ [Next]_vars => TurnInv'
  BY TurnStep
<1> QED
  BY <1>2, <1>3, <1>4, PTL DEF Spec, TranslationMatchesSource
-----------------------------------------------------------------------------
(* The link to the translator.                                             *)

Steps == {"none", "reading", "queued", "native"}

\* One handler at a time has given its line to the native process, which has only
\* that line.
OneForwards ==
  \A c, d \in Connections : handler[c] = "native" /\ handler[d] = "native" => c = d
NativeHas ==
  /\ \A c \in Connections : handler[c] = "native" => native = <<taken[c]>>
  /\ LockFree => native = <<>>
HandlersHold ==
  \A c \in Connections : handler[c] \in {"queued", "native"} => taken[c] \in Lines

\* The server's connection is clean between two requests.
Quiet ==
  /\ holder = NoLine /\ handler[connection] \in {"reading", "none"}
  /\ requests[connection] = <<>> /\ replies[connection] = <<>>
\* In a request its line is written, held by the handler, answered, or lost with the
\* proxy.
Written ==
  /\ holder \in Lines /\ handler[connection] \in {"reading", "none"}
  /\ requests[connection] = <<holder>> /\ replies[connection] = <<>>
Held ==
  /\ holder \in Lines /\ handler[connection] \in {"queued", "native"}
  /\ taken[connection] = holder
  /\ requests[connection] = <<>> /\ replies[connection] = <<>>
Back ==
  /\ holder \in Lines /\ handler[connection] \in {"reading", "none"}
  /\ requests[connection] = <<>> /\ replies[connection] = <<holder>>
Lost ==
  /\ holder \in Lines /\ handler[connection] = "none"
  /\ requests[connection] = <<>> /\ replies[connection] = <<>>
InStep == connection # 0 => Quiet \/ Written \/ Held \/ Back \/ Lost

LinkInv == LinkTypeOK /\ OneForwards /\ NativeHas /\ HandlersHold /\ InStep

LEMMA OneLine ==
  ASSUME NEW l \in Lines
  PROVE  /\ <<l>> \in Seq(Lines) /\ <<l>> # <<>> /\ Append(<<>>, l) = <<l>>
         /\ Head(<<l>>) = l /\ Tail(<<l>>) = <<>>
<1>1. <<>> \in Seq(Lines)
  BY EmptySeq
<1>2. Append(<<>>, l) = <<l>>
  OBVIOUS
<1> QED
  BY <1>1, <1>2, HeadTailAppend, AppendProperties

LEMMA LinkStarts == LinkAssumption /\ LinkInit => LinkInv
<1> SUFFICES ASSUME LinkAssumption, LinkInit PROVE LinkInv
  OBVIOUS
<1> USE DEF LinkAssumption, LinkInit, Connections
<1>1. <<>> \in Seq(Lines)
  BY EmptySeq
<1>2. connection \in 0..MaxConnections
  OBVIOUS
<1>3. handler \in [Connections -> Steps]
  BY DEF Steps
<1>4. /\ taken \in [Connections -> Lines \cup {NoLine}]
      /\ requests \in [Connections -> Seq(Lines)]
      /\ replies \in [Connections -> Seq(Lines)]
  BY <1>1
<1>5. LinkTypeOK
  BY <1>1, <1>2, <1>3, <1>4 DEF LinkTypeOK, Steps
<1>6. OneForwards /\ NativeHas /\ HandlersHold
  BY DEF OneForwards, NativeHas, HandlersHold
<1>7. InStep
  BY DEF InStep, Quiet
<1> QED
  BY <1>5, <1>6, <1>7 DEF LinkInv

\* What the server does to the link.
LEMMA AskKeeps ==
  ASSUME LinkAssumption, LinkInv, NEW line \in Lines, Ask(line)
  PROVE  LinkInv'
<1> USE DEF LinkInv, LinkTypeOK
<1>1. connection \in Connections
  BY DEF Ask, Connections, LinkAssumption
<1>2. Quiet
  BY DEF Ask, InStep, Written, Held, Back, Lost, LinkAssumption
<1>3. requests' = [requests EXCEPT ![connection] = <<line>>]
  BY <1>2, OneLine DEF Ask, Quiet
<1>4. requests' \in [Connections -> Seq(Lines)] /\ requests'[connection] = <<line>>
  BY <1>1, <1>3, OneLine
<1>5. LinkTypeOK'
  BY <1>4 DEF Ask, proxyVars
<1>6. OneForwards' /\ NativeHas' /\ HandlersHold'
  BY DEF Ask, proxyVars, OneForwards, NativeHas, HandlersHold, LockFree
<1>7. Written'
  BY <1>2, <1>4 DEF Ask, proxyVars, Quiet, Written
<1> QED
  BY <1>5, <1>6, <1>7 DEF InStep

LEMMA AnsweredKeeps ==
  ASSUME LinkAssumption, LinkInv, connection # 0, Answered
  PROVE  LinkInv'
<1> USE DEF LinkInv, LinkTypeOK
<1>1. connection \in Connections
  BY DEF Connections, LinkAssumption
<1>2. Back
  BY DEF Answered, InStep, Quiet, Written, Held, Lost
<1>3. replies' = [replies EXCEPT ![connection] = <<>>]
  BY <1>2, OneLine DEF Answered, Back
<1>4. replies' \in [Connections -> Seq(Lines)] /\ replies'[connection] = <<>>
  BY <1>1, <1>3, EmptySeq
<1>5. LinkTypeOK'
  BY <1>4 DEF Answered, proxyVars
<1>6. OneForwards' /\ NativeHas' /\ HandlersHold'
  BY DEF Answered, proxyVars, OneForwards, NativeHas, HandlersHold, LockFree
<1>7. Quiet'
  BY <1>2, <1>4 DEF Answered, proxyVars, Quiet, Back
<1> QED
  BY <1>5, <1>6, <1>7 DEF InStep

LEMMA AskRaisesKeeps ==
  ASSUME LinkAssumption, LinkInv, AskRaises
  PROVE  LinkInv'
<1> USE DEF LinkInv, LinkTypeOK, AskRaises, ResetConnection, proxyVars
<1>1. LinkTypeOK'
  BY DEF LinkAssumption
<1>2. OneForwards' /\ NativeHas' /\ HandlersHold' /\ InStep'
  BY DEF OneForwards, NativeHas, HandlersHold, LockFree, InStep
<1> QED
  BY <1>1, <1>2

LEMMA ConnectKeeps ==
  ASSUME LinkAssumption, LinkInv, holder = NoLine, Connect
  PROVE  LinkInv'
<1> USE DEF LinkInv, LinkTypeOK
<1>1. PICK c \in Connections :
        /\ handler[c] = "none" /\ connection' = c
        /\ handler' = [handler EXCEPT ![c] = "reading"]
        /\ requests' = [requests EXCEPT ![c] = <<>>]
        /\ replies' = [replies EXCEPT ![c] = <<>>]
  BY DEF Connect, Unused
<1>2. UNCHANGED <<slow, holder, daemon, taken, native>>
  BY DEF Connect
<1>3. /\ handler' \in [Connections -> Steps]
      /\ requests' \in [Connections -> Seq(Lines)]
      /\ replies' \in [Connections -> Seq(Lines)]
  BY <1>1, EmptySeq DEF Steps
<1>4. LinkTypeOK'
  BY <1>1, <1>2, <1>3 DEF Connections, Steps, LinkAssumption
<1>5. \A d \in Connections : handler'[d] \in {"queued", "native"} => handler'[d] = handler[d]
  BY <1>1
<1>6. \A d \in Connections : handler[d] = "native" => handler'[d] = "native"
  BY <1>1
<1>7. OneForwards' /\ NativeHas' /\ HandlersHold'
  BY <1>2, <1>5, <1>6 DEF OneForwards, NativeHas, HandlersHold, LockFree
<1>8. Quiet'
  BY <1>1, <1>2 DEF Quiet
<1> QED
  BY <1>4, <1>7, <1>8 DEF InStep
\* What the proxy does to the link.
LEMMA ReadLineKeeps ==
  ASSUME LinkAssumption, LinkInv, NEW c \in Connections, ReadLine(c)
  PROVE  LinkInv'
<1> USE DEF LinkInv, LinkTypeOK
<1> DEFINE line == Head(requests[c])
<1>1. line \in Lines /\ Tail(requests[c]) \in Seq(Lines)
  BY HeadTailProperties DEF ReadLine
<1>2. UNCHANGED <<slow, connection, holder, daemon, replies>>
  BY DEF ReadLine, serverVars
<1>3. /\ taken' = [taken EXCEPT ![c] = line]
      /\ requests' = [requests EXCEPT ![c] = Tail(@)]
      /\ handler[c] = "reading"
  BY DEF ReadLine
<1>4. \/ /\ LockFree
         /\ handler' = [handler EXCEPT ![c] = "native"] /\ native' = <<line>>
      \/ handler' = [handler EXCEPT ![c] = "queued"] /\ native' = native
  BY <1>1, OneLine DEF ReadLine, NativeHas
<1> HIDE DEF line
<1>5. LinkTypeOK'
  <2>1. handler' \in [Connections -> Steps]
    BY <1>4 DEF Steps
  <2>2. /\ taken' \in [Connections -> Lines \cup {NoLine}]
        /\ requests' \in [Connections -> Seq(Lines)]
    BY <1>1, <1>3
  <2>3. native' \in Seq(Lines)
    BY <1>1, <1>4, OneLine
  <2> QED
    BY <1>2, <2>1, <2>2, <2>3 DEF Steps
<1>6. OneForwards'
  BY <1>4 DEF OneForwards, LockFree
<1>7. NativeHas'
  BY <1>3, <1>4 DEF NativeHas, LockFree
<1>8. HandlersHold'
  BY <1>1, <1>3, <1>4 DEF HandlersHold
<1>9. ASSUME connection # 0, c = connection PROVE Held'
  <2>1. Written
    BY <1>3, <1>9 DEF ReadLine, InStep, Quiet, Held, Back, Lost
  <2>2. line = holder /\ Tail(requests[c]) = <<>>
    BY <1>9, <2>1, OneLine DEF Written, line
  <2>3. requests'[c] = <<>> /\ taken'[c] = holder /\ handler'[c] \in {"queued", "native"}
    BY <1>3, <1>4, <2>2
  <2> QED
    BY <1>2, <1>9, <2>1, <2>3 DEF Written, Held
<1>10. ASSUME connection # 0, c # connection PROVE InStep'
  <2>1. connection \in Connections
    BY <1>10 DEF Connections, LinkAssumption
  <2>2. /\ handler'[connection] = handler[connection]
        /\ taken'[connection] = taken[connection]
        /\ requests'[connection] = requests[connection]
    BY <1>3, <1>4, <1>10, <2>1
  <2> QED
    BY <1>2, <2>2 DEF InStep, Quiet, Written, Held, Back, Lost
<1> QED
  BY <1>2, <1>5, <1>6, <1>7, <1>8, <1>9, <1>10 DEF InStep

LEMMA GetLockKeeps ==
  ASSUME LinkAssumption, LinkInv, NEW c \in Connections, GetLock(c)
  PROVE  LinkInv'
<1> USE DEF LinkInv, LinkTypeOK
<1>1. UNCHANGED <<slow, connection, holder, daemon, taken, requests, replies>>
  BY DEF GetLock, serverVars
<1>2. /\ handler[c] = "queued" /\ LockFree /\ taken[c] \in Lines
      /\ handler' = [handler EXCEPT ![c] = "native"]
  BY DEF GetLock, HandlersHold
<1>3. native' = <<taken[c]>>
  BY <1>2, OneLine DEF GetLock, NativeHas
<1>4. LinkTypeOK'
  BY <1>1, <1>2, <1>3, OneLine
<1>5. OneForwards' /\ NativeHas' /\ HandlersHold'
  BY <1>1, <1>2, <1>3 DEF OneForwards, NativeHas, HandlersHold, LockFree
<1>6. ASSUME connection # 0 PROVE InStep'
  <2>1. connection \in Connections
    BY <1>6 DEF Connections, LinkAssumption
  <2>2. \/ handler'[connection] = handler[connection]
        \/ handler[connection] = "queued" /\ handler'[connection] = "native"
    BY <1>2, <2>1
  <2> QED
    BY <1>1, <1>6, <2>2 DEF InStep, Quiet, Written, Held, Back, Lost
<1> QED
  BY <1>1, <1>4, <1>5, <1>6 DEF InStep

LEMMA EndOfLinesKeeps ==
  ASSUME LinkAssumption, LinkInv, NEW c \in Connections, EndOfLines(c)
  PROVE  LinkInv'
<1> USE DEF LinkInv, LinkTypeOK
<1>1. UNCHANGED <<slow, connection, holder, daemon, taken, native, requests, replies>>
  BY DEF EndOfLines, serverVars
<1>2. /\ handler[c] = "reading" /\ connection # c
      /\ handler' = [handler EXCEPT ![c] = "none"]
  BY DEF EndOfLines
<1>3. LinkTypeOK'
  BY <1>1, <1>2
<1>4. OneForwards' /\ NativeHas' /\ HandlersHold'
  BY <1>1, <1>2 DEF OneForwards, NativeHas, HandlersHold, LockFree
<1>5. ASSUME connection # 0 PROVE handler'[connection] = handler[connection]
  BY <1>2, <1>5 DEF Connections, LinkAssumption
<1> QED
  BY <1>1, <1>3, <1>4, <1>5 DEF InStep, Quiet, Written, Held, Back, Lost

LEMMA ReturnKeeps ==
  ASSUME LinkAssumption, LinkInv, NEW c \in Connections, Return(c)
  PROVE  LinkInv'
<1> USE DEF LinkInv, LinkTypeOK
<1>1. /\ UNCHANGED <<slow, connection, holder, daemon, requests>>
      /\ handler[c] = "native" /\ taken' = [taken EXCEPT ![c] = NoLine]
  BY DEF Return, serverVars
<1>2. taken[c] \in Lines /\ native = <<taken[c]>>
  BY <1>1 DEF HandlersHold, NativeHas
<1>3. Head(native) = taken[c] /\ native' = <<>> /\ <<>> \in Seq(Lines)
  BY <1>2, OneLine, EmptySeq DEF Return
<1>4. \A d \in Connections : d # c => handler[d] # "native" /\ handler'[d] = handler[d]
  BY <1>1 DEF OneForwards, Return
<1>5. handler'[c] \in {"reading", "none"} /\ handler' \in [Connections -> Steps]
  BY DEF Return, Steps
<1>6. OneForwards' /\ NativeHas' /\ HandlersHold'
  BY <1>1, <1>3, <1>4, <1>5 DEF OneForwards, NativeHas, HandlersHold, LockFree
<1>7. CASE connection = c
  <2>1. Held
    BY <1>1, <1>7 DEF InStep, Quiet, Written, Back, Lost, Connections, LinkAssumption
  <2>2. replies' = [replies EXCEPT ![c] = <<holder>>]
    BY <1>2, <1>3, <1>7, <2>1, OneLine DEF Return, Held
  <2>3. replies' \in [Connections -> Seq(Lines)] /\ replies'[c] = <<holder>>
    BY <2>1, <2>2, OneLine DEF Held
  <2>4. Back'
    BY <1>1, <1>5, <1>7, <2>1, <2>3 DEF Held, Back
  <2>5. taken' \in [Connections -> Lines \cup {NoLine}]
    BY <1>1
  <2>6. LinkTypeOK'
    BY <1>1, <1>3, <1>5, <2>3, <2>5 DEF Steps
  <2> QED
    BY <1>6, <2>4, <2>6 DEF InStep
<1>8. CASE connection # c
  <2>1. UNCHANGED replies
    BY <1>8 DEF Return
  <2>2. taken' \in [Connections -> Lines \cup {NoLine}]
    BY <1>1
  <2>3. LinkTypeOK'
    BY <1>1, <1>3, <1>5, <2>1, <2>2 DEF Steps
  <2>4. ASSUME connection # 0
        PROVE  /\ handler'[connection] = handler[connection]
               /\ taken'[connection] = taken[connection]
    BY <1>1, <1>4, <1>8, <2>4 DEF Connections, LinkAssumption
  <2>5. InStep'
    BY <1>1, <2>1, <2>4 DEF InStep, Quiet, Written, Held, Back, Lost
  <2> QED
    BY <1>6, <2>3, <2>5
<1> QED
  BY <1>7, <1>8

LEMMA ProxyExitsKeeps ==
  ASSUME LinkAssumption, LinkInv, ProxyExits
  PROVE  LinkInv'
<1> USE DEF LinkInv, LinkTypeOK
<1>1. /\ UNCHANGED <<slow, connection, holder, requests>>
      /\ daemon' = FALSE /\ native' = <<>> /\ native' \in Seq(Lines)
      /\ handler' = [c \in Connections |-> "none"]
      /\ taken' = [c \in Connections |-> NoLine]
  BY EmptySeq DEF ProxyExits, serverVars
<1>2. /\ handler' \in [Connections -> Steps]
      /\ taken' \in [Connections -> Lines \cup {NoLine}]
  BY <1>1 DEF Steps
<1>3. OneForwards' /\ NativeHas' /\ HandlersHold'
  BY <1>1 DEF OneForwards, NativeHas, HandlersHold
<1>4. ASSUME connection # 0 PROVE connection \in Connections /\ handler'[connection] = "none"
  BY <1>1, <1>4 DEF Connections, LinkAssumption
<1>5. CASE UNCHANGED replies
  <2>1. LinkTypeOK'
    BY <1>1, <1>2, <1>5 DEF Steps
  <2>2. InStep'
    BY <1>1, <1>4, <1>5 DEF InStep, Quiet, Written, Held, Back, Lost
  <2> QED
    BY <1>3, <2>1, <2>2
<1>6. ASSUME NEW c \in Connections, handler[c] \in {"queued", "native"}, connection = c,
             replies' = [replies EXCEPT ![c] = Append(@, taken[c])]
      PROVE  LinkInv'
  <2>0. connection # 0 /\ handler[connection] \notin {"reading", "none"}
    BY <1>6 DEF Connections, LinkAssumption
  <2>1. Held
    BY <2>0 DEF InStep, Quiet, Written, Back, Lost
  <2>2. replies' = [replies EXCEPT ![c] = <<holder>>]
    BY <1>6, <2>1, OneLine DEF Held
  <2>3. replies' \in [Connections -> Seq(Lines)] /\ replies'[c] = <<holder>>
    BY <2>1, <2>2, OneLine DEF Held
  <2>4. Back'
    BY <1>1, <1>6, <2>1, <2>3 DEF Held, Back
  <2>5. LinkTypeOK'
    BY <1>1, <1>2, <2>3 DEF Steps
  <2> QED
    BY <1>3, <2>4, <2>5 DEF InStep
<1> QED
  BY <1>5, <1>6 DEF ProxyExits

LEMMA ProxyKeeps ==
  ASSUME LinkAssumption, LinkInv, Proxy
  PROVE  LinkInv'
<1>1. CASE ProxyStarts
  BY <1>1 DEF ProxyStarts, serverVars, LinkInv, LinkTypeOK, OneForwards, NativeHas,
              HandlersHold, LockFree, InStep, Quiet, Written, Held, Back, Lost
<1> QED
  BY <1>1, ReadLineKeeps, GetLockKeeps, EndOfLinesKeeps, ReturnKeeps, ProxyExitsKeeps
     DEF Proxy
-----------------------------------------------------------------------------
(* The turns beside the link.                                              *)

\* The translation worker asks only with a line of its job in hand, and holds the
\* lock only while it is connected.
WorkerInv ==
  /\ final \in {"ensuring", "asking", "waiting"} => active \in Turns
  /\ final \in {"asking", "waiting"} => chunk \in 1..MaxChunks
  /\ holder # NoLine => connection # 0

\* What the sessions, the finalize tasks and the utterance worker do is a step of
\* TurnLifecycle that leaves the active job alone.
LEMMA BesideStep == BesideTranslation => Next /\ active' = active
BY DEF BesideTranslation, Next, Session, CaptureStart, SpeechOnset, SpeechStart, Cut, Stop,
       StopForOutage, Disconnect, FlushStep, Submit, FinishFlush, FlushRaises, Clock, GapOver,
       UtteranceWorker, Decode, Settle, Finalizer, Wake, Poll, Announced, translationVars

\* Each step of the composition is a step of TurnLifecycle or leaves its state alone.
LEMMA StepOfTurns == [TranslationNext]_allVars => [Next]_vars
<1>1. CASE BesideTranslation
  BY <1>1, BesideStep
<1>2. CASE Warm
  BY <1>2 DEF Warm, TurnsStay
<1>3. CASE FinalWorker
  <2>1. CASE FinalTakes
    BY <2>1 DEF FinalTakes, Next, TranslationWorker
  <2>2. CASE FinalReady \/ FinalAsks
    BY <2>2 DEF FinalReady, FinalAsks, TurnsStay
  <2>3. CASE FinalUnready \/ FinalRaises
    BY <2>3 DEF FinalUnready, FinalRaises, Next, TranslationWorker
  <2>4. CASE FinalAnswered
    BY <2>4 DEF FinalAnswered, TurnsStay, Next, TranslationWorker
  <2>5. CASE FinalEnds
    BY <2>5 DEF FinalEnds, Next, TranslationWorker
  <2> QED
    BY <1>3, <2>1, <2>2, <2>3, <2>4, <2>5 DEF FinalWorker
<1>4. CASE ProxyStep
  BY <1>4 DEF ProxyStep, TurnsStay
<1>5. CASE UNCHANGED allVars
  BY <1>5 DEF allVars
<1> QED
  BY <1>1, <1>2, <1>3, <1>4, <1>5 DEF TranslationNext

LEMMA EnsureReadyKeeps ==
  ASSUME LinkAssumption, LinkInv, EnsureReady
  PROVE  LinkInv' /\ connection' # 0 /\ holder' = holder
<1>1. CASE UNCHANGED linkVars /\ connection # 0
  BY <1>1 DEF linkVars, serverVars, proxyVars, LinkInv, LinkTypeOK, OneForwards, NativeHas,
              HandlersHold, LockFree, InStep, Quiet, Written, Held, Back, Lost
<1>2. CASE holder = NoLine /\ Connect
  <2>1. connection' # 0 /\ holder' = holder
    BY <1>2 DEF Connect, Unused, Connections
  <2> QED
    BY <1>2, <2>1, ConnectKeeps
<1> QED
  BY <1>1, <1>2 DEF EnsureReady

LEMMA LinkStays == LinkInv /\ UNCHANGED linkVars => LinkInv'
BY DEF linkVars, serverVars, proxyVars, LinkInv, LinkTypeOK, OneForwards, NativeHas,
       HandlersHold, LockFree, InStep, Quiet, Written, Held, Back, Lost

LEMMA ProxyLeavesServer == Proxy => UNCHANGED <<connection, holder>>
BY DEF Proxy, ReadLine, GetLock, EndOfLines, Return, ProxyExits, ProxyStarts, serverVars

LEMMA LinkStep ==
  ASSUME LinkAssumption, TranslationAssumption, TurnInv, LinkInv, WorkerInv,
         [TranslationNext]_allVars
  PROVE  LinkInv' /\ WorkerInv'
<1> USE DEF WorkerInv
<1>1. CASE BesideTranslation
  BY <1>1, BesideStep, LinkStays
     DEF BesideTranslation, linkVars, serverVars, workerVars
<1>2. CASE Warm
  BY <1>2, EnsureReadyKeeps DEF Warm, TurnsStay, vars, translationVars
<1>3. CASE ProxyStep
  BY <1>3, ProxyKeeps, ProxyLeavesServer
     DEF ProxyStep, TurnsStay, vars, translationVars, workerVars
<1>4. CASE UNCHANGED allVars
  BY <1>4, LinkStays
     DEF allVars, vars, translationVars, linkVars, serverVars, workerVars
<1>5. CASE FinalTakes
  <2>1. active = 0 /\ active' \in {active, Head(queue)} /\ Head(queue) \in Turns
    BY <1>5, HeadTailProperties DEF FinalTakes, TakeJob, TurnInv, Typed, TranslationTyped
  <2>2. 0 \notin Turns
    BY DEF Turns
  <2>3. final \notin {"ensuring", "asking", "waiting"}
    BY <2>1, <2>2
  <2>4. LinkInv' /\ UNCHANGED <<holder, connection, chunk>>
    BY <1>5, LinkStays DEF FinalTakes, linkVars, serverVars
  <2> QED
    BY <1>5, <2>1, <2>3, <2>4 DEF FinalTakes
<1>6. CASE FinalReady
  BY <1>6, EnsureReadyKeeps
     DEF FinalReady, TurnsStay, vars, translationVars, TranslationAssumption
<1>7. CASE FinalUnready
  BY <1>7, LinkStays DEF FinalUnready, EnsureFails, linkVars, serverVars
<1>8. CASE FinalAsks
  <2>1. ChunkLine(active, chunk) \in Lines
    BY <1>8 DEF FinalAsks, TranslationAssumption
  <2>2. LinkInv' /\ connection # 0 /\ UNCHANGED connection
    BY <1>8, <2>1, AskKeeps DEF FinalAsks, Ask
  <2> QED
    BY <1>8, <2>2 DEF FinalAsks, TurnsStay, vars, translationVars
<1>9. CASE FinalAnswered
  <2>1. LinkInv' /\ holder' = NoLine
    BY <1>9, AnsweredKeeps DEF FinalAnswered, Answered
  <2>2. CASE chunk < MaxChunks /\ chunk' = chunk + 1 /\ final' = "asking" /\ TurnsStay
    <3>1. chunk' \in 1..MaxChunks
      BY <1>9, <2>2 DEF FinalAnswered, TranslationAssumption
    <3> QED
      BY <1>9, <2>1, <2>2, <3>1 DEF FinalAnswered, TurnsStay, vars, translationVars
  <2>3. CASE final' \in {"done", "failed"}
    BY <2>1, <2>3
  <2> QED
    BY <1>9, <2>2, <2>3 DEF FinalAnswered
<1>10. CASE FinalRaises
  BY <1>10, AskRaisesKeeps DEF FinalRaises, AskRaises
<1>11. CASE FinalEnds
  BY <1>11, LinkStays DEF FinalEnds, linkVars, serverVars
<1> QED
  BY <1>1, <1>2, <1>3, <1>4, <1>5, <1>6, <1>7, <1>8, <1>9, <1>10, <1>11
     DEF TranslationNext, FinalWorker

\* The composition, in which the translator answers or fails as its link does, is
\* one of the behaviours of TurnLifecycle: what is proved of the turns holds of it.
THEOREM TranslationKeepsTurns == TranslationSpec => Spec
<1>1. TranslationInit => Init
  BY DEF TranslationInit
<1> QED
  BY <1>1, StepOfTurns, PTL DEF TranslationSpec, Spec

LEMMA LinkInvariant ==
  LifecycleAssumption /\ LinkAssumption /\ TranslationAssumption =>
    (TranslationSpec => [](LinkInv /\ WorkerInv))
<1> SUFFICES ASSUME LifecycleAssumption, LinkAssumption, TranslationAssumption
             PROVE  TranslationSpec => [](LinkInv /\ WorkerInv)
  OBVIOUS
<1>1. TranslationInit => TurnInv /\ LinkInv /\ WorkerInv
  BY TurnInit, LinkStarts DEF TranslationInit, LinkInit, WorkerInv
<1>2. TurnInv /\ LinkInv /\ WorkerInv /\ [TranslationNext]_allVars =>
        TurnInv' /\ LinkInv' /\ WorkerInv'
  BY TurnStep, StepOfTurns, LinkStep
<1> QED
  BY <1>1, <1>2, PTL DEF TranslationSpec

\* The state of the link keeps its type, whatever times out or exits.
THEOREM LinkTypeCorrect ==
  LifecycleAssumption /\ LinkAssumption /\ TranslationAssumption =>
    (TranslationSpec => []LinkTypeOK)
<1>1. LinkInv => LinkTypeOK
  BY DEF LinkInv
<1> QED
  BY <1>1, LinkInvariant, PTL

\* What UnixLineDaemon.ask reads is the answer to its own line
\* (meeting-translator-daemon.py, Proxy.handle): a reply to a request that timed out
\* stays on a connection that the server has left.
THEOREM RepliesAnswerRequests ==
  LifecycleAssumption /\ LinkAssumption /\ TranslationAssumption =>
    (TranslationSpec => []ReplyAnswersRequest)
<1> SUFFICES ASSUME LifecycleAssumption, LinkAssumption, TranslationAssumption
             PROVE  TranslationSpec => []ReplyAnswersRequest
  OBVIOUS
<1>1. LinkInv => ReplyAnswersRequest
  BY DEF LinkInv, InStep, Quiet, Written, Held, Back, Lost, ReplyAnswersRequest,
         LinkAssumption
<1> QED
  BY <1>1, LinkInvariant, PTL
=============================================================================
