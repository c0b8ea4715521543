------------------------ MODULE FinalPipelineProofs ------------------------
(***************************************************************************)
(* Proofs about FinalPipeline: the inductive invariant PipelineInv, the    *)
(* custody of submitted audio and the refinement of AudioCustody.          *)
(***************************************************************************)
EXTENDS FinalPipeline, FiniteSetTheorems, SequenceTheorems, TLAPS

\* What the handler of a session with a current segment works on is an utterance.
LEMMA FlushingIsUtterance ==
  ASSUME TypeOK, NEW c \in Clients, begun[c] > 0
  PROVE  /\ Flushing(c) \in Utterances
         /\ Flushing(c)[1] = c /\ Flushing(c)[2] = begun[c]
         /\ Flushing(c)[3] = try[c]
  BY PipelineAssumption DEF TypeOK, Flushing, Utterances

\* turn_pending is indexed by a session and one of its turns.
LEMMA KeyOfUtterance ==
  ASSUME TypeOK, NEW u \in Utterances
  PROVE  KeyOf(u) \in Keys
  BY PipelineAssumption DEF TypeOK, KeyOf, Keys, SegmentOf, Segments, Utterances

\* The result of a move or of an unlink is again a file state.
LEMMA FileResults ==
  ASSUME NEW f \in File, NEW ok \in BOOLEAN
  PROVE  /\ Moved(f, ok) \in File
         /\ Unlinked(f) \in File
         /\ Unlinked(Moved(f, ok)) \in File
  BY DEF Moved, Unlinked, File

\* A run has finitely many utterances.
LEMMA UtterancesFinite == IsFiniteSet(Utterances)
<1>1. IsFiniteSet(1..MaxSegments) /\ IsFiniteSet(1..MaxTries)
  BY PipelineAssumption, FS_Interval
<1>2. IsFiniteSet((Clients \X (1..MaxSegments)) \X (1..MaxTries))
  BY <1>1, PipelineAssumption, FS_Product
<1> DEFINE f == [u \in Utterances |-> <<<<u[1], u[2]>>, u[3]>>]
<1>3. f \in Injection(Utterances, (Clients \X (1..MaxSegments)) \X (1..MaxTries))
  BY DEF Utterances, Injection, IsInjective
<1> QED
  BY <1>2, <1>3, FS_Injection

LEMMA TypeInit == Init => TypeOK
  BY PipelineAssumption DEF Init, TypeOK, Life, Stage, Worker, File

LEMMA TypeStep ==
  ASSUME TypeOK, FreshInv, [Next]_vars
  PROVE  TypeOK'
<1> USE PipelineAssumption
<1>1. ASSUME NEW c \in Clients,
             Connect(c) \/ Begin(c) \/ DropShort(c) \/ StorageExhausted(c)
      PROVE  TypeOK'
  <2>1. CASE Connect(c)
    BY <2>1 DEF TypeOK, Connect, gateVars, workVars
  <2>2. CASE Begin(c)
    <3> DEFINE n == begun[c] + 1
               previous == IF n = 1 THEN 0 ELSE turnOf[<<c, n - 1>>]
    <3>1. n \in 1..MaxSegments /\ begun[c] \in Nat
      BY <2>2 DEF TypeOK, Begin
    <3>2. previous \in 0..begun[c]
      <4>1. CASE n = 1
        BY <4>1, <3>1
      <4>2. CASE n # 1
        BY <4>2, <3>1 DEF FreshInv
      <4> QED
        BY <4>1, <4>2
    <3>3. PICK fresh \in {0, 1} :
            /\ turnOf' = [turnOf EXCEPT ![<<c, n>>] = previous + fresh]
            /\ begun' = [begun EXCEPT ![c] = n]
      BY <2>2 DEF Begin
    <3>4. previous + fresh \in 0..MaxSegments
      BY <3>1, <3>2
    <3> HIDE DEF n, previous
    <3>5. turnOf' \in [Segments -> 0..MaxSegments]
      BY <3>3, <3>4 DEF TypeOK
    <3> QED
      BY <2>2, <3>1, <3>3, <3>5 DEF TypeOK, Begin, gateVars, workVars
  <2>3. CASE DropShort(c)
    BY <2>3 DEF TypeOK, DropShort, gateVars, workVars
  <2>4. CASE StorageExhausted(c)
    BY <2>4 DEF TypeOK, StorageExhausted, FlushRaised, gateVars, workVars
  <2> QED
    BY <1>1, <2>1, <2>2, <2>3, <2>4
<1>2. ASSUME NEW c \in Clients, StartFlush(c)
      PROVE  TypeOK'
  <2>1. begun[c] > 0
    BY <1>2 DEF FreshInv, StartFlush
  <2> QED
    BY <1>2, <2>1, FlushingIsUtterance DEF TypeOK, StartFlush, gateVars, workVars, Stage
<1>3. ASSUME NEW c \in Clients, WriteRaises(c)
      PROVE  TypeOK'
  <2>1. session' \in [Clients -> {"new", "open", "closing", "gone"}]
    BY <1>3 DEF TypeOK, WriteRaises, FlushRaised
  <2>2. active' \in [Clients -> BOOLEAN]
    BY <1>3 DEF TypeOK, WriteRaises, FlushRaised
  <2>3. flush' \in [Clients -> {"capture", "writing", "announcing"}]
    BY <1>3 DEF TypeOK, WriteRaises, FlushRaised
  <2>4. try' \in [Clients -> 1..MaxTries]
    BY <1>3 DEF TypeOK, WriteRaises, NextSpoolId
  <2>5. threads' \in SUBSET Utterances /\ stage' \in [Utterances -> Stage]
    BY <1>3 DEF TypeOK, WriteRaises, Stage
  <2> QED
    BY <1>3, <2>1, <2>2, <2>3, <2>4, <2>5 DEF TypeOK, WriteRaises, gateVars, workVars
<1>4. ASSUME NEW c \in Clients, Submit(c)
      PROVE  TypeOK'
  <2>1. Flushing(c) \in Utterances
    BY <1>4, FlushingIsUtterance DEF FreshInv, Submit
  <2>2. stage' \in [Utterances -> Stage]
    BY <1>4, <2>1 DEF TypeOK, Submit, Stage
  <2>4. queue' \in Seq(Utterances)
    <3>1. queue \in Seq(Utterances)
      BY DEF TypeOK
    <3>2. Append(queue, Flushing(c)) \in Seq(Utterances)
      BY <2>1, <3>1, AppendProperties
    <3>3. queue' = queue \/ queue' = Append(queue, Flushing(c))
      BY <1>4 DEF Submit
    <3> QED
      BY <3>1, <3>2, <3>3
  <2>5. /\ received' \in [Utterances -> Nat] /\ clock' \in Nat
        /\ flush' \in [Clients -> {"capture", "writing", "announcing"}]
        /\ threads' \in SUBSET Utterances
    BY <1>4, <2>1 DEF TypeOK, Submit
  <2>3. turnPending' \in [Keys -> Nat]
    BY <1>4, <2>1, KeyOfUtterance DEF TypeOK, Submit
  <2> QED
    BY <1>4, <2>2, <2>3, <2>4, <2>5 DEF TypeOK, Submit, workVars
<1>5. ASSUME NEW c \in Clients, FinishFlush(c) \/ Disconnect(c) \/ Leave(c)
      PROVE  TypeOK'
  <2>1. CASE FinishFlush(c)
    <3>0. PICK keep \in BOOLEAN :
            /\ keep => begun[c] < MaxSegments
            /\ active' = [active EXCEPT ![c] = keep]
            /\ IF keep
               THEN /\ begun' = [begun EXCEPT ![c] = @ + 1]
                    /\ turnOf' = [turnOf EXCEPT ![<<c, begun[c] + 1>>] =
                                                turnOf[<<c, begun[c]>>]]
                    /\ try' = [try EXCEPT ![c] = 1]
               ELSE UNCHANGED <<begun, turnOf, try>>
      BY <2>1 DEF FinishFlush
    <3>1. begun' \in [Clients -> 0..MaxSegments] /\ try' \in [Clients -> 1..MaxTries]
      <4>1. CASE keep
        <5>1. begun[c] + 1 \in 0..MaxSegments
          BY <3>0, <4>1 DEF TypeOK
        <5>2. begun' = [begun EXCEPT ![c] = begun[c] + 1]
          BY <3>0, <4>1
        <5>3. begun' \in [Clients -> 0..MaxSegments]
          BY <5>1, <5>2 DEF TypeOK
        <5>4. try' \in [Clients -> 1..MaxTries]
          BY <3>0, <4>1 DEF TypeOK
        <5> QED
          BY <5>3, <5>4
      <4>2. CASE ~keep
        BY <3>0, <4>2 DEF TypeOK
      <4> QED
        BY <4>1, <4>2
    <3>a. active' \in [Clients -> BOOLEAN]
      BY <3>0 DEF TypeOK
    <3>2. turnOf' \in [Segments -> 0..MaxSegments]
      <4>1. <<c, begun[c]>> \in Segments
        <5>1. begun[c] > 0
          BY <2>1 DEF FreshInv, FinishFlush
        <5>2. begun[c] \in 1..MaxSegments
          BY <5>1 DEF TypeOK
        <5> QED
          BY <5>2 DEF Segments
      <4>2. turnOf[<<c, begun[c]>>] \in 0..MaxSegments
        BY <4>1 DEF TypeOK
      <4> QED
        BY <3>0, <4>2 DEF TypeOK
    <3> QED
      BY <2>1, <3>1, <3>a, <3>2 DEF TypeOK, FinishFlush, gateVars, workVars
  <2>2. CASE Disconnect(c) \/ Leave(c)
    BY <2>2 DEF TypeOK, Disconnect, Leave, gateVars, workVars
  <2> QED
    BY <1>5, <2>1, <2>2
<1>6. ASSUME NEW c \in Clients, CancelHandler(c)
      PROVE  TypeOK'
  <2>1. /\ session' \in [Clients -> {"new", "open", "closing", "gone"}]
        /\ active' \in [Clients -> BOOLEAN]
        /\ flush' \in [Clients -> {"capture", "writing", "announcing"}]
    BY <1>6 DEF TypeOK, CancelHandler
  <2>2. try' \in [Clients -> 1..MaxTries]
    BY <1>6 DEF TypeOK, CancelHandler, NextSpoolId
  <2>3. stage' \in [Utterances -> Stage]
    BY <1>6 DEF TypeOK, CancelHandler, Stage
  <2> QED
    BY <1>6, <2>1, <2>2, <2>3 DEF TypeOK, CancelHandler, gateVars, workVars
<1>7. ASSUME NEW u \in Utterances, WriterThread(u)
      PROVE  TypeOK'
  BY <1>7 DEF TypeOK, WriterThread, WriteRawTmp, WriteWavTmp, RenameRaw,
     RenameWav, ThreadEnds, handlerVars, gateVars, workVars, File
<1>8. ASSUME NEW u \in Utterances, Publish(u)
      PROVE  TypeOK'
  BY <1>8 DEF TypeOK, Publish, handlerVars, gateVars, Worker
<1>9. ASSUME NEW u \in Utterances, Refuse(u)
      PROVE  TypeOK'
  <2>1. PICK okRaw \in BOOLEAN, okWav \in BOOLEAN : Retain(u, okRaw, okWav)
    BY <1>9 DEF Refuse, MoveResults
  <2> QED
    BY <1>9, <2>1, FileResults DEF TypeOK, Refuse, Retain, Kept, handlerVars, gateVars, Worker
<1>10. ASSUME NEW u \in Utterances, NEW rawNow \in File, NEW wavNow \in File,
              NEW kept, Settle(u, rawNow, wavNow, kept)
       PROVE  /\ turnPending' \in [Keys -> Nat] /\ stage' \in [Utterances -> Stage]
              /\ raw' \in [Utterances -> File] /\ wav' \in [Utterances -> File]
  BY <1>10, KeyOfUtterance DEF TypeOK, Settle, Less, Stage, Unlinked, File
<1>11. ASSUME NEW u \in Utterances, Finish(u)
       PROVE  TypeOK'
  BY <1>11, <1>10 DEF TypeOK, Finish, handlerVars, gateVars, Worker
<1>12. ASSUME NEW u \in Utterances, RefuseSilently(u)
       PROVE  TypeOK'
  <2>1. PICK okRaw \in BOOLEAN, okWav \in BOOLEAN :
          /\ retained' = [retained EXCEPT ![u] = Kept(u, okRaw, okWav)]
          /\ Settle(u, Moved(raw[u], okRaw), Moved(wav[u], okWav),
                    Kept(u, okRaw, okWav))
    BY <1>12 DEF RefuseSilently, MoveResults
  <2>2. Moved(raw[u], okRaw) \in File /\ Moved(wav[u], okWav) \in File
    BY FileResults DEF TypeOK
  <2> QED
    BY <1>12, <2>1, <2>2, <1>10 DEF TypeOK, RefuseSilently, Kept, handlerVars, gateVars, Worker
<1>13. CASE OpenGate \/ ForwardNext
  <2>1. PICK u \in Utterances : queue' = Append(queue, u)
    BY <1>13 DEF OpenGate, ForwardNext, Oldest, pending_gate, At
  <2>2. queue' \in Seq(Utterances)
    BY <2>1, AppendProperties DEF TypeOK
  <2>3. stage' \in [Utterances -> Stage]
    BY <1>13 DEF TypeOK, OpenGate, ForwardNext, Stage
  <2> QED
    BY <1>13, <2>2, <2>3 DEF TypeOK, OpenGate, ForwardNext, handlerVars, workVars
<1>14. CASE Take
  BY <1>14 DEF TypeOK, Take, handlerVars, Stage, Worker
<1>15. CASE StopGate
  BY <1>15 DEF TypeOK, StopGate, handlerVars, gateVars, workVars, Life
<1>16. CASE StopWorker
  <2>1. CASE worker = "idle" /\ UNCHANGED <<stage, turnPending, retained, raw, wav>>
    BY <1>16, <2>1 DEF TypeOK, StopWorker, handlerVars, gateVars, Life, Worker
  <2>2. ASSUME NEW u \in At({"work"}), Settle(u, raw[u], wav[u], retained[u]),
               UNCHANGED retained
        PROVE  TypeOK'
    BY <1>16, <2>2, <1>10 DEF TypeOK, StopWorker, At, handlerVars, gateVars, Life, Worker
  <2>3. ASSUME NEW u \in At({"work"}), NEW okRaw \in BOOLEAN, NEW okWav \in BOOLEAN,
               retained' = [retained EXCEPT ![u] = Kept(u, okRaw, okWav)],
               Settle(u, Moved(raw[u], okRaw), Moved(wav[u], okWav),
                      Kept(u, okRaw, okWav))
        PROVE  TypeOK'
    <3>1. Moved(raw[u], okRaw) \in File /\ Moved(wav[u], okWav) \in File
      BY FileResults DEF TypeOK, At
    <3> QED
      BY <1>16, <2>3, <3>1, <1>10 DEF TypeOK, StopWorker, At, Kept, handlerVars, gateVars, Life, Worker
  <2> QED
    BY <1>16, <2>1, <2>2, <2>3 DEF StopWorker, MoveResults
<1>17. ASSUME NEW S \in SUBSET Utterances, NEW okRaw, NEW okWav,
              RetainAll(S, okRaw, okWav)
       PROVE  /\ raw' \in [Utterances -> File] /\ wav' \in [Utterances -> File]
              /\ retained' \in [Utterances -> BOOLEAN]
              /\ stage' \in [Utterances -> Stage]
  BY <1>17 DEF TypeOK, RetainAll, Kept, Moved, File, Stage
<1>18. CASE DrainQueue
  <2>1. /\ raw' \in [Utterances -> File] /\ wav' \in [Utterances -> File]
        /\ retained' \in [Utterances -> BOOLEAN]
        /\ stage' \in [Utterances -> Stage]
    BY <1>18, <1>17 DEF DrainQueue, At
  <2>2. turnPending' \in [Keys -> Nat]
    <3>1. \A k \in Keys : Cardinality({u \in At({"queue"}) : KeyOf(u) = k}) \in Nat
      BY UtterancesFinite, FS_Subset, FS_CardinalityType DEF At
    <3> DEFINE waiting(k) == Cardinality({u \in At({"queue"}) : KeyOf(u) = k})
               left(k) == IF turnPending[k] > waiting(k)
                          THEN turnPending[k] - waiting(k) ELSE 0
    <3>2. turnPending' = [k \in Keys |-> left(k)]
      BY <1>18 DEF DrainQueue
    <3>3. ASSUME NEW k \in Keys PROVE left(k) \in Nat
      <4>1. waiting(k) \in Nat /\ turnPending[k] \in Nat
        BY <3>1, <3>3 DEF TypeOK
      <4> HIDE DEF waiting
      <4> QED
        BY <4>1
    <3> HIDE DEF left
    <3> QED
      BY <3>2, <3>3
  <2>3. queue' \in Seq(Utterances)
    BY <1>18, EmptySeq DEF DrainQueue
  <2> QED
    BY <1>18, <2>1, <2>2, <2>3 DEF TypeOK, DrainQueue, handlerVars, Life
<1>19. CASE SweepGate
  BY <1>19, <1>17 DEF TypeOK, SweepGate, pending_gate, At, handlerVars, gateVars, Life
<1>20. CASE Exit \/ Crash
  <2>1. LoseMemory /\ life' \in Life
    BY <1>20 DEF Exit, Crash, Life
  <2>2. /\ session' \in [Clients -> {"new", "open", "closing", "gone"}]
        /\ flush' \in [Clients -> {"capture", "writing", "announcing"}]
        /\ active' \in [Clients -> BOOLEAN] /\ try' \in [Clients -> 1..MaxTries]
    BY <2>1 DEF TypeOK, LoseMemory
  <2>3. /\ stage' \in [Utterances -> Stage] /\ retained' \in [Utterances -> BOOLEAN]
        /\ received' \in [Utterances -> Nat] /\ turnPending' \in [Keys -> Nat]
    BY <2>1 DEF TypeOK, LoseMemory, Stage
  <2>4. queue' \in Seq(Utterances) /\ threads' \in SUBSET Utterances /\ clock' \in Nat
    BY <2>1, EmptySeq DEF LoseMemory
  <2> QED
    BY <2>1, <2>2, <2>3, <2>4 DEF TypeOK, LoseMemory, Worker
<1>21. CASE Restart
  BY <1>21 DEF TypeOK, Restart, handlerVars, gateVars, Life, Worker, File
<1>22. CASE UNCHANGED vars
  BY <1>22 DEF TypeOK, vars, handlerVars, gateVars, workVars
<1> QED
  BY <1>1, <1>2, <1>3, <1>4, <1>5, <1>6, <1>7, <1>8, <1>9, <1>11, <1>12, <1>13,
     <1>14, <1>15, <1>16, <1>18, <1>19, <1>20, <1>21, <1>22
     DEF Next, Handler, WorkOn
-----------------------------------------------------------------------------
(* QueueInv: the queue holds exactly utterances of stage "queue", once.    *)

\* A step that leaves the queue alone and takes no utterance out of its stage.
LEMMA QueueFrame ==
  ASSUME TypeOK, QueueInv, queue' = queue,
         \A u \in Utterances : stage[u] = "queue" => stage'[u] = "queue"
  PROVE  QueueInv'
<1>1. \A i \in 1..Len(queue) : queue[i] \in Utterances
  BY DEF TypeOK
<1> QED
  BY <1>1 DEF QueueInv

\* A put of an utterance that was not waiting.
LEMMA QueuePut ==
  ASSUME TypeOK, QueueInv, NEW u \in Utterances, stage[u] # "queue",
         queue' = Append(queue, u), stage'[u] = "queue",
         \A v \in Utterances : stage[v] = "queue" => stage'[v] = "queue"
  PROVE  QueueInv'
<1>1. queue \in Seq(Utterances) /\ Len(queue) \in Nat
  BY LenProperties DEF TypeOK
<1>2. /\ Len(queue') = Len(queue) + 1 /\ queue'[Len(queue) + 1] = u
      /\ \A i \in 1..Len(queue) : queue'[i] = queue[i]
  BY <1>1, AppendProperties
<1>3. \A i \in 1..Len(queue) :
        queue[i] \in Utterances /\ stage[queue[i]] = "queue"
  BY <1>1 DEF QueueInv
<1>4. \A i \in 1..Len(queue') : stage'[queue'[i]] = "queue"
  BY <1>1, <1>2, <1>3
<1>5. \A i, j \in 1..Len(queue') : queue'[i] = queue'[j] => i = j
  BY <1>1, <1>2, <1>3 DEF QueueInv
<1> QED
  BY <1>4, <1>5 DEF QueueInv

\* What the handler of c is writing or about to write is in stage none or writing.
LEMMA FlushingStage ==
  ASSUME TypeOK, FreshInv, NEW c \in Clients
  PROVE  /\ active[c] /\ flush[c] = "capture" =>
              Flushing(c) \in Utterances /\ stage[Flushing(c)] = "none"
         /\ flush[c] = "writing" =>
              Flushing(c) \in Utterances /\ stage[Flushing(c)] = "writing"
<1>1. CASE active[c] /\ flush[c] = "capture"
  <2>1. Flushing(c) \in Utterances /\ Flushing(c)[1] = c
    BY <1>1, FlushingIsUtterance DEF FreshInv
  <2> QED
    BY <1>1, <2>1 DEF FreshInv, Unused
<1>2. CASE flush[c] = "writing"
  BY <1>2, FlushingIsUtterance DEF FreshInv
<1> QED
  BY <1>1, <1>2

\* What is in the queue is an utterance of that stage; get() removes the head.
LEMMA QueueGet ==
  ASSUME TypeOK, QueueInv, queue # <<>>
  PROVE  /\ Head(queue) \in Utterances /\ stage[Head(queue)] = "queue"
         /\ Tail(queue) \in Seq(Utterances)
         /\ Len(Tail(queue)) = Len(queue) - 1 /\ Len(queue) \in Nat \ {0}
         /\ \A i \in 1..Len(Tail(queue)) :
              Tail(queue)[i] = queue[i + 1] /\ queue[i + 1] # Head(queue)
<1>1. queue \in Seq(Utterances) /\ Len(queue) \in Nat \ {0}
  BY EmptySeq, LenProperties DEF TypeOK
<1>2. Head(queue) = queue[1] /\ queue[1] \in Utterances /\ stage[queue[1]] = "queue"
  BY <1>1 DEF QueueInv
<1>3. /\ Tail(queue) \in Seq(Utterances) /\ Len(Tail(queue)) = Len(queue) - 1
      /\ \A i \in 1..Len(Tail(queue)) : Tail(queue)[i] = queue[i + 1]
  BY <1>1, HeadTailProperties
<1>4. \A i \in 1..Len(Tail(queue)) : queue[i + 1] # queue[1]
  BY <1>1, <1>3 DEF QueueInv
<1> QED
  BY <1>1, <1>2, <1>3, <1>4

LEMMA QueueStep ==
  ASSUME TypeOK, QueueInv, FreshInv, [Next]_vars
  PROVE  QueueInv'
<1>1. ASSUME NEW c \in Clients,
             \/ Connect(c) \/ Begin(c) \/ DropShort(c) \/ StorageExhausted(c)
             \/ FinishFlush(c) \/ Disconnect(c) \/ Leave(c)
      PROVE  QueueInv'
  BY <1>1, QueueFrame DEF Connect, Begin, DropShort, StorageExhausted, FinishFlush,
     Disconnect, Leave, gateVars
<1>2. ASSUME NEW c \in Clients, StartFlush(c) \/ WriteRaises(c) \/ CancelHandler(c)
      PROVE  QueueInv'
  <2>1. queue' = queue
    BY <1>2 DEF StartFlush, WriteRaises, CancelHandler, gateVars
  <2>2. \A u \in Utterances : stage[u] = "queue" => stage'[u] = "queue"
    BY <1>2, FlushingStage DEF TypeOK, StartFlush, WriteRaises, CancelHandler
  <2> QED
    BY <2>1, <2>2, QueueFrame
<1>3. ASSUME NEW c \in Clients, Submit(c)
      PROVE  QueueInv'
  <2>1. Flushing(c) \in Utterances /\ stage[Flushing(c)] = "writing"
    BY <1>3, FlushingStage DEF Submit
  <2>2. CASE queue' = queue /\ stage' = [stage EXCEPT ![Flushing(c)] = "gate"]
    BY <2>1, <2>2, QueueFrame DEF TypeOK
  <2>3. CASE /\ queue' = Append(queue, Flushing(c))
             /\ stage' = [stage EXCEPT ![Flushing(c)] = "queue"]
    BY <2>1, <2>3, QueuePut DEF TypeOK
  <2> QED
    BY <1>3, <2>2, <2>3 DEF Submit
<1>4. ASSUME NEW u \in Utterances, WriterThread(u) \/ Publish(u) \/ Refuse(u)
      PROVE  QueueInv'
  BY <1>4, QueueFrame DEF WriterThread, WriteRawTmp, WriteWavTmp, RenameRaw,
     RenameWav, ThreadEnds, Publish, Refuse, gateVars
<1>5. ASSUME NEW u \in Utterances, Finish(u) \/ RefuseSilently(u)
      PROVE  QueueInv'
  <2>1. queue' = queue /\ stage[u] = "work" /\ stage' = [stage EXCEPT ![u] = "settled"]
    BY <1>5 DEF Finish, RefuseSilently, Settle, gateVars
  <2> QED
    BY <2>1, QueueFrame DEF TypeOK
<1>6. CASE OpenGate
  <2>1. PICK seed \in Utterances :
          /\ stage[seed] = "gate" /\ queue' = Append(queue, seed)
          /\ stage'[seed] = "queue"
          /\ \A v \in Utterances : stage[v] = "queue" => stage'[v] = "queue"
    BY <1>6 DEF OpenGate, Oldest, pending_gate, At
  <2> QED
    BY <2>1, QueuePut
<1>7. CASE ForwardNext
  <2>1. PICK u \in Utterances :
          /\ stage[u] = "group" /\ queue' = Append(queue, u)
          /\ stage' = [stage EXCEPT ![u] = "queue"]
    BY <1>7 DEF ForwardNext, Oldest, At
  <2> QED
    BY <2>1, QueuePut DEF TypeOK
<1>8. CASE Take
  <2>1. queue # <<>> /\ queue' = Tail(queue) /\ stage' = [stage EXCEPT ![Head(queue)] = "work"]
    BY <1>8 DEF Take
  <2>2. \A i \in 1..Len(Tail(queue)) :
          /\ i + 1 \in 1..Len(queue) /\ Tail(queue)[i] = queue[i + 1]
          /\ queue[i + 1] # Head(queue)
    BY <2>1, QueueGet
  <2>3. \A i \in 1..Len(queue) : queue[i] \in Utterances
    BY DEF TypeOK
  <2>4. \A i \in 1..Len(Tail(queue)) : stage'[Tail(queue)[i]] = "queue"
    BY <2>1, <2>2, <2>3 DEF QueueInv, TypeOK
  <2>5. \A i, j \in 1..Len(Tail(queue)) : Tail(queue)[i] = Tail(queue)[j] => i = j
    BY <2>2 DEF QueueInv
  <2> QED
    BY <2>1, <2>4, <2>5 DEF QueueInv
<1>9. CASE StopWorker
  <2>1. queue' = queue
    BY <1>9 DEF StopWorker, gateVars
  <2>2. \A u \in Utterances : stage[u] = "queue" => stage'[u] = "queue"
    BY <1>9 DEF StopWorker, Settle, At, TypeOK
  <2> QED
    BY <2>1, <2>2, QueueFrame
<1>10. CASE DrainQueue \/ Exit \/ Crash
  <2>1. queue' = <<>>
    BY <1>10 DEF DrainQueue, Exit, Crash, LoseMemory
  <2> QED
    BY <2>1 DEF QueueInv
<1>11. CASE SweepGate
  <2>1. queue' = queue
    BY <1>11 DEF SweepGate, gateVars
  <2>2. \A u \in Utterances : stage[u] = "queue" => stage'[u] = "queue"
    BY <1>11 DEF SweepGate, RetainAll, pending_gate, At, TypeOK
  <2> QED
    BY <2>1, <2>2, QueueFrame
<1>12. CASE StopGate \/ Restart \/ UNCHANGED vars
  BY <1>12, QueueFrame DEF StopGate, Restart, vars, gateVars
<1> QED
  BY <1>1, <1>2, <1>3, <1>4, <1>5, <1>6, <1>7, <1>8, <1>9, <1>10, <1>11, <1>12
     DEF Next, Handler, WorkOn
-----------------------------------------------------------------------------
(* WorkInv: the worker holds at most one utterance.                        *)

\* A step of a running process that gives the worker nothing, unless it is idle.
LEMMA WorkFrame ==
  ASSUME WorkInv, life' \in Up,
         \A u \in Utterances : stage'[u] = "work" => stage[u] = "work",
         worker' = worker \/ worker' \notin {"idle", "stopped"}
  PROVE  WorkInv'
<1>1. At({"work"})' \subseteq At({"work"})
  BY DEF At
<1> QED
  BY <1>1 DEF WorkInv, Up

\* A step that settles the utterance the worker holds.
LEMMA WorkDone ==
  ASSUME TypeOK, WorkInv, life' \in Up, NEW u \in Utterances, stage[u] = "work",
         stage' = [stage EXCEPT ![u] = "settled"]
  PROVE  WorkInv'
<1>1. At({"work"})' = {}
  BY DEF At, WorkInv, TypeOK
<1> QED
  BY <1>1 DEF WorkInv, Up

LEMMA WorkStep ==
  ASSUME TypeOK, QueueInv, WorkInv, FreshInv, [Next]_vars
  PROVE  WorkInv'
<1>1. ASSUME NEW c \in Clients,
             \/ Connect(c) \/ Begin(c) \/ DropShort(c) \/ StorageExhausted(c)
             \/ FinishFlush(c) \/ Disconnect(c) \/ Leave(c)
      PROVE  WorkInv'
  <2>1. life' \in Up /\ worker' = worker /\ stage' = stage
    BY <1>1 DEF Connect, Begin, DropShort, StorageExhausted, FinishFlush,
       Disconnect, Leave, workVars, Up
  <2> QED
    BY <2>1, WorkFrame
<1>2. ASSUME NEW c \in Clients,
             StartFlush(c) \/ WriteRaises(c) \/ Submit(c) \/ CancelHandler(c)
      PROVE  WorkInv'
  <2>1. life' \in Up /\ worker' = worker
    BY <1>2 DEF StartFlush, WriteRaises, Submit, CancelHandler, workVars
  <2>2. \A u \in Utterances : stage'[u] = "work" => stage[u] = "work"
    BY <1>2 DEF TypeOK, StartFlush, WriteRaises, Submit, CancelHandler
  <2> QED
    BY <2>1, <2>2, WorkFrame
<1>3. ASSUME NEW u \in Utterances, WriterThread(u) \/ Publish(u) \/ Refuse(u)
      PROVE  WorkInv'
  <2>1. stage' = stage /\ life' \in Up
    BY <1>3 DEF WriterThread, WriteRawTmp, WriteWavTmp, RenameRaw, RenameWav,
       ThreadEnds, Publish, Refuse
  <2>2. worker' = worker \/ worker' \notin {"idle", "stopped"}
    BY <1>3 DEF WriterThread, WriteRawTmp, WriteWavTmp, RenameRaw, RenameWav,
       ThreadEnds, Publish, Refuse, workVars
  <2> QED
    BY <2>1, <2>2, WorkFrame
<1>4. ASSUME NEW u \in Utterances, Finish(u) \/ RefuseSilently(u)
      PROVE  WorkInv'
  BY <1>4, WorkDone DEF Finish, RefuseSilently, Settle
<1>5. CASE OpenGate \/ ForwardNext
  <2>1. life' \in Up /\ worker' = worker
    BY <1>5 DEF OpenGate, ForwardNext, workVars, Up
  <2>2. \A u \in Utterances : stage'[u] = "work" => stage[u] = "work"
    BY <1>5 DEF TypeOK, OpenGate, ForwardNext
  <2> QED
    BY <2>1, <2>2, WorkFrame
<1>6. CASE Take
  <2>1. Head(queue) \in Utterances
    BY <1>6, QueueGet DEF Take
  <2>2. At({"work"})' = {Head(queue)}
    BY <1>6, <2>1 DEF Take, At, TypeOK, WorkInv
  <2> QED
    BY <1>6, <2>2 DEF Take, WorkInv
<1>7. CASE StopGate
  BY <1>7, WorkFrame DEF StopGate, workVars, Up
<1>8. CASE StopWorker
  <2>1. life' \in Up
    BY <1>8 DEF StopWorker, Up
  <2>2. CASE worker = "idle" /\ stage' = stage
    BY <1>8, <2>1, <2>2 DEF StopWorker, WorkInv, At, Up
  <2>3. ASSUME NEW u \in At({"work"}), stage' = [stage EXCEPT ![u] = "settled"]
        PROVE  WorkInv'
    BY <2>1, <2>3, WorkDone DEF At
  <2> QED
    BY <1>8, <2>2, <2>3 DEF StopWorker, Settle
<1>9. CASE DrainQueue \/ SweepGate
  <2>1. life' \in Up /\ worker' = worker
    BY <1>9 DEF DrainQueue, SweepGate, Up
  <2>2. \A u \in Utterances : stage'[u] = "work" => stage[u] = "work"
    BY <1>9 DEF DrainQueue, SweepGate, RetainAll
  <2> QED
    BY <2>1, <2>2, WorkFrame
<1>10. CASE Exit \/ Crash
  <2>1. worker' = "stopped" /\ At({"gate", "group", "queue", "work"})' = {}
    BY <1>10 DEF Exit, Crash, LoseMemory, At
  <2> QED
    BY <2>1 DEF WorkInv, At
<1>11. CASE Restart
  <2>1. At({"work"})' = {} /\ life' = "running"
    BY <1>11 DEF Restart, WorkInv, At
  <2> QED
    BY <2>1 DEF WorkInv
<1>12. CASE UNCHANGED vars
  BY <1>12 DEF vars, workVars, WorkInv, At
<1> QED
  BY <1>1, <1>2, <1>3, <1>4, <1>5, <1>6, <1>7, <1>8, <1>9, <1>10, <1>11, <1>12
     DEF Next, Handler, WorkOn
-----------------------------------------------------------------------------
(* FreshInv: every spool id is used once.                                  *)

\* A step of anything but the handlers and the end of the process.
LEMMA FreshFrame ==
  ASSUME TypeOK, FreshInv,
         flush' = flush, active' = active, begun' = begun, try' = try,
         turnOf' = turnOf,
         \A u \in Utterances :
           stage[u] \in {"none", "writing"} => stage'[u] = stage[u]
  PROVE  FreshInv'
<1>1. \A u \in Utterances : Unused(u)' => stage'[u] = "none"
  BY DEF FreshInv, Unused, Flushing
<1>2. ASSUME NEW c \in Clients, flush[c] = "writing"
      PROVE  active[c] /\ stage'[Flushing(c)] = "writing"
  BY <1>2, FlushingStage DEF FreshInv
<1> QED
  BY <1>1, <1>2 DEF FreshInv, Flushing

\* An utterance is its three components.
LEMMA UtteranceTuple ==
  ASSUME NEW u \in Utterances
  PROVE  /\ u = <<u[1], u[2], u[3]>> /\ u[1] \in Clients
         /\ u[2] \in 1..MaxSegments /\ u[3] \in 1..MaxTries
  BY DEF Utterances

\* The sessions other than c keep what FreshInv says of them.
LEMMA FreshOthers ==
  ASSUME TypeOK, FreshInv, NEW c \in Clients,
         \A d \in Clients \ {c} :
           /\ flush'[d] = flush[d] /\ active'[d] = active[d]
           /\ begun'[d] = begun[d] /\ try'[d] = try[d]
           /\ \A n \in 1..begun[d] : turnOf'[<<d, n>>] = turnOf[<<d, n>>],
         \A u \in Utterances : u[1] # c => stage'[u] = stage[u],
         \A u \in Utterances : u[1] = c /\ Unused(u)' => stage'[u] = "none",
         flush'[c] = "writing" =>
           active'[c] /\ stage'[Flushing(c)'] = "writing",
         active'[c] \/ flush'[c] # "capture" => begun'[c] > 0,
         \A n \in 1..begun'[c] : turnOf'[<<c, n>>] \in 1..n
  PROVE  FreshInv'
<1>1. ASSUME NEW u \in Utterances, Unused(u)'
      PROVE  stage'[u] = "none"
  <2>1. CASE u[1] = c
    BY <1>1, <2>1
  <2>2. CASE u[1] # c
    BY <1>1, <2>2, UtteranceTuple DEF FreshInv, Unused, Flushing
  <2> QED
    BY <2>1, <2>2
<1>2. ASSUME NEW d \in Clients \ {c}, flush'[d] = "writing"
      PROVE  active'[d] /\ stage'[Flushing(d)'] = "writing"
  <2>1. Flushing(d)' = Flushing(d) /\ flush[d] = "writing"
    BY <1>2 DEF Flushing
  <2>2. Flushing(d) \in Utterances /\ stage[Flushing(d)] = "writing"
    BY <2>1, FlushingStage
  <2> QED
    BY <1>2, <2>1, <2>2 DEF FreshInv, Flushing
<1> QED
  BY <1>1, <1>2 DEF FreshInv

\* One segment further: begun[c] = n, with a spool id not used yet.
LEMMA FreshNext ==
  ASSUME TypeOK, FreshInv, NEW c \in Clients, NEW turn \in 1..(begun[c] + 1),
         begun[c] < MaxSegments,
         begun' = [begun EXCEPT ![c] = begun[c] + 1],
         turnOf' = [turnOf EXCEPT ![<<c, begun[c] + 1>>] = turn],
         active' = [active EXCEPT ![c] = TRUE],
         try' = [try EXCEPT ![c] = 1],
         flush' = [flush EXCEPT ![c] = "capture"], stage' = stage
  PROVE  FreshInv'
<1>1. begun[c] \in Nat /\ begun'[c] = begun[c] + 1 /\ <<c, begun[c] + 1>> \in Segments
  BY PipelineAssumption DEF TypeOK, Segments
<1>2. \A d \in Clients \ {c} :
        /\ flush'[d] = flush[d] /\ active'[d] = active[d]
        /\ begun'[d] = begun[d] /\ try'[d] = try[d]
        /\ \A n \in 1..begun[d] : turnOf'[<<d, n>>] = turnOf[<<d, n>>]
  BY DEF TypeOK
<1>3. ASSUME NEW u \in Utterances, u[1] = c, Unused(u)'
      PROVE  stage'[u] = "none"
  <2>1. u[2] > begun[c]
    <3>1. \/ u[2] > begun'[c] \/ u[2] = begun'[c]
          \/ u = <<c, begun'[c], try'[c]>>
      BY <1>3 DEF Unused, Flushing
    <3>2. u[2] \in Nat
      BY UtteranceTuple
    <3> QED
      BY <1>1, <3>1, <3>2
  <2> QED
    BY <1>3, <2>1 DEF FreshInv, Unused
<1>4. \A n \in 1..begun'[c] : turnOf'[<<c, n>>] \in 1..n
  <2>1. TAKE n \in 1..begun'[c]
  <2>2. CASE n = begun[c] + 1
    BY <1>1, <2>2 DEF TypeOK
  <2>3. CASE n # begun[c] + 1
    <3>1. n \in 1..begun[c] /\ turnOf'[<<c, n>>] = turnOf[<<c, n>>]
      BY <1>1, <2>3 DEF TypeOK, Segments
    <3> QED
      BY <3>1 DEF FreshInv
  <2> QED
    BY <2>2, <2>3
<1>5. flush'[c] = "capture" /\ begun'[c] > 0
  BY <1>1 DEF TypeOK
<1> QED
  BY <1>2, <1>3, <1>4, <1>5, FreshOthers

\* The handler leaves the capture state as it was but for c's flush, activity,
\* spool id and the stage of what it was writing.
LEMMA FreshSame ==
  ASSUME TypeOK, FreshInv, NEW c \in Clients,
         NEW f \in {"capture", "writing", "announcing"}, NEW a \in BOOLEAN,
         NEW t \in 1..MaxTries,
         flush' = [flush EXCEPT ![c] = f], active' = [active EXCEPT ![c] = a],
         try' = [try EXCEPT ![c] = t], UNCHANGED <<begun, turnOf>>,
         \A u \in Utterances : u # Flushing(c) => stage'[u] = stage[u],
         a => active[c],
         f # "capture" => a /\ t = try[c] /\ stage'[Flushing(c)] # "none",
         f = "writing" => stage'[Flushing(c)] = "writing",
         a /\ f = "capture" => \/ t = try[c] + 1
                               \/ t = try[c] /\ flush[c] = "capture" /\ stage' = stage,
         stage' # stage => active[c]
  PROVE  FreshInv'
<1>1. /\ flush'[c] = f /\ active'[c] = a /\ try'[c] = t /\ begun'[c] = begun[c]
      /\ begun[c] \in Nat /\ try[c] \in Nat
  BY PipelineAssumption DEF TypeOK
<1>2. \A d \in Clients \ {c} :
        /\ flush'[d] = flush[d] /\ active'[d] = active[d]
        /\ begun'[d] = begun[d] /\ try'[d] = try[d]
        /\ \A n \in 1..begun[d] : turnOf'[<<d, n>>] = turnOf[<<d, n>>]
  BY DEF TypeOK
<1>3. ASSUME NEW u \in Utterances, u[1] = c, Unused(u)'
      PROVE  stage'[u] = "none"
  <2>1. CASE u[2] > begun[c]
    <3>1. u # Flushing(c)
      BY <1>1, <2>1 DEF Flushing
    <3> QED
      BY <1>3, <2>1, <3>1 DEF FreshInv, Unused
  <2>2. CASE u[2] = begun[c] /\ a /\ u[3] > t
    <3>1. u # Flushing(c) /\ u[3] > try[c]
      BY <1>1, <2>2, UtteranceTuple DEF Flushing
    <3> QED
      BY <1>3, <2>2, <3>1 DEF FreshInv, Unused
  <2>3. CASE u = <<c, begun[c], t>> /\ a /\ f = "capture"
    <3>1. CASE t = try[c] + 1
      <4>1. u # Flushing(c) /\ u[2] = begun[c] /\ u[3] > try[c]
        BY <1>1, <2>3, <3>1 DEF Flushing
      <4> QED
        BY <1>3, <2>3, <4>1 DEF FreshInv, Unused
    <3>2. CASE t = try[c] /\ flush[c] = "capture" /\ stage' = stage
      BY <1>3, <2>3, <3>2 DEF FreshInv, Unused, Flushing
    <3> QED
      BY <2>3, <3>1, <3>2
  <2> QED
    BY <1>1, <1>3, <2>1, <2>2, <2>3 DEF Unused, Flushing
<1>4. flush'[c] = "writing" => active'[c] /\ stage'[Flushing(c)'] = "writing"
  BY <1>1 DEF Flushing
<1>5. active'[c] \/ flush'[c] # "capture" => begun'[c] > 0
  BY <1>1 DEF FreshInv
<1>6. \A u \in Utterances : u[1] # c => stage'[u] = stage[u]
  BY DEF Flushing
<1> QED
  BY <1>1, <1>2, <1>3, <1>4, <1>5, <1>6, FreshOthers DEF FreshInv

LEMMA FreshStep ==
  ASSUME TypeOK, QueueInv, FreshInv, [Next]_vars
  PROVE  FreshInv'
<1>1. ASSUME NEW c \in Clients, Connect(c) \/ Disconnect(c) \/ Leave(c)
      PROVE  FreshInv'
  BY <1>1, FreshFrame DEF Connect, Disconnect, Leave
<1>2. ASSUME NEW c \in Clients, Begin(c)
      PROVE  FreshInv'
  <2> DEFINE n == begun[c] + 1
             previous == IF n = 1 THEN 0 ELSE turnOf[<<c, n - 1>>]
  <2>1. begun[c] \in Nat /\ begun[c] < MaxSegments
    BY <1>2, PipelineAssumption DEF TypeOK, Begin
  <2>2. previous \in 0..begun[c]
    <3>1. CASE n = 1
      BY <3>1, <2>1
    <3>2. CASE n # 1
      BY <3>2, <2>1 DEF FreshInv
    <3> QED
      BY <3>1, <3>2
  <2>3. PICK fresh \in {0, 1} :
          /\ previous = 0 => fresh = 1
          /\ turnOf' = [turnOf EXCEPT ![<<c, n>>] = previous + fresh]
          /\ begun' = [begun EXCEPT ![c] = n]
    BY <1>2 DEF Begin
  <2>4. previous + fresh \in 1..(begun[c] + 1)
    BY <2>1, <2>2, <2>3
  <2>5. flush' = [flush EXCEPT ![c] = "capture"] /\ stage' = stage
    BY <1>2 DEF Begin, TypeOK
  <2> HIDE DEF previous
  <2> QED
    BY <1>2, <2>1, <2>3, <2>4, <2>5, FreshNext DEF Begin
<1>3. ASSUME NEW c \in Clients, DropShort(c)
      PROVE  FreshInv'
  <2>1. /\ flush' = [flush EXCEPT ![c] = "capture"] /\ try' = [try EXCEPT ![c] = try[c]]
        /\ try[c] \in 1..MaxTries
    BY <1>3 DEF DropShort, TypeOK
  <2> QED
    BY <1>3, <2>1, FreshSame DEF DropShort
<1>4. ASSUME NEW c \in Clients, StorageExhausted(c)
      PROVE  FreshInv'
  <2>1. try' = [try EXCEPT ![c] = try[c]] /\ try[c] \in 1..MaxTries
    BY <1>4 DEF StorageExhausted, TypeOK
  <2> QED
    BY <1>4, <2>1, FreshSame DEF StorageExhausted, FlushRaised
<1>5. ASSUME NEW c \in Clients, StartFlush(c)
      PROVE  FreshInv'
  <2>1. /\ try' = [try EXCEPT ![c] = try[c]] /\ try[c] \in 1..MaxTries
        /\ active' = [active EXCEPT ![c] = TRUE]
        /\ Flushing(c) \in Utterances
    BY <1>5, FlushingStage DEF StartFlush, TypeOK
  <2>2. stage' = [stage EXCEPT ![Flushing(c)] = "writing"]
    BY <1>5 DEF StartFlush
  <2>3. /\ \A u \in Utterances : u # Flushing(c) => stage'[u] = stage[u]
        /\ stage'[Flushing(c)] = "writing"
    BY <2>1, <2>2 DEF TypeOK
  <2> QED
    BY <1>5, <2>1, <2>3, FreshSame DEF StartFlush
<1>6. ASSUME NEW c \in Clients, WriteRaises(c)
      PROVE  FreshInv'
  <2> DEFINE a == session[c] = "open"
             t == NextSpoolId(try[c])
  <2>1. /\ flush' = [flush EXCEPT ![c] = "capture"] /\ active' = [active EXCEPT ![c] = a]
        /\ active[c] /\ UNCHANGED <<begun, turnOf>>
        /\ stage' = [stage EXCEPT ![Flushing(c)] = "abandoned"]
    BY <1>6 DEF WriteRaises, FlushRaised, FreshInv
  <2>4. try' = [try EXCEPT ![c] = t]
    BY <1>6 DEF WriteRaises
  <2>5. t \in 1..MaxTries
    BY PipelineAssumption DEF TypeOK, NextSpoolId
  <2>2. ASSUME a
        PROVE  t = try[c] + 1
    <3>1. session'[c] # "gone"
      BY <1>6, <2>2 DEF WriteRaises, FlushRaised, TypeOK
    <3>2. try[c] # MaxTries
      BY <1>6, <3>1 DEF WriteRaises
    <3> QED
      BY <3>2, PipelineAssumption DEF TypeOK, NextSpoolId
  <2>3. \A u \in Utterances : u # Flushing(c) => stage'[u] = stage[u]
    BY <2>1 DEF TypeOK
  <2> HIDE DEF t
  <2> QED
    BY <2>1, <2>2, <2>3, <2>4, <2>5, FreshSame
<1>7. ASSUME NEW c \in Clients, Submit(c)
      PROVE  FreshInv'
  <2>1. /\ try' = [try EXCEPT ![c] = try[c]] /\ try[c] \in 1..MaxTries
        /\ active' = [active EXCEPT ![c] = TRUE] /\ active[c]
        /\ Flushing(c) \in Utterances
    BY <1>7, FlushingStage DEF Submit, TypeOK, FreshInv
  <2>2. PICK where \in {"queue", "gate"} : stage' = [stage EXCEPT ![Flushing(c)] = where]
    BY <1>7 DEF Submit
  <2>3. /\ \A u \in Utterances : u # Flushing(c) => stage'[u] = stage[u]
        /\ stage'[Flushing(c)] # "none"
    BY <2>1, <2>2 DEF TypeOK
  <2> QED
    BY <1>7, <2>1, <2>3, FreshSame DEF Submit
<1>8. ASSUME NEW c \in Clients, FinishFlush(c)
      PROVE  FreshInv'
  <2>0. PICK keep \in BOOLEAN :
          /\ keep => begun[c] < MaxSegments
          /\ active' = [active EXCEPT ![c] = keep]
          /\ IF keep
             THEN /\ begun' = [begun EXCEPT ![c] = @ + 1]
                  /\ turnOf' = [turnOf EXCEPT ![<<c, begun[c] + 1>>] =
                                              turnOf[<<c, begun[c]>>]]
                  /\ try' = [try EXCEPT ![c] = 1]
             ELSE UNCHANGED <<begun, turnOf, try>>
    BY <1>8 DEF FinishFlush
  <2>1. /\ flush' = [flush EXCEPT ![c] = "capture"] /\ stage' = stage
        /\ begun[c] \in Nat /\ begun[c] > 0
    BY <1>8, PipelineAssumption DEF FinishFlush, TypeOK, FreshInv
  <2>2. CASE keep
    <3>1. turnOf[<<c, begun[c]>>] \in 1..(begun[c] + 1)
      BY <2>1 DEF FreshInv
    <3> QED
      BY <2>0, <2>1, <2>2, <3>1, FreshNext
  <2>3. CASE ~keep
    <3>1. /\ try' = [try EXCEPT ![c] = try[c]] /\ try[c] \in 1..MaxTries
          /\ active' = [active EXCEPT ![c] = FALSE]
      BY <2>0, <2>3 DEF TypeOK
    <3> QED
      BY <2>0, <2>1, <2>3, <3>1, FreshSame
  <2> QED
    BY <2>2, <2>3
<1>9. ASSUME NEW c \in Clients, CancelHandler(c)
      PROVE  FreshInv'
  <2> DEFINE a == active[c] /\ session[c] = "open"
             t == IF flush[c] # "capture" THEN NextSpoolId(try[c]) ELSE try[c]
  <2>1. /\ flush' = [flush EXCEPT ![c] = "capture"] /\ active' = [active EXCEPT ![c] = a]
        /\ UNCHANGED <<begun, turnOf>> /\ a \in BOOLEAN
    BY <1>9 DEF CancelHandler, TypeOK
  <2>6. try' = [try EXCEPT ![c] = t]
    BY <1>9 DEF CancelHandler
  <2>7. t \in 1..MaxTries
    BY PipelineAssumption DEF TypeOK, NextSpoolId
  <2>2. /\ \A u \in Utterances : u # Flushing(c) => stage'[u] = stage[u]
        /\ flush[c] # "writing" => stage' = stage
    BY <1>9 DEF CancelHandler, TypeOK
  <2>3. a => t = try[c] + 1 \/ (t = try[c] /\ flush[c] = "capture")
    BY <1>9 DEF CancelHandler, TypeOK, NextSpoolId
  <2>4. stage' # stage => active[c]
    BY <2>2 DEF FreshInv
  <2>5. a => active[c]
    OBVIOUS
  <2> HIDE DEF t, a
  <2> QED
    BY <2>1, <2>2, <2>3, <2>4, <2>5, <2>6, <2>7, FreshSame
<1>10. ASSUME NEW u \in Utterances, WriterThread(u) \/ WorkOn(u)
       PROVE  FreshInv'
  <2>1. UNCHANGED handlerVars
    BY <1>10 DEF WriterThread, WriteRawTmp, WriteWavTmp, RenameRaw, RenameWav,
       ThreadEnds, WorkOn, Publish, Refuse, RefuseSilently, Finish
  <2>2. stage' = stage \/ (stage[u] = "work" /\ stage' = [stage EXCEPT ![u] = "settled"])
    BY <1>10 DEF WriterThread, WriteRawTmp, WriteWavTmp, RenameRaw, RenameWav,
       ThreadEnds, WorkOn, Publish, Refuse, RefuseSilently, Finish, Settle
  <2> QED
    BY <2>1, <2>2, FreshFrame DEF handlerVars, TypeOK
<1>11. CASE OpenGate \/ ForwardNext \/ Take
  <2>1. UNCHANGED handlerVars
    BY <1>11 DEF OpenGate, ForwardNext, Take
  <2>2. \A u \in Utterances :
          stage[u] \in {"none", "writing"} => stage'[u] = stage[u]
    <3>1. CASE OpenGate
      BY <3>1 DEF OpenGate, Oldest, pending_gate, At
    <3>2. CASE ForwardNext
      BY <3>2 DEF ForwardNext, Oldest, At, TypeOK
    <3>3. CASE Take
      BY <3>3, QueueGet DEF Take, TypeOK
    <3> QED
      BY <1>11, <3>1, <3>2, <3>3
  <2> QED
    BY <2>1, <2>2, FreshFrame DEF handlerVars
<1>12. CASE StopGate \/ StopWorker \/ DrainQueue \/ SweepGate \/ Restart
  <2>1. UNCHANGED handlerVars
    BY <1>12 DEF StopGate, StopWorker, DrainQueue, SweepGate, Restart
  <2>2. \A u \in Utterances :
          stage[u] \in {"none", "writing"} => stage'[u] = stage[u]
    BY <1>12 DEF StopGate, StopWorker, DrainQueue, SweepGate, Restart, RetainAll,
       Settle, pending_gate, At, TypeOK
  <2> QED
    BY <2>1, <2>2, FreshFrame DEF handlerVars
<1>13. CASE Exit \/ Crash
  <2>1. LoseMemory
    BY <1>13 DEF Exit, Crash
  <2>2. \A c \in Clients : ~active'[c] /\ flush'[c] = "capture"
    BY <2>1 DEF LoseMemory
  <2>3. ASSUME NEW u \in Utterances, Unused(u)'
        PROVE  stage'[u] = "none"
    <3>1. u[2] > begun[u[1]]
      BY <2>1, <2>2, <2>3, UtteranceTuple DEF LoseMemory, Unused
    <3>2. stage[u] = "none"
      BY <3>1 DEF FreshInv, Unused
    <3> QED
      BY <2>1, <3>2 DEF LoseMemory
  <2> QED
    BY <2>1, <2>2, <2>3 DEF FreshInv, LoseMemory
<1>14. CASE UNCHANGED vars
  BY <1>14, FreshFrame DEF vars, handlerVars
<1> QED
  BY <1>1, <1>2, <1>3, <1>4, <1>5, <1>6, <1>7, <1>8, <1>9, <1>10, <1>11, <1>12,
     <1>13, <1>14 DEF Next, Handler
-----------------------------------------------------------------------------
(* The structural part of PipelineInv holds in every behaviour.            *)

StructureInv == TypeOK /\ QueueInv /\ WorkInv /\ FreshInv

LEMMA StructureInit == Init => StructureInv
<1> SUFFICES ASSUME Init PROVE StructureInv
  OBVIOUS
<1>1. QueueInv /\ WorkInv
  BY EmptySeq DEF Init, QueueInv, WorkInv, At
<1>2. FreshInv
  BY DEF Init, FreshInv, Unused
<1> QED
  BY <1>1, <1>2, TypeInit DEF StructureInv

\* Every state of the pipeline is well typed, whatever the number of clients,
\* segments and spool ids and whatever fails.
THEOREM TypeCorrect == Spec => []TypeOK
<1>1. StructureInv /\ [Next]_vars => StructureInv'
  BY TypeStep, QueueStep, WorkStep, FreshStep DEF StructureInv
<1>2. StructureInv => TypeOK
  BY DEF StructureInv
<1> QED
  BY StructureInit, <1>1, <1>2, PTL DEF Spec

\* The queue, the worker and the spool ids: no utterance is queued twice, the
\* worker holds at most one, and no spool id is used for two flushes.
THEOREM StructureHolds == Spec => []StructureInv
<1>1. StructureInv /\ [Next]_vars => StructureInv'
  BY TypeStep, QueueStep, WorkStep, FreshStep DEF StructureInv
<1> QED
  BY StructureInit, <1>1, PTL DEF Spec
-----------------------------------------------------------------------------
(* turn_pending counts what is submitted and not settled.                  *)

Live == {"gate", "group", "queue", "work"}
Waiting(k) == {u \in At(Live) : KeyOf(u) = k}

\* PendingExact is kept by every step of a running process; a restart finds no
\* utterance in flight and no count left over.
PendingInv ==
  /\ PendingExact
  /\ life \in {"exited", "crashed"} => \A k \in Keys : turnPending[k] = 0

LEMMA WaitingFinite ==
  ASSUME NEW k
  PROVE  IsFiniteSet(Waiting(k)) /\ Cardinality(Waiting(k)) \in Nat
<1>1. Waiting(k) \subseteq Utterances
  BY DEF Waiting, At
<1> QED
  BY <1>1, UtterancesFinite, FS_Subset, FS_CardinalityType

\* What is in flight belongs to a segment its session has come to: continuing or
\* starting a turn for the next segment changes the key of none of them.
LEMMA LiveIsBegun ==
  ASSUME TypeOK, FreshInv, NEW u \in Utterances, stage[u] # "none"
  PROVE  u[1] \in Clients /\ u[2] \in 1..begun[u[1]] /\ SegmentOf(u) \in Segments
<1>1. ~(u[2] > begun[u[1]])
  BY DEF FreshInv, Unused
<1>2. u[1] \in Clients /\ u[2] \in 1..MaxSegments /\ begun[u[1]] \in Nat
  BY PipelineAssumption DEF Utterances, TypeOK
<1> QED
  BY <1>1, <1>2, PipelineAssumption DEF SegmentOf, Segments

\* A step that submits and settles nothing.
LEMMA PendingFrame ==
  ASSUME PendingInv, life = "running", life' = "running", turnPending' = turnPending,
         \A u \in Utterances : stage'[u] \in Live <=> stage[u] \in Live,
         \A u \in Utterances : stage[u] \in Live => KeyOf(u)' = KeyOf(u)
  PROVE  PendingInv'
<1>1. ASSUME NEW k \in Keys
      PROVE  turnPending'[k] = Cardinality(Waiting(k)')
  <2>1. Waiting(k)' = Waiting(k)
    BY DEF Waiting, At
  <2>2. turnPending[k] = Cardinality(Waiting(k))
    BY DEF PendingInv, PendingExact, Waiting, Live
  <2> QED
    BY <2>1, <2>2
<1> QED
  BY <1>1 DEF PendingInv, PendingExact, Waiting, Live

\* A step that submits u, which was not in flight.
LEMMA PendingMore ==
  ASSUME TypeOK, PendingInv, life = "running", life' = "running",
         NEW u \in Utterances, stage[u] \notin Live, stage'[u] \in Live,
         turnPending' = [turnPending EXCEPT ![KeyOf(u)] = @ + 1],
         \A v \in Utterances \ {u} : stage'[v] = stage[v],
         turnOf' = turnOf
  PROVE  PendingInv'
<1>1. ASSUME NEW k \in Keys
      PROVE  turnPending'[k] = Cardinality(Waiting(k)')
  <2>1. turnPending[k] = Cardinality(Waiting(k))
    BY DEF PendingInv, PendingExact, Waiting, Live
  <2>2. \A v \in Utterances : KeyOf(v)' = KeyOf(v)
    BY DEF KeyOf
  <2>3. CASE k = KeyOf(u)
    <3>1. Waiting(k)' = Waiting(k) \cup {u} /\ u \notin Waiting(k)
      BY <2>2, <2>3 DEF Waiting, At
    <3>2. Cardinality(Waiting(k)') = Cardinality(Waiting(k)) + 1
      BY <3>1, WaitingFinite, FS_AddElement
    <3>3. turnPending'[k] = turnPending[k] + 1
      BY <2>3 DEF TypeOK
    <3> QED
      BY <2>1, <3>2, <3>3
  <2>4. CASE k # KeyOf(u)
    <3>1. Waiting(k)' = Waiting(k)
      BY <2>2, <2>4 DEF Waiting, At
    <3>2. turnPending'[k] = turnPending[k]
      BY <2>4 DEF TypeOK
    <3> QED
      BY <2>1, <3>1, <3>2
  <2> QED
    BY <2>3, <2>4
<1> QED
  BY <1>1 DEF PendingInv, PendingExact, Waiting, Live

\* The worker's finally: u was counted, so the count is not 0 and goes down by one.
LEMMA PendingLess ==
  ASSUME TypeOK, PendingInv, life = "running", life' = "running",
         NEW u \in Utterances, stage[u] \in Live, stage'[u] \notin Live,
         turnPending' = [turnPending EXCEPT ![KeyOf(u)] = Less(@)],
         \A v \in Utterances \ {u} : stage'[v] = stage[v],
         turnOf' = turnOf
  PROVE  PendingInv'
<1>1. ASSUME NEW k \in Keys
      PROVE  turnPending'[k] = Cardinality(Waiting(k)')
  <2>1. turnPending[k] = Cardinality(Waiting(k)) /\ turnPending[k] \in Nat
    BY DEF PendingInv, PendingExact, Waiting, Live, TypeOK
  <2>2. \A v \in Utterances : KeyOf(v)' = KeyOf(v)
    BY DEF KeyOf
  <2>3. CASE k = KeyOf(u)
    <3>1. Waiting(k)' = Waiting(k) \ {u} /\ u \in Waiting(k)
      BY <2>2, <2>3 DEF Waiting, At
    <3>2. Cardinality(Waiting(k)') = Cardinality(Waiting(k)) - 1
      BY <3>1, WaitingFinite, FS_RemoveElement
    <3>3. Cardinality(Waiting(k)') \in Nat
      BY <3>1, WaitingFinite, FS_RemoveElement, FS_CardinalityType
    <3>4. turnPending'[k] = Less(turnPending[k])
      BY <2>3 DEF TypeOK
    <3> QED
      BY <2>1, <3>2, <3>3, <3>4 DEF Less
  <2>4. CASE k # KeyOf(u)
    <3>1. Waiting(k)' = Waiting(k)
      BY <2>2, <2>4 DEF Waiting, At
    <3>2. turnPending'[k] = turnPending[k]
      BY <2>4 DEF TypeOK
    <3> QED
      BY <2>1, <3>1, <3>2
  <2> QED
    BY <2>3, <2>4
<1> QED
  BY <1>1 DEF PendingInv, PendingExact, Waiting, Live

LEMMA PendingInit == Init => PendingInv
<1> SUFFICES ASSUME Init PROVE PendingInv
  OBVIOUS
<1>1. ASSUME NEW k \in Keys PROVE Waiting(k) = {}
  BY DEF Init, Waiting, At, Live
<1> QED
  BY <1>1, FS_EmptySet DEF Init, PendingInv, PendingExact, Waiting, Live

LEMMA PendingStep ==
  ASSUME StructureInv, PendingInv, [Next]_vars
  PROVE  PendingInv'
<1> USE DEF StructureInv
<1>0. ASSUME life' \notin {"running", "exited", "crashed"}
      PROVE  PendingInv'
  BY <1>0 DEF PendingInv, PendingExact
<1>1. ASSUME NEW c \in Clients,
             \/ Connect(c) \/ DropShort(c) \/ StorageExhausted(c)
             \/ Disconnect(c) \/ Leave(c)
      PROVE  PendingInv'
  <2>1. life' = life /\ life \in Up /\ UNCHANGED <<stage, turnOf, turnPending>>
    BY <1>1 DEF Connect, DropShort, StorageExhausted, Disconnect, Leave, Up
  <2> QED
    BY <1>0, <2>1, PendingFrame DEF Up, KeyOf
<1>2. ASSUME NEW c \in Clients, Begin(c) \/ FinishFlush(c)
      PROVE  PendingInv'
  <2>1. life' = life /\ life \in Up /\ UNCHANGED <<stage, turnPending>>
    BY <1>2 DEF Begin, FinishFlush
  <2>2. turnOf' = turnOf \/ \E t : turnOf' = [turnOf EXCEPT ![<<c, begun[c] + 1>>] = t]
    BY <1>2 DEF Begin, FinishFlush
  <2>3. ASSUME NEW u \in Utterances, stage[u] \in Live
        PROVE  KeyOf(u)' = KeyOf(u)
    <3>1. /\ u[1] \in Clients /\ u[2] \in 1..begun[u[1]] /\ begun[u[1]] \in Nat
          /\ SegmentOf(u) \in Segments
      BY <2>3, LiveIsBegun, PipelineAssumption DEF Live, TypeOK
    <3>2. SegmentOf(u) # <<c, begun[c] + 1>>
      BY <3>1 DEF SegmentOf
    <3>3. turnOf'[SegmentOf(u)] = turnOf[SegmentOf(u)]
      BY <2>2, <3>1, <3>2 DEF TypeOK
    <3> QED
      BY <3>3 DEF KeyOf, SegmentOf
  <2> QED
    BY <1>0, <2>1, <2>3, PendingFrame DEF Up
<1>3. ASSUME NEW c \in Clients, StartFlush(c) \/ WriteRaises(c)
      PROVE  PendingInv'
  <2>1. life' = life /\ life \in Up /\ UNCHANGED <<turnOf, turnPending>>
    BY <1>3 DEF StartFlush, WriteRaises
  <2>2. \A u \in Utterances : stage'[u] \in Live <=> stage[u] \in Live
    BY <1>3, FlushingStage DEF StartFlush, WriteRaises, Live, TypeOK
  <2> QED
    BY <1>0, <2>1, <2>2, PendingFrame DEF Up, KeyOf
<1>4. ASSUME NEW c \in Clients, Submit(c)
      PROVE  PendingInv'
  <2>1. Flushing(c) \in Utterances /\ stage[Flushing(c)] = "writing"
    BY <1>4, FlushingStage DEF Submit
  <2>2. /\ life' = life /\ life \in Up /\ turnOf' = turnOf
        /\ turnPending' = [turnPending EXCEPT ![KeyOf(Flushing(c))] = @ + 1]
    BY <1>4 DEF Submit
  <2>3. PICK where \in {"queue", "gate"} : stage' = [stage EXCEPT ![Flushing(c)] = where]
    BY <1>4 DEF Submit
  <2>4. /\ stage'[Flushing(c)] \in Live /\ stage[Flushing(c)] \notin Live
        /\ \A v \in Utterances \ {Flushing(c)} : stage'[v] = stage[v]
    BY <2>1, <2>3 DEF TypeOK, Live
  <2> QED
    BY <1>0, <2>1, <2>2, <2>4, PendingMore DEF Up
<1>5. ASSUME NEW c \in Clients, CancelHandler(c)
      PROVE  PendingInv'
  BY <1>5, <1>0 DEF CancelHandler, Up
<1>6. ASSUME NEW u \in Utterances, WriterThread(u) \/ Publish(u) \/ Refuse(u)
      PROVE  PendingInv'
  <2>1. life' = life /\ life \in Up /\ UNCHANGED <<stage, turnOf, turnPending>>
    BY <1>6 DEF WriterThread, WriteRawTmp, WriteWavTmp, RenameRaw, RenameWav,
       ThreadEnds, Publish, Refuse, handlerVars
  <2> QED
    BY <1>0, <2>1, PendingFrame DEF Up, KeyOf
<1>7. ASSUME NEW u \in Utterances, Finish(u) \/ RefuseSilently(u)
      PROVE  PendingInv'
  <2>1. /\ life' = life /\ life \in Up /\ turnOf' = turnOf
        /\ turnPending' = [turnPending EXCEPT ![KeyOf(u)] = Less(@)]
        /\ stage[u] = "work" /\ stage' = [stage EXCEPT ![u] = "settled"]
    BY <1>7 DEF Finish, RefuseSilently, Settle, handlerVars
  <2>2. /\ stage'[u] \notin Live /\ stage[u] \in Live
        /\ \A v \in Utterances \ {u} : stage'[v] = stage[v]
    BY <2>1 DEF TypeOK, Live
  <2> QED
    BY <1>0, <2>1, <2>2, PendingLess DEF Up
<1>8. CASE OpenGate \/ ForwardNext \/ Take
  <2>1. life' = life /\ life \in Up /\ UNCHANGED <<turnOf, turnPending>>
    BY <1>8 DEF OpenGate, ForwardNext, Take, handlerVars, Up
  <2>2. \A u \in Utterances : stage'[u] \in Live <=> stage[u] \in Live
    <3>1. CASE OpenGate
      BY <3>1 DEF OpenGate, Oldest, pending_gate, At, Live
    <3>2. CASE ForwardNext
      BY <3>2 DEF ForwardNext, Oldest, At, Live, TypeOK
    <3>3. CASE Take
      BY <3>3, QueueGet DEF Take, Live, TypeOK
    <3> QED
      BY <1>8, <3>1, <3>2, <3>3
  <2> QED
    BY <1>0, <2>1, <2>2, PendingFrame DEF Up, KeyOf
<1>9. CASE StopGate \/ StopWorker \/ DrainQueue \/ SweepGate
  BY <1>9, <1>0 DEF StopGate, StopWorker, DrainQueue, SweepGate
<1>10. CASE Exit \/ Crash
  <2>1. life' # "running" /\ turnPending' = [k \in Keys |-> 0]
    BY <1>10 DEF Exit, Crash, LoseMemory
  <2> QED
    BY <2>1 DEF PendingInv, PendingExact
<1>11. CASE Restart
  <2>1. /\ life \in {"exited", "crashed"} /\ life' = "running"
        /\ UNCHANGED <<stage, turnOf, turnPending>>
    BY <1>11 DEF Restart, handlerVars
  <2>2. At(Live) = {}
    BY <2>1 DEF WorkInv, Live
  <2>3. \A k \in Keys : turnPending'[k] = 0
    BY <2>1 DEF PendingInv
  <2>4. At(Live)' = {}
    BY <2>1, <2>2 DEF At
  <2>5. ASSUME NEW k \in Keys PROVE turnPending'[k] = Cardinality(Waiting(k)')
    <3>1. Waiting(k)' = {}
      BY <2>4 DEF Waiting
    <3> QED
      BY <2>3, <3>1, FS_EmptySet
  <2> QED
    BY <2>1, <2>5 DEF PendingInv, PendingExact, Waiting, Live
<1>12. CASE UNCHANGED vars
  <2>1. UNCHANGED <<life, stage, turnOf, turnPending>>
    BY <1>12 DEF vars, handlerVars
  <2>2. CASE life = "running"
    BY <2>1, <2>2, PendingFrame DEF KeyOf
  <2>3. CASE life # "running"
    BY <2>1, <2>3 DEF PendingInv, PendingExact
  <2> QED
    BY <2>2, <2>3
<1> QED
  BY <1>1, <1>2, <1>3, <1>4, <1>5, <1>6, <1>7, <1>8, <1>9, <1>10, <1>11, <1>12
     DEF Next, Handler, WorkOn

\* turn_pending counts exactly the submitted and unsettled utterances of each
\* turn while the service runs, whatever the number of sessions, the gate's
\* capacity and whatever fails.
THEOREM PendingCounts == Spec => []PendingExact
<1>1. StructureInv /\ PendingInv /\ [Next]_vars => StructureInv' /\ PendingInv'
  BY TypeStep, QueueStep, WorkStep, FreshStep, PendingStep DEF StructureInv
<1>2. PendingInv => PendingExact
  BY DEF PendingInv
<1> QED
  BY StructureInit, PendingInit, <1>1, <1>2, PTL DEF Spec
-----------------------------------------------------------------------------
(* The order of one session's FINAL windows.                               *)

\* Without these two CaptureOrder fails: a gate group may take a later segment of
\* another session first, and what meets a full gate goes past it.
LoneSession == \A c, d \in Clients : c = d
GateNeverFull == Cardinality(Utterances) <= GateCapacity

Decoded == {"work", "settled"}

\* A later segment is never ahead of an earlier one on the way from the gate through
\* the queue to the worker.
PlacesInOrder ==
  \A u, v \in Utterances : u[2] < v[2] =>
    /\ stage[v] \in {"queue"} \cup Decoded => stage[u] # "gate"
    /\ stage[v] \in Decoded => stage[u] # "queue"

QueueSorted ==
  /\ \A i, j \in 1..Len(queue) : i < j => queue[i][2] <= queue[j][2]
  /\ \A u \in Utterances : stage[u] = "queue" => \E i \in 1..Len(queue) : queue[i] = u

GateSorted ==
  /\ \A u \in pending_gate : received[u] <= clock
  /\ \A u, v \in pending_gate : u[2] < v[2] => received[u] < received[v]

OrderInv ==
  /\ PlacesInOrder /\ QueueSorted /\ GateSorted
  /\ At({"group"}) = {}
  /\ life \in {"drained", "swept"} => At({"queue"}) = {}

LEMMA SegmentNumber == ASSUME NEW u \in Utterances PROVE u[2] \in Nat
  BY PipelineAssumption DEF Utterances

\* A step that puts nothing into the gate or the queue and takes nothing out.
LEMMA OrderFrame ==
  ASSUME OrderInv, UNCHANGED <<queue, received, clock>>,
         life' \in {"drained", "swept"} => life \in {"drained", "swept"},
         \A u \in Utterances :
           /\ stage'[u] \in Decoded <=> stage[u] \in Decoded
           /\ \A where \in {"gate", "group", "queue"} :
                stage'[u] = where <=> stage[u] = where
  PROVE  OrderInv'
<1>1. At({"gate"})' = At({"gate"}) /\ At({"group"})' = At({"group"})
      /\ At({"queue"})' = At({"queue"})
  BY DEF At
<1>2. PlacesInOrder'
  BY DEF OrderInv, PlacesInOrder
<1>3. QueueSorted'
  BY DEF OrderInv, QueueSorted
<1>4. GateSorted'
  BY <1>1 DEF OrderInv, GateSorted, pending_gate
<1> QED
  BY <1>1, <1>2, <1>3, <1>4 DEF OrderInv

\* submit_utterance of the newest segment, which the gate has room for.
LEMMA OrderSubmit ==
  ASSUME LoneSession, GateNeverFull, StructureInv, OrderInv, NEW c \in Clients, Submit(c)
  PROVE  OrderInv'
<1> DEFINE u == Flushing(c)
<1> USE DEF StructureInv
<1>1. u \in Utterances /\ stage[u] = "writing" /\ u[2] = begun[c] /\ begun[c] \in Nat
  BY FlushingStage, FlushingIsUtterance, PipelineAssumption DEF Submit, FreshInv, TypeOK
<1>2. \A v \in Utterances : stage[v] # "none" => v[2] <= begun[c]
  <2>1. ASSUME NEW v \in Utterances, stage[v] # "none"
        PROVE  v[2] <= begun[c]
    <3>1. v[1] \in Clients /\ v[2] \in 1..begun[v[1]]
      BY <2>1, LiveIsBegun
    <3>2. v[1] = c
      BY <3>1 DEF LoneSession
    <3> QED
      BY <3>1, <3>2, <1>1
  <2> QED
    BY <2>1
<1>3. Cardinality(pending_gate) < GateCapacity
  <2>1. pending_gate \subseteq Utterances \ {u}
    BY <1>1 DEF pending_gate, At
  <2>2. IsFiniteSet(Utterances \ {u}) /\ Cardinality(Utterances \ {u}) = Cardinality(Utterances) - 1
    BY <1>1, UtterancesFinite, FS_RemoveElement
  <2>3. Cardinality(pending_gate) <= Cardinality(Utterances \ {u}) /\ IsFiniteSet(pending_gate)
    BY <2>1, <2>2, FS_Subset
  <2>4. Cardinality(pending_gate) \in Nat /\ Cardinality(Utterances) \in Nat
    BY <2>3, UtterancesFinite, FS_CardinalityType
  <2> QED
    BY <2>2, <2>3, <2>4, PipelineAssumption DEF GateNeverFull
<1>4. /\ stage' = [stage EXCEPT ![u] = "gate"] /\ queue' = queue /\ life' = life
      /\ clock' = clock + 1 /\ received' = [received EXCEPT ![u] = clock + 1]
  <2>1. ~(Cardinality(pending_gate) >= GateCapacity)
    <3>1. pending_gate \subseteq Utterances
      BY DEF pending_gate, At
    <3>2. Cardinality(pending_gate) \in Nat
      BY <3>1, UtterancesFinite, FS_Subset, FS_CardinalityType
    <3> QED
      BY <1>3, <3>2, PipelineAssumption
  <2> QED
    BY <2>1 DEF Submit
<1> HIDE DEF u
<1>5. stage'[u] = "gate" /\ \A v \in Utterances \ {u} : stage'[v] = stage[v]
  BY <1>1, <1>4 DEF TypeOK
<1>6. PlacesInOrder'
  <2>1. ASSUME NEW v \in Utterances, NEW w \in Utterances, v[2] < w[2]
        PROVE  /\ stage'[w] \in {"queue"} \cup Decoded => stage'[v] # "gate"
               /\ stage'[w] \in Decoded => stage'[v] # "queue"
    <3>1. CASE v = u
      <4>1. stage[w] = "none" /\ w # u
        BY <1>1, <1>2, <2>1, <3>1, SegmentNumber
      <4> QED
        BY <4>1, <1>5 DEF Decoded
    <3>2. CASE w = u
      BY <1>5, <3>2 DEF Decoded
    <3>3. CASE v # u /\ w # u
      BY <1>5, <2>1, <3>3 DEF OrderInv, PlacesInOrder
    <3> QED
      BY <3>1, <3>2, <3>3
  <2> QED
    BY <2>1 DEF PlacesInOrder
<1>7. QueueSorted'
  BY <1>4, <1>5 DEF OrderInv, QueueSorted
<1>8. pending_gate' = pending_gate \cup {u} /\ u \notin pending_gate
  BY <1>1, <1>5 DEF pending_gate, At
<1>9. GateSorted'
  <2>1. clock \in Nat /\ \A v \in pending_gate : received[v] <= clock /\ received[v] \in Nat
    BY DEF OrderInv, GateSorted, TypeOK, pending_gate, At
  <2>2. /\ received'[u] = clock + 1
        /\ \A v \in pending_gate : received'[v] = received[v]
    BY <1>1, <1>4, <1>8 DEF TypeOK, pending_gate, At
  <2>3. \A v \in pending_gate : ~(u[2] < v[2])
    BY <1>1, <1>2, SegmentNumber DEF pending_gate, At
  <2>4. \A v \in pending_gate' : received'[v] <= clock'
    BY <1>4, <1>8, <2>1, <2>2
  <2>5. ~(u[2] < u[2])
    BY <1>1
  <2>6. ASSUME NEW v \in pending_gate', NEW w \in pending_gate', v[2] < w[2]
        PROVE  received'[v] < received'[w]
    <3>1. v \in pending_gate
      BY <1>8, <2>3, <2>5, <2>6
    <3>2. CASE w = u
      BY <2>1, <2>2, <3>1, <3>2
    <3>3. CASE w \in pending_gate
      BY <2>2, <2>6, <3>1, <3>3 DEF OrderInv, GateSorted
    <3> QED
      BY <1>8, <3>2, <3>3
  <2> QED
    BY <2>4, <2>6 DEF GateSorted
<1> QED
  BY <1>1, <1>4, <1>5, <1>6, <1>7, <1>9 DEF OrderInv, At

\* _flush_pre_stt_gate takes the oldest arrival, which is the earliest segment.
LEMMA OrderOpenGate ==
  ASSUME LoneSession, StructureInv, OrderInv, OpenGate
  PROVE  OrderInv'
<1> USE DEF StructureInv
<1>a. PICK seed \in Oldest(pending_gate) :
        \E others \in SUBSET {u \in pending_gate : u[1] # seed[1]} :
          /\ stage' = [u \in Utterances |->
                         IF u = seed THEN "queue"
                         ELSE IF u \in others THEN "group" ELSE stage[u]]
          /\ queue' = Append(queue, seed)
  BY DEF OpenGate
<1>1. PICK others \in SUBSET {u \in pending_gate : u[1] # seed[1]} :
        /\ stage' = [u \in Utterances |->
                       IF u = seed THEN "queue"
                       ELSE IF u \in others THEN "group" ELSE stage[u]]
        /\ queue' = Append(queue, seed)
  BY <1>a
<1>2. seed \in Utterances /\ stage[seed] = "gate"
  BY DEF Oldest, pending_gate, At
<1>3. \A u, v \in Utterances : u[1] = v[1]
  BY UtteranceTuple DEF LoneSession
<1>4. others = {}
  BY <1>2, <1>3 DEF pending_gate, At
<1>5. /\ stage'[seed] = "queue" /\ \A v \in Utterances \ {seed} : stage'[v] = stage[v]
      /\ UNCHANGED <<received, clock>> /\ life = "running" /\ life' = life
  BY <1>1, <1>2, <1>4 DEF OpenGate
<1>6. \A v \in pending_gate : seed[2] <= v[2]
  <2>1. ASSUME NEW v \in pending_gate, v[2] < seed[2]
        PROVE  FALSE
    <3>1. seed \in pending_gate /\ received[seed] <= received[v]
      BY DEF Oldest
    <3>2. received[v] < received[seed]
      BY <2>1, <3>1 DEF OrderInv, GateSorted
    <3>3. received[v] \in Nat /\ received[seed] \in Nat
      BY <1>2 DEF TypeOK, pending_gate, At
    <3> QED
      BY <3>1, <3>2, <3>3
  <2> QED
    BY <1>2, <2>1, SegmentNumber DEF pending_gate, At
<1>7. PlacesInOrder'
  <2>1. ASSUME NEW v \in Utterances, NEW w \in Utterances, v[2] < w[2]
        PROVE  /\ stage'[w] \in {"queue"} \cup Decoded => stage'[v] # "gate"
               /\ stage'[w] \in Decoded => stage'[v] # "queue"
    <3>1. CASE w = seed
      <4>1. stage[v] # "gate" /\ v # seed
        BY <1>6, <2>1, <3>1, SegmentNumber DEF pending_gate, At
      <4> QED
        BY <1>5, <3>1, <4>1 DEF Decoded
    <3>2. CASE v = seed /\ w # seed
      BY <1>2, <1>5, <2>1, <3>2 DEF OrderInv, PlacesInOrder
    <3>3. CASE v # seed /\ w # seed
      BY <1>5, <2>1, <3>3 DEF OrderInv, PlacesInOrder
    <3> QED
      BY <3>1, <3>2, <3>3
  <2> QED
    BY <2>1 DEF PlacesInOrder
<1>8. QueueSorted'
  <2>1. queue \in Seq(Utterances) /\ Len(queue) \in Nat
    BY LenProperties DEF TypeOK
  <2>2. /\ Len(queue') = Len(queue) + 1 /\ queue'[Len(queue) + 1] = seed
        /\ \A i \in 1..Len(queue) : queue'[i] = queue[i]
    BY <1>1, <1>2, <2>1, AppendProperties
  <2>3. ASSUME NEW i \in 1..Len(queue) PROVE queue[i][2] <= seed[2]
    <3>1. queue[i] \in Utterances /\ stage[queue[i]] = "queue"
      BY <2>1 DEF QueueInv
    <3>2. ~(seed[2] < queue[i][2])
      BY <1>2, <3>1 DEF OrderInv, PlacesInOrder
    <3> QED
      BY <1>2, <3>1, <3>2, SegmentNumber
  <2>4. \A i, j \in 1..Len(queue') : i < j => queue'[i][2] <= queue'[j][2]
    BY <2>1, <2>2, <2>3 DEF OrderInv, QueueSorted
  <2>5. \A u \in Utterances : stage'[u] = "queue" => \E i \in 1..Len(queue') : queue'[i] = u
    <3>1. ASSUME NEW u \in Utterances, u # seed, stage'[u] = "queue"
          PROVE  \E i \in 1..Len(queue') : queue'[i] = u
      <4>1. PICK i \in 1..Len(queue) : queue[i] = u
        BY <1>5, <3>1 DEF OrderInv, QueueSorted
      <4> QED
        BY <2>1, <2>2, <4>1
    <3>2. \E i \in 1..Len(queue') : queue'[i] = seed
      BY <2>1, <2>2
    <3> QED
      BY <3>1, <3>2
  <2> QED
    BY <2>4, <2>5 DEF QueueSorted
<1>9. GateSorted'
  <2>1. pending_gate' \subseteq pending_gate
    BY <1>5 DEF pending_gate, At
  <2> QED
    BY <1>5, <2>1 DEF OrderInv, GateSorted
<1>10. At({"group"})' = {}
  BY <1>5 DEF OrderInv, At
<1> QED
  BY <1>5, <1>7, <1>8, <1>9, <1>10 DEF OrderInv

\* get() takes the earliest segment that waits.
LEMMA OrderTake ==
  ASSUME StructureInv, OrderInv, Take
  PROVE  OrderInv'
<1> USE DEF StructureInv
<1> DEFINE h == Head(queue)
<1>1. /\ queue # <<>> /\ queue' = Tail(queue) /\ stage' = [stage EXCEPT ![h] = "work"]
      /\ UNCHANGED <<received, clock>> /\ life' = life
      /\ life \in {"running", "gate-stopped"}
  BY DEF Take
<1>2. /\ h \in Utterances /\ stage[h] = "queue"
      /\ Len(queue') = Len(queue) - 1 /\ Len(queue) \in Nat \ {0}
      /\ \A i \in 1..Len(queue') : queue'[i] = queue[i + 1]
  BY <1>1, QueueGet
<1>3. h = queue[1]
  BY <1>1, HeadTailProperties DEF TypeOK
<1> HIDE DEF h
<1>4. stage'[h] = "work" /\ \A v \in Utterances \ {h} : stage'[v] = stage[v]
  BY <1>1, <1>2 DEF TypeOK
<1>5. ASSUME NEW v \in Utterances, stage[v] = "queue", v # h
      PROVE  h[2] <= v[2] /\ \E i \in 1..Len(queue') : queue'[i] = v
  <2>1. PICK i \in 1..Len(queue) : queue[i] = v
    BY <1>5 DEF OrderInv, QueueSorted
  <2>2. i # 1 /\ i \in Nat
    BY <1>2, <1>3, <1>5, <2>1
  <2>3. h[2] <= v[2]
    BY <1>2, <1>3, <2>1, <2>2 DEF OrderInv, QueueSorted
  <2>4. i - 1 \in 1..Len(queue') /\ queue'[i - 1] = v
    BY <1>2, <2>1, <2>2
  <2> QED
    BY <2>3, <2>4
<1>6. PlacesInOrder'
  <2>1. ASSUME NEW v \in Utterances, NEW w \in Utterances, v[2] < w[2]
        PROVE  /\ stage'[w] \in {"queue"} \cup Decoded => stage'[v] # "gate"
               /\ stage'[w] \in Decoded => stage'[v] # "queue"
    <3>1. CASE w = h
      <4>1. v # h /\ stage[v] # "gate" /\ stage[v] # "queue"
        BY <1>2, <1>5, <2>1, <3>1, SegmentNumber DEF OrderInv, PlacesInOrder
      <4> QED
        BY <1>4, <4>1
    <3>2. CASE v = h
      BY <1>4, <3>2
    <3>3. CASE v # h /\ w # h
      BY <1>4, <2>1, <3>3 DEF OrderInv, PlacesInOrder
    <3> QED
      BY <3>1, <3>2, <3>3
  <2> QED
    BY <2>1 DEF PlacesInOrder
<1>7. QueueSorted'
  <2>1. \A i, j \in 1..Len(queue') : i < j => queue'[i][2] <= queue'[j][2]
    <3>1. TAKE i, j \in 1..Len(queue')
    <3>2. /\ i + 1 \in 1..Len(queue) /\ j + 1 \in 1..Len(queue)
          /\ queue'[i] = queue[i + 1] /\ queue'[j] = queue[j + 1]
          /\ i < j => i + 1 < j + 1
      BY <1>2, <3>1
    <3> QED
      BY <3>2 DEF OrderInv, QueueSorted
  <2>2. \A u \in Utterances : stage'[u] = "queue" => stage[u] = "queue" /\ u # h
    BY <1>4
  <2> QED
    BY <1>5, <2>1, <2>2 DEF QueueSorted
<1>8. pending_gate' = pending_gate /\ At({"group"})' = At({"group"})
  BY <1>2, <1>4 DEF pending_gate, At
<1> QED
  BY <1>1, <1>6, <1>7, <1>8 DEF OrderInv, GateSorted

\* Meeting.stop empties the queue before the gate, so that nothing is settled ahead of
\* an earlier segment; the end of the process leaves nothing in either.
LEMMA OrderSwept ==
  ASSUME StructureInv, OrderInv, DrainQueue \/ SweepGate \/ Exit \/ Crash
  PROVE  OrderInv'
<1> USE DEF StructureInv
<1>1. CASE DrainQueue
  <2>1. /\ stage' = [u \in Utterances |->
                       IF u \in At({"queue"}) THEN "settled" ELSE stage[u]]
        /\ queue' = <<>> /\ UNCHANGED <<received, clock>>
    BY <1>1 DEF DrainQueue, RetainAll
  <2>2. PlacesInOrder'
    BY <2>1 DEF OrderInv, PlacesInOrder, At, Decoded
  <2>3. At({"queue"})' = {} /\ At({"group"})' = {} /\ pending_gate' = pending_gate
    BY <2>1 DEF OrderInv, At, pending_gate
  <2>4. QueueSorted'
    BY <2>1, <2>3, EmptySeq DEF QueueSorted, At
  <2> QED
    BY <2>1, <2>2, <2>3, <2>4 DEF OrderInv, GateSorted
<1>2. CASE SweepGate
  <2>1. /\ stage' = [u \in Utterances |->
                       IF u \in pending_gate THEN "settled" ELSE stage[u]]
        /\ queue' = queue /\ UNCHANGED <<received, clock>> /\ life = "drained"
    BY <1>2 DEF SweepGate, RetainAll, gateVars
  <2>2. /\ At({"queue"})' = {} /\ At({"group"})' = {} /\ pending_gate' = {}
        /\ At({"queue"}) = {}
    BY <2>1 DEF OrderInv, At, pending_gate
  <2>3. PlacesInOrder'
    BY <2>2 DEF PlacesInOrder, At, pending_gate
  <2>4. QueueSorted'
    BY <2>1, <2>2 DEF OrderInv, QueueSorted, At
  <2> QED
    BY <2>2, <2>3, <2>4 DEF OrderInv, GateSorted
<1>3. CASE Exit \/ Crash
  <2>1. LoseMemory /\ life' \in {"exited", "crashed"}
    BY <1>3 DEF Exit, Crash
  <2>2. \A u \in Utterances : stage'[u] \notin {"gate", "group", "queue"}
    BY <2>1 DEF LoseMemory
  <2>3. At({"queue"})' = {} /\ At({"group"})' = {} /\ pending_gate' = {}
    BY <2>2 DEF At, pending_gate
  <2>4. QueueSorted'
    BY <2>1, <2>2, EmptySeq DEF LoseMemory, QueueSorted
  <2> QED
    BY <2>1, <2>2, <2>3, <2>4 DEF OrderInv, PlacesInOrder, GateSorted
<1> QED
  BY <1>1, <1>2, <1>3

LEMMA OrderStep ==
  ASSUME LoneSession, GateNeverFull, StructureInv, OrderInv, [Next]_vars
  PROVE  OrderInv'
<1> USE DEF StructureInv
<1>1. ASSUME NEW c \in Clients,
             \/ Connect(c) \/ Begin(c) \/ DropShort(c) \/ StorageExhausted(c)
             \/ FinishFlush(c) \/ Disconnect(c) \/ Leave(c)
      PROVE  OrderInv'
  <2>1. UNCHANGED <<life, stage, queue, received, clock>>
    BY <1>1 DEF Connect, Begin, DropShort, StorageExhausted, FinishFlush, Disconnect,
       Leave, gateVars
  <2> QED
    BY <2>1, OrderFrame
<1>2. ASSUME NEW c \in Clients, StartFlush(c) \/ WriteRaises(c) \/ CancelHandler(c)
      PROVE  OrderInv'
  <2>1. UNCHANGED <<life, queue, received, clock>>
    BY <1>2 DEF StartFlush, WriteRaises, CancelHandler, gateVars
  <2>2. \A u \in Utterances :
          \/ stage'[u] = stage[u]
          \/ stage[u] \in {"none", "writing"} /\ stage'[u] \in {"writing", "abandoned"}
    BY <1>2, FlushingStage DEF TypeOK, StartFlush, WriteRaises, CancelHandler
  <2> QED
    BY <2>1, <2>2, OrderFrame DEF Decoded
<1>3. ASSUME NEW c \in Clients, Submit(c)
      PROVE  OrderInv'
  BY <1>3, OrderSubmit
<1>4. ASSUME NEW u \in Utterances, WriterThread(u) \/ Publish(u) \/ Refuse(u)
      PROVE  OrderInv'
  <2>1. UNCHANGED <<life, stage, queue, received, clock>>
    BY <1>4 DEF WriterThread, WriteRawTmp, WriteWavTmp, RenameRaw, RenameWav,
       ThreadEnds, Publish, Refuse, gateVars
  <2> QED
    BY <2>1, OrderFrame
<1>5. ASSUME NEW u \in Utterances, Finish(u) \/ RefuseSilently(u)
      PROVE  OrderInv'
  <2>1. /\ UNCHANGED <<life, queue, received, clock>>
        /\ stage[u] = "work" /\ stage' = [stage EXCEPT ![u] = "settled"]
    BY <1>5 DEF Finish, RefuseSilently, Settle, gateVars
  <2>2. \A v \in Utterances : stage'[v] = stage[v] \/ (stage[v] = "work" /\ stage'[v] = "settled")
    BY <2>1 DEF TypeOK
  <2> QED
    BY <2>1, <2>2, OrderFrame DEF Decoded
<1>6. CASE OpenGate
  BY <1>6, OrderOpenGate
<1>7. CASE ForwardNext
  BY <1>7 DEF ForwardNext, Oldest, OrderInv
<1>8. CASE Take
  BY <1>8, OrderTake
<1>9. CASE StopGate \/ Restart
  <2>1. UNCHANGED <<stage, queue, received, clock>> /\ life' \notin {"drained", "swept"}
    BY <1>9 DEF StopGate, Restart, gateVars
  <2> QED
    BY <2>1, OrderFrame
<1>10. CASE StopWorker
  <2>1. UNCHANGED <<queue, received, clock>> /\ life' \notin {"drained", "swept"}
    BY <1>10 DEF StopWorker, gateVars
  <2>2. \A v \in Utterances : stage'[v] = stage[v] \/ (stage[v] = "work" /\ stage'[v] = "settled")
    BY <1>10 DEF StopWorker, Settle, At, TypeOK
  <2> QED
    BY <2>1, <2>2, OrderFrame DEF Decoded
<1>11. CASE DrainQueue \/ SweepGate \/ Exit \/ Crash
  BY <1>11, OrderSwept
<1>12. CASE UNCHANGED vars
  <2>1. UNCHANGED <<life, stage, queue, received, clock>>
    BY <1>12 DEF vars, gateVars
  <2> QED
    BY <2>1, OrderFrame
<1> QED
  BY <1>1, <1>2, <1>3, <1>4, <1>5, <1>6, <1>7, <1>8, <1>9, <1>10, <1>11, <1>12
     DEF Next, Handler, WorkOn

\* One session alone, in a gate that does not fill: its FINAL windows reach the
\* recogniser in the order of capture, whatever fails, and whenever the service stops.
THEOREM LoneSessionInOrder ==
  LoneSession /\ GateNeverFull => (Spec => []CaptureOrder)
<1> SUFFICES ASSUME LoneSession, GateNeverFull PROVE Spec => []CaptureOrder
  OBVIOUS
<1>1. Init => OrderInv
  <2> SUFFICES ASSUME Init PROVE OrderInv
    OBVIOUS
  <2>1. /\ \A u \in Utterances : stage[u] = "none"
        /\ queue = <<>>
    BY DEF Init
  <2> QED
    BY <2>1, EmptySeq DEF OrderInv, PlacesInOrder, QueueSorted, GateSorted, pending_gate,
       At, Decoded
<1>2. StructureInv /\ OrderInv /\ [Next]_vars => StructureInv' /\ OrderInv'
  BY TypeStep, QueueStep, WorkStep, FreshStep, OrderStep DEF StructureInv
<1>3. OrderInv => CaptureOrder
  BY DEF OrderInv, PlacesInOrder, CaptureOrder, Decoded, At
<1> QED
  BY StructureInit, <1>1, <1>2, <1>3, PTL DEF Spec
-----------------------------------------------------------------------------
(* The files of every utterance (FilesInv), the custody of submitted audio *)
(* and the refinement of AudioCustody, while no move into the unresolved   *)
(* directory fails.                                                        *)


\* FilesInv of one utterance depends on these values only.
FilesOf(u) ==
  /\ stage[u] \in {"gate", "group", "queue"} => Spooled(u)
  /\ stage[u] = "work" =>
       CASE worker = "decoding" -> Spooled(u) /\ ~retained[u]
         [] worker = "published" -> Spooled(u) /\ ~retained[u]
         [] OTHER -> raw[u] = "unresolved" /\ wav[u] = "unresolved"
  /\ stage[u] = "work" => (u \in published <=> worker = "published")
  /\ stage[u] \in {"settled", "orphaned"} =>
       \/ raw[u] \in Durable /\ wav[u] = raw[u]
       \/ u \in published /\ raw[u] = "deleted" /\ wav[u] = "deleted"
  /\ stage[u] \in {"none", "writing", "abandoned", "gate", "group", "queue"} =>
       u \notin published /\ ~retained[u]
  /\ u \in threads => stage[u] \in {"writing", "abandoned"}

LEMMA FilesAreFilesOf == FilesInv <=> \A u \in Utterances : FilesOf(u)
  BY DEF FilesInv, FilesOf

\* With moves that succeed, _retain_audio moves both files of a spooled utterance
\* and leaves those already moved.
LEMMA Retained ==
  ASSUME NEW u \in Utterances
  PROVE  /\ Spooled(u) => /\ Moved(raw[u], TRUE) = "unresolved"
                          /\ Moved(wav[u], TRUE) = "unresolved"
                          /\ Kept(u, TRUE, TRUE)
         /\ raw[u] = "unresolved" => Moved(raw[u], TRUE) = "unresolved"
         /\ wav[u] = "unresolved" => Moved(wav[u], TRUE) = "unresolved"
         /\ Unlinked("unresolved") = "unresolved" /\ Unlinked("spool") = "deleted"
  BY DEF Moved, Kept, Spooled, Unlinked

\* A step that does not touch u's files, publication or retention, and leaves the
\* worker alone or does not concern u.
LEMMA FilesFrame ==
  ASSUME FilesInv, NEW u \in Utterances,
         raw'[u] = raw[u], wav'[u] = wav[u], retained'[u] = retained[u],
         u \in published' <=> u \in published,
         u \in threads' => u \in threads,
         stage'[u] = stage[u],
         worker' = worker \/ stage[u] # "work"
  PROVE  FilesOf(u)'
  BY DEF FilesInv, FilesOf, Spooled, Durable

LEMMA FilesStep ==
  ASSUME ~MovesFail, TypeOK, QueueInv, WorkInv, FreshInv, FilesInv, [Next]_vars
  PROVE  FilesInv'
<1> SUFFICES ASSUME NEW u \in Utterances PROVE FilesOf(u)'
  BY FilesAreFilesOf DEF FilesInv, FilesOf
<1>0. FilesOf(u)
  BY FilesAreFilesOf
<1>1. ASSUME NEW c \in Clients,
             \/ Connect(c) \/ Begin(c) \/ DropShort(c) \/ StorageExhausted(c)
             \/ FinishFlush(c) \/ Disconnect(c) \/ Leave(c)
      PROVE  FilesOf(u)'
  BY <1>1, FilesFrame DEF Connect, Begin, DropShort, StorageExhausted, FinishFlush,
     Disconnect, Leave, workVars
<1>2. ASSUME NEW c \in Clients, StartFlush(c) \/ WriteRaises(c) \/ CancelHandler(c)
      PROVE  FilesOf(u)'
  <2>1. /\ UNCHANGED <<worker, retained, published, raw, wav>>
        /\ threads' \subseteq threads \cup {Flushing(c)}
    BY <1>2 DEF StartFlush, WriteRaises, CancelHandler, workVars
  <2>2. CASE stage'[u] = stage[u] /\ u # Flushing(c)
    BY <2>1, <2>2, FilesFrame
  <2>3. CASE u = Flushing(c) /\ stage' # stage
    <3>1. stage[u] \in {"none", "writing"}
      BY <1>2, <2>3, FlushingStage DEF StartFlush, WriteRaises, CancelHandler
    <3>2. stage'[u] \in {"writing", "abandoned"}
      BY <1>2, <2>3 DEF StartFlush, WriteRaises, CancelHandler, TypeOK
    <3> QED
      BY <1>0, <2>1, <3>1, <3>2 DEF FilesOf
  <2>4. CASE stage' = stage /\ u = Flushing(c)
    <3>1. threads' \subseteq threads
      BY <1>2, <2>4, FlushingStage DEF StartFlush, WriteRaises, CancelHandler, TypeOK
    <3> QED
      BY <2>1, <2>4, <3>1, FilesFrame
  <2>5. stage' = stage \/ stage'[u] = stage[u] \/ u = Flushing(c)
    BY <1>2 DEF StartFlush, WriteRaises, CancelHandler, TypeOK
  <2> QED
    BY <2>2, <2>3, <2>4, <2>5
<1>3. ASSUME NEW c \in Clients, Submit(c)
      PROVE  FilesOf(u)'
  <2>1. UNCHANGED <<worker, retained, published, raw, wav>>
    BY <1>3 DEF Submit, workVars
  <2>2. PICK where \in {"queue", "gate"} : stage' = [stage EXCEPT ![Flushing(c)] = where]
    BY <1>3 DEF Submit
  <2>3. stage[Flushing(c)] = "writing" /\ Spooled(Flushing(c)) /\ threads' = threads \ {Flushing(c)}
    BY <1>3, FlushingStage DEF Submit
  <2>4. CASE u = Flushing(c)
    BY <1>0, <2>1, <2>2, <2>3, <2>4 DEF FilesOf, Spooled, TypeOK
  <2>5. CASE u # Flushing(c)
    BY <2>1, <2>2, <2>3, <2>5, FilesFrame DEF TypeOK
  <2> QED
    BY <2>4, <2>5
<1>4. ASSUME NEW v \in Utterances, WriterThread(v)
      PROVE  FilesOf(u)'
  <2>1. /\ UNCHANGED <<worker, retained, published, stage>>
        /\ threads' \subseteq threads /\ v \in threads
        /\ u # v => raw'[u] = raw[u] /\ wav'[u] = wav[u]
    BY <1>4 DEF WriterThread, WriteRawTmp, WriteWavTmp, RenameRaw, RenameWav,
       ThreadEnds, workVars, TypeOK
  <2>2. CASE u = v
    <3>1. stage[u] \in {"writing", "abandoned"}
      BY <1>0, <2>1, <2>2 DEF FilesOf
    <3> QED
      BY <1>0, <2>1, <3>1 DEF FilesOf
  <2>3. CASE u # v
    BY <2>1, <2>3, FilesFrame
  <2> QED
    BY <2>2, <2>3
<1>5. CASE OpenGate \/ ForwardNext
  <2>1. UNCHANGED <<threads, worker, retained, published, raw, wav>>
    BY <1>5 DEF OpenGate, ForwardNext, workVars
  <2>2. \/ stage'[u] = stage[u]
        \/ stage[u] \in {"gate", "group"} /\ stage'[u] \in {"group", "queue"}
    BY <1>5 DEF OpenGate, ForwardNext, Oldest, pending_gate, At, TypeOK
  <2> QED
    BY <1>0, <2>1, <2>2, FilesFrame DEF FilesOf, Spooled
<1>6. CASE Take
  <2>1. /\ UNCHANGED <<threads, retained, published, raw, wav>>
        /\ worker = "idle" /\ worker' = "decoding"
        /\ stage' = [stage EXCEPT ![Head(queue)] = "work"]
    BY <1>6 DEF Take
  <2>2. Head(queue) \in Utterances /\ stage[Head(queue)] = "queue"
    BY <1>6, QueueGet DEF Take
  <2>3. CASE u = Head(queue)
    BY <1>0, <2>1, <2>2, <2>3 DEF FilesOf, Spooled, TypeOK
  <2>4. CASE u # Head(queue)
    <3>1. stage[u] # "work"
      BY <2>1 DEF WorkInv, At
    <3> QED
      BY <2>1, <2>4, <3>1, FilesFrame DEF TypeOK
  <2> QED
    BY <2>3, <2>4
<1>7. ASSUME NEW v \in Utterances, stage[v] = "work", u # v
      PROVE  stage[u] # "work"
  BY <1>7 DEF WorkInv, At
<1>8. ASSUME NEW v \in Utterances, Publish(v)
      PROVE  FilesOf(u)'
  <2>1. CASE u = v
    <3>1. ~retained[u]
      BY <1>8, <2>1, <1>0 DEF FilesOf, Publish
    <3> QED
      BY <1>8, <2>1, <1>0, <3>1 DEF FilesOf, Publish, Spooled
  <2>2. CASE u # v
    BY <1>8, <2>2, <1>7, FilesFrame DEF Publish
  <2> QED
    BY <2>1, <2>2
<1>9. ASSUME NEW v \in Utterances, Refuse(v)
      PROVE  FilesOf(u)'
  <2>1. Retain(v, TRUE, TRUE)
    BY <1>9 DEF Refuse, MoveResults
  <2>2. CASE u = v
    <3>1. /\ raw'[u] = Moved(raw[u], TRUE) /\ wav'[u] = Moved(wav[u], TRUE)
          /\ stage'[u] = "work" /\ worker' \in {"rejected", "failed"}
          /\ worker = "decoding" /\ published' = published /\ threads' = threads
      BY <1>9, <2>1, <2>2 DEF Refuse, Retain, TypeOK
    <3>2. raw'[u] = "unresolved" /\ wav'[u] = "unresolved"
      BY <1>0, <2>2, <1>9, <3>1, Retained DEF FilesOf, Refuse
    <3> QED
      BY <1>0, <1>9, <2>2, <3>1, <3>2 DEF FilesOf, Refuse
  <2>3. CASE u # v
    BY <1>9, <2>1, <2>3, <1>7, FilesFrame DEF Refuse, Retain, TypeOK
  <2> QED
    BY <2>2, <2>3
\* The end of the work on v, whose files are as rawNow and wavNow say.
<1>10. ASSUME NEW v \in Utterances, stage[v] = "work",
              NEW rawNow, NEW wavNow, NEW kept \in BOOLEAN,
              Settle(v, rawNow, wavNow, kept),
              \/ rawNow = "unresolved" /\ wavNow = "unresolved"
              \/ rawNow = "spool" /\ wavNow = "spool" /\ ~kept /\ v \in published,
              UNCHANGED <<threads, published>>,
              \A w \in Utterances : w # v => retained'[w] = retained[w]
       PROVE  FilesOf(u)'
  <2>1. CASE u = v
    <3>1. /\ stage'[u] = "settled"
          /\ \/ raw'[u] = "unresolved" /\ wav'[u] = "unresolved"
             \/ raw'[u] = "deleted" /\ wav'[u] = "deleted" /\ u \in published
      BY <1>10, <2>1, Retained DEF Settle, TypeOK
    <3>2. u \notin threads
      BY <1>0, <1>10, <2>1 DEF FilesOf
    <3> QED
      BY <1>10, <3>1, <3>2 DEF FilesOf, Durable
  <2>2. CASE u # v
    BY <1>10, <1>7, <2>2, FilesFrame DEF Settle, TypeOK
  <2> QED
    BY <2>1, <2>2
<1>11. ASSUME NEW v \in Utterances
       PROVE  FilesOf(v)
  BY FilesAreFilesOf
<1>12. ASSUME NEW v \in Utterances, Finish(v)
       PROVE  FilesOf(u)'
  <2>1. /\ stage[v] = "work" /\ Settle(v, raw[v], wav[v], retained[v])
        /\ UNCHANGED <<threads, published, retained>>
        /\ worker \in {"published", "rejected", "failed"}
    BY <1>12 DEF Finish
  <2>2. \/ raw[v] = "unresolved" /\ wav[v] = "unresolved"
        \/ raw[v] = "spool" /\ wav[v] = "spool" /\ ~retained[v] /\ v \in published
    BY <2>1, <1>11 DEF FilesOf, Spooled
  <2>3. retained[v] \in BOOLEAN
    BY DEF TypeOK
  <2> QED
    BY <2>1, <2>2, <2>3, <1>10
<1>13. ASSUME NEW v \in Utterances, stage[v] = "work", worker # "failed",
              worker \notin {"idle", "stopped"},
              retained' = [retained EXCEPT ![v] = Kept(v, TRUE, TRUE)],
              Settle(v, Moved(raw[v], TRUE), Moved(wav[v], TRUE), Kept(v, TRUE, TRUE)),
              UNCHANGED <<threads, published>>
       PROVE  FilesOf(u)'
  <2>1. Spooled(v) \/ (raw[v] = "unresolved" /\ wav[v] = "unresolved")
    BY <1>11, <1>13 DEF FilesOf
  <2>2. Moved(raw[v], TRUE) = "unresolved" /\ Moved(wav[v], TRUE) = "unresolved"
    BY <2>1, Retained
  <2>3. Kept(v, TRUE, TRUE) \in BOOLEAN
    BY DEF Kept
  <2>4. \A w \in Utterances : w # v => retained'[w] = retained[w]
    BY <1>13 DEF TypeOK
  <2> QED
    BY <1>10, <1>13, <2>2, <2>3, <2>4
<1>14. ASSUME NEW v \in Utterances, RefuseSilently(v)
       PROVE  FilesOf(u)'
  BY <1>13, <1>14 DEF RefuseSilently, MoveResults
<1>15. CASE StopWorker
  <2>1. UNCHANGED <<threads, published>>
    BY <1>15 DEF StopWorker, handlerVars
  <2>2. CASE worker = "idle" /\ UNCHANGED <<stage, turnPending, retained, raw, wav>>
    <3>1. stage[u] # "work"
      BY <2>2 DEF WorkInv, At
    <3> QED
      BY <2>1, <2>2, <3>1, FilesFrame
  <2>3. ASSUME NEW v \in At({"work"}), worker = "failed",
               Settle(v, raw[v], wav[v], retained[v]), UNCHANGED retained
        PROVE  FilesOf(u)'
    <3>1. v \in Utterances /\ stage[v] = "work" /\ retained[v] \in BOOLEAN
      BY <2>3 DEF At, TypeOK
    <3>2. raw[v] = "unresolved" /\ wav[v] = "unresolved"
      BY <2>3, <3>1, <1>11 DEF FilesOf
    <3> QED
      BY <2>1, <2>3, <3>1, <3>2, <1>10
  <2>4. ASSUME NEW v \in At({"work"}), worker \in {"decoding", "published", "rejected"},
               retained' = [retained EXCEPT ![v] = Kept(v, TRUE, TRUE)],
               Settle(v, Moved(raw[v], TRUE), Moved(wav[v], TRUE), Kept(v, TRUE, TRUE))
        PROVE  FilesOf(u)'
    <3>1. v \in Utterances /\ stage[v] = "work"
      BY DEF At
    <3> QED
      BY <2>1, <2>4, <3>1, <1>13
  <2> QED
    BY <1>15, <2>2, <2>3, <2>4 DEF StopWorker, MoveResults
<1>16. ASSUME NEW S \in SUBSET Utterances, RetainAll(S, S, S),
              \A v \in S : stage[v] \in {"queue", "gate"},
              UNCHANGED <<threads, worker, published>>
       PROVE  FilesOf(u)'
  <2>1. CASE u \in S
    <3>1. /\ stage'[u] = "settled" /\ raw'[u] = Moved(raw[u], TRUE)
          /\ wav'[u] = Moved(wav[u], TRUE)
      BY <1>16, <2>1 DEF RetainAll
    <3>2. raw'[u] = "unresolved" /\ wav'[u] = "unresolved"
      BY <1>0, <1>16, <2>1, <3>1, Retained DEF FilesOf
    <3>3. u \notin threads
      BY <1>0, <1>16, <2>1 DEF FilesOf
    <3> QED
      BY <1>16, <3>1, <3>2, <3>3 DEF FilesOf, Durable
  <2>2. CASE u \notin S
    BY <1>16, <2>2, FilesFrame DEF RetainAll
  <2> QED
    BY <2>1, <2>2
<1>17. CASE DrainQueue
  <2>1. RetainAll(At({"queue"}), At({"queue"}), At({"queue"}))
    BY <1>17 DEF DrainQueue, MovedOf
  <2>2. UNCHANGED <<threads, worker, published>>
    BY <1>17 DEF DrainQueue
  <2>3. At({"queue"}) \subseteq Utterances /\ \A v \in At({"queue"}) : stage[v] = "queue"
    BY DEF At
  <2> QED
    BY <1>16, <2>1, <2>2, <2>3
<1>18. CASE SweepGate
  <2>1. RetainAll(pending_gate, pending_gate, pending_gate)
    BY <1>18 DEF SweepGate, MovedOf
  <2>2. UNCHANGED <<threads, worker, published>>
    BY <1>18 DEF SweepGate
  <2>3. pending_gate \subseteq Utterances /\ \A v \in pending_gate : stage[v] = "gate"
    BY DEF pending_gate, At
  <2> QED
    BY <1>16, <2>1, <2>2, <2>3
<1>19. CASE Exit \/ Crash
  <2>1. LoseMemory
    BY <1>19 DEF Exit, Crash
  <2>2. /\ threads' = {} /\ ~retained'[u] /\ UNCHANGED <<published, raw, wav>>
        /\ stage'[u] = IF stage[u] = "writing" THEN "abandoned"
                       ELSE IF stage[u] \in {"gate", "group", "queue", "work"}
                       THEN "orphaned" ELSE stage[u]
    BY <2>1 DEF LoseMemory
  <2>3. CASE stage[u] = "work"
    <3>1. worker \notin {"idle", "stopped"}
      BY <2>3 DEF WorkInv, At
    <3>2. raw[u] \in Durable /\ wav[u] = raw[u]
      BY <1>0, <2>3, <3>1 DEF FilesOf, Spooled, Durable
    <3> QED
      BY <2>2, <2>3, <3>2 DEF FilesOf, Durable
  <2>4. CASE stage[u] # "work"
    BY <1>0, <2>2, <2>4 DEF FilesOf, Spooled, Durable
  <2> QED
    BY <2>3, <2>4
<1>20. CASE Restart
  <2>1. stage[u] \notin {"gate", "group", "queue", "work"}
    BY <1>20 DEF Restart, WorkInv, At
  <2>2. UNCHANGED <<threads, stage, retained, published>>
    BY <1>20 DEF Restart
  <2>3. /\ raw'[u] = IF raw[u] \in {"tmp", "spool"} THEN "unresolved" ELSE raw[u]
        /\ wav'[u] = IF wav[u] \in {"tmp", "spool"} THEN "unresolved" ELSE wav[u]
    BY <1>20 DEF Restart, MovedOf
  <2> QED
    BY <1>0, <2>1, <2>2, <2>3 DEF FilesOf, Durable
<1>21. CASE StopGate \/ UNCHANGED vars
  BY <1>21, FilesFrame DEF StopGate, vars, workVars
<1> QED
  BY <1>1, <1>2, <1>3, <1>4, <1>5, <1>6, <1>8, <1>9, <1>12, <1>14, <1>15, <1>17,
     <1>18, <1>19, <1>20, <1>21 DEF Next, Handler, WorkOn
-----------------------------------------------------------------------------
LEMMA FilesInit == Init => FilesInv
  BY DEF Init, FilesInv

\* PipelineInv, the inductive invariant the run final_order checks.
THEOREM PipelineInvariant == Spec => []PipelineInv
<1>1. Init => PipelineInv
  BY StructureInit, FilesInit DEF PipelineInv, StructureInv
<1>2. PipelineInv /\ [Next]_vars => PipelineInv'
  <2> SUFFICES ASSUME PipelineInv, [Next]_vars PROVE PipelineInv'
    OBVIOUS
  <2>1. TypeOK' /\ QueueInv' /\ WorkInv' /\ FreshInv'
    BY TypeStep, QueueStep, WorkStep, FreshStep DEF PipelineInv
  <2>2. ~MovesFail => FilesInv'
    BY FilesStep DEF PipelineInv
  <2> QED
    BY <2>1, <2>2 DEF PipelineInv
<1> QED
  BY <1>1, <1>2, PTL DEF Spec

\* Custody of submitted audio, for every number of clients, segments, spool ids,
\* restarts and gate capacity, with crashes and failing spool writes.
THEOREM CustodyHolds == ASSUME ~MovesFail PROVE Spec => []Custody
<1>1. PipelineInv => Custody
  <2> SUFFICES ASSUME PipelineInv, NEW u \in Utterances,
                      stage[u] \in {"gate", "group", "queue", "work", "settled", "orphaned"}
               PROVE  u \in published \/ (raw[u] \in Durable /\ wav[u] \in Durable)
    BY DEF Custody
  <2>1. stage[u] = "work" => worker \notin {"idle", "stopped"}
    BY DEF PipelineInv, WorkInv, At
  <2> QED
    BY <2>1 DEF PipelineInv, FilesInv, Spooled, Durable
<1> QED
  BY <1>1, PipelineInvariant, PTL
-----------------------------------------------------------------------------
(* FinalPipeline implements AudioCustody.                                  *)

\* A step in which every audio either keeps its holder or goes to the unresolved
\* directory is a Quarantine, of the empty set for a stuttering step.
LEMMA QuarantineStep ==
  ASSUME \A u \in Utterances :
           \/ Holder(u)' = Holder(u)
           \/ Holder(u)' = "quarantined" /\ Holder(u) # "erased"
  PROVE  Custodian!Next
<1> DEFINE S == {u \in Utterances : Holder(u)' = "quarantined" /\ Holder(u) # "quarantined"}
           holder == [u \in Utterances |-> Holder(u)]
<1>1. \A u \in S : holder[u] \in {"volatile", "spooled", "published"}
  BY DEF Holder
<1>2. holder' = [u \in Utterances |-> IF u \in S THEN "quarantined" ELSE holder[u]]
  OBVIOUS
<1>3. Custodian!Quarantine(S)
  BY <1>1, <1>2 DEF Custodian!Quarantine
<1> QED
  BY <1>3 DEF Custodian!Next

\* A step that changes the holder of one utterance only.
LEMMA OneHolderStep ==
  ASSUME NEW v \in Utterances, NEW h,
         Holder(v)' = h, \A u \in Utterances : u # v => Holder(u)' = Holder(u)
  PROVE  [u \in Utterances |-> Holder(u)]' =
           [[u \in Utterances |-> Holder(u)] EXCEPT ![v] = h]
  OBVIOUS

LEMMA HolderFrame ==
  ASSUME NEW u, raw'[u] = raw[u], wav'[u] = wav[u], u \in published' <=> u \in published
  PROVE  Holder(u)' = Holder(u)
  BY DEF Holder, Spooled

\* The unresolved directory is never emptied by the service.
LEMMA RefinementStep ==
  ASSUME ~MovesFail, PipelineInv, [Next]_vars
  PROVE  Custodian!Next
<1> USE DEF PipelineInv
<1>0. ASSUME NEW u \in Utterances
      PROVE  FilesOf(u)
  BY FilesAreFilesOf
<1>1. ASSUME UNCHANGED <<published, raw, wav>>
      PROVE  Custodian!Next
  BY <1>1, HolderFrame, QuarantineStep
<1>2. ASSUME NEW c \in Clients, Handler(c)
      PROVE  Custodian!Next
  <2>1. UNCHANGED <<published, raw, wav>>
    BY <1>2 DEF Handler, Connect, Begin, DropShort, StorageExhausted, StartFlush,
       WriteRaises, Submit, FinishFlush, Disconnect, Leave, CancelHandler, workVars
  <2> QED
    BY <2>1, <1>1
<1>3. ASSUME NEW v \in Utterances, WriteRawTmp(v) \/ WriteWavTmp(v) \/ RenameRaw(v)
      PROVE  Custodian!Next
  <2>1. v \notin published
    BY <1>3, <1>0 DEF WriteRawTmp, WriteWavTmp, RenameRaw, FilesOf
  <2>2. Holder(v)' = Holder(v)
    BY <1>3, <2>1 DEF WriteRawTmp, WriteWavTmp, RenameRaw, Holder, Spooled, workVars, TypeOK
  <2>3. \A u \in Utterances : u # v => Holder(u)' = Holder(u)
    BY <1>3, HolderFrame DEF WriteRawTmp, WriteWavTmp, RenameRaw, workVars, TypeOK
  <2> QED
    BY <2>2, <2>3, QuarantineStep
<1>4. ASSUME NEW v \in Utterances, RenameWav(v)
      PROVE  Custodian!Next
  <2>1. v \notin published
    BY <1>4, <1>0 DEF RenameWav, FilesOf
  <2>2. Holder(v) = "volatile" /\ Holder(v)' = "spooled"
    BY <1>4, <2>1 DEF RenameWav, Holder, Spooled, workVars, TypeOK
  <2>3. \A u \in Utterances : u # v => Holder(u)' = Holder(u)
    BY <1>4, HolderFrame DEF RenameWav, workVars, TypeOK
  <2>4. Custodian!Spool(v)
    BY <2>2, <2>3, OneHolderStep DEF Custodian!Spool
  <2> QED
    BY <2>4 DEF Custodian!Next
<1>5. ASSUME NEW v \in Utterances, Publish(v)
      PROVE  Custodian!Next
  <2>1. Spooled(v) /\ v \notin published
    BY <1>5, <1>0 DEF Publish, FilesOf
  <2>2. Holder(v) = "spooled" /\ Holder(v)' = "published"
    BY <1>5, <2>1 DEF Publish, Holder, Spooled
  <2>3. \A u \in Utterances : u # v => Holder(u)' = Holder(u)
    BY <1>5, HolderFrame DEF Publish
  <2>4. Custodian!Publish(v)
    BY <2>2, <2>3, OneHolderStep DEF Custodian!Publish
  <2> QED
    BY <2>4 DEF Custodian!Next
\* What retains one utterance: it was spooled, or is already unresolved.
<1>6. ASSUME NEW v \in Utterances, UNCHANGED published,
             raw'[v] = "unresolved", Holder(v) # "erased",
             \A u \in Utterances : u # v => raw'[u] = raw[u] /\ wav'[u] = wav[u]
      PROVE  Custodian!Next
  <2>1. Holder(v)' = "quarantined"
    BY <1>6 DEF Holder
  <2>2. \A u \in Utterances : u # v => Holder(u)' = Holder(u)
    BY <1>6, HolderFrame
  <2> QED
    BY <1>6, <2>1, <2>2, QuarantineStep
<1>7. ASSUME NEW v \in Utterances, stage[v] = "work"
      PROVE  /\ Spooled(v) \/ raw[v] = "unresolved"
             /\ Holder(v) # "erased"
             /\ Moved(raw[v], TRUE) = "unresolved"
             /\ worker \in {"rejected", "failed"} => raw[v] = "unresolved" /\ wav[v] = "unresolved"
             /\ worker = "published" => Spooled(v) /\ ~retained[v] /\ v \in published
  BY <1>7, <1>0, Retained DEF FilesOf, Holder, Spooled, Moved
<1>8. ASSUME NEW v \in Utterances, Refuse(v)
      PROVE  Custodian!Next
  <2>1. Retain(v, TRUE, TRUE) /\ UNCHANGED published /\ stage[v] = "work"
    BY <1>8 DEF Refuse, MoveResults
  <2> QED
    BY <2>1, <1>6, <1>7 DEF Retain, TypeOK
<1>9. ASSUME NEW v \in Utterances, stage[v] = "work", UNCHANGED published,
             Settle(v, Moved(raw[v], TRUE), Moved(wav[v], TRUE), Kept(v, TRUE, TRUE))
      PROVE  Custodian!Next
  <2>1. raw'[v] = "unresolved"
    BY <1>9, <1>7, Retained DEF Settle, TypeOK
  <2> QED
    BY <1>9, <1>6, <1>7, <2>1 DEF Settle, TypeOK
<1>10. ASSUME NEW v \in Utterances, RefuseSilently(v)
       PROVE  Custodian!Next
  BY <1>9, <1>10 DEF RefuseSilently, MoveResults
<1>11. ASSUME NEW v \in Utterances, stage[v] = "work", UNCHANGED published,
              worker \in {"rejected", "failed"}, Settle(v, raw[v], wav[v], retained[v])
       PROVE  Custodian!Next
  <2>1. raw'[v] = "unresolved"
    BY <1>11, <1>7, Retained DEF Settle, TypeOK
  <2> QED
    BY <1>11, <1>6, <1>7, <2>1 DEF Settle, TypeOK
<1>12. ASSUME NEW v \in Utterances, Finish(v)
       PROVE  Custodian!Next
  <2>1. CASE worker = "published"
    <3>1. Spooled(v) /\ ~retained[v] /\ v \in published /\ published' = published
      BY <1>12, <2>1, <1>7 DEF Finish
    <3>2. Holder(v) = "published" /\ Holder(v)' = "erased"
      BY <1>12, <3>1 DEF Finish, Settle, Unlinked, Holder, Spooled, TypeOK
    <3>3. \A u \in Utterances : u # v => Holder(u)' = Holder(u)
      BY <1>12, HolderFrame DEF Finish, Settle, TypeOK
    <3>4. Custodian!Erase(v)
      BY <3>2, <3>3, OneHolderStep DEF Custodian!Erase
    <3> QED
      BY <3>4 DEF Custodian!Next
  <2>2. CASE worker # "published"
    BY <1>12, <2>2, <1>11 DEF Finish
  <2> QED
    BY <2>1, <2>2
<1>13. CASE OpenGate \/ ForwardNext \/ Take \/ StopGate \/ Exit \/ Crash \/ UNCHANGED vars
  BY <1>13, <1>1 DEF OpenGate, ForwardNext, Take, StopGate, Exit, Crash, LoseMemory,
     vars, workVars
<1>14. CASE StopWorker
  <2>1. UNCHANGED published
    BY <1>14 DEF StopWorker
  <2>2. ASSUME NEW v \in At({"work"})
        PROVE  v \in Utterances /\ stage[v] = "work"
    BY DEF At
  <2> QED
    BY <1>14, <2>1, <2>2, <1>1, <1>9, <1>11 DEF StopWorker, MoveResults
<1>15. ASSUME NEW S \in SUBSET Utterances, RetainAll(S, S, S),
              \A v \in S : stage[v] \in {"queue", "gate"}, UNCHANGED published
       PROVE  Custodian!Next
  <2>1. ASSUME NEW u \in Utterances
        PROVE  \/ Holder(u)' = Holder(u)
               \/ Holder(u)' = "quarantined" /\ Holder(u) # "erased"
    <3>1. CASE u \in S
      <4>1. Spooled(u)
        BY <1>15, <3>1, <1>0 DEF FilesOf
      <4>2. raw'[u] = "unresolved"
        BY <1>15, <3>1, <4>1, Retained DEF RetainAll
      <4> QED
        BY <4>1, <4>2 DEF Holder, Spooled
    <3>2. CASE u \notin S
      BY <1>15, <3>2, HolderFrame DEF RetainAll
    <3> QED
      BY <3>1, <3>2
  <2> QED
    BY <2>1, QuarantineStep
<1>16. CASE DrainQueue \/ SweepGate
  <2>1. PICK S \in SUBSET Utterances :
          RetainAll(S, S, S) /\ \A v \in S : stage[v] \in {"queue", "gate"}
    BY <1>16 DEF DrainQueue, SweepGate, MovedOf, pending_gate, At
  <2> QED
    BY <1>16, <2>1, <1>15 DEF DrainQueue, SweepGate
<1>17. CASE Restart
  <2>1. ASSUME NEW u \in Utterances
        PROVE  \/ Holder(u)' = Holder(u)
               \/ Holder(u)' = "quarantined" /\ Holder(u) # "erased"
    <3>1. /\ raw'[u] = IF raw[u] \in {"tmp", "spool"} THEN "unresolved" ELSE raw[u]
          /\ wav'[u] = IF wav[u] \in {"tmp", "spool"} THEN "unresolved" ELSE wav[u]
          /\ published' = published
      BY <1>17 DEF Restart, MovedOf
    <3>2. stage[u] \notin {"gate", "group", "queue", "work"}
      BY <1>17 DEF Restart, WorkInv, At
    <3>3. u \in published => \/ raw[u] \in Durable /\ wav[u] = raw[u]
                             \/ raw[u] = "deleted" /\ wav[u] = "deleted"
      BY <3>2, <1>0 DEF FilesOf, TypeOK, Stage
    <3> QED
      BY <3>1, <3>3 DEF Holder, Spooled, Durable
  <2> QED
    BY <2>1, QuarantineStep
<1> QED
  BY <1>1, <1>2, <1>3, <1>4, <1>5, <1>8, <1>10, <1>12, <1>13, <1>14, <1>16, <1>17
     DEF Next, WriterThread, WorkOn, ThreadEnds, workVars

\* The pipeline implements the custody specification: it erases no audio whose text
\* was not published, and takes nothing out of the unresolved directory.
THEOREM PipelineRefinesCustody == ASSUME ~MovesFail PROVE Spec => CustodyRefined
<1>1. Init => Custodian!Init
  BY DEF Init, Custodian!Init, Holder, Spooled
<1>2. PipelineInv /\ [Next]_vars => Custodian!Next
  BY RefinementStep
<1> QED
  BY <1>1, <1>2, PipelineInvariant, PTL DEF Spec, CustodyRefined, Custodian!Spec
=============================================================================
