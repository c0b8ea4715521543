---------------------------- MODULE FinalPipeline ----------------------------
(***************************************************************************)
(* The FINAL audio pipeline of meeting-server (server.py): a captured      *)
(* segment is held in the client's RAM buffer, written to the persistent   *)
(* spool as a PCM/WAV pair by a worker thread, submitted to the pre-STT    *)
(* gate, forwarded to the FINAL queue, decoded by the utterance worker and *)
(* then either published into a transcript row (and its files deleted) or  *)
(* retained in the unresolved directory.  Shutdown (Meeting.stop), a crash *)
(* and the start-up quarantine (init_storage) are part of the model.       *)
(*                                                                         *)
(* One asyncio event loop runs all of it: an action is what the code does  *)
(* between two suspension points.  The spool writer is a thread, and its   *)
(* file operations are separate steps.                                     *)
(***************************************************************************)
EXTENDS Naturals, Sequences, FiniteSets

CONSTANTS
  Clients,       \* WebSocket sessions (client ids are never reused)
  MaxSegments,   \* bound: segments one session captures
  MaxTries,      \* bound: spool ids one segment is written under
  GateCapacity,  \* PRE_STT_GATE_PENDING_CAPACITY
  MaxRestarts,   \* bound: how often the service is started again
  WritesFail,    \* whether spool writes may raise (disk full, I/O error)
  MovesFail,     \* whether a move into the unresolved directory may raise
  Drops          \* whether the service may stop or crash

ASSUME PipelineAssumption ==
  /\ IsFiniteSet(Clients)
  /\ MaxSegments \in Nat \ {0}
  /\ MaxTries \in Nat \ {0}
  /\ GateCapacity \in Nat \ {0}
  /\ MaxRestarts \in Nat
  /\ WritesFail \in BOOLEAN
  /\ MovesFail \in BOOLEAN
  /\ Drops \in BOOLEAN

-----------------------------------------------------------------------------
\* A captured segment, and one attempt to publish it under a fresh spool id.
Segments == Clients \X (1..MaxSegments)
Utterances == Clients \X (1..MaxSegments) \X (1..MaxTries)
SegmentOf(u) == <<u[1], u[2]>>

\* The key (client_id, turn_id) of turn_rows and turn_pending; turn 0 is none.
Keys == Clients \X (0..MaxSegments)

Life == {"running", "gate-stopped", "worker-stopped", "drained", "swept",
         "exited", "crashed"}
Up == {"running", "gate-stopped", "worker-stopped", "drained", "swept"}
File == {"none", "tmp", "spool", "unresolved", "deleted"}
Stage == {"none", "writing", "abandoned", "gate", "group", "queue", "work",
          "settled", "orphaned"}
Worker == {"idle", "decoding", "published", "rejected", "failed", "stopped"}

VARIABLES
  life,        \* which part of start()/stop() the process has reached
  restarts,    \* how often it was started again
  session,     \* the WebSocket handler of each client
  flush,       \* where that handler is inside _flush_client_segment
  active,      \* client.current_id is set
  begun,       \* how many segments the session has begun
  try,         \* spool ids used for the current segment
  turnOf,      \* the logical turn each segment belongs to
  threads,     \* utterances whose _materialize_final_audio thread runs
  stage,       \* where each utterance is
  received,    \* gate_received_at
  clock,       \* time.monotonic(), in arrivals
  queue,       \* asyncio.Queue of FINAL utterances
  turnPending, \* turn_pending
  worker,      \* where the utterance worker is
  retained,    \* utterance.retain_audio
  raw, wav,    \* the two files of each utterance
  published,   \* utterances whose text was committed to a transcript row
  announced    \* utterances whose clients were told the audio is retained

handlerVars == <<session, flush, active, begun, try, turnOf>>
gateVars == <<received, clock, queue>>
workVars == <<worker, retained, published, announced>>
vars == <<life, restarts, handlerVars, threads, stage, gateVars, turnPending,
          workVars, raw, wav>>

-----------------------------------------------------------------------------
\* The spool id the handler of c is writing: final-<client>-<uuid>.
Flushing(c) == <<c, begun[c], try[c]>>

KeyOf(u) == <<u[1], turnOf[SegmentOf(u)]>>

At(where) == {u \in Utterances : stage[u] \in where}
pending_gate == At({"gate"})

\* Seeded defect: the newest arrival leaves the gate first.
NewestFirst(S) == {u \in S : \A v \in S : received[u] >= received[v]}

\* min(ready, key=gate_received_at), and the list order of pending_gate.
Oldest(S) == {u \in S : \A v \in S : received[u] <= received[v]}

\* Seeded defects: a settled utterance is not counted down, or is counted down by
\* the except clause and again by the finally, without max(0, ...).
LessForgotten(n) == n
LessTwice(n) == n - 2

\* turn_pending[key] = max(0, turn_pending[key] - 1), dropped at 0.
Less(n) == IF n > 0 THEN n - 1 ELSE 0

\* shutil.move of one spool file, which exists() guards.
Moved(file, ok) == IF file = "spool" /\ ok THEN "unresolved" ELSE file
MoveResults == IF MovesFail THEN BOOLEAN ELSE {TRUE}

\* Seeded defect: the unlink follows the file into the unresolved directory.
UnlinkedAnywhere(file) ==
  IF file \in {"spool", "unresolved"} THEN "deleted" ELSE file

\* path.unlink(missing_ok=True) of a spool path.
Unlinked(file) == IF file = "spool" THEN "deleted" ELSE file

\* _retain_audio(u): what it returns when the moves end as okRaw and okWav say.
Kept(u, okRaw, okWav) == \/ raw[u] = "spool" /\ okRaw
                         \/ wav[u] = "spool" /\ okWav

Init ==
  /\ life = "running" /\ restarts = 0
  /\ session = [c \in Clients |-> "new"]
  /\ flush = [c \in Clients |-> "capture"]
  /\ active = [c \in Clients |-> FALSE]
  /\ begun = [c \in Clients |-> 0]
  /\ try = [c \in Clients |-> 1]
  /\ turnOf = [s \in Segments |-> 0]
  /\ threads = {}
  /\ stage = [u \in Utterances |-> "none"]
  /\ received = [u \in Utterances |-> 0]
  /\ clock = 0
  /\ queue = <<>>
  /\ turnPending = [k \in Keys |-> 0]
  /\ worker = "idle"
  /\ retained = [u \in Utterances |-> FALSE]
  /\ raw = [u \in Utterances |-> "none"]
  /\ wav = [u \in Utterances |-> "none"]
  /\ published = {}
  /\ announced = {}
-----------------------------------------------------------------------------
(* The WebSocket handler of one client.                                    *)

Connect(c) ==
  /\ life = "running" /\ session[c] = "new"
  /\ session' = [session EXCEPT ![c] = "open"]
  /\ UNCHANGED <<life, restarts, flush, active, begun, try, turnOf, threads,
                 stage, gateVars, turnPending, workVars, raw, wav>>

\* _begin_segment: a fresh segment continues the logical turn or starts one.
Begin(c) ==
  /\ life \in Up /\ session[c] = "open" /\ flush[c] = "capture"
  /\ ~active[c] /\ begun[c] < MaxSegments
  /\ \E fresh \in {0, 1} :
       LET n == begun[c] + 1
           previous == IF n = 1 THEN 0 ELSE turnOf[<<c, n - 1>>]
       IN /\ previous = 0 => fresh = 1
          /\ turnOf' = [turnOf EXCEPT ![<<c, n>>] = previous + fresh]
          /\ begun' = [begun EXCEPT ![c] = n]
  /\ active' = [active EXCEPT ![c] = TRUE]
  /\ try' = [try EXCEPT ![c] = 1]
  /\ UNCHANGED <<life, restarts, session, flush, threads, stage, gateVars,
                 turnPending, workVars, raw, wav>>

\* _flush_client_segment of less than MIN_UTTERANCE_BYTES of speech.
DropShort(c) ==
  /\ life \in Up /\ session[c] \in {"open", "closing"}
  /\ flush[c] = "capture" /\ active[c]
  /\ active' = [active EXCEPT ![c] = FALSE]
  /\ UNCHANGED <<life, restarts, session, flush, begun, try, turnOf, threads,
                 stage, gateVars, turnPending, workVars, raw, wav>>

\* An exception leaves _flush_client_segment with current_id still set: it ends
\* the message loop (or is logged, while capture is stopped for an STT outage);
\* in the handler's finally it is logged and the RAM audio goes with the session.
FlushRaised(c) ==
  /\ \/ session[c] = "open" /\ session' = [session EXCEPT ![c] = "closing"]
     \/ session[c] = "open" /\ UNCHANGED session
     \/ session[c] = "closing" /\ session' = [session EXCEPT ![c] = "gone"]
  /\ active' = [active EXCEPT ![c] = session[c] = "open"]
  /\ flush' = [flush EXCEPT ![c] = "capture"]

\* RuntimeError("final-audio-storage-exhausted"), raised before any file.
StorageExhausted(c) ==
  /\ life \in Up /\ WritesFail
  /\ flush[c] = "capture" /\ active[c]
  /\ FlushRaised(c)
  /\ UNCHANGED <<life, restarts, begun, try, turnOf, threads, stage, gateVars,
                 turnPending, workVars, raw, wav>>

\* A long enough segment goes to asyncio.to_thread(_materialize_final_audio).
\* Bound: the last spool id is left to the flush in the handler's finally.
StartFlush(c) ==
  /\ life \in Up /\ flush[c] = "capture" /\ active[c]
  /\ \/ session[c] = "closing"
     \/ session[c] = "open" /\ (MaxTries = 1 \/ try[c] < MaxTries)
  /\ flush' = [flush EXCEPT ![c] = "writing"]
  /\ stage' = [stage EXCEPT ![Flushing(c)] = "writing"]
  /\ threads' = threads \cup {Flushing(c)}
  /\ UNCHANGED <<life, restarts, session, active, begun, try, turnOf, gateVars,
                 turnPending, workVars, raw, wav>>
-----------------------------------------------------------------------------
(* The spool writer thread: both temporary files are fsynced before either *)
(* final name becomes visible.                                             *)

Spooled(u) == raw[u] = "spool" /\ wav[u] = "spool"

WriteRawTmp(u) ==
  /\ life \in Up /\ u \in threads /\ raw[u] = "none"
  /\ raw' = [raw EXCEPT ![u] = "tmp"]
  /\ UNCHANGED <<life, restarts, handlerVars, threads, stage, gateVars,
                 turnPending, workVars, wav>>

WriteWavTmp(u) ==
  /\ life \in Up /\ u \in threads /\ raw[u] = "tmp" /\ wav[u] = "none"
  /\ wav' = [wav EXCEPT ![u] = "tmp"]
  /\ UNCHANGED <<life, restarts, handlerVars, threads, stage, gateVars,
                 turnPending, workVars, raw>>

RenameRaw(u) ==
  /\ life \in Up /\ u \in threads /\ raw[u] = "tmp" /\ wav[u] = "tmp"
  /\ raw' = [raw EXCEPT ![u] = "spool"]
  /\ UNCHANGED <<life, restarts, handlerVars, threads, stage, gateVars,
                 turnPending, workVars, wav>>

RenameWav(u) ==
  /\ life \in Up /\ u \in threads /\ raw[u] = "spool" /\ wav[u] = "tmp"
  /\ wav' = [wav EXCEPT ![u] = "spool"]
  /\ UNCHANGED <<life, restarts, handlerVars, threads, stage, gateVars,
                 turnPending, workVars, raw>>

\* The thread of an abandoned flush ends and nobody awaits it.
ThreadEnds(u) ==
  /\ life \in Up /\ u \in threads /\ stage[u] = "abandoned"
  /\ Spooled(u) \/ WritesFail
  /\ threads' = threads \ {u}
  /\ UNCHANGED <<life, restarts, handlerVars, stage, gateVars, turnPending,
                 workVars, raw, wav>>

\* Seeded defect: the next flush of the segment uses the same spool id.
SameSpoolId(n) == n

\* uuid4 of the next flush of a segment.
NextSpoolId(n) == IF n < MaxTries THEN n + 1 ELSE n

\* A write or a rename raises: what was written stays in the spool, and the
\* next flush of the same RAM audio uses a new spool id.
WriteRaises(c) ==
  /\ life \in Up /\ WritesFail /\ flush[c] = "writing"
  /\ LET u == Flushing(c)
     IN /\ ~Spooled(u)
        /\ threads' = threads \ {u}
        /\ stage' = [stage EXCEPT ![u] = "abandoned"]
  /\ FlushRaised(c)
  /\ try' = [try EXCEPT ![c] = NextSpoolId(@)]
  /\ try[c] = MaxTries => session'[c] = "gone"
  /\ UNCHANGED <<life, restarts, begun, turnOf, gateVars, turnPending,
                 workVars, raw, wav>>
-----------------------------------------------------------------------------
(* Submission, the pre-STT gate and the FINAL queue.                       *)

\* The thread returned: submit_utterance counts the utterance and puts it into
\* the gate, or straight into the queue when the gate is full.
Submit(c) ==
  LET u == Flushing(c)
  IN /\ life \in Up /\ flush[c] = "writing" /\ Spooled(u)
     /\ threads' = threads \ {u}
     /\ turnPending' = [turnPending EXCEPT ![KeyOf(u)] = @ + 1]
     /\ clock' = clock + 1
     /\ received' = [received EXCEPT ![u] = clock + 1]
     /\ IF Cardinality(pending_gate) >= GateCapacity
        THEN /\ queue' = Append(queue, u)
             /\ stage' = [stage EXCEPT ![u] = "queue"]
        ELSE /\ stage' = [stage EXCEPT ![u] = "gate"]
             /\ UNCHANGED queue
     /\ flush' = [flush EXCEPT ![c] = "announcing"]
     /\ UNCHANGED <<life, restarts, session, active, begun, try, turnOf,
                    workVars, raw, wav>>

\* The broadcasts after the submission are done; keep_overlap opens the next
\* segment of the turn at once, with the tail of this one.
FinishFlush(c) ==
  /\ life \in Up /\ flush[c] = "announcing"
  /\ flush' = [flush EXCEPT ![c] = "capture"]
  /\ \E keep_overlap \in BOOLEAN :
       /\ keep_overlap => session[c] = "open" /\ begun[c] < MaxSegments
       /\ active' = [active EXCEPT ![c] = keep_overlap]
       /\ IF keep_overlap
          THEN /\ begun' = [begun EXCEPT ![c] = @ + 1]
               /\ turnOf' = [turnOf EXCEPT ![<<c, begun[c] + 1>>] =
                                           turnOf[<<c, begun[c]>>]]
               /\ try' = [try EXCEPT ![c] = 1]
          ELSE UNCHANGED <<begun, turnOf, try>>
  /\ UNCHANGED <<life, restarts, session, threads, stage, gateVars,
                 turnPending, workVars, raw, wav>>

\* The socket closes; the handler's finally flushes what is still in RAM.
Disconnect(c) ==
  /\ life \in Up /\ session[c] = "open" /\ flush[c] = "capture"
  /\ session' = [session EXCEPT ![c] = "closing"]
  /\ UNCHANGED <<life, restarts, flush, active, begun, try, turnOf, threads,
                 stage, gateVars, turnPending, workVars, raw, wav>>

Leave(c) ==
  /\ life \in Up /\ session[c] = "closing" /\ flush[c] = "capture"
  /\ ~active[c]
  /\ session' = [session EXCEPT ![c] = "gone"]
  /\ UNCHANGED <<life, restarts, flush, active, begun, try, turnOf, threads,
                 stage, gateVars, turnPending, workVars, raw, wav>>

\* _flush_pre_stt_gate: the oldest utterance has been held long enough; with it
\* leave those of other clients in the same capture window (any subset: which
\* ones is acoustics).  The first one is put without a suspension in between.
OpenGate ==
  /\ life = "running" /\ At({"group"}) = {}
  /\ \E seed \in Oldest(pending_gate) :
       \E others \in SUBSET {u \in pending_gate : u[1] # seed[1]} :
         /\ stage' = [u \in Utterances |->
                        IF u = seed THEN "queue"
                        ELSE IF u \in others THEN "group" ELSE stage[u]]
         /\ queue' = Append(queue, seed)
  /\ UNCHANGED <<life, restarts, handlerVars, threads, received, clock,
                 turnPending, workVars, raw, wav>>

\* _forward_pre_stt_group goes on after the broadcast about the item before.
ForwardNext ==
  /\ life = "running"
  /\ \E u \in Oldest(At({"group"})) :
       /\ queue' = Append(queue, u)
       /\ stage' = [stage EXCEPT ![u] = "queue"]
  /\ UNCHANGED <<life, restarts, handlerVars, threads, received, clock,
                 turnPending, workVars, raw, wav>>
-----------------------------------------------------------------------------
(* The utterance worker.                                                   *)

Take ==
  /\ life \in {"running", "gate-stopped"} /\ worker = "idle" /\ queue # <<>>
  /\ stage' = [stage EXCEPT ![Head(queue)] = "work"]
  /\ queue' = Tail(queue)
  /\ worker' = "decoding"
  /\ UNCHANGED <<life, restarts, handlerVars, threads, received, clock,
                 turnPending, retained, published, announced, raw, wav>>

\* The transcript row is committed before the broadcasts about it.
Publish(u) ==
  /\ life \in Up /\ worker = "decoding" /\ stage[u] = "work"
  /\ published' = published \cup {u}
  /\ worker' = "published"
  /\ UNCHANGED <<life, restarts, handlerVars, threads, stage, gateVars,
                 turnPending, retained, announced, raw, wav>>

\* Seeded defect: the refusal is announced, and nothing is moved.
RetainNothing(u, okRaw, okWav) == UNCHANGED <<raw, wav, retained>>

\* _retain_audio, in a step of its own.
Retain(u, okRaw, okWav) ==
  /\ raw' = [raw EXCEPT ![u] = Moved(@, okRaw)]
  /\ wav' = [wav EXCEPT ![u] = Moved(@, okWav)]
  /\ retained' = [retained EXCEPT ![u] = Kept(u, okRaw, okWav)]

\* A quality reason retains the audio and says so (audio_retained); an exception
\* of the VIT request does so in the worker's except clause.
Refuse(u) ==
  /\ life \in Up /\ worker = "decoding" /\ stage[u] = "work"
  /\ \E okRaw, okWav \in MoveResults : Retain(u, okRaw, okWav)
  /\ announced' = announced \cup {u}
  /\ worker' \in {"rejected", "failed"}
  /\ UNCHANGED <<life, restarts, handlerVars, threads, stage, gateVars,
                 turnPending, published>>

\* The worker's finally: the turn's count goes down, and the spool files of an
\* utterance that was not retained are deleted.
Settle(u, rawNow, wavNow, kept) ==
  /\ turnPending' = [turnPending EXCEPT ![KeyOf(u)] = Less(@)]
  /\ raw' = [raw EXCEPT ![u] = IF kept THEN rawNow ELSE Unlinked(rawNow)]
  /\ wav' = [wav EXCEPT ![u] = IF kept THEN wavNow ELSE Unlinked(wavNow)]
  /\ stage' = [stage EXCEPT ![u] = "settled"]

\* Seeded defect: an exception of the VIT request ends the worker's iteration.
FinishUnlessFailed(u) ==
  /\ life \in Up /\ worker \in {"published", "rejected"} /\ stage[u] = "work"
  /\ Settle(u, raw[u], wav[u], retained[u])
  /\ worker' = "idle"
  /\ UNCHANGED <<life, restarts, handlerVars, threads, gateVars, retained,
                 published, announced>>

Finish(u) ==
  /\ life \in Up /\ worker \in {"published", "rejected", "failed"}
  /\ stage[u] = "work"
  /\ Settle(u, raw[u], wav[u], retained[u])
  /\ worker' = "idle"
  /\ UNCHANGED <<life, restarts, handlerVars, threads, gateVars, retained,
                 published, announced>>

\* An ERR, a SKIP or an unsupported language retains the audio silently, with no
\* suspension before the finally.
RefuseSilently(u) ==
  /\ life \in Up /\ worker = "decoding" /\ stage[u] = "work"
  /\ \E okRaw, okWav \in MoveResults :
       /\ retained' = [retained EXCEPT ![u] = Kept(u, okRaw, okWav)]
       /\ Settle(u, Moved(raw[u], okRaw), Moved(wav[u], okWav),
                 Kept(u, okRaw, okWav))
  /\ worker' = "idle"
  /\ UNCHANGED <<life, restarts, handlerVars, threads, gateVars, published,
                 announced>>
-----------------------------------------------------------------------------
(* Meeting.stop(), a crash, and the next start.                            *)

\* SIGTERM: the gate worker is cancelled wherever it is suspended.  What it had
\* taken out of the gate but not yet put into the queue stays where it is.
StopGate ==
  /\ Drops /\ life = "running"
  /\ life' = "gate-stopped"
  /\ UNCHANGED <<restarts, handlerVars, threads, stage, gateVars, turnPending,
                 workVars, raw, wav>>

\* The utterance worker is cancelled: an utterance in decoding or in a broadcast
\* of the try block is retained as final-cancelled; inside the except clause only
\* the finally runs.
StopWorker ==
  /\ life = "gate-stopped"
  /\ life' = "worker-stopped" /\ worker' = "stopped"
  /\ \/ /\ worker = "idle"
        /\ UNCHANGED <<stage, turnPending, retained, raw, wav>>
     \/ \E u \in At({"work"}) :
          \/ /\ worker = "failed"
             /\ Settle(u, raw[u], wav[u], retained[u])
             /\ UNCHANGED retained
          \/ /\ worker \in {"decoding", "published", "rejected"}
             /\ \E okRaw, okWav \in MoveResults :
                  /\ retained' = [retained EXCEPT ![u] = Kept(u, okRaw, okWav)]
                  /\ Settle(u, Moved(raw[u], okRaw), Moved(wav[u], okWav),
                            Kept(u, okRaw, okWav))
  /\ UNCHANGED <<restarts, handlerVars, threads, gateVars, published,
                 announced>>

\* _retain_audio of a set of waiting utterances: ok holds the moves that succeed.
RetainAll(waiting, okRaw, okWav) ==
  /\ raw' = [u \in Utterances |->
               IF u \in waiting THEN Moved(raw[u], u \in okRaw) ELSE raw[u]]
  /\ wav' = [u \in Utterances |->
               IF u \in waiting THEN Moved(wav[u], u \in okWav) ELSE wav[u]]
  /\ retained' = [u \in Utterances |->
                    IF u \in waiting THEN Kept(u, u \in okRaw, u \in okWav)
                                     ELSE retained[u]]
  /\ stage' = [u \in Utterances |->
                 IF u \in waiting THEN "settled" ELSE stage[u]]

MovedOf(waiting) == IF MovesFail THEN SUBSET waiting ELSE {waiting}

DrainQueue ==
  /\ life = "worker-stopped"
  /\ life' = "drained"
  /\ \E okRaw, okWav \in MovedOf(At({"queue"})) :
       RetainAll(At({"queue"}), okRaw, okWav)
  /\ queue' = <<>>
  /\ turnPending' = [k \in Keys |->
       LET waiting == Cardinality({u \in At({"queue"}) : KeyOf(u) = k})
       IN IF turnPending[k] > waiting THEN turnPending[k] - waiting ELSE 0]
  /\ UNCHANGED <<restarts, handlerVars, threads, received, clock, worker,
                 published, announced>>

SweepGate ==
  /\ life = "drained"
  /\ life' = "swept"
  /\ \E okRaw, okWav \in MovedOf(pending_gate) :
       RetainAll(pending_gate, okRaw, okWav)
  /\ UNCHANGED <<restarts, handlerVars, threads, gateVars, turnPending, worker,
                 published, announced>>

\* While the application shuts down a handler still connected is cancelled: an
\* open one runs its finally, which flushes the current segment (again, under a
\* new spool id, if it was being written or announced); one already in its
\* finally ends at once.
CancelHandler(c) ==
  /\ life \in Up \ {"running"} /\ session[c] \in {"open", "closing"}
  /\ session' = [session EXCEPT ![c] = IF @ = "open" THEN "closing" ELSE "gone"]
  /\ active' = [active EXCEPT ![c] = @ /\ session[c] = "open"]
  /\ flush' = [flush EXCEPT ![c] = "capture"]
  /\ IF flush[c] = "writing"
     THEN stage' = [stage EXCEPT ![Flushing(c)] = "abandoned"]
     ELSE UNCHANGED stage
  /\ flush[c] # "capture" /\ session[c] = "open" => try[c] < MaxTries
  /\ try' = [try EXCEPT ![c] = IF flush[c] # "capture" THEN NextSpoolId(@) ELSE @]
  /\ UNCHANGED <<life, restarts, begun, turnOf, threads, gateVars, turnPending,
                 workVars, raw, wav>>

\* The process ends, after stop() or at any point: memory is gone, files stay.
LoseMemory ==
  /\ session' = [c \in Clients |->
                   IF session[c] = "new" THEN "new" ELSE "gone"]
  /\ flush' = [c \in Clients |-> "capture"]
  /\ active' = [c \in Clients |-> FALSE]
  /\ threads' = {}
  /\ stage' = [u \in Utterances |->
                 IF stage[u] = "writing" THEN "abandoned"
                 ELSE IF stage[u] \in {"gate", "group", "queue", "work"}
                 THEN "orphaned" ELSE stage[u]]
  /\ queue' = <<>>
  /\ turnPending' = [k \in Keys |-> 0]
  /\ worker' = "stopped"
  /\ try' = [c \in Clients |-> 1]
  /\ received' = [u \in Utterances |-> 0]
  /\ clock' = 0
  /\ retained' = [u \in Utterances |-> FALSE]
  /\ UNCHANGED <<restarts, begun, turnOf, published, announced, raw, wav>>

Exit == life = "swept" /\ life' = "exited" /\ LoseMemory
Crash == Drops /\ life \in Up /\ life' = "crashed" /\ LoseMemory

\* init_storage: every file left in the spool is moved to the unresolved
\* directory (a temporary one as startup-partial); a move that fails is logged.
Restart ==
  /\ life \in {"exited", "crashed"} /\ restarts < MaxRestarts
  /\ life' = "running" /\ restarts' = restarts + 1 /\ worker' = "idle"
  /\ LET Left(file) == {u \in Utterances : file[u] \in {"tmp", "spool"}}
         Quarantined(file, ok) == [u \in Utterances |->
           IF u \in ok THEN "unresolved" ELSE file[u]]
     IN /\ \E ok \in MovedOf(Left(raw)) : raw' = Quarantined(raw, ok)
        /\ \E ok \in MovedOf(Left(wav)) : wav' = Quarantined(wav, ok)
  /\ UNCHANGED <<handlerVars, threads, stage, gateVars, turnPending, retained,
                 published, announced>>
-----------------------------------------------------------------------------
Handler(c) ==
  \/ Connect(c) \/ Begin(c) \/ DropShort(c) \/ StorageExhausted(c)
  \/ StartFlush(c) \/ WriteRaises(c) \/ Submit(c) \/ FinishFlush(c)
  \/ Disconnect(c) \/ Leave(c) \/ CancelHandler(c)

WriterThread(u) ==
  \/ WriteRawTmp(u) \/ WriteWavTmp(u) \/ RenameRaw(u) \/ RenameWav(u)
  \/ ThreadEnds(u)

WorkOn(u) == Publish(u) \/ Refuse(u) \/ RefuseSilently(u) \/ Finish(u)

Next ==
  \/ \E c \in Clients : Handler(c)
  \/ \E u \in Utterances : WriterThread(u) \/ WorkOn(u)
  \/ OpenGate \/ ForwardNext \/ Take
  \/ StopGate \/ StopWorker \/ DrainQueue \/ SweepGate \/ Exit
  \/ Crash \/ Restart

Spec == Init /\ [][Next]_vars

\* The event loop runs every ready task; VIT requests have a timeout; threads
\* and broadcasts end.  Nothing is assumed of clients, failures or restarts.
Fairness ==
  /\ WF_vars(OpenGate) /\ WF_vars(ForwardNext) /\ WF_vars(Take)
  /\ WF_vars(\E u \in Utterances : WorkOn(u))

FairSpec == Spec /\ Fairness
-----------------------------------------------------------------------------
(* Properties.                                                             *)

TypeOK ==
  /\ life \in Life
  /\ restarts \in 0..MaxRestarts
  /\ session \in [Clients -> {"new", "open", "closing", "gone"}]
  /\ flush \in [Clients -> {"capture", "writing", "announcing"}]
  /\ active \in [Clients -> BOOLEAN]
  /\ begun \in [Clients -> 0..MaxSegments]
  /\ try \in [Clients -> 1..MaxTries]
  /\ turnOf \in [Segments -> 0..MaxSegments]
  /\ threads \in SUBSET Utterances
  /\ stage \in [Utterances -> Stage]
  /\ received \in [Utterances -> Nat]
  /\ clock \in Nat
  /\ queue \in Seq(Utterances)
  /\ turnPending \in [Keys -> Nat]
  /\ worker \in Worker
  /\ retained \in [Utterances -> BOOLEAN]
  /\ raw \in [Utterances -> File]
  /\ wav \in [Utterances -> File]
  /\ published \in SUBSET Utterances
  /\ announced \in SUBSET Utterances

Durable == {"spool", "unresolved"}

\* Audio custody: as long as no move fails, an utterance that was submitted keeps
\* both files, in the spool or among the unresolved, unless its text was committed
\* to a transcript row - through gate, queue, decoding, refusal, shutdown and crash.
Custody ==
  \A u \in Utterances :
    stage[u] \in {"gate", "group", "queue", "work", "settled", "orphaned"} =>
      u \in published \/ (raw[u] \in Durable /\ wav[u] \in Durable)

\* The clients are told "audio retained" only of audio that is still on disk
\* (_process_utterance and the except clause of _utterance_worker).
AnnouncedIsRetained ==
  \A u \in announced : raw[u] \in Durable \/ wav[u] \in Durable

\* turn_pending counts exactly the utterances of the turn that are submitted and
\* not settled, so that _finalize_turn_after_gap neither runs early nor waits
\* for ever.
PendingExact ==
  life = "running" =>
    \A k \in Keys : turnPending[k] =
      Cardinality({u \in At({"gate", "group", "queue", "work"}) : KeyOf(u) = k})

\* The FINAL windows of one turn are handed to the recogniser in capture order
\* (_merge_rolling_text aligns each window with the text before it), while one
\* session speaks: a gate group may take a later segment of another session first.
CaptureOrder ==
  \A u, v \in Utterances :
    (KeyOf(u) = KeyOf(v) /\ u[2] < v[2] /\ stage[v] \in {"work", "settled"})
      => stage[u] \notin {"gate", "group", "queue"}

\* When stop() has swept queue and gate, no FINAL file waits outside both of them:
\* "Preserve every waiting FINAL file on persistent storage before process exit so
\* shutdown cannot orphan it" (the comment in Meeting.stop).
ShutdownPreservesWaiting == life = "swept" => At({"group"}) = {}

\* Every submitted utterance is decoded to an end, or the service goes down.
EveryFinalSettles ==
  \A u \in Utterances :
    stage[u] \in {"gate", "group", "queue", "work"} ~>
      stage[u] = "settled" \/ life # "running"
-----------------------------------------------------------------------------
(* The inductive invariant behind Custody and the refinement.              *)

\* queue holds the utterances of stage "queue", each once.
QueueInv ==
  /\ \A i \in 1..Len(queue) : stage[queue[i]] = "queue"
  /\ \A i, j \in 1..Len(queue) : queue[i] = queue[j] => i = j

\* The worker holds one utterance, or none; a process that ended holds none.
WorkInv ==
  /\ life \in {"exited", "crashed"} =>
       worker = "stopped" /\ At({"gate", "group", "queue", "work"}) = {}
  /\ worker \in {"idle", "stopped"} => At({"work"}) = {}
  /\ \A u, v \in At({"work"}) : u = v

\* A spool id is used once: what the session has not come to yet is untouched,
\* and what its handler is writing is still in its hands.
Unused(u) ==
  LET c == u[1]
  IN \/ u[2] > begun[c]
     \/ u[2] = begun[c] /\ active[c] /\ u[3] > try[c]
     \/ u = Flushing(c) /\ active[c] /\ flush[c] = "capture"

FreshInv ==
  /\ \A u \in Utterances : Unused(u) => stage[u] = "none"
  /\ \A c \in Clients : flush[c] = "writing" =>
       active[c] /\ stage[Flushing(c)] = "writing"
  /\ \A c \in Clients : active[c] \/ flush[c] # "capture" => begun[c] > 0
  /\ \A c \in Clients : \A n \in 1..begun[c] : turnOf[<<c, n>>] \in 1..n

\* Which files an utterance has at each stage (while moves do not fail).
FilesInv ==
  \A u \in Utterances :
    /\ stage[u] \in {"gate", "group", "queue"} => Spooled(u)
    /\ stage[u] = "work" =>
         CASE worker = "decoding" -> Spooled(u) /\ ~retained[u]
           [] worker = "published" -> Spooled(u) /\ ~retained[u]
           [] OTHER -> raw[u] = "unresolved" /\ wav[u] = "unresolved"
    /\ stage[u] = "work" => (u \in published <=> worker = "published")
    /\ stage[u] \in {"settled", "orphaned"} =>
         \/ raw[u] \in Durable /\ wav[u] = raw[u]
         \/ u \in published /\ raw[u] = "deleted" /\ wav[u] = "deleted"
    /\ stage[u] \in {"none", "writing", "abandoned", "gate", "group", "queue"} =>
         u \notin published /\ ~retained[u]
    /\ u \in threads => stage[u] \in {"writing", "abandoned"}

PipelineInv ==
  TypeOK /\ QueueInv /\ WorkInv /\ FreshInv /\ (~MovesFail => FilesInv)

-----------------------------------------------------------------------------
(* Refinement of the abstract custody specification.                       *)

Holder(u) ==
  IF "unresolved" \in {raw[u], wav[u]} THEN "quarantined"
  ELSE IF u \in published
       THEN IF wav[u] = "spool" THEN "published" ELSE "erased"
       ELSE IF Spooled(u) THEN "spooled" ELSE "volatile"

Custodian == INSTANCE AudioCustody
  WITH Audio <- Utterances, holder <- [u \in Utterances |-> Holder(u)]

\* Every step of the pipeline is a step the custody specification allows: above
\* all, no step erases audio that was never published (_utterance_worker's finally
\* is the only place that deletes spool files).
CustodyRefined == Custodian!Spec
=============================================================================
