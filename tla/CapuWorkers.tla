---------------------------- MODULE CapuWorkers ----------------------------
(***************************************************************************)
(* Punctuation ("CAPU") of a transcription: the child processes of         *)
(* stt-capu (lib.rs), the thread that talks to each of them, and the cache *)
(* of stt-http (main.rs) through which requests share one.                 *)
(*                                                                         *)
(* A request runs its part on a thread of its own; each worker has a       *)
(* thread that passes commands to the child, one at a time, and takes the  *)
(* next line it prints for the answer.  An action is what happens between  *)
(* two operations on shared state (the cache mutex, the poisoned flag, a   *)
(* channel, a pipe of the child).  A worker is named by the request that   *)
(* spawned it and by that request's attempt.  All requests here have the   *)
(* same cache key; requests of other keys share nothing.                   *)
(***************************************************************************)
EXTENDS Naturals, Sequences, FiniteSets

CONSTANTS
  Requests,     \* transcription requests whose model asks for CAPU
  NoWorker,     \* no worker
  Long,         \* requests whose result has two texts (segments), not one
  Mortal,       \* bound: attempts whose child may exit by itself
  Chatty        \* bound: attempts whose child may print lines of its own

ASSUME CapuAssumption ==
  /\ NoWorker \notin Requests \X (1..2)
  /\ Long \subseteq Requests
  /\ Mortal \subseteq 1..2 /\ Chatty \subseteq 1..2

Workers == Requests \X (1..2)
\* The ping of the handshake (0), or a text: of which attempt of which request.
Commands == Requests \X (1..2) \X (0..2)
NoCommand == <<>>
\* Errors a command can end in: of the pipe or of the JSON, or end of file.
Failures == {"broken", "unavailable"}
Responses == {"ok", "refused"}
Replies == Responses \cup Failures
\* A line of the child: its answer to a command, or something that is no JSON.
Noise == <<"broken", NoCommand>>
Lines == (Responses \X Commands) \cup {Noise}

VARIABLES
  step,      \* where apply_postprocess of each request is
  attempt,   \* 1, or 2 for the retry
  client,    \* the worker whose CapuClient the request holds
  parts,     \* texts still to be processed
  call,      \* where WorkerProcess::send of the request is, or its result
  reply,     \* what was put into its response channel
  source,    \* the command to which the child gave that as its answer
  result,    \* what the postprocessing came to
  failedOn,  \* history: workers whose failure made the request give up on them
  left,      \* requests whose handler was dropped
  capu,      \* the cached worker
  thread,    \* worker_loop of each worker
  serving,   \* the command the thread handles
  queue,     \* commands in the request channel
  pending,   \* commands written to the child that it has not answered
  stdout,    \* lines of the child that were not read
  child,     \* the child process
  poisoned,
  dropping,  \* WorkerProcess::drop of each worker: how far it is
  drops      \* the worker whose drop the request's thread runs

requestVars == <<step, attempt, parts, result, failedOn>>
callVars == <<call, reply, source>>
pipeVars == <<pending, stdout>>
threadVars == <<thread, serving, queue, pipeVars>>
dropVars == <<dropping, drops>>
capuVars == <<requestVars, client, callVars, left, capu, threadVars, child,
              poisoned, dropVars>>

CapuInit ==
  /\ step = [r \in Requests |-> "none"]
  /\ attempt = [r \in Requests |-> 1]
  /\ client = [r \in Requests |-> NoWorker]
  /\ parts = [r \in Requests |-> 0]
  /\ call = [r \in Requests |-> "idle"]
  /\ reply = [r \in Requests |-> "none"]
  /\ source = [r \in Requests |-> NoCommand]
  /\ result = [r \in Requests |-> "none"]
  /\ failedOn = [r \in Requests |-> {}]
  /\ left = {}
  /\ capu = NoWorker
  /\ thread = [w \in Workers |-> "none"]
  /\ serving = [w \in Workers |-> <<>>]
  /\ queue = [w \in Workers |-> <<>>]
  /\ pending = [w \in Workers |-> <<>>]
  /\ stdout = [w \in Workers |-> <<>>]
  /\ child = [w \in Workers |-> "none"]
  /\ poisoned = {}
  /\ dropping = [w \in Workers |-> "no"]
  /\ drops = [r \in Requests |-> NoWorker]
-----------------------------------------------------------------------------
(* Who owns a worker: an Arc in the cache and one in each client.          *)

\* Seeded defect: a worker that leaves the cache is torn down at once.
NotCached(r, w, cache) == cache # w
\* No Arc of w is left when the cache is `cache' and r gives its client up.
LastHolder(r, w, cache) ==
  cache # w /\ \A q \in Requests \ {r} : client[q] # w

\* r gives up its client; the last owner's thread runs WorkerProcess::drop,
\* which closes the command channel ...
Release(r) ==
  /\ client' = [client EXCEPT ![r] = NoWorker]
  /\ drops' = IF LastHolder(r, client[r], capu)
                THEN [drops EXCEPT ![r] = client[r]] ELSE drops
  /\ dropping' = IF LastHolder(r, client[r], capu)
                   THEN [dropping EXCEPT ![client[r]] = "closed"] ELSE dropping

\* The thread of r is not inside a drop.
Free(r) == drops[r] = NoWorker
\* The cache mutex: evict_capu drops the worker it removes under the lock.
Texts(r) == IF r \in Long THEN 2 ELSE 1
CacheFree == \A r \in Requests : step[r] = "get" => Free(r)

Stopped(w) == thread[w] = "ended"

\* Seeded defect: terminate leaves a child that still runs alone.
Spare(w) == child
Kill(w) == [child EXCEPT ![w] = "dead"]

\* ... terminates the child ...
DropTerminates(r) ==
  /\ ~Free(r) /\ dropping[drops[r]] = "closed"
  /\ dropping' = [dropping EXCEPT ![drops[r]] = "terminated"]
  /\ child' = Kill(drops[r])
  /\ UNCHANGED <<requestVars, client, callVars, left, capu, threadVars,
                 poisoned, drops>>

\* ... and joins the thread; then the worker's memory is freed.
DropJoins(r) ==
  /\ ~Free(r) /\ dropping[drops[r]] = "terminated" /\ Stopped(drops[r])
  /\ dropping' = [dropping EXCEPT ![drops[r]] = "done"]
  /\ drops' = [drops EXCEPT ![r] = NoWorker]
  /\ poisoned' = poisoned \ {drops[r]}
  /\ UNCHANGED <<requestVars, client, callVars, left, capu, threadVars, child>>
-----------------------------------------------------------------------------
(* WorkerProcess::send, on the thread of the request.                      *)

Calling(r, at) == call[r] = at /\ Free(r)
Command(r) == <<r, attempt[r], IF step[r] = "shake" THEN 0 ELSE parts[r]>>

SendChecks(r) ==
  /\ Calling(r, "check")
  /\ call' = [call EXCEPT ![r] = IF client[r] \in poisoned
                                   THEN "unavailable" ELSE "enqueue"]
  /\ UNCHANGED <<requestVars, client, reply, source, left, capu, threadVars, child,
                 poisoned, dropVars>>

\* The channel's receiver is gone once the thread has ended.
SendEnqueues(r) ==
  /\ Calling(r, "enqueue")
  /\ \/ /\ Stopped(client[r])
        /\ call' = [call EXCEPT ![r] = "unavailable"]
        /\ poisoned' = poisoned \cup {client[r]}
        /\ UNCHANGED queue
     \/ /\ ~Stopped(client[r])
        /\ call' = [call EXCEPT ![r] = "awaiting"]
        /\ queue' = [queue EXCEPT ![client[r]] = Append(@, Command(r))]
        /\ UNCHANGED poisoned
  /\ UNCHANGED <<requestVars, client, reply, source, left, capu, thread, serving,
                 pipeVars, child, dropVars>>

\* A reply arrived; an error poisons the worker.
Receive(r) ==
  /\ Calling(r, "awaiting") /\ reply[r] # "none"
  /\ call' = [call EXCEPT ![r] = reply[r]]
  /\ reply' = [reply EXCEPT ![r] = "none"]
  /\ source' = [source EXCEPT ![r] = NoCommand]
  /\ poisoned' = IF reply[r] \in Failures
                   THEN poisoned \cup {client[r]} ELSE poisoned
  /\ UNCHANGED <<requestVars, client, left, capu, threadVars, child, dropVars>>

\* The timeout of the worker is over first: terminate the child.
Timeout(r) ==
  /\ Calling(r, "awaiting") /\ reply[r] = "none"
  /\ call' = [call EXCEPT ![r] = "timeout"]
  /\ poisoned' = poisoned \cup {client[r]}
  /\ child' = Kill(client[r])
  /\ UNCHANGED <<requestVars, client, reply, source, left, capu, threadVars, dropVars>>

\* The thread ended with the command unanswered.
Disconnected(r) ==
  /\ Calling(r, "awaiting") /\ reply[r] = "none" /\ Stopped(client[r])
  /\ call' = [call EXCEPT ![r] = "unavailable"]
  /\ poisoned' = poisoned \cup {client[r]}
  /\ UNCHANGED <<requestVars, client, reply, source, left, capu, threadVars, child,
                 dropVars>>

Send(r) ==
  SendChecks(r) \/ SendEnqueues(r) \/ Receive(r) \/ Timeout(r)
    \/ Disconnected(r)
-----------------------------------------------------------------------------
(* worker_loop and the child.                                              *)

\* The response channel of the command c is still being read.
Listening(w, c) ==
  client[c[1]] = w /\ call[c[1]] = "awaiting" /\ Command(c[1]) = c
\* What was read for the command c goes to its channel, whatever it answers.
Deliver(w, c, line) ==
  IF Listening(w, c)
    THEN /\ reply' = [reply EXCEPT ![c[1]] = line[1]]
         /\ source' = [source EXCEPT ![c[1]] = line[2]]
    ELSE UNCHANGED <<reply, source>>

\* The next command: written to the child, or the write fails on a dead one.
TakeCommand(w) ==
  /\ thread[w] = "waiting" /\ queue[w] # <<>>
  /\ queue' = [queue EXCEPT ![w] = Tail(@)]
  /\ \/ /\ child[w] = "up"
        /\ serving' = [serving EXCEPT ![w] = <<Head(queue[w])>>]
        /\ pending' = [pending EXCEPT ![w] = Append(@, Head(queue[w]))]
        /\ thread' = [thread EXCEPT ![w] = "reading"]
        /\ UNCHANGED <<reply, source>>
     \/ /\ child[w] = "dead"
        /\ Deliver(w, Head(queue[w]), Noise)
        /\ thread' = [thread EXCEPT ![w] = "stopping"]
        /\ UNCHANGED <<serving, pending>>
  /\ UNCHANGED <<requestVars, client, call, left, capu, stdout, child, poisoned,
                 dropVars>>

\* Seeded defect: a line that is no JSON fails the command and nothing else.
Goes(line) == "waiting"
Stops(line) == IF line = Noise THEN "stopping" ELSE "waiting"

\* read_line takes the child's next line for the answer.
ReadsLine(w) ==
  LET line == Head(stdout[w]) IN
  /\ thread[w] = "reading" /\ stdout[w] # <<>>
  /\ stdout' = [stdout EXCEPT ![w] = Tail(@)]
  /\ Deliver(w, serving[w][1], line)
  /\ serving' = [serving EXCEPT ![w] = <<>>]
  /\ thread' = [thread EXCEPT ![w] = Stops(line)]
  /\ UNCHANGED <<requestVars, client, call, left, capu, queue, pending, child,
                 poisoned, dropVars>>

\* read_line returns nothing: the child is gone.
ReadsEnd(w) ==
  /\ thread[w] = "reading" /\ stdout[w] = <<>> /\ child[w] = "dead"
  /\ Deliver(w, serving[w][1], <<"unavailable", NoCommand>>)
  /\ serving' = [serving EXCEPT ![w] = <<>>]
  /\ thread' = [thread EXCEPT ![w] = "stopping"]
  /\ UNCHANGED <<requestVars, client, call, left, capu, queue, pipeVars, child,
                 poisoned, dropVars>>

\* Nobody reads from a child whose thread has ended.
ClosePipes(w) ==
  /\ pending' = [pending EXCEPT ![w] = <<>>]
  /\ stdout' = [stdout EXCEPT ![w] = <<>>]

\* After an error: reap the child and leave the loop; what is queued is lost.
StopThread(w) ==
  /\ thread[w] = "stopping"
  /\ thread' = [thread EXCEPT ![w] = "ended"]
  /\ child' = Kill(w)
  /\ queue' = [queue EXCEPT ![w] = <<>>]
  /\ ClosePipes(w)
  /\ UNCHANGED <<requestVars, client, callVars, left, capu, serving, poisoned,
                 dropVars>>

\* Seeded defect: drop joins the thread with its sender still in the struct.
StillOpen(w) == FALSE
SenderTaken(w) == dropping[w] # "no"

\* All senders are gone and the channel is empty.
EndThread(w) ==
  /\ thread[w] = "waiting" /\ queue[w] = <<>> /\ SenderTaken(w)
  /\ thread' = [thread EXCEPT ![w] = "ended"]
  /\ ClosePipes(w)
  /\ UNCHANGED <<requestVars, client, callVars, left, capu, serving, queue,
                 child, poisoned, dropVars>>

\* The child (external) answers each command with one line, a result or an error of
\* its own; one that fails to start answers the ping with an error, and exits.
ChildAnswers(w, what) ==
  /\ child[w] = "up" /\ pending[w] # <<>>
  /\ pending' = [pending EXCEPT ![w] = Tail(@)]
  /\ stdout' = [stdout EXCEPT ![w] = Append(@, <<what, Head(pending[w])>>)]
  /\ UNCHANGED <<requestVars, client, callVars, left, capu, thread, serving, queue,
                 child, poisoned, dropVars>>

\* A library prints to the child's standard output.
ChildPrints(w) ==
  /\ child[w] = "up" /\ thread[w] # "ended" /\ w[2] \in Chatty
  /\ \A i \in DOMAIN stdout[w] : stdout[w][i] # Noise
  /\ stdout' = [stdout EXCEPT ![w] = Append(@, Noise)]
  /\ UNCHANGED <<requestVars, client, callVars, left, capu, thread, serving, queue,
                 pending, child, poisoned, dropVars>>

\* The child exits by itself: a crash, the kernel's OOM killer.
ChildDies(w) ==
  /\ child[w] = "up" /\ w[2] \in Mortal
  /\ child' = Kill(w)
  /\ UNCHANGED <<requestVars, client, callVars, left, capu, threadVars,
                 poisoned, dropVars>>

WorkerThread(w) ==
  TakeCommand(w) \/ ReadsLine(w) \/ ReadsEnd(w) \/ StopThread(w) \/ EndThread(w)
-----------------------------------------------------------------------------
(* apply_postprocess: get or build, process, evict and retry once.         *)

At(r, where) == step[r] = where /\ Free(r)
Handled(r, where) == At(r, where) /\ r \notin left
Goto(r, where) == step' = [step EXCEPT ![r] = where]
Becomes(r, what) == result' = [result EXCEPT ![r] = what]

GetCached(r) ==
  /\ Handled(r, "get") /\ CacheFree /\ capu # NoWorker
  /\ client' = [client EXCEPT ![r] = capu]
  /\ parts' = [parts EXCEPT ![r] = Texts(r)]
  /\ call' = [call EXCEPT ![r] = "check"]
  /\ Goto(r, "process")
  /\ UNCHANGED <<attempt, result, failedOn, reply, source, left, capu, threadVars,
                 child, poisoned, dropVars>>

Misses(r) == Handled(r, "get") /\ CacheFree /\ capu = NoWorker

\* A model directory, the overlay or the executable is missing.
SpawnFails(r) ==
  /\ Misses(r)
  /\ Goto(r, "done") /\ Becomes(r, "not_built")
  /\ UNCHANGED <<attempt, parts, failedOn, client, callVars, left, capu,
                 threadVars, child, poisoned, dropVars>>

\* A child and its thread; the handshake is a command like any other.
Spawn(r) ==
  LET w == <<r, attempt[r]>> IN
  /\ Misses(r)
  /\ client' = [client EXCEPT ![r] = w]
  /\ child' = [child EXCEPT ![w] = "up"]
  /\ thread' = [thread EXCEPT ![w] = "waiting"]
  /\ call' = [call EXCEPT ![r] = "enqueue"]
  /\ Goto(r, "shake")
  /\ UNCHANGED <<attempt, parts, result, failedOn, reply, source, left, capu,
                 serving, queue, pipeVars, poisoned, dropVars>>

Unfinished == {"idle", "check", "enqueue", "awaiting"}

\* "handshake failed" hides what failed; a worker that failed is dropped.
Shaken(r) ==
  /\ At(r, "shake") /\ call[r] \notin Unfinished
  /\ call' = [call EXCEPT ![r] = "idle"]
  /\ \/ /\ call[r] = "ok"
        /\ Goto(r, "insert")
        /\ UNCHANGED <<result, client, dropVars>>
     \/ /\ call[r] # "ok"
        /\ Goto(r, "done") /\ Becomes(r, "not_built")
        /\ Release(r)
  /\ UNCHANGED <<attempt, parts, failedOn, reply, source, left, capu, threadVars,
                 child, poisoned>>

\* The cache was filled meanwhile: keep that worker and drop the own one.
Insert(r) ==
  /\ Handled(r, "insert") /\ CacheFree
  /\ parts' = [parts EXCEPT ![r] = Texts(r)]
  /\ call' = [call EXCEPT ![r] = "check"]
  /\ Goto(r, "process")
  /\ \/ /\ capu = NoWorker
        /\ capu' = client[r]
        /\ UNCHANGED <<client, dropVars>>
     \/ /\ capu # NoWorker
        /\ client' = [client EXCEPT ![r] = capu]
        /\ drops' = [drops EXCEPT ![r] = client[r]]
        /\ dropping' = [dropping EXCEPT ![client[r]] = "closed"]
        /\ UNCHANGED capu
  /\ UNCHANGED <<attempt, result, failedOn, reply, source, left, threadVars, child,
                 poisoned>>

\* Seeded defect: the loop over the segments runs once too often.
OneMore(r) == parts[r] >= 1
PartsLeft(r) == parts[r] > 1

NextPart(r) ==
  /\ At(r, "process") /\ call[r] = "ok" /\ PartsLeft(r)
  /\ parts' = [parts EXCEPT ![r] = @ - 1]
  /\ call' = [call EXCEPT ![r] = "check"]
  /\ UNCHANGED <<step, attempt, result, failedOn, client, reply, source, left, capu,
                 threadVars, child, poisoned, dropVars>>

Retryable(what) == what \in {"unavailable", "timeout"}

\* The blocking task ends and drops its client.
Processed(r) ==
  /\ At(r, "process") /\ call[r] \notin Unfinished
  /\ call[r] = "ok" => ~PartsLeft(r)
  /\ call' = [call EXCEPT ![r] = "idle"]
  /\ Release(r)
  /\ IF Retryable(call[r])
       THEN failedOn' = [failedOn EXCEPT ![r] = @ \cup {client[r]}]
       ELSE UNCHANGED failedOn
  /\ IF Retryable(call[r]) /\ attempt[r] = 1
       THEN Goto(r, "evict") /\ UNCHANGED result
       ELSE Goto(r, "done") /\ Becomes(r, call[r])
  /\ UNCHANGED <<attempt, parts, reply, source, left, capu, threadVars, child,
                 poisoned>>

\* Seeded defect: the failed worker stays in the cache.
Uncached(w) == w
Emptied(w) == NoWorker

\* evict_capu removes whatever is cached by now; the lock is given back once
\* the removed worker is gone.
Evict(r) ==
  /\ Handled(r, "evict") /\ CacheFree
  /\ capu' = Emptied(capu)
  /\ IF capu # NoWorker /\ LastHolder(r, capu, Emptied(capu))
       THEN /\ drops' = [drops EXCEPT ![r] = capu]
            /\ dropping' = [dropping EXCEPT ![capu] = "closed"]
       ELSE UNCHANGED dropVars
  /\ attempt' = [attempt EXCEPT ![r] = 2]
  /\ Goto(r, "get")
  /\ UNCHANGED <<parts, result, failedOn, client, callVars, left, threadVars,
                 child, poisoned>>

\* A handler that was dropped goes no further; a worker just built goes too.
Abandon(r) ==
  /\ r \in left /\ Free(r)
  /\ step[r] \in {"get", "insert", "evict"}
  /\ Goto(r, "done") /\ Becomes(r, "gone")
  /\ IF client[r] = NoWorker THEN UNCHANGED <<client, dropVars>>
       ELSE Release(r)
  /\ UNCHANGED <<attempt, parts, failedOn, callVars, left, capu, threadVars,
                 child, poisoned>>

Drop(r) == DropTerminates(r) \/ DropJoins(r)

\* Everything the threads of request r do: drop a worker, get hold of one or give
\* one up, and call it.
Postprocess(r) ==
  \/ Drop(r)
  \/ /\ call[r] = "idle"
     /\ \/ GetCached(r) \/ SpawnFails(r) \/ Spawn(r) \/ Insert(r) \/ Evict(r)
        \/ Abandon(r)
  \/ /\ call[r] # "idle"
     /\ Send(r) \/ Shaken(r) \/ NextPart(r) \/ Processed(r)
-----------------------------------------------------------------------------
CallStates == {"idle", "check", "enqueue", "awaiting", "timeout"} \cup Replies
Steps == {"none", "get", "shake", "insert", "process", "evict", "done"}
Results == {"none", "ok", "gone", "not_built", "refused", "timeout"}
             \cup Failures

CapuTypeOK ==
  /\ step \in [Requests -> Steps] /\ attempt \in [Requests -> 1..2]
  /\ client \in [Requests -> Workers \cup {NoWorker}]
  /\ parts \in [Requests -> 0..2]
  /\ \A r \in Requests : step[r] = "process" => parts[r] > 0
  /\ call \in [Requests -> CallStates]
  /\ reply \in [Requests -> {"none"} \cup Replies]
  /\ source \in [Requests -> Commands \cup {NoCommand}]
  /\ result \in [Requests -> Results]
  /\ failedOn \in [Requests -> SUBSET Workers] /\ left \subseteq Requests
  /\ capu \in Workers \cup {NoWorker} /\ poisoned \subseteq Workers
  /\ thread \in [Workers -> {"none", "waiting", "reading", "stopping",
                             "ended"}]
  /\ serving \in [Workers -> Seq(Commands)]
  /\ queue \in [Workers -> Seq(Commands)]
  /\ pending \in [Workers -> Seq(Commands)]
  /\ stdout \in [Workers -> Seq(Lines)]
  /\ child \in [Workers -> {"none", "up", "dead"}]
  /\ dropping \in [Workers -> {"no", "closed", "terminated", "done"}]
  /\ drops \in [Requests -> Workers \cup {NoWorker}]
=============================================================================
