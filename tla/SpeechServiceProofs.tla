------------------------- MODULE SpeechServiceProofs -------------------------
(***************************************************************************)
(* For any number of requests, warm-ups and models: the cache constructs a *)
(* recogniser once, and requests that share punctuation workers leave no   *)
(* child process behind, tear none down that is used, give up only when    *)
(* two workers have failed them, and get answers only to their own texts.  *)
(***************************************************************************)
EXTENDS SpeechService, FiniteSetTheorems, TLAPS

Assumptions == CapuAssumption /\ ServiceAssumption

\* Steps during which a request holds a client.
Held == {"shake", "insert", "process"}

\* A request holds a client exactly in those, and calls it only while it shakes
\* hands and processes.
Clients ==
  \A r \in Requests :
    /\ IF step[r] \in Held THEN client[r] \in Workers ELSE client[r] = NoWorker
    /\ step[r] \notin {"shake", "process"} => call[r] = "idle"

Typed == CapuTypeOK /\ Clients
-----------------------------------------------------------------------------
(* Types of the punctuation workers.                                       *)

LEMMA Names == CapuAssumption => NoWorker \notin Workers
BY DEF CapuAssumption, Workers

\* A step of the child of w.
ChildMoves(w) ==
  ChildDies(w) \/ ChildPrints(w) \/ \E what \in Responses : ChildAnswers(w, what)

\* The drop of a worker, wherever it begins.
LEMMA ReleaseTyped ==
  ASSUME Typed, NEW r \in Requests, client[r] \in Workers, Release(r)
  PROVE  /\ client' = [client EXCEPT ![r] = NoWorker]
         /\ drops' \in [Requests -> Workers \cup {NoWorker}]
         /\ dropping' \in [Workers -> {"no", "closed", "terminated", "done"}]
BY DEF Typed, CapuTypeOK, Release

LEMMA CommandTyped ==
  ASSUME Typed, NEW r \in Requests
  PROVE  Command(r) \in Commands
BY DEF Typed, CapuTypeOK, Command, Commands

LEMMA SendTyped ==
  ASSUME Typed, NEW r \in Requests, Send(r)
  PROVE  Typed'
<1> USE DEF Typed, CapuTypeOK, Calling, Clients, Held, CallStates, Replies,
            Responses, Failures, requestVars, threadVars, pipeVars, dropVars
<1>1. CASE SendChecks(r)
  BY <1>1 DEF SendChecks
<1>2. CASE SendEnqueues(r)
  <2>1. client[r] \in Workers /\ step[r] \in {"shake", "process"}
    BY <1>2 DEF SendEnqueues
  <2>2. queue' \in [Workers -> Seq(Commands)]
    <3>1. Command(r) \in Commands
      BY CommandTyped
    <3>2. Append(queue[client[r]], Command(r)) \in Seq(Commands)
      BY <2>1, <3>1
    <3>3. queue' = queue \/ queue' = [queue EXCEPT ![client[r]] = Append(@, Command(r))]
      BY <1>2 DEF SendEnqueues
    <3> QED
      BY <3>2, <3>3
  <2>4. poisoned' \subseteq Workers
    BY <1>2, <2>1 DEF SendEnqueues
  <2>3. /\ call' = [call EXCEPT ![r] = call'[r]]
        /\ call'[r] \in {"unavailable", "awaiting"}
    BY <1>2 DEF SendEnqueues
  <2>5. UNCHANGED <<requestVars, client, reply, source, left, capu, thread, serving,
                    pipeVars, child, dropVars>>
    BY <1>2 DEF SendEnqueues
  <2>6. call' \in [Requests -> CallStates]
    BY <2>3
  <2>7. Clients'
    BY <2>1, <2>3, <2>5
  <2> QED
    BY <2>2, <2>4, <2>5, <2>6, <2>7
<1>3. CASE Receive(r)
  BY <1>3 DEF Receive
<1>4. CASE Timeout(r)
  BY <1>4 DEF Timeout, Kill
<1>5. CASE Disconnected(r)
  BY <1>5 DEF Disconnected
<1> QED
  BY <1>1, <1>2, <1>3, <1>4, <1>5 DEF Send

\* What may be delivered: a line, or that there is none.
Deliverable == Lines \cup {<<"unavailable", NoCommand>>}

LEMMA DeliverTyped ==
  ASSUME Typed, NEW w, NEW c, NEW line \in Deliverable, Deliver(w, c, line)
  PROVE  /\ reply' \in [Requests -> {"none"} \cup Replies]
         /\ source' \in [Requests -> Commands \cup {NoCommand}]
<1>1. line[1] \in Replies /\ line[2] \in Commands \cup {NoCommand}
  BY DEF Deliverable, Lines, Noise, Replies, Responses, Failures
<1> QED
  BY <1>1 DEF Typed, CapuTypeOK, Deliver

LEMMA ThreadTyped ==
  ASSUME Typed, NEW w \in Workers, WorkerThread(w) \/ ChildMoves(w)
  PROVE  Typed'
<1> USE DEF Typed, CapuTypeOK, Clients, requestVars, callVars, threadVars, dropVars
<1>0. /\ Noise \in Deliverable /\ <<"unavailable", NoCommand>> \in Deliverable
      /\ Lines \subseteq Deliverable /\ Noise \in Lines
  BY DEF Deliverable, Lines
<1>1. CASE TakeCommand(w)
  <2>1. Head(queue[w]) \in Commands /\ Tail(queue[w]) \in Seq(Commands)
    BY <1>1 DEF TakeCommand
  <2>2. /\ reply' \in [Requests -> {"none"} \cup Replies]
        /\ source' \in [Requests -> Commands \cup {NoCommand}]
    BY <1>0, <1>1, DeliverTyped DEF TakeCommand
  <2>3. serving' \in [Workers -> Seq(Commands)] /\ pending' \in [Workers -> Seq(Commands)]
    <3>1. /\ <<Head(queue[w])>> \in Seq(Commands)
          /\ Append(pending[w], Head(queue[w])) \in Seq(Commands)
      BY <2>1
    <3>2. /\ serving' = serving \/ serving' = [serving EXCEPT ![w] = <<Head(queue[w])>>]
          /\ pending' = pending
               \/ pending' = [pending EXCEPT ![w] = Append(@, Head(queue[w]))]
      BY <1>1 DEF TakeCommand
    <3> QED
      BY <3>1, <3>2
  <2>4. queue' \in [Workers -> Seq(Commands)]
    BY <1>1, <2>1 DEF TakeCommand
  <2>5. thread' \in [Workers -> {"none", "waiting", "reading", "stopping", "ended"}]
    BY <1>1 DEF TakeCommand
  <2> QED
    BY <1>1, <2>2, <2>3, <2>4, <2>5 DEF TakeCommand
<1>2. CASE ReadsLine(w)
  <2>1. Head(stdout[w]) \in Lines /\ Tail(stdout[w]) \in Seq(Lines)
    BY <1>2 DEF ReadsLine
  <2>2. /\ reply' \in [Requests -> {"none"} \cup Replies]
        /\ source' \in [Requests -> Commands \cup {NoCommand}]
    BY <1>0, <1>2, <2>1, DeliverTyped DEF ReadsLine
  <2>3. /\ stdout' \in [Workers -> Seq(Lines)] /\ serving' \in [Workers -> Seq(Commands)]
        /\ thread' \in [Workers -> {"none", "waiting", "reading", "stopping", "ended"}]
    BY <1>2, <2>1 DEF ReadsLine, Stops
  <2> QED
    BY <1>2, <2>2, <2>3 DEF ReadsLine
<1>3. CASE ReadsEnd(w)
  <2>1. /\ reply' \in [Requests -> {"none"} \cup Replies]
        /\ source' \in [Requests -> Commands \cup {NoCommand}]
    BY <1>0, <1>3, DeliverTyped DEF ReadsEnd
  <2> QED
    BY <1>3, <2>1 DEF ReadsEnd, pipeVars
<1>4. CASE StopThread(w)
  BY <1>4 DEF StopThread, ClosePipes, Kill
<1>5. CASE EndThread(w)
  BY <1>5 DEF EndThread, ClosePipes
<1>6. CASE ChildDies(w)
  BY <1>6 DEF ChildDies, Kill, pipeVars
<1>7. ASSUME NEW what \in Responses, ChildAnswers(w, what)
      PROVE  Typed'
  <2>1. Head(pending[w]) \in Commands /\ Tail(pending[w]) \in Seq(Commands)
    BY <1>7 DEF ChildAnswers
  <2>2. Append(stdout[w], <<what, Head(pending[w])>>) \in Seq(Lines)
    BY <2>1 DEF Lines
  <2> QED
    BY <1>7, <2>1, <2>2 DEF ChildAnswers
<1>8. CASE ChildPrints(w)
  <2>1. Append(stdout[w], Noise) \in Seq(Lines)
    BY <1>0
  <2> QED
    BY <1>8, <2>1 DEF ChildPrints
<1> QED
  BY <1>1, <1>2, <1>3, <1>4, <1>5, <1>6, <1>7, <1>8 DEF WorkerThread, ChildMoves

LEMMA DropTyped ==
  ASSUME Typed, NEW r \in Requests, Drop(r)
  PROVE  Typed'
<1> USE DEF Typed, CapuTypeOK, Clients, requestVars, callVars, threadVars, pipeVars, Free
<1>1. CASE DropTerminates(r)
  BY <1>1 DEF DropTerminates, Kill
<1>2. CASE DropJoins(r)
  BY <1>2 DEF DropJoins
<1> QED
  BY <1>1, <1>2 DEF Drop

\* What a step of the postprocessing may change, and its type.
Moved ==
  /\ step \in [Requests -> Steps] /\ attempt \in [Requests -> 1..2]
  /\ client \in [Requests -> Workers \cup {NoWorker}]
  /\ parts \in [Requests -> 0..2]
  /\ call \in [Requests -> CallStates]
  /\ result \in [Requests -> Results]
  /\ failedOn \in [Requests -> SUBSET Workers]
  /\ capu \in Workers \cup {NoWorker}
  /\ dropping \in [Workers -> {"no", "closed", "terminated", "done"}]
  /\ drops \in [Requests -> Workers \cup {NoWorker}]

Unfinishedness == \A r \in Requests : step[r] = "process" => parts[r] > 0
Unmoved == <<reply, source, left, threadVars, child, poisoned>>

LEMMA MovedTyped ==
  ASSUME Typed, UNCHANGED Unmoved, Moved', Unfinishedness', Clients'
  PROVE  Typed'
BY DEF Typed, CapuTypeOK, Moved, Unfinishedness, Unmoved, threadVars, pipeVars

LEMMA TypedMoved ==
  ASSUME Typed  PROVE Moved /\ Clients /\ Unfinishedness
BY DEF Typed, CapuTypeOK, Moved, Unfinishedness

\* A client that is given up, for a worker or for none.
LEMMA ReleaseMoved ==
  ASSUME Typed, NEW r \in Requests, client[r] \in Workers, Release(r)
  PROVE  /\ client' = [client EXCEPT ![r] = NoWorker]
         /\ client' \in [Requests -> Workers \cup {NoWorker}]
         /\ drops' \in [Requests -> Workers \cup {NoWorker}]
         /\ dropping' \in [Workers -> {"no", "closed", "terminated", "done"}]
<1>1. client' = [client EXCEPT ![r] = NoWorker]
  BY DEF Release
<1>2. client' \in [Requests -> Workers \cup {NoWorker}]
  BY <1>1, TypedMoved DEF Moved
<1> QED
  BY <1>1, <1>2, ReleaseTyped

LEMMA GetCachedTyped ==
  ASSUME CapuAssumption, Typed, NEW r \in Requests, GetCached(r)
  PROVE  Typed'
<1>1. /\ step[r] = "get" /\ step' = [step EXCEPT ![r] = "process"]
      /\ client' = [client EXCEPT ![r] = capu] /\ capu \in Workers
      /\ parts' = [parts EXCEPT ![r] = Texts(r)] /\ Texts(r) \in 1..2
      /\ call' = [call EXCEPT ![r] = "check"]
      /\ UNCHANGED <<attempt, result, failedOn, capu, drops, dropping>>
      /\ UNCHANGED Unmoved
  BY DEF GetCached, Handled, At, Goto, Texts, Typed, CapuTypeOK, dropVars, Unmoved
<1>2. Moved'
  BY <1>1, TypedMoved DEF Moved, Steps, CallStates
<1>3. Unfinishedness'
  BY <1>1, TypedMoved DEF Moved, Unfinishedness
<1>4. Clients'
  BY <1>1, TypedMoved DEF Moved, Clients, Held
<1> QED
  BY <1>1, <1>2, <1>3, <1>4, MovedTyped

LEMMA SpawnFailsTyped ==
  ASSUME CapuAssumption, Typed, NEW r \in Requests, SpawnFails(r)
  PROVE  Typed'
<1>1. /\ step[r] = "get" /\ step' = [step EXCEPT ![r] = "done"]
      /\ result' = [result EXCEPT ![r] = "not_built"]
      /\ UNCHANGED <<attempt, parts, client, call, failedOn, capu, drops, dropping>>
      /\ UNCHANGED Unmoved
  BY DEF SpawnFails, Misses, Handled, At, Goto, Becomes, callVars, dropVars, Unmoved
<1>2. Moved'
  BY <1>1, TypedMoved DEF Moved, Steps, Results
<1>3. Unfinishedness'
  BY <1>1, TypedMoved DEF Moved, Unfinishedness
<1>4. Clients'
  BY <1>1, TypedMoved DEF Moved, Clients, Held
<1> QED
  BY <1>1, <1>2, <1>3, <1>4, MovedTyped

LEMMA SpawnTyped ==
  ASSUME CapuAssumption, Typed, NEW r \in Requests, Spawn(r)
  PROVE  Typed'
<1> DEFINE w == <<r, attempt[r]>>
<1>1. w \in Workers
  BY DEF Workers, Typed, CapuTypeOK
<1>2. /\ step[r] = "get" /\ step' = [step EXCEPT ![r] = "shake"]
      /\ client' = [client EXCEPT ![r] = w]
      /\ call' = [call EXCEPT ![r] = "enqueue"]
      /\ UNCHANGED <<attempt, parts, result, failedOn, capu, drops, dropping>>
      /\ UNCHANGED <<reply, source, left, serving, queue, pending, stdout, poisoned>>
      /\ child' = [child EXCEPT ![w] = "up"]
      /\ thread' = [thread EXCEPT ![w] = "waiting"]
  BY DEF Spawn, Misses, Handled, At, Goto, dropVars, pipeVars
<1> HIDE DEF w
<1>3. Moved'
  BY <1>1, <1>2, TypedMoved DEF Moved, Steps, CallStates
<1>4. Unfinishedness'
  BY <1>2, TypedMoved DEF Moved, Unfinishedness
<1>5. Clients'
  BY <1>1, <1>2, TypedMoved DEF Moved, Clients, Held
<1>6. /\ child' \in [Workers -> {"none", "up", "dead"}]
      /\ thread' \in [Workers -> {"none", "waiting", "reading", "stopping", "ended"}]
  BY <1>1, <1>2 DEF Typed, CapuTypeOK
<1> QED
  BY <1>2, <1>3, <1>4, <1>5, <1>6 DEF Typed, CapuTypeOK, Moved, Unfinishedness

LEMMA ShakenTyped ==
  ASSUME CapuAssumption, Typed, NEW r \in Requests, Shaken(r)
  PROVE  Typed'
<1>1. client[r] \in Workers /\ step[r] = "shake"
  BY TypedMoved DEF Shaken, At, Clients, Held
<1>2. /\ call' = [call EXCEPT ![r] = "idle"]
      /\ UNCHANGED <<attempt, parts, failedOn, capu>>
      /\ UNCHANGED Unmoved
  BY DEF Shaken, Unmoved
<1>3. \/ /\ step' = [step EXCEPT ![r] = "insert"]
         /\ UNCHANGED <<result, client, drops, dropping>>
      \/ /\ step' = [step EXCEPT ![r] = "done"]
         /\ result' = [result EXCEPT ![r] = "not_built"]
         /\ Release(r)
  BY DEF Shaken, Goto, Becomes, dropVars
<1>4. CASE /\ step' = [step EXCEPT ![r] = "insert"]
           /\ UNCHANGED <<result, client, drops, dropping>>
  <2>1. Moved'
    BY <1>2, <1>4, TypedMoved DEF Moved, Steps, CallStates
  <2>2. Unfinishedness'
    BY <1>2, <1>4, TypedMoved DEF Moved, Unfinishedness
  <2>3. Clients'
    BY <1>1, <1>2, <1>4, TypedMoved DEF Moved, Clients, Held
  <2> QED
    BY <1>2, <2>1, <2>2, <2>3, MovedTyped
<1>5. CASE /\ step' = [step EXCEPT ![r] = "done"]
           /\ result' = [result EXCEPT ![r] = "not_built"]
           /\ Release(r)
  <2>1. Moved'
    BY <1>1, <1>2, <1>5, TypedMoved, ReleaseMoved DEF Moved, Steps, CallStates, Results
  <2>2. Unfinishedness'
    BY <1>2, <1>5, TypedMoved DEF Moved, Unfinishedness
  <2>3. Clients'
    BY <1>1, <1>2, <1>5, TypedMoved, ReleaseMoved DEF Moved, Clients, Held
  <2> QED
    BY <1>2, <2>1, <2>2, <2>3, MovedTyped
<1> QED
  BY <1>3, <1>4, <1>5

LEMMA InsertTyped ==
  ASSUME CapuAssumption, Typed, NEW r \in Requests, Insert(r)
  PROVE  Typed'
<1>1. client[r] \in Workers /\ capu \in Workers \cup {NoWorker}
  BY TypedMoved DEF Moved, Insert, Handled, At, Clients, Held
<1>2. /\ parts' = [parts EXCEPT ![r] = Texts(r)] /\ Texts(r) \in 1..2
      /\ call' = [call EXCEPT ![r] = "check"]
      /\ step[r] = "insert" /\ step' = [step EXCEPT ![r] = "process"]
      /\ UNCHANGED <<attempt, result, failedOn>>
      /\ UNCHANGED Unmoved
  BY DEF Insert, Handled, At, Goto, Texts, Unmoved
<1>3. \/ /\ capu = NoWorker /\ capu' = client[r]
         /\ UNCHANGED <<client, drops, dropping>>
      \/ /\ capu # NoWorker /\ capu' = capu
         /\ client' = [client EXCEPT ![r] = capu]
         /\ drops' = [drops EXCEPT ![r] = client[r]]
         /\ dropping' = [dropping EXCEPT ![client[r]] = "closed"]
  BY DEF Insert, dropVars
<1>4. capu' \in Workers \cup {NoWorker}
        /\ client' \in [Requests -> Workers \cup {NoWorker}] /\ client'[r] \in Workers
  BY <1>1, <1>3, TypedMoved DEF Moved
<1>5. \A q \in Requests \ {r} : client'[q] = client[q]
  BY <1>3, TypedMoved DEF Moved
<1>6. drops' \in [Requests -> Workers \cup {NoWorker}]
        /\ dropping' \in [Workers -> {"no", "closed", "terminated", "done"}]
  BY <1>1, <1>3, TypedMoved DEF Moved
<1>7. Moved'
  BY <1>2, <1>4, <1>6, TypedMoved DEF Moved, Steps, CallStates
<1>8. Unfinishedness'
  BY <1>2, TypedMoved DEF Moved, Unfinishedness
<1>9. Clients'
  BY <1>2, <1>4, <1>5, TypedMoved DEF Moved, Clients, Held
<1> QED
  BY <1>2, <1>7, <1>8, <1>9, MovedTyped

LEMMA NextPartTyped ==
  ASSUME CapuAssumption, Typed, NEW r \in Requests, NextPart(r)
  PROVE  Typed'
<1>1. /\ step[r] = "process" /\ parts[r] > 1
      /\ parts' = [parts EXCEPT ![r] = parts[r] - 1]
      /\ call' = [call EXCEPT ![r] = "check"]
      /\ UNCHANGED <<step, attempt, client, result, failedOn, capu, drops, dropping>>
      /\ UNCHANGED Unmoved
  BY DEF NextPart, PartsLeft, At, dropVars, Unmoved
<1>2. parts[r] - 1 \in 1..2 /\ parts' \in [Requests -> 0..2]
  BY <1>1, TypedMoved DEF Moved
<1>3. Moved'
  BY <1>1, <1>2, TypedMoved DEF Moved, CallStates
<1>4. Unfinishedness'
  BY <1>1, <1>2, TypedMoved DEF Moved, Unfinishedness
<1>5. Clients'
  BY <1>1, TypedMoved DEF Moved, Clients, Held
<1> QED
  BY <1>1, <1>3, <1>4, <1>5, MovedTyped

LEMMA ProcessedTyped ==
  ASSUME CapuAssumption, Typed, NEW r \in Requests, Processed(r)
  PROVE  Typed'
<1>1. client[r] \in Workers /\ step[r] = "process"
        /\ call[r] \in CallStates \ Unfinished
  BY TypedMoved DEF Processed, At, Clients, Held, Moved
<1>2. /\ call' = [call EXCEPT ![r] = "idle"]
      /\ UNCHANGED <<attempt, parts, capu>>
      /\ UNCHANGED Unmoved
      /\ Release(r)
  BY DEF Processed, Unmoved
<1>3. failedOn' \in [Requests -> SUBSET Workers]
  <2>1. failedOn[r] \cup {client[r]} \in SUBSET Workers
    BY <1>1, TypedMoved DEF Moved
  <2>2. failedOn' = failedOn
          \/ failedOn' = [failedOn EXCEPT ![r] = failedOn[r] \cup {client[r]}]
    BY DEF Processed
  <2> QED
    BY <2>1, <2>2, TypedMoved DEF Moved
<1>4. call[r] \in Results
  BY <1>1 DEF CallStates, Unfinished, Results, Replies, Responses, Failures
<1>5. \/ step' = [step EXCEPT ![r] = "evict"] /\ result' = result
      \/ /\ step' = [step EXCEPT ![r] = "done"]
         /\ result' = [result EXCEPT ![r] = call[r]]
  BY DEF Processed, Goto, Becomes
<1>6. step' \in [Requests -> Steps] /\ result' \in [Requests -> Results]
        /\ step'[r] \in {"evict", "done"}
        /\ \A q \in Requests \ {r} : step'[q] = step[q]
  BY <1>4, <1>5, TypedMoved DEF Moved, Steps
<1>7. Moved'
  BY <1>1, <1>2, <1>3, <1>6, TypedMoved, ReleaseMoved DEF Moved, CallStates
<1>8. Unfinishedness'
  BY <1>2, <1>6, TypedMoved DEF Moved, Unfinishedness
<1>9. Clients'
  BY <1>1, <1>2, <1>6, TypedMoved, ReleaseMoved DEF Moved, Clients, Held
<1> QED
  BY <1>2, <1>7, <1>8, <1>9, MovedTyped

LEMMA EvictTyped ==
  ASSUME CapuAssumption, Typed, NEW r \in Requests, Evict(r)
  PROVE  Typed'
<1>1. /\ step[r] = "evict" /\ step' = [step EXCEPT ![r] = "get"]
      /\ capu' = NoWorker
      /\ attempt' = [attempt EXCEPT ![r] = 2]
      /\ UNCHANGED <<parts, result, failedOn, client, call>>
      /\ UNCHANGED Unmoved
  BY DEF Evict, Handled, At, Goto, Emptied, callVars, Unmoved
<1>2. \/ UNCHANGED <<drops, dropping>>
      \/ /\ capu # NoWorker
         /\ drops' = [drops EXCEPT ![r] = capu]
         /\ dropping' = [dropping EXCEPT ![capu] = "closed"]
  BY DEF Evict, dropVars
<1>3. drops' \in [Requests -> Workers \cup {NoWorker}]
        /\ dropping' \in [Workers -> {"no", "closed", "terminated", "done"}]
  BY <1>2, TypedMoved DEF Moved
<1>4. Moved'
  BY <1>1, <1>3, TypedMoved DEF Moved, Steps
<1>5. Unfinishedness'
  BY <1>1, TypedMoved DEF Moved, Unfinishedness
<1>6. Clients'
  BY <1>1, TypedMoved DEF Moved, Clients, Held
<1> QED
  BY <1>1, <1>4, <1>5, <1>6, MovedTyped

LEMMA AbandonTyped ==
  ASSUME CapuAssumption, Typed, NEW r \in Requests, Abandon(r)
  PROVE  Typed'
<1>1. /\ step[r] \in {"get", "insert", "evict"}
      /\ step' = [step EXCEPT ![r] = "done"]
      /\ result' = [result EXCEPT ![r] = "gone"]
      /\ UNCHANGED <<attempt, parts, failedOn, call, capu>>
      /\ UNCHANGED Unmoved
  BY DEF Abandon, Goto, Becomes, callVars, Unmoved
<1>2. /\ client' = [client EXCEPT ![r] = NoWorker]
      /\ client' \in [Requests -> Workers \cup {NoWorker}]
      /\ drops' \in [Requests -> Workers \cup {NoWorker}]
      /\ dropping' \in [Workers -> {"no", "closed", "terminated", "done"}]
  <2>1. CASE client[r] = NoWorker
    BY <2>1, TypedMoved DEF Abandon, dropVars, Moved
  <2>2. CASE client[r] # NoWorker
    BY <2>2, TypedMoved, ReleaseMoved DEF Abandon, Moved
  <2> QED
    BY <2>1, <2>2
<1>3. Moved'
  BY <1>1, <1>2, TypedMoved DEF Moved, Steps, Results
<1>4. Unfinishedness'
  BY <1>1, TypedMoved DEF Moved, Unfinishedness
<1>5. Clients'
  BY <1>1, <1>2, TypedMoved DEF Moved, Clients, Held
<1> QED
  BY <1>1, <1>3, <1>4, <1>5, MovedTyped

LEMMA PostprocessTyped ==
  ASSUME CapuAssumption, Typed, NEW r \in Requests, Postprocess(r)
  PROVE  Typed'
BY GetCachedTyped, SpawnFailsTyped, SpawnTyped, ShakenTyped, InsertTyped,
   NextPartTyped, ProcessedTyped, EvictTyped, AbandonTyped, SendTyped, DropTyped
DEF Postprocess
-----------------------------------------------------------------------------
(* The service: types, and the cache of recognisers.                       *)

\* Places of a request whose model was resolved.
Past == {"decode", "peek", "lookup", "load", "acquire", "infer", "post", "capu"}

ServiceTyped ==
  /\ server \in {"starting", "serving", "exited"}
  /\ pc \in [All -> Places] /\ answer \in [All -> Answered]
  /\ asked \in [All -> Models \cup {Unknown}] /\ probe \in [Warmups -> BOOLEAN]
  /\ resolved \subseteq Models /\ recognizers \subseteq resolved
  /\ loader \in All \cup {Nobody}
  /\ busy \in [Models -> Requests \cup {Nobody}]
  /\ loads \in [Models -> Nat]

\* Nothing is accepted before the socket is bound.
Starting == server = "starting" => \A r \in All : pc[r] \in {"absent", "new"}

Resolved ==
  /\ \A r \in All : pc[r] \in Past => asked[r] \in resolved
  /\ \A r \in Warmups : pc[r] \in {"absent", "new", "lookup", "load", "acquire",
                                   "done"}

\* Who constructs a recogniser holds the lock, and there is none yet.
Loading ==
  \A r \in All : pc[r] = "load" => loader = r /\ asked[r] \notin recognizers

\* One was constructed exactly for the models in the cache.
Counted == \A m \in Models : loads[m] = IF m \in recognizers THEN 1 ELSE 0

\* Punctuation begins where the handler gets to it.
Begun == \A r \in Requests : pc[r] \notin {"capu", "done"} => step[r] = "none"

Serving == ServiceTyped /\ Starting /\ Resolved /\ Loading /\ Counted /\ Begun

LEMMA ServingInit ==
  ASSUME Assumptions, Init
  PROVE  Typed /\ Serving
<1> USE DEF Init, CapuInit
<1>1. CapuTypeOK
  BY DEF CapuTypeOK, Steps, Results, CallStates
<1>2. Clients
  BY DEF Clients, Held
<1>3. ServiceTyped
  BY DEF ServiceTyped, Places, Answered
<1>4. Starting /\ Resolved /\ Loading /\ Counted /\ Begun
  BY DEF All, Starting, Resolved, Past, Loading, Counted, Begun
<1> QED
  BY <1>1, <1>2, <1>3, <1>4 DEF Typed, Serving

\* A request moves on, without anything being constructed for the cache.
Moving(r, from, to) ==
  /\ Moves(r, from, to) /\ to \in Places \ {"load"}
  /\ server' = server /\ server # "starting"
  /\ answer' \in [All -> Answered]
  /\ UNCHANGED <<asked, probe, recognizers, loads>>
  /\ resolved \subseteq resolved' /\ resolved' \subseteq Models
  /\ to \in Past => asked[r] \in resolved'
  /\ r \in Warmups => to \in {"lookup", "acquire", "done"}
  /\ loader' \in All \cup {Nobody}
  /\ \A q \in All \ {r} : loader = q => loader' = q
  /\ busy' \in [Models -> Requests \cup {Nobody}]
  /\ UNCHANGED step \/ (to = "capu" /\ step' = [step EXCEPT ![r] = "get"])
  /\ from \in {"capu", "done"} => to = "done"

LEMMA MoveServes ==
  ASSUME Assumptions, Typed, Serving, NEW r \in All, NEW from, NEW to,
         Moving(r, from, to)
  PROVE  Serving'
<1> USE DEF Moving
<1>1. /\ pc' = [pc EXCEPT ![r] = to] /\ pc[r] = from
      /\ pc \in [All -> Places]
      /\ pc' \in [All -> Places]
  BY DEF Moves, Serving, ServiceTyped
<1>2. ServiceTyped'
  BY <1>1 DEF Serving, ServiceTyped
<1>3. Starting'
  BY DEF Serving, Starting
<1>4. Resolved'
  BY <1>1 DEF Serving, Resolved
<1>5. Loading'
  BY <1>1 DEF Serving, Loading
<1>6. Counted'
  BY DEF Serving, Counted
<1>7. Begun'
  <2>1. SUFFICES ASSUME NEW q \in Requests, pc'[q] \notin {"capu", "done"}
                 PROVE  step'[q] = "none"
    BY DEF Begun
  <2>2. q \in All
    BY DEF All
  <2>3. pc[q] \notin {"capu", "done"}
    BY <1>1, <2>1, <2>2
  <2>4. step[q] = "none" /\ step \in [Requests -> Steps]
    BY <2>3 DEF Serving, Begun, Typed, CapuTypeOK
  <2>5. CASE q = r
    BY <1>1, <2>1, <2>2, <2>4, <2>5
  <2>6. CASE q # r
    BY <2>4, <2>6
  <2> QED
    BY <2>5, <2>6
<1> QED
  BY <1>2, <1>3, <1>4, <1>5, <1>6, <1>7 DEF Serving

\* What the caches may do meanwhile.
Caching(r) ==
  /\ resolved \subseteq resolved' /\ resolved' \subseteq Models
  /\ loader' \in All \cup {Nobody}
  /\ \A q \in All \ {r} : loader = q => loader' = q
  /\ busy' \in [Models -> Requests \cup {Nobody}]
  /\ UNCHANGED <<recognizers, loads>>

LEMMA CachesRest ==
  ASSUME Serving, UNCHANGED cacheVars, NEW r
  PROVE  Caching(r)
BY DEF Caching, Serving, ServiceTyped, cacheVars

\* A request is answered.
LEMMA AnswerServes ==
  ASSUME Assumptions, Typed, Serving, NEW r \in All, NEW from, NEW e \in Answered,
         Answers(r, from, e), server # "starting",
         UNCHANGED <<server, asked, probe, step>>, Caching(r)
  PROVE  Serving'
<1>1. answer' \in [All -> Answered]
  BY DEF Serving, ServiceTyped, Answers
<1>2. Moving(r, from, "done")
  BY <1>1 DEF Answers, Moving, Caching, Places, Past
<1> QED
  BY <1>2, MoveServes

\* A request moves on to a place for which its model is resolved.
LEMMA StepServes ==
  ASSUME Assumptions, Typed, Serving, NEW r \in All, NEW from,
         NEW to \in Past \ {"load", "capu"}, Moves(r, from, to),
         from \notin {"capu", "done"}, server # "starting",
         UNCHANGED <<server, asked, probe, answer, step>>, Caching(r),
         asked[r] \in resolved', r \in Warmups => to \in {"lookup", "acquire"}
  PROVE  Serving'
<1>1. answer' \in [All -> Answered] /\ to \in Places \ {"load"}
  BY DEF Serving, ServiceTyped, Past, Places
<1>2. Moving(r, from, to)
  BY <1>1 DEF Moving, Caching
<1> QED
  BY <1>2, MoveServes

\* A request at one of these places is being served, with its model resolved.
LEMMA UnderWay ==
  ASSUME Serving, NEW r \in All, pc[r] \notin {"absent", "new"}
  PROVE  server # "starting" /\ (pc[r] \in Past => asked[r] \in resolved)
BY DEF Serving, Starting, Resolved

LEMMA AnswersKnown ==
  /\ \A e \in Rejections \cup DecodeErrors \cup CapuErrors : e \in Answered
  /\ \A e \in {"ok", "gone", "warmed", "not_warmed", "too_long", "unknown_model",
               "assets", "load_failed", "inference"} : e \in Answered
BY DEF Answered

\* What the transcription of r does up to, and except for, its punctuation.
Besides(r) ==
  \/ Resolve(r) \/ ResolveFails(r) \/ Decode(r)
  \/ \E e \in DecodeErrors \cup {"too_long"} : DecodeFails(r, e)
  \/ Peek(r) \/ Found(r) \/ Loads(r) \/ Loaded(r) \/ LoadFails(r)
  \/ Infer(r) \/ Inferred(r) \/ InferFails(r)
  \/ PostprocessBuiltin(r) \/ NoCapuModel(r) \/ Punctuated(r) \/ Dropped(r)

LEMMA ResolveServes ==
  ASSUME Assumptions, Typed, Serving, NEW r \in Requests,
         Resolve(r) \/ ResolveFails(r)
  PROVE  Serving'
<1>0. r \in All /\ r \notin Warmups
  BY DEF All, Assumptions, ServiceAssumption
<1>1. CASE Resolve(r)
  <2>1. Moves(r, "resolve", "decode") /\ server # "starting"
    BY <1>0, <1>1, UnderWay DEF Resolve, Moves
  <2>2. Caching(r) /\ asked[r] \in resolved'
    BY <1>1 DEF Resolve, Caching, Serving, ServiceTyped
  <2>3. UNCHANGED <<server, asked, probe, answer, step>>
    BY <1>1 DEF Resolve, capuVars, requestVars
  <2> QED
    BY <1>0, <2>1, <2>2, <2>3, StepServes DEF Past
<1>2. CASE ResolveFails(r)
  <2>1. PICK e \in {"assets", "unknown_model"} : Answers(r, "resolve", e)
    BY <1>2 DEF ResolveFails
  <2>2. server # "starting" /\ e \in Answered
    BY <1>0, <2>1, UnderWay, AnswersKnown DEF Answers, Moves
  <2>3. UNCHANGED <<server, asked, probe, cacheVars, step>>
    BY <1>2 DEF ResolveFails, capuVars, requestVars
  <2> QED
    BY <1>0, <2>1, <2>2, <2>3, CachesRest, AnswerServes
<1> QED
  BY <1>1, <1>2

LEMMA OutcomeKnown ==
  ASSUME NEW r, NEW e \in Answered  PROVE Outcome(r, e) \in Answered
BY AnswersKnown DEF Outcome

\* r is answered while the caches rest.
LEMMA AnswerRests ==
  ASSUME Assumptions, Typed, Serving, NEW r \in All, NEW from, NEW e \in Answered,
         Answers(r, from, e), from \notin {"absent", "new"},
         UNCHANGED <<server, asked, probe, cacheVars, capuVars>>
  PROVE  Serving'
<1>1. server # "starting"
  BY UnderWay DEF Answers, Moves
<1>2. UNCHANGED step
  BY DEF capuVars, requestVars
<1>3. Caching(r)
  BY CachesRest
<1> QED
  BY <1>1, <1>2, <1>3, AnswerServes

\* r moves on, its model resolved, while the caches rest.
LEMMA StepRests ==
  ASSUME Assumptions, Typed, Serving, NEW r \in All, NEW from \in Past \ {"capu"},
         NEW to \in Past \ {"load", "capu"}, Moves(r, from, to),
         UNCHANGED <<server, asked, probe, answer, cacheVars, capuVars>>,
         r \in Warmups => to \in {"lookup", "acquire"}
  PROVE  Serving'
<1>1. server # "starting" /\ asked[r] \in resolved
  BY UnderWay DEF Moves, Past
<1>2. UNCHANGED step /\ UNCHANGED resolved
  BY DEF capuVars, requestVars, cacheVars
<1>3. Caching(r)
  BY CachesRest
<1> QED
  BY <1>1, <1>2, <1>3, StepServes DEF Past

LEMMA DecodeServes ==
  ASSUME Assumptions, Typed, Serving, NEW r \in Requests,
         \/ Decode(r) \/ Peek(r)
         \/ \E e \in DecodeErrors \cup {"too_long"} : DecodeFails(r, e)
  PROVE  Serving'
<1>0. r \in All /\ r \notin Warmups
  BY DEF All, Assumptions, ServiceAssumption
<1>1. CASE Decode(r)
  BY <1>0, <1>1, StepRests DEF Decode, Past
<1>2. CASE Peek(r)
  BY <1>0, <1>2, StepRests DEF Peek, Past
<1>3. ASSUME NEW e \in DecodeErrors \cup {"too_long"}, DecodeFails(r, e)
      PROVE  Serving'
  <2>1. Outcome(r, e) \in Answered
    BY AnswersKnown, OutcomeKnown
  <2> QED
    BY <1>0, <1>3, <2>1, AnswerRests DEF DecodeFails
<1> QED
  BY <1>1, <1>2, <1>3

\* The cache of recognisers, as requests and warm-ups use it.
LEMMA FoundServes ==
  ASSUME Assumptions, Typed, Serving, NEW r \in All, Found(r)
  PROVE  Serving'
BY StepRests DEF Found, Past

LEMMA LoadsServes ==
  ASSUME Assumptions, Typed, Serving, NEW r \in All, Loads(r)
  PROVE  Serving'
<1>1. /\ pc[r] = "lookup" /\ pc' = [pc EXCEPT ![r] = "load"]
      /\ loader = Nobody /\ loader' = r /\ asked[r] \notin recognizers
      /\ UNCHANGED <<server, asked, probe, answer, resolved, recognizers, busy,
                     loads, step>>
  BY DEF Loads, LockFree, Moves, capuVars, requestVars
<1>2. r # Nobody
  BY DEF All, Nobody, Assumptions, ServiceAssumption
<1>3. server # "starting" /\ asked[r] \in resolved
  BY <1>1, UnderWay DEF Past
<1>4. ServiceTyped'
  BY <1>1 DEF Serving, ServiceTyped, Places
<1>5. Starting' /\ Counted'
  BY <1>1, <1>3 DEF Serving, Starting, Counted
<1>6. Resolved'
  BY <1>1, <1>3 DEF Serving, ServiceTyped, Resolved
<1>7. Loading'
  <2>1. \A q \in All : pc[q] # "load"
    BY <1>1, <1>2 DEF Serving, Loading, All, Nobody, Assumptions, ServiceAssumption
  <2> QED
    BY <1>1, <2>1 DEF Serving, ServiceTyped, Loading
<1>8. Begun'
  BY <1>1 DEF Serving, ServiceTyped, Begun, All
<1> QED
  BY <1>4, <1>5, <1>6, <1>7, <1>8 DEF Serving

LEMMA LoadedServes ==
  ASSUME Assumptions, Typed, Serving, NEW r \in All, Loaded(r)
  PROVE  Serving'
<1> DEFINE m == asked[r]
<1>1. /\ pc[r] = "load" /\ pc' = [pc EXCEPT ![r] = "acquire"]
      /\ recognizers' = recognizers \cup {m}
      /\ loads' = [loads EXCEPT ![m] = loads[m] + 1]
      /\ loader' = Nobody
      /\ UNCHANGED <<server, asked, probe, answer, resolved, busy, step>>
  BY DEF Loaded, Moves, capuVars, requestVars
<1>2. server # "starting" /\ m \in resolved /\ m \in Models
  BY <1>1, UnderWay DEF Past, Serving, ServiceTyped
<1>3. m \notin recognizers /\ loader = r
  BY <1>1 DEF Serving, Loading
<1>4. ServiceTyped'
  BY <1>1, <1>2 DEF Serving, ServiceTyped, Places
<1>5. Starting'
  BY <1>1, <1>2 DEF Serving, Starting
<1>6. Counted'
  BY <1>1, <1>2, <1>3 DEF Serving, ServiceTyped, Counted
<1>7. Resolved'
  BY <1>1, <1>2 DEF Serving, ServiceTyped, Resolved
<1>8. Loading'
  BY <1>1, <1>3 DEF Serving, ServiceTyped, Loading
<1>9. Begun'
  BY <1>1 DEF Serving, ServiceTyped, Begun, All
<1> QED
  BY <1>4, <1>5, <1>6, <1>7, <1>8, <1>9 DEF Serving

LEMMA LoadFailsServes ==
  ASSUME Assumptions, Typed, Serving, NEW r \in All, LoadFails(r)
  PROVE  Serving'
<1>1. PICK e \in Answered : Answers(r, "load", e)
  BY AnswersKnown, OutcomeKnown DEF LoadFails
<1>2. UNCHANGED <<server, asked, probe, step>>
  BY DEF LoadFails, capuVars, requestVars
<1>3. server # "starting" /\ loader = r
  BY <1>1, UnderWay DEF Answers, Moves, Serving, Loading
<1>4. Caching(r)
  BY <1>3 DEF LoadFails, Caching, Serving, ServiceTyped, Nobody
<1> QED
  BY <1>1, <1>2, <1>3, <1>4, AnswerServes

LEMMA InferServes ==
  ASSUME Assumptions, Typed, Serving, NEW r \in Requests,
         Infer(r) \/ Inferred(r) \/ InferFails(r)
  PROVE  Serving'
<1>0. r \in All /\ r \notin Warmups
  BY DEF All, Assumptions, ServiceAssumption
<1>1. /\ UNCHANGED <<server, asked, probe, resolved, recognizers, loader, loads, step>>
      /\ \E who \in {r, Nobody} : busy' = [busy EXCEPT ![asked[r]] = who]
  BY DEF Infer, Inferred, InferFails, capuVars, requestVars
<1>2. Caching(r)
  <2>1. PICK who \in {r, Nobody} : busy' = [busy EXCEPT ![asked[r]] = who]
    BY <1>1
  <2>2. busy' \in [Models -> Requests \cup {Nobody}]
    BY <2>1 DEF Serving, ServiceTyped
  <2>3. /\ resolved' = resolved /\ loader' = loader
        /\ UNCHANGED <<recognizers, loads>>
    BY <1>1
  <2> QED
    BY <2>2, <2>3 DEF Caching, Serving, ServiceTyped
<1>3. /\ pc[r] \in {"acquire", "infer"} /\ server # "starting"
      /\ asked[r] \in resolved /\ asked[r] \in resolved'
  BY <1>0, <1>1, UnderWay DEF Infer, Inferred, InferFails, Answers, Moves, Past
<1>4. CASE Infer(r)
  BY <1>0, <1>1, <1>2, <1>3, <1>4, StepServes DEF Infer, Past
<1>5. CASE Inferred(r)
  BY <1>0, <1>1, <1>2, <1>3, <1>5, StepServes DEF Inferred, Past
<1>6. CASE InferFails(r)
  <2>1. Outcome(r, "inference") \in Answered
    BY AnswersKnown, OutcomeKnown
  <2> QED
    BY <1>0, <1>1, <1>2, <1>3, <1>6, <2>1, AnswerServes DEF InferFails
<1> QED
  BY <1>4, <1>5, <1>6

LEMMA PostServes ==
  ASSUME Assumptions, Typed, Serving, NEW r \in Requests,
         PostprocessBuiltin(r) \/ NoCapuModel(r) \/ Punctuated(r) \/ Dropped(r)
  PROVE  Serving'
<1>0. r \in All /\ "not_built" \in CapuErrors
  BY DEF All, CapuErrors
<1>1. CASE PostprocessBuiltin(r)
  BY <1>0, <1>1, AnswerRests, AnswersKnown DEF PostprocessBuiltin
<1>2. CASE NoCapuModel(r)
  BY <1>0, <1>2, AnswerRests, AnswersKnown DEF NoCapuModel
<1>3. CASE Punctuated(r)
  <2>1. result[r] \in Answered
    BY AnswersKnown DEF Typed, CapuTypeOK, Results, CapuErrors, Answered
  <2>2. Outcome(r, result[r]) \in Answered
    BY <2>1, OutcomeKnown
  <2> QED
    BY <1>0, <1>3, <2>2, AnswerRests DEF Punctuated
<1>4. CASE Dropped(r)
  <2>1. pc[r] \notin {"absent", "new"} /\ "gone" \in Answered
    BY <1>4, AnswersKnown DEF Dropped
  <2> QED
    BY <1>0, <1>4, <2>1, AnswerRests DEF Dropped
<1> QED
  BY <1>1, <1>2, <1>3, <1>4

LEMMA RecognizeServes ==
  ASSUME Assumptions, Typed, Serving, NEW r \in Requests, Besides(r)
  PROVE  Serving'
<1>1. r \in All
  BY DEF All
<1> QED
  BY <1>1, ResolveServes, DecodeServes, FoundServes, LoadsServes, LoadedServes,
     LoadFailsServes, InferServes, PostServes DEF Besides

LEMMA WarmupServes ==
  ASSUME Assumptions, Typed, Serving, NEW r \in Warmups, Warmup(r)
  PROVE  Serving'
<1>0. r \in All /\ {"warmed", "not_warmed"} \subseteq Answered
  BY AnswersKnown DEF All
<1>1. CASE WarmupProbes(r)
  <2>1. PICK e \in {"warmed", "not_warmed"} : Answers(r, "new", e)
    BY <1>1 DEF WarmupProbes
  <2>2. UNCHANGED <<server, asked, probe, step>> /\ server # "starting"
    BY <1>1 DEF WarmupProbes, capuVars, requestVars
  <2>3. Caching(r)
    BY <1>1 DEF WarmupProbes, Caching, Serving, ServiceTyped
  <2> QED
    BY <1>0, <2>1, <2>2, <2>3, AnswerServes
<1>2. CASE WarmupBegins(r)
  <2>1. /\ UNCHANGED <<server, asked, probe, recognizers, loader, busy, loads, step>>
        /\ server # "starting"
    BY <1>2 DEF WarmupBegins, capuVars, requestVars
  <2>2. CASE \E e \in {"warmed", "not_warmed"} : Answers(r, "new", e)
                                                   /\ UNCHANGED resolved
    <3>1. PICK e \in {"warmed", "not_warmed"} : Answers(r, "new", e)
      BY <2>2
    <3>2. Caching(r)
      BY <2>1, <2>2 DEF Caching, Serving, ServiceTyped
    <3> QED
      BY <1>0, <2>1, <3>1, <3>2, AnswerServes
  <2>3. CASE /\ asked[r] \in Models /\ Moves(r, "new", "lookup")
             /\ resolved' = resolved \cup {asked[r]} /\ UNCHANGED answer
    <3>1. Caching(r) /\ asked[r] \in resolved'
      BY <2>1, <2>3 DEF Caching, Serving, ServiceTyped
    <3> QED
      BY <1>0, <2>1, <2>3, <3>1, StepServes DEF Past
  <2> QED
    BY <1>2, <2>2, <2>3 DEF WarmupBegins
<1>3. CASE WarmupEnds(r)
  <2>1. PICK e \in {"warmed", "not_warmed"} : Answers(r, "acquire", e)
    BY <1>3 DEF WarmupEnds
  <2> QED
    BY <1>0, <1>3, <2>1, AnswerRests DEF WarmupEnds
<1> QED
  BY <1>0, <1>1, <1>2, <1>3, FoundServes, LoadsServes, LoadedServes,
     LoadFailsServes DEF Warmup

LEMMA ArrivalServes ==
  ASSUME Assumptions, Typed, Serving, NEW r \in Requests,
         Accept(r) \/ \E e \in Rejections : Reject(r, e)
  PROVE  Serving'
<1>0. r \in All /\ r \notin Warmups
  BY DEF All, Assumptions, ServiceAssumption
<1>1. CASE Accept(r)
  <2>1. /\ Moves(r, "new", "resolve") /\ server # "starting"
        /\ UNCHANGED <<server, asked, probe, answer, step>>
    BY <1>1 DEF Accept, capuVars, requestVars
  <2>2. answer' \in [All -> Answered] /\ Caching(r)
    BY <1>1, CachesRest DEF Accept, Serving, ServiceTyped
  <2>3. Moving(r, "new", "resolve")
    BY <1>0, <1>1, <2>1, <2>2 DEF Moving, Caching, Past, Places, Accept, cacheVars
  <2> QED
    BY <1>0, <2>3, MoveServes
<1>2. ASSUME NEW e \in Rejections, Reject(r, e)
      PROVE  Serving'
  <2>1. /\ server # "starting" /\ e \in Answered /\ Answers(r, "new", e)
        /\ UNCHANGED <<server, asked, probe, step>>
    BY <1>2, AnswersKnown DEF Reject, capuVars, requestVars
  <2>2. Caching(r)
    BY <1>2, CachesRest DEF Reject
  <2> QED
    BY <1>0, <2>1, <2>2, AnswerServes
<1> QED
  BY <1>1, <1>2

LEMMA StartServes ==
  ASSUME Assumptions, Typed, Serving, Start
  PROVE  Serving'
<1>1. ASSUME NEW m \in Models, StartLoads(m)
      PROVE  Serving'
  <2>1. /\ server = "starting" /\ m \notin recognizers
        /\ resolved' = resolved \cup {m} /\ recognizers' = recognizers \cup {m}
        /\ loads' = [loads EXCEPT ![m] = loads[m] + 1]
        /\ UNCHANGED <<server, pc, asked, probe, answer, loader, busy, step>>
    BY <1>1 DEF StartLoads, capuVars, requestVars
  <2>2. \A r \in All : pc[r] \in {"absent", "new"}
    BY <2>1 DEF Serving, Starting
  <2>3. ServiceTyped'
    BY <2>1 DEF Serving, ServiceTyped
  <2>4. Counted'
    BY <2>1 DEF Serving, ServiceTyped, Counted
  <2>5. Starting' /\ Resolved' /\ Loading' /\ Begun'
    BY <2>1, <2>2 DEF Serving, Starting, Resolved, Loading, Begun, Past, All
  <2> QED
    BY <2>3, <2>4, <2>5 DEF Serving
<1>2. CASE StartFails \/ Bind
  <2>1. /\ server' \in {"serving", "exited"}
        /\ UNCHANGED <<pc, asked, probe, answer, resolved, recognizers, loader, busy,
                       loads, step>>
    BY <1>2 DEF StartFails, Bind, cacheVars, capuVars, requestVars
  <2>2. ServiceTyped'
    BY <2>1 DEF Serving, ServiceTyped
  <2>3. Starting' /\ Resolved' /\ Loading' /\ Counted' /\ Begun'
    BY <2>1 DEF Serving, Starting, Resolved, Loading, Counted, Begun
  <2> QED
    BY <2>2, <2>3 DEF Serving
<1> QED
  BY <1>1, <1>2 DEF Start

LEMMA PunctuationServes ==
  ASSUME Assumptions, Typed, Serving,
         UNCHANGED serviceVars,
         \A r \in Requests : pc[r] # "capu" => step'[r] = step[r]
  PROVE  Serving'
<1>1. UNCHANGED <<server, pc, asked, probe, answer, resolved, recognizers, loader,
                  busy, loads>>
  BY DEF serviceVars, cacheVars
<1>2. ServiceTyped'
  BY <1>1 DEF Serving, ServiceTyped
<1>3. Starting' /\ Resolved' /\ Loading' /\ Counted' /\ Begun'
  BY <1>1 DEF Serving, Starting, Resolved, Loading, Counted, Begun
<1> QED
  BY <1>2, <1>3 DEF Serving

LEMMA BeginTyped ==
  ASSUME Assumptions, Typed, Serving, NEW r \in Requests, PostprocessCapu(r)
  PROVE  Typed' /\ Serving' /\ step[r] = "none"
<1>0. r \in All /\ r \notin Warmups
  BY DEF All, Assumptions, ServiceAssumption
<1>1. /\ pc[r] = "post" /\ step' = [step EXCEPT ![r] = "get"]
      /\ Moves(r, "post", "capu")
      /\ UNCHANGED <<server, asked, probe, answer, cacheVars>>
      /\ UNCHANGED <<attempt, parts, result, failedOn, client, call, reply, source, left,
                     capu, thread, serving, queue, pending, stdout, child, poisoned,
                     dropping, drops>>
  BY DEF PostprocessCapu, Goto, Moves, callVars, threadVars, pipeVars, dropVars
<1>2. step[r] = "none"
  BY <1>1 DEF Serving, Begun
<1>3. Typed'
  <2>1. step' \in [Requests -> Steps]
    BY <1>1 DEF Typed, CapuTypeOK, Steps
  <2>2. Clients'
    BY <1>1, <1>2 DEF Typed, CapuTypeOK, Clients, Held
  <2> QED
    BY <1>1, <2>1, <2>2 DEF Typed, CapuTypeOK
<1>4. Caching(r)
  BY <1>1, CachesRest
<1>5. server # "starting" /\ asked[r] \in resolved /\ answer' \in [All -> Answered]
        /\ UNCHANGED resolved
  BY <1>0, <1>1, UnderWay DEF Past, Serving, ServiceTyped, cacheVars
<1>6. Moving(r, "post", "capu")
  BY <1>0, <1>1, <1>4, <1>5 DEF Moving, Caching, Places
<1> QED
  BY <1>0, <1>2, <1>3, <1>6, MoveServes

LEMMA OthersStay ==
  ASSUME Typed, NEW r \in Requests, Postprocess(r)
  PROVE  \A q \in Requests \ {r} : step'[q] = step[q]
<1>1. step' = step \/ \E where : step' = [step EXCEPT ![r] = where]
  BY DEF Postprocess, GetCached, SpawnFails, Spawn, Shaken, Insert, NextPart, Processed,
         Evict, Abandon, Drop, DropTerminates, DropJoins, Send, SendChecks,
         SendEnqueues, Receive, Timeout, Disconnected, Goto, requestVars
<1> QED
  BY <1>1 DEF Typed, CapuTypeOK

\* Every step, sorted by what it does to the workers.
LEMMA Sorted ==
  ASSUME Next
  PROVE  \/ UNCHANGED capuVars
            /\ \/ Start \/ \E r \in Requests : Besides(r)
               \/ \E r \in Warmups : Warmup(r)
               \/ \E r \in Requests : Accept(r) \/ \E e \in Rejections : Reject(r, e)
         \/ \E r \in Requests : PostprocessCapu(r) \/ Capu(r) \/ Leave(r)
         \/ \E w \in Workers : Thread(w)
         \/ Child
<1>1. ASSUME Start  PROVE UNCHANGED capuVars
  BY <1>1 DEF Start, StartLoads, StartFails, Bind
<1>2. ASSUME NEW r \in Requests, Besides(r)  PROVE UNCHANGED capuVars
  BY <1>2 DEF Besides, Resolve, ResolveFails, Decode, DecodeFails, Peek, Found, Loads,
              Loaded, LoadFails, Infer, Inferred, InferFails, PostprocessBuiltin,
              NoCapuModel, Punctuated, Dropped
<1>3. ASSUME NEW r \in Warmups, Warmup(r)  PROVE UNCHANGED capuVars
  BY <1>3 DEF Warmup, WarmupProbes, WarmupBegins, WarmupEnds, Found, Loads, Loaded,
              LoadFails
<1>4. ASSUME NEW r \in Requests, Accept(r) \/ \E e \in Rejections : Reject(r, e)
      PROVE  UNCHANGED capuVars
  BY <1>4 DEF Accept, Reject
<1>5. ASSUME NEW r \in Requests, Transcribe(r)
      PROVE  Besides(r) \/ PostprocessCapu(r) \/ Capu(r)
  BY <1>5 DEF Transcribe, Recognize, Besides
<1> QED
  BY <1>1, <1>2, <1>3, <1>4, <1>5 DEF Next, Progress, Accepted

LEMMA StepTyped ==
  ASSUME Assumptions, Typed, Serving, [Next]_vars
  PROVE  Typed' /\ Serving'
<1>1. ASSUME UNCHANGED capuVars
      PROVE  Typed'
  BY <1>1 DEF Typed, CapuTypeOK, Clients, capuVars, requestVars, callVars, threadVars,
              pipeVars, dropVars
<1>2. CASE UNCHANGED vars
  <2>1. UNCHANGED capuVars /\ UNCHANGED serviceVars
    BY <1>2 DEF vars
  <2> QED
    BY <1>1, <2>1, PunctuationServes DEF capuVars, requestVars
<1>3. CASE UNCHANGED capuVars
           /\ \/ Start \/ \E r \in Requests : Besides(r)
              \/ \E r \in Warmups : Warmup(r)
              \/ \E r \in Requests : Accept(r) \/ \E e \in Rejections : Reject(r, e)
  BY <1>1, <1>3, StartServes, RecognizeServes, WarmupServes, ArrivalServes
<1>4. ASSUME NEW r \in Requests, Capu(r)
      PROVE  Typed' /\ Serving'
  <2>1. Typed'
    BY <1>4, PostprocessTyped DEF Capu, Assumptions
  <2>2. \A q \in Requests : pc[q] # "capu" => step'[q] = step[q]
    BY <1>4, OthersStay DEF Capu
  <2> QED
    BY <1>4, <2>1, <2>2, PunctuationServes DEF Capu
<1>5. ASSUME NEW r \in Requests, Leave(r)
      PROVE  Typed' /\ Serving'
  <2>1. Typed'
    BY <1>5 DEF Leave, Typed, CapuTypeOK, Clients, requestVars, callVars, threadVars,
                pipeVars, dropVars
  <2> QED
    BY <1>5, <2>1, PunctuationServes DEF Leave, requestVars
<1>6. ASSUME NEW w \in Workers,
             UNCHANGED serviceVars, WorkerThread(w) \/ ChildMoves(w)
      PROVE  Typed' /\ Serving'
  <2>1. UNCHANGED step
    BY <1>6 DEF WorkerThread, TakeCommand, ReadsLine, ReadsEnd, StopThread, EndThread,
                ChildMoves, ChildDies, ChildPrints, ChildAnswers, requestVars
  <2> QED
    BY <1>6, <2>1, ThreadTyped, PunctuationServes
<1> QED
  BY <1>2, <1>3, <1>4, <1>5, <1>6, BeginTyped, Sorted
  DEF Thread, Child, ChildMoves

\* The state is well typed.
THEOREM ServiceTypeCorrect == Assumptions => (Spec => []TypeOK)
<1> SUFFICES ASSUME Assumptions PROVE Spec => []TypeOK
  OBVIOUS
<1>1. Init => Typed /\ Serving
  BY ServingInit
<1>2. Typed /\ Serving /\ [Next]_vars => (Typed /\ Serving)'
  BY StepTyped
<1>3. Typed /\ Serving => TypeOK
  BY DEF Serving, ServiceTyped, Typed, TypeOK
<1> QED
  BY <1>1, <1>2, <1>3, PTL DEF Spec

\* However many requests and warm-ups name a model, one recogniser is
\* constructed for it (warmed_recognizer).
THEOREM ServiceLoadsOnce == Assumptions => (Spec => []LoadedOnce)
<1> SUFFICES ASSUME Assumptions PROVE Spec => []LoadedOnce
  OBVIOUS
<1>1. Init => Typed /\ Serving
  BY ServingInit
<1>2. Typed /\ Serving /\ [Next]_vars => (Typed /\ Serving)'
  BY StepTyped
<1>3. Typed /\ Serving => LoadedOnce
  BY DEF Serving, Counted, LoadedOnce
<1> QED
  BY <1>1, <1>2, <1>3, PTL DEF Spec
-----------------------------------------------------------------------------
(* Whom the workers belong to.                                             *)

\* Nobody has, or had, the worker w.
Fresh(w) ==
  /\ child[w] # "up" /\ dropping[w] = "no" /\ capu # w
  /\ \A q \in Requests : client[q] # w /\ drops[q] # w

\* A request spawns only workers that are its own, each at most once.
Attempts ==
  \A r \in Requests :
    /\ step[r] \in {"none", "evict"} => attempt[r] = 1
    /\ step[r] \in {"none", "get"} => Fresh(<<r, attempt[r]>>)
    /\ attempt[r] = 1 => Fresh(<<r, 2>>)

\* The worker a request has spawned is nobody else's before it is cached.
Private ==
  \A r \in Requests : step[r] \in {"shake", "insert"} =>
    /\ capu # client[r]
    /\ \A q \in Requests \ {r} : client[q] # client[r]

\* A drop that got past terminate leaves no child.
Torn == \A w \in Workers : dropping[w] \in {"terminated", "done"} => child[w] # "up"

Owned == Attempts /\ Private /\ Torn /\ NoStrayChild /\ DroppedUnused

\* w will not be spawned any more, and is nobody's own.
Used(w) ==
  \A q \in Requests :
    /\ step[q] \in {"none", "get"} => w # <<q, attempt[q]>>
    /\ attempt[q] = 1 => w # <<q, 2>>
    /\ step[q] \in {"shake", "insert"} => client[q] # w

\* What a request that asks for a worker again has to do with the one that
\* failed it.
Spent(r, w) ==
  /\ failedOn[r] = {w} /\ Used(w)
  /\ step[r] # "evict" => capu # w /\ client[r] # w

Asking == {"get", "shake", "insert", "process"}

\* No worker failed a request before it first gives up on one; from then on
\* that one is out of reach; and it fails for want of a worker only after a
\* second, different one.
FailedOf(r) ==
  /\ attempt[r] = 1 /\ step[r] \in {"none"} \cup Asking => failedOn[r] = {}
  /\ \/ step[r] = "evict"
     \/ attempt[r] = 2 /\ step[r] \in Asking
     => \E w \in Workers : Spent(r, w)
  /\ step[r] # "done" => ~Retryable(result[r])
  /\ Retryable(result[r]) =>
       \E w1, w2 \in Workers : w1 # w2 /\ failedOn[r] = {w1, w2}

Failed == \A r \in Requests : FailedOf(r)

LEMMA HoldingInit ==
  ASSUME Assumptions, Init
  PROVE  Owned /\ Failed
<1>1. \A r \in Requests : <<r, 1>> \in Workers /\ <<r, 2>> \in Workers
  BY DEF Workers
<1>2. \A w \in Workers : w # NoWorker
  BY Names DEF Assumptions
<1>3. \A w \in Workers : Fresh(w)
  BY <1>2 DEF Fresh, Init, CapuInit
<1>4. Attempts
  BY <1>1, <1>3 DEF Attempts, Init, CapuInit
<1>5. Private /\ Torn
  BY DEF Private, Torn, Init, CapuInit
<1>6. NoStrayChild /\ DroppedUnused
  BY DEF NoStrayChild, DroppedUnused, Init, CapuInit
<1>7. Failed
  BY DEF Failed, FailedOf, Asking, Retryable, Init, CapuInit
<1> QED
  BY <1>4, <1>5, <1>6, <1>7 DEF Owned
-----------------------------------------------------------------------------
(* Steps that leave it alone who has which worker.                         *)

Quiet ==
  /\ UNCHANGED <<step, attempt, client, capu, dropping, drops, failedOn, result>>
  /\ \A w \in Workers : child'[w] = "up" => child[w] = "up"

LEMMA QuietHolds ==
  ASSUME Assumptions, Typed, Owned, Failed, Quiet
  PROVE  Owned' /\ Failed'
<1>0. \A r \in Requests : <<r, attempt[r]>> \in Workers /\ <<r, 2>> \in Workers
  BY DEF Typed, CapuTypeOK, Workers
<1>1. \A w \in Workers : Fresh(w) => Fresh(w)'
  BY DEF Fresh, Quiet
<1>2. Attempts'
  BY <1>0, <1>1 DEF Attempts, Owned, Quiet
<1>3. Private' /\ Torn'
  BY DEF Private, Torn, Owned, Quiet
<1>4. NoStrayChild' /\ DroppedUnused'
  BY DEF NoStrayChild, DroppedUnused, Owned, Quiet
<1>5. Failed'
  BY DEF Failed, FailedOf, Spent, Used, Quiet
<1> QED
  BY <1>2, <1>3, <1>4, <1>5 DEF Owned

LEMMA KillQuiet ==
  ASSUME Typed, NEW v \in Workers, child' = Kill(v)
  PROVE  \A w \in Workers : child'[w] = "up" => child[w] = "up"
BY DEF Kill, Typed, CapuTypeOK

LEMMA SendQuiet ==
  ASSUME Typed, NEW r \in Requests, Send(r) \/ NextPart(r)
  PROVE  Quiet
<1>1. CASE Timeout(r)
  <2>1. client[r] \in Workers
    BY <1>1 DEF Timeout, Calling, Typed, Clients, Held
  <2> QED
    BY <1>1, <2>1, KillQuiet DEF Timeout, Quiet, requestVars, dropVars
<1> QED
  BY <1>1 DEF Send, SendChecks, SendEnqueues, Receive, Disconnected, NextPart, Quiet,
              requestVars, dropVars

LEMMA ThreadQuiet ==
  ASSUME Typed, NEW w \in Workers, WorkerThread(w) \/ ChildMoves(w)
  PROVE  Quiet
<1>1. CASE StopThread(w)
  BY <1>1, KillQuiet DEF StopThread, Quiet, requestVars, dropVars
<1>2. CASE ChildDies(w)
  BY <1>2, KillQuiet DEF ChildDies, Quiet, requestVars, dropVars
<1> QED
  BY <1>1, <1>2 DEF WorkerThread, TakeCommand, ReadsLine, ReadsEnd, EndThread, ChildMoves,
                    ChildPrints, ChildAnswers, Quiet, requestVars, dropVars
-----------------------------------------------------------------------------
(* A request's drop of a worker.                                           *)

LEMMA DropHolds ==
  ASSUME Assumptions, Typed, Owned, Failed, NEW r \in Requests, Drop(r)
  PROVE  Owned' /\ Failed'
<1> DEFINE w == drops[r]
<1>1. /\ w \in Workers /\ dropping[w] # "no"
      /\ UNCHANGED <<step, attempt, client, capu, failedOn, result>>
      /\ \E how \in {"terminated", "done"} : dropping' = [dropping EXCEPT ![w] = how]
      /\ \A v \in Workers : child'[v] = "up" => child[v] = "up" /\ v # w
      /\ \A q \in Requests : drops'[q] # drops[q] => drops[q] = w /\ drops'[q] = NoWorker
  <2>1. w \in Workers
    BY DEF Drop, DropTerminates, DropJoins, Free, Typed, CapuTypeOK
  <2>2. CASE DropTerminates(r)
    BY <2>1, <2>2 DEF DropTerminates, Kill, Typed, CapuTypeOK, requestVars
  <2>3. CASE DropJoins(r)
    BY <2>1, <2>3 DEF DropJoins, Typed, CapuTypeOK, requestVars, Owned, Torn
  <2> QED
    BY <2>2, <2>3 DEF Drop
<1> HIDE DEF w
<1>2. dropping' \in [Workers -> {"no", "closed", "terminated", "done"}]
        /\ \A v \in Workers : v # w => dropping'[v] = dropping[v]
        /\ dropping'[w] # "no"
  BY <1>1 DEF Typed, CapuTypeOK
<1>3. \A v \in Workers : Fresh(v) => Fresh(v)'
  <2>1. \A v \in Workers : v # NoWorker
    BY Names DEF Assumptions
  <2> QED
    BY <1>1, <1>2, <2>1 DEF Fresh
<1>4. Attempts'
  <2>1. \A q \in Requests : <<q, attempt[q]>> \in Workers /\ <<q, 2>> \in Workers
    BY DEF Typed, CapuTypeOK, Workers
  <2> QED
    BY <1>1, <1>3, <2>1 DEF Attempts, Owned
<1>5. Private'
  BY <1>1 DEF Private, Owned
<1>6. Torn'
  BY <1>1, <1>2 DEF Torn, Owned
<1>7. NoStrayChild'
  BY <1>1, <1>2 DEF NoStrayChild, Owned
<1>8. DroppedUnused'
  BY <1>1, <1>2 DEF DroppedUnused, Owned
<1>9. Failed'
  BY <1>1 DEF Failed, FailedOf, Spent, Used
<1> QED
  BY <1>4, <1>5, <1>6, <1>7, <1>8, <1>9 DEF Owned
-----------------------------------------------------------------------------
(* The other steps of a request.                                           *)

\* Only r moves, and what is used stays out of reach.
Only(r) ==
  /\ \A q \in Requests \ {r} :
       /\ step'[q] = step[q] /\ attempt'[q] = attempt[q] /\ client'[q] = client[q]
       /\ failedOn'[q] = failedOn[q] /\ result'[q] = result[q]
  /\ \A w \in Workers : Used(w) => Used(w)' /\ (capu # w => capu' # w)

LEMMA OthersFailed ==
  ASSUME Failed, NEW r \in Requests, Only(r), FailedOf(r)'
  PROVE  Failed'
<1>1. ASSUME NEW q \in Requests \ {r}, NEW w \in Workers, Spent(q, w)
      PROVE  Spent(q, w)'
  BY <1>1 DEF Only, Spent
<1>2. ASSUME NEW q \in Requests \ {r}
      PROVE  FailedOf(q)'
  <2>1. FailedOf(q)
    BY DEF Failed
  <2>2. /\ step'[q] = step[q] /\ attempt'[q] = attempt[q]
        /\ failedOn'[q] = failedOn[q] /\ result'[q] = result[q]
    BY DEF Only
  <2> QED
    BY <1>1, <2>1, <2>2 DEF FailedOf, Retryable
<1> QED
  BY <1>2 DEF Failed

LEMMA Typing ==
  ASSUME Assumptions, Typed
  PROVE  /\ step \in [Requests -> Steps] /\ attempt \in [Requests -> 1..2]
         /\ client \in [Requests -> Workers \cup {NoWorker}]
         /\ drops \in [Requests -> Workers \cup {NoWorker}]
         /\ dropping \in [Workers -> {"no", "closed", "terminated", "done"}]
         /\ capu \in Workers \cup {NoWorker}
         /\ failedOn \in [Requests -> SUBSET Workers]
         /\ result \in [Requests -> Results]
         /\ child \in [Workers -> {"none", "up", "dead"}]
         /\ NoWorker \notin Workers
         /\ \A q \in Requests : <<q, attempt[q]>> \in Workers /\ <<q, 2>> \in Workers
         /\ \A q \in Requests : IF step[q] \in Held THEN client[q] \in Workers
                                 ELSE client[q] = NoWorker
BY Names DEF Typed, CapuTypeOK, Workers, Clients, Assumptions

\* Before a request has given up, no want of a worker is its result.
LEMMA NotYet ==
  ASSUME Failed, NEW r \in Requests, step[r] # "done"
  PROVE  ~Retryable(result[r])
BY DEF Failed, FailedOf

LEMMA BeginHolds ==
  ASSUME Assumptions, Typed, Owned, Failed, NEW r \in Requests,
         step[r] = "none", PostprocessCapu(r)
  PROVE  Owned' /\ Failed'
<1> USE Typing
<1>1. /\ step' = [step EXCEPT ![r] = "get"]
      /\ UNCHANGED <<attempt, client, capu, dropping, drops, failedOn, result, child>>
  BY DEF PostprocessCapu, Goto, dropVars
<1>2. \A w \in Workers : Fresh(w) => Fresh(w)'
  BY <1>1 DEF Fresh
<1>3. Attempts'
  BY <1>1, <1>2 DEF Attempts, Owned
<1>4. Private' /\ Torn' /\ NoStrayChild' /\ DroppedUnused'
  BY <1>1 DEF Private, Torn, NoStrayChild, DroppedUnused, Owned
<1>5. Only(r)
  BY <1>1 DEF Only, Used
<1>6. FailedOf(r)'
  <2>1. attempt[r] = 1 /\ failedOn[r] = {} /\ ~Retryable(result[r])
    BY NotYet DEF Failed, FailedOf, Attempts, Owned
  <2> QED
    BY <1>1, <2>1 DEF FailedOf, Asking
<1> QED
  BY <1>3, <1>4, <1>5, <1>6, OthersFailed DEF Owned

LEMMA GetCachedHolds ==
  ASSUME Assumptions, Typed, Owned, Failed, NEW r \in Requests, GetCached(r)
  PROVE  Owned' /\ Failed'
<1> USE Typing
<1>1. /\ step[r] = "get" /\ step' = [step EXCEPT ![r] = "process"]
      /\ client' = [client EXCEPT ![r] = capu] /\ capu \in Workers
      /\ UNCHANGED <<attempt, capu, dropping, drops, failedOn, result, child>>
  BY DEF GetCached, Handled, At, Goto, dropVars
<1>2. \A w \in Workers : Fresh(w) => Fresh(w)'
  BY <1>1 DEF Fresh
<1>3. Attempts'
  BY <1>1, <1>2 DEF Attempts, Owned
<1>4. Private' /\ Torn'
  BY <1>1 DEF Private, Torn, Owned
<1>5. NoStrayChild'
  BY <1>1 DEF NoStrayChild, Owned, Held
<1>6. DroppedUnused'
  BY <1>1 DEF DroppedUnused, Owned
<1>7. Only(r)
  BY <1>1 DEF Only, Used
<1>8. FailedOf(r)'
  <2>1. \A w \in Workers : Spent(r, w) => Spent(r, w)'
    BY <1>1, <1>7 DEF Spent, Only
  <2> QED
    BY <1>1, <2>1, NotYet DEF FailedOf, Failed, Asking
<1> QED
  BY <1>3, <1>4, <1>5, <1>6, <1>7, <1>8, OthersFailed DEF Owned

LEMMA SpawnFailsHolds ==
  ASSUME Assumptions, Typed, Owned, Failed, NEW r \in Requests, SpawnFails(r)
  PROVE  Owned' /\ Failed'
<1> USE Typing
<1>1. /\ step[r] = "get" /\ step' = [step EXCEPT ![r] = "done"]
      /\ result' = [result EXCEPT ![r] = "not_built"]
      /\ UNCHANGED <<attempt, client, capu, dropping, drops, failedOn, child>>
  BY DEF SpawnFails, Misses, Handled, At, Goto, Becomes, dropVars
<1>2. \A w \in Workers : Fresh(w) => Fresh(w)'
  BY <1>1 DEF Fresh
<1>3. Attempts'
  BY <1>1, <1>2 DEF Attempts, Owned
<1>4. Private' /\ Torn' /\ NoStrayChild' /\ DroppedUnused'
  BY <1>1 DEF Private, Torn, NoStrayChild, DroppedUnused, Owned
<1>5. Only(r)
  BY <1>1 DEF Only, Used
<1>6. FailedOf(r)'
  BY <1>1 DEF FailedOf, Asking, Retryable
<1> QED
  BY <1>3, <1>4, <1>5, <1>6, OthersFailed DEF Owned

LEMMA SpawnHolds ==
  ASSUME Assumptions, Typed, Owned, Failed, NEW r \in Requests, Spawn(r)
  PROVE  Owned' /\ Failed'
<1> USE Typing
<1> DEFINE w == <<r, attempt[r]>>
<1>1. /\ step[r] = "get" /\ step' = [step EXCEPT ![r] = "shake"]
      /\ client' = [client EXCEPT ![r] = w] /\ w \in Workers
      /\ child' = [child EXCEPT ![w] = "up"]
      /\ UNCHANGED <<attempt, capu, dropping, drops, failedOn, result>>
  BY DEF Spawn, Misses, Handled, At, Goto, dropVars
<1>2. /\ Fresh(w)
      /\ \A q \in Requests \ {r} : w # <<q, attempt[q]>> /\ w # <<q, 2>>
      /\ attempt[r] = 1 => w # <<r, 2>>
  <2>1. Fresh(w)
    BY <1>1 DEF Owned, Attempts
  <2>2. \A q \in Requests \ {r} : w # <<q, attempt[q]>> /\ w # <<q, 2>>
    OBVIOUS
  <2>3. attempt[r] = 1 => w # <<r, 2>>
    OBVIOUS
  <2> QED
    BY <2>1, <2>2, <2>3
<1> HIDE DEF w
<1>3. \A v \in Workers : v # w /\ Fresh(v) => Fresh(v)'
  BY <1>1 DEF Fresh
<1>4. Attempts'
  BY <1>1, <1>2, <1>3 DEF Attempts, Owned
<1>5. Private'
  BY <1>1, <1>2 DEF Private, Owned, Fresh, Held
<1>6. Torn' /\ DroppedUnused'
  BY <1>1, <1>2 DEF Torn, DroppedUnused, Owned, Fresh
<1>7. NoStrayChild'
  BY <1>1, <1>2 DEF NoStrayChild, Owned, Held
<1>8. Only(r)
  BY <1>1 DEF Only, Used, w
<1>9. FailedOf(r)'
  <2>1. \A v \in Workers : Spent(r, v) => Spent(r, v)'
    BY <1>1, <1>8 DEF Spent, Only, Used, w
  <2> QED
    BY <1>1, <2>1, NotYet DEF FailedOf, Failed, Asking
<1> QED
  BY <1>4, <1>5, <1>6, <1>7, <1>8, <1>9, OthersFailed DEF Owned

\* r gives its client up: its handshake failed, its worker failed, its texts
\* are done, or its handler was dropped.
GivesUp(r, to) ==
  /\ client[r] \in Workers /\ Free(r) /\ Release(r)
  /\ step' = [step EXCEPT ![r] = to] /\ to \in {"evict", "done"}
  /\ to = "evict" => attempt[r] = 1
  /\ UNCHANGED <<attempt, capu, child>>
  /\ \A q \in Requests \ {r} : failedOn'[q] = failedOn[q] /\ result'[q] = result[q]

LEMMA ReleaseHolds ==
  ASSUME Assumptions, Typed, Owned, NEW r \in Requests, NEW to, GivesUp(r, to)
  PROVE  Owned' /\ Only(r)
<1> USE Typing
<1> DEFINE w == client[r]
<1>1. /\ w \in Workers /\ drops[r] = NoWorker
      /\ step' = [step EXCEPT ![r] = to] /\ to \in {"evict", "done"}
      /\ to = "evict" => attempt[r] = 1
      /\ UNCHANGED <<attempt, capu, child>>
      /\ client' = [client EXCEPT ![r] = NoWorker]
  BY DEF GivesUp, Release, Free
<1>2. \/ /\ capu # w /\ \A q \in Requests \ {r} : client[q] # w
         /\ drops' = [drops EXCEPT ![r] = w]
         /\ dropping' = [dropping EXCEPT ![w] = "closed"]
      \/ /\ capu = w \/ \E q \in Requests \ {r} : client[q] = w
         /\ UNCHANGED <<drops, dropping>>
  BY DEF GivesUp, Release, LastHolder
<1>3. \A v \in Workers : Fresh(v) => Fresh(v)'
  BY <1>1, <1>2 DEF Fresh
<1>4. Attempts'
  BY <1>1, <1>3 DEF Attempts, Owned
<1>5. Private'
  BY <1>1 DEF Private, Owned, Held
<1>6. Torn'
  BY <1>1, <1>2 DEF Torn, Owned
<1>7. NoStrayChild'
  <2>1. CASE capu # w /\ \A q \in Requests \ {r} : client[q] # w
    BY <1>1, <1>2, <2>1 DEF NoStrayChild, Owned
  <2>2. CASE capu = w \/ \E q \in Requests \ {r} : client[q] = w
    BY <1>1, <1>2, <2>2 DEF NoStrayChild, Owned
  <2> QED
    BY <2>1, <2>2
<1>8. DroppedUnused'
  BY <1>1, <1>2 DEF DroppedUnused, Owned
<1>9. Only(r)
  BY <1>1 DEF GivesUp, Only, Used
<1> QED
  BY <1>4, <1>5, <1>6, <1>7, <1>8, <1>9 DEF Owned

LEMMA ShakenHolds ==
  ASSUME Assumptions, Typed, Owned, Failed, NEW r \in Requests, Shaken(r)
  PROVE  Owned' /\ Failed'
<1> USE Typing
<1>1. step[r] = "shake" /\ client[r] \in Workers
  BY DEF Shaken, At, Held
<1>2. CASE call[r] = "ok"
  <2>1. /\ step' = [step EXCEPT ![r] = "insert"]
        /\ UNCHANGED <<attempt, client, capu, dropping, drops, failedOn, result, child>>
    BY <1>2 DEF Shaken, Goto, dropVars
  <2>2. \A w \in Workers : Fresh(w) => Fresh(w)'
    BY <2>1 DEF Fresh
  <2>3. Attempts'
    BY <1>1, <2>1, <2>2 DEF Attempts, Owned
  <2>4. Private' /\ Torn' /\ NoStrayChild' /\ DroppedUnused'
    BY <1>1, <2>1 DEF Private, Torn, NoStrayChild, DroppedUnused, Owned
  <2>5. Only(r)
    BY <1>1, <2>1 DEF Only, Used
  <2>6. \A w \in Workers : Spent(r, w) => Spent(r, w)'
    BY <1>1, <2>1, <2>5 DEF Spent, Only
  <2>7. FailedOf(r)'
    BY <1>1, <2>1, <2>6, NotYet DEF FailedOf, Failed, Asking
  <2> QED
    BY <2>3, <2>4, <2>5, <2>7, OthersFailed DEF Owned
<1>3. CASE call[r] # "ok"
  <2>1. GivesUp(r, "done") /\ result' = [result EXCEPT ![r] = "not_built"]
          /\ UNCHANGED <<attempt, failedOn>> /\ step'[r] = "done"
    BY <1>1, <1>3 DEF Shaken, At, Goto, Becomes, GivesUp
  <2>2. FailedOf(r)'
    BY <1>1, <2>1 DEF FailedOf, Asking, Retryable
  <2> QED
    BY <2>1, <2>2, ReleaseHolds, OthersFailed
<1> QED
  BY <1>2, <1>3

LEMMA AbandonHolds ==
  ASSUME Assumptions, Typed, Owned, Failed, NEW r \in Requests, Abandon(r)
  PROVE  Owned' /\ Failed'
<1> USE Typing
<1>1. /\ step' = [step EXCEPT ![r] = "done"] /\ step'[r] = "done"
      /\ result' = [result EXCEPT ![r] = "gone"]
      /\ step[r] \in {"get", "insert", "evict"} /\ Free(r)
      /\ UNCHANGED <<attempt, failedOn, capu, child>>
  BY DEF Abandon, Goto, Becomes
<1>2. FailedOf(r)'
  BY <1>1 DEF FailedOf, Asking, Retryable
<1>3. CASE client[r] # NoWorker
  <2>1. GivesUp(r, "done")
    BY <1>1, <1>3 DEF Abandon, GivesUp
  <2> QED
    BY <1>2, <2>1, ReleaseHolds, OthersFailed
<1>4. CASE client[r] = NoWorker
  <2>1. UNCHANGED <<client, drops, dropping>>
    BY <1>4 DEF Abandon, dropVars
  <2>2. \A w \in Workers : Fresh(w) => Fresh(w)'
    BY <1>1, <2>1 DEF Fresh
  <2>3. Attempts'
    BY <1>1, <2>1, <2>2 DEF Attempts, Owned
  <2>4. Private' /\ Torn' /\ NoStrayChild' /\ DroppedUnused'
    BY <1>1, <2>1 DEF Private, Torn, NoStrayChild, DroppedUnused, Owned
  <2>5. Only(r)
    BY <1>1, <2>1 DEF Only, Used
  <2> QED
    BY <1>2, <2>3, <2>4, <2>5, OthersFailed DEF Owned
<1> QED
  BY <1>3, <1>4

LEMMA InsertHolds ==
  ASSUME Assumptions, Typed, Owned, Failed, NEW r \in Requests, Insert(r)
  PROVE  Owned' /\ Failed'
<1> USE Typing
<1> DEFINE w == client[r]
<1>1. /\ step[r] = "insert" /\ step' = [step EXCEPT ![r] = "process"]
      /\ w \in Workers /\ drops[r] = NoWorker
      /\ UNCHANGED <<attempt, failedOn, result, child>>
  BY DEF Insert, Handled, At, Goto, Held, Free
<1>2. capu # w /\ \A q \in Requests \ {r} : client[q] # w
  BY <1>1 DEF Private, Owned
<1>3. ~Fresh(w)
  BY DEF Fresh
<1>4. CASE capu = NoWorker
  <2>1. capu' = w /\ UNCHANGED <<client, drops, dropping>>
    BY <1>1, <1>4 DEF Insert, dropVars
  <2>2. \A v \in Workers : Fresh(v) => Fresh(v)'
    BY <1>1, <2>1 DEF Fresh
  <2>3. Attempts'
    BY <1>1, <2>1, <2>2 DEF Attempts, Owned
  <2>4. Private' /\ Torn'
    BY <1>1, <1>2, <2>1 DEF Private, Torn, Owned, Held
  <2>5. NoStrayChild' /\ DroppedUnused'
    BY <1>1, <1>4, <2>1 DEF NoStrayChild, DroppedUnused, Owned
  <2>6. Only(r)
    BY <1>1, <2>1 DEF Only, Used
  <2>7. \A v \in Workers : Spent(r, v) => Spent(r, v)'
    BY <1>1, <2>1, <2>6 DEF Spent, Only
  <2>8. FailedOf(r)'
    BY <1>1, <2>7, NotYet DEF FailedOf, Failed, Asking
  <2> QED
    BY <2>3, <2>4, <2>5, <2>6, <2>8, OthersFailed DEF Owned
<1>5. CASE capu # NoWorker
  <2>1. /\ capu' = capu /\ capu \in Workers
        /\ client' = [client EXCEPT ![r] = capu]
        /\ drops' = [drops EXCEPT ![r] = w]
        /\ dropping' = [dropping EXCEPT ![w] = "closed"]
    BY <1>1, <1>5 DEF Insert
  <2>2. \A v \in Workers : Fresh(v) => Fresh(v)'
    BY <1>1, <2>1 DEF Fresh
  <2>3. Attempts'
    BY <1>1, <2>1, <2>2 DEF Attempts, Owned
  <2>4. Private' /\ Torn'
    BY <1>1, <2>1 DEF Private, Torn, Owned, Held
  <2>5. NoStrayChild'
    BY <1>1, <2>1 DEF NoStrayChild, Owned
  <2>6. DroppedUnused'
    BY <1>1, <1>2, <2>1 DEF DroppedUnused, Owned
  <2>7. Only(r)
    BY <1>1, <2>1 DEF Only, Used
  <2>8. \A v \in Workers : Spent(r, v) => Spent(r, v)'
    BY <1>1, <2>1, <2>7 DEF Spent, Only
  <2>9. FailedOf(r)'
    BY <1>1, <2>8, NotYet DEF FailedOf, Failed, Asking
  <2> QED
    BY <2>3, <2>4, <2>5, <2>6, <2>7, <2>9, OthersFailed DEF Owned
<1> QED
  BY <1>4, <1>5

LEMMA ProcessedHolds ==
  ASSUME Assumptions, Typed, Owned, Failed, NEW r \in Requests, Processed(r)
  PROVE  Owned' /\ Failed'
<1> USE Typing
<1> DEFINE w == client[r]
           given == Retryable(call[r])
<1>1. step[r] = "process" /\ w \in Workers /\ Free(r) /\ Release(r)
  BY DEF Processed, At, Held
<1>2. /\ UNCHANGED <<attempt, capu, child>>
      /\ failedOn' = IF given THEN [failedOn EXCEPT ![r] = @ \cup {w}] ELSE failedOn
      /\ IF given /\ attempt[r] = 1
           THEN step' = [step EXCEPT ![r] = "evict"] /\ result' = result
           ELSE step' = [step EXCEPT ![r] = "done"]
                  /\ result' = [result EXCEPT ![r] = call[r]]
  BY DEF Processed, Goto, Becomes
<1> HIDE DEF given
<1>3. PICK to \in {"evict", "done"} : GivesUp(r, to)
  BY <1>1, <1>2 DEF GivesUp
<1>4. Owned' /\ Only(r)
  BY <1>3, ReleaseHolds
<1>5. Used(w)
  BY <1>1 DEF Used, Owned, Attempts, Private, Fresh
<1>6. FailedOf(r)'
  <2>1. CASE given /\ attempt[r] = 1
    <3>1. failedOn[r] = {}
      BY <1>1, <2>1 DEF Failed, FailedOf, Asking
    <3>2. PICK v \in Workers : v = w
      BY <1>1
    <3>4. step'[r] = "evict" /\ failedOn'[r] = {v}
      BY <1>2, <2>1, <3>1, <3>2
    <3>5. Used(v)'
      BY <1>4, <1>5, <3>2 DEF Only
    <3>6. Spent(r, v)'
      BY <3>4, <3>5 DEF Spent
    <3>3. ~Retryable(result'[r])
      BY <1>1, <1>2, <2>1, NotYet
    <3> QED
      BY <3>3, <3>4, <3>6 DEF FailedOf, Asking
  <2>2. CASE given /\ attempt[r] # 1
    <3>1. PICK v \in Workers : Spent(r, v)
      BY <1>1, <2>2 DEF Failed, FailedOf, Asking
    <3>2. failedOn'[r] = {v, w} /\ v # w
      BY <1>1, <1>2, <2>2, <3>1 DEF Spent
    <3>3. step'[r] = "done"
      BY <1>2, <2>2
    <3> QED
      BY <1>1, <3>2, <3>3 DEF FailedOf, Asking
  <2>3. CASE ~given
    <3>1. step'[r] = "done" /\ ~Retryable(result'[r])
      BY <1>2, <2>3 DEF given
    <3> QED
      BY <3>1 DEF FailedOf, Asking
  <2> QED
    BY <2>1, <2>2, <2>3
<1> QED
  BY <1>4, <1>6, OthersFailed

LEMMA EvictHolds ==
  ASSUME Assumptions, Typed, Owned, Failed, NEW r \in Requests, Evict(r)
  PROVE  Owned' /\ Failed'
<1> USE Typing
<1>1. /\ step[r] = "evict" /\ step' = [step EXCEPT ![r] = "get"]
      /\ client[r] = NoWorker /\ drops[r] = NoWorker
      /\ attempt' = [attempt EXCEPT ![r] = 2] /\ attempt[r] = 1
      /\ capu' = NoWorker
      /\ UNCHANGED <<client, failedOn, result, child>>
  BY DEF Evict, Handled, At, Goto, Free, Held, Emptied, Owned, Attempts
<1>2. \/ /\ capu \in Workers /\ \A q \in Requests \ {r} : client[q] # capu
         /\ drops' = [drops EXCEPT ![r] = capu]
         /\ dropping' = [dropping EXCEPT ![capu] = "closed"]
      \/ /\ capu = NoWorker \/ \E q \in Requests : client[q] = capu
         /\ UNCHANGED <<drops, dropping>>
  BY DEF Evict, LastHolder, Emptied, dropVars
<1>3. \A w \in Workers : Fresh(w) => Fresh(w)'
  BY <1>1, <1>2 DEF Fresh
<1>4. Attempts'
  BY <1>1, <1>3 DEF Attempts, Owned
<1>5. Private'
  BY <1>1 DEF Private, Owned, Held
<1>6. Torn'
  BY <1>1, <1>2 DEF Torn, Owned
<1>7. NoStrayChild'
  BY <1>1, <1>2 DEF NoStrayChild, Owned
<1>8. DroppedUnused'
  BY <1>1, <1>2 DEF DroppedUnused, Owned
<1>9. Only(r) /\ \A w \in Workers : Used(w) => Used(w)'
  BY <1>1 DEF Only, Used
<1>10. FailedOf(r)'
  <2>1. PICK w \in Workers : Spent(r, w)
    BY <1>1 DEF Failed, FailedOf
  <2>2. Spent(r, w)'
    BY <1>1, <1>9, <2>1 DEF Spent
  <2> QED
    BY <1>1, <2>2, NotYet DEF FailedOf
<1> QED
  BY <1>4, <1>5, <1>6, <1>7, <1>8, <1>9, <1>10, OthersFailed DEF Owned

LEMMA StepHolds ==
  ASSUME Assumptions, Typed, Serving, Owned, Failed, [Next]_vars
  PROVE  Owned' /\ Failed'
<1>1. ASSUME UNCHANGED capuVars
      PROVE  Quiet
  BY <1>1 DEF capuVars, requestVars, dropVars, Quiet
<1>2. ASSUME NEW r \in Requests, Leave(r)
      PROVE  Quiet
  BY <1>2 DEF Leave, requestVars, dropVars, Quiet
<1>3. ASSUME NEW r \in Requests, Capu(r)
      PROVE  Owned' /\ Failed'
  BY <1>3, GetCachedHolds, SpawnFailsHolds, SpawnHolds, ShakenHolds, InsertHolds,
     ProcessedHolds, EvictHolds, AbandonHolds, DropHolds, SendQuiet, QuietHolds
  DEF Capu, Postprocess
<1>4. ASSUME NEW r \in Requests, PostprocessCapu(r)
      PROVE  Owned' /\ Failed'
  BY <1>4, BeginTyped, BeginHolds
<1> QED
  BY <1>1, <1>2, <1>3, <1>4, ThreadQuiet, QuietHolds, Sorted
  DEF Thread, Child, ChildMoves, vars

\* The inductive invariant.
Managed == Typed /\ Serving /\ Owned /\ Failed

\* A child process that runs is cached, in use, or about to be terminated.
THEOREM WorkersNoStrayChild == Assumptions => (Spec => []NoStrayChild)
<1> SUFFICES ASSUME Assumptions PROVE Spec => []NoStrayChild
  OBVIOUS
<1>1. Init => Managed
  BY ServingInit, HoldingInit DEF Managed
<1>2. Managed /\ [Next]_vars => Managed'
  BY StepTyped, StepHolds DEF Managed
<1>3. Managed => NoStrayChild
  BY DEF Managed, Owned
<1> QED
  BY <1>1, <1>2, <1>3, PTL DEF Spec

\* A worker that somebody uses is not torn down (evict_capu).
THEOREM WorkersDroppedUnused == Assumptions => (Spec => []DroppedUnused)
<1> SUFFICES ASSUME Assumptions PROVE Spec => []DroppedUnused
  OBVIOUS
<1>1. Init => Managed
  BY ServingInit, HoldingInit DEF Managed
<1>2. Managed /\ [Next]_vars => Managed'
  BY StepTyped, StepHolds DEF Managed
<1>3. Managed => DroppedUnused
  BY DEF Managed, Owned
<1> QED
  BY <1>1, <1>2, <1>3, PTL DEF Spec

\* A request that fails for want of a worker was failed by two.
THEOREM WorkersTwoFailed == Assumptions => (Spec => []TwoWorkersFailed)
<1> SUFFICES ASSUME Assumptions PROVE Spec => []TwoWorkersFailed
  OBVIOUS
<1>1. Init => Managed
  BY ServingInit, HoldingInit DEF Managed
<1>2. Managed /\ [Next]_vars => Managed'
  BY StepTyped, StepHolds DEF Managed
<1>3. Managed => TwoWorkersFailed
  <2>1. \A w1, w2 \in Workers : w1 # w2 => Cardinality({w1, w2}) = 2
    <3>1. SUFFICES ASSUME NEW w1 \in Workers, NEW w2 \in Workers, w1 # w2
                   PROVE  Cardinality({w1, w2}) = 2
      OBVIOUS
    <3>2. IsFiniteSet({w1}) /\ Cardinality({w1}) = 1
      BY FS_Singleton
    <3>3. Cardinality({w1} \cup {w2}) = 2
      BY <3>1, <3>2, FS_AddElement
    <3>4. {w1} \cup {w2} = {w1, w2}
      OBVIOUS
    <3> QED
      BY <3>3, <3>4
  <2> QED
    BY <2>1 DEF Managed, Failed, FailedOf, TwoWorkersFailed
<1> QED
  BY <1>1, <1>2, <1>3, PTL DEF Spec
-----------------------------------------------------------------------------
(* What is in the pipes of a worker, and whose answer it is.               *)

Silent(w) == \A i \in DOMAIN stdout[w] : stdout[w][i] = Noise

\* Among the lines of w that were not read is one answer, to the command c.
Answering(w, c) ==
  \E i \in DOMAIN stdout[w] :
    /\ stdout[w][i] \in Responses \X {c}
    /\ \A j \in DOMAIN stdout[w] \ {i} : stdout[w][j] = Noise

\* A thread that waits has no command outstanding and no answer to come: what a
\* reading thread has outstanding is the one command it serves, or its answer.
\* Of a thread that has met an error nothing is said; it reads no more.
Piped(w) ==
  /\ thread[w] \in {"none", "waiting"} => pending[w] = <<>> /\ Silent(w)
  /\ thread[w] = "reading" =>
       \E c \in Commands :
         /\ serving[w] = <<c>>
         /\ \/ pending[w] = <<c>> /\ Silent(w)
            \/ pending[w] = <<>> /\ Answering(w, c)

\* Workers that are still to be spawned have no thread.
Unspawned ==
  \A r \in Requests :
    /\ step[r] \in {"none", "get"} => thread[<<r, attempt[r]>>] = "none"
    /\ attempt[r] = 1 => thread[<<r, 2>>] = "none"

\* A reply lies only in a channel that is being read.
Awaited == \A r \in Requests : reply[r] # "none" => call[r] = "awaiting"

Heard ==
  Unspawned /\ Awaited /\ AnswersOwnText /\ \A w \in Workers : Piped(w)

LEMMA HeardInit ==
  ASSUME Assumptions, Init
  PROVE  Heard
<1>1. \A r \in Requests : <<r, 1>> \in Workers /\ <<r, 2>> \in Workers
  BY DEF Workers
<1>2. Unspawned /\ Awaited /\ AnswersOwnText
  BY <1>1 DEF Unspawned, Awaited, AnswersOwnText, Responses, Init, CapuInit
<1>3. \A w \in Workers : Piped(w)
  BY DEF Piped, Silent, Init, CapuInit
<1> QED
  BY <1>2, <1>3 DEF Heard

\* The pipes and the thread of v are not touched.
Still(v) ==
  /\ thread'[v] = thread[v] /\ serving'[v] = serving[v]
  /\ pending'[v] = pending[v] /\ stdout'[v] = stdout[v]

LEMMA PipedStays ==
  ASSUME NEW v \in Workers, Piped(v), Still(v)
  PROVE  Piped(v)'
BY DEF Piped, Still, Silent, Answering

\* No reply arrives, and who has one goes on reading for the same command.
LEMMA CallsHeard ==
  ASSUME Awaited, AnswersOwnText,
         \A q \in Requests : reply'[q] # "none" =>
           /\ reply'[q] = reply[q] /\ source'[q] = source[q]
           /\ call[q] = "awaiting" =>
                call'[q] = "awaiting" /\ Command(q)' = Command(q)
  PROVE  Awaited' /\ AnswersOwnText'
BY DEF Awaited, AnswersOwnText, Responses

LEMMA SendHeard ==
  ASSUME Typed, Heard, NEW r \in Requests, Send(r)
  PROVE  Heard'
<1>1. UNCHANGED <<step, attempt, parts, thread, serving, pending, stdout>>
  BY DEF Send, SendChecks, SendEnqueues, Receive, Timeout, Disconnected, requestVars,
         threadVars, pipeVars
<1>2. \A q \in Requests : reply'[q] # "none" =>
        /\ reply'[q] = reply[q] /\ source'[q] = source[q]
        /\ call[q] = "awaiting" => call'[q] = "awaiting"
  <2>1. CASE SendChecks(r) \/ SendEnqueues(r)
    BY <2>1 DEF SendChecks, SendEnqueues, Calling, Typed, CapuTypeOK
  <2>2. CASE Receive(r)
    BY <2>2 DEF Receive, Typed, CapuTypeOK
  <2>3. CASE Timeout(r) \/ Disconnected(r)
    BY <2>3 DEF Timeout, Disconnected, Typed, CapuTypeOK
  <2> QED
    BY <2>1, <2>2, <2>3 DEF Send
<1>3. Awaited' /\ AnswersOwnText'
  BY <1>1, <1>2, CallsHeard DEF Heard, Command
<1>4. Unspawned' /\ \A w \in Workers : Piped(w)'
  BY <1>1, PipedStays DEF Heard, Unspawned, Still
<1> QED
  BY <1>3, <1>4 DEF Heard

\* A step of r that finds it not calling, and only moves r.
LEMMA MoveHeard ==
  ASSUME Heard, NEW r \in Requests, call[r] # "awaiting",
         UNCHANGED <<reply, source>>,
         \A q \in Requests \ {r} :
           /\ call'[q] = call[q] /\ step'[q] = step[q]
           /\ attempt'[q] = attempt[q] /\ parts'[q] = parts[q]
  PROVE  Awaited' /\ AnswersOwnText'
<1>1. reply[r] = "none"
  BY DEF Heard, Awaited
<1> QED
  BY <1>1, CallsHeard DEF Heard, Command

\* The steps of a request that are not of a call.
Manages(r) ==
  \/ Postprocess(r) /\ ~Send(r)
  \/ PostprocessCapu(r) /\ step[r] = "none"

\* They move only r, and nothing that its call depends on while it waits for a
\* reply; the threads they leave alone, but for the one they spawn.
LEMMA StepMoves ==
  ASSUME Assumptions, Typed, NEW r \in Requests, Manages(r)
  PROVE  /\ call[r] # "awaiting" \/ UNCHANGED <<step, attempt, parts, call>>
         /\ UNCHANGED <<reply, source, serving, pending, stdout>>
         /\ \A q \in Requests \ {r} :
              /\ call'[q] = call[q] /\ step'[q] = step[q]
              /\ attempt'[q] = attempt[q] /\ parts'[q] = parts[q]
         /\ Spawn(r) \/ UNCHANGED thread
<1> USE DEF Typed, CapuTypeOK, Clients, requestVars, callVars, threadVars, pipeVars
<1>1. CASE GetCached(r) \/ SpawnFails(r) \/ Evict(r)
  BY <1>1 DEF GetCached, SpawnFails, Misses, Evict, Handled, At, Goto
<1>2. CASE Spawn(r)
  BY <1>2 DEF Spawn, Misses, Handled, At, Goto
<1>3. CASE Shaken(r) \/ Processed(r)
  BY <1>3 DEF Shaken, Processed, At, Goto, Unfinished
<1>4. CASE Insert(r) \/ Abandon(r)
  BY <1>4 DEF Insert, Abandon, Handled, At, Goto
<1>5. CASE NextPart(r)
  BY <1>5 DEF NextPart
<1>6. CASE Drop(r)
  BY <1>6 DEF Drop, DropTerminates, DropJoins
<1>7. CASE PostprocessCapu(r) /\ step[r] = "none"
  BY <1>7 DEF PostprocessCapu, Goto
<1> QED
  BY <1>1, <1>2, <1>3, <1>4, <1>5, <1>6, <1>7 DEF Manages, Postprocess

LEMMA SpawnedOnce ==
  ASSUME Assumptions, Typed, Owned, Unspawned, NEW r \in Requests, Manages(r)
  PROVE  Unspawned'
<1> USE Typing
<1>1. CASE Spawn(r)
  <2>1. /\ step' = [step EXCEPT ![r] = "shake"] /\ attempt' = attempt
        /\ thread' = [thread EXCEPT ![<<r, attempt[r]>>] = "waiting"]
    BY <1>1 DEF Spawn, Misses, Goto
  <2>2. \A v \in Workers : v # <<r, attempt[r]>> => thread'[v] = thread[v]
    BY <2>1 DEF Typed, CapuTypeOK
  <2>3. \A q \in Requests \ {r} :
          step'[q] = step[q] /\ attempt'[q] = attempt[q]
            /\ <<q, attempt[q]>> # <<r, attempt[r]>> /\ <<q, 2>> # <<r, attempt[r]>>
    BY <2>1
  <2>4. step'[r] = "shake" /\ (attempt[r] = 1 => <<r, 2>> # <<r, attempt[r]>>)
    BY <2>1
  <2> QED
    BY <2>1, <2>2, <2>3, <2>4 DEF Unspawned
<1>2. CASE Evict(r)
  <2>1. step[r] = "evict" /\ attempt[r] = 1
    BY <1>2 DEF Evict, Handled, At, Owned, Attempts
  <2>2. step' = [step EXCEPT ![r] = "get"] /\ attempt' = [attempt EXCEPT ![r] = 2]
    BY <1>2 DEF Evict, Goto
  <2>3. UNCHANGED thread
    BY <1>2 DEF Evict, threadVars
  <2> QED
    BY <2>1, <2>2, <2>3 DEF Unspawned
<1>3. CASE ~Spawn(r) /\ ~Evict(r)
  <2>1. UNCHANGED <<attempt, thread>>
    BY <1>3 DEF Manages, Postprocess, PostprocessCapu, GetCached, SpawnFails, Shaken,
                Insert, NextPart, Processed, Abandon, Drop, DropTerminates, DropJoins,
                requestVars, threadVars
  <2>2. step' = step \/ step[r] = "none"
          \/ \E where \in {"insert", "process", "evict", "done"} :
               step' = [step EXCEPT ![r] = where]
    BY <1>3 DEF Manages, Postprocess, PostprocessCapu, GetCached, SpawnFails, Shaken,
                Insert, NextPart, Processed, Abandon, Drop, DropTerminates, DropJoins, Goto,
                requestVars
  <2>3. step[r] = "none" => \A q \in Requests \ {r} : step'[q] = step[q]
    BY StepMoves
  <2> QED
    BY <2>1, <2>2, <2>3 DEF Unspawned
<1> QED
  BY <1>1, <1>2, <1>3

\* A request begins, or takes a step that is none of a call.
LEMMA RequestHeard ==
  ASSUME Assumptions, Typed, Owned, Heard, NEW r \in Requests, Manages(r)
  PROVE  Heard'
<1>1. Unspawned'
  BY SpawnedOnce DEF Heard
<1>2. Awaited' /\ AnswersOwnText'
  <2>1. CASE UNCHANGED <<step, attempt, parts, call>>
    BY <2>1, StepMoves, CallsHeard DEF Heard, Command
  <2>2. CASE call[r] # "awaiting"
    BY <2>2, StepMoves, MoveHeard
  <2> QED
    BY <2>1, <2>2, StepMoves
<1>3. ASSUME NEW w \in Workers  PROVE Piped(w)'
  <2>1. CASE Still(w)
    BY <2>1, PipedStays DEF Heard
  <2>2. CASE ~Still(w)
    <3>1. Spawn(r) /\ w = <<r, attempt[r]>>
      BY <2>2, StepMoves DEF Still, Spawn, Typed, CapuTypeOK
    <3>2. step[r] = "get" /\ thread'[w] = "waiting"
      BY <3>1 DEF Spawn, Misses, Handled, At, Typed, CapuTypeOK
    <3>3. thread[w] = "none"
      BY <3>1, <3>2 DEF Heard, Unspawned
    <3> QED
      BY <3>2, <3>3, StepMoves DEF Heard, Piped, Silent
  <2> QED
    BY <2>1, <2>2
<1> QED
  BY <1>1, <1>2, <1>3 DEF Heard

\* Something is delivered: an error, or the answer to the command it is for.
LEMMA DeliverHeard ==
  ASSUME Typed, Heard, NEW w \in Workers, NEW c \in Commands, NEW line,
         Deliver(w, c, line), line[1] \in Responses => line[2] = c,
         UNCHANGED <<step, attempt, parts, call>>
  PROVE  Awaited' /\ AnswersOwnText'
<1>1. c[1] \in Requests
  BY DEF Commands
<1>2. CASE Listening(w, c)
  <2>1. /\ reply' = [reply EXCEPT ![c[1]] = line[1]]
        /\ source' = [source EXCEPT ![c[1]] = line[2]]
        /\ call[c[1]] = "awaiting" /\ Command(c[1]) = c
    BY <1>2 DEF Deliver, Listening
  <2>2. \A q \in Requests : Command(q)' = Command(q)
    BY DEF Command
  <2> HIDE DEF Command
  <2> QED
    BY <1>1, <2>1, <2>2 DEF Heard, Awaited, AnswersOwnText, Typed, CapuTypeOK
<1>3. CASE ~Listening(w, c)
  BY <1>3, CallsHeard DEF Deliver, Heard, Command
<1> QED
  BY <1>2, <1>3

LEMMA ThreadHeard ==
  ASSUME Typed, Heard, NEW w \in Workers, WorkerThread(w)
  PROVE  Heard'
<1>1. UNCHANGED <<step, attempt, parts, call>>
  BY DEF WorkerThread, TakeCommand, ReadsLine, ReadsEnd, StopThread, EndThread,
         requestVars, callVars
<1>2. /\ thread[w] # "none"
      /\ \A v \in Workers : v # w => Still(v)
      /\ thread'[w] # "none"
  BY DEF WorkerThread, TakeCommand, ReadsLine, ReadsEnd, StopThread, EndThread,
         ClosePipes, Stops, Still, pipeVars, Typed, CapuTypeOK
<1>3. Unspawned'
  <2>1. \A r \in Requests : <<r, attempt[r]>> \in Workers /\ <<r, 2>> \in Workers
    BY DEF Workers, Typed, CapuTypeOK
  <2> QED
    BY <1>1, <1>2, <2>1 DEF Heard, Unspawned, Still
<1>4. Piped(w)
  BY DEF Heard
<1>5. Awaited' /\ AnswersOwnText' /\ Piped(w)'
  <2>1. CASE TakeCommand(w)
    <3>1. Head(queue[w]) \in Commands
      BY <2>1 DEF TakeCommand, Typed, CapuTypeOK
    <3>2. CASE thread'[w] = "reading"
      <4>1. UNCHANGED <<reply, source, stdout>>
        BY <2>1, <3>2 DEF TakeCommand, Typed, CapuTypeOK
      <4>2. pending[w] = <<>> /\ Silent(w)
        BY <1>4, <2>1 DEF TakeCommand, Piped
      <4>3. serving'[w] = <<Head(queue[w])>> /\ pending'[w] = <<Head(queue[w])>>
        BY <2>1, <3>1, <3>2, <4>2 DEF TakeCommand, Typed, CapuTypeOK
      <4>4. Piped(w)'
        BY <3>1, <3>2, <4>1, <4>2, <4>3 DEF Piped, Silent
      <4> QED
        BY <1>1, <4>1, <4>4, CallsHeard DEF Heard, Command
    <3>3. CASE thread'[w] = "stopping"
      <4>1. Deliver(w, Head(queue[w]), Noise)
        BY <2>1, <3>3 DEF TakeCommand, Typed, CapuTypeOK
      <4>2. Noise[1] \notin Responses
        BY DEF Noise, Responses
      <4> QED
        BY <1>1, <3>1, <3>3, <4>1, <4>2, DeliverHeard DEF Piped
    <3> QED
      BY <2>1, <3>2, <3>3 DEF TakeCommand, Typed, CapuTypeOK
  <2>2. CASE ReadsLine(w)
    <3>1. PICK c \in Commands :
            /\ serving[w] = <<c>>
            /\ \/ pending[w] = <<c>> /\ Silent(w)
               \/ pending[w] = <<>> /\ Answering(w, c)
      BY <1>4, <2>2 DEF ReadsLine, Piped
    <3> DEFINE line == Head(stdout[w])
    <3>2. /\ Deliver(w, c, line)
          /\ stdout[w] \in Seq(Lines) /\ stdout[w] # <<>>
          /\ stdout'[w] = Tail(stdout[w]) /\ pending' = pending
          /\ thread'[w] = Stops(line)
      BY <2>2, <3>1 DEF ReadsLine, Typed, CapuTypeOK
    <3>3. line = stdout[w][1] /\ 1 \in DOMAIN stdout[w]
      BY <3>2
    <3>4. \A i \in DOMAIN Tail(stdout[w]) :
            i + 1 \in DOMAIN stdout[w] \ {1} /\ Tail(stdout[w])[i] = stdout[w][i + 1]
      BY <3>2
    <3> HIDE DEF line
    <3>5. CASE line = Noise
      <4>1. Noise[1] \notin Responses
        BY DEF Noise, Responses
      <4>2. Piped(w)'
        BY <3>2, <3>5 DEF Piped, Stops
      <4> QED
        BY <1>1, <3>2, <3>5, <4>1, <4>2, DeliverHeard
    <3>6. CASE line # Noise
      <4>1. /\ pending[w] = <<>> /\ line \in Responses \X {c}
            /\ \A j \in DOMAIN stdout[w] \ {1} : stdout[w][j] = Noise
        BY <3>1, <3>3, <3>6 DEF Silent, Answering
      <4>2. Piped(w)'
        BY <3>2, <3>4, <3>6, <4>1 DEF Piped, Stops, Silent
      <4> QED
        BY <1>1, <3>2, <4>1, <4>2, DeliverHeard
    <3> QED
      BY <3>5, <3>6
  <2>3. CASE ReadsEnd(w)
    <3>1. PICK c \in Commands : serving[w] = <<c>>
      BY <1>4, <2>3 DEF ReadsEnd, Piped
    <3>2. Deliver(w, c, <<"unavailable", NoCommand>>) /\ thread'[w] = "stopping"
      BY <2>3, <3>1 DEF ReadsEnd, Typed, CapuTypeOK
    <3>3. Piped(w)'
      BY <3>2 DEF Piped
    <3>4. <<"unavailable", NoCommand>>[1] \notin Responses
      BY DEF Responses
    <3> QED
      BY <1>1, <3>2, <3>3, <3>4, DeliverHeard
  <2>4. CASE StopThread(w) \/ EndThread(w)
    <3>1. thread'[w] = "ended" /\ UNCHANGED <<reply, source>>
      BY <2>4 DEF StopThread, EndThread, callVars, Typed, CapuTypeOK
    <3>2. Piped(w)'
      BY <3>1 DEF Piped
    <3> QED
      BY <1>1, <3>1, <3>2, CallsHeard DEF Heard, Command
  <2> QED
    BY <2>1, <2>2, <2>3, <2>4 DEF WorkerThread
<1>6. \A v \in Workers : Piped(v)'
  BY <1>2, <1>5, PipedStays DEF Heard
<1> QED
  BY <1>3, <1>5, <1>6 DEF Heard

LEMMA ChildHeard ==
  ASSUME Typed, Heard, NEW w \in Workers, ChildMoves(w)
  PROVE  Heard'
<1>1. /\ UNCHANGED <<step, attempt, parts, call, reply, source, thread, serving>>
      /\ \A v \in Workers : v # w => Still(v)
  BY DEF ChildMoves, ChildDies, ChildPrints, ChildAnswers, requestVars, callVars,
         threadVars, pipeVars, Still, Typed, CapuTypeOK
<1>2. Unspawned' /\ Awaited' /\ AnswersOwnText'
  BY <1>1, CallsHeard DEF Heard, Unspawned, Command
<1>3. Piped(w)
  BY DEF Heard
<1>4. Piped(w)'
  <2>1. CASE ChildDies(w)
    BY <2>1, <1>1, <1>3, PipedStays DEF ChildDies, threadVars, pipeVars, Still
  <2>2. CASE ChildPrints(w)
    <3>1. /\ stdout[w] \in Seq(Lines) /\ pending'[w] = pending[w]
          /\ stdout'[w] = Append(stdout[w], Noise)
      BY <2>2 DEF ChildPrints, Typed, CapuTypeOK
    <3>2. /\ DOMAIN stdout[w] \subseteq DOMAIN stdout'[w]
          /\ \A i \in DOMAIN stdout[w] : stdout'[w][i] = stdout[w][i]
          /\ \A i \in DOMAIN stdout'[w] \ DOMAIN stdout[w] : stdout'[w][i] = Noise
      BY <3>1
    <3>3. Silent(w) => Silent(w)'
      BY <3>2 DEF Silent
    <3>4. \A c \in Commands : Answering(w, c) => Answering(w, c)'
      BY <3>2 DEF Answering
    <3> QED
      BY <1>1, <1>3, <3>1, <3>3, <3>4 DEF Piped
  <2>3. ASSUME NEW what \in Responses, ChildAnswers(w, what)
        PROVE  Piped(w)'
    <3>1. /\ stdout[w] \in Seq(Lines) /\ pending[w] # <<>>
          /\ pending'[w] = Tail(pending[w])
          /\ stdout'[w] = Append(stdout[w], <<what, Head(pending[w])>>)
      BY <2>3 DEF ChildAnswers, Typed, CapuTypeOK
    <3>2. ASSUME thread[w] = "reading"
          PROVE  \E c \in Commands :
                   serving[w] = <<c>> /\ pending'[w] = <<>> /\ Answering(w, c)'
      <4>1. PICK c \in Commands :
              serving[w] = <<c>> /\ pending[w] = <<c>> /\ Silent(w)
        BY <1>3, <3>1, <3>2 DEF Piped
      <4>2. /\ pending'[w] = <<>>
            /\ stdout'[w] = Append(stdout[w], <<what, c>>)
        BY <3>1, <4>1
      <4> DEFINE last == Len(stdout[w]) + 1
      <4>3. /\ last \in DOMAIN stdout'[w] /\ stdout'[w][last] = <<what, c>>
            /\ \A i \in DOMAIN stdout'[w] \ {last} :
                 i \in DOMAIN stdout[w] /\ stdout'[w][i] = stdout[w][i]
        BY <3>1, <4>2
      <4>4. Answering(w, c)'
        <5>1. \A i \in DOMAIN stdout'[w] \ {last} : stdout'[w][i] = Noise
          BY <4>1, <4>3 DEF Silent
        <5>2. stdout'[w][last] \in Responses \X {c}
          BY <4>3, <2>3
        <5> HIDE DEF last
        <5> QED
          BY <4>3, <5>1, <5>2 DEF Answering
      <4> QED
        BY <4>1, <4>2, <4>4
    <3> QED
      BY <1>1, <1>3, <3>1, <3>2 DEF Piped
  <2> QED
    BY <2>1, <2>2, <2>3 DEF ChildMoves
<1> QED
  BY <1>1, <1>2, <1>4, PipedStays DEF Heard

LEMMA StepHeard ==
  ASSUME Assumptions, Typed, Serving, Owned, Heard, [Next]_vars
  PROVE  Heard'
<1>1. ASSUME UNCHANGED <<step, attempt, parts, call, reply, source, threadVars>>
      PROVE  Heard'
  BY <1>1, PipedStays, CallsHeard
  DEF Heard, Unspawned, Command, threadVars, pipeVars, Still
<1>2. ASSUME UNCHANGED capuVars
      PROVE  Heard'
  BY <1>1, <1>2 DEF capuVars, requestVars, callVars
<1>3. ASSUME NEW r \in Requests, Leave(r)
      PROVE  Heard'
  BY <1>1, <1>3 DEF Leave, requestVars, callVars
<1>4. ASSUME NEW r \in Requests, Capu(r)
      PROVE  Heard'
  <2>1. Postprocess(r)
    BY <1>4 DEF Capu
  <2>2. CASE Send(r)
    BY <2>2, SendHeard
  <2>3. CASE ~Send(r)
    <3>1. Manages(r)
      BY <2>1, <2>3 DEF Manages
    <3> QED
      BY <3>1, RequestHeard
  <2> QED
    BY <2>2, <2>3
<1>5. ASSUME NEW r \in Requests, PostprocessCapu(r)
      PROVE  Heard'
  <2>1. step[r] = "none"
    BY <1>5, BeginTyped
  <2>2. Manages(r)
    BY <1>5, <2>1 DEF Manages
  <2> QED
    BY <2>2, RequestHeard
<1> QED
  BY <1>2, <1>3, <1>4, <1>5, ThreadHeard, ChildHeard, Sorted
  DEF Thread, Child, ChildMoves, vars

\* A request is told nothing of its text but the child's answer to that text,
\* whatever else the child prints and however late it answers (worker_loop).
THEOREM WorkersAnswerOwnText == Assumptions => (Spec => []AnswersOwnText)
<1> SUFFICES ASSUME Assumptions PROVE Spec => []AnswersOwnText
  OBVIOUS
<1>1. Init => Managed /\ Heard
  BY ServingInit, HoldingInit, HeardInit DEF Managed
<1>2. Managed /\ Heard /\ [Next]_vars => (Managed /\ Heard)'
  BY StepTyped, StepHolds, StepHeard DEF Managed
<1>3. Heard => AnswersOwnText
  BY DEF Heard
<1> QED
  BY <1>1, <1>2, <1>3, PTL DEF Spec
=============================================================================
