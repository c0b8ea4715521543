---------------------------- MODULE SpeechService ----------------------------
(***************************************************************************)
(* Requests to the native speech service: the transcription handler and    *)
(* the warm-up handler of stt-http (main.rs), the recogniser cache of      *)
(* stt-core (runtime.rs), and, through CapuWorkers, punctuation.           *)
(*                                                                         *)
(* Each request has its place `pc'.  Decoding, loading and inference run   *)
(* on blocking threads, which go on when the handler is dropped; the rest  *)
(* is the handler itself.  recognizers and each recogniser are behind      *)
(* mutexes: `loader' and `busy' say who is inside.  The code under them    *)
(* does not panic, so no mutex is ever poisoned.                           *)
(***************************************************************************)
EXTENDS CapuWorkers

CONSTANTS
  Models,       \* the registered models
  CapuModels,   \* those whose postprocess_mode is capu
  WarmStart,    \* warm_start_models of the configuration
  Unknown,      \* a model id that is not registered
  Warmups,      \* requests to /admin/warmup
  Fickle        \* requests whose client may leave before its answer

ASSUME ServiceAssumption ==
  /\ CapuModels \subseteq Models /\ WarmStart \subseteq Models
  /\ Unknown \notin Models
  /\ Warmups \cap Requests = {}
  /\ Fickle \subseteq Requests
  /\ NoWorker \notin Requests \cup Warmups

All == Requests \cup Warmups
Nobody == NoWorker

VARIABLES
  server,      \* starting, serving (bound to its port), or exited
  pc,          \* where a request is: absent (it is never made), new, ..., done
  asked,       \* the model a request names
  probe,       \* run_probe of a warm-up
  answer,      \* what a request was answered with
  resolved,    \* keys of resolved_models
  recognizers, \* keys of recognizers
  loader,      \* who holds the lock of recognizers while a model loads
  busy,        \* who holds the lock of each recogniser
  loads        \* history: recognisers constructed for the cache

cacheVars == <<resolved, recognizers, loader, busy, loads>>
serviceVars == <<server, pc, asked, probe, answer, cacheVars>>
vars == <<serviceVars, capuVars>>

Init ==
  /\ server = "starting"
  /\ pc \in [All -> {"absent", "new"}]
  /\ asked \in [All -> Models \cup {Unknown}]
  /\ probe \in [Warmups -> BOOLEAN]
  /\ answer = [r \in All |-> "none"]
  /\ resolved = {} /\ recognizers = {}
  /\ loader = Nobody
  /\ busy = [m \in Models |-> Nobody]
  /\ loads = [m \in Models |-> 0]
  /\ CapuInit
-----------------------------------------------------------------------------
(* What a request can be refused with, or fail with.                       *)

Rejections == {"invalid_key", "too_large", "bad_multipart", "no_file",
               "no_model"}
DecodeErrors == {"no_ffmpeg", "ffmpeg_launch", "undecodable", "empty",
                 "no_temp_file"}
CapuErrors == {"not_built", "refused", "timeout"} \cup Failures
-----------------------------------------------------------------------------
(* Moves of a request.                                                     *)

Moves(r, from, to) == pc[r] = from /\ pc' = [pc EXCEPT ![r] = to]
Answers(r, from, e) == Moves(r, from, "done")
                         /\ answer' = [answer EXCEPT ![r] = e]
\* A step of the handler, which a dropped handler does not take.
Here(r) == r \notin left
\* A result a dropped handler does not send.
Outcome(r, e) == IF r \in left THEN "gone" ELSE e

-----------------------------------------------------------------------------
(* Start: warm_start runs before the socket is bound.                      *)

Warmed == WarmStart \subseteq recognizers

StartLoads(m) ==
  /\ server = "starting" /\ m \in WarmStart \ recognizers
  /\ resolved' = resolved \cup {m}
  /\ recognizers' = recognizers \cup {m}
  /\ loads' = [loads EXCEPT ![m] = @ + 1]
  /\ UNCHANGED <<server, pc, asked, probe, answer, loader, busy, capuVars>>

\* A warm-start model failed to load, or took longer than its timeout.
StartFails ==
  /\ server = "starting" /\ WarmStart # {}
  /\ server' = "exited"
  /\ UNCHANGED <<pc, asked, probe, answer, cacheVars, capuVars>>

Bind ==
  /\ server = "starting" /\ Warmed
  /\ server' = "serving"
  /\ UNCHANGED <<pc, asked, probe, answer, cacheVars, capuVars>>
-----------------------------------------------------------------------------
(* transcribe.                                                             *)

Accept(r) ==
  /\ server = "serving" /\ Moves(r, "new", "resolve")
  /\ UNCHANGED <<server, asked, probe, answer, cacheVars, capuVars>>

\* An early return before the operation: key, size, multipart, file, model.
Reject(r, e) ==
  /\ server = "serving" /\ Answers(r, "new", e)
  /\ UNCHANGED <<server, asked, probe, cacheVars, capuVars>>

\* resolve_model: from the cache, or from the registry and the asset files.
Resolve(r) ==
  /\ Here(r) /\ asked[r] \in Models
  /\ resolved' = resolved \cup {asked[r]}
  /\ Moves(r, "resolve", "decode")
  /\ UNCHANGED <<server, asked, probe, answer, recognizers, loader, busy,
                 loads, capuVars>>

ResolveFails(r) ==
  /\ Here(r) /\ asked[r] \notin resolved
  /\ Answers(r, "resolve", IF asked[r] \in Models THEN "assets"
                             ELSE "unknown_model")
  /\ UNCHANGED <<server, asked, probe, cacheVars, capuVars>>

Decode(r) ==
  /\ Moves(r, "decode", "peek")
  /\ UNCHANGED <<server, asked, probe, answer, cacheVars, capuVars>>

DecodeFails(r, e) ==
  /\ Answers(r, "decode", Outcome(r, e))
  /\ UNCHANGED <<server, asked, probe, cacheVars, capuVars>>

\* is_recognizer_cached, on the handler's own thread.
Peek(r) ==
  /\ Here(r) /\ loader = Nobody
  /\ Moves(r, "peek", "lookup")
  /\ UNCHANGED <<server, asked, probe, answer, cacheVars, capuVars>>

\* Seeded defect: the lock is not held while a model is constructed.
Unlocked == TRUE
LockFree == loader = Nobody

Found(r) ==
  /\ LockFree /\ asked[r] \in recognizers
  /\ Moves(r, "lookup", "acquire")
  /\ UNCHANGED <<server, asked, probe, answer, cacheVars, capuVars>>

\* warmed_recognizer keeps the lock while it constructs the recogniser.
Loads(r) ==
  /\ LockFree /\ asked[r] \notin recognizers
  /\ Moves(r, "lookup", "load")
  /\ loader' = r
  /\ UNCHANGED <<server, asked, probe, answer, resolved, recognizers, busy,
                 loads, capuVars>>

Loaded(r) ==
  /\ Moves(r, "load", "acquire")
  /\ recognizers' = recognizers \cup {asked[r]}
  /\ loads' = [loads EXCEPT ![asked[r]] = @ + 1]
  /\ loader' = Nobody
  /\ UNCHANGED <<server, asked, probe, answer, resolved, busy, capuVars>>

LoadFails(r) ==
  /\ Answers(r, "load", IF r \in Warmups THEN "not_warmed"
                          ELSE Outcome(r, "load_failed"))
  /\ loader' = Nobody
  /\ UNCHANGED <<server, asked, probe, resolved, recognizers, busy, loads,
                 capuVars>>

Infer(r) ==
  /\ Moves(r, "acquire", "infer")
  /\ busy[asked[r]] = Nobody
  /\ busy' = [busy EXCEPT ![asked[r]] = r]
  /\ UNCHANGED <<server, asked, probe, answer, resolved, recognizers, loader,
                 loads, capuVars>>

Inferred(r) ==
  /\ Moves(r, "infer", "post")
  /\ busy' = [busy EXCEPT ![asked[r]] = Nobody]
  /\ UNCHANGED <<server, asked, probe, answer, resolved, recognizers, loader,
                 loads, capuVars>>

InferFails(r) ==
  /\ Answers(r, "infer", Outcome(r, "inference"))
  /\ busy' = [busy EXCEPT ![asked[r]] = Nobody]
  /\ UNCHANGED <<server, asked, probe, resolved, recognizers, loader, loads,
                 capuVars>>

\* The builtin modes do not fail.
PostprocessBuiltin(r) ==
  /\ Here(r) /\ asked[r] \notin CapuModels
  /\ Answers(r, "post", "ok")
  /\ UNCHANGED <<server, asked, probe, cacheVars, capuVars>>

PostprocessCapu(r) ==
  /\ Here(r) /\ asked[r] \in CapuModels
  /\ Moves(r, "post", "capu")
  /\ Goto(r, "get")
  /\ UNCHANGED <<server, asked, probe, answer, cacheVars, attempt, client,
                 parts, callVars, result, failedOn, left, capu, threadVars,
                 child, poisoned, dropVars>>

\* resolve_capu_model finds no such punctuation model.
NoCapuModel(r) ==
  /\ Here(r) /\ asked[r] \in CapuModels
  /\ Answers(r, "post", "not_built")
  /\ UNCHANGED <<server, asked, probe, cacheVars, capuVars>>

Punctuated(r) ==
  /\ At(r, "done")
  /\ Answers(r, "capu", Outcome(r, result[r]))
  /\ UNCHANGED <<server, asked, probe, cacheVars, capuVars>>

Capu(r) ==
  /\ pc[r] = "capu" /\ Postprocess(r)
  /\ UNCHANGED serviceVars
-----------------------------------------------------------------------------
(* A client leaves: its handler is dropped.                                *)

Leave(r) ==
  /\ r \in Fickle \ left /\ pc[r] \notin {"absent", "new", "done"}
  /\ left' = left \cup {r}
  /\ UNCHANGED <<serviceVars, requestVars, client, callVars, capu, threadVars,
                 child, poisoned, dropVars>>

\* The handler was at a suspension point of its own, or its thread is done.
Dropped(r) ==
  /\ r \in left /\ pc[r] \in {"resolve", "peek", "post"}
  /\ Answers(r, pc[r], "gone")
  /\ UNCHANGED <<server, asked, probe, cacheVars, capuVars>>
-----------------------------------------------------------------------------
(* admin_warmup of one model.                                              *)

\* With a probe: run_probe, a recogniser of its own.
WarmupProbes(r) ==
  /\ server = "serving" /\ probe[r] /\ LockFree
  /\ \/ /\ asked[r] \in Models
        /\ resolved' = resolved \cup {asked[r]}
        /\ Answers(r, "new", "warmed") \/ Answers(r, "new", "not_warmed")
     \/ /\ asked[r] \notin resolved
        /\ Answers(r, "new", "not_warmed")
        /\ UNCHANGED resolved
  /\ UNCHANGED <<server, asked, probe, recognizers, loader, busy, loads,
                 capuVars>>

\* Without one: warm_one_model, unless the model is there or unknown.
WarmupBegins(r) ==
  /\ server = "serving" /\ ~probe[r] /\ LockFree
  /\ \/ /\ asked[r] \in recognizers
        /\ Answers(r, "new", "warmed")
        /\ UNCHANGED resolved
     \/ /\ asked[r] \in Models \ recognizers
        /\ Moves(r, "new", "lookup")
        /\ resolved' = resolved \cup {asked[r]}
        /\ UNCHANGED answer
     \/ /\ asked[r] \notin resolved
        /\ Answers(r, "new", "not_warmed")
        /\ UNCHANGED resolved
  /\ UNCHANGED <<server, asked, probe, recognizers, loader, busy, loads,
                 capuVars>>

\* warm_one_model has the recogniser; it may have taken too long.
WarmupEnds(r) ==
  /\ \/ Answers(r, "acquire", "warmed")
     \/ Answers(r, "acquire", "not_warmed")
  /\ UNCHANGED <<server, asked, probe, cacheVars, capuVars>>
-----------------------------------------------------------------------------
Start == StartFails \/ Bind \/ \E m \in Models : StartLoads(m)

\* Everything a transcription does by itself once it has been accepted: what comes
\* before its punctuation, and that.
Recognize(r) ==
  /\ pc[r] # "capu"
  /\ \/ Resolve(r) \/ ResolveFails(r) \/ Decode(r)
     \/ \E e \in DecodeErrors \cup {"too_long"} : DecodeFails(r, e)
     \/ Peek(r) \/ Found(r) \/ Loads(r) \/ Loaded(r) \/ LoadFails(r)
     \/ Infer(r) \/ Inferred(r) \/ InferFails(r)
     \/ PostprocessBuiltin(r) \/ PostprocessCapu(r) \/ NoCapuModel(r)
     \/ Dropped(r)

Transcribe(r) == Recognize(r) \/ Capu(r) \/ Punctuated(r)

Warmup(r) ==
  \/ WarmupProbes(r) \/ WarmupBegins(r) \/ WarmupEnds(r)
  \/ Found(r) \/ Loads(r) \/ Loaded(r) \/ LoadFails(r)

Child ==
  /\ \E w \in Workers :
       \/ ChildDies(w) \/ ChildPrints(w)
       \/ \E what \in Responses : ChildAnswers(w, what)
  /\ UNCHANGED serviceVars

Thread(w) == WorkerThread(w) /\ UNCHANGED serviceVars

\* The transcriptions that run.
Accepted == {r \in Requests : pc[r] \notin {"absent", "new", "done"}}

\* What the service's own threads do; the rest is clients and children.
Progress ==
  \/ \E r \in Accepted : Transcribe(r)
  \/ \E r \in Warmups : Warmup(r)
  \/ \E w \in Workers : Thread(w)

Next ==
  \/ Start \/ Progress \/ Child
  \/ \E r \in Requests :
       \/ Accept(r) \/ Leave(r)
       \/ \E e \in Rejections : Reject(r, e)

Spec == Init /\ [][Next]_vars

\* As long as some thread of the service can take a step, one does: threads
\* are scheduled, inference and loading end, timeouts pass.  This is weaker
\* than fairness to each thread.  Clients, and children, owe nothing.
Fairness == WF_vars(Progress)

FairSpec == Spec /\ Fairness
-----------------------------------------------------------------------------
Places == {"absent", "new", "resolve", "decode", "peek", "lookup", "load",
           "acquire", "infer", "post", "capu", "done"}
Answered == {"none", "ok", "gone", "warmed", "not_warmed", "too_long",
             "unknown_model", "assets", "load_failed", "inference"}
              \cup Rejections \cup DecodeErrors \cup CapuErrors

\* The state is well typed: in particular a result has at least one text left
\* while it is processed, and a recogniser is only constructed from a model
\* that was resolved.
TypeOK ==
  /\ server \in {"starting", "serving", "exited"}
  /\ pc \in [All -> Places] /\ answer \in [All -> Answered]
  /\ asked \in [All -> Models \cup {Unknown}] /\ probe \in [Warmups -> BOOLEAN]
  /\ resolved \subseteq Models /\ recognizers \subseteq resolved
  /\ loader \in All \cup {Nobody}
  /\ busy \in [Models -> Requests \cup {Nobody}]
  /\ loads \in [Models -> Nat]
  /\ CapuTypeOK

\* However many requests and warm-ups name a model that is not loaded, one
\* recogniser is constructed for it: what the lock of warmed_recognizer is for.
LoadedOnce == \A m \in Models : loads[m] <= 1

\* A child process that runs belongs to the cached worker, to a worker a
\* request is using, or to one that is being dropped: a client that leaves, a
\* handshake that fails or a worker that loses the race for the cache leaves
\* no child behind (CapuClient::spawn, get_or_build_capu, evict_capu).
NoStrayChild ==
  \A w \in Workers : child[w] = "up" =>
    capu = w \/ \E r \in Requests : client[r] = w \/ drops[r] = w

\* A worker is torn down only when nobody uses it: evict_capu may take out of
\* the cache a worker that another request is talking to, or one that is not
\* the one that failed.
DroppedUnused ==
  \A w \in Workers : dropping[w] # "no" =>
    capu # w /\ \A r \in Requests : client[r] # w

\* A request is answered with a lost or slow worker only after two different
\* workers failed it: the retry never meets the worker it has just evicted.
TwoWorkersFailed ==
  \A r \in Requests : Retryable(result[r]) => Cardinality(failedOn[r]) = 2

\* What a request is told of its text is the child's answer to that text, or an
\* error: although children print lines of their own, answer when the request has
\* already given up, and are killed with commands queued, requests share them, and
\* their lines carry no name (worker_loop, send_worker_request).
AnswersOwnText ==
  \A r \in Requests : reply[r] \in Responses => source[r] = Command(r)

\* A request that was accepted is answered, or its client is gone, although
\* a child may hang for ever and requests queue behind it, wait for its lock,
\* and tear workers down while they hold the lock of the cache.
EveryAcceptedAnswered ==
  []<>(\A r \in All : pc[r] \in {"absent", "new", "done"})
=============================================================================
