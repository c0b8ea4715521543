# Formal models of the AI box meeting server

TLA+ specifications, model-checking configurations and machine-checked proofs
for the STT AI box: the meeting server that captures speech from browsers, has
it transcribed and translated, and the native speech service behind it.

`server.py` below is
`src/meta-meeting-server/recipes-apps/meeting-server/files/server.py`.

## 1. The system

| Part | Source | State it keeps | Operations |
|---|---|---|---|
| FINAL audio pipeline | `server.py` `_flush_client_segment` … `_process_utterance`, `stop`, `init_storage` | RAM buffer per session, spool files, `pending_gate`, `queue`, `turn_pending`, unresolved directory | flush, materialise, submit, gate, forward, decode, publish, retain, stop, quarantine |
| Logical turns | `server.py` `websocket`, `_begin_segment`, `_finalize_turn_after_gap` | `turn_id`, `current_id`, `turn_finalize_tasks`, `turn_rows` | capture_start/stop, speech_start/end, onset, cuts, finalize |
| FINAL translation | `server.py` `_queue_translation_job`, `_translation_worker` | `translation_queue`, pending and active keys, translation fields of a row | queue, take, ask, attach |
| Line daemons | `server.py` `LineDaemon`, `UnixLineDaemon` | child process or socket, lock, READY metadata | start, ask, reset, stop |
| LIVE preview lane | `server.py` `maybe_schedule_partial`, `_run_partial`, `_cancel_partial_for_final` | one global preview task | schedule, confirm, cancel |
| Admission and broadcast | `server.py` `websocket`, `broadcast` | `clients`, reservations, `closing` | admit, hello, evict, leave |
| Translator availability, LIVE translation | `server.py` `_ensure_translator_ready`, `_translator_mark_failed`, `_translation_live_worker` | availability, backoff, latest LIVE text | warm, fail, back off |
| Speaker assignment | `server.py` `_assign_speaker_pcm`, speaker daemon and C++ | speaker fields of rows, clusters | assign, re-identify |
| VIT bridge, translator proxy | `meeting-vit-stt.py`, `meeting-translator-daemon.py` | one native connection | relay, drain after disconnect |
| Speech service, HTTP | `stt-http/src/main.rs`, `stt-core/src/runtime.rs` | recogniser cache and its locks, CAPU cache, warm-start state | warm start, transcribe, warm up, answer an error |
| Idempotency store | `stt-http/src/idempotency.rs` | map of entries, records on disk | begin, finish, follow, persist, trim, clean up |
| Punctuation workers | `stt-capu/src/lib.rs`, `stt-http/src/main.rs` | child process, thread, command channel, poisoned flag, cached client | spawn, send, time out, evict, retry, drop |
| Recognition of one audio | `stt-core/src/recognizer.rs`, `audio.rs`, `assets.rs`, `postprocess.rs` | files of a model, samples, segments, text | resolve, validate, decode, segment, pad, recognise, postprocess |
| Locked assets | `stt-core/src/checksum.rs` | asset files, temporary files, a command's report | validate, verify, download, extract |
| Set-up and service management | `stt-cli/src/main.rs`, `stt-core/src/config.rs` | ffmpeg, virtual environment, unit file, saved settings, the manager's state | setup, config, install, uninstall, start, stop |
| Web client | `web/app.js`, `web/pcm-worklet.js` | capture state, rows by revision | capture, render |

`stt-http`, `stt-core`, `stt-capu` and `stt-cli` are crates in `src/native-stt/crates`.

How they interact: browsers send control messages and PCM over a WebSocket;
the handler of a session cuts the PCM into segments; a segment is written to
disk by a thread, counted in `turn_pending`, held in the pre-STT gate, queued,
and decoded by one utterance worker through the line daemon of the VIT bridge,
which calls the native HTTP service. The text goes into the row of the logical
turn, which a finalize task closes; a closed row enters the translation queue,
whose worker asks the translator through a Unix socket. Everything in
`server.py` is one asyncio event loop; only the spool writer is a thread.

The native service is a set of async handlers that give decoding, loading and
inference to blocking threads, which outlive a handler whose client left. They
share a cache of recognisers, a lock per recogniser, and one cached punctuation
worker: a child process with a thread that passes it one command at a time. The
service runs under systemd or launchd, which restarts it whenever it ends; it
validates the locked model files at its start and warms its models before it
binds its port. Commands of `stt-cli` download those files, prepare the machine
and write the unit, beside the running service and beside each other.

What is hard in it:

* every `await` is a point where another task runs: finalize tasks, the gate
  worker, handlers and workers all read state before a broadcast and use it after;
* tasks are cancelled (a second finalize schedule, shutdown, a new FINAL) at
  whatever suspension point they have reached;
* audio must survive exceptions, shutdown and power loss between any two steps,
  although queue and gate exist only in memory;
* gate, group and queue reorder segments, and the text of a turn depends on
  their order;
* replies of child processes arrive late, after a timeout reset the request;
* the native service must run one request once, across followers and restarts;
* a punctuation worker is shared, may hang or die, is replaced in the cache while
  another request talks to it, and is torn down under the lock others wait for;
* downloads, a service that loads the same files, and commands that are killed
  between two steps meet on disk, where nothing but the order of renames helps.

What makes each part correct:

* pipeline: no audio disappears before its text is in a row; `turn_pending` is
  exact; the segments of a lone session are decoded in capture order; every submitted
  segment settles; shutdown leaves nothing behind in memory only;
* turns: a flush keeps its turn; a final row has nothing pending; every row is
  finalized; a turn is translated once, from the text it was finalized with;
* line daemons and the translator's proxy: a reply answers the request it is
  returned to, also after requests that were given up;
* preview lane: at most one preview, none in front of a FINAL;
* admission: at most `MAX_CLIENTS` sessions, and every slot is given back;
* idempotency: one execution per key at a time, the same response for all;
* speech service: one recogniser per model; every accepted request is answered;
* punctuation workers: no child process without an owner, none torn down in use,
  no request given up on one worker's failure, no answer to another text;
* recognition: only files the lock knows are used; times, padding and text are
  those of the audio;
* assets: a valid file stays valid; a service has loaded what the lock demands; a
  download that reports success has delivered;
* set-up and service: what a command reports is there, whatever earlier ones left
  half done; the service comes up by itself.

`PROJECT.json` lists each hazard at its line with the properties that cover it,
or what is still missing.

## 2. Modules

| Module | What it is |
|---|---|
| `AudioCustody` | abstract specification: audio is spooled, published, erased, or quarantined |
| `FinalPipeline` | the FINAL audio pipeline, its files, shutdown, crash and restart |
| `FinalPipelineProofs` | type correctness and the structural invariant; the file invariant, custody, and the refinement of `AudioCustody`; that `turn_pending` is exact; the order of a lone session |
| `TurnLifecycle` | logical turns of one session, finalize tasks, FINAL translation |
| `TranslatorLink` | the line protocol between the server and its translator: connection, proxy, native process |
| `Translation` | `TurnLifecycle` composed with `TranslatorLink`: the steps of the translation worker |
| `TurnLifecycleProofs` | types, a segment's turn, closed rows, one job per turn, matching translations and replies |
| `Idempotency` | the idempotency store of the native STT service and the loop around it |
| `IdempotencyProofs` | type correctness, single flight, that only matching answers are replayed, and that the map is bounded |
| `CapuWorkers` | punctuation workers: child, thread, channel, cache, retry, teardown |
| `SpeechService` | start, requests and warm-ups of the native service, composed with `CapuWorkers` |
| `SpeechServiceProofs` | its types, that a recogniser is constructed once, who owns a punctuation worker, which workers failed a request, and whose answer it is told |
| `SpeechText` | the text functions of recognition and postprocessing, as operators |
| `SpeechTextProofs` | what those functions compute, for every text |
| `Recognition` | one recognition from the files of the model to its result |
| `RecognitionProofs` | the files it resolves, the audio it hands over, the times and the words of its segments |
| `AssetStore` | the locked assets and the processes that verify, fetch and load them |
| `Setup` | the set-up wizard, on the assets |
| `ServiceUnit` | configuration, installation and management of the service, on the assets |
| `Deployment` | `Setup` and `ServiceUnit` beside each other and the running service |
| `AssetStoreProofs` | valid files, served files, delivered downloads |
| `DeploymentProofs` | types, nothing orphaned, what an installation leaves, and what a set-up prepares |
| `MCFinalPipeline`, `MCTurnLifecycle`, `MCTranslation`, `MCIdempotency`, `MCSpeechService`, `MCRecognition`, `MCDeployment` | model-checking instances |

### FinalPipeline

One action is what the code does between two suspension points; the file
operations of the writer thread are steps of their own.

| In the module | In the code |
|---|---|
| `session`, `flush`, `active`, `begun`, `try` | the WebSocket handler: connected, where it is in `_flush_client_segment`, `current_id`, the segment index, the uuid of the spool file |
| `turnOf` | `turn_id` of each segment |
| `threads`, `raw`, `wav` | `asyncio.to_thread(_materialize_final_audio)` and the `.pcm`/`.wav` pair: none, `.tmp`, spool, unresolved, deleted |
| `stage` | where an utterance is: thread, `pending_gate`, the local `group` of `_forward_pre_stt_group`, `queue`, the worker, settled; `orphaned` after a crash |
| `received`, `clock` | `gate_received_at` |
| `worker`, `retained` | the utterance worker's place in its `try`, and `utterance.retain_audio` |
| `published`, `announced` | the text was committed to a row; the clients were told the audio is retained |
| `life` | which step of `Meeting.stop()` the process has reached |

`Begin`, `DropShort`, `StorageExhausted`, `StartFlush`, `WriteRaises`, `Submit`,
`FinishFlush`, `Disconnect`, `Leave` are the handler; `WriteRawTmp` …
`ThreadEnds` the thread; `OpenGate`, `ForwardNext` the gate worker; `Take`,
`Publish`, `Refuse`, `RefuseSilently`, `Finish` the utterance worker; `StopGate`,
`StopWorker`, `DrainQueue`, `SweepGate`, `Exit` are `stop()` in its order, with
`CancelHandler` for handlers aiohttp cancels meanwhile; `Crash` and `Restart`
(the quarantine of `init_storage`) complete it. Which sessions' segments share a
gate group is acoustics: the model takes any subset of the other sessions.

The last spool id of a session's segment is left to the flush in the handler's
finally, so that the bound `MaxTries` never blocks it. A segment index of a
session is used for one segment; the code's 128-bit uuid is modelled as never
repeating (`NextSpoolId`).

### TurnLifecycle

| In the module | In the code |
|---|---|
| `connected`, `capture_active`, `current`, `turn` | the session in `clients`, `capture_active`, `current_id`, `turn_id` |
| `recent` | whether `logical_last_end_mono` is at most `LOGICAL_TURN_GAP_MS` ago |
| `flush` | where the handler is inside `_flush_client_segment`, and which caller |
| `turn_pending`, `worker`, `vit_available` | the same names; `worker` is the turn whose row is being broadcast |
| `row`, `source_revision` | `turn_rows[key]`: `is_final` and the revision of its source text |
| `finalizer` | the task in `turn_finalize_tasks`: sleeping over the gap, due at once, polling `turn_pending`, or broadcasting the final row |
| `queue`, `active`, `asked`, `shown`, `jobs` | `translation_queue`, `translation_active_keys`, the revision under translation, `translation_source_revision`, a count of queued jobs |

The text of a row is abstracted to its source revision: the code compares the
revision and the text, and the text changes only with the revision, which the
model keeps. Sending a message again while it is already in effect, joining a
room, a language change and a ping change none of the state above.

`conduct`, chosen at the start, is what else may happen: "reused_ids" (a
push-to-talk client names a turn id it used before), "mixed_modes" (it sends
`speech_end` while it captures continuously), both of which the server accepts but
its own web client does not send, and "outages" (VIT requests fail). `WritesFail`
lets the spool writer fail. `EveryTurnFinalizes` is about the empty conduct.

### TranslatorLink and Translation

`TurnLifecycle` says of a job under translation that it is answered or fails.
`Translation` extends it with the steps in between, and with the other end of the
socket.

| In the module | In the code |
|---|---|
| `connection`, `holder` | `reader` and `writer` of `UnixLineDaemon` (`_reset_connection` forgets them), the request that holds its `lock` |
| `handler`, `taken` | per connection `Proxy.handle` of `meeting-translator-daemon.py`: reading, waiting for `request_lock`, waiting for the native process; the line it has read |
| `requests`, `replies`, `native` | lines in the socket's two directions and in the native process, which answers each in its order (`meeting-translator.cpp`) |
| `daemon` | the service runs and its socket is there; `ProxyExits` is `os._exit` or the end of `run`, `ProxyStarts` is systemd |
| `final`, `chunk` | where `_translation_worker` is with its job, and the chunk it translates |
| `warming`, `translator_available` | `_warm_translator` runs; the flag of the same name |
| `slow` | requests may time out and the proxy may exit, chosen at the start |

A request that times out leaves its connection; the proxy's handler goes on with the
line and with its place in the queue for the native process, and the next request
gets a connection of its own and waits behind it. A reply is known by the line it
answers, which nothing on the wire says: that the two match is
`ReplyAnswersRequest`. The steps of the worker conjoin the actions of
`TurnLifecycle` (`TakeJob`, `Reply`, `JobEnds`), so the composition implements it
(`TranslationKeepsTurns`). The backoff after a failure is a delay like any other.

### Idempotency

`idempotency.rs` runs in request handlers on several threads. An action is one
critical section of the map or of an entry, one notification, or one file
operation. The map lock is held while `begin` reads an entry's state, so each of
its four outcomes is one action.

| In the module | In the code |
|---|---|
| `pc` | where the handler of a request is, or how it was answered (`created`, `coalesced`, `cached`, `conflict`, as in `X-Idempotency-Status`) |
| `entries` | the map: the request that leads the entry of each key |
| `state`, `outcome`, `expires_at` | `EntryState`, the status of its response, `expires_at_ms` |
| `on`, `woken` | the entry a `Follower` holds, and its `notified()` future |
| `disk`, `tmp` | `<key>.json` and the `.<uuid>.tmp` files |
| `doomed` | the paths a running `cleanup_files` has listed for deletion |
| `completed_writes` | modulo 128 in the code, modulo `CleanupEvery` here |
| `answer` | whose response a request was answered with |

A request leads at most once (`operation.take()`), so an entry is named by its
leader. A restart loads before it cleans up, and reads whatever it finds: also a
temporary file that holds a whole record and was never renamed (`Loadable`). Of two
records of one key, that one and the renamed one, it inserts the one that expires
first last (`Loaded`). Fingerprint and key hashes are taken to be the requests' own values. A
clean-up of the directory is two steps, listing and deleting; one that started
goes on when its client leaves. `Cancels`, `WritesFail` and `MaxRestarts` switch
leaving clients, failing writes and restarts on; `Abort` (a leader dropped while
it executes, or whose response cannot be buffered) is always possible.

### CapuWorkers and SpeechService

A request of `SpeechService` is one handler with the blocking task it waits for; an
action is what lies between two operations on shared state. `EXTENDS` composes the
two: while `pc` is "capu" a request takes the steps of `CapuWorkers`.

| In the module | In the code |
|---|---|
| `server` | `main` of `stt-http`: warm start, bound to the port, exited |
| `pc`, `asked`, `answer` | where the handler is, the model named, the error or success it answers |
| `resolved`, `recognizers`, `loader`, `busy` | `resolved_models`, `recognizers`, who holds its lock while it loads a model, who holds each recogniser's lock |
| `step`, `attempt`, `parts` | `apply_postprocess` and its retry, the texts still to be processed |
| `client`, `capu` | the `CapuClient` a request holds, the cached one; a worker is freed with its last `Arc` |
| `call`, `reply`, `queue`, `poisoned` | `WorkerProcess::send`: checks, channel, response channel, flag |
| `thread`, `serving`, `child` | `worker_loop`, the command it handles, the child process |
| `pending`, `stdout` | the child's pipes: commands it has not answered, lines nobody has read |
| `source` | history: the command to which the child gave what lies in the response channel; the line itself does not say |
| `dropping`, `drops` | `WorkerProcess::drop`: closed, terminated, joined, and the request whose thread runs it |
| `left` | clients that left: the handler is dropped, its blocking task goes on |

A worker is named by the request and attempt that spawned it, a command by request,
attempt and text. `send_worker_request` takes the next line for the answer, so each line
carries in the model, and only there, the command it answers; `ChildPrints` is a line
that answers none, from a library that prints (`Chatty`). All requests have the
same punctuation key; others share nothing. The code under the mutexes does not
panic, so none is poisoned.

### SpeechText and Recognition

Text is a sequence of characters, one for each class the code tells apart: a letter
and one composed with a mark, capitals, a combining mark, a character that is
removed, a space, whitespace that is a control character, another control
character. `normalize_text`, `process_text`, `combine_segment_texts` and
`process_result` are operators named as in the code. Audio is a number of samples.
`Recognition` goes through `resolve_offline_model_assets`, `validate_model_assets`,
`decode_audio_bytes`, `segment_with_vad`, `decode_segment` and the postprocessor;
ffmpeg, the detector, the recogniser and the punctuation worker answer anything
they may. `inputs` records what the recogniser was given.

### AssetStore, Setup, ServiceUnit, Deployment

A file of the lock is good, bad or missing. Every process (`Clis`, and the service)
has a `command`, a `stage` in it, and what its loops still have to visit; one action
hashes, writes or renames one file, so that all processes interleave there. Entries
of the archive are taken to have members of their own, as those of the shipped lock:
the code collects them by member, and of two of one member would unpack one.

| In the module | In the code |
|---|---|
| `Validate`, `VerifyEntry`, `NeedsDownload` | `SttRuntime::load`, `verify_all`, `download_missing_assets`, which decides from the report |
| `Fetch`, `Received`, `Check`, `Move` | the loop of `download_missing_assets`: temporary file, hash, rename |
| `GetArchive`, `Extract`, `ArchiveEnds` | `download_archive_entries` |
| `Warmed`, `ResolveModels`, `ResolveEntry`, `Construct`, `misread` | the warm start of the service: the files of its models must be there, are hashed one by one, and are opened; what it loaded although it was bad |
| `pythons`, `ffmpegs`, `venv`, `deps` | what `setup` finds and leaves on the machine |
| `alone` | history: the setup beside which, and since which, no other ran |
| `script` | the steps a service command has still to take |
| `saved`, `toml`, `unit` | `service.json` or `llama-service.json`, `runtime.toml`, the unit file or property list; torn between truncation and write |
| `loaded`, `enabled`, `active`, `ran` | systemd or launchd (external): its copy of the unit, started at boot, kept running, what the process was started from |
| `struck`, `refused`, `unmet`, `mishaps` | history: damaged files, steps refused, steps of a command that had no effect and were passed over, how many mishaps |

A mishap is a damaged file, a killed process, a reboot, or a step the manager
refuses although it could take it. An operator issues one service command at a time.

## 3. Runs

| Run | Configuration | Checks | Result |
|---|---|---|---|
| `final_custody` | 2 sessions, 1 segment each, 2 spool ids, gate of 2, shutdown, crash, 1 restart | `TypeOK`, `Custody`, `PendingExact`, `CustodyRefined` | holds (523,771 states with symmetry) |
| `final_order` | 1 session, 2 segments, 2 spool ids, writes fail, shutdown, crash, 1 restart, fairness | `PipelineInv`, `CaptureOrder`, `EveryFinalSettles` | holds (115,629 states) |
| `final_retention` | 1 segment, moves fail | `AnnouncedIsRetained` | violated |
| `final_shutdown` | 2 sessions, shutdown | `ShutdownPreservesWaiting` | violated |
| `turn_lifecycle` | 2 turns, 3 segments (2 with a slow translator), 2 chunks, 3 connections, failing writes, a client that follows the protocol or any client with outages, fairness | `TypeOK`, `SegmentKeepsTurn`, `FinalIsClosed`, `AtMostOneJob`, `ReplyAnswersRequest`, `TranslationMatchesSource`, `EveryTurnFinalizes` | holds (561,905 states) |
| `turn_translation` | 1 turn, 1 segment | `ExactlyOneJob` | violated |
| `idem_flight` | 3 requests, 2 keys, 2 payloads, 1 entry kept, clean-up every 2nd success, 1 tick, 1 restart, leaving clients, failing writes | `TypeOK`, `SingleFlight`, `AnswersMatch`, `MemoryBounded` | holds (1,184,502 states with symmetry) |
| `idem_answered` | 3 requests, 1 key, 2 payloads, 1 tick, fairness | `EveryRequestAnswered` | holds (341,376 states) |
| `idem_durable` | 2 requests, 2 keys | `SuccessIsDurable` | violated |
| `service` | 3 transcriptions, at most 2 of them at a time, one of them of two texts, and 1 warm-up; 2 models (one punctuated), one client that may leave, children that print, hang or crash, fairness | `TypeOK`, `LoadedOnce`, `NoStrayChild`, `DroppedUnused`, `TwoWorkersFailed`, `AnswersOwnText`, `EveryAcceptedAnswered` | holds (1,247,903 states) |
| `deployment` | 2 command-line processes and the service, 3 assets, 2 mishaps, Linux and macOS, fairness | `TypeOK`, `ServesLocked`, `DownloadDelivers`, `SetupPrepares`, `NothingOrphaned`, `ValidStaysValid`, `InstallApplies`, `ComesUp` | holds (2,047,644 states) |
| `recognition` | 2 model parts, 4 file names, up to 6 samples and 2 segments, texts of up to 3 characters | `TypeOK`, `ResolvesLocked`, `SegmentTimes`, `DecoderGetsEnough`, `AnswerReadsAsSegments`, `WordsKept` | holds (1,965,912 states) |

Deadlock is not checked: a session may leave, the service may stop for good, all
requests may be answered and all commands ended.

**Bounds.** Two sessions are what a gate group needs (it holds segments of
different sessions); one segment each gives every interleaving of two utterances
with gate, worker and shutdown. Order needs two segments of one session, and
holds of a lone session only (below). Two spool ids give one failed write or one
cancelled flush followed by the flush of the handler's finally. `GateCapacity` 2
with two utterances does not fill the gate; `final_order` gives 4, since the
bypass of a full gate reorders by design. One restart is enough to see the
quarantine, and what a second session of the process does with its files is the
same again. Two turns and three segments give a turn that is continued, closed,
and followed by another, and, with reused ids, one that is reopened;
`TranslationCapacity` 1 makes the queue fill. A slow translator meets a client
that follows the protocol and has two segments (`MCInit`, `Bounded`): two turns
with two chunks each are four requests, any of which may be abandoned, and three
connections let two abandoned lines be in the proxy when the next is written.
When all three are held the server does not connect before a handler has ended;
the theorems hold for any number of connections. Three requests give a leader, a
follower that takes over from an aborted one, and a third that begins meanwhile;
`MaxEntries` 1 with two keys makes the map overflow, and one tick with `Ttl` 1
makes an entry expire before it is asked for again. In `service` two requests
are what a race for the cached worker needs, and each has its two attempts. A child
may crash by itself in the first attempt only (`Mortal`), and hang in both. The
children of the first attempt may print, one line beyond their answers at a time
(`Chatty`): one line too many is enough to shift what follows. `Bounded` lets one of
the two requests that share workers have such a child, while no client has left; the
theorem has no such bound. The third request has two texts (`Long`), so that a worker
can fail between them; it is explored beside a warm-up only, since two texts beside another
request that punctuates double the states; that case is left to the theorems. The
warm-up competes for the recogniser cache; it is left out when both requests
punctuate (`MCInit`), where it would meet nobody. In `deployment` the lock has
one asset of each kind: with a URL, without a source, in the archive. `MCInit`
starts three families of agendas: two downloads or a verification beside the
service, two set-ups on machines that lack something, and up to three service
commands; two mishaps where there is one command, one more than the code
survives by retrying, and one otherwise. In `recognition` a second is five
samples and a window two, so that neither divides the other; six samples and two
segments give every cut around the boundaries, and a text of three characters
holds a letter, what stands between, and a mark.

**Fairness.** `FinalPipeline` assumes weak fairness of the gate worker, of taking
from the queue and of the worker's steps: the event loop runs every ready task,
a VIT request has a timeout (`VIT_TIMEOUT_SECONDS`) and a broadcast has one per
peer (`WS_SEND_TIMEOUT_SECONDS`). `TurnLifecycle` assumes it of a flush in
progress, the passing of the gap, both workers and each finalize task; `Translation`
of the same without the translation worker, since the turns do not wait for it and
its translator owes nothing. `Idempotency` assumes that each
handler in the service is scheduled, that an execution ends and that a file
operation ends. `SpeechService` assumes only that some thread of the
service moves as long as one can (`WF_vars(Progress)`), which is weaker than
fairness of each: threads are scheduled, inference and loading end, timeouts pass;
children owe nothing and may hang for ever. `Deployment` assumes that the manager
restarts what ended (Restart=always, KeepAlive), that the service runs, and that
its warm start is not too slow every time (`SF_vars(Ready)`: each attempt may
exceed its timeout, and the manager tries again). Nothing
is assumed of what clients send, of failures, of shutdown or of restarts, and a
command of `stt-cli` may stop for ever.

**What the violations show.**

1. `final_retention`: `_retain_audio` reports failure by its result and by
   `retain_audio`, but the worker announces "audio retained" without looking at
   either, and its finally then deletes the spool files.
2. `final_shutdown`: `stop()` cancels the gate worker while it forwards a group.
   The utterances of the group still in its local list are neither in
   `pending_gate` nor in `queue`, the two places `stop()` preserves. The files
   survive in the spool and the next start quarantines them, which is why
   `Custody` holds all the same.
3. `turn_translation`: a finalize task makes the row final and then waits for a
   broadcast; the disconnect that follows a `capture_stop` schedules a second
   task for the turn, which cancels the first and finds nothing to do. The turn
   is never translated.
4. `idem_durable`: the directory's clean-up removes every file that is not
   `.json`, also a temporary file between its write and its rename, so a success
   that was answered is missing from the durable cache.

**Other behaviours met.** Nothing documents the contrary of these, so no run
states it; the model has them.

* A turn whose finalize task was cancelled by a continuation that was then dropped
  as too short during a VIT outage stays open (so `EveryTurnFinalizes` is checked
  while VIT answers), and `vit_available`, once FALSE, is set back only by a FINAL
  that is still in the pipeline.
* The LIVE worker expects "ERR proxy-busy" while the proxy drains an abandoned request,
  so as not to queue behind it (`server.py:4102`); the proxy has no such reply, and
  a later request waits for all the abandoned ones before it.
* With several sessions `CaptureOrder` fails in the model and in the code. A gate
  group holds the segments that share the seed's capture window (`server.py:2682`),
  whatever earlier segments of the same session wait in the gate. When the spool
  write of a hard cut takes as long as the segments of another session, a segment and
  its successor wait together, the successor starts `SEGMENT_OVERLAP_MS` before
  the cut (`server.py:2429`), and the other session's segment can match it alone:
  the turn's later window is decoded first, and the earlier one is merged behind it.
  `final_order` therefore has one session.
* A restart replays a record whose rename never came, and when the key has an older
  record too that one is inserted last, and the one written later is forgotten.
* A line that a library prints to the standard output of a punctuation worker fails
  the request it is taken to answer and ends the worker, which `AnswersOwnText` needs:
  an error of the line's format alone would leave the next answers shifted by one.
* A punctuation worker whose handshake times out is reported as `internal_error`
  with 500, since "handshake failed" hides the cause; a worker that died while idle
  fails its next request with a broken pipe, which is not retried.
* Two failures to decode are known neither to the status nor to the code of an error
  (both search its text): audio without a sample (`audio.rs:433`) and a temporary
  file that cannot be written (`audio.rs:455`) get 400 with `internal_error`. In
  Vietnamese a text with "wav" in it means `audio_decode_failed` (`main.rs:1035`), and
  both texts name the temporary file, whose extension is the upload's: there a full
  disk is told as an upload that cannot be decoded. The model tells these errors
  apart and leaves status and code out.
* A warm-up with `run_probe` constructs a recogniser of its own and never fills the
  cache it is called for.
* A warm start that takes longer than its timeout ends the process, each time.
* A corrupted asset fails `SttRuntime::load`, with which `download-models` begins
  too: the command that would repair the file, and that setup advises to run, cannot.
  `download-models` reports that all assets were downloaded although it only warned
  about one without a source.
* A start time the detector reports inside the leading silence is clamped to zero
  while the length stays, so a first segment may end up to that silence late and
  overlap the next; the last incomplete window never reaches the detector.
* `clean_text` removes characters after composing, so it is not idempotent; in
  "none" and "capu" mode emptied segments leave double spaces.
* A torn `service.json` is silently read as defaults; a torn `llama-service.json` or
  `runtime.toml` is an error. `llama-service config` resets what is not given.
* An uninstall whose stop is refused removes the unit all the same: the process can
  no longer be stopped by the program (`NothingOrphaned` excludes it by name). A
  second install under systemd leaves the old process running.
* The downloaded ffmpeg is neither hashed nor copied atomically; a partial virtual
  environment makes every later pip run fail; a versioned Python is taken although
  it may not run. `SetupPrepares` holds because setup then fails, or replaces what
  does not work. It speaks of a setup that was `alone`: another one, whose check
  failed before this one copied its ffmpeg, copies it again, and leaves half a file
  when it is killed, after this one reported that all is prepared.

Definitions marked "Seeded defect" are plausible bugs of the definition that
follows them; substituting one makes the property it is paired with in
`PROJECT.json` fail, which shows that the property looks at that code.

## 4. Proofs

Proved by TLAPS for every set of sessions, every bound and every combination of
failures, from `PipelineAssumption` alone (finite set of sessions, positive
bounds):

* `TypeCorrect`: `Spec => []TypeOK`;
* `StructureHolds`: `Spec => []StructureInv`;
* `PendingCounts`: `Spec => []PendingExact`;
* `LoneSessionInOrder`: `Spec => []CaptureOrder`, assuming one session
  (`LoneSession`) and a gate with room for all its segments (`GateNeverFull`);
* `PipelineInvariant`: `Spec => []PipelineInv`;
* `CustodyHolds`: `Spec => []Custody`, assuming `~MovesFail`;
* `PipelineRefinesCustody`: `Spec => CustodyRefined`, assuming `~MovesFail`.

`~MovesFail` is needed: `final_retention` is the counterexample without it. So are
the two assumptions of `LoneSessionInOrder`: a gate group may take a later segment
of another session first, and a segment that meets a full gate goes past it.

`Custody` is not inductive. That a segment in the worker has its files depends on
how the worker got there, and that a new write cannot overwrite older audio
depends on spool ids being fresh. The inductive invariant is `PipelineInv`:

* `TypeOK`;
* `QueueInv`: `queue` holds exactly segments of stage "queue", each once
  (so taking its head moves exactly one segment to the worker);
* `WorkInv`: the worker holds at most one segment, and none when idle or stopped;
* `FreshInv`: what a session has not come to yet is untouched, and what it
  writes is still in its hands (so `Submit` never finds a used utterance);
* `FilesInv` (if moves succeed): which files a segment has at each stage.

`TypeOK` needs `FreshInv` (the turn of a new segment is at most its number), so
the first four are proved together as `StructureInv`; `FilesInv` is then proved
relative to it. Each step lemma has one step per action; `QueueFrame`, `WorkFrame`,
`FreshFrame`, `FilesFrame` and `HolderFrame` dispose of actions that do not touch
what the invariant is about. The refinement maps a segment to the abstract holder
"quarantined" as soon as one of its files is in the unresolved directory; most
steps stutter, and `stop()` and the restart map to `Quarantine` of a set.

`PendingExact` speaks of a running process; `PendingInv` adds that a process that
ended left no count behind, which is what a restart finds. The count of a turn is
the cardinality of the utterances in flight (`Waiting`), so a submission adds one
element (`PendingMore`), the worker's finally removes one that was there, and the
`max(0, ...)` never bites (`PendingLess`); a segment that continues or starts a turn
changes the key of nothing in flight, since that belongs to earlier segments
(`LiveIsBegun`). `CaptureOrder` needs `OrderInv`: a later segment is never ahead on
the way from gate through queue to worker (`PlacesInOrder`), the queue is sorted
by segment and holds all that waits (`QueueSorted`), arrival times in the gate follow
the segments (`GateSorted`), and the queue is empty when `stop()` sweeps the gate.

For `Idempotency`, from `IdempotencyAssumption` alone, with every failure
switched on or off:

* `TypesAlways`: `Spec => []TypeOK`;
* `SingleFlightAlways`: `Spec => []SingleFlight`;
* `AnswersMatchAlways`: `Spec => []AnswersMatch`;
* `MemoryAlwaysBounded`: `Spec => []MemoryBounded`, for finitely many requests and
  keys.

`SingleFlight` says nothing of the map, so it is not inductive; `FlightInv` adds
that a leader's own entry is the one in the map and in flight (`LeaderInMap`).
`begin` then finds it, and the steps that take entries out leave it there: trimming
takes completed entries only, and removal compares the entry. `AnswersMatch` needs
`AnswerInv`: a request has a response exactly from the end of its execution
(`Outcomes`), the entry at a key was led with that key (`EntriesOwnKey`), and a
follower holds an entry of its own key and fingerprint (`FollowsItsOwn`), and
`OutcomeIsFinal`, that a response never changes. A restart makes entries of records and
of temporary files; both are successes of the request that wrote them, under its own
key (`RestartLoads`), so it does not matter which of two it takes. `MemoryBounded` follows from a
sharper bound: the entries whose leader is past its own trim (`Settled`) alone never
exceed `MaxEntries`, and every other entry has a busy leader of its own. A trim takes
the map down to the bound, or takes all that is completed, and what is left is in
flight or about to be removed by its leader (`InFlightIsBusy`).

For `SpeechService`, from `CapuAssumption` and `ServiceAssumption` (models and
requests are different things, the bounds are sets of them), for any number of
requests, warm-ups and models:

* `ServiceTypeCorrect`: `Spec => []TypeOK`;
* `ServiceLoadsOnce`: `Spec => []LoadedOnce`;
* `WorkersNoStrayChild`: `Spec => []NoStrayChild`;
* `WorkersDroppedUnused`: `Spec => []DroppedUnused`;
* `WorkersTwoFailed`: `Spec => []TwoWorkersFailed`;
* `WorkersAnswerOwnText`: `Spec => []AnswersOwnText`.

`TypeOK` needs `Clients` (a request holds a client exactly in the steps that use it)
and `Serving`: what holds of the service's own part. `LoadedOnce` follows from its
conjuncts `Counted` (a model was constructed once if it is cached, never otherwise)
and `Loading` (who constructs holds the lock, and found the model missing).
The ownership of workers rests on `Owned`: a worker exists only once its request
reached that attempt (`Attempts`), belongs to its builder alone until it is cached
(`Private`), and has no child any more once a drop terminated it (`Torn`);
`TwoWorkersFailed` on `Failed`: a request that asks again was failed by a
worker that is out of the cache, or at least cannot be spawned again (`Spent`,
`Used`), so the second worker that fails it is another. Together: `Managed`.
`AnswersOwnText` speaks of the moment a reply lies in its channel; `Heard` says what is
in the pipes before that. While the thread of a worker waits, no command is
outstanding and every line not read answers none; while it reads, the one
command it serves is still in the pipe, or exactly one line answers that one (`Piped`).
A line that answers none ends the thread, and of a thread that has met an error nothing
need be said any more. A worker begins with empty pipes, since it is spawned once
(`Unspawned`), and a reply is put only into a channel that is being read, for the
command its request waits for (`Awaited`): one that timed out has left its own.

For `TurnLifecycle`, from `LifecycleAssumption` (positive bounds), for any number of
turns and segments and every conduct of the client:

* `TurnTypesHold`: `Spec => []TypeOK`;
* `SegmentsKeepTheirTurn`: `Spec => []SegmentKeepsTurn`;
* `FinalRowsAreClosed`: `Spec => []FinalIsClosed`;
* `TurnsQueuedOnce`: `Spec => []AtMostOneJob`;
* `TranslationsMatch`: `Spec => TranslationMatchesSource`;

and for their composition with the translator, from `LinkAssumption` and
`TranslationAssumption` (a line is a chunk of a turn) besides, for any number of
chunks and connections:

* `TranslationKeepsTurns`: `TranslationSpec => Spec`, so the five above hold of it;
* `LinkTypeCorrect`: `TranslationSpec => []LinkTypeOK`;
* `RepliesAnswerRequests`: `TranslationSpec => []ReplyAnswersRequest`.

`TurnInv` adds to the types that a flush belongs to a connected session in a segment
of that turn (`Handled`), that the row being broadcast still counts as pending
(`Counted`), and that turn ids not given out have left no trace (`Unstarted`), so
that a new turn starts from an empty row. `FinalIsClosed` and `AtMostOneJob` need
more, and only hold for the empty conduct: `ClosedInv` says that a task which is due
at once belongs to a capture that has ended (`Stopped`), that a task which only waits
for decodes, and a final row, belong to a turn the session has left for good
(`Closed`), and that the job is queued by the one task that made the row final
(`Queued`).

`ReplyAnswersRequest` speaks of the moment a reply is there; `LinkInv` says where the
line of the current request is before that. The connection the server holds is
clean between requests (`Quiet`), and in one its line is at exactly one place:
written, held by the handler, answered, or lost with the proxy (`InStep`). That the
proxy returns it to its own handler needs that the native process has the line of
the one handler that holds `request_lock`, and no other (`OneForwards`, `NativeHas`):
`Proxy.handle` reads the reply before it unlocks, also for a server that has left.

For `Deployment`, from `StoreAssumption`, and `SettingsAssumption` for the last four,
for any lock, archive, number of commands and mishaps:

* `StoreValidStaysValid`: `Spec => ValidStaysValid`;
* `StoreServesLocked`: `Spec => []ServesLocked`;
* `StoreDownloadDelivers`: `Spec => []DownloadDelivers`;
* `UnitNothingOrphaned`: `Spec => []NothingOrphaned`;
* `UnitInstallApplies`: `Spec => InstallApplies`;
* `DeploymentTypeCorrect`: `Spec => []TypeOK`;
* `DeploymentSetupPrepares`: `Spec => []SetupPrepares`.

The wizard and the service commands do nothing to the assets (`WizardAside`,
`AdministerAside`), so the first three are proved over the store with one frame for
both. A valid file stays valid since a temporary file is only renamed after its hash
matched and is its process's own. `DownloadDelivers` needs, for each entry, where it
is dealt with: valid already, still to be visited, wanted from the archive, or being
fetched. For the unit the invariant `Managing` says of each command in its script
that the script is what remains of all its steps (`Rest`), and what holds when so
many are left (`InstallAt`, `UninstallAt`); one service command at a time makes this
stable (`Exclusive`). `InstallAt` says so of each effect but for the steps passed over
until then (`unmet`).

`SetupPrepares` speaks of a setup that is done; `SetupInv` says what it has achieved
at each stage before that (`SettingUp`): packages from its pip run on, an ffmpeg that
serves from the end of its check or its copy on. The first is stable by itself,
since no step takes packages away. The second is not: another setup copies over
the same file. So it is claimed of the setup
in `alone` only, and `Apart` says that no other setup runs then. Steps of anything
else, and a setup that ends early, leave all this as it is (`Aloof`).

For `Recognition`, from `RateAssumption` (a positive rate), for any audio and any
answers of detector and recogniser:

* `RecognitionResolvesLocked`: `Spec => []ResolvesLocked`;
* `RecognitionDecoderGetsEnough`: `Spec => []DecoderGetsEnough`;
* `RecognitionSegmentTimes`: `Spec => []SegmentTimes`;

and with `HeardAssumption` (what is heard are texts of the modelled characters, of
any length):

* `RecognitionTypeCorrect`: `Spec => []TypeOK`;
* `RecognitionReadsAsSegments`: `Spec => []AnswerReadsAsSegments`;
* `RecognitionKeepsWords`: `Spec => []WordsKept`.

`RecognitionInv` says that the files beyond resolving are those that were found and
validated (`Resolved`), that what was detected lies in the audio in order
(`Ordered`), that the segments still to be recognised are the rest of it
(`Progress`), and that each input and each segment of the result is one of its
pieces (`Supplied`, `FromSpeech`). `TextInv` adds that, until the text is processed,
the segments, or the text, have the words that were heard (`Told`).

The last two rest on two theorems about the text functions, in `SpeechTextProofs`:

* `FinalizeKeepsWords`: the words of `finalize_text(t)` are those of the composed text
  between whitespace, cleaned, without the ones that vanish;
* `CombinedReads`: the combination of processed segments has their words in order, in
  every mode.

Each function is a fold over the text, so these need induction on its length.
`SeqSetInduction` states it for sets (a set of sequences with the empty one and all
extensions of its members is that of all sequences), which the prover can
instantiate; a lemma for each fold says what one more character adds. The argument:
whitespace never composes with what stands beside it, so composing a text is
composing its words (`SplitOver`, `NfcStable`); cleaning a text is cleaning its words
(`CleanedWords`); trimming adds and removes none (`WordsTrimmed`); and joining words
that hold no space, and splitting again, gives them back (`WordsJoined`).

Model-checked only: liveness (`EveryFinalSettles`, `EveryTurnFinalizes`, the answers
`EveryRequestAnswered` and `EveryAcceptedAnswered`, `ComesUp`), which is outside what
the prover covers, and the counterexamples of the four violated runs. Every invariant and every action
property that a passing run checks has a theorem.

## 5. Not modelled, and the plan

Not modelled for good: numerical inference, DSP thresholds, text heuristics
(inverse text normalisation, merge alignment, translation quality), HTTP views,
build recipes; of the native service the read-only commands and endpoints, the status and code of an
error, Windows,
the search for the workspace (`WorkspacePaths::discover`, where an explicit root
that does not exist falls through to the next candidate), the ONNX experiment in
`stt-capu/src/bin`, and the exports of `audio.rs` that neither program calls. The
destructive gate branch is off in `meeting-server.env` and left
out of `FinalPipeline`; so are the recovery decodes, which change no custody
state. Of the translator the LIVE lane is left out, off in the same file, and so is
what shutdown does to a request.

Hazards known and not covered by a module: the bypass of a full gate
(`server.py:2647`), the cancellation of a preview (`server.py:1123`), the PCM
token bucket (`server.py:1074`), the exponent of the translator's backoff (`server.py:1203`), and
those listed in `PROJECT.json` without a property. Among the latter is one that
reading alone settles: the hello of a session is sent after its entry is in
`clients` and before the `try` whose finally removes it (`server.py:5208`), so a
peer that resets there keeps its slot of `MAX_CLIENTS` until the next start.

Plan, in this order:

1. `LineDaemon` for the VIT bridge and the speaker daemon, whose child is killed
   when a request fails; the LIVE translation lane on `TranslatorLink`.
2. `Admission` (slots, hello, eviction, PCM budget), `PreviewLane`.
3. Speaker assignment, the web client's rows.
4. A composition of `TurnLifecycle` with an abstract pipeline for several
   sessions.
