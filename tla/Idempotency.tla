----------------------------- MODULE Idempotency -----------------------------
(***************************************************************************)
(* The idempotency store of stt-http (idempotency.rs) and the loop around  *)
(* it (execute_idempotently of main.rs): requests with the same key and    *)
(* the same fingerprint share one execution, successes are replayed for a  *)
(* time and survive a restart.                                             *)
(*                                                                         *)
(* Request handlers run on several threads: an action is one critical      *)
(* section of the map or of an entry, one notification, or one file        *)
(* operation.  An entry, its record on disk and its temporary file are     *)
(* named by the request that leads it: a request leads at most once.       *)
(***************************************************************************)
EXTENDS Naturals, FiniteSets

CONSTANTS
  Requests,      \* transcription requests that carry an Idempotency-Key
  Keys,
  Fingerprints,
  NoRequest,     \* no entry, no record, no answer
  MaxEntries,    \* MAX_CACHE_ENTRIES
  Ttl,           \* CACHE_TTL
  CleanupEvery,  \* how many successes there are to one clean-up (128)
  MaxTime,       \* bound: the clock
  MaxRestarts,   \* bound: how often the service is started again
  Cancels,       \* whether a client disconnects before its answer
  WritesFail     \* whether writing a record may fail

ASSUME IdempotencyAssumption ==
  /\ NoRequest \notin Requests
  /\ MaxEntries \in Nat \ {0}
  /\ Ttl \in Nat \ {0}
  /\ CleanupEvery \in Nat \ {0}
  /\ MaxTime \in Nat
  /\ MaxRestarts \in Nat
  /\ Cancels \in BOOLEAN
  /\ WritesFail \in BOOLEAN

Waiting == {"begin", "follow", "subscribed", "checked", "waiting"}
Leading == {"lead", "notify", "remove", "write", "rename", "trim",
            "scan", "delete"}
Done == {"created", "coalesced", "cached", "conflict", "failed", "gone"}

VARIABLES
  pc,        \* where the handler of each request is, or how it was answered
  key, fingerprint,
  on,        \* the entry a follower waits for
  woken,     \* a follower's notified() future is complete
  answer,    \* whose response a request was answered with
  entries,   \* the map, by key
  state,     \* EntryState, "none" for an entry that is not in memory
  outcome,   \* status of the response of an entry: none, ok or error
  expires_at,
  disk,      \* the record in <key>.json
  tmp,       \* requests whose temporary file holds a whole record
  doomed,    \* keys whose file a running clean-up is about to delete
  completed_writes,
  now, restarts

requestVars == <<key, fingerprint>>
followerVars == <<on, woken>>
diskVars == <<disk, tmp, doomed>>
vars == <<pc, requestVars, followerVars, answer, entries, state, outcome,
          expires_at, diskVars, completed_writes, now, restarts>>

Init ==
  /\ pc = [r \in Requests |-> "new"]
  /\ key \in [Requests -> Keys]
  /\ fingerprint \in [Requests -> Fingerprints]
  /\ on = [r \in Requests |-> NoRequest]
  /\ woken = [r \in Requests |-> FALSE]
  /\ answer = [r \in Requests |-> NoRequest]
  /\ entries = [k \in Keys |-> NoRequest]
  /\ state = [r \in Requests |-> "none"]
  /\ outcome = [r \in Requests |-> "none"]
  /\ expires_at = [r \in Requests |-> 0]
  /\ disk = [k \in Keys |-> NoRequest]
  /\ tmp = {}
  /\ doomed = [r \in Requests |-> {}]
  /\ completed_writes = 0
  /\ now = 0 /\ restarts = 0
-----------------------------------------------------------------------------
(* Begin, under the map lock.                                              *)

Arrive(r) ==
  /\ pc[r] = "new"
  /\ pc' = [pc EXCEPT ![r] = "begin"]
  /\ UNCHANGED <<requestVars, followerVars, answer, entries, state, outcome,
                 expires_at, diskVars, completed_writes, now, restarts>>

Present(r) == entries[key[r]] # NoRequest

\* Seeded defect: the key alone identifies a request.
SameKey(r) == Present(r)
\* entry.fingerprint of the map's entry is the request's own.
Matches(r) == Present(r) /\ fingerprint[entries[key[r]]] = fingerprint[r]

Replayable(e) == state[e] = "completed" /\ expires_at[e] > now

BeginConflict(r) ==
  /\ pc[r] = "begin" /\ Present(r) /\ ~Matches(r)
  /\ pc' = [pc EXCEPT ![r] = "conflict"]
  /\ UNCHANGED <<requestVars, followerVars, answer, entries, state, outcome,
                 expires_at, diskVars, completed_writes, now, restarts>>

BeginFollower(r) ==
  /\ pc[r] = "begin" /\ Matches(r) /\ state[entries[key[r]]] = "in-flight"
  /\ pc' = [pc EXCEPT ![r] = "follow"]
  /\ on' = [on EXCEPT ![r] = entries[key[r]]]
  /\ UNCHANGED <<requestVars, woken, answer, entries, state, outcome,
                 expires_at, diskVars, completed_writes, now, restarts>>

BeginCached(r) ==
  /\ pc[r] = "begin" /\ Matches(r) /\ Replayable(entries[key[r]])
  /\ pc' = [pc EXCEPT ![r] = "cached"]
  /\ answer' = [answer EXCEPT ![r] = entries[key[r]]]
  /\ UNCHANGED <<requestVars, followerVars, entries, state, outcome,
                 expires_at, diskVars, completed_writes, now, restarts>>

\* No entry, an aborted one or an expired one: the request leads a new entry.
BeginLeader(r) ==
  /\ pc[r] = "begin"
  /\ Present(r) => /\ Matches(r)
                   /\ state[entries[key[r]]] # "in-flight"
                   /\ ~Replayable(entries[key[r]])
  /\ pc' = [pc EXCEPT ![r] = "lead"]
  /\ entries' = [entries EXCEPT ![key[r]] = r]
  /\ state' = [state EXCEPT ![r] = "in-flight"]
  /\ UNCHANGED <<requestVars, followerVars, answer, outcome, expires_at,
                 diskVars, completed_writes, now, restarts>>
-----------------------------------------------------------------------------
(* The leader.                                                             *)

\* Seeded defect: the time to live is added again when the record is made.
ExpiryTwice == now + 2 * Ttl
Expiry == now + Ttl

\* finish: the response is there.
Complete(r) ==
  /\ pc[r] = "lead"
  /\ pc' = [pc EXCEPT ![r] = "notify"]
  /\ state' = [state EXCEPT ![r] = "completed"]
  /\ expires_at' = [expires_at EXCEPT ![r] = Expiry]
  /\ \E status \in {"ok", "error"} : outcome' = [outcome EXCEPT ![r] = status]
  /\ UNCHANGED <<requestVars, followerVars, answer, entries, diskVars,
                 completed_writes, now, restarts>>

\* Drop of an unfinished leader: its client left, or the response could not be
\* buffered.
Abort(r) ==
  /\ pc[r] = "lead"
  /\ pc' = [pc EXCEPT ![r] = "notify"]
  /\ state' = [state EXCEPT ![r] = "aborted"]
  /\ UNCHANGED <<requestVars, followerVars, answer, entries, outcome, expires_at,
                 diskVars, completed_writes, now, restarts>>

\* Seeded defect: a follower is registered only when it polls, after its check.
RegisteredOnPoll == {"waiting"}
\* notified() registers the future when it is created, before the check.
Registered == {"subscribed", "checked", "waiting"}

NotifyWaiters(r) ==
  /\ pc[r] = "notify"
  /\ woken' = [f \in Requests |->
                 woken[f] \/ (pc[f] \in Registered /\ on[f] = r)]
  /\ pc' = [pc EXCEPT ![r] = IF outcome[r] = "ok" THEN "write" ELSE "remove"]
  /\ UNCHANGED <<requestVars, on, answer, entries, state, outcome, expires_at,
                 diskVars, completed_writes, now, restarts>>

\* Seeded defect: whatever entry the key has is removed.
RemoveEntry(r) == [entries EXCEPT ![key[r]] = NoRequest]
\* remove_entry_if_same, by the identity of the entry.
RemoveIfSame(r) ==
  IF entries[key[r]] = r THEN [entries EXCEPT ![key[r]] = NoRequest] ELSE entries

\* An error is answered but not kept; an aborted leader answers with a failure of
\* its own, or not at all.
Remove(r) ==
  /\ pc[r] = "remove"
  /\ entries' = RemoveIfSame(r)
  /\ IF outcome[r] = "error"
     THEN /\ pc' = [pc EXCEPT ![r] = "created"]
          /\ answer' = [answer EXCEPT ![r] = r]
     ELSE /\ pc' = [pc EXCEPT ![r] = "failed"]
          /\ UNCHANGED answer
  /\ UNCHANGED <<requestVars, followerVars, state, outcome, expires_at, diskVars,
                 completed_writes, now, restarts>>

\* persist_record: a temporary file, then a rename; an error is only logged.  What a
\* failed write leaves is no record to anyone who reads it.
WriteTmp(r) ==
  /\ pc[r] = "write"
  /\ \/ tmp' = tmp \cup {r} /\ pc' = [pc EXCEPT ![r] = "rename"]
     \/ WritesFail /\ UNCHANGED tmp /\ pc' = [pc EXCEPT ![r] = "trim"]
  /\ UNCHANGED <<requestVars, followerVars, answer, entries, state, outcome,
                 expires_at, disk, doomed, completed_writes, now, restarts>>

\* A rename that fails, or finds the temporary file cleaned up, leaves both files alone.
Rename(r) ==
  /\ pc[r] = "rename"
  /\ \/ /\ r \in tmp
        /\ disk' = [disk EXCEPT ![key[r]] = r] /\ tmp' = tmp \ {r}
     \/ /\ r \notin tmp \/ WritesFail
        /\ UNCHANGED <<disk, tmp>>
  /\ pc' = [pc EXCEPT ![r] = "trim"]
  /\ UNCHANGED <<requestVars, followerVars, answer, entries, state, outcome,
                 expires_at, doomed, completed_writes, now, restarts>>

\* The n keys of S whose response expires first; which of equals is the sort's
\* choice.  holder is the map or the disk.
FirstToExpire(S, n, holder) ==
  {T \in SUBSET S :
     /\ Cardinality(T) = IF n < Cardinality(S) THEN n ELSE Cardinality(S)
     /\ \A k \in T, l \in S \ T :
          expires_at[holder[k]] <= expires_at[holder[l]]}

Surplus(n) == IF n > MaxEntries THEN n - MaxEntries ELSE 0

\* Seeded defects: entries are trimmed whatever their state; one is left over.
TrimmableAnyway == {k \in Keys : entries[k] # NoRequest}
OneTooMany(n) == IF n > MaxEntries + 1 THEN n - MaxEntries - 1 ELSE 0

\* Only completed entries are candidates.
Trimmable == {k \in Keys : entries[k] # NoRequest /\ state[entries[k]] = "completed"}
SurplusInMemory(n) == Surplus(n)

\* trim_memory_entries, under the map lock, and the count of successes.
Trim(r) ==
  /\ pc[r] = "trim"
  /\ LET held == Cardinality({k \in Keys : entries[k] # NoRequest}) IN
     \E gone \in FirstToExpire(Trimmable, SurplusInMemory(held), entries) :
       entries' = [k \in Keys |-> IF k \in gone THEN NoRequest ELSE entries[k]]
  /\ completed_writes' = (completed_writes + 1) % CleanupEvery
  /\ IF completed_writes = 0
     THEN pc' = [pc EXCEPT ![r] = "scan"] /\ UNCHANGED answer
     ELSE /\ pc' = [pc EXCEPT ![r] = "created"]
          /\ answer' = [answer EXCEPT ![r] = r]
  /\ UNCHANGED <<requestVars, followerVars, state, outcome, expires_at, diskVars,
                 now, restarts>>

OnDisk == {k \in Keys : disk[k] # NoRequest}
Unexpired == {k \in OnDisk : expires_at[disk[k]] > now}

\* What cleanup_files finds to delete: expired records and those beyond the bound.
ToDelete ==
  {(OnDisk \ Unexpired) \cup T :
     T \in FirstToExpire(Unexpired, Surplus(Cardinality(Unexpired)), disk)}

\* cleanup_files reads the directory: every temporary file goes at once; a record's
\* file goes after it was read, by its path.
Scan(r) ==
  /\ pc[r] = "scan"
  /\ tmp' = {}
  /\ \E gone \in ToDelete : doomed' = [doomed EXCEPT ![r] = gone]
  /\ pc' = [pc EXCEPT ![r] = "delete"]
  /\ UNCHANGED <<requestVars, followerVars, answer, entries, state, outcome,
                 expires_at, disk, completed_writes, now, restarts>>

Delete(r) ==
  /\ pc[r] = "delete"
  /\ disk' = [k \in Keys |-> IF k \in doomed[r] THEN NoRequest ELSE disk[k]]
  /\ doomed' = [doomed EXCEPT ![r] = {}]
  /\ pc' = [pc EXCEPT ![r] = "created"]
  /\ answer' = [answer EXCEPT ![r] = r]
  /\ UNCHANGED <<requestVars, followerVars, entries, state, outcome, expires_at,
                 tmp, completed_writes, now, restarts>>
-----------------------------------------------------------------------------
(* The follower.                                                           *)

Subscribe(r) ==
  /\ pc[r] = "follow"
  /\ pc' = [pc EXCEPT ![r] = "subscribed"]
  /\ woken' = [woken EXCEPT ![r] = FALSE]
  /\ UNCHANGED <<requestVars, on, answer, entries, state, outcome, expires_at,
                 diskVars, completed_writes, now, restarts>>

Check(r) ==
  /\ pc[r] = "subscribed"
  /\ \/ /\ state[on[r]] = "completed"
        /\ pc' = [pc EXCEPT ![r] = "coalesced"]
        /\ answer' = [answer EXCEPT ![r] = on[r]]
     \/ /\ state[on[r]] = "aborted"
        /\ pc' = [pc EXCEPT ![r] = "begin"]
        /\ UNCHANGED answer
     \/ /\ state[on[r]] = "in-flight"
        /\ pc' = [pc EXCEPT ![r] = "checked"]
        /\ UNCHANGED answer
  /\ UNCHANGED <<requestVars, followerVars, entries, state, outcome, expires_at,
                 diskVars, completed_writes, now, restarts>>

\* The entry's lock is released and the future polled.
Await(r) ==
  /\ pc[r] = "checked"
  /\ pc' = [pc EXCEPT ![r] = "waiting"]
  /\ UNCHANGED <<requestVars, followerVars, answer, entries, state, outcome,
                 expires_at, diskVars, completed_writes, now, restarts>>

Wake(r) ==
  /\ pc[r] = "waiting" /\ woken[r]
  /\ pc' = [pc EXCEPT ![r] = "follow"]
  /\ UNCHANGED <<requestVars, followerVars, answer, entries, state, outcome,
                 expires_at, diskVars, completed_writes, now, restarts>>
-----------------------------------------------------------------------------
(* Clients that leave, time, and restarts.                                 *)

\* The handler's future is dropped at an await: of a follower, or of a leader that
\* persists its record (a file operation in progress still ends).
Cancel(r) ==
  /\ Cancels
  /\ pc[r] \in {"waiting", "write", "rename", "trim"}
  /\ pc' = [pc EXCEPT ![r] = "gone"]
  /\ UNCHANGED <<requestVars, followerVars, answer, entries, state, outcome,
                 expires_at, diskVars, completed_writes, now, restarts>>

Tick ==
  /\ now < MaxTime
  /\ now' = now + 1
  /\ UNCHANGED <<pc, requestVars, followerVars, answer, entries, state, outcome,
                 expires_at, diskVars, completed_writes, restarts>>

\* What load_records finds: it reads every file of the directory, those whose rename
\* never came too.
Loadable ==
  {e \in {disk[k] : k \in OnDisk} \cup tmp : expires_at[e] > now}

\* The map IdempotencyStore::new makes of the records it takes, in the order of their
\* expiry: of two with one key the one that expires first is inserted last.
Loaded(taken) ==
  {m \in [Keys -> taken \cup {NoRequest}] :
     \A k \in Keys :
       LET own == {e \in taken : key[e] = k} IN
       IF own = {} THEN m[k] = NoRequest
       ELSE m[k] \in own /\ \A e \in own : expires_at[m[k]] <= expires_at[e]}

\* The process ends and is started again: IdempotencyStore::new takes MaxEntries of the
\* unexpired records, and cleans the directory up only then.
Restart ==
  /\ restarts < MaxRestarts
  /\ restarts' = restarts + 1
  /\ pc' = [r \in Requests |->
              IF pc[r] \in Waiting \cup Leading THEN "gone" ELSE pc[r]]
  /\ \E left \in FirstToExpire(Loadable, Surplus(Cardinality(Loadable)),
                               [e \in Requests |-> e]) :
       \E loaded \in Loaded(Loadable \ left) :
         /\ entries' = loaded
         /\ state' = [r \in Requests |->
              IF \E k \in Keys : loaded[k] = r THEN "completed" ELSE "none"]
  /\ \E gone \in ToDelete :
       disk' = [k \in Keys |-> IF k \in gone THEN NoRequest ELSE disk[k]]
  /\ tmp' = {}
  /\ doomed' = [r \in Requests |-> {}]
  /\ completed_writes' = 0
  /\ UNCHANGED <<requestVars, followerVars, answer, outcome, expires_at, now>>
-----------------------------------------------------------------------------
BeginStep(r) ==
  BeginConflict(r) \/ BeginFollower(r) \/ BeginCached(r) \/ BeginLeader(r)
Leader(r) ==
  \/ Complete(r) \/ Abort(r) \/ NotifyWaiters(r) \/ Remove(r)
  \/ WriteTmp(r) \/ Rename(r) \/ Trim(r) \/ Scan(r) \/ Delete(r)
Follower(r) == Subscribe(r) \/ Check(r) \/ Await(r) \/ Wake(r)
Serve(r) == BeginStep(r) \/ Leader(r) \/ Follower(r)

Next ==
  \/ \E r \in Requests : Arrive(r) \/ Serve(r) \/ Cancel(r)
  \/ Tick \/ Restart

Spec == Init /\ [][Next]_vars

\* Handlers are scheduled, an execution ends, file operations end.  Nothing is
\* assumed of clients, of the clock or of restarts.
FairSpec == Spec /\ \A r \in Requests : WF_vars(Serve(r))
-----------------------------------------------------------------------------
(* Properties.                                                             *)

TypeOK ==
  /\ pc \in [Requests -> {"new"} \cup Waiting \cup Leading \cup Done]
  /\ key \in [Requests -> Keys]
  /\ fingerprint \in [Requests -> Fingerprints]
  /\ on \in [Requests -> Requests \cup {NoRequest}]
  /\ woken \in [Requests -> BOOLEAN]
  /\ answer \in [Requests -> Requests \cup {NoRequest}]
  /\ entries \in [Keys -> Requests \cup {NoRequest}]
  /\ state \in [Requests -> {"none", "in-flight", "completed", "aborted"}]
  /\ outcome \in [Requests -> {"none", "ok", "error"}]
  /\ expires_at \in [Requests -> 0..(MaxTime + Ttl)]
  /\ disk \in [Keys -> Requests \cup {NoRequest}]
  /\ tmp \in SUBSET Requests
  /\ doomed \in [Requests -> SUBSET Keys]
  /\ completed_writes \in 0..(CleanupEvery - 1)
  /\ now \in 0..MaxTime
  /\ restarts \in 0..MaxRestarts

\* Single flight: at no time are two requests with one key executed, although an
\* entry may be aborted, trimmed, expired and removed while others begin ("errors are
\* coalesced", remove_entry_if_same, trim_memory_entries).
SingleFlight ==
  \A r, s \in Requests :
    pc[r] = "lead" /\ pc[s] = "lead" /\ key[r] = key[s] => r = s

\* A response is replayed only to the request it answers: same key, same fingerprint,
\* whichever of map, entry, record and left-over temporary file it came from; and what
\* is on disk, renamed or not, is a success.
AnswersMatch ==
  /\ \A r \in Requests : answer[r] # NoRequest =>
       /\ key[answer[r]] = key[r] /\ fingerprint[answer[r]] = fingerprint[r]
       /\ outcome[answer[r]] # "none"
  /\ \A k \in Keys : disk[k] # NoRequest =>
       key[disk[k]] = k /\ outcome[disk[k]] = "ok"
  /\ \A r \in tmp : outcome[r] = "ok"

\* The map holds no more than MaxEntries besides the entries whose leader has not
\* come to its own trim or left before it.
MemoryBounded ==
  Cardinality({k \in Keys : entries[k] # NoRequest}) <=
    MaxEntries + Cardinality({r \in Requests :
                               pc[r] \in (Leading \ {"scan", "delete"}) \cup {"gone"}})

\* Every request is answered: a follower misses no notification, and the failure of
\* its leader makes it begin again.
EveryRequestAnswered ==
  \A r \in Requests : pc[r] = "begin" ~> pc[r] \in Done

\* "Successful records are stored without raw audio for 24 hours in the bounded
\* durable cache": a success that was answered to its leader is on disk until it
\* expires, as long as the records fit.
SuccessIsDurable ==
  \A r \in Requests :
    /\ pc[r] = "created" /\ outcome[r] = "ok" /\ expires_at[r] > now
    /\ Cardinality(Keys) <= MaxEntries
    => disk[key[r]] # NoRequest
=============================================================================
