-------------------------- MODULE IdempotencyProofs --------------------------
(***************************************************************************)
(* For any number of requests, keys and fingerprints, any bounds and with  *)
(* clients that leave, writes that fail and restarts: Idempotency is       *)
(* single-flight and replays only answers that match.                      *)
(***************************************************************************)
EXTENDS Idempotency, FiniteSetTheorems, TLAPS

\* A leader holds the map's entry of its key, in flight, so that whoever begins with
\* the key finds it.
LeaderInMap ==
  \A r \in Requests : pc[r] = "lead" => state[r] = "in-flight" /\ entries[key[r]] = r

FlightInv == TypeOK /\ LeaderInMap

Unanswered == {"new", "lead"} \cup Waiting
Succeeded == {"write", "rename"}

\* Where a response is and what it can be: none before its leader is done; a success
\* once it is being written and on disk.
Outcomes ==
  \A r \in Requests :
    /\ pc[r] \in Unanswered => outcome[r] = "none"
    /\ pc[r] \in Succeeded => outcome[r] = "ok"
    /\ pc[r] \in {"trim", "scan", "delete"} => outcome[r] # "none"
    /\ state[r] = "completed" => outcome[r] # "none"

EntriesOwnKey == \A k \in Keys : entries[k] # NoRequest => key[entries[k]] = k

\* A follower waits for an entry of its own key and fingerprint.
FollowsItsOwn ==
  \A r \in Requests : pc[r] \in Waiting \ {"begin"} =>
    /\ on[r] \in Requests
    /\ key[on[r]] = key[r] /\ fingerprint[on[r]] = fingerprint[r]

AnswerInv == TypeOK /\ Outcomes /\ EntriesOwnKey /\ FollowsItsOwn /\ AnswersMatch
-----------------------------------------------------------------------------
(* What the sorted lists leave over.                                       *)

\* trim_memory_entries and cleanup_files remove entries of the map or of the disk:
\* those chosen are among the candidates.
LEMMA FirstToExpireIsAmong ==
  ASSUME NEW S, NEW n, NEW holder, NEW T \in FirstToExpire(S, n, holder)
  PROVE  T \subseteq S
BY DEF FirstToExpire

\* trim_memory_entries removes no entry that is in flight.
LEMMA TrimKeepsFlights ==
  ASSUME NEW n, NEW gone \in FirstToExpire(Trimmable, n, entries),
         NEW k \in Keys, k \in gone
  PROVE  state[entries[k]] = "completed"
BY FirstToExpireIsAmong DEF Trimmable

\* A clean-up deletes records of keys.
LEMMA DeletesKeys == ASSUME NEW gone \in ToDelete PROVE gone \subseteq Keys
BY DEF ToDelete, FirstToExpire, OnDisk, Unexpired

\* What IdempotencyStore::new makes of the directory: a map of unexpired records under
\* their own keys, whether they were renamed or left as a temporary file.
LEMMA RestartLoads ==
  ASSUME IdempotencyAssumption, TypeOK, Restart
  PROVE  /\ Loadable \subseteq Requests
         /\ \A e \in Loadable : e \in tmp \/ \E k \in Keys : disk[k] = e
         /\ entries' \in [Keys -> Loadable \cup {NoRequest}]
         /\ \A k \in Keys : entries'[k] # NoRequest => key[entries'[k]] = k
         /\ state' = [r \in Requests |->
              IF \E k \in Keys : entries'[k] = r THEN "completed" ELSE "none"]
<1>1. /\ Loadable \subseteq Requests
      /\ \A e \in Loadable : e \in tmp \/ \E k \in Keys : disk[k] = e
  BY DEF Loadable, OnDisk, TypeOK
<1>2. PICK left : entries' \in Loaded(Loadable \ left)
  BY DEF Restart
<1>3. entries' \in [Keys -> (Loadable \ left) \cup {NoRequest}]
  BY <1>2 DEF Loaded
<1>4. ASSUME NEW k \in Keys, entries'[k] # NoRequest
      PROVE  key[entries'[k]] = k
  <2> DEFINE own == {e \in Loadable \ left : key[e] = k}
  <2>1. IF own = {} THEN entries'[k] = NoRequest ELSE entries'[k] \in own
    BY <1>2 DEF Loaded
  <2>2. entries'[k] \in own
    BY <1>4, <2>1
  <2> QED
    BY <2>2
<1>5. state' = [r \in Requests |->
                 IF \E k \in Keys : entries'[k] = r THEN "completed" ELSE "none"]
  BY DEF Restart
<1> QED
  BY <1>1, <1>3, <1>4, <1>5

\* Every action but Restart moves at most one handler.
LEMMA StepTypeOK ==
  ASSUME IdempotencyAssumption, TypeOK, [Next]_vars
  PROVE  TypeOK'
<1> USE IdempotencyAssumption
    DEF IdempotencyAssumption, TypeOK, Waiting, Leading, Done, requestVars,
        followerVars, diskVars
<1>1. CASE UNCHANGED vars
  BY <1>1 DEF vars
<1>2. ASSUME NEW r \in Requests, Arrive(r) \/ BeginConflict(r) \/ Cancel(r)
                                   \/ Subscribe(r) \/ Await(r) \/ Wake(r)
                                   \/ NotifyWaiters(r)
      PROVE  TypeOK'
  BY <1>2 DEF Arrive, BeginConflict, Cancel, Subscribe, Await, Wake, NotifyWaiters
<1>3. ASSUME NEW r \in Requests, BeginFollower(r) PROVE TypeOK'
  BY <1>3 DEF BeginFollower
<1>4. ASSUME NEW r \in Requests, BeginCached(r) PROVE TypeOK'
  BY <1>4 DEF BeginCached
<1>5. ASSUME NEW r \in Requests, BeginLeader(r) PROVE TypeOK'
  BY <1>5 DEF BeginLeader
<1>6. ASSUME NEW r \in Requests, Complete(r) \/ Abort(r) PROVE TypeOK'
  <2>1. CASE Complete(r)
    <3>1. Expiry \in 0..(MaxTime + Ttl)
      BY DEF Expiry
    <3>2. expires_at' \in [Requests -> 0..(MaxTime + Ttl)]
      BY <2>1, <3>1 DEF Complete
    <3>3. outcome' \in [Requests -> {"none", "ok", "error"}]
      BY <2>1 DEF Complete
    <3> QED
      BY <2>1, <3>2, <3>3 DEF Complete
  <2>2. CASE Abort(r)
    BY <2>2 DEF Abort
  <2> QED
    BY <1>6, <2>1, <2>2
<1>7. ASSUME NEW r \in Requests, Remove(r) PROVE TypeOK'
  BY <1>7 DEF Remove, RemoveIfSame
<1>8. ASSUME NEW r \in Requests, WriteTmp(r) \/ Rename(r) PROVE TypeOK'
  <2>1. CASE WriteTmp(r)
    BY <2>1 DEF WriteTmp
  <2>2. CASE Rename(r)
    <3>1. disk' \in [Keys -> Requests \cup {NoRequest}]
      BY <2>2 DEF Rename
    <3>2. pc' = [pc EXCEPT ![r] = "trim"] /\ tmp' \in {tmp, tmp \ {r}}
      BY <2>2 DEF Rename
    <3> QED
      BY <2>2, <3>1, <3>2 DEF Rename
  <2> QED
    BY <1>8, <2>1, <2>2
<1>9. ASSUME NEW r \in Requests, Trim(r) PROVE TypeOK'
  <2>1. completed_writes' \in 0..(CleanupEvery - 1)
    BY <1>9 DEF Trim
  <2> QED
    BY <1>9, <2>1 DEF Trim
<1>10. ASSUME NEW r \in Requests, Scan(r) \/ Delete(r) PROVE TypeOK'
  BY <1>10, DeletesKeys DEF Scan, Delete
<1>11. ASSUME NEW r \in Requests, Check(r) PROVE TypeOK'
  BY <1>11 DEF Check
<1>12. CASE Tick
  BY <1>12 DEF Tick
<1>13. CASE Restart
  <2>1. entries' \in [Keys -> Requests \cup {NoRequest}]
    BY <1>13, RestartLoads
  <2>2. disk' \in [Keys -> Requests \cup {NoRequest}]
    BY <1>13 DEF Restart
  <2>3. state' \in [Requests -> {"none", "in-flight", "completed", "aborted"}]
    BY <1>13, RestartLoads
  <2> QED
    BY <1>13, <2>1, <2>2, <2>3 DEF Restart
<1> QED
  BY <1>1, <1>2, <1>3, <1>4, <1>5, <1>6, <1>7, <1>8, <1>9, <1>10, <1>11, <1>12,
     <1>13 DEF Next, Serve, BeginStep, Leader, Follower
-----------------------------------------------------------------------------
(* Single flight.                                                          *)

LEMMA InitFlight == IdempotencyAssumption /\ Init => FlightInv
BY DEF Init, FlightInv, TypeOK, LeaderInMap

\* The step lemma: an entry in flight leaves the map only when its leader is done.
LEMMA StepLeaderInMap ==
  ASSUME IdempotencyAssumption, FlightInv, [Next]_vars
  PROVE  LeaderInMap'
<1> USE DEF FlightInv, TypeOK, LeaderInMap, requestVars, followerVars, diskVars,
            IdempotencyAssumption
<1>1. CASE UNCHANGED vars
  BY <1>1 DEF vars
<1>2. ASSUME NEW r \in Requests,
             \/ Arrive(r) \/ BeginConflict(r) \/ BeginFollower(r) \/ BeginCached(r)
             \/ Cancel(r) \/ Subscribe(r) \/ Await(r) \/ Wake(r) \/ NotifyWaiters(r)
      PROVE  LeaderInMap'
  BY <1>2 DEF Arrive, BeginConflict, BeginFollower, BeginCached, Cancel, Subscribe,
              Await, Wake, NotifyWaiters
<1>3. ASSUME NEW r \in Requests, BeginLeader(r) PROVE LeaderInMap'
  <2>1. ASSUME NEW s \in Requests, pc[s] = "lead" PROVE key[s] # key[r]
    BY <1>3, <2>1 DEF BeginLeader, Present
  <2> QED
    BY <1>3, <2>1 DEF BeginLeader
<1>4. ASSUME NEW r \in Requests, Complete(r) \/ Abort(r) PROVE LeaderInMap'
  BY <1>4 DEF Complete, Abort
<1>5. ASSUME NEW r \in Requests, Remove(r) PROVE LeaderInMap'
  BY <1>5 DEF Remove, RemoveIfSame
<1>6. ASSUME NEW r \in Requests, WriteTmp(r) \/ Rename(r) PROVE LeaderInMap'
  BY <1>6 DEF WriteTmp, Rename
<1>7. ASSUME NEW r \in Requests, Trim(r) PROVE LeaderInMap'
  <2> DEFINE held == Cardinality({k \in Keys : entries[k] # NoRequest})
  <2>1. PICK gone \in FirstToExpire(Trimmable, SurplusInMemory(held), entries) :
          entries' = [k \in Keys |-> IF k \in gone THEN NoRequest ELSE entries[k]]
    BY <1>7 DEF Trim
  <2>2. \A k \in Keys : k \in gone => state[entries[k]] = "completed"
    BY TrimKeepsFlights
  <2>3. \A s \in Requests : pc'[s] = "lead" => pc[s] = "lead"
    BY <1>7 DEF Trim
  <2>4. state' = state /\ key' = key
    BY <1>7 DEF Trim
  <2> QED
    BY <2>1, <2>2, <2>3, <2>4
<1>8. ASSUME NEW r \in Requests, Scan(r) \/ Delete(r) PROVE LeaderInMap'
  BY <1>8 DEF Scan, Delete
<1>9. ASSUME NEW r \in Requests, Check(r) PROVE LeaderInMap'
  BY <1>9 DEF Check
<1>10. CASE Tick
  BY <1>10 DEF Tick
<1>11. CASE Restart
  <2>1. \A s \in Requests : pc'[s] # "lead"
    BY <1>11 DEF Restart, Leading
  <2> QED
    BY <2>1
<1> QED
  BY <1>1, <1>2, <1>3, <1>4, <1>5, <1>6, <1>7, <1>8, <1>9, <1>10, <1>11
     DEF Next, Serve, BeginStep, Leader, Follower

\* The inductive invariant of single flight.
THEOREM FlightInvariant == IdempotencyAssumption => (Spec => []FlightInv)
<1> SUFFICES ASSUME IdempotencyAssumption PROVE Spec => []FlightInv
  OBVIOUS
<1>1. Init => FlightInv
  BY InitFlight
<1>2. FlightInv /\ [Next]_vars => FlightInv'
  BY StepTypeOK, StepLeaderInMap DEF FlightInv
<1> QED
  BY <1>1, <1>2, PTL DEF Spec

\* Single flight, for every number of requests: no two requests with the same key are
\* executed at once (begin, finish, Drop, trim_memory_entries, remove_entry_if_same).
THEOREM SingleFlightAlways == IdempotencyAssumption => (Spec => []SingleFlight)
<1> SUFFICES ASSUME IdempotencyAssumption PROVE Spec => []SingleFlight
  OBVIOUS
<1>1. FlightInv => SingleFlight
  BY DEF FlightInv, LeaderInMap, SingleFlight
<1>2. Spec => []FlightInv
  BY FlightInvariant
<1> QED
  BY <1>1, <1>2, PTL

\* Types, for every value of the constants (the counters stay in their bounds, a
\* clean-up is due once in CleanupEvery successes).
THEOREM TypesAlways == IdempotencyAssumption => (Spec => []TypeOK)
<1> SUFFICES ASSUME IdempotencyAssumption PROVE Spec => []TypeOK
  OBVIOUS
<1>1. FlightInv => TypeOK
  BY DEF FlightInv
<1>2. Spec => []FlightInv
  BY FlightInvariant
<1> QED
  BY <1>1, <1>2, PTL
-----------------------------------------------------------------------------
(* Only answers that match.                                                *)

LEMMA InitAnswers == IdempotencyAssumption /\ Init => AnswerInv
BY DEF IdempotencyAssumption, Init, AnswerInv, TypeOK, Outcomes, EntriesOwnKey,
       FollowsItsOwn, AnswersMatch, Waiting, Succeeded, Unanswered

\* A response, once there, is never another one (finish consumes its leader).
LEMMA OutcomeIsFinal ==
  ASSUME AnswerInv, [Next]_vars
  PROVE  \A r \in Requests : outcome[r] # "none" => outcome'[r] = outcome[r]
<1> USE DEF AnswerInv, Outcomes, TypeOK, Unanswered
<1>1. CASE UNCHANGED vars
  BY <1>1 DEF vars
<1>2. ASSUME NEW r \in Requests, Complete(r)
      PROVE  \A s \in Requests : outcome[s] # "none" => outcome'[s] = outcome[s]
  BY <1>2 DEF Complete
<1>3. CASE UNCHANGED outcome
  BY <1>3
<1> QED
  BY <1>1, <1>2, <1>3
     DEF Next, Serve, BeginStep, Leader, Follower, Arrive, BeginConflict,
         BeginFollower, BeginCached, BeginLeader, Abort, NotifyWaiters, Remove,
         WriteTmp, Rename, Trim, Scan, Delete, Subscribe, Check, Await, Wake,
         Cancel, Tick, Restart

LEMMA StepOutcomes ==
  ASSUME IdempotencyAssumption, AnswerInv, [Next]_vars
  PROVE  Outcomes'
<1> USE DEF AnswerInv, TypeOK, Outcomes, Unanswered, Succeeded, Waiting,
            requestVars, followerVars, diskVars
<1>1. CASE UNCHANGED vars
  BY <1>1 DEF vars
<1>2. ASSUME NEW r \in Requests,
             \/ Arrive(r) \/ BeginConflict(r) \/ BeginFollower(r) \/ BeginCached(r)
             \/ BeginLeader(r) \/ Cancel(r) \/ Subscribe(r) \/ Await(r) \/ Wake(r)
      PROVE  Outcomes'
  BY <1>2 DEF Arrive, BeginConflict, BeginFollower, BeginCached, BeginLeader, Cancel,
              Subscribe, Await, Wake
<1>3. ASSUME NEW r \in Requests, Complete(r) PROVE Outcomes'
  BY <1>3 DEF Complete
<1>4. ASSUME NEW r \in Requests, Abort(r) \/ NotifyWaiters(r) PROVE Outcomes'
  BY <1>4 DEF Abort, NotifyWaiters
<1>5. ASSUME NEW r \in Requests, Remove(r) PROVE Outcomes'
  BY <1>5 DEF Remove
<1>6. ASSUME NEW r \in Requests, WriteTmp(r) \/ Rename(r) PROVE Outcomes'
  BY <1>6 DEF WriteTmp, Rename
<1>7. ASSUME NEW r \in Requests, Trim(r) \/ Scan(r) \/ Delete(r) PROVE Outcomes'
  BY <1>7 DEF Trim, Scan, Delete
<1>8. ASSUME NEW r \in Requests, Check(r) PROVE Outcomes'
  BY <1>8 DEF Check
<1>9. CASE Tick
  BY <1>9 DEF Tick
<1>10. CASE Restart
  <2>1. \A s \in Requests : pc'[s] \in Done \cup {"new"}
                            /\ (pc'[s] = "new" => pc[s] = "new")
    BY <1>10 DEF Restart, Leading, Done
  <2>2. \A s \in Requests : state'[s] = "completed" =>
          s \in tmp \/ \E k \in Keys : disk[k] = s
    BY <1>10, RestartLoads DEF IdempotencyAssumption
  <2>3. \A s \in Requests : state'[s] = "completed" => outcome[s] # "none"
    BY <2>2 DEF AnswersMatch, IdempotencyAssumption
  <2>4. outcome' = outcome
    BY <1>10 DEF Restart
  <2> QED
    BY <2>1, <2>3, <2>4 DEF Done
<1> QED
  BY <1>1, <1>2, <1>3, <1>4, <1>5, <1>6, <1>7, <1>8, <1>9, <1>10
     DEF Next, Serve, BeginStep, Leader, Follower

LEMMA StepEntriesOwnKey ==
  ASSUME IdempotencyAssumption, AnswerInv, [Next]_vars
  PROVE  EntriesOwnKey'
<1> USE DEF AnswerInv, TypeOK, EntriesOwnKey, requestVars, followerVars, diskVars
<1>1. CASE UNCHANGED <<key, entries>>
  BY <1>1
<1>2. ASSUME NEW r \in Requests, BeginLeader(r) PROVE EntriesOwnKey'
  BY <1>2 DEF BeginLeader
<1>3. ASSUME NEW r \in Requests, Remove(r) PROVE EntriesOwnKey'
  BY <1>3 DEF Remove, RemoveIfSame
<1>4. ASSUME NEW r \in Requests, Trim(r) PROVE EntriesOwnKey'
  BY <1>4 DEF Trim
<1>5. CASE Restart
  BY <1>5, RestartLoads DEF Restart
<1> QED
  BY <1>1, <1>2, <1>3, <1>4, <1>5
     DEF Next, Serve, BeginStep, Leader, Follower, vars, Arrive, BeginConflict,
         BeginFollower, BeginCached, Complete, Abort, NotifyWaiters, WriteTmp, Rename,
         Scan, Delete, Subscribe, Check, Await, Wake, Cancel, Tick

LEMMA StepFollowsItsOwn ==
  ASSUME IdempotencyAssumption, AnswerInv, [Next]_vars
  PROVE  FollowsItsOwn'
<1> USE DEF AnswerInv, TypeOK, FollowsItsOwn, Waiting, requestVars, followerVars,
            diskVars
<1>1. CASE UNCHANGED vars
  BY <1>1 DEF vars
<1>2. ASSUME NEW r \in Requests, BeginFollower(r) PROVE FollowsItsOwn'
  <2>1. entries[key[r]] \in Requests /\ key[entries[key[r]]] = key[r]
    BY <1>2 DEF BeginFollower, Matches, Present, EntriesOwnKey
  <2> QED
    BY <1>2, <2>1 DEF BeginFollower, Matches
<1>3. ASSUME NEW r \in Requests, Arrive(r) \/ BeginConflict(r) \/ BeginCached(r)
                                   \/ BeginLeader(r) \/ Complete(r) \/ Abort(r)
      PROVE  FollowsItsOwn'
  BY <1>3 DEF Arrive, BeginConflict, BeginCached, BeginLeader, Complete, Abort
<1>4. ASSUME NEW r \in Requests, NotifyWaiters(r) \/ Remove(r) \/ WriteTmp(r)
                                   \/ Rename(r) \/ Cancel(r)
      PROVE  FollowsItsOwn'
  BY <1>4 DEF NotifyWaiters, Remove, WriteTmp, Rename, Cancel
<1>5. ASSUME NEW r \in Requests, Trim(r) \/ Scan(r) \/ Delete(r)
      PROVE  FollowsItsOwn'
  BY <1>5 DEF Trim, Scan, Delete
<1>6. ASSUME NEW r \in Requests, Subscribe(r) \/ Check(r) \/ Await(r) \/ Wake(r)
      PROVE  FollowsItsOwn'
  BY <1>6 DEF Subscribe, Check, Await, Wake
<1>7. CASE Tick
  BY <1>7 DEF Tick
<1>8. CASE Restart
  BY <1>8 DEF Restart
<1> QED
  BY <1>1, <1>2, <1>3, <1>4, <1>5, <1>6, <1>7, <1>8
     DEF Next, Serve, BeginStep, Leader, Follower

\* What an answer has to be.
AnswersOf(r) ==
  answer[r] # NoRequest =>
    /\ key[answer[r]] = key[r] /\ fingerprint[answer[r]] = fingerprint[r]
    /\ outcome[answer[r]] # "none"

\* What a record has to be.
RecordOf(k) == disk[k] # NoRequest => key[disk[k]] = k /\ outcome[disk[k]] = "ok"

\* One handler's answer changes at most, and to one that has its key and fingerprint.
LEMMA StepAnswers ==
  ASSUME IdempotencyAssumption, AnswerInv, [Next]_vars, NEW s \in Requests
  PROVE  AnswersOf(s)'
<1> USE DEF AnswerInv, TypeOK, AnswersMatch, AnswersOf, requestVars, followerVars,
            diskVars
<1>1. /\ UNCHANGED <<key, fingerprint>>
      /\ \A r \in Requests : outcome[r] # "none" => outcome'[r] # "none"
  <2>1. UNCHANGED <<key, fingerprint>>
    BY DEF Next, Serve, BeginStep, Leader, Follower, vars, Arrive, BeginConflict,
           BeginFollower, BeginCached, BeginLeader, Complete, Abort, NotifyWaiters,
           Remove, WriteTmp, Rename, Trim, Scan, Delete, Subscribe, Check, Await, Wake,
           Cancel, Tick, Restart
  <2> QED
    BY <2>1, OutcomeIsFinal
<1>2. CASE answer' = answer
  BY <1>1, <1>2
<1>3. ASSUME NEW r \in Requests, NEW e \in Requests,
             answer' = [answer EXCEPT ![r] = e],
             key[e] = key[r], fingerprint[e] = fingerprint[r], outcome[e] # "none"
      PROVE  AnswersOf(s)'
  BY <1>1, <1>3
<1>4. ASSUME NEW r \in Requests, BeginCached(r) PROVE AnswersOf(s)'
  <2>1. LET e == entries[key[r]]
        IN /\ e \in Requests /\ key[e] = key[r] /\ fingerprint[e] = fingerprint[r]
           /\ outcome[e] # "none" /\ answer' = [answer EXCEPT ![r] = e]
    BY <1>4 DEF BeginCached, Matches, Present, Replayable, EntriesOwnKey, Outcomes
  <2> QED
    BY <2>1, <1>3
<1>5. ASSUME NEW r \in Requests, Remove(r) \/ Trim(r) \/ Delete(r)
      PROVE  AnswersOf(s)'
  <2>1. outcome[r] # "none" \/ answer' = answer
    BY <1>5 DEF Remove, Trim, Delete, Outcomes
  <2>2. answer' \in {answer, [answer EXCEPT ![r] = r]}
    BY <1>5 DEF Remove, Trim, Delete
  <2> QED
    BY <2>1, <2>2, <1>2, <1>3
<1>6. ASSUME NEW r \in Requests, Check(r) PROVE AnswersOf(s)'
  <2>1. CASE answer' = [answer EXCEPT ![r] = on[r]] /\ state[on[r]] = "completed"
    BY <1>6, <2>1, <1>3 DEF Check, Outcomes, FollowsItsOwn, Waiting
  <2> QED
    BY <1>6, <2>1, <1>2 DEF Check
<1> QED
  BY <1>2, <1>4, <1>5, <1>6
     DEF Next, Serve, BeginStep, Leader, Follower, vars, Arrive, BeginConflict,
         BeginFollower, BeginLeader, Complete, Abort, NotifyWaiters, WriteTmp, Rename,
         Scan, Subscribe, Await, Wake, Cancel, Tick, Restart

\* Only a success is written, and to the key's own file renamed.
LEMMA StepRecords ==
  ASSUME IdempotencyAssumption, AnswerInv, [Next]_vars, NEW k \in Keys
  PROVE  RecordOf(k)'
<1> USE DEF AnswerInv, TypeOK, AnswersMatch, RecordOf, requestVars, followerVars,
            diskVars
<1>1. /\ UNCHANGED key
      /\ \A r \in Requests : outcome[r] = "ok" => outcome'[r] = "ok"
  <2>1. UNCHANGED key
    BY DEF Next, Serve, BeginStep, Leader, Follower, vars, Arrive, BeginConflict,
           BeginFollower, BeginCached, BeginLeader, Complete, Abort, NotifyWaiters,
           Remove, WriteTmp, Rename, Trim, Scan, Delete, Subscribe, Check, Await, Wake,
           Cancel, Tick, Restart
  <2> QED
    BY <2>1, OutcomeIsFinal
<1>2. CASE disk'[k] \in {disk[k], NoRequest}
  BY <1>1, <1>2
<1>3. ASSUME NEW r \in Requests, Rename(r) PROVE RecordOf(k)'
  <2>1. CASE disk' = [disk EXCEPT ![key[r]] = r]
    BY <1>1, <1>3, <2>1 DEF Rename, Outcomes, Succeeded
  <2>2. CASE disk' = disk
    BY <1>2, <2>2
  <2> QED
    BY <1>3, <2>1, <2>2 DEF Rename
<1>4. ASSUME NEW r \in Requests, Delete(r) PROVE RecordOf(k)'
  BY <1>2, <1>4 DEF Delete
<1>5. CASE Restart
  BY <1>2, <1>5 DEF Restart
<1>6. CASE UNCHANGED disk
  BY <1>2, <1>6
<1> QED
  BY <1>3, <1>4, <1>5, <1>6
     DEF Next, Serve, BeginStep, Leader, Follower, vars, Arrive, BeginConflict,
         BeginFollower, BeginCached, BeginLeader, Complete, Abort, NotifyWaiters,
         Remove, WriteTmp, Trim, Scan, Subscribe, Check, Await, Wake, Cancel, Tick

LEMMA StepLeftOver ==
  ASSUME IdempotencyAssumption, AnswerInv, [Next]_vars, NEW r \in tmp'
  PROVE  outcome'[r] = "ok"
<1> USE DEF AnswerInv, TypeOK, AnswersMatch, requestVars, followerVars, diskVars
<1>1. CASE r \in tmp
  BY <1>1, OutcomeIsFinal
<1>2. CASE tmp' \subseteq tmp
  BY <1>1, <1>2
<1>3. ASSUME NEW s \in Requests, WriteTmp(s) PROVE outcome'[r] = "ok"
  <2>1. outcome[s] = "ok" /\ outcome' = outcome
    BY <1>3 DEF WriteTmp, Outcomes, Succeeded
  <2>2. r \in tmp \/ r = s
    BY <1>3 DEF WriteTmp
  <2> QED
    BY <1>1, <2>1, <2>2
<1> QED
  BY <1>2, <1>3
     DEF Next, Serve, BeginStep, Leader, Follower, vars, Arrive, BeginConflict,
         BeginFollower, BeginCached, BeginLeader, Complete, Abort, NotifyWaiters,
         Remove, Rename, Trim, Scan, Delete, Subscribe, Check, Await, Wake, Cancel,
         Tick, Restart

LEMMA StepAnswerInv ==
  ASSUME IdempotencyAssumption, AnswerInv, [Next]_vars
  PROVE  AnswerInv'
<1>1. TypeOK'
  BY StepTypeOK DEF AnswerInv
<1>2. Outcomes' /\ EntriesOwnKey' /\ FollowsItsOwn'
  BY StepOutcomes, StepEntriesOwnKey, StepFollowsItsOwn
<1>3. \A s \in Requests : AnswersOf(s)'
  BY StepAnswers
<1>4. \A k \in Keys : RecordOf(k)'
  BY StepRecords
<1>5. \A r \in tmp' : outcome'[r] = "ok"
  BY StepLeftOver
<1>6. AnswersMatch'
  BY <1>3, <1>4, <1>5 DEF AnswersMatch, AnswersOf, RecordOf
<1> QED
  BY <1>1, <1>2, <1>6 DEF AnswerInv

\* Replay is faithful, for every value of the constants: whatever is replayed, from
\* the entry, the map, or after a restart from a record or a temporary file that was
\* never renamed, answers a request of the same key and fingerprint (begin,
\* Follower::wait, load_records), and only successes are on disk (finish).
THEOREM AnswersMatchAlways == IdempotencyAssumption => (Spec => []AnswersMatch)
<1> SUFFICES ASSUME IdempotencyAssumption PROVE Spec => []AnswersMatch
  OBVIOUS
<1>1. Init => AnswerInv
  BY InitAnswers
<1>2. AnswerInv /\ [Next]_vars => AnswerInv'
  BY StepAnswerInv
<1>3. AnswerInv => AnswersMatch
  BY DEF AnswerInv
<1> QED
  BY <1>1, <1>2, <1>3, PTL DEF Spec
-----------------------------------------------------------------------------
(* The bound of the map.                                                   *)

Held == {k \in Keys : entries[k] # NoRequest}
Busy == (Leading \ {"scan", "delete"}) \cup {"gone"}

\* Entries whose leader has come past its own trim: only these must fit.
Settled == {k \in Held : pc[entries[k]] \notin Busy}

\* What a trim may not remove is in the hands of a leader that is not past its trim.
InFlightIsBusy ==
  \A k \in Held : state[entries[k]] # "completed" =>
    pc[entries[k]] \in {"lead", "notify", "remove"}

WrittenIsCompleted ==
  \A r \in Requests :
    pc[r] \in {"write", "rename", "trim"} \/ (pc[r] = "notify" /\ outcome[r] # "none")
      => state[r] = "completed"

TrimInv == AnswerInv /\ InFlightIsBusy /\ WrittenIsCompleted
MemoryInv == TrimInv /\ Cardinality(Settled) <= MaxEntries

Finitely == IdempotencyAssumption /\ IsFiniteSet(Keys) /\ IsFiniteSet(Requests)

\* The keys a sorted list leaves over are counted.
LEMMA FirstToExpireCounts ==
  ASSUME NEW S, IsFiniteSet(S), NEW n \in Nat, NEW holder,
         NEW T \in FirstToExpire(S, n, holder)
  PROVE  /\ T \subseteq S /\ IsFiniteSet(T)
         /\ Cardinality(T) = n \/ (Cardinality(T) < n /\ T = S)
         /\ n <= Cardinality(S) => Cardinality(T) = n
<1>1. T \subseteq S /\ Cardinality(T) = IF n < Cardinality(S) THEN n ELSE Cardinality(S)
  BY DEF FirstToExpire
<1>2. IsFiniteSet(T) /\ (Cardinality(S) = Cardinality(T) => S = T)
  BY <1>1, FS_Subset
<1>3. Cardinality(S) \in Nat /\ Cardinality(T) \in Nat
  BY <1>2, FS_CardinalityType
<1> QED
  BY <1>1, <1>2, <1>3

\* Taking a part away from a finite set.
LEMMA CardinalityLeft ==
  ASSUME NEW S, IsFiniteSet(S), NEW T \in SUBSET S
  PROVE  /\ IsFiniteSet(S \ T) /\ Cardinality(S \ T) = Cardinality(S) - Cardinality(T)
         /\ Cardinality(S) \in Nat /\ Cardinality(T) \in Nat
<1>1. S \cap T = T /\ IsFiniteSet(T)
  BY FS_Subset
<1> QED
  BY <1>1, FS_Difference, FS_CardinalityType

\* A finite set within one that fits, fits.
LEMMA Fits ==
  ASSUME Finitely, NEW S, IsFiniteSet(S), Cardinality(S) <= MaxEntries, NEW T \in SUBSET S
  PROVE  Cardinality(T) <= MaxEntries
<1>1. IsFiniteSet(T) /\ Cardinality(T) <= Cardinality(S)
  BY FS_Subset
<1>2. Cardinality(S) \in Nat /\ Cardinality(T) \in Nat
  BY <1>1, FS_CardinalityType
<1> QED
  BY <1>1, <1>2 DEF Finitely, IdempotencyAssumption

\* What an entry and a handler may do without an entry more to be settled.
LEMMA SettledFrame ==
  ASSUME Finitely, MemoryInv, NEW r \in Requests,
         \A k \in Keys : entries'[k] # NoRequest =>
           entries'[k] = entries[k] \/ pc'[entries'[k]] \in Busy,
         \A s \in Requests : s # r => pc'[s] = pc[s],
         pc[r] \in Busy => pc'[r] \in Busy \/ \A k \in Keys : entries'[k] # r
  PROVE  Cardinality(Settled') <= MaxEntries
<1>1. \A k \in Keys : entries[k] # NoRequest => entries[k] \in Requests
  BY DEF MemoryInv, TrimInv, AnswerInv, TypeOK
<1>2. Settled' \subseteq Settled
  BY <1>1 DEF Settled, Held
<1>3. IsFiniteSet(Settled)
  BY FS_Subset DEF Finitely, Settled, Held
<1> QED
  BY <1>2, <1>3, Fits DEF MemoryInv

LEMMA StepTrimInv ==
  ASSUME Finitely, TrimInv, AnswerInv', [Next]_vars
  PROVE  TrimInv'
<1> USE DEF TrimInv, AnswerInv, TypeOK, InFlightIsBusy, WrittenIsCompleted, Held,
            EntriesOwnKey, Outcomes, Unanswered, requestVars, followerVars, diskVars
<1>1. CASE UNCHANGED vars
  BY <1>1 DEF vars
<1>2. ASSUME NEW r \in Requests,
             \/ Arrive(r) \/ BeginConflict(r) \/ BeginFollower(r) \/ BeginCached(r)
             \/ Subscribe(r) \/ Await(r) \/ Wake(r)
      PROVE  TrimInv'
  BY <1>2 DEF Arrive, BeginConflict, BeginFollower, BeginCached, Subscribe, Await, Wake
<1>3. ASSUME NEW r \in Requests, Check(r) PROVE TrimInv'
  BY <1>3 DEF Check
<1>4. ASSUME NEW r \in Requests, Cancel(r) PROVE TrimInv'
  BY <1>4 DEF Cancel
<1>5. ASSUME NEW r \in Requests, BeginLeader(r) PROVE TrimInv'
  <2>1. /\ pc' = [pc EXCEPT ![r] = "lead"] /\ entries' = [entries EXCEPT ![key[r]] = r]
        /\ state' = [state EXCEPT ![r] = "in-flight"] /\ UNCHANGED <<key, outcome>>
    BY <1>5 DEF BeginLeader
  <2> QED
    BY <2>1
<1>6. ASSUME NEW r \in Requests, Complete(r) \/ Abort(r) PROVE TrimInv'
  BY <1>6 DEF Complete, Abort
<1>7. ASSUME NEW r \in Requests, NotifyWaiters(r) PROVE TrimInv'
  BY <1>7 DEF NotifyWaiters
<1>8. ASSUME NEW r \in Requests, Remove(r) PROVE TrimInv'
  BY <1>8 DEF Remove, RemoveIfSame
<1>9. ASSUME NEW r \in Requests, WriteTmp(r) \/ Rename(r) PROVE TrimInv'
  BY <1>9 DEF WriteTmp, Rename
<1>10. ASSUME NEW r \in Requests, Trim(r) PROVE TrimInv'
  <2>1. \A k \in Keys : entries'[k] # NoRequest => entries'[k] = entries[k]
    BY <1>10 DEF Trim
  <2>2. /\ UNCHANGED <<key, state, outcome>> /\ pc[r] = "trim"
        /\ pc'[r] \in {"scan", "created"} /\ \A s \in Requests : s # r => pc'[s] = pc[s]
    BY <1>10 DEF Trim
  <2> QED
    BY <2>1, <2>2
<1>11. ASSUME NEW r \in Requests, Scan(r) \/ Delete(r) PROVE TrimInv'
  BY <1>11 DEF Scan, Delete
<1>12. CASE Tick
  BY <1>12 DEF Tick
<1>13. CASE Restart
  <2>1. \A s \in Requests : pc'[s] \notin {"write", "rename", "trim", "notify"}
    BY <1>13 DEF Restart, Leading
  <2>2. \A k \in Keys : entries'[k] # NoRequest => state'[entries'[k]] = "completed"
    BY <1>13, RestartLoads DEF Finitely
  <2> QED
    BY <2>1, <2>2
<1> QED
  BY <1>1, <1>2, <1>3, <1>4, <1>5, <1>6, <1>7, <1>8, <1>9, <1>10, <1>11, <1>12,
     <1>13 DEF Next, Serve, BeginStep, Leader, Follower

\* trim_memory_entries either takes the map to its bound, or takes every entry that is
\* complete, and then no settled one is left.
LEMMA TrimSettles ==
  ASSUME Finitely, MemoryInv, NEW r \in Requests, Trim(r)
  PROVE  Cardinality(Settled') <= MaxEntries
<1> USE DEF MemoryInv, TrimInv, AnswerInv, TypeOK
<1> DEFINE held == Cardinality(Held)
           surplus == SurplusInMemory(held)
<1>1. PICK gone \in FirstToExpire(Trimmable, surplus, entries) :
        entries' = [k \in Keys |-> IF k \in gone THEN NoRequest ELSE entries[k]]
  BY DEF Trim, Held
<1>2. IsFiniteSet(Held) /\ held \in Nat
  BY FS_Subset, FS_CardinalityType DEF Finitely, Held
<1>3. Trimmable \subseteq Held /\ IsFiniteSet(Trimmable)
  BY FS_Subset DEF Finitely, Trimmable, Held
<1>4. surplus \in Nat /\ held - surplus <= MaxEntries
  BY <1>2 DEF SurplusInMemory, Surplus, Finitely, IdempotencyAssumption
<1> HIDE DEF held, surplus
<1>5. /\ gone \subseteq Trimmable
      /\ Cardinality(gone) = surplus \/ gone = Trimmable
  BY <1>1, <1>3, <1>4, FirstToExpireCounts
<1>6. Held' = Held \ gone
  BY <1>1, <1>3, <1>5 DEF Held
<1>7. CASE Cardinality(gone) = surplus
  <2>1. IsFiniteSet(Held') /\ Cardinality(Held') = held - surplus
    BY <1>2, <1>3, <1>5, <1>6, <1>7, CardinalityLeft DEF held
  <2> QED
    BY <1>4, <2>1, Fits DEF Settled
<1>8. CASE gone = Trimmable
  <2>1. ASSUME NEW k \in Held'
        PROVE  pc'[entries'[k]] \in Busy
    <3>1. k \in Held /\ entries'[k] = entries[k] /\ state[entries[k]] # "completed"
      BY <1>1, <1>6, <1>8, <2>1 DEF Held, Trimmable
    <3>2. entries[k] \in Requests /\ pc[entries[k]] \in {"lead", "notify", "remove"}
      BY <3>1 DEF InFlightIsBusy, Held
    <3>3. pc[r] = "trim" /\ \A s \in Requests : s # r => pc'[s] = pc[s]
      BY DEF Trim
    <3> QED
      BY <3>1, <3>2, <3>3 DEF Busy, Leading
  <2>2. Settled' = {}
    BY <2>1 DEF Settled
  <2> QED
    BY <2>2, FS_EmptySet DEF Finitely, IdempotencyAssumption
<1> QED
  BY <1>5, <1>7, <1>8

\* IdempotencyStore::new loads no more records than fit, and an entry each: a record is
\* loaded under one key only.
LEMMA RestartSettles ==
  ASSUME Finitely, MemoryInv, Restart
  PROVE  Cardinality(Settled') <= MaxEntries
<1> DEFINE surplus == Surplus(Cardinality(Loadable))
           taken(left) == Loadable \ left
<1>1. PICK left \in FirstToExpire(Loadable, surplus, [e \in Requests |-> e]) :
        entries' \in Loaded(taken(left))
  BY DEF Restart
<1>2. /\ Loadable \subseteq Requests
      /\ \A k \in Keys : entries'[k] # NoRequest => key[entries'[k]] = k
  BY RestartLoads DEF Finitely, MemoryInv, TrimInv, AnswerInv
<1>3. IsFiniteSet(Loadable) /\ Cardinality(Loadable) \in Nat
  BY <1>2, FS_Subset, FS_CardinalityType DEF Finitely
<1>4. /\ surplus \in Nat /\ surplus <= Cardinality(Loadable)
      /\ Cardinality(Loadable) - surplus <= MaxEntries
  BY <1>3 DEF Surplus, Finitely, IdempotencyAssumption
<1> HIDE DEF surplus
<1>5. left \subseteq Loadable /\ Cardinality(left) = surplus
  BY <1>1, <1>3, <1>4, FirstToExpireCounts
<1>6. IsFiniteSet(taken(left)) /\ Cardinality(taken(left)) <= MaxEntries
  BY <1>3, <1>4, <1>5, CardinalityLeft
<1>7. entries' \in [Keys -> taken(left) \cup {NoRequest}]
  BY <1>1 DEF Loaded
<1> HIDE DEF taken
<1> DEFINE f == [k \in Held' |-> entries'[k]]
<1>8. f \in Injection(Held', taken(left))
  BY <1>2, <1>7 DEF Held, Injection, IsInjective
<1>9. IsFiniteSet(Held') /\ Cardinality(Held') <= Cardinality(taken(left))
  <2>1. IsFiniteSet(Held')
    BY FS_Subset DEF Finitely, Held
  <2> QED
    BY <1>6, <1>8, <2>1, FS_Injection
<1>10. Cardinality(Held') <= MaxEntries
  BY <1>6, <1>9, FS_CardinalityType DEF Finitely, IdempotencyAssumption
<1> QED
  BY <1>9, <1>10, Fits DEF Settled

LEMMA StepSettled ==
  ASSUME Finitely, MemoryInv, [Next]_vars
  PROVE  Cardinality(Settled') <= MaxEntries
<1> USE DEF MemoryInv, TrimInv, AnswerInv, TypeOK, requestVars, followerVars, diskVars
<1>1. ASSUME NEW r \in Requests,
             \/ Arrive(r) \/ BeginConflict(r) \/ BeginFollower(r) \/ BeginCached(r)
             \/ Subscribe(r) \/ Check(r) \/ Await(r) \/ Wake(r)
      PROVE  Cardinality(Settled') <= MaxEntries
  <2>1. /\ entries' = entries /\ pc[r] \notin Busy
        /\ \A s \in Requests : s # r => pc'[s] = pc[s]
    BY <1>1 DEF Arrive, BeginConflict, BeginFollower, BeginCached, Subscribe, Check,
                Await, Wake, Busy, Leading
  <2> QED
    BY <2>1, SettledFrame
<1>2. ASSUME NEW r \in Requests,
             Complete(r) \/ Abort(r) \/ NotifyWaiters(r) \/ WriteTmp(r) \/ Rename(r)
      PROVE  Cardinality(Settled') <= MaxEntries
  <2>1. /\ entries' = entries /\ pc'[r] \in Busy
        /\ \A s \in Requests : s # r => pc'[s] = pc[s]
    BY <1>2 DEF Complete, Abort, NotifyWaiters, WriteTmp, Rename, Busy, Leading
  <2> QED
    BY <2>1, SettledFrame
<1>3. ASSUME NEW r \in Requests, Cancel(r)
      PROVE  Cardinality(Settled') <= MaxEntries
  <2>1. /\ entries' = entries /\ pc'[r] \in Busy
        /\ \A s \in Requests : s # r => pc'[s] = pc[s]
    BY <1>3 DEF Cancel, Busy
  <2> QED
    BY <2>1, SettledFrame
<1>4. ASSUME NEW r \in Requests, BeginLeader(r)
      PROVE  Cardinality(Settled') <= MaxEntries
  <2>1. /\ entries' = [entries EXCEPT ![key[r]] = r] /\ pc'[r] \in Busy
        /\ \A s \in Requests : s # r => pc'[s] = pc[s]
    BY <1>4 DEF BeginLeader, Busy, Leading
  <2> QED
    BY <2>1, SettledFrame
<1>5. ASSUME NEW r \in Requests, Remove(r)
      PROVE  Cardinality(Settled') <= MaxEntries
  <2>1. \A s \in Requests : s # r => pc'[s] = pc[s]
    BY <1>5 DEF Remove
  <2>2. \A k \in Keys : entries'[k] # NoRequest => entries'[k] = entries[k] /\ entries'[k] # r
    BY <1>5 DEF Remove, RemoveIfSame, EntriesOwnKey
  <2>3. \A k \in Keys : entries'[k] # r
    BY <2>2 DEF Finitely, IdempotencyAssumption
  <2> QED
    BY <2>1, <2>2, <2>3, SettledFrame
<1>6. ASSUME NEW r \in Requests, Trim(r)
      PROVE  Cardinality(Settled') <= MaxEntries
  BY <1>6, TrimSettles
<1>7. ASSUME NEW r \in Requests, Scan(r) \/ Delete(r)
      PROVE  Cardinality(Settled') <= MaxEntries
  <2>1. /\ entries' = entries /\ pc[r] \notin Busy
        /\ \A s \in Requests : s # r => pc'[s] = pc[s]
    BY <1>7 DEF Scan, Delete, Busy
  <2> QED
    BY <2>1, SettledFrame
<1>8. CASE Tick \/ UNCHANGED vars
  BY <1>8 DEF Tick, vars, Settled, Held
<1>9. CASE Restart
  BY <1>9, RestartSettles
<1> QED
  BY <1>1, <1>2, <1>3, <1>4, <1>5, <1>6, <1>7, <1>8, <1>9
     DEF Next, Serve, BeginStep, Leader, Follower

\* An entry in the map is settled, or one of its own for a busy leader: leaders have
\* one key each.
LEMMA SettledBoundsMemory ==
  ASSUME Finitely, MemoryInv
  PROVE  MemoryBounded
<1> DEFINE Led == {k \in Held : pc[entries[k]] \in Busy}
           Leaders == {r \in Requests : pc[r] \in Busy}
           f == [k \in Led |-> entries[k]]
<1>1. IsFiniteSet(Settled) /\ IsFiniteSet(Led) /\ IsFiniteSet(Leaders)
  BY FS_Subset DEF Finitely, Settled, Held
<1>2. f \in Injection(Led, Leaders)
  BY DEF MemoryInv, TrimInv, AnswerInv, TypeOK, EntriesOwnKey, Held, Injection, IsInjective
<1>3. Cardinality(Led) <= Cardinality(Leaders)
  BY <1>1, <1>2, FS_Injection
<1>4. Held = Settled \cup Led /\ Settled \cap Led = {}
  BY DEF Settled
<1>5. /\ Cardinality(Settled) \in Nat /\ Cardinality(Led) \in Nat
      /\ Cardinality(Leaders) \in Nat
  BY <1>1, FS_CardinalityType
<1> HIDE DEF Led, Leaders
<1>6. Cardinality(Held) = Cardinality(Settled) + Cardinality(Led)
  <2>1. Cardinality(Settled \cup Led)
          = Cardinality(Settled) + Cardinality(Led) - Cardinality(Settled \cap Led)
    BY <1>1, FS_Union
  <2>2. Cardinality(Settled \cap Led) = 0
    BY <1>4, FS_EmptySet
  <2>3. Cardinality(Held) = Cardinality(Settled \cup Led)
    BY <1>4
  <2> QED
    BY <1>5, <2>1, <2>2, <2>3
<1>7. Cardinality(Held) <= MaxEntries + Cardinality(Leaders)
  BY <1>3, <1>5, <1>6 DEF MemoryInv, Finitely, IdempotencyAssumption
<1> QED
  BY <1>7 DEF MemoryBounded, Held, Leaders, Busy

\* The map is bounded, for every number of requests and keys (finite at any time) and
\* every MAX_CACHE_ENTRIES: but for leaders on their way, it never holds more.
THEOREM MemoryAlwaysBounded == Finitely => (Spec => []MemoryBounded)
<1> SUFFICES ASSUME Finitely PROVE Spec => []MemoryBounded
  OBVIOUS
<1>1. IdempotencyAssumption
  BY DEF Finitely
<1>2. Init => MemoryInv
  <2> SUFFICES ASSUME Init PROVE MemoryInv
    OBVIOUS
  <2>1. Settled = {} /\ Held = {}
    BY DEF Init, Settled, Held
  <2>2. AnswerInv
    BY <1>1, InitAnswers
  <2>3. InFlightIsBusy /\ WrittenIsCompleted
    BY <2>1 DEF InFlightIsBusy, Init, WrittenIsCompleted
  <2> QED
    BY <1>1, <2>1, <2>2, <2>3, FS_EmptySet DEF MemoryInv, TrimInv, IdempotencyAssumption
<1>3. MemoryInv /\ [Next]_vars => MemoryInv'
  <2> SUFFICES ASSUME MemoryInv, [Next]_vars PROVE MemoryInv'
    OBVIOUS
  <2>1. AnswerInv'
    BY <1>1, StepAnswerInv DEF MemoryInv, TrimInv
  <2>2. TrimInv'
    BY <2>1, StepTrimInv DEF MemoryInv
  <2> QED
    BY <2>2, StepSettled DEF MemoryInv
<1>4. MemoryInv => MemoryBounded
  BY SettledBoundsMemory
<1> QED
  BY <1>2, <1>3, <1>4, PTL DEF Spec
=============================================================================
