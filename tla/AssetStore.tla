----------------------------- MODULE AssetStore -----------------------------
(***************************************************************************)
(* The locked model assets: AssetLock of stt-core (checksum.rs), as the    *)
(* commands of stt-cli and the start of stt-http (runtime.rs) use it.      *)
(*                                                                         *)
(* Several processes share the files: commands that download, a service    *)
(* that validates and loads.  An action reads, hashes or renames one file; *)
(* whether the files of a model exist is looked up in one.                 *)
(* A file holds what the lock demands (good), anything else (bad), or is   *)
(* missing.                                                                *)
(***************************************************************************)
EXTENDS Naturals, Sequences

CONSTANTS
  Lock,        \* the entries of the asset lock, in their order
  Archived,    \* those with an archive_url, all of one archive, each a member of
               \* its own (two of one member would be one download in the code)
  Unsourced,   \* those without any source: they ship with the release
  Warmed,      \* files of the models in warm_start_models, as they are validated
  Clis,        \* processes of stt-cli
  Service,     \* the process of stt-http
  MaxMishaps   \* bound: files damaged, processes killed, calls refused

Assets == {Lock[i] : i \in DOMAIN Lock}
Needed == {Warmed[i] : i \in DOMAIN Warmed}
Procs == Clis \cup {Service}

ASSUME StoreAssumption ==
  /\ Lock \in Seq(Assets)
  /\ Archived \subseteq Assets /\ Unsourced \subseteq Assets
  /\ Archived \cap Unsourced = {}
  /\ Warmed \in Seq(Assets)
  /\ Service \notin Clis
  /\ MaxMishaps \in Nat

VARIABLES
  disk,     \* what each file holds
  command,  \* what a process was started for
  stage,    \* where a process is; idle, or how it ended
  todo,     \* entries its loop has still to visit
  report,   \* its verification report
  wanted,   \* what it will take from the archive
  item,     \* the entry it fetches
  temp,     \* download.tmp of each temporary directory
  misread,  \* bad files a recogniser was constructed from
  struck,   \* history: files damaged since the process started
  mishaps   \* history: how many mishaps there were

processVars == <<command, stage, todo, report, wanted, item>>
storeVars == <<disk, processVars, temp, misread, struck, mishaps>>

Contents == {"missing", "good", "bad"}
Ended == {"idle", "done", "failed", "killed"}
Running(p) == stage[p] \notin Ended

StoreInit ==
  /\ disk \in [Assets -> Contents]
  /\ command = [p \in Procs |-> "none"]
  /\ stage = [p \in Procs |-> "idle"]
  /\ todo = [p \in Procs |-> <<>>]
  /\ report = [p \in Procs |-> [a \in Assets |-> "missing"]]
  /\ wanted = [p \in Procs |-> {}]
  /\ item \in [Procs -> Assets]
  /\ temp = [p \in Procs |-> "none"]
  /\ misread = {}
  /\ struck = [p \in Procs |-> {}]
  /\ mishaps \in 0..MaxMishaps

Goto(p, where) == stage' = [stage EXCEPT ![p] = where]
Moves(p, from, to) == stage[p] = from /\ Goto(p, to)
Visit(p, entries) == todo' = [todo EXCEPT ![p] = entries]
Entry(p) == Head(todo[p])
-----------------------------------------------------------------------------
(* SttRuntime::load, with which every command that needs a runtime begins. *)

Begin(p, c, where) ==
  /\ ~Running(p)
  /\ command' = [command EXCEPT ![p] = c]
  /\ Goto(p, where) /\ Visit(p, Lock)
  /\ struck' = [struck EXCEPT ![p] = {}]
  /\ UNCHANGED <<disk, report, wanted, item, temp, misread, mishaps>>

\* A present file must be what the lock says; a missing one is passed over.
Validate(p) ==
  /\ stage[p] = "load" /\ todo[p] # <<>>
  /\ \/ /\ disk[Entry(p)] # "bad"
        /\ Visit(p, Tail(todo[p]))
        /\ UNCHANGED stage
     \/ /\ disk[Entry(p)] = "bad"
        /\ Goto(p, "failed")
        /\ UNCHANGED todo
  /\ UNCHANGED <<disk, command, report, wanted, item, temp, misread, struck,
                 mishaps>>

Loaded(p) ==
  /\ todo[p] = <<>> /\ Moves(p, "load", "ready")
  /\ UNCHANGED <<disk, command, todo, report, wanted, item, temp, misread,
                 struck, mishaps>>

\* verify_all.
VerifyAll(p) ==
  /\ command[p] \in {"download", "force", "verify"}
  /\ Moves(p, "ready", "verify") /\ Visit(p, Lock)
  /\ UNCHANGED <<disk, command, report, wanted, item, temp, misread, struck,
                 mishaps>>

VerifyEntry(p) ==
  /\ stage[p] = "verify" /\ todo[p] # <<>>
  /\ report' = [report EXCEPT ![p][Entry(p)] = disk[Entry(p)]]
  /\ Visit(p, Tail(todo[p]))
  /\ UNCHANGED <<disk, command, stage, wanted, item, temp, misread, struck,
                 mishaps>>

\* VerifyAssets and Doctor print the report.
Verified(p) ==
  /\ todo[p] = <<>>
  /\ \/ /\ command[p] = "verify" /\ Moves(p, "verify", "done")
        /\ UNCHANGED todo
     \/ /\ command[p] \in {"download", "force"} /\ Moves(p, "verify", "fetch")
        /\ Visit(p, Lock)
  /\ wanted' = [wanted EXCEPT ![p] = {}]
  /\ UNCHANGED <<disk, command, report, item, temp, misread, struck, mishaps>>
-----------------------------------------------------------------------------
(* download_missing_assets.                                                *)

NeedsDownload(p, a) == report[p][a] # "good" \/ command[p] = "force"

\* Seeded defect: what has no source of its own is looked for in the archive.
NoUrl(a) == a \in Archived \cup Unsourced
FromArchive(a) == a \in Archived

\* Valid, left to the archive, or without any source (a warning).
PassOver(p) ==
  /\ stage[p] = "fetch" /\ todo[p] # <<>>
  /\ ~NeedsDownload(p, Entry(p)) \/ Entry(p) \in Archived \cup Unsourced
  /\ wanted' = IF NeedsDownload(p, Entry(p)) /\ FromArchive(Entry(p))
                 THEN [wanted EXCEPT ![p] = @ \cup {Entry(p)}] ELSE wanted
  /\ Visit(p, Tail(todo[p]))
  /\ UNCHANGED <<disk, command, stage, report, item, temp, misread, struck,
                 mishaps>>

\* Seeded defect: one temporary file beside the asset, whoever downloads.
Shared(p) == CHOOSE q \in Clis : TRUE
\* Each download has a temporary directory of its own.
TempOf(p) == p

\* Any error ends the command; its temporary directory is removed.
GivesUp(p) ==
  /\ stage[p] \in {"fetch", "receive", "check", "move", "archive", "extract"}
  /\ Goto(p, "failed")
  /\ temp' = [temp EXCEPT ![TempOf(p)] = "none"]
  /\ UNCHANGED <<disk, command, todo, report, wanted, item, misread, struck,
                 mishaps>>

\* The response is a success: the body goes to a temporary file.
Fetch(p) ==
  /\ todo[p] # <<>>
  /\ NeedsDownload(p, Entry(p)) /\ Entry(p) \notin Archived \cup Unsourced
  /\ Moves(p, "fetch", "receive")
  /\ item' = [item EXCEPT ![p] = Entry(p)]
  /\ temp' = [temp EXCEPT ![TempOf(p)] = "bad"]
  /\ Visit(p, Tail(todo[p]))
  /\ UNCHANGED <<disk, command, report, wanted, misread, struck, mishaps>>

\* The body is complete, whatever it is.
Received(p) ==
  /\ Moves(p, "receive", "check")
  /\ \E content \in {"good", "bad"} :
       temp' = [temp EXCEPT ![TempOf(p)] = content]
  /\ UNCHANGED <<disk, command, todo, report, wanted, item, misread, struck,
                 mishaps>>

\* Seeded defect: what was fetched is not hashed.
Unchecked(p) == TRUE
HashMatches(p) == temp[TempOf(p)] = "good"

Check(p) ==
  /\ HashMatches(p) /\ Moves(p, "check", "move")
  /\ UNCHANGED <<disk, command, todo, report, wanted, item, temp, misread,
                 struck, mishaps>>

\* rename to the destination; then the next entry, or the next member.
Move(p) ==
  /\ temp[TempOf(p)] # "none"
  /\ Moves(p, "move", IF item[p] \in Archived THEN "extract" ELSE "fetch")
  /\ disk' = [disk EXCEPT ![item[p]] = temp[TempOf(p)]]
  /\ temp' = [temp EXCEPT ![TempOf(p)] = "none"]
  /\ UNCHANGED <<command, todo, report, wanted, item, misread, struck, mishaps>>

\* All entries were visited: done, or on to the archive.
Fetched(p) ==
  /\ todo[p] = <<>>
  /\ Moves(p, "fetch", IF wanted[p] = {} THEN "done" ELSE "archive")
  /\ UNCHANGED <<disk, command, todo, report, wanted, item, temp, misread,
                 struck, mishaps>>

GetArchive(p) ==
  /\ Moves(p, "archive", "extract")
  /\ UNCHANGED <<disk, command, todo, report, wanted, item, temp, misread,
                 struck, mishaps>>

\* The next member that is wanted, as the archive has it.
Extract(p) ==
  /\ Moves(p, "extract", "check")
  /\ \E a \in wanted[p], content \in {"good", "bad"} :
       /\ item' = [item EXCEPT ![p] = a]
       /\ wanted' = [wanted EXCEPT ![p] = @ \ {a}]
       /\ temp' = [temp EXCEPT ![TempOf(p)] = content]
  /\ UNCHANGED <<disk, command, todo, report, misread, struck, mishaps>>

\* Seeded defect: members the archive does not have are not noticed.
WhateverIsLeft(p) == TRUE
NothingLeft(p) == wanted[p] = {}

ArchiveEnds(p) ==
  /\ Moves(p, "extract", IF NothingLeft(p) THEN "done" ELSE "failed")
  /\ UNCHANGED <<disk, command, todo, report, wanted, item, temp, misread,
                 struck, mishaps>>

Download(p) ==
  \/ PassOver(p) \/ Fetch(p) \/ Received(p) \/ Check(p) \/ Move(p)
  \/ Fetched(p) \/ GetArchive(p) \/ Extract(p) \/ ArchiveEnds(p)
  \/ GivesUp(p)
-----------------------------------------------------------------------------
(* The service warms its models: resolve_model requires the files of one,  *)
(* and hashes each again; then its recogniser is constructed from them.    *)

ResolveModels ==
  /\ Moves(Service, "ready",
           IF \A a \in Needed : disk[a] # "missing" THEN "resolve" ELSE "failed")
  /\ Visit(Service, Warmed)
  /\ UNCHANGED <<disk, command, report, wanted, item, temp, misread, struck,
                 mishaps>>

ResolveEntry ==
  /\ stage[Service] = "resolve" /\ todo[Service] # <<>>
  /\ \/ /\ disk[Entry(Service)] = "good"
        /\ Visit(Service, Tail(todo[Service]))
        /\ UNCHANGED stage
     \/ /\ disk[Entry(Service)] # "good"
        /\ Goto(Service, "failed")
        /\ UNCHANGED todo
  /\ UNCHANGED <<disk, command, report, wanted, item, temp, misread, struck,
                 mishaps>>

Resolved ==
  /\ todo[Service] = <<>> /\ Moves(Service, "resolve", "construct")
  /\ UNCHANGED <<disk, command, todo, report, wanted, item, temp, misread,
                 struck, mishaps>>

\* A damaged file may or may not keep the recogniser from being created.
Construct ==
  /\ \A a \in Needed : disk[a] # "missing"
  /\ Moves(Service, "construct", "serving")
  /\ misread' = {a \in Needed : disk[a] = "bad"}
  /\ UNCHANGED <<disk, command, todo, report, wanted, item, temp, struck,
                 mishaps>>

\* It cannot be created, takes longer than warm_start_timeout_seconds, or the
\* port is taken: the process ends.
ConstructFails ==
  /\ Moves(Service, "construct", "failed")
  /\ UNCHANGED <<disk, command, todo, report, wanted, item, temp, misread,
                 struck, mishaps>>
-----------------------------------------------------------------------------
(* What happens to the files, and to a process.                            *)

Mishap == mishaps < MaxMishaps /\ mishaps' = mishaps + 1

Damage(a) ==
  /\ Mishap
  /\ \E content \in {"missing", "bad"} \ {disk[a]} :
       disk' = [disk EXCEPT ![a] = content]
  /\ struck' = [p \in Procs |-> struck[p] \cup {a}]
  /\ UNCHANGED <<processVars, temp, misread>>

LoadRuntime(p) == Validate(p) \/ Loaded(p)
Report(p) == VerifyAll(p) \/ VerifyEntry(p) \/ Verified(p)
Warm == ResolveModels \/ ResolveEntry \/ Resolved \/ ConstructFails
-----------------------------------------------------------------------------
Commands == {"none", "serve", "download", "force", "verify", "setup",
             "config", "install", "uninstall", "start", "stop"}
Stages == Ended \cup {"load", "ready", "verify", "fetch", "receive", "check",
                      "move", "archive", "extract", "resolve", "construct",
                      "serving"}

\* A valid file is never replaced by anything but valid content, however many
\* downloads run at once, fail half-way or are killed: only damage from outside
\* makes it invalid (download_missing_assets, download_archive_entries).
ValidStaysValid ==
  [][\A a \in Assets :
       disk[a] = "good" /\ disk'[a] # "good" => mishaps' > mishaps]_storeVars

\* What the service loaded is what the lock demands, except for a file that
\* was damaged after the service had started: also while a forced download
\* replaces the very files the service has just validated.
ServesLocked ==
  stage[Service] = "serving" => misread \subseteq struck[Service]

\* "All missing assets downloaded successfully!": then every entry that has a
\* source is valid, or was damaged since the command began, although the
\* command decided what to fetch from a report that was old by then.
DownloadDelivers ==
  \A p \in Clis :
    stage[p] = "done" /\ command[p] \in {"download", "force"} =>
      \A a \in Assets \ Unsourced : disk[a] = "good" \/ a \in struck[p]
=============================================================================
