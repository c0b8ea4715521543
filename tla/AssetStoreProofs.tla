-------------------------- MODULE AssetStoreProofs --------------------------
(***************************************************************************)
(* For any lock, any number of commands that run at once and any number of *)
(* mishaps: valid assets stay valid, a service that runs has loaded what   *)
(* the lock demands, and a download that reports success has delivered.    *)
(***************************************************************************)
EXTENDS Deployment, SequenceTheorems, TLAPS

AllStages == Stages \cup SetupStages \cup ServiceStages

\* The part of TypeOK that is about the store, and the commands to come.
StoreTyped ==
  /\ disk \in [Assets -> Contents]
  /\ command \in [Procs -> Commands]
  /\ stage \in [Procs -> AllStages]
  /\ todo \in [Procs -> Seq(Assets)]
  /\ report \in [Procs -> [Assets -> Contents]]
  /\ wanted \in [Procs -> SUBSET Archived]
  /\ item \in [Procs -> Assets]
  /\ temp \in [Procs -> {"none", "good", "bad"}]
  /\ misread \subseteq Needed /\ struck \in [Procs -> SUBSET Assets]
  /\ mishaps \in 0..MaxMishaps
  /\ agenda \in [Clis -> Seq(Commands)]

\* What setup and the service commands do to the store: nothing but to move
\* p from one of their stages, or to end the service.
Aside(p) ==
  /\ UNCHANGED <<disk, command, report, wanted, item, temp, misread, struck>>
  /\ mishaps' \in {mishaps, mishaps + 1} /\ mishaps' <= MaxMishaps
  /\ \/ todo' = todo
     \/ command[p] = "setup" /\ todo' = [todo EXCEPT ![p] = Lock]
  /\ \/ stage' = stage
     \/ stage' = [stage EXCEPT ![Service] = "idle"]
     \/ /\ command[p] = "setup"
        /\ \/ stage[p] = "ready" \/ stage[p] = "verify"
           \/ stage[p] \in SetupStages
        /\ stage' = [stage EXCEPT ![p] = stage'[p]]
        /\ stage'[p] \in SetupStages \cup {"verify", "done", "failed"}
     \/ /\ command[p] \in UnitCommands
        /\ \/ stage[p] = "ready"
           \/ stage[p] \in ServiceStages
        /\ stage' = [stage EXCEPT ![p] = stage'[p]]
        /\ stage'[p] \in {"script", "done", "failed"}

\* Stages that only one family of commands reaches (Wizard, Administer).
Families ==
  \A p \in Clis :
    /\ stage[p] \in SetupStages => command[p] = "setup"
    /\ stage[p] \in ServiceStages => command[p] \in UnitCommands

LEMMA WizardAside ==
  ASSUME StoreAssumption, StoreTyped, Families, NEW p \in Clis, Wizard(p)
  PROVE  Aside(p)
<1> USE StoreAssumption
    DEF Wizard, Aside, StoreAssumption, Moves, Goto, Visit, SetupStages, Families,
        StoreTyped, Procs
<1>1. CASE FindPython(p)
  BY <1>1 DEF FindPython
<1>2. CASE CheckFfmpeg(p)
  BY <1>2 DEF CheckFfmpeg
<1>3. CASE GetFfmpeg(p)
  BY <1>3 DEF GetFfmpeg
<1>4. CASE CopyFfmpeg(p)
  BY <1>4 DEF CopyFfmpeg
<1>5. CASE PrepareVenv(p)
  BY <1>5 DEF PrepareVenv
<1>6. CASE CreateVenv(p)
  BY <1>6 DEF CreateVenv
<1>7. CASE InstallDeps(p)
  BY <1>7 DEF InstallDeps
<1>8. CASE AssetsReported(p)
  BY <1>8 DEF AssetsReported
<1>9. CASE CheckCapu(p)
  BY <1>9 DEF CheckCapu
<1> QED
  BY <1>1, <1>2, <1>3, <1>4, <1>5, <1>6, <1>7, <1>8, <1>9

LEMMA AdministerAside ==
  ASSUME StoreAssumption, StoreTyped, Families, NEW p \in Clis, Administer(p)
  PROVE  Aside(p)
<1> USE StoreAssumption
    DEF Administer, Aside, StoreAssumption, Moves, Goto, Families, StoreTyped,
        Procs, ServiceStages, UnitCommands
<1>1. CASE Config(p)
  <2>1. /\ command[p] = "config" /\ stage[p] \in {"command", "ready"}
        /\ \E where \in {"failed", "script"} : stage' = [stage EXCEPT ![p] = where]
        /\ UNCHANGED <<disk, command, todo, report, wanted, item, temp, misread,
                       struck, mishaps>>
    BY <1>1 DEF Config, Denied, Takes, Acting
  <2> QED
    BY <2>1
<1>2. CASE Install(p)
  BY <1>2 DEF Install, Denied, Takes, Acting
<1>3. CASE Manage(p)
  BY <1>3 DEF Manage, Denied, Takes, Acting
<1>4. CASE Step(p)
  <2>1. stage' = stage \/ stage' = [stage EXCEPT ![Service] = "idle"]
    BY <1>4 DEF Step, FileStep, ManagerStep, Reload, Enable, Disable, StartUnit,
                StopUnit, Bootstrap, Kickstart, EndService
  <2> QED
    BY <1>4, <2>1 DEF Step
<1>5. CASE Refused(p)
  <2>1. \/ stage' = stage
        \/ stage[p] = "script" /\ stage' = [stage EXCEPT ![p] = "failed"]
    BY <1>5 DEF Refused, InScript
  <2>2. mishaps' \in {mishaps, mishaps + 1} /\ mishaps' <= MaxMishaps
    BY <1>5 DEF Refused, Mishap
  <2>3. UNCHANGED <<disk, command, todo, report, wanted, item, temp, misread, struck>>
    BY <1>5 DEF Refused
  <2> QED
    BY <2>1, <2>2, <2>3
<1>6. CASE Finish(p)
  BY <1>6 DEF Finish
<1> QED
  BY <1>1, <1>2, <1>3, <1>4, <1>5, <1>6
-----------------------------------------------------------------------------
(* The store stays well typed.                                             *)

StoreInv == StoreTyped /\ Families

\* What a service command or the wizard does keeps the types and the families.
LEMMA AsideTyped ==
  ASSUME StoreAssumption, StoreInv, NEW p \in Clis, Aside(p), agenda' = agenda
  PROVE  StoreInv'
<1> USE StoreAssumption
    DEF StoreAssumption, StoreInv, StoreTyped, Families, Aside, Procs, AllStages,
        Stages, Ended, SetupStages, ServiceStages, UnitCommands
<1>1. stage' \in [Procs -> AllStages]
  OBVIOUS
<1>2. todo' \in [Procs -> Seq(Assets)]
  OBVIOUS
<1>3. mishaps' \in 0..MaxMishaps
  OBVIOUS
<1>4. Families'
  OBVIOUS
<1> QED
  BY <1>1, <1>2, <1>3, <1>4

\* A process that begins a command may be any.
LEMMA BeginTyped ==
  ASSUME StoreAssumption, StoreInv, NEW p \in Procs, NEW c \in Commands,
         NEW where \in {"load", "command", "failed"}, Begin(p, c, where),
         where = "command" => c \in UnitCommands,
         agenda' \in [Clis -> Seq(Commands)]
  PROVE  StoreInv'
BY DEF StoreAssumption, StoreInv, StoreTyped, Families, Begin, Goto, Visit, Procs,
       AllStages, Stages, Ended, SetupStages, ServiceStages, UnitCommands

LEMMA LoadTyped ==
  ASSUME StoreAssumption, StoreInv, NEW p \in Procs, LoadRuntime(p),
         agenda' = agenda
  PROVE  StoreInv'
<1> USE DEF StoreAssumption, StoreInv, StoreTyped, Families, Moves, Goto, Visit,
            Procs, AllStages, Stages, Ended, SetupStages, ServiceStages
<1>1. CASE Validate(p)
  <2>1. todo' = todo \/ todo' = [todo EXCEPT ![p] = Tail(todo[p])]
    BY <1>1 DEF Validate
  <2>3. todo[p] # <<>> /\ Tail(todo[p]) \in Seq(Assets)
    BY <1>1 DEF Validate
  <2>2. stage' = stage \/ stage' = [stage EXCEPT ![p] = "failed"]
    BY <1>1 DEF Validate
  <2>4. UNCHANGED <<disk, command, report, wanted, item, temp, misread, struck,
                    mishaps>>
    BY <1>1 DEF Validate
  <2>5. todo' \in [Procs -> Seq(Assets)]
    BY <2>1, <2>3
  <2>6. Families' /\ stage' \in [Procs -> AllStages]
    BY <2>2, <2>4
  <2> QED
    BY <2>4, <2>5, <2>6
<1>2. CASE Loaded(p)
  BY <1>2 DEF Loaded
<1> QED
  BY <1>1, <1>2 DEF LoadRuntime

LEMMA ReportTyped ==
  ASSUME StoreAssumption, StoreInv, NEW p \in Clis, Report(p), agenda' = agenda
  PROVE  StoreInv'
<1> USE StoreAssumption
    DEF StoreAssumption, StoreInv, StoreTyped, Families, Moves, Goto, Visit, Procs,
        AllStages, Stages, Ended, SetupStages, ServiceStages
<1>1. CASE VerifyAll(p)
  BY <1>1 DEF VerifyAll
<1>2. CASE VerifyEntry(p)
  <2>1. Entry(p) \in Assets /\ disk[Entry(p)] \in Contents
    BY <1>2 DEF VerifyEntry, Entry
  <2>2. report' \in [Procs -> [Assets -> Contents]]
    BY <1>2, <2>1 DEF VerifyEntry
  <2> QED
    BY <1>2, <2>2 DEF VerifyEntry
<1>3. CASE Verified(p)
  <2>6. todo' = todo \/ todo' = [todo EXCEPT ![p] = Lock]
    BY <1>3 DEF Verified
  <2>1. todo' \in [Procs -> Seq(Assets)]
    BY <2>6
  <2>2. stage' = [stage EXCEPT ![p] = stage'[p]] /\ stage'[p] \in {"done", "fetch"}
    BY <1>3 DEF Verified
  <2>3. UNCHANGED <<disk, command, report, item, temp, misread, struck, mishaps>>
    BY <1>3 DEF Verified
  <2>4. wanted' \in [Procs -> SUBSET Archived]
    BY <1>3 DEF Verified
  <2>5. Families'
    BY <2>2, <2>3
  <2>7. stage' \in [Procs -> AllStages]
    BY <2>2
  <2> QED
    BY <2>1, <2>3, <2>4, <2>5, <2>7
<1> QED
  BY <1>1, <1>2, <1>3 DEF Report

LEMMA DownloadTyped ==
  ASSUME StoreAssumption, StoreInv, NEW p \in Clis, Download(p), agenda' = agenda
  PROVE  StoreInv'
<1> USE StoreAssumption
    DEF StoreAssumption, StoreInv, StoreTyped, Families, Moves, Goto, Visit, Procs,
        AllStages, Stages, Ended, SetupStages, ServiceStages, TempOf, Entry
<1>1. CASE PassOver(p)
  BY <1>1 DEF PassOver, FromArchive
<1>2. CASE Fetch(p)
  BY <1>2 DEF Fetch
<1>3. CASE Received(p)
  BY <1>3 DEF Received
<1>4. CASE Check(p)
  BY <1>4 DEF Check
<1>5. CASE Move(p)
  <2>1. disk' \in [Assets -> Contents]
    BY <1>5 DEF Move, Contents
  <2> QED
    BY <1>5, <2>1 DEF Move
<1>6. CASE Fetched(p)
  BY <1>6 DEF Fetched
<1>7. CASE GetArchive(p)
  BY <1>7 DEF GetArchive
<1>8. CASE Extract(p)
  BY <1>8 DEF Extract
<1>9. CASE ArchiveEnds(p)
  BY <1>9 DEF ArchiveEnds
<1>10. CASE GivesUp(p)
  BY <1>10 DEF GivesUp
<1> QED
  BY <1>1, <1>2, <1>3, <1>4, <1>5, <1>6, <1>7, <1>8, <1>9, <1>10 DEF Download

LEMMA WarmTyped ==
  ASSUME StoreAssumption, StoreInv, Warm \/ Construct, agenda' = agenda
  PROVE  StoreInv'
<1> USE DEF StoreAssumption, StoreInv, StoreTyped, Families, Moves, Goto, Procs,
            AllStages, Stages, Ended, SetupStages, ServiceStages
<1>1. CASE ResolveModels
  <2>1. stage' = [stage EXCEPT ![Service] = stage'[Service]]
          /\ stage'[Service] \in {"resolve", "failed"}
    BY <1>1 DEF ResolveModels
  <2>2. todo' \in [Procs -> Seq(Assets)]
    BY <1>1 DEF ResolveModels, Visit
  <2> QED
    BY <1>1, <2>1, <2>2 DEF ResolveModels
<1>2. CASE ConstructFails
  BY <1>2 DEF ConstructFails
<1>3. CASE Construct
  BY <1>3 DEF Construct
<1>4. CASE ResolveEntry
  <2>1. stage' = stage \/ stage' = [stage EXCEPT ![Service] = "failed"]
    BY <1>4 DEF ResolveEntry
  <2>2. todo[Service] # <<>> /\ Tail(todo[Service]) \in Seq(Assets)
    BY <1>4 DEF ResolveEntry
  <2>3. todo' \in [Procs -> Seq(Assets)]
    BY <1>4, <2>2 DEF ResolveEntry, Visit
  <2> QED
    BY <1>4, <2>1, <2>3 DEF ResolveEntry
<1>5. CASE Resolved
  BY <1>5 DEF Resolved
<1> QED
  BY <1>1, <1>2, <1>3, <1>4, <1>5 DEF Warm

LEMMA MischiefTyped ==
  ASSUME StoreAssumption, StoreInv, Mischief
  PROVE  StoreInv'
<1> USE DEF StoreAssumption, StoreInv, StoreTyped, Families, Procs, AllStages,
            Stages, Ended, SetupStages, ServiceStages, Mishap
<1>1. ASSUME NEW a \in Assets, Damage(a), UNCHANGED agenda PROVE StoreInv'
  <2>1. disk' \in [Assets -> Contents]
    BY <1>1 DEF Damage, Contents
  <2>2. struck' \in [Procs -> SUBSET Assets] /\ mishaps' \in 0..MaxMishaps
    BY <1>1 DEF Damage
  <2> QED
    BY <1>1, <2>1, <2>2 DEF Damage, processVars
<1>2. ASSUME NEW p \in Procs, Killed(p) PROVE StoreInv'
  BY <1>2 DEF Killed, Goto
<1>3. CASE Reboot /\ UNCHANGED agenda
  <2>1. stage' \in [Procs -> AllStages] /\ Families'
    BY <1>3 DEF Reboot
  <2> QED
    BY <1>3, <2>1 DEF Reboot
<1> QED
  BY <1>1, <1>2, <1>3 DEF Mischief

LEMMA StepStoreInv ==
  ASSUME StoreAssumption, StoreInv, [Next]_vars
  PROVE  StoreInv'
<1>1. CASE UNCHANGED vars
  BY <1>1 DEF vars, storeVars, processVars, StoreInv, StoreTyped, Families
<1>2. ASSUME NEW p \in Clis, Issue(p) PROVE StoreInv'
  <2>1. Head(agenda[p]) \in Commands /\ agenda' \in [Clis -> Seq(Commands)]
    BY <1>2 DEF Issue, StoreInv, StoreTyped
  <2>2. PICK c \in Commands, where \in {"load", "command", "failed"} :
          Begin(p, c, where) /\ (where = "command" => c \in UnitCommands)
    BY <1>2, <2>1 DEF Issue, StageOf
  <2> QED
    BY <2>1, <2>2, BeginTyped DEF Procs
<1>3. ASSUME NEW p \in Clis, LoadRuntime(p) \/ Report(p) \/ Download(p),
             UNCHANGED agenda
      PROVE  StoreInv'
  BY <1>3, LoadTyped, ReportTyped, DownloadTyped DEF Procs
<1>4. ASSUME NEW p \in Clis, Wizard(p) \/ Administer(p), UNCHANGED agenda
      PROVE  StoreInv'
  BY <1>4, WizardAside, AdministerAside, AsideTyped DEF StoreInv
<1>5. CASE Serve
  BY <1>5, LoadTyped, WarmTyped DEF Serve, Procs
<1>6. CASE Ready
  BY <1>6, WarmTyped DEF Ready
<1>7. CASE Managed
  <2>1. PICK where \in {"load", "failed"} : Begin(Service, "serve", where)
    BY <1>7 DEF Managed, KeepRunning
  <2>2. Service \in Procs /\ "serve" \in Commands
    BY DEF Procs, Commands
  <2>3. agenda' \in [Clis -> Seq(Commands)]
    BY <1>7 DEF Managed, StoreInv, StoreTyped
  <2> QED
    BY <2>1, <2>2, <2>3, BeginTyped
<1>8. CASE Mischief
  BY <1>8, MischiefTyped
<1> QED
  BY <1>1, <1>2, <1>3, <1>4, <1>5, <1>6, <1>7, <1>8 DEF Next, Cli

LEMMA InitStoreInv == StoreAssumption /\ Init => StoreInv
BY DEF StoreAssumption, Init, StoreInit, StoreInv, StoreTyped, Families, Procs,
       AllStages, Stages, Ended, SetupStages, ServiceStages, Commands, Contents
-----------------------------------------------------------------------------
(* Valid assets stay valid, and what the service loads is valid.           *)

\* What a loop has still to visit.
Entries(s) == {s[i] : i \in 1..Len(s)}

\* What is left after the next entry was taken (iteration over entries).
LEMMA EntriesOfTail ==
  ASSUME NEW S, NEW s \in Seq(S), s # <<>>
  PROVE  Entries(s) = {Head(s)} \cup Entries(Tail(s))
<1>1. Len(s) \in Nat \ {0} /\ Len(Tail(s)) = Len(s) - 1
  OBVIOUS
<1>2. Head(s) = s[1] /\ \A i \in 1..Len(Tail(s)) : Tail(s)[i] = s[i + 1]
  OBVIOUS
<1>3. ASSUME NEW i \in 1..Len(s) PROVE s[i] \in {Head(s)} \cup Entries(Tail(s))
  <2>1. CASE i = 1
    BY <1>2, <2>1
  <2>2. CASE i # 1
    <3>1. i - 1 \in 1..Len(Tail(s)) /\ s[i] = Tail(s)[i - 1]
      BY <1>1, <1>2, <2>2
    <3> QED
      BY <3>1 DEF Entries
  <2> QED
    BY <2>1, <2>2
<1>4. ASSUME NEW i \in 1..Len(Tail(s)) PROVE Tail(s)[i] \in Entries(s)
  <2>1. i + 1 \in 1..Len(s)
    BY <1>1
  <2> QED
    BY <1>2, <2>1 DEF Entries
<1>5. Head(s) \in Entries(s)
  BY <1>1, <1>2 DEF Entries
<1> QED
  BY <1>3, <1>4, <1>5 DEF Entries

LEMMA NoEntries == Entries(<<>>) = {}
BY DEF Entries

\* What is renamed into place was hashed: its temporary directory is its own.
MovesGood == \A p \in Clis : stage[p] = "move" => temp[p] = "good"

\* What the service has validated again, is about to construct, or runs on, was valid
\* when it looked.
ServiceInv ==
  /\ stage[Service] = "resolve" =>
       \A a \in Needed :
         disk[a] = "good" \/ a \in struck[Service] \/ a \in Entries(todo[Service])
  /\ stage[Service] = "construct" =>
       \A a \in Needed : disk[a] = "good" \/ a \in struck[Service]
  /\ ServesLocked

\* All that happens to the files.
DiskStep ==
  /\ \A a \in Assets :
       \/ disk'[a] = disk[a]
       \/ disk'[a] = "good"
       \/ mishaps' = mishaps + 1 /\ \A p \in Procs : a \in struck'[p]

LEMMA DownloadMoves ==
  ASSUME StoreAssumption, StoreInv, MovesGood, NEW p \in Clis, Download(p)
  PROVE  /\ MovesGood' /\ DiskStep
         /\ struck' = struck /\ misread' = misread
         /\ stage'[Service] = stage[Service] /\ todo'[Service] = todo[Service]
<1> USE DEF StoreAssumption, StoreInv, StoreTyped, MovesGood, DiskStep, Moves, Goto,
            Visit, Procs, TempOf
<1>1. CASE PassOver(p) \/ Fetched(p) \/ GetArchive(p) \/ ArchiveEnds(p)
  BY <1>1 DEF PassOver, Fetched, GetArchive, ArchiveEnds
<1>2. CASE Fetch(p) \/ Received(p) \/ Extract(p) \/ GivesUp(p)
  BY <1>2 DEF Fetch, Received, Extract, GivesUp
<1>3. CASE Check(p)
  BY <1>3 DEF Check, HashMatches
<1>4. CASE Move(p)
  BY <1>4 DEF Move
<1> QED
  BY <1>1, <1>2, <1>3, <1>4 DEF Download

\* What the commands and the service do besides downloads.
LEMMA StepMoves ==
  ASSUME StoreAssumption, StoreInv, MovesGood, [Next]_vars
  PROVE  MovesGood' /\ DiskStep
<1> USE DEF StoreAssumption, StoreInv, StoreTyped, MovesGood, DiskStep, Moves, Goto,
            Procs
<1>1. CASE UNCHANGED vars
  BY <1>1 DEF vars, storeVars, processVars
<1>2. ASSUME NEW p \in Procs, NEW c, NEW where \in {"load", "command", "failed"},
             Begin(p, c, where)
      PROVE  MovesGood' /\ DiskStep
  BY <1>2 DEF Begin
<1>3. ASSUME NEW p \in Procs, LoadRuntime(p) PROVE MovesGood' /\ DiskStep
  BY <1>3 DEF LoadRuntime, Validate, Loaded
<1>4. ASSUME NEW p \in Clis, Report(p) PROVE MovesGood' /\ DiskStep
  <2>1. \/ stage' = stage
        \/ /\ stage' = [stage EXCEPT ![p] = stage'[p]]
           /\ stage'[p] \in {"verify", "done", "fetch"}
    BY <1>4 DEF Report, VerifyAll, VerifyEntry, Verified
  <2>2. UNCHANGED <<disk, temp>>
    BY <1>4 DEF Report, VerifyAll, VerifyEntry, Verified
  <2> QED
    BY <2>1, <2>2
<1>5. ASSUME NEW p \in Clis, Download(p) PROVE MovesGood' /\ DiskStep
  BY <1>5, DownloadMoves
<1>6. ASSUME NEW p \in Clis, Aside(p) PROVE MovesGood' /\ DiskStep
  BY <1>6 DEF Aside, SetupStages, ServiceStages
<1>7. CASE Warm \/ Construct
  BY <1>7 DEF Warm, ResolveModels, ResolveEntry, Resolved, ConstructFails, Construct
<1>8. CASE Mischief
  <2>1. ASSUME NEW a \in Assets, Damage(a) PROVE MovesGood' /\ DiskStep
    BY <2>1 DEF Damage, Mishap, processVars
  <2>2. ASSUME NEW p \in Procs, Killed(p) PROVE MovesGood' /\ DiskStep
    BY <2>2 DEF Killed
  <2>3. CASE Reboot
    BY <2>3 DEF Reboot
  <2> QED
    BY <1>8, <2>1, <2>2, <2>3 DEF Mischief
<1>9. ASSUME NEW p \in Clis, Issue(p) PROVE MovesGood' /\ DiskStep
  <2>1. \E c, where : where \in {"load", "command", "failed"} /\ Begin(p, c, where)
    BY <1>9 DEF Issue, StageOf
  <2> QED
    BY <2>1, <1>2
<1>10. CASE Managed
  <2>1. \E where \in {"load", "failed"} : Begin(Service, "serve", where)
    BY <1>10 DEF Managed, KeepRunning
  <2> QED
    BY <2>1, <1>2
<1>11. ASSUME NEW p \in Clis, Cli(p) PROVE MovesGood' /\ DiskStep
  BY <1>11, <1>3, <1>4, <1>5, <1>6, <1>9, WizardAside, AdministerAside DEF Cli
<1>12. CASE Serve \/ Ready
  BY <1>12, <1>3, <1>7 DEF Serve, Ready
<1> QED
  BY <1>1, <1>8, <1>10, <1>11, <1>12 DEF Next

\* The service needs files of the lock.
LEMMA NeededAssets == StoreAssumption => Needed \subseteq Assets
BY DEF StoreAssumption, Needed

\* The same steps, seen from the service.
LEMMA StepService ==
  ASSUME StoreAssumption, StoreInv, MovesGood, ServiceInv, [Next]_vars
  PROVE  ServiceInv'
<1> USE DEF StoreAssumption, StoreInv, StoreTyped, ServiceInv, ServesLocked, Moves,
            Goto, Visit, Procs
<1>1. DiskStep
  BY StepMoves
<1>2. ASSUME stage'[Service] \in {stage[Service], "idle", "killed", "failed"},
             stage'[Service] = "resolve" => todo'[Service] = todo[Service],
             misread' = misread, struck[Service] \subseteq struck'[Service]
      PROVE  ServiceInv'
  <2>1. \A a \in Needed : disk[a] = "good" \/ a \in struck[Service] =>
                            disk'[a] = "good" \/ a \in struck'[Service]
    BY <1>1, <1>2, NeededAssets DEF DiskStep
  <2>2. stage'[Service] = "resolve" =>
          stage[Service] = "resolve" /\ Entries(todo'[Service]) = Entries(todo[Service])
    BY <1>2
  <2>3. /\ stage'[Service] = "construct" => stage[Service] = "construct"
        /\ stage'[Service] = "serving" => stage[Service] = "serving"
    BY <1>2
  <2> QED
    BY <1>2, <2>1, <2>2, <2>3
<1>3. CASE UNCHANGED vars
  BY <1>2, <1>3 DEF vars, storeVars, processVars
<1>4. ASSUME NEW p \in Clis, NEW c, NEW where, Begin(p, c, where)
      PROVE  ServiceInv'
  BY <1>2, <1>4 DEF Begin
<1>5. ASSUME NEW c, NEW where \in {"load", "failed"}, Begin(Service, c, where)
      PROVE  ServiceInv'
  BY <1>5 DEF Begin
<1>6. ASSUME NEW p \in Clis, LoadRuntime(p) PROVE ServiceInv'
  BY <1>2, <1>6 DEF LoadRuntime, Validate, Loaded
<1>7. CASE LoadRuntime(Service)
  BY <1>7 DEF LoadRuntime, Validate, Loaded
<1>8. ASSUME NEW p \in Clis, Report(p) PROVE ServiceInv'
  <2>1. stage'[Service] = stage[Service] /\ todo'[Service] = todo[Service]
    BY <1>8 DEF Report, VerifyAll, VerifyEntry, Verified, Visit
  <2>2. UNCHANGED <<misread, struck>>
    BY <1>8 DEF Report, VerifyAll, VerifyEntry, Verified
  <2> QED
    BY <1>2, <2>1, <2>2
<1>9. ASSUME NEW p \in Clis, Download(p) PROVE ServiceInv'
  BY <1>2, <1>9, DownloadMoves
<1>10. ASSUME NEW p \in Clis, Aside(p) PROVE ServiceInv'
  BY <1>2, <1>10 DEF Aside
<1>11. CASE Warm
  <2>1. CASE ResolveModels
    <3>1. Entries(Warmed) = Needed
      BY DEF Entries, Needed
    <3>2. /\ stage'[Service] \in {"resolve", "failed"}
          /\ todo'[Service] = Warmed
      BY <2>1 DEF ResolveModels, Visit
    <3> QED
      BY <2>1, <3>1, <3>2 DEF ResolveModels
  <2>2. CASE ConstructFails
    BY <1>2, <2>2 DEF ConstructFails
  <2>3. CASE ResolveEntry
    <3>1. CASE stage' = stage
      <4>1. /\ disk[Entry(Service)] = "good" /\ todo[Service] # <<>>
            /\ todo'[Service] = Tail(todo[Service]) /\ stage[Service] = "resolve"
        BY <2>3, <3>1 DEF ResolveEntry, Visit
      <4>2. Entries(todo[Service]) = {Entry(Service)} \cup Entries(todo'[Service])
        BY <4>1, EntriesOfTail DEF Entry
      <4> QED
        BY <2>3, <3>1, <4>1, <4>2 DEF ResolveEntry
    <3>2. CASE stage'[Service] = "failed"
      BY <1>2, <2>3, <3>2 DEF ResolveEntry
    <3> QED
      BY <2>3, <3>1, <3>2 DEF ResolveEntry
  <2>4. CASE Resolved
    BY <2>4, NoEntries DEF Resolved
  <2> QED
    BY <1>11, <2>1, <2>2, <2>3, <2>4 DEF Warm
<1>12. CASE Construct
  BY <1>12 DEF Construct
<1>13. CASE Mischief
  <2>1. ASSUME NEW a \in Assets, Damage(a) PROVE ServiceInv'
    BY <1>2, <2>1 DEF Damage, processVars
  <2>2. ASSUME NEW p \in Procs, Killed(p) PROVE ServiceInv'
    BY <1>2, <2>2 DEF Killed
  <2>3. CASE Reboot
    BY <1>2, <2>3 DEF Reboot
  <2> QED
    BY <1>13, <2>1, <2>2, <2>3 DEF Mischief
<1>14. ASSUME NEW p \in Clis, Issue(p) PROVE ServiceInv'
  BY <1>4, <1>14 DEF Issue
<1>15. CASE Managed
  <2>1. \E where \in {"load", "failed"} : Begin(Service, "serve", where)
    BY <1>15 DEF Managed, KeepRunning
  <2> QED
    BY <1>5, <2>1
<1>16. ASSUME NEW p \in Clis, Cli(p) PROVE ServiceInv'
  BY <1>16, <1>6, <1>8, <1>9, <1>10, <1>14, WizardAside, AdministerAside DEF Cli
<1> QED
  BY <1>3, <1>7, <1>11, <1>12, <1>13, <1>15, <1>16 DEF Next, Serve, Ready
-----------------------------------------------------------------------------
(* A download that reports success has delivered.                          *)

Sourced == Assets \ Unsourced
Safe(p, a) == disk[a] = "good" \/ a \in struck[p]

Downloads(p) == command[p] \in {"download", "force"}
Placing == {"receive", "check", "move"}
FromLock == {"fetch"} \cup Placing
FromTar == {"archive", "extract"}

\* What the report calls valid was valid when it was hashed.
ReportHolds(p) ==
  /\ stage[p] = "verify" =>
       \A a \in Assets \ Entries(todo[p]) :
         report[p][a] = "good" => Safe(p, a)
  /\ stage[p] \in FromLock \cup FromTar =>
       \A a \in Assets : report[p][a] = "good" => Safe(p, a)

\* Every entry with a source is valid, still to be visited, wanted from the
\* archive, or being put in its place.
NothingForgotten(p) ==
  stage[p] \in FromLock \cup FromTar =>
    \A a \in Sourced :
      \/ Safe(p, a)
      \/ a \in Entries(todo[p]) \cup wanted[p]
      \/ stage[p] \in Placing /\ a = item[p]

\* The archive comes after the lock was gone through.
ArchiveLast(p) ==
  /\ stage[p] \in FromTar => todo[p] = <<>>
  /\ stage[p] = "receive" => item[p] \notin Archived
  /\ stage[p] \in Placing /\ item[p] \in Archived => todo[p] = <<>>

Delivered(p) == stage[p] = "done" => \A a \in Sourced : Safe(p, a)

Delivering(p) ==
  Downloads(p) =>
    ReportHolds(p) /\ NothingForgotten(p) /\ ArchiveLast(p) /\ Delivered(p)

DeliverInv == \A p \in Clis : Delivering(p)

LEMMA EntriesOfLock == StoreAssumption => Entries(Lock) = Assets
BY DEF StoreAssumption, Entries, Assets

\* Steps of others, and those that end a command, leave it delivering.
LEMMA OthersDeliver ==
  ASSUME StoreInv, NEW p \in Clis, Delivering(p), DiskStep,
         struck[p] \subseteq struck'[p], command'[p] = command[p],
         todo'[p] = todo[p], report'[p] = report[p], wanted'[p] = wanted[p],
         item'[p] = item[p],
         stage'[p] \in {stage[p], "idle", "failed", "killed"}
  PROVE  Delivering(p)'
<1>1. \A a \in Assets : Safe(p, a) => Safe(p, a)'
  BY DEF DiskStep, Safe, Procs
<1> QED
  BY <1>1 DEF StoreInv, StoreTyped, Delivering, Downloads, ReportHolds,
      NothingForgotten, ArchiveLast, Delivered, Sourced, FromLock, FromTar, Placing

LEMMA ReportDelivers ==
  ASSUME StoreAssumption, StoreInv, NEW p \in Clis, Delivering(p), Report(p)
  PROVE  Delivering(p)'
<1> USE DEF StoreInv, StoreTyped, Procs, Delivering, Downloads, ReportHolds,
            NothingForgotten, ArchiveLast, Delivered, Sourced, Safe, FromLock, FromTar,
            Placing, Moves, Goto, Visit
<1> SUFFICES ASSUME Downloads(p) PROVE Delivering(p)'
  BY DEF Report, VerifyAll, VerifyEntry, Verified
<1>1. CASE VerifyAll(p)
  BY <1>1, EntriesOfLock DEF VerifyAll
<1>2. CASE VerifyEntry(p)
  <2>1. Entries(todo[p]) = {Entry(p)} \cup Entries(todo'[p])
    BY <1>2, EntriesOfTail DEF VerifyEntry, Entry
  <2>2. Entry(p) \in Assets
    BY <1>2 DEF VerifyEntry, Entry
  <2>3. \A a \in Assets : report'[p][a] = IF a = Entry(p) THEN disk[a]
                                                       ELSE report[p][a]
    BY <1>2, <2>2 DEF VerifyEntry
  <2>4. stage' = stage /\ stage[p] = "verify" /\ UNCHANGED <<disk, command, struck>>
    BY <1>2 DEF VerifyEntry
  <2> QED
    BY <2>1, <2>2, <2>3, <2>4
<1>3. CASE Verified(p)
  <2>1. stage[p] = "verify" /\ stage'[p] = "fetch" /\ todo[p] = <<>>
          /\ todo'[p] = Lock
    BY <1>3 DEF Verified
  <2>2. UNCHANGED <<disk, command, report, struck>>
    BY <1>3 DEF Verified
  <2> QED
    BY <2>1, <2>2, EntriesOfLock, NoEntries
<1> QED
  BY <1>1, <1>2, <1>3 DEF Report

LEMMA DownloadDelivering ==
  ASSUME StoreAssumption, StoreInv, MovesGood, NEW p \in Clis, Delivering(p),
         Download(p)
  PROVE  Delivering(p)'
<1>1. \A a \in Assets : Safe(p, a) => Safe(p, a)'
  BY DownloadMoves, StoreAssumption
  DEF DiskStep, Safe, Procs, StoreInv, StoreTyped
<1>2. command' = command /\ report' = report /\ struck' = struck
  BY DEF Download, PassOver, Fetch, Received, Check, Move, Fetched, GetArchive,
         Extract, ArchiveEnds, GivesUp
<1> USE DEF StoreInv, StoreTyped, Procs, Delivering, Downloads, ReportHolds,
            NothingForgotten, ArchiveLast, Delivered, Sourced, FromLock, FromTar,
            Placing, Moves, Goto, Visit, TempOf
<1> SUFFICES ASSUME Downloads(p) PROVE Delivering(p)'
  BY <1>2
<1>3. CASE PassOver(p)
  <2>1. Entries(todo[p]) = {Entry(p)} \cup Entries(todo'[p])
    BY <1>3, EntriesOfTail DEF PassOver, Entry
  <2>2. Entry(p) \in Sourced => Safe(p, Entry(p)) \/ Entry(p) \in wanted'[p]
    BY <1>3, StoreAssumption
    DEF PassOver, NeedsDownload, FromArchive, StoreAssumption, Entry
  <2>3. wanted[p] \subseteq wanted'[p]
    BY <1>3 DEF PassOver
  <2>4. stage[p] = "fetch" /\ stage' = stage /\ UNCHANGED disk
    BY <1>3 DEF PassOver
  <2> QED
    BY <1>1, <1>2, <2>1, <2>2, <2>3, <2>4
<1>4. CASE Fetch(p)
  <2>1. Entries(todo[p]) = {Entry(p)} \cup Entries(todo'[p])
    BY <1>4, EntriesOfTail DEF Fetch, Entry
  <2>2. /\ stage[p] = "fetch" /\ stage'[p] = "receive"
        /\ item'[p] = Entry(p) /\ item'[p] \notin Archived /\ wanted' = wanted
    BY <1>4 DEF Fetch
  <2> QED
    BY <1>1, <1>2, <2>1, <2>2
<1>5. CASE Received(p) \/ Check(p)
  <2>1. /\ UNCHANGED <<todo, wanted, item>>
        /\ \/ stage[p] = "receive" /\ stage'[p] = "check"
           \/ stage[p] = "check" /\ stage'[p] = "move"
    BY <1>5 DEF Received, Check
  <2> QED
    BY <1>1, <1>2, <2>1
<1>6. CASE Move(p)
  <2>1. /\ UNCHANGED <<todo, wanted, item>>
        /\ stage[p] = "move"
        /\ stage'[p] = IF item[p] \in Archived THEN "extract" ELSE "fetch"
    BY <1>6 DEF Move
  <2>2. Safe(p, item[p])'
    BY <1>6 DEF Move, MovesGood, Safe
  <2> QED
    BY <1>1, <1>2, <2>1, <2>2, NoEntries
<1>7. CASE Fetched(p)
  <2>1. /\ UNCHANGED <<todo, wanted, item>> /\ todo[p] = <<>>
        /\ stage[p] = "fetch"
        /\ stage'[p] = IF wanted[p] = {} THEN "done" ELSE "archive"
    BY <1>7 DEF Fetched
  <2> QED
    BY <1>1, <1>2, <2>1, NoEntries
<1>8. CASE GetArchive(p)
  BY <1>1, <1>2, <1>8 DEF GetArchive
<1>9. CASE Extract(p)
  <2>1. /\ UNCHANGED todo
        /\ stage[p] = "extract" /\ stage'[p] = "check"
        /\ wanted'[p] = wanted[p] \ {item'[p]}
    BY <1>9 DEF Extract
  <2>2. todo[p] = <<>> /\ ReportHolds(p)'
    BY <1>1, <1>2, <2>1
  <2>3. NothingForgotten(p)'
    BY <1>1, <1>2, <2>1
  <2>4. ArchiveLast(p)' /\ Delivered(p)'
    BY <2>1, <2>2
  <2> QED
    BY <1>2, <2>2, <2>3, <2>4
<1>10. CASE ArchiveEnds(p)
  <2>1. /\ UNCHANGED <<todo, wanted, item>>
        /\ stage[p] = "extract"
        /\ stage'[p] = IF wanted[p] = {} THEN "done" ELSE "failed"
    BY <1>10 DEF ArchiveEnds, NothingLeft
  <2> QED
    BY <1>1, <1>2, <2>1, NoEntries
<1>11. CASE GivesUp(p)
  BY <1>2, <1>11 DEF GivesUp
<1> QED
  BY <1>3, <1>4, <1>5, <1>6, <1>7, <1>8, <1>9, <1>10, <1>11 DEF Download

LEMMA StepDelivers ==
  ASSUME StoreAssumption, StoreInv, MovesGood, DeliverInv, [Next]_vars,
         NEW p \in Clis
  PROVE  Delivering(p)'
<1> USE DEF StoreInv, StoreTyped, Procs, StoreAssumption
<1>1. DiskStep /\ Delivering(p)
  BY StepMoves DEF DeliverInv
<1>2. ASSUME NEW q \in Procs, NEW c, NEW where \in {"load", "command", "failed"},
             Begin(q, c, where)
      PROVE  Delivering(p)'
  <2>1. CASE q = p
    <3>1. stage'[p] \in {"load", "command", "failed"}
      BY <1>2, <2>1 DEF Begin, Goto
    <3> QED
      BY <3>1 DEF Delivering, ReportHolds, NothingForgotten, ArchiveLast, Delivered,
                  FromLock, FromTar, Placing
  <2>2. CASE q # p
    BY <1>1, <1>2, <2>2, OthersDeliver DEF Begin, Goto, Visit
  <2> QED
    BY <2>1, <2>2
<1>3. ASSUME NEW q \in Procs, LoadRuntime(q) PROVE Delivering(p)'
  <2>1. CASE q = p
    <3>1. stage'[p] \in {"load", "ready", "failed"}
      BY <1>3, <2>1 DEF LoadRuntime, Validate, Loaded, Moves, Goto
    <3> QED
      BY <3>1 DEF Delivering, ReportHolds, NothingForgotten, ArchiveLast, Delivered,
                  FromLock, FromTar, Placing
  <2>2. CASE q # p
    BY <1>1, <1>3, <2>2, OthersDeliver
    DEF LoadRuntime, Validate, Loaded, Moves, Goto, Visit
  <2> QED
    BY <2>1, <2>2
<1>4. ASSUME NEW q \in Clis, Report(q) PROVE Delivering(p)'
  <2>1. CASE q # p
    <3>1. /\ UNCHANGED <<command, item, struck>>
          /\ stage'[p] = stage[p] /\ todo'[p] = todo[p]
          /\ report'[p] = report[p] /\ wanted'[p] = wanted[p]
      BY <1>4, <2>1 DEF Report, VerifyAll, VerifyEntry, Verified, Moves, Goto, Visit
    <3> QED
      BY <1>1, <3>1, OthersDeliver
  <2> QED
    BY <1>1, <1>4, <2>1, ReportDelivers
<1>5. ASSUME NEW q \in Clis, Download(q) PROVE Delivering(p)'
  <2>1. CASE q # p
    <3>1. UNCHANGED <<command, report, struck>>
      BY <1>5 DEF Download, PassOver, Fetch, Received, Check, Move, Fetched,
                  GetArchive, Extract, ArchiveEnds, GivesUp
    <3>2. /\ stage'[p] = stage[p] /\ todo'[p] = todo[p]
          /\ item'[p] = item[p] /\ wanted'[p] = wanted[p]
      BY <1>5, <2>1
      DEF Download, PassOver, Fetch, Received, Check, Move, Fetched, GetArchive,
          Extract, ArchiveEnds, GivesUp, Moves, Goto, Visit
    <3> QED
      BY <1>1, <3>1, <3>2, OthersDeliver
  <2> QED
    BY <1>1, <1>5, <2>1, DownloadDelivering
<1>6. ASSUME NEW q \in Clis, Aside(q) PROVE Delivering(p)'
  <2>1. CASE q = p /\ command[p] \in {"setup"} \cup UnitCommands
    BY <1>6, <2>1 DEF Delivering, Downloads, Aside, UnitCommands
  <2>2. CASE q # p
    BY <1>1, <1>6, <2>2, OthersDeliver DEF Aside
  <2>3. CASE q = p /\ command[p] \notin {"setup"} \cup UnitCommands
    BY <1>1, <1>6, <2>3, OthersDeliver, EntriesOfLock DEF Aside
  <2> QED
    BY <2>1, <2>2, <2>3
<1>7. CASE Warm \/ Construct
  BY <1>1, <1>7, OthersDeliver
  DEF Warm, ResolveModels, ResolveEntry, Resolved, ConstructFails, Construct, Moves,
      Goto, Visit
<1>8. CASE Mischief
  <2>1. ASSUME NEW a \in Assets, Damage(a) PROVE Delivering(p)'
    BY <1>1, <2>1, OthersDeliver DEF Damage, processVars
  <2>2. ASSUME NEW q \in Procs, Killed(q) PROVE Delivering(p)'
    BY <1>1, <2>2, OthersDeliver DEF Killed, Goto
  <2>3. CASE Reboot
    BY <1>1, <2>3, OthersDeliver DEF Reboot
  <2> QED
    BY <1>8, <2>1, <2>2, <2>3 DEF Mischief
<1>9. ASSUME NEW q \in Clis, Issue(q) PROVE Delivering(p)'
  <2>1. \E c, where : where \in {"load", "command", "failed"} /\ Begin(q, c, where)
    BY <1>9 DEF Issue, StageOf
  <2> QED
    BY <2>1, <1>2
<1>10. CASE Managed
  <2>1. \E where \in {"load", "failed"} : Begin(Service, "serve", where)
    BY <1>10 DEF Managed, KeepRunning
  <2> QED
    BY <2>1, <1>2
<1>11. ASSUME NEW q \in Clis, Cli(q) PROVE Delivering(p)'
  BY <1>11, <1>3, <1>4, <1>5, <1>6, <1>9, WizardAside, AdministerAside DEF Cli
<1>12. CASE Serve \/ Ready
  BY <1>12, <1>3, <1>7 DEF Serve, Ready
<1>13. CASE UNCHANGED vars
  BY <1>1, <1>13, OthersDeliver DEF vars, storeVars, processVars
<1> QED
  BY <1>8, <1>10, <1>11, <1>12, <1>13 DEF Next
-----------------------------------------------------------------------------
(* The theorems.                                                           *)

Inv == StoreInv /\ MovesGood /\ ServiceInv /\ DeliverInv

LEMMA InitInv == StoreAssumption /\ Init => Inv
<1> SUFFICES ASSUME StoreAssumption, Init PROVE Inv
  OBVIOUS
<1>1. \A p \in Procs : stage[p] = "idle" /\ command[p] = "none"
  BY DEF Init, StoreInit
<1>2. MovesGood /\ ServiceInv /\ DeliverInv
  BY <1>1 DEF MovesGood, ServiceInv, ServesLocked, DeliverInv, Delivering, Downloads,
              Procs
<1> QED
  BY <1>2, InitStoreInv DEF Inv

LEMMA StepInv == StoreAssumption /\ Inv /\ [Next]_vars => Inv'
BY StepStoreInv, StepMoves, StepService, StepDelivers DEF Inv, DeliverInv

\* A valid asset is replaced by nothing but valid content, whatever number of
\* downloads run, fail and are killed at once (download_missing_assets).
THEOREM StoreValidStaysValid == StoreAssumption => (Spec => ValidStaysValid)
<1> SUFFICES ASSUME StoreAssumption PROVE Spec => ValidStaysValid
  OBVIOUS
<1>1. Init => Inv
  BY InitInv
<1>2. Inv /\ [Next]_vars => Inv'
  BY StepInv
<1>3. Inv /\ [Next]_vars =>
        [\A a \in Assets :
           disk[a] = "good" /\ disk'[a] # "good" => mishaps' > mishaps]_storeVars
  <2> SUFFICES ASSUME Inv, [Next]_vars, NEW a \in Assets,
                      disk[a] = "good", disk'[a] # "good"
               PROVE  mishaps' > mishaps
    OBVIOUS
  <2>1. DiskStep
    BY StepMoves DEF Inv
  <2>2. mishaps \in Nat /\ Service \in Procs
    BY DEF Inv, StoreInv, StoreTyped, StoreAssumption, Procs
  <2> QED
    BY <2>1, <2>2 DEF DiskStep
<1> QED
  BY <1>1, <1>2, <1>3, PTL DEF Spec, ValidStaysValid

\* A service that runs has constructed its recognisers from files that were
\* valid, or were damaged after it had started (resolve_model and the warm
\* start of stt-http), whatever downloads replaced in between.
THEOREM StoreServesLocked == StoreAssumption => (Spec => []ServesLocked)
<1> SUFFICES ASSUME StoreAssumption PROVE Spec => []ServesLocked
  OBVIOUS
<1>1. Init => Inv
  BY InitInv
<1>2. Inv /\ [Next]_vars => Inv'
  BY StepInv
<1>3. Inv => ServesLocked
  BY DEF Inv, ServiceInv
<1> QED
  BY <1>1, <1>2, <1>3, PTL DEF Spec

\* A download that ends well leaves every asset that has a source valid, except
\* for one damaged since it began (download_missing_assets, the archive's loop).
THEOREM StoreDownloadDelivers == StoreAssumption => (Spec => []DownloadDelivers)
<1> SUFFICES ASSUME StoreAssumption PROVE Spec => []DownloadDelivers
  OBVIOUS
<1>1. Init => Inv
  BY InitInv
<1>2. Inv /\ [Next]_vars => Inv'
  BY StepInv
<1>3. Inv => DownloadDelivers
  BY DEF Inv, DeliverInv, Delivering, Downloads, Delivered, DownloadDelivers, Sourced,
         Safe
<1> QED
  BY <1>1, <1>2, <1>3, PTL DEF Spec
=============================================================================
