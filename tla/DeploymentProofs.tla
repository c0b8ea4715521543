-------------------------- MODULE DeploymentProofs --------------------------
(***************************************************************************)
(* For any settings, any number of commands and mishaps: the commands that *)
(* manage the service leave none that starts or runs without its file, an  *)
(* installation that reports success is what the manager runs, a setup     *)
(* that is completed by itself has prepared the machine, and the whole     *)
(* machine stays well typed.                                               *)
(***************************************************************************)
EXTENDS AssetStoreProofs

StepNames ==
  {"truncate_saved", "write_saved", "truncate_toml", "write_toml",
   "truncate_unit", "write_unit", "remove_unit", "reload", "enable", "disable",
   "start", "stop", "bootstrap", "kickstart"}

\* Steps that a command may pass over.
Passable == {"reload", "enable", "disable", "stop", "start"}

\* One service command at a time.
Exclusive ==
  \A p, q \in Clis : InUnitCommand(p) /\ InUnitCommand(q) => p = q

\* launchd has what it runs, and starts nothing of its own at boot.
Launchd == os = "macos" => ~enabled /\ (active => loaded # "none")

\* All the steps of a command other than config (an uninstallation without a
\* unit file takes none, a start under launchd need not load the list).
Full(c) ==
  IF c = "install" THEN InstallSteps
  ELSE IF c = "uninstall"
    THEN IF os = "linux" THEN <<"stop", "disable", "remove_unit", "reload">>
         ELSE <<"stop", "remove_unit">>
  ELSE IF c = "start"
    THEN IF os = "linux" THEN <<"start">> ELSE <<"bootstrap", "kickstart">>
  ELSE <<"stop">>

Left(p) == Len(script[p])
NextStep(p) == Head(script[p])
Total(p) == Len(Full(command[p]))

\* The script is what remains of all the steps.
Rest(p) ==
  /\ Left(p) <= Total(p)
  /\ \A i \in 1..Left(p) :
       script[p][i] = Full(command[p])[i + Total(p) - Left(p)]

\* An installation writes the unit, tells the manager, and starts the service:
\* what holds when n of its t steps are left.
InstallAt(p, n, t) ==
  /\ n < t => unit # "none"
  /\ n < t - 1 => unit = chosen[p]
  /\ n < 3 /\ os = "linux" /\ "reload" \notin unmet[p] => loaded = unit
  /\ n < 2 /\ os = "linux" /\ "enable" \notin unmet[p] => enabled
  /\ n < 2 /\ os = "macos" => loaded = unit
  /\ n = 0 => active
  /\ n = 0 /\ (os = "linux" => {"reload", "start"} \cap unmet[p] = {}) => ran = unit

Installing(p) == Rest(p) /\ InstallAt(p, Left(p), Total(p))

\* An uninstallation stops and disables the service before the file goes.
UninstallAt(n, t) ==
  /\ n < t => ~active \/ "stop" \in refused
  /\ os = "linux" /\ n < 3 => ~enabled \/ "disable" \in refused

Uninstalling(p) == Rest(p) /\ UninstallAt(Left(p), Total(p))

\* The other commands leave the unit file alone.
Starting(p) == Rest(p) /\ unit # "none"

ConfigNames == {"truncate_saved", "write_saved", "truncate_toml", "write_toml"}

Scripted(p) ==
  /\ command[p] = "install" => Installing(p)
  /\ command[p] = "uninstall" => Uninstalling(p)
  /\ command[p] = "start" => Starting(p)
  /\ command[p] = "stop" => Rest(p)
  /\ command[p] = "config" => script[p] \in Seq(ConfigNames)

UnitTyped ==
  /\ os \in {"linux", "macos"} /\ daemon \in {"http", "llama"}
  /\ chosen \in [Clis -> Settings]
  /\ script \in [Clis -> Seq(StepNames)]
  /\ unmet \in [Clis -> SUBSET Passable]

UnitInv ==
  /\ UnitTyped /\ Exclusive /\ Launchd /\ NothingOrphaned
  /\ \A p \in Clis : stage[p] = "script" => Scripted(p)
-----------------------------------------------------------------------------
(* Steps that leave the unit alone.                                        *)

\* No command enters a script, or becomes a service command.
Quiet ==
  \A p \in Clis :
    /\ command'[p] = command[p]
    /\ stage'[p] = "script" => stage[p] = "script"
    /\ Running(p)' => Running(p)

\* The manager may start the process again from the list it has.
LEMMA ScriptedStays ==
  ASSUME UnitTyped, NEW p \in Clis, Scripted(p), command'[p] = command[p],
         UNCHANGED <<os, daemon, unit, loaded, enabled, active, chosen, script,
                     historyVars>>,
         ran' \in {ran, loaded}
  PROVE  Scripted(p)'
<1>1. Full(command[p])' = Full(command[p])
  BY DEF Full, InstallSteps
<1>2. (Rest(p)' <=> Rest(p)) /\ Left(p)' = Left(p) /\ Total(p)' = Total(p)
  BY <1>1 DEF Rest, Left, Total
<1>3. refused' = refused /\ unmet' = unmet
  BY DEF historyVars
<1>4. InstallAt(p, Left(p), Total(p)) => InstallAt(p, Left(p), Total(p))'
  <2>1. PICK n, t : n = Left(p) /\ t = Total(p)
    OBVIOUS
  <2>2. InstallAt(p, n, t) => InstallAt(p, n, t)'
    BY <1>3 DEF InstallAt, UnitTyped
  <2> QED
    BY <1>2, <2>1, <2>2
<1> QED
  BY <1>2, <1>3, <1>4 DEF Scripted, Installing, Uninstalling, UninstallAt, Starting

LEMMA QuietKeeps ==
  ASSUME UnitInv, Quiet,
         UNCHANGED <<os, daemon, unit, loaded, enabled, active, chosen, script,
                     historyVars>>,
         ran' \in {ran, loaded}
  PROVE  UnitInv'
<1>1. ASSUME NEW p \in Clis, stage'[p] = "script" PROVE Scripted(p)'
  BY <1>1, ScriptedStays DEF Quiet, UnitInv
<1>2. Exclusive'
  BY DEF UnitInv, Exclusive, InUnitCommand, Quiet
<1> QED
  BY <1>1, <1>2 DEF UnitInv, UnitTyped, Launchd, NothingOrphaned, historyVars

LEMMA StoreQuiet ==
  ASSUME StoreInv, NEW p \in Procs,
         LoadRuntime(p) \/ Report(p) \/ Download(p)
  PROVE  Quiet
<1> USE DEF Quiet, StoreInv, StoreTyped, Running, Ended, Moves, Goto, Procs
<1>1. command' = command
  BY DEF LoadRuntime, Validate, Loaded, Report, VerifyAll, VerifyEntry, Verified,
         Download, PassOver, Fetch, Received, Check, Move, Fetched, GetArchive,
         Extract, ArchiveEnds, GivesUp
<1>2. \/ stage' = stage
      \/ /\ stage[p] \notin Ended /\ stage' = [stage EXCEPT ![p] = stage'[p]]
         /\ stage'[p] # "script"
  <2>1. CASE LoadRuntime(p)
    BY <2>1 DEF LoadRuntime, Validate, Loaded
  <2>2. CASE Report(p)
    BY <2>2 DEF Report, VerifyAll, VerifyEntry, Verified
  <2>3. CASE Download(p)
    BY <2>3 DEF Download, PassOver, Fetch, Received, Check, Move, Fetched, GetArchive,
                Extract, ArchiveEnds, GivesUp
  <2> QED
    BY <2>1, <2>2, <2>3
<1> QED
  BY <1>1, <1>2

LEMMA WizardQuiet ==
  ASSUME StoreAssumption, StoreInv, NEW p \in Clis, Wizard(p)
  PROVE  Quiet
<1>1. Aside(p)
  BY WizardAside DEF StoreInv
<1>2. stage[p] \notin Ended /\ stage' = [stage EXCEPT ![p] = stage'[p]]
        /\ stage'[p] # "script"
  BY DEF Wizard, FindPython, CheckFfmpeg, GetFfmpeg, CopyFfmpeg, PrepareVenv,
         CreateVenv, InstallDeps, AssetsReported, CheckCapu, Moves, Goto, StoreInv,
         StoreTyped, Ended, Procs
<1> QED
  BY <1>1, <1>2 DEF Quiet, Aside, StoreInv, StoreTyped, Running, Procs

LEMMA WarmQuiet ==
  ASSUME StoreAssumption, StoreInv, Warm \/ Construct
  PROVE  Quiet
BY DEF Warm, ResolveModels, ResolveEntry, Resolved, Visit, ConstructFails, Construct,
       Quiet, Moves, Goto, Running, StoreAssumption, StoreInv, StoreTyped, Procs
-----------------------------------------------------------------------------
(* The steps of a script.                                                  *)

\* A command in its script is the only service command.
LEMMA ScriptAlone ==
  ASSUME StoreInv, UnitInv, NEW p \in Clis, stage[p] = "script"
  PROVE  /\ command[p] \in UnitCommands
         /\ \A q \in Clis : InUnitCommand(q) => q = p
BY DEF StoreInv, Families, ServiceStages, UnitInv, Exclusive, InUnitCommand, Running,
       Ended

\* What the step of p leaves to show when p stays in its script.
LEMMA StepKeeps ==
  ASSUME StoreInv, UnitInv, NEW p \in Clis, stage[p] = "script",
         command' = command, UNCHANGED <<os, daemon, chosen>>,
         stage' = stage \/ stage' = [stage EXCEPT ![Service] = "idle"]
           \/ (stage' = [stage EXCEPT ![p] = stage'[p]] /\ stage'[p] \in Ended),
         script' \in [Clis -> Seq(StepNames)], unmet' \in [Clis -> SUBSET Passable],
         Launchd', NothingOrphaned', stage'[p] = "script" => Scripted(p)'
  PROVE  UnitInv'
<1>1. \A q \in Clis : stage'[q] = "script" => q = p
  <2> SUFFICES ASSUME NEW q \in Clis, stage'[q] = "script", q # p PROVE FALSE
    OBVIOUS
  <2>1. stage[q] = "script"
    BY DEF StoreInv, StoreTyped, Procs
  <2>2. InUnitCommand(q)
    BY <2>1, ScriptAlone DEF InUnitCommand, Running, Ended
  <2> QED
    BY <2>2, ScriptAlone
<1>2. Exclusive'
  <2>1. \A q \in Clis : InUnitCommand(q)' => InUnitCommand(q)
    BY DEF InUnitCommand, Running, Ended, StoreInv, StoreTyped, Procs
  <2> QED
    BY <2>1 DEF UnitInv, Exclusive
<1>3. UnitTyped'
  BY DEF UnitInv, UnitTyped
<1> QED
  BY <1>1, <1>2, <1>3 DEF UnitInv

\* Scripts hold names of steps, and so does what is left of them.
LEMMA TailTyped ==
  ASSUME UnitInv, NEW p \in Clis, InScript(p)
  PROVE  /\ [script EXCEPT ![p] = Tail(@)] \in [Clis -> Seq(StepNames)]
         /\ [script EXCEPT ![p] = Tail(@)][p] = Tail(script[p])
BY DEF UnitInv, UnitTyped, InScript

\* Where each step stands among the steps of its command.
LEMMA NextIs ==
  ASSUME UnitInv, NEW p \in Clis, script[p] # <<>>, command[p] # "config", Rest(p)
  PROVE  /\ Left(p) \in 1..Total(p) /\ Total(p) \in Nat
         /\ NextStep(p) = Full(command[p])[1 + Total(p) - Left(p)]
<1>1. script[p] \in Seq(StepNames)
  BY DEF UnitInv, UnitTyped
<1>2. Total(p) \in Nat
  BY DEF Total, Full, InstallSteps
<1> QED
  BY <1>1, <1>2 DEF Rest, Left, NextStep

LEMMA InstallOrder ==
  ASSUME UnitInv, NEW p \in Clis, script[p] # <<>>, command[p] = "install", Rest(p),
         NEW n, n = Left(p), NEW t, t = Total(p)
  PROVE  /\ n \in 1..t /\ t \in {5, 7}
         /\ NextStep(p) = "truncate_unit" <=> n = t
         /\ NextStep(p) = "write_unit" <=> n = t - 1
         /\ os = "linux" =>
              /\ t = 5
              /\ n = 3 => NextStep(p) = "reload"
              /\ n = 2 => NextStep(p) = "enable"
              /\ n = 1 => NextStep(p) = "start"
         /\ os = "macos" =>
              /\ n = 3 => NextStep(p) = "stop"
              /\ n = 2 => NextStep(p) = "bootstrap"
              /\ n = 1 => NextStep(p) = "kickstart"
         /\ n \in 4..(t - 2) =>
              os = "macos" /\ NextStep(p) \in {"truncate_saved", "write_saved"}
<1>1. n \in 1..t /\ NextStep(p) = InstallSteps[1 + t - n]
  BY NextIs DEF Full
<1>2. CASE os = "linux"
  <2>1. t = 5
    BY <1>2 DEF Total, Full, InstallSteps
  <2>2. \/ n = 1 \/ n = 2 \/ n = 3 \/ n = 4
        \/ n = 5
    BY <1>1, <2>1
  <2>4. /\ InstallSteps[1] = "truncate_unit"
        /\ InstallSteps[2] = "write_unit"
        /\ InstallSteps[3] = "reload"
        /\ InstallSteps[4] = "enable"
        /\ InstallSteps[5] = "start"
    BY <1>2 DEF InstallSteps
  <2>5. /\ n = 1 => NextStep(p) = InstallSteps[5]
        /\ n = 2 => NextStep(p) = InstallSteps[4]
        /\ n = 3 => NextStep(p) = InstallSteps[3]
        /\ n = 4 => NextStep(p) = InstallSteps[2]
        /\ n = 5 => NextStep(p) = InstallSteps[1]
    BY <1>1, <2>1
  <2>6. t - 1 = 4 /\ 4..(t - 2) = {}
    BY <2>1
  <2> QED
    BY <1>1, <1>2, <2>1, <2>2, <2>4, <2>5, <2>6
<1>3. CASE os # "linux" /\ daemon = "http"
  <2>1. t = 5
    BY <1>3 DEF Total, Full, InstallSteps
  <2>2. \/ n = 1 \/ n = 2 \/ n = 3 \/ n = 4
        \/ n = 5
    BY <1>1, <2>1
  <2>4. /\ InstallSteps[1] = "truncate_unit"
        /\ InstallSteps[2] = "write_unit"
        /\ InstallSteps[3] = "stop"
        /\ InstallSteps[4] = "bootstrap"
        /\ InstallSteps[5] = "kickstart"
    BY <1>3 DEF InstallSteps
  <2>5. /\ n = 1 => NextStep(p) = InstallSteps[5]
        /\ n = 2 => NextStep(p) = InstallSteps[4]
        /\ n = 3 => NextStep(p) = InstallSteps[3]
        /\ n = 4 => NextStep(p) = InstallSteps[2]
        /\ n = 5 => NextStep(p) = InstallSteps[1]
    BY <1>1, <2>1
  <2>6. t - 1 = 4 /\ 4..(t - 2) = {}
    BY <2>1
  <2> QED
    BY <1>1, <1>3, <2>1, <2>2, <2>4, <2>5, <2>6
<1>4. CASE os # "linux" /\ daemon # "http"
  <2>1. t = 7
    BY <1>4 DEF Total, Full, InstallSteps
  <2>2. \/ n = 1 \/ n = 2 \/ n = 3 \/ n = 4
        \/ n = 5 \/ n = 6 \/ n = 7
    BY <1>1, <2>1
  <2>3. os = "macos"
    BY <1>4 DEF UnitInv, UnitTyped
  <2>4. /\ InstallSteps[1] = "truncate_unit"
        /\ InstallSteps[2] = "write_unit"
        /\ InstallSteps[3] = "truncate_saved"
        /\ InstallSteps[4] = "write_saved"
        /\ InstallSteps[5] = "stop"
        /\ InstallSteps[6] = "bootstrap"
        /\ InstallSteps[7] = "kickstart"
    BY <1>4 DEF InstallSteps
  <2>5. /\ n = 1 => NextStep(p) = InstallSteps[7]
        /\ n = 2 => NextStep(p) = InstallSteps[6]
        /\ n = 3 => NextStep(p) = InstallSteps[5]
        /\ n = 4 => NextStep(p) = InstallSteps[4]
        /\ n = 5 => NextStep(p) = InstallSteps[3]
        /\ n = 6 => NextStep(p) = InstallSteps[2]
        /\ n = 7 => NextStep(p) = InstallSteps[1]
    BY <1>1, <2>1
  <2>6. t - 1 = 6 /\ 4..(t - 2) = 4..5
    BY <2>1
  <2>7. n \in 4..5 => NextStep(p) \in {"truncate_saved", "write_saved"}
    BY <2>2, <2>4, <2>5
  <2> QED
    BY <1>1, <1>4, <2>1, <2>2, <2>3, <2>4, <2>5, <2>6, <2>7
<1> QED
  BY <1>2, <1>3, <1>4

LEMMA UninstallOrder ==
  ASSUME UnitInv, NEW p \in Clis, script[p] # <<>>, command[p] = "uninstall", Rest(p),
         NEW n, n = Left(p), NEW t, t = Total(p)
  PROVE  /\ n \in 1..t
         /\ os = "linux" =>
              /\ t = 4
              /\ n = 4 => NextStep(p) = "stop"
              /\ n = 3 => NextStep(p) = "disable"
              /\ n = 2 => NextStep(p) = "remove_unit"
              /\ n = 1 => NextStep(p) = "reload"
         /\ os = "macos" =>
              /\ t = 2
              /\ n = 2 => NextStep(p) = "stop"
              /\ n = 1 => NextStep(p) = "remove_unit"
<1>1. n \in 1..t
        /\ NextStep(p) = Full("uninstall")[1 + t - n]
  BY NextIs
<1>2. CASE os = "linux"
  <2>1. t = 4
    BY <1>2 DEF Full, Total
  <2>2. /\ Full("uninstall")[1] = "stop"
        /\ Full("uninstall")[2] = "disable"
        /\ Full("uninstall")[3] = "remove_unit"
        /\ Full("uninstall")[4] = "reload"
    BY <1>2 DEF Full
  <2>3. /\ n = 1 => NextStep(p) = Full("uninstall")[4]
        /\ n = 2 => NextStep(p) = Full("uninstall")[3]
        /\ n = 3 => NextStep(p) = Full("uninstall")[2]
        /\ n = 4 => NextStep(p) = Full("uninstall")[1]
    BY <1>1, <2>1
  <2> QED
    BY <1>1, <1>2, <2>1, <2>2, <2>3
<1>3. CASE os = "macos"
  <2>1. t = 2
    BY <1>3 DEF Full, Total
  <2>2. /\ Full("uninstall")[1] = "stop"
        /\ Full("uninstall")[2] = "remove_unit"
    BY <1>3 DEF Full
  <2>3. /\ n = 1 => NextStep(p) = Full("uninstall")[2]
        /\ n = 2 => NextStep(p) = Full("uninstall")[1]
    BY <1>1, <2>1
  <2> QED
    BY <1>1, <1>3, <2>1, <2>2, <2>3
<1> QED
  BY <1>1, <1>2, <1>3

LEMMA StartOrder ==
  ASSUME UnitInv, NEW p \in Clis, script[p] # <<>>, command[p] \in {"start", "stop"},
         Rest(p)
  PROVE  /\ command[p] = "stop" => NextStep(p) = "stop"
         /\ command[p] = "start" =>
              NextStep(p) \in (IF os = "linux" THEN {"start"}
                                   ELSE {"bootstrap", "kickstart"})
<1>1. Left(p) \in 1..Total(p)
        /\ NextStep(p) = Full(command[p])[1 + Total(p) - Left(p)]
  BY NextIs
<1>2. CASE command[p] = "stop"
  BY <1>1, <1>2 DEF Full, Total
<1>3. CASE command[p] = "start" /\ os = "linux"
  BY <1>1, <1>3 DEF Full, Total
<1>4. CASE command[p] = "start" /\ os # "linux"
  <2>1. Left(p) = 1 \/ Left(p) = 2
    BY <1>1, <1>4 DEF Full, Total
  <2> QED
    BY <1>1, <1>4, <2>1 DEF Full, Total
<1> QED
  BY <1>2, <1>3, <1>4

\* A step taken leaves the rest of the steps.
LEMMA RestOfTail ==
  ASSUME UnitInv, NEW p \in Clis, InScript(p), command[p] # "config", Rest(p),
         NextSteps(p), command' = command, os' = os, daemon' = daemon
  PROVE  Rest(p)' /\ Left(p)' = Left(p) - 1 /\ Total(p)' = Total(p)
<1>1. /\ script[p] \in Seq(StepNames) /\ script[p] # <<>>
      /\ script'[p] = Tail(script[p])
  BY TailTyped DEF UnitInv, UnitTyped, InScript, NextSteps
<1>2. /\ Len(script'[p]) = Len(script[p]) - 1
      /\ \A i \in 1..Len(script'[p]) : script'[p][i] = script[p][i + 1]
  BY <1>1
<1>3. Full(command[p])' = Full(command[p]) /\ Total(p) \in Nat
  BY NextIs DEF Full, InstallSteps, InScript
<1>4. Total(p)' = Total(p) /\ Left(p)' = Left(p) - 1 /\ Left(p) \in Nat
  BY <1>1, <1>2, <1>3 DEF Total, Left
<1>5. \A i \in 1..Len(script'[p]) :
        i + 1 \in 1..Len(script[p])
          /\ (i + 1) + Total(p) - Left(p) = i + Total(p)' - Left(p)'
  BY <1>1, <1>2, <1>3, <1>4
<1> QED
  BY <1>1, <1>2, <1>3, <1>4, <1>5 DEF Rest, Left

\* A step on a file: only an uninstallation, and only after it stopped and
\* disabled the service, removes the unit.
LEMMA FileSteps ==
  ASSUME SettingsAssumption, StoreInv, UnitInv, NEW p \in Clis, InScript(p),
         FileStep(p, NextStep(p)), NextSteps(p),
         UNCHANGED <<command, os, daemon, chosen, refused, unmet>>
  PROVE  UnitInv'
<1>1. stage[p] = "script" /\ Scripted(p) /\ command[p] \in UnitCommands
        /\ script[p] # <<>>
  BY ScriptAlone DEF InScript, UnitInv
<1>2. script' \in [Clis -> Seq(StepNames)] /\ unmet' \in [Clis -> SUBSET Passable]
  BY TailTyped DEF NextSteps, UnitInv, UnitTyped
<1>3. stage' = stage /\ UNCHANGED <<loaded, enabled, active, ran>>
  BY DEF FileStep, managerVars
<1>4. /\ chosen[p] # "none"
      /\ unit' = CASE NextStep(p) = "truncate_unit" -> "torn"
                   [] NextStep(p) = "write_unit" -> chosen[p]
                   [] NextStep(p) = "remove_unit" -> "none"
                   [] OTHER -> unit
  BY DEF FileStep, SettingsAssumption, UnitInv, UnitTyped
<1>5. Launchd'
  BY <1>3 DEF UnitInv, Launchd
<1>6. NextStep(p) \in {"truncate_saved", "write_saved", "truncate_toml",
        "write_toml", "truncate_unit", "write_unit", "remove_unit"}
  BY DEF FileStep
<1>7. os \in {"linux", "macos"}
  BY DEF UnitInv, UnitTyped
<1>8. NothingOrphaned' /\ Scripted(p)'
  <2>1. CASE command[p] = "install"
    <3>1. Installing(p)
      BY <1>1, <2>1 DEF Scripted
    <3>2. Rest(p)' /\ Left(p)' = Left(p) - 1 /\ Total(p)' = Total(p)
      BY <2>1, <3>1, RestOfTail DEF Installing
    <3>3. PICK n, t : n = Left(p) /\ t = Total(p)
      OBVIOUS
    <3>4. /\ n \in 1..t /\ t \in {5, 7}
          /\ NextStep(p) = "truncate_unit" <=> n = t
          /\ NextStep(p) = "write_unit" <=> n = t - 1
          /\ NextStep(p) # "remove_unit" /\ n \notin {1, 2, 3}
      BY <1>1, <1>6, <1>7, <2>1, <3>1, <3>3, InstallOrder DEF Installing
    <3>5. InstallAt(p, n, t)
      BY <3>1, <3>3 DEF Installing
    <3>6. unit' # "none" /\ InstallAt(p, n - 1, t)'
      BY <1>4, <1>7, <3>4, <3>5 DEF InstallAt
    <3> QED
      BY <2>1, <3>2, <3>3, <3>6 DEF NothingOrphaned, Scripted, Installing
  <2>2. CASE command[p] = "uninstall"
    <3>1. Uninstalling(p)
      BY <1>1, <2>2 DEF Scripted
    <3>2. Rest(p)' /\ Left(p)' = Left(p) - 1 /\ Total(p)' = Total(p)
      BY <2>2, <3>1, RestOfTail DEF Uninstalling
    <3>3. PICK n, t : n = Left(p) /\ t = Total(p)
      OBVIOUS
    <3>4. /\ NextStep(p) = "remove_unit"
          /\ os = "linux" => n = 2 /\ t = 4
          /\ os = "macos" => n = 1 /\ t = 2
      BY <1>1, <1>6, <1>7, <2>2, <3>1, <3>3, UninstallOrder DEF Uninstalling
    <3>5. UninstallAt(n, t)
      BY <3>1, <3>3 DEF Uninstalling
    <3>6. ~active \/ "stop" \in refused
      BY <1>7, <3>4, <3>5 DEF UninstallAt
    <3>7. ~enabled \/ "disable" \in refused
      BY <1>7, <3>4, <3>5 DEF UninstallAt, Launchd, UnitInv
    <3> QED
      BY <1>3, <2>2, <3>2, <3>6, <3>7
      DEF NothingOrphaned, Scripted, Uninstalling, UninstallAt
  <2>3. CASE command[p] \in {"start", "stop"}
    <3>1. Rest(p)
      BY <1>1, <2>3 DEF Scripted, Starting
    <3> QED
      BY <1>1, <1>6, <2>3, <3>1, StartOrder
  <2>4. CASE command[p] = "config"
    <3>1. script[p] \in Seq(ConfigNames)
      BY <1>1, <2>4 DEF Scripted
    <3>2. NextStep(p) \in ConfigNames /\ Tail(script[p]) \in Seq(ConfigNames)
      BY <1>1, <3>1 DEF NextStep
    <3>3. unit' = unit
      BY <1>4, <3>2 DEF ConfigNames
    <3>4. script'[p] = Tail(script[p])
      BY TailTyped DEF NextSteps
    <3> QED
      BY <1>3, <2>4, <3>2, <3>3, <3>4 DEF Scripted, NothingOrphaned, UnitInv
  <2> QED
    BY <1>1, <2>1, <2>2, <2>3, <2>4 DEF UnitCommands
<1> QED
  BY <1>1, <1>2, <1>3, <1>5, <1>8, StepKeeps

\* What the manager does for a step, as far as the unit is concerned.
LEMMA ManagerEffect ==
  ASSUME SettingsAssumption, UnitInv, NEW step, ManagerStep(step)
  PROVE  /\ unit' = unit
         /\ stage' = stage \/ stage' = [stage EXCEPT ![Service] = "idle"]
         /\ enabled' => enabled \/ (step = "enable" /\ unit # "none")
         /\ step = "disable" => ~enabled'
         /\ step = "enable" => enabled'
         /\ step # "disable" /\ enabled => enabled'
         /\ active' => active \/ step \in {"start", "bootstrap", "kickstart"}
         /\ step = "stop" => ~active'
         /\ step \in {"start", "bootstrap", "kickstart"} => active'
         /\ step \in {"enable", "disable"} => loaded' = loaded
         /\ step = "reload" /\ unit # "none" => loaded' = unit
         /\ step = "start" /\ loaded = unit => loaded' = unit
         /\ step = "start" /\ ~active => ran' = loaded'
         /\ step = "bootstrap" => loaded' = unit
         /\ step = "kickstart" => loaded' = loaded /\ ran' = loaded
         /\ (os = "macos" /\ active => loaded # "none") =>
              (os = "macos" /\ active' => loaded' # "none")
<1> USE DEF ManagerStep, Cannot, Startable, fileVars
<1>1. CASE step = "reload"
  BY <1>1 DEF Reload
<1>2. CASE step = "enable"
  BY <1>2 DEF Enable
<1>3. CASE step = "disable"
  BY <1>3 DEF Disable
<1>4. CASE step = "start"
  BY <1>4 DEF StartUnit, SettingsAssumption
<1>5. CASE step = "stop"
  BY <1>5 DEF StopUnit, EndService
<1>6. CASE step = "bootstrap"
  BY <1>6 DEF Bootstrap, SettingsAssumption
<1>7. CASE step = "kickstart"
  BY <1>7 DEF Kickstart, EndService
<1> QED
  BY <1>1, <1>2, <1>3, <1>4, <1>5, <1>6, <1>7

\* A step the manager takes.
LEMMA ManagerSteps ==
  ASSUME SettingsAssumption, StoreInv, UnitInv, NEW p \in Clis, InScript(p),
         ManagerStep(NextStep(p)), NextSteps(p),
         UNCHANGED <<command, os, daemon, chosen, refused>>,
         unmet' = [unmet EXCEPT ![p] = IF NextStep(p) = "start" /\ active
                                       THEN @ \cup {"start"} ELSE @]
  PROVE  UnitInv'
<1>1. stage[p] = "script" /\ Scripted(p) /\ command[p] \in UnitCommands
        /\ script[p] # <<>>
  BY ScriptAlone DEF InScript, UnitInv
<1>2. /\ script' \in [Clis -> Seq(StepNames)] /\ unmet' \in [Clis -> SUBSET Passable]
      /\ unmet'[p] = IF NextStep(p) = "start" /\ active THEN unmet[p] \cup {"start"}
                     ELSE unmet[p]
  BY TailTyped DEF NextSteps, UnitInv, UnitTyped, Passable
<1>3. NextStep(p) \in {"reload", "enable", "disable", "start", "stop", "bootstrap",
                       "kickstart"}
  BY DEF ManagerStep
<1>4. os \in {"linux", "macos"} /\ NothingOrphaned /\ Launchd
  BY DEF UnitInv, UnitTyped
<1>5. /\ Launchd' /\ NothingOrphaned' /\ Scripted(p)'
  <2>1. CASE command[p] = "install"
    <3>1. Installing(p)
      BY <1>1, <2>1 DEF Scripted
    <3>2. Rest(p)' /\ Left(p)' = Left(p) - 1 /\ Total(p)' = Total(p)
      BY <2>1, <3>1, RestOfTail DEF Installing
    <3>3. PICK n, t : n = Left(p) /\ t = Total(p)
      OBVIOUS
    <3>4. /\ n \in {1, 2, 3} /\ t \in {5, 7}
          /\ os = "linux" => NextStep(p) = IF n = 3 THEN "reload"
                                           ELSE IF n = 2 THEN "enable" ELSE "start"
          /\ os = "macos" => NextStep(p) = IF n = 3 THEN "stop"
                                           ELSE IF n = 2 THEN "bootstrap"
                                           ELSE "kickstart"
      <4>1. /\ n \in 1..t /\ t \in {5, 7} /\ n # t /\ n # t - 1
            /\ n \notin 4..(t - 2)
        BY <1>1, <1>3, <2>1, <3>1, <3>3, InstallOrder DEF Installing
      <4>2. n \in {1, 2, 3}
        BY <4>1
      <4> QED
        BY <1>1, <2>1, <3>1, <3>3, <4>1, <4>2, InstallOrder DEF Installing
    <3>5. InstallAt(p, n, t)
      BY <3>1, <3>3 DEF Installing
    <3>6. unit # "none" /\ unit = chosen[p] /\ unit' = unit
      BY <3>4, <3>5, ManagerEffect DEF InstallAt
    <3>7. CASE os = "linux"
      <4>1. /\ n = 3 => NextStep(p) = "reload" /\ loaded' = unit'
            /\ n = 2 => NextStep(p) = "enable" /\ enabled' /\ loaded' = loaded
            /\ n = 1 => NextStep(p) = "start" /\ active' /\ (enabled => enabled')
                         /\ (loaded = unit => loaded' = unit')
                         /\ (~active => ran' = loaded')
        BY <3>4, <3>6, <3>7, ManagerEffect
      <4>2. InstallAt(p, n - 1, t)'
        <5>1. CASE n = 3
          BY <1>2, <3>5, <3>6, <3>7, <4>1, <5>1 DEF InstallAt
        <5>2. CASE n = 2
          BY <1>2, <3>5, <3>6, <3>7, <4>1, <5>2 DEF InstallAt
        <5>3. CASE n = 1
          <6>1. /\ unmet[p] \subseteq unmet'[p]
                /\ active => "start" \in unmet'[p]
            BY <1>2, <3>7, <4>1, <5>3
          <6>2. /\ "reload" \notin unmet'[p] => loaded' = unit'
                /\ "enable" \notin unmet'[p] => enabled'
                /\ active'
            BY <3>5, <3>6, <3>7, <4>1, <5>3, <6>1 DEF InstallAt
          <6>3. {"reload", "start"} \cap unmet'[p] = {} => ran' = unit'
            BY <4>1, <5>3, <6>1, <6>2
          <6>4. n - 1 = 0 /\ unit' # "none" /\ unit' = chosen[p]
            BY <3>6, <5>3
          <6> QED
            BY <3>7, <6>2, <6>3, <6>4 DEF InstallAt
        <5> QED
          BY <3>4, <5>1, <5>2, <5>3
      <4> QED
        BY <1>4, <2>1, <3>2, <3>3, <3>6, <3>7, <4>2
        DEF Scripted, Installing, Launchd, NothingOrphaned
    <3>8. CASE os = "macos"
      <4>1. InstallAt(p, n - 1, t)'
        BY <3>4, <3>5, <3>6, <3>8, ManagerEffect DEF InstallAt
      <4>2. Launchd'
        BY <1>4, <3>4, <3>8, ManagerEffect DEF Launchd
      <4> QED
        BY <2>1, <3>2, <3>3, <3>6, <4>1, <4>2 DEF Scripted, Installing, NothingOrphaned
    <3> QED
      BY <1>4, <3>7, <3>8
  <2>2. CASE command[p] = "uninstall"
    <3>1. Uninstalling(p)
      BY <1>1, <2>2 DEF Scripted
    <3>2. Rest(p)' /\ Left(p)' = Left(p) - 1 /\ Total(p)' = Total(p)
      BY <2>2, <3>1, RestOfTail DEF Uninstalling
    <3>3. PICK n, t : n = Left(p) /\ t = Total(p)
      OBVIOUS
    <3>4. /\ os = "linux" => t = 4 /\ n \in {4, 3, 1}
              /\ (n = 4 => NextStep(p) = "stop") /\ (n = 3 => NextStep(p) = "disable")
              /\ (n = 1 => NextStep(p) = "reload")
          /\ os = "macos" => t = 2 /\ n = 2 /\ NextStep(p) = "stop"
      BY <1>1, <1>3, <2>2, <3>1, <3>3, UninstallOrder DEF Uninstalling
    <3>5. UninstallAt(n, t)
      BY <3>1, <3>3 DEF Uninstalling
    <3>6. unit' = unit /\ (enabled' => enabled) /\ (active' => active)
      BY <1>4, <3>4, ManagerEffect
    <3>7. UninstallAt(n - 1, t)'
      BY <1>4, <3>4, <3>5, <3>6, ManagerEffect DEF UninstallAt
    <3>8. Launchd' /\ NothingOrphaned'
      BY <1>4, <3>6, ManagerEffect DEF Launchd, NothingOrphaned
    <3> QED
      BY <2>2, <3>2, <3>3, <3>7, <3>8 DEF Scripted, Uninstalling
  <2>3. CASE command[p] = "start"
    <3>1. Starting(p)
      BY <1>1, <2>3 DEF Scripted
    <3>2. Rest(p)'
      BY <2>3, <3>1, RestOfTail DEF Starting
    <3>3. NextStep(p) \notin {"enable", "disable"} /\ unit' = unit
      BY <1>1, <2>3, <3>1, StartOrder, ManagerEffect DEF Starting
    <3>4. Launchd'
      BY <1>4, <3>3, ManagerEffect DEF Launchd
    <3> QED
      BY <1>4, <2>3, <3>1, <3>2, <3>3, <3>4 DEF Scripted, Starting, NothingOrphaned
  <2>4. CASE command[p] = "stop"
    <3>1. Rest(p) /\ NextStep(p) = "stop"
      BY <1>1, <2>4, StartOrder DEF Scripted
    <3>2. Rest(p)'
      BY <2>4, <3>1, RestOfTail
    <3> QED
      BY <1>4, <2>4, <3>1, <3>2, ManagerEffect DEF Scripted, Launchd, NothingOrphaned
  <2>5. CASE command[p] = "config"
    <3>1. NextStep(p) \in ConfigNames
      BY <1>1, <2>5 DEF Scripted, NextStep
    <3> QED
      BY <1>3, <3>1 DEF ConfigNames
  <2> QED
    BY <1>1, <2>1, <2>2, <2>3, <2>4, <2>5 DEF UnitCommands
<1>6. stage' = stage \/ stage' = [stage EXCEPT ![Service] = "idle"]
  BY ManagerEffect
<1> QED
  BY <1>1, <1>2, <1>5, <1>6, StepKeeps

\* A step the manager refuses.
LEMMA RefusedSteps ==
  ASSUME StoreInv, UnitInv, NEW p \in Clis, Refused(p)
  PROVE  UnitInv'
<1>1. stage[p] = "script" /\ Scripted(p) /\ command[p] \in UnitCommands
        /\ script[p] # <<>> /\ InScript(p)
  BY ScriptAlone DEF Refused, InScript, UnitInv
<1>2. UNCHANGED <<command, os, daemon, chosen, unit, loaded, enabled, active, ran>>
  BY DEF Refused, platformVars, fileVars, managerVars
<1>3. /\ NextStep(p) \in {"reload", "enable", "disable", "start", "stop",
                          "bootstrap", "kickstart"}
      /\ refused \subseteq refused'
      /\ NextStep(p) \in refused' \/ Cannot(NextStep(p))
  BY DEF Refused, NextStep
<1>4. Launchd' /\ NothingOrphaned' /\ os \in {"linux", "macos"}
  BY <1>2, <1>3 DEF UnitInv, UnitTyped, Launchd, NothingOrphaned
<1>5. CASE ~Ignored(p, NextStep(p))
  <2>1. script' = script /\ stage' = [stage EXCEPT ![p] = "failed"] /\ unmet' = unmet
    BY <1>5 DEF Refused, Goto, NextStep
  <2>2. stage'[p] = "failed"
    BY <2>1 DEF StoreInv, StoreTyped, Procs
  <2> QED
    BY <1>1, <1>2, <1>4, <2>1, <2>2, StepKeeps DEF Ended, UnitInv, UnitTyped
<1>6. CASE Ignored(p, NextStep(p))
  <2>1. NextSteps(p) /\ stage' = stage
    BY <1>6 DEF Refused, NextStep
  <2>2. /\ script' \in [Clis -> Seq(StepNames)] /\ unmet' \in [Clis -> SUBSET Passable]
        /\ unmet'[p] = unmet[p] \cup {NextStep(p)}
    <3>1. PassedOver(p, NextStep(p)) /\ NextStep(p) \in Passable
      BY <1>6 DEF Refused, NextStep, Ignored, Passable
    <3> QED
      BY <1>1, <2>1, <3>1, TailTyped DEF NextSteps, PassedOver, UnitInv, UnitTyped
  <2>3. \/ NextStep(p) \in {"reload", "enable", "disable"}
        \/ NextStep(p) = "stop" /\ command[p] \in {"install", "uninstall"}
    BY <1>6 DEF Ignored
  <2>4. CASE command[p] = "install"
    <3>1. Installing(p)
      BY <1>1, <2>4 DEF Scripted
    <3>2. Rest(p)' /\ Left(p)' = Left(p) - 1 /\ Total(p)' = Total(p)
      BY <1>1, <1>2, <2>1, <2>4, <3>1, RestOfTail DEF Installing
    <3>3. PICK n, t : n = Left(p) /\ t = Total(p)
      OBVIOUS
    <3>4. /\ n \in 1..t /\ t \in {5, 7} /\ n # t /\ n # t - 1
          /\ n \notin 4..(t - 2)
      BY <1>1, <1>3, <2>4, <3>1, <3>3, InstallOrder DEF Installing
    <3>5. n \in {1, 2, 3}
      BY <3>4
    <3>6. /\ n # 1
          /\ os = "linux" => NextStep(p) = IF n = 3 THEN "reload" ELSE "enable"
          /\ os = "macos" => n = 3
      BY <1>1, <1>4, <2>3, <2>4, <3>1, <3>3, <3>5, InstallOrder DEF Installing
    <3>7. InstallAt(p, n, t) /\ unit # "none"
      BY <3>1, <3>3, <3>4 DEF Installing, InstallAt
    <3>8. os = "linux" => NextStep(p) \in unmet'[p] /\ unmet[p] \subseteq unmet'[p]
      BY <2>2
    <3>9. InstallAt(p, n - 1, t)'
      BY <1>2, <1>4, <3>4, <3>5, <3>6, <3>7, <3>8 DEF InstallAt
    <3>10. Scripted(p)'
      BY <1>2, <2>4, <3>2, <3>3, <3>9 DEF Scripted, Installing
    <3> QED
      BY <1>1, <1>2, <1>4, <2>1, <2>2, <3>10, StepKeeps
  <2>5. CASE command[p] = "uninstall"
    <3>1. Uninstalling(p)
      BY <1>1, <2>5 DEF Scripted
    <3>2. Rest(p)' /\ Left(p)' = Left(p) - 1 /\ Total(p)' = Total(p)
      BY <1>1, <1>2, <2>1, <2>5, <3>1, RestOfTail DEF Uninstalling
    <3>3. PICK n, t : n = Left(p) /\ t = Total(p)
      OBVIOUS
    <3>4. /\ os = "linux" => t = 4 /\ n \in {4, 3, 1}
              /\ (n = 4 => NextStep(p) = "stop") /\ (n = 3 => NextStep(p) = "disable")
          /\ os = "macos" => t = 2 /\ n = 2 /\ NextStep(p) = "stop"
      BY <1>1, <1>3, <1>4, <2>5, <3>1, <3>3, UninstallOrder DEF Uninstalling
    <3>5. UninstallAt(n, t)
      BY <3>1, <3>3 DEF Uninstalling
    <3>6. NextStep(p) = "stop" => ~active \/ "stop" \in refused'
      BY <1>3 DEF Cannot, UnitInv, Launchd
    <3>7. NextStep(p) = "disable" => "disable" \in refused'
      BY <1>3 DEF Cannot
    <3>8. UninstallAt(n - 1, t)'
      BY <1>2, <1>3, <1>4, <3>4, <3>5, <3>6, <3>7 DEF UninstallAt
    <3>9. Scripted(p)'
      BY <1>2, <2>5, <3>2, <3>3, <3>8 DEF Scripted, Uninstalling
    <3> QED
      BY <1>1, <1>2, <1>4, <2>1, <2>2, <3>9, StepKeeps
  <2>6. CASE command[p] \in {"start", "stop"}
    <3>1. Rest(p)
      BY <1>1, <2>6 DEF Scripted, Starting
    <3> QED
      BY <1>1, <2>3, <2>6, <3>1, StartOrder
  <2>7. CASE command[p] = "config"
    <3>1. NextStep(p) \in ConfigNames
      BY <1>1, <2>7 DEF Scripted, NextStep
    <3> QED
      BY <1>3, <3>1 DEF ConfigNames
  <2> QED
    BY <1>1, <2>4, <2>5, <2>6, <2>7 DEF UnitCommands
<1> QED
  BY <1>5, <1>6
-----------------------------------------------------------------------------
(* The commands, and the rest of the machine.                              *)

\* A command that takes up its script, or ends.
LEMMA Begins ==
  ASSUME StoreInv, UnitInv, NEW p \in Clis, command[p] \in UnitCommands, Acting(p),
         command' = command, stage' = [stage EXCEPT ![p] = stage'[p]],
         UNCHANGED <<platformVars, fileVars, managerVars, refused>>,
         chosen' \in [Clis -> Settings], script' \in [Clis -> Seq(StepNames)],
         unmet' \in [Clis -> SUBSET Passable], stage'[p] = "script" => Scripted(p)'
  PROVE  UnitInv'
<1> USE DEF platformVars, fileVars, managerVars
<1>1. InUnitCommand(p)
  BY DEF InUnitCommand, Running, Ended, Acting
<1>2. \A q \in Clis : q # p => stage'[q] = stage[q] /\ ~InUnitCommand(q)
  BY <1>1 DEF StoreInv, StoreTyped, Procs, UnitInv, Exclusive
<1>3. \A q \in Clis : stage'[q] = "script" => q = p
  <2> SUFFICES ASSUME NEW q \in Clis, stage'[q] = "script", q # p PROVE FALSE
    OBVIOUS
  <2>1. stage[q] = "script" /\ command[q] \in UnitCommands
    BY <1>2 DEF StoreInv, Families, ServiceStages
  <2> QED
    BY <1>2, <2>1 DEF InUnitCommand, Running, Ended
<1>4. Exclusive'
  BY <1>2 DEF Exclusive, InUnitCommand, Running
<1> QED
  BY <1>3, <1>4 DEF UnitInv, UnitTyped, Launchd, NothingOrphaned

\* Every script is made of the names of steps.
LEMMA InstallTyped ==
  InstallSteps \in Seq(StepNames) /\ Len(InstallSteps) \in {5, 7}
<1>1. CASE os = "linux"
  BY <1>1 DEF InstallSteps, StepNames
<1>2. CASE os # "linux" /\ daemon = "http"
  BY <1>2 DEF InstallSteps, StepNames
<1>3. CASE os # "linux" /\ daemon # "http"
  BY <1>3 DEF InstallSteps, StepNames
<1> QED
  BY <1>1, <1>2, <1>3

LEMMA FullTyped ==
  ASSUME NEW c \in UnitCommands
  PROVE  Full(c) \in Seq(StepNames) /\ Len(Full(c)) \in Nat
<1>1. CASE c = "install"
  BY <1>1, InstallTyped DEF Full
<1>2. CASE c = "uninstall"
  <2>1. CASE os = "linux"
    BY <1>2, <2>1 DEF Full, StepNames
  <2>2. CASE os # "linux"
    BY <1>2, <2>2 DEF Full, StepNames
  <2> QED
    BY <2>1, <2>2
<1>3. CASE c = "start"
  <2>1. CASE os = "linux"
    BY <1>3, <2>1 DEF Full, StepNames
  <2>2. CASE os # "linux"
    BY <1>3, <2>2 DEF Full, StepNames
  <2> QED
    BY <2>1, <2>2
<1>4. CASE c \notin {"install", "uninstall", "start"}
  BY <1>4 DEF Full, StepNames
<1> QED
  BY <1>1, <1>2, <1>3, <1>4

\* A script taken whole.
LEMMA RestOfAll ==
  ASSUME NEW p, NEW c \in UnitCommands, command[p] = c, script[p] = Full(c)
  PROVE  Rest(p) /\ Left(p) = Total(p)
BY FullTyped DEF Rest, Left, Total

LEMMA DeniedKeeps ==
  ASSUME StoreInv, UnitInv, NEW p \in Clis, command[p] \in UnitCommands, Acting(p),
         Denied(p, stage[p])
  PROVE  UnitInv'
<1>1. stage'[p] = "failed" /\ stage' = [stage EXCEPT ![p] = "failed"]
  BY DEF Denied, Moves, Goto, StoreInv, StoreTyped, Procs
<1> QED
  BY <1>1, Begins DEF Denied, unitVars, historyVars, UnitInv, UnitTyped

LEMMA ConfigKeeps ==
  ASSUME StoreInv, UnitInv, NEW p \in Clis, Config(p)
  PROVE  UnitInv'
<1>1. CASE Denied(p, stage[p])
  BY <1>1, DeniedKeeps DEF Config, UnitCommands
<1>2. CASE ~Denied(p, stage[p])
  <2>1. PICK steps \in ConfigSteps(p) : Takes(p, stage[p], steps)
    BY <1>2 DEF Config
  <2>2. steps \in Seq(ConfigNames) /\ steps \in Seq(StepNames)
    <3>1. CASE steps = <<"truncate_saved", "write_saved">>
      BY <3>1 DEF ConfigNames, StepNames
    <3>2. CASE steps = <<"truncate_saved", "write_saved", "truncate_toml",
                         "write_toml">>
      BY <3>2 DEF ConfigNames, StepNames
    <3> QED
      BY <2>1, <3>1, <3>2 DEF ConfigSteps
  <2>3. /\ command[p] = "config" /\ Acting(p) /\ command' = command
        /\ chosen' \in [Clis -> Settings]
    BY <1>2, <2>1 DEF Config, Takes, UnitInv, UnitTyped
  <2>4. script'[p] = steps /\ script' \in [Clis -> Seq(StepNames)]
          /\ unmet' \in [Clis -> SUBSET Passable]
    BY <2>1, <2>2 DEF Takes, UnitInv, UnitTyped
  <2>5. stage' = [stage EXCEPT ![p] = stage'[p]]
    BY <2>1 DEF Takes, Moves, Goto, StoreInv, StoreTyped, Procs
  <2> QED
    BY <2>1, <2>2, <2>3, <2>4, <2>5, Begins DEF Takes, Scripted, UnitCommands
<1> QED
  BY <1>1, <1>2

LEMMA InstallKeeps ==
  ASSUME SettingsAssumption, StoreInv, UnitInv, NEW p \in Clis, Install(p)
  PROVE  UnitInv'
<1>1. CASE Denied(p, stage[p])
  BY <1>1, DeniedKeeps DEF Install, UnitCommands
<1>2. CASE ~Denied(p, stage[p])
  <2>1. /\ Takes(p, stage[p], InstallSteps) /\ command[p] = "install" /\ Acting(p)
        /\ chosen' = [chosen EXCEPT ![p] = Configured]
    BY <1>2 DEF Install
  <2>2. InstallSteps \in Seq(StepNames) /\ Full("install") = InstallSteps
    BY InstallTyped DEF Full
  <2>3. Configured \in Settings
    BY DEF Configured, SettingsAssumption
  <2>4. script'[p] = InstallSteps /\ script' \in [Clis -> Seq(StepNames)]
          /\ chosen' \in [Clis -> Settings] /\ unmet' \in [Clis -> SUBSET Passable]
    BY <2>1, <2>2, <2>3 DEF Takes, UnitInv, UnitTyped
  <2>5. stage' = [stage EXCEPT ![p] = stage'[p]]
    BY <2>1 DEF Takes, Moves, Goto, StoreInv, StoreTyped, Procs
  <2>6. command' = command /\ Full("install")' = Full("install")
    BY <2>1 DEF Takes, platformVars, Full, InstallSteps
  <2>7. Rest(p)' /\ Left(p)' = Total(p)'
    BY <2>1, <2>2, <2>4, <2>6, FullTyped DEF Rest, Left, Total, UnitCommands
  <2>8. PICK t : t = Total(p)'
    OBVIOUS
  <2>9. t \in {5, 7}
    BY <2>1, <2>6, <2>8 DEF Total, Full, InstallSteps
  <2>10. InstallAt(p, t, t)'
    BY <2>9 DEF InstallAt
  <2> QED
    BY <2>1, <2>4, <2>5, <2>6, <2>7, <2>8, <2>10, Begins
    DEF Takes, Scripted, UnitCommands, Installing
<1> QED
  BY <1>1, <1>2

LEMMA ManageKeeps ==
  ASSUME StoreInv, UnitInv, NEW p \in Clis, Manage(p)
  PROVE  UnitInv'
<1>1. CASE Denied(p, stage[p])
  BY <1>1, DeniedKeeps DEF Manage, UnitCommands
<1>2. CASE ~Denied(p, stage[p])
  <2>1. PICK steps :
          /\ Takes(p, stage[p], steps)
          /\ steps = IF command[p] = "uninstall" THEN UninstallSteps
                     ELSE IF command[p] = "start" THEN StartSteps ELSE <<"stop">>
    BY <1>2 DEF Manage
  <2>2. /\ command[p] \in {"uninstall", "start", "stop"} /\ Acting(p)
        /\ command[p] # "uninstall" => unit # "none"
        /\ chosen' = chosen
    BY <1>2 DEF Manage
  <2>3. steps \in Seq(StepNames)
    <3>1. \/ steps = Full(command[p]) \/ steps = <<>> \/ steps = <<"kickstart">>
      BY <2>1, <2>2 DEF Full, UninstallSteps, StartSteps
    <3>2. <<>> \in Seq(StepNames) /\ <<"kickstart">> \in Seq(StepNames)
      BY DEF StepNames
    <3> QED
      BY <2>2, <3>1, <3>2, FullTyped DEF UnitCommands
  <2>4. script'[p] = steps /\ script' \in [Clis -> Seq(StepNames)]
          /\ unmet' \in [Clis -> SUBSET Passable]
    BY <2>1, <2>3 DEF Takes, UnitInv, UnitTyped
  <2>5. stage' = [stage EXCEPT ![p] = stage'[p]]
    BY <2>1 DEF Takes, Moves, Goto, StoreInv, StoreTyped, Procs
  <2>6. /\ command' = command /\ Full(command[p])' = Full(command[p])
        /\ UNCHANGED <<os, unit, active, enabled, refused>>
    BY <2>1 DEF Takes, platformVars, fileVars, managerVars, Full, InstallSteps
  <2>7. CASE steps = Full(command[p])
    <3>1. Rest(p)' /\ Left(p)' = Total(p)'
      BY <2>2, <2>4, <2>6, <2>7, FullTyped DEF Rest, Left, Total, UnitCommands
    <3>2. PICK t : t = Total(p)'
      OBVIOUS
    <3>3. command[p] = "uninstall" => t \in {4, 2} /\ (os = "linux" => t = 4)
      BY <2>6, <3>2 DEF Total, Full
    <3>4. command[p] = "uninstall" => UninstallAt(t, t)'
      BY <2>6, <3>3 DEF UninstallAt
    <3>5. Scripted(p)'
      BY <2>2, <2>6, <3>1, <3>2, <3>4 DEF Scripted, Uninstalling, Starting
    <3> QED
      BY <2>1, <2>2, <2>4, <2>5, <2>6, <3>5, Begins
      DEF Takes, UnitCommands, UnitInv, UnitTyped
  <2>8. CASE steps # Full(command[p])
    <3>1. \/ command[p] = "uninstall" /\ steps = <<>> /\ unit = "none"
          \/ command[p] = "start" /\ os # "linux" /\ steps = <<"kickstart">>
      BY <2>1, <2>2, <2>8 DEF Full, UninstallSteps, StartSteps
    <3>2. CASE command[p] = "uninstall"
      <4>1. Left(p)' = 0 /\ Total(p)' \in {2, 4}
        BY <2>4, <2>6, <3>1, <3>2 DEF Left, Total, Full
      <4>2. Rest(p)'
        BY <4>1 DEF Rest
      <4>3. UninstallAt(Left(p), Total(p))'
        BY <2>6, <3>1, <3>2 DEF UninstallAt, UnitInv, NothingOrphaned
      <4> QED
        BY <2>1, <2>2, <2>4, <2>5, <2>6, <3>2, <4>2, <4>3, Begins
        DEF Takes, UnitCommands, UnitInv, UnitTyped, Scripted, Uninstalling
    <3>3. CASE command[p] = "start"
      <4>1. script'[p] = <<"kickstart">> /\ os' # "linux"
        BY <2>4, <2>6, <3>1, <3>3
      <4>2. Left(p)' = 1 /\ Full("start")' = <<"bootstrap", "kickstart">>
        BY <4>1 DEF Left, Full
      <4>3. Total(p)' = 2
        BY <2>6, <3>3, <4>2 DEF Total
      <4>4. 1 + Total(p)' - Left(p)' = 2
        BY <4>2, <4>3
      <4>5. \A i \in 1..Left(p)' : i = 1
        BY <4>2
      <4>6. Rest(p)'
        BY <2>6, <3>3, <4>1, <4>2, <4>3, <4>4, <4>5 DEF Rest
      <4> QED
        BY <2>1, <2>2, <2>4, <2>5, <2>6, <3>3, <4>6, Begins
        DEF Takes, UnitCommands, UnitInv, UnitTyped, Scripted, Starting
    <3> QED
      BY <3>1, <3>2, <3>3
  <2> QED
    BY <2>7, <2>8
<1> QED
  BY <1>1, <1>2

LEMMA AdministerKeeps ==
  ASSUME SettingsAssumption, StoreInv, UnitInv, NEW p \in Clis, Administer(p)
  PROVE  UnitInv'
<1>1. CASE Step(p)
  <2>1. /\ InScript(p) /\ NextSteps(p)
        /\ FileStep(p, NextStep(p)) \/ ManagerStep(NextStep(p))
        /\ UNCHANGED <<command, os, daemon, chosen, refused>>
        /\ unmet' = [unmet EXCEPT ![p] = IF NextStep(p) = "start" /\ active
                                         THEN @ \cup {"start"} ELSE @]
    BY <1>1 DEF Step, NextStep, platformVars, PassedOver, UnitInv, UnitTyped
  <2>2. FileStep(p, NextStep(p)) => unmet' = unmet
    BY <1>1 DEF FileStep, Step, NextStep
  <2> QED
    BY <2>1, <2>2, FileSteps, ManagerSteps
<1>2. CASE Finish(p)
  <2>1. command' = command /\ UNCHANGED unitVars /\ stage[p] = "script"
          /\ stage' = [stage EXCEPT ![p] = "done"]
    BY <1>2 DEF Finish, Moves, Goto
  <2>2. Quiet
    BY <2>1 DEF Quiet, Running, Ended, StoreInv, StoreTyped, Procs
  <2> QED
    BY <2>1, <2>2, QuietKeeps
    DEF unitVars, platformVars, fileVars, managerVars, historyVars
<1> QED
  BY <1>1, <1>2, RefusedSteps, ConfigKeeps, InstallKeeps, ManageKeeps DEF Administer

LEMMA IssueKeeps ==
  ASSUME StoreInv, UnitInv, NEW p \in Clis, Issue(p)
  PROVE  UnitInv'
<1>0. PICK c : c = Head(agenda[p])
  OBVIOUS
<1>1. PICK where \in {"load", "command", "failed"} :
        /\ Begin(p, c, where)
        /\ c \in UnitCommands => \A q \in Clis : ~InUnitCommand(q)
  BY <1>0 DEF Issue, StageOf
<1>2. /\ stage'[p] = where /\ command'[p] = c
      /\ \A q \in Clis : q # p => stage'[q] = stage[q] /\ command'[q] = command[q]
  BY <1>1 DEF Begin, Goto, StoreInv, StoreTyped, Procs
<1>3. UNCHANGED <<os, daemon, unit, loaded, enabled, active, ran, chosen, script,
                  historyVars>>
  BY DEF Issue, unitVars, platformVars, fileVars, managerVars
<1>4. Exclusive'
  BY <1>1, <1>2 DEF UnitInv, Exclusive, InUnitCommand, Running
<1>5. ASSUME NEW q \in Clis, stage'[q] = "script" PROVE Scripted(q)'
  BY <1>2, <1>3, <1>5, ScriptedStays DEF UnitInv
<1> QED
  BY <1>3, <1>4, <1>5 DEF UnitInv, UnitTyped, Launchd, NothingOrphaned, historyVars

\* After a reboot the manager starts what has its file.
LEMMA RebootKeeps ==
  ASSUME SettingsAssumption, StoreInv, UnitInv, Reboot
  PROVE  UnitInv'
<1>1. \A p \in Clis : stage'[p] \in Ended
  BY DEF Reboot, Running, Ended, Procs
<1>2. Exclusive' /\ \A p \in Clis : stage'[p] # "script"
  BY <1>1 DEF Exclusive, InUnitCommand, Running, Ended
<1>3. Launchd' /\ NothingOrphaned'
  BY DEF Reboot, Startable, SettingsAssumption, UnitInv, Launchd, NothingOrphaned,
         platformVars, fileVars, historyVars
<1> QED
  BY <1>2, <1>3 DEF Reboot, UnitInv, UnitTyped, platformVars, historyVars

LEMMA StepUnitInv ==
  ASSUME StoreAssumption, SettingsAssumption, StoreInv, UnitInv, [Next]_vars
  PROVE  UnitInv'
<1> USE DEF unitVars, platformVars, fileVars, managerVars, historyVars
<1>1. CASE UNCHANGED vars
  <2>1. Quiet
    BY <1>1 DEF vars, storeVars, processVars, Quiet, Running
  <2> QED
    BY <1>1, <2>1, QuietKeeps DEF vars
<1>2. ASSUME NEW p \in Clis, Cli(p) PROVE UnitInv'
  <2>1. CASE Issue(p)
    BY <2>1, IssueKeeps
  <2>2. CASE (LoadRuntime(p) \/ Report(p) \/ Download(p)) /\ UNCHANGED unitVars
    BY <2>2, StoreQuiet, QuietKeeps DEF Procs
  <2>3. CASE Wizard(p) /\ UNCHANGED unitVars
    BY <2>3, WizardQuiet, QuietKeeps
  <2>4. CASE Administer(p)
    BY <2>4, AdministerKeeps
  <2> QED
    BY <1>2, <2>1, <2>2, <2>3, <2>4 DEF Cli
<1>3. CASE Serve
  BY <1>3, StoreQuiet, WarmQuiet, QuietKeeps DEF Serve, Procs
<1>4. CASE Ready
  BY <1>4, WarmQuiet, QuietKeeps DEF Ready
<1>5. CASE Managed
  <2>1. Quiet
    BY <1>5 DEF Managed, KeepRunning, Begin, Goto, Quiet, Running, StoreAssumption,
                StoreInv, StoreTyped, Procs
  <2> QED
    BY <1>5, <2>1, QuietKeeps DEF Managed, KeepRunning
<1>6. ASSUME NEW a \in Assets, Damage(a), UNCHANGED unitVars PROVE UnitInv'
  <2>1. Quiet
    BY <1>6 DEF Damage, processVars, Quiet, Running
  <2> QED
    BY <1>6, <2>1, QuietKeeps
<1>7. ASSUME NEW p \in Procs, Killed(p) PROVE UnitInv'
  <2>1. Quiet
    BY <1>7 DEF Killed, Goto, Quiet, Running, Ended, StoreInv, StoreTyped, Procs
  <2> QED
    BY <1>7, <2>1, QuietKeeps DEF Killed
<1> QED
  BY <1>1, <1>2, <1>3, <1>4, <1>5, <1>6, <1>7, RebootKeeps DEF Next, Mischief

LEMMA InitUnitInv == SettingsAssumption /\ Init => UnitInv
<1> SUFFICES ASSUME SettingsAssumption, Init PROVE UnitInv
  OBVIOUS
<1>1. UnitTyped
  BY DEF Init, ServiceInit, SettingsAssumption, UnitTyped
<1>3. enabled => unit # "none" /\ os = "linux"
  BY DEF Init, ServiceInit, SettingsAssumption
<1>4. active => unit # "none" /\ loaded # "none"
  BY DEF Init, ServiceInit, SettingsAssumption
<1>2. Exclusive /\ \A p \in Clis : stage[p] # "script"
  BY DEF Init, StoreInit, Exclusive, InUnitCommand, Running, Ended, Procs
<1> QED
  BY <1>1, <1>2, <1>3, <1>4 DEF UnitInv, Launchd, NothingOrphaned
-----------------------------------------------------------------------------
(* What the commands that manage the service do.                           *)

Managing == StoreInv /\ UnitInv

LEMMA InitManaging == StoreAssumption /\ SettingsAssumption /\ Init => Managing
BY InitStoreInv, InitUnitInv DEF Managing

LEMMA StepManaging ==
  StoreAssumption /\ SettingsAssumption /\ Managing /\ [Next]_vars => Managing'
BY StepStoreInv, StepUnitInv DEF Managing

\* A service that starts at boot, or runs, has its unit file, unless the manager
\* refused a step of an uninstallation (Uninstall of stt-cli main.rs): wherever
\* a command is killed, the machine reboots or a step is refused.
THEOREM UnitNothingOrphaned ==
  StoreAssumption /\ SettingsAssumption => (Spec => []NothingOrphaned)
<1> SUFFICES ASSUME StoreAssumption, SettingsAssumption
             PROVE  Spec => []NothingOrphaned
  OBVIOUS
<1>1. Init => Managing
  BY InitManaging
<1>2. Managing /\ [Next]_vars => Managing'
  BY StepManaging
<1>3. Managing => NothingOrphaned
  BY DEF Managing, UnitInv
<1> QED
  BY <1>1, <1>2, <1>3, PTL DEF Spec

\* Only an installation whose script is finished ends well.
LEMMA DoneIsFinished ==
  ASSUME StoreAssumption, StoreInv, [Next]_vars, NEW p \in Clis, stage[p] = "script",
         stage'[p] = "done", command[p] = "install"
  PROVE  script[p] = <<>> /\ UNCHANGED unitVars
<1> USE DEF StoreInv, StoreTyped, Procs, StoreAssumption, Moves, Goto
<1>1. ASSUME NEW q \in Procs, LoadRuntime(q) \/ Report(q) \/ Download(q) PROVE FALSE
  BY <1>1 DEF LoadRuntime, Validate, Loaded, Report, VerifyAll, VerifyEntry, Verified,
              Download, PassOver, Fetch, Received, Check, Move, Fetched, GetArchive,
              Extract, ArchiveEnds, GivesUp
<1>2. ASSUME NEW q \in Clis, Wizard(q) PROVE FALSE
  BY <1>2 DEF Wizard, FindPython, CheckFfmpeg, GetFfmpeg, CopyFfmpeg, PrepareVenv,
              CreateVenv, InstallDeps, AssetsReported, CheckCapu
<1>3. ASSUME Warm \/ Construct PROVE FALSE
  BY <1>3 DEF Warm, ResolveModels, ResolveEntry, Resolved, ConstructFails, Construct
<1>4. ASSUME NEW q \in Clis, Issue(q) PROVE FALSE
  BY <1>4 DEF Issue, Begin, Running, Ended, StageOf
<1>5. ASSUME Managed PROVE FALSE
  BY <1>5 DEF Managed, KeepRunning, Begin
<1>6. ASSUME Mischief PROVE FALSE
  BY <1>6 DEF Mischief, Damage, Killed, Reboot, Running, Ended, processVars
<1>7. ASSUME NEW q \in Clis, Administer(q)
      PROVE  script[p] = <<>> /\ UNCHANGED unitVars
  <2>1. CASE Config(q) \/ Install(q) \/ Manage(q)
    BY <2>1 DEF Config, Install, Manage, Denied, Takes, Acting
  <2>2. CASE Refused(q)
    BY <2>2 DEF Refused, InScript
  <2>3. CASE Finish(q)
    BY <2>3 DEF Finish
  <2>4. CASE Step(q)
    <3>1. stage'[p] = stage[p]
      BY <2>4 DEF Step, FileStep, ManagerStep, Reload, Enable, Disable, StartUnit,
                  StopUnit, Bootstrap, Kickstart, EndService
    <3> QED
      BY <3>1
  <2> QED
    BY <1>7, <2>1, <2>2, <2>3, <2>4 DEF Administer
<1>8. ~UNCHANGED vars
  BY DEF vars, storeVars, processVars
<1> QED
  BY <1>1, <1>2, <1>3, <1>4, <1>5, <1>6, <1>7, <1>8 DEF Next, Cli, Serve, Ready

\* An installation that reports success: the service is to run from the unit that
\* was written, the manager has read that unit and the process was started from it
\* (Install of stt-cli main.rs), except for the steps systemd refused and this
\* installation passed over, and for a service that systemd found already active.
THEOREM UnitInstallApplies ==
  StoreAssumption /\ SettingsAssumption => (Spec => InstallApplies)
<1> SUFFICES ASSUME StoreAssumption, SettingsAssumption
             PROVE  Spec => InstallApplies
  OBVIOUS
<1>1. Init => Managing
  BY InitManaging
<1>2. Managing /\ [Next]_vars => Managing'
  BY StepManaging
<1>3. Managing /\ [Next]_vars =>
        [\A p \in Clis :
           stage[p] = "script" /\ stage'[p] = "done" /\ command[p] = "install" =>
             /\ active /\ unit = chosen[p]
             /\ os = "linux" /\ "enable" \notin unmet[p] => enabled
             /\ "reload" \notin unmet[p] => loaded = unit
             /\ {"reload", "start"} \cap unmet[p] = {} => ran = unit
        ]_<<storeVars, unitVars>>
  <2> SUFFICES ASSUME Managing, [Next]_vars, NEW p \in Clis, stage[p] = "script",
                      stage'[p] = "done", command[p] = "install"
               PROVE  /\ active /\ unit = chosen[p]
                      /\ os = "linux" /\ "enable" \notin unmet[p] => enabled
                      /\ "reload" \notin unmet[p] => loaded = unit
                      /\ {"reload", "start"} \cap unmet[p] = {} => ran = unit
    OBVIOUS
  <2>1. script[p] = <<>>
    BY DoneIsFinished DEF Managing
  <2>2. Installing(p) /\ os \in {"linux", "macos"}
    BY DEF Managing, UnitInv, UnitTyped, Scripted
  <2>3. Left(p) = 0 /\ Total(p) \in {5, 7}
    BY <2>1, InstallTyped DEF Left, Total, Full
  <2>4. PICK t : t = Total(p)
    OBVIOUS
  <2>5. InstallAt(p, 0, t) /\ t \in {5, 7}
    BY <2>2, <2>3, <2>4 DEF Installing
  <2> QED
    BY <2>2, <2>5 DEF InstallAt
<1> QED
  BY <1>1, <1>2, <1>3, PTL DEF Spec, InstallApplies
-----------------------------------------------------------------------------
(* Settings, and copies of them that were written in part.                 *)

Torn == Settings \cup {"none", "torn"}

\* The files of the service and the manager's copies: launchd is only told of
\* units that it can start.
FilesTyped ==
  /\ saved \in Torn /\ unit \in Torn /\ loaded \in Torn
  /\ ran \in Settings /\ toml \in {"whole", "torn"}
  /\ os = "macos" => loaded \in Settings \cup {"none"}

\* Packages are installed in a whole environment only, and stay.
WorkerTyped ==
  venv \in {"none", "partial", "whole"} /\ (deps => venv = "whole")
-----------------------------------------------------------------------------
(* The service's files.                                                    *)

\* Only systemd is told to read the units again and asked to start one, only
\* launchd to start a process over.
LEMMA ManagersOwn ==
  ASSUME StoreInv, UnitInv, NEW p \in Clis, InScript(p)
  PROVE  /\ os = "macos" => NextStep(p) \notin {"reload", "start"}
         /\ os = "linux" => NextStep(p) # "kickstart"
<1>1. Scripted(p) /\ command[p] \in UnitCommands /\ script[p] # <<>>
  BY ScriptAlone DEF InScript, UnitInv
<1>2. CASE command[p] = "config"
  <2>1. script[p] \in Seq(ConfigNames)
    BY <1>1, <1>2 DEF Scripted
  <2>2. NextStep(p) \in ConfigNames
    BY <1>1, <2>1 DEF NextStep
  <2> QED
    BY <2>2 DEF ConfigNames
<1>3. CASE command[p] # "config"
  <2>1. Rest(p)
    BY <1>1, <1>3 DEF Scripted, Installing, Uninstalling, Starting, UnitCommands
  <2>2. /\ Left(p) \in 1..Total(p) /\ Total(p) \in Nat
        /\ NextStep(p) = Full(command[p])[1 + Total(p) - Left(p)]
    BY <1>1, <1>3, <2>1, NextIs
  <2>3. \A i \in 1..Total(p) :
          /\ os = "macos" => Full(command[p])[i] \notin {"reload", "start"}
          /\ os = "linux" => Full(command[p])[i] # "kickstart"
    BY <1>1, <1>3 DEF Total, Full, InstallSteps, UnitCommands
  <2> QED
    BY <2>2, <2>3
<1> QED
  BY <1>2, <1>3

LEMMA ScriptFiles ==
  ASSUME SettingsAssumption, StoreInv, UnitInv, FilesTyped, NEW p \in Clis, Step(p)
  PROVE  FilesTyped'
<1> USE DEF FilesTyped, Torn
<1>1. InScript(p) /\ os' = os
  BY DEF Step, platformVars
<1>2. chosen[p] \in Settings
  BY DEF UnitInv, UnitTyped
<1>3. CASE FileStep(p, Head(script[p]))
  BY <1>1, <1>2, <1>3 DEF FileStep, managerVars
<1>4. CASE ManagerStep(Head(script[p]))
  <2>1. /\ os = "macos" => NextStep(p) \notin {"reload", "start"}
        /\ os = "linux" => NextStep(p) # "kickstart"
    BY <1>1, ManagersOwn
  <2>2. UNCHANGED <<saved, unit, toml>>
    BY <1>4 DEF ManagerStep, fileVars
  <2>3. PICK step : step = NextStep(p)
    OBVIOUS
  <2>4. /\ ~Cannot(step)
        /\ \/ step = "reload" /\ Reload
           \/ step = "enable" /\ Enable
           \/ step = "disable" /\ Disable
           \/ step = "start" /\ StartUnit
           \/ step = "stop" /\ StopUnit
           \/ step = "bootstrap" /\ Bootstrap
           \/ step = "kickstart" /\ Kickstart
    BY <1>4, <2>3 DEF ManagerStep, NextStep
  <2>5. /\ loaded' \in Torn /\ ran' \in Settings
        /\ os = "macos" => loaded' \in Settings \cup {"none"}
    <3> USE <2>4, <2>1, <2>3
    <3>1. CASE step = "reload"
      BY <3>1 DEF Reload, Enable, Disable, UnitInv, UnitTyped
    <3>2. CASE step = "enable" \/ step = "disable"
      BY <3>2 DEF Enable, Disable
    <3>3. CASE step = "start"
      BY <3>3 DEF StartUnit, Cannot, Startable
    <3>4. CASE step = "stop"
      BY <3>4 DEF StopUnit
    <3>5. CASE step = "bootstrap"
      BY <3>5 DEF Bootstrap, Cannot, Startable
    <3>6. CASE step = "kickstart"
      BY <3>6 DEF Kickstart, Cannot, UnitInv, UnitTyped
    <3> QED
      BY <3>1, <3>2, <3>3, <3>4, <3>5, <3>6
  <2> QED
    BY <1>1, <2>2, <2>5
<1> QED
  BY <1>3, <1>4 DEF Step

LEMMA StepFiles ==
  ASSUME SettingsAssumption, StoreInv, UnitInv, FilesTyped, [Next]_vars
  PROVE  FilesTyped'
<1> USE DEF FilesTyped, Torn, unitVars, platformVars, fileVars, managerVars
<1>1. CASE UNCHANGED unitVars
  BY <1>1
<1>2. ASSUME NEW p \in Clis, Administer(p) PROVE FilesTyped'
  <2>1. CASE Step(p)
    BY <2>1, ScriptFiles
  <2>2. CASE ~Step(p)
    <3>1. UNCHANGED <<platformVars, fileVars, managerVars>>
      BY <1>2, <2>2 DEF Administer, Config, Install, Manage, Denied, Takes, Refused, Finish
    <3> QED
      BY <3>1
  <2> QED
    BY <2>1, <2>2
<1>3. CASE Managed
  BY <1>3 DEF Managed, KeepRunning, Startable
<1>4. CASE Reboot
  BY <1>4 DEF Reboot, Startable
<1>5. CASE UNCHANGED vars
  BY <1>5 DEF vars
<1> QED
  BY <1>1, <1>2, <1>3, <1>4, <1>5
     DEF Next, Cli, Issue, Serve, Ready, Mischief, Killed
-----------------------------------------------------------------------------
(* The machine of the worker.                                              *)

LEMMA StepWorker ==
  ASSUME WorkerTyped, [Next]_vars
  PROVE  WorkerTyped'
<1> USE DEF WorkerTyped, setupVars, machineVars
<1>1. CASE UNCHANGED <<venv, deps>>
  BY <1>1
<1>2. ASSUME NEW p \in Clis, Wizard(p) PROVE WorkerTyped'
  BY <1>2 DEF Wizard, FindPython, CheckFfmpeg, GetFfmpeg, CopyFfmpeg, PrepareVenv,
              CreateVenv, InstallDeps, AssetsReported, CheckCapu
<1>3. CASE UNCHANGED vars
  BY <1>3 DEF vars
<1> QED
  BY <1>1, <1>2, <1>3 DEF Next, Cli, Issue, Serve, Ready, Managed, Mischief, Killed
-----------------------------------------------------------------------------
(* A setup that is alone.                                                  *)

\* What is found on a machine.
MachineTyped ==
  /\ build \in {"broken", "works"}
  /\ ffmpegs \in [{Places[i] : i \in 1..4} -> {"none", "broken", "works"}]

\* The ffmpeg the program takes works, or setup could do nothing about it.
FfmpegServes ==
  /\ resolve_ffmpeg # "nothing"
  /\ \/ ffmpegs[resolve_ffmpeg] = "works"
     \/ resolve_ffmpeg \in {"FFMPEG", "common"}
     \/ build = "broken"

\* No other setup runs beside the one that is alone.
Apart ==
  \A p \in alone :
    /\ p \in Clis /\ command[p] = "setup"
    /\ \A q \in Clis \ {p} : ~SetupRuns(q)

\* Where a setup can be, and what it has achieved by then.
AfterFfmpeg == {"venv", "newvenv", "pip", "verify", "capu", "done"}
AfterPip == {"verify", "capu", "done"}
SettingUp(p) ==
  command[p] = "setup" =>
    /\ stage[p] \in {"load", "ready", "verify", "done", "failed", "killed"} \cup SetupStages
    /\ stage[p] \in AfterPip => deps
    /\ stage[p] \in AfterFfmpeg /\ p \in alone => FfmpegServes

SetupInv ==
  /\ WorkerTyped /\ MachineTyped /\ Apart
  /\ \A p \in Clis : SettingUp(p)

LEMMA PlacesAre ==
  {Places[i] : i \in 1..4} = {"FFMPEG", "common", "sibling", "PATH"}
BY DEF Places

\* What resolve_ffmpeg takes when there is a file beside the executable.
LEMMA ResolveFfmpeg ==
  ASSUME NEW files, files["sibling"] # "none"
  PROVE  LET HasFile(place) == files[place] # "none" IN
         First(Places, HasFile) \in {"FFMPEG", "common", "sibling"}
<1> DEFINE HasFile(place) == files[place] # "none"
           fit == {i \in 1..4 : HasFile(Places[i])}
           first == CHOOSE i \in fit : \A j \in fit : i <= j
<1>1. /\ Places[1] = "FFMPEG" /\ Places[2] = "common"
      /\ Places[3] = "sibling" /\ Places[4] = "PATH"
  BY DEF Places
<1>2. 3 \in fit
  BY <1>1
<1>3. \E i \in fit : \A j \in fit : i <= j
  <2>1. CASE 1 \in fit
    BY <2>1
  <2>2. CASE 1 \notin fit /\ 2 \in fit
    BY <2>2
  <2>3. CASE 1 \notin fit /\ 2 \notin fit
    BY <2>3, <1>2
  <2> QED
    BY <2>1, <2>2, <2>3
<1>4. first \in fit /\ first <= 3
  BY <1>2, <1>3
<1>5. First(Places, HasFile) = Places[first]
  BY <1>2 DEF First
<1> HIDE DEF first
<1>6. first \in 1..3
  BY <1>4
<1> QED
  BY <1>1, <1>5, <1>6
\* Steps of others, and those that take a setup to where it has nothing to show.
Aloof ==
  \A p \in Clis :
    /\ command'[p] = command[p] /\ (Running(p)' => Running(p))
    /\ command[p] = "setup" => stage'[p] \in {stage[p], "ready", "failed", "killed"}

LEMMA AloofKeeps ==
  ASSUME SetupInv, Aloof, UNCHANGED setupVars
  PROVE  SetupInv'
<1> USE DEF SetupInv, setupVars, machineVars
<1>1. FfmpegServes' <=> FfmpegServes
  BY DEF FfmpegServes, resolve_ffmpeg, First
<1>2. Apart'
  BY DEF Apart, Aloof, SetupRuns
<1>3. ASSUME NEW p \in Clis PROVE SettingUp(p)'
  BY <1>1, <1>3 DEF Aloof, SettingUp, AfterPip, AfterFfmpeg, SetupStages
<1> QED
  BY <1>2, <1>3 DEF WorkerTyped, MachineTyped

LEMMA StoreAloof ==
  ASSUME StoreAssumption, StoreInv, SetupInv, NEW p \in Procs,
         LoadRuntime(p) \/ Report(p) \/ (p \in Clis /\ Download(p))
  PROVE  Aloof
<1> USE DEF StoreInv, StoreTyped, Running, Ended, Moves, Goto, Procs
<1>1. command' = command
  BY DEF LoadRuntime, Validate, Loaded, Report, VerifyAll, VerifyEntry, Verified,
         Download, PassOver, Fetch, Received, Check, Move, Fetched, GetArchive,
         Extract, ArchiveEnds, GivesUp
<1>2. \/ stage' = stage
      \/ /\ stage[p] \notin Ended /\ stage' = [stage EXCEPT ![p] = stage'[p]]
         /\ p \in Clis /\ command[p] = "setup" => stage'[p] \in {"ready", "failed"}
  <2>1. CASE LoadRuntime(p)
    BY <2>1 DEF LoadRuntime, Validate, Loaded
  <2>2. CASE Report(p)
    BY <2>2 DEF Report, VerifyAll, VerifyEntry, Verified
  <2>3. CASE p \in Clis /\ Download(p)
    <3>1. command[p] = "setup" =>
            stage[p] \notin {"fetch", "receive", "check", "move", "archive", "extract"}
      BY <2>3 DEF SetupInv, SettingUp, SetupStages
    <3> QED
      BY <2>3, <3>1 DEF Download, PassOver, Fetch, Received, Check, Move, Fetched,
                        GetArchive, Extract, ArchiveEnds, GivesUp
  <2> QED
    BY <2>1, <2>2, <2>3
<1> QED
  BY <1>1, <1>2 DEF Aloof

LEMMA AdministerAloof ==
  ASSUME StoreAssumption, StoreInv, NEW p \in Clis, Administer(p)
  PROVE  Aloof
<1> USE DEF StoreInv, StoreTyped, Running, Ended, Moves, Goto, Procs, StoreAssumption
<1>1. command' = command
  BY DEF Administer, Config, Install, Manage, Step, Refused, Finish, Denied, Takes
<1>2. \/ stage' = stage \/ stage' = [stage EXCEPT ![Service] = "idle"]
      \/ /\ stage[p] \notin Ended /\ stage' = [stage EXCEPT ![p] = stage'[p]]
         /\ command[p] # "setup"
  <2>1. CASE Config(p) \/ Install(p) \/ Manage(p)
    BY <2>1 DEF Config, Install, Manage, Denied, Takes, Acting
  <2>2. CASE Step(p)
    BY <2>2 DEF Step, FileStep, ManagerStep, Reload, Enable, Disable, StartUnit,
                StopUnit, Bootstrap, Kickstart, EndService
  <2>3. CASE Refused(p) \/ Finish(p)
    BY <2>3 DEF Refused, Finish, InScript, Families, ServiceStages, UnitCommands
  <2> QED
    BY <2>1, <2>2, <2>3 DEF Administer
<1> QED
  BY <1>1, <1>2 DEF Aloof

LEMMA IssueSetUp ==
  ASSUME StoreAssumption, StoreInv, SetupInv, NEW p \in Clis, Issue(p)
  PROVE  SetupInv'
<1> USE DEF StoreInv, StoreTyped, Procs, Goto
<1>1. PICK c : c = Head(agenda[p])
  OBVIOUS
<1>2. PICK where \in {"load", "command", "failed"} :
        Begin(p, c, where) /\ (where = "command" => c \in UnitCommands)
  BY <1>1 DEF Issue, StageOf
<1>3. /\ command' = [command EXCEPT ![p] = c] /\ stage' = [stage EXCEPT ![p] = where]
      /\ ~Running(p)
  BY <1>2 DEF Begin
<1>4. Accompanies(p, c) /\ UNCHANGED <<pythons, uv, build, ffmpegs, venv, deps>>
  BY <1>1 DEF Issue, machineVars
<1>5. Apart'
  <2>1. CASE c # "setup"
    BY <1>3, <1>4, <2>1 DEF Accompanies, SetupInv, Apart, SetupRuns, Running
  <2>2. CASE c = "setup" /\ \E q \in Clis \ {p} : SetupRuns(q)
    BY <1>4, <2>2 DEF Accompanies, Apart
  <2>3. CASE c = "setup" /\ \A q \in Clis \ {p} : ~SetupRuns(q)
    <3>1. alone' = {p}
      BY <1>4, <2>3 DEF Accompanies
    <3>2. \A q \in Clis \ {p} : ~SetupRuns(q)'
      BY <1>3, <2>3 DEF SetupRuns, Running
    <3>3. command'[p] = "setup"
      BY <1>3, <2>3
    <3> QED
      BY <3>1, <3>2, <3>3 DEF Apart
  <2> QED
    BY <2>1, <2>2, <2>3
<1>6. FfmpegServes' <=> FfmpegServes
  BY <1>4 DEF FfmpegServes, resolve_ffmpeg, First
<1>7. ASSUME NEW q \in Clis PROVE SettingUp(q)'
  <2>1. CASE q = p
    <3>1. command'[q] = "setup" => stage'[q] \in {"load", "failed"}
      BY <1>2, <1>3, <2>1 DEF UnitCommands
    <3> QED
      BY <3>1 DEF SettingUp, AfterPip, AfterFfmpeg
  <2>2. CASE q # p
    <3>1. q \in alone' => q \in alone
      BY <1>4, <2>2 DEF Accompanies
    <3>2. SettingUp(q)
      BY DEF SetupInv
    <3> QED
      BY <1>3, <1>4, <1>6, <2>2, <3>1, <3>2 DEF SettingUp
  <2> QED
    BY <2>1, <2>2
<1> QED
  BY <1>4, <1>5, <1>7 DEF SetupInv, WorkerTyped, MachineTyped
\* Where a step of setup leads, and what it needs and leaves there.
LEMMA WizardMoves ==
  ASSUME StoreAssumption, StoreInv, SetupInv, NEW p \in Clis, Wizard(p)
  PROVE  /\ command' = command /\ command[p] = "setup" /\ Running(p)
         /\ stage' = [stage EXCEPT ![p] = stage'[p]]
         /\ stage'[p] \in {"verify", "done", "failed"} \cup SetupStages
         /\ alone' = alone /\ build' = build /\ (deps => deps')
         /\ stage'[p] \in AfterPip => deps'
<1> USE StoreAssumption
    DEF StoreInv, StoreTyped, Procs, Moves, Goto, Running, Ended, Families, SetupStages,
        AfterPip, machineVars, setupVars, SetupInv, SettingUp
<1>1. CASE FindPython(p)
  BY <1>1 DEF FindPython
<1>2. CASE CheckFfmpeg(p)
  BY <1>2 DEF CheckFfmpeg
<1>3. CASE GetFfmpeg(p)
  BY <1>3 DEF GetFfmpeg
<1>4. CASE CopyFfmpeg(p)
  BY <1>4 DEF CopyFfmpeg
<1>5. CASE PrepareVenv(p)
  BY <1>5 DEF PrepareVenv
<1>6. CASE CreateVenv(p)
  BY <1>6 DEF CreateVenv
<1>7. CASE InstallDeps(p)
  BY <1>7 DEF InstallDeps
<1>8. CASE AssetsReported(p)
  BY <1>8 DEF AssetsReported
<1>9. CASE CheckCapu(p)
  BY <1>9 DEF CheckCapu
<1> QED
  BY <1>1, <1>2, <1>3, <1>4, <1>5, <1>6, <1>7, <1>8, <1>9 DEF Wizard

\* A copied ffmpeg works when the build does, and nothing before it can be
\* replaced; one that is checked works.
LEMMA WizardServes ==
  ASSUME StoreAssumption, StoreInv, SetupInv, NEW p \in Clis, Wizard(p), p \in alone,
         stage'[p] \in AfterFfmpeg
  PROVE  FfmpegServes'
<1> USE StoreAssumption
    DEF StoreInv, StoreTyped, Procs, Moves, Goto, machineVars, setupVars, SetupInv
<1>1. CASE CheckFfmpeg(p)
  <2>1. check_ffmpeg_installed /\ UNCHANGED <<ffmpegs, build>>
    BY <1>1 DEF CheckFfmpeg, AfterFfmpeg
  <2>2. FfmpegServes
    BY <2>1 DEF check_ffmpeg_installed, FfmpegServes
  <2> QED
    BY <2>1, <2>2 DEF FfmpegServes, resolve_ffmpeg, First
<1>2. CASE CopyFfmpeg(p)
  <2>1. /\ ffmpegs' = [ffmpegs EXCEPT !["sibling"] = build] /\ build' = build
        /\ build \in {"broken", "works"} /\ "sibling" \in DOMAIN ffmpegs
    BY <1>2, PlacesAre DEF CopyFfmpeg, MachineTyped, AfterFfmpeg
  <2>2. ffmpegs'["sibling"] = build /\ build # "none"
    BY <2>1
  <2>3. resolve_ffmpeg' \in {"FFMPEG", "common", "sibling"}
    <3>1. PICK files : files = ffmpegs'
      OBVIOUS
    <3>2. LET HasFile(place) == files[place] # "none" IN
          First(Places, HasFile) \in {"FFMPEG", "common", "sibling"}
      BY <2>2, <3>1, ResolveFfmpeg DEF First
    <3> QED
      BY <3>1, <3>2 DEF resolve_ffmpeg, First
  <2> QED
    BY <2>1, <2>2, <2>3 DEF FfmpegServes
<1>3. CASE ~CheckFfmpeg(p) /\ ~CopyFfmpeg(p)
  <2>1. stage[p] \in AfterFfmpeg /\ command[p] = "setup" /\ UNCHANGED <<ffmpegs, build>>
    BY <1>3, WizardMoves DEF Wizard, FindPython, GetFfmpeg, PrepareVenv, CreateVenv, InstallDeps,
                AssetsReported, CheckCapu, AfterFfmpeg
  <2>2. FfmpegServes
    BY <2>1 DEF SettingUp
  <2> QED
    BY <2>1, <2>2 DEF FfmpegServes, resolve_ffmpeg, First
<1> QED
  BY <1>1, <1>2, <1>3

LEMMA WizardSetUp ==
  ASSUME StoreAssumption, StoreInv, SetupInv, NEW p \in Clis, Wizard(p)
  PROVE  SetupInv'
<1> USE WizardMoves DEF StoreInv, StoreTyped, Procs
<1>1. \A q \in Clis \ {p} : q \notin alone /\ stage'[q] = stage[q]
  BY DEF SetupInv, Apart, SetupRuns
<1>2. Apart'
  BY <1>1 DEF SetupInv, Apart, SetupRuns, Running
<1>3. WorkerTyped'
  BY DEF SetupInv, WorkerTyped, setupVars, machineVars, Wizard, FindPython, CheckFfmpeg,
         GetFfmpeg, CopyFfmpeg, PrepareVenv, CreateVenv, InstallDeps, AssetsReported,
         CheckCapu
<1>4. MachineTyped'
  BY PlacesAre DEF SetupInv, MachineTyped, setupVars, machineVars, Wizard, FindPython,
         CheckFfmpeg, GetFfmpeg, CopyFfmpeg, PrepareVenv, CreateVenv, InstallDeps,
         AssetsReported, CheckCapu
<1>5. SettingUp(p)'
  BY WizardServes DEF SettingUp, AfterPip, SetupStages
<1>6. ASSUME NEW q \in Clis \ {p} PROVE SettingUp(q)'
  BY <1>1, <1>6 DEF SetupInv, SettingUp
<1> QED
  BY <1>2, <1>3, <1>4, <1>5, <1>6 DEF SetupInv

LEMMA StepSetUp ==
  ASSUME StoreAssumption, StoreInv, SetupInv, [Next]_vars
  PROVE  SetupInv'
<1> USE DEF StoreInv, StoreTyped, Procs, Goto
<1>1. ASSUME NEW p \in Clis, Issue(p) PROVE SetupInv'
  BY <1>1, IssueSetUp
<1>2. ASSUME NEW p \in Clis, Wizard(p) PROVE SetupInv'
  BY <1>2, WizardSetUp
<1>3. ASSUME NEW p \in Clis, Cli(p), ~Issue(p), ~Wizard(p) PROVE SetupInv'
  <2>1. Aloof /\ UNCHANGED setupVars
    BY <1>3, StoreAloof, AdministerAloof DEF Cli
  <2> QED
    BY <2>1, AloofKeeps
<1>4. CASE Serve \/ Ready \/ Managed
  <2>1. Aloof
    <3>1. CASE LoadRuntime(Service)
      BY <3>1, StoreAloof
    <3>2. CASE Warm \/ Construct \/ Managed
      BY <3>2, StoreAssumption
         DEF Warm, ResolveModels, ResolveEntry, Resolved, ConstructFails, Construct, Managed, KeepRunning, Begin,
             Aloof, Moves, Running, StoreAssumption
    <3> QED
      BY <1>4, <3>1, <3>2 DEF Serve, Ready
  <2> QED
    BY <1>4, <2>1, AloofKeeps DEF Serve, Ready, Managed
<1>5. CASE Mischief
  <2>1. Aloof
    BY <1>5 DEF Mischief, Damage, Killed, Reboot, Aloof, Running, Ended, processVars
  <2> QED
    BY <1>5, <2>1, AloofKeeps DEF Mischief, Killed
<1>6. CASE UNCHANGED vars
  <2>1. Aloof
    BY <1>6 DEF vars, storeVars, processVars, Aloof, Running
  <2> QED
    BY <1>6, <2>1, AloofKeeps DEF vars
<1> QED
  BY <1>1, <1>2, <1>3, <1>4, <1>5, <1>6 DEF Next
-----------------------------------------------------------------------------
(* The whole deployment.                                                   *)

DeploymentInv == Managing /\ FilesTyped /\ SetupInv

Given == StoreAssumption /\ SettingsAssumption

LEMMA InitDeployment == Given /\ Init => DeploymentInv
<1> SUFFICES ASSUME Given, Init PROVE DeploymentInv
  OBVIOUS
<1>1. Managing
  BY InitManaging DEF Given
<1>2. FilesTyped
  BY DEF Given, SettingsAssumption, Init, ServiceInit, FilesTyped, Torn
<1>3. SetupInv
  BY DEF Init, SetupInit, StoreInit, SetupInv, WorkerTyped, MachineTyped, Apart,
         SettingUp, Procs
<1> QED
  BY <1>1, <1>2, <1>3 DEF DeploymentInv

LEMMA StepDeployment == Given /\ DeploymentInv /\ [Next]_vars => DeploymentInv'
BY StepManaging, StepFiles, StepSetUp DEF Given, DeploymentInv, Managing

\* The machine is well typed: among the rest, the manager only ever runs
\* settings that were written whole, and packages are in a whole environment.
THEOREM DeploymentTypeCorrect == Given => (Spec => []TypeOK)
<1> SUFFICES ASSUME Given PROVE Spec => []TypeOK
  OBVIOUS
<1>1. Init => DeploymentInv
  BY InitDeployment
<1>2. DeploymentInv /\ [Next]_vars => DeploymentInv'
  BY StepDeployment
<1>3. DeploymentInv => TypeOK
  BY DEF DeploymentInv, Managing, StoreInv, StoreTyped, AllStages, UnitInv, UnitTyped,
         Passable,
         FilesTyped, Torn, SetupInv, WorkerTyped, Apart, TypeOK
<1> QED
  BY <1>1, <1>2, <1>3, PTL DEF Spec

\* A setup that is completed, and beside which and since which no other one
\* ran, has prepared the worker's environment and an ffmpeg, whatever earlier
\* ones left half-way (Setup, check_ffmpeg_installed of stt-cli main.rs).
THEOREM DeploymentSetupPrepares == Given => (Spec => []SetupPrepares)
<1> SUFFICES ASSUME Given PROVE Spec => []SetupPrepares
  OBVIOUS
<1>1. Init => DeploymentInv
  BY InitDeployment
<1>2. DeploymentInv /\ [Next]_vars => DeploymentInv'
  BY StepDeployment
<1>3. DeploymentInv => SetupPrepares
  BY DEF DeploymentInv, SetupInv, Apart, WorkerTyped, SettingUp, AfterPip, AfterFfmpeg,
         FfmpegServes, SetupPrepares
<1> QED
  BY <1>1, <1>2, <1>3, PTL DEF Spec
=============================================================================
