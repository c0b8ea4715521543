----------------------------- MODULE ServiceUnit -----------------------------
(***************************************************************************)
(* The operating-system service: stt-cli service and stt-cli llama-service *)
(* (stt-cli main.rs).  A command is a script of steps on files and on the  *)
(* service manager; the manager (systemd or launchd, external) restarts    *)
(* the process, and starts it when the machine boots.                      *)
(*                                                                         *)
(* A step may be refused and the command killed between two steps.  Which  *)
(* refusals end the command differs from step to step.                     *)
(***************************************************************************)
EXTENDS AssetStore

CONSTANTS
  Settings,  \* what an operator can configure
  Default    \* the settings without a saved configuration

ASSUME SettingsAssumption ==
  Default \in Settings /\ Settings \cap {"none", "torn"} = {}

VARIABLES
  os,       \* linux or macos
  daemon,   \* stt-http, or the llama-server of llama-service
  saved,    \* service.json or llama-service.json
  unit,     \* the unit file or the property list
  toml,     \* runtime.toml
  loaded,   \* the manager's copy of the unit
  enabled,  \* systemd: started at boot
  active,   \* the manager keeps the process running
  ran,      \* the settings the process was last started with
  chosen,   \* the settings a command works with
  script,   \* the steps a command has still to take
  refused,  \* history: steps refused although they could be taken
  unmet     \* history: steps of a command that had no effect, and were passed over

platformVars == <<os, daemon>>
fileVars == <<saved, unit, toml>>
managerVars == <<loaded, enabled, active, ran>>
historyVars == <<refused, unmet>>
unitVars == <<platformVars, fileVars, managerVars, chosen, script, historyVars>>

ServiceInit ==
  /\ os \in {"linux", "macos"} /\ daemon \in {"http", "llama"}
  /\ saved = "none" /\ toml = "whole"
  /\ unit \in {"none", Default}  \* not installed yet, or installed before
  /\ loaded = unit /\ ran = Default
  /\ active = (unit = Default) /\ enabled = (unit = Default /\ os = "linux")
  /\ chosen = [p \in Clis |-> Default]
  /\ script = [p \in Clis |-> <<>>]
  /\ refused = {}
  /\ unmet = [p \in Clis |-> {}]

UnitCommands == {"config", "install", "uninstall", "start", "stop"}
InUnitCommand(p) == Running(p) /\ command[p] \in UnitCommands
-----------------------------------------------------------------------------
(* Which steps a command takes.                                            *)

\* get_service_config takes the defaults for a file it cannot read;
\* get_llama_service_config gives up, and without a file looks for a llama-server.
Readable == daemon = "http" \/ saved # "torn"
Uncertain == daemon = "llama" /\ saved \notin Settings
Configured == IF saved \in Settings THEN saved ELSE Default

ConfigSteps(p) ==
  {<<"truncate_saved", "write_saved">>} \cup
  (IF daemon = "http"
     THEN {<<"truncate_saved", "write_saved", "truncate_toml", "write_toml">>}
     ELSE {})

\* Seeded defect: systemd is not told of the new unit.
NeverReloads ==
  <<"truncate_unit", "write_unit">> \o
  (IF os = "linux" THEN <<"enable", "start">>
   ELSE <<"stop", "bootstrap", "kickstart">>)
\* llama-service installs on macOS only, and saves its configuration too.
InstallSteps ==
  IF os = "linux"
    THEN <<"truncate_unit", "write_unit", "reload", "enable", "start">>
  ELSE IF daemon = "http"
    THEN <<"truncate_unit", "write_unit", "stop", "bootstrap", "kickstart">>
  ELSE <<"truncate_unit", "write_unit", "truncate_saved", "write_saved",
         "stop", "bootstrap", "kickstart">>

\* Seeded defect: the unit file is removed first.
RemovesFirst ==
  IF unit = "none" THEN <<>>
  ELSE IF os = "linux" THEN <<"remove_unit", "stop", "disable", "reload">>
  ELSE <<"remove_unit", "stop">>
\* What runs is stopped before the file without which it cannot be stopped.
UninstallSteps ==
  IF unit = "none" THEN <<>>
  ELSE IF os = "linux" THEN <<"stop", "disable", "remove_unit", "reload">>
  ELSE <<"stop", "remove_unit">>

StartSteps ==
  IF os = "linux" THEN <<"start">>
  ELSE IF loaded # "none" THEN <<"kickstart">>
  ELSE <<"bootstrap", "kickstart">>

\* Steps whose refusal the command does not look at.
Ignored(p, step) ==
  \/ step \in {"reload", "enable", "disable"}
  \/ step = "stop" /\ command[p] \in {"install", "uninstall"}
-----------------------------------------------------------------------------
(* The commands.                                                           *)

\* No root permission, no unit, no executable, a configuration that cannot be
\* read: the command ends before it changes anything.
Denied(p, from) ==
  /\ Moves(p, from, "failed")
  /\ UNCHANGED <<disk, command, todo, report, wanted, item, temp, misread,
                 struck, mishaps, unitVars>>

Takes(p, from, steps) ==
  /\ Moves(p, from, "script")
  /\ script' = [script EXCEPT ![p] = steps]
  /\ unmet' = [unmet EXCEPT ![p] = {}]
  /\ UNCHANGED <<disk, command, todo, report, wanted, item, temp, misread,
                 struck, mishaps, platformVars, fileVars, managerVars, refused>>

\* Everything of llama-service, and what manages the service only, works
\* without a runtime; the rest begins with SttRuntime::load.
StageOf(c) ==
  IF c \notin UnitCommands THEN "load"
  ELSE IF daemon = "llama" \/ c \in {"start", "stop", "uninstall"}
    THEN "command" ELSE "load"

\* The stage in which a command that needed no runtime, or has it, acts.
Acting(p) == stage[p] \in {"command", "ready"}

Config(p) ==
  /\ command[p] = "config" /\ Acting(p)
  /\ \/ Uncertain /\ Denied(p, stage[p])
     \/ /\ Readable
        /\ \E steps \in ConfigSteps(p) : Takes(p, stage[p], steps)
        /\ \E s \in Settings : chosen' = [chosen EXCEPT ![p] = s]

Install(p) ==
  /\ command[p] = "install" /\ Acting(p)
  /\ \/ Denied(p, stage[p])
     \/ /\ Readable /\ (daemon = "llama" => os = "macos")
        /\ Takes(p, stage[p], InstallSteps)
        /\ chosen' = [chosen EXCEPT ![p] = Configured]

Manage(p) ==
  /\ command[p] \in {"uninstall", "start", "stop"} /\ Acting(p)
  /\ \/ Denied(p, stage[p])
     \/ /\ daemon = "llama" => os = "macos"
        /\ command[p] = "uninstall" \/ unit # "none"
        /\ Takes(p, stage[p],
                 IF command[p] = "uninstall" THEN UninstallSteps
                 ELSE IF command[p] = "start" THEN StartSteps ELSE <<"stop">>)
        /\ UNCHANGED chosen
-----------------------------------------------------------------------------
(* The steps.                                                              *)

\* stt-http is gone; the llama-server is not a process of this model.
EndService == stage' = [stage EXCEPT ![Service] = "idle"]

Startable(u) == u \in Settings

\* fs::write truncates the file, then writes it.
FileStep(p, step) ==
  /\ step \in {"truncate_saved", "write_saved", "truncate_toml", "write_toml",
               "truncate_unit", "write_unit", "remove_unit"}
  /\ saved' = CASE step = "truncate_saved" -> "torn"
                [] step = "write_saved" -> chosen[p]
                [] OTHER -> saved
  /\ toml' = CASE step = "truncate_toml" -> "torn"
               [] step = "write_toml" -> "whole"
               [] OTHER -> toml
  /\ unit' = CASE step = "truncate_unit" -> "torn"
               [] step = "write_unit" -> chosen[p]
               [] step = "remove_unit" -> "none"
               [] OTHER -> unit
  /\ UNCHANGED <<managerVars, stage>>

\* daemon-reload: the manager reads the unit again; what runs stays.
Reload ==
  /\ loaded' = IF unit = "none" /\ active THEN loaded ELSE unit
  /\ UNCHANGED <<enabled, active, ran, stage>>

Enable == enabled' = TRUE /\ UNCHANGED <<loaded, active, ran, stage>>

Disable == enabled' = FALSE /\ UNCHANGED <<loaded, active, ran, stage>>

\* systemctl start: nothing happens when the service is active.
StartUnit ==
  LET u == IF loaded = "none" THEN unit ELSE loaded IN
  /\ IF active THEN UNCHANGED <<loaded, active, ran>>
     ELSE loaded' = u /\ active' = TRUE /\ ran' = u
  /\ UNCHANGED <<enabled, stage>>

\* systemctl stop keeps the unit, launchctl bootout unloads it.
StopUnit ==
  /\ loaded' = IF os = "macos" THEN "none" ELSE loaded
  /\ active' = FALSE /\ EndService
  /\ UNCHANGED <<enabled, ran>>

\* launchctl bootstrap loads the list and starts the process (RunAtLoad).
Bootstrap ==
  /\ loaded' = unit /\ active' = TRUE /\ ran' = unit
  /\ UNCHANGED <<enabled, stage>>

\* kickstart -k ends the process and starts it again.
Kickstart ==
  /\ active' = TRUE /\ ran' = loaded /\ EndService
  /\ UNCHANGED <<loaded, enabled>>

\* What the manager cannot do.
Cannot(step) ==
  \/ step = "enable" /\ unit = "none"
  \/ /\ step = "start" /\ ~active
     /\ ~Startable(IF loaded = "none" THEN unit ELSE loaded)
  \/ step = "stop" /\ os = "macos" /\ loaded = "none"
  \/ step = "bootstrap" /\ (loaded # "none" \/ ~Startable(unit))
  \/ step = "kickstart" /\ loaded = "none"

ManagerStep(step) ==
  /\ ~Cannot(step)
  /\ \/ step = "reload" /\ Reload
     \/ step = "enable" /\ Enable
     \/ step = "disable" /\ Disable
     \/ step = "start" /\ StartUnit
     \/ step = "stop" /\ StopUnit
     \/ step = "bootstrap" /\ Bootstrap
     \/ step = "kickstart" /\ Kickstart
  /\ UNCHANGED fileVars

InScript(p) == stage[p] = "script" /\ script[p] # <<>>
NextSteps(p) == script' = [script EXCEPT ![p] = Tail(@)]
PassedOver(p, step) == unmet' = [unmet EXCEPT ![p] = @ \cup {step}]

Step(p) ==
  /\ InScript(p)
  /\ FileStep(p, Head(script[p])) \/ ManagerStep(Head(script[p]))
  /\ NextSteps(p)
  /\ IF Head(script[p]) = "start" /\ active THEN PassedOver(p, "start")
     ELSE UNCHANGED unmet
  /\ UNCHANGED <<disk, command, todo, report, wanted, item, temp, misread,
                 struck, mishaps, platformVars, chosen, refused>>

\* The manager refuses what it cannot do, and now and then what it could.
Refused(p) ==
  LET step == Head(script[p]) IN
  /\ InScript(p)
  /\ step \in {"reload", "enable", "disable", "start", "stop", "bootstrap",
               "kickstart"}
  /\ \/ Cannot(step) /\ UNCHANGED <<mishaps, refused>>
     \/ ~Cannot(step) /\ Mishap /\ refused' = refused \cup {step}
  /\ IF Ignored(p, step) THEN NextSteps(p) /\ PassedOver(p, step) /\ UNCHANGED stage
     ELSE Goto(p, "failed") /\ UNCHANGED <<script, unmet>>
  /\ UNCHANGED <<disk, command, todo, report, wanted, item, temp, misread,
                 struck, platformVars, fileVars, managerVars, chosen>>

Finish(p) ==
  /\ script[p] = <<>> /\ Moves(p, "script", "done")
  /\ UNCHANGED <<disk, command, todo, report, wanted, item, temp, misread,
                 struck, mishaps, unitVars>>

Administer(p) ==
  Config(p) \/ Install(p) \/ Manage(p) \/ Step(p) \/ Refused(p) \/ Finish(p)
-----------------------------------------------------------------------------
(* The service manager.                                                    *)

\* Seeded defect: the unit does not ask to be restarted.
StartsOnce == stage[Service] = "idle"
\* Restart=always, KeepAlive: whatever ended the process.
Restarts == ~Running(Service)

KeepRunning ==
  /\ daemon = "http" /\ active /\ Restarts /\ Startable(loaded)
  /\ Begin(Service, "serve", IF toml = "whole" THEN "load" ELSE "failed")
  /\ ran' = loaded
  /\ UNCHANGED <<platformVars, fileVars, loaded, enabled, active, chosen,
                 script, historyVars>>

\* All processes end; the manager starts again with what it finds.
Reboot ==
  /\ Mishap
  /\ stage' = [p \in Procs |-> IF Running(p) THEN "killed" ELSE stage[p]]
  /\ loaded' = IF os = "macos" /\ ~Startable(unit) THEN "none" ELSE unit
  /\ active' = (Startable(unit) /\ (os = "linux" => enabled))
  /\ ran' = IF active' THEN unit ELSE ran
  /\ UNCHANGED <<disk, command, todo, report, wanted, item, temp, misread,
                 struck, platformVars, fileVars, enabled, chosen, script,
                 historyVars>>

ServiceStages == {"command", "script"}
-----------------------------------------------------------------------------
\* A service that starts at boot has its unit file, and a service that runs
\* has the file without which stt-cli refuses to start or to stop it, unless
\* the manager refused a step of an uninstall that is not looked at: wherever
\* a command is killed, the machine reboots or a step is refused (the order of
\* the steps of Uninstall).
NothingOrphaned ==
  /\ enabled /\ "disable" \notin refused => unit # "none"
  /\ active /\ "stop" \notin refused => unit # "none"

\* When install says the service was started, it is to run from the file that was
\* written, and under systemd also after a reboot; the manager has read that file and
\* the process was started from it.  Only what systemd refused and install passed over
\* (reload, enable) is excepted, and a service that was already active, which start
\* leaves as it is: wherever earlier commands were killed or refused (the order of the
\* steps of Install, and that it looks at the others).
InstallApplies ==
  [][\A p \in Clis :
       stage[p] = "script" /\ stage'[p] = "done" /\ command[p] = "install" =>
         /\ active /\ unit = chosen[p]
         /\ os = "linux" /\ "enable" \notin unmet[p] => enabled
         /\ "reload" \notin unmet[p] => loaded = unit
         /\ {"reload", "start"} \cap unmet[p] = {} => ran = unit
    ]_<<storeVars, unitVars>>
=============================================================================
