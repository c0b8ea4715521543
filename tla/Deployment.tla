----------------------------- MODULE Deployment -----------------------------
(***************************************************************************)
(* A machine on which native-stt is set up: commands of stt-cli that run   *)
(* at the same time (main of stt-cli), the service the manager keeps       *)
(* running (main of stt-http up to the warm start), and the files they     *)
(* share.  Commands and the service may be killed, the machine rebooted    *)
(* and files damaged.                                                      *)
(***************************************************************************)
EXTENDS Setup, ServiceUnit

VARIABLE agenda  \* the commands that are still going to be issued

vars == <<storeVars, setupVars, unitVars, agenda>>

Init ==
  /\ StoreInit /\ SetupInit /\ ServiceInit
  /\ agenda \in [Clis -> Seq(Commands)]

\* An operator issues one service command at a time, other commands at any.
\* Without a readable runtime.toml there is no runtime.
Issue(p) ==
  LET c == Head(agenda[p]) IN
  /\ agenda[p] # <<>>
  /\ c \in UnitCommands => \A q \in Clis : ~InUnitCommand(q)
  /\ Begin(p, c, IF StageOf(c) = "load" /\ toml # "whole" THEN "failed"
                 ELSE StageOf(c))
  /\ agenda' = [agenda EXCEPT ![p] = Tail(@)]
  /\ Accompanies(p, c)
  /\ UNCHANGED <<machineVars, ffmpegs, venv, deps, unitVars>>

\* A crash, a signal, the power switch of the terminal.
Killed(p) ==
  /\ Running(p) /\ Mishap /\ Goto(p, "killed")
  /\ UNCHANGED <<disk, command, todo, report, wanted, item, temp, misread,
                 struck, setupVars, unitVars, agenda>>

Serve ==
  /\ LoadRuntime(Service) \/ Warm
  /\ UNCHANGED <<setupVars, unitVars, agenda>>

Ready == Construct /\ UNCHANGED <<setupVars, unitVars, agenda>>

Managed == KeepRunning /\ UNCHANGED <<setupVars, agenda>>

Cli(p) ==
  \/ Issue(p)
  \/ /\ LoadRuntime(p) \/ Report(p) \/ Download(p)
     /\ UNCHANGED <<setupVars, unitVars, agenda>>
  \/ Wizard(p) /\ UNCHANGED <<unitVars, agenda>>
  \/ Administer(p) /\ UNCHANGED <<setupVars, agenda>>

Mischief ==
  \/ \E a \in Assets : Damage(a) /\ UNCHANGED <<setupVars, unitVars, agenda>>
  \/ \E p \in Procs : Killed(p)
  \/ Reboot /\ UNCHANGED <<setupVars, agenda>>

Next == (\E p \in Clis : Cli(p)) \/ Serve \/ Ready \/ Managed \/ Mischief

\* The manager restarts what ended, and the service runs; its warm start is
\* not too slow every time.  A command may stop for ever.
Fairness == WF_vars(Serve) /\ WF_vars(Managed) /\ SF_vars(Ready)

Spec == Init /\ [][Next]_vars /\ Fairness
-----------------------------------------------------------------------------
TypeOK ==
  /\ disk \in [Assets -> Contents]
  /\ command \in [Procs -> Commands]
  /\ stage \in [Procs -> Stages \cup SetupStages \cup ServiceStages]
  /\ todo \in [Procs -> Seq(Assets)]
  /\ report \in [Procs -> [Assets -> Contents]]
  /\ wanted \in [Procs -> SUBSET Archived]
  /\ item \in [Procs -> Assets]
  /\ temp \in [Procs -> {"none", "good", "bad"}]
  /\ misread \subseteq Needed /\ struck \in [Procs -> SUBSET Assets]
  /\ mishaps \in 0..MaxMishaps
  /\ venv \in {"none", "partial", "whole"} /\ (deps => venv = "whole")
  /\ saved \in Settings \cup {"none", "torn"}
  /\ unit \in Settings \cup {"none", "torn"}
  /\ loaded \in Settings \cup {"none", "torn"} /\ ran \in Settings
  /\ toml \in {"whole", "torn"} /\ chosen \in [Clis -> Settings]
  /\ unmet \in [Clis -> SUBSET {"reload", "enable", "disable", "stop", "start"}]
  /\ \A p \in alone : p \in Clis /\ command[p] = "setup"

\* What the service needs: it is to run, nothing invalid is on the disk and
\* the files of its models are there.
Startworthy ==
  /\ daemon = "http" /\ active /\ Startable(loaded) /\ toml = "whole"
  /\ \A a \in Assets : disk[a] # "bad"
  /\ \A a \in Needed : disk[a] = "good"

\* Once what the service needs is there to stay, it comes up by itself and
\* stays up: however often it failed while a file was missing or damaged, and
\* whatever commands were left half-way (Restart=always, KeepAlive).
ComesUp == <>[]Startworthy => <>[](stage[Service] = "serving")
=============================================================================
