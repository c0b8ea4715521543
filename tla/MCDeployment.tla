---------------------------- MODULE MCDeployment ----------------------------
(* Model-checking instance of Deployment.                                  *)
EXTENDS Deployment, TLC

CONSTANTS c1, c2, model, extra, member

\* An asset with a URL, one without a source, and one that comes out of the archive;
\* the service needs the first and the last.
MCLock == <<model, extra, member>>
MCWarmed == <<model, member>>

Issued(first, second) == agenda = (c1 :> first @@ c2 :> second)
WholeMachine ==
  /\ pythons = [name \in {PythonNames[i] : i \in 1..4} |-> "fit"]
  /\ uv = TRUE /\ build = "works" /\ venv = "whole" /\ deps = TRUE
  /\ ffmpegs = [place \in {Places[i] : i \in 1..4} |-> "works"]
NoService == os = "linux" /\ daemon = "http" /\ unit = "none"

\* Two downloads beside the service, or one verification.
Downloading ==
  /\ \/ Issued(<<"download">>, <<"force">>) \/ Issued(<<"verify">>, <<>>)
  /\ WholeMachine /\ os = "linux" /\ daemon = "http" /\ unit = Default
  /\ \E m, a \in {"missing", "good"} :
       /\ "missing" \in {m, a}
       /\ disk = (model :> m @@ extra :> "missing" @@ member :> a)

\* A setup after another, or beside it, on a machine that lacks something.
SettingUp ==
  /\ uv \in BOOLEAN /\ build \in {"broken", "works"}
  /\ \/ Issued(<<"setup", "setup">>, <<>>)
     \/ uv /\ build = "works" /\ Issued(<<"setup">>, <<"setup">>)
  /\ NoService
  /\ disk \in {[a \in Assets |-> "good"], [a \in Assets |-> "missing"]}
  /\ \E v \in {"absent", "unfit"}, g \in {"absent", "fit"} :
       pythons = ("versioned" :> v @@ "python3" :> "unfit" @@ "python" :> g
                  @@ "homebrew" :> "absent")
  /\ \E found \in {<<"none", "none">>, <<"broken", "none">>,
                   <<"works", "none">>, <<"none", "broken">>} :
       ffmpegs = ("FFMPEG" :> "none" @@ "common" :> found[1]
                  @@ "sibling" :> "none" @@ "PATH" :> found[2])
  /\ venv \in {"none", "partial"} /\ deps = FALSE

\* Service commands after an installation or before one: one of them with two
\* mishaps, two of them with one.
Administering ==
  /\ \/ mishaps = 0 /\ \E x \in UnitCommands : Issued(<<"install", x>>, <<>>)
     \/ mishaps = 1 /\ \E x, y \in UnitCommands :
                         Issued(<<"install", x, y>>, <<>>)
     \/ mishaps = 1 /\ Issued(<<"config", "install">>, <<>>)
  /\ WholeMachine
  /\ os \in {"linux", "macos"} /\ daemon \in {"http", "llama"}
  /\ unit = "none"
  /\ disk = (model :> "good" @@ extra :> "missing" @@ member :> "good")

MCInit ==
  /\ item = [p \in Procs |-> model]
  /\ mishaps \in {0, 1}
  /\ \/ Downloading /\ mishaps = 1
     \/ SettingUp /\ mishaps = 1
     \/ Administering
  /\ Init

MCSpec == MCInit /\ [][Next]_vars /\ Fairness
=============================================================================
