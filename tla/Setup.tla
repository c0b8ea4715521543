-------------------------------- MODULE Setup --------------------------------
(***************************************************************************)
(* stt-cli setup (stt-cli main.rs): it finds a Python, makes sure that an  *)
(* ffmpeg works, prepares the virtual environment of the punctuation       *)
(* worker, and checks the worker when all assets are there.  Every step    *)
(* leaves something on the machine that the next setup finds, also when    *)
(* the step fails or the command is killed in the middle of it.            *)
(***************************************************************************)
EXTENDS AssetStore

VARIABLES
  pythons,  \* what is found under each name of Python
  uv,       \* uv is installed
  build,    \* whether the ffmpeg that can be downloaded runs here
  ffmpegs,  \* what is at each place where ffmpeg is searched
  venv,     \* the directory .venv of the worker
  deps,     \* the packages of the worker are installed in it
  alone     \* history: the setup beside which, and since which, no other ran

machineVars == <<pythons, uv, build>>
setupVars == <<machineVars, ffmpegs, venv, deps, alone>>

PythonNames == <<"versioned", "python3", "python", "homebrew">>
Places == <<"FFMPEG", "common", "sibling", "PATH">>

SetupInit ==
  /\ pythons \in [{PythonNames[i] : i \in 1..4} -> {"absent", "unfit", "fit"}]
  /\ uv \in BOOLEAN
  /\ build \in {"broken", "works"}
  /\ ffmpegs \in [{Places[i] : i \in 1..4} -> {"none", "broken", "works"}]
  /\ venv \in {"none", "partial", "whole"}
  /\ deps \in BOOLEAN /\ (deps => venv = "whole")
  /\ alone = {}

First(names, Fits(_)) ==
  LET fit == {i \in 1..4 : Fits(names[i])} IN
  IF fit = {} THEN "nothing"
  ELSE names[CHOOSE i \in fit : \A j \in fit : i <= j]

\* A versioned name is taken when it can be started, one under /opt/homebrew
\* when it exists; only the generic names are asked for their version.
find_system_python ==
  LET Taken(name) == IF name \in {"python3", "python"}
                       THEN pythons[name] = "fit"
                       ELSE pythons[name] # "absent"
  IN First(PythonNames, Taken)

\* The first place that has a file, whatever the file is.
resolve_ffmpeg ==
  LET HasFile(place) == ffmpegs[place] # "none" IN First(Places, HasFile)

\* Seeded defect: ffmpeg counts as installed when it is found.
FoundSomewhere == resolve_ffmpeg # "nothing"
\* A synthetic conversion must succeed.
check_ffmpeg_installed ==
  resolve_ffmpeg # "nothing" /\ ffmpegs[resolve_ffmpeg] = "works"
-----------------------------------------------------------------------------
\* A setup begins beside others, or a command that is none.
SetupRuns(q) == Running(q) /\ command[q] = "setup"
Accompanies(p, c) ==
  alone' = IF c # "setup" THEN alone \ {p}
           ELSE IF \E q \in Clis \ {p} : SetupRuns(q) THEN {} ELSE {p}

FindPython(p) ==
  /\ command[p] = "setup"
  /\ Moves(p, "ready",
           IF find_system_python = "nothing" THEN "failed" ELSE "ffmpeg")
  /\ UNCHANGED <<disk, command, todo, report, wanted, item, temp, misread,
                 struck, mishaps, setupVars>>

CheckFfmpeg(p) ==
  /\ Moves(p, "ffmpeg", IF check_ffmpeg_installed THEN "venv" ELSE "getffmpeg")
  /\ UNCHANGED <<disk, command, todo, report, wanted, item, temp, misread,
                 struck, mishaps, setupVars>>

\* The package is fetched and unpacked in a temporary directory; fs::copy then
\* begins to overwrite the file beside the executable.
GetFfmpeg(p) ==
  /\ \/ /\ Moves(p, "getffmpeg", "copyffmpeg")
        /\ ffmpegs' = [ffmpegs EXCEPT !["sibling"] = "broken"]
     \/ /\ Moves(p, "getffmpeg", "failed")
        /\ UNCHANGED ffmpegs
  /\ UNCHANGED <<disk, command, todo, report, wanted, item, temp, misread,
                 struck, mishaps, machineVars, venv, deps, alone>>

\* The copy may fail half-way, or the file not be made executable.
CopyFfmpeg(p) ==
  /\ \/ /\ Moves(p, "copyffmpeg", "venv")
        /\ ffmpegs' = [ffmpegs EXCEPT !["sibling"] = build]
     \/ /\ Moves(p, "copyffmpeg", "failed")
        /\ UNCHANGED ffmpegs
  /\ UNCHANGED <<disk, command, todo, report, wanted, item, temp, misread,
                 struck, mishaps, machineVars, venv, deps, alone>>

\* Any directory will do; otherwise uv or Python begins to create one.
PrepareVenv(p) ==
  /\ \/ /\ venv # "none" /\ Moves(p, "venv", "pip")
        /\ UNCHANGED venv
     \/ /\ venv = "none" /\ Moves(p, "venv", "newvenv")
        /\ venv' = "partial"
  /\ UNCHANGED <<disk, command, todo, report, wanted, item, temp, misread,
                 struck, mishaps, machineVars, ffmpegs, deps, alone>>

\* uv brings an interpreter; without it the Python that was found must do.
CreateVenv(p) ==
  /\ \/ /\ Moves(p, "newvenv", "pip")
        /\ uv \/ pythons[find_system_python] = "fit"
        /\ venv' = "whole"
     \/ /\ Moves(p, "newvenv", "failed")
        /\ UNCHANGED venv
  /\ UNCHANGED <<disk, command, todo, report, wanted, item, temp, misread,
                 struck, mishaps, machineVars, ffmpegs, deps, alone>>

\* After the packages the assets are verified.
InstallDeps(p) ==
  /\ \/ /\ Moves(p, "pip", "verify") /\ venv = "whole"
        /\ Visit(p, Lock)
        /\ deps' = TRUE
     \/ /\ Moves(p, "pip", "failed")
        /\ UNCHANGED <<todo, deps>>
  /\ UNCHANGED <<disk, command, report, wanted, item, temp, misread, struck,
                 mishaps, machineVars, ffmpegs, venv, alone>>

\* With an asset missing or corrupted, setup is completed without the check.
AssetsReported(p) ==
  /\ command[p] = "setup" /\ todo[p] = <<>>
  /\ Moves(p, "verify",
           IF \E a \in Assets : report[p][a] # "good" THEN "done" ELSE "capu")
  /\ UNCHANGED <<disk, command, todo, report, wanted, item, temp, misread,
                 struck, mishaps, setupVars>>

\* The worker is started and punctuates a sentence; another answer than the
\* expected one is only a warning.
CheckCapu(p) ==
  /\ \/ deps /\ Moves(p, "capu", "done")
     \/ Moves(p, "capu", "failed")
  /\ UNCHANGED <<disk, command, todo, report, wanted, item, temp, misread,
                 struck, mishaps, setupVars>>

Wizard(p) ==
  \/ FindPython(p) \/ CheckFfmpeg(p) \/ GetFfmpeg(p) \/ CopyFfmpeg(p)
  \/ PrepareVenv(p) \/ CreateVenv(p) \/ InstallDeps(p) \/ AssetsReported(p)
  \/ CheckCapu(p)

SetupStages == {"ffmpeg", "getffmpeg", "copyffmpeg", "venv", "newvenv", "pip",
                "capu"}
-----------------------------------------------------------------------------
\* When a setup is completed and no other one ran beside it or began since,
\* the worker's environment is whole with its packages, and the ffmpeg the
\* program will take works, unless one that cannot be replaced is found before it or the
\* downloaded build does not run here: whatever an earlier setup that failed
\* or was killed half-way left behind (Setup, check_ffmpeg_installed).
SetupPrepares ==
  \A p \in alone :
    stage[p] = "done" =>
      /\ venv = "whole" /\ deps
      /\ resolve_ffmpeg # "nothing"
      /\ \/ ffmpegs[resolve_ffmpeg] = "works"
         \/ resolve_ffmpeg \in {"FFMPEG", "common"}
         \/ build = "broken"
=============================================================================
