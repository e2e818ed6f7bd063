------------------------------ MODULE MCServices ------------------------------
(***************************************************************************)
(* What the daemon's services and its users' commands keep, each beside    *)
(* the others: Accounts and providers with their secrets (Secrets), the    *)
(* daemons that share one home (Daemon), Projects and their configuration  *)
(* (Projects), what a phase runs at (Settings), the files of an Account    *)
(* (AccountFiles), owl setup (Setup), and owl status and show (Reports).   *)
(* What they share is modelled where it matters (RunService, Disposal);    *)
(* here part says which of them moves, and the others rest where they      *)
(* began.                                                                  *)
(***************************************************************************)
EXTENDS Secrets

CONSTANTS
  MaxStarts, MaxDeaths, Job,              \* Daemon
  Name, Op, MaxAdds, MaxRefused,          \* Projects
  MaxEdits, TTL,                          \* Settings
  MaxText, Starts, Editors, MaxUsersWrites, MaxCrashes,   \* AccountFiles
  Walker, MaxMoves, MaxStops,             \* Setup
  MaxRuns, MaxReports                     \* Reports

ASSUME BoundsAssumption == {MaxStarts, MaxText} \subseteq Nat

VARIABLES
  part,
  pc, sock, open, active, carrier, orphan, crashed, raced,
  registered, dir, op, adds, refused, shared,
  global, project, jobSet, edits, phase, run, tool, spent,
  settings, start, grant, seeds, file, byOwl, edit, before, draft, typed, answer, hand, crashes,
  programs, config, daemon, agent, accounts, walk, ready, authorised, moves, stops,
  jobRow, disk, runs, at, live, stage, report, reports

D == INSTANCE Daemon WITH MaxCrashes <- MaxDeaths
P == INSTANCE Projects WITH MaxFaults <- MaxRefused, row <- registered, faults <- refused,
                            raced <- shared
T == INSTANCE Settings WITH daemon <- global, job <- jobSet, stage <- phase
F == INSTANCE AccountFiles
U == INSTANCE Setup WITH Name <- {"work"}, file <- config, told <- ready, spent <- authorised
R == INSTANCE Reports WITH MaxCalls <- MaxReports, job <- jobRow, call <- report, calls <- reports

daemonVars  == <<pc, sock, open, active, carrier, orphan, crashed, raced>>
projectVars == <<registered, dir, op, adds, refused, shared>>
settingVars == <<global, project, jobSet, edits, phase, run, tool, spent>>
fileVars    == <<settings, start, grant, seeds, file, byOwl, edit, before, draft, typed, answer,
                 hand, crashes>>
setupVars   == <<programs, config, daemon, agent, accounts, walk, ready, authorised, moves, stops>>
reportVars  == <<jobRow, disk, runs, at, live, stage, report, reports>>
allVars     == <<part, vars, daemonVars, projectVars, settingVars, fileVars, setupVars, reportVars>>

Parts == {"secrets", "daemon", "projects", "settings", "files", "setup", "reports"}

PartsInit ==
  /\ part \in Parts
  /\ Init /\ D!Init /\ P!Init /\ T!Init /\ F!Init /\ U!Init /\ R!Init
  /\ part # "secrets" => ~keychain
  /\ part # "settings" => \A k \in T!JobKeys : jobSet[k] = "empty"
  /\ programs \in IF part = "setup" THEN {{}, {"elsewhere"}, U!Place} ELSE {{}}

PartsNext ==
  /\ UNCHANGED part
  /\ \/ part = "secrets" /\ Next
        /\ UNCHANGED <<daemonVars, projectVars, settingVars, fileVars, setupVars, reportVars>>
     \/ part = "daemon" /\ D!Next
        /\ UNCHANGED <<vars, projectVars, settingVars, fileVars, setupVars, reportVars>>
     \/ part = "projects" /\ P!Next
        /\ UNCHANGED <<vars, daemonVars, settingVars, fileVars, setupVars, reportVars>>
     \/ part = "settings" /\ T!Next
        /\ UNCHANGED <<vars, daemonVars, projectVars, fileVars, setupVars, reportVars>>
     \/ part = "files" /\ F!Next
        /\ UNCHANGED <<vars, daemonVars, projectVars, settingVars, setupVars, reportVars>>
     \/ part = "setup" /\ U!Next
        /\ UNCHANGED <<vars, daemonVars, projectVars, settingVars, fileVars, reportVars>>
     \/ part = "reports" /\ R!Next
        /\ UNCHANGED <<vars, daemonVars, projectVars, settingVars, fileVars, setupVars>>

PartsSpec == PartsInit /\ [][PartsNext]_allVars

-----------------------------------------------------------------------------
\* What a user was told is so: an Account or a provider that was added is there with
\* its secret, instructions that were saved read back whole, and a machine that is
\* ready has an Account and a program (Secrets, AccountFiles, Setup).
ToldIsTrue ==
  /\ part = "secrets" => AddedRuns /\ HalvesAgree
  /\ part = "files" => F!SavedReadsBack
  /\ part = "setup" => U!ReadyIsTrue

\* What goes by a name goes by one name: a daemon that returned holds the socket of
\* nobody, and a Project's configuration follows it (Daemon, Projects).
NamesHold ==
  /\ part = "daemon" => D!LeavesNothing
  /\ part = "projects" => P!ConfigFollowsTheName

\* No step of Owl's takes what is not its own: a starting daemon no Run that an earlier
\* one minds, a rename or a setup no configuration, a start no grant it was not given,
\* a save nothing its user typed (Daemon, Projects, AccountFiles).
TakesOnlyItsOwn ==
  /\ D!RecoversNobodysRun
  /\ P!NothingWrittenIsLost
  /\ F!GrantIsTheFiles /\ F!NothingTypedIsLost

\* A phase runs at what was set for it, one that cannot is refused before it costs
\* anything, and a report leaves out nothing that stood (Settings, Reports).
AsItWasSet ==
  /\ T!RunsAtTheNarrowest /\ T!RefusedWhereWritten
  /\ R!WhatStoodIsReported
=============================================================================
