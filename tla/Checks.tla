------------------------------- MODULE Checks -------------------------------
(***************************************************************************)
(* A Project's own commands, carried out one after another in a Job's      *)
(* worktree: its setup commands before an Agent starts (run.prepare) and   *)
(* its checks after one ended (run.verify and the command Verifier). Both  *)
(* go through shell.Run, which is three activities at once: the shell and  *)
(* whatever it started, the goroutine that waits for the shell and its     *)
(* output, and the goroutine that stops the whole process group when the   *)
(* command's own timeout runs out or whoever asked gives up.               *)
(*                                                                         *)
(* A command may leave a child in its group (a test runner, which may      *)
(* ignore SIGTERM) and a process that left the group (`docker compose up   *)
(* -d`), and either may hold the command's output open. Time is the two    *)
(* grace periods of shell.go: the one of Wait and the one before SIGKILL   *)
(* may run out at any moment after they began.                             *)
(***************************************************************************)
EXTENDS Naturals, Sequences

CONSTANT MaxCommands            \* how many commands a use runs

Commands == 1 .. MaxCommands

VARIABLES use,        \* "setup" or "verification"
          expects,    \* of each command: must it print nothing? (config.Check.Expect)
          now,        \* the command being carried out
          shell,      \* the shell: "none", "running", or what it exited with
          kid,        \* in its group: "none", "polite", or "deaf" to SIGTERM
          holds,      \* does the kid hold the command's output?
          stray,      \* does a process outside the group hold it?
          printed,    \* did anything reach stdout?
          late,       \* has the command's own timeout run out?
          given,      \* has whoever asked given up? (the daemon stops, a caller hangs up)
          inTime,     \* did the shell exit before either?
          waiting,    \* shell.Run: "idle", "shell", "pipes", "stopper"
          waited,     \* what Wait returned: "none", "nil", "exit", "delay"
          stopper,    \* stopWhenDone: "none", "watching", "grace", "stopped", "home"
          results,    \* what each command was found to be, in order
          outcome     \* "none", or what the use came to

asked == <<use, expects>>
processes == <<shell, kid, holds, stray, printed, inTime>>
clocks == <<late, given>>
running == <<waiting, waited, stopper>>
found == <<now, results, outcome>>
vars == <<asked, processes, clocks, running, found>>

Exits == {"zero", "one", "signalled"}
Finds == {"passed", "stopped", "could not be run", "timed out", "exited", "printed"}
Outcomes == {"none", "ready", "stopped", "blocked", "passed", "refused", "interrupted"}

\* What a command was found to be, and beside it what was true of it.
Result == [found : Finds, exit : Exits \cup {"none"}, silent : BOOLEAN,
           inTime : BOOLEAN, left : BOOLEAN, wasStopped : BOOLEAN]

TypeOK ==
    /\ use \in {"setup", "verification"} /\ outcome \in Outcomes
    /\ expects \in [Commands -> BOOLEAN] /\ now \in 1 .. MaxCommands + 1
    /\ shell \in {"none", "running"} \cup Exits /\ kid \in {"none", "polite", "deaf"}
    /\ {holds, stray, printed, late, given, inTime} \subseteq BOOLEAN
    /\ waiting \in {"idle", "shell", "pipes", "stopper"}
    /\ waited \in {"none", "nil", "exit", "delay"}
    /\ stopper \in {"none", "watching", "grace", "stopped", "home"}
    /\ results \in Seq(Result) /\ Len(results) = now - 1

Init ==
    /\ use \in {"setup", "verification"}
    /\ expects \in {e \in [Commands -> BOOLEAN] :
                       use = "setup" => \A c \in Commands : ~e[c]}
    /\ now = 1 /\ results = <<>> /\ outcome = "none"
    /\ shell = "none" /\ kid = "none" /\ holds = FALSE /\ stray = FALSE
    /\ printed = FALSE /\ late = FALSE /\ given = FALSE /\ inTime = FALSE
    /\ waiting = "idle" /\ waited = "none" /\ stopper = "none"

-----------------------------------------------------------------------------
(* What becomes of a command that was carried out, or was not.             *)

\* A Verifier that reads the exit status before the clock.
JudgedByExit(ran, exit, silent) ==
    IF ran /\ exit = "zero" /\ (expects[now] => silent) THEN "passed" ELSE "exited"

\* verifier/command.run: what fails a result, in the order of its switch.
Judged(ran, exit, silent) ==
    CASE given -> "stopped"
      [] ~given /\ ~ran -> "could not be run"
      [] ~given /\ ran /\ late -> "timed out"
      [] ~given /\ ran /\ ~late /\ exit # "zero" -> "exited"
      [] ~given /\ ran /\ ~late /\ exit = "zero" /\ expects[now] /\ ~silent -> "printed"
      [] OTHER -> "passed"

\* prepare goes on only past a command that succeeded, and verify past every one.
ComesTo(rs) ==
    LET last == rs[Len(rs)].found
        ended == Len(rs) = MaxCommands
    IN  IF use = "setup"
        THEN CASE given -> "stopped"
               [] ~given /\ last # "passed" -> "blocked"
               [] OTHER -> IF ended THEN "ready" ELSE "none"
        ELSE CASE ~ended -> "none"
               [] ended /\ given -> "interrupted"
               [] OTHER -> IF \A k \in DOMAIN rs : rs[k].found = "passed"
                           THEN "passed" ELSE "refused"

\* shell.Run returned r: the next command, or what the use came to.
Returns(r) ==
    /\ results' = Append(results, r)
    /\ outcome' = ComesTo(Append(results, r))
    /\ now' = now + 1
    /\ shell' = "none" /\ kid' = "none" /\ holds' = FALSE /\ stray' = FALSE
    /\ printed' = FALSE /\ late' = FALSE /\ inTime' = FALSE
    /\ waiting' = "idle" /\ waited' = "none" /\ stopper' = "none"
    /\ UNCHANGED <<asked, given>>

-----------------------------------------------------------------------------
(* shell.Run                                                               *)

Carrying == outcome = "none" /\ now <= MaxCommands

\* A context already done runs nothing, and a shell may fail to start.
NeverRuns ==
    /\ Carrying /\ waiting = "idle"
    /\ Returns([found |-> Judged(FALSE, "none", TRUE), exit |-> "none", silent |-> TRUE,
                inTime |-> FALSE, left |-> FALSE, wasStopped |-> FALSE])

\* The shell in a group of its own, the stopper watching the context, and Wait.
Starts ==
    /\ Carrying /\ waiting = "idle" /\ ~given
    /\ shell' = "running" /\ waiting' = "shell" /\ stopper' = "watching"
    /\ UNCHANGED <<asked, kid, holds, stray, printed, inTime, clocks, waited, found>>

\* os/exec: the shell is reaped, and Wait turns to the pipes.
Reaped ==
    /\ waiting = "shell" /\ shell \in Exits
    /\ waiting' = "pipes"
    /\ UNCHANGED <<asked, processes, clocks, waited, stopper, found>>

OutputHeld == (kid # "none" /\ holds) \/ stray

\* Nobody holds the output: Wait says how the shell exited.
PipesClose ==
    /\ waiting = "pipes" /\ ~OutputHeld
    /\ waited' = IF shell = "zero" THEN "nil" ELSE "exit"
    /\ waiting' = "stopper"
    /\ UNCHANGED <<asked, processes, clocks, stopper, found>>

\* A Wait that lasts for as long as somebody holds the output.
WaitsForOutput == waiting = "pipes" /\ OutputHeld /\ FALSE /\ UNCHANGED vars

\* WaitDelay: somebody still holds the output, and Wait stops waiting for it. A
\* status that is an error of its own comes before ErrWaitDelay, which Run takes
\* for a command that exited zero.
DelayRunsOut ==
    /\ waiting = "pipes" /\ OutputHeld
    /\ waited' = IF shell = "zero" THEN "delay" ELSE "exit"
    /\ waiting' = "stopper"
    /\ UNCHANGED <<asked, processes, clocks, stopper, found>>

\* done is closed: a stopper that was stopping nothing goes home.
NothingToStop ==
    /\ waiting = "stopper" /\ stopper = "watching"
    /\ stopper' = "home"
    /\ UNCHANGED <<asked, processes, clocks, waiting, waited, found>>

\* <-stopped, and then what the command came to: the clocks are read only now.
Answers ==
    /\ waiting = "stopper" /\ stopper \in {"stopped", "home"}
    /\ Returns([found |-> Judged(TRUE, shell, ~printed), exit |-> shell,
                silent |-> ~printed, inTime |-> inTime, left |-> kid # "none",
                wasStopped |-> stopper = "stopped"])

-----------------------------------------------------------------------------
(* stopWhenDone. With the context done and done closed, select takes       *)
(* either.                                                                 *)

\* SIGTERM to the group. A shell may trap it; a polite kid does not.
StopsIt ==
    /\ stopper = "watching" /\ (late \/ given)
    /\ stopper' = "grace"
    /\ shell' \in IF shell = "running" THEN {"running", "signalled"} ELSE {shell}
    /\ kid' = IF kid = "polite" THEN "none" ELSE kid
    /\ UNCHANGED <<asked, holds, stray, printed, inTime, clocks, waiting, waited, found>>

\* A stopping decided by whether the shell is still there.
ShellAlive == waiting = "shell"

\* A shell not yet reaped is still in its group.
GroupAlive == waiting = "shell" \/ kid # "none"

\* The group was seen empty within its grace period.
GroupGone ==
    /\ stopper = "grace" /\ ~GroupAlive
    /\ stopper' = "stopped"
    /\ UNCHANGED <<asked, processes, clocks, waiting, waited, found>>

\* SIGKILL to the group when anything in it is still there.
GraceRunsOut ==
    /\ stopper = "grace"
    /\ stopper' = "stopped"
    /\ kid' = IF GroupAlive THEN "none" ELSE kid
    /\ shell' = IF GroupAlive /\ shell = "running" THEN "signalled" ELSE shell
    /\ UNCHANGED <<asked, holds, stray, printed, inTime, clocks, waiting, waited, found>>

-----------------------------------------------------------------------------
(* What the command itself does, and the two clocks.                       *)

ShellExits ==
    /\ shell = "running"
    /\ shell' \in {"zero", "one"} /\ inTime' = (~late /\ ~given)
    /\ UNCHANGED <<asked, kid, holds, stray, printed, clocks, running, found>>

Prints ==
    /\ shell = "running" /\ ~printed /\ printed' = TRUE
    /\ UNCHANGED <<asked, shell, kid, holds, stray, inTime, clocks, running, found>>

LeavesAKid ==
    /\ shell = "running" /\ kid = "none"
    /\ kid' \in {"polite", "deaf"} /\ holds' \in BOOLEAN
    /\ UNCHANGED <<asked, shell, stray, printed, inTime, clocks, running, found>>

LeavesAStray ==
    /\ shell = "running" /\ ~stray /\ stray' = TRUE
    /\ UNCHANGED <<asked, shell, kid, holds, printed, inTime, clocks, running, found>>

KidEnds ==
    /\ kid # "none" /\ kid' = "none"
    /\ UNCHANGED <<asked, shell, holds, stray, printed, inTime, clocks, running, found>>

StrayEnds ==
    /\ stray /\ stray' = FALSE
    /\ UNCHANGED <<asked, shell, kid, holds, printed, inTime, clocks, running, found>>

TimesOut ==
    /\ waiting # "idle" /\ ~late /\ late' = TRUE
    /\ UNCHANGED <<asked, processes, given, running, found>>

\* The daemon stops, or the caller of a start hangs up.
GivesUp ==
    /\ outcome = "none" /\ ~given /\ given' = TRUE
    /\ UNCHANGED <<asked, processes, late, running, found>>

Command == ShellExits \/ Prints \/ LeavesAKid \/ LeavesAStray \/ KidEnds \/ StrayEnds

\* What the daemon and its clocks do, however the command behaves.
Progress ==
    \/ NeverRuns \/ Starts \/ Reaped \/ PipesClose \/ DelayRunsOut
    \/ NothingToStop \/ Answers \/ StopsIt \/ GroupGone \/ GraceRunsOut \/ TimesOut

Next == Command \/ Progress \/ GivesUp

Spec == Init /\ [][Next]_vars
FairSpec == Spec /\ WF_vars(Progress)

-----------------------------------------------------------------------------
(* Properties                                                              *)

\* A check that passed is one whose shell ended by itself, before its timeout and
\* before anybody gave up, with status zero, having printed nothing where nothing
\* was expected - and not one that trapped the signal that stopped it and exited
\* zero after it (ADR-0030; verifier/command.run judging what shell.Run says).
PassedWasEarned ==
    \A k \in DOMAIN results :
        results[k].found = "passed" =>
            /\ results[k].exit = "zero" /\ results[k].inTime
            /\ expects[k] => results[k].silent

\* Once a command that was stopped has been answered for, nothing of its group is
\* alive: not even a test runner that ignores SIGTERM outlives it and holds the
\* worktree open, whether or not the shell outlived the signal (ADR-0034;
\* stopWhenDone and the wait for it in shell.Run).
NobodyLeftOfAStopped ==
    \A k \in DOMAIN results : results[k].wasStopped => ~results[k].left

\* Setup and verification come to an end, whatever the commands do: a shell that
\* never exits, a child deaf to SIGTERM, a process outside the group that holds the
\* output for good (the timeouts of ADR-0030, Cmd.WaitDelay and stopWhenDone).
EveryUseEnds == <>(outcome # "none")

\* FALSE in the code. "A command that exits while something it started still holds
\* its output is a command that finished, and its own status is what it said"
\* (shell.go:86-89 and 125-131). Run reads the clocks after Wait has waited for the
\* output and after the stopper, so a command that exited in time is reported timed
\* out or stopped when either clock fires while it waits.
ExitedIsWhatItSaid ==
    \A k \in DOMAIN results :
        results[k].inTime => results[k].found \notin {"timed out", "stopped"}

=============================================================================
