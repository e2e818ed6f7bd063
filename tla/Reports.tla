---- MODULE Reports ----
(* owl status and owl show: what a reader is told of Jobs that move while it  *)
(* is being read.                                                             *)
(*   internal/run/dispose.go (Overview), internal/run/run.go (Show),          *)
(*   internal/run/interrupt.go (the stage of a Run)                           *)
(* A report is many reads, of rows, of what the daemon remembers and of the   *)
(* repository, with no lock over them.  The Jobs move as RunService and       *)
(* Disposal have them move; here only what a report reads of them is kept.    *)
(* A Job's handoff is committed, so it is on its branch and in its worktree.  *)
EXTENDS Naturals, Sequences

CONSTANTS Job,      \* the Jobs there can be
          MaxRuns,  \* Runs a Job is given
          MaxCalls  \* reports asked for

VARIABLES
  job,    \* the row: its state, and whether it names a worktree and a branch
  disk,   \* whether there is a worktree, and a branch
  runs,   \* the Job's Runs: in progress, and verified
  at,     \* where the daemon is with the last of them
  live,   \* Jobs with an Agent this daemon can reach
  stage,  \* what the daemon noted of a Run that has none
  call,   \* the report being read
  calls
vars == <<job, disk, runs, at, live, stage, call, calls>>

NoCall == [at |-> "none"]

Init ==
  /\ job = [j \in Job |-> [state |-> "none", tree |-> FALSE, branch |-> FALSE]]
  /\ disk = [j \in Job |-> [tree |-> FALSE, branch |-> FALSE]]
  /\ runs = [j \in Job |-> << >>] /\ at = [j \in Job |-> "off"]
  /\ live = {} /\ stage = [j \in Job |-> "none"]
  /\ call = NoCall /\ calls = 0

Latest(j) == runs[j][Len(runs[j])]
InProgress(j) == runs[j] # << >> /\ Latest(j).open
NewestVerified(j) ==
  LET verified == {i \in DOMAIN runs[j] : runs[j][i].verified}
  IN IF verified = {} THEN 0 ELSE CHOOSE i \in verified : \A k \in verified : k <= i

\* What has stood since the call began stops standing.
Unsteady(j) == call' = IF "steady" \in DOMAIN call THEN [call EXCEPT !.steady = @ \ {j}] ELSE call
Unkept(j) == call' = IF "kept" \in DOMAIN call /\ call.job = j THEN [call EXCEPT !.kept = FALSE] ELSE call

-----------------------------------------------------------------------------
(* The Jobs.                                                                  *)

Add(j) ==
  /\ job[j].state = "none" /\ job' = [job EXCEPT ![j].state = "pending"]
  /\ UNCHANGED <<disk, runs, at, live, stage, call, calls>>

\* The worktree is there before the Run is recorded with it.
Begin(j) ==
  /\ job[j].state = "pending" /\ at[j] = "off" /\ Len(runs[j]) < MaxRuns
  /\ job' = [job EXCEPT ![j] = [state |-> "active", tree |-> TRUE, branch |-> TRUE]]
  /\ disk' = [disk EXCEPT ![j] = [tree |-> TRUE, branch |-> TRUE]]
  /\ runs' = [runs EXCEPT ![j] = Append(@, [open |-> TRUE, verified |-> FALSE])]
  /\ at' = [at EXCEPT ![j] = "starting"]
  /\ UNCHANGED <<live, stage, call, calls>>

Reaches(j, from, to) == at[j] = from /\ at' = [at EXCEPT ![j] = to]

\* track; an Agent that cannot be started is none.
Track(j) ==
  /\ Reaches(j, "starting", "agent") /\ live' = live \cup {j}
  /\ UNCHANGED <<job, disk, runs, stage, call, calls>>
StartFails(j) ==
  /\ Reaches(j, "starting", "gone")
  /\ UNCHANGED <<job, disk, runs, live, stage, call, calls>>

\* What goes wrong once the Run is recorded ends it there.
Abandon(j) ==
  /\ Reaches(j, "starting", "finished")
  /\ runs' = [runs EXCEPT ![j][Len(runs[j])].open = FALSE]
  /\ Unsteady(j)
  /\ UNCHANGED <<job, disk, live, stage, calls>>

\* execute forgets the Agent as it returns; carryOut notes the stage after.
Forget(j) ==
  /\ Reaches(j, "agent", "gone") /\ live' = live \ {j}
  /\ UNCHANGED <<job, disk, runs, stage, call, calls>>
Finishing(j) ==
  /\ Reaches(j, "gone", "finishing") \/ Reaches(j, "verified", "finishing")
  /\ stage' = [stage EXCEPT ![j] = "finishing"]
  /\ UNCHANGED <<job, disk, runs, live, call, calls>>
Verifying(j) ==
  /\ Reaches(j, "finishing", "verifying") /\ ~Latest(j).verified
  /\ stage' = [stage EXCEPT ![j] = "verifying"]
  /\ UNCHANGED <<job, disk, runs, live, call, calls>>
SaveCheckResults(j) ==
  /\ Reaches(j, "verifying", "verified")
  /\ runs' = [runs EXCEPT ![j][Len(runs[j])].verified = TRUE]
  /\ UNCHANGED <<job, disk, live, stage, call, calls>>

FinishRun(j) ==
  /\ Reaches(j, "finishing", "finished")
  /\ runs' = [runs EXCEPT ![j][Len(runs[j])].open = FALSE]
  /\ Unsteady(j)
  /\ UNCHANGED <<job, disk, live, stage, calls>>
MoveOn(j) ==
  /\ Reaches(j, "finished", "moved")
  /\ \E to \in {"pending", "blocked", "review"} : job' = [job EXCEPT ![j].state = to]
  /\ UNCHANGED <<disk, runs, live, stage, call, calls>>
Disown(j) ==
  /\ Reaches(j, "moved", "off") /\ stage' = [stage EXCEPT ![j] = "none"]
  /\ UNCHANGED <<job, disk, runs, live, call, calls>>

\* Disposal takes the worktree, and with a drop the branch, before the row says so.
Reclaim(j) ==
  /\ job[j].state = "review" /\ at[j] = "off"
  /\ \E to \in {"done", "cancelled"} :
       /\ disk' = [disk EXCEPT ![j] = [tree |-> FALSE, branch |-> to = "done"]]
       /\ at' = [at EXCEPT ![j] = to]
       /\ IF to = "done" THEN UNCHANGED call ELSE Unkept(j)
  /\ UNCHANGED <<job, runs, live, stage, calls>>
Decide(j) ==
  /\ at[j] \in {"done", "cancelled"}
  /\ job' = [job EXCEPT ![j] = [state |-> at[j], tree |-> FALSE, branch |-> at[j] = "done"]]
  /\ at' = [at EXCEPT ![j] = "over"]
  /\ UNCHANGED <<disk, runs, live, stage, call, calls>>

-----------------------------------------------------------------------------
(* What a Run is said to be at.                                               *)

\* withPaused: only the daemon knows, and what it does not know is starting.
WithPaused(j) ==
  IF j \in live THEN "agent" ELSE IF stage[j] # "none" THEN stage[j] ELSE "starting"

-----------------------------------------------------------------------------
(* owl status.                                                                *)

ListJobs ==
  /\ call.at = "none" /\ calls < MaxCalls /\ calls' = calls + 1
  /\ call' = [at |-> "ceilings", byID |-> {j \in Job : job[j].state # "none"},
              steady |-> {j \in Job : InProgress(j)}, open |-> {}, running |-> << >>]
  /\ UNCHANGED <<job, disk, runs, at, live, stage>>

\* The Runs in progress.  One whose Job is not among those read is left out.
ListsWaiting(byID) == {j \in byID : InProgress(j) /\ job[j].state # "active"}
Lists(byID) == {j \in byID : InProgress(j)}
ListRunsInProgress ==
  /\ call.at = "ceilings"
  /\ call' = [call EXCEPT !.at = "pausing", !.open = Lists(call.byID)]
  /\ UNCHANGED <<job, disk, runs, at, live, stage, calls>>

Pauses(j) ==
  /\ call.at = "pausing" /\ j \in call.open
  /\ call' = [call EXCEPT !.open = @ \ {j},
                !.running = Append(@, [job |-> j, stage |-> WithPaused(j)])]
  /\ UNCHANGED <<job, disk, runs, at, live, stage, calls>>

Overview ==
  /\ call.at = "pausing" /\ call.open = {}
  /\ call' = NoCall
  /\ UNCHANGED <<job, disk, runs, at, live, stage, calls>>

-----------------------------------------------------------------------------
(* owl show.                                                                  *)

GetJob(j) ==
  /\ call.at = "none" /\ calls < MaxCalls /\ calls' = calls + 1
  /\ job[j].state # "none"
  /\ call' = [at |-> "runs", job |-> j, row |-> job[j], next |-> 0, checks |-> 0,
              verified |-> NewestVerified(j), kept |-> disk[j].branch]
  /\ UNCHANGED <<job, disk, runs, at, live, stage>>

ListRuns ==
  /\ call.at = "runs"
  /\ call' = [call EXCEPT !.at = "checks", !.next = Len(runs[call.job])]
  /\ UNCHANGED <<job, disk, runs, at, live, stage, calls>>

\* From the newest of the Runs that were listed, the first that was verified.
LastOfAll(n) == 0
Before(n) == n - 1
ListCheckResults ==
  /\ call.at = "checks" /\ call.next > 0
  /\ call' = IF runs[call.job][call.next].verified
             THEN [call EXCEPT !.checks = call.next, !.next = 0]
             ELSE [call EXCEPT !.next = Before(call.next)]
  /\ UNCHANGED <<job, disk, runs, at, live, stage, calls>>

\* The worktree the row named, or the branch where it named none.
HandoffOf(row, j) == IF row.tree THEN disk[j].tree ELSE row.branch /\ disk[j].branch
Show ==
  /\ call.at = "checks" /\ call.next = 0
  /\ call' = NoCall
  /\ UNCHANGED <<job, disk, runs, at, live, stage, calls>>

-----------------------------------------------------------------------------
Runs(j) ==
  \/ Begin(j) \/ Track(j) \/ StartFails(j) \/ Abandon(j) \/ Forget(j) \/ Finishing(j) \/ Verifying(j)
  \/ SaveCheckResults(j) \/ FinishRun(j) \/ MoveOn(j) \/ Disown(j)
Reports ==
  \/ ListJobs \/ ListRunsInProgress \/ Overview \/ ListRuns \/ ListCheckResults \/ Show
  \/ \E j \in Job : Pauses(j) \/ GetJob(j)
Next == Reports \/ \E j \in Job : Add(j) \/ Runs(j) \/ Reclaim(j) \/ Decide(j)
Spec == Init /\ [][Next]_vars
-----------------------------------------------------------------------------
\* A report is not of one moment, and what stood all the while it was read is in
\* it: a Run in progress from the first read to the last is among the running, and
\* the checks reported are of no Run older than the last that was verified when
\* the reading began.
WhatStoodIsReported ==
  [][/\ Overview => \A j \in call.steady : \E i \in DOMAIN call.running : call.running[i].job = j
     /\ Show => call.checks >= call.verified]_vars

\* StageStarting is between the Run being recorded and its Agent running.
StageIsTrue ==
  [][\A j \in Job : Pauses(j) /\ WithPaused(j) = "starting" => at[j] = "starting"]_vars

\* The handoff of a Job is read from its worktree while it has one and from its
\* branch once it does not.
HandoffIsShown == [][Show /\ call.kept => HandoffOf(call.row, call.job)]_vars
====
