---------------------------- MODULE WorktreeProofs ----------------------------
(***************************************************************************)
(* What is proved of MCWorktree, for every number of Runs, of moves of the *)
(* remote's base branch, of a user's edits, of faults, Skills, refs and    *)
(* commands: a Job is in review only on what judged its last Run, an Agent *)
(* begins only on what a start is to prepare, no step of Owl's loses what  *)
(* nobody committed, and a Run starts with the Skills that are declared.   *)
(*                                                                         *)
(* The inductive invariant, BranchInv, follows a Run through its Job's     *)
(* worktree.  Reviewing and Judging say what a step of Verification may    *)
(* count on of the ones before it; Ours, Known, Unlocked, Whole and Ahead  *)
(* say what each step of a start has established by then, and that the     *)
(* steps after it keep; PutAside says where the uncommitted work is.  Each *)
(* part is preserved by a lemma of its own, action by action.              *)
(*                                                                         *)
(* The Skills' half has SkillsInv: every lockfile, on disk, on the base    *)
(* branch or in a command's hands, pins what its source answered; and each *)
(* step of a placement leaves the entries as the next one counts on        *)
(* (Placed), down to a worktree with nothing kept beside it, in which no   *)
(* link of Owl's is.  It assumes RefsAssumption and no bound on anything.  *)
(***************************************************************************)
EXTENDS MCWorktree, FiniteSetTheorems, TLAPS

\* The worktree's flags are flags, and what its branch is replayed onto is a version.
TreeTyped ==
  tree \in Flags

\* What is known of the base branch are versions of it, none the remote has not had.
BaseTyped ==
  /\ base \in [remote: 0..MaxMoves, local: 0..MaxMoves]
  /\ base.remote <= moves /\ moves \in 0..MaxMoves
  /\ onto \in 0..MaxMoves /\ asked \in 0..MaxMoves

\* Runs are counted, and what judged one is said of a Run.
JudgedTyped ==
  /\ run \in 0..MaxRuns
  /\ verdict \in [by: 0..MaxRuns, says: Says]
  /\ judged \in [checks: 0..MaxRuns, by: 0..MaxRuns, whole: BOOLEAN]

\* What a start finds beside the branch.
StartTyped ==
  /\ cfg \in [plan: BOOLEAN, checks: BOOLEAN, agent: BOOLEAN, remote: BOOLEAN]
  /\ work \subseteq {"tree", "autostash", "stash"}
  /\ handoff \in {"none", "left", "unreadable"} /\ plan \in BOOLEAN

\* Where the Job and its Run are.
RunTyped ==
  /\ state \in {"pending", "active", "blocked", "review"}
  /\ phase \in {"plan", "execute"} /\ pc \in Step /\ killed \in BOOLEAN
  /\ ended \in {"none", "succeeded", "failed", "interrupted", "late"} /\ refused \in BOOLEAN
  /\ daemon \in {"up", "stopping"}

\* The bounds on hands and faults are kept.
Budget ==
  hands \in 0..MaxHands /\ faults \in 0..MaxFaults

\* A Run that a start leads to is one of those that may begin.
Room ==
  pc \notin {"off", "agent", "plan", "checks", "wipe", "review", "read", "judge"} => run < MaxRuns

\* A Job with a start or a Run in its worktree is active; only a planning Run records
\* a plan and only an executing one is verified, which is after its Agent succeeded.
Lies ==
  /\ pc # "off" => state = "active"
  /\ pc = "plan" => phase = "plan"
  /\ pc \in {"checks", "wipe", "review", "read"} => phase = "execute"
  /\ pc \in {"plan", "checks", "wipe", "review"} => ended = "succeeded"
  /\ pc = "judge" => ended \in {"succeeded", "failed", "interrupted"}
  /\ state = "review" => pc = "off"

\* The checks of the Run that began last ran to their end, if it has any.
ChecksHeard == cfg.checks => judged.checks = run

\* A Run whose verifier is at work was heard out by the checks, and the verdict in the
\* worktree is nobody's or its own verifier's: what was there before was wiped.
Reviewing ==
  /\ pc \in {"wipe", "review", "read"} => cfg.agent /\ ChecksHeard
  /\ pc \in {"review", "read"} => verdict = NoFile \/ verdict.by = run

\* A Run about to be judged a success, by a daemon that stays up, was heard out by
\* everything that had to judge it.
Judging ==
  pc = "judge" /\ ended = "succeeded" /\ phase = "execute" /\ daemon = "up" /\ ~refused =>
    ChecksHeard /\ (cfg.agent => judged.by = run /\ judged.whole)

\* The steps that are not those of a start that looked at its worktree.
Elsewhere == {"off", "look", "agent", "plan", "checks", "wipe", "review", "read", "judge"}

\* Between Look and the Agent the worktree stays the Project's: nothing of Owl's
\* takes it away, and users keep out.
Ours ==
  pc \notin Elsewhere => tree.live /\ tree.ours

\* What the start rebases onto stays what it had to build on.
Known ==
  pc \notin Elsewhere \cup {"fetch"} => asked = onto

\* Past ClearStaleLocks no lock is left unless the git that held it was killed, which
\* ends the start; and no conflict is left where an Agent is to begin.
Unlocked ==
  /\ pc \in {"rebase", "rebasing", "unstash", "setup", "prompt"} => ~tree.locked
  /\ pc \in {"rebasing", "setup", "prompt"} => ~tree.unmerged

\* Between its look and its end the rebase is Owl's own, begun on the Job's branch and
\* ending there.
Whole ==
  /\ pc \in {"clear", "rebase", "unstash", "setup", "prompt"} => ~tree.rebasing /\ tree.on = "job"
  /\ pc = "rebasing" => tree.rebasing

\* A branch that was replayed holds what it was replayed onto.
Ahead ==
  pc \in {"unstash", "setup", "prompt"} => tree.has >= onto

\* While a rebase of Owl's has the worktree, what nobody had committed is out of the tree.
PutAside ==
  /\ pc \in {"rebasing", "quit", "force"} => "tree" \notin work
  /\ pc = "abort" /\ tree.rebasing => "tree" \notin work

\* The state's parts, as wide as the bounds.
Typed == TreeTyped /\ BaseTyped /\ JudgedTyped /\ StartTyped /\ RunTyped /\ Budget /\ Room

\* The inductive invariant.
BranchInv ==
  /\ Typed /\ Lies /\ Reviewing /\ Judging /\ ReviewIsJudged
  /\ Ours /\ Known /\ Unlocked /\ Whole /\ Ahead /\ PutAside

-----------------------------------------------------------------------------
(* Each part of it is kept, action by action.                                *)

\* The worktree stays one.
LEMMA TreeTypedStep ==
  ASSUME TreeTyped, BaseTyped, [Next]_vars
  PROVE  TreeTyped'
<1> USE DEF startFrame, gitFrame, runFrame, repoVars, treeVars, rowVars, locals, world,
     At, Fault, Smooth, Killed, Stopping, Goes, Blocked, GivenBack, TreeTyped, Flags,
     Branch
<1>1. CASE Start \/ Look \/ FetchBase \/ Asks \/ Clears
  BY <1>1 DEF Start, Look, FetchBase, Asks, Clears, RebaseInProgress, ClearStaleLocks
<1>2. CASE RebaseBegins
  BY <1>2, ZenonT(30) DEF RebaseBegins
<1>3. CASE RebaseEnds
  <2>1. CASE Replayed
    <3>1. PICK u \in BOOLEAN, h \in {onto, tree.has} :
            tree' = [tree EXCEPT !.rebasing = FALSE, !.on = "job", !.has = h, !.unmerged = u]
      <4>1. PICK back \in {"tree", "stash"} :
              tree' = [tree EXCEPT !.rebasing = FALSE, !.on = "job",
                                   !.has = IF onto > @ THEN onto ELSE @, !.unmerged = (back = "stash")]
        BY <2>1 DEF Replayed
      <4>2. PICK u \in BOOLEAN : u = (back = "stash")
        OBVIOUS
      <4> QED BY <4>1, <4>2
    <3> QED BY <3>1, WorktreeAssumption DEF BaseTyped
  <2>2. CASE ~Replayed
    BY <1>3, <2>2 DEF RebaseEnds
  <2> QED BY <2>1, <2>2
<1>4. CASE Unstashed \/ AbortRebase \/ Quits \/ ForceBack
  BY <1>4 DEF Unstashed, AbortRebase, Quits, ForceBack
<1>5. CASE Prepare \/ PromptFor
  BY <1>5 DEF Prepare, PromptFor, phaseOf
<1>6. CASE AgentWorks
  BY <1>6 DEF AgentWorks
<1>7. CASE AgentEnds \/ RecordPlan
  BY <1>7 DEF AgentEnds, RecordPlan, CommitPath
<1>8. CASE Checks \/ ClearsVerdict \/ ReviewerWrites \/ ReviewEnds \/ ReadVerdict
  BY <1>8 DEF Checks, ClearsVerdict, ReviewerWrites, ReviewEnds, ReadVerdict
<1>9. CASE Judge
  BY <1>9 DEF Judge, MovesOn
<1>10. CASE RemoteMoves \/ UserPulls
  BY <1>10 DEF RemoteMoves, UserPulls
<1>11. CASE Hand
  BY <1>11 DEF Hand
<1>12. CASE Stop \/ Restart \/ Crash
  BY <1>12 DEF Stop, Restart, Crash
<1>13. CASE UNCHANGED vars
  BY <1>13 DEF vars
<1> QED BY <1>1, <1>2, <1>3, <1>4, <1>5, <1>6, <1>7, <1>8, <1>9, <1>10, <1>11, <1>12,
         <1>13 DEF Next, Starting, Carrying, Around

\* Nobody knows a version of the base branch before the remote has it.
LEMMA BaseTypedStep ==
  ASSUME BaseTyped, [Next]_vars
  PROVE  BaseTyped'
<1> USE WorktreeAssumption DEF startFrame, gitFrame, runFrame, repoVars, treeVars,
     rowVars, locals, world, At, Fault, Smooth, Killed, Stopping, Goes, Blocked,
     GivenBack, BaseTyped
<1>1. CASE Start \/ Look \/ FetchBase \/ Asks \/ Clears
  BY <1>1 DEF Start, Look, FetchBase, Asks, Clears, RebaseInProgress, ClearStaleLocks
<1>2. CASE RebaseBegins
  BY <1>2 DEF RebaseBegins
<1>3. CASE RebaseEnds
  BY <1>3 DEF RebaseEnds, Replayed
<1>4. CASE Unstashed \/ AbortRebase \/ Quits \/ ForceBack
  BY <1>4 DEF Unstashed, AbortRebase, Quits, ForceBack
<1>5. CASE Prepare \/ PromptFor
  BY <1>5 DEF Prepare, PromptFor, phaseOf
<1>6. CASE AgentWorks
  BY <1>6 DEF AgentWorks
<1>7. CASE AgentEnds \/ RecordPlan
  BY <1>7 DEF AgentEnds, RecordPlan, CommitPath
<1>8. CASE Checks \/ ClearsVerdict \/ ReviewerWrites \/ ReviewEnds \/ ReadVerdict
  BY <1>8 DEF Checks, ClearsVerdict, ReviewerWrites, ReviewEnds, ReadVerdict
<1>9. CASE Judge
  BY <1>9 DEF Judge, MovesOn
<1>10. CASE RemoteMoves \/ UserPulls
  BY <1>10 DEF RemoteMoves, UserPulls
<1>11. CASE Hand
  BY <1>11 DEF Hand
<1>12. CASE Stop \/ Restart \/ Crash
  BY <1>12 DEF Stop, Restart, Crash
<1>13. CASE UNCHANGED vars
  BY <1>13 DEF vars
<1> QED BY <1>1, <1>2, <1>3, <1>4, <1>5, <1>6, <1>7, <1>8, <1>9, <1>10, <1>11, <1>12,
         <1>13 DEF Next, Starting, Carrying, Around

\* Only a prompt begins a Run, and only Verification judges one.
LEMMA JudgedTypedStep ==
  ASSUME JudgedTyped, Room, [Next]_vars
  PROVE  JudgedTyped'
<1> USE WorktreeAssumption DEF startFrame, gitFrame, runFrame, repoVars, treeVars,
     rowVars, locals, world, At, Fault, Smooth, Killed, Stopping, Goes, Blocked,
     GivenBack, JudgedTyped, NoFile, Nothing, Says
<1>1. CASE Start \/ Look \/ FetchBase \/ Asks \/ Clears
  BY <1>1 DEF Start, Look, FetchBase, Asks, Clears, RebaseInProgress, ClearStaleLocks
<1>2. CASE RebaseBegins
  BY <1>2 DEF RebaseBegins
<1>3. CASE RebaseEnds
  BY <1>3 DEF RebaseEnds, Replayed
<1>4. CASE Unstashed \/ AbortRebase \/ Quits \/ ForceBack
  BY <1>4 DEF Unstashed, AbortRebase, Quits, ForceBack
<1>5. CASE Prepare
  BY <1>5 DEF Prepare
<1>6. CASE PromptFor
  <2>1. CASE UNCHANGED <<run, judged>> /\ UNCHANGED verdict
    BY <2>1
  <2>2. CASE ~UNCHANGED <<run, judged>>
    <3>1. run < MaxRuns /\ run' = run + 1 /\ judged' = Nothing /\ UNCHANGED verdict
      BY <1>6, <2>2 DEF PromptFor, phaseOf, Room
    <3> QED BY <3>1
  <2>3. UNCHANGED verdict
    BY <1>6 DEF PromptFor
  <2> QED BY <2>1, <2>2, <2>3
<1>7. CASE AgentWorks
  <2>1. UNCHANGED <<run, judged>>
    BY <1>7 DEF AgentWorks
  <2>2. UNCHANGED verdict \/ \E s \in Says : verdict' = [by |-> 0, says |-> s]
    BY <1>7 DEF AgentWorks
  <2> QED BY <2>1, <2>2
<1>8. CASE AgentEnds \/ RecordPlan
  BY <1>8 DEF AgentEnds, RecordPlan, CommitPath
<1>9. CASE Checks
  BY <1>9 DEF Checks
<1>10. CASE ClearsVerdict
  BY <1>10 DEF ClearsVerdict
<1>11. CASE ReviewerWrites
  BY <1>11 DEF ReviewerWrites
<1>12. CASE ReviewEnds
  BY <1>12 DEF ReviewEnds
<1>13. CASE ReadVerdict
  <2>1. UNCHANGED run /\ (UNCHANGED verdict \/ verdict' = NoFile)
    BY <1>13 DEF ReadVerdict
  <2>2. PICK w \in BOOLEAN : judged' = [judged EXCEPT !.by = verdict.by, !.whole = w]
    BY <1>13 DEF ReadVerdict
  <2>3. judged' \in [checks: 0..MaxRuns, by: 0..MaxRuns, whole: BOOLEAN]
    BY <2>2
  <2>4. verdict' \in [by: 0..MaxRuns, says: Says]
    BY <2>1
  <2> QED BY <2>1, <2>3, <2>4
<1>14. CASE Judge
  BY <1>14 DEF Judge, MovesOn
<1>15. CASE RemoteMoves \/ UserPulls
  BY <1>15 DEF RemoteMoves, UserPulls
<1>16. CASE Hand
  BY <1>16 DEF Hand
<1>17. CASE Stop \/ Restart \/ Crash
  BY <1>17 DEF Stop, Restart, Crash
<1>18. CASE UNCHANGED vars
  BY <1>18 DEF vars
<1> QED BY <1>1, <1>2, <1>3, <1>4, <1>5, <1>6, <1>7, <1>8, <1>9, <1>10, <1>11, <1>12,
         <1>13, <1>14, <1>15, <1>16, <1>17, <1>18 DEF Next, Starting, Carrying, Around

\* What is uncommitted stays in the tree, put aside or in the stash.
LEMMA StartTypedStep ==
  ASSUME StartTyped, [Next]_vars
  PROVE  StartTyped'
<1> USE DEF startFrame, gitFrame, runFrame, repoVars, treeVars, rowVars, locals, world,
     At, Fault, Smooth, Killed, Stopping, Goes, Blocked, GivenBack, StartTyped
<1>1. CASE Start \/ Look \/ FetchBase \/ Asks \/ Clears
  BY <1>1 DEF Start, Look, FetchBase, Asks, Clears, RebaseInProgress, ClearStaleLocks
<1>2. CASE RebaseBegins
  BY <1>2 DEF RebaseBegins
<1>3. CASE RebaseEnds
  BY <1>3 DEF RebaseEnds, Replayed
<1>4. CASE Unstashed \/ AbortRebase \/ Quits \/ ForceBack
  BY <1>4 DEF Unstashed, AbortRebase, Quits, ForceBack
<1>5. CASE Prepare \/ PromptFor
  BY <1>5 DEF Prepare, PromptFor, phaseOf
<1>6. CASE AgentWorks
  BY <1>6 DEF AgentWorks
<1>7. CASE AgentEnds \/ RecordPlan
  BY <1>7 DEF AgentEnds, RecordPlan, CommitPath
<1>8. CASE Checks \/ ClearsVerdict \/ ReviewerWrites \/ ReviewEnds \/ ReadVerdict
  BY <1>8 DEF Checks, ClearsVerdict, ReviewerWrites, ReviewEnds, ReadVerdict
<1>9. CASE Judge
  BY <1>9 DEF Judge, MovesOn
<1>10. CASE RemoteMoves \/ UserPulls
  BY <1>10 DEF RemoteMoves, UserPulls
<1>11. CASE Hand
  BY <1>11 DEF Hand
<1>12. CASE Stop \/ Restart \/ Crash
  BY <1>12 DEF Stop, Restart, Crash
<1>13. CASE UNCHANGED vars
  BY <1>13 DEF vars
<1> QED BY <1>1, <1>2, <1>3, <1>4, <1>5, <1>6, <1>7, <1>8, <1>9, <1>10, <1>11, <1>12,
         <1>13 DEF Next, Starting, Carrying, Around

\* A Job and its Run stay in the states they have.
LEMMA RunTypedStep ==
  ASSUME RunTyped, [Next]_vars
  PROVE  RunTyped'
<1> USE DEF startFrame, gitFrame, runFrame, repoVars, treeVars, rowVars, locals, world,
     At, Fault, Smooth, Killed, Stopping, Goes, Blocked, GivenBack, RunTyped, Step
<1>1. CASE Start \/ Look \/ FetchBase \/ Asks \/ Clears
  BY <1>1 DEF Start, Look, FetchBase, Asks, Clears, RebaseInProgress, ClearStaleLocks
<1>2. CASE RebaseBegins
  BY <1>2 DEF RebaseBegins
<1>3. CASE RebaseEnds
  BY <1>3 DEF RebaseEnds, Replayed
<1>4. CASE Unstashed \/ AbortRebase \/ Quits \/ ForceBack
  BY <1>4 DEF Unstashed, AbortRebase, Quits, ForceBack
<1>5. CASE Prepare \/ PromptFor
  BY <1>5 DEF Prepare, PromptFor, phaseOf
<1>6. CASE AgentWorks
  BY <1>6 DEF AgentWorks
<1>7. CASE AgentEnds \/ RecordPlan
  BY <1>7 DEF AgentEnds, RecordPlan, CommitPath
<1>8. CASE Checks \/ ClearsVerdict \/ ReviewerWrites \/ ReviewEnds \/ ReadVerdict
  BY <1>8 DEF Checks, ClearsVerdict, ReviewerWrites, ReviewEnds, ReadVerdict
<1>9. CASE Judge
  BY <1>9 DEF Judge, MovesOn
<1>10. CASE RemoteMoves \/ UserPulls
  BY <1>10 DEF RemoteMoves, UserPulls
<1>11. CASE Hand
  BY <1>11 DEF Hand
<1>12. CASE Stop \/ Restart \/ Crash
  BY <1>12 DEF Stop, Restart, Crash
<1>13. CASE UNCHANGED vars
  BY <1>13 DEF vars
<1> QED BY <1>1, <1>2, <1>3, <1>4, <1>5, <1>6, <1>7, <1>8, <1>9, <1>10, <1>11, <1>12,
         <1>13 DEF Next, Starting, Carrying, Around

\* Hands and faults stay within their bounds.
LEMMA BudgetStep ==
  ASSUME Budget, [Next]_vars
  PROVE  Budget'
<1> USE WorktreeAssumption DEF startFrame, gitFrame, runFrame, repoVars, treeVars,
     rowVars, locals, world, At, Fault, Smooth, Killed, Stopping, Goes, Blocked,
     GivenBack, Budget
<1>1. CASE Start \/ Look \/ FetchBase \/ Asks \/ Clears
  BY <1>1 DEF Start, Look, FetchBase, Asks, Clears, RebaseInProgress, ClearStaleLocks
<1>2. CASE RebaseBegins
  BY <1>2 DEF RebaseBegins
<1>3. CASE RebaseEnds
  <2>1. UNCHANGED hands
    BY <1>3 DEF RebaseEnds, gitFrame
  <2>2. (UNCHANGED faults) \/ (faults < MaxFaults /\ faults' = faults + 1)
    BY <1>3 DEF RebaseEnds, Replayed
  <2> QED BY <2>1, <2>2
<1>4. CASE Unstashed
  BY <1>4 DEF Unstashed
<1>5. CASE AbortRebase
  <2>1. UNCHANGED hands
    BY <1>5 DEF AbortRebase, gitFrame
  <2>2. (UNCHANGED faults) \/ (faults < MaxFaults /\ faults' = faults + 1)
    BY <1>5 DEF AbortRebase
  <2> QED BY <2>1, <2>2
<1>6. CASE Quits
  BY <1>6 DEF Quits
<1>7. CASE ForceBack
  BY <1>7 DEF ForceBack
<1>8. CASE Prepare \/ PromptFor
  BY <1>8 DEF Prepare, PromptFor, phaseOf
<1>9. CASE AgentWorks
  BY <1>9 DEF AgentWorks
<1>10. CASE AgentEnds \/ RecordPlan
  BY <1>10 DEF AgentEnds, RecordPlan, CommitPath
<1>11. CASE Checks \/ ClearsVerdict \/ ReviewerWrites \/ ReviewEnds \/ ReadVerdict
  BY <1>11 DEF Checks, ClearsVerdict, ReviewerWrites, ReviewEnds, ReadVerdict
<1>12. CASE Judge
  BY <1>12 DEF Judge, MovesOn
<1>13. CASE RemoteMoves \/ UserPulls
  BY <1>13 DEF RemoteMoves, UserPulls
<1>14. CASE Hand
  <2>1. hands < MaxHands /\ hands' = hands + 1 /\ UNCHANGED faults
    BY <1>14 DEF Hand
  <2> QED BY <2>1
<1>15. CASE Stop \/ Restart \/ Crash
  BY <1>15 DEF Stop, Restart, Crash
<1>16. CASE UNCHANGED vars
  BY <1>16 DEF vars
<1> QED BY <1>1, <1>2, <1>3, <1>4, <1>5, <1>6, <1>7, <1>8, <1>9, <1>10, <1>11, <1>12,
         <1>13, <1>14, <1>15, <1>16 DEF Next, Starting, Carrying, Around

\* A start began with room for a Run, and no Run begins under it.
LEMMA RoomStep ==
  ASSUME Room, JudgedTyped, [Next]_vars
  PROVE  Room'
<1> USE WorktreeAssumption DEF startFrame, gitFrame, runFrame, repoVars, treeVars,
     rowVars, locals, world, At, Fault, Smooth, Killed, Stopping, Goes, Blocked,
     GivenBack, Room, JudgedTyped
<1>1. CASE Start \/ Look \/ FetchBase \/ Asks \/ Clears
  BY <1>1 DEF Start, Look, FetchBase, Asks, Clears, RebaseInProgress, ClearStaleLocks
<1>2. CASE RebaseBegins
  BY <1>2 DEF RebaseBegins
<1>3. CASE RebaseEnds
  BY <1>3 DEF RebaseEnds, Replayed
<1>4. CASE Unstashed \/ AbortRebase \/ Quits \/ ForceBack
  BY <1>4 DEF Unstashed, AbortRebase, Quits, ForceBack
<1>5. CASE Prepare \/ PromptFor
  BY <1>5 DEF Prepare, PromptFor, phaseOf
<1>6. CASE AgentWorks
  BY <1>6 DEF AgentWorks
<1>7. CASE AgentEnds \/ RecordPlan
  BY <1>7 DEF AgentEnds, RecordPlan, CommitPath
<1>8. CASE Checks \/ ClearsVerdict \/ ReviewerWrites \/ ReviewEnds \/ ReadVerdict
  BY <1>8 DEF Checks, ClearsVerdict, ReviewerWrites, ReviewEnds, ReadVerdict
<1>9. CASE Judge
  BY <1>9 DEF Judge, MovesOn
<1>10. CASE RemoteMoves \/ UserPulls
  BY <1>10 DEF RemoteMoves, UserPulls
<1>11. CASE Hand
  BY <1>11 DEF Hand
<1>12. CASE Stop \/ Restart \/ Crash
  BY <1>12 DEF Stop, Restart, Crash
<1>13. CASE UNCHANGED vars
  BY <1>13 DEF vars
<1> QED BY <1>1, <1>2, <1>3, <1>4, <1>5, <1>6, <1>7, <1>8, <1>9, <1>10, <1>11, <1>12,
         <1>13 DEF Next, Starting, Carrying, Around

\* A Run's steps follow one another.
LEMMA LiesStep ==
  ASSUME Lies, RunTyped, [Next]_vars
  PROVE  Lies'
<1> USE DEF startFrame, gitFrame, runFrame, repoVars, treeVars, rowVars, locals, world,
     At, Fault, Smooth, Killed, Stopping, Goes, Blocked, GivenBack, Lies, RunTyped
<1>1. CASE Start \/ Look \/ FetchBase \/ Asks \/ Clears
  BY <1>1 DEF Start, Look, FetchBase, Asks, Clears, RebaseInProgress, ClearStaleLocks
<1>2. CASE RebaseBegins
  BY <1>2 DEF RebaseBegins
<1>3. CASE RebaseEnds
  BY <1>3 DEF RebaseEnds, Replayed
<1>4. CASE Unstashed \/ AbortRebase \/ Quits \/ ForceBack
  BY <1>4 DEF Unstashed, AbortRebase, Quits, ForceBack
<1>5. CASE Prepare \/ PromptFor
  BY <1>5 DEF Prepare, PromptFor, phaseOf
<1>6. CASE AgentWorks
  BY <1>6 DEF AgentWorks
<1>7. CASE AgentEnds \/ RecordPlan
  BY <1>7 DEF AgentEnds, RecordPlan, CommitPath
<1>8. CASE Checks \/ ClearsVerdict \/ ReviewerWrites \/ ReviewEnds \/ ReadVerdict
  BY <1>8 DEF Checks, ClearsVerdict, ReviewerWrites, ReviewEnds, ReadVerdict
<1>9. CASE Judge
  BY <1>9 DEF Judge, MovesOn
<1>10. CASE RemoteMoves \/ UserPulls
  BY <1>10 DEF RemoteMoves, UserPulls
<1>11. CASE Hand
  BY <1>11 DEF Hand
<1>12. CASE Stop \/ Restart \/ Crash
  BY <1>12 DEF Stop, Restart, Crash
<1>13. CASE UNCHANGED vars
  BY <1>13 DEF vars
<1> QED BY <1>1, <1>2, <1>3, <1>4, <1>5, <1>6, <1>7, <1>8, <1>9, <1>10, <1>11, <1>12,
         <1>13 DEF Next, Starting, Carrying, Around

\* The checks come before the verifier, and an old verdict goes before it.
LEMMA ReviewingStep ==
  ASSUME JudgedTyped, Reviewing, Lies, [Next]_vars
  PROVE  Reviewing'
<1> USE DEF startFrame, gitFrame, runFrame, repoVars, treeVars, rowVars, locals, world,
     At, Fault, Smooth, Killed, Stopping, Goes, Blocked, GivenBack, JudgedTyped,
     Reviewing, ChecksHeard, NoFile, Lies
<1>1. CASE Start \/ Look \/ FetchBase \/ Asks \/ Clears
  BY <1>1 DEF Start, Look, FetchBase, Asks, Clears, RebaseInProgress, ClearStaleLocks
<1>2. CASE RebaseBegins
  BY <1>2 DEF RebaseBegins
<1>3. CASE RebaseEnds
  BY <1>3 DEF RebaseEnds, Replayed
<1>4. CASE Unstashed \/ AbortRebase \/ Quits \/ ForceBack
  BY <1>4 DEF Unstashed, AbortRebase, Quits, ForceBack
<1>5. CASE Prepare \/ PromptFor
  BY <1>5 DEF Prepare, PromptFor, phaseOf
<1>6. CASE AgentWorks
  BY <1>6 DEF AgentWorks
<1>7. CASE AgentEnds \/ RecordPlan
  BY <1>7 DEF AgentEnds, RecordPlan, CommitPath
<1>8. CASE Checks \/ ClearsVerdict \/ ReviewerWrites \/ ReviewEnds \/ ReadVerdict
  BY <1>8 DEF Checks, ClearsVerdict, ReviewerWrites, ReviewEnds, ReadVerdict
<1>9. CASE Judge
  BY <1>9 DEF Judge, MovesOn
<1>10. CASE RemoteMoves \/ UserPulls
  BY <1>10 DEF RemoteMoves, UserPulls
<1>11. CASE Hand
  BY <1>11 DEF Hand
<1>12. CASE Stop \/ Restart \/ Crash
  BY <1>12 DEF Stop, Restart, Crash
<1>13. CASE UNCHANGED vars
  BY <1>13 DEF vars
<1> QED BY <1>1, <1>2, <1>3, <1>4, <1>5, <1>6, <1>7, <1>8, <1>9, <1>10, <1>11, <1>12,
         <1>13 DEF Next, Starting, Carrying, Around

\* Whatever leads to a success unrefused was heard out.
LEMMA JudgingStep ==
  ASSUME JudgedTyped, Reviewing, Lies, Judging, [Next]_vars
  PROVE  Judging'
<1> USE DEF startFrame, gitFrame, runFrame, repoVars, treeVars, rowVars, locals, world,
     At, Fault, Smooth, Killed, Stopping, Goes, Blocked, GivenBack, JudgedTyped,
     Reviewing, ChecksHeard, NoFile, Lies, Judging
<1>1. CASE Start \/ Look \/ FetchBase \/ Asks \/ Clears
  BY <1>1 DEF Start, Look, FetchBase, Asks, Clears, RebaseInProgress, ClearStaleLocks
<1>2. CASE RebaseBegins
  BY <1>2 DEF RebaseBegins
<1>3. CASE RebaseEnds
  BY <1>3 DEF RebaseEnds, Replayed
<1>4. CASE Unstashed \/ AbortRebase \/ Quits \/ ForceBack
  BY <1>4 DEF Unstashed, AbortRebase, Quits, ForceBack
<1>5. CASE Prepare \/ PromptFor
  BY <1>5 DEF Prepare, PromptFor, phaseOf
<1>6. CASE AgentWorks
  BY <1>6 DEF AgentWorks
<1>7. CASE AgentEnds \/ RecordPlan
  BY <1>7 DEF AgentEnds, RecordPlan, CommitPath
<1>8. CASE Checks \/ ClearsVerdict \/ ReviewerWrites \/ ReviewEnds \/ ReadVerdict
  BY <1>8 DEF Checks, ClearsVerdict, ReviewerWrites, ReviewEnds, ReadVerdict
<1>9. CASE Judge
  BY <1>9 DEF Judge, MovesOn
<1>10. CASE RemoteMoves \/ UserPulls
  BY <1>10 DEF RemoteMoves, UserPulls
<1>11. CASE Hand
  BY <1>11 DEF Hand
<1>12. CASE Stop \/ Restart \/ Crash
  BY <1>12 DEF Stop, Restart, Crash
<1>13. CASE UNCHANGED vars
  BY <1>13 DEF vars
<1> QED BY <1>1, <1>2, <1>3, <1>4, <1>5, <1>6, <1>7, <1>8, <1>9, <1>10, <1>11, <1>12,
         <1>13 DEF Next, Starting, Carrying, Around

\* Judge lets a Job into review on no other grounds.
LEMMA ReviewIsJudgedStep ==
  ASSUME JudgedTyped, Judging, Lies, RunTyped, ReviewIsJudged, [Next]_vars
  PROVE  ReviewIsJudged'
<1> USE DEF startFrame, gitFrame, runFrame, repoVars, treeVars, rowVars, locals, world,
     At, Fault, Smooth, Killed, Stopping, Goes, Blocked, GivenBack, JudgedTyped, Judging,
     ChecksHeard, Lies, RunTyped, ReviewIsJudged
<1>1. CASE Start \/ Look \/ FetchBase \/ Asks \/ Clears
  BY <1>1 DEF Start, Look, FetchBase, Asks, Clears, RebaseInProgress, ClearStaleLocks
<1>2. CASE RebaseBegins
  BY <1>2 DEF RebaseBegins
<1>3. CASE RebaseEnds
  BY <1>3 DEF RebaseEnds, Replayed
<1>4. CASE Unstashed \/ AbortRebase \/ Quits \/ ForceBack
  BY <1>4 DEF Unstashed, AbortRebase, Quits, ForceBack
<1>5. CASE Prepare \/ PromptFor
  BY <1>5 DEF Prepare, PromptFor, phaseOf
<1>6. CASE AgentWorks
  BY <1>6 DEF AgentWorks
<1>7. CASE AgentEnds \/ RecordPlan
  BY <1>7 DEF AgentEnds, RecordPlan, CommitPath
<1>8. CASE Checks \/ ClearsVerdict \/ ReviewerWrites \/ ReviewEnds \/ ReadVerdict
  BY <1>8 DEF Checks, ClearsVerdict, ReviewerWrites, ReviewEnds, ReadVerdict
<1>9. CASE Judge
  BY <1>9 DEF Judge, MovesOn
<1>10. CASE RemoteMoves \/ UserPulls
  BY <1>10 DEF RemoteMoves, UserPulls
<1>11. CASE Hand
  BY <1>11 DEF Hand
<1>12. CASE Stop \/ Restart \/ Crash
  BY <1>12 DEF Stop, Restart, Crash
<1>13. CASE UNCHANGED vars
  BY <1>13 DEF vars
<1> QED BY <1>1, <1>2, <1>3, <1>4, <1>5, <1>6, <1>7, <1>8, <1>9, <1>10, <1>11, <1>12,
         <1>13 DEF Next, Starting, Carrying, Around

\* Only Hand takes a worktree away, and no start is under way then.
LEMMA OursStep ==
  ASSUME TreeTyped, Ours, [Next]_vars
  PROVE  Ours'
<1> USE DEF startFrame, gitFrame, runFrame, repoVars, treeVars, rowVars, locals, world,
     At, Fault, Smooth, Killed, Stopping, Goes, Blocked, GivenBack, TreeTyped, Flags,
     Ours, Elsewhere
<1>1. CASE Start \/ Look \/ FetchBase \/ Asks \/ Clears
  BY <1>1 DEF Start, Look, FetchBase, Asks, Clears, RebaseInProgress, ClearStaleLocks
<1>2. CASE RebaseBegins
  BY <1>2 DEF RebaseBegins
<1>3. CASE RebaseEnds
  BY <1>3 DEF RebaseEnds, Replayed
<1>4. CASE Unstashed \/ AbortRebase \/ Quits \/ ForceBack
  BY <1>4 DEF Unstashed, AbortRebase, Quits, ForceBack
<1>5. CASE Prepare \/ PromptFor
  BY <1>5 DEF Prepare, PromptFor, phaseOf
<1>6. CASE AgentWorks
  BY <1>6 DEF AgentWorks
<1>7. CASE AgentEnds \/ RecordPlan
  BY <1>7 DEF AgentEnds, RecordPlan, CommitPath
<1>8. CASE Checks \/ ClearsVerdict \/ ReviewerWrites \/ ReviewEnds \/ ReadVerdict
  BY <1>8 DEF Checks, ClearsVerdict, ReviewerWrites, ReviewEnds, ReadVerdict
<1>9. CASE Judge
  BY <1>9 DEF Judge, MovesOn
<1>10. CASE RemoteMoves \/ UserPulls
  BY <1>10 DEF RemoteMoves, UserPulls
<1>11. CASE Hand
  BY <1>11 DEF Hand
<1>12. CASE Stop \/ Restart \/ Crash
  BY <1>12 DEF Stop, Restart, Crash
<1>13. CASE UNCHANGED vars
  BY <1>13 DEF vars
<1> QED BY <1>1, <1>2, <1>3, <1>4, <1>5, <1>6, <1>7, <1>8, <1>9, <1>10, <1>11, <1>12,
         <1>13 DEF Next, Starting, Carrying, Around

\* A start asks once.
LEMMA KnownStep ==
  ASSUME Known, [Next]_vars
  PROVE  Known'
<1> USE DEF startFrame, gitFrame, runFrame, repoVars, treeVars, rowVars, locals, world,
     At, Fault, Smooth, Killed, Stopping, Goes, Blocked, GivenBack, Known, Elsewhere
<1>1. CASE Start \/ Look \/ FetchBase \/ Asks \/ Clears
  BY <1>1 DEF Start, Look, FetchBase, Asks, Clears, RebaseInProgress, ClearStaleLocks
<1>2. CASE RebaseBegins
  BY <1>2 DEF RebaseBegins
<1>3. CASE RebaseEnds
  BY <1>3 DEF RebaseEnds, Replayed
<1>4. CASE Unstashed \/ AbortRebase \/ Quits \/ ForceBack
  BY <1>4 DEF Unstashed, AbortRebase, Quits, ForceBack
<1>5. CASE Prepare \/ PromptFor
  BY <1>5 DEF Prepare, PromptFor, phaseOf
<1>6. CASE AgentWorks
  BY <1>6 DEF AgentWorks
<1>7. CASE AgentEnds \/ RecordPlan
  BY <1>7 DEF AgentEnds, RecordPlan, CommitPath
<1>8. CASE Checks \/ ClearsVerdict \/ ReviewerWrites \/ ReviewEnds \/ ReadVerdict
  BY <1>8 DEF Checks, ClearsVerdict, ReviewerWrites, ReviewEnds, ReadVerdict
<1>9. CASE Judge
  BY <1>9 DEF Judge, MovesOn
<1>10. CASE RemoteMoves \/ UserPulls
  BY <1>10 DEF RemoteMoves, UserPulls
<1>11. CASE Hand
  BY <1>11 DEF Hand
<1>12. CASE Stop \/ Restart \/ Crash
  BY <1>12 DEF Stop, Restart, Crash
<1>13. CASE UNCHANGED vars
  BY <1>13 DEF vars
<1> QED BY <1>1, <1>2, <1>3, <1>4, <1>5, <1>6, <1>7, <1>8, <1>9, <1>10, <1>11, <1>12,
         <1>13 DEF Next, Starting, Carrying, Around

\* A lock comes only with a git that was killed.
LEMMA UnlockedStep ==
  ASSUME TreeTyped, Unlocked, [Next]_vars
  PROVE  Unlocked'
<1> USE DEF startFrame, gitFrame, runFrame, repoVars, treeVars, rowVars, locals, world,
     At, Fault, Smooth, Killed, Stopping, Goes, Blocked, GivenBack, TreeTyped, Flags,
     Unlocked
<1>1. CASE Start \/ Look \/ FetchBase \/ Asks \/ Clears
  BY <1>1 DEF Start, Look, FetchBase, Asks, Clears, RebaseInProgress, ClearStaleLocks
<1>2. CASE RebaseBegins
  BY <1>2 DEF RebaseBegins
<1>3. CASE RebaseEnds
  BY <1>3 DEF RebaseEnds, Replayed
<1>4. CASE Unstashed \/ AbortRebase \/ Quits \/ ForceBack
  BY <1>4 DEF Unstashed, AbortRebase, Quits, ForceBack
<1>5. CASE Prepare \/ PromptFor
  BY <1>5 DEF Prepare, PromptFor, phaseOf
<1>6. CASE AgentWorks
  BY <1>6 DEF AgentWorks
<1>7. CASE AgentEnds \/ RecordPlan
  BY <1>7 DEF AgentEnds, RecordPlan, CommitPath
<1>8. CASE Checks \/ ClearsVerdict \/ ReviewerWrites \/ ReviewEnds \/ ReadVerdict
  BY <1>8 DEF Checks, ClearsVerdict, ReviewerWrites, ReviewEnds, ReadVerdict
<1>9. CASE Judge
  BY <1>9 DEF Judge, MovesOn
<1>10. CASE RemoteMoves \/ UserPulls
  BY <1>10 DEF RemoteMoves, UserPulls
<1>11. CASE Hand
  BY <1>11 DEF Hand
<1>12. CASE Stop \/ Restart \/ Crash
  BY <1>12 DEF Stop, Restart, Crash
<1>13. CASE UNCHANGED vars
  BY <1>13 DEF vars
<1> QED BY <1>1, <1>2, <1>3, <1>4, <1>5, <1>6, <1>7, <1>8, <1>9, <1>10, <1>11, <1>12,
         <1>13 DEF Next, Starting, Carrying, Around

\* A rebase begins and ends between the look and the setup commands.
LEMMA WholeStep ==
  ASSUME TreeTyped, Whole, [Next]_vars
  PROVE  Whole'
<1> USE DEF startFrame, gitFrame, runFrame, repoVars, treeVars, rowVars, locals, world,
     At, Fault, Smooth, Killed, Stopping, Goes, Blocked, GivenBack, TreeTyped, Flags,
     Whole
<1>1. CASE Start \/ Look \/ FetchBase \/ Asks \/ Clears
  BY <1>1 DEF Start, Look, FetchBase, Asks, Clears, RebaseInProgress, ClearStaleLocks
<1>2. CASE RebaseBegins
  BY <1>2 DEF RebaseBegins
<1>3. CASE RebaseEnds
  BY <1>3 DEF RebaseEnds, Replayed
<1>4. CASE Unstashed \/ AbortRebase \/ Quits \/ ForceBack
  BY <1>4 DEF Unstashed, AbortRebase, Quits, ForceBack
<1>5. CASE Prepare \/ PromptFor
  BY <1>5 DEF Prepare, PromptFor, phaseOf
<1>6. CASE AgentWorks
  BY <1>6 DEF AgentWorks
<1>7. CASE AgentEnds \/ RecordPlan
  BY <1>7 DEF AgentEnds, RecordPlan, CommitPath
<1>8. CASE Checks \/ ClearsVerdict \/ ReviewerWrites \/ ReviewEnds \/ ReadVerdict
  BY <1>8 DEF Checks, ClearsVerdict, ReviewerWrites, ReviewEnds, ReadVerdict
<1>9. CASE Judge
  BY <1>9 DEF Judge, MovesOn
<1>10. CASE RemoteMoves \/ UserPulls
  BY <1>10 DEF RemoteMoves, UserPulls
<1>11. CASE Hand
  BY <1>11 DEF Hand
<1>12. CASE Stop \/ Restart \/ Crash
  BY <1>12 DEF Stop, Restart, Crash
<1>13. CASE UNCHANGED vars
  BY <1>13 DEF vars
<1> QED BY <1>1, <1>2, <1>3, <1>4, <1>5, <1>6, <1>7, <1>8, <1>9, <1>10, <1>11, <1>12,
         <1>13 DEF Next, Starting, Carrying, Around

\* Only a replay leads on.
LEMMA AheadStep ==
  ASSUME TreeTyped, BaseTyped, Ahead, [Next]_vars
  PROVE  Ahead'
<1> USE DEF startFrame, gitFrame, runFrame, repoVars, treeVars, rowVars, locals, world,
     At, Fault, Smooth, Killed, Stopping, Goes, Blocked, GivenBack, TreeTyped, BaseTyped,
     Flags, Ahead
<1>1. CASE Start \/ Look \/ FetchBase \/ Asks \/ Clears
  BY <1>1 DEF Start, Look, FetchBase, Asks, Clears, RebaseInProgress, ClearStaleLocks
<1>2. CASE RebaseBegins
  BY <1>2 DEF RebaseBegins
<1>3. CASE RebaseEnds
  <2>1. CASE Replayed
    <3>1. onto' = onto /\ onto \in Nat /\ tree.has \in Nat
      BY <1>3, WorktreeAssumption DEF RebaseEnds, gitFrame
    <3>2. tree'.has = IF onto > tree.has THEN onto ELSE tree.has
      BY <2>1 DEF Replayed
    <3> QED BY <3>1, <3>2
  <2>2. CASE ~Replayed
    BY <1>3, <2>2 DEF RebaseEnds
  <2> QED BY <2>1, <2>2
<1>4. CASE Unstashed \/ AbortRebase \/ Quits \/ ForceBack
  BY <1>4 DEF Unstashed, AbortRebase, Quits, ForceBack
<1>5. CASE Prepare \/ PromptFor
  BY <1>5 DEF Prepare, PromptFor, phaseOf
<1>6. CASE AgentWorks
  BY <1>6 DEF AgentWorks
<1>7. CASE AgentEnds \/ RecordPlan
  BY <1>7 DEF AgentEnds, RecordPlan, CommitPath
<1>8. CASE Checks \/ ClearsVerdict \/ ReviewerWrites \/ ReviewEnds \/ ReadVerdict
  BY <1>8 DEF Checks, ClearsVerdict, ReviewerWrites, ReviewEnds, ReadVerdict
<1>9. CASE Judge
  BY <1>9 DEF Judge, MovesOn
<1>10. CASE RemoteMoves \/ UserPulls
  BY <1>10 DEF RemoteMoves, UserPulls
<1>11. CASE Hand
  BY <1>11 DEF Hand
<1>12. CASE Stop \/ Restart \/ Crash
  BY <1>12 DEF Stop, Restart, Crash
<1>13. CASE UNCHANGED vars
  BY <1>13 DEF vars
<1> QED BY <1>1, <1>2, <1>3, <1>4, <1>5, <1>6, <1>7, <1>8, <1>9, <1>10, <1>11, <1>12,
         <1>13 DEF Next, Starting, Carrying, Around

\* Nothing comes back into the tree before the rebase is over.
LEMMA PutAsideStep ==
  ASSUME TreeTyped, StartTyped, Whole, PutAside, [Next]_vars
  PROVE  PutAside'
<1> USE DEF startFrame, gitFrame, runFrame, repoVars, treeVars, rowVars, locals, world,
     At, Fault, Smooth, Killed, Stopping, Goes, Blocked, GivenBack, TreeTyped, StartTyped,
     Flags, PutAside
<1>1. CASE Start \/ Look \/ FetchBase \/ Asks \/ Clears
  BY <1>1 DEF Start, Look, FetchBase, Asks, Clears, RebaseInProgress, ClearStaleLocks
<1>2. CASE RebaseBegins
  <2>1. CASE pc' = "rebasing"
    BY <1>2, <2>1 DEF RebaseBegins
  <2>2. CASE pc' # "rebasing"
    <3>1. pc' = "abort" /\ ~tree.rebasing
      BY <1>2, <2>2 DEF RebaseBegins, Whole
    <3>2. ~tree'.rebasing
      BY <1>2, <2>2, <3>1 DEF RebaseBegins
    <3> QED BY <3>1, <3>2
  <2> QED BY <2>1, <2>2
<1>3. CASE RebaseEnds
  BY <1>3 DEF RebaseEnds, Replayed
<1>4. CASE Unstashed \/ AbortRebase \/ Quits \/ ForceBack
  BY <1>4 DEF Unstashed, AbortRebase, Quits, ForceBack
<1>5. CASE Prepare \/ PromptFor
  BY <1>5 DEF Prepare, PromptFor, phaseOf
<1>6. CASE AgentWorks
  BY <1>6 DEF AgentWorks
<1>7. CASE AgentEnds \/ RecordPlan
  BY <1>7 DEF AgentEnds, RecordPlan, CommitPath
<1>8. CASE Checks \/ ClearsVerdict \/ ReviewerWrites \/ ReviewEnds \/ ReadVerdict
  BY <1>8 DEF Checks, ClearsVerdict, ReviewerWrites, ReviewEnds, ReadVerdict
<1>9. CASE Judge
  BY <1>9 DEF Judge, MovesOn
<1>10. CASE RemoteMoves \/ UserPulls
  BY <1>10 DEF RemoteMoves, UserPulls
<1>11. CASE Hand
  BY <1>11 DEF Hand
<1>12. CASE Stop \/ Restart \/ Crash
  BY <1>12 DEF Stop, Restart, Crash
<1>13. CASE UNCHANGED vars
  BY <1>13 DEF vars
<1> QED BY <1>1, <1>2, <1>3, <1>4, <1>5, <1>6, <1>7, <1>8, <1>9, <1>10, <1>11, <1>12,
         <1>13 DEF Next, Starting, Carrying, Around

-----------------------------------------------------------------------------
(* The theorems.                                                             *)

\* What NothingUncommittedIsLost says of one step: each of git's commands that moves
\* the uncommitted work says where to.
LEMMA NothingLost ==
  ASSUME Budget, StartTyped, Whole, PutAside, [Next]_vars
  PROVE  hands' = hands /\ pc # "agent" =>
           /\ "tree" \in work => "tree" \in work' \/ "autostash" \in work'
           /\ "autostash" \in work => work' \cap {"autostash", "tree", "stash"} # {}
           /\ "stash" \in work => "stash" \in work'
<1> USE WorktreeAssumption DEF startFrame, gitFrame, runFrame, repoVars, treeVars,
     rowVars, locals, world, At, Fault, Smooth, Killed, Stopping, Goes, Blocked,
     GivenBack, Budget, StartTyped, Whole, PutAside
<1>1. CASE Start \/ Look \/ FetchBase \/ Asks \/ Clears
  BY <1>1 DEF Start, Look, FetchBase, Asks, Clears, RebaseInProgress, ClearStaleLocks
<1>2. CASE RebaseBegins
  BY <1>2 DEF RebaseBegins
<1>3. CASE RebaseEnds
  BY <1>3 DEF RebaseEnds, Replayed
<1>4. CASE Unstashed \/ AbortRebase \/ Quits \/ ForceBack
  BY <1>4 DEF Unstashed, AbortRebase, Quits, ForceBack
<1>5. CASE Prepare \/ PromptFor
  BY <1>5 DEF Prepare, PromptFor, phaseOf
<1>6. CASE AgentWorks
  BY <1>6 DEF AgentWorks
<1>7. CASE AgentEnds \/ RecordPlan
  BY <1>7 DEF AgentEnds, RecordPlan, CommitPath
<1>8. CASE Checks \/ ClearsVerdict \/ ReviewerWrites \/ ReviewEnds \/ ReadVerdict
  BY <1>8 DEF Checks, ClearsVerdict, ReviewerWrites, ReviewEnds, ReadVerdict
<1>9. CASE Judge
  BY <1>9 DEF Judge, MovesOn
<1>10. CASE RemoteMoves \/ UserPulls
  BY <1>10 DEF RemoteMoves, UserPulls
<1>11. CASE Hand
  <2>1. hands' = hands + 1
    BY <1>11 DEF Hand
  <2>2. hands \in Nat
    OBVIOUS
  <2> QED BY <2>1, <2>2
<1>12. CASE Stop \/ Restart \/ Crash
  BY <1>12 DEF Stop, Restart, Crash
<1>13. CASE UNCHANGED vars
  BY <1>13 DEF vars
<1> QED BY <1>1, <1>2, <1>3, <1>4, <1>5, <1>6, <1>7, <1>8, <1>9, <1>10, <1>11, <1>12,
         <1>13 DEF Next, Starting, Carrying, Around

\* What BeginsSound says of one step: the start has established all of it by then.
LEMMA SoundlyBegun ==
  ASSUME BranchInv, BranchInv'
  PROVE  /\ pc = "prompt" /\ pc' = "agent" =>
              /\ tree.live /\ tree.ours /\ tree.on = "job"
              /\ ~tree.rebasing /\ ~tree.locked /\ ~tree.unmerged
              /\ tree.has >= asked
         /\ pc' = "rebase" => ~tree'.locked
<1>1. pc' = "rebase" => ~tree'.locked
  BY DEF BranchInv, Unlocked
<1>2. CASE pc = "prompt"
  <2>1. tree.live /\ tree.ours /\ asked = onto
    BY <1>2 DEF BranchInv, Ours, Known, Elsewhere
  <2>2. tree.on = "job" /\ ~tree.rebasing /\ ~tree.locked /\ ~tree.unmerged
    BY <1>2 DEF BranchInv, Whole, Unlocked
  <2>3. tree.has >= asked
    BY <1>2, <2>1 DEF BranchInv, Ahead
  <2> QED BY <1>1, <2>1, <2>2, <2>3
<1> QED BY <1>1, <1>2

\* A worktree just made satisfies the invariant.
LEMMA BranchInit ==
  ASSUME Init
  PROVE  BranchInv
<1> USE WorktreeAssumption DEF Init
<1>1. TreeTyped
  BY DEF TreeTyped, Flags, Branch
<1>2. BaseTyped
  BY DEF BaseTyped
<1>3. JudgedTyped
  BY DEF JudgedTyped, NoFile, Nothing, Says
<1>4. /\ StartTyped
      /\ RunTyped
      /\ Budget
      /\ Room
  <2>1. StartTyped
    BY DEF StartTyped
  <2>2. RunTyped
    BY DEF RunTyped, Step
  <2>3. Budget
    BY DEF Budget
  <2>4. Room
    BY DEF Room
  <2> QED BY <2>1, <2>2, <2>3, <2>4
<1>5. Lies /\ Reviewing /\ Judging /\ ReviewIsJudged
  BY DEF Lies, Reviewing, Judging, ReviewIsJudged
<1>6. Ours /\ Known /\ Unlocked /\ Whole /\ Ahead /\ PutAside
  BY DEF Ours, Known, Unlocked, Whole, Ahead, PutAside, Elsewhere
<1> QED BY <1>1, <1>2, <1>3, <1>4, <1>5, <1>6 DEF BranchInv, Typed

\* Every step preserves it.
LEMMA BranchStep ==
  ASSUME BranchInv, [Next]_vars
  PROVE  BranchInv'
<1> USE DEF BranchInv, Typed
<1>1. Typed'
  BY TreeTypedStep, BaseTypedStep, JudgedTypedStep, StartTypedStep, RunTypedStep, BudgetStep, RoomStep
<1>2. (Lies /\ Reviewing /\ Judging /\ ReviewIsJudged)'
  BY LiesStep, ReviewingStep, JudgingStep, ReviewIsJudgedStep
<1>3. (Ours /\ Known /\ Unlocked /\ Whole /\ Ahead /\ PutAside)'
  BY OursStep, KnownStep, UnlockedStep, WholeStep, AheadStep, PutAsideStep
<1> QED BY <1>1, <1>2, <1>3

\* The branch's half of PartsNext is a step of JobWorktree, and the other half none.
LEMMA BranchMoves ==
  ASSUME [PartsNext]_<<part, vars, skillsVars>>
  PROVE  [Next]_vars
BY DEF PartsNext

\* The invariant holds of every behaviour of the two halves together.
LEMMA BranchHolds == PartsSpec => []BranchInv
<1>1. PartsInit => BranchInv
  BY BranchInit DEF PartsInit
<1>2. BranchInv /\ [PartsNext]_<<part, vars, skillsVars>> => BranchInv'
  BY BranchStep, BranchMoves
<1> QED BY <1>1, <1>2, PTL DEF PartsSpec

\* The worktree's half stays within its types and its bounds (TypeOK of JobWorktree).
THEOREM WorktreeTyped == PartsSpec => []TypeOK
<1>1. BranchInv => TypeOK
  BY DEF BranchInv, Typed, TreeTyped, BaseTyped, JudgedTyped, StartTyped, RunTyped, Budget, TypeOK
<1> QED BY <1>1, BranchHolds, PTL

\* A Job is in review only if Verification did not refuse it, and its Project's checks
\* and its verifier, whichever it has, judged the very Run that ended there: not an
\* earlier one, and not one the daemon's stop cut short (verify, carryOut, readVerdict).
THEOREM ReviewIsEarnedByItsRun == PartsSpec => []ReviewIsJudged
<1>1. BranchInv => ReviewIsJudged
  BY DEF BranchInv
<1> QED BY <1>1, BranchHolds, PTL

\* An Agent begins on a sound worktree - the Job's branch, ahead of the base it was to
\* build on, no rebase, lock or conflict in it - and no step of a start or of a rebase's
\* abort loses what nobody had committed (rebase.go, git.Rebase, abortRebase, forceBack).
THEOREM StartsSoundLosesNothing == PartsSpec => WorktreeIsKept
<1>1. BranchInv /\ BranchInv' /\ [PartsNext]_<<part, vars, skillsVars>> =>
        [/\ pc = "prompt" /\ pc' = "agent" =>
              /\ tree.live /\ tree.ours /\ tree.on = "job"
              /\ ~tree.rebasing /\ ~tree.locked /\ ~tree.unmerged
              /\ tree.has >= asked
         /\ pc' = "rebase" => ~tree'.locked]_vars
  BY SoundlyBegun
<1>2. BranchInv /\ [PartsNext]_<<part, vars, skillsVars>> =>
        [hands' = hands /\ pc # "agent" =>
           /\ "tree" \in work => "tree" \in work' \/ "autostash" \in work'
           /\ "autostash" \in work => work' \cap {"autostash", "tree", "stash"} # {}
           /\ "stash" \in work => "stash" \in work']_vars
  BY NothingLost, BranchMoves DEF BranchInv, Typed
<1>3. PartsSpec => BeginsSound
  BY <1>1, BranchHolds, PTL DEF PartsSpec, BeginsSound
<1>4. PartsSpec => NothingUncommittedIsLost
  BY <1>2, BranchHolds, PTL DEF PartsSpec, NothingUncommittedIsLost
<1> QED BY <1>3, <1>4 DEF WorktreeIsKept

-----------------------------------------------------------------------------
(* The Skills' half: what its state holds.                                   *)

\* Entries as a worktree may have them.
Entries == [entry: [Skill -> S!Commit \cup {0, S!Own}], staged: Int, hidden: SUBSET Skill,
            kept: BOOLEAN]

\* The steps of a command, and of a placement once both files were read.
Asking == {"asking", "manifest", "lock"}
Placing == {"preparing", "hiding", "linking", "moving", "starting", "running"}

\* What a command and a Run are, as records.
Adding   == [at: Asking, op: {"add", "remove"}, names: SUBSET Skill, due: SUBSET Skill,
             lock: S!Locks, manifest: S!Manifests]
Updating == [at: Asking, op: {"update"}, names: SUBSET Skill, due: SUBSET Skill,
             lock: S!Locks, manifest: S!Manifests, all: BOOLEAN]
Reading  == [at: {"manifest"}, manifest: S!Manifests, before: Entries]
Readied  == [at: Placing, manifest: S!Manifests, lock: S!Locks, before: Entries,
             used: S!Locks, todo: SUBSET Skill]
Refused  == [at: {"refused"}, before: Entries, why: {"unlocked", "unfetched", "foreign"}]

\* What each ref points at is something it was seen to point at.
Sources ==
  /\ tip \in [Skill -> [Ref -> S!Commit]]
  /\ been \in [Skill -> [Ref -> SUBSET S!Commit]]
  /\ \A s \in Skill, r \in Ref : tip[s][r] \in been[s][r]
  /\ count \in [commands: Nat, runs: Nat, upsets: 0..MaxUpsets]

\* The cache holds under each digest what is genuine, changed or absent.
Cached == cache \in [Skill -> [S!Commit -> {"absent", "genuine", "changed"}]]

\* A lockfile pins each Skill to an answer of its source, under the ref it was asked for.
Answered(lock, seen) ==
  \A s \in Skill : lock[s] # S!None => lock[s].ref \in Ref /\ lock[s].commit \in seen[s][lock[s].ref]

\* What is used was answered for the ref it is used for, when it is used for one.
Genuine(used, seen) ==
  \A s \in Skill : used[s] # S!None /\ used[s].ref # S!NoRef => used[s].commit \in seen[s][used[s].ref]

\* The two files are of their kinds, and the lockfile's pins were answered.
FilesTrue(files, seen) == files \in S!Files /\ Answered(files.lock, seen)

\* What an update is due was asked for and found under the manifest's own ref, but for
\* what is left to ask; and one of everything is due all that is not pinned.
Asked(c) ==
  /\ c.at # "asking" => c.names = {}
  /\ c.due \subseteq S!Names(c.manifest)
  /\ \A s \in c.due \ c.names : c.lock[s] # S!None /\ c.lock[s].ref = S!RefOf(c.manifest[s].ref)
  /\ c.all => \A s \in S!Names(c.manifest) : c.lock[s] # S!None \/ s \in c.due

\* A command holds what was answered, and is about what its manifest declares.
CommandTrue(c, seen) ==
  /\ c \in {S!Idle} \cup Adding \cup Updating
  /\ c # S!Idle => Answered(c.lock, seen) /\ c.names \subseteq S!Names(c.manifest)
  /\ c \in Updating => Asked(c)

\* A Run was handed what was answered, and uses it.
RunTrue(r, seen) ==
  /\ r \in {S!Idle} \cup Reading \cup Readied \cup Refused
  /\ r \in Readied => Answered(r.lock, seen) /\ Genuine(r.used, seen)

\* What the last Run recorded it used.
Recorded(used, seen) == used \in S!Locks /\ Genuine(used, seen)

\* Each of them in this state.
FilesHold == FilesTrue(disk, been) /\ FilesTrue(declared, been)
CommandsHold ==
  /\ cmd \in [Caller -> {S!Idle} \cup Adding \cup Updating]
  /\ \A u \in Caller : CommandTrue(cmd[u], been)
RunHolds == RunTrue(placing, been) /\ Recorded(recorded, been)

\* What a placement has done to the entries, step by step; and what the worktree holds
\* of Owl's while nothing is kept beside it.
Placed(r, t) ==
  /\ t \in Entries
  /\ r.at \in {"manifest", "preparing", "refused"} => t = r.before
  /\ r.at \in {"hiding", "linking", "moving", "starting"} => S!Names(r.used) = S!Names(r.manifest)
  /\ r.at = "hiding" => \A s \in S!Names(r.used) : t.entry[s] # S!Own
  /\ r.at \in {"linking", "moving"} =>
       /\ t.kept /\ t.hidden = S!Names(r.used) /\ r.todo \subseteq S!Names(r.used)
       /\ \A s \in r.todo : t.entry[s] # S!Own
       /\ \A s \in S!Names(r.used) \ r.todo : t.entry[s] = r.used[s].commit
  /\ r.at = "starting" =>
       /\ t.staged = 0 /\ (t.kept => t.hidden = S!Names(r.used))
       /\ \A s \in Skill : IF r.used[s] # S!None THEN t.entry[s] = r.used[s].commit
                                                 ELSE t.entry[s] \in {0, S!Own}
  /\ ~t.kept => t.staged = 0 /\ \A s \in Skill : t.entry[s] \in {0, S!Own}

\* The inductive invariant of the Skills' half.
SkillsInv == Sources /\ Cached /\ FilesHold /\ CommandsHold /\ RunHolds /\ Placed(placing, entries)

-----------------------------------------------------------------------------
(* Commits, entries and what is nothing.                                     *)

\* Both halves count alike.
LEMMA SameCount == S!Cardinality(Ref) = Cardinality(Ref)
BY DEF S!Cardinality, Cardinality

\* An entry is a commit of Owl's, nothing, or not Owl's, and one of them only.
LEMMA Numbered ==
  /\ Cardinality(Ref) \in Nat /\ MaxUpsets \in Nat /\ S!Own \in Nat /\ S!Own \notin S!Commit
  /\ 0 \notin S!Commit /\ S!Own # 0 /\ S!Commit \subseteq Nat
<1>1. S!Cardinality(Ref) \in Nat /\ MaxUpsets \in Nat /\ S!Cardinality(Ref) = Cardinality(Ref)
  BY RefsAssumption, FS_CardinalityType, SameCount
<1> QED BY <1>1 DEF S!Own, S!Commit

\* Nothing is neither a declaration nor a pin.
LEMMA NothingElse ==
  /\ S!None \notin S!Locked /\ S!None \notin S!Declared
  /\ \A c \in S!Locked : c.ref \in S!Asked /\ c.commit \in S!Commit
  /\ \A d \in S!Declared : d.ref \in S!Asked /\ d.auto \in BOOLEAN
<1>1. \A c \in S!Locked : DOMAIN c = {"ref", "commit"} /\ c.ref \in S!Asked /\ c.commit \in S!Commit
  BY DEF S!Locked
<1>2. \A d \in S!Declared : DOMAIN d = {"ref", "auto"} /\ d.ref \in S!Asked /\ d.auto \in BOOLEAN
  BY DEF S!Declared
<1>3. DOMAIN S!None = {"is"}
  BY DEF S!None
<1> QED BY <1>1, <1>2, <1>3

\* What goes by the default branch's name, or by its own, goes by a ref.
LEMMA RefsAreRefs ==
  ASSUME NEW ref \in S!Asked
  PROVE  S!RefOf(ref) \in Ref /\ (ref # S!NoRef => ref \in Ref /\ S!RefOf(ref) = ref)
BY RefsAssumption DEF S!RefOf, S!Asked

\* The refs begin at commits of their own.
LEMMA ApartIs == S!Apart \in [Ref -> S!Commit]
<1> DEFINE n == Cardinality(Ref)
<1>1. n \in Nat /\ ExistsBijection(1..n, Ref)
  BY RefsAssumption, FS_CardinalityType
<1>2. PICK f \in Bijection(1..n, Ref) : TRUE
  BY <1>1 DEF ExistsBijection
<1>3. f \in [1..n -> Ref] /\ \A r \in Ref : \E i \in 1..n : f[i] = r
  BY <1>2 DEF Bijection, Injection, Surjection
<1> DEFINE g == [r \in Ref |-> CHOOSE i \in 1..n : f[i] = r]
<1>4. g \in [Ref -> 1..n] /\ \A r, q \in Ref : g[r] = g[q] => r = q
  <2>1. \A r \in Ref : g[r] \in 1..n /\ f[g[r]] = r
    BY <1>3
  <2> HIDE DEF g
  <2>2. g \in [Ref -> 1..n]
    BY <2>1 DEF g
  <2> QED BY <2>1, <2>2
<1>5. S!Apart \in [Ref -> 1..n]
  BY <1>4, SameCount DEF S!Apart
<1>6. 1..n \subseteq S!Commit
  BY <1>1, Numbered, SameCount DEF S!Commit
<1> QED BY <1>5, <1>6

-----------------------------------------------------------------------------
(* What each group of actions leaves alone.                                  *)

\* A command touches the files, the cache and itself.
LEMMA CommandKeeps ==
  ASSUME NEW u \in Caller, S!Command(u)
  PROVE  UNCHANGED <<inRepo, tip, been, declared, placing, entries, recorded>>
BY DEF S!Command, S!AddReads, S!RemoveReads, S!AskSource, S!AskFails, S!UpdateReads,
       S!NothingLeftToAsk, S!WritesManifest, S!WritesLock

\* A placement only reads what the files and the sources say.
LEMMA PlacementKeeps ==
  ASSUME S!Placement
  PROVE  UNCHANGED <<inRepo, tip, been, disk, declared, cmd>>
BY DEF S!Placement, S!ReadsManifest, S!ReadsLock, S!Looks, S!Hides, S!Stages, S!Sweeps, S!Starts,
       S!Ends, S!Prepare, S!Links, S!Reclaims

\* Only a push changes what a source answers, and it is one of the bounded upsets.
LEMMA OthersKeep ==
  ASSUME S!Others
  PROVE  /\ \/ UNCHANGED <<tip, been>>
            \/ \E s \in Skill, r \in Ref : S!SourceMoves(s, r)
         /\ UNCHANGED <<inRepo, recorded>>
BY DEF S!Others, S!Crashes, S!Commits, S!SourceMoves, S!EditsManifest, S!AgentWrites, S!Tampers

\* What is bounded is counted, and counted within its bound.
LEMMA CountStep ==
  ASSUME Sources, [S!Next]_(S!vars)
  PROVE  count' \in [commands: Nat, runs: Nat, upsets: 0..MaxUpsets]
<1> DEFINE Counts == count' \in [commands: Nat, runs: Nat, upsets: 0..MaxUpsets]
<1>1. count \in [commands: Nat, runs: Nat, upsets: 0..MaxUpsets] /\ MaxUpsets \in Nat
  BY Numbered DEF Sources
<1>2. UNCHANGED count => Counts
  BY <1>1
<1>3. S!Once("upsets", MaxUpsets) => Counts
  BY <1>1 DEF S!Once
<1>4. S!Once("runs", MaxPlacements) => Counts
  BY <1>1 DEF S!Once
<1>5. S!Once("commands", MaxCommands) => Counts
  BY <1>1 DEF S!Once
<1> HIDE DEF Counts
<1>6. ASSUME S!Placement PROVE Counts
  BY <1>2, <1>4, <1>6 DEF S!Placement, S!ReadsManifest, S!ReadsLock, S!Looks, S!Hides, S!Stages,
       S!Sweeps, S!Starts, S!Ends, S!Prepare, S!Links, S!Reclaims
<1>7. ASSUME S!Others PROVE Counts
  BY <1>2, <1>3, <1>7 DEF S!Others, S!Crashes, S!Commits, S!SourceMoves, S!EditsManifest,
       S!AgentWrites, S!Tampers
<1>8. ASSUME NEW u \in Caller, S!Command(u) PROVE Counts
  BY <1>2, <1>5, <1>8 DEF S!Command, S!AddReads, S!RemoveReads, S!AskSource, S!AskFails,
       S!UpdateReads, S!NothingLeftToAsk, S!WritesManifest, S!WritesLock
<1>9. ASSUME UNCHANGED S!vars PROVE Counts
  BY <1>2, <1>9 DEF S!vars
<1> QED BY <1>6, <1>7, <1>8, <1>9 DEF S!Next, Counts

\* What a source answered it answered.
LEMMA SourcesStep ==
  ASSUME Sources, [S!Next]_(S!vars)
  PROVE  Sources' /\ \A s \in Skill, r \in Ref : been[s][r] \subseteq been'[s][r]
<1>1. count' \in [commands: Nat, runs: Nat, upsets: 0..MaxUpsets]
  BY CountStep
<1>2. CASE UNCHANGED <<tip, been>>
  BY <1>1, <1>2 DEF Sources
<1>3. ASSUME NEW s \in Skill, NEW r \in Ref, S!SourceMoves(s, r)
      PROVE  Sources' /\ \A t \in Skill, q \in Ref : been[t][q] \subseteq been'[t][q]
  <2> DEFINE c == Cardinality(Ref) + count.upsets + 1
  <2>1. count.upsets \in Nat /\ count.upsets < MaxUpsets
    BY <1>3 DEF S!SourceMoves, S!Once, Sources
  <2>2. c \in S!Commit
    BY <2>1, Numbered, SameCount DEF S!Commit
  <2>3. tip' = [tip EXCEPT ![s][r] = c] /\ been' = [been EXCEPT ![s][r] = @ \cup {c}]
    BY <1>3, SameCount DEF S!SourceMoves
  <2> HIDE DEF c
  <2>4. tip \in [Skill -> [Ref -> S!Commit]] /\ been \in [Skill -> [Ref -> SUBSET S!Commit]]
    BY DEF Sources
  <2>5. tip' \in [Skill -> [Ref -> S!Commit]]
    BY <2>2, <2>3, <2>4
  <2>6. been' \in [Skill -> [Ref -> SUBSET S!Commit]]
    BY <2>2, <2>3, <2>4
  <2>7. \A t \in Skill, q \in Ref :
          /\ been[t][q] \subseteq been'[t][q]
          /\ IF t = s /\ q = r THEN tip'[t][q] = c /\ c \in been'[t][q] ELSE tip'[t][q] = tip[t][q]
    BY <2>3, <2>4
  <2>8. \A t \in Skill, q \in Ref : tip'[t][q] \in been'[t][q]
    BY <2>7 DEF Sources
  <2> QED BY <1>1, <2>5, <2>6, <2>7, <2>8 DEF Sources
<1>4. UNCHANGED <<tip, been>> \/ \E s \in Skill, r \in Ref : S!SourceMoves(s, r)
  BY CommandKeeps, PlacementKeeps, OthersKeep DEF S!Next, S!vars
<1> QED BY <1>2, <1>3, <1>4

\* What was true of a file, of a command and of a Run stays true as more is answered.
LEMMA StillTrue ==
  ASSUME Sources, Sources', \A s \in Skill, r \in Ref : been[s][r] \subseteq been'[s][r]
  PROVE  /\ \A l : Answered(l, been) => Answered(l, been')
         /\ \A l \in S!Locks : Genuine(l, been) => Genuine(l, been')
         /\ \A f : FilesTrue(f, been) => FilesTrue(f, been')
         /\ \A c : CommandTrue(c, been) => CommandTrue(c, been')
         /\ \A r : RunTrue(r, been) => RunTrue(r, been')
         /\ \A l : Recorded(l, been) => Recorded(l, been')
<1>1. \A l : Answered(l, been) => Answered(l, been')
  BY DEF Answered
<1>2. \A l \in S!Locks : Genuine(l, been) => Genuine(l, been')
  <2>1. \A l \in S!Locks, s \in Skill : l[s] # S!None /\ l[s].ref # S!NoRef => l[s].ref \in Ref
    BY NothingElse, RefsAreRefs DEF S!Locks
  <2> QED BY <2>1 DEF Genuine
<1>3. \A f : FilesTrue(f, been) => FilesTrue(f, been')
  BY <1>1 DEF FilesTrue
<1>4. \A c : CommandTrue(c, been) => CommandTrue(c, been')
  BY <1>1 DEF CommandTrue
<1>5. \A r : RunTrue(r, been) => RunTrue(r, been')
  BY <1>1, <1>2 DEF RunTrue, Readied
<1>6. \A l : Recorded(l, been) => Recorded(l, been')
  BY <1>2 DEF Recorded
<1> QED BY <1>1, <1>2, <1>3, <1>4, <1>5, <1>6
-----------------------------------------------------------------------------
(* The cache, the files and the commands.                                    *)

\* Whatever is done to the cache, each digest in it is there, changed or absent.
LEMMA CachedStep ==
  ASSUME Cached, [S!Next]_(S!vars)
  PROVE  Cached'
<1>1. ASSUME NEW s, NEW c, S!Fetch(s, c) PROVE Cached'
  BY <1>1 DEF S!Fetch, Cached
<1>2. ASSUME NEW s, NEW c, S!FetchFails(s, c) PROVE Cached'
  BY <1>2 DEF S!FetchFails, Cached
<1>3. ASSUME NEW s, NEW c, NEW to \in {"changed", "absent"}, cache' = [cache EXCEPT ![s][c] = to]
      PROVE  Cached'
  BY <1>3 DEF Cached
<1>4. ASSUME UNCHANGED cache PROVE Cached'
  BY <1>4 DEF Cached
<1>5. ASSUME S!Placement PROVE Cached'
  BY <1>1, <1>2, <1>4, <1>5 DEF S!Placement, S!ReadsManifest, S!ReadsLock, S!Looks, S!Hides,
       S!Stages, S!Sweeps, S!Starts, S!Ends, S!Prepare, S!Links, S!Reclaims
<1>6. ASSUME S!Others PROVE Cached'
  BY <1>3, <1>4, <1>6 DEF S!Others, S!Crashes, S!Commits, S!SourceMoves, S!EditsManifest,
       S!AgentWrites, S!Tampers
<1>7. ASSUME NEW u \in Caller, S!Command(u) PROVE Cached'
  BY <1>1, <1>2, <1>4, <1>7 DEF S!Command, S!AddReads, S!RemoveReads, S!AskSource, S!AskFails,
       S!UpdateReads, S!NothingLeftToAsk, S!WritesManifest, S!WritesLock
<1> QED BY <1>4, <1>5, <1>6, <1>7 DEF S!Next, S!vars

\* Today's answer of a source is a pin that was answered.
LEMMA ResolvedIs ==
  ASSUME Sources, NEW s \in Skill, NEW asked_ref \in S!Asked, NEW r, r = S!RefOf(asked_ref)
  PROVE  /\ S!Resolve(s, r) \in S!Commit /\ S!Resolve(s, r) \in been[s][r]
         /\ S!Resolve(s, asked_ref) = S!Resolve(s, r)
         /\ r \in Ref /\ [ref |-> r, commit |-> S!Resolve(s, r)] \in S!Locked
<1>1. r \in Ref /\ r \in S!Asked /\ S!RefOf(r) = r
  BY RefsAreRefs, RefsAssumption DEF S!Asked, S!RefOf
<1>2. S!Resolve(s, r) = tip[s][r] /\ S!Resolve(s, asked_ref) = tip[s][r]
  BY <1>1 DEF S!Resolve
<1>3. tip[s][r] \in S!Commit /\ tip[s][r] \in been[s][r]
  BY <1>1 DEF Sources
<1> QED BY <1>1, <1>2, <1>3 DEF S!Locked

\* Pinning what was answered keeps a lockfile so.
LEMMA PinnedStays ==
  ASSUME NEW lock \in S!Locks, Answered(lock, been), NEW s \in Skill, NEW got \in S!Locked,
         got.ref \in Ref, got.commit \in been[s][got.ref]
  PROVE  /\ [lock EXCEPT ![s] = got] \in S!Locks /\ Answered([lock EXCEPT ![s] = got], been)
         /\ [lock EXCEPT ![s] = S!None] \in S!Locks /\ Answered([lock EXCEPT ![s] = S!None], been)
BY DEF S!Locks, Answered

\* What a command becomes, it is for the one that gave it.
LEMMA CommandBecomes ==
  ASSUME CommandsHold, NEW u \in Caller, NEW c, CommandTrue(c, been), UNCHANGED been,
         cmd' = [cmd EXCEPT ![u] = c]
  PROVE  CommandsHold'
<1>1. c \in {S!Idle} \cup Adding \cup Updating
  BY DEF CommandTrue
<1>2. cmd' \in [Caller -> {S!Idle} \cup Adding \cup Updating]
  BY <1>1 DEF CommandsHold
<1>3. \A v \in Caller : CommandTrue(cmd'[v], been)
  BY DEF CommandsHold
<1> QED BY <1>2, <1>3 DEF CommandsHold

\* What a command that is under way is.
LEMMA CommandIs ==
  ASSUME NEW c, CommandTrue(c, been), c.at # "idle"
  PROVE  /\ c \in Adding \/ c \in Updating
         /\ ~(c \in Adding /\ c \in Updating)
         /\ c \in Adding <=> c.op # "update"
         /\ c \in Updating <=> c.op = "update"
         /\ c.lock \in S!Locks /\ Answered(c.lock, been) /\ c.manifest \in S!Manifests
         /\ c.names \subseteq S!Names(c.manifest) /\ c.names \subseteq Skill
<1>1. c # S!Idle
  BY DEF S!Idle
<1>2. c \in Adding \/ c \in Updating
  BY <1>1 DEF CommandTrue
<1>3. c \in Adding => c.op \in {"add", "remove"} /\ c.lock \in S!Locks /\ c.manifest \in S!Manifests
                      /\ c.names \subseteq Skill
  BY DEF Adding
<1>4. c \in Updating => c.op = "update" /\ c.lock \in S!Locks /\ c.manifest \in S!Manifests
                      /\ c.names \subseteq Skill
  BY DEF Updating
<1>5. Answered(c.lock, been) /\ c.names \subseteq S!Names(c.manifest)
  BY <1>1 DEF CommandTrue
<1> QED BY <1>2, <1>3, <1>4, <1>5

\* No record is two kinds of command.
LEMMA IdleIsNone ==
  /\ CommandTrue(S!Idle, been)
  /\ \A c \in Adding \cup Updating : c # S!Idle /\ c.at # "idle"
  /\ \A c \in Adding : c \notin Updating
<1>1. \A c \in Adding \cup Updating : c.at # "idle" /\ c # S!Idle
  BY DEF Adding, Updating, Asking, S!Idle
<1>2. \A c \in Adding : c \notin Updating
  <2>1. \A c \in Adding : c.op # "update"
    BY DEF Adding
  <2>2. \A c \in Updating : c.op = "update"
    BY DEF Updating
  <2> QED BY <2>1, <2>2
<1> QED BY <1>1, <1>2 DEF CommandTrue

\* A command's next step is a command's.
LEMMA NextStepIs ==
  ASSUME NEW c, CommandTrue(c, been), c.at # "idle", NEW at \in Asking,
         c \in Updating /\ at # "asking" => c.names = {}
  PROVE  CommandTrue([c EXCEPT !.at = at], been)
<1> DEFINE d == [c EXCEPT !.at = at]
<1> SUFFICES CommandTrue(d, been)
  OBVIOUS
<1>1. CASE c \in Adding
  <2>1. d \in Adding /\ d.lock = c.lock /\ d.names = c.names /\ d.manifest = c.manifest
    BY <1>1 DEF Adding
  <2> QED BY <2>1, IdleIsNone, CommandIs DEF CommandTrue
<1>2. CASE c \in Updating
  <2>1. /\ d \in Updating /\ d.lock = c.lock /\ d.names = c.names /\ d.manifest = c.manifest
        /\ d.due = c.due /\ d.all = c.all /\ d.at = at
    BY <1>2 DEF Updating
  <2> HIDE DEF d
  <2>2. c # S!Idle
    BY <1>2, IdleIsNone
  <2>3. Asked(c) /\ Answered(c.lock, been) /\ c.names \subseteq S!Names(c.manifest)
    BY <1>2, <2>2 DEF CommandTrue
  <2>4. Asked(d)
    <3>1. d.all => \A s \in S!Names(c.manifest) : c.lock[s] # S!None \/ s \in c.due
      BY <2>1, <2>3 DEF Asked
    <3>2. d.at # "asking" => d.names = {}
      BY <1>2, <2>1
    <3> QED BY <2>1, <2>3, <3>1, <3>2 DEF Asked
  <2>5. Answered(d.lock, been) /\ d.names \subseteq S!Names(d.manifest)
    BY <2>1, <2>3
  <2> QED BY <2>1, <2>4, <2>5 DEF CommandTrue
<1> QED BY <1>1, <1>2, CommandIs

\* A command's steps lead where a command may be.
LEMMA CommandsStep ==
  ASSUME Sources, Sources', \A s \in Skill, r \in Ref : been[s][r] \subseteq been'[s][r],
         FilesHold, CommandsHold, [S!Next]_(S!vars)
  PROVE  CommandsHold'
<1>1. CASE UNCHANGED cmd
  BY <1>1, StillTrue DEF CommandsHold
<1>2. CASE cmd' = [v \in Caller |-> S!Idle]
  <2>1. CommandTrue(S!Idle, been')
    BY DEF CommandTrue, Adding, Updating, Asking, S!Idle
  <2> QED BY <1>2, <2>1 DEF CommandsHold
<1>3. ASSUME NEW u \in Caller, S!Command(u)
      PROVE  CommandsHold'
  <2> DEFINE c == cmd[u]
  <2>1. UNCHANGED been /\ CommandTrue(c, been)
    BY <1>3, CommandKeeps DEF CommandsHold
  <2>2. FilesTrue(disk, been)
    BY DEF FilesHold
  <2>3. disk.manifest \in S!Manifests /\ disk.lock \in S!Locks /\ Answered(disk.lock, been)
    BY <2>2 DEF FilesTrue, S!Files
  <2> SUFFICES \E d : cmd' = [cmd EXCEPT ![u] = d] /\ CommandTrue(d, been)
    BY <2>1, CommandBecomes
  <2> HIDE DEF c
  <2>4. ASSUME NEW s \in Skill, NEW x \in S!Declared, S!AddReads(u, s, x)
        PROVE  \E d : cmd' = [cmd EXCEPT ![u] = d] /\ CommandTrue(d, been)
    <3> DEFINE d == [at |-> "asking", op |-> "add", names |-> {s}, due |-> {s}, lock |-> disk.lock,
                     manifest |-> [disk.manifest EXCEPT ![s] = x]]
    <3>1. [disk.manifest EXCEPT ![s] = x] \in S!Manifests
          /\ s \in S!Names([disk.manifest EXCEPT ![s] = x])
      BY <2>3, NothingElse DEF S!Manifests, S!Names
    <3>2. d \in Adding
      BY <2>3, <3>1 DEF Adding, Asking
    <3>3. CommandTrue(d, been)
      BY <2>3, <3>1, <3>2, IdleIsNone DEF CommandTrue
    <3> QED BY <2>4, <3>3 DEF S!AddReads, S!Start
  <2>5. ASSUME NEW s \in Skill, S!RemoveReads(u, s)
        PROVE  \E d : cmd' = [cmd EXCEPT ![u] = d] /\ CommandTrue(d, been)
    <3> DEFINE d == [at |-> "manifest", op |-> "remove", names |-> {}, due |-> {},
                     manifest |-> [disk.manifest EXCEPT ![s] = S!None],
                     lock |-> [disk.lock EXCEPT ![s] = S!None]]
    <3>1. [disk.manifest EXCEPT ![s] = S!None] \in S!Manifests
      BY <2>3 DEF S!Manifests
    <3>2. [disk.lock EXCEPT ![s] = S!None] \in S!Locks /\ Answered([disk.lock EXCEPT ![s] = S!None], been)
      BY <2>3 DEF S!Locks, Answered
    <3>3. d \in Adding
      BY <3>1, <3>2 DEF Adding, Asking
    <3>4. CommandTrue(d, been)
      BY <3>2, <3>3, IdleIsNone DEF CommandTrue
    <3> QED BY <2>5, <3>4 DEF S!RemoveReads, S!Start
  <2>6. ASSUME NEW names \in SUBSET Skill, S!UpdateReads(u, names)
        PROVE  \E d : cmd' = [cmd EXCEPT ![u] = d] /\ CommandTrue(d, been)
    <3> DEFINE due == S!Due(names, disk.manifest, disk.lock)
    <3>1. due \subseteq S!Names(disk.manifest)
      BY <2>6 DEF S!UpdateReads, S!Due
    <3>2. due \subseteq Skill
      BY <3>1, <2>3 DEF S!Names, S!Manifests
    <3>3. names = {} => \A s \in S!Names(disk.manifest) : disk.lock[s] # S!None \/ s \in due
      BY DEF S!Due
    <3> HIDE DEF due
    <3>4. PICK all \in BOOLEAN : all = (names = {})
      OBVIOUS
    <3> DEFINE d == [at |-> "asking", op |-> "update", manifest |-> disk.manifest,
                     lock |-> disk.lock, names |-> due, due |-> due, all |-> all]
    <3>5. d \in Updating
      BY <2>3, <3>2 DEF Updating, Asking
    <3>6. Asked(d)
      BY <3>1, <3>3, <3>4 DEF Asked
    <3>7. CommandTrue(d, been)
      BY <2>3, <3>1, <3>5, <3>6, IdleIsNone DEF CommandTrue
    <3>8. cmd' = [cmd EXCEPT ![u] = d]
      BY <2>6, <3>4 DEF S!UpdateReads, S!Start, due
    <3> QED BY <3>7, <3>8
  <2>7. ASSUME NEW s \in Skill, S!AskSource(u, s)
        PROVE  \E d : cmd' = [cmd EXCEPT ![u] = d] /\ CommandTrue(d, been)
    <3> DEFINE ref == S!RefOf(c.manifest[s].ref)
               got == [ref |-> ref, commit |-> S!Resolve(s, ref)]
    <3>1. c.at = "asking" /\ s \in c.names
      BY <2>7 DEF S!AskSource, c
    <3>2. /\ c \in Adding \/ c \in Updating
          /\ c \in Adding <=> c.op # "update"
          /\ c.lock \in S!Locks /\ Answered(c.lock, been) /\ c.manifest \in S!Manifests
          /\ c.names \subseteq S!Names(c.manifest)
      BY <2>1, <3>1, CommandIs
    <3>3. c.manifest[s] \in S!Declared
      BY <3>1, <3>2 DEF S!Names, S!Manifests
    <3>4. c.manifest[s].ref \in S!Asked
      BY <3>3, NothingElse
    <3>5. ref \in Ref /\ got \in S!Locked /\ got.ref = ref /\ got.commit \in been[s][ref]
      BY <3>4, ResolvedIs
    <3>6. ref \in S!Asked
      BY <3>5 DEF S!Asked
    <3> HIDE DEF ref, got
    <3>7. CASE c.op = "add"
      <4> DEFINE m == [c.manifest EXCEPT ![s].ref = ref]
                 l == [disk.lock EXCEPT ![s] = got]
                 d == [c EXCEPT !.at = "manifest", !.manifest = m, !.lock = l]
      <4>1. cmd' = [cmd EXCEPT ![u] = [c EXCEPT !.at = "manifest", !.manifest[s].ref = ref, !.lock = l]]
        BY <2>7, <3>7 DEF S!AskSource, S!Start, c, ref, got
      <4>2. m \in S!Manifests /\ S!Names(m) = S!Names(c.manifest)
        <5>1. [c.manifest[s] EXCEPT !.ref = ref] \in S!Declared
          BY <3>3, <3>6 DEF S!Declared
        <5>2. m = [c.manifest EXCEPT ![s] = [c.manifest[s] EXCEPT !.ref = ref]]
          OBVIOUS
        <5> QED BY <3>2, <3>3, <5>1, <5>2, NothingElse DEF S!Manifests, S!Names
      <4>3. l \in S!Locks /\ Answered(l, been)
        BY <2>3, <3>5, PinnedStays
      <4> HIDE DEF m, l
      <4>4. /\ d \in Adding /\ d.lock = l /\ d.manifest = m /\ d.names = c.names
        BY <3>2, <3>7, <4>2, <4>3 DEF Adding, Asking
      <4> HIDE DEF d
      <4>5. CommandTrue(d, been)
        BY <3>2, <4>2, <4>3, <4>4, IdleIsNone DEF CommandTrue
      <4>6. [c EXCEPT !.at = "manifest", !.manifest[s].ref = ref, !.lock = l] = d
        BY DEF d, m
      <4> QED BY <4>1, <4>5, <4>6
    <3>8. CASE c.op # "add"
      <4> DEFINE l == [c.lock EXCEPT ![s] = got]
                 d == [c EXCEPT !.names = @ \ {s}, !.lock = l]
      <4>1. cmd' = [cmd EXCEPT ![u] = [c EXCEPT !.names = @ \ {s}, !.lock[s] = got]]
        BY <2>7, <3>8 DEF S!AskSource, S!Start, c, ref, got
      <4>2. l \in S!Locks /\ Answered(l, been)
        BY <3>2, <3>5, PinnedStays
      <4>3. \A t \in Skill : l[t] = IF t = s THEN got ELSE c.lock[t]
        BY <3>2 DEF S!Locks
      <4>4. [c EXCEPT !.names = @ \ {s}, !.lock[s] = got] = d
        OBVIOUS
      <4> HIDE DEF l
      <4>5. CASE c \in Adding
        <5>1. d \in Adding /\ d.lock = l /\ d.manifest = c.manifest /\ d.names = c.names \ {s}
          BY <4>5, <4>2 DEF Adding
        <5> HIDE DEF d
        <5>2. CommandTrue(d, been)
          BY <3>2, <4>2, <5>1, IdleIsNone DEF CommandTrue
        <5> QED BY <4>1, <4>4, <5>2
      <4>6. CASE c \in Updating
        <5>1. /\ d \in Updating /\ d.lock = l /\ d.manifest = c.manifest /\ d.names = c.names \ {s}
              /\ d.at = c.at /\ d.due = c.due /\ d.all = c.all /\ c.due \subseteq Skill
          BY <4>6, <4>2 DEF Updating
        <5> HIDE DEF d
        <5>2. Asked(c)
          BY <2>1, <4>6, IdleIsNone DEF CommandTrue
        <5>3. \A t \in c.due \ d.names : l[t] # S!None /\ l[t].ref = S!RefOf(c.manifest[t].ref)
          BY <3>5, <4>3, <5>1, <5>2, NothingElse DEF Asked, ref
        <5>4. c.all => \A t \in S!Names(c.manifest) : l[t] # S!None \/ t \in c.due
          <6>1. S!Names(c.manifest) \subseteq Skill
            BY <3>2 DEF S!Names, S!Manifests
          <6> QED BY <3>5, <4>3, <5>2, <6>1, NothingElse DEF Asked
        <5>5. d.at = "asking"
          BY <3>1, <5>1
        <5>6. Asked(d)
          BY <5>1, <5>2, <5>3, <5>4, <5>5 DEF Asked
        <5>7. CommandTrue(d, been)
          BY <3>2, <4>2, <5>1, <5>6 DEF CommandTrue
        <5> QED BY <4>1, <4>4, <5>7
      <4> QED BY <3>2, <4>5, <4>6
    <3> QED BY <3>7, <3>8
  <2>8. ASSUME NEW s \in Skill, S!AskFails(u, s)
        PROVE  \E d : cmd' = [cmd EXCEPT ![u] = d] /\ CommandTrue(d, been)
    BY <2>8, IdleIsNone DEF S!AskFails, S!Start
  <2>9. ASSUME S!NothingLeftToAsk(u)
        PROVE  \E d : cmd' = [cmd EXCEPT ![u] = d] /\ CommandTrue(d, been)
    <3>1. c.at = "asking" /\ c.names = {} /\ cmd' = [cmd EXCEPT ![u] = [c EXCEPT !.at = "manifest"]]
      BY <2>9 DEF S!NothingLeftToAsk, S!Start, c
    <3>2. CommandTrue([c EXCEPT !.at = "manifest"], been)
      BY <2>1, <3>1, NextStepIs DEF Asking
    <3> QED BY <3>1, <3>2
  <2>10. ASSUME S!WritesManifest(u)
         PROVE  \E d : cmd' = [cmd EXCEPT ![u] = d] /\ CommandTrue(d, been)
    <3>1. c.at = "manifest" /\ cmd' = [cmd EXCEPT ![u] = [c EXCEPT !.at = "lock"]]
      BY <2>10 DEF S!WritesManifest, S!Start, c
    <3>2. c \in Updating => c.names = {}
      BY <2>1, <3>1, IdleIsNone DEF CommandTrue, Asked
    <3>3. CommandTrue([c EXCEPT !.at = "lock"], been)
      BY <2>1, <3>1, <3>2, NextStepIs DEF Asking
    <3> QED BY <3>1, <3>3
  <2>11. ASSUME S!WritesLock(u)
         PROVE  \E d : cmd' = [cmd EXCEPT ![u] = d] /\ CommandTrue(d, been)
    BY <2>11, IdleIsNone DEF S!WritesLock, S!Start
  <2> QED BY <1>3, <2>4, <2>5, <2>6, <2>7, <2>8, <2>9, <2>10, <2>11 DEF S!Command
<1>4. S!Others => UNCHANGED cmd \/ cmd' = [v \in Caller |-> S!Idle]
  BY DEF S!Others, S!Crashes, S!Commits, S!SourceMoves, S!EditsManifest, S!AgentWrites, S!Tampers
<1> QED BY <1>1, <1>2, <1>3, <1>4, PlacementKeeps DEF S!Next, S!vars

\* Files are written from files and from commands.
LEMMA FilesStep ==
  ASSUME Sources, Sources', \A s \in Skill, r \in Ref : been[s][r] \subseteq been'[s][r],
         FilesHold, CommandsHold, [S!Next]_(S!vars)
  PROVE  FilesHold'
<1> SUFFICES FilesTrue(disk', been') /\ FilesTrue(declared', been')
  BY DEF FilesHold
<1>1. FilesTrue(disk, been') /\ FilesTrue(declared, been')
  BY StillTrue DEF FilesHold
<1>2. /\ disk \in [manifest: S!Manifests, lock: S!Locks] /\ Answered(disk.lock, been')
      /\ declared \in [manifest: S!Manifests, lock: S!Locks] /\ Answered(declared.lock, been')
  BY <1>1 DEF FilesTrue, S!Files
<1>3. ASSUME UNCHANGED <<disk, declared>> PROVE FilesTrue(disk', been') /\ FilesTrue(declared', been')
  BY <1>1, <1>3
<1>4. ASSUME NEW u \in Caller, S!Command(u)
      PROVE  FilesTrue(disk', been') /\ FilesTrue(declared', been')
  <2>1. UNCHANGED <<been, declared>>
    BY <1>4, CommandKeeps
  <2>2. CommandTrue(cmd[u], been)
    BY DEF CommandsHold
  <2>3. CASE S!WritesManifest(u)
    <3>1. cmd[u].manifest \in S!Manifests
      BY <2>2, <2>3, CommandIs DEF S!WritesManifest
    <3>2. disk' = [disk EXCEPT !.manifest = cmd[u].manifest]
      BY <2>3 DEF S!WritesManifest
    <3>3. disk' \in [manifest: S!Manifests, lock: S!Locks] /\ disk'.lock = disk.lock
      BY <1>2, <3>1, <3>2
    <3> QED BY <1>1, <1>2, <2>1, <3>3 DEF FilesTrue, S!Files
  <2>4. CASE S!WritesLock(u)
    <3>1. cmd[u].lock \in S!Locks /\ Answered(cmd[u].lock, been')
      BY <2>1, <2>2, <2>4, CommandIs DEF S!WritesLock
    <3>2. disk' = [disk EXCEPT !.lock = cmd[u].lock]
      BY <2>4 DEF S!WritesLock
    <3>3. disk' \in [manifest: S!Manifests, lock: S!Locks] /\ disk'.lock = cmd[u].lock
      BY <1>2, <3>1, <3>2
    <3> QED BY <1>1, <2>1, <3>1, <3>3 DEF FilesTrue, S!Files
  <2>5. CASE UNCHANGED disk
    BY <1>3, <2>1, <2>5
  <2> QED BY <1>4, <2>3, <2>4, <2>5 DEF S!Command, S!AddReads, S!RemoveReads, S!AskSource,
            S!AskFails, S!UpdateReads, S!NothingLeftToAsk
<1>5. ASSUME NEW files \in SUBSET DOMAIN declared, S!Commits(files)
      PROVE  FilesTrue(disk', been') /\ FilesTrue(declared', been')
  <2>1. UNCHANGED disk /\ declared' = [f \in DOMAIN declared |-> IF f \in files THEN disk[f] ELSE declared[f]]
    BY <1>5 DEF S!Commits
  <2>2. DOMAIN declared = {"manifest", "lock"}
    BY <1>2
  <2>3. declared' \in [manifest: S!Manifests, lock: S!Locks]
    BY <1>2, <2>1, <2>2
  <2>4. declared'.lock = disk.lock \/ declared'.lock = declared.lock
    BY <2>1, <2>2
  <2> QED BY <1>1, <1>2, <2>1, <2>3, <2>4 DEF FilesTrue, S!Files
<1>6. ASSUME NEW s \in Skill, NEW d \in S!Declared, S!EditsManifest(s, d)
      PROVE  FilesTrue(disk', been') /\ FilesTrue(declared', been')
  <2>1. UNCHANGED declared /\ disk' = [disk EXCEPT !.manifest[s] = d]
    BY <1>6 DEF S!EditsManifest
  <2>2. [disk.manifest EXCEPT ![s] = d] \in S!Manifests
    BY <1>2 DEF S!Manifests
  <2>3. disk' \in [manifest: S!Manifests, lock: S!Locks] /\ disk'.lock = disk.lock
    BY <1>2, <2>1, <2>2
  <2> QED BY <1>1, <1>2, <2>1, <2>3 DEF FilesTrue, S!Files
<1>7. S!Others => \/ UNCHANGED <<disk, declared>>
                  \/ \E files \in SUBSET DOMAIN declared : S!Commits(files)
                  \/ \E s \in Skill, d \in S!Declared : S!EditsManifest(s, d)
  BY DEF S!Others, S!Crashes, S!SourceMoves, S!AgentWrites, S!Tampers
<1> QED BY <1>3, <1>4, <1>5, <1>6, <1>7, PlacementKeeps DEF S!Next, S!vars

-----------------------------------------------------------------------------
(* A Run and its placement.                                                  *)

\* A placement under way was read from both files.
LEMMA PlacingIs ==
  ASSUME RunHolds
  PROVE  /\ placing.at \in Placing => placing \in Readied
         /\ placing.at = "manifest" => placing \in Reading
         /\ placing.at = "refused" => placing \in Refused
         /\ placing \in Readied => /\ placing.at \in Placing /\ placing.used \in S!Locks
                                   /\ placing.manifest \in S!Manifests /\ placing.lock \in S!Locks
                                   /\ Answered(placing.lock, been) /\ Genuine(placing.used, been)
                                   /\ placing.before \in Entries
         /\ placing \in Reading => placing.manifest \in S!Manifests /\ placing.before \in Entries
<1>1. placing \in {S!Idle} \cup Reading \cup Readied \cup Refused
  BY DEF RunHolds, RunTrue
<1>2. S!Idle.at = "idle"
  BY DEF S!Idle
<1>3. \A r \in Reading : r.at = "manifest" /\ r.manifest \in S!Manifests /\ r.before \in Entries
  BY DEF Reading
<1>4. \A r \in Readied : /\ r.at \in Placing /\ r.used \in S!Locks /\ r.manifest \in S!Manifests
                         /\ r.lock \in S!Locks /\ r.before \in Entries
  BY DEF Readied
<1>5. \A r \in Refused : r.at = "refused"
  BY DEF Refused
<1>6. Placing \cap {"idle", "manifest", "refused"} = {}
  BY DEF Placing
<1>7. placing \in Readied => Answered(placing.lock, been) /\ Genuine(placing.used, been)
  BY DEF RunHolds, RunTrue
<1> QED BY <1>1, <1>2, <1>3, <1>4, <1>5, <1>6, <1>7

\* Nothing pinned, and nothing used, is nothing but true.
LEMMA NoneUsed ==
  LET none == [s \in Skill |-> S!None] IN
  none \in S!Locks /\ Genuine(none, been) /\ S!Names(none) = {}
BY DEF S!Locks, Genuine, S!Names

\* What a Run is to use of a Skill is what the lockfile pins of it or today's answer.
LEMMA PreparedIs ==
  ASSUME Sources, NEW manifest \in S!Manifests, NEW lock \in S!Locks, Answered(lock, been),
         NEW s \in S!Names(manifest), NEW c,
         c = IF S!Pinned(lock, manifest[s], s) THEN lock[s].commit ELSE S!Resolve(s, manifest[s].ref)
  PROVE  /\ [ref |-> manifest[s].ref, commit |-> c] \in S!Locked
         /\ manifest[s].ref # S!NoRef => c \in been[s][manifest[s].ref]
<1>1. s \in Skill /\ manifest[s] \in S!Declared
  BY DEF S!Names, S!Manifests
<1>2. manifest[s].ref \in S!Asked
  BY <1>1, NothingElse
<1>3. CASE S!Pinned(lock, manifest[s], s)
  <2>1. lock[s] # S!None /\ (manifest[s].ref = S!NoRef \/ lock[s].ref = manifest[s].ref)
    BY <1>3 DEF S!Pinned, S!SameRef
  <2>2. lock[s] \in S!Locked /\ lock[s].commit \in been[s][lock[s].ref]
    BY <1>1, <2>1 DEF S!Locks, Answered
  <2>3. c = lock[s].commit /\ c \in S!Commit
    BY <1>3, <2>2, NothingElse
  <2> QED BY <1>2, <2>1, <2>2, <2>3 DEF S!Locked
<1>4. CASE ~S!Pinned(lock, manifest[s], s)
  <2>1. c = S!Resolve(s, manifest[s].ref)
    BY <1>4
  <2>2. c \in S!Commit /\ c \in been[s][S!RefOf(manifest[s].ref)]
    BY <1>1, <1>2, <2>1, ResolvedIs
  <2> QED BY <1>2, <2>2, RefsAreRefs DEF S!Locked
<1> QED BY <1>3, <1>4

\* A Run's steps lead where a Run may be, and what it records it used.
LEMMA RunStep ==
  ASSUME Sources, Sources', \A s \in Skill, r \in Ref : been[s][r] \subseteq been'[s][r],
         FilesHold, RunHolds, entries \in Entries, [S!Next]_(S!vars)
  PROVE  RunHolds'
<1> SUFFICES RunTrue(placing', been') /\ Recorded(recorded', been')
  BY DEF RunHolds
<1>1. RunTrue(placing, been') /\ Recorded(recorded, been')
  BY StillTrue DEF RunHolds
<1>2. RunTrue(S!Idle, been')
  <2>1. S!Idle \notin Readied
    BY DEF S!Idle, Readied, Placing
  <2> QED BY <2>1 DEF RunTrue
<1>3. CASE UNCHANGED <<placing, recorded>>
  BY <1>1, <1>3
<1>4. CASE placing' = S!Idle /\ UNCHANGED recorded
  BY <1>1, <1>2, <1>4
<1>5. CASE S!Placement
  <2>1. UNCHANGED <<been, disk, declared, inRepo>>
    BY <1>5, PlacementKeeps
  <2>2. FilesTrue(S!Read, been')
    BY <2>1 DEF S!Read, FilesHold
  <2>3. S!Read.manifest \in S!Manifests /\ S!Read.lock \in S!Locks /\ Answered(S!Read.lock, been')
    BY <2>2 DEF FilesTrue, S!Files
  <2>4. CASE S!ReadsManifest
    <3>1. placing' = [at |-> "manifest", manifest |-> S!Read.manifest, before |-> entries] /\ UNCHANGED recorded
      BY <2>4 DEF S!ReadsManifest
    <3>2. placing' \in Reading /\ placing' \notin Readied
      BY <2>3, <3>1 DEF Reading, Readied, Placing
    <3> QED BY <1>1, <3>1, <3>2 DEF RunTrue
  <2>5. CASE S!ReadsLock
    <3>1. PICK at \in {"starting", "preparing"} :
            placing' = [at |-> at, manifest |-> placing.manifest, lock |-> S!Read.lock,
                        before |-> placing.before, used |-> [s \in Skill |-> S!None], todo |-> {}]
      BY <2>5 DEF S!ReadsLock
    <3>2. placing.manifest \in S!Manifests /\ placing.before \in Entries /\ UNCHANGED recorded
      BY <2>5, PlacingIs DEF S!ReadsLock
    <3>3. placing' \in Readied /\ placing'.lock = S!Read.lock /\ placing'.used = [s \in Skill |-> S!None]
      BY <2>3, <3>1, <3>2, NoneUsed DEF Readied, Placing
    <3>4. Genuine(placing'.used, been')
      BY <3>3 DEF Genuine
    <3> QED BY <1>1, <2>3, <3>2, <3>3, <3>4 DEF RunTrue
  <2>6. ASSUME NEW why \in {"unlocked", "unfetched", "foreign"}, S!Refuse(why),
               placing.at = "preparing", UNCHANGED recorded
        PROVE  RunTrue(placing', been') /\ Recorded(recorded', been')
    <3>1. placing.before \in Entries
      BY <2>6, PlacingIs DEF Placing
    <3>2. placing' \in Refused /\ placing' \notin Readied
      BY <2>6, <3>1 DEF S!Refuse, Refused, Readied, Placing
    <3> QED BY <1>1, <2>6, <3>2 DEF RunTrue
  <2>7. ASSUME NEW s \in Skill, S!Prepare(s)
        PROVE  RunTrue(placing', been') /\ Recorded(recorded', been')
    <3> DEFINE d == placing.manifest[s]
               c == IF S!Pinned(placing.lock, d, s) THEN placing.lock[s].commit ELSE S!Resolve(s, d.ref)
    <3>1. /\ placing.at = "preparing" /\ s \in S!Names(placing.manifest) /\ UNCHANGED recorded
          /\ \/ \E why \in {"unlocked", "unfetched"} : S!Refuse(why)
             \/ placing' = [placing EXCEPT !.used[s] = [ref |-> d.ref, commit |-> c]]
      BY <2>7 DEF S!Prepare
    <3>2. /\ placing \in Readied /\ placing.used \in S!Locks /\ placing.manifest \in S!Manifests
          /\ placing.lock \in S!Locks /\ Answered(placing.lock, been) /\ Genuine(placing.used, been)
      BY <3>1, PlacingIs DEF Placing
    <3>3. /\ [ref |-> d.ref, commit |-> c] \in S!Locked
          /\ d.ref # S!NoRef => c \in been[s][d.ref]
      BY <3>1, <3>2, PreparedIs
    <3> HIDE DEF d, c
    <3>4. CASE placing' = [placing EXCEPT !.used[s] = [ref |-> d.ref, commit |-> c]]
      <4> DEFINE u == [placing.used EXCEPT ![s] = [ref |-> d.ref, commit |-> c]]
      <4>1. u \in S!Locks /\ Genuine(u, been)
        BY <3>2, <3>3 DEF S!Locks, Genuine
      <4>2. placing' = [placing EXCEPT !.used = u]
        BY <3>4
      <4> HIDE DEF u
      <4>3. placing' \in Readied /\ placing'.used = u /\ placing'.lock = placing.lock
        BY <3>2, <4>1, <4>2 DEF Readied
      <4> QED BY <1>1, <2>1, <3>1, <3>2, <4>1, <4>3 DEF RunTrue
    <3> QED BY <2>6, <3>1, <3>4
  <2>8. ASSUME NEW at \in Placing, placing.at \in Placing, placing' = [placing EXCEPT !.at = at]
        PROVE  RunTrue(placing', been')
    <3>1. placing' \in Readied /\ placing'.used = placing.used /\ placing'.lock = placing.lock
      BY <2>8, PlacingIs DEF Readied
    <3> QED BY <2>8, <2>1, <3>1, PlacingIs DEF RunTrue
  <2>9. ASSUME NEW at \in Placing, placing.at \in Placing, NEW todo \in SUBSET Skill,
               placing' = [placing EXCEPT !.at = at, !.todo = todo]
        PROVE  RunTrue(placing', been')
    <3>1. placing' \in Readied /\ placing'.used = placing.used /\ placing'.lock = placing.lock
      BY <2>9, PlacingIs DEF Readied
    <3> QED BY <2>9, <2>1, <3>1, PlacingIs DEF RunTrue
  <2>10. CASE S!Looks
    BY <1>1, <2>6, <2>8, <2>10 DEF S!Looks, Placing
  <2>11. CASE S!Hides
    <3>1. placing.at = "hiding" /\ UNCHANGED recorded
          /\ placing' = [placing EXCEPT !.at = "linking", !.todo = S!Names(placing.used)]
      BY <2>11 DEF S!Hides
    <3>2. S!Names(placing.used) \in SUBSET Skill
      BY <3>1, PlacingIs DEF S!Names, S!Locks, Placing
    <3> QED BY <1>1, <2>9, <3>1, <3>2 DEF Placing
  <2>12. CASE S!Stages \/ S!Sweeps
    BY <1>1, <2>8, <2>12 DEF S!Stages, S!Sweeps, Placing
  <2>13. ASSUME NEW s \in Skill, S!Links(s)
         PROVE  RunTrue(placing', been') /\ Recorded(recorded', been')
    <3>1. placing.at = "moving" /\ UNCHANGED recorded
          /\ placing' = [placing EXCEPT !.at = "linking", !.todo = placing.todo \ {s}]
      BY <2>13 DEF S!Links
    <3>2. placing.todo \ {s} \in SUBSET Skill
      BY <3>1, PlacingIs DEF Readied, Placing
    <3> QED BY <1>1, <2>9, <3>1, <3>2 DEF Placing
  <2>14. CASE S!Starts
    <3>1. placing.at = "starting" /\ placing' = [placing EXCEPT !.at = "running"] /\ recorded' = placing.used
      BY <2>14 DEF S!Starts
    <3>2. Recorded(recorded', been')
      BY <2>1, <3>1, PlacingIs DEF Recorded, Placing
    <3> QED BY <2>8, <3>1, <3>2 DEF Placing
  <2>15. CASE S!Ends \/ \E kept \in BOOLEAN : S!Reclaims(kept)
    BY <1>3, <1>4, <2>15 DEF S!Ends, S!Reclaims
  <2> QED BY <1>5, <2>4, <2>5, <2>7, <2>10, <2>11, <2>12, <2>13, <2>14, <2>15 DEF S!Placement
<1>6. S!Others => UNCHANGED <<placing, recorded>> \/ (placing' = S!Idle /\ UNCHANGED recorded)
  BY DEF S!Others, S!Crashes, S!Commits, S!SourceMoves, S!EditsManifest, S!AgentWrites, S!Tampers
<1> QED BY <1>3, <1>4, <1>5, <1>6, CommandKeeps DEF S!Next, S!vars

\* Each step of a placement does to the entries what the next one counts on.
LEMMA PlacedStep ==
  ASSUME RunHolds, Placed(placing, entries), [S!Next]_(S!vars)
  PROVE  Placed(placing', entries')
<1> DEFINE Free == ~entries.kept => entries.staged = 0 /\ \A s \in Skill : entries.entry[s] \in {0, S!Own}
<1>0. entries \in Entries /\ Free
  BY DEF Placed
<1>1. CASE UNCHANGED <<placing, entries>>
  BY <1>1
<1>2. ASSUME placing'.at \in {"idle", "running"}, entries' \in Entries,
             ~entries'.kept => entries'.staged = 0 /\ \A s \in Skill : entries'.entry[s] \in {0, S!Own}
      PROVE  Placed(placing', entries')
  BY <1>2 DEF Placed
<1>3. CASE placing' = S!Idle /\ UNCHANGED entries
  BY <1>0, <1>2, <1>3 DEF S!Idle
<1>4. ASSUME NEW s \in Skill, NEW e \in {0, S!Own}, S!AgentWrites(s, e)
      PROVE  Placed(placing', entries')
  <2>1. placing.at = "running" /\ entries' = [entries EXCEPT !.entry[s] = e] /\ UNCHANGED placing
    BY <1>4 DEF S!AgentWrites
  <2>2. [entries.entry EXCEPT ![s] = e] \in [Skill -> S!Commit \cup {0, S!Own}]
    BY <1>0 DEF Entries
  <2>3. /\ entries' \in Entries /\ entries'.kept = entries.kept /\ entries'.staged = entries.staged
        /\ entries'.entry = [entries.entry EXCEPT ![s] = e]
    BY <1>0, <2>1, <2>2 DEF Entries
  <2>4. \A t \in Skill : entries'.entry[t] \in {e, entries.entry[t]}
    BY <1>0, <2>3 DEF Entries
  <2> QED BY <1>0, <1>2, <2>1, <2>3, <2>4
<1>5. S!Others => \/ UNCHANGED <<placing, entries>>
                  \/ placing' = S!Idle /\ UNCHANGED entries
                  \/ \E s \in Skill, e \in {0, S!Own} : S!AgentWrites(s, e)
  BY DEF S!Others, S!Crashes, S!Commits, S!SourceMoves, S!EditsManifest, S!Tampers
<1>6. CASE S!Placement
  <2>1. CASE S!ReadsManifest
    <3>1. placing'.at = "manifest" /\ placing'.before = entries /\ UNCHANGED entries
      BY <2>1 DEF S!ReadsManifest
    <3> QED BY <1>0, <3>1 DEF Placed
  <2>2. CASE S!ReadsLock
    <3>1. /\ placing.at = "manifest" /\ UNCHANGED entries
          /\ placing' = [at |-> IF S!Names(placing.manifest) = {} /\ ~entries.kept THEN "starting" ELSE "preparing",
                         manifest |-> placing.manifest, lock |-> S!Read.lock, before |-> placing.before,
                         used |-> [s \in Skill |-> S!None], todo |-> {}]
      BY <2>2 DEF S!ReadsLock
    <3>2. entries = placing.before /\ placing'.before = placing.before
      BY <3>1 DEF Placed
    <3>3. CASE S!Names(placing.manifest) = {} /\ ~entries.kept
      <4>1. placing'.at = "starting" /\ placing'.manifest = placing.manifest
            /\ placing'.used = [s \in Skill |-> S!None]
        BY <3>1, <3>3
      <4>2. S!Names(placing'.used) = {} /\ \A s \in Skill : placing'.used[s] = S!None
        BY <4>1 DEF S!Names
      <4> QED BY <1>0, <3>1, <3>3, <4>1, <4>2 DEF Placed
    <3>4. CASE ~(S!Names(placing.manifest) = {} /\ ~entries.kept)
      <4>1. placing'.at = "preparing"
        BY <3>1, <3>4
      <4> QED BY <1>0, <3>1, <3>2, <4>1 DEF Placed
    <3> QED BY <3>3, <3>4
  <2>3. ASSUME placing.at = "preparing", UNCHANGED entries, placing'.before = placing.before,
               placing'.at \in {"preparing", "refused"}
        PROVE  Placed(placing', entries')
    <3>1. entries = placing.before
      BY <2>3 DEF Placed
    <3> QED BY <1>0, <2>3, <3>1 DEF Placed
  <2>4. ASSUME NEW s \in Skill, S!Prepare(s)
        PROVE  Placed(placing', entries')
    <3>1. /\ placing.at = "preparing" /\ UNCHANGED entries
          /\ \/ \E why : S!Refuse(why)
             \/ \E x : placing' = [placing EXCEPT !.used[s] = x]
      BY <2>4 DEF S!Prepare
    <3>2. placing \in Readied
      BY <3>1, PlacingIs DEF Placing
    <3>3. ASSUME NEW why, S!Refuse(why) PROVE placing'.before = placing.before /\ placing'.at = "refused"
      BY <3>3 DEF S!Refuse
    <3>4. ASSUME NEW x, placing' = [placing EXCEPT !.used[s] = x]
          PROVE  placing'.before = placing.before /\ placing'.at = "preparing"
      BY <3>1, <3>2, <3>4 DEF Readied
    <3> QED BY <2>3, <3>1, <3>3, <3>4
  <2>5. CASE S!Looks
    <3>1. placing.at = "preparing" /\ UNCHANGED entries /\ S!Names(placing.manifest) = S!Names(placing.used)
      BY <2>5 DEF S!Looks
    <3>2. placing \in Readied /\ placing.used \in S!Locks
      BY <3>1, PlacingIs DEF Placing
    <3>3. CASE S!Refuse("foreign")
      <4>1. placing'.before = placing.before /\ placing'.at = "refused"
        BY <3>3 DEF S!Refuse
      <4> QED BY <2>3, <3>1, <4>1
    <3>4. CASE ~(\E s \in S!Names(placing.used) : S!Foreign(s))
      <4>1. placing' = [placing EXCEPT !.at = "hiding"]
        BY <2>5, <3>4 DEF S!Looks
      <4>2. placing'.at = "hiding" /\ placing'.used = placing.used /\ placing'.manifest = placing.manifest
        BY <3>2, <4>1 DEF Readied
      <4>3. \A s \in S!Names(placing.used) : entries.entry[s] # S!Own
        BY <3>4 DEF S!Foreign
      <4> QED BY <1>0, <3>1, <4>2, <4>3 DEF Placed
    <3> QED BY <2>5, <3>3, <3>4 DEF S!Looks
  <2>6. CASE S!Hides
    <3>1. /\ placing.at = "hiding" /\ placing' = [placing EXCEPT !.at = "linking", !.todo = S!Names(placing.used)]
          /\ entries' = [entries EXCEPT !.hidden = S!Names(placing.used), !.kept = TRUE]
      BY <2>6 DEF S!Hides
    <3>2. placing \in Readied /\ placing.used \in S!Locks
      BY <3>1, PlacingIs DEF Placing
    <3>3. S!Names(placing.used) \subseteq Skill
      BY <3>2 DEF S!Names, S!Locks
    <3>4. /\ placing'.at = "linking" /\ placing'.used = placing.used /\ placing'.manifest = placing.manifest
          /\ placing'.todo = S!Names(placing.used)
      BY <3>1, <3>2 DEF Readied
    <3>5. /\ entries' \in Entries /\ entries'.kept = TRUE /\ entries'.hidden = S!Names(placing.used)
          /\ entries'.entry = entries.entry
      BY <1>0, <3>1, <3>3 DEF Entries
    <3>6. /\ S!Names(placing.used) = S!Names(placing.manifest)
          /\ \A s \in S!Names(placing.used) : entries.entry[s] # S!Own
      BY <3>1 DEF Placed
    <3> QED BY <3>4, <3>5, <3>6 DEF Placed
  <2>7. CASE S!Stages
    <3>1. /\ placing.at = "linking" /\ placing' = [placing EXCEPT !.at = "moving"]
          /\ entries' = [entries EXCEPT !.staged = @ + 1]
      BY <2>7 DEF S!Stages
    <3>2. placing \in Readied
      BY <3>1, PlacingIs DEF Placing
    <3>3. /\ placing'.at = "moving" /\ placing'.used = placing.used /\ placing'.manifest = placing.manifest
          /\ placing'.todo = placing.todo
      BY <3>1, <3>2 DEF Readied
    <3>4. /\ entries' \in Entries /\ entries'.kept = entries.kept /\ entries'.hidden = entries.hidden
          /\ entries'.entry = entries.entry
      BY <1>0, <3>1 DEF Entries
    <3> QED BY <3>1, <3>3, <3>4 DEF Placed
  <2>8. ASSUME NEW s \in Skill, S!Links(s)
        PROVE  Placed(placing', entries')
    <3>1. /\ placing.at = "moving" /\ s \in placing.todo
          /\ placing' = [placing EXCEPT !.at = "linking", !.todo = placing.todo \ {s}]
          /\ entries' = [entries EXCEPT !.entry[s] = placing.used[s].commit, !.staged = entries.staged - 1]
      BY <2>8 DEF S!Links
    <3>2. placing \in Readied /\ placing.used \in S!Locks
      BY <3>1, PlacingIs DEF Placing
    <3>3. placing.todo \subseteq S!Names(placing.used) /\ placing.used[s] \in S!Locked
      BY <3>1, <3>2 DEF Placed, S!Names, S!Locks
    <3>4. placing.used[s].commit \in S!Commit
      BY <3>3, NothingElse
    <3>5. /\ placing'.at = "linking" /\ placing'.used = placing.used /\ placing'.manifest = placing.manifest
          /\ placing'.todo = placing.todo \ {s}
      BY <3>1, <3>2 DEF Readied
    <3> DEFINE e == [entries.entry EXCEPT ![s] = placing.used[s].commit]
    <3>6. e \in [Skill -> S!Commit \cup {0, S!Own}]
      BY <1>0, <3>4 DEF Entries
    <3>7. entries' = [entries EXCEPT !.entry = e, !.staged = entries.staged - 1]
      BY <3>1
    <3>8. \A t \in Skill : e[t] = IF t = s THEN placing.used[s].commit ELSE entries.entry[t]
      BY <1>0 DEF Entries
    <3> HIDE DEF e
    <3>13. entries.staged - 1 \in Int
      BY <1>0 DEF Entries
    <3>9. /\ entries' \in Entries /\ entries'.kept = entries.kept /\ entries'.hidden = entries.hidden
          /\ entries'.entry = e
      <4> DEFINE w == [entries EXCEPT !.entry = e]
      <4>1. /\ w \in Entries /\ w.kept = entries.kept /\ w.hidden = entries.hidden /\ w.entry = e
        BY <1>0, <3>6 DEF Entries
      <4>2. entries' = [w EXCEPT !.staged = entries.staged - 1]
        BY <3>7
      <4> HIDE DEF w
      <4> QED BY <3>13, <4>1, <4>2 DEF Entries
    <3>10. /\ S!Names(placing.used) = S!Names(placing.manifest) /\ S!Names(placing.used) \subseteq Skill
           /\ entries.kept /\ entries.hidden = S!Names(placing.used)
           /\ \A t \in placing.todo : entries.entry[t] # S!Own
           /\ \A t \in S!Names(placing.used) \ placing.todo : entries.entry[t] = placing.used[t].commit
      BY <3>1, <3>2 DEF Placed, S!Names, S!Locks
    <3>11. \A t \in placing.todo \ {s} : e[t] # S!Own
      BY <3>3, <3>8, <3>10
    <3>12. \A t \in S!Names(placing.used) \ (placing.todo \ {s}) : e[t] = placing.used[t].commit
      BY <3>8, <3>10
    <3> QED BY <3>3, <3>5, <3>9, <3>10, <3>11, <3>12 DEF Placed
  <2>9. CASE S!Sweeps
    <3> DEFINE e == [s \in Skill |-> IF s \in S!Stale(placing.used) THEN 0 ELSE entries.entry[s]]
    <3>1. /\ placing.at = "linking" /\ placing.todo = {} /\ placing' = [placing EXCEPT !.at = "starting"]
          /\ entries' = [entries EXCEPT !.staged = 0, !.entry = e]
      BY <2>9 DEF S!Sweeps
    <3>2. placing \in Readied /\ placing.used \in S!Locks
      BY <3>1, PlacingIs DEF Placing
    <3>3. e \in [Skill -> S!Commit \cup {0, S!Own}]
      BY <1>0 DEF Entries
    <3>4. \A s \in Skill : e[s] = IF s \in S!Stale(placing.used) THEN 0 ELSE entries.entry[s]
      OBVIOUS
    <3> HIDE DEF e
    <3>5. placing'.at = "starting" /\ placing'.used = placing.used /\ placing'.manifest = placing.manifest
      BY <3>1, <3>2 DEF Readied
    <3>6. /\ entries' \in Entries /\ entries'.kept = entries.kept /\ entries'.hidden = entries.hidden
          /\ entries'.staged = 0 /\ entries'.entry = e
      <4> DEFINE w == [entries EXCEPT !.staged = 0]
      <4>1. /\ w \in Entries /\ w.kept = entries.kept /\ w.hidden = entries.hidden /\ w.staged = 0
        BY <1>0 DEF Entries
      <4>2. entries' = [w EXCEPT !.entry = e]
        BY <3>1
      <4> HIDE DEF w
      <4> QED BY <3>3, <4>1, <4>2 DEF Entries
    <3>7. /\ S!Names(placing.used) = S!Names(placing.manifest)
          /\ entries.kept /\ entries.hidden = S!Names(placing.used)
          /\ \A s \in S!Names(placing.used) : entries.entry[s] = placing.used[s].commit
      BY <3>1 DEF Placed
    <3>8. \A s \in Skill : placing.used[s] # S!None <=> s \in S!Names(placing.used)
      BY <3>2 DEF S!Names, S!Locks
    <3>9. \A s \in Skill : IF placing.used[s] # S!None THEN e[s] = placing.used[s].commit
                                                       ELSE e[s] \in {0, S!Own}
      BY <1>0, <3>4, <3>7, <3>8 DEF S!Stale, Entries
    <3> QED BY <3>5, <3>6, <3>7, <3>9 DEF Placed
  <2>10. CASE S!Starts
    <3>1. placing.at = "starting" /\ placing' = [placing EXCEPT !.at = "running"] /\ UNCHANGED entries
      BY <2>10 DEF S!Starts
    <3>2. placing'.at = "running"
      BY <3>1, PlacingIs DEF Placing, Readied
    <3> QED BY <1>0, <1>2, <3>1, <3>2
  <2>11. CASE S!Ends
    BY <1>3, <2>11 DEF S!Ends
  <2>12. ASSUME NEW kept \in BOOLEAN, S!Reclaims(kept)
         PROVE  Placed(placing', entries')
    <3>1. entries' = [S!EmptyTree EXCEPT !.kept = kept] /\ placing' = S!Idle
      BY <2>12 DEF S!Reclaims
    <3>2. entries' \in Entries /\ entries'.staged = 0 /\ entries'.entry = [s \in Skill |-> 0]
      BY <3>1 DEF S!EmptyTree, Entries
    <3>3. placing'.at = "idle" /\ \A s \in Skill : entries'.entry[s] = 0
      BY <3>1, <3>2 DEF S!Idle
    <3> QED BY <1>2, <3>2, <3>3
  <2> QED BY <1>6, <2>1, <2>2, <2>4, <2>5, <2>6, <2>7, <2>8, <2>9, <2>10, <2>11, <2>12 DEF S!Placement
<1> QED BY <1>1, <1>3, <1>4, <1>5, <1>6, CommandKeeps DEF S!Next, S!vars

-----------------------------------------------------------------------------
(* The theorem about the Skills' half.                                       *)

\* Sources, files, commands and an empty worktree, as they begin.
LEMMA SkillsInit ==
  ASSUME S!Init
  PROVE  SkillsInv
<1>1. Sources
  <2>1. tip = [s \in Skill |-> S!Apart] /\ been = [s \in Skill |-> [r \in Ref |-> {tip[s][r]}]]
        /\ count = [commands |-> 0, runs |-> 0, upsets |-> 0]
    BY DEF S!Init
  <2>2. \A s \in Skill, r \in Ref : tip[s][r] \in S!Commit /\ been[s][r] = {tip[s][r]}
    BY <2>1, ApartIs
  <2>3. tip \in [Skill -> [Ref -> S!Commit]]
    BY <2>1, ApartIs
  <2>4. been \in [Skill -> [Ref -> SUBSET S!Commit]]
    BY <2>1, <2>2
  <2>5. count \in [commands: Nat, runs: Nat, upsets: 0..MaxUpsets]
    BY <2>1, Numbered
  <2> QED BY <2>2, <2>3, <2>4, <2>5 DEF Sources
<1>2. Cached
  BY DEF S!Init, Cached
<1>3. FilesTrue(disk, been)
  <2>1. \A r \in Ref : been \in [Skill -> [Ref -> SUBSET S!Commit]] /\ \A s \in Skill : S!Apart[r] \in been[s][r]
    BY <1>1 DEF S!Init, Sources
  <2>2. PICK names \in SUBSET Skill, locked \in SUBSET Skill : disk = S!FilesOf(names, locked)
    BY DEF S!Init
  <2> DEFINE m == [s \in Skill |-> IF s \in names THEN [ref |-> Default, auto |-> FALSE] ELSE S!None]
             l == [s \in Skill |-> IF s \in locked THEN [ref |-> Default, commit |-> S!Apart[Default]] ELSE S!None]
  <2>3. [ref |-> Default, auto |-> FALSE] \in S!Declared
    BY RefsAssumption DEF S!Declared, S!Asked
  <2>4. [ref |-> Default, commit |-> S!Apart[Default]] \in S!Locked
    BY RefsAssumption, ApartIs DEF S!Locked, S!Asked
  <2>5. m \in S!Manifests
    BY <2>3 DEF S!Manifests
  <2>6. l \in S!Locks
    BY <2>4 DEF S!Locks
  <2>7. Answered(l, been)
    BY <2>1, RefsAssumption DEF Answered
  <2>8. disk = [manifest |-> m, lock |-> l]
    BY <2>2 DEF S!FilesOf
  <2> HIDE DEF m, l
  <2>9. disk \in [manifest: S!Manifests, lock: S!Locks] /\ disk.lock = l
    BY <2>5, <2>6, <2>8
  <2> QED BY <2>7, <2>9 DEF FilesTrue, S!Files
<1>4. FilesHold
  BY <1>3 DEF FilesHold, S!Init
<1>5. CommandsHold
  BY IdleIsNone DEF S!Init, CommandsHold
<1>6. RunHolds
  <2>1. S!Idle \notin Readied
    BY DEF S!Idle, Readied, Placing
  <2> QED BY <2>1, NoneUsed DEF S!Init, RunHolds, RunTrue, Recorded
<1>7. Placed(placing, entries)
  <2>1. placing.at = "idle"
    BY DEF S!Init, S!Idle
  <2>2. entries \in Entries /\ entries.staged = 0 /\ entries.entry = [s \in Skill |-> 0]
    BY DEF S!Init, S!EmptyTree, Entries
  <2> QED BY <2>1, <2>2 DEF Placed
<1> QED BY <1>1, <1>2, <1>4, <1>5, <1>6, <1>7 DEF SkillsInv

\* Every step preserves all of it.
LEMMA SkillsStep ==
  ASSUME SkillsInv, [S!Next]_(S!vars)
  PROVE  SkillsInv'
<1>1. Sources' /\ \A s \in Skill, r \in Ref : been[s][r] \subseteq been'[s][r]
  BY SourcesStep DEF SkillsInv
<1>2. Cached'
  BY CachedStep DEF SkillsInv
<1>3. FilesHold' /\ CommandsHold'
  BY <1>1, FilesStep, CommandsStep DEF SkillsInv
<1>4. RunHolds'
  BY <1>1, RunStep DEF SkillsInv, Placed
<1>5. Placed(placing', entries')
  BY PlacedStep DEF SkillsInv
<1> QED BY <1>1, <1>2, <1>3, <1>4, <1>5 DEF SkillsInv

\* The Skills' half of PartsNext is a step of Skills, and the other half none.
LEMMA SkillsMove ==
  ASSUME [PartsNext]_<<part, vars, skillsVars>>
  PROVE  [S!Next]_(S!vars)
BY DEF PartsNext, skillsVars, S!vars

\* It holds of every behaviour of the two halves together.
LEMMA SkillsHold == PartsSpec => []SkillsInv
<1>1. PartsInit => SkillsInv
  BY SkillsInit DEF PartsInit
<1>2. SkillsInv /\ [PartsNext]_<<part, vars, skillsVars>> => SkillsInv'
  BY SkillsStep, SkillsMove
<1> QED BY <1>1, <1>2, PTL DEF PartsSpec

\* What S!RecordIsTrue says.
LEMMA RecordsTrue ==
  ASSUME SkillsInv
  PROVE  S!RecordIsTrue
BY DEF SkillsInv, RunHolds, Recorded, Genuine, S!RecordIsTrue, S!Names, S!Locks

\* What S!StartsAsDeclared says of a step.
LEMMA StartsDeclared ==
  ASSUME SkillsInv, S!Starts
  PROVE  LET u == placing.used IN
           /\ S!Names(u) = S!Names(placing.manifest)
           /\ \A s \in Skill : entries.entry[s] # S!Own =>
                entries.entry[s] = IF u[s] = S!None THEN 0 ELSE u[s].commit
           /\ \A s \in S!Names(u) : entries.entry[s] = u[s].commit
           /\ entries.staged = 0
           /\ entries.kept => entries.hidden = S!Names(u)
<1>1. placing.at = "starting" /\ Placed(placing, entries) /\ RunHolds
  BY DEF S!Starts, SkillsInv
<1>2. placing.used \in S!Locks
  BY <1>1, PlacingIs DEF Placing
<1>3. /\ S!Names(placing.used) = S!Names(placing.manifest)
      /\ entries.staged = 0 /\ (entries.kept => entries.hidden = S!Names(placing.used))
      /\ \A s \in Skill : IF placing.used[s] # S!None THEN entries.entry[s] = placing.used[s].commit
                                                      ELSE entries.entry[s] \in {0, S!Own}
  BY <1>1 DEF Placed
<1> QED BY <1>2, <1>3 DEF S!Names, S!Locks

\* What S!OwnStays says of a step.
LEMMA OwnKept ==
  ASSUME SkillsInv, SkillsInv', [S!Next]_(S!vars)
  PROVE  /\ \A s \in Skill : entries.entry[s] = S!Own /\ placing.at # "running" /\ placing # S!Idle =>
              entries'.entry[s] = S!Own
         /\ placing'.at = "refused" => entries' = placing.before
<1>0. Placed(placing, entries) /\ Placed(placing', entries') /\ RunHolds /\ entries \in Entries
  BY DEF SkillsInv, Placed
<1> DEFINE Goal == /\ \A s \in Skill : entries.entry[s] = S!Own /\ placing.at # "running" /\ placing # S!Idle =>
                        entries'.entry[s] = S!Own
                   /\ placing'.at = "refused" => entries' = placing.before
<1> SUFFICES Goal
  OBVIOUS
<1>1. ASSUME UNCHANGED <<placing, entries>> PROVE Goal
  BY <1>0, <1>1 DEF Placed
<1>2. ASSUME UNCHANGED entries, placing'.at = "refused" => placing'.before = placing.before PROVE Goal
  BY <1>0, <1>2 DEF Placed
<1>3. ASSUME placing'.at # "refused", \A s \in Skill : entries.entry[s] = S!Own => entries'.entry[s] = S!Own
      PROVE  Goal
  BY <1>3
<1>4. ASSUME placing.at = "running" \/ placing = S!Idle, placing'.at # "refused" PROVE Goal
  BY <1>4
<1>5. S!Idle.at = "idle"
  BY DEF S!Idle
<1> HIDE DEF Goal
<1>6. ASSUME S!Others PROVE Goal
  <2>1. CASE \E s \in Skill, e \in {0, S!Own} : S!AgentWrites(s, e)
    BY <1>4, <2>1 DEF S!AgentWrites
  <2>2. CASE S!Crashes
    BY <1>2, <1>5, <2>2 DEF S!Crashes
  <2> QED BY <1>1, <1>6, <2>1, <2>2 DEF S!Others, S!Commits, S!SourceMoves, S!EditsManifest, S!Tampers
<1>7. ASSUME S!Placement PROVE Goal
  <2>1. CASE S!ReadsManifest \/ S!ReadsLock
    BY <1>2, <2>1 DEF S!ReadsManifest, S!ReadsLock
  <2>2. ASSUME NEW at, at # "refused", placing' = [placing EXCEPT !.at = at], placing.at \in Placing
        PROVE  placing'.at # "refused"
    BY <1>0, <2>2, PlacingIs DEF Readied
  <2>3. ASSUME NEW at, at # "refused", NEW todo, placing' = [placing EXCEPT !.at = at, !.todo = todo],
               placing.at \in Placing
        PROVE  placing'.at # "refused"
    BY <1>0, <2>3, PlacingIs DEF Readied
  <2>4. ASSUME NEW why, S!Refuse(why) PROVE placing'.before = placing.before
    BY <2>4 DEF S!Refuse
  <2>5. CASE S!Looks
    <3>1. placing.at \in Placing /\ UNCHANGED entries
      BY <2>5 DEF S!Looks, Placing
    <3>2. S!Refuse("foreign") \/ placing' = [placing EXCEPT !.at = "hiding"]
      BY <2>5 DEF S!Looks
    <3> QED BY <1>2, <2>2, <2>4, <3>1, <3>2
  <2>6. ASSUME NEW s \in Skill, S!Prepare(s) PROVE Goal
    <3>1. placing.at = "preparing" /\ UNCHANGED entries
      BY <2>6 DEF S!Prepare
    <3>2. (\E why : S!Refuse(why)) \/ \E x : placing' = [placing EXCEPT !.used[s] = x]
      BY <2>6 DEF S!Prepare
    <3>3. placing \in Readied
      BY <1>0, <3>1, PlacingIs DEF Placing
    <3>4. ASSUME NEW x, placing' = [placing EXCEPT !.used[s] = x] PROVE placing'.before = placing.before
      BY <3>3, <3>4 DEF Readied
    <3> QED BY <1>2, <2>4, <3>1, <3>2, <3>4
  <2>7. CASE S!Hides
    <3>1. placing.at \in Placing /\ placing' = [placing EXCEPT !.at = "linking", !.todo = S!Names(placing.used)]
          /\ entries' = [entries EXCEPT !.hidden = S!Names(placing.used), !.kept = TRUE]
      BY <2>7 DEF S!Hides, Placing
    <3>2. entries'.entry = entries.entry
      BY <1>0, <3>1 DEF Entries
    <3> QED BY <1>3, <2>3, <3>1, <3>2
  <2>8. CASE S!Stages
    <3>1. placing.at \in Placing /\ placing' = [placing EXCEPT !.at = "moving"]
          /\ entries' = [entries EXCEPT !.staged = @ + 1]
      BY <2>8 DEF S!Stages, Placing
    <3>2. entries'.entry = entries.entry
      BY <1>0, <3>1 DEF Entries
    <3> QED BY <1>3, <2>2, <3>1, <3>2
  <2>9. ASSUME NEW s \in Skill, S!Links(s) PROVE Goal
    <3>1. /\ placing.at = "moving" /\ s \in placing.todo
          /\ placing' = [placing EXCEPT !.at = "linking", !.todo = placing.todo \ {s}]
          /\ entries' = [entries EXCEPT !.entry[s] = placing.used[s].commit, !.staged = entries.staged - 1]
      BY <2>9 DEF S!Links
    <3>2. entries.entry[s] # S!Own
      BY <1>0, <3>1 DEF Placed
    <3>3. \A t \in Skill : t # s => entries'.entry[t] = entries.entry[t]
      BY <1>0, <3>1 DEF Entries
    <3> QED BY <1>3, <2>3, <3>1, <3>2, <3>3 DEF Placing
  <2>10. CASE S!Sweeps
    <3>1. /\ placing.at = "linking" /\ placing' = [placing EXCEPT !.at = "starting"]
          /\ entries' = [entries EXCEPT !.staged = 0,
                           !.entry = [s \in Skill |-> IF s \in S!Stale(placing.used) THEN 0 ELSE @[s]]]
      BY <2>10 DEF S!Sweeps
    <3>2. \A s \in Skill : entries'.entry[s] = IF s \in S!Stale(placing.used) THEN 0 ELSE entries.entry[s]
      BY <1>0, <3>1 DEF Entries
    <3>3. \A s \in S!Stale(placing.used) : entries.entry[s] # S!Own
      BY Numbered DEF S!Stale
    <3> QED BY <1>3, <2>2, <3>1, <3>2, <3>3 DEF Placing
  <2>11. CASE S!Starts
    <3>1. placing.at \in Placing /\ UNCHANGED entries /\ placing' = [placing EXCEPT !.at = "running"]
      BY <2>11 DEF S!Starts, Placing
    <3> QED BY <1>2, <2>2, <3>1
  <2>12. CASE S!Ends
    BY <1>2, <1>5, <2>12 DEF S!Ends
  <2>13. CASE \E kept \in BOOLEAN : S!Reclaims(kept)
    BY <1>4, <1>5, <2>13 DEF S!Reclaims
  <2> QED BY <1>7, <2>1, <2>5, <2>6, <2>7, <2>8, <2>9, <2>10, <2>11, <2>12, <2>13 DEF S!Placement
<1> QED BY <1>1, <1>6, <1>7, CommandKeeps DEF S!Next, S!vars

\* What S!FetchedIsGenuine says of a step.
LEMMA FetchedGenuine ==
  ASSUME SkillsInv, NEW s \in Skill, S!Prepare(s), placing'.at = "preparing"
  PROVE  cache'[s][placing'.used[s].commit] = "genuine"
<1> DEFINE d == placing.manifest[s]
           c == IF S!Pinned(placing.lock, d, s) THEN placing.lock[s].commit ELSE S!Resolve(s, d.ref)
<1>1. placing.at = "preparing" /\ s \in S!Names(placing.manifest)
  BY DEF S!Prepare
<1>2. ASSUME NEW why, S!Refuse(why) PROVE FALSE
  BY <1>2 DEF S!Refuse
<1>3. S!Fetch(s, c) /\ placing' = [placing EXCEPT !.used[s] = [ref |-> d.ref, commit |-> c]]
  BY <1>2 DEF S!Prepare
<1>4. /\ placing \in Readied /\ placing.used \in S!Locks /\ placing.manifest \in S!Manifests
      /\ placing.lock \in S!Locks /\ Answered(placing.lock, been)
  BY <1>1, PlacingIs DEF SkillsInv, Placing
<1>5. [ref |-> d.ref, commit |-> c] \in S!Locked
  BY <1>1, <1>4, PreparedIs DEF SkillsInv
<1>6. c \in S!Commit
  BY <1>5, NothingElse
<1> HIDE DEF c, d
<1>7. placing'.used = [placing.used EXCEPT ![s] = [ref |-> d.ref, commit |-> c]]
  BY <1>3, <1>4 DEF Readied
<1>8. placing'.used[s].commit = c
  BY <1>4, <1>7 DEF S!Locks
<1>9. cache'[s][c] = "genuine"
  BY <1>3, <1>6 DEF S!Fetch, SkillsInv, Cached
<1> QED BY <1>8, <1>9

\* What S!AdviceIsEnough says of a step.
LEMMA AdviceEnough ==
  ASSUME SkillsInv, NEW u \in Caller, S!WritesLock(u), cmd[u].op = "update",
         disk.manifest = cmd[u].manifest, NEW s \in S!Names(disk.manifest)
  PROVE  /\ cmd[u].all => disk'.lock[s] # S!None
         /\ s \in cmd[u].due =>
              disk'.lock[s] # S!None /\ S!SameRef(disk'.lock[s].ref, disk.manifest[s].ref)
<1> DEFINE c == cmd[u]
<1>1. c.at = "lock" /\ disk' = [disk EXCEPT !.lock = c.lock]
  BY DEF S!WritesLock
<1>2. CommandTrue(c, been) /\ disk \in [manifest: S!Manifests, lock: S!Locks]
  BY DEF SkillsInv, CommandsHold, FilesHold, FilesTrue, S!Files
<1>3. disk'.lock = c.lock
  BY <1>1, <1>2
<1>4. c \in Updating
  BY <1>1, <1>2, CommandIs
<1>5. Asked(c)
  BY <1>2, <1>4, IdleIsNone DEF CommandTrue
<1> HIDE DEF c
<1>6. c.names = {}
  BY <1>1, <1>5 DEF Asked
<1>7. s \in c.due => c.lock[s] # S!None /\ c.lock[s].ref = S!RefOf(c.manifest[s].ref)
  BY <1>5, <1>6 DEF Asked
<1>8. c.manifest = disk.manifest /\ disk.manifest[s].ref \in S!Asked
  <2>1. disk.manifest[s] \in S!Declared
    BY <1>2 DEF S!Names, S!Manifests
  <2> QED BY <2>1, NothingElse DEF c
<1>9. S!SameRef(S!RefOf(disk.manifest[s].ref), disk.manifest[s].ref)
  BY <1>8, RefsAreRefs DEF S!SameRef
<1>10. c.all => c.lock[s] # S!None
  BY <1>5, <1>7, <1>8 DEF Asked
<1>11. c.all = cmd[u].all /\ c.due = cmd[u].due
  BY DEF c
<1> QED BY <1>3, <1>7, <1>8, <1>9, <1>10, <1>11

\* A Run starts with the Skills its Project declares, records of each what its source
\* answered, and leaves in the worktree what is not Owl's; and what a refused Run tells
\* its user to do pins what is missing (internal/skill, placeSkills).
THEOREM SkillsStartAsDeclared == PartsSpec => SkillsAsDeclared
<1>1. PartsSpec => [](part = "skills" => S!RecordIsTrue)
  <2>1. SkillsInv => (part = "skills" => S!RecordIsTrue)
    BY RecordsTrue
  <2> QED BY <2>1, SkillsHold, PTL
<1>2. PartsSpec => S!StartsAsDeclared
  <2>1. SkillsInv /\ [PartsNext]_<<part, vars, skillsVars>> =>
          [S!Starts => LET u == placing.used IN
             /\ S!Names(u) = S!Names(placing.manifest)
             /\ \A s \in Skill : entries.entry[s] # S!Own =>
                  entries.entry[s] = IF u[s] = S!None THEN 0 ELSE u[s].commit
             /\ \A s \in S!Names(u) : entries.entry[s] = u[s].commit
             /\ entries.staged = 0
             /\ entries.kept => entries.hidden = S!Names(u)]_(S!vars)
    BY StartsDeclared
  <2> QED BY <2>1, SkillsHold, PTL DEF PartsSpec, S!StartsAsDeclared
<1>3. PartsSpec => S!OwnStays
  <2>1. SkillsInv /\ SkillsInv' /\ [PartsNext]_<<part, vars, skillsVars>> =>
          [/\ \A s \in Skill : entries.entry[s] = S!Own /\ placing.at # "running" /\ placing # S!Idle =>
                entries'.entry[s] = S!Own
           /\ placing'.at = "refused" => entries' = placing.before]_(S!vars)
    BY OwnKept, SkillsMove
  <2> QED BY <2>1, SkillsHold, PTL DEF PartsSpec, S!OwnStays
<1>4. PartsSpec => S!FetchedIsGenuine
  <2>1. SkillsInv /\ [PartsNext]_<<part, vars, skillsVars>> =>
          [\A s \in Skill : S!Prepare(s) /\ placing'.at = "preparing" =>
             cache'[s][placing'.used[s].commit] = "genuine"]_(S!vars)
    BY FetchedGenuine
  <2> QED BY <2>1, SkillsHold, PTL DEF PartsSpec, S!FetchedIsGenuine
<1>5. PartsSpec => S!AdviceIsEnough
  <2>1. SkillsInv /\ [PartsNext]_<<part, vars, skillsVars>> =>
          [\A u \in Caller :
             /\ S!WritesLock(u) /\ cmd[u].op = "update" /\ disk.manifest = cmd[u].manifest
             => \A s \in S!Names(disk.manifest) :
                  /\ cmd[u].all => disk'.lock[s] # S!None
                  /\ s \in cmd[u].due => disk'.lock[s] # S!None
                       /\ S!SameRef(disk'.lock[s].ref, disk.manifest[s].ref)]_(S!vars)
    BY AdviceEnough
  <2> QED BY <2>1, SkillsHold, PTL DEF PartsSpec, S!AdviceIsEnough
<1> QED BY <1>1, <1>2, <1>3, <1>4, <1>5 DEF SkillsAsDeclared
=============================================================================
