----------------------------- MODULE JobWorktree -----------------------------
(***************************************************************************)
(* One Job's worktree from Run to Run: internal/run/rebase.go and the git  *)
(* it asks (internal/git), the setup commands, the prompt, what the Agent  *)
(* leaves behind, the plan's commit, and Verification with the verdict     *)
(* file its Agent writes (internal/verifier).                              *)
(*                                                                         *)
(* What one Run leaves in the worktree is what the next begins on: changes *)
(* nobody committed, a lock a killed git held, a rebase somebody began, a  *)
(* verdict.  git is killed by a deadline or by the daemon's stop halfway   *)
(* through, and the daemon itself may die.  Users work in the worktree     *)
(* between Runs, never during a start.                                     *)
(***************************************************************************)
EXTENDS Naturals

CONSTANTS
  MaxRuns,      \* bound: Runs that begin
  MaxMoves,     \* bound: how often the remote's base branch moves on
  MaxHands,     \* bound: what a user does in the worktree
  MaxFaults     \* bound: git killed by its deadline, git that cannot run, stops, crashes

ASSUME WorktreeAssumption == {MaxRuns, MaxMoves, MaxHands, MaxFaults} \subseteq Nat

Branch == {"job", "other", "none"}     \* what HEAD is on; none while it is detached
Says   == {"pass", "refuse"}            \* what is missing, or cannot be read, refuses
NoFile == [by |-> 0, says |-> "refuse"]
Nothing == [checks |-> 0, by |-> 0, whole |-> FALSE]
Step   == {"off", "look", "fetch", "asks", "clear", "rebase", "rebasing", "abort", "quit",
           "force", "unstash", "setup", "prompt", "agent", "plan", "checks", "wipe",
           "review", "read", "judge"}

VARIABLES
  cfg,        \* the Project's configuration, and whether it has a remote
  base,       \* versions of the base branch: the remote's and the local
  tree,       \* the worktree; has is the version its branch is replayed onto
  work,       \* where there are changes nobody committed
  handoff,    \* HandoffPath in the worktree
  plan,       \* the row carries a plan
  verdict,    \* VerdictPath in the worktree: the Run whose verifier wrote it, 0 if none did
  state,      \* the Job's state
  run,        \* how many Runs began
  phase,      \* what the one begun last carries out
  pc,         \* where the start, or the Run, is
  onto,       \* the version it rebases onto
  asked,      \* history: the version the start had to build on
  killed,     \* git was killed rather than done
  ended,      \* how the Run's Agent, and then its verifier, ended
  refused,    \* Verification refused the work
  judged,     \* history: the Run whose checks ran to their end, and the verdict read
  daemon,
  hands, faults, moves

repoVars == <<cfg, base, moves>>
treeVars == <<tree, work, handoff, verdict>>
rowVars  == <<state, plan, run, phase>>
locals   == <<onto, asked, killed, ended, refused, judged>>
world    == <<daemon, hands>>
vars == <<repoVars, treeVars, rowVars, pc, locals, world, faults>>

Flags == [live: BOOLEAN, ours: BOOLEAN, on: Branch, rebasing: BOOLEAN, locked: BOOLEAN,
          unmerged: BOOLEAN, has: 0..MaxMoves]

TypeOK ==
  /\ cfg \in [plan: BOOLEAN, checks: BOOLEAN, agent: BOOLEAN, remote: BOOLEAN]
  /\ base \in [remote: 0..MaxMoves, local: 0..MaxMoves]
  /\ tree \in Flags /\ work \subseteq {"tree", "autostash", "stash"}
  /\ handoff \in {"none", "left", "unreadable"} /\ plan \in BOOLEAN
  /\ verdict \in [by: 0..MaxRuns, says: Says]
  /\ state \in {"pending", "active", "blocked", "review"}
  /\ run \in 0..MaxRuns /\ phase \in {"plan", "execute"} /\ pc \in Step
  /\ onto \in 0..MaxMoves /\ asked \in 0..MaxMoves /\ killed \in BOOLEAN
  /\ ended \in {"none", "succeeded", "failed", "interrupted", "late"} /\ refused \in BOOLEAN
  /\ judged \in [checks: 0..MaxRuns, by: 0..MaxRuns, whole: BOOLEAN]
  /\ daemon \in {"up", "stopping"}
  /\ hands \in 0..MaxHands /\ faults \in 0..MaxFaults /\ moves \in 0..MaxMoves

\* A worktree just made (Disposal has its making).
Init ==
  /\ cfg \in [plan: BOOLEAN, checks: BOOLEAN, agent: BOOLEAN, remote: BOOLEAN]
  /\ base = [remote |-> 0, local |-> 0]
  /\ tree = [live |-> TRUE, ours |-> TRUE, on |-> "job", rebasing |-> FALSE,
             locked |-> FALSE, unmerged |-> FALSE, has |-> 0]
  /\ work = {} /\ handoff = "none" /\ plan = FALSE /\ verdict = NoFile
  /\ state = "pending" /\ run = 0 /\ phase = "plan" /\ pc = "off"
  /\ onto = 0 /\ asked = 0 /\ killed = FALSE /\ ended = "none" /\ refused = FALSE
  /\ judged = Nothing
  /\ daemon = "up"
  /\ hands = 0 /\ faults = 0 /\ moves = 0

At(step) == pc = step
Fault    == faults < MaxFaults /\ faults' = faults + 1
Smooth   == UNCHANGED faults
Stopping == daemon = "stopping"

\* git at work in the worktree is killed by its deadline, or by the daemon's stop.
Killed == (Stopping /\ Smooth) \/ Fault

Goes(to)    == pc' = to /\ UNCHANGED state
Blocked     == pc' = "off" /\ state' = "blocked"
GivenBack   == pc' = "off" /\ state' = "pending"
startFrame  == <<repoVars, handoff, verdict, plan, run, phase, asked, ended, refused, judged, world>>

-----------------------------------------------------------------------------
(* rebase: what is looked at before the branch is.                          *)

Start ==
  /\ At("off") /\ state = "pending" /\ daemon = "up" /\ run < MaxRuns
  /\ pc' = "look" /\ state' = "active"
  /\ UNCHANGED <<startFrame, tree, work, onto, killed, faults>>

\* IsWorktree and WorktreeBelongsTo.
Look ==
  /\ At("look")
  /\ IF tree.live /\ tree.ours THEN Goes("fetch") ELSE Blocked
  /\ UNCHANGED <<startFrame, tree, work, onto, killed, faults>>

\* Mutant of FetchBase: what was fetched is not what is built on.
FetchForNothing ==
  /\ At("fetch") /\ Goes("asks")
  /\ onto' = base.local
  /\ asked' = IF cfg.remote THEN base.remote ELSE base.local
  /\ UNCHANGED <<repoVars, treeVars, plan, run, phase, ended, refused, judged, world, killed, faults>>

\* What the remote knows, or the local branch where there is none to ask or it
\* cannot be asked: that is no reason not to start.
FetchBase ==
  /\ At("fetch") /\ Goes("asks")
  /\ \E fetched \in BOOLEAN :
       /\ fetched => cfg.remote
       /\ IF cfg.remote /\ ~fetched THEN Fault ELSE Smooth
       /\ onto' = IF fetched THEN base.remote ELSE base.local
       /\ asked' = onto'
  /\ UNCHANGED <<repoVars, treeVars, plan, run, phase, ended, refused, judged, world, killed>>

RebaseInProgress == tree.rebasing

\* Nobody's rebase, and the Job's branch; a git that cannot be asked is an error, and
\* the Job keeps its place.
Asks ==
  /\ At("asks")
  /\ \/ Smooth /\ IF ~RebaseInProgress /\ tree.on = "job" THEN Goes("clear") ELSE Blocked
     \/ Fault /\ GivenBack
  /\ UNCHANGED <<startFrame, tree, work, onto, killed>>

\* Mutant of ClearStaleLocks: a lock is left to whoever holds it.
ClearNoLocks == UNCHANGED tree

\* Nothing runs in the worktree between Runs, so a lock is one nobody holds.
ClearStaleLocks == tree' = [tree EXCEPT !.locked = FALSE]

Clears ==
  /\ At("clear") /\ Goes("rebase")
  /\ ClearStaleLocks
  /\ UNCHANGED <<startFrame, work, onto, killed, faults>>

-----------------------------------------------------------------------------
(* git.Rebase, abortRebase and forceBack.                                   *)

gitFrame == <<startFrame, onto>>

\* --autostash puts aside what nobody committed, and HEAD is detached; or git
\* refuses, or is killed before it has done anything.
RebaseBegins ==
  /\ At("rebase")
  /\ IF ~tree.locked /\ ~tree.unmerged
     THEN \/ /\ tree' = [tree EXCEPT !.rebasing = TRUE, !.on = "none"]
             /\ work' = IF "tree" \in work THEN (work \ {"tree"}) \cup {"autostash"} ELSE work
             /\ Goes("rebasing") /\ killed' = FALSE /\ Smooth
          \/ /\ tree' \in {[tree EXCEPT !.locked = l] : l \in BOOLEAN} /\ UNCHANGED work
             /\ Goes("abort") /\ killed' = TRUE /\ Killed
     ELSE /\ UNCHANGED <<tree, work>> /\ Goes("abort") /\ killed' = FALSE /\ Smooth
  /\ UNCHANGED gitFrame

\* The branch is replayed and what was put aside is put back, in conflict with
\* what was brought in perhaps: git keeps it in the stash then, and exits zero.
Replayed ==
  /\ \E back \in IF "autostash" \in work THEN {"tree", "stash"} ELSE {"tree"} :
       /\ work' = IF "autostash" \in work THEN (work \ {"autostash"}) \cup {back} ELSE work
       /\ tree' = [tree EXCEPT !.rebasing = FALSE, !.on = "job", !.has = IF onto > @ THEN onto ELSE @,
                               !.unmerged = (back = "stash")]
  /\ Goes("unstash") /\ UNCHANGED killed /\ Smooth

RebaseEnds ==
  /\ At("rebasing")
  /\ \/ Replayed
     \/ /\ tree' \in {[tree EXCEPT !.unmerged = u] : u \in BOOLEAN}   \* it conflicts, or fails
        /\ UNCHANGED <<work, killed>> /\ Goes("abort") /\ Smooth
     \/ /\ tree' \in {[tree EXCEPT !.locked = l] : l \in BOOLEAN} /\ killed' = TRUE
        /\ UNCHANGED work /\ Goes("abort") /\ Killed
  /\ UNCHANGED gitFrame

\* What is in conflict after git said it went well is in the stash.
Unstashed ==
  /\ At("unstash")
  /\ \/ Smooth /\ IF tree.unmerged THEN Blocked ELSE Goes("setup")
     \/ Fault /\ Blocked
  /\ UNCHANGED <<startFrame, tree, work, onto, killed>>

\* The abort has a deadline of its own, and is not the stop's to cut short.
AbortRebase ==
  /\ At("abort")
  /\ LET unlocked == [tree EXCEPT !.locked = tree.locked /\ ~killed] IN
     \/ /\ ~tree.rebasing /\ tree' = unlocked /\ UNCHANGED work /\ Blocked /\ Smooth
     \/ /\ tree.rebasing
        /\ tree' = [unlocked EXCEPT !.rebasing = FALSE, !.on = "job", !.unmerged = FALSE]
        /\ work' = IF "autostash" \in work THEN (work \ {"autostash"}) \cup {"tree"} ELSE work
        /\ Blocked /\ Smooth
     \/ /\ tree.rebasing /\ tree' = unlocked /\ UNCHANGED work /\ Goes("quit") /\ Fault
     \/ /\ tree.rebasing /\ tree' \in {[unlocked EXCEPT !.locked = l] : l \in BOOLEAN}
        /\ UNCHANGED work /\ Blocked /\ Fault
  /\ UNCHANGED <<gitFrame, killed>>

\* Mutant of Quits: the rebase is dropped with what it had put aside.
QuitsDropping ==
  /\ At("quit") /\ Goes("force")
  /\ tree' = [tree EXCEPT !.rebasing = FALSE] /\ work' = work \ {"autostash"}
  /\ UNCHANGED <<gitFrame, killed, faults>>

\* rebase --quit keeps what was put aside in the stash.
Quits ==
  /\ At("quit")
  /\ \/ /\ tree' = [tree EXCEPT !.rebasing = FALSE]
        /\ work' = IF "autostash" \in work THEN (work \ {"autostash"}) \cup {"stash"} ELSE work
        /\ Goes("force") /\ Smooth
     \/ UNCHANGED <<tree, work>> /\ Blocked /\ Fault
  /\ UNCHANGED <<gitFrame, killed>>

\* checkout --force: the branch again, over whatever stands in the way.
ForceBack ==
  /\ At("force") /\ Blocked
  /\ \/ /\ tree' = [tree EXCEPT !.on = "job", !.unmerged = FALSE]
        /\ work' = work \ {"tree"} /\ Smooth
     \/ UNCHANGED <<tree, work>> /\ Fault
  /\ UNCHANGED <<gitFrame, killed>>

-----------------------------------------------------------------------------
(* The setup commands, the prompt and the Agent.                            *)

\* A command that fails blocks the Job; a stop or a hang-up gives it back, as a
\* Skill that cannot be placed does.
Prepare ==
  /\ At("setup")
  /\ \/ ~Stopping /\ Goes("prompt") /\ Smooth
        /\ UNCHANGED <<tree, work>>
     \/ Blocked /\ Fault /\ UNCHANGED <<tree, work>>
     \/ GivenBack /\ Killed /\ UNCHANGED work
        /\ \E l \in BOOLEAN : tree' = [tree EXCEPT !.locked = l]
  /\ UNCHANGED <<startFrame, onto, killed>>

phaseOf == IF cfg.plan /\ ~plan THEN "plan" ELSE "execute"

\* Only an execution Run is told what the last one left.
PromptFor ==
  /\ At("prompt")
  /\ IF phaseOf = "execute" /\ handoff = "unreadable"
     THEN GivenBack /\ UNCHANGED <<run, phase, refused, judged>>
     ELSE /\ Goes("agent")
          /\ run' = run + 1 /\ phase' = phaseOf /\ refused' = FALSE /\ judged' = Nothing
  /\ onto' = 0 /\ asked' = 0 /\ killed' = FALSE
  /\ UNCHANGED <<repoVars, treeVars, plan, ended, world, faults>>

runFrame == <<repoVars, plan, run, phase, onto, asked, killed, world>>

\* An Agent does what it likes in its worktree.
AgentWorks ==
  /\ At("agent")
  /\ \/ work' = work \cup {"tree"} /\ UNCHANGED <<tree, handoff, verdict>>
     \/ work' = work \ {"tree"} /\ UNCHANGED <<tree, handoff, verdict>>
     \/ /\ \E h \in {"none", "left", "unreadable"} : handoff' = h
        /\ UNCHANGED <<tree, work, verdict>>
     \/ /\ \E b \in Branch : tree' = [tree EXCEPT !.on = b, !.rebasing = (b = "none")]
        /\ UNCHANGED <<work, handoff, verdict>>
     \/ /\ \E s \in Says : verdict' = [by |-> 0, says |-> s]   \* a file at that path
        /\ UNCHANGED <<tree, work, handoff>>
  /\ UNCHANGED <<runFrame, pc, state, ended, refused, judged, faults>>

\* It exits cleanly, or fails or is ended, and a git of its that was killed leaves
\* its lock.  A stop is an interruption, whatever the status was.
AgentEnds ==
  /\ At("agent")
  /\ \/ /\ ~Stopping /\ ended' = "succeeded" /\ UNCHANGED tree
        /\ Goes(IF phase = "plan" THEN "plan" ELSE "checks")
     \/ /\ ended' \in {"failed", "interrupted"}
        /\ \E l \in BOOLEAN : tree' = [tree EXCEPT !.locked = @ \/ l]
        /\ Goes("judge")
  /\ UNCHANGED <<runFrame, work, handoff, verdict, refused, judged, faults>>

\* Staged, looked at and committed, by Owl's own hand: no hook is run and nothing
\* is signed.  A lock is what refuses it.
CommitPath == ~tree.locked

\* recordPlan: no plan, no success.
RecordPlan ==
  /\ At("plan") /\ Goes("judge")
  /\ \/ /\ handoff = "left" /\ CommitPath
        /\ plan' = TRUE /\ UNCHANGED <<ended, tree>> /\ Smooth
     \/ /\ handoff # "left" \/ ~CommitPath
        /\ ended' = "failed" /\ UNCHANGED <<plan, tree>> /\ Smooth
     \/ /\ Killed /\ ended' = (IF Stopping THEN "interrupted" ELSE "failed")
        /\ \E l \in BOOLEAN : tree' = [tree EXCEPT !.locked = @ \/ l] /\ UNCHANGED plan
  /\ UNCHANGED <<repoVars, run, phase, onto, asked, killed, world, work, handoff, verdict,
                 refused, judged>>

-----------------------------------------------------------------------------
(* Verification: the Project's checks, then a fresh Agent of its own.       *)

\* A stop drops what the checks said with them.
Checks ==
  /\ At("checks") /\ Goes(IF Stopping THEN "judge" ELSE IF cfg.agent THEN "wipe" ELSE "judge")
  /\ IF cfg.checks /\ ~Stopping
     THEN refused' \in BOOLEAN /\ judged' = [judged EXCEPT !.checks = run]
     ELSE UNCHANGED <<refused, judged>>
  /\ UNCHANGED <<runFrame, treeVars, ended, faults>>

\* Mutant of ClearsVerdict: a verdict that cannot be taken away is no failure.
ClearsVerdictMaybe ==
  /\ At("wipe") /\ Goes("review") /\ verdict' \in {NoFile, verdict}
  /\ UNCHANGED <<runFrame, tree, work, handoff, ended, refused, judged, faults>>

\* Anything left at that path is not this Run's answer, and failing to clear it
\* is failing the review.
ClearsVerdict ==
  /\ At("wipe")
  /\ \/ Goes("review") /\ verdict' = NoFile /\ UNCHANGED refused /\ Smooth
     \/ Goes("judge") /\ UNCHANGED verdict /\ refused' = TRUE /\ Fault
  /\ UNCHANGED <<runFrame, tree, work, handoff, ended, judged>>

ReviewerWrites ==
  /\ At("review")
  /\ \E s \in Says : verdict' = [by |-> run, says |-> s]
  /\ UNCHANGED <<runFrame, tree, work, handoff, pc, state, ended, refused, judged, faults>>

\* The Session ends; its deadline may have ended it, or it could not be run.
ReviewEnds ==
  /\ At("review") /\ Goes("read")
  /\ ended' \in {"succeeded", "late"}
  /\ UNCHANGED <<runFrame, treeVars, refused, judged, faults>>

\* readVerdict: read once and taken away.  Only one that was finished counts.
ReadVerdict ==
  /\ At("read") /\ Goes("judge")
  /\ refused' = (refused \/ ended = "late" \/ verdict = NoFile \/ verdict.says # "pass")
  /\ judged' = [judged EXCEPT !.by = verdict.by, !.whole = (ended # "late")]
  /\ \/ verdict' = NoFile /\ Smooth
     \/ UNCHANGED verdict /\ Fault
  /\ ended' = "succeeded"
  /\ UNCHANGED <<runFrame, tree, work, handoff>>


\* moveOn: where a Run's end leaves its Job.
MovesOn(how) ==
  /\ At("judge") /\ pc' = "off"
  /\ state' = CASE how = "interrupted" -> "pending"
                [] how = "failed" -> "blocked"
                [] how = "succeeded" /\ phase = "plan" -> "pending"
                [] OTHER -> IF refused THEN "blocked" ELSE "review"
  /\ ended' = "none"
  /\ UNCHANGED <<runFrame, treeVars, refused, judged, faults>>

\* Mutant of Judge: what Verification said is taken as it is.
JudgeWhatever == MovesOn(ended)

\* carryOut: what the daemon's stop cut short has been judged by nobody.
Judge ==
  MovesOn(IF ended = "succeeded" /\ phase = "execute" /\ Stopping THEN "interrupted" ELSE ended)

-----------------------------------------------------------------------------
(* The remote, the user, the daemon, and what outlives it.                  *)

RemoteMoves ==
  /\ cfg.remote /\ moves < MaxMoves /\ moves' = moves + 1
  /\ base' = [base EXCEPT !.remote = @ + 1]
  /\ UNCHANGED <<cfg, treeVars, rowVars, pc, locals, world, faults>>

UserPulls ==
  /\ base' = [base EXCEPT !.local = base.remote]
  /\ UNCHANGED <<cfg, moves, treeVars, rowVars, pc, locals, world, faults>>

\* Between Runs a user edits and commits, writes in the handoff, begins a rebase or
\* ends one, checks something out, and takes the worktree away or puts another there.
Hand ==
  /\ At("off") /\ hands < MaxHands /\ hands' = hands + 1
  /\ \/ work' \in {work \cup {"tree"}, work \ {"tree"}} /\ UNCHANGED <<tree, handoff>>
     \/ "stash" \in work /\ work' = (work \ {"stash"}) \cup {"tree"} /\ UNCHANGED <<tree, handoff>>
     \/ handoff' \in {"none", "left", "unreadable"} /\ UNCHANGED <<tree, work>>
     \/ \E b \in Branch : tree' = [tree EXCEPT !.on = b, !.rebasing = (b = "none"), !.unmerged = FALSE]
        /\ work' = work \ {"autostash"} /\ UNCHANGED handoff
     \/ \E o \in BOOLEAN : tree' = [tree EXCEPT !.live = o, !.ours = FALSE]
        /\ UNCHANGED <<work, handoff>>
  /\ UNCHANGED <<repoVars, verdict, rowVars, pc, locals, daemon, faults>>

Stop ==
  /\ daemon = "up" /\ Fault /\ daemon' = "stopping"
  /\ UNCHANGED <<repoVars, treeVars, rowVars, pc, locals, hands>>

\* It waits for what it started, so a daemon that stopped left nothing at work.
Restart ==
  /\ daemon = "stopping" /\ At("off") /\ daemon' = "up"
  /\ UNCHANGED <<repoVars, treeVars, rowVars, pc, locals, hands, faults>>

\* A daemon that dies takes its Agents and its git with it where they are, as
\* run.go:379-383 has it (Daemon has the Agents that work on); the next puts the Job
\* back (Recover).
Crash ==
  /\ ~At("off") /\ Fault /\ GivenBack /\ daemon' = "up"
  /\ ended' = "none"
  /\ IF pc \in {"rebasing", "abort", "agent", "plan"} THEN \E l \in BOOLEAN : tree' = [tree EXCEPT !.locked = @ \/ l]
                                     ELSE UNCHANGED tree
  /\ UNCHANGED <<repoVars, work, handoff, verdict, plan, run, phase, onto, asked, killed, refused, judged, hands>>

Starting == \/ Start \/ Look \/ FetchBase \/ Asks \/ Clears \/ RebaseBegins \/ RebaseEnds
            \/ Unstashed \/ AbortRebase \/ Quits \/ ForceBack \/ Prepare \/ PromptFor
Carrying == \/ AgentWorks \/ AgentEnds \/ RecordPlan \/ Checks \/ ClearsVerdict
            \/ ReviewerWrites \/ ReviewEnds \/ ReadVerdict \/ Judge
Around   == \/ RemoteMoves \/ UserPulls \/ Hand \/ Stop \/ Restart
            \/ Crash
Next == Starting \/ Carrying \/ Around

Spec == Init /\ [][Next]_vars

-----------------------------------------------------------------------------
(* Properties.                                                              *)

\* An Agent begins on the Job's own branch in the Project's own worktree, in the
\* middle of nothing, with no lock and no conflict in it, and on top of everything
\* the base branch was known to hold when the start asked; and git, told to rebase,
\* never finds a lock somebody's death left.  Whatever killed the git, the Agent or
\* the daemon before it, and whatever a user did in between.
BeginsSound ==
  [][/\ pc = "prompt" /\ pc' = "agent" =>
          /\ tree.live /\ tree.ours /\ tree.on = "job"
          /\ ~tree.rebasing /\ ~tree.locked /\ ~tree.unmerged
          /\ tree.has >= asked
     /\ pc' = "rebase" => ~tree'.locked]_vars

\* Nothing uncommitted is lost by what Owl does to the branch: what is in the tree
\* is put aside and comes back, or is kept in the stash when the rebase, its abort,
\* and the branch put back by force go wrong one after the other.  (rebase and
\* forceBack in internal/git: the work of an Agent that was killed is in no commit.)
NothingUncommittedIsLost ==
  [][hands' = hands /\ pc # "agent" =>
       /\ "tree" \in work => "tree" \in work' \/ "autostash" \in work'
       /\ "autostash" \in work => work' \cap {"autostash", "tree", "stash"} # {}
       /\ "stash" \in work => "stash" \in work']_vars

\* A Job reaches review on what judged this very Run: its checks ran to their end,
\* and the verdict was its own verifier's, of a Session that was not cut short -
\* not the worker's, not an earlier Run's, and not nobody's because the daemon
\* stopped.  (verify, carryOut; Verify and readVerdict of internal/verifier/agent.)
ReviewIsJudged ==
  state = "review" =>
    /\ ~refused
    /\ cfg.checks => judged.checks = run
    /\ cfg.agent => judged.by = run /\ judged.whole
=============================================================================
