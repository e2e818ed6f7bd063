------------------------------- MODULE Disposal -------------------------------
(***************************************************************************)
(* What becomes of a Job's worktree and branch: internal/run/dispose.go    *)
(* (owl jobs accept and drop), internal/gc (collection, and what owl       *)
(* status reports), and the part of start that makes a worktree.           *)
(*                                                                         *)
(* The rows, the directories and git's own records of them are three       *)
(* things nothing updates together.  A disposal writes to all three, one   *)
(* after the other, and may be cut short between any two; a collection     *)
(* lists the directories, then reads the rows, then acts on what it read   *)
(* minutes later, while starts make worktrees and users commit, edit,      *)
(* merge and delete in them.  Jobs are independent but for the lock that   *)
(* serialises deciding their fate.                                         *)
(***************************************************************************)
EXTENDS Naturals, FiniteSets

CONSTANTS
  Job,
  Decider,      \* calls of accept and drop that may be in progress at once
  MaxHands,     \* bound: what users do to a worktree, a branch or a Project
  MaxFaults     \* bound: git commands cut short, writes that fail, crashes

ASSUME DisposalAssumption == MaxHands \in Nat /\ MaxFaults \in Nat

JobState == {"none", "pending", "active", "review", "blocked", "done", "cancelled", "gone"}

\* Where the start and the Run that are at a Job have got to.
Stage == {"off", "claimed", "marked", "made", "ready", "agent", "ended", "moved"}

DeciderStep   == {"idle", "reclaim", "remove", "delete", "record", "move"}
CollectorStep == {"idle", "listed", "accept", "reconcile", "remove", "record", "report"}

VARIABLES
  state,      \* the row's state
  noted,      \* Jobs whose row names a branch and a worktree: [tree, branch]
  branch,     \* the Job's branch in git
  dir,        \* its directory: broken has lost the .git file
  entry,      \* Jobs whose worktree git keeps an administrative entry for
  kept,       \* Jobs Owl keeps an exclude file for, beside their worktree
  stage,      \* the start or Run that is at each Job
  carrying,   \* Jobs the daemon says it carries
  decider,    \* each call of accept or drop
  gc,         \* the collection, or the answer to owl status, in progress
  torn,       \* history: Jobs a drop of which was cut short
  hands, faults

rowVars  == <<state, noted>>
gitVars  == <<branch, dir, entry, kept>>
runVars  == <<stage, carrying>>
vars     == <<rowVars, gitVars, runVars, decider, gc, torn, hands, faults>>

AtRest == [at |-> "idle", job |-> "none", drop |-> FALSE, force |-> FALSE, branch |-> FALSE]
Asleep == [at |-> "idle", asking |-> FALSE, read |-> {}, open |-> {},
           todo |-> {}, job |-> "none"]

\* What a collection read of one Job.
Snapshot == [job: Job, state: JobState \ {"none", "gone"}, tree: BOOLEAN, branch: BOOLEAN]

\* Every variable is what the code can make of it, and one call at a time is
\* disposing of something.
TypeOK ==
  /\ state \in [Job -> JobState]
  /\ noted \in [Job -> [tree: BOOLEAN, branch: BOOLEAN]]
  /\ branch \in [Job -> {"none", "fresh", "ahead", "merged"}]
  /\ dir \in [Job -> {"none", "clean", "dirty", "broken"}]
  /\ entry \subseteq Job /\ kept \subseteq Job
  /\ stage \in [Job -> Stage] /\ carrying \subseteq Job
  /\ decider \in [Decider -> [at: DeciderStep, job: Job \cup {"none"}, drop: BOOLEAN,
                              force: BOOLEAN, branch: BOOLEAN]]
  /\ gc \in [at: CollectorStep, asking: BOOLEAN, read: SUBSET Snapshot,
             open: SUBSET Job, todo: SUBSET Job, job: Job \cup {"none"}]
  /\ torn \subseteq Job
  /\ hands \in 0..MaxHands /\ faults \in 0..MaxFaults
  /\ \A d, e \in Decider : decider[d].at # "idle" /\ decider[e].at # "idle" => d = e

Init ==
  /\ state = [j \in Job |-> "none"]
  /\ noted = [j \in Job |-> [tree |-> FALSE, branch |-> FALSE]]
  /\ branch = [j \in Job |-> "none"] /\ dir = [j \in Job |-> "none"]
  /\ entry = {} /\ kept = {}
  /\ stage = [j \in Job |-> "off"] /\ carrying = {}
  /\ decider = [d \in Decider |-> AtRest]
  /\ gc = Asleep
  /\ torn = {} /\ hands = 0 /\ faults = 0

Live(j)  == dir[j] \in {"clean", "dirty"}
Smooth   == UNCHANGED faults
Fault    == faults < MaxFaults /\ faults' = faults + 1
Fails(found) == (found /\ Smooth) \/ Fault

-----------------------------------------------------------------------------
(* The worktree's making and the Run's end, as start and carryOut order it. *)

jobFrame == <<decider, gc, torn, hands, faults>>
To(j, step) == stage' = [stage EXCEPT ![j] = step]
Moves(j, to) == state' = [state EXCEPT ![j] = to]

Produce(j) ==
  /\ state[j] = "none"
  /\ Moves(j, "pending")
  /\ UNCHANGED <<noted, gitVars, runVars, jobFrame>>

Cancel(j) ==
  /\ state[j] = "pending"
  /\ Moves(j, "cancelled")
  /\ UNCHANGED <<noted, gitVars, runVars, jobFrame>>

Claim(j) ==
  /\ state[j] = "pending" /\ stage[j] = "off"
  /\ Moves(j, "active") /\ To(j, "claimed")
  /\ UNCHANGED <<noted, gitVars, carrying, jobFrame>>

Carry(j) ==
  /\ stage[j] = "claimed"
  /\ carrying' = carrying \cup {j}
  /\ To(j, "marked")
  /\ UNCHANGED <<rowVars, gitVars, jobFrame>>

\* The start lets go of its Job: a write conditional on its state, and the mark
\* is taken off before (blocked) or after (moved on) it.
Blocked(j) == IF state[j] = "active" THEN Moves(j, "blocked") ELSE UNCHANGED state

\* git makes the branch, the directory and the entry, or refuses because one of
\* them is there.
AddWorktree(j) ==
  /\ stage[j] = "marked" /\ ~noted[j].branch
  /\ \/ /\ branch[j] = "none" /\ dir[j] = "none" /\ j \notin entry
        /\ branch' = [branch EXCEPT ![j] = "fresh"]
        /\ dir' = [dir EXCEPT ![j] = "clean"]
        /\ entry' = entry \cup {j}
        /\ To(j, "made")
        /\ UNCHANGED state
     \/ /\ ~(branch[j] = "none" /\ dir[j] = "none" /\ j \notin entry)
        /\ Blocked(j) /\ To(j, "moved")
        /\ UNCHANGED <<branch, dir, entry>>
  /\ UNCHANGED <<noted, kept, carrying, jobFrame>>

\* A Job that went with its Project has no row to write it in.
SetJobWorkspace(j) ==
  /\ stage[j] = "made"
  /\ IF state[j] = "gone" THEN To(j, "moved") /\ UNCHANGED noted
     ELSE To(j, "ready") /\ noted' = [noted EXCEPT ![j] = [tree |-> TRUE, branch |-> TRUE]]
  /\ UNCHANGED <<state, gitVars, carrying, jobFrame>>

\* A worktree that is not there any more cannot be replayed onto anything.
Rebase(j) ==
  /\ stage[j] = "marked" /\ noted[j].branch
  /\ IF Live(j) THEN To(j, "ready") /\ UNCHANGED state
                ELSE Blocked(j) /\ To(j, "moved")
  /\ UNCHANGED <<noted, gitVars, carrying, jobFrame>>

\* Skills are placed, the Run is opened; or something refuses - the row is gone, if
\* nothing else is wrong - and the Job is given back as it was.
Open(j) ==
  /\ stage[j] = "ready"
  /\ \/ /\ state[j] # "gone"
        /\ kept' = kept \cup {j} /\ To(j, "agent") /\ UNCHANGED <<state, carrying>>
     \/ /\ IF state[j] = "active" THEN Moves(j, "pending") ELSE UNCHANGED state
        /\ carrying' = carrying \ {j} /\ To(j, "off")
        /\ kept' \in {kept, kept \cup {j}}
  /\ UNCHANGED <<noted, branch, dir, entry, jobFrame>>

\* An Agent leaves changes, commits them, or ends.
AgentWorks(j) ==
  /\ stage[j] = "agent"
  /\ \/ Live(j) /\ dir' = [dir EXCEPT ![j] = "dirty"] /\ UNCHANGED <<branch, stage>>
     \/ /\ dir[j] = "dirty" /\ dir' = [dir EXCEPT ![j] = "clean"]
        /\ branch' = [branch EXCEPT ![j] = "ahead"] /\ UNCHANGED stage
     \/ To(j, "ended") /\ UNCHANGED <<dir, branch>>
  /\ UNCHANGED <<rowVars, entry, kept, carrying, jobFrame>>

\* The Run's end is written before its Job is moved on.
MoveOn(j) ==
  /\ stage[j] = "ended"
  /\ \E to \in {"review", "blocked", "pending"} :
       IF state[j] = "active" THEN Moves(j, to) ELSE UNCHANGED state
  /\ To(j, "moved")
  /\ UNCHANGED <<noted, gitVars, carrying, jobFrame>>

Uncarry(j) ==
  /\ stage[j] = "moved"
  /\ carrying' = carrying \ {j}
  /\ To(j, "off")
  /\ UNCHANGED <<rowVars, gitVars, jobFrame>>

Work(j) ==
  \/ Claim(j) \/ Carry(j) \/ AddWorktree(j) \/ SetJobWorkspace(j) \/ Rebase(j) \/ Open(j)
  \/ AgentWorks(j) \/ MoveOn(j) \/ Uncarry(j)

-----------------------------------------------------------------------------
(* git, as Owl asks it things.                                              *)

\* Mutant of RefusesRemoval: git is asked with --force whatever was asked of Owl.
RefusesOnlyBroken(j, force) == ~Live(j)

\* What git worktree remove will not take.
RefusesRemoval(j, force) == \/ ~Live(j)
                            \/ dir[j] = "dirty" /\ ~force

\* RemoveWorktree: it goes as a whole, or is left half-gone with its entry.
RemoveWorktree(j) ==
  \/ /\ dir' = [dir EXCEPT ![j] = "none"] /\ entry' = entry \ {j} /\ Smooth
  \/ /\ \E left \in {"none", "broken"} : dir' = [dir EXCEPT ![j] = left]
     /\ UNCHANGED entry /\ Fault

\* BranchIsIn: a branch with nothing of its own is in the base as well.
BranchIsIn(j) == branch[j] \in {"fresh", "merged"}

-----------------------------------------------------------------------------
(* Accept and Drop.                                                         *)

decideFrame == <<stage, carrying, gc, hands>>
Deciding(d, step) == decider[d].at = step
Then(d, step) == decider' = [decider EXCEPT ![d].at = step]
Refused(d) == decider' = [decider EXCEPT ![d] = AtRest]

\* The disposal lock is held for as long as a call is at it.
Unlocked == \A d \in Decider : Deciding(d, "idle")

Called(d, j, drop, force) ==
  [decider EXCEPT ![d] =
    [at |-> IF noted[j].tree THEN "reclaim"
            ELSE IF drop /\ noted[j].branch THEN "delete" ELSE "record",
     job |-> j, drop |-> drop, force |-> force, branch |-> noted[j].branch]]

\* Only a Job waiting for a decision is disposed of; what is refused changes
\* nothing.
Begin(d, j, drop, force) ==
  /\ Unlocked /\ state[j] = "review"
  /\ decider' = Called(d, j, drop, force)
  /\ UNCHANGED <<rowVars, gitVars, decideFrame, torn, faults>>

\* What follows once the worktree is gone, and with it what Owl kept beside it.
Reclaimed(d) ==
  /\ kept' = kept \ {decider[d].job}
  /\ Then(d, IF decider[d].drop /\ decider[d].branch THEN "delete" ELSE "record")

\* Mutant of Reclaim: what git cannot work in is removed like anything else.
ReclaimWhatever(d) ==
  LET j == decider[d].job IN
  /\ Deciding(d, "reclaim")
  /\ IF dir[j] = "dirty" /\ ~decider[d].force THEN Refused(d) ELSE Then(d, "remove")
  /\ UNCHANGED <<rowVars, gitVars, decideFrame, torn, faults>>

\* A worktree that is not there has only its entry left to forget; one that
\* holds changes is kept, unless forced.
Reclaim(d) ==
  LET j == decider[d].job IN
  /\ Deciding(d, "reclaim")
  /\ IF ~Live(j) THEN entry' = entry \ {j} /\ Reclaimed(d)
     ELSE /\ UNCHANGED <<entry, kept>>
          /\ IF dir[j] = "dirty" /\ ~decider[d].force THEN Refused(d) ELSE Then(d, "remove")
  /\ UNCHANGED <<rowVars, branch, dir, decideFrame, torn, faults>>

Remove(d) ==
  LET j == decider[d].job IN
  /\ Deciding(d, "remove")
  /\ \/ /\ RefusesRemoval(j, decider[d].force) /\ Refused(d)
        /\ UNCHANGED <<dir, entry, kept>> /\ Smooth
     \/ /\ ~RefusesRemoval(j, decider[d].force)
        /\ RemoveWorktree(j)
        /\ IF faults' = faults THEN Reclaimed(d) ELSE Refused(d) /\ UNCHANGED kept
  /\ UNCHANGED <<rowVars, branch, decideFrame, torn>>

\* git refuses to delete a branch that is not there.
DeleteBranch(d) ==
  LET j == decider[d].job IN
  /\ Deciding(d, "delete")
  /\ IF branch[j] = "none" THEN Refused(d) /\ UNCHANGED branch
     ELSE branch' = [branch EXCEPT ![j] = "none"] /\ Then(d, "record")
  /\ UNCHANGED <<rowVars, dir, entry, kept, decideFrame, torn, faults>>

\* The row says what the Job has now; a write that fails leaves it as it was.
Record(d) ==
  LET j == decider[d].job IN
  /\ Deciding(d, "record")
  /\ \/ /\ state[j] # "gone"
        /\ noted' = [noted EXCEPT ![j] = [tree |-> FALSE,
                                          branch |-> ~decider[d].drop /\ decider[d].branch]]
        /\ Then(d, "move") /\ Smooth /\ UNCHANGED torn
     \/ /\ Fails(state[j] = "gone") /\ Refused(d) /\ UNCHANGED noted
        /\ torn' = IF decider[d].drop THEN torn \cup {j} ELSE torn
  /\ UNCHANGED <<state, gitVars, decideFrame>>

Move(d) ==
  LET j == decider[d].job IN
  /\ Deciding(d, "move")
  /\ \/ /\ IF state[j] = "review"
           THEN Moves(j, IF decider[d].drop THEN "cancelled" ELSE "done")
           ELSE UNCHANGED state
        /\ Smooth /\ UNCHANGED torn
     \/ /\ Fault /\ UNCHANGED state
        /\ torn' = IF decider[d].drop THEN torn \cup {j} ELSE torn
  /\ Refused(d)
  /\ UNCHANGED <<noted, gitVars, decideFrame>>

Dispose(d) ==
  \/ Reclaim(d) \/ Remove(d)
  \/ DeleteBranch(d) \/ Record(d) \/ Move(d)

-----------------------------------------------------------------------------
(* Collect, and Unfinished.                                                 *)

gcFrame == <<stage, carrying, decider, torn, hands>>
Collecting(step) == gc.at = step
GoOn(step) == gc' = [gc EXCEPT !.at = step]

\* Mutant of SnapshotOf: what went with its Project is read as well.
SnapshotOfAll(jobs) ==
  {[job |-> j, state |-> state[j], tree |-> noted[j].tree, branch |-> noted[j].branch] : j \in jobs}

SnapshotOf(jobs) ==
  {[job |-> j, state |-> state[j], tree |-> noted[j].tree, branch |-> noted[j].branch] :
     j \in {i \in jobs : state[i] \notin {"none", "gone"}}}

\* Everything there is under the worktree directory.
Candidates(asking) ==
  /\ Collecting("idle")
  /\ gc' = [Asleep EXCEPT !.at = "listed", !.asking = asking,
                          !.todo = {j \in Job : dir[j] # "none"}]
  /\ UNCHANGED <<rowVars, gitVars, gcFrame, faults>>

\* JobsAndRunsInProgress: the Jobs and the open Runs, in one transaction.
ReadRows ==
  /\ Collecting("listed")
  /\ gc' = [gc EXCEPT !.at = IF gc.asking THEN "report" ELSE "accept",
                      !.read = SnapshotOf(Job),
                      !.open = {j \in Job : stage[j] = "agent"}]
  /\ UNCHANGED <<rowVars, gitVars, gcFrame, faults>>

Merged == {s \in gc.read : s.state = "review" /\ s.branch /\ BranchIsIn(s.job)}

\* Mutant of AcceptMerged: without the lock.
AcceptUnlocked ==
  LET taken == {s \in Merged : state[s.job] = "review"} IN
  /\ Collecting("accept")
  /\ state' = [j \in Job |-> IF \E s \in taken : s.job = j THEN "done" ELSE state[j]]
  /\ gc' = [gc EXCEPT !.at = "reconcile",
                      !.read = (@ \ taken) \cup {[s EXCEPT !.state = "done"] : s \in taken}]
  /\ UNCHANGED <<noted, gitVars, gcFrame, faults>>

\* Merging is accepting, if the Job is still waiting for a decision.
AcceptMerged ==
  LET taken == {s \in Merged : state[s.job] = "review"} IN
  /\ Collecting("accept") /\ Unlocked
  /\ state' = [j \in Job |-> IF \E s \in taken : s.job = j THEN "done" ELSE state[j]]
  /\ gc' = [gc EXCEPT !.at = "reconcile",
                      !.read = (@ \ taken) \cup {[s EXCEPT !.state = "done"] : s \in taken}]
  /\ UNCHANGED <<noted, gitVars, gcFrame, faults>>

\* Mutant of Owners: a worktree is its Job's only once the row says so.
OwnersByPath(j) == {s \in gc.read : s.job = j /\ s.tree}

\* The row that names the worktree, or that the worktree is named after.
Owners(j) == {s \in gc.read : s.job = j}

\* Mutant of Unwanted: a worktree of no Job is left where it is.
UnwantedOfJob(j) == \E s \in Owners(j) : s.state \in {"done", "cancelled"}

Unwanted(j) == \A s \in Owners(j) : s.state \in {"done", "cancelled"}

\* reconcile, for one directory: taken if nothing has a use for it and it holds
\* nothing that is not committed.
Visit(j) ==
  /\ Collecting("reconcile") /\ j \in gc.todo
  /\ gc' = IF Unwanted(j) /\ dir[j] = "clean"
           THEN [gc EXCEPT !.at = "remove", !.job = j, !.todo = @ \ {j}]
           ELSE [gc EXCEPT !.todo = @ \ {j}]
  /\ UNCHANGED <<rowVars, gitVars, gcFrame, faults>>

\* A removal that is refused or fails is logged, and the next one is looked at.
\* One git cannot find the repository of is taken as a directory.
Reclaims ==
  LET j == gc.job IN
  /\ Collecting("remove")
  /\ \/ /\ ~RefusesRemoval(j, FALSE)
        /\ RemoveWorktree(j)
        /\ GoOn(IF faults' # faults THEN "reconcile"
                ELSE IF Owners(j) # {} THEN "record" ELSE "reconcile")
     \/ /\ dir[j] = "broken" /\ Owners(j) = {}
        /\ dir' = [dir EXCEPT ![j] = "none"]
        /\ GoOn("reconcile") /\ Smooth /\ UNCHANGED entry
     \/ /\ RefusesRemoval(j, FALSE) /\ ~(dir[j] = "broken" /\ Owners(j) = {})
        /\ GoOn("reconcile") /\ Smooth /\ UNCHANGED <<dir, entry>>
  /\ UNCHANGED <<rowVars, branch, kept, gcFrame>>

\* The row no longer names it, if it did, and what Owl kept beside it goes.
RecordGone ==
  LET j == gc.job IN
  /\ Collecting("record")
  /\ \/ /\ state[j] # "gone"
        /\ \E s \in Owners(j) : s.tree /\ noted' = [noted EXCEPT ![j] = [tree |-> FALSE, branch |-> s.branch]]
        /\ Smooth
     \/ Fails(state[j] = "gone" \/ \E s \in Owners(j) : ~s.tree) /\ UNCHANGED noted
  /\ kept' = kept \ {j}
  /\ GoOn("reconcile")
  /\ UNCHANGED <<state, branch, dir, entry, gcFrame>>

\* prune forgets the entries of Owl's worktrees that are not there, of the
\* Projects there are.
Prune ==
  /\ Collecting("reconcile") /\ gc.todo = {}
  /\ entry' = {j \in entry : Live(j) \/ state[j] = "gone"}
  /\ GoOn("report")
  /\ UNCHANGED <<rowVars, branch, dir, kept, gcFrame, faults>>

\* The Jobs a report calls abandoned: active by the rows as they were read, and
\* carried by nobody by now.
Abandoned == {j \in Job : /\ \E s \in gc.read : s.job = j /\ s.state = "active"
                          /\ j \notin gc.open /\ j \notin carrying}

Report ==
  /\ Collecting("report")
  /\ gc' = Asleep
  /\ UNCHANGED <<rowVars, gitVars, gcFrame, faults>>

Collect ==
  \/ Candidates(FALSE) \/ ReadRows \/ AcceptMerged \/ (\E j \in Job : Visit(j))
  \/ Reclaims \/ RecordGone \/ Prune \/ Report

-----------------------------------------------------------------------------
(* Users, and the end of a daemon.                                          *)

handFrame == <<noted, kept, runVars, decider, gc, torn, faults>>
Hand == hands < MaxHands /\ hands' = hands + 1

\* Editing, committing, undoing; merging the branch; deleting the directory, or
\* the file that makes it a worktree.
Edits(j) == /\ Hand /\ dir[j] = "clean"
            /\ dir' = [dir EXCEPT ![j] = "dirty"]
            /\ UNCHANGED <<state, branch, entry, handFrame>>
Commits(j) == /\ Hand /\ dir[j] = "dirty"
              /\ dir' = [dir EXCEPT ![j] = "clean"]
              /\ branch' = [branch EXCEPT ![j] = "ahead"]
              /\ UNCHANGED <<state, entry, handFrame>>
Merges(j) == /\ Hand /\ branch[j] = "ahead"
             /\ branch' = [branch EXCEPT ![j] = "merged"]
             /\ UNCHANGED <<state, dir, entry, handFrame>>
Deletes(j) == /\ Hand /\ Live(j)
              /\ \E left \in {"none", "broken"} : dir' = [dir EXCEPT ![j] = left]
              /\ UNCHANGED <<state, branch, entry, handFrame>>
\* Removing the Project takes its Jobs' rows with it.
RemovesProject(j) == /\ Hand /\ state[j] \notin {"none", "gone"}
                     /\ Moves(j, "gone")
                     /\ noted' = [noted EXCEPT ![j] = [tree |-> FALSE, branch |-> FALSE]]
                     /\ UNCHANGED <<gitVars, runVars, decider, gc, torn, faults>>

\* The daemon dies, and the next one has recovered before it does anything else.
Crash ==
  /\ Fault
  /\ state' = [j \in Job |-> IF state[j] = "active" THEN "pending" ELSE state[j]]
  /\ stage' = [j \in Job |-> "off"] /\ carrying' = {}
  /\ decider' = [d \in Decider |-> AtRest] /\ gc' = Asleep
  /\ torn' = torn \cup {decider[d].job : d \in {e \in Decider : decider[e].drop /\
                                                decider[e].at \in {"record", "move"}}}
  /\ UNCHANGED <<noted, gitVars, hands>>

Next ==
  \/ \E j \in Job : Produce(j) \/ Cancel(j) \/ Work(j)
  \/ \E d \in Decider, j \in Job, drop, force \in BOOLEAN : Begin(d, j, drop, force)
  \/ \E d \in Decider : Dispose(d)
  \/ Candidates(TRUE) \/ Collect
  \/ \E j \in Job : Edits(j) \/ Commits(j) \/ Merges(j) \/ Deletes(j) \/ RemovesProject(j)
  \/ Crash

Spec == Init /\ [][Next]_vars

\* A disposal is straight-line code, and so is a collection, which is run again
\* every interval (daemon.go:352-380); and somebody goes on asking for what is
\* in review to be accepted, whatever it holds.
Fairness ==
  /\ \A d \in Decider : WF_vars(Dispose(d))
  /\ WF_vars(Collect) /\ SF_vars(Candidates(FALSE)) /\ SF_vars(AcceptMerged)
  /\ \A j \in Job : SF_vars(\E d \in Decider : Begin(d, j, FALSE, TRUE))

FairSpec == Spec /\ Fairness

-----------------------------------------------------------------------------
(* What disposal and collection promise.                                    *)

\* Nothing that is not committed goes with a worktree, unless somebody said
\* --force: the check and the removal are two steps, and users and Agents write
\* in between (git.go:191-194, gc.go:399-411, ADR-0015).
NothingIsLostSilently ==
  [][\A j \in Job : dir[j] = "dirty" /\ dir'[j] \in {"none", "broken"} =>
       \/ hands' # hands
       \/ \E d \in Decider : decider[d].job = j /\ decider[d].force]_vars

\* A collection never takes the worktree of a Job that still has a use for it,
\* although it decides by a listing and rows that starts and users overtake
\* (gc.go:212-215, 316-325).
InUseIsKept ==
  [][\A j \in Job : Live(j) /\ dir'[j] \in {"none", "broken"} =>
       \/ hands' # hands
       \/ \E d \in Decider : decider[d].job = j
       \/ state[j] \in {"done", "cancelled", "gone"}]_vars

\* Nothing goes that somebody still wants: neither what is uncommitted nor what is
\* in use.
WorkIsKept == NothingIsLostSilently /\ InUseIsKept

\* The branch of an accepted Job is there, whoever else decided about the Job
\* at the same time - unless a drop of it had been cut short earlier
\* (dispose.go:75-82, gc.go:341-348).
AcceptedKeepsBranch ==
  \A j \in Job : state[j] = "done" /\ noted[j].branch => branch[j] # "none" \/ j \in torn

\* However often a disposal is cut short, and whatever became of the worktree
\* in between, accepting again finishes it (dispose.go:143-146).
AcceptFinishes == \A j \in Job : state[j] = "review" ~> state[j] # "review"

\* What nothing has a use for does not stay: a clean worktree of a Job that is
\* done, cancelled or gone is taken or written to (gc.go:305-309, ADR-0015).
DiskIsBounded ==
  \A j \in Job : state[j] \in {"done", "cancelled", "gone"} /\ dir[j] = "clean"
                   ~> dir[j] # "clean"

\* What disposal and collection began, they bring to an end.
DisposalEnds == AcceptFinishes /\ DiskIsBounded

\* A drop that gets to its branch finds it: cut short, it can be asked for again
\* (dispose.go:110).
DropFindsItsBranch ==
  \A d \in Decider : Deciding(d, "delete") => branch[decider[d].job] # "none"

\* A Job reported abandoned is still active: between its Run's end and its being
\* moved on it does not look abandoned (gc.go:555-568).
NoFalseAlarm == Collecting("report") => \A j \in Abandoned : state[j] = "active"
=============================================================================
