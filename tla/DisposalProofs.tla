---------------------------- MODULE DisposalProofs ----------------------------
(***************************************************************************)
(* What disposal and collection keep, for any number of Jobs and of calls  *)
(* at once, whatever users do to a worktree and wherever a step is cut     *)
(* short: the branch of a Job that was accepted, work that is not          *)
(* committed, and worktrees that are in use.                               *)
(***************************************************************************)
EXTENDS Disposal, TLAPS

-----------------------------------------------------------------------------
(* The invariant. *)

AtIt(d) == decider[d].at # "idle"

Typed ==
  /\ TypeOK
  /\ \A d \in Decider : AtIt(d) => decider[d].job \in Job
  /\ gc.at \in {"remove", "record"} => gc.job \in Job

\* A start or a Run is at an active Job, or at one that went with its Project, and
\* what git has made is there.
AtHome ==
  \A j \in Job : /\ stage[j] \notin {"off", "moved"} => state[j] \in {"active", "gone"}
                 /\ stage[j] = "made" => branch[j] # "none"

\* A Job somebody is deciding about waits: nobody starts it or moves it.
Waiting ==
  \A d \in Decider : AtIt(d) =>
    /\ state[decider[d].job] \in {"review", "gone"}
    /\ stage[decider[d].job] \in {"off", "moved"}
    /\ decider[d].at = "delete" => decider[d].drop

\* Only a drop leaves a row naming a branch there is not, until it is done.
Noted ==
  \A j \in Job : noted[j].branch /\ branch[j] = "none" =>
    \/ j \in torn
    \/ \E d \in Decider : decider[d].at = "record" /\ decider[d].drop /\ decider[d].job = j

\* ... and so does what a call read of the row when it began.
Remembered ==
  \A d \in Decider : AtIt(d) /\ decider[d].branch /\ branch[decider[d].job] = "none" =>
    \/ decider[d].job \in torn
    \/ decider[d].drop /\ decider[d].at \in {"record", "move"}

\* What a collection read of a Job that is over stays true, but for its Project's
\* removal.
Over(s) == s.state \in {"done", "cancelled"}
ReadTrue ==
  \A s \in gc.read : Over(s) =>
    /\ state[s.job] \in {s.state, "gone"}
    /\ \A d \in Decider : AtIt(d) => decider[d].job # s.job
    /\ s.branch /\ branch[s.job] = "none" => s.job \in torn

\* A directory is a Job's ...
Owned == \A j \in Job : state[j] = "none" => dir[j] = "none" /\ stage[j] = "off"

\* ... and one a collection found no row for is of a Job that went with its Project.
Found ==
  /\ gc.at # "idle" => \A j \in gc.todo : state[j] # "none"
  /\ gc.at \in {"accept", "reconcile", "remove", "record"} =>
       \A j \in gc.todo : Owners(j) = {} => state[j] = "gone"
  /\ gc.at \in {"remove", "record"} =>
       Unwanted(gc.job) /\ (Owners(gc.job) = {} => state[gc.job] = "gone")

IInv == Typed /\ AtHome /\ Waiting /\ Noted /\ Remembered /\ ReadTrue /\ Owned /\ Found

-----------------------------------------------------------------------------
(* What each kind of step does. *)

Same(i) == /\ state'[i] = state[i] /\ noted'[i] = noted[i] /\ branch'[i] = branch[i]
           /\ dir'[i] = dir[i] /\ stage'[i] = stage[i]

\* A start and a Run decide nothing, take no branch away, and note none there is not.
LEMMA WorkDoes ==
  ASSUME Typed, AtHome, Owned, NEW j \in Job, Produce(j) \/ Cancel(j) \/ Work(j)
  PROVE  /\ UNCHANGED <<decider, gc, torn, hands>>
         /\ \A i \in Job \ {j} : Same(i)
         /\ \/ state'[j] = state[j]
            \/ /\ state[j] \in {"none", "pending", "active"}
               /\ state'[j] \in {"pending", "active", "review", "blocked", "cancelled"}
         /\ stage'[j] \in {"off", "moved"} \/ state'[j] \in {"active", "gone"}
         /\ stage'[j] \notin {"off", "moved"} /\ stage[j] \in {"off", "moved"}
              => state[j] = "pending"
         /\ stage'[j] = "made" => branch'[j] # "none"
         /\ branch[j] # "none" => branch'[j] # "none"
         /\ noted'[j].branch => noted[j].branch \/ branch[j] # "none"
         /\ state'[j] = "none" => dir'[j] = "none" /\ stage'[j] = "off"
         /\ Live(j) => dir'[j] \in {"clean", "dirty"}
         /\ dir[j] = "dirty" => dir'[j] \in {"clean", "dirty"}
<1> USE DEF Typed, TypeOK, AtHome, Owned, Same, To, Moves, Live, rowVars, gitVars, runVars, jobFrame
<1>1. CASE Produce(j) \/ Cancel(j)
  BY <1>1 DEF Produce, Cancel
<1>2. CASE Claim(j) \/ Carry(j)
  BY <1>2 DEF Claim, Carry
<1>3. CASE AddWorktree(j)
  BY <1>3 DEF AddWorktree, Blocked
<1>4. CASE SetJobWorkspace(j)
  BY <1>4 DEF SetJobWorkspace
<1>5. CASE Rebase(j)
  BY <1>5 DEF Rebase, Blocked
<1>6. CASE Open(j)
  BY <1>6 DEF Open
<1>7. CASE AgentWorks(j)
  BY <1>7 DEF AgentWorks
<1>8. CASE MoveOn(j)
  BY <1>8 DEF MoveOn
<1>9. CASE Uncarry(j)
  BY <1>9 DEF Uncarry
<1> QED BY <1>1, <1>2, <1>3, <1>4, <1>5, <1>6, <1>7, <1>8, <1>9 DEF Work

\* A user's hand on a Job's worktree, branch or Project.
Handles(j) == Edits(j) \/ Commits(j) \/ Merges(j) \/ Deletes(j) \/ RemovesProject(j)

\* It decides nothing and takes no branch away.
LEMMA HandDoes ==
  ASSUME Typed, Owned, NEW j \in Job, Handles(j)
  PROVE  /\ UNCHANGED <<decider, gc, torn, stage>> /\ hands' # hands
         /\ \A i \in Job \ {j} : Same(i)
         /\ state'[j] = state[j] \/ (state'[j] = "gone" /\ state[j] # "none")
         /\ branch[j] # "none" => branch'[j] # "none"
         /\ noted'[j].branch => noted[j].branch
         /\ state'[j] = "none" => dir'[j] = "none"
<1> USE DEF Typed, TypeOK, Owned, Same, Moves, Live, Hand, gitVars, runVars, handFrame
<1>1. CASE Edits(j) \/ Commits(j)
  BY <1>1, DisposalAssumption DEF Edits, Commits
<1>2. CASE Merges(j) \/ Deletes(j)
  BY <1>2, DisposalAssumption DEF Merges, Deletes
<1>3. CASE RemovesProject(j)
  BY <1>3, DisposalAssumption DEF RemovesProject
<1> QED BY <1>1, <1>2, <1>3 DEF Handles

\* A collection moves to done what is in review, and takes no branch away.
LEMMA CollectDoes ==
  ASSUME Typed, NEW asking \in BOOLEAN, Candidates(asking) \/ Collect
  PROVE  /\ UNCHANGED <<decider, torn, stage, branch, hands>>
         /\ \A j \in Job : \/ state'[j] = state[j]
                           \/ Unlocked /\ state[j] = "review" /\ state'[j] = "done"
         /\ \A j \in Job : dir'[j] = dir[j] \/ (Reclaims /\ j = gc.job)
         /\ \A j \in Job : dir[j] = "none" => dir'[j] = "none"
         /\ \A j \in Job : noted'[j].branch => \/ noted[j].branch
                                               \/ /\ RecordGone /\ j = gc.job /\ state[j] # "gone"
                                                  /\ \E s \in Owners(j) : s.branch
<1> USE DEF Typed, TypeOK, Collecting, rowVars, gitVars, gcFrame
<1>1. CASE Candidates(asking) \/ Candidates(FALSE) \/ ReadRows \/ Report
  BY <1>1 DEF Candidates, ReadRows, Report
<1>2. CASE AcceptMerged
  BY <1>2 DEF AcceptMerged
<1>3. CASE \E j \in Job : Visit(j)
  BY <1>3 DEF Visit
<1>4. CASE Reclaims
  BY <1>4 DEF Reclaims, RemoveWorktree, RefusesRemoval, Live
<1>5. CASE RecordGone
  BY <1>5 DEF RecordGone
<1>6. CASE Prune
  BY <1>6 DEF Prune
<1> QED BY <1>1, <1>2, <1>3, <1>4, <1>5, <1>6 DEF Collect

\* A call of accept or drop is about the one Job it was made for.
LEMMA DisposeDoes ==
  ASSUME Typed, Waiting, NEW d \in Decider, Dispose(d)
  PROVE  /\ AtIt(d) /\ UNCHANGED <<stage, gc, hands>> /\ torn \subseteq torn'
         /\ \A i \in Job \ {decider[d].job} : Same(i)
         /\ \A e \in Decider \ {d} : decider'[e] = decider[e]
         /\ decider'[d].at # "idle" =>
              /\ decider'[d].job = decider[d].job /\ decider'[d].drop = decider[d].drop
              /\ decider'[d].branch = decider[d].branch
              /\ decider'[d].at = "delete" => decider[d].drop
         /\ LET j == decider[d].job IN
            /\ \/ state'[j] = state[j]
               \/ /\ decider[d].at = "move" /\ decider'[d].at = "idle"
                  /\ state[j] = "review" /\ state'[j] \in {"done", "cancelled"}
            /\ dir[j] = "none" => dir'[j] = "none"
            /\ branch'[j] # branch[j] => decider[d].at = "delete" /\ decider'[d].at = "record"
            /\ noted'[j] # noted[j] => /\ decider[d].at = "record" /\ decider'[d].at = "move"
                                       /\ noted'[j].branch = (~decider[d].drop /\ decider[d].branch)
            /\ decider[d].drop /\ decider[d].at = "record" =>
                 j \in torn' \/ (decider'[d].at = "move" /\ ~noted'[j].branch)
            /\ decider'[d].at \notin {"idle", "record", "move"} =>
                 decider[d].at \notin {"record", "move"}
<1> USE DEF Typed, TypeOK, Waiting, AtIt, Same, Deciding, Then, Refused, AtRest, DeciderStep,
            rowVars, gitVars, decideFrame
<1>1. CASE Reclaim(d)
  BY <1>1 DEF Reclaim, Reclaimed, Live
<1>2. CASE Remove(d)
  BY <1>2 DEF Remove, Reclaimed, RemoveWorktree, RefusesRemoval, Live, Smooth, Fault
<1>3. CASE DeleteBranch(d)
  BY <1>3 DEF DeleteBranch
<1>4. CASE Record(d)
  <2> DEFINE j == decider[d].job
  <2>1. j \in Job /\ decider[d].at = "record" /\ UNCHANGED <<state, branch, dir, stage, gc, hands>>
    BY <1>4 DEF Record
  <2>2. CASE /\ noted' = [noted EXCEPT ![j] = [tree |-> FALSE,
                                              branch |-> ~decider[d].drop /\ decider[d].branch]]
             /\ Then(d, "move") /\ UNCHANGED torn
    <3>1. \A i \in Job \ {j} : noted'[i] = noted[i]
      BY <2>1, <2>2
    <3>2. noted'[j].branch = (~decider[d].drop /\ decider[d].branch)
      BY <2>1, <2>2
    <3>3. decider'[d].at = "move" /\ \A e \in Decider \ {d} : decider'[e] = decider[e]
      BY <2>2
    <3>4. /\ decider'[d].job = decider[d].job /\ decider'[d].drop = decider[d].drop
          /\ decider'[d].branch = decider[d].branch
      BY <2>2
    <3> QED BY <2>1, <2>2, <3>1, <3>2, <3>3, <3>4
  <2>3. CASE /\ Refused(d) /\ UNCHANGED noted
             /\ torn' = IF decider[d].drop THEN torn \cup {j} ELSE torn
    BY <2>1, <2>3
  <2> QED BY <1>4, <2>2, <2>3 DEF Record
<1>5. CASE Move(d)
  BY <1>5 DEF Move, Moves
<1> QED BY <1>1, <1>2, <1>3, <1>4, <1>5 DEF Dispose

\* Every step is of one of these kinds.
LEMMA Kinds ==
  ASSUME [Next]_vars
  PROVE  \/ \E j \in Job : Produce(j) \/ Cancel(j) \/ Work(j)
         \/ \E d \in Decider, j \in Job, drop, force \in BOOLEAN : Begin(d, j, drop, force)
         \/ \E d \in Decider : Dispose(d)
         \/ \E asking \in BOOLEAN : Candidates(asking) \/ Collect
         \/ \E j \in Job : Handles(j)
         \/ Crash
         \/ UNCHANGED vars
BY DEF Next, Handles

-----------------------------------------------------------------------------
(* Types, of the rows and git, of the calls, and of the collection. *)

RowsTyped ==
  /\ state \in [Job -> JobState]
  /\ noted \in [Job -> [tree: BOOLEAN, branch: BOOLEAN]]
  /\ branch \in [Job -> {"none", "fresh", "ahead", "merged"}]
  /\ dir \in [Job -> {"none", "clean", "dirty", "broken"}]
  /\ entry \subseteq Job /\ kept \subseteq Job
  /\ stage \in [Job -> Stage] /\ carrying \subseteq Job /\ torn \subseteq Job
  /\ hands \in 0..MaxHands /\ faults \in 0..MaxFaults

CallsTyped ==
  /\ decider \in [Decider -> [at: DeciderStep, job: Job \cup {"none"}, drop: BOOLEAN,
                              force: BOOLEAN, branch: BOOLEAN]]
  /\ \A d, e \in Decider : AtIt(d) /\ AtIt(e) => d = e
  /\ \A d \in Decider : AtIt(d) => decider[d].job \in Job

GcTyped ==
  /\ gc \in [at: CollectorStep, asking: BOOLEAN, read: SUBSET Snapshot,
             open: SUBSET Job, todo: SUBSET Job, job: Job \cup {"none"}]
  /\ gc.at \in {"remove", "record"} => gc.job \in Job

\* What a row notes may be written over.
LEMMA NotedTyped ==
  ASSUME Typed, NEW j, NEW t \in BOOLEAN, NEW b \in BOOLEAN,
         noted' = [noted EXCEPT ![j] = [tree |-> t, branch |-> b]]
  PROVE  noted' \in [Job -> [tree: BOOLEAN, branch: BOOLEAN]]
<1> DEFINE new == [tree |-> t, branch |-> b]
<1>1. new \in [tree: BOOLEAN, branch: BOOLEAN]
  OBVIOUS
<1>2. noted' = [noted EXCEPT ![j] = new]
  OBVIOUS
<1>3. noted \in [Job -> [tree: BOOLEAN, branch: BOOLEAN]]
  BY DEF Typed, TypeOK
<1> HIDE DEF new
<1> QED BY <1>1, <1>2, <1>3

\* A start, a Run and users keep to what a row and git can hold.
LEMMA JobRowsTyped ==
  ASSUME Typed, NEW j \in Job, Produce(j) \/ Cancel(j) \/ Work(j) \/ Handles(j)
  PROVE  RowsTyped'
<1> USE DisposalAssumption DEF Typed, TypeOK, RowsTyped, JobState, Stage, Moves, To, Blocked
<1> USE DEF rowVars, gitVars, runVars, jobFrame, handFrame, Hand
<1>1. CASE Produce(j) \/ Cancel(j)
  BY <1>1 DEF Produce, Cancel
<1>2. CASE Claim(j) \/ Carry(j) \/ Uncarry(j)
  BY <1>2, ZenonT(30) DEF Claim, Carry, Uncarry
<1>3. CASE AddWorktree(j)
  BY <1>3, ZenonT(30) DEF AddWorktree
<1>4. CASE SetJobWorkspace(j)
  <2>1. UNCHANGED noted \/ noted' = [noted EXCEPT ![j] = [tree |-> TRUE, branch |-> TRUE]]
    BY <1>4, Zenon DEF SetJobWorkspace
  <2>2. To(j, "moved") \/ To(j, "ready")
    BY <1>4 DEF SetJobWorkspace
  <2>3. noted' \in [Job -> [tree: BOOLEAN, branch: BOOLEAN]]
    BY <2>1, NotedTyped DEF Typed, TypeOK
  <2>4. stage' \in [Job -> Stage]
    BY <2>2
  <2> QED BY <1>4, <2>3, <2>4 DEF SetJobWorkspace
<1>5. CASE Rebase(j)
  <2>1. UNCHANGED state \/ Moves(j, "blocked")
    BY <1>5 DEF Rebase
  <2>2. To(j, "moved") \/ To(j, "ready")
    BY <1>5 DEF Rebase
  <2> QED BY <1>5, <2>1, <2>2, SMTT(30) DEF Rebase
<1>6. CASE Open(j)
  BY <1>6, ZenonT(30) DEF Open
<1>7. CASE AgentWorks(j)
  BY <1>7, SMTT(30) DEF AgentWorks
<1>8. CASE MoveOn(j)
  BY <1>8 DEF MoveOn
<1>9. CASE Edits(j) \/ Commits(j)
  BY <1>9 DEF Edits, Commits
<1>10. CASE Merges(j)
  BY <1>10 DEF Merges
<1>11. CASE Deletes(j)
  BY <1>11 DEF Deletes
<1>12. CASE RemovesProject(j)
  BY <1>12 DEF RemovesProject
<1> QED
  BY <1>1, <1>2, <1>3, <1>4, <1>5, <1>6, <1>7, <1>8, <1>9, <1>10, <1>11, <1>12 DEF Work, Handles

\* ... and so do disposal and collection.
LEMMA OtherRowsTyped ==
  ASSUME Typed, (\E d \in Decider : Dispose(d)) \/ (\E asking \in BOOLEAN : Candidates(asking))
                \/ Collect \/ Crash
  PROVE  RowsTyped'
<1> USE DisposalAssumption DEF Typed, TypeOK, RowsTyped, JobState, Stage
<1> USE DEF Moves, Smooth, Fault, Fails
<1> USE DEF rowVars, gitVars, runVars, decideFrame, gcFrame, AtIt
<1>1. ASSUME NEW d \in Decider, Reclaim(d)
      PROVE  RowsTyped'
  BY <1>1 DEF Reclaim, Reclaimed
<1>2. ASSUME NEW d \in Decider, Remove(d)
      PROVE  RowsTyped'
  BY <1>2 DEF Remove, Reclaimed, RemoveWorktree, Deciding
<1>3. ASSUME NEW d \in Decider, DeleteBranch(d)
      PROVE  RowsTyped'
  BY <1>3 DEF DeleteBranch
<1>4. ASSUME NEW d \in Decider, Record(d)
      PROVE  RowsTyped'
  <2>1. decider[d].job \in Job /\ decider[d].drop \in BOOLEAN /\ decider[d].branch \in BOOLEAN
    BY <1>4 DEF Record, Deciding
  <2>2. \/ UNCHANGED noted
        \/ \E b \in BOOLEAN :
             noted' = [noted EXCEPT ![decider[d].job] = [tree |-> FALSE, branch |-> b]]
    <3> DEFINE b == ~decider[d].drop /\ decider[d].branch
    <3>1. b \in BOOLEAN
      OBVIOUS
    <3>2. \/ UNCHANGED noted
          \/ noted' = [noted EXCEPT ![decider[d].job] = [tree |-> FALSE, branch |-> b]]
      BY <1>4, Zenon DEF Record
    <3> HIDE DEF b
    <3> QED BY <3>1, <3>2
  <2>3. torn' \subseteq Job
    BY <1>4, <2>1 DEF Record
  <2>4. noted' \in [Job -> [tree: BOOLEAN, branch: BOOLEAN]]
    BY <2>2, NotedTyped DEF Typed, TypeOK
  <2> QED BY <1>4, <2>3, <2>4 DEF Record
<1>5. ASSUME NEW d \in Decider, Move(d)
      PROVE  RowsTyped'
  BY <1>5 DEF Move, Deciding
<1>6. CASE (\E asking \in BOOLEAN : Candidates(asking)) \/ ReadRows \/ Report
  BY <1>6 DEF Candidates, ReadRows, Report
<1>7. CASE AcceptMerged \/ \E j \in Job : Visit(j)
  <2>1. state' \in [Job -> JobState]
    <3>1. CASE AcceptMerged
      <4> DEFINE Taken(j) == \E s \in {r \in Merged : state[r.job] = "review"} : s.job = j
      <4>1. state' = [j \in Job |-> IF Taken(j) THEN "done" ELSE state[j]]
        BY <3>1 DEF AcceptMerged
      <4> HIDE DEF Taken
      <4> QED BY <4>1
    <3>2. CASE \E j \in Job : Visit(j)
      BY <3>2 DEF Visit
    <3> QED BY <1>7, <3>1, <3>2
  <2>2. UNCHANGED <<noted, gitVars, gcFrame, faults>>
    BY <1>7 DEF AcceptMerged, Visit
  <2> QED BY <2>1, <2>2
<1>8. CASE Reclaims
  <2>1. /\ dir' = dir \/ \E left \in {"none", "broken"} : dir' = [dir EXCEPT ![gc.job] = left]
        /\ entry' \subseteq entry /\ (UNCHANGED faults \/ Fault)
    <3>1. \/ UNCHANGED <<dir, entry>> \/ RemoveWorktree(gc.job)
          \/ dir' = [dir EXCEPT ![gc.job] = "none"]
      BY <1>8, Zenon DEF Reclaims
    <3>2. (UNCHANGED faults \/ Fault) /\ entry' \subseteq entry
      BY <1>8 DEF Reclaims, RemoveWorktree
    <3>3. RemoveWorktree(gc.job) =>
             \/ dir' = [dir EXCEPT ![gc.job] = "none"]
             \/ \E left \in {"none", "broken"} : dir' = [dir EXCEPT ![gc.job] = left]
      BY Zenon DEF RemoveWorktree
    <3> QED BY <3>1, <3>2, <3>3, Zenon
  <2>2. dir' \in [Job -> {"none", "clean", "dirty", "broken"}]
    BY <2>1
  <2> QED BY <1>8, <2>1, <2>2 DEF Reclaims
<1>9. CASE RecordGone
  <2>1. \A s \in Owners(gc.job) : s.branch \in BOOLEAN
    BY DEF Owners, Snapshot
  <2>2. \/ UNCHANGED noted
        \/ \E b \in BOOLEAN : noted' = [noted EXCEPT ![gc.job] = [tree |-> FALSE, branch |-> b]]
    BY <1>9, <2>1, Zenon DEF RecordGone
  <2>3. UNCHANGED faults \/ Fault
    BY <1>9, Zenon DEF RecordGone, Smooth, Fails
  <2>4. noted' \in [Job -> [tree: BOOLEAN, branch: BOOLEAN]]
    BY <2>2, NotedTyped DEF Typed, TypeOK
  <2> QED BY <1>9, <2>3, <2>4 DEF RecordGone
<1>10. CASE Prune
  BY <1>10 DEF Prune
<1>11. CASE Crash
  BY <1>11 DEF Crash
<1> QED
  BY <1>1, <1>2, <1>3, <1>4, <1>5, <1>6, <1>7, <1>8, <1>9, <1>10, <1>11 DEF Dispose, Collect

\* One call at a time is made, and goes step by step.
LEMMA CallsStep ==
  ASSUME Typed, Waiting, AtHome, Owned, [Next]_vars
  PROVE  CallsTyped'
<1> USE DEF CallsTyped, AtIt, DeciderStep
<1>1. CallsTyped
  BY DEF Typed, TypeOK
<1>2. CASE UNCHANGED decider
  BY <1>1, <1>2
<1>3. ASSUME NEW d \in Decider, NEW j \in Job, NEW drop \in BOOLEAN, NEW force \in BOOLEAN,
             Begin(d, j, drop, force)
      PROVE  CallsTyped'
  BY <1>1, <1>3 DEF Begin, Called, Unlocked, Deciding, Typed, TypeOK
<1>4. ASSUME NEW d \in Decider, Dispose(d)
      PROVE  CallsTyped'
  <2>1. /\ \A e \in Decider \ {d} : decider'[e] = decider[e] /\ decider[e].at = "idle"
        /\ decider'[d].at # "idle" => decider'[d].job = decider[d].job
        /\ decider[d].job \in Job
    BY <1>1, <1>4, DisposeDoes
  <2>2. \/ \E step \in DeciderStep : Then(d, step)
        \/ Refused(d)
    BY <1>4 DEF Dispose, Reclaim, Reclaimed, Remove, DeleteBranch, Record, Move
  <2>3. decider' \in [Decider -> [at: DeciderStep, job: Job \cup {"none"}, drop: BOOLEAN,
                                  force: BOOLEAN, branch: BOOLEAN]]
    <3>1. AtRest \in [at: DeciderStep, job: Job \cup {"none"}, drop: BOOLEAN, force: BOOLEAN,
                      branch: BOOLEAN]
      BY DEF AtRest
    <3>2. CASE Refused(d)
      BY <1>1, <3>1, <3>2 DEF Refused
    <3>3. CASE \E step \in DeciderStep : Then(d, step)
      BY <1>1, <3>3 DEF Then
    <3> QED BY <2>2, <3>2, <3>3
  <2> QED BY <2>1, <2>3
<1>5. CASE Crash
  BY <1>5 DEF Crash, AtRest
<1> QED
  BY <1>2, <1>3, <1>4, <1>5, Kinds, WorkDoes, HandDoes, CollectDoes DEF vars

\* A collection reads what there is, and goes from step to step.
LEMMA GcStep ==
  ASSUME Typed, Waiting, AtHome, Owned, [Next]_vars
  PROVE  GcTyped'
<1> USE DEF GcTyped, CollectorStep
<1>1. GcTyped
  BY DEF Typed, TypeOK
<1>2. CASE UNCHANGED gc
  BY <1>1, <1>2
<1>3. ASSUME NEW asking \in BOOLEAN, Candidates(asking)
      PROVE  GcTyped'
  BY <1>3 DEF Candidates, Asleep
<1>4. CASE ReadRows
  <2>1. SnapshotOf(Job) \subseteq Snapshot
    BY DEF SnapshotOf, Snapshot, Typed, TypeOK
  <2>2. {j \in Job : stage[j] = "agent"} \subseteq Job
    OBVIOUS
  <2> QED BY <1>1, <1>4, <2>1, <2>2 DEF ReadRows, Collecting
<1>5. CASE AcceptMerged
  <2>1. \A s \in gc.read : [s EXCEPT !.state = "done"] \in Snapshot
    BY <1>1 DEF Snapshot, JobState
  <2>2. \E read \in SUBSET Snapshot : gc' = [gc EXCEPT !.at = "reconcile", !.read = read]
    BY <1>1, <1>5, <2>1, ZenonT(30) DEF AcceptMerged, Merged
  <2> QED BY <1>1, <2>2
<1>6. ASSUME NEW j \in Job, Visit(j)
      PROVE  GcTyped'
  BY <1>1, <1>6 DEF Visit, Collecting
<1>7. CASE Reclaims \/ RecordGone \/ Prune
  <2>1. \E step \in {"reconcile", "record", "report"} :
           gc' = [gc EXCEPT !.at = step] /\ (step = "record" => gc.at = "remove")
    BY <1>7 DEF Reclaims, RecordGone, Prune, GoOn, Collecting
  <2> QED BY <1>1, <2>1
<1>8. CASE Report \/ Crash
  <2>1. gc' = Asleep
    BY <1>8 DEF Report, Crash
  <2> QED BY <2>1 DEF Asleep
<1> QED
  BY <1>2, <1>3, <1>4, <1>5, <1>6, <1>7, <1>8, Kinds, WorkDoes, HandDoes, DisposeDoes
     DEF vars, Begin, decideFrame, Collect

\* Every step keeps to the types.
LEMMA TypedStep ==
  ASSUME IInv, [Next]_vars
  PROVE  Typed'
<1> USE DEF IInv
<1>1. RowsTyped'
  <2>1. CASE UNCHANGED vars
    BY <2>1 DEF vars, rowVars, gitVars, runVars, RowsTyped, Typed, TypeOK
  <2>2. CASE \E d \in Decider, j \in Job, drop, force \in BOOLEAN : Begin(d, j, drop, force)
    BY <2>2 DEF Begin, rowVars, gitVars, decideFrame, RowsTyped, Typed, TypeOK
  <2> QED BY <2>1, <2>2, JobRowsTyped, OtherRowsTyped, Kinds
<1>2. CallsTyped'
  BY CallsStep
<1>3. GcTyped'
  BY GcStep
<1> QED BY <1>1, <1>2, <1>3 DEF RowsTyped, CallsTyped, GcTyped, AtIt, Typed, TypeOK

-----------------------------------------------------------------------------
(* Every step keeps each part of the invariant. *)

\* No step leaves a start or a Run at a Job that is not active.
LEMMA AtHomeStep ==
  ASSUME IInv, [Next]_vars
  PROVE  AtHome'
<1> USE DEF IInv, AtHome
<1>1. ASSUME NEW j \in Job, Produce(j) \/ Cancel(j) \/ Work(j)
      PROVE  AtHome'
  BY <1>1, WorkDoes DEF Same
<1>2. ASSUME NEW d \in Decider, NEW j \in Job, NEW drop \in BOOLEAN, NEW force \in BOOLEAN,
             Begin(d, j, drop, force)
      PROVE  AtHome'
  BY <1>2 DEF Begin, rowVars, gitVars, decideFrame
<1>3. ASSUME NEW d \in Decider, Dispose(d)
      PROVE  AtHome'
  BY <1>3, DisposeDoes DEF Same, Waiting, Typed
<1>4. ASSUME NEW asking \in BOOLEAN, Candidates(asking) \/ Collect
      PROVE  AtHome'
  BY <1>4, CollectDoes
<1>5. ASSUME NEW j \in Job, Handles(j)
      PROVE  AtHome'
  BY <1>5, HandDoes DEF Same
<1>6. CASE Crash
  BY <1>6 DEF Crash
<1>7. CASE UNCHANGED vars
  BY <1>7 DEF vars, rowVars, gitVars, runVars
<1> QED BY <1>1, <1>2, <1>3, <1>4, <1>5, <1>6, <1>7, Kinds

\* A Job somebody is deciding about is left to that call: starts want it pending, and a
\* collection the lock.
LEMMA WaitingStep ==
  ASSUME IInv, [Next]_vars
  PROVE  Waiting'
<1> USE DEF IInv, Waiting, AtIt
<1>1. ASSUME NEW j \in Job, Produce(j) \/ Cancel(j) \/ Work(j)
      PROVE  Waiting'
  BY <1>1, WorkDoes DEF Same, Typed
<1>2. ASSUME NEW d \in Decider, NEW j \in Job, NEW drop \in BOOLEAN, NEW force \in BOOLEAN,
             Begin(d, j, drop, force)
      PROVE  Waiting'
  BY <1>2 DEF Begin, Called, AtHome, Typed, TypeOK, rowVars, gitVars, decideFrame
<1>3. ASSUME NEW d \in Decider, Dispose(d)
      PROVE  Waiting'
  <2>1. \A e \in Decider \ {d} : decider'[e].at = "idle"
    BY <1>3, DisposeDoes DEF Typed, TypeOK
  <2> QED BY <1>3, <2>1, DisposeDoes DEF Typed
<1>4. ASSUME NEW asking \in BOOLEAN, Candidates(asking) \/ Collect
      PROVE  Waiting'
  BY <1>4, CollectDoes DEF Unlocked, Deciding, Typed
<1>5. ASSUME NEW j \in Job, Handles(j)
      PROVE  Waiting'
  BY <1>5, HandDoes DEF Same, Typed
<1>6. CASE Crash
  BY <1>6 DEF Crash, AtRest
<1>7. CASE UNCHANGED vars
  BY <1>7 DEF vars, rowVars, gitVars, runVars
<1> QED BY <1>1, <1>2, <1>3, <1>4, <1>5, <1>6, <1>7, Kinds

\* A branch goes only in a drop, and a drop cut short after that is remembered.
LEMMA NotedStep ==
  ASSUME IInv, [Next]_vars
  PROVE  Noted'
<1> USE DEF IInv, Noted, Typed
<1>1. ASSUME NEW j \in Job, Produce(j) \/ Cancel(j) \/ Work(j)
      PROVE  Noted'
  BY <1>1, WorkDoes DEF Same
<1>2. ASSUME NEW d \in Decider, NEW j \in Job, NEW drop \in BOOLEAN, NEW force \in BOOLEAN,
             Begin(d, j, drop, force)
      PROVE  Noted'
  BY <1>2 DEF Begin, Unlocked, Deciding, rowVars, gitVars, decideFrame
<1>3. ASSUME NEW d \in Decider, Dispose(d)
      PROVE  Noted'
  <2> DEFINE j == decider[d].job
  <2>1. \A e \in Decider \ {d} : decider[e].at = "idle"
    BY <1>3, DisposeDoes DEF TypeOK, AtIt
  <2>2. ASSUME NEW i \in Job \ {j}, noted'[i].branch, branch'[i] = "none"
        PROVE  i \in torn'
    BY <1>3, <2>1, <2>2, DisposeDoes DEF Same
  <2>3. ASSUME noted'[j].branch, branch'[j] = "none"
        PROVE  j \in torn' \/ (decider'[d].at = "record" /\ decider'[d].drop /\ decider'[d].job = j)
    <3>1. CASE noted'[j] # noted[j]
      <4>1. /\ decider[d].at = "record" /\ ~decider[d].drop /\ decider[d].branch
            /\ branch[j] = "none" /\ torn \subseteq torn'
        BY <1>3, <2>3, <3>1, DisposeDoes
      <4> QED BY <4>1 DEF Remembered, AtIt
    <3>2. CASE noted'[j] = noted[j] /\ branch'[j] # branch[j]
      <4>1. decider[d].at = "delete" /\ decider'[d].at = "record"
        BY <1>3, <3>2, DisposeDoes
      <4>2. decider[d].drop /\ decider'[d].drop = decider[d].drop /\ decider'[d].job = j
        BY <1>3, <4>1, DisposeDoes DEF Waiting, AtIt
      <4> QED BY <4>1, <4>2
    <3>3. CASE noted'[j] = noted[j] /\ branch'[j] = branch[j]
      <4>1. j \in torn \/ (decider[d].at = "record" /\ decider[d].drop)
        BY <1>3, <2>1, <2>3, <3>3, DisposeDoes DEF AtIt
      <4>2. /\ torn \subseteq torn'
            /\ decider[d].drop /\ decider[d].at = "record" => j \in torn' \/ ~noted'[j].branch
        BY <1>3, DisposeDoes
      <4> QED BY <2>3, <4>1, <4>2
    <3> QED BY <3>1, <3>2, <3>3
  <2> QED BY <2>2, <2>3
<1>4. ASSUME NEW asking \in BOOLEAN, Candidates(asking) \/ Collect
      PROVE  Noted'
  <2>1. ASSUME NEW i \in Job, RecordGone, i = gc.job, state[i] # "gone", branch[i] = "none",
               \E s \in Owners(i) : s.branch
        PROVE  i \in torn
    BY <2>1 DEF ReadTrue, Over, Found, Unwanted, Owners, RecordGone, Collecting
  <2> QED BY <1>4, <2>1, CollectDoes
<1>5. ASSUME NEW j \in Job, Handles(j)
      PROVE  Noted'
  BY <1>5, HandDoes DEF Same
<1>6. CASE Crash
  <2>1. UNCHANGED <<noted, branch>> /\ torn \subseteq torn'
    BY <1>6 DEF Crash, gitVars
  <2>2. ASSUME NEW d \in Decider, decider[d].at = "record", decider[d].drop
        PROVE  decider[d].job \in torn'
    BY <1>6, <2>2 DEF Crash
  <2> QED BY <2>1, <2>2
<1>7. CASE UNCHANGED vars
  BY <1>7 DEF vars, rowVars, gitVars, runVars
<1> QED BY <1>1, <1>2, <1>3, <1>4, <1>5, <1>6, <1>7, Kinds

\* What a call read of the branch is true until the call itself deletes it.
LEMMA RememberedStep ==
  ASSUME IInv, [Next]_vars
  PROVE  Remembered'
<1> USE DEF IInv, Remembered, AtIt, Typed
<1>1. ASSUME NEW j \in Job, Produce(j) \/ Cancel(j) \/ Work(j)
      PROVE  Remembered'
  BY <1>1, WorkDoes DEF Same
<1>2. ASSUME NEW d \in Decider, NEW j \in Job, NEW drop \in BOOLEAN, NEW force \in BOOLEAN,
             Begin(d, j, drop, force)
      PROVE  Remembered'
  BY <1>2 DEF Begin, Called, Unlocked, Deciding, Noted, TypeOK, rowVars, gitVars, decideFrame
<1>3. ASSUME NEW d \in Decider, Dispose(d)
      PROVE  Remembered'
  <2> DEFINE j == decider[d].job
  <2>1. \A e \in Decider \ {d} : decider'[e].at = "idle"
    BY <1>3, DisposeDoes DEF TypeOK
  <2>2. ASSUME decider'[d].at # "idle", decider'[d].branch, branch'[j] = "none"
        PROVE  j \in torn' \/ (decider'[d].drop /\ decider'[d].at \in {"record", "move"})
    <3>1. /\ decider'[d].drop = decider[d].drop /\ decider[d].branch /\ AtIt(d)
          /\ torn \subseteq torn'
      BY <1>3, <2>2, DisposeDoes
    <3>2. CASE branch'[j] # branch[j]
      BY <1>3, <3>1, <3>2, DisposeDoes DEF Waiting
    <3>3. CASE branch'[j] = branch[j]
      BY <1>3, <2>2, <3>1, <3>3, DisposeDoes
    <3> QED BY <3>2, <3>3
  <2>3. decider'[d].at # "idle" => decider'[d].job = j
    BY <1>3, DisposeDoes
  <2> QED BY <2>1, <2>2, <2>3
<1>4. ASSUME NEW asking \in BOOLEAN, Candidates(asking) \/ Collect
      PROVE  Remembered'
  BY <1>4, CollectDoes
<1>5. ASSUME NEW j \in Job, Handles(j)
      PROVE  Remembered'
  BY <1>5, HandDoes DEF Same
<1>6. CASE Crash
  BY <1>6 DEF Crash, AtRest
<1>7. CASE UNCHANGED vars
  BY <1>7 DEF vars, rowVars, gitVars, runVars
<1> QED BY <1>1, <1>2, <1>3, <1>4, <1>5, <1>6, <1>7, Kinds

\* A Job that was over when a collection read it, or that it moved there, stays over.
LEMMA ReadTrueStep ==
  ASSUME IInv, [Next]_vars
  PROVE  ReadTrue'
<1> USE DEF IInv, ReadTrue, Over, AtIt
<1>0. \A s \in gc.read : s.job \in Job
  BY DEF Typed, TypeOK, Snapshot
<1>1. ASSUME NEW j \in Job, Produce(j) \/ Cancel(j) \/ Work(j)
      PROVE  ReadTrue'
  BY <1>0, <1>1, WorkDoes DEF Same
<1>2. ASSUME NEW d \in Decider, NEW j \in Job, NEW drop \in BOOLEAN, NEW force \in BOOLEAN,
             Begin(d, j, drop, force)
      PROVE  ReadTrue'
  BY <1>0, <1>2 DEF Begin, Called, Typed, TypeOK, rowVars, gitVars, decideFrame
<1>3. ASSUME NEW d \in Decider, Dispose(d)
      PROVE  ReadTrue'
  <2>1. \A s \in gc.read : s.state \in {"done", "cancelled"} => s.job # decider[d].job
    BY <1>3, DisposeDoes
  <2>2. ASSUME NEW i \in Job, i # decider[d].job
        PROVE  state'[i] = state[i] /\ branch'[i] = branch[i]
    BY <1>3, <2>2, DisposeDoes DEF Same
  <2>3. ASSUME NEW e \in Decider, decider'[e].at # "idle"
        PROVE  decider[e].at # "idle" /\ decider'[e].job = decider[e].job
    BY <1>3, <2>3, DisposeDoes
  <2>4. gc' = gc /\ torn \subseteq torn'
    BY <1>3, DisposeDoes
  <2> QED BY <1>0, <2>1, <2>2, <2>3, <2>4
<1>4. ASSUME NEW asking \in BOOLEAN, Candidates(asking) \/ Collect
      PROVE  ReadTrue'
  <2>1. /\ UNCHANGED <<decider, torn, branch>>
        /\ \A j \in Job : state'[j] = state[j] \/ (state[j] = "review" /\ state'[j] = "done")
    BY <1>4, CollectDoes
  <2>2. CASE gc'.read \subseteq gc.read
    BY <1>0, <2>1, <2>2
  <2>3. CASE ReadRows
    <3>1. ASSUME NEW s \in gc'.read
          PROVE  /\ s.job \in Job /\ s.state = state[s.job] /\ s.branch = noted[s.job].branch
                 /\ state'[s.job] = state[s.job]
      BY <2>3, <3>1 DEF ReadRows, SnapshotOf, rowVars, Typed, TypeOK
    <3>2. ASSUME NEW j \in Job, state[j] \in {"done", "cancelled"}
          PROVE  /\ \A d \in Decider : AtIt(d) => decider[d].job # j
                 /\ noted[j].branch /\ branch[j] = "none" => j \in torn
      BY <3>2 DEF Waiting, Noted
    <3> QED BY <2>1, <3>1, <3>2
  <2>4. CASE AcceptMerged
    <3>1. Unlocked
      BY <2>4 DEF AcceptMerged
    <3>2. ASSUME NEW s \in gc'.read, s \notin gc.read
          PROVE  /\ s.job \in Job /\ s.state = "done" /\ state'[s.job] = "done"
                 /\ branch[s.job] # "none"
      BY <1>0, <2>4, <3>2 DEF AcceptMerged, Merged, BranchIsIn, Typed, TypeOK, Snapshot
    <3> QED BY <1>0, <2>1, <3>1, <3>2 DEF Unlocked, Deciding
  <2>5. gc'.read \subseteq gc.read \/ ReadRows \/ AcceptMerged
    <3>1. CASE (\E how \in BOOLEAN : Candidates(how)) \/ Report
      <4>1. Asleep.read = {} /\ \A at, asks, todo :
              [Asleep EXCEPT !.at = at, !.asking = asks, !.todo = todo].read = {}
        BY DEF Asleep
      <4>2. ASSUME NEW how \in BOOLEAN, Candidates(how)
            PROVE  gc'.read = {}
        BY <4>1, <4>2 DEF Candidates
      <4>3. Report => gc'.read = {}
        BY <4>1 DEF Report
      <4> QED BY <3>1, <4>2, <4>3
    <3>2. CASE \E j \in Job : Visit(j)
      BY <3>2 DEF Visit, Typed, TypeOK
    <3>3. CASE Reclaims \/ RecordGone \/ Prune
      <4>1. \E step : gc' = [gc EXCEPT !.at = step]
        BY <3>3 DEF Reclaims, RecordGone, Prune, GoOn
      <4> QED BY <4>1 DEF Typed, TypeOK
    <3> QED BY <1>4, <3>1, <3>2, <3>3 DEF Collect
  <2> QED BY <2>2, <2>3, <2>4, <2>5
<1>5. ASSUME NEW j \in Job, Handles(j)
      PROVE  ReadTrue'
  BY <1>0, <1>5, HandDoes DEF Same
<1>6. CASE Crash
  BY <1>6 DEF Crash, Asleep
<1>7. CASE UNCHANGED vars
  BY <1>7 DEF vars, rowVars, gitVars, runVars
<1> QED BY <1>1, <1>2, <1>3, <1>4, <1>5, <1>6, <1>7, Kinds

\* Only a Job there is has a directory made for it.
LEMMA OwnedStep ==
  ASSUME IInv, [Next]_vars
  PROVE  Owned'
<1> USE DEF IInv, Owned
<1>1. ASSUME NEW j \in Job, Produce(j) \/ Cancel(j) \/ Work(j)
      PROVE  Owned'
  BY <1>1, WorkDoes DEF Same
<1>2. ASSUME NEW d \in Decider, NEW j \in Job, NEW drop \in BOOLEAN, NEW force \in BOOLEAN,
             Begin(d, j, drop, force)
      PROVE  Owned'
  BY <1>2 DEF Begin, rowVars, gitVars, decideFrame
<1>3. ASSUME NEW d \in Decider, Dispose(d)
      PROVE  Owned'
  BY <1>3, DisposeDoes DEF Same, Typed, AtIt
<1>4. ASSUME NEW asking \in BOOLEAN, Candidates(asking) \/ Collect
      PROVE  Owned'
  BY <1>4, CollectDoes
<1>5. ASSUME NEW j \in Job, Handles(j)
      PROVE  Owned'
  BY <1>5, HandDoes DEF Same
<1>6. CASE Crash
  BY <1>6 DEF Crash, gitVars
<1>7. CASE UNCHANGED vars
  BY <1>7 DEF vars, rowVars, gitVars, runVars
<1> QED BY <1>1, <1>2, <1>3, <1>4, <1>5, <1>6, <1>7, Kinds

\* No step brings a row into being but a Job's first, or back.
LEMMA RowsStay ==
  ASSUME IInv, [Next]_vars, NEW i \in Job
  PROVE  /\ state[i] # "none" => state'[i] # "none"
         /\ state[i] = "gone" => state'[i] = "gone"
<1> USE DEF IInv
<1>1. ASSUME NEW j \in Job, Produce(j) \/ Cancel(j) \/ Work(j)
      PROVE  /\ state[i] # "none" => state'[i] # "none"
             /\ state[i] = "gone" => state'[i] = "gone"
  BY <1>1, WorkDoes DEF Same
<1>2. CASE \E d \in Decider, j \in Job, drop, force \in BOOLEAN : Begin(d, j, drop, force)
  BY <1>2 DEF Begin, rowVars
<1>3. ASSUME NEW d \in Decider, Dispose(d)
      PROVE  /\ state[i] # "none" => state'[i] # "none"
             /\ state[i] = "gone" => state'[i] = "gone"
  BY <1>3, DisposeDoes DEF Same
<1>4. CASE \E asking \in BOOLEAN : Candidates(asking) \/ Collect
  BY <1>4, CollectDoes
<1>5. ASSUME NEW j \in Job, Handles(j)
      PROVE  /\ state[i] # "none" => state'[i] # "none"
             /\ state[i] = "gone" => state'[i] = "gone"
  BY <1>5, HandDoes DEF Same
<1>6. CASE Crash
  BY <1>6 DEF Crash
<1>7. CASE UNCHANGED vars
  BY <1>7 DEF vars, rowVars
<1> QED BY <1>1, <1>2, <1>3, <1>4, <1>5, <1>6, <1>7, Kinds

\* The listing comes before the rows are read, so a directory without a row had one.
LEMMA FoundStep ==
  ASSUME IInv, [Next]_vars
  PROVE  Found'
<1> USE DEF Found, Owners, Unwanted
<1>1. gc.todo \subseteq Job /\ (gc.at \in {"remove", "record"} => gc.job \in Job)
  BY DEF IInv, Typed, TypeOK
<1>2. Found
  BY DEF IInv
<1>3. CASE gc' = gc
  BY <1>1, <1>2, <1>3, RowsStay
<1>4. CASE \E asking \in BOOLEAN : Candidates(asking)
  BY <1>4 DEF Candidates, Asleep, IInv, Owned, rowVars
<1>5. CASE ReadRows
  <2>1. gc'.read = SnapshotOf(Job) /\ gc'.todo = gc.todo /\ gc'.at \in {"accept", "report"}
    BY <1>5 DEF ReadRows, IInv, Typed, TypeOK
  <2>2. gc.at = "listed" /\ UNCHANGED state
    BY <1>5 DEF ReadRows, Collecting, rowVars
  <2>3. ASSUME NEW j \in Job, state[j] \notin {"none", "gone"}
        PROVE  \E s \in SnapshotOf(Job) : s.job = j
    <3> DEFINE s == [job |-> j, state |-> state[j], tree |-> noted[j].tree,
                     branch |-> noted[j].branch]
    <3>1. s \in SnapshotOf(Job)
      BY <2>3 DEF SnapshotOf
    <3> QED BY <3>1
  <2> QED BY <1>1, <1>2, <2>1, <2>2, <2>3
<1>6. CASE AcceptMerged
  <2> DEFINE taken == {s \in Merged : state[s.job] = "review"}
  <2>1. gc'.read = (gc.read \ taken) \cup {[s EXCEPT !.state = "done"] : s \in taken}
    BY <1>6 DEF AcceptMerged, IInv, Typed, TypeOK
  <2>2. gc'.todo = gc.todo /\ gc'.at = "reconcile" /\ gc.at = "accept"
    BY <1>6 DEF AcceptMerged, Collecting, IInv, Typed, TypeOK
  <2>3. ASSUME NEW s \in gc.read
        PROVE  \E t \in gc'.read : t.job = s.job
    <3>1. CASE s \notin taken
      BY <2>1, <3>1
    <3>2. CASE s \in taken
      <4>1. [s EXCEPT !.state = "done"].job = s.job
        BY DEF IInv, Typed, TypeOK, Snapshot
      <4> QED BY <2>1, <3>2, <4>1
    <3> QED BY <3>1, <3>2
  <2> QED BY <1>1, <1>2, <2>2, <2>3, RowsStay
<1>7. CASE \E j \in Job : Visit(j)
  BY <1>1, <1>2, <1>7, RowsStay DEF Visit, Collecting, IInv, Typed, TypeOK
<1>8. CASE Reclaims \/ RecordGone \/ Prune
  <2>1. PICK step \in {"reconcile", "record", "report"} :
          gc' = [gc EXCEPT !.at = step] /\ (step = "record" => gc.at = "remove")
    BY <1>8 DEF Reclaims, RecordGone, Prune, GoOn, Collecting
  <2>2. gc'.read = gc.read /\ gc'.todo = gc.todo /\ gc'.job = gc.job /\ gc'.at = step
    BY <2>1 DEF IInv, Typed, TypeOK
  <2>3. gc.at \in {"remove", "record", "reconcile"}
    BY <1>8 DEF Reclaims, RecordGone, Prune, Collecting
  <2> QED BY <1>1, <1>2, <2>1, <2>2, <2>3, RowsStay
<1>9. CASE Report \/ Crash
  BY <1>9 DEF Report, Crash, Asleep
<1>10. CASE (\E j \in Job : Produce(j) \/ Cancel(j) \/ Work(j) \/ Handles(j))
            \/ (\E d \in Decider : Dispose(d)) \/ UNCHANGED vars
            \/ (\E d \in Decider, j \in Job, drop, force \in BOOLEAN : Begin(d, j, drop, force))
  BY <1>3, <1>10, WorkDoes, HandDoes, DisposeDoes DEF vars, Begin, decideFrame, IInv
<1> QED BY <1>4, <1>5, <1>6, <1>7, <1>8, <1>9, <1>10, Kinds DEF Collect

-----------------------------------------------------------------------------
(* The invariant holds, and what follows from it. *)

\* Before anything was queued nothing is in use, noted or read.
LEMMA InitIInv == Init => IInv
<1> SUFFICES ASSUME Init PROVE IInv
  OBVIOUS
<1> USE DEF Init
<1>1. Typed
  BY DisposalAssumption
     DEF Typed, TypeOK, AtIt, AtRest, Asleep, JobState, Stage, DeciderStep, CollectorStep
<1>2. AtHome /\ Waiting /\ Noted /\ Remembered /\ Owned
  BY DEF AtHome, Waiting, Noted, Remembered, Owned, AtIt, AtRest
<1>3. ReadTrue /\ Found
  BY DEF ReadTrue, Found, Asleep
<1> QED BY <1>1, <1>2, <1>3 DEF IInv

\* Every step keeps all of it.
LEMMA StepIInv == IInv /\ [Next]_vars => IInv'
BY TypedStep, AtHomeStep, WaitingStep, NotedStep, RememberedStep, ReadTrueStep, OwnedStep, FoundStep
   DEF IInv

\* Rows, worktrees and calls hold what they may, and only one call at a time is
\* disposing of anything (dispose.go:75-82).
THEOREM DisposalTyped == Spec => []TypeOK
<1>1. IInv => TypeOK
  BY DEF IInv, Typed
<1> QED BY <1>1, InitIInv, StepIInv, PTL DEF Spec

\* The branch of an accepted Job is there, for any number of Jobs and of calls of
\* accept, drop and collection about them at once, wherever one of them fails or the
\* daemon dies - unless a drop of that Job had been cut short earlier
\* (dispose.go:70-151, gc.go:325-372, 411-440).
THEOREM AcceptedBranchStays == Spec => []AcceptedKeepsBranch
<1>1. IInv => AcceptedKeepsBranch
  BY DEF IInv, Typed, Noted, Waiting, AtIt, AcceptedKeepsBranch
<1> QED BY <1>1, InitIInv, StepIInv, PTL DEF Spec

\* No step takes what is not committed without being told to, or what a Job has a use
\* for.
LEMMA StepKeeps ==
  ASSUME IInv, [Next]_vars, NEW j \in Job, dir[j] \notin {"none", "broken"},
         dir'[j] \in {"none", "broken"}, UNCHANGED hands
  PROVE  /\ dir[j] = "dirty" => \E d \in Decider : decider[d].job = j /\ decider[d].force
         /\ \/ \E d \in Decider : decider[d].job = j
            \/ state[j] \in {"done", "cancelled", "gone"}
<1> USE DEF IInv
<1>1. Live(j)
  BY DEF Live, Typed, TypeOK
<1>2. CASE \E i \in Job : Produce(i) \/ Cancel(i) \/ Work(i)
  BY <1>1, <1>2, WorkDoes DEF Same
<1>3. ASSUME NEW d \in Decider, Dispose(d)
      PROVE  decider[d].job = j /\ (dir[j] = "dirty" => decider[d].force)
  <2>1. decider[d].job = j
    BY <1>3, DisposeDoes DEF Same
  <2>2. dir[j] = "dirty" => decider[d].force
    BY <1>3, <2>1
       DEF Dispose, Reclaim, Remove, DeleteBranch, Record, Move, RefusesRemoval, gitVars
  <2> QED BY <2>1, <2>2
<1>4. ASSUME NEW asking \in BOOLEAN, Candidates(asking) \/ Collect
      PROVE  dir[j] # "dirty" /\ state[j] \in {"done", "cancelled", "gone"}
  <2>1. Reclaims /\ j = gc.job
    BY <1>4, CollectDoes
  <2>2. dir[j] # "dirty"
    BY <2>1 DEF Reclaims, RefusesRemoval
  <2>3. gc.at = "remove"
    BY <2>1 DEF Reclaims, Collecting
  <2>4. Owners(gc.job) = {} => state[gc.job] = "gone"
    BY <2>3 DEF Found
  <2>5. ASSUME NEW s \in Owners(j)
        PROVE  state[j] \in {"done", "cancelled", "gone"}
    BY <2>1, <2>3, <2>5 DEF Found, Unwanted, Owners, ReadTrue, Over
  <2> QED BY <2>1, <2>2, <2>4, <2>5
<1>5. CASE \E i \in Job : Handles(i)
  BY <1>5, HandDoes
<1>6. CASE Crash \/ UNCHANGED vars
  BY <1>6 DEF Crash, vars, gitVars
<1>7. CASE \E d \in Decider, i \in Job, drop, force \in BOOLEAN : Begin(d, i, drop, force)
  BY <1>7 DEF Begin, gitVars
<1> QED BY <1>2, <1>3, <1>4, <1>5, <1>6, <1>7, Kinds

\* Whatever starts, Agents and users do between a collection's listing, its reading
\* the rows and its removing - and between a disposal's look and its removing -
\* nothing uncommitted goes unless somebody said --force, and nothing a Job has a use
\* for goes by collection (git.go:191-194, gc.go:212-215, 316-325, 399-411).
THEOREM NothingWantedGoes == Spec => WorkIsKept
<1>1. IInv /\ [Next]_vars =>
        [\A j \in Job : dir[j] = "dirty" /\ dir'[j] \in {"none", "broken"} =>
           \/ hands' # hands
           \/ \E d \in Decider : decider[d].job = j /\ decider[d].force]_vars
  BY StepKeeps
<1>2. IInv /\ [Next]_vars =>
        [\A j \in Job : Live(j) /\ dir'[j] \in {"none", "broken"} =>
           \/ hands' # hands
           \/ \E d \in Decider : decider[d].job = j
           \/ state[j] \in {"done", "cancelled", "gone"}]_vars
  BY StepKeeps DEF Live
<1> QED
  BY <1>1, <1>2, InitIInv, StepIInv, PTL DEF Spec, WorkIsKept, NothingIsLostSilently, InUseIsKept
=============================================================================
