-------------------------- MODULE RunServiceProofs --------------------------
(***************************************************************************)
(* What is proved of RunService for any number of Jobs, Projects and       *)
(* Accounts, any caps, and any number of stops, failed writes and edits.   *)
(* In five parts: the types, one Agent to a Job and what the daemon is     *)
(* told of it; what each step does to the rows, that the places of the     *)
(* queue stay whole and its order is ADR-0025's; that the daemon carries   *)
(* nothing it is not on and no Job is charged for more than it had; that   *)
(* the caps of ADR-0021 bound the Agents really at work; and, of a service *)
(* whose writes all succeed, that rows and Runs always agree.              *)
(***************************************************************************)
EXTENDS RunService, FiniteSetTheorems, TLAPS

-----------------------------------------------------------------------------
(* The queue's positions. *)

\* Where a Job stands is a number: there are finitely many Jobs.
LEMMA RankType ==
  ASSUME NEW place, NEW j
  PROVE  Rank(place, j) \in Nat
<1> DEFINE before == {i \in Job : place[i] \in 1..place[j]}
<1>1. IsFiniteSet(before)
  BY StoreAssumption, FS_Subset
<1> QED BY <1>1, FS_CardinalityType DEF Rank

\* renumber writes a number for every Job (jobs.go:506-540).
LEMMA RenumberType ==
  ASSUME NEW place
  PROVE  Renumber(place) \in [Job -> Nat]
BY RankType DEF Renumber

\* ... and so does putting one Job back at a seat (MoveJob, jobs.go:440-469).
LEMMA InsertType ==
  ASSUME NEW place, NEW j, NEW p \in Nat
  PROVE  Insert(place, j, p) \in [Job -> Nat]
<1> DEFINE others == Renumber([place EXCEPT ![j] = 0])
<1>1. others \in [Job -> Nat]
  BY RenumberType
<1> HIDE DEF others
<1>2. [i \in Job |-> IF i = j THEN p
                     ELSE IF others[i] >= p THEN others[i] + 1
                     ELSE others[i]] \in [Job -> Nat]
  BY <1>1
<1> QED BY <1>2 DEF Insert, others

-----------------------------------------------------------------------------
(* Every statement on the rows leaves them well formed. *)

\* A Job may hold at least one attempt (maxAttempts, jobs.go:564).
LEMMA MaxAttemptsType == MaxAttempts \in Nat /\ MaxAttempts > 0
BY StoreAssumption

\* Spending an attempt never takes a Job below zero (spendAttempt, runs.go:69-92).
LEMMA SpendType ==
  ASSUME StoreTypeOK, NEW js, SpendAttempts(js)
  PROVE  ttl' \in [Job -> 0..MaxAttempts]
BY MaxAttemptsType DEF StoreTypeOK, SpendAttempts

\* Adding a Job keeps the rows well formed (UpsertJob, jobs.go:177-224).
LEMMA UpsertType ==
  ASSUME StoreTypeOK, NEW j \in Job, NEW n \in 1..MaxAttempts, NEW planned,
         UpsertJob(j, n, planned)
  PROVE  StoreTypeOK'
<1>1. Cardinality(Job) \in Nat
  BY StoreAssumption, FS_CardinalityType
<1>2. position' \in [Job -> Nat]
  BY <1>1 DEF StoreTypeOK, UpsertJob
<1> QED BY <1>2, MaxAttemptsType DEF StoreTypeOK, UpsertJob, JobState, runVars

\* So does a conditional move from one state to another (MoveJobState).
LEMMA MoveStateType ==
  ASSUME StoreTypeOK, NEW j \in Job, NEW from, NEW to \in JobState,
         MoveJobState(j, from, to)
  PROVE  StoreTypeOK'
BY DEF StoreTypeOK, MoveJobState, runVars

\* So does taking a Job out of the queue, which renumbers the rest (DequeueJob).
LEMMA DequeueType ==
  ASSUME StoreTypeOK, NEW j \in Job, NEW from, NEW to \in JobState,
         DequeueJob(j, from, to)
  PROVE  StoreTypeOK'
<1>1. position' \in [Job -> Nat]
  BY RenumberType DEF DequeueJob
<1> QED BY <1>1 DEF StoreTypeOK, DequeueJob, runVars

\* So does reordering, whatever seat is asked for (MoveJob).
LEMMA MoveJobType ==
  ASSUME StoreTypeOK, NEW j \in Job, NEW p \in Nat, NEW from, MoveJob(j, p, from)
  PROVE  StoreTypeOK'
<1> DEFINE last == Cardinality({i \in Job : Queued(i)})
<1>1. last \in Nat
  BY StoreAssumption, FS_Subset, FS_CardinalityType
<1>2. position' \in [Job -> Nat]
  BY <1>1, InsertType DEF MoveJob
<1> QED BY <1>2 DEF StoreTypeOK, MoveJob, runVars

\* So does putting a Job back (ReturnJobToQueue).
LEMMA ReturnType ==
  ASSUME StoreTypeOK, NEW j \in Job, ReturnJobToQueue(j)
  PROVE  StoreTypeOK'
BY DEF StoreTypeOK, ReturnJobToQueue, JobState, runVars

\* Extending a Job adds to what it has and stops at what the column can hold
\* (ExtendJob, jobs.go:564-595).
LEMMA ExtendType ==
  ASSUME StoreTypeOK, NEW j \in Job, NEW add \in Nat, ExtendJob(j, add)
  PROVE  StoreTypeOK' /\ Topped(j, add) \in ttl[j]..MaxAttempts
<1>1. ttl[j] \in 0..MaxAttempts
  BY DEF StoreTypeOK
<1>2. Topped(j, add) \in ttl[j]..MaxAttempts
  BY <1>1, MaxAttemptsType DEF Topped
<1>3. ttl' \in [Job -> 0..MaxAttempts]
  BY <1>1, <1>2, MaxAttemptsType DEF StoreTypeOK, ExtendJob
<1>4. state' \in [Job -> JobState]
  BY DEF StoreTypeOK, ExtendJob, JobState
<1> QED BY <1>2, <1>3, <1>4 DEF StoreTypeOK, ExtendJob, runVars

\* Removing a Project takes its rows and renumbers (RemoveProject).
LEMMA RemoveProjectType ==
  ASSUME StoreTypeOK, NEW p, RemoveProject(p)
  PROVE  StoreTypeOK'
<1>1. position' \in [Job -> Nat]
  BY RenumberType DEF RemoveProject
<1> QED BY <1>1 DEF StoreTypeOK, RemoveProject, JobState, Outcome

\* Opening a Run takes a row there is (StartRun).
LEMMA StartRunType ==
  ASSUME StoreTypeOK, NEW r, NEW j \in Job, StartRun(r, j)
  PROVE  StoreTypeOK' /\ r \in RunId
BY DEF StoreTypeOK, StartRun, NextRun, Outcome, jobVars

\* Ending a Run writes an outcome and spends within bounds (FinishRun).
LEMMA FinishRunType ==
  ASSUME StoreTypeOK, NEW r \in RunId, NEW how \in Outcome, FinishRun(r, how)
  PROVE  StoreTypeOK'
<1>1. ttl' \in [Job -> 0..MaxAttempts]
  BY SpendType DEF FinishRun
<1> QED BY <1>1 DEF StoreTypeOK, FinishRun

\* Amending an end writes an outcome (FailRun).
LEMMA FailRunType ==
  ASSUME StoreTypeOK, NEW r \in RunId, FailRun(r)
  PROVE  StoreTypeOK'
BY DEF StoreTypeOK, FailRun, Outcome, jobVars

\* Ending what an earlier daemon left open does as well (InterruptRunsInProgress).
LEMMA InterruptType ==
  ASSUME StoreTypeOK, InterruptRunsInProgress
  PROVE  StoreTypeOK'
<1>1. ttl' \in [Job -> 0..MaxAttempts]
  BY SpendType DEF InterruptRunsInProgress
<1> QED BY <1>1 DEF StoreTypeOK, InterruptRunsInProgress, Outcome

\* A step that touches no row leaves them well formed.
LEMMA StoreUnchanged ==
  ASSUME StoreTypeOK, UNCHANGED storeVars
  PROVE  StoreTypeOK'
BY DEF StoreTypeOK, storeVars, jobVars, runVars

-----------------------------------------------------------------------------
(* Type correctness. *)

\* What a step of a start does to it.
LEMMA StartSteps ==
  ASSUME TypeOK
  PROVE  /\ Over => start' \in StartType
         /\ \A step \in StartStep : Goto(step) => start' \in StartType
BY DEF TypeOK, Over, Idle, Goto, StartType, StartStep

\* What a step of a goroutine does to it.
LEMMA WorkSteps ==
  ASSUME TypeOK, NEW r \in RunId
  PROVE  \A step \in RunStep : Advance(r, step) => work' \in [RunId -> WorkType]
BY DEF TypeOK, Advance, WorkType, RunStep

\* However a step fails, no more fails than the bound allows.
LEMMA FaultType ==
  ASSUME TypeOK
  PROVE  /\ Smooth => faults' \in 0..MaxFaults
         /\ Fault => faults' \in 0..MaxFaults
         /\ \A found : Fails(found) => faults' \in 0..MaxFaults
BY ServiceAssumption DEF TypeOK, Smooth, Fault, Fails

\* Blocking a Job, or failing to, keeps the rows well formed (abandon, moveOn).
LEMMA BlockType ==
  ASSUME TypeOK, NEW j \in Job
  PROVE  Block(j) \/ CannotDequeue(j) => StoreTypeOK' /\ faults' \in 0..MaxFaults
<1>1. Block(j) => StoreTypeOK' /\ faults' \in 0..MaxFaults
  BY DequeueType, FaultType DEF TypeOK, Block, JobState
<1>2. CannotDequeue(j) => StoreTypeOK' /\ faults' \in 0..MaxFaults
  BY StoreUnchanged, FaultType DEF TypeOK, CannotDequeue
<1> QED BY <1>1, <1>2

\* A daemon that was never started has well formed rows: none.
THEOREM InitTypeOK == Init => TypeOK
BY StoreAssumption, ServiceAssumption
   DEF Init, StoreInit, TypeOK, StoreTypeOK, Daemon, Idle, Off, StartType, WorkType,
       StartStep, RunStep, JobState, Outcome, Ended, RunId

\* What a start and a goroutine are attached to: Jobs and Runs there are.
Attached ==
  /\ ~At("idle") /\ ~At("exhaust") => start.job \in Job
  /\ At("launch") \/ At("abandonRun") =>
       /\ start.run \in RunId
       /\ outcome[start.run] # "unused" /\ runJob[start.run] = start.job
       /\ WorkAt(start.run, "off")
  /\ \A r \in RunId : ~WorkAt(r, "off") => outcome[r] # "unused" /\ runJob[r] \in Job

\* A daemon that is not serving has no start and no goroutine; one that refuses
\* starts has no start.
Quiet ==
  /\ Resting => At("idle") /\ \A r \in RunId : WorkAt(r, "off")
  /\ daemon = "refusing" => At("idle")

\* No Job listed as out of attempts is being run.
Listed == At("exhaust") => \A j \in start.list : state[j] # "active"

\* The start has a Job it has neither blocked nor let go of.
Claimed == start.at \in {"carry", "tree", "note", "prepare", "open", "launch"}

\* Nobody but the goroutine moves on the Job it works on, and nobody but the
\* start the Job it prepares.
Taken ==
  /\ \A r \in RunId : Working(r) => state[runJob[r]] \in {"active", "gone"}
  /\ Claimed => state[start.job] \in {"active", "gone"}

IInv == TypeOK /\ Attached /\ Quiet /\ Listed /\ Taken /\ OneRunPerJob

\* Every step keeps the types, given what starts and goroutines are attached to.
LEMMA TypeStep ==
  ASSUME TypeOK, Attached, [Next]_vars
  PROVE  TypeOK'
<1> USE DEF TypeOK
<1>1. ASSUME NEW j \in Job, NEW n \in Grants, AddJob(j, n)
      PROVE  TypeOK'
  <2>1. n \in 1..MaxAttempts /\ n \in Nat
    BY ServiceAssumption, MaxAttemptsType
  <2>2. StoreTypeOK'
    BY <1>1, <2>1, UpsertType DEF AddJob
  <2> QED BY <1>1, <2>1, <2>2 DEF AddJob, daemonVars
<1>2. ASSUME NEW j \in Job, Cancel(j)
      PROVE  TypeOK'
  BY <1>2, DequeueType DEF Cancel, daemonVars, envVars, JobState
<1>3. ASSUME NEW j \in Job, NEW n \in Grants, Extend(j, n)
      PROVE  TypeOK'
  <2>1. n \in Nat
    BY ServiceAssumption, MaxAttemptsType
  <2>2. StoreTypeOK' /\ Topped(j, n) \in ttl[j]..MaxAttempts
    BY <1>3, <2>1, ExtendType DEF Extend
  <2>3. ttl[j] \in Nat
    BY MaxAttemptsType DEF StoreTypeOK
  <2> QED BY <1>3, <2>2, <2>3, MaxAttemptsType DEF Extend, daemonVars
<1>4. ASSUME NEW j \in Job, NEW p \in 1..Cardinality(Job), Reorder(j, p)
      PROVE  TypeOK'
  <2>1. p \in Nat
    BY StoreAssumption, FS_CardinalityType
  <2> QED BY <1>4, <2>1, MoveJobType DEF Reorder, daemonVars, envVars
<1>5. ASSUME NEW p \in Project, Remove(p)
      PROVE  TypeOK'
  BY <1>5, RemoveProjectType DEF Remove, daemonVars, envVars
<1>6. ASSUME NEW p \in Project, NEW a \in Account \cup {NoAccount}, EditConfig(p, a)
      PROVE  TypeOK'
  BY <1>6, StoreUnchanged, ServiceAssumption DEF EditConfig, daemonVars
<1>7. CASE BeginStart
  BY <1>7, StoreUnchanged DEF BeginStart, Idle, StartType, StartStep, startFrame, ListQueue
<1>8. ASSUME NEW j \in Job, Exhaust(j)
      PROVE  TypeOK'
  <2>1. StoreTypeOK'
    BY <1>8, ReturnType, StoreUnchanged DEF Exhaust
  <2>2. start' \in StartType
    BY <1>8, StartSteps DEF Exhaust, StartType
  <2> QED BY <1>8, <2>1, <2>2 DEF Exhaust, startFrame
<1>9. CASE Scan
  <2>1. start' \in StartType
    BY <1>9, StartSteps DEF Scan, StartType, StartStep, ListQueue
  <2> QED BY <1>9, <2>1, StoreUnchanged DEF Scan, startFrame
<1>10. CASE Refuse
  BY <1>10, StoreUnchanged, StartSteps, FaultType DEF Refuse, startFrame
<1>11. CASE Claim
  <2>1. start.job \in Job
    BY <1>11 DEF Claim, Attached, At
  <2>2. StoreTypeOK'
    BY <1>11, <2>1, MoveStateType, StoreUnchanged DEF Claim, JobState
  <2>3. AccountFor(start.job) \in Account \cup {NoAccount}
    BY <2>1, StoreAssumption DEF AccountFor, StoreTypeOK
  <2>4. start' \in StartType
    BY <1>11, <2>3, StartSteps DEF Claim, StartType, StartStep
  <2> QED BY <1>11, <2>2, <2>4 DEF Claim, startFrame
<1>12. CASE Carry
  <2>1. start.job \in Job
    BY <1>12 DEF Carry, Attached, At
  <2>2. start' \in StartType
    BY <1>12, StartSteps DEF Carry, StartStep
  <2> QED BY <1>12, <2>1, <2>2, StoreUnchanged DEF Carry, startFrame
<1>13. CASE AddWorktree
  <2>1. start.job \in Job
    BY <1>13 DEF AddWorktree, Attached, At
  <2>2. StoreTypeOK' /\ faults' \in 0..MaxFaults
    BY <1>13, <2>1, BlockType, FaultType, StoreUnchanged DEF AddWorktree
  <2>3. start' \in StartType
    BY <1>13, StartSteps DEF AddWorktree, StartStep
  <2> QED BY <1>13, <2>1, <2>2, <2>3 DEF AddWorktree, startFrame
<1>14. CASE RecordWorkspace
  <2>1. StoreTypeOK'
    BY <1>14, StoreUnchanged DEF RecordWorkspace, SetJobWorkspace, StoreTypeOK, runVars
  <2>2. start' \in StartType
    BY <1>14, StartSteps DEF RecordWorkspace, StartStep
  <2>3. faults' \in 0..MaxFaults
    BY <1>14, FaultType DEF RecordWorkspace
  <2> QED BY <1>14, <2>1, <2>2, <2>3 DEF RecordWorkspace, startFrame
<1>15. CASE Prepare
  <2>1. start.job \in Job
    BY <1>15 DEF Prepare, Attached, At
  <2>2. StoreTypeOK' /\ faults' \in 0..MaxFaults
    BY <1>15, <2>1, BlockType, FaultType, StoreUnchanged DEF Prepare
  <2>3. start' \in StartType
    BY <1>15, StartSteps DEF Prepare, StartStep
  <2> QED BY <1>15, <2>2, <2>3 DEF Prepare, startFrame
<1>16. CASE OpenRun
  <2>1. start.job \in Job
    BY <1>16 DEF OpenRun, Attached, At
  <2>2. StoreTypeOK' /\ faults' \in 0..MaxFaults
    BY <1>16, <2>1, StartRunType, FaultType, StoreUnchanged DEF OpenRun
  <2>3. start' \in StartType
    BY <1>16, StartSteps DEF OpenRun, StartType, StartStep
  <2> QED BY <1>16, <2>2, <2>3 DEF OpenRun, startFrame
<1>17. CASE Launch
  <2>1. start.job \in Job /\ start.run \in RunId
    BY <1>17 DEF Launch, Attached, At
  <2>2. start.acct \in Account \cup {NoAccount}
    BY DEF StartType
  <2>3. StoreTypeOK'
    BY <1>17, <2>1, <2>2, StoreUnchanged DEF Launch, SetJobAccount, StoreTypeOK, runVars
  <2>4. start' \in StartType
    BY <1>17, StartSteps DEF Launch, StartStep
  <2>5. work' \in [RunId -> WorkType]
    <3> DEFINE begun == [Off EXCEPT !.at = "agent", !.acct = start.acct,
                                    !.phase = IF plan[start.job] = "wanted" THEN "plan"
                                                                            ELSE "execute"]
    <3>1. begun \in WorkType
      BY <2>2 DEF Off, WorkType, RunStep, Outcome
    <3>2. work' = work \/ work' = [work EXCEPT ![start.run] = begun]
      BY <1>17 DEF Launch
    <3> QED BY <3>1, <3>2
  <2>6. faults' \in 0..MaxFaults
    BY <1>17, FaultType DEF Launch
  <2> QED BY <1>17, <2>3, <2>4, <2>5, <2>6 DEF Launch
<1>18. CASE AbandonRun
  <2>1. start.run \in RunId
    BY <1>18 DEF AbandonRun, Attached, At
  <2>2. StoreTypeOK' /\ faults' \in 0..MaxFaults
    BY <1>18, <2>1, FinishRunType, FaultType, StoreUnchanged DEF AbandonRun, Outcome
  <2>3. start' \in StartType
    BY <1>18, StartSteps DEF AbandonRun, StartStep
  <2> QED BY <1>18, <2>2, <2>3 DEF AbandonRun, startFrame
<1>19. CASE AbandonJob
  <2>1. start.job \in Job
    BY <1>19 DEF AbandonJob, Attached, At
  <2>2. StoreTypeOK' /\ faults' \in 0..MaxFaults
    BY <1>19, <2>1, BlockType DEF AbandonJob
  <2>3. start' \in StartType
    BY <1>19, StartSteps DEF AbandonJob, StartStep
  <2> QED BY <1>19, <2>2, <2>3 DEF AbandonJob, startFrame
<1>20. CASE Uncarry
  <2>1. start' \in StartType
    BY <1>20, StartSteps DEF Uncarry, StartStep
  <2> QED BY <1>20, <2>1, StoreUnchanged DEF Uncarry, startFrame
<1>21. CASE Release
  <2>1. start.job \in Job
    BY <1>21 DEF Release, Attached, At
  <2>2. StoreTypeOK' /\ faults' \in 0..MaxFaults
    BY <1>21, <2>1, MoveStateType, FaultType, StoreUnchanged DEF Release, JobState
  <2> QED BY <1>21, <2>2, StartSteps DEF Release, startFrame
<1>22. ASSUME NEW r \in RunId, CarryOut(r)
       PROVE  TypeOK'
  <2> DEFINE j == runJob[r]
  <2>0. ~WorkAt(r, "off")
    BY <1>22 DEF CarryOut, AgentEnds, Verify, RecordPlan, Finish, MoveOn, Amend, Drop, WorkAt
  <2>1. j \in Job
    BY <2>0 DEF Attached
  <2>2. work[r] \in WorkType
    BY DEF WorkType
  <2>3. ASSUME NEW how \in Ended, AgentEnds(r, how)
        PROVE  TypeOK'
    <3>0. AfterAgent(r, how) \in RunStep
      BY DEF AfterAgent, RunStep
    <3>1. work' \in [RunId -> WorkType]
      <4>1. PICK step \in RunStep : work' = [work EXCEPT ![r].how = how, ![r].at = step]
        BY <2>3, <3>0 DEF AgentEnds
      <4>2. work \in [RunId -> WorkType]
        OBVIOUS
      <4> HIDE DEF TypeOK
      <4> QED BY <4>1, <4>2, ZenonT(30) DEF WorkType
    <3> QED BY <2>3, <3>1, StoreUnchanged DEF AgentEnds, workFrame
  <2>4. CASE Verify(r)
    <3>1. work' \in [RunId -> WorkType]
      BY <2>4 DEF Verify, WorkType, RunStep, Ended
    <3> QED BY <2>4, <3>1, StoreUnchanged DEF Verify, workFrame
  <2>5. CASE RecordPlan(r)
    <3>1. work' \in [RunId -> WorkType]
      BY <2>5, WorkSteps DEF RecordPlan, WorkType, RunStep, Ended
    <3>2. StoreTypeOK'
      BY <2>5, StoreUnchanged DEF RecordPlan, SetJobPlan, StoreTypeOK, runVars
    <3> QED BY <2>5, <3>1, <3>2 DEF RecordPlan, workFrame
  <2>6. CASE Finish(r)
    <3>1. StoreTypeOK' /\ faults' \in 0..MaxFaults
      BY <2>6, <2>2, FinishRunType, FaultType, StoreUnchanged
         DEF Finish, WorkType, Ended, Outcome
    <3> QED BY <2>6, <3>1, WorkSteps DEF Finish, workFrame, RunStep
  <2>7. CASE MoveOn(r)
    <3>1. Settled(r) \in JobState
      BY DEF Settled, JobState
    <3>2. StoreTypeOK' /\ faults' \in 0..MaxFaults
      BY <2>7, <2>1, <3>1, ReturnType, DequeueType, BlockType, FaultType, StoreUnchanged
         DEF MoveOn
    <3> QED BY <2>7, <3>2, WorkSteps DEF MoveOn, workFrame, RunStep
  <2>8. CASE Amend(r)
    <3>1. StoreTypeOK' /\ faults' \in 0..MaxFaults
      BY <2>8, FailRunType, FaultType, StoreUnchanged DEF Amend
    <3> QED BY <2>8, <3>1, WorkSteps DEF Amend, workFrame, RunStep
  <2>9. CASE Drop(r)
    <3>1. work' \in [RunId -> WorkType]
      BY <2>9 DEF Drop, Off, WorkType, RunStep, Outcome
    <3> QED BY <2>9, <3>1, StoreUnchanged DEF Drop, workFrame
  <2> QED BY <1>22, <2>3, <2>4, <2>5, <2>6, <2>7, <2>8, <2>9 DEF CarryOut
<1>23. CASE Boot
  BY <1>23, InterruptType DEF Boot, lifeFrame, Daemon
<1>24. ASSUME NEW j \in Job, RequeueLeftOver(j)
       PROVE  TypeOK'
  <2>1. StoreTypeOK' /\ faults' \in 0..MaxFaults
    BY <1>24, ReturnType, FaultType, StoreUnchanged DEF RequeueLeftOver
  <2> QED BY <1>24, <2>1 DEF RequeueLeftOver
<1>25. CASE Serve
  BY <1>25, StoreUnchanged DEF Serve, lifeFrame, Daemon
<1>26. CASE Stop \/ Close
  BY <1>26, StoreUnchanged, ServiceAssumption DEF Stop, Close, lifeFrame, Daemon
<1>27. CASE RefuseStarts
  BY <1>27, StoreUnchanged DEF RefuseStarts, lifeFrame, Daemon
<1>28. CASE Exit
  BY <1>28, StoreUnchanged DEF Exit, lifeFrame, Daemon
<1>29. CASE Crash
  <2>1. work' \in [RunId -> WorkType] /\ start' \in StartType
    BY <1>29 DEF Crash, Off, Idle, WorkType, RunStep, Outcome, StartType, StartStep
  <2> QED BY <1>29, <2>1, StoreUnchanged, ServiceAssumption DEF Crash, lifeFrame, Daemon
<1>30. CASE UNCHANGED vars
  BY <1>30, StoreUnchanged DEF vars, daemonVars, envVars
<1> QED
  BY <1>1, <1>2, <1>3, <1>4, <1>5, <1>6, <1>7, <1>8, <1>9, <1>10, <1>11, <1>12, <1>13,
     <1>14, <1>15, <1>16, <1>17, <1>18, <1>19, <1>20, <1>21, <1>22, <1>23, <1>24, <1>25,
     <1>26, <1>27, <1>28, <1>29, <1>30
     DEF Next, User, Starting, Recover

-----------------------------------------------------------------------------
(* What a start and a goroutine are attached to stays there. *)

\* A start and a goroutine are only ever attached to rows that are there.
LEMMA AttachedStep ==
  ASSUME TypeOK, Attached, [Next]_vars
  PROVE  Attached'
<1> USE DEF TypeOK, StoreTypeOK, At, WorkAt
<1>1. CASE User
  <2>1. /\ UNCHANGED <<start, work, runJob>>
        /\ \A r \in RunId : outcome[r] # "unused" => outcome'[r] # "unused"
    BY <1>1
       DEF User, AddJob, Cancel, Extend, Reorder, Remove, EditConfig, daemonVars, storeVars,
           runVars, UpsertJob, DequeueJob, ExtendJob, MoveJob, RemoveProject
  <2> QED BY <2>1 DEF Attached
<1>2. CASE BeginStart
  BY <1>2 DEF BeginStart, Idle, Attached, startFrame, storeVars, runVars
<1>3. ASSUME NEW j \in Job, Exhaust(j)
      PROVE  Attached'
  <2>1. UNCHANGED <<work, runVars>>
    BY <1>3 DEF Exhaust, ReturnJobToQueue, storeVars, startFrame
  <2>2. start'.at \in {"exhaust", "idle"}
    BY <1>3 DEF Exhaust, Over, Idle, StartType
  <2> QED BY <2>1, <2>2 DEF Attached, runVars
<1>4. CASE Scan
  <2>1. UNCHANGED <<work, runVars>>
    BY <1>4 DEF Scan, startFrame, storeVars
  <2>2. start'.at = "idle" \/ (start'.at = "check" /\ start'.job \in Job)
    <3>1. Over => start'.at = "idle"
      BY DEF Over, Idle
    <3>2. ASSUME NEW j \in Job, start' = [start EXCEPT !.at = "check", !.job = j]
          PROVE  start'.at = "check" /\ start'.job \in Job
      BY <3>2 DEF StartType
    <3>3. Over \/ \E j \in Job : start' = [start EXCEPT !.at = "check", !.job = j]
      BY <1>4 DEF Scan, ListQueue
    <3> QED BY <3>1, <3>2, <3>3
  <2> QED BY <2>1, <2>2 DEF Attached, runVars
<1>5. CASE Refuse
  BY <1>5 DEF Refuse, Over, Idle, Attached, startFrame, storeVars, runVars
<1>6. CASE Claim
  <2>1. UNCHANGED <<work, runVars>>
    BY <1>6 DEF Claim, MoveJobState, startFrame, storeVars
  <2>2. start'.at = "idle" \/ (start'.at = "carry" /\ start'.job = start.job)
    <3>1. Over => start'.at = "idle"
      BY DEF Over, Idle
    <3> DEFINE acct == AccountFor(start.job)
    <3>2. Over \/ start' = [start EXCEPT !.at = "carry", !.acct = acct]
      BY <1>6 DEF Claim
    <3> HIDE DEF acct
    <3> QED BY <3>1, <3>2 DEF StartType
  <2>3. start.job \in Job
    BY <1>6 DEF Claim, Attached
  <2> QED BY <2>1, <2>2, <2>3 DEF Attached, runVars
<1>7. CASE Carry \/ AddWorktree \/ RecordWorkspace \/ Prepare \/ Uncarry
  <2>1. UNCHANGED <<work, runVars>>
    BY <1>7
       DEF Carry, AddWorktree, RecordWorkspace, Prepare, Uncarry, startFrame, storeVars,
           Block, DequeueJob, CannotDequeue
  <2>2. /\ start.job \in Job
        /\ start'.at \notin {"launch", "abandonRun"}
        /\ start'.job = start.job
    BY <1>7
       DEF Carry, AddWorktree, RecordWorkspace, Prepare, Uncarry, Goto, Attached, StartType
  <2> QED BY <2>1, <2>2 DEF Attached, runVars
<1>8. CASE OpenRun
  <2>1. start.job \in Job
    BY <1>8 DEF OpenRun, Attached
  <2>2. CASE Goto("uncarry") /\ UNCHANGED storeVars
    BY <1>8, <2>1, <2>2 DEF OpenRun, Goto, StartType, startFrame, storeVars, runVars, Attached
  <2>3. ASSUME NEW r \in RunId, StartRun(r, start.job),
               start' = [start EXCEPT !.at = "launch", !.run = r]
        PROVE  Attached'
    <3>1. outcome[r] = "unused"
      BY <2>3 DEF StartRun, NextRun
    <3>2. UNCHANGED work
      BY <1>8 DEF OpenRun, startFrame
    <3>3. start'.at = "launch" /\ start'.run = r /\ start'.job = start.job
      BY <2>3 DEF StartType
    <3>4. runJob'[r] = start.job /\ outcome'[r] = "open"
      BY <2>3 DEF StartRun
    <3>5. \A q \in RunId \ {r} : runJob'[q] = runJob[q] /\ outcome'[q] = outcome[q]
      BY <2>3 DEF StartRun
    <3> QED BY <2>1, <3>1, <3>2, <3>3, <3>4, <3>5 DEF Attached
  <2> QED BY <1>8, <2>2, <2>3 DEF OpenRun
<1>9. CASE Launch
  <2>1. /\ start.job \in Job /\ start.run \in RunId
        /\ outcome[start.run] # "unused" /\ runJob[start.run] = start.job
        /\ work[start.run].at = "off"
    BY <1>9 DEF Launch, Attached
  <2>2. UNCHANGED runVars
    BY <1>9 DEF Launch, storeVars
  <2>3. CASE Goto("abandonRun") /\ UNCHANGED work
    BY <2>1, <2>2, <2>3 DEF Goto, StartType, runVars, Attached
  <2>4. CASE Over /\ \A q \in RunId \ {start.run} : work'[q] = work[q]
    BY <2>1, <2>2, <2>4 DEF Over, Idle, runVars, Attached
  <2> QED BY <1>9, <2>3, <2>4 DEF Launch
<1>10. CASE AbandonRun
  <2>1. start.job \in Job /\ start.run \in RunId
    BY <1>10 DEF AbandonRun, Attached
  <2>2. UNCHANGED <<work, runJob>>
    BY <1>10 DEF AbandonRun, startFrame, FinishRun, storeVars, runVars
  <2>3. \A r \in RunId : outcome[r] # "unused" => outcome'[r] # "unused"
    BY <1>10 DEF AbandonRun, FinishRun, storeVars, runVars
  <2>4. start'.at = "abandonJob" /\ start'.job = start.job
    BY <1>10 DEF AbandonRun, Goto, StartType
  <2> QED BY <2>1, <2>2, <2>3, <2>4 DEF Attached
<1>11. CASE AbandonJob
  BY <1>11 DEF AbandonJob, Attached, Goto, StartType, startFrame, storeVars, runVars, Block,
               DequeueJob, CannotDequeue
<1>12. CASE Release
  BY <1>12 DEF Release, Attached, Over, Idle, startFrame, storeVars, runVars, MoveJobState
<1>13. ASSUME NEW r \in RunId, CarryOut(r)
       PROVE  Attached'
  <2>1. ~WorkAt(r, "off")
    BY <1>13 DEF CarryOut, AgentEnds, Verify, RecordPlan, Finish, MoveOn, Amend, Drop
  <2>2. UNCHANGED <<start, runJob>>
    BY <1>13
       DEF CarryOut, AgentEnds, Verify, RecordPlan, Finish, MoveOn, Amend, Drop, workFrame,
           storeVars, runVars, FinishRun, FailRun, ReturnJobToQueue, DequeueJob, CannotDequeue
  <2>3. \A q \in RunId \ {r} : work'[q] = work[q]
    BY <1>13
       DEF CarryOut, AgentEnds, Verify, RecordPlan, Finish, MoveOn, Amend, Drop, Advance
  <2>4. work[r].how # "unused"
    BY DEF WorkType, Ended
  <2>5. \A q \in RunId : outcome[q] # "unused" => outcome'[q] # "unused"
    BY <1>13, <2>4
       DEF CarryOut, AgentEnds, Verify, RecordPlan, Finish, MoveOn, Amend, Drop,
           storeVars, runVars, FinishRun, FailRun, ReturnJobToQueue, DequeueJob, CannotDequeue
  <2>6. At("launch") \/ At("abandonRun") => start.run # r
    BY <2>1 DEF Attached
  <2> QED BY <2>1, <2>2, <2>3, <2>5, <2>6 DEF Attached
<1>14. CASE Recover
  <2>1. UNCHANGED <<start, work, runJob>>
    BY <1>14 DEF Recover, Boot, RequeueLeftOver, Serve, InterruptRunsInProgress,
                 ReturnJobToQueue, storeVars, runVars
  <2>2. \A r \in RunId : outcome[r] # "unused" => outcome'[r] # "unused"
    BY <1>14 DEF Recover, Boot, RequeueLeftOver, Serve, InterruptRunsInProgress,
                 ReturnJobToQueue, storeVars, runVars
  <2> QED BY <2>1, <2>2 DEF Attached
<1>15. CASE Stop \/ Close \/ RefuseStarts \/ Exit
  BY <1>15 DEF Stop, Close, RefuseStarts, Exit, Attached, storeVars, runVars
<1>16. CASE Crash
  BY <1>16 DEF Crash, Off, Idle, Attached, storeVars, runVars
<1>17. CASE UNCHANGED vars
  BY <1>17 DEF vars, daemonVars, storeVars, runVars, Attached
<1> QED
  BY <1>1, <1>2, <1>3, <1>4, <1>5, <1>6, <1>7, <1>8, <1>9, <1>10, <1>11, <1>12, <1>13,
     <1>14, <1>15, <1>16, <1>17
     DEF Next, Starting

-----------------------------------------------------------------------------
(* The daemon's life, and what a start lists. *)

\* A goroutine's step leaves the others and the start alone.
LEMMA CarryOutFrame ==
  ASSUME TypeOK, NEW r \in RunId, CarryOut(r)
  PROVE  /\ ~WorkAt(r, "off")
         /\ UNCHANGED <<daemon, start, runJob>>
         /\ \A q \in RunId \ {r} : work'[q] = work[q]
         /\ ~Working(r) => ~(Working(r))'
         /\ Working(r) \/ UNCHANGED state
         /\ ~(Working(r))' \/ UNCHANGED state
<1> USE DEF TypeOK, WorkAt
<1>1. ~WorkAt(r, "off")
  BY DEF CarryOut, AgentEnds, Verify, RecordPlan, Finish, MoveOn, Amend, Drop
<1>2. UNCHANGED <<daemon, start, runJob>>
  BY DEF CarryOut, AgentEnds, Verify, RecordPlan, Finish, MoveOn, Amend, Drop, workFrame,
         storeVars, runVars, FinishRun, FailRun, ReturnJobToQueue, Block, DequeueJob, CannotDequeue
<1>3. \A q \in RunId \ {r} : work'[q] = work[q]
  BY DEF CarryOut, AgentEnds, Verify, RecordPlan, Finish, MoveOn, Amend, Drop, Advance
<1>4. CASE MoveOn(r) \/ Amend(r) \/ Drop(r)
  <2>1. work'[r].at \in {"drop", "amend", "off"}
    BY <1>4 DEF MoveOn, Amend, Drop, Advance, WorkType, Off
  <2>2. Working(r) \/ UNCHANGED state
    BY <1>4 DEF MoveOn, Amend, Drop, Working, FailRun, storeVars, jobVars
  <2> QED BY <1>1, <1>2, <1>3, <2>1, <2>2 DEF Working
<1>5. CASE (\E how \in Ended : AgentEnds(r, how)) \/ Verify(r) \/ RecordPlan(r) \/ Finish(r)
  <2>1. Working(r)
    BY <1>5 DEF AgentEnds, Verify, RecordPlan, Finish, Working
  <2>2. UNCHANGED state
    BY <1>5 DEF AgentEnds, Verify, RecordPlan, Finish, FinishRun, storeVars, jobVars
  <2> QED BY <1>1, <1>2, <1>3, <2>1, <2>2
<1> QED BY <1>4, <1>5 DEF CarryOut

\* Start and goroutines are gone whenever the daemon is: Close waits for them, and
\* a daemon that dies takes them with it (run.go:334-356).
LEMMA QuietStep ==
  ASSUME TypeOK, Quiet, [Next]_vars
  PROVE  Quiet'
<1> USE DEF TypeOK, Quiet, Resting, At, WorkAt
<1>1. CASE User
  BY <1>1 DEF User, AddJob, Cancel, Extend, Reorder, Remove, EditConfig, daemonVars
<1>2. CASE BeginStart
  BY <1>2 DEF BeginStart, startFrame
<1>3. CASE Starting
  <2>1. UNCHANGED daemon
    BY <1>3 DEF Starting, Exhaust, Scan, Refuse, Claim, Carry, AddWorktree, RecordWorkspace,
                Prepare, OpenRun, Launch, AbandonRun, AbandonJob, Uncarry, Release, startFrame
  <2>2. start.at # "idle"
    BY <1>3 DEF Starting, Exhaust, Scan, Refuse, Claim, Carry, AddWorktree, RecordWorkspace,
                Prepare, OpenRun, Launch, AbandonRun, AbandonJob, Uncarry, Release
  <2> QED BY <2>1, <2>2
<1>4. ASSUME NEW r \in RunId, CarryOut(r)
      PROVE  Quiet'
  BY <1>4, CarryOutFrame
<1>5. CASE Recover
  BY <1>5 DEF Recover, Boot, RequeueLeftOver, Serve
<1>6. CASE Stop \/ Close \/ RefuseStarts \/ Exit
  BY <1>6 DEF Stop, Close, RefuseStarts, Exit
<1>7. CASE Crash
  BY <1>7 DEF Crash, Off, Idle
<1>8. CASE UNCHANGED vars
  BY <1>8 DEF vars, daemonVars
<1> QED BY <1>1, <1>2, <1>3, <1>4, <1>5, <1>6, <1>7, <1>8 DEF Next

\* Only a claim takes a Job up.
LEMMA OnlyClaims ==
  ASSUME TypeOK, [Next]_vars, NEW j \in Job, state[j] # "active", state'[j] = "active"
  PROVE  Claim /\ At("check") /\ j = start.job /\ state[j] = "pending"
<1> USE DEF TypeOK, StoreTypeOK
<1>1. CASE User
  BY <1>1, ZenonT(30) DEF User, AddJob, Cancel, Extend, Reorder, Remove, EditConfig, UpsertJob,
              DequeueJob, ExtendJob, MoveJob, RemoveProject, storeVars, jobVars
<1>2. CASE Claim
  BY <1>2 DEF Claim, MoveJobState, storeVars, jobVars
<1>3. CASE Starting /\ ~Claim
  BY <1>3 DEF Starting, Exhaust, Scan, Refuse, Carry, AddWorktree, RecordWorkspace,
              Prepare, OpenRun, Launch, AbandonRun, AbandonJob, Uncarry, Release,
              ReturnJobToQueue, Block, CannotDequeue, DequeueJob, MoveJobState, StartRun,
              FinishRun, storeVars, jobVars
<1>4. ASSUME NEW r \in RunId, CarryOut(r)
      PROVE  FALSE
  <2>1. Settled(r) # "active"
    BY DEF Settled
  <2> QED
    BY <1>4, <2>1
       DEF CarryOut, AgentEnds, Verify, RecordPlan, Finish, MoveOn, Amend, Drop, FinishRun,
           FailRun, ReturnJobToQueue, CannotDequeue, DequeueJob, storeVars, jobVars
<1>5. CASE Recover
  BY <1>5 DEF Recover, Boot, RequeueLeftOver, Serve, InterruptRunsInProgress,
              ReturnJobToQueue, storeVars, jobVars
<1>6. CASE BeginStart \/ Stop \/ Close \/ RefuseStarts \/ Exit \/ Crash
  BY <1>6 DEF BeginStart, Stop, Close, RefuseStarts, Exit, Crash, storeVars, jobVars
<1>7. CASE UNCHANGED vars
  BY <1>7 DEF vars, storeVars, jobVars
<1> QED BY <1>1, <1>2, <1>3, <1>4, <1>5, <1>6, <1>7 DEF Next

\* No Job a start has listed as out of attempts is being run: only a start
\* claims, and it claims nothing before it is through with its list.
LEMMA ListedStep ==
  ASSUME TypeOK, Listed, [Next]_vars
  PROVE  Listed'
<1> USE DEF TypeOK, At
<1> SUFFICES ASSUME start'.at = "exhaust", NEW j \in start'.list, state'[j] = "active"
             PROVE  FALSE
  BY DEF Listed
<1>1. CASE start.at = "exhaust" /\ start'.list \subseteq start.list
  BY <1>1, OnlyClaims DEF Listed, StartType
<1>2. CASE BeginStart
  BY <1>2 DEF BeginStart, Idle, ListQueue, storeVars, jobVars
<1>3. CASE Starting
  <2>1. start'.at \in {"exhaust", "idle"} => (\E i \in Job : Exhaust(i)) \/ start' = Idle
    <3>1. CASE Scan \/ Refuse \/ Claim \/ Release \/ Launch
      BY <1>3, <3>1 DEF Scan, Refuse, Claim, Release, Launch, Over, Goto, StartType
    <3>2. CASE Carry \/ AddWorktree \/ RecordWorkspace \/ Prepare
      BY <1>3, <3>2 DEF Carry, AddWorktree, RecordWorkspace, Prepare, Goto, StartType
    <3>3. CASE OpenRun \/ AbandonRun \/ AbandonJob \/ Uncarry
      BY <1>3, <3>3 DEF OpenRun, AbandonRun, AbandonJob, Uncarry, Goto, StartType
    <3> QED BY <1>3, <3>1, <3>2, <3>3 DEF Starting
  <2>2. \E i \in Job : Exhaust(i)
    BY <2>1 DEF Idle
  <2>3. start.at = "exhaust" /\ start'.list \subseteq start.list
    BY <2>2 DEF Exhaust, Over, Idle, StartType
  <2> QED BY <1>1, <2>3
<1>4. CASE UNCHANGED start
  BY <1>1, <1>4
<1>5. CASE User
  BY <1>4, <1>5 DEF User, AddJob, Cancel, Extend, Reorder, Remove, EditConfig, daemonVars
<1>6. ASSUME NEW r \in RunId, CarryOut(r)
      PROVE  UNCHANGED start
  BY <1>6, CarryOutFrame
<1>7. CASE Recover \/ Stop \/ Close \/ RefuseStarts \/ Exit \/ UNCHANGED vars
  BY <1>4, <1>7 DEF Recover, Boot, RequeueLeftOver, Serve, Stop, Close, RefuseStarts, Exit, vars,
                    daemonVars
<1>8. CASE Crash
  BY <1>8 DEF Crash, Idle
<1> QED BY <1>2, <1>3, <1>4, <1>5, <1>6, <1>7, <1>8 DEF Next

-----------------------------------------------------------------------------
(* One Run per Job. *)

\* A step of a start changes where its own Job stands, or those it lists as out
\* of attempts, and only while nobody's Run is.
LEMMA StartingFrame ==
  ASSUME TypeOK, Starting
  PROVE  /\ \A j \in Job : state'[j] # state[j] =>
              \/ Holding /\ j = start.job
              \/ At("check") /\ j = start.job /\ state[j] = "pending"
              \/ At("exhaust") /\ j \in start.list /\ Exists(j)
         /\ UNCHANGED work \/ Launch
         /\ UNCHANGED runJob \/ OpenRun
<1> USE DEF TypeOK, StoreTypeOK, At
<1>1. ASSUME NEW j \in Job, Exhaust(j)
      PROVE  /\ At("exhaust") /\ j \in start.list
             /\ \A i \in Job : state'[i] # state[i] => i = j /\ Exists(j)
             /\ UNCHANGED <<work, runJob>>
  BY <1>1 DEF Exhaust, ReturnJobToQueue, storeVars, jobVars, runVars, startFrame
<1>2. CASE Claim
  BY <1>2 DEF Claim, MoveJobState, storeVars, jobVars, runVars, startFrame
<1>3. CASE Scan \/ Refuse
  BY <1>3 DEF Scan, Refuse, storeVars, jobVars, runVars, startFrame
<1>4. CASE Carry \/ AddWorktree \/ RecordWorkspace \/ Prepare \/ OpenRun
  <2>1. Holding
    BY <1>4 DEF Holding, Carry, AddWorktree, RecordWorkspace, Prepare, OpenRun
  <2>2. \A j \in Job : state'[j] # state[j] => j = start.job
    BY <1>4 DEF Carry, AddWorktree, RecordWorkspace, Prepare, OpenRun, Block, CannotDequeue,
                DequeueJob, StartRun, storeVars, jobVars
  <2>3. UNCHANGED work
    BY <1>4 DEF Carry, AddWorktree, RecordWorkspace, Prepare, OpenRun, startFrame
  <2>4. UNCHANGED runJob \/ OpenRun
    BY <1>4 DEF Carry, AddWorktree, RecordWorkspace, Prepare, Block, CannotDequeue,
                DequeueJob, storeVars, runVars
  <2> QED BY <2>1, <2>2, <2>3, <2>4
<1>5. CASE Launch
  BY <1>5 DEF Launch, Holding, storeVars, jobVars, runVars
<1>6. CASE AbandonRun \/ AbandonJob \/ Uncarry \/ Release
  <2>1. Holding
    BY <1>6 DEF Holding, AbandonRun, AbandonJob, Uncarry, Release
  <2>2. \A j \in Job : state'[j] # state[j] => j = start.job
    BY <1>6 DEF AbandonRun, AbandonJob, Uncarry, Release, Block, CannotDequeue, DequeueJob,
                FinishRun, MoveJobState, storeVars, jobVars
  <2>3. UNCHANGED <<work, runJob>>
    BY <1>6 DEF AbandonRun, AbandonJob, Uncarry, Release, Block, CannotDequeue, DequeueJob,
                FinishRun, MoveJobState, storeVars, runVars, startFrame
  <2> QED BY <2>1, <2>2, <2>3
<1> QED BY <1>1, <1>2, <1>3, <1>4, <1>5, <1>6 DEF Starting

\* Nobody but a start, a goroutine and a booting daemon moves an active Job on,
\* except that its Project may be removed.
LEMMA UserFrame ==
  ASSUME TypeOK, User
  PROVE  /\ \A j \in Job : state[j] \in {"active", "gone"} => state'[j] \in {"active", "gone"}
         /\ UNCHANGED <<daemon, start, work, runJob>>
<1>1. \A j \in Job : state[j] \in {"active", "gone"} => state'[j] \in {"active", "gone"}
  <2> USE DEF TypeOK, StoreTypeOK
  <2>1. ASSUME NEW i \in Job, NEW n, AddJob(i, n)
        PROVE  \A j \in Job : state[j] \in {"active", "gone"} => state'[j] = state[j]
    BY <2>1 DEF AddJob, UpsertJob
  <2>2. ASSUME NEW i \in Job, Cancel(i)
        PROVE  \A j \in Job : state[j] \in {"active", "gone"} => state'[j] = state[j]
    BY <2>2 DEF Cancel, DequeueJob, StillQueued
  <2>3. ASSUME NEW i \in Job, NEW n, Extend(i, n)
        PROVE  \A j \in Job : state[j] \in {"active", "gone"} => state'[j] = state[j]
    BY <2>3 DEF Extend, ExtendJob
  <2>4. ASSUME NEW p, Remove(p)
        PROVE  \A j \in Job : state'[j] \in {state[j], "gone"}
    BY <2>4 DEF Remove, RemoveProject
  <2>5. ASSUME NEW i, NEW p, Reorder(i, p) \/ EditConfig(i, p)
        PROVE  UNCHANGED state
    BY <2>5 DEF Reorder, EditConfig, MoveJob, storeVars, jobVars
  <2> QED BY <2>1, <2>2, <2>3, <2>4, <2>5 DEF User
<1>2. UNCHANGED <<daemon, start, work, runJob>>
  BY DEF User, AddJob, Cancel, Extend, Reorder, Remove, EditConfig, UpsertJob, DequeueJob,
         ExtendJob, MoveJob, RemoveProject, daemonVars, storeVars, runVars
<1> QED BY <1>1, <1>2

\* A goroutine moves its own Job and no other.
LEMMA CarryOutMoves ==
  ASSUME TypeOK, NEW r \in RunId, CarryOut(r), NEW j \in Job, state'[j] # state[j]
  PROVE  j = runJob[r]
BY DEF TypeOK, StoreTypeOK, CarryOut, AgentEnds, Verify, RecordPlan, Finish, MoveOn, Amend,
       Drop, FinishRun, FailRun, ReturnJobToQueue, CannotDequeue, DequeueJob, storeVars,
       jobVars

Exclusive == Attached /\ Quiet /\ Listed /\ Taken /\ OneRunPerJob

\* No Job is taken twice by any step: the claim is conditional on pending, and
\* nobody but who took a Job moves it on (run.go:475-500, 943-1017).
LEMMA ExclusiveStep ==
  ASSUME TypeOK, Exclusive, [Next]_vars
  PROVE  Taken' /\ OneRunPerJob'
<1> USE DEF TypeOK, Exclusive
<1>1. \A r \in RunId : Working(r) => runJob[r] \in Job
  BY DEF Attached, Working, WorkAt
<1>0. Claimed => start.job \in Job
  BY DEF Attached, Claimed, At
<1>2. CASE User
  BY <1>0, <1>1, <1>2, UserFrame DEF Taken, OneRunPerJob, Working, Holding, Claimed, At
<1>3. CASE BeginStart
  <2>1. UNCHANGED <<state, runJob, work>> /\ ~Holding' /\ ~Claimed'
    BY <1>3 DEF BeginStart, Idle, Holding, Claimed, At, storeVars, jobVars, runVars, startFrame
  <2> QED BY <2>1 DEF Taken, OneRunPerJob, Working
<1>4. CASE Starting /\ ~Claim /\ ~OpenRun /\ ~Launch
  <2>1. UNCHANGED <<work, runJob>>
    BY <1>4, StartingFrame
  <2>2. \A r \in RunId : Working(r) => state'[runJob[r]] \in {state[runJob[r]]}
    <3> SUFFICES ASSUME NEW r \in RunId, Working(r), state'[runJob[r]] # state[runJob[r]]
                 PROVE  FALSE
      OBVIOUS
    <3>1. runJob[r] \in Job /\ state[runJob[r]] \in {"active", "gone"}
      BY <1>1 DEF Taken
    <3>2. ~(Holding /\ runJob[r] = start.job)
      BY DEF OneRunPerJob
    <3>3. ~(At("exhaust") /\ runJob[r] \in start.list /\ Exists(runJob[r]))
      BY <3>1 DEF Listed, Exists
    <3> QED BY <1>4, <3>1, <3>2, <3>3, StartingFrame
  <2>3. CASE Carry \/ AddWorktree \/ RecordWorkspace \/ Prepare
    <3>1. Holding /\ start'.job = start.job
      BY <2>3 DEF Carry, AddWorktree, RecordWorkspace, Prepare, Holding, At, Goto, StartType
    <3>2. Claimed' => Claimed /\ UNCHANGED state
      <4>1. CASE UNCHANGED state
        BY <2>3, <4>1 DEF Carry, AddWorktree, RecordWorkspace, Prepare, Claimed, At
      <4>2. CASE Goto("uncarry")
        BY <4>2 DEF Goto, Claimed, StartType
      <4> QED BY <2>3, <4>1, <4>2 DEF Carry, AddWorktree, RecordWorkspace, Prepare, storeVars,
                                      jobVars
    <3> QED BY <2>1, <2>2, <3>1, <3>2 DEF Taken, OneRunPerJob, Working
  <2>4. CASE AbandonRun \/ AbandonJob \/ Uncarry \/ Release
    <3>1. Holding /\ ~Claimed' /\ (Holding' => start'.job = start.job)
      BY <2>4 DEF AbandonRun, AbandonJob, Uncarry, Release, Holding, Claimed, At, Over, Idle,
                  Goto, StartType
    <3> QED BY <2>1, <2>2, <3>1 DEF Taken, OneRunPerJob, Working
  <2>5. CASE (\E j \in Job : Exhaust(j)) \/ Scan \/ Refuse
    <3>1. Over => ~Holding' /\ ~Claimed'
      BY DEF Over, Idle, Holding, Claimed, At
    <3>2. ~Over => ~Holding' /\ ~Claimed'
      BY <2>5 DEF Exhaust, Scan, Refuse, Holding, Claimed, At, StartType
    <3> QED BY <2>1, <2>2, <3>1, <3>2 DEF Taken, OneRunPerJob, Working
  <2> QED BY <1>4, <2>3, <2>4, <2>5 DEF Starting
<1>5. CASE Claim
  <2>1. /\ UNCHANGED <<work, runJob>>
        /\ \A i \in Job \ {start.job} : state'[i] = state[i]
        /\ Holding' => start'.job = start.job
    <3>1. UNCHANGED <<work, runJob>> /\ \A i \in Job \ {start.job} : state'[i] = state[i]
      BY <1>5 DEF Claim, MoveJobState, startFrame, storeVars, jobVars, runVars, StoreTypeOK
    <3> DEFINE acct == AccountFor(start.job)
    <3>2. Over \/ start' = [start EXCEPT !.at = "carry", !.acct = acct]
      BY <1>5 DEF Claim
    <3>3. Over => ~Holding'
      BY DEF Over, Idle, Holding, At
    <3> HIDE DEF acct
    <3> QED BY <3>1, <3>2, <3>3 DEF StartType
  <2>2. state'[start.job] # state[start.job] \/ Holding' => state[start.job] = "pending"
    BY <1>5 DEF Claim, MoveJobState, Over, Idle, Holding, At, storeVars, jobVars
  <2>3. \A r \in RunId : Working(r) /\ state[start.job] = "pending" => runJob[r] # start.job
    BY DEF Taken
  <2>4. Claimed' => Holding' /\ state'[start.job] = "active"
    BY <1>5 DEF Claim, MoveJobState, Over, Idle, Holding, Claimed, At, Attached, StoreTypeOK
  <2> QED BY <1>1, <2>1, <2>2, <2>3, <2>4 DEF Taken, OneRunPerJob, Working
<1>6. CASE OpenRun
  <2>1. UNCHANGED <<work, state>>
    BY <1>6 DEF OpenRun, StartRun, startFrame, storeVars, jobVars
  <2>2. Holding /\ Claimed /\ start'.job = start.job
    BY <1>6 DEF OpenRun, Holding, Claimed, At, Goto, StartType
  <2>3. \A r \in RunId : Working(r) => runJob'[r] = runJob[r]
    BY <1>6 DEF OpenRun, StartRun, NextRun, storeVars, runVars, Attached, Working, WorkAt,
                StoreTypeOK
  <2> QED BY <2>1, <2>2, <2>3 DEF Taken, OneRunPerJob, Working
<1>7. CASE Launch
  <2>1. UNCHANGED <<state, runJob>> /\ Holding
    BY <1>7 DEF Launch, Holding, At, storeVars, jobVars, runVars
  <2>2. start.job \in Job /\ start.run \in RunId /\ runJob[start.run] = start.job
    BY <1>7 DEF Launch, Attached, At
  <2>3. CASE Exists(start.job) /\ Over /\ \A q \in RunId \ {start.run} : work'[q] = work[q]
    <3>1. ~Holding' /\ ~Claimed'
      BY <2>3 DEF Over, Idle, Holding, Claimed, At
    <3>2. \A q \in RunId \ {start.run} : (Working(q))' <=> Working(q)
      BY <2>3 DEF Working
    <3>3. state[start.job] \in {"active", "gone"}
      BY <1>7 DEF Launch, Claimed, At, Taken
    <3> QED BY <2>1, <2>2, <3>1, <3>2, <3>3 DEF Taken, OneRunPerJob
  <2>4. CASE Goto("abandonRun") /\ UNCHANGED work
    BY <2>1, <2>4 DEF Goto, StartType, Taken, OneRunPerJob, Working, Claimed
  <2> QED BY <1>7, <2>3, <2>4 DEF Launch
<1>8. ASSUME NEW r \in RunId, CarryOut(r)
      PROVE  Taken' /\ OneRunPerJob'
  <2>1. UNCHANGED <<start, runJob>> /\ \A q \in RunId \ {r} : (Working(q))' <=> Working(q)
    BY <1>8, CarryOutFrame DEF Working
  <2>2. (Working(r))' => Working(r) /\ UNCHANGED state
    BY <1>8, CarryOutFrame
  <2>3. \A q \in RunId : (Working(q))' => state'[runJob[q]] = state[runJob[q]]
    <3> SUFFICES ASSUME NEW q \in RunId, (Working(q))', state'[runJob[q]] # state[runJob[q]]
                 PROVE  FALSE
      OBVIOUS
    <3>1. q # r /\ Working(q)
      BY <2>1, <2>2
    <3>2. runJob[q] = runJob[r]
      BY <1>1, <1>8, <3>1, CarryOutMoves
    <3>3. Working(r)
      BY <1>8, CarryOutFrame
    <3> QED BY <3>1, <3>2, <3>3 DEF OneRunPerJob
  <2>4. Claimed => state'[start.job] = state[start.job]
    <3> SUFFICES ASSUME Claimed, state'[start.job] # state[start.job]
                 PROVE  FALSE
      OBVIOUS
    <3>1. Working(r)
      BY <1>8, CarryOutFrame
    <3>2. Holding /\ start.job \in Job
      BY DEF Claimed, Holding, Attached, At
    <3> QED BY <1>8, <3>1, <3>2, CarryOutMoves DEF OneRunPerJob
  <2> QED BY <2>1, <2>2, <2>3, <2>4 DEF Taken, OneRunPerJob, Holding, Claimed, At
<1>9. CASE Recover \/ Crash
  <2>1. ~Claimed' /\ \A r \in RunId : ~(Working(r))'
    <3>1. CASE Recover
      <4>1. UNCHANGED <<work, start>> /\ Resting
        BY <3>1 DEF Recover, Boot, RequeueLeftOver, Serve, Resting
      <4> QED BY <4>1 DEF Quiet, Working, WorkAt, Claimed, At
    <3>2. CASE Crash
      BY <3>2 DEF Crash, Off, Working, Idle, Claimed
    <3> QED BY <1>9, <3>1, <3>2
  <2> QED BY <2>1 DEF Taken, OneRunPerJob
<1>10. CASE Stop \/ Close \/ RefuseStarts \/ Exit \/ UNCHANGED vars
  <2>1. UNCHANGED <<state, runJob, work, start>>
    BY <1>10 DEF Stop, Close, RefuseStarts, Exit, vars, storeVars, jobVars, runVars, daemonVars
  <2> QED BY <2>1 DEF Taken, OneRunPerJob, Working, Holding, Claimed, At
<1> QED
  BY <1>2, <1>3, <1>4, <1>5, <1>6, <1>7, <1>8, <1>9, <1>10 DEF Next, Starting

-----------------------------------------------------------------------------
(* One subscription per Job. *)

\* What is drawn on is what the Job records, or what it will record at launch.
OnRecord ==
  /\ \A r \in RunId : Working(r) => work[r].acct = account[runJob[r]]
  /\ Claimed /\ account[start.job] # NoAccount => start.acct = account[start.job]

\* Only a launch records an Account.
LEMMA OnlyLaunchRecords ==
  ASSUME [Next]_vars, ~Launch
  PROVE  UNCHANGED account
<1>1. CASE User
  BY <1>1 DEF User, AddJob, Cancel, Extend, Reorder, Remove, EditConfig, UpsertJob, DequeueJob,
              ExtendJob, MoveJob, RemoveProject, storeVars, jobVars
<1>2. CASE Starting
  BY <1>2 DEF Starting, Exhaust, Scan, Refuse, Claim, Carry, AddWorktree, RecordWorkspace,
              Prepare, OpenRun, AbandonRun, AbandonJob, Uncarry, Release, ReturnJobToQueue,
              Block, CannotDequeue, DequeueJob, MoveJobState, StartRun, FinishRun, storeVars,
              jobVars
<1>3. ASSUME NEW r \in RunId, CarryOut(r)
      PROVE  UNCHANGED account
  BY <1>3 DEF CarryOut, AgentEnds, Verify, RecordPlan, Finish, MoveOn, Amend, Drop, FinishRun,
              FailRun, ReturnJobToQueue, CannotDequeue, DequeueJob, storeVars, jobVars
<1>4. CASE Recover
  BY <1>4 DEF Recover, Boot, RequeueLeftOver, Serve, InterruptRunsInProgress,
              ReturnJobToQueue, storeVars, jobVars
<1>5. CASE BeginStart \/ Stop \/ Close \/ RefuseStarts \/ Exit \/ Crash \/ UNCHANGED vars
  BY <1>5 DEF BeginStart, Stop, Close, RefuseStarts, Exit, Crash, vars, storeVars, jobVars
<1> QED BY <1>1, <1>2, <1>3, <1>4, <1>5 DEF Next

\* The Account a start chose and the one its Job has recorded stay the same one.
LEMMA OnRecordStep ==
  ASSUME IInv, OnRecord, [Next]_vars
  PROVE  OnRecord'
<1> USE DEF IInv, TypeOK, StoreTypeOK
<1>1. CASE UNCHANGED <<start, work, runJob, account>>
  BY <1>1 DEF OnRecord, Working, Claimed
<1>2. CASE User
  BY <1>1, <1>2, UserFrame, OnlyLaunchRecords
     DEF Launch, OnRecord, User, AddJob, Cancel, Extend, Reorder, Remove, EditConfig,
         daemonVars, Working, Claimed, UpsertJob, DequeueJob, ExtendJob, MoveJob,
         RemoveProject, storeVars, jobVars
<1>3. CASE BeginStart
  BY <1>3 DEF BeginStart, Idle, OnRecord, Claimed, Working, storeVars, jobVars, runVars,
              startFrame
<1>4. CASE Launch
  <2>1. start.job \in Job /\ start.run \in RunId /\ runJob[start.run] = start.job
    BY <1>4 DEF Launch, Attached, At
  <2>2. UNCHANGED runJob /\ Holding /\ Claimed
    BY <1>4 DEF Launch, Holding, Claimed, At, storeVars, runVars
  <2>3. ~Claimed'
    BY <1>4 DEF Launch, Over, Goto, Idle, Claimed, StartType
  <2>4. CASE UNCHANGED <<storeVars, work>>
    BY <2>3, <2>4 DEF OnRecord, Working, storeVars, jobVars, runVars
  <2>5. CASE /\ IF account[start.job] = NoAccount THEN SetJobAccount(start.job, start.acct)
                                                  ELSE UNCHANGED account
             /\ work'[start.run].acct = start.acct
             /\ \A q \in RunId \ {start.run} : work'[q] = work[q]
    <3>1. account'[start.job] = start.acct
      BY <2>1, <2>2, <2>5 DEF SetJobAccount, OnRecord
    <3>2. \A i \in Job \ {start.job} : account'[i] = account[i]
      BY <2>5 DEF SetJobAccount
    <3>3. \A q \in RunId : Working(q) => runJob[q] \in Job \ {start.job}
      BY <2>2 DEF OneRunPerJob, Attached, Working, WorkAt
    <3>4. \A q \in RunId \ {start.run} : (Working(q))' <=> Working(q)
      BY <2>5 DEF Working
    <3> QED BY <2>1, <2>2, <2>3, <2>5, <3>1, <3>2, <3>3, <3>4 DEF OnRecord
  <2>6. ASSUME NEW begun, begun.acct = start.acct,
               work' = [work EXCEPT ![start.run] = begun]
        PROVE  /\ work'[start.run].acct = start.acct
               /\ \A q \in RunId \ {start.run} : work'[q] = work[q]
    BY <2>1, <2>6
  <2>7. \A phase : [Off EXCEPT !.at = "agent", !.acct = start.acct, !.phase = phase].acct
                     = start.acct
    BY DEF Off
  <2>8. CASE UNCHANGED <<storeVars, work>>
    BY <2>4, <2>8
  <2>9. CASE ~UNCHANGED <<storeVars, work>>
    <3>1. /\ IF account[start.job] = NoAccount THEN SetJobAccount(start.job, start.acct)
                                               ELSE UNCHANGED account
          /\ \E phase : work' = [work EXCEPT ![start.run] =
               [Off EXCEPT !.at = "agent", !.acct = start.acct, !.phase = phase]]
      BY <1>4, <2>9 DEF Launch
    <3> QED BY <2>5, <2>6, <2>7, <3>1
  <2> QED BY <2>8, <2>9
<1>5. CASE Starting /\ ~Launch
  <2>1. UNCHANGED <<work, account>>
    BY <1>5, StartingFrame, OnlyLaunchRecords
  <2>2. \A r \in RunId : Working(r) => runJob'[r] = runJob[r]
    <3>1. CASE OpenRun
      BY <3>1 DEF OpenRun, StartRun, NextRun, storeVars, runVars, Attached, Working, WorkAt
    <3> QED BY <1>5, <3>1, StartingFrame
  <2>3. Claimed' => \/ Claimed /\ start'.job = start.job /\ start'.acct = start.acct
                    \/ start'.acct = AccountFor(start'.job)
    <3>1. CASE Claim
      <4> DEFINE acct == AccountFor(start.job)
      <4>1. Over \/ start' = [start EXCEPT !.at = "carry", !.acct = acct]
        BY <3>1 DEF Claim
      <4>2. Over => ~Claimed'
        BY DEF Over, Idle, Claimed
      <4> HIDE DEF acct
      <4>3. ~Over => start'.acct = acct /\ start'.job = start.job
        BY <4>1 DEF StartType
      <4> QED BY <4>2, <4>3 DEF acct
    <3>2. CASE Carry \/ AddWorktree \/ RecordWorkspace \/ Prepare
      BY <3>2 DEF Carry, AddWorktree, RecordWorkspace, Prepare, Claimed, At, Goto, StartType
    <3>3. CASE OpenRun
      BY <3>3 DEF OpenRun, Claimed, At, Goto, StartType
    <3>4. CASE AbandonRun \/ AbandonJob \/ Uncarry \/ Release
      BY <3>4 DEF AbandonRun, AbandonJob, Uncarry, Release, Claimed, Over, Idle, Goto,
                  StartType
    <3>5. CASE (\E j \in Job : Exhaust(j)) \/ Scan \/ Refuse
      <4>1. Over => ~Claimed'
        BY DEF Over, Idle, Claimed
      <4>2. ~Over => ~Claimed'
        BY <3>5 DEF Exhaust, Scan, Refuse, Claimed, At, StartType
      <4> QED BY <4>1, <4>2
    <3> QED BY <1>5, <3>1, <3>2, <3>3, <3>4, <3>5 DEF Starting
  <2>4. Claimed' => start'.job \in Job
    BY AttachedStep DEF Attached, Claimed, At
  <2> QED BY <2>1, <2>2, <2>3, <2>4 DEF OnRecord, Working, AccountFor
<1>6. ASSUME NEW r \in RunId, CarryOut(r)
      PROVE  OnRecord'
  <2>1. UNCHANGED <<start, runJob>> /\ \A q \in RunId \ {r} : work'[q] = work[q]
    BY <1>6, CarryOutFrame
  <2>2. UNCHANGED account
    BY <1>6 DEF CarryOut, AgentEnds, Verify, RecordPlan, Finish, MoveOn, Amend, Drop,
                FinishRun, FailRun, ReturnJobToQueue, CannotDequeue, DequeueJob, storeVars,
                jobVars
  <2>3. (Working(r))' => Working(r) /\ work'[r].acct = work[r].acct
    <3>1. (Working(r))' => Working(r)
      BY <1>6, CarryOutFrame
    <3>2. CASE Drop(r)
      BY <3>2 DEF Drop, Off, Working
    <3>3. CASE \E how \in Ended : AgentEnds(r, how)
      BY <3>1, <3>3 DEF AgentEnds, WorkType
    <3>4. CASE Verify(r) \/ RecordPlan(r)
      BY <3>1, <3>4 DEF Verify, RecordPlan, Advance, WorkType
    <3>5. CASE Finish(r) \/ MoveOn(r) \/ Amend(r)
      BY <3>1, <3>5 DEF Finish, MoveOn, Amend, Advance, WorkType
    <3> QED BY <1>6, <3>1, <3>2, <3>3, <3>4, <3>5 DEF CarryOut
  <2> QED BY <2>1, <2>2, <2>3 DEF OnRecord, Working, Claimed
<1>7. CASE Recover \/ Stop \/ Close \/ RefuseStarts \/ Exit \/ UNCHANGED vars
  <2>1. UNCHANGED <<start, work, runJob>>
    BY <1>7 DEF Recover, Boot, RequeueLeftOver, Serve, Stop, Close, RefuseStarts, Exit, vars,
                InterruptRunsInProgress, ReturnJobToQueue, daemonVars, storeVars, runVars
  <2>2. UNCHANGED account
    BY <1>7 DEF Recover, Boot, RequeueLeftOver, Serve, Stop, Close, RefuseStarts, Exit, vars,
                InterruptRunsInProgress, ReturnJobToQueue, storeVars, jobVars
  <2> QED BY <1>1, <2>1, <2>2
<1>8. CASE Crash
  BY <1>8 DEF Crash, Off, Idle, OnRecord, Working, Claimed
<1> QED BY <1>2, <1>3, <1>4, <1>5, <1>6, <1>7, <1>8 DEF Next

-----------------------------------------------------------------------------
(* The theorems. *)

\* The invariant holds of a daemon that was never started.
LEMMA InitIInv == Init => IInv
<1> SUFFICES ASSUME Init PROVE IInv
  OBVIOUS
<1>1. TypeOK
  BY InitTypeOK
<1>2. Attached /\ Quiet /\ Listed /\ Taken /\ OneRunPerJob
  BY DEF Init, Attached, Quiet, Listed, Taken, OneRunPerJob, Claimed, Holding, Working, At,
         WorkAt, Idle, Off
<1> QED BY <1>1, <1>2 DEF IInv

\* ... is kept by every step ...
LEMMA StepIInv == IInv /\ [Next]_vars => IInv'
BY TypeStep, AttachedStep, QuietStep, ListedStep, ExclusiveStep DEF IInv, Exclusive

\* ... and so holds for good.
LEMMA AlwaysIInv == Spec => []IInv
BY InitIInv, StepIInv, PTL DEF Spec

\* Types are kept by every operation, whatever fails and whenever the daemon dies.
THEOREM TypeCorrect == Spec => []TypeOK
<1>1. IInv => TypeOK
  BY DEF IInv
<1> QED BY <1>1, AlwaysIInv, PTL

\* No Job is ever worked on twice at once, however many Jobs, Runs and starts
\* there are, whatever is cancelled, extended or removed in between, and
\* whatever write fails: the claim is conditional, and a daemon that stops
\* waits for its goroutines or takes them with it (run.go:404-500, 943-1017).
THEOREM RunsAreExclusive == Spec => []OneRunPerJob
<1>1. IInv => OneRunPerJob
  BY DEF IInv
<1> QED BY <1>1, AlwaysIInv, PTL

\* Whatever its Project comes to name, a Job's every Run draws on the Account
\* recorded at its first one (run.go:570-600, 1168-1191, ADR-0023).
THEOREM OneSubscription == Spec => []RunsOnItsAccount
<1>1. Init => OnRecord
  BY DEF Init, OnRecord, Working, Claimed, Off, Idle
<1>2. IInv /\ OnRecord /\ [Next]_vars => OnRecord'
  BY OnRecordStep
<1>3. OnRecord => RunsOnItsAccount
  BY DEF OnRecord, RunsOnItsAccount
<1> QED BY <1>1, <1>2, <1>3, AlwaysIInv, PTL DEF Spec

-----------------------------------------------------------------------------
(* What the statements of JobStore do to the queue's places: the places of  *)
(* the Jobs that have one count from one without a gap, and every statement *)
(* that writes a place keeps it so.                                         *)

\* The Jobs that have a place.
Seated(place) == {j \in Job : place[j] # 0}

\* No two Jobs share a place, and there are no more places than Jobs that have one.
Distinct(place) == \A i, j \in Job : place[i] # 0 /\ place[i] = place[j] => i = j
Whole(place) ==
  Distinct(place) /\ \A j \in Job : place[j] <= Cardinality(Seated(place))

\* Only so many Jobs have a place.
LEMMA SeatedFinite ==
  ASSUME NEW place
  PROVE  IsFiniteSet(Seated(place)) /\ Cardinality(Seated(place)) \in Nat
<1>1. IsFiniteSet(Seated(place))
  BY StoreAssumption, FS_Subset DEF Seated
<1> QED BY <1>1, FS_CardinalityType

\* Where places are distinct and none is beyond the last, they are 1..n: as many
\* different numbers as there are numbers.
LEMMA WholeCounts ==
  ASSUME NEW place \in [Job -> Nat], Whole(place)
  PROVE  {place[j] : j \in Seated(place)} = 1..Cardinality(Seated(place))
<1> DEFINE S == Seated(place)
           n == Cardinality(S)
           f == [j \in S |-> place[j]]
<1>1. IsFiniteSet(S) /\ n \in Nat
  BY SeatedFinite
<1>2. IsFiniteSet(1..n) /\ Cardinality(1..n) = n
  BY <1>1, FS_Interval
<1>3. \A j \in S : place[j] \in 1..n
  BY <1>1 DEF Seated, Whole
<1>4. f \in Injection(S, 1..n)
  BY <1>3 DEF Injection, IsInjective, Whole, Distinct, Seated
<1> HIDE DEF n
<1>5. f \in Surjection(S, 1..n)
  BY <1>1, <1>2, <1>4, FS_Injection DEF n
<1>6. \A k \in 1..n : \E j \in S : place[j] = k
  BY <1>5 DEF Surjection
<1> QED BY <1>3, <1>6 DEF n

\* The Jobs renumber counts for a Job: as many as stand at or before it.
Before(place, j) == {i \in Job : place[i] \in 1..place[j]}

\* renumber's count keeps the order, and keeps who has a place (jobs.go:504-540).
LEMMA RankOrders ==
  ASSUME NEW place \in [Job -> Nat], NEW i \in Job, NEW j \in Job
  PROVE  /\ Rank(place, j) \in Nat
         /\ Rank(place, j) = 0 <=> place[j] = 0
         /\ Rank(place, j) <= Cardinality(Seated(place))
         /\ place[i] < place[j] => Rank(place, i) < Rank(place, j)
<1>1. \A k \in Job : IsFiniteSet(Before(place, k)) /\ Rank(place, k) = Cardinality(Before(place, k))
  BY StoreAssumption, FS_Subset DEF Before, Rank
<1>2. \A k \in Job : Rank(place, k) \in Nat
  BY <1>1, FS_CardinalityType
<1>3. Rank(place, j) = 0 <=> place[j] = 0
  <2>1. Before(place, j) = {} <=> place[j] = 0
    BY DEF Before
  <2> QED BY <1>1, <2>1, FS_EmptySet
<1>4. Rank(place, j) <= Cardinality(Seated(place))
  <2>1. Before(place, j) \subseteq Seated(place)
    BY DEF Before, Seated
  <2> QED BY <1>1, <2>1, SeatedFinite, FS_Subset
<1>5. ASSUME place[i] < place[j]
      PROVE  Rank(place, i) < Rank(place, j)
  <2>1. Before(place, i) \subseteq Before(place, j)
    BY <1>5 DEF Before
  <2>2. j \in Before(place, j) /\ j \notin Before(place, i)
    BY <1>5 DEF Before
  <2>3. /\ Cardinality(Before(place, i)) <= Cardinality(Before(place, j))
        /\ Cardinality(Before(place, i)) # Cardinality(Before(place, j))
    BY <1>1, <2>1, <2>2, FS_Subset
  <2> QED BY <1>1, <1>2, <2>3
<1> QED BY <1>2, <1>3, <1>4, <1>5

\* Numbered anew, distinct places count from one; nobody gains or loses one.
LEMMA RenumberWhole ==
  ASSUME NEW place \in [Job -> Nat], Distinct(place)
  PROVE  /\ Renumber(place) \in [Job -> Nat]
         /\ Seated(Renumber(place)) = Seated(place)
         /\ Whole(Renumber(place))
<1> DEFINE to == Renumber(place)
<1>1. \A j \in Job : to[j] = Rank(place, j)
  BY DEF Renumber
<1>2. to \in [Job -> Nat]
  BY RankOrders DEF Renumber
<1>3. Seated(to) = Seated(place)
  BY <1>1, RankOrders DEF Seated
<1>4. Distinct(to)
  <2> SUFFICES ASSUME NEW i \in Job, NEW j \in Job, to[i] # 0, to[i] = to[j]
               PROVE  i = j
    BY DEF Distinct
  <2>1. ~(place[i] < place[j]) /\ ~(place[j] < place[i])
    BY <1>1, <1>2, RankOrders
  <2>2. place[i] = place[j] /\ place[i] # 0
    BY <1>1, <2>1, RankOrders
  <2> QED BY <2>2 DEF Distinct
<1>5. \A j \in Job : to[j] <= Cardinality(Seated(to))
  BY <1>1, <1>3, RankOrders
<1> QED BY <1>2, <1>3, <1>4, <1>5 DEF Whole

\* A Job taken out leaves the others' places distinct.
LEMMA DistinctWithout ==
  ASSUME NEW place \in [Job -> Nat], Distinct(place), NEW out \in SUBSET Job
  PROVE  LET rest == [i \in Job |-> IF i \in out THEN 0 ELSE place[i]]
         IN  rest \in [Job -> Nat] /\ Distinct(rest) /\ Seated(rest) = Seated(place) \ out
BY DEF Distinct, Seated

\* A Job put back at a seat shifts the ones behind it by one (MoveJob, jobs.go:440-469).
LEMMA InsertWhole ==
  ASSUME NEW place \in [Job -> Nat], Whole(place), NEW j \in Seated(place),
         NEW p \in 1..Cardinality(Seated(place))
  PROVE  /\ Insert(place, j, p) \in [Job -> Nat]
         /\ Seated(Insert(place, j, p)) = Seated(place)
         /\ Whole(Insert(place, j, p))
<1> DEFINE rest   == [i \in Job |-> IF i \in {j} THEN 0 ELSE place[i]]
           others == Renumber([place EXCEPT ![j] = 0])
           to     == Insert(place, j, p)
           n      == Cardinality(Seated(place))
<1>0. j \in Job /\ n \in Nat
  BY SeatedFinite DEF Seated
<1>1. [place EXCEPT ![j] = 0] = rest
  BY <1>0
<1>2. rest \in [Job -> Nat] /\ Distinct(rest) /\ Seated(rest) = Seated(place) \ {j}
  <2>1. {j} \in SUBSET Job
    BY <1>0
  <2> QED BY <2>1, DistinctWithout DEF Whole
<1>3. others \in [Job -> Nat] /\ Seated(others) = Seated(place) \ {j} /\ Whole(others)
  BY <1>1, <1>2, RenumberWhole
<1>4. Cardinality(Seated(others)) = n - 1
  BY <1>3, SeatedFinite, FS_RemoveElement
<1> HIDE DEF others, n
<1>5. \A i \in Job : others[i] <= n - 1
  BY <1>3, <1>4 DEF Whole
<1>6. to = [i \in Job |-> IF i = j THEN p ELSE IF others[i] >= p THEN others[i] + 1 ELSE others[i]]
  BY DEF Insert, others
<1>7. p \in 1..n
  BY DEF n
<1> HIDE DEF to
<1>8. to \in [Job -> Nat] /\ \A i \in Job : to[i] <= n
  BY <1>0, <1>3, <1>5, <1>6, <1>7
<1>9. Seated(to) = Seated(place)
  <2>1. \A i \in Job \ {j} : to[i] # 0 <=> others[i] # 0
    BY <1>0, <1>3, <1>6, <1>7
  <2>2. to[j] # 0
    BY <1>0, <1>6, <1>7
  <2>3. \A i \in Job \ {j} : others[i] # 0 <=> i \in Seated(place)
    BY <1>3 DEF Seated
  <2> QED BY <1>0, <2>1, <2>2, <2>3 DEF Seated
<1>10. Distinct(to)
  <2> SUFFICES ASSUME NEW a \in Job, NEW b \in Job, to[a] # 0, to[a] = to[b], a # b
               PROVE  FALSE
    BY DEF Distinct
  <2>1. a # j /\ b # j
    BY <1>0, <1>3, <1>6, <1>7
  <2>2. others[a] = others[b] /\ others[a] # 0
    BY <1>3, <1>6, <1>7, <2>1
  <2> QED BY <1>3, <2>2 DEF Whole, Distinct
<1> QED BY <1>8, <1>9, <1>10 DEF Whole, to, n

-----------------------------------------------------------------------------
(* The statements that write a place. *)

\* A Job nobody has added has no place.
Unplaced == \A j \in Job : state[j] = "unborn" => position[j] = 0

\* The places of the queue, and who has none.
Places == Whole(position) /\ Unplaced

\* A new Job is seated behind the last one (UpsertJob, jobs.go:177-224).
LEMMA UpsertPlaces ==
  ASSUME StoreTypeOK, Places, NEW j \in Job, NEW n, NEW planned, UpsertJob(j, n, planned)
  PROVE  Places'
<1> USE DEF StoreTypeOK, Places
<1>1. PICK p \in 1..Cardinality(Job) :
        /\ \A i \in Job : position[i] < p
        /\ p = 1 \/ \E i \in Job : position[i] = p - 1
        /\ position' = [position EXCEPT ![j] = p]
  BY DEF UpsertJob
<1>2. p \in Nat /\ p # 0
  BY <1>1, StoreAssumption, FS_CardinalityType
<1>3. Seated(position') = Seated(position) \cup {j} /\ j \notin Seated(position)
  BY <1>1, <1>2 DEF Seated, Unplaced, UpsertJob
<1>4. Cardinality(Seated(position')) = Cardinality(Seated(position)) + 1
  BY <1>3, SeatedFinite, FS_AddElement
<1>5. p <= Cardinality(Seated(position)) + 1
  BY <1>1, <1>2, SeatedFinite DEF Whole
<1>6. Distinct(position')
  BY <1>1, <1>2 DEF Distinct, Whole
<1>7. \A i \in Job : position'[i] <= Cardinality(Seated(position'))
  BY <1>1, <1>2, <1>4, <1>5, SeatedFinite DEF Whole
<1>8. Unplaced'
  BY <1>1 DEF Unplaced, UpsertJob
<1> QED BY <1>6, <1>7, <1>8 DEF Whole

\* Whoever leaves, the rest close up (DequeueJob, jobs.go:413-438, and RemoveProject,
\* projects.go:133-162).
LEMMA LeavePlaces ==
  ASSUME StoreTypeOK, Places, NEW out \in SUBSET Job,
         position' = Renumber([i \in Job |-> IF i \in out THEN 0 ELSE position[i]]),
         \A i \in Job : state'[i] = "unborn" => state[i] = "unborn"
  PROVE  Places'
<1> DEFINE rest == [i \in Job |-> IF i \in out THEN 0 ELSE position[i]]
<1>1. rest \in [Job -> Nat] /\ Distinct(rest) /\ Seated(rest) = Seated(position) \ out
  BY DistinctWithout DEF StoreTypeOK, Places, Whole
<1>2. Seated(position') = Seated(position) \ out /\ Whole(position') /\ position' \in [Job -> Nat]
  BY <1>1, RenumberWhole
<1>3. Unplaced'
  <2> SUFFICES ASSUME NEW i \in Job, state'[i] = "unborn"
               PROVE  position'[i] = 0
    BY DEF Unplaced
  <2>1. i \notin Seated(position)
    BY DEF Places, Unplaced, Seated
  <2> QED BY <1>2, <2>1 DEF Seated
<1> QED BY <1>2, <1>3 DEF Places

\* renumber gives nobody a place and takes nobody's.
LEMMA RenumberSeats ==
  ASSUME NEW place \in [Job -> Nat], NEW j \in Job
  PROVE  Renumber(place)[j] # 0 <=> place[j] # 0
BY RankOrders DEF Renumber

\* A Job taken out leaves its place to the next (DequeueJob).
LEMMA DequeuePlaces ==
  ASSUME StoreTypeOK, Places, NEW j \in Job, NEW from, NEW to, to # "unborn",
         DequeueJob(j, from, to)
  PROVE  Places'
<1>1. {j} \in SUBSET Job
  OBVIOUS
<1>2. [position EXCEPT ![j] = 0] = [i \in Job |-> IF i \in {j} THEN 0 ELSE position[i]]
  BY DEF StoreTypeOK
<1>3. \A i \in Job : state'[i] = "unborn" => state[i] = "unborn"
  BY DEF StoreTypeOK, DequeueJob
<1> QED BY <1>1, <1>2, <1>3, LeavePlaces DEF DequeueJob

\* A Project removed takes the places of all its Jobs (RemoveProject).
LEMMA RemovePlaces ==
  ASSUME StoreTypeOK, Places, NEW p, RemoveProject(p)
  PROVE  Places'
<1> DEFINE lost == {j \in Job : ProjectOf[j] = p /\ Exists(j)}
<1>1. \A i \in Job : state'[i] = "unborn" => state[i] = "unborn"
  BY DEF RemoveProject
<1>2. position' = Renumber([i \in Job |-> IF i \in lost THEN 0 ELSE position[i]])
  BY DEF RemoveProject
<1>3. lost \in SUBSET Job
  OBVIOUS
<1> HIDE DEF lost
<1> QED BY <1>1, <1>2, <1>3, LeavePlaces

\* A reorder seats one waiting Job anew, a seat past the end being the last.
LEMMA MovePlaces ==
  ASSUME StoreTypeOK, Places, NEW j \in Job, NEW p \in Nat \ {0}, NEW from, MoveJob(j, p, from)
  PROVE  Places' /\ Seated(position') = Seated(position)
<1> DEFINE n    == Cardinality(Seated(position))
           seat == IF p > n THEN n ELSE p
<1>1. {i \in Job : Queued(i)} = Seated(position)
  BY DEF Seated, Queued
<1>2. position' = Insert(position, j, seat)
  BY <1>1 DEF MoveJob
<1>3. j \in Seated(position)
  BY DEF MoveJob, StillQueued, Queued, Seated
<1>4. n \in Nat /\ n # 0
  BY <1>3, SeatedFinite, FS_EmptySet
<1>5. seat \in 1..n
  BY <1>4
<1> HIDE DEF seat
<1>6. /\ Seated(position') = Seated(position)
      /\ Whole(position')
  BY <1>2, <1>3, <1>5, InsertWhole DEF StoreTypeOK, Places
<1>7. Unplaced'
  BY <1>6 DEF Unplaced, Places, Seated, MoveJob
<1> QED BY <1>6, <1>7 DEF Places

-----------------------------------------------------------------------------
(* The statements a step is made of. *)

rows == <<state, position, ttl, runVars, granted>>

Exhausting   == /\ At("exhaust")
                /\ \E j \in start.list : ReturnJobToQueue(j)
Claiming     == At("check") /\ MoveJobState(start.job, "pending", "active")
Blocking     == /\ At("tree") \/ At("prepare") \/ At("abandonJob")
                /\ DequeueJob(start.job, "active", "blocked")
Opening      == At("open") /\ \E r \in RunId : StartRun(r, start.job)
Abandoning   == At("abandonRun") /\ FinishRun(start.run, "failed")
Releasing    == At("release") /\ MoveJobState(start.job, "active", "pending")
Finishing    == \E r \in RunId : WorkAt(r, "finish") /\ FinishRun(r, work[r].how)
Returning    == \E r \in RunId : WorkAt(r, "move") /\ ReturnJobToQueue(runJob[r])
Settling     == \E r \in RunId : /\ WorkAt(r, "move") /\ ~Requeues(r)
                                 /\ DequeueJob(runJob[r], "active", Settled(r))
Amending     == \E r \in RunId : WorkAt(r, "amend") /\ FailRun(r)
Interrupting == daemon = "down" /\ InterruptRunsInProgress
Requeueing   == daemon = "recovering" /\ \E j \in leftover : ReturnJobToQueue(j)

\* What the user writes, and what the service does.
UserWrites ==
  \/ \E j \in Job, n \in Grants : AddJob(j, n) \/ Extend(j, n)
  \/ \E j \in Job : Cancel(j)
  \/ \E j \in Job, p \in 1..Cardinality(Job) : Reorder(j, p)
  \/ \E p \in Project : Remove(p)
ServiceWrites ==
  /\ UNCHANGED granted
  /\ \/ Exhausting \/ Claiming \/ Blocking \/ Opening \/ Abandoning \/ Releasing
     \/ Finishing \/ Returning \/ Settling \/ Amending
     \/ Interrupting \/ Requeueing

\* Every step is one of these or leaves the rows alone.
LEMMA RowSteps ==
  ASSUME [Next]_vars
  PROVE  UNCHANGED rows \/ UserWrites \/ ServiceWrites
<1> USE DEF rows, ServiceWrites
<1>1. CASE User
  BY <1>1 DEF User, UserWrites, EditConfig, storeVars, jobVars
<1>2. CASE \E j \in Job : Exhaust(j)
  BY <1>2 DEF Exhaust, Exhausting, storeVars, jobVars, startFrame
<1>3. CASE Claim
  BY <1>3 DEF Claim, Claiming, storeVars, jobVars, startFrame
<1>4. CASE AddWorktree \/ Prepare \/ AbandonJob
  BY <1>4 DEF AddWorktree, Prepare, AbandonJob, Blocking, Block, CannotDequeue, storeVars, jobVars,
              startFrame
<1>5. CASE OpenRun
  BY <1>5 DEF OpenRun, Opening, storeVars, jobVars, startFrame
<1>6. CASE AbandonRun
  BY <1>6 DEF AbandonRun, Abandoning, storeVars, jobVars, startFrame
<1>7. CASE Release
  BY <1>7 DEF Release, Releasing, storeVars, jobVars, startFrame
<1>8. CASE Scan \/ Refuse \/ Carry \/ RecordWorkspace \/ Launch \/ Uncarry \/ BeginStart
  BY <1>8 DEF Scan, Refuse, Carry, RecordWorkspace, Launch, Uncarry, BeginStart, storeVars,
              jobVars, startFrame
<1>9. ASSUME NEW r \in RunId, CarryOut(r)
      PROVE  UNCHANGED rows \/ ServiceWrites
  <2>1. CASE Finish(r)
    BY <2>1 DEF Finish, Finishing, workFrame, storeVars, jobVars
  <2>2. CASE MoveOn(r)
    BY <2>2 DEF MoveOn, Returning, Settling, CannotDequeue, workFrame, storeVars, jobVars
  <2>3. CASE Amend(r)
    BY <2>3 DEF Amend, Amending, workFrame, storeVars, jobVars
  <2>4. CASE (\E how \in Ended : AgentEnds(r, how)) \/ Verify(r) \/ RecordPlan(r) \/ Drop(r)
    BY <2>4 DEF AgentEnds, Verify, RecordPlan, Drop, workFrame, storeVars, jobVars
  <2> QED BY <1>9, <2>1, <2>2, <2>3, <2>4 DEF CarryOut
<1>10. CASE Recover
  BY <1>10 DEF Recover, Boot, RequeueLeftOver, Serve, Interrupting, Requeueing, lifeFrame,
               storeVars, jobVars
<1>11. CASE Stop \/ Close \/ RefuseStarts \/ Exit \/ Crash \/ UNCHANGED vars
  BY <1>11 DEF Stop, Close, RefuseStarts, Exit, Crash, vars, envVars, lifeFrame, storeVars, jobVars
<1> QED
  BY <1>1, <1>2, <1>3, <1>4, <1>5, <1>6, <1>7, <1>8, <1>9, <1>10, <1>11 DEF Next, Starting

\* The Jobs and Runs those statements are about are there.
LEMMA AboutRows ==
  ASSUME TypeOK, Attached
  PROVE  /\ Claiming \/ Blocking \/ Opening \/ Abandoning \/ Releasing => start.job \in Job
         /\ Abandoning => start.run \in RunId /\ runJob[start.run] = start.job
         /\ \A r \in RunId : ~WorkAt(r, "off") => runJob[r] \in Job
         /\ start.list \subseteq Job /\ leftover \subseteq Job
BY DEF Claiming, Blocking, Opening, Abandoning, Releasing, Attached, At, TypeOK, StartType

-----------------------------------------------------------------------------
(* Where the steps that write more than one field take a start or a goroutine. *)

\* Scan finds nothing, or a pending Job that nothing holds.
LEMMA ScanGoes ==
  ASSUME TypeOK, Scan
  PROVE  \/ start' = Idle
         \/ /\ start'.at = "check" /\ start'.job \in Job
            /\ state[start'.job] = "pending" /\ Queued(start'.job)
            /\ \E waiting \in SUBSET Throttled : Permits(start'.job, waiting)
<1> USE DEF TypeOK
<1>1. ASSUME NEW j, start' = [start EXCEPT !.at = "check", !.job = j]
      PROVE  start'.at = "check" /\ start'.job = j
  BY <1>1 DEF StartType
<1>2. Over \/ \E waiting \in SUBSET Throttled, j \in ListQueue("pending") :
                Permits(j, waiting) /\ start' = [start EXCEPT !.at = "check", !.job = j]
  BY DEF Scan
<1> QED BY <1>1, <1>2 DEF Over, ListQueue

\* Claim finds the Job taken, or takes it.
LEMMA ClaimGoes ==
  ASSUME TypeOK, Claim
  PROVE  \/ start' = Idle /\ UNCHANGED storeVars
         \/ /\ MoveJobState(start.job, "pending", "active")
            /\ start'.at = "carry" /\ start'.job = start.job
            /\ start'.acct = AccountFor(start.job) /\ AccountFor(start.job) # NoAccount
<1> USE DEF TypeOK
<1>1. ASSUME NEW a, start' = [start EXCEPT !.at = "carry", !.acct = a]
      PROVE  start'.at = "carry" /\ start'.job = start.job /\ start'.acct = a
  BY <1>1 DEF StartType
<1>2. \/ Over /\ UNCHANGED storeVars
      \/ /\ MoveJobState(start.job, "pending", "active")
         /\ AccountFor(start.job) # NoAccount
         /\ \E a : a = AccountFor(start.job) /\ start' = [start EXCEPT !.at = "carry", !.acct = a]
  BY DEF Claim
<1> QED BY <1>1, <1>2 DEF Over

\* OpenRun writes a row, or fails and lets go.
LEMMA OpenGoes ==
  ASSUME TypeOK, OpenRun
  PROVE  \/ /\ start'.at = "uncarry" /\ start'.job = start.job /\ UNCHANGED storeVars
            /\ Fails(~Exists(start.job) \/ ~Serving)
         \/ \E r \in RunId : /\ StartRun(r, start.job)
                            /\ start'.at = "launch" /\ start'.job = start.job /\ start'.run = r
                            /\ start'.acct = start.acct
<1> USE DEF TypeOK
<1>1. ASSUME NEW r, start' = [start EXCEPT !.at = "launch", !.run = r]
      PROVE  /\ start'.at = "launch" /\ start'.job = start.job /\ start'.run = r
             /\ start'.acct = start.acct
  BY <1>1 DEF StartType
<1>2. Goto("uncarry") => start'.at = "uncarry" /\ start'.job = start.job
  BY DEF Goto, StartType
<1> QED BY <1>1, <1>2 DEF OpenRun

\* Launch sets a goroutine off, or leaves a row behind to abandon.
LEMMA LaunchGoes ==
  ASSUME TypeOK, Attached, Launch
  PROVE  \/ /\ UNCHANGED <<storeVars, work>> /\ Fails(~Exists(start.job) \/ ~Serving)
            /\ start'.at = "abandonRun" /\ start'.job = start.job /\ start'.run = start.run
         \/ /\ Exists(start.job) /\ start' = Idle
            /\ work'[start.run].at = "agent" /\ work'[start.run].acct = start.acct
            /\ \A q \in RunId \ {start.run} : work'[q] = work[q]
<1> USE DEF TypeOK
<1>1. start.run \in RunId
  BY DEF Launch, Attached, At
<1>2. ASSUME NEW phase,
             work' = [work EXCEPT ![start.run] =
                       [Off EXCEPT !.at = "agent", !.acct = start.acct, !.phase = phase]]
      PROVE  /\ work'[start.run].at = "agent" /\ work'[start.run].acct = start.acct
             /\ \A q \in RunId \ {start.run} : work'[q] = work[q]
  <2> DEFINE begun == [Off EXCEPT !.at = "agent", !.acct = start.acct, !.phase = phase]
  <2>1. begun.at = "agent" /\ begun.acct = start.acct
    BY DEF Off
  <2> HIDE DEF begun
  <2>2. work' = [work EXCEPT ![start.run] = begun]
    BY <1>2 DEF begun
  <2> QED BY <1>1, <2>1, <2>2
<1>3. Goto("abandonRun") => /\ start'.at = "abandonRun" /\ start'.job = start.job
                            /\ start'.run = start.run
  BY DEF Goto, StartType
<1>4. \/ /\ UNCHANGED <<storeVars, work>> /\ Fails(~Exists(start.job) \/ ~Serving)
         /\ Goto("abandonRun")
      \/ /\ Exists(start.job) /\ Over
         /\ \E phase : work' = [work EXCEPT ![start.run] =
                         [Off EXCEPT !.at = "agent", !.acct = start.acct, !.phase = phase]]
  BY DEF Launch
<1> QED BY <1>2, <1>3, <1>4 DEF Over

\* The steps of a start that write one field: where they go, and that the Job and
\* the Run stay the ones they were.
LEMMA StartGoes ==
  ASSUME TypeOK
  PROVE  \A step : Goto(step) => /\ start'.at = step /\ start'.job = start.job
                                 /\ start'.run = start.run /\ start'.acct = start.acct
                                 /\ start'.list = start.list
BY DEF TypeOK, Goto, StartType

\* What each step of a goroutine makes of it.
LEMMA WorkGoes ==
  ASSUME TypeOK, NEW r \in RunId
  PROVE  /\ \A how \in Ended : AgentEnds(r, how) =>
              /\ work'[r].at \in {"verify", "plan", "finish"} /\ work'[r].how = how
              /\ work'[r].acct = work[r].acct
         /\ Verify(r) => /\ work'[r].at = "finish" /\ work'[r].how \in {work[r].how, "interrupted"}
                         /\ work'[r].acct = work[r].acct
         /\ RecordPlan(r) => /\ work'[r].at = "finish" /\ work'[r].how \in Ended \cup {work[r].how}
                             /\ work'[r].acct = work[r].acct
         /\ \A step : Advance(r, step) => /\ work'[r].at = step /\ work'[r].how = work[r].how
                                          /\ work'[r].phase = work[r].phase
                                          /\ work'[r].refused = work[r].refused
                                          /\ work'[r].acct = work[r].acct
         /\ Drop(r) => work'[r].at = "off"
<1> USE DEF TypeOK
<1>1. ASSUME NEW how, NEW step, work' = [work EXCEPT ![r].how = how, ![r].at = step]
      PROVE  work'[r].at = step /\ work'[r].how = how /\ work'[r].acct = work[r].acct
  BY <1>1 DEF WorkType
<1>2. \A how \in Ended : AgentEnds(r, how) =>
        \E step \in {"verify", "plan", "finish"} :
          work' = [work EXCEPT ![r].how = how, ![r].at = step]
  BY DEF AgentEnds, AfterAgent
<1>3. \A step : Advance(r, step) => /\ work'[r].at = step /\ work'[r].how = work[r].how
                                    /\ work'[r].phase = work[r].phase
                                    /\ work'[r].refused = work[r].refused
                                    /\ work'[r].acct = work[r].acct
  BY DEF Advance, WorkType
<1>4. Verify(r) => /\ work'[r].at = "finish" /\ work'[r].how \in {work[r].how, "interrupted"}
                   /\ work'[r].acct = work[r].acct
  BY DEF Verify, WorkType
<1>5. RecordPlan(r) => /\ work'[r].at = "finish" /\ work'[r].how \in Ended \cup {work[r].how}
                       /\ work'[r].acct = work[r].acct
  BY <1>3 DEF RecordPlan, WorkType, Ended
<1>6. Drop(r) => work'[r].at = "off"
  BY DEF Drop, Off
<1>7. \A how \in Ended : AgentEnds(r, how) =>
        /\ work'[r].at \in {"verify", "plan", "finish"} /\ work'[r].how = how
        /\ work'[r].acct = work[r].acct
  BY <1>1, <1>2
<1> HIDE DEF TypeOK
<1> QED BY <1>3, <1>4, <1>5, <1>6, <1>7

-----------------------------------------------------------------------------
(* The queue's places. *)

\* Whatever leaves the places alone and unadds no Job keeps them.
LEMMA KeepPlaces ==
  ASSUME Places, UNCHANGED position,
         \A i \in Job : state'[i] = "unborn" => state[i] = "unborn"
  PROVE  Places'
BY DEF Places, Whole, Distinct, Seated, Unplaced

\* Every step keeps the places whole.
LEMMA PlacesStep ==
  ASSUME TypeOK, Attached, Places, [Next]_vars
  PROVE  Places'
<1> USE DEF TypeOK, StoreTypeOK
<1>1. CASE UNCHANGED rows
  BY <1>1, KeepPlaces DEF rows
<1>2. CASE UserWrites
  <2>1. ASSUME NEW j \in Job, NEW n \in Grants, AddJob(j, n)
        PROVE  Places'
    BY <2>1, UpsertPlaces DEF AddJob
  <2>2. ASSUME NEW j \in Job, NEW n \in Grants, Extend(j, n)
        PROVE  Places'
    BY <2>2, KeepPlaces DEF Extend, ExtendJob
  <2>3. ASSUME NEW j \in Job, Cancel(j)
        PROVE  Places'
    BY <2>3, DequeuePlaces DEF Cancel
  <2>4. ASSUME NEW j \in Job, NEW p \in 1..Cardinality(Job), Reorder(j, p)
        PROVE  Places'
    <3>1. p \in Nat \ {0}
      BY StoreAssumption, FS_CardinalityType
    <3> QED BY <2>4, <3>1, MovePlaces DEF Reorder
  <2>5. ASSUME NEW p \in Project, Remove(p)
        PROVE  Places'
    BY <2>5, RemovePlaces DEF Remove
  <2> QED BY <1>2, <2>1, <2>2, <2>3, <2>4, <2>5 DEF UserWrites
<1>3. CASE ServiceWrites
  <2>1. CASE Exhausting \/ Returning \/ Requeueing \/ Claiming \/ Releasing
    BY <2>1, KeepPlaces
       DEF Exhausting, Returning, Requeueing, Claiming, Releasing, ReturnJobToQueue, MoveJobState
  <2>2. CASE Opening \/ Abandoning \/ Finishing \/ Amending \/ Interrupting
    BY <2>2, KeepPlaces
       DEF Opening, Abandoning, Finishing, Amending, Interrupting, StartRun, FinishRun, FailRun,
           InterruptRunsInProgress, jobVars
  <2>3. CASE Blocking
    BY <2>3, AboutRows, DequeuePlaces DEF Blocking
  <2>4. CASE Settling
    <3>1. PICK r \in RunId : WorkAt(r, "move") /\ DequeueJob(runJob[r], "active", Settled(r))
      BY <2>4 DEF Settling
    <3>2. runJob[r] \in Job /\ Settled(r) # "unborn"
      BY <3>1, AboutRows DEF WorkAt, Settled
    <3> QED BY <3>1, <3>2, DequeuePlaces
  <2> QED BY <1>3, <2>1, <2>2, <2>3, <2>4 DEF ServiceWrites
<1> QED BY <1>1, <1>2, <1>3, RowSteps

\* A queue nobody has added to has no places.
LEMMA InitPlaces == Init => Places
<1> SUFFICES ASSUME Init PROVE Places
  OBVIOUS
<1>1. position = [j \in Job |-> 0]
  BY DEF Init, StoreInit
<1>2. Seated(position) = {}
  BY <1>1 DEF Seated
<1> QED BY <1>1, <1>2, FS_EmptySet DEF Places, Whole, Distinct, Unplaced

\* Whatever leaves the queue, in whatever order and whatever fails, no place is
\* held twice and none is left empty (jobs.go:413-470, 504-540).
THEOREM PlacesStayWhole == Spec => []Places
<1>1. IInv /\ Places /\ [Next]_vars => Places'
  BY PlacesStep DEF IInv
<1> QED BY <1>1, InitPlaces, AlwaysIInv, PTL DEF Spec
-----------------------------------------------------------------------------
(* The queue's order, as ADR-0025 has it.                                   *)

\* Who stands ahead of whom, by the places of place.
Ahead(place) == {pair \in Job \X Job : /\ pair[1] \in Seated(place) /\ pair[2] \in Seated(place)
                                       /\ place[pair[1]] < place[pair[2]]}

\* How the Jobs of js stand to one another.
AheadIn(place, js) == {pair \in Ahead(place) : pair[1] \in js /\ pair[2] \in js}

\* Two Jobs stand to one another as their places do.
LEMMA AheadOf ==
  ASSUME NEW place, NEW i, NEW j
  PROVE  <<i, j>> \in Ahead(place) <=>
           i \in Seated(place) /\ j \in Seated(place) /\ place[i] < place[j]
BY DEF Ahead, Seated

\* renumber changes the numbers and never who stands ahead of whom.
LEMMA RenumberKeepsOrder ==
  ASSUME NEW place \in [Job -> Nat], NEW i \in Job, NEW j \in Job
  PROVE  Renumber(place)[i] < Renumber(place)[j] <=> place[i] < place[j]
<1>1. Renumber(place)[i] = Rank(place, i) /\ Renumber(place)[j] = Rank(place, j)
  BY DEF Renumber
<1>2. Rank(place, i) \in Nat /\ Rank(place, j) \in Nat
  BY RankType
<1>3. place[i] < place[j] => Rank(place, i) < Rank(place, j)
  BY RankOrders
<1>4. place[j] < place[i] => Rank(place, j) < Rank(place, i)
  BY RankOrders
<1>5. place[i] = place[j] => Rank(place, i) = Rank(place, j)
  BY DEF Rank
<1>6. place[i] \in Nat /\ place[j] \in Nat
  OBVIOUS
<1> QED BY <1>1, <1>2, <1>3, <1>4, <1>5, <1>6

\* The line as QueueOrder sees it is the places as they are here.
LEMMA LineIsPlaces ==
  /\ {j \in Job : Queued(j)} = Seated(position)
  /\ {j \in Job : Queued(j)}' = Seated(position')
  /\ {pair \in Job \X Job : /\ Queued(pair[1]) /\ Queued(pair[2])
                            /\ position[pair[1]] < position[pair[2]]} = Ahead(position)
  /\ {pair \in Job \X Job : /\ Queued(pair[1]) /\ Queued(pair[2])
                            /\ position[pair[1]] < position[pair[2]]}' = Ahead(position')
BY DEF Queued, Seated, Ahead

\* A new Job is behind everybody there is (UpsertJob, jobs.go:177-224).
LEMMA UpsertJoins ==
  ASSUME StoreTypeOK, Places, NEW j \in Job, NEW n, NEW planned, UpsertJob(j, n, planned)
  PROVE  /\ j \notin Seated(position)
         /\ Seated(position') = Seated(position) \cup {j}
         /\ Ahead(position') = Ahead(position) \cup (Seated(position) \X {j})
<1>1. PICK p \in 1..Cardinality(Job) :
        /\ \A i \in Job : position[i] < p
        /\ position' = [position EXCEPT ![j] = p]
  BY DEF UpsertJob
<1>2. p \in Nat /\ p # 0
  BY <1>1, StoreAssumption, FS_CardinalityType
<1>3. position \in [Job -> Nat] /\ position[j] = 0
  BY DEF StoreTypeOK, Places, Unplaced, UpsertJob
<1>4. position'[j] = p /\ \A i \in Job \ {j} : position'[i] = position[i]
  BY <1>1, <1>3
<1>5. j \notin Seated(position) /\ Seated(position') = Seated(position) \cup {j}
  BY <1>2, <1>3, <1>4 DEF Seated
<1>6. ASSUME NEW a \in Job, NEW b \in Job
      PROVE  <<a, b>> \in Ahead(position') <=>
               <<a, b>> \in Ahead(position) \/ (a \in Seated(position) /\ b = j)
  <2>1. position[a] \in Nat /\ position[b] \in Nat /\ position[a] < p /\ position[b] < p
    BY <1>1, <1>3
  <2>2. CASE a = j
    BY <1>2, <1>4, <1>5, <2>1, <2>2, AheadOf
  <2>3. CASE a # j /\ b = j
    BY <1>4, <1>5, <2>1, <2>3, AheadOf
  <2>4. CASE a # j /\ b # j
    BY <1>4, <1>5, <2>4, AheadOf
  <2> QED BY <2>2, <2>3, <2>4
<1>7. /\ Ahead(position') \subseteq Job \X Job /\ Ahead(position) \subseteq Job \X Job
      /\ Seated(position) \subseteq Job
  BY DEF Ahead, Seated
<1>8. Ahead(position') = Ahead(position) \cup (Seated(position) \X {j})
  BY <1>6, <1>7
<1> QED BY <1>5, <1>8

\* Whoever leaves, the rest stand to one another as they did (DequeueJob,
\* RemoveProject).
LEMMA LeavingKeepsOrder ==
  ASSUME NEW place \in [Job -> Nat], NEW out \in SUBSET Job, NEW to,
         to = Renumber([i \in Job |-> IF i \in out THEN 0 ELSE place[i]])
  PROVE  /\ Seated(to) = Seated(place) \ out
         /\ Ahead(to) = AheadIn(place, Seated(place) \ out)
<1> DEFINE rest == [i \in Job |-> IF i \in out THEN 0 ELSE place[i]]
<1>1. rest \in [Job -> Nat] /\ Seated(rest) = Seated(place) \ out
  BY DEF Seated
<1>2. \A i \in Job : i \notin out => rest[i] = place[i]
  OBVIOUS
<1> HIDE DEF rest
<1>3. to = Renumber(rest)
  BY DEF rest
<1>4. Seated(to) = Seated(place) \ out
  <2>1. \A i \in Job : to[i] # 0 <=> rest[i] # 0
    BY <1>1, <1>3, RenumberSeats
  <2> QED BY <1>1, <2>1 DEF Seated
<1>5. ASSUME NEW a \in Job, NEW b \in Job
      PROVE  <<a, b>> \in Ahead(to) <=> /\ <<a, b>> \in Ahead(place)
                                        /\ a \in Seated(place) \ out /\ b \in Seated(place) \ out
  <2>1. to[a] < to[b] <=> rest[a] < rest[b]
    BY <1>1, <1>3, RenumberKeepsOrder
  <2>2. a \notin out /\ b \notin out => (rest[a] < rest[b] <=> place[a] < place[b])
    BY <1>2
  <2> QED BY <1>4, <2>1, <2>2, AheadOf
<1>6. Ahead(to) \subseteq Job \X Job /\ Ahead(place) \subseteq Job \X Job
  BY DEF Ahead
<1>7. Ahead(to) = AheadIn(place, Seated(place) \ out)
  BY <1>5, <1>6 DEF AheadIn
<1> QED BY <1>4, <1>7

\* A Job put at another seat goes behind some first part of the others and ahead
\* of the rest, who stand to one another as they did (MoveJob, jobs.go:440-469).
LEMMA InsertMoves ==
  ASSUME NEW place \in [Job -> Nat], Whole(place), NEW j \in Seated(place),
         NEW p \in 1..Cardinality(Seated(place)), NEW to, to = Insert(place, j, p)
  PROVE  \E front \in SUBSET (Seated(place) \ {j}) :
           /\ \A pair \in AheadIn(place, Seated(place) \ {j}) :
                pair[2] \in front => pair[1] \in front
           /\ Ahead(to) = AheadIn(place, Seated(place) \ {j})
                            \cup (front \X {j})
                            \cup ({j} \X (Seated(place) \ (front \cup {j})))
<1> DEFINE S      == Seated(place)
           others == Renumber([place EXCEPT ![j] = 0])
           rest   == AheadIn(place, S \ {j})
           front  == {i \in S \ {j} : to[i] < p}
<1>1. j \in Job /\ p \in Nat \ {0}
  BY SeatedFinite DEF Seated
<1>2. to \in [Job -> Nat] /\ Seated(to) = S
  BY InsertWhole
<1>3. others = Renumber([i \in Job |-> IF i \in {j} THEN 0 ELSE place[i]])
  <2>1. [place EXCEPT ![j] = 0] = [i \in Job |-> IF i \in {j} THEN 0 ELSE place[i]]
    BY <1>1
  <2> QED BY <2>1
<1>4. others \in [Job -> Nat]
  BY RenumberType
<1>5. \A i \in Job : to[i] = IF i = j THEN p
                             ELSE IF others[i] >= p THEN others[i] + 1 ELSE others[i]
  BY DEF Insert
<1>6. Ahead(others) = rest /\ Seated(others) = S \ {j}
  <2>1. {j} \in SUBSET Job
    BY <1>1
  <2> HIDE DEF others
  <2> QED BY <1>3, <2>1, LeavingKeepsOrder
<1> HIDE DEF others
<1>7. \A i \in Job \ {j} : to[i] # p
  BY <1>1, <1>4, <1>5
<1>8. \A a, b \in Job \ {j} : to[a] < to[b] <=> others[a] < others[b]
  <2> SUFFICES ASSUME NEW a \in Job \ {j}, NEW b \in Job \ {j}
               PROVE  to[a] < to[b] <=> others[a] < others[b]
    OBVIOUS
  <2>1. others[a] \in Nat /\ others[b] \in Nat
    BY <1>4
  <2>2. to[a] = IF others[a] >= p THEN others[a] + 1 ELSE others[a]
    BY <1>5
  <2>3. to[b] = IF others[b] >= p THEN others[b] + 1 ELSE others[b]
    BY <1>5
  <2> QED BY <1>1, <2>1, <2>2, <2>3
<1>9. ASSUME NEW a \in S \ {j}, NEW b \in S \ {j}
      PROVE  <<a, b>> \in rest <=> to[a] < to[b]
  <2>1. a \in Job \ {j} /\ b \in Job \ {j}
    BY DEF Seated
  <2> HIDE DEF rest
  <2> QED BY <1>6, <1>8, <2>1, AheadOf
<1>10. \A pair \in rest : pair[2] \in front => pair[1] \in front
  <2> SUFFICES ASSUME NEW pair \in rest, pair[2] \in front
               PROVE  pair[1] \in front
    OBVIOUS
  <2>1. pair = <<pair[1], pair[2]>> /\ pair[1] \in S \ {j} /\ pair[2] \in S \ {j}
    BY DEF Ahead, AheadIn
  <2> HIDE DEF rest
  <2>2. to[pair[1]] < to[pair[2]]
    BY <1>9, <2>1
  <2>3. to[pair[1]] \in Nat /\ to[pair[2]] \in Nat /\ to[pair[2]] < p
    BY <1>2, <2>1 DEF Seated
  <2> QED BY <1>1, <2>1, <2>2, <2>3
<1>11. ASSUME NEW a \in S, NEW b \in S
       PROVE  <<a, b>> \in Ahead(to) <=> \/ <<a, b>> \in rest
                                         \/ a \in front /\ b = j
                                         \/ a = j /\ b \in S \ (front \cup {j})
  <2>1. <<a, b>> \in Ahead(to) <=> to[a] < to[b]
    BY <1>2, AheadOf
  <2>2. a \in Job /\ b \in Job /\ to[a] \in Nat /\ to[b] \in Nat
    BY <1>2 DEF Seated
  <2>3. to[j] = p
    BY <1>1, <1>5
  <2>4. <<a, b>> \in rest => a # j /\ b # j
    BY DEF AheadIn
  <2> HIDE DEF rest
  <2>5. CASE a # j /\ b # j
    BY <1>9, <2>1, <2>5
  <2>6. CASE a # j /\ b = j
    BY <2>1, <2>3, <2>4, <2>6
  <2>7. CASE a = j /\ b # j
    <3>1. to[b] # p
      BY <1>7, <2>2, <2>7
    <3>2. p < to[b] <=> ~(to[b] < p)
      BY <1>1, <2>2, <3>1
    <3> QED BY <2>1, <2>3, <2>4, <2>7, <3>2
  <2>8. CASE a = j /\ b = j
    BY <1>1, <2>1, <2>3, <2>4, <2>8
  <2> QED BY <2>5, <2>6, <2>7, <2>8
<1>12. Ahead(to) \subseteq S \X S /\ rest \subseteq S \X S /\ front \subseteq S /\ j \in S
  BY <1>2 DEF Ahead, AheadIn
<1>13. Ahead(to) = rest \cup (front \X {j}) \cup ({j} \X (S \ (front \cup {j})))
  <2> HIDE DEF rest, front, S
  <2> QED BY <1>11, <1>12
<1>14. front \in SUBSET (S \ {j})
  OBVIOUS
<1> QED BY <1>10, <1>13, <1>14

\* The Jobs of the line that wait.
WaitingNow == {j \in Seated(position) : state[j] = "pending"}

\* Which of the line wait is what a listing of the queue says.
LEMMA WaitingIsListed == ListQueue("pending") = WaitingNow /\ ListQueue("pending")' = WaitingNow'
BY DEF ListQueue, WaitingNow, Queued, Seated

\* What becomes of the line when no place is written: others of it wait.
LEMMA PlacesAlone ==
  ASSUME UNCHANGED position
  PROVE  Line!Next
<1> DEFINE js == {j \in Job : position'[j] # 0 /\ state'[j] = "pending"}
<1>1. js \in SUBSET Job /\ js = WaitingNow' /\ js \subseteq Seated(position)
  BY DEF WaitingNow, Seated
<1>2. Seated(position') = Seated(position) /\ Ahead(position') = Ahead(position)
  OBVIOUS
<1> HIDE DEF js
<1>3. Line!Wait(js)
  BY <1>1, <1>2, LineIsPlaces, WaitingIsListed DEF Line!Wait
<1> QED BY <1>1, <1>3 DEF Line!Next

\* ... when a Job is taken out of it,
LEMMA DequeueLeaves ==
  ASSUME StoreTypeOK, NEW j \in Job, NEW from, NEW to, to # "pending", DequeueJob(j, from, to)
  PROVE  Line!Next
<1>1. {j} \in SUBSET Job /\ position \in [Job -> Nat]
  BY DEF StoreTypeOK
<1>2. [position EXCEPT ![j] = 0] = [i \in Job |-> IF i \in {j} THEN 0 ELSE position[i]]
  BY <1>1
<1>3. /\ Seated(position') = Seated(position) \ {j}
      /\ Ahead(position') = AheadIn(position, Seated(position) \ {j})
  BY <1>1, <1>2, LeavingKeepsOrder DEF DequeueJob
<1>4. WaitingNow' = WaitingNow \ {j}
  BY <1>3 DEF WaitingNow, DequeueJob, StoreTypeOK, Seated
<1>5. Line!Leave({j})
  BY <1>3, <1>4, LineIsPlaces, WaitingIsListed DEF Line!Leave, Line!Among, AheadIn
<1> QED BY <1>1, <1>5 DEF Line!Next

\* ... when a Project goes with its Jobs,
LEMMA RemoveLeaves ==
  ASSUME StoreTypeOK, NEW p, RemoveProject(p)
  PROVE  Line!Next
<1> DEFINE lost == {j \in Job : ProjectOf[j] = p /\ Exists(j)}
<1>1. lost \in SUBSET Job /\ position \in [Job -> Nat]
  BY DEF StoreTypeOK
<1>2. position' = Renumber([i \in Job |-> IF i \in lost THEN 0 ELSE position[i]])
  BY DEF RemoveProject
<1>3. state' = [i \in Job |-> IF i \in lost THEN "gone" ELSE state[i]]
  BY DEF RemoveProject
<1> HIDE DEF lost
<1> PICK out \in SUBSET Job : out = lost
  BY <1>1
<1>4. /\ Seated(position') = Seated(position) \ out
      /\ Ahead(position') = AheadIn(position, Seated(position) \ out)
  BY <1>1, <1>2, LeavingKeepsOrder
<1>5. WaitingNow' = WaitingNow \ out
  BY <1>3, <1>4 DEF WaitingNow, Seated
<1>6. Line!Leave(out)
  BY <1>4, <1>5, LineIsPlaces, WaitingIsListed DEF Line!Leave, Line!Among, AheadIn
<1> QED BY <1>6 DEF Line!Next

\* ... when a Job is added to it,
LEMMA AddJoins ==
  ASSUME StoreTypeOK, Places, NEW j \in Job, NEW n, NEW planned, UpsertJob(j, n, planned)
  PROVE  Line!Next
<1>1. /\ j \notin Seated(position)
      /\ Seated(position') = Seated(position) \cup {j}
      /\ Ahead(position') = Ahead(position) \cup (Seated(position) \X {j})
  BY UpsertJoins
<1>2. WaitingNow' = WaitingNow \cup {j}
  BY <1>1 DEF WaitingNow, UpsertJob, StoreTypeOK, Seated
<1>3. Line!Join(j)
  BY <1>1, <1>2, LineIsPlaces, WaitingIsListed DEF Line!Join
<1> QED BY <1>3 DEF Line!Next

\* ... and when one that waits is moved in it.
LEMMA ReorderMoves ==
  ASSUME StoreTypeOK, Places, NEW j \in Job, NEW p \in Nat \ {0}, MoveJob(j, p, "pending")
  PROVE  Line!Next
<1> DEFINE n    == Cardinality(Seated(position))
           seat == IF p > n THEN n ELSE p
<1>1. position' = Insert(position, j, seat) /\ state' = state
  BY LineIsPlaces DEF MoveJob
<1>2. j \in Seated(position) /\ j \in WaitingNow
  BY DEF MoveJob, StillQueued, Queued, Seated, WaitingNow
<1>3. seat \in 1..n
  <2>1. n \in Nat /\ n # 0
    BY <1>2, SeatedFinite, FS_EmptySet
  <2> QED BY <2>1
<1>4. Seated(position') = Seated(position) /\ WaitingNow' = WaitingNow
  BY <1>1, MovePlaces DEF WaitingNow
<1>5. PICK place, to, q : place = position /\ to = position' /\ q = seat
  OBVIOUS
<1> HIDE DEF seat
<1>6. /\ place \in [Job -> Nat] /\ Whole(place) /\ j \in Seated(place)
      /\ q \in 1..Cardinality(Seated(place)) /\ to = Insert(place, j, q)
  BY <1>1, <1>2, <1>3, <1>5 DEF StoreTypeOK, Places
<1>7. \E front \in SUBSET (Seated(place) \ {j}) :
        /\ \A pair \in AheadIn(place, Seated(place) \ {j}) :
             pair[2] \in front => pair[1] \in front
        /\ Ahead(to) = AheadIn(place, Seated(place) \ {j})
                         \cup (front \X {j})
                         \cup ({j} \X (Seated(place) \ (front \cup {j})))
  BY <1>5, <1>6, InsertMoves
<1>8. PICK front \in SUBSET (Seated(position) \ {j}) :
         /\ \A pair \in AheadIn(position, Seated(position) \ {j}) :
              pair[2] \in front => pair[1] \in front
         /\ Ahead(position') = AheadIn(position, Seated(position) \ {j})
                                 \cup (front \X {j})
                                 \cup ({j} \X (Seated(position) \ (front \cup {j})))
  BY <1>5, <1>7
<1>9. Line!Move(j)
  BY <1>2, <1>4, <1>8, LineIsPlaces, WaitingIsListed DEF Line!Move, Line!Among, AheadIn
<1> QED BY <1>9 DEF Line!Next

\* Every step of the service moves the line as QueueOrder lets it, or leaves it.
LEMMA OrderStep ==
  ASSUME TypeOK, Attached, Places, [Next]_vars
  PROVE  Line!Next
<1> USE DEF TypeOK
<1>1. CASE UNCHANGED rows
  BY <1>1, PlacesAlone DEF rows
<1>2. CASE UserWrites
  <2>1. ASSUME NEW j \in Job, NEW n \in Grants, AddJob(j, n) PROVE Line!Next
    BY <2>1, AddJoins DEF AddJob
  <2>2. ASSUME NEW j \in Job, NEW n \in Grants, Extend(j, n) PROVE Line!Next
    BY <2>2, PlacesAlone DEF Extend, ExtendJob
  <2>3. ASSUME NEW j \in Job, Cancel(j) PROVE Line!Next
    BY <2>3, DequeueLeaves DEF Cancel
  <2>4. ASSUME NEW j \in Job, NEW p \in 1..Cardinality(Job), Reorder(j, p) PROVE Line!Next
    <3>1. p \in Nat \ {0}
      BY StoreAssumption, FS_CardinalityType
    <3> QED BY <2>4, <3>1, ReorderMoves DEF Reorder
  <2>5. ASSUME NEW p \in Project, Remove(p) PROVE Line!Next
    BY <2>5, RemoveLeaves DEF Remove
  <2> QED BY <1>2, <2>1, <2>2, <2>3, <2>4, <2>5 DEF UserWrites
<1>3. CASE ServiceWrites
  <2>1. CASE Exhausting \/ Returning \/ Requeueing \/ Claiming \/ Releasing
    BY <2>1, PlacesAlone
       DEF Exhausting, Returning, Requeueing, Claiming, Releasing, ReturnJobToQueue, MoveJobState
  <2>2. CASE Opening \/ Abandoning \/ Finishing \/ Amending \/ Interrupting
    BY <2>2, PlacesAlone
       DEF Opening, Abandoning, Finishing, Amending, Interrupting, StartRun, FinishRun, FailRun,
           InterruptRunsInProgress, jobVars
  <2>3. CASE Blocking
    BY <2>3, AboutRows, DequeueLeaves DEF Blocking
  <2>4. CASE Settling
    <3>1. PICK r \in RunId : WorkAt(r, "move") /\ DequeueJob(runJob[r], "active", Settled(r))
      BY <2>4 DEF Settling
    <3>2. runJob[r] \in Job /\ Settled(r) # "pending"
      BY <3>1, AboutRows DEF WorkAt, Settled
    <3> QED BY <3>1, <3>2, DequeueLeaves
  <2> QED BY <1>3, <2>1, <2>2, <2>3, <2>4 DEF ServiceWrites
<1> QED BY <1>1, <1>2, <1>3, RowSteps

\* The queue keeps the order of ADR-0025, whoever is added, taken up, put back,
\* moved or lost and whatever fails in between: a Job joins behind everybody,
\* keeps its place among the rest until it leaves, and only a reorder of a Job
\* that waits changes who is ahead of whom (jobs.go:413-570, projects.go:132-160).
THEOREM ServiceKeepsOrder == Spec => KeepsOrder
<1>1. Init => Line!Init
  <2> SUFFICES ASSUME Init PROVE Line!Init
    OBVIOUS
  <2>1. position = [j \in Job |-> 0]
    BY DEF Init, StoreInit
  <2>2. Seated(position) = {}
    BY <2>1 DEF Seated
  <2>3. Ahead(position) = {} /\ WaitingNow = {}
    BY <2>2 DEF Ahead, WaitingNow
  <2> QED BY <2>2, <2>3, LineIsPlaces, WaitingIsListed DEF Line!Init
<1>2. IInv /\ Places /\ [Next]_vars => [Line!Next]_(Line!vars)
  BY OrderStep DEF IInv
<1> QED BY <1>1, <1>2, AlwaysIInv, PlacesStayWhole, PTL DEF Spec, KeepsOrder, Line!Spec

-----------------------------------------------------------------------------
(* What the daemon says it carries. *)

\* A start that is past letting go of its Job carries it no longer.
LetGo == At("release") => start.job \notin carrying

\* A step adds to what is carried only where the start holds it, and leaves
\* nothing carried that nothing is on.
LEMMA CarriesStep ==
  ASSUME TypeOK, Attached, CarriesWhatItDoes, LetGo, [Next]_vars
  PROVE  CarriesWhatItDoes' /\ LetGo'
<1> USE DEF TypeOK, StoreTypeOK, At, WorkAt, CarriesWhatItDoes, LetGo, Holding
<1>1. CASE UNCHANGED <<start, work, runJob, carrying>>
  BY <1>1
<1>2. CASE User
  <2>1. UNCHANGED <<start, work, runJob, carrying>>
    BY <1>2 DEF User, AddJob, Cancel, Extend, Reorder, Remove, EditConfig, daemonVars, storeVars,
                runVars, UpsertJob, DequeueJob, ExtendJob, MoveJob, RemoveProject
  <2> QED BY <1>1, <2>1
<1>3. CASE BeginStart
  BY <1>3 DEF BeginStart, Idle, startFrame, storeVars, runVars
<1>4. CASE (\E j \in Job : Exhaust(j)) \/ Scan \/ Refuse
  <2>1. UNCHANGED <<work, runJob, carrying>>
    BY <1>4 DEF Exhaust, Scan, Refuse, ReturnJobToQueue, startFrame, storeVars, runVars
  <2>2. start'.at \in {"exhaust", "check", "idle"}
    <3>1. CASE \E j \in Job : Exhaust(j)
      BY <3>1 DEF Exhaust, Over, Idle, StartType
    <3>2. CASE Scan
      BY <3>2, ScanGoes DEF Idle
    <3>3. CASE Refuse
      BY <3>3 DEF Refuse, Over, Idle
    <3> QED BY <1>4, <3>1, <3>2, <3>3
  <2>3. ~Holding
    BY <1>4 DEF Exhaust, Scan, Refuse
  <2> QED BY <2>1, <2>2, <2>3
<1>5. CASE Claim
  <2>1. UNCHANGED <<work, runJob, carrying>> /\ ~Holding
    BY <1>5 DEF Claim, MoveJobState, startFrame, storeVars, runVars
  <2>2. start'.at # "release"
    BY <1>5, ClaimGoes DEF Idle
  <2> QED BY <2>1, <2>2
<1>6. CASE Carry \/ AddWorktree \/ RecordWorkspace \/ Prepare \/ AbandonRun \/ AbandonJob \/ Uncarry
  <2>1. UNCHANGED <<work, runJob>>
    BY <1>6 DEF Carry, AddWorktree, RecordWorkspace, Prepare, AbandonRun, AbandonJob, Uncarry, Block,
                DequeueJob, CannotDequeue, FinishRun, startFrame, storeVars, runVars
  <2>2. start'.job = start.job /\ Holding'
    BY <1>6 DEF Carry, AddWorktree, RecordWorkspace, Prepare, AbandonRun, AbandonJob, Uncarry, Goto,
                StartType
  <2>3. /\ carrying' \subseteq carrying \cup {start.job}
        /\ start'.at = "release" => start.job \notin carrying'
    BY <1>6 DEF Carry, AddWorktree, RecordWorkspace, Prepare, AbandonRun, AbandonJob, Uncarry, Goto,
                StartType
  <2> QED
    BY <1>6, <2>1, <2>2, <2>3
       DEF Carry, AddWorktree, RecordWorkspace, Prepare, AbandonRun, AbandonJob, Uncarry
<1>7. CASE OpenRun
  <2>1. UNCHANGED <<work, carrying>>
    BY <1>7 DEF OpenRun, startFrame
  <2>2. start'.job = start.job /\ start'.at \in {"launch", "uncarry"}
    BY <1>7, OpenGoes
  <2>3. \A r \in RunId : ~WorkAt(r, "off") => runJob'[r] = runJob[r]
    <3>1. ASSUME NEW r \in RunId, StartRun(r, start.job)
          PROVE  outcome[r] = "unused" /\ \A q \in RunId \ {r} : runJob'[q] = runJob[q]
      BY <3>1 DEF StartRun, NextRun
    <3>2. UNCHANGED storeVars \/ \E r \in RunId : StartRun(r, start.job)
      BY <1>7 DEF OpenRun
    <3> QED BY <3>1, <3>2 DEF Attached, storeVars, runVars
  <2> QED BY <1>7, <2>1, <2>2, <2>3 DEF OpenRun
<1>8. CASE Launch
  <2>1. start.run \in RunId /\ runJob[start.run] = start.job /\ WorkAt(start.run, "off")
    BY <1>8 DEF Launch, Attached
  <2>2. UNCHANGED <<runJob, carrying>>
    BY <1>8 DEF Launch, storeVars, runVars
  <2>3. CASE start'.at = "abandonRun" /\ start'.job = start.job /\ UNCHANGED work
    BY <1>8, <2>2, <2>3 DEF Launch
  <2>4. CASE /\ start' = Idle /\ work'[start.run].at = "agent"
             /\ \A q \in RunId \ {start.run} : work'[q] = work[q]
    BY <2>1, <2>2, <2>4 DEF Idle
  <2> QED BY <1>8, <2>3, <2>4, LaunchGoes
<1>9. CASE Release
  BY <1>9 DEF Release, MoveJobState, Over, Idle, startFrame, storeVars, runVars
<1>10. ASSUME NEW r \in RunId, CarryOut(r)
       PROVE  CarriesWhatItDoes' /\ LetGo'
  <2>1. UNCHANGED <<start, runJob>> /\ \A q \in RunId \ {r} : work'[q] = work[q]
    BY <1>10, CarryOutFrame
  <2>2. CASE Drop(r)
    <3>1. carrying' = carrying \ {runJob[r]}
      BY <2>2 DEF Drop
    <3> QED BY <2>1, <3>1
  <2>3. CASE ~Drop(r)
    <3>1. UNCHANGED carrying
      BY <1>10, <2>3 DEF CarryOut, AgentEnds, Verify, RecordPlan, Finish, MoveOn, Amend
    <3>2. work'[r].at # "off"
      BY <1>10, <2>3, WorkGoes DEF CarryOut, Finish, MoveOn, Amend
    <3> QED BY <2>1, <3>1, <3>2
  <2> QED BY <2>2, <2>3
<1>11. CASE Recover \/ Stop \/ Close \/ RefuseStarts \/ UNCHANGED vars
  BY <1>1, <1>11
     DEF Recover, Boot, RequeueLeftOver, Serve, Stop, Close, RefuseStarts, vars, daemonVars,
         InterruptRunsInProgress, ReturnJobToQueue, storeVars, runVars
<1>12. CASE Exit \/ Crash
  BY <1>12 DEF Exit, Crash, Idle
<1> QED
  BY <1>2, <1>3, <1>4, <1>5, <1>6, <1>7, <1>8, <1>9, <1>10, <1>11, <1>12 DEF Next, Starting

\* A Job is carried by nobody only once nobody is on it: every way out of a start
\* and of a goroutine lets go of it (run.go:495-500, 951-954).
THEOREM NothingCarriedForNobody == Spec => []CarriesWhatItDoes
<1>1. Init => CarriesWhatItDoes /\ LetGo
  BY DEF Init, CarriesWhatItDoes, LetGo, Idle, At
<1>2. IInv /\ CarriesWhatItDoes /\ LetGo /\ [Next]_vars => CarriesWhatItDoes' /\ LetGo'
  BY CarriesStep DEF IInv
<1> QED BY <1>1, <1>2, AlwaysIInv, PTL DEF Spec

-----------------------------------------------------------------------------
(* What a Job is charged. *)

\* A goroutine that is past its Agent knows how the Run ended.
Concluded ==
  \A r \in RunId : work[r].at \notin {"off", "agent"} => work[r].how \in Ended

\* It is the Agent's end that says so, and nothing unsays it.
LEMMA ConcludedStep ==
  ASSUME TypeOK, Attached, Concluded, [Next]_vars
  PROVE  Concluded'
<1> USE DEF TypeOK, Concluded, WorkAt
<1>1. CASE UNCHANGED work
  BY <1>1
<1>2. CASE Launch
  BY <1>1, <1>2, LaunchGoes DEF Launch, Attached, At
<1>3. ASSUME NEW r \in RunId, CarryOut(r)
      PROVE  Concluded'
  <2>1. \A q \in RunId \ {r} : work'[q] = work[q]
    BY <1>3, CarryOutFrame
  <2>2. work'[r].at \in {"off", "agent"} \/ work'[r].how \in Ended
    <3>1. ~WorkAt(r, "agent") => work[r].how \in Ended
      BY <1>3, CarryOutFrame
    <3> QED
      BY <1>3, <3>1, WorkGoes
         DEF CarryOut, Verify, RecordPlan, Finish, MoveOn, Amend, Ended
  <2> QED BY <2>1, <2>2
<1>4. CASE User \/ BeginStart \/ Recover \/ Stop \/ Close \/ RefuseStarts \/ Exit \/ UNCHANGED vars
  BY <1>1, <1>4
     DEF User, AddJob, Cancel, Extend, Reorder, Remove, EditConfig, BeginStart, startFrame, Recover,
         Boot, RequeueLeftOver, Serve, Stop, Close, RefuseStarts, Exit, vars, daemonVars
<1>5. CASE Starting /\ ~Launch
  BY <1>1, <1>5, StartingFrame
<1>6. CASE Crash
  BY <1>6 DEF Crash, Off
<1> QED BY <1>2, <1>3, <1>4, <1>5, <1>6 DEF Next

\* There are no more Runs than Run rows, and one more is counted as one more.
LEMMA MoreRuns ==
  ASSUME NEW A \in SUBSET RunId, NEW B \in SUBSET RunId, A \subseteq B
  PROVE  /\ Cardinality(A) \in Nat /\ Cardinality(B) \in Nat
         /\ Cardinality(A) <= Cardinality(B)
         /\ A # B => Cardinality(A) + 1 <= Cardinality(B)
<1>1. IsFiniteSet(RunId)
  BY StoreAssumption, FS_Interval DEF RunId
<1>2. IsFiniteSet(A) /\ IsFiniteSet(B)
  BY <1>1, FS_Subset
<1> QED BY <1>2, FS_Subset, FS_CardinalityType

\* A step leaves what a Job has left and what it has spent alone, or spends what
\* it records.
LEMMA ChargedStep ==
  ASSUME TypeOK, Attached, Concluded, NeverOvercharged, [Next]_vars
  PROVE  NeverOvercharged'
<1> USE DEF TypeOK, StoreTypeOK
<1> SUFFICES ASSUME NEW j \in Job, Exists(j)'
             PROVE  ttl'[j] + Cardinality(EndedRuns(j)') >= granted'[j]
  BY DEF NeverOvercharged
<1>1. EndedRuns(j) \in SUBSET RunId /\ EndedRuns(j)' \in SUBSET RunId
  BY DEF EndedRuns
<1>2. ttl[j] \in Nat /\ granted[j] \in Nat /\ MaxAttempts \in Nat
  BY MaxAttemptsType
<1>3. Cardinality(EndedRuns(j)) \in Nat /\ Cardinality(EndedRuns(j)') \in Nat
  BY <1>1, MoreRuns
<1>4. Exists(j) => ttl[j] + Cardinality(EndedRuns(j)) >= granted[j]
  BY DEF NeverOvercharged
<1>5. CASE /\ Exists(j) /\ granted'[j] = granted[j]
           /\ EndedRuns(j) \subseteq EndedRuns(j)'
           /\ \/ ttl'[j] = ttl[j]
              \/ EndedRuns(j) # EndedRuns(j)' /\ ttl'[j] \in Nat /\ ttl'[j] + 1 >= ttl[j]
  <2>1. CASE ttl'[j] = ttl[j]
    BY <1>1, <1>2, <1>3, <1>4, <1>5, <2>1, MoreRuns
  <2>2. CASE EndedRuns(j) # EndedRuns(j)' /\ ttl'[j] \in Nat /\ ttl'[j] + 1 >= ttl[j]
    <3>1. Cardinality(EndedRuns(j)) + 1 <= Cardinality(EndedRuns(j)')
      BY <1>1, <1>5, <2>2, MoreRuns
    <3> QED BY <1>2, <1>3, <1>4, <1>5, <2>2, <3>1
  <2> QED BY <1>5, <2>1, <2>2
<1>6. CASE UNCHANGED rows
  BY <1>5, <1>6 DEF rows, runVars, Exists, EndedRuns
<1>7. CASE UserWrites
  <2>1. ASSUME NEW i \in Job, NEW n \in Grants, AddJob(i, n)
        PROVE  ttl'[j] + Cardinality(EndedRuns(j)') >= granted'[j]
    <3>0. n \in Nat
      BY ServiceAssumption, MaxAttemptsType
    <3>1. CASE i = j
      <4>1. ttl'[j] = n /\ granted'[j] = n
        BY <2>1, <3>1 DEF AddJob, UpsertJob
      <4> QED BY <1>3, <3>0, <4>1
    <3>2. CASE i # j
      BY <1>5, <2>1, <3>2 DEF AddJob, UpsertJob, Exists, EndedRuns, runVars
    <3> QED BY <3>1, <3>2
  <2>2. ASSUME NEW i \in Job, NEW n \in Grants, Extend(i, n)
        PROVE  ttl'[j] + Cardinality(EndedRuns(j)') >= granted'[j]
    <3>0. n \in Nat
      BY ServiceAssumption, MaxAttemptsType
    <3>1. CASE i = j
      <4>1. EndedRuns(j)' = EndedRuns(j) /\ Exists(j)
        BY <2>2, <3>1 DEF Extend, ExtendJob, EndedRuns, runVars
      <4>2. ttl'[j] = Topped(j, n) /\ granted'[j] = granted[j] + (Topped(j, n) - ttl[j])
        BY <2>2, <3>1 DEF Extend, ExtendJob
      <4>3. Topped(j, n) \in Nat
        BY <1>2, <3>0 DEF Topped
      <4> QED BY <1>2, <1>3, <1>4, <4>1, <4>2, <4>3
    <3>2. CASE i # j
      BY <1>5, <2>2, <3>2 DEF Extend, ExtendJob, Exists, EndedRuns, runVars
    <3> QED BY <3>1, <3>2
  <2>3. ASSUME NEW i \in Job, Cancel(i)
        PROVE  ttl'[j] + Cardinality(EndedRuns(j)') >= granted'[j]
    <3>1. state[i] = "pending" /\ UNCHANGED <<ttl, runVars, granted>>
      BY <2>3 DEF Cancel, DequeueJob, StillQueued, envVars
    <3>2. state' = [state EXCEPT ![i] = "cancelled"]
      BY <2>3 DEF Cancel, DequeueJob
    <3> QED BY <1>5, <3>1, <3>2 DEF Exists, EndedRuns, runVars
  <2>4. ASSUME NEW i \in Job, NEW p \in 1..Cardinality(Job), Reorder(i, p)
        PROVE  ttl'[j] + Cardinality(EndedRuns(j)') >= granted'[j]
    <3>1. UNCHANGED <<state, ttl, runVars, granted>>
      BY <2>4 DEF Reorder, MoveJob, envVars
    <3> QED BY <1>5, <3>1 DEF Exists, EndedRuns, runVars
  <2>5. ASSUME NEW p \in Project, Remove(p)
        PROVE  ttl'[j] + Cardinality(EndedRuns(j)') >= granted'[j]
    <3> DEFINE lost == {i \in Job : ProjectOf[i] = p /\ Exists(i)}
    <3>1. /\ state' = [i \in Job |-> IF i \in lost THEN "gone" ELSE state[i]]
          /\ outcome' = [r \in RunId |-> IF runJob[r] \in lost THEN "gone" ELSE outcome[r]]
          /\ UNCHANGED <<ttl, runJob, granted>>
      BY <2>5 DEF Remove, RemoveProject, envVars
    <3> HIDE DEF lost
    <3>2. j \notin lost /\ Exists(j)
      BY <3>1 DEF Exists
    <3>3. EndedRuns(j)' = EndedRuns(j)
      BY <3>1, <3>2 DEF EndedRuns
    <3> QED BY <1>5, <3>1, <3>2, <3>3
  <2> QED BY <1>7, <2>1, <2>2, <2>3, <2>4, <2>5 DEF UserWrites
<1>8. CASE ServiceWrites
  <2>0. UNCHANGED granted
    BY <1>8 DEF ServiceWrites
  <2>1. CASE Exhausting \/ Returning \/ Requeueing
    <3>1. UNCHANGED <<ttl, runVars>> /\ Exists(j)
      BY <2>1 DEF Exhausting, Returning, Requeueing, ReturnJobToQueue, Exists
    <3> QED BY <1>5, <2>0, <3>1 DEF EndedRuns, runVars
  <2>2. CASE Claiming \/ Releasing \/ Blocking \/ Settling
    <3>1. UNCHANGED <<ttl, runVars>> /\ Exists(j)
      BY <2>2 DEF Claiming, Releasing, Blocking, Settling, MoveJobState, DequeueJob, StillQueued, Exists
    <3> QED BY <1>5, <2>0, <3>1 DEF EndedRuns, runVars
  <2>3. CASE Opening
    <3>1. PICK r \in RunId : StartRun(r, start.job)
      BY <2>3 DEF Opening
    <3>2. /\ outcome[r] = "unused" /\ outcome'[r] = "open" /\ UNCHANGED <<ttl, state>>
          /\ \A q \in RunId \ {r} : runJob'[q] = runJob[q] /\ outcome'[q] = outcome[q]
      BY <3>1 DEF StartRun, NextRun, jobVars
    <3>3. EndedRuns(j)' = EndedRuns(j)
      BY <3>2 DEF EndedRuns, Ended
    <3> QED BY <1>5, <2>0, <3>2, <3>3 DEF Exists
  <2>4. ASSUME NEW r \in RunId, NEW how \in Ended, FinishRun(r, how)
        PROVE  ttl'[j] + Cardinality(EndedRuns(j)') >= granted'[j]
    <3>1. /\ outcome[r] = "open" /\ outcome' = [outcome EXCEPT ![r] = how]
          /\ UNCHANGED <<state, runJob>>
          /\ ttl' = [i \in Job |-> IF i = runJob[r] /\ ttl[i] > 0 THEN ttl[i] - 1 ELSE ttl[i]]
      BY <2>4 DEF FinishRun, SpendAttempts
    <3>2. Exists(j) /\ EndedRuns(j) \subseteq EndedRuns(j)'
      BY <3>1 DEF Exists, EndedRuns
    <3>3. CASE runJob[r] = j
      <4>1. r \in EndedRuns(j)' /\ r \notin EndedRuns(j)
        BY <3>1, <3>3 DEF EndedRuns, Ended
      <4>2. ttl'[j] \in Nat /\ ttl'[j] + 1 >= ttl[j]
        BY <1>2, <3>1
      <4> QED BY <1>5, <2>0, <3>2, <4>1, <4>2
    <3>4. CASE runJob[r] # j
      BY <1>5, <2>0, <3>1, <3>2, <3>4
    <3> QED BY <3>3, <3>4
  <2>5. CASE Abandoning
    BY <2>4, <2>5, AboutRows DEF Abandoning, Ended
  <2>6. CASE Finishing
    <3>1. PICK r \in RunId : WorkAt(r, "finish") /\ FinishRun(r, work[r].how)
      BY <2>6 DEF Finishing
    <3>2. work[r].how \in Ended
      BY <3>1 DEF Concluded, WorkAt
    <3> QED BY <2>4, <3>1, <3>2
  <2>7. CASE Amending
    <3>1. UNCHANGED <<state, ttl, runJob>> /\ EndedRuns(j)' = EndedRuns(j)
      BY <2>7 DEF Amending, FailRun, jobVars, EndedRuns, Ended
    <3> QED BY <1>5, <2>0, <3>1 DEF Exists
  <2>8. CASE Interrupting
    <3>1. /\ UNCHANGED <<state, runJob>>
          /\ ttl' = [i \in Job |-> IF OpenRuns(i) # {} /\ ttl[i] > 0 THEN ttl[i] - 1 ELSE ttl[i]]
          /\ outcome' = [r \in RunId |-> IF outcome[r] = "open" THEN "interrupted" ELSE outcome[r]]
      BY <2>8 DEF Interrupting, InterruptRunsInProgress, SpendAttempts
    <3>2. EndedRuns(j)' = EndedRuns(j) \cup OpenRuns(j) /\ Exists(j)
      BY <3>1 DEF EndedRuns, OpenRuns, Ended, Exists
    <3>3. EndedRuns(j) \cap OpenRuns(j) = {}
      BY DEF EndedRuns, OpenRuns, Ended
    <3>4. \/ ttl'[j] = ttl[j]
          \/ OpenRuns(j) # {} /\ ttl'[j] \in Nat /\ ttl'[j] + 1 >= ttl[j]
      BY <1>2, <3>1
    <3> QED BY <1>5, <2>0, <3>2, <3>3, <3>4
  <2> QED BY <1>8, <2>1, <2>2, <2>3, <2>5, <2>6, <2>7, <2>8 DEF ServiceWrites
<1> QED BY <1>6, <1>7, <1>8, RowSteps

\* Whatever write fails and whenever the daemon dies, no Job is charged for more
\* than the Runs it had: ending a Run and spending for it are one transaction
\* (runs.go:69-92, 278-306).
THEOREM NobodyOvercharged == Spec => []NeverOvercharged
<1>1. Init => Concluded /\ NeverOvercharged
  BY DEF Init, StoreInit, Concluded, NeverOvercharged, Off, Exists
<1>2. IInv /\ Concluded /\ NeverOvercharged /\ [Next]_vars => Concluded' /\ NeverOvercharged'
  BY ConcludedStep, ChargedStep DEF IInv
<1> QED BY <1>1, <1>2, AlwaysIInv, PTL DEF Spec

-----------------------------------------------------------------------------
(* The caps.  The scan counts rows, and minutes of git may pass between the *)
(* count and the Agent: the proof is that a count made under the starting   *)
(* lock stays good until the claim.  Removable = {}: a Run still going      *)
(* loses its row with its Project.                                          *)

\* The Jobs that take up room, those of a Project, and those that draw on an
\* Account or will when the start that claimed them launches.
Held       == {j \in Job : state[j] = "active"}
HeldOf(p)  == {j \in Held : ProjectOf[j] = p}
Drawing(a) == {j \in Held : account[j] = a \/ (Claimed /\ j = start.job /\ start.acct = a)}

NoneGone   == \A j \in Job : state[j] # "gone"
HeldPlaced == \A j \in Held : Queued(j)

\* The Job a start has chosen waits in the queue, unless it has been cancelled.
Chosen == At("check") =>
  \/ state[start.job] = "pending" /\ Queued(start.job)
  \/ state[start.job] = "cancelled"

\* There is room for what is held, and for one more where a start is to claim it.
Room == /\ Cardinality(Held) <= MaxParallel
        /\ \A p \in Project : Cardinality(HeldOf(p)) <= MaxPerProject
RoomLeft == At("check") => /\ Cardinality(Held) < MaxParallel
                           /\ Cardinality(HeldOf(ProjectOf[start.job])) < MaxPerProject

\* The same of the Accounts, where they have a cap.
Shares    == MaxPerAccount > 0 => \A a \in Account : Cardinality(Drawing(a)) <= MaxPerAccount
ShareLeft == At("check") /\ MaxPerAccount > 0 =>
               Cardinality(Drawing(AccountFor(start.job))) < MaxPerAccount

CapInv == IInv /\ OnRecord /\ Places /\ NoneGone /\ HeldPlaced /\ Chosen /\ Room /\ RoomLeft

\* Only so many Jobs are held.
LEMMA HeldFinite ==
  /\ IsFiniteSet(Held) /\ Cardinality(Held) \in Nat
  /\ \A p : IsFiniteSet(HeldOf(p)) /\ Cardinality(HeldOf(p)) \in Nat
  /\ \A a : IsFiniteSet(Drawing(a)) /\ Cardinality(Drawing(a)) \in Nat
<1>1. IsFiniteSet(Held)
  BY StoreAssumption, FS_Subset DEF Held
<1>2. \A p : HeldOf(p) \in SUBSET Held
  BY DEF HeldOf
<1>3. \A a : Drawing(a) \in SUBSET Held
  BY DEF Drawing
<1> QED BY <1>1, <1>2, <1>3, FS_Subset, FS_CardinalityType

\* With one more, or with some fewer, a count is at most one more.
LEMMA OneMore ==
  ASSUME NEW S, IsFiniteSet(S), NEW x, NEW T \in SUBSET (S \cup {x})
  PROVE  /\ Cardinality(T) \in Nat /\ Cardinality(S) \in Nat
         /\ Cardinality(T) <= Cardinality(S) + 1
         /\ x \notin T => Cardinality(T) <= Cardinality(S)
<1>0. Cardinality(S) \in Nat
  BY FS_CardinalityType
<1>1. IsFiniteSet(S \cup {x}) /\ Cardinality(S \cup {x}) <= Cardinality(S) + 1
  <2>1. /\ IsFiniteSet(S \cup {x})
        /\ Cardinality(S \cup {x}) = IF x \in S THEN Cardinality(S) ELSE Cardinality(S) + 1
    BY FS_AddElement
  <2> QED BY <1>0, <2>1
<1>2. IsFiniteSet(T) /\ Cardinality(T) <= Cardinality(S \cup {x})
  BY <1>1, FS_Subset
<1>3. Cardinality(T) \in Nat /\ Cardinality(S) \in Nat /\ Cardinality(S \cup {x}) \in Nat
  BY <1>1, <1>2, FS_CardinalityType
<1>4. x \notin T => T \in SUBSET S
  OBVIOUS
<1>5. x \notin T => Cardinality(T) <= Cardinality(S)
  BY <1>4, FS_Subset
<1> QED BY <1>1, <1>2, <1>3, <1>5

-----------------------------------------------------------------------------
(* What the steps do to what is counted. *)

\* A start has a Job to check because it has just found it, or still has it while
\* the user, a goroutine or the daemon's end takes a step.
LEMMA CheckFrame ==
  ASSUME TypeOK, Quiet, [Next]_vars, At("check")'
  PROVE  \/ Scan
         \/ /\ At("check") /\ UNCHANGED start
            /\ User \/ (\E r \in RunId : CarryOut(r)) \/ UNCHANGED storeVars
<1> USE DEF TypeOK, At
<1>1. CASE User
  BY <1>1, UserFrame
<1>2. CASE (\E j \in Job : Exhaust(j)) \/ Refuse \/ BeginStart \/ Crash \/ Release
  <2>1. \A j \in Job : Exhaust(j) => start'.at # "check"
    BY DEF Exhaust, Over, Idle, StartType
  <2>2. Refuse \/ Crash \/ Release => start'.at = "idle"
    <3>1. Refuse \/ Crash \/ Release => start' = Idle
      BY DEF Refuse, Crash, Release, Over
    <3> QED BY <3>1 DEF Idle
  <2>3. BeginStart => start'.at = "exhaust"
    BY DEF BeginStart, Idle
  <2> QED BY <1>2, <2>1, <2>2, <2>3
<1>3. CASE Claim
  BY <1>3, ClaimGoes DEF Idle
<1>4. CASE \/ Carry \/ AddWorktree \/ RecordWorkspace \/ Prepare \/ AbandonRun \/ AbandonJob
           \/ Uncarry
  BY <1>4, StartGoes
     DEF Carry, AddWorktree, RecordWorkspace, Prepare, AbandonRun, AbandonJob, Uncarry
<1>5. CASE OpenRun \/ Launch
  <2>1. OpenRun => start'.at \in {"uncarry", "launch"}
    BY OpenGoes
  <2>2. Launch => start'.at \in {"idle", "abandonRun"}
    BY StartGoes DEF Launch, Over, Idle
  <2> QED BY <1>5, <2>1, <2>2
<1>6. ASSUME NEW r \in RunId, CarryOut(r)
      PROVE  At("check") /\ UNCHANGED start
  BY <1>6, CarryOutFrame
<1>7. CASE Recover
  BY <1>7 DEF Recover, Boot, RequeueLeftOver, Serve, Quiet, Resting
<1>8. CASE Stop \/ Close \/ RefuseStarts \/ Exit \/ UNCHANGED vars
  BY <1>8 DEF Stop, Close, RefuseStarts, Exit, vars, daemonVars
<1> QED
  BY <1>1, <1>2, <1>3, <1>4, <1>5, <1>6, <1>7, <1>8 DEF Next, Starting

\* No Job goes while no Project may be removed.
LEMMA NoneGoneStep ==
  ASSUME Removable = {}, CapInv, [Next]_vars
  PROVE  NoneGone'
<1> USE DEF CapInv, IInv, TypeOK, StoreTypeOK, NoneGone
<1>1. CASE UNCHANGED rows
  BY <1>1 DEF rows
<1>2. CASE UserWrites
  <2>1. ASSUME NEW j \in Job, NEW n \in Grants, AddJob(j, n) \/ Extend(j, n)
        PROVE  NoneGone'
    BY <2>1 DEF AddJob, Extend, UpsertJob, ExtendJob
  <2>2. CASE \/ \E j \in Job : Cancel(j)
             \/ \E j \in Job, p \in 1..Cardinality(Job) : Reorder(j, p)
             \/ \E p \in Project : Remove(p)
    BY <2>2 DEF Cancel, Reorder, Remove, DequeueJob, MoveJob
  <2> QED BY <1>2, <2>1, <2>2 DEF UserWrites
<1>3. CASE ServiceWrites
  <2>1. CASE Exhausting \/ Returning \/ Requeueing \/ Claiming \/ Releasing \/ Blocking
    BY <2>1 DEF Exhausting, Returning, Requeueing, Claiming, Releasing, Blocking,
                ReturnJobToQueue, MoveJobState, DequeueJob
  <2>2. CASE Opening \/ Abandoning \/ Finishing \/ Amending \/ Interrupting
    BY <2>2 DEF Opening, Abandoning, Finishing, Amending, Interrupting, StartRun, FinishRun,
                FailRun, InterruptRunsInProgress, jobVars
  <2>3. CASE Settling
    BY <2>3 DEF Settling, DequeueJob, Settled
  <2> QED BY <1>3, <2>1, <2>2, <2>3 DEF ServiceWrites
<1> QED BY <1>1, <1>2, <1>3, RowSteps

\* Only a Job that leaves the queue loses its place.
LEMMA PlaceKept ==
  ASSUME Removable = {}, CapInv, [Next]_vars, NEW j \in Job, Queued(j),
         state'[j] \in {"pending", "active"}
  PROVE  Queued(j)'
<1> USE DEF CapInv, IInv, TypeOK, StoreTypeOK, Queued
<1>1. CASE UNCHANGED position
  BY <1>1
<1>2. ASSUME NEW i \in Job, NEW from, NEW to, to \notin {"pending", "active"},
             DequeueJob(i, from, to)
      PROVE  Queued(j)'
  <2>1. j # i /\ [position EXCEPT ![i] = 0] \in [Job -> Nat] /\ [position EXCEPT ![i] = 0][j] # 0
    BY <1>2 DEF DequeueJob
  <2> QED BY <1>2, <2>1, RenumberSeats DEF DequeueJob
<1>3. CASE UserWrites
  <2>1. ASSUME NEW i \in Job, NEW n \in Grants, AddJob(i, n)
        PROVE  Queued(j)'
    BY <2>1 DEF AddJob, UpsertJob
  <2>2. ASSUME NEW i \in Job, NEW p \in 1..Cardinality(Job), Reorder(i, p)
        PROVE  Queued(j)'
    <3>1. p \in Nat \ {0}
      BY StoreAssumption, FS_CardinalityType
    <3>2. Seated(position') = Seated(position)
      BY <2>2, <3>1, MovePlaces DEF Reorder
    <3> QED BY <3>2 DEF Seated
  <2>3. CASE \E i \in Job, n \in Grants : Extend(i, n)
    BY <1>1, <2>3 DEF Extend, ExtendJob
  <2>4. CASE (\E i \in Job : Cancel(i)) \/ \E p \in Project : Remove(p)
    BY <1>2, <2>4 DEF Cancel, Remove
  <2> QED BY <1>3, <2>1, <2>2, <2>3, <2>4 DEF UserWrites
<1>4. CASE ServiceWrites
  <2>1. CASE Exhausting \/ Returning \/ Requeueing \/ Claiming \/ Releasing
    BY <1>1, <2>1
       DEF Exhausting, Returning, Requeueing, Claiming, Releasing, ReturnJobToQueue, MoveJobState
  <2>2. CASE Opening \/ Abandoning \/ Finishing \/ Amending \/ Interrupting
    BY <1>1, <2>2
       DEF Opening, Abandoning, Finishing, Amending, Interrupting, StartRun, FinishRun, FailRun,
           InterruptRunsInProgress, jobVars
  <2>3. CASE Blocking
    BY <1>2, <2>3, AboutRows DEF Blocking
  <2>4. CASE Settling
    BY <1>2, <2>4, AboutRows DEF Settling, Settled, WorkAt
  <2> QED BY <1>4, <2>1, <2>2, <2>3, <2>4 DEF ServiceWrites
<1> QED BY <1>1, <1>3, <1>4, RowSteps DEF rows

\* What a start has chosen stays chosen, or is cancelled under it.
LEMMA ChosenStep ==
  ASSUME Removable = {}, CapInv, [Next]_vars
  PROVE  Chosen' /\ HeldPlaced'
<1> USE DEF CapInv, IInv, At, TypeOK, StoreTypeOK
<1>1. Chosen'
  <2> SUFFICES ASSUME At("check")'
               PROVE  \/ state'[start'.job] = "pending" /\ position'[start'.job] # 0
                      \/ state'[start'.job] = "cancelled"
    BY DEF Chosen, Queued
  <2>1. CASE Scan
    <3>1. start'.job \in Job /\ state[start'.job] = "pending" /\ position[start'.job] # 0
      BY <2>1, ScanGoes DEF Idle, Queued
    <3>2. UNCHANGED <<state, position>>
      BY <2>1 DEF Scan, storeVars, jobVars
    <3> QED BY <3>1, <3>2
  <2>2. CASE At("check") /\ UNCHANGED start
    <3>1. start.job \in Job /\ state[start.job] \in {"pending", "cancelled"}
      BY <2>2 DEF Attached, Chosen
    <3>2. state'[start.job] \in {state[start.job], "cancelled"}
      <4>1. CASE User
        <5>1. ASSUME NEW i \in Job, NEW n \in Grants, AddJob(i, n)
              PROVE  state'[start.job] = state[start.job]
          BY <3>1, <5>1 DEF AddJob, UpsertJob
        <5>2. ASSUME NEW i \in Job, NEW n \in Grants, Extend(i, n)
              PROVE  state'[start.job] = state[start.job]
          BY <3>1, <5>2 DEF Extend, ExtendJob
        <5>3. CASE \/ \E i \in Job : Cancel(i)
                   \/ \E i \in Job, p \in 1..Cardinality(Job) : Reorder(i, p)
                   \/ \E p \in Project : Remove(p)
                   \/ \E p \in Project, a \in Account \cup {NoAccount} : EditConfig(p, a)
          BY <3>1, <5>3 DEF Cancel, Reorder, Remove, EditConfig, DequeueJob, MoveJob, storeVars,
                            jobVars
        <5> QED BY <4>1, <5>1, <5>2, <5>3 DEF User
      <4>2. ASSUME NEW r \in RunId, CarryOut(r)
            PROVE  state'[start.job] = state[start.job]
        <5>1. Working(r) \/ UNCHANGED state
          BY <4>2, CarryOutFrame
        <5>2. Working(r) => runJob[r] # start.job
          BY <3>1 DEF Taken
        <5> QED BY <3>1, <4>2, <5>1, <5>2, CarryOutMoves
      <4>3. CASE UNCHANGED storeVars
        BY <4>3 DEF storeVars, jobVars
      <4> QED BY <2>2, <4>1, <4>2, <4>3, CheckFrame DEF Scan
    <3>3. \A j \in Job : Queued(j) /\ state'[j] = "pending" => position'[j] # 0
      BY PlaceKept DEF Queued
    <3>4. state'[start.job] = "pending" => Queued(start.job)
      BY <2>2, <3>2 DEF Chosen
    <3> QED BY <2>2, <3>1, <3>2, <3>3, <3>4
  <2> QED BY <2>1, <2>2, CheckFrame
<1>2. HeldPlaced'
  <2> SUFFICES ASSUME NEW j \in Job, state'[j] = "active"
               PROVE  Queued(j)'
    BY DEF HeldPlaced, Held
  <2>1. state[j] = "active" => Queued(j)
    BY DEF HeldPlaced, Held
  <2>2. state[j] # "active" => Queued(j)
    BY OnlyClaims DEF Chosen
  <2> QED BY <2>1, <2>2, PlaceKept
<1> QED BY <1>1, <1>2

\* The scan counts what is held.
LEMMA ScanCounts ==
  ASSUME HeldPlaced
  PROVE  InFlight = Held
BY DEF HeldPlaced, InFlight, ListQueue, Held

\* There is room for what the claim takes, because there was when the scan counted
\* and nobody but the start that holds the lock has taken any since.
LEMMA RoomStep ==
  ASSUME Removable = {}, CapInv, [Next]_vars
  PROVE  Room' /\ RoomLeft'
<1>9. At("check")' => start'.job \in Job
  <2>1. IInv'
    BY StepIInv DEF CapInv
  <2> QED BY <2>1 DEF IInv, Attached, At
<1> USE DEF CapInv, IInv, At, TypeOK, StoreTypeOK
<1>1. Chosen'
  BY ChosenStep
<1>0. \A j \in Job : state'[j] = "active" =>
                    state[j] = "active" \/ (Claim /\ start.at = "check" /\ j = start.job)
  BY OnlyClaims
<1>2. Held' \subseteq Held \cup {start.job}
  BY <1>0 DEF Held
<1>3. Held' \subseteq Held \/ (Claim /\ At("check"))
  BY <1>0 DEF Held
<1>4. MaxParallel \in Nat /\ MaxPerProject \in Nat
  BY ServiceAssumption
<1>5. /\ Cardinality(Held)' \in Nat /\ Cardinality(Held) \in Nat
      /\ Cardinality(Held)' <= Cardinality(Held) + 1
      /\ Held' \subseteq Held => Cardinality(Held)' <= Cardinality(Held)
  BY <1>2, HeldFinite, OneMore, FS_Subset
<1>6. ASSUME NEW p
      PROVE  /\ HeldOf(p)' \subseteq HeldOf(p) \cup {start.job}
             /\ Cardinality(HeldOf(p))' \in Nat /\ Cardinality(HeldOf(p)) \in Nat
             /\ Cardinality(HeldOf(p))' <= Cardinality(HeldOf(p)) + 1
             /\ HeldOf(p)' \subseteq HeldOf(p) =>
                  Cardinality(HeldOf(p))' <= Cardinality(HeldOf(p))
  <2>1. HeldOf(p)' \subseteq HeldOf(p) \cup {start.job}
    BY <1>2 DEF HeldOf
  <2> QED BY <2>1, HeldFinite, OneMore, FS_Subset
<1>7. Room'
  <2>1. Cardinality(Held)' <= MaxParallel
    BY <1>3, <1>4, <1>5 DEF Room, RoomLeft
  <2>2. ASSUME NEW p \in Project
        PROVE  Cardinality(HeldOf(p))' <= MaxPerProject
    <3>1. CASE HeldOf(p)' \subseteq HeldOf(p)
      BY <1>4, <1>6, <3>1 DEF Room
    <3>2. CASE ~(HeldOf(p)' \subseteq HeldOf(p))
      <4>1. At("check") /\ ProjectOf[start.job] = p
        BY <1>2, <1>3, <3>2 DEF HeldOf
      <4> QED BY <1>4, <1>6, <4>1 DEF RoomLeft
    <3> QED BY <3>1, <3>2
  <2> QED BY <2>1, <2>2 DEF Room
<1>8. RoomLeft'
  <2> SUFFICES ASSUME At("check")', NEW j \in Job, j = start'.job
               PROVE  /\ Cardinality(Held)' < MaxParallel
                      /\ Cardinality(HeldOf(ProjectOf[j]))' < MaxPerProject
    BY <1>9 DEF RoomLeft
  <2>1. CASE Scan
    <3>1. PICK waiting \in SUBSET Throttled : Permits(j, waiting)
      BY <2>1, ScanGoes DEF Idle
    <3>2. UNCHANGED state
      BY <2>1 DEF Scan, storeVars, jobVars
    <3>3. Held' = Held /\ HeldOf(ProjectOf[j])' = HeldOf(ProjectOf[j])
      BY <3>2 DEF Held, HeldOf
    <3>4. {i \in InFlight : ProjectOf[i] = ProjectOf[j]} = HeldOf(ProjectOf[j])
      BY ScanCounts DEF HeldOf
    <3> QED BY <3>1, <3>3, <3>4, ScanCounts DEF Permits
  <2>2. CASE At("check") /\ UNCHANGED start
    <3>1. state'[start.job] # "active"
      BY <1>1, <2>2 DEF Chosen
    <3>2. Held' \subseteq Held
      BY <1>2, <3>1 DEF Held
    <3>3. HeldOf(ProjectOf[j])' \subseteq HeldOf(ProjectOf[j])
      BY <3>2 DEF HeldOf
    <3>4. Cardinality(Held) < MaxParallel /\ Cardinality(HeldOf(ProjectOf[j])) < MaxPerProject
      BY <2>2 DEF RoomLeft
    <3> QED BY <1>4, <1>5, <1>6, <3>2, <3>3, <3>4
  <2> QED BY <2>1, <2>2, CheckFrame
<1> QED BY <1>7, <1>8

\* A start has a Job claimed because it has just claimed it, or had it already,
\* for the same Account.
LEMMA ClaimedFrame ==
  ASSUME TypeOK, Quiet, [Next]_vars, Claimed'
  PROVE  \/ /\ Claim /\ At("check") /\ start'.job = start.job
            /\ start'.acct = AccountFor(start.job)
         \/ Claimed /\ start'.job = start.job /\ start'.acct = start.acct
<1> USE DEF Claimed
<1>1. CASE User
  BY <1>1, UserFrame
<1>2. CASE Scan
  BY <1>2, ScanGoes DEF Idle
<1>3. CASE \/ (\E j \in Job : Exhaust(j)) \/ Refuse \/ BeginStart \/ Crash \/ Release
  <2>1. ASSUME NEW j \in Job, Exhaust(j)
        PROVE  start'.at \in {"exhaust", "idle"}
    BY <2>1 DEF TypeOK, Exhaust, At, Over, Idle, StartType
  <2>2. Refuse \/ Crash \/ Release => start' = Idle
    BY DEF Refuse, Crash, Release, Over
  <2>3. BeginStart => start'.at = "exhaust"
    BY DEF BeginStart, Idle
  <2> QED BY <1>3, <2>1, <2>2, <2>3 DEF Idle
<1>4. CASE Claim
  BY <1>4, ClaimGoes DEF Claim, At, Idle
<1>5. CASE Carry \/ AddWorktree \/ RecordWorkspace \/ Prepare
  BY <1>5, StartGoes DEF Carry, AddWorktree, RecordWorkspace, Prepare, At
<1>6. CASE AbandonRun \/ AbandonJob \/ Uncarry
  BY <1>6, StartGoes DEF AbandonRun, AbandonJob, Uncarry
<1>7. CASE OpenRun \/ Launch
  <2>1. OpenRun => At("open") /\ start'.job = start.job /\ start'.acct = start.acct
    BY OpenGoes DEF OpenRun
  <2>2. Launch => start'.at \in {"idle", "abandonRun"}
    BY StartGoes DEF Launch, Over, Idle
  <2> QED BY <1>7, <2>1, <2>2 DEF At
<1>8. ASSUME NEW r \in RunId, CarryOut(r)
      PROVE  UNCHANGED start
  BY <1>8, CarryOutFrame
<1>9. CASE Recover \/ Stop \/ Close \/ RefuseStarts \/ Exit \/ UNCHANGED vars
  BY <1>9 DEF Recover, Boot, RequeueLeftOver, Serve, Stop, Close, RefuseStarts, Exit, vars,
              daemonVars
<1> QED
  BY <1>1, <1>2, <1>3, <1>4, <1>5, <1>6, <1>7, <1>8, <1>9 DEF Next, Starting

\* While no configuration is edited every Project names the Account it named.
LEMMA NamesKept ==
  ASSUME MaxEdits = 0, TypeOK, [Next]_vars
  PROVE  UNCHANGED names
<1>1. CASE User
  <2>1. ~\E p \in Project, a \in Account \cup {NoAccount} : EditConfig(p, a)
    BY DEF EditConfig, TypeOK
  <2> QED BY <1>1, <2>1 DEF User, AddJob, Cancel, Extend, Reorder, Remove, envVars
<1>2. CASE Starting \/ BeginStart
  BY <1>2 DEF Starting, Exhaust, Scan, Refuse, Claim, Carry, AddWorktree, RecordWorkspace, Prepare,
              OpenRun, Launch, AbandonRun, AbandonJob, Uncarry, Release, BeginStart, startFrame
<1>3. CASE \E r \in RunId : CarryOut(r)
  BY <1>3 DEF CarryOut, AgentEnds, Verify, RecordPlan, Finish, MoveOn, Amend, Drop, workFrame
<1>4. CASE Recover \/ Stop \/ Close \/ RefuseStarts \/ Exit \/ Crash \/ UNCHANGED vars
  BY <1>4 DEF Recover, Boot, RequeueLeftOver, Serve, Stop, Close, RefuseStarts, Exit, Crash,
              lifeFrame, envVars, vars
<1> QED BY <1>1, <1>2, <1>3, <1>4 DEF Next

\* A share is asked for under the same lock, of the Account the claim records.
LEMMA SharesStep ==
  ASSUME Removable = {}, MaxEdits = 0, CapInv, Shares, ShareLeft, [Next]_vars
  PROVE  Shares' /\ ShareLeft'
<1>1. /\ At("check")' => start'.job \in Job
      /\ At("check") \/ Claimed => start.job \in Job
  <2>1. IInv'
    BY StepIInv DEF CapInv
  <2> QED BY <2>1 DEF IInv, Attached, At, CapInv, Claimed
<1> USE DEF CapInv, IInv, At, TypeOK, StoreTypeOK
<1>2. Chosen'
  BY ChosenStep
<1>3. UNCHANGED names
  BY NamesKept
<1>4. \A j \in Job : state'[j] = "active" =>
                    state[j] = "active" \/ (Claim /\ start.at = "check" /\ j = start.job)
  BY OnlyClaims
<1>5. Claimed' => \/ Claim /\ At("check") /\ start'.job = start.job /\ start'.acct = AccountFor(start.job)
                  \/ Claimed /\ start'.job = start.job /\ start'.acct = start.acct
  BY ClaimedFrame
<1>6. \A j \in Job : account'[j] = account[j] \/ (Claimed /\ j = start.job /\ account'[j] = start.acct)
  <2>1. CASE Launch
    BY <1>1, <2>1 DEF Launch, SetJobAccount, Claimed, storeVars, jobVars
  <2> QED BY <2>1, OnlyLaunchRecords
<1>7. ASSUME NEW a \in Account
      PROVE  \/ Drawing(a)' \subseteq Drawing(a)
             \/ /\ Drawing(a)' \subseteq Drawing(a) \cup {start.job}
                /\ Claim /\ At("check") /\ a = AccountFor(start.job)
  <2>1. CASE ~Claim
    BY <1>4, <1>5, <1>6, <2>1 DEF Drawing, Held
  <2>2. CASE Claim
    <3>1. UNCHANGED account /\ ~Claimed /\ At("check")
      BY <2>2, OnlyLaunchRecords DEF Claim, Launch, Claimed
    <3>2. a = AccountFor(start.job) => Drawing(a)' \subseteq Drawing(a) \cup {start.job}
      BY <1>4, <1>5, <3>1 DEF Drawing, Held
    <3>3. a # AccountFor(start.job) => Drawing(a)' \subseteq Drawing(a)
      <4>1. account[start.job] = a => a = AccountFor(start.job)
        BY ServiceAssumption, StoreAssumption DEF AccountFor
      <4> QED BY <1>4, <1>5, <3>1, <4>1 DEF Drawing, Held
    <3> QED BY <2>2, <3>1, <3>2, <3>3
  <2> QED BY <2>1, <2>2
<1>8. /\ MaxPerAccount \in Nat
      /\ \A a : IsFiniteSet(Drawing(a)) /\ Cardinality(Drawing(a)) \in Nat
  BY ServiceAssumption, HeldFinite
<1>9. Shares'
  <2> SUFFICES ASSUME MaxPerAccount > 0, NEW a \in Account
               PROVE  Cardinality(Drawing(a))' <= MaxPerAccount
    BY DEF Shares
  <2>1. CASE Drawing(a)' \subseteq Drawing(a)
    <3>1. Cardinality(Drawing(a))' \in Nat /\ Cardinality(Drawing(a))' <= Cardinality(Drawing(a))
      BY <1>8, <2>1, FS_Subset, FS_CardinalityType
    <3> QED BY <1>8, <3>1 DEF Shares
  <2>2. CASE /\ Drawing(a)' \subseteq Drawing(a) \cup {start.job}
             /\ Claim /\ At("check") /\ a = AccountFor(start.job)
    <3>1. /\ Cardinality(Drawing(a))' <= Cardinality(Drawing(a)) + 1
          /\ Cardinality(Drawing(a))' \in Nat
      <4>1. ASSUME NEW T \in SUBSET (Drawing(a) \cup {start.job})
            PROVE  Cardinality(T) <= Cardinality(Drawing(a)) + 1 /\ Cardinality(T) \in Nat
        BY <1>8, OneMore
      <4> QED BY <2>2, <4>1
    <3>2. Cardinality(Drawing(a)) < MaxPerAccount
      BY <2>2 DEF ShareLeft
    <3> QED BY <1>8, <3>1, <3>2
  <2> QED BY <1>7, <2>1, <2>2
<1>10. ShareLeft'
  <2> SUFFICES ASSUME At("check")', MaxPerAccount > 0, NEW j \in Job, j = start'.job
               PROVE  Cardinality(Drawing(AccountFor(j)))' < MaxPerAccount
    BY <1>1 DEF ShareLeft
  <2>1. ~Launch
    BY StartGoes DEF Launch, Over, Idle
  <2>2. UNCHANGED account /\ AccountFor(j)' = AccountFor(j)
    BY <1>3, <2>1, OnlyLaunchRecords DEF AccountFor
  <2>3. Drawing(AccountFor(j))' = {i \in Held' : account[i] = AccountFor(j)}
    BY <2>2 DEF Drawing, Claimed
  <2>4. CASE Scan
    <3>1. PICK waiting \in SUBSET Throttled : Permits(j, waiting)
      BY <2>4, ScanGoes DEF Idle
    <3>2. Held' = Held
      BY <2>4 DEF Scan, Held, storeVars, jobVars
    <3> QED BY <2>3, <3>1, <3>2, ScanCounts DEF Permits
  <2>5. CASE At("check") /\ UNCHANGED start
    <3>1. state'[start.job] # "active"
      BY <1>2, <2>5 DEF Chosen
    <3>2. Held' \subseteq Held
      BY <1>4, <3>1 DEF Held
    <3>3. Drawing(AccountFor(j))' \subseteq Drawing(AccountFor(j))
      BY <2>3, <3>2 DEF Drawing
    <3>4. /\ Cardinality(Drawing(AccountFor(j)))' \in Nat
          /\ Cardinality(Drawing(AccountFor(j)))' <= Cardinality(Drawing(AccountFor(j)))
      BY <1>8, <3>3, FS_Subset, FS_CardinalityType
    <3>5. Cardinality(Drawing(AccountFor(j))) < MaxPerAccount
      BY <2>5 DEF ShareLeft
    <3> QED BY <1>8, <3>4, <3>5
  <2> QED BY <2>4, <2>5, CheckFrame
<1> QED BY <1>9, <1>10

-----------------------------------------------------------------------------
(* The theorems. *)

\* Nothing is held by a daemon that was never started.
LEMMA InitCapInv == Init => CapInv /\ Shares /\ ShareLeft
<1> SUFFICES ASSUME Init PROVE CapInv /\ Shares /\ ShareLeft
  OBVIOUS
<1>1. IInv /\ Places
  BY InitIInv, InitPlaces
<1>2. OnRecord
  BY DEF Init, OnRecord, Working, Claimed, Off, Idle
<1>3. Held = {} /\ (\A p : HeldOf(p) = {}) /\ \A a : Drawing(a) = {}
  BY DEF Init, StoreInit, Held, HeldOf, Drawing
<1>4. ~At("check") /\ NoneGone /\ HeldPlaced
  BY DEF Init, StoreInit, Idle, At, NoneGone, HeldPlaced, Held
<1> QED BY <1>1, <1>2, <1>3, <1>4, ServiceAssumption, FS_EmptySet
        DEF CapInv, Chosen, Room, RoomLeft, Shares, ShareLeft

\* Every step keeps what the count was made for.
LEMMA StepCapInv ==
  ASSUME Removable = {}
  PROVE  CapInv /\ [Next]_vars => CapInv'
<1> SUFFICES ASSUME CapInv, [Next]_vars
             PROVE  CapInv'
  OBVIOUS
<1>1. IInv' /\ OnRecord' /\ Places'
  BY StepIInv, OnRecordStep, PlacesStep DEF CapInv, IInv
<1> QED BY <1>1, NoneGoneStep, ChosenStep, RoomStep DEF CapInv

\* There are as many Agents at work as Jobs held for them, or fewer.
LEMMA AgentsAreHeld ==
  ASSUME CapInv, NEW S \in SUBSET AtWork, NEW T \in SUBSET Held, \A r \in S : runJob[r] \in T
  PROVE  Cardinality(S) \in Nat /\ Cardinality(S) <= Cardinality(T)
<1> DEFINE f == [r \in S |-> runJob[r]]
<1>1. f \in Injection(S, T)
  BY DEF Injection, IsInjective, AtWork, CapInv, IInv, OneRunPerJob
<1>2. IsFiniteSet(T)
  BY HeldFinite, FS_Subset
<1> QED BY <1>1, <1>2, FS_Injection, FS_CardinalityType

\* An Agent at work holds its Job.
LEMMA WorkHolds ==
  ASSUME CapInv
  PROVE  \A r \in AtWork : runJob[r] \in Held
BY DEF CapInv, IInv, Attached, Taken, NoneGone, Held, AtWork, Working, WorkAt

\* Never more Agents at work at once than the machine may have, nor than a
\* Project may, however long ago the scan counted (caps.go:51-72, 120-163).
THEOREM CapsHold ==
  ASSUME Removable = {}
  PROVE  Spec => []WithinCaps
<1>1. CapInv => WithinCaps
  <2> SUFFICES ASSUME CapInv PROVE WithinCaps
    OBVIOUS
  <2>1. Cardinality(AtWork) <= MaxParallel
    <3>1. Cardinality(AtWork) \in Nat /\ Cardinality(AtWork) <= Cardinality(Held)
      BY WorkHolds, AgentsAreHeld
    <3>2. Cardinality(Held) \in Nat /\ Cardinality(Held) <= MaxParallel
      BY HeldFinite DEF CapInv, Room
    <3> QED BY <3>1, <3>2, ServiceAssumption
  <2>2. ASSUME NEW p \in Project
        PROVE  Cardinality({r \in AtWork : ProjectOf[runJob[r]] = p}) <= MaxPerProject
    <3> DEFINE S == {r \in AtWork : ProjectOf[runJob[r]] = p}
    <3>1. \A r \in S : runJob[r] \in HeldOf(p)
      BY WorkHolds DEF HeldOf
    <3>2. S \in SUBSET AtWork /\ HeldOf(p) \in SUBSET Held
      BY DEF HeldOf
    <3> HIDE DEF S
    <3>3. Cardinality(S) \in Nat /\ Cardinality(S) <= Cardinality(HeldOf(p))
      BY <3>1, <3>2, AgentsAreHeld
    <3>4. Cardinality(HeldOf(p)) \in Nat /\ Cardinality(HeldOf(p)) <= MaxPerProject
      BY HeldFinite DEF CapInv, Room
    <3>5. Cardinality(S) <= MaxPerProject
      BY <3>3, <3>4, ServiceAssumption
    <3> QED BY <3>5 DEF S
  <2> QED BY <2>1, <2>2 DEF WithinCaps
<1> QED BY <1>1, InitCapInv, StepCapInv, PTL DEF Spec

\* ... nor more than an Account is to have drawing on it, as long as no Project
\* comes to name another one (caps.go:97-117, 143-157; ADR-0023).
THEOREM AccountCapsHold ==
  ASSUME Removable = {}, MaxEdits = 0
  PROVE  Spec => []WithinAccountCaps
<1>1. CapInv /\ Shares => WithinAccountCaps
  <2> SUFFICES ASSUME CapInv, Shares, MaxPerAccount > 0, NEW a \in Account
               PROVE  Cardinality({r \in AtWork : work[r].acct = a}) <= MaxPerAccount
    BY DEF WithinAccountCaps
  <2> DEFINE S == {r \in AtWork : work[r].acct = a}
  <2>1. \A r \in S : runJob[r] \in Drawing(a)
    BY WorkHolds DEF Drawing, CapInv, OnRecord, AtWork
  <2>2. S \in SUBSET AtWork /\ Drawing(a) \in SUBSET Held
    BY DEF Drawing
  <2> HIDE DEF S
  <2>3. Cardinality(S) \in Nat /\ Cardinality(S) <= Cardinality(Drawing(a))
    BY <2>1, <2>2, AgentsAreHeld
  <2>4. Cardinality(Drawing(a)) \in Nat /\ Cardinality(Drawing(a)) <= MaxPerAccount
    BY HeldFinite DEF Shares
  <2>5. Cardinality(S) <= MaxPerAccount
    BY <2>3, <2>4, ServiceAssumption
  <2> QED BY <2>5 DEF S
<1>2. CapInv /\ Shares /\ ShareLeft /\ [Next]_vars => Shares' /\ ShareLeft'
  BY SharesStep
<1> QED BY <1>1, <1>2, InitCapInv, StepCapInv, PTL DEF Spec

-----------------------------------------------------------------------------
(* A service whose writes all succeed (MaxFaults = 0), however often the    *)
(* daemon stops or dies and whatever the user does in between: the rows of  *)
(* the Jobs, the rows of their Runs and what the daemon has in hand always  *)
(* agree, and nothing is lost between them.  The invariant, in parts.       *)

\* A Job has a place while it waits, runs or has run out, and only then.
Placed == \A j \in Job : Queued(j) <=> state[j] \in {"pending", "active", "exhausted"}

\* A Job that waits has an attempt left.
Able == \A j \in Job : state[j] = "pending" => ttl[j] > 0

\* Rows are taken in order; a row that is taken is some Job's, and goes when it does.
RowsAgree ==
  /\ \A r \in RunId : outcome[r] = "unused" => runJob[r] = NoJob
  /\ \A r \in RunId : outcome[r] # "unused" =>
       /\ runJob[r] \in Job /\ state[runJob[r]] # "unborn"
       /\ outcome[r] = "gone" <=> state[runJob[r]] = "gone"
       /\ \A q \in RunId : q < r => outcome[q] # "unused"

\* A Job has at most one Run in progress, is active while it has, and has the
\* attempt that Run will cost it.
OneOpen ==
  \A q, r \in RunId : outcome[q] = "open" /\ outcome[r] = "open" /\ runJob[q] = runJob[r] => q = r
OpenIsActive ==
  \A r \in RunId : outcome[r] = "open" => state[runJob[r]] = "active" /\ ttl[runJob[r]] > 0

\* What is said of the rows alone.
RowInv == /\ Placed /\ Able /\ RowsAgree /\ OneOpen /\ OpenIsActive
          /\ AttemptsAccounted /\ ReviewIsEarned

\* A start finds no Job to put aside for having run out.
NothingListed == At("exhaust") => start.list = {}

\* The start or the goroutine that is to write the end of a Run.
Owned(r) == \/ Working(r) /\ ~WorkAt(r, "move")
            \/ (At("launch") \/ At("abandonRun")) /\ start.run = r

\* A Run in progress is owned unless the daemon is down, and one that is owned is
\* in progress.
Owners ==
  /\ \A r \in RunId : outcome[r] = "open" => daemon = "down" \/ Owned(r)
  /\ \A r \in RunId : Owned(r) => outcome[r] \in {"open", "gone"}

\* The Job of a start has an attempt left until its Run's end is written.
StartIsAble ==
  Holding /\ ~At("abandonJob") /\ state[start.job] = "active" => ttl[start.job] > 0

\* An active Job is somebody's: of recovery, of the start, or of a goroutine.
Kept ==
  /\ daemon = "recovering" => \A j \in Job : j \in leftover <=> state[j] = "active"
  /\ NothingStranded

\* A goroutine that is moving its Job on has written how its Run ended, unless
\* the row is gone; the Job it could not move is.
Moved ==
  \A r \in RunId : /\ WorkAt(r, "move") => outcome[r] \in {work[r].how, "gone"}
                   /\ WorkAt(r, "amend") => state[runJob[r]] = "gone"

\* A Run being worked on, or about to be, is its Job's last.
LastRun ==
  \A q, r \in RunId : Owned(r) \/ Working(r) => runJob[q] # runJob[r] \/ q <= r

\* What is said of what the daemon has in hand.
HandInv == NothingListed /\ Owners /\ StartIsAble /\ Kept /\ Moved /\ LastRun

SInv == IInv /\ Concluded /\ Places /\ RowInv /\ HandInv

\* No write fails where none may.
LEMMA NoFault ==
  ASSUME MaxFaults = 0, TypeOK
  PROVE  ~Fault
BY DEF Fault, TypeOK

-----------------------------------------------------------------------------
(* The statements a step is made of, when none fails. *)

\* The strength of a Job's last Run (ReviewIsEarned).
Earned(j) == \E r \in RunId : /\ runJob[r] = j /\ outcome[r] = "succeeded"
                              /\ \A q \in RunId : runJob[q] = j => q <= r

Takes  == \E j \in Job : MoveJobState(j, "pending", "active")
Opens  == \E r \in RunId, j \in Job :
            StartRun(r, j) /\ state[j] = "active" /\ ttl[j] > 0 /\ OpenRuns(j) = {}
Spends == \E r \in RunId, how \in Ended : FinishRun(r, how)
Frees  == \E j \in Job :
            /\ state[j] = "active" /\ OpenRuns(j) = {}
            /\ \/ ReturnJobToQueue(j)
               \/ MoveJobState(j, "active", "pending") /\ ttl[j] > 0
               \/ DequeueJob(j, "active", "blocked")
               \/ DequeueJob(j, "active", "review") /\ Earned(j)
Moves  == UNCHANGED granted /\ (Takes \/ Opens \/ Spends \/ Frees \/ Interrupting)

\* A start that has claimed its Job, and a goroutine that is moving its Job on,
\* leave no Run of that Job in progress.
LEMMA NothingOpen ==
  ASSUME SInv
  PROVE  /\ Holding /\ ~At("launch") /\ ~At("abandonRun") => OpenRuns(start.job) = {}
         /\ \A r \in RunId : WorkAt(r, "move") => OpenRuns(runJob[r]) = {}
         /\ daemon = "recovering" => \A r \in RunId : outcome[r] # "open"
<1> USE DEF SInv, IInv, HandInv
<1>1. ASSUME NEW q \in RunId, outcome[q] = "open", Holding, ~At("launch"), ~At("abandonRun")
      PROVE  runJob[q] # start.job
  <2>1. daemon # "down"
    BY <1>1 DEF Quiet, Resting, Holding, At
  <2>2. Working(q)
    BY <1>1, <2>1 DEF Owners, Owned
  <2> QED BY <1>1, <2>2 DEF OneRunPerJob
<1>2. ASSUME NEW q \in RunId, NEW r \in RunId, outcome[q] = "open", WorkAt(r, "move")
      PROVE  runJob[q] # runJob[r]
  <2>1. daemon # "down" /\ Working(r)
    BY <1>2 DEF Quiet, Resting, WorkAt, Working
  <2>2. Owned(q)
    BY <1>2, <2>1 DEF Owners
  <2>3. CASE Working(q) /\ ~WorkAt(q, "move")
    BY <1>2, <2>1, <2>3 DEF OneRunPerJob
  <2>4. CASE (At("launch") \/ At("abandonRun")) /\ start.run = q
    <3>1. runJob[q] = start.job /\ Holding
      BY <2>4 DEF Attached, Holding, At
    <3> QED BY <2>1, <3>1 DEF OneRunPerJob
  <2> QED BY <2>2, <2>3, <2>4 DEF Owned
<1>3. ASSUME NEW q \in RunId, outcome[q] = "open", daemon = "recovering"
      PROVE  FALSE
  <2>1. Owned(q)
    BY <1>3 DEF Owners
  <2> QED BY <1>3, <2>1 DEF Owned, Quiet, Resting, Working, WorkAt, At
<1> QED BY <1>1, <1>2, <1>3 DEF OpenRuns

\* Every step is one of these, is the user's, or leaves the rows alone.
LEMMA Statements ==
  ASSUME MaxFaults = 0, SInv, [Next]_vars
  PROVE  UNCHANGED rows \/ UserWrites \/ Moves
<1> USE DEF SInv, IInv, RowInv, HandInv
<1> SUFFICES ASSUME ServiceWrites
             PROVE  Takes \/ Opens \/ Spends \/ Frees \/ Interrupting
  BY RowSteps DEF ServiceWrites, Moves
<1>1. ~Exhausting
  BY DEF Exhausting, NothingListed
<1>2. Claiming => Takes
  BY AboutRows DEF Claiming, Takes
<1>3. Blocking => Frees
  <2> SUFFICES ASSUME Blocking PROVE Frees
    OBVIOUS
  <2>1. start.job \in Job /\ OpenRuns(start.job) = {}
    BY AboutRows, NothingOpen DEF Blocking, Holding, At
  <2> QED BY <2>1 DEF Blocking, Frees, DequeueJob, StillQueued
<1>4. Opening => Opens
  <2> SUFFICES ASSUME Opening PROVE Opens
    OBVIOUS
  <2>1. PICK r \in RunId : StartRun(r, start.job)
    BY DEF Opening
  <2>2. start.job \in Job /\ OpenRuns(start.job) = {} /\ Holding /\ Claimed
    BY AboutRows, NothingOpen DEF Opening, Holding, Claimed, At
  <2>3. state[start.job] = "active"
    BY <2>1, <2>2 DEF Taken, StartRun, Exists
  <2>4. ttl[start.job] > 0
    BY <2>2, <2>3 DEF StartIsAble, Opening, At
  <2> QED BY <2>1, <2>2, <2>3, <2>4 DEF Opens
<1>5. Abandoning => Spends
  BY AboutRows DEF Abandoning, Spends, Ended
<1>6. Releasing => Frees
  <2> SUFFICES ASSUME Releasing PROVE Frees
    OBVIOUS
  <2>1. start.job \in Job /\ OpenRuns(start.job) = {} /\ Holding /\ ~At("abandonJob")
    BY AboutRows, NothingOpen DEF Releasing, Holding, At
  <2>2. state[start.job] = "active" /\ MoveJobState(start.job, "active", "pending")
    BY DEF Releasing, MoveJobState
  <2>3. ttl[start.job] > 0
    BY <2>1, <2>2 DEF StartIsAble
  <2> QED BY <2>1, <2>2, <2>3 DEF Frees
<1>7. Finishing => Spends
  BY DEF Finishing, Spends, Concluded, WorkAt
<1>8. ASSUME NEW r \in RunId, WorkAt(r, "move")
      PROVE  /\ runJob[r] \in Job /\ OpenRuns(runJob[r]) = {}
             /\ state[runJob[r]] \in {"active", "gone"} /\ Working(r)
  BY <1>8, AboutRows, NothingOpen DEF Taken, Working, WorkAt
<1>9. Returning => Frees
  BY <1>8 DEF Returning, Frees, ReturnJobToQueue, Exists
<1>10. Settling => Frees
  <2> SUFFICES ASSUME Settling PROVE Frees
    OBVIOUS
  <2>1. PICK r \in RunId : /\ WorkAt(r, "move") /\ ~Requeues(r)
                           /\ DequeueJob(runJob[r], "active", Settled(r))
    BY DEF Settling
  <2>2. state[runJob[r]] = "active"
    BY <2>1 DEF DequeueJob, StillQueued
  <2>3. CASE Settled(r) = "blocked"
    BY <1>8, <2>1, <2>2, <2>3 DEF Frees
  <2>4. CASE Settled(r) = "review"
    <3>1. work[r].how = "succeeded"
      BY <2>1, <2>4 DEF Settled, Requeues, Concluded, WorkAt, Ended
    <3>2. outcome[r] # "gone"
      BY <2>1, <2>2, <1>8 DEF RowsAgree, Attached, WorkAt
    <3>3. outcome[r] = "succeeded"
      BY <2>1, <3>1, <3>2 DEF Moved
    <3>4. \A q \in RunId : runJob[q] = runJob[r] => q <= r
      BY <2>1, <1>8 DEF LastRun
    <3>5. Earned(runJob[r])
      BY <3>3, <3>4 DEF Earned
    <3> QED BY <1>8, <2>1, <2>2, <2>4, <3>5 DEF Frees
  <2> QED BY <2>3, <2>4 DEF Settled
<1>11. ~Amending
  <2> SUFFICES ASSUME NEW r \in RunId, WorkAt(r, "amend"), FailRun(r)
               PROVE  FALSE
    BY DEF Amending
  <2>1. outcome[r] # "unused" /\ state[runJob[r]] = "gone"
    BY DEF Attached, Moved, WorkAt
  <2>2. outcome[r] = "gone"
    BY <2>1 DEF RowsAgree
  <2> QED BY <2>2 DEF FailRun, Ended
<1>12. Requeueing => Frees
  <2> SUFFICES ASSUME Requeueing PROVE Frees
    OBVIOUS
  <2>1. PICK j \in leftover : ReturnJobToQueue(j)
    BY DEF Requeueing
  <2>2. j \in Job /\ state[j] = "active" /\ OpenRuns(j) = {}
    BY NothingOpen, AboutRows DEF Requeueing, Kept, OpenRuns
  <2> QED BY <2>1, <2>2 DEF Frees
<1> QED
  BY <1>1, <1>2, <1>3, <1>4, <1>5, <1>6, <1>7, <1>9, <1>10, <1>11, <1>12 DEF ServiceWrites

-----------------------------------------------------------------------------
(* What those statements do to the rows. *)

\* Only Jobs that wait, run or have run out have a place: whoever leaves loses
\* its place and nobody else does.
LEMMA PlacedStep ==
  ASSUME MaxFaults = 0, SInv, [Next]_vars
  PROVE  Placed'
<1> USE DEF SInv, IInv, RowInv, TypeOK, StoreTypeOK, Placed, Queued
<1>1. CASE UNCHANGED rows
  BY <1>1 DEF rows
<1>2. ASSUME NEW j \in Job, NEW from, NEW to \in JobState \ {"pending", "active", "exhausted"},
             DequeueJob(j, from, to)
      PROVE  Placed'
  <2>1. \A i \in Job : position'[i] # 0 <=> [position EXCEPT ![j] = 0][i] # 0
    <3>1. [position EXCEPT ![j] = 0] \in [Job -> Nat]
      OBVIOUS
    <3> QED BY <1>2, <3>1, RenumberSeats DEF DequeueJob
  <2> QED BY <1>2, <2>1 DEF DequeueJob
<1>3. CASE UserWrites
  <2>1. ASSUME NEW j \in Job, NEW n \in Grants, AddJob(j, n)
        PROVE  Placed'
    <3>1. PICK p \in 1..Cardinality(Job) : position' = [position EXCEPT ![j] = p]
      BY <2>1 DEF AddJob, UpsertJob
    <3>2. p # 0
      BY <3>1, StoreAssumption, FS_CardinalityType
    <3> QED BY <2>1, <3>1, <3>2 DEF AddJob, UpsertJob
  <2>2. ASSUME NEW j \in Job, NEW n \in Grants, Extend(j, n)
        PROVE  Placed'
    BY <2>2 DEF Extend, ExtendJob
  <2>3. ASSUME NEW j \in Job, Cancel(j)
        PROVE  Placed'
    BY <1>2, <2>3 DEF Cancel, JobState
  <2>4. ASSUME NEW j \in Job, NEW p \in 1..Cardinality(Job), Reorder(j, p)
        PROVE  Placed'
    <3>1. p \in Nat \ {0}
      BY StoreAssumption, FS_CardinalityType
    <3>2. Seated(position') = Seated(position) /\ UNCHANGED state
      BY <2>4, <3>1, MovePlaces DEF Reorder, MoveJob
    <3> QED BY <3>2 DEF Seated
  <2>5. ASSUME NEW p \in Project, Remove(p)
        PROVE  Placed'
    <3> DEFINE lost == {j \in Job : ProjectOf[j] = p /\ Exists(j)}
               rest == [j \in Job |-> IF j \in lost THEN 0 ELSE position[j]]
    <3>1. /\ state' = [j \in Job |-> IF j \in lost THEN "gone" ELSE state[j]]
          /\ position' = Renumber(rest)
      BY <2>5 DEF Remove, RemoveProject
    <3>2. rest \in [Job -> Nat]
      OBVIOUS
    <3>3. \A i \in Job : position'[i] # 0 <=> rest[i] # 0
      BY <3>1, <3>2, RenumberSeats
    <3> HIDE DEF lost
    <3> QED BY <3>1, <3>3
  <2> QED BY <1>3, <2>1, <2>2, <2>3, <2>4, <2>5 DEF UserWrites
<1>4. CASE Moves
  <2>1. CASE Opens \/ Spends \/ Interrupting
    BY <2>1 DEF Opens, Spends, Interrupting, StartRun, FinishRun, InterruptRunsInProgress, jobVars
  <2>2. CASE Takes
    BY <2>2 DEF Takes, MoveJobState
  <2>3. CASE Frees
    <3>1. PICK j \in Job :
            /\ state[j] = "active"
            /\ \/ ReturnJobToQueue(j) \/ MoveJobState(j, "active", "pending")
               \/ DequeueJob(j, "active", "blocked") \/ DequeueJob(j, "active", "review")
      BY <2>3 DEF Frees
    <3>2. CASE ReturnJobToQueue(j) \/ MoveJobState(j, "active", "pending")
      BY <3>1, <3>2 DEF ReturnJobToQueue, MoveJobState
    <3> QED BY <1>2, <3>1, <3>2 DEF JobState
  <2> QED BY <1>4, <2>1, <2>2, <2>3 DEF Moves
<1> QED BY <1>1, <1>3, <1>4, Statements

\* A Job waits only while it has an attempt left.
LEMMA AbleStep ==
  ASSUME MaxFaults = 0, SInv, [Next]_vars
  PROVE  Able'
<1> USE DEF SInv, IInv, RowInv, TypeOK, StoreTypeOK, Able
<1>0. MaxAttempts \in Nat
  BY MaxAttemptsType
<1>1. CASE UNCHANGED rows
  BY <1>1 DEF rows
<1>2. CASE UserWrites
  <2>1. ASSUME NEW j \in Job, NEW n \in Grants, AddJob(j, n) \/ Extend(j, n)
        PROVE  Able'
    <3>1. n \in 1..MaxAttempts
      BY ServiceAssumption
    <3>2. Topped(j, n) \in Nat /\ Topped(j, n) > 0 /\ ttl[j] \in Nat
      BY <1>0, <3>1, MaxAttemptsType DEF Topped
    <3> QED BY <1>0, <2>1, <3>1, <3>2 DEF AddJob, Extend, UpsertJob, ExtendJob
  <2>2. CASE ~\E j \in Job, n \in Grants : AddJob(j, n) \/ Extend(j, n)
    BY <1>2, <2>2 DEF UserWrites, Cancel, Reorder, Remove, DequeueJob, MoveJob, RemoveProject
  <2> QED BY <2>1, <2>2
<1>3. CASE Moves
  <2>1. CASE Takes \/ Opens
    BY <2>1 DEF Takes, Opens, MoveJobState, StartRun, jobVars
  <2>2. CASE Spends
    <3>1. PICK r \in RunId : \E how \in Ended : FinishRun(r, how)
      BY <2>2 DEF Spends
    <3>2. state[runJob[r]] = "active" /\ UNCHANGED state
      BY <3>1 DEF FinishRun, OpenIsActive
    <3>3. \A j \in Job : j # runJob[r] => ttl'[j] = ttl[j]
      BY <3>1 DEF FinishRun, SpendAttempts
    <3> QED BY <3>2, <3>3
  <2>3. CASE Frees
    BY <2>3 DEF Frees, ReturnJobToQueue, MoveJobState, DequeueJob
  <2>4. CASE Interrupting
    <3>1. \A j \in Job : OpenRuns(j) # {} => state[j] = "active"
      BY DEF OpenRuns, OpenIsActive
    <3>2. UNCHANGED state /\ \A j \in Job : OpenRuns(j) = {} => ttl'[j] = ttl[j]
      BY <2>4 DEF Interrupting, InterruptRunsInProgress, SpendAttempts
    <3> QED BY <3>1, <3>2
  <2> QED BY <1>3, <2>1, <2>2, <2>3, <2>4 DEF Moves
<1> QED BY <1>1, <1>2, <1>3, Statements

\* A Run row is taken after the last one and goes with its Job.
LEMMA RowsAgreeStep ==
  ASSUME MaxFaults = 0, SInv, [Next]_vars
  PROVE  RowsAgree'
<1> USE DEF SInv, IInv, RowInv, TypeOK, StoreTypeOK, RowsAgree
<1>1. CASE /\ UNCHANGED runJob
           /\ \A r \in RunId : /\ outcome'[r] = "unused" <=> outcome[r] = "unused"
                               /\ outcome'[r] = "gone" <=> outcome[r] = "gone"
           /\ \A j \in Job : /\ state[j] # "unborn" => state'[j] # "unborn"
                             /\ state'[j] = "gone" <=> state[j] = "gone"
  BY <1>1
<1>2. CASE UNCHANGED rows
  BY <1>1, <1>2 DEF rows, runVars
<1>3. CASE UserWrites
  <2>1. CASE \E p \in Project : Remove(p)
    <3>1. PICK p \in Project : RemoveProject(p)
      BY <2>1 DEF Remove
    <3> DEFINE lost == {j \in Job : ProjectOf[j] = p /\ Exists(j)}
    <3>2. /\ state' = [j \in Job |-> IF j \in lost THEN "gone" ELSE state[j]]
          /\ outcome' = [r \in RunId |-> IF runJob[r] \in lost THEN "gone" ELSE outcome[r]]
          /\ UNCHANGED runJob
      BY <3>1 DEF RemoveProject
    <3>3. NoJob \notin lost /\ \A j \in lost : state[j] # "unborn"
      BY StoreAssumption DEF Exists
    <3> HIDE DEF lost
    <3>4. \A r \in RunId : outcome[r] = "unused" => outcome'[r] = "unused" /\ runJob'[r] = NoJob
      BY <3>2, <3>3
    <3>5. \A r \in RunId : outcome'[r] # "unused" => outcome[r] # "unused"
      BY <3>4
    <3>6. \A r \in RunId : outcome[r] # "unused" => outcome'[r] # "unused"
      BY <3>2
    <3>7. \A r \in RunId : outcome[r] # "unused" =>
            /\ state'[runJob[r]] # "unborn"
            /\ outcome'[r] = "gone" <=> state'[runJob[r]] = "gone"
      BY <3>2
    <3> QED BY <3>2, <3>4, <3>5, <3>6, <3>7
  <2>2. CASE ~\E p \in Project : Remove(p)
    <3>1. UNCHANGED runVars
      BY <1>3, <2>2
         DEF UserWrites, AddJob, Extend, Cancel, Reorder, UpsertJob, ExtendJob, DequeueJob, MoveJob
    <3>2. \A j \in Job : /\ state[j] # "unborn" => state'[j] # "unborn"
                         /\ state'[j] = "gone" <=> state[j] = "gone"
      <4>1. ASSUME NEW j \in Job, NEW n \in Grants, AddJob(j, n) \/ Extend(j, n)
            PROVE  \A i \in Job : /\ state[i] # "unborn" => state'[i] # "unborn"
                                  /\ state'[i] = "gone" <=> state[i] = "gone"
        BY <4>1 DEF AddJob, Extend, UpsertJob, ExtendJob
      <4>2. CASE (\E j \in Job : Cancel(j)) \/ \E j \in Job, p \in 1..Cardinality(Job) : Reorder(j, p)
        BY <4>2 DEF Cancel, Reorder, DequeueJob, MoveJob, StillQueued
      <4> QED BY <1>3, <2>2, <4>1, <4>2 DEF UserWrites
    <3>3. UNCHANGED runJob /\ UNCHANGED outcome
      BY <3>1 DEF runVars
    <3>4. \A r \in RunId : /\ outcome'[r] = "unused" <=> outcome[r] = "unused"
                           /\ outcome'[r] = "gone" <=> outcome[r] = "gone"
      BY <3>3
    <3> QED BY <1>1, <3>2, <3>3, <3>4
  <2> QED BY <2>1, <2>2
<1>4. CASE Moves
  <2>1. CASE Takes
    BY <1>1, <2>1 DEF Takes, MoveJobState, runVars
  <2>2. CASE Opens
    <3>1. PICK r \in RunId, j \in Job : StartRun(r, j)
      BY <2>2 DEF Opens
    <3>2. /\ outcome[r] = "unused" /\ outcome'[r] = "open" /\ runJob'[r] = j
          /\ state[j] \notin {"unborn", "gone"} /\ UNCHANGED state
          /\ \A q \in RunId \ {r} : runJob'[q] = runJob[q] /\ outcome'[q] = outcome[q]
      BY <3>1 DEF StartRun, NextRun, Exists, jobVars
    <3>3. \A q \in RunId : q < r => outcome[q] # "unused"
      BY <3>1 DEF StartRun, NextRun, RunId
    <3>4. \A q \in RunId : outcome'[q] # "unused" => outcome[q] # "unused" \/ q = r
      BY <3>2
    <3>5. \A q, p \in RunId : outcome'[q] # "unused" /\ p < q => outcome'[p] # "unused"
      BY <3>2, <3>3, <3>4
    <3> QED BY <3>2, <3>5
  <2>3. CASE Spends
    BY <1>1, <2>3 DEF Spends, FinishRun, Ended
  <2>4. CASE Frees
    BY <1>1, <2>4 DEF Frees, ReturnJobToQueue, MoveJobState, DequeueJob, runVars
  <2>5. CASE Interrupting
    BY <1>1, <2>5 DEF Interrupting, InterruptRunsInProgress
  <2> QED BY <1>4, <2>1, <2>2, <2>3, <2>4, <2>5 DEF Moves
<1> QED BY <1>2, <1>3, <1>4, Statements

\* A Run is opened where none is, of a Job that is active and can pay; nothing
\* moves the Job or charges it again before the Run has ended.
LEMMA OpenStep ==
  ASSUME MaxFaults = 0, SInv, [Next]_vars
  PROVE  OneOpen' /\ OpenIsActive'
<1> USE DEF SInv, IInv, RowInv, TypeOK, StoreTypeOK, OneOpen, OpenIsActive
<1>0. MaxAttempts \in Nat
  BY MaxAttemptsType
<1>1. CASE /\ UNCHANGED runJob
           /\ \A r \in RunId : outcome'[r] = "open" =>
                /\ outcome[r] = "open"
                /\ state'[runJob[r]] = state[runJob[r]]
                /\ ttl'[runJob[r]] >= ttl[runJob[r]] /\ ttl'[runJob[r]] \in Nat
  <2>1. \A r \in RunId : outcome[r] = "open" => ttl[runJob[r]] \in Nat
    BY <1>0 DEF RowsAgree
  <2> QED BY <1>1, <2>1
<1>2. CASE UNCHANGED rows
  BY <1>2 DEF rows, runVars
<1>3. CASE UserWrites
  <2>0. \A r \in RunId : outcome[r] = "open" => runJob[r] \in Job /\ state[runJob[r]] = "active"
    BY DEF RowsAgree
  <2>1. ASSUME NEW j \in Job, NEW n \in Grants, Extend(j, n)
        PROVE  OneOpen' /\ OpenIsActive'
    <3>1. n \in Nat
      BY ServiceAssumption, <1>0
    <3>2. Topped(j, n) \in Nat /\ Topped(j, n) >= ttl[j]
      BY <1>0, <3>1 DEF Topped
    <3>3. /\ UNCHANGED runVars
          /\ ttl' = [ttl EXCEPT ![j] = Topped(j, n)]
          /\ \A i \in Job : state[i] = "active" => state'[i] = "active"
      BY <2>1 DEF Extend, ExtendJob
    <3>4. \A i \in Job : ttl'[i] >= ttl[i] /\ ttl'[i] \in Nat
      BY <1>0, <3>2, <3>3
    <3> QED BY <1>1, <2>0, <3>3, <3>4 DEF runVars
  <2>2. CASE \E p \in Project : Remove(p)
    <3>1. PICK p \in Project : RemoveProject(p)
      BY <2>2 DEF Remove
    <3> DEFINE lost == {j \in Job : ProjectOf[j] = p /\ Exists(j)}
    <3>2. /\ state' = [j \in Job |-> IF j \in lost THEN "gone" ELSE state[j]]
          /\ outcome' = [r \in RunId |-> IF runJob[r] \in lost THEN "gone" ELSE outcome[r]]
          /\ UNCHANGED <<runJob, ttl>>
      BY <3>1 DEF RemoveProject
    <3> HIDE DEF lost
    <3>3. \A r \in RunId : outcome'[r] = "open" => outcome[r] = "open" /\ runJob[r] \notin lost
      BY <3>2
    <3> QED BY <2>0, <3>2, <3>3
  <2>3. ASSUME NEW j \in Job, NEW n \in Grants, AddJob(j, n)
        PROVE  OneOpen' /\ OpenIsActive'
    <3>1. /\ state[j] = "unborn" /\ UNCHANGED runVars
          /\ \A i \in Job \ {j} : state'[i] = state[i] /\ ttl'[i] = ttl[i]
      BY <2>3 DEF AddJob, UpsertJob
    <3> QED BY <2>0, <3>1 DEF runVars
  <2>4. CASE (\E j \in Job : Cancel(j)) \/ \E j \in Job, p \in 1..Cardinality(Job) : Reorder(j, p)
    <3>1. UNCHANGED <<ttl, runVars>> /\ \A i \in Job : state[i] = "active" => state'[i] = "active"
      BY <2>4 DEF Cancel, Reorder, DequeueJob, MoveJob, StillQueued
    <3> QED BY <2>0, <3>1 DEF runVars
  <2> QED BY <1>3, <2>1, <2>2, <2>3, <2>4 DEF UserWrites
<1>4. CASE Moves
  <2>0. \A r \in RunId : outcome[r] = "open" => runJob[r] \in Job /\ state[runJob[r]] = "active"
    BY DEF RowsAgree
  <2>1. CASE Takes
    <3>1. UNCHANGED <<ttl, runVars>> /\ \A i \in Job : state[i] = "active" => state'[i] = "active"
      BY <2>1 DEF Takes, MoveJobState
    <3> QED BY <2>0, <3>1 DEF runVars
  <2>2. CASE Opens
    <3>1. PICK r \in RunId, j \in Job :
            StartRun(r, j) /\ state[j] = "active" /\ ttl[j] > 0 /\ OpenRuns(j) = {}
      BY <2>2 DEF Opens
    <3>2. /\ outcome[r] = "unused" /\ outcome'[r] = "open" /\ runJob'[r] = j
          /\ UNCHANGED <<state, ttl>>
          /\ \A q \in RunId \ {r} : runJob'[q] = runJob[q] /\ outcome'[q] = outcome[q]
      BY <3>1 DEF StartRun, NextRun, jobVars
    <3>3. \A q \in RunId : outcome[q] = "open" => runJob[q] # j
      BY <3>1 DEF OpenRuns
    <3> QED BY <3>1, <3>2, <3>3
  <2>3. CASE Spends
    <3>1. PICK r \in RunId : \E how \in Ended : FinishRun(r, how)
      BY <2>3 DEF Spends
    <3>2. /\ outcome[r] = "open" /\ outcome'[r] # "open" /\ UNCHANGED <<state, runJob>>
          /\ \A q \in RunId \ {r} : outcome'[q] = outcome[q]
          /\ \A i \in Job : i # runJob[r] => ttl'[i] = ttl[i]
      BY <3>1 DEF FinishRun, SpendAttempts, Ended
    <3>3. \A q \in RunId : outcome'[q] = "open" => outcome[q] = "open" /\ runJob[q] # runJob[r]
      BY <3>2
    <3> QED BY <2>0, <3>2, <3>3
  <2>4. CASE Frees
    <3>1. PICK j \in Job :
            /\ OpenRuns(j) = {}
            /\ \/ ReturnJobToQueue(j) \/ MoveJobState(j, "active", "pending")
               \/ DequeueJob(j, "active", "blocked") \/ DequeueJob(j, "active", "review")
      BY <2>4 DEF Frees
    <3>2. /\ UNCHANGED <<ttl, runVars>> /\ \A i \in Job \ {j} : state'[i] = state[i]
      BY <3>1 DEF ReturnJobToQueue, MoveJobState, DequeueJob
    <3>3. \A q \in RunId : outcome[q] = "open" => runJob[q] # j
      BY <3>1 DEF OpenRuns
    <3> QED BY <2>0, <3>2, <3>3 DEF runVars
  <2>5. CASE Interrupting
    BY <2>5 DEF Interrupting, InterruptRunsInProgress
  <2> QED BY <1>4, <2>1, <2>2, <2>3, <2>4, <2>5 DEF Moves
<1> QED BY <1>2, <1>3, <1>4, Statements

\* What a Job has left and the Runs it had stay what it was given: the attempt a
\* Run costs is there when its end is written, and is written with it.
LEMMA AccountedStep ==
  ASSUME MaxFaults = 0, SInv, [Next]_vars
  PROVE  AttemptsAccounted'
<1> USE DEF SInv, IInv, RowInv, TypeOK, StoreTypeOK
<1> SUFFICES ASSUME NEW j \in Job, Exists(j)'
             PROVE  ttl'[j] + Cardinality(EndedRuns(j)') = granted'[j]
  BY DEF AttemptsAccounted
<1>1. /\ EndedRuns(j) \in SUBSET RunId /\ IsFiniteSet(EndedRuns(j))
      /\ Cardinality(EndedRuns(j)) \in Nat
  <2>1. EndedRuns(j) \in SUBSET RunId
    BY DEF EndedRuns
  <2>2. IsFiniteSet(RunId)
    BY StoreAssumption, FS_Interval DEF RunId
  <2> QED BY <2>1, <2>2, FS_Subset, FS_CardinalityType
<1>2. ttl[j] \in Nat /\ granted[j] \in Nat /\ MaxAttempts \in Nat
  BY MaxAttemptsType
<1>3. Exists(j) => ttl[j] + Cardinality(EndedRuns(j)) = granted[j]
  BY DEF AttemptsAccounted
<1>4. CASE Exists(j) /\ granted'[j] = granted[j] /\ EndedRuns(j)' = EndedRuns(j) /\ ttl'[j] = ttl[j]
  BY <1>3, <1>4
<1>5. ASSUME Exists(j), granted'[j] = granted[j], ttl[j] > 0, ttl'[j] = ttl[j] - 1,
             NEW r, r \notin EndedRuns(j), EndedRuns(j)' = EndedRuns(j) \cup {r}
      PROVE  ttl'[j] + Cardinality(EndedRuns(j)') = granted'[j]
  <2>1. Cardinality(EndedRuns(j)') = Cardinality(EndedRuns(j)) + 1
    BY <1>1, <1>5, FS_AddElement, ZenonT(30)
  <2> QED BY <1>1, <1>2, <1>3, <1>5, <2>1
<1>6. CASE UNCHANGED rows
  BY <1>4, <1>6 DEF rows, runVars, Exists, EndedRuns
<1>7. CASE UserWrites
  <2>1. ASSUME NEW i \in Job, NEW n \in Grants, AddJob(i, n)
        PROVE  ttl'[j] + Cardinality(EndedRuns(j)') = granted'[j]
    <3>1. CASE i = j
      <4>1. ttl'[j] = n /\ granted'[j] = n /\ n \in Nat
        BY <2>1, <3>1, ServiceAssumption, <1>2 DEF AddJob, UpsertJob
      <4>2. state[j] = "unborn" /\ UNCHANGED runVars
        BY <2>1, <3>1 DEF AddJob, UpsertJob
      <4>3. \A r \in RunId : runJob[r] # j
        BY <4>2, StoreAssumption DEF RowsAgree
      <4>4. EndedRuns(j)' = {}
        BY <4>2, <4>3 DEF EndedRuns, runVars
      <4> QED BY <4>1, <4>4, FS_EmptySet
    <3>2. CASE i # j
      BY <1>4, <2>1, <3>2 DEF AddJob, UpsertJob, Exists, EndedRuns, runVars
    <3> QED BY <3>1, <3>2
  <2>2. ASSUME NEW i \in Job, NEW n \in Grants, Extend(i, n)
        PROVE  ttl'[j] + Cardinality(EndedRuns(j)') = granted'[j]
    <3>0. n \in Nat
      BY ServiceAssumption, MaxAttemptsType
    <3>1. CASE i = j
      <4>1. EndedRuns(j)' = EndedRuns(j) /\ Exists(j)
        BY <2>2, <3>1 DEF Extend, ExtendJob, EndedRuns, runVars
      <4>2. ttl'[j] = Topped(j, n) /\ granted'[j] = granted[j] + (Topped(j, n) - ttl[j])
        BY <2>2, <3>1 DEF Extend, ExtendJob
      <4>3. Topped(j, n) \in Nat
        BY <1>2, <3>0 DEF Topped
      <4> QED BY <1>1, <1>2, <1>3, <4>1, <4>2, <4>3
    <3>2. CASE i # j
      BY <1>4, <2>2, <3>2 DEF Extend, ExtendJob, Exists, EndedRuns, runVars
    <3> QED BY <3>1, <3>2
  <2>3. ASSUME NEW i \in Job, Cancel(i)
        PROVE  ttl'[j] + Cardinality(EndedRuns(j)') = granted'[j]
    <3>1. state[i] = "pending" /\ UNCHANGED <<ttl, runVars, granted>>
      BY <2>3 DEF Cancel, DequeueJob, StillQueued, envVars
    <3>2. state' = [state EXCEPT ![i] = "cancelled"]
      BY <2>3 DEF Cancel, DequeueJob
    <3> QED BY <1>4, <3>1, <3>2 DEF Exists, EndedRuns, runVars
  <2>4. ASSUME NEW i \in Job, NEW p \in 1..Cardinality(Job), Reorder(i, p)
        PROVE  ttl'[j] + Cardinality(EndedRuns(j)') = granted'[j]
    <3>1. UNCHANGED <<state, ttl, runVars, granted>>
      BY <2>4 DEF Reorder, MoveJob, envVars
    <3> QED BY <1>4, <3>1 DEF Exists, EndedRuns, runVars
  <2>5. ASSUME NEW p \in Project, Remove(p)
        PROVE  ttl'[j] + Cardinality(EndedRuns(j)') = granted'[j]
    <3> DEFINE lost == {i \in Job : ProjectOf[i] = p /\ Exists(i)}
    <3>1. /\ state' = [i \in Job |-> IF i \in lost THEN "gone" ELSE state[i]]
          /\ outcome' = [r \in RunId |-> IF runJob[r] \in lost THEN "gone" ELSE outcome[r]]
          /\ UNCHANGED <<ttl, runJob, granted>>
      BY <2>5 DEF Remove, RemoveProject, envVars
    <3> HIDE DEF lost
    <3>2. j \notin lost /\ Exists(j)
      BY <3>1 DEF Exists
    <3>3. EndedRuns(j)' = EndedRuns(j)
      BY <3>1, <3>2 DEF EndedRuns
    <3> QED BY <1>4, <3>1, <3>2, <3>3
  <2> QED BY <1>7, <2>1, <2>2, <2>3, <2>4, <2>5 DEF UserWrites
<1>8. CASE Moves
  <2>0. UNCHANGED granted
    BY <1>8 DEF Moves
  <2>1. CASE Takes \/ Frees
    <3>1. UNCHANGED <<ttl, runVars>> /\ Exists(j)
      BY <2>1 DEF Takes, Frees, ReturnJobToQueue, MoveJobState, DequeueJob, StillQueued, Exists
    <3> QED BY <1>4, <2>0, <3>1 DEF EndedRuns, runVars
  <2>2. CASE Opens
    <3>1. PICK r \in RunId : \E i \in Job : StartRun(r, i)
      BY <2>2 DEF Opens
    <3>2. /\ outcome[r] = "unused" /\ outcome'[r] = "open" /\ UNCHANGED <<ttl, state>>
          /\ \A q \in RunId \ {r} : runJob'[q] = runJob[q] /\ outcome'[q] = outcome[q]
      BY <3>1 DEF StartRun, NextRun, jobVars
    <3>3. EndedRuns(j)' = EndedRuns(j)
      BY <3>2 DEF EndedRuns, Ended
    <3> QED BY <1>4, <2>0, <3>2, <3>3 DEF Exists
  <2>3. CASE Spends
    <3>1. PICK r \in RunId, how \in Ended : FinishRun(r, how)
      BY <2>3 DEF Spends
    <3>2. /\ outcome[r] = "open" /\ outcome' = [outcome EXCEPT ![r] = how]
          /\ UNCHANGED <<state, runJob>>
          /\ ttl' = [i \in Job |-> IF i = runJob[r] /\ ttl[i] > 0 THEN ttl[i] - 1 ELSE ttl[i]]
      BY <3>1 DEF FinishRun, SpendAttempts
    <3>3. CASE runJob[r] = j
      <4>1. r \notin EndedRuns(j) /\ EndedRuns(j)' = EndedRuns(j) \cup {r}
        BY <3>2, <3>3 DEF EndedRuns, Ended
      <4>2. ttl[j] > 0
        BY <3>2, <3>3 DEF OpenIsActive
      <4> QED BY <1>5, <2>0, <3>2, <3>3, <4>1, <4>2 DEF Exists
    <3>4. CASE runJob[r] # j
      <4>1. EndedRuns(j)' = EndedRuns(j)
        BY <3>2, <3>4 DEF EndedRuns
      <4> QED BY <1>4, <2>0, <3>2, <3>4, <4>1 DEF Exists
    <3> QED BY <3>3, <3>4
  <2>4. CASE Interrupting
    <3>1. /\ UNCHANGED <<state, runJob>>
          /\ ttl' = [i \in Job |-> IF OpenRuns(i) # {} /\ ttl[i] > 0 THEN ttl[i] - 1 ELSE ttl[i]]
          /\ outcome' = [r \in RunId |-> IF outcome[r] = "open" THEN "interrupted" ELSE outcome[r]]
      BY <2>4 DEF Interrupting, InterruptRunsInProgress, SpendAttempts
    <3>2. EndedRuns(j)' = EndedRuns(j) \cup OpenRuns(j)
      BY <3>1 DEF EndedRuns, OpenRuns, Ended
    <3>3. CASE OpenRuns(j) = {}
      BY <1>4, <2>0, <3>1, <3>2, <3>3 DEF Exists
    <3>4. CASE OpenRuns(j) # {}
      <4>1. PICK r \in RunId : runJob[r] = j /\ outcome[r] = "open"
        BY <3>4 DEF OpenRuns
      <4>2. OpenRuns(j) = {r}
        BY <4>1 DEF OpenRuns, OneOpen
      <4>3. r \notin EndedRuns(j) /\ ttl[j] > 0
        BY <4>1 DEF EndedRuns, Ended, OpenIsActive
      <4> QED BY <1>5, <2>0, <3>1, <3>2, <3>4, <4>2, <4>3 DEF Exists
    <3> QED BY <3>3, <3>4
  <2> QED BY <1>8, <2>1, <2>2, <2>3, <2>4 DEF Moves
<1> QED BY <1>6, <1>7, <1>8, Statements

\* A Job that waits for review keeps the Run that earned it, and has none after.
LEMMA ReviewStep ==
  ASSUME MaxFaults = 0, SInv, [Next]_vars
  PROVE  ReviewIsEarned'
<1> USE DEF SInv, IInv, RowInv, TypeOK, StoreTypeOK
<1> SUFFICES ASSUME NEW j \in Job, state'[j] = "review"
             PROVE  Earned(j)'
  BY DEF ReviewIsEarned, Earned
<1>1. state[j] = "review" => Earned(j)
  BY DEF ReviewIsEarned, Earned
<1>2. CASE /\ Earned(j)
           /\ \A r \in RunId : /\ runJob'[r] = j <=> runJob[r] = j
                               /\ runJob[r] = j /\ outcome[r] = "succeeded" =>
                                    outcome'[r] = "succeeded"
  BY <1>2 DEF Earned
<1>3. CASE Earned(j) /\ UNCHANGED runVars
  BY <1>3 DEF Earned, runVars
<1>4. CASE UNCHANGED rows
  BY <1>1, <1>3, <1>4 DEF rows
<1>5. CASE UserWrites
  <2>1. CASE \E p \in Project : Remove(p)
    <3>1. PICK p \in Project : RemoveProject(p)
      BY <2>1 DEF Remove
    <3> DEFINE lost == {i \in Job : ProjectOf[i] = p /\ Exists(i)}
    <3>2. /\ state' = [i \in Job |-> IF i \in lost THEN "gone" ELSE state[i]]
          /\ outcome' = [r \in RunId |-> IF runJob[r] \in lost THEN "gone" ELSE outcome[r]]
          /\ UNCHANGED runJob
      BY <3>1 DEF RemoveProject
    <3> HIDE DEF lost
    <3>3. j \notin lost /\ state[j] = "review"
      BY <3>2
    <3> QED BY <1>1, <1>2, <3>2, <3>3
  <2>2. CASE ~\E p \in Project : Remove(p)
    <3>1. UNCHANGED runVars
      BY <1>5, <2>2
         DEF UserWrites, AddJob, Extend, Cancel, Reorder, UpsertJob, ExtendJob, DequeueJob, MoveJob
    <3>2. state[j] = "review"
      <4>1. ASSUME NEW i \in Job, NEW n \in Grants, AddJob(i, n) \/ Extend(i, n)
            PROVE  state[j] = "review"
        BY <4>1 DEF AddJob, Extend, UpsertJob, ExtendJob
      <4>2. CASE (\E i \in Job : Cancel(i)) \/ \E i \in Job, p \in 1..Cardinality(Job) : Reorder(i, p)
        BY <4>2 DEF Cancel, Reorder, DequeueJob, MoveJob
      <4> QED BY <1>5, <2>2, <4>1, <4>2 DEF UserWrites
    <3> QED BY <1>1, <1>3, <3>1, <3>2
  <2> QED BY <2>1, <2>2
<1>6. CASE Moves
  <2>1. CASE Takes
    BY <1>1, <1>3, <2>1 DEF Takes, MoveJobState
  <2>2. CASE Opens
    <3>1. PICK r \in RunId, i \in Job : StartRun(r, i) /\ state[i] = "active"
      BY <2>2 DEF Opens
    <3>2. /\ outcome[r] = "unused" /\ runJob'[r] = i /\ UNCHANGED state
          /\ \A q \in RunId \ {r} : runJob'[q] = runJob[q] /\ outcome'[q] = outcome[q]
      BY <3>1 DEF StartRun, NextRun, jobVars
    <3>3. runJob[r] # j /\ i # j
      BY <3>1, <3>2, StoreAssumption DEF RowsAgree
    <3> QED BY <1>1, <1>2, <3>2, <3>3
  <2>3. CASE Spends
    BY <1>1, <1>2, <2>3 DEF Spends, FinishRun
  <2>4. CASE Frees
    <3>1. UNCHANGED runVars
      BY <2>4 DEF Frees, ReturnJobToQueue, MoveJobState, DequeueJob
    <3>2. state[j] = "review" \/ Earned(j)
      BY <2>4 DEF Frees, ReturnJobToQueue, MoveJobState, DequeueJob
    <3> QED BY <1>1, <1>3, <3>1, <3>2
  <2>5. CASE Interrupting
    BY <1>1, <1>2, <2>5 DEF Interrupting, InterruptRunsInProgress
  <2> QED BY <1>6, <2>1, <2>2, <2>3, <2>4, <2>5 DEF Moves
<1> QED BY <1>4, <1>5, <1>6, Statements

-----------------------------------------------------------------------------
(* What a step does to a start and to a goroutine, when no write fails. *)

\* Nothing is held, before or after.
Wanders ==
  /\ ~Holding /\ UNCHANGED storeVars
  /\ start'.at \in {"idle", "check"} \/ (start'.at = "exhaust" /\ start'.list = {})
Claims ==
  /\ At("check") /\ MoveJobState(start.job, "pending", "active")
  /\ start'.at = "carry" /\ start'.job = start.job
\* A Job is being prepared, or is let go of on the way.
Prepares ==
  /\ start.at \in {"carry", "tree", "note", "prepare", "open"}
  /\ start'.at \in {"tree", "note", "prepare", "open", "uncarry"} /\ start'.job = start.job
  /\ UNCHANGED <<ttl, runVars>>
  /\ UNCHANGED state \/ DequeueJob(start.job, "active", "blocked")
OpensRow ==
  /\ At("open") /\ start'.at = "launch" /\ start'.job = start.job
  /\ \E r \in RunId : StartRun(r, start.job) /\ start'.run = r
GivesUpRow ==
  /\ At("launch") /\ UNCHANGED storeVars
  /\ start'.at = "abandonRun" /\ start'.job = start.job /\ start'.run = start.run
FailsRow ==
  /\ At("abandonRun") /\ start'.at = "abandonJob" /\ start'.job = start.job
  /\ \/ FinishRun(start.run, "failed")
     \/ outcome[start.run] # "open" /\ UNCHANGED storeVars
BlocksJob ==
  /\ At("abandonJob") /\ start'.at = "uncarry" /\ start'.job = start.job
  /\ \/ DequeueJob(start.job, "active", "blocked")
     \/ ~StillQueued(start.job, "active") /\ UNCHANGED storeVars
LetsGo ==
  /\ At("uncarry") /\ start'.at = "release" /\ start'.job = start.job /\ UNCHANGED storeVars
PutsBack ==
  /\ At("release") /\ start' = Idle
  /\ \/ MoveJobState(start.job, "active", "pending")
     \/ state[start.job] # "active" /\ UNCHANGED storeVars
SetsOff ==
  /\ At("launch") /\ start' = Idle /\ UNCHANGED <<state, ttl, runVars>>
  /\ work'[start.run].at = "agent" /\ \A q \in RunId \ {start.run} : work'[q] = work[q]

\* A start's step is one of these.
LEMMA StartShapes ==
  ASSUME MaxFaults = 0, SInv, Starting \/ BeginStart
  PROVE  /\ UNCHANGED <<daemon, leftover>>
         /\ \/ SetsOff
            \/ /\ UNCHANGED work
               /\ \/ Wanders \/ Claims \/ Prepares \/ OpensRow \/ GivesUpRow
                  \/ FailsRow \/ BlocksJob \/ LetsGo \/ PutsBack
<1> USE DEF SInv, IInv, At
<1>0. ~Fault
  BY NoFault
<1>1. UNCHANGED <<daemon, leftover>>
  BY DEF Starting, Exhaust, Scan, Refuse, Claim, Carry, AddWorktree, RecordWorkspace, Prepare,
         OpenRun, Launch, AbandonRun, AbandonJob, Uncarry, Release, BeginStart, startFrame
<1>2. ASSUME NEW j \in Job, Exhaust(j)
      PROVE  FALSE
  BY <1>2 DEF Exhaust, HandInv, NothingListed
<1>3. CASE BeginStart
  <2>1. {j \in ListQueue("pending") : ttl[j] = 0} = {}
    BY DEF ListQueue, RowInv, Able
  <2>2. start' = [Idle EXCEPT !.at = "exhaust", !.list = {}]
    BY <1>3, <2>1 DEF BeginStart
  <2>3. start'.at = "exhaust" /\ start'.list = {}
    BY <2>2 DEF Idle
  <2> QED BY <1>1, <1>3, <2>3 DEF BeginStart, Wanders, Holding, startFrame
<1>4. CASE Scan
  <2>1. start'.at \in {"idle", "check"}
    BY <1>4, ScanGoes DEF Idle
  <2>2. UNCHANGED <<storeVars, work>> /\ ~Holding
    BY <1>4 DEF Scan, Holding, startFrame
  <2> QED BY <1>1, <2>1, <2>2 DEF Wanders
<1>5. CASE Refuse
  BY <1>1, <1>5 DEF Refuse, Wanders, Holding, startFrame, Over, Idle
<1>6. CASE Claim
  BY <1>1, <1>6, ClaimGoes DEF Claim, Claims, Wanders, Holding, startFrame, Idle
<1>7. CASE Carry \/ AddWorktree \/ RecordWorkspace \/ Prepare
  <2>1. start'.at \in {"tree", "note", "prepare", "open", "uncarry"} /\ start'.job = start.job
    BY <1>7, StartGoes DEF Carry, AddWorktree, RecordWorkspace, Prepare
  <2>2. UNCHANGED <<ttl, runVars, work>>
    BY <1>7
       DEF Carry, AddWorktree, RecordWorkspace, Prepare, Block, DequeueJob, CannotDequeue,
           startFrame, storeVars, jobVars
  <2>3. UNCHANGED state \/ DequeueJob(start.job, "active", "blocked")
    BY <1>7
       DEF Carry, AddWorktree, RecordWorkspace, Prepare, Block, CannotDequeue, storeVars, jobVars
  <2> QED
    BY <1>1, <1>7, <2>1, <2>2, <2>3 DEF Prepares, Carry, AddWorktree, RecordWorkspace, Prepare
<1>8. CASE OpenRun
  BY <1>1, <1>8, OpenGoes DEF OpenRun, OpensRow, Prepares, startFrame, storeVars, jobVars
<1>9. CASE Launch
  <2>1. UNCHANGED <<state, ttl, runVars>>
    BY <1>9 DEF Launch, storeVars, jobVars
  <2> QED BY <1>1, <1>9, <2>1, LaunchGoes DEF Launch, SetsOff, GivesUpRow
<1>10. CASE AbandonRun
  BY <1>0, <1>1, <1>10, StartGoes DEF AbandonRun, FailsRow, startFrame, Fails
<1>11. CASE AbandonJob
  BY <1>0, <1>1, <1>11, StartGoes
     DEF AbandonJob, BlocksJob, Block, CannotDequeue, startFrame, Fails
<1>12. CASE Uncarry
  BY <1>1, <1>12, StartGoes DEF Uncarry, LetsGo, startFrame
<1>13. CASE Release
  BY <1>0, <1>1, <1>13 DEF Release, PutsBack, startFrame, Fails, Over
<1> QED
  BY <1>2, <1>3, <1>4, <1>5, <1>6, <1>7, <1>8, <1>9, <1>10, <1>11, <1>12, <1>13 DEF Starting

\* A goroutine at work, and its three last steps.
WorksOn(r) == /\ Working(r) /\ ~WorkAt(r, "move") /\ (Working(r) /\ ~WorkAt(r, "move"))'
              /\ UNCHANGED <<state, ttl, runVars>>
EndsRow(r) == /\ WorkAt(r, "finish") /\ WorkAt(r, "move")' /\ work'[r].how = work[r].how
              /\ \/ FinishRun(r, work[r].how)
                 \/ outcome[r] # "open" /\ UNCHANGED storeVars
MovesJob(r) == /\ WorkAt(r, "move")
               /\ \/ WorkAt(r, "drop")' /\ ReturnJobToQueue(runJob[r])
                  \/ WorkAt(r, "drop")' /\ DequeueJob(runJob[r], "active", Settled(r))
                  \/ /\ WorkAt(r, "amend")' /\ UNCHANGED storeVars
                     /\ ~Exists(runJob[r]) \/ ~StillQueued(runJob[r], "active")
WindsUp(r) == /\ WorkAt(r, "amend") \/ WorkAt(r, "drop")
              /\ WorkAt(r, "drop")' \/ WorkAt(r, "off")'
              /\ UNCHANGED storeVars

\* A goroutine's step is one of these.
LEMMA WorkShapes ==
  ASSUME MaxFaults = 0, SInv, NEW r \in RunId, CarryOut(r)
  PROVE  /\ UNCHANGED <<daemon, leftover, start, runJob>>
         /\ \A q \in RunId \ {r} : work'[q] = work[q]
         /\ WorksOn(r) \/ EndsRow(r) \/ MovesJob(r) \/ WindsUp(r)
<1> USE DEF SInv, IInv, WorkAt
<1>0. ~Fault
  BY NoFault
<1>1. UNCHANGED <<daemon, leftover, start, runJob>> /\ \A q \in RunId \ {r} : work'[q] = work[q]
  <2>1. UNCHANGED leftover
    BY DEF CarryOut, AgentEnds, Verify, RecordPlan, Finish, MoveOn, Amend, Drop, workFrame
  <2> QED BY <2>1, CarryOutFrame
<1>2. CASE (\E how \in Ended : AgentEnds(r, how)) \/ Verify(r) \/ RecordPlan(r)
  <2>1. work'[r].at \in {"verify", "plan", "finish"}
    BY <1>2, WorkGoes
  <2>2. UNCHANGED <<state, ttl, runVars>> /\ work[r].at \in {"agent", "verify", "plan"}
    BY <1>2 DEF AgentEnds, Verify, RecordPlan, storeVars, jobVars
  <2> QED BY <1>1, <2>1, <2>2 DEF WorksOn, Working
<1>3. CASE Finish(r)
  BY <1>0, <1>1, <1>3, WorkGoes DEF Finish, EndsRow, Fails
<1>4. CASE MoveOn(r)
  BY <1>0, <1>1, <1>4, WorkGoes DEF MoveOn, MovesJob, CannotDequeue, Fails
<1>5. CASE Amend(r)
  <2>1. ~FailRun(r)
    <3>1. outcome[r] # "unused" /\ state[runJob[r]] = "gone"
      BY <1>5 DEF Amend, Attached, HandInv, Moved
    <3>2. outcome[r] = "gone"
      BY <3>1 DEF RowInv, RowsAgree
    <3> QED BY <3>2 DEF FailRun, Ended
  <2> QED BY <1>1, <1>5, <2>1, WorkGoes DEF Amend, WindsUp
<1>6. CASE Drop(r)
  BY <1>1, <1>6, WorkGoes DEF Drop, WindsUp
<1> QED BY <1>2, <1>3, <1>4, <1>5, <1>6 DEF CarryOut

-----------------------------------------------------------------------------
(* What those steps do to what the daemon has in hand. *)

\* What the user does to the rows the daemon has in hand.
LEMMA UserHands ==
  ASSUME SInv, User
  PROVE  /\ UNCHANGED <<daemon, start, work, runJob, leftover>>
         /\ daemon = "recovering" => UNCHANGED <<state, outcome>>
         /\ \A j \in Job : /\ state[j] = "active" => state'[j] \in {"active", "gone"}
                           /\ state[j] = "gone" => state'[j] = "gone"
                           /\ state'[j] = "active" => /\ state[j] = "active"
                                                      /\ ttl[j] > 0 => ttl'[j] > 0
         /\ \A r \in RunId : outcome'[r] \in {outcome[r], "gone"}
<1> USE DEF SInv, IInv, TypeOK, StoreTypeOK
<1>0. MaxAttempts \in Nat
  BY MaxAttemptsType
<1>1. UNCHANGED <<daemon, start, work, runJob>>
  BY UserFrame
<1>2. UNCHANGED leftover
  BY DEF User, AddJob, Cancel, Extend, Reorder, Remove, EditConfig, daemonVars
<1>3. daemon = "recovering" => UNCHANGED <<state, outcome>>
  BY DEF User, AddJob, Cancel, Extend, Reorder, Remove, EditConfig, Serving, storeVars, jobVars,
         runVars
<1>4. \A r \in RunId : outcome'[r] \in {outcome[r], "gone"}
  BY DEF User, AddJob, Cancel, Extend, Reorder, Remove, EditConfig, UpsertJob, DequeueJob,
         ExtendJob, MoveJob, RemoveProject, storeVars, runVars
<1>5. \A j \in Job : /\ state[j] = "active" => state'[j] \in {"active", "gone"}
                     /\ state[j] = "gone" => state'[j] = "gone"
                     /\ state'[j] = "active" => /\ state[j] = "active"
                                                /\ ttl[j] > 0 => ttl'[j] > 0
  <2>1. ASSUME NEW i \in Job, NEW n \in Grants, AddJob(i, n)
        PROVE  \A j \in Job : state[j] # "unborn" => state'[j] = state[j] /\ ttl'[j] = ttl[j]
    BY <2>1 DEF AddJob, UpsertJob
  <2>2. ASSUME NEW i \in Job, NEW n \in Grants, AddJob(i, n)
        PROVE  \A j \in Job : state[j] = "unborn" => state'[j] # "active"
    BY <2>2 DEF AddJob, UpsertJob
  <2>3. ASSUME NEW i \in Job, NEW n \in Grants, Extend(i, n)
        PROVE  \A j \in Job :
                 /\ state'[j] = state[j] \/ (state[j] = "exhausted" /\ state'[j] = "pending")
                 /\ ttl[j] > 0 => ttl'[j] > 0
    <3>1. n \in Nat
      BY <1>0, ServiceAssumption
    <3>2. ttl[i] > 0 => Topped(i, n) > 0
      BY <1>0, <3>1, MaxAttemptsType DEF Topped
    <3>3. \A j \in Job : state'[j] = state[j] \/ (state[j] = "exhausted" /\ state'[j] = "pending")
      <4>1. \/ state[i] = "exhausted" /\ state' = [state EXCEPT ![i] = "pending"]
            \/ UNCHANGED state
        BY <2>3 DEF Extend, ExtendJob
      <4> QED BY <4>1
    <3>4. \A j \in Job : ttl'[j] = ttl[j] \/ (j = i /\ ttl'[j] = Topped(i, n))
      BY <2>3 DEF Extend, ExtendJob
    <3> QED BY <3>2, <3>3, <3>4
  <2>4. CASE \/ \E i \in Job : Cancel(i)
             \/ \E i \in Job, p \in 1..Cardinality(Job) : Reorder(i, p)
             \/ \E p \in Project : Remove(p)
             \/ \E p \in Project, a \in Account \cup {NoAccount} : EditConfig(p, a)
    BY <2>4, ZenonT(30) DEF Cancel, Reorder, Remove, EditConfig, DequeueJob, StillQueued, MoveJob,
                RemoveProject, Exists, storeVars, jobVars
  <2>5. CASE \E i \in Job, n \in Grants : AddJob(i, n)
    BY <2>1, <2>2, <2>5
  <2>6. CASE \E i \in Job, n \in Grants : Extend(i, n)
    BY <2>3, <2>6
  <2> QED BY <2>4, <2>5, <2>6 DEF User
<1> QED BY <1>1, <1>2, <1>3, <1>4, <1>5

\* A start is handed no list but an empty one.
LEMMA NothingListedStep ==
  ASSUME MaxFaults = 0, SInv, [Next]_vars
  PROVE  NothingListed'
<1> USE DEF SInv, IInv, HandInv, NothingListed, At
<1>1. CASE UNCHANGED start
  BY <1>1
<1>2. CASE User
  BY <1>1, <1>2, UserHands
<1>3. CASE Starting \/ BeginStart
  BY <1>3, StartShapes
     DEF Wanders, Claims, Prepares, OpensRow, GivesUpRow, FailsRow, BlocksJob, LetsGo, PutsBack,
         SetsOff, Idle
<1>4. ASSUME NEW r \in RunId, CarryOut(r)
      PROVE  NothingListed'
  BY <1>1, <1>4, CarryOutFrame
<1>5. CASE Recover \/ Stop \/ Close \/ RefuseStarts \/ Exit \/ UNCHANGED vars
  BY <1>1, <1>5
     DEF Recover, Boot, RequeueLeftOver, Serve, Stop, Close, RefuseStarts, Exit, vars, daemonVars
<1>6. CASE Crash
  BY <1>6 DEF Crash, Idle
<1> QED BY <1>2, <1>3, <1>4, <1>5, <1>6 DEF Next

\* The end of a Run is written by whoever has it in hand, and not twice.
LEMMA OwnersStep ==
  ASSUME MaxFaults = 0, SInv, [Next]_vars
  PROVE  Owners'
<1> USE DEF SInv, IInv, HandInv, TypeOK, StoreTypeOK, Owners, At, WorkAt
<1>1. CASE /\ daemon' = daemon /\ UNCHANGED <<start, work>>
           /\ \A r \in RunId : outcome'[r] \in {outcome[r], "gone"}
  <2>1. \A r \in RunId : Owned(r)' <=> Owned(r)
    BY <1>1 DEF Owned, Working
  <2> QED BY <1>1, <2>1
<1>2. CASE User
  BY <1>1, <1>2, UserHands
<1>3. CASE Starting \/ BeginStart
  <2>1. daemon' = daemon
    BY <1>3, StartShapes
  <2>2. CASE /\ UNCHANGED <<work, outcome>>
             /\ start.at \notin {"launch", "abandonRun"} /\ start'.at \notin {"launch", "abandonRun"}
    <3>1. \A r \in RunId : Owned(r)' <=> Owned(r)
      BY <2>2 DEF Owned, Working
    <3> QED BY <2>1, <2>2, <3>1
  <2>3. CASE UNCHANGED work /\ (Wanders \/ Claims \/ Prepares)
    <3>1. /\ UNCHANGED outcome
          /\ start.at \notin {"launch", "abandonRun"} /\ start'.at \notin {"launch", "abandonRun"}
      BY <2>3 DEF Wanders, Claims, Prepares, MoveJobState, Holding, storeVars, runVars
    <3> QED BY <2>2, <2>3, <3>1
  <2>4. CASE UNCHANGED work /\ (BlocksJob \/ LetsGo \/ PutsBack)
    <3>1. /\ UNCHANGED outcome
          /\ start.at \notin {"launch", "abandonRun"} /\ start'.at \notin {"launch", "abandonRun"}
      BY <2>4 DEF BlocksJob, LetsGo, PutsBack, MoveJobState, DequeueJob, storeVars, runVars, Idle
    <3> QED BY <2>2, <2>4, <3>1
  <2>5. CASE UNCHANGED work /\ OpensRow
    <3>1. PICK r \in RunId : StartRun(r, start.job) /\ start'.run = r
      BY <2>5 DEF OpensRow
    <3>2. outcome[r] = "unused" /\ outcome'[r] = "open" /\ \A q \in RunId \ {r} : outcome'[q] = outcome[q]
      BY <3>1 DEF StartRun, NextRun
    <3>3. \A q \in RunId \ {r} : Owned(q)' <=> Owned(q)
      BY <2>5, <3>1 DEF Owned, Working, OpensRow
    <3>4. Owned(r)'
      BY <2>5, <3>1 DEF Owned, OpensRow
    <3> QED BY <2>1, <3>2, <3>3, <3>4
  <2>6. CASE UNCHANGED work /\ GivesUpRow
    <3>1. \A r \in RunId : Owned(r)' <=> Owned(r)
      BY <2>6 DEF Owned, Working, GivesUpRow
    <3> QED BY <2>1, <2>6, <3>1 DEF GivesUpRow, storeVars, runVars
  <2>7. CASE UNCHANGED work /\ FailsRow
    <3>1. start.run \in RunId /\ work[start.run].at = "off"
      BY <2>7 DEF FailsRow, Attached
    <3>2. outcome'[start.run] # "open" /\ \A q \in RunId \ {start.run} : outcome'[q] = outcome[q]
      BY <2>7, <3>1 DEF FailsRow, FinishRun, storeVars, runVars
    <3>3. \A q \in RunId \ {start.run} : Owned(q)' <=> Owned(q)
      BY <2>7 DEF Owned, Working, FailsRow
    <3>4. \A q \in RunId : q = start.run => ~Owned(q)'
      BY <2>7, <3>1 DEF Owned, Working, FailsRow
    <3> QED BY <2>1, <3>1, <3>2, <3>3, <3>4
  <2>8. CASE SetsOff
    <3>1. start.run \in RunId
      BY <2>8 DEF SetsOff, Attached
    <3>2. \A q \in RunId : Owned(q)' <=> Owned(q)
      <4>1. \A q \in RunId : q = start.run => Owned(q)' /\ Owned(q)
        BY <2>8, <3>1 DEF SetsOff, Owned, Working
      <4>2. \A q \in RunId \ {start.run} : Owned(q)' <=> Owned(q)
        BY <2>8 DEF SetsOff, Owned, Working, Idle
      <4> QED BY <4>1, <4>2
    <3> QED BY <2>1, <2>8, <3>2 DEF SetsOff, runVars
  <2> QED BY <1>3, <2>3, <2>4, <2>5, <2>6, <2>7, <2>8, StartShapes
<1>4. ASSUME NEW r \in RunId, CarryOut(r)
      PROVE  Owners'
  <2>1. /\ UNCHANGED <<daemon, start>> /\ ~WorkAt(r, "off")
        /\ \A q \in RunId \ {r} : work'[q] = work[q]
        /\ WorksOn(r) \/ EndsRow(r) \/ MovesJob(r) \/ WindsUp(r)
    BY <1>4, CarryOutFrame, WorkShapes
  <2>2. \A q \in RunId \ {r} : Owned(q)' <=> Owned(q)
    BY <2>1 DEF Owned, Working
  <2>3. ~((At("launch") \/ At("abandonRun")) /\ start.run = r) /\ daemon # "down"
    BY <2>1 DEF Attached, Quiet, Resting
  <2>4. \A q \in RunId \ {r} : outcome'[q] = outcome[q]
    BY <2>1 DEF WorksOn, EndsRow, MovesJob, WindsUp, FinishRun, ReturnJobToQueue, DequeueJob,
                storeVars, runVars
  <2>5. CASE WorksOn(r)
    BY <2>1, <2>2, <2>4, <2>5 DEF WorksOn, Owned, runVars
  <2>6. CASE EndsRow(r)
    <3>1. work[r].how # "open"
      BY <2>6 DEF EndsRow, Concluded, Ended
    <3>2. outcome'[r] # "open" /\ ~Owned(r)'
      BY <2>1, <2>3, <2>6, <3>1 DEF EndsRow, FinishRun, Owned, Working, storeVars, runVars
    <3> QED BY <2>1, <2>2, <2>4, <3>2
  <2>7. CASE MovesJob(r) \/ WindsUp(r)
    <3>1. ~Owned(r) /\ ~Owned(r)'
      BY <2>1, <2>3, <2>7 DEF MovesJob, WindsUp, Owned, Working
    <3>2. outcome'[r] = outcome[r]
      BY <2>7 DEF MovesJob, WindsUp, ReturnJobToQueue, DequeueJob, storeVars, runVars
    <3> QED BY <2>1, <2>2, <2>4, <3>1, <3>2
  <2> QED BY <2>1, <2>5, <2>6, <2>7
<1>5. CASE Recover
  <2>1. UNCHANGED <<start, work>> /\ Resting
    BY <1>5 DEF Recover, Boot, RequeueLeftOver, Serve, Resting
  <2>2. \A r \in RunId : ~Owned(r) /\ ~Owned(r)'
    BY <2>1 DEF Quiet, Owned, Working
  <2>3. \A r \in RunId : outcome'[r] # "open"
    <3>1. CASE Boot
      BY <3>1 DEF Boot, InterruptRunsInProgress
    <3>2. CASE ~Boot
      <4>1. UNCHANGED outcome /\ daemon # "down"
        BY <1>5, <3>2 DEF Recover, RequeueLeftOver, Serve, ReturnJobToQueue, storeVars, runVars
      <4> QED BY <2>2, <4>1
    <3> QED BY <3>1, <3>2
  <2> QED BY <2>2, <2>3
<1>6. CASE Stop \/ Close \/ RefuseStarts
  <2>1. UNCHANGED <<start, work, outcome>> /\ daemon # "down"
    BY <1>6 DEF Stop, Close, RefuseStarts, storeVars, runVars
  <2> QED BY <2>1 DEF Owned, Working
<1>7. CASE Exit
  BY <1>7 DEF Exit, Owned, Working, Quiet, storeVars, runVars
<1>8. CASE Crash
  BY <1>8 DEF Crash, Owned, Working, Idle, Off
<1>9. CASE UNCHANGED vars
  BY <1>1, <1>9 DEF vars, daemonVars, storeVars, runVars
<1> QED BY <1>2, <1>3, <1>4, <1>5, <1>6, <1>7, <1>8, <1>9 DEF Next

\* The Job a start has in hand keeps the attempt its Run is to cost.
LEMMA StartIsAbleStep ==
  ASSUME MaxFaults = 0, SInv, [Next]_vars
  PROVE  StartIsAble'
<1> USE DEF SInv, IInv, HandInv, RowInv, TypeOK, StoreTypeOK, StartIsAble, Holding, At
<1>0. Holding => start.job \in Job
  BY DEF Attached
<1>1. CASE UNCHANGED <<start, state, ttl>>
  BY <1>1
<1>2. CASE User
  BY <1>0, <1>2, UserHands
<1>3. CASE Starting \/ BeginStart
  <2>1. CASE Wanders
    BY <2>1 DEF Wanders, Idle
  <2>2. CASE Claims
    BY <2>2, AboutRows DEF Claims, Claiming, MoveJobState, Able
  <2>3. CASE Prepares
    BY <1>0, <2>3 DEF Prepares, DequeueJob
  <2>4. CASE OpensRow \/ GivesUpRow \/ LetsGo
    BY <2>4 DEF OpensRow, GivesUpRow, LetsGo, StartRun, storeVars, jobVars
  <2>5. CASE FailsRow \/ PutsBack \/ SetsOff
    BY <2>5 DEF FailsRow, PutsBack, SetsOff, Idle
  <2>6. CASE BlocksJob
    <3>1. start.job \in Job /\ start'.job = start.job
      BY <1>0, <2>6 DEF BlocksJob
    <3>2. state'[start.job] # "active"
      BY <2>6, <3>1 DEF BlocksJob, DequeueJob, StillQueued, Placed, storeVars, jobVars
    <3> QED BY <3>1, <3>2
  <2> QED BY <1>3, <2>1, <2>2, <2>3, <2>4, <2>5, <2>6, StartShapes
<1>4. ASSUME NEW r \in RunId, CarryOut(r)
      PROVE  StartIsAble'
  <2>1. UNCHANGED start /\ (WorksOn(r) \/ EndsRow(r) \/ MovesJob(r) \/ WindsUp(r))
    BY <1>4, WorkShapes
  <2>2. CASE WorksOn(r) \/ WindsUp(r)
    BY <1>1, <2>1, <2>2 DEF WorksOn, WindsUp, storeVars, jobVars
  <2>3. CASE EndsRow(r)
    <3>1. Working(r) /\ (Holding => runJob[r] # start.job)
      BY <2>3 DEF EndsRow, Working, WorkAt, OneRunPerJob
    <3>2. Holding => state'[start.job] = state[start.job] /\ ttl'[start.job] = ttl[start.job]
      BY <1>0, <2>3, <3>1 DEF EndsRow, FinishRun, SpendAttempts, storeVars, jobVars
    <3> QED BY <2>1, <3>2
  <2>4. CASE MovesJob(r)
    <3>1. UNCHANGED ttl /\ \A j \in Job : state'[j] = "active" => state[j] = "active"
      BY <2>4 DEF MovesJob, ReturnJobToQueue, DequeueJob, Settled, storeVars, jobVars
    <3> QED BY <1>0, <2>1, <3>1
  <2> QED BY <2>1, <2>2, <2>3, <2>4
<1>5. CASE Recover
  BY <1>5 DEF Recover, Boot, RequeueLeftOver, Serve, Quiet, Resting
<1>6. CASE Stop \/ Close \/ RefuseStarts \/ Exit \/ UNCHANGED vars
  BY <1>1, <1>6 DEF Stop, Close, RefuseStarts, Exit, vars, daemonVars, storeVars, jobVars
<1>7. CASE Crash
  BY <1>7 DEF Crash, Idle
<1> QED BY <1>2, <1>3, <1>4, <1>5, <1>6, <1>7 DEF Next

\* An active Job passes from the start to a goroutine and from there out of the
\* active ones, or to recovery when the daemon dies; it is never let drop.
LEMMA KeptStep ==
  ASSUME MaxFaults = 0, SInv, [Next]_vars
  PROVE  Kept'
<1> USE DEF SInv, IInv, HandInv, RowInv, TypeOK, StoreTypeOK, Kept, NothingStranded, Holding, At,
            WorkAt
<1>0. Holding => start.job \in Job
  BY DEF Attached
<1>1. CASE /\ UNCHANGED <<daemon, start, work, runJob, leftover>> /\ daemon # "recovering"
           /\ \A j \in Job : state'[j] = "active" => state[j] = "active"
  BY <1>1 DEF Resting, Working
<1>2. CASE User
  <2>1. CASE daemon = "recovering"
    BY <1>2, <2>1, UserHands DEF Resting
  <2>2. CASE daemon # "recovering"
    BY <1>1, <1>2, <2>2, UserHands
  <2> QED BY <2>1, <2>2
<1>3. CASE Starting \/ BeginStart
  <2>0. UNCHANGED daemon /\ daemon # "recovering"
    <3>1. CASE Starting
      <4>1. start.at # "idle"
        BY <3>1 DEF Starting, Exhaust, Scan, Refuse, Claim, Carry, AddWorktree, RecordWorkspace,
                    Prepare, OpenRun, Launch, AbandonRun, AbandonJob, Uncarry, Release
      <4> QED BY <3>1, <4>1, StartShapes DEF Quiet, Resting
    <3>2. CASE BeginStart
      BY <3>2, StartShapes DEF BeginStart
    <3> QED BY <1>3, <3>1, <3>2
  <2>1. ASSUME UNCHANGED <<work, runJob>>, Holding => Holding' /\ start'.job = start.job,
               \A j \in Job : state'[j] = "active" =>
                 state[j] = "active" \/ (Holding' /\ start'.job = j)
        PROVE  Kept'
    <3>1. \A r \in RunId : Working(r) <=> Working(r)'
      BY <2>1 DEF Working
    <3> HIDE DEF Holding
    <3> QED BY <2>0, <2>1, <3>1 DEF Resting
  <2>2. CASE UNCHANGED work /\ Wanders
    BY <2>1, <2>2 DEF Wanders, storeVars, jobVars, runVars
  <2>3. CASE UNCHANGED work /\ Claims
    <3>1. Holding' /\ start'.job = start.job /\ UNCHANGED <<work, runJob>>
      BY <2>3 DEF Claims, MoveJobState, runVars
    <3>2. \A j \in Job : state'[j] = "active" => state[j] = "active" \/ start'.job = j
      BY <2>3 DEF Claims, MoveJobState
    <3> QED BY <2>1, <3>1, <3>2
  <2>4. CASE UNCHANGED work /\ (Prepares \/ GivesUpRow \/ FailsRow \/ BlocksJob \/ LetsGo)
    <3>1. Holding' /\ start'.job = start.job /\ UNCHANGED <<work, runJob>>
      BY <2>4
         DEF Prepares, GivesUpRow, FailsRow, BlocksJob, LetsGo, FinishRun, DequeueJob, storeVars,
             runVars
    <3>2. \A j \in Job : state'[j] = "active" => state[j] = "active"
      BY <2>4
         DEF Prepares, GivesUpRow, FailsRow, BlocksJob, LetsGo, FinishRun, DequeueJob, storeVars,
             jobVars
    <3> QED BY <2>1, <3>1, <3>2
  <2>5. CASE UNCHANGED work /\ OpensRow
    <3>1. UNCHANGED state /\ Holding' /\ start'.job = start.job
      BY <2>5 DEF OpensRow, StartRun, jobVars
    <3>2. \A r \in RunId : Working(r) => runJob'[r] = runJob[r]
      BY <2>5 DEF OpensRow, StartRun, NextRun, Attached, Working
    <3> QED BY <2>0, <2>5, <3>1, <3>2 DEF Resting, Working
  <2>6. CASE UNCHANGED work /\ PutsBack
    <3>1. UNCHANGED runJob /\ start.job \in Job
      BY <1>0, <2>6 DEF PutsBack, MoveJobState, storeVars, runVars
    <3>2. state'[start.job] # "active" /\ \A j \in Job : state'[j] = "active" => state[j] = "active"
      BY <2>6, <3>1 DEF PutsBack, MoveJobState, storeVars, jobVars
    <3> QED BY <2>0, <2>6, <3>1, <3>2 DEF Resting, Working
  <2>7. CASE SetsOff
    <3>1. start.run \in RunId /\ runJob[start.run] = start.job
      BY <2>7 DEF SetsOff, Attached
    <3>2. UNCHANGED <<state, runJob>> /\ work'[start.run].at = "agent"
          /\ \A q \in RunId \ {start.run} : work'[q] = work[q]
      BY <2>7 DEF SetsOff, runVars
    <3>3. \A q \in RunId : Working(q) => Working(q)'
      BY <3>1, <3>2 DEF Working
    <3>4. \A q \in RunId : q = start.run => Working(q)'
      BY <3>1, <3>2 DEF Working
    <3> QED BY <2>0, <3>1, <3>2, <3>3, <3>4 DEF Resting
  <2> QED BY <1>3, <2>2, <2>3, <2>4, <2>5, <2>6, <2>7, StartShapes
<1>4. ASSUME NEW r \in RunId, CarryOut(r)
      PROVE  Kept'
  <2>1. /\ UNCHANGED <<daemon, start, runJob>> /\ daemon # "recovering"
        /\ \A q \in RunId \ {r} : work'[q] = work[q]
        /\ WorksOn(r) \/ EndsRow(r) \/ MovesJob(r) \/ WindsUp(r)
    BY <1>4, CarryOutFrame, WorkShapes DEF Quiet, Resting
  <2>2. \A q \in RunId \ {r} : Working(q)' <=> Working(q)
    BY <2>1 DEF Working
  <2>3. CASE WorksOn(r) \/ EndsRow(r) \/ WindsUp(r)
    <3>1. UNCHANGED state
      BY <2>3 DEF WorksOn, EndsRow, WindsUp, FinishRun, storeVars, jobVars
    <3>2. Working(r) => Working(r)'
      BY <2>3 DEF WorksOn, EndsRow, WindsUp, Working
    <3> QED BY <2>1, <2>2, <3>1, <3>2 DEF Resting
  <2>4. CASE MovesJob(r)
    <3>1. runJob[r] \in Job
      BY <2>4 DEF MovesJob, Attached
    <3>2. state'[runJob[r]] # "active"
      BY <2>4, <3>1
         DEF MovesJob, ReturnJobToQueue, DequeueJob, Settled, StillQueued, Exists, Placed,
             storeVars, jobVars
    <3>3. \A j \in Job : state'[j] = "active" => state[j] = "active"
      BY <2>4 DEF MovesJob, ReturnJobToQueue, DequeueJob, Settled, storeVars, jobVars
    <3> QED BY <2>1, <2>2, <3>1, <3>2, <3>3 DEF Resting
  <2> QED BY <2>1, <2>3, <2>4
<1>5. CASE Boot
  BY <1>5 DEF Boot, InterruptRunsInProgress, Resting
<1>6. ASSUME NEW j \in Job, RequeueLeftOver(j)
      PROVE  Kept'
  <2>1. /\ ReturnJobToQueue(j) /\ leftover' = leftover \ {j} /\ daemon' = "recovering"
        /\ daemon = "recovering"
    BY <1>6, NoFault DEF RequeueLeftOver
  <2> QED BY <2>1 DEF ReturnJobToQueue, Resting
<1>7. CASE Serve
  BY <1>7 DEF Serve, storeVars, jobVars
<1>8. CASE Stop \/ Close \/ RefuseStarts
  BY <1>8 DEF Stop, Close, RefuseStarts, Resting, Working, storeVars, jobVars, runVars
<1>9. CASE Exit \/ Crash
  BY <1>9 DEF Exit, Crash, Resting
<1>10. CASE UNCHANGED vars
  BY <1>10 DEF vars, daemonVars, storeVars, jobVars, runVars, Resting, Working
<1> QED BY <1>2, <1>3, <1>4, <1>5, <1>6, <1>7, <1>8, <1>9, <1>10 DEF Next, Recover

\* A goroutine that moves its Job on wrote how the Run ended first, and nothing
\* but the removal of the Project changes that; the Job it cannot move is removed.
LEMMA MovedStep ==
  ASSUME MaxFaults = 0, SInv, [Next]_vars
  PROVE  Moved'
<1> USE DEF SInv, IInv, HandInv, RowInv, TypeOK, StoreTypeOK, WorkAt
<1>1. ASSUME \A r \in RunId : work'[r].at \in {"move", "amend"} =>
               /\ work'[r] = work[r] /\ runJob'[r] = runJob[r]
               /\ outcome'[r] \in {outcome[r], "gone"},
             \A j \in Job : state[j] = "gone" => state'[j] = "gone"
      PROVE  Moved'
  BY <1>1 DEF Moved, Attached
<1>2. CASE User
  BY <1>1, <1>2, UserHands
<1>3. CASE Starting \/ BeginStart
  <2>1. \A j \in Job : state[j] = "gone" => state'[j] = "gone"
    <3>1. CASE SetsOff \/ OpensRow \/ FailsRow \/ Wanders \/ GivesUpRow \/ LetsGo
      <4>1. UNCHANGED state
        BY <3>1 DEF SetsOff, OpensRow, FailsRow, Wanders, GivesUpRow, LetsGo, StartRun, FinishRun,
                    storeVars, jobVars
      <4> QED BY <4>1
    <3>2. CASE Claims \/ Prepares \/ BlocksJob \/ PutsBack
      BY <3>2 DEF Claims, Prepares, BlocksJob, PutsBack, MoveJobState, DequeueJob, StillQueued,
                  storeVars, jobVars
    <3> QED BY <1>3, <3>1, <3>2, StartShapes
  <2>2. CASE SetsOff
    <3>1. start.run \in RunId /\ UNCHANGED runVars
      BY <2>2 DEF SetsOff, Attached, At
    <3>2. \A r \in RunId : work'[r].at \in {"move", "amend"} => work'[r] = work[r]
      <4>1. \A r \in RunId : r = start.run => work'[r].at = "agent"
        BY <2>2 DEF SetsOff
      <4> QED BY <2>2, <4>1 DEF SetsOff
    <3> QED BY <1>1, <2>1, <3>1, <3>2 DEF runVars
  <2>3. CASE UNCHANGED work /\ OpensRow
    <3>1. \A r \in RunId : outcome[r] # "unused" =>
                             runJob'[r] = runJob[r] /\ outcome'[r] = outcome[r]
      BY <2>3 DEF OpensRow, StartRun, NextRun
    <3> QED BY <1>1, <2>1, <2>3, <3>1 DEF Attached
  <2>4. CASE UNCHANGED work /\ FailsRow
    <3>1. start.run \in RunId /\ work[start.run].at = "off"
      BY <2>4 DEF FailsRow, Attached, At
    <3>2. \A r \in RunId \ {start.run} : runJob'[r] = runJob[r] /\ outcome'[r] = outcome[r]
      BY <2>4, <3>1 DEF FailsRow, FinishRun, storeVars, runVars
    <3> QED BY <1>1, <2>1, <2>4, <3>1, <3>2
  <2>5. CASE /\ UNCHANGED work
             /\ Wanders \/ Claims \/ Prepares \/ GivesUpRow \/ BlocksJob \/ LetsGo \/ PutsBack
    <3>1. UNCHANGED runVars
      BY <2>5
         DEF Wanders, Claims, Prepares, GivesUpRow, BlocksJob, LetsGo, PutsBack, MoveJobState,
             DequeueJob, storeVars
    <3> QED BY <1>1, <2>1, <2>5, <3>1 DEF runVars
  <2> QED BY <1>3, <2>2, <2>3, <2>4, <2>5, StartShapes
<1>4. ASSUME NEW r \in RunId, CarryOut(r)
      PROVE  Moved'
  <2>1. /\ UNCHANGED runJob
        /\ \A q \in RunId \ {r} : work'[q] = work[q]
        /\ WorksOn(r) \/ EndsRow(r) \/ MovesJob(r) \/ WindsUp(r)
    BY <1>4, WorkShapes
  <2>2. \A q \in RunId \ {r} : outcome'[q] = outcome[q]
    BY <2>1 DEF WorksOn, EndsRow, MovesJob, WindsUp, FinishRun, ReturnJobToQueue, DequeueJob,
                storeVars, runVars
  <2>3. \A j \in Job : state[j] = "gone" => state'[j] = "gone"
    BY <2>1 DEF WorksOn, EndsRow, MovesJob, WindsUp, FinishRun, ReturnJobToQueue, DequeueJob,
                StillQueued, Exists, storeVars, jobVars
  <2>4. SUFFICES /\ WorkAt(r, "move")' => outcome'[r] \in {work'[r].how, "gone"}
                 /\ WorkAt(r, "amend")' => state'[runJob'[r]] = "gone"
    <3>1. \A q \in RunId : work[q].at = "amend" => runJob[q] \in Job
      BY DEF Attached
    <3> QED BY <2>1, <2>2, <2>3, <3>1 DEF Moved
  <2>5. CASE WorksOn(r) \/ WindsUp(r)
    BY <2>5 DEF WorksOn, WindsUp, Working
  <2>6. CASE EndsRow(r)
    <3>1. outcome[r] \in {"open", "gone"}
      BY <2>6 DEF EndsRow, Owners, Owned, Working
    <3> QED BY <2>6, <3>1 DEF EndsRow, FinishRun, storeVars, runVars
  <2>7. CASE MovesJob(r)
    <3>1. runJob[r] \in Job /\ state[runJob[r]] \in {"active", "gone"}
      BY <2>7 DEF MovesJob, Attached, Taken, Working, Claimed
    <3> QED BY <2>1, <2>7, <3>1 DEF MovesJob, Placed, StillQueued, Exists, storeVars, jobVars
  <2> QED BY <2>1, <2>5, <2>6, <2>7
<1>5. CASE Recover \/ Exit
  <2>1. \A r \in RunId : work'[r].at = "off"
    BY <1>5 DEF Recover, Boot, RequeueLeftOver, Serve, Exit, Quiet, Resting
  <2> QED BY <2>1 DEF Moved
<1>6. CASE Crash
  BY <1>6 DEF Crash, Off, Moved
<1>7. CASE Stop \/ Close \/ RefuseStarts \/ UNCHANGED vars
  BY <1>1, <1>7
     DEF Stop, Close, RefuseStarts, vars, daemonVars, storeVars, jobVars, runVars
<1> QED BY <1>2, <1>3, <1>4, <1>5, <1>6, <1>7 DEF Next

\* Only a new row comes after a Job's last, and a Job that is worked on gets none.
LEMMA LastRunStep ==
  ASSUME MaxFaults = 0, SInv, [Next]_vars
  PROVE  LastRun'
<1> USE DEF SInv, IInv, HandInv, RowInv, TypeOK, StoreTypeOK, LastRun, WorkAt, At
<1>1. ASSUME UNCHANGED runJob,
             \A r \in RunId : (Owned(r) \/ Working(r))' => Owned(r) \/ Working(r)
      PROVE  LastRun'
  BY <1>1
<1>2. ASSUME UNCHANGED <<start, work>>
      PROVE  \A r \in RunId : (Owned(r) \/ Working(r))' => Owned(r) \/ Working(r)
  BY <1>2 DEF Owned, Working
<1>3. CASE User
  BY <1>1, <1>2, <1>3, UserHands
<1>4. CASE Starting \/ BeginStart
  <2>1. CASE SetsOff
    <3>1. start.run \in RunId /\ UNCHANGED runJob
      BY <2>1 DEF SetsOff, Attached, runVars
    <3>2. \A r \in RunId : r = start.run => Owned(r)
      BY <2>1 DEF SetsOff, Owned
    <3>3. \A r \in RunId \ {start.run} :
            (Owned(r) \/ Working(r))' => Owned(r) \/ Working(r)
      BY <2>1 DEF SetsOff, Owned, Working, Idle
    <3> QED BY <1>1, <3>1, <3>2, <3>3
  <2>2. CASE UNCHANGED work /\ OpensRow
    <3>1. PICK r \in RunId : StartRun(r, start.job) /\ start'.run = r
      BY <2>2 DEF OpensRow
    <3>2. /\ outcome[r] = "unused" /\ runJob'[r] = start.job
          /\ \A q \in RunId \ {r} : runJob'[q] = runJob[q]
      BY <3>1 DEF StartRun, NextRun
    <3>3. Holding /\ start.job \in Job
      BY <2>2 DEF OpensRow, Holding, Attached
    <3>4. \A q \in RunId : runJob[q] = start.job => q <= r
      <4>1. \A q \in RunId : runJob[q] = start.job => outcome[q] # "unused"
        BY <3>3, StoreAssumption DEF RowsAgree
      <4>2. \A q \in RunId : outcome[q] # "unused" => ~(r < q)
        BY <3>2 DEF RowsAgree
      <4> QED BY <4>1, <4>2, StoreAssumption DEF RunId
    <3>5. \A q \in RunId \ {r} : (Owned(q) \/ Working(q))' => Working(q)
      BY <2>2, <3>1 DEF Owned, Working, OpensRow
    <3>6. \A q \in RunId : Working(q) => runJob[q] # start.job
      BY <3>3 DEF OneRunPerJob
    <3>7. ~Working(r)
      BY <3>2 DEF Working, Attached
    <3>8. \A q \in RunId : runJob'[q] # runJob'[r] \/ q <= r
      BY <3>2, <3>4, StoreAssumption DEF RunId
    <3>9. ASSUME NEW s \in RunId \ {r}, (Owned(s) \/ Working(s))', NEW q \in RunId
          PROVE  runJob'[q] # runJob'[s] \/ q <= s
      <4>1. Working(s) /\ runJob'[s] = runJob[s] /\ runJob[s] # start.job
        BY <3>2, <3>5, <3>6, <3>9
      <4> QED BY <3>2, <4>1
    <3> QED BY <3>8, <3>9
  <2>3. CASE /\ UNCHANGED work
             /\ \/ Wanders \/ Claims \/ Prepares \/ GivesUpRow \/ FailsRow \/ BlocksJob \/ LetsGo
                \/ PutsBack
    <3>1. UNCHANGED runJob
      BY <2>3
         DEF Wanders, Claims, Prepares, GivesUpRow, FailsRow, BlocksJob, LetsGo, PutsBack,
             MoveJobState, DequeueJob, FinishRun, storeVars, runVars
    <3>2. \A r \in RunId : (Owned(r) \/ Working(r))' => Owned(r) \/ Working(r)
      BY <2>3
         DEF Wanders, Claims, Prepares, GivesUpRow, FailsRow, BlocksJob, LetsGo, PutsBack, Owned,
             Working, Idle
    <3> QED BY <1>1, <3>1, <3>2
  <2> QED BY <1>4, <2>1, <2>2, <2>3, StartShapes
<1>5. ASSUME NEW r \in RunId, CarryOut(r)
      PROVE  LastRun'
  <2>1. /\ UNCHANGED <<start, runJob>> /\ (~Working(r) => ~Working(r)')
        /\ \A q \in RunId \ {r} : work'[q] = work[q]
    BY <1>5, CarryOutFrame
  <2>2. \A q \in RunId \ {r} : (Owned(q) \/ Working(q))' => Owned(q) \/ Working(q)
    BY <2>1 DEF Owned, Working
  <2>3. (Owned(r) \/ Working(r))' => Owned(r) \/ Working(r)
    BY <2>1 DEF Owned
  <2> QED BY <1>1, <2>1, <2>2, <2>3
<1>6. CASE Recover \/ Stop \/ Close \/ RefuseStarts \/ Exit \/ UNCHANGED vars
  <2>1. UNCHANGED <<start, work, runJob>>
    BY <1>6
       DEF Recover, Boot, RequeueLeftOver, Serve, Stop, Close, RefuseStarts, Exit, vars,
           InterruptRunsInProgress, ReturnJobToQueue, daemonVars, storeVars, runVars
  <2> QED BY <1>1, <1>2, <2>1
<1>7. CASE Crash
  BY <1>7 DEF Crash, Owned, Working, Idle, Off
<1> QED BY <1>3, <1>4, <1>5, <1>6, <1>7 DEF Next

-----------------------------------------------------------------------------
(* The invariant holds, and the theorems that follow from it. *)

\* A daemon that was never started owes nobody anything.
LEMMA InitSInv == Init => SInv
<1> SUFFICES ASSUME Init PROVE SInv
  OBVIOUS
<1> USE DEF Init, StoreInit
<1>1. IInv /\ Places
  BY InitIInv, InitPlaces
<1>2. Concluded
  BY DEF Concluded, Off
<1>3. Placed /\ Able /\ RowsAgree /\ OneOpen /\ OpenIsActive /\ ReviewIsEarned
  BY DEF Placed, Able, RowsAgree, OneOpen, OpenIsActive, ReviewIsEarned, Queued
<1>4. AttemptsAccounted
  BY DEF AttemptsAccounted, Exists
<1>5. HandInv
  BY DEF HandInv, NothingListed, Owners, Owned, StartIsAble, Kept, NothingStranded, Moved, LastRun,
         Working, WorkAt, At, Holding, Resting, Idle, Off
<1> QED BY <1>1, <1>2, <1>3, <1>4, <1>5 DEF SInv, RowInv

\* Every step keeps what is said of the rows and of what the daemon has in hand.
LEMMA StepSInv ==
  ASSUME MaxFaults = 0
  PROVE  SInv /\ [Next]_vars => SInv'
<1> SUFFICES ASSUME SInv, [Next]_vars
             PROVE  SInv'
  OBVIOUS
<1>1. IInv' /\ Concluded' /\ Places'
  BY StepIInv, ConcludedStep, PlacesStep DEF SInv, IInv
<1>2. RowInv'
  BY PlacedStep, AbleStep, RowsAgreeStep, OpenStep, AccountedStep, ReviewStep DEF RowInv
<1>3. HandInv'
  BY NothingListedStep, OwnersStep, StartIsAbleStep, KeptStep, MovedStep, LastRunStep DEF HandInv
<1> QED BY <1>1, <1>2, <1>3 DEF SInv

\* The whole of it holds for good.
LEMMA AlwaysSInv ==
  ASSUME MaxFaults = 0
  PROVE  Spec => []SInv
BY InitSInv, StepSInv, PTL DEF Spec

-----------------------------------------------------------------------------
(* What is promised of the rows. *)

\* The queue holds exactly the Jobs that wait, run or have run out, in places
\* numbered from one without a gap (jobs.go:413-470, 509-540).
THEOREM QueueStaysWhole ==
  ASSUME MaxFaults = 0
  PROVE  Spec => []QueueIsWhole
<1>1. SInv => QueueIsWhole
  <2> SUFFICES ASSUME SInv PROVE QueueIsWhole
    OBVIOUS
  <2>1. position \in [Job -> Nat] /\ Whole(position)
    BY DEF SInv, IInv, TypeOK, StoreTypeOK, Places
  <2>2. Seated(position) = {i \in Job : Queued(i)}
    BY DEF Seated, Queued
  <2>3. {position[j] : j \in Seated(position)} = 1..Cardinality(Seated(position))
    BY <2>1, WholeCounts
  <2> QED BY <2>2, <2>3 DEF SInv, RowInv, Placed, QueueIsWhole
<1> QED BY <1>1, AlwaysSInv, PTL

\* What a Job has left and the Runs it had are what it was given, through every
\* crash, recovery, extension and removal (runs.go:69-92, 278-306).
THEOREM AttemptsAreAccounted ==
  ASSUME MaxFaults = 0
  PROVE  Spec => []AttemptsAccounted
<1>1. SInv => AttemptsAccounted
  BY DEF SInv, RowInv
<1> QED BY <1>1, AlwaysSInv, PTL

\* A Job waits for review on the strength of its last Run alone (run.go:1009-1017).
THEOREM ReviewsAreEarned ==
  ASSUME MaxFaults = 0
  PROVE  Spec => []ReviewIsEarned
<1>1. SInv => ReviewIsEarned
  BY DEF SInv, RowInv
<1> QED BY <1>1, AlwaysSInv, PTL

\* While the daemon serves, every active Job is in the hands of the start that
\* claimed it or of a Run's goroutine (run.go:493-500, 718-748, 1032-1056).
THEOREM NothingIsStranded ==
  ASSUME MaxFaults = 0
  PROVE  Spec => []NothingStranded
<1>1. SInv => NothingStranded
  BY DEF SInv, HandInv, Kept
<1> QED BY <1>1, AlwaysSInv, PTL

-----------------------------------------------------------------------------
(* The service implements the life it promises each Job. *)

\* Every step is a step of the promise, or leaves the Jobs as they were.
LEMMA LifecycleStep ==
  ASSUME MaxFaults = 0, SInv, [Next]_vars
  PROVE  [Lifecycle!Next]_<<state, ttl>>
<1> USE DEF SInv, IInv, RowInv, TypeOK, StoreTypeOK, Lifecycle!Next
<1>1. CASE UNCHANGED rows
  BY <1>1 DEF rows
<1>2. CASE UserWrites
  <2>1. ASSUME NEW j \in Job, NEW n \in Grants, AddJob(j, n)
        PROVE  Lifecycle!Next
    <3>1. n \in Nat /\ n > 0
      BY ServiceAssumption, MaxAttemptsType
    <3>2. ttl'[j] = n /\ ttl' = [ttl EXCEPT ![j] = ttl'[j]]
      BY <2>1 DEF AddJob, UpsertJob
    <3>3. Lifecycle!Produce(j)
      BY <2>1, <3>1, <3>2 DEF AddJob, UpsertJob, Lifecycle!Produce, Lifecycle!Becomes
    <3> QED BY <3>3
  <2>2. ASSUME NEW j \in Job, NEW n \in Grants, Extend(j, n)
        PROVE  Lifecycle!Next
    <3>1. n \in Nat /\ Topped(j, n) >= ttl[j]
      BY ServiceAssumption, MaxAttemptsType DEF Topped
    <3>2. ttl'[j] = Topped(j, n) /\ ttl' = [ttl EXCEPT ![j] = ttl'[j]]
      BY <2>2 DEF Extend, ExtendJob
    <3>3. Lifecycle!Extend(j)
      BY <2>2, <3>1, <3>2 DEF Extend, ExtendJob, Exists, Lifecycle!Extend
    <3> QED BY <3>3
  <2>3. ASSUME NEW j \in Job, Cancel(j)
        PROVE  Lifecycle!Next
    <3>1. Lifecycle!Withdraw(j)
      BY <2>3 DEF Cancel, DequeueJob, StillQueued, Lifecycle!Withdraw, Lifecycle!Becomes
    <3> QED BY <3>1
  <2>4. CASE \E j \in Job, p \in 1..Cardinality(Job) : Reorder(j, p)
    BY <2>4 DEF Reorder, MoveJob
  <2>5. ASSUME NEW p \in Project, Remove(p)
        PROVE  Lifecycle!Next
    <3> DEFINE lost == {j \in Job : ProjectOf[j] = p /\ Exists(j)}
    <3>1. lost \in SUBSET Job /\ Lifecycle!Lose(lost)
      BY <2>5 DEF Remove, RemoveProject, Exists, Lifecycle!Lose
    <3> QED BY <3>1
  <2> QED BY <1>2, <2>1, <2>2, <2>3, <2>4, <2>5 DEF UserWrites
<1>3. CASE Moves
  <2>1. CASE Takes
    <3>1. PICK j \in Job : MoveJobState(j, "pending", "active")
      BY <2>1 DEF Takes
    <3>2. Lifecycle!TakeUp(j)
      BY <3>1 DEF MoveJobState, Able, Lifecycle!TakeUp, Lifecycle!Becomes
    <3> QED BY <3>2
  <2>2. CASE Opens
    BY <2>2 DEF Opens, StartRun, jobVars
  <2>3. CASE Spends
    <3>1. PICK r \in RunId, how \in Ended : FinishRun(r, how)
      BY <2>3 DEF Spends
    <3>2. state[runJob[r]] = "active" /\ ttl[runJob[r]] > 0 /\ runJob[r] \in Job
      BY <3>1 DEF FinishRun, OpenIsActive, RowsAgree
    <3>3. Lifecycle!Spend({runJob[r]})
      BY <3>1, <3>2 DEF FinishRun, SpendAttempts, Lifecycle!Spend
    <3>4. {runJob[r]} \in SUBSET Job
      BY <3>2
    <3> QED BY <3>3, <3>4
  <2>4. CASE Frees
    <3>1. PICK j \in Job :
            /\ state[j] = "active"
            /\ \/ ReturnJobToQueue(j)
               \/ MoveJobState(j, "active", "pending") /\ ttl[j] > 0
               \/ DequeueJob(j, "active", "blocked") \/ DequeueJob(j, "active", "review")
      BY <2>4 DEF Frees
    <3>2. Lifecycle!PutBack(j) \/ Lifecycle!Settle(j)
      BY <3>1 DEF ReturnJobToQueue, MoveJobState, DequeueJob, Lifecycle!PutBack,
                  Lifecycle!Settle, Lifecycle!Becomes
    <3> QED BY <3>2
  <2>5. CASE Interrupting
    <3> DEFINE js == {j \in Job : OpenRuns(j) # {}}
    <3>1. js \in SUBSET Job /\ \A j \in js : state[j] = "active" /\ ttl[j] > 0
      BY DEF OpenRuns, OpenIsActive
    <3>2. SpendAttempts(js) /\ UNCHANGED state
      BY <2>5 DEF Interrupting, InterruptRunsInProgress
    <3> HIDE DEF js
    <3>3. Lifecycle!Spend(js)
      BY <3>1, <3>2 DEF SpendAttempts, Lifecycle!Spend
    <3> QED BY <3>1, <3>3
  <2> QED BY <1>3, <2>1, <2>2, <2>3, <2>4, <2>5 DEF Moves
<1> QED BY <1>1, <1>2, <1>3, Statements

\* Seen from outside, a Job lives the life JobLifecycle gives it: what the start,
\* the goroutines, recovery and the user do to its row is always one of that
\* life's steps, or nothing (queue.go, run.go:404-1056).
THEOREM ServiceKeepsLifecycle ==
  ASSUME MaxFaults = 0
  PROVE  Spec => KeepsLifecycle
<1>1. Init => Lifecycle!Init
  BY DEF Init, StoreInit, Lifecycle!Init
<1>2. SInv /\ [Next]_vars => [Lifecycle!Next]_<<state, ttl>>
  BY LifecycleStep
<1> QED BY <1>1, <1>2, AlwaysSInv, PTL DEF Spec, KeepsLifecycle, Lifecycle!Spec, Lifecycle!vars

\* What was cancelled, blocked or handed over for review stays that until its
\* Project is removed: no start, goroutine or recovery that read the Job before
\* the decision writes over it after (jobs.go:302-318, 413-440; run.go:475-490).
THEOREM DecisionsAreKept ==
  ASSUME MaxFaults = 0
  PROVE  Spec => DecisionsStand
<1> DEFINE Stands == \A j \in Job : state[j] \in {"cancelled", "blocked", "review"} =>
                                      state'[j] \in {state[j], "gone"}
<1>1. SInv /\ [Next]_vars => Stands
  <2> SUFFICES ASSUME SInv, [Next]_vars
               PROVE  Stands
    OBVIOUS
  <2> USE DEF SInv, IInv, TypeOK, StoreTypeOK
  <2>1. CASE UNCHANGED <<state, ttl>>
    BY <2>1
  <2>2. CASE Lifecycle!Next
    <3>1. ASSUME NEW i \in Job,
                 \/ Lifecycle!Produce(i) \/ Lifecycle!Withdraw(i) \/ Lifecycle!TakeUp(i)
                 \/ Lifecycle!Settle(i) \/ Lifecycle!PutBack(i)
          PROVE  Stands
      BY <3>1 DEF Lifecycle!Produce, Lifecycle!Withdraw, Lifecycle!TakeUp, Lifecycle!Settle,
                  Lifecycle!PutBack, Lifecycle!Becomes
    <3>2. ASSUME NEW i \in Job, Lifecycle!Extend(i)
          PROVE  Stands
      <4>1. CASE state[i] = "exhausted"
        BY <3>2, <4>1 DEF Lifecycle!Extend
      <4>2. CASE state[i] # "exhausted"
        BY <3>2, <4>2 DEF Lifecycle!Extend
      <4> QED BY <4>1, <4>2
    <3>3. CASE \E js \in SUBSET Job : Lifecycle!Spend(js) \/ Lifecycle!Lose(js)
      BY <3>3 DEF Lifecycle!Spend, Lifecycle!Lose
    <3> QED BY <2>2, <3>1, <3>2, <3>3 DEF Lifecycle!Next
  <2> QED BY <2>1, <2>2, LifecycleStep
<1>2. SInv /\ [Next]_vars => [Stands]_vars
  BY <1>1
<1> QED BY <1>2, AlwaysSInv, PTL DEF Spec, DecisionsStand
=============================================================================
