----------------------------- MODULE RunService -----------------------------
(***************************************************************************)
(* internal/run's Service with the queue it serves: how a Job is started,  *)
(* carried out and moved on, and what becomes of it when the daemon stops, *)
(* dies or cannot write something down.                                    *)
(*                                                                         *)
(* Three kinds of process share the rows of JobStore.  Start runs under a  *)
(* lock, one at a time, and is a sequence of statements with minutes of    *)
(* git and setup commands between them; each Run it launches has a         *)
(* goroutine, carryOut; and the user cancels, extends, reorders and        *)
(* removes at any moment, under no lock at all.                            *)
(***************************************************************************)
EXTENDS JobStore

CONSTANTS
  MaxParallel,    \* maxParallelRuns of the daemon's file
  MaxPerProject,  \* maxParallelRuns of a Project's file
  MaxPerAccount,  \* accounts.<name>.maxParallel, 0 for no cap
  Throttled,      \* Accounts whose usage may be over their ceiling
  Unstartable,    \* Jobs whose start is refused every time it gets to them
  Removable,      \* Projects the user may remove
  Planned,        \* Jobs that are to be planned before they are carried out
  Grants,         \* numbers of attempts a user asks for
  MaxGranted,     \* bound: a Job granted this many is extended no further
  MaxStops,       \* bound: how often the daemon stops or dies
  MaxFaults,      \* bound: writes that fail and callers that hang up
  MaxEdits        \* bound: edits of the Account a Project names

ASSUME ServiceAssumption ==
  /\ MaxParallel \in Nat \ {0} /\ MaxPerProject \in Nat \ {0} /\ MaxPerAccount \in Nat
  /\ Throttled \subseteq Account /\ Unstartable \subseteq Job /\ Removable \subseteq Project
  /\ Planned \subseteq Job
  /\ Grants \subseteq 1..MaxAttempts /\ MaxGranted \in Nat
  /\ MaxStops \in Nat /\ MaxFaults \in Nat /\ MaxEdits \in Nat

StartStep == {"idle", "exhaust", "check", "carry", "tree", "note", "prepare", "open",
              "launch", "abandonRun", "abandonJob", "uncarry", "release"}
RunStep   == {"off", "agent", "verify", "plan", "finish", "move", "amend", "drop"}
Daemon    == {"down", "recovering", "up", "stopping", "cancelled", "refusing"}

VARIABLES
  daemon,     \* stopping: the context every caller's derives from is done;
              \* cancelled: s.ctx is too; refusing: s.stopping is set
  start,      \* the start that holds the starting lock
  work,       \* the carryOut goroutine of each Run
  carrying,   \* s.carrying
  leftover,   \* active Jobs requeueLeftOver has still to return
  tree,       \* Jobs whose branch and worktree git has
  names,      \* the Account each Project's configuration names
  granted,    \* history: attempts given to each Job
  stops, faults, edits   \* how much of each bound is used

daemonVars == <<daemon, start, work, carrying, leftover>>
envVars    == <<tree, names, granted, stops, faults, edits>>
vars       == <<storeVars, daemonVars, envVars>>

Idle == [at |-> "idle", job |-> NoJob, acct |-> NoAccount, run |-> 0, list |-> {}]
Off  == [at |-> "off", phase |-> "execute", acct |-> NoAccount,
         how |-> "open", refused |-> FALSE]

StartType == [at: StartStep, job: Job \cup {NoJob}, acct: Account \cup {NoAccount},
              run: RunId \cup {0}, list: SUBSET Job]
WorkType  == [at: RunStep, phase: {"plan", "execute"}, acct: Account \cup {NoAccount},
              how: Ended \cup {"open"}, refused: BOOLEAN]

\* The rows hold what their columns may hold, no Job has more attempts than a
\* column can count (maxAttempts, jobs.go:564-595), and the daemon's own state
\* is about Jobs and Runs there are.
TypeOK ==
  /\ StoreTypeOK
  /\ daemon \in Daemon
  /\ start \in StartType
  /\ work \in [RunId -> WorkType]
  /\ carrying \subseteq Job
  /\ leftover \subseteq Job
  /\ tree \subseteq Job
  /\ names \in [Project -> Account \cup {NoAccount}]
  /\ granted \in [Job -> Nat]
  /\ stops \in 0..MaxStops /\ faults \in 0..MaxFaults /\ edits \in 0..MaxEdits

Init ==
  /\ StoreInit
  /\ daemon = "down"
  /\ start = Idle
  /\ work = [r \in RunId |-> Off]
  /\ carrying = {} /\ leftover = {} /\ tree = {}
  /\ names \in [Project -> Account]
  /\ granted = [j \in Job |-> 0]
  /\ stops = 0 /\ faults = 0 /\ edits = 0

\* A step on which nothing failed, and one on which a write failed or the
\* caller whose context it runs under hung up.
Smooth == UNCHANGED faults
Fault  == faults < MaxFaults /\ faults' = faults + 1

\* A step that does not happen, because of what it found or for no such reason.
Fails(found) == \/ found /\ Smooth
                \/ Fault

\* The services are asked things while the daemon answers, under a context that
\* ends the moment it is told to stop; Runs go on until s.ctx ends as well.
Serving   == daemon = "up"
Resting   == daemon \in {"down", "recovering"}
Cancelled == daemon \in {"cancelled", "refusing"}

-----------------------------------------------------------------------------
(* The queue's own operations, from internal/queue and internal/project.   *)

AddJob(j, n) ==
  /\ Serving
  /\ UpsertJob(j, n, j \in Planned)
  /\ granted' = [granted EXCEPT ![j] = n]
  /\ UNCHANGED <<daemonVars, tree, names, stops, faults, edits>>

\* Reading that the Job is pending only words the refusal: the condition is on
\* the write.
Cancel(j) ==
  /\ Serving
  /\ DequeueJob(j, "pending", "cancelled")
  /\ UNCHANGED <<daemonVars, envVars>>

Extend(j, n) ==
  /\ Serving
  /\ granted[j] < MaxGranted
  /\ ExtendJob(j, n)
  /\ granted' = [granted EXCEPT ![j] = @ + (Topped(j, n) - ttl[j])]
  /\ UNCHANGED <<daemonVars, tree, names, stops, faults, edits>>

Reorder(j, p) ==
  /\ Serving
  /\ MoveJob(j, p, "pending")
  /\ UNCHANGED <<daemonVars, envVars>>

Remove(p) ==
  /\ Serving
  /\ p \in Removable
  /\ RemoveProject(p)
  /\ UNCHANGED <<daemonVars, envVars>>

EditConfig(p, a) ==
  /\ edits < MaxEdits
  /\ names' = [names EXCEPT ![p] = a]
  /\ edits' = edits + 1
  /\ UNCHANGED <<storeVars, daemonVars, tree, granted, stops, faults>>

-----------------------------------------------------------------------------
(* Choosing: caps.go. *)

\* Mutant of AccountFor: whatever the Project names now.
AccountNamedNow(j) == names[ProjectOf[j]]

\* The Account a Job runs on: the one it has, or the one its Project names.
AccountFor(j) == IF account[j] # NoAccount THEN account[j] ELSE names[ProjectOf[j]]

\* Mutant of InFlight: a Job that has run out takes up room.
InFlightWithExhausted == ListQueue("active") \cup ListQueue("exhausted")

InFlight == ListQueue("active")

\* Mutants of Permits: one Run too many in a Project; and the Account's cap kept
\* only for a Job that already has an Account recorded.
PermitsOneMore(j, waiting) ==
  /\ ttl[j] > 0
  /\ Cardinality({i \in InFlight : ProjectOf[i] = ProjectOf[j]}) <= MaxPerProject
  /\ AccountFor(j) \notin waiting \cup {NoAccount}
  /\ Cardinality(InFlight) < MaxParallel
PermitsByRecord(j, waiting) ==
  /\ ttl[j] > 0
  /\ Cardinality({i \in InFlight : ProjectOf[i] = ProjectOf[j]}) < MaxPerProject
  /\ AccountFor(j) \notin waiting \cup {NoAccount}
  /\ MaxPerAccount > 0 /\ account[j] # NoAccount =>
       Cardinality({i \in InFlight : account[i] = account[j]}) < MaxPerAccount
  /\ Cardinality(InFlight) < MaxParallel

\* Whether nothing holds the Job, with the Accounts of waiting over their ceiling.
Permits(j, waiting) ==
  /\ ttl[j] > 0
  /\ Cardinality({i \in InFlight : ProjectOf[i] = ProjectOf[j]}) < MaxPerProject
  /\ AccountFor(j) \notin waiting \cup {NoAccount}
  /\ MaxPerAccount > 0 =>
       Cardinality({i \in InFlight : account[i] = AccountFor(j)}) < MaxPerAccount
  /\ Cardinality(InFlight) < MaxParallel

At(step) == start.at = step

\* The start goes on to its next step, and the start is over.
Goto(step) == start' = [start EXCEPT !.at = step]
Over       == start' = Idle

startFrame == <<daemon, work, leftover, names, granted, stops, edits>>

\* Named bound: a start is only begun while there is a Run row left to insert.
BeginStart ==
  /\ daemon = "up"
  /\ At("idle")
  /\ NextRun # {}
  /\ start' = [Idle EXCEPT !.at = "exhaust", !.list = {j \in ListQueue("pending") : ttl[j] = 0}]
  /\ UNCHANGED <<storeVars, startFrame, carrying, tree, faults>>

\* A Job listed with no attempts left leaves the queue; one that turns out to
\* be anything but exhausted afterwards ends the start with an error.
Exhaust(j) ==
  /\ At("exhaust")
  /\ j \in start.list
  /\ IF Exists(j) THEN ReturnJobToQueue(j) ELSE UNCHANGED storeVars
  /\ IF Exists(j) /\ ttl[j] = 0 THEN start' = [start EXCEPT !.list = @ \ {j}] ELSE Over
  /\ UNCHANGED <<startFrame, carrying, tree, faults>>

\* The oldest pending Job that nothing holds.
Scan ==
  /\ At("exhaust")
  /\ start.list = {}
  /\ \E waiting \in SUBSET Throttled :
       LET free == {j \in ListQueue("pending") : Permits(j, waiting)}
       IN  \/ free = {} /\ Over
           \/ \E j \in free :
                /\ \A i \in free : position[j] <= position[i]
                /\ start' = [start EXCEPT !.at = "check", !.job = j]
  /\ UNCHANGED <<storeVars, startFrame, carrying, tree, faults>>

\* Nothing is claimed yet, so a start that cannot go on leaves the Job exactly
\* as it was.  The Project, the Driver, the settings, the Account and its
\* ceiling are read again before the claim.
Refuse ==
  /\ At("exhaust") \/ At("check")
  /\ Fails(\/ ~Serving
           \/ At("check") /\ AccountFor(start.job) \in Throttled \cup {NoAccount})
  /\ Over
  /\ UNCHANGED <<storeVars, startFrame, carrying, tree>>

\* The claim is conditional on the Job still being pending.
Claim ==
  LET j == start.job IN
  /\ At("check")
  /\ AccountFor(j) # NoAccount
  /\ IF state[j] = "pending"
     THEN /\ MoveJobState(j, "pending", "active")
          /\ start' = [start EXCEPT !.at = "carry", !.acct = AccountFor(j)]
     ELSE Over /\ UNCHANGED storeVars
  /\ UNCHANGED <<startFrame, carrying, tree, faults>>

-----------------------------------------------------------------------------
(* Preparing a claimed Job: the rest of start.  Every way out that is not a *)
(* launch goes through Uncarry and Release.                                 *)

\* blocked, and what abandon and moveOn make of it when the Job cannot be moved.
Block(j) == DequeueJob(j, "active", "blocked") /\ Smooth
CannotDequeue(j) == Fails(~StillQueued(j, "active")) /\ UNCHANGED storeVars

Carry ==
  /\ At("carry")
  /\ carrying' = carrying \cup {start.job}
  /\ Goto(IF branch[start.job] THEN "prepare" ELSE "tree")
  /\ UNCHANGED <<storeVars, startFrame, tree, faults>>

\* git refuses a branch or a directory that is already there, and may refuse
\* for reasons of its own; either way the Job is blocked with git's words.
AddWorktree ==
  /\ At("tree")
  /\ \/ /\ start.job \notin tree
        /\ tree' = tree \cup {start.job}
        /\ Goto("note") /\ Smooth
        /\ UNCHANGED storeVars
     \/ /\ Block(start.job) \/ CannotDequeue(start.job)
        /\ Goto("uncarry")
        /\ UNCHANGED tree
  /\ UNCHANGED <<startFrame, carrying>>

RecordWorkspace ==
  /\ At("note")
  /\ \/ /\ SetJobWorkspace(start.job) /\ Smooth
        /\ Goto("prepare")
        /\ UNCHANGED <<state, position, ttl, account, plan, runVars>>
     \/ /\ Fails(~Exists(start.job) \/ ~Serving)
        /\ Goto("uncarry")
        /\ UNCHANGED storeVars
  /\ UNCHANGED <<startFrame, carrying, tree>>

\* The rebase, the Skills, the setup commands and the prompt: done, a reason
\* to block the Job, or a refusal that leaves it as it was - because the
\* daemon is stopping, the caller hung up, or what is asked for is not there.
Prepare ==
  LET j == start.job IN
  /\ At("prepare")
  /\ \/ j \notin Unstartable /\ Goto("open") /\ Smooth /\ UNCHANGED storeVars
     \/ (Block(j) \/ CannotDequeue(j)) /\ Goto("uncarry")
     \/ /\ Fails(j \in Unstartable \/ ~Serving)
        /\ Goto("uncarry")
        /\ UNCHANGED storeVars
  /\ UNCHANGED <<startFrame, carrying, tree>>

OpenRun ==
  /\ At("open")
  /\ \/ \E r \in RunId :
          /\ StartRun(r, start.job) /\ Smooth
          /\ start' = [start EXCEPT !.at = "launch", !.run = r]
     \/ /\ Fails(~Exists(start.job) \/ ~Serving)
        /\ Goto("uncarry")
        /\ UNCHANGED storeVars
  /\ UNCHANGED <<startFrame, carrying, tree>>

\* Mutant of Launch: a start that launched gives its Job back as well.
LaunchThenRelease ==
  LET j == start.job IN
  /\ At("launch") /\ Exists(j)
  /\ IF account[j] = NoAccount THEN SetJobAccount(j, start.acct) ELSE UNCHANGED account
  /\ work' = [work EXCEPT ![start.run] = [Off EXCEPT !.at = "agent", !.acct = start.acct]]
  /\ Goto("release") /\ Smooth
  /\ UNCHANGED <<state, position, ttl, branch, plan, runVars>>
  /\ UNCHANGED <<daemon, leftover, carrying, tree, names, granted, stops, edits>>

\* The log, the Skills and, at the Job's first Run, the Account are recorded,
\* and the goroutine takes the Job on.
Launch ==
  LET j == start.job IN
  /\ At("launch")
  /\ \/ /\ Exists(j)
        /\ IF account[j] = NoAccount THEN SetJobAccount(j, start.acct) ELSE UNCHANGED account
        /\ work' = [work EXCEPT ![start.run] =
                     [Off EXCEPT !.at = "agent", !.acct = start.acct,
                                 !.phase = IF plan[j] = "wanted" THEN "plan" ELSE "execute"]]
        /\ Over /\ Smooth
        /\ UNCHANGED <<state, position, ttl, branch, plan, runVars>>
     \/ /\ Fails(~Exists(j) \/ ~Serving)
        /\ Goto("abandonRun")
        /\ UNCHANGED <<storeVars, work>>
  /\ UNCHANGED <<daemon, leftover, carrying, tree, names, granted, stops, edits>>

\* abandon: the Run ends failed and its Job is blocked; neither failing stops
\* the other.  FailRun would write failed over failed, so it is left out.
AbandonRun ==
  /\ At("abandonRun")
  /\ \/ FinishRun(start.run, "failed") /\ Smooth
     \/ Fails(outcome[start.run] # "open") /\ UNCHANGED storeVars
  /\ Goto("abandonJob")
  /\ UNCHANGED <<startFrame, carrying, tree>>

AbandonJob ==
  /\ At("abandonJob")
  /\ Block(start.job) \/ CannotDequeue(start.job)
  /\ Goto("uncarry")
  /\ UNCHANGED <<startFrame, carrying, tree>>

\* Mutant of Uncarry: the daemon goes on believing it carries the Job.
UncarryKeeping ==
  /\ At("uncarry")
  /\ Goto("release")
  /\ UNCHANGED <<storeVars, startFrame, tree, carrying, faults>>

Uncarry ==
  /\ At("uncarry")
  /\ carrying' = carrying \ {start.job}
  /\ Goto("release")
  /\ UNCHANGED <<storeVars, startFrame, tree, faults>>

\* A Job still active goes back to pending, in the place it kept.
Release ==
  /\ At("release")
  /\ \/ MoveJobState(start.job, "active", "pending") /\ Smooth
     \/ Fails(state[start.job] # "active") /\ UNCHANGED storeVars
  /\ Over
  /\ UNCHANGED <<startFrame, carrying, tree>>

-----------------------------------------------------------------------------
(* Carrying a Run out: execute and carryOut. *)

WorkAt(r, step) == work[r].at = step
Advance(r, step) == work' = [work EXCEPT ![r].at = step]

workFrame == <<daemon, start, leftover, tree, names, granted, stops, edits>>

\* What is left to do about a Run whose Agent ended this way.
AfterAgent(r, how) == IF how # "succeeded" THEN "finish"
                      ELSE IF work[r].phase = "plan" THEN "plan" ELSE "verify"

\* Mutant of AgentEnds: closing leaves the Agents be.
AgentOutlivesClose(r, how) ==
  /\ WorkAt(r, "agent")
  /\ ~Cancelled
  /\ work' = [work EXCEPT ![r].how = how, ![r].at = AfterAgent(r, how)]
  /\ UNCHANGED <<storeVars, workFrame, carrying, faults>>

\* A daemon that is stopping never calls a Run succeeded; a Run its limits end
\* is failed even then.
AgentEnds(r, how) ==
  /\ WorkAt(r, "agent")
  /\ how = "succeeded" => ~Cancelled
  /\ work' = [work EXCEPT ![r].how = how, ![r].at = AfterAgent(r, how)]
  /\ UNCHANGED <<storeVars, workFrame, carrying, faults>>

\* Verification accepts or refuses the work; one the stop cut short did neither.
Verify(r) ==
  /\ WorkAt(r, "verify")
  /\ \/ /\ ~Cancelled
        /\ \E no \in BOOLEAN : work' = [work EXCEPT ![r].at = "finish", ![r].refused = no]
     \/ /\ Cancelled
        /\ work' = [work EXCEPT ![r].at = "finish", ![r].how = "interrupted"]
  /\ UNCHANGED <<storeVars, workFrame, carrying, faults>>

\* The handoff becomes the Job's plan; a Run that left none has failed, unless
\* it was the stop that kept it from being recorded.
RecordPlan(r) ==
  /\ WorkAt(r, "plan")
  /\ \/ /\ SetJobPlan(runJob[r])
        /\ Advance(r, "finish")
        /\ UNCHANGED <<state, position, ttl, account, branch, runVars>>
     \/ /\ work' = [work EXCEPT ![r].at = "finish",
                                ![r].how = IF Cancelled THEN "interrupted" ELSE "failed"]
        /\ UNCHANGED storeVars
  /\ UNCHANGED <<workFrame, carrying, faults>>

\* The Run's end is written first; a write that fails is logged, no more.
Finish(r) ==
  /\ WorkAt(r, "finish")
  /\ \/ FinishRun(r, work[r].how) /\ Smooth
     \/ Fails(outcome[r] # "open") /\ UNCHANGED storeVars
  /\ Advance(r, "move")
  /\ UNCHANGED <<workFrame, carrying>>

\* Where a Run's end takes its Job.
Requeues(r) == \/ work[r].how = "interrupted"
               \/ work[r].how = "succeeded" /\ work[r].phase = "plan"

\* Mutant of Settled: only Verification's word counts.
SettledUnlessRefused(r) == IF work[r].refused THEN "blocked" ELSE "review"

Settled(r)  == IF work[r].how = "failed" \/ work[r].refused THEN "blocked" ELSE "review"

\* Mutant of MoveOn: a Job that is to be queued again is left to recovery.
LeaveToRecovery(r) ==
  /\ WorkAt(r, "move")
  /\ \/ Requeues(r) /\ UNCHANGED storeVars
     \/ ~Requeues(r) /\ DequeueJob(runJob[r], "active", Settled(r))
  /\ Smooth
  /\ Advance(r, "drop")
  /\ UNCHANGED <<workFrame, carrying>>

MoveOn(r) ==
  LET j == runJob[r] IN
  /\ WorkAt(r, "move")
  /\ \/ /\ Requeues(r) /\ ReturnJobToQueue(j) /\ Smooth
        /\ Advance(r, "drop")
     \/ /\ ~Requeues(r) /\ DequeueJob(j, "active", Settled(r)) /\ Smooth
        /\ Advance(r, "drop")
     \/ /\ Requeues(r) /\ Fails(~Exists(j)) /\ UNCHANGED storeVars
        /\ Advance(r, "amend")
     \/ /\ ~Requeues(r) /\ CannotDequeue(j)
        /\ Advance(r, "amend")
  /\ UNCHANGED <<workFrame, carrying>>

\* couldNotMove: the Run says it failed, if its end was written at all.
Amend(r) ==
  /\ WorkAt(r, "amend")
  /\ \/ FailRun(r) /\ Smooth
     \/ Fails(outcome[r] \notin Ended) /\ UNCHANGED storeVars
  /\ Advance(r, "drop")
  /\ UNCHANGED <<workFrame, carrying>>

\* The deferred end of the goroutine.
Drop(r) ==
  /\ WorkAt(r, "drop")
  /\ carrying' = carrying \ {runJob[r]}
  /\ work' = [work EXCEPT ![r] = Off]
  /\ UNCHANGED <<storeVars, workFrame, faults>>

-----------------------------------------------------------------------------
(* The daemon's life. *)

lifeFrame == <<tree, names, granted, faults, edits>>

\* Mutant of Boot: only the Jobs of the Runs it ended are listed.
BootForOpenRuns ==
  /\ daemon = "down"
  /\ InterruptRunsInProgress
  /\ daemon' = "recovering"
  /\ leftover' = {j \in Job : OpenRuns(j) # {}}
  /\ UNCHANGED <<start, work, carrying, stops, lifeFrame>>

\* Recover: what an earlier daemon left open ends, and its Jobs are listed.
Boot ==
  /\ daemon = "down"
  /\ InterruptRunsInProgress
  /\ daemon' = "recovering"
  /\ leftover' = {j \in Job : state[j] = "active"}
  /\ UNCHANGED <<start, work, carrying, stops, lifeFrame>>

\* requeueLeftOver: one that cannot be returned is logged and passed over.
RequeueLeftOver(j) ==
  /\ daemon = "recovering"
  /\ j \in leftover
  /\ \/ ReturnJobToQueue(j) /\ Smooth
     \/ Fault /\ UNCHANGED storeVars
  /\ leftover' = leftover \ {j}
  /\ UNCHANGED <<daemon, start, work, carrying, tree, names, granted, stops, edits>>

Serve ==
  /\ daemon = "recovering" /\ leftover = {}
  /\ daemon' = "up"
  /\ UNCHANGED <<storeVars, start, work, carrying, leftover, stops, lifeFrame>>

\* The daemon is told to stop, which ends the context of every request.
Stop ==
  /\ daemon = "up"
  /\ stops < MaxStops
  /\ stops' = stops + 1
  /\ daemon' = "stopping"
  /\ UNCHANGED <<storeVars, start, work, carrying, leftover, lifeFrame>>

\* Close: its own context first, then the flag under the starting lock, then
\* the wait for every goroutine.
Close ==
  /\ daemon = "stopping"
  /\ daemon' = "cancelled"
  /\ UNCHANGED <<storeVars, start, work, carrying, leftover, stops, lifeFrame>>

RefuseStarts ==
  /\ daemon = "cancelled" /\ At("idle")
  /\ daemon' = "refusing"
  /\ UNCHANGED <<storeVars, start, work, carrying, leftover, stops, lifeFrame>>

\* Mutant of Exit: the goroutines are not waited for.
ExitWithoutWaiting ==
  /\ daemon = "refusing"
  /\ daemon' = "down" /\ carrying' = {}
  /\ UNCHANGED <<storeVars, start, work, leftover, stops, lifeFrame>>

Exit ==
  /\ daemon = "refusing"
  /\ \A r \in RunId : WorkAt(r, "off")
  /\ daemon' = "down" /\ carrying' = {}
  /\ UNCHANGED <<storeVars, start, work, leftover, stops, lifeFrame>>

\* The daemon dies: everything it held in memory goes with it, and so, as
\* run.go:379-383 has it, do the Agents.  (Daemon has those that work on.)
Crash ==
  /\ daemon # "down"
  /\ stops < MaxStops
  /\ stops' = stops + 1
  /\ daemon' = "down"
  /\ start' = Idle
  /\ work' = [r \in RunId |-> Off]
  /\ carrying' = {} /\ leftover' = {}
  /\ UNCHANGED <<storeVars, lifeFrame>>

-----------------------------------------------------------------------------
User ==
  \/ \E j \in Job, n \in Grants : AddJob(j, n)
  \/ \E j \in Job : Cancel(j)
  \/ \E j \in Job, n \in Grants : Extend(j, n)
  \/ \E j \in Job, p \in 1..Cardinality(Job) : Reorder(j, p)
  \/ \E p \in Project : Remove(p)
  \/ \E p \in Project, a \in Account \cup {NoAccount} : EditConfig(p, a)

Starting ==
  \/ \E j \in Job : Exhaust(j)
  \/ Scan \/ Refuse \/ Claim \/ Carry \/ AddWorktree \/ RecordWorkspace \/ Prepare
  \/ OpenRun \/ Launch \/ AbandonRun \/ AbandonJob \/ Uncarry \/ Release

CarryOut(r) ==
  \/ \E how \in Ended : AgentEnds(r, how)
  \/ Verify(r) \/ RecordPlan(r) \/ Finish(r) \/ MoveOn(r) \/ Amend(r) \/ Drop(r)

Recover == Boot \/ (\E j \in Job : RequeueLeftOver(j)) \/ Serve

Next ==
  \/ User
  \/ BeginStart
  \/ Starting
  \/ \E r \in RunId : CarryOut(r)
  \/ Recover
  \/ Stop \/ Close \/ RefuseStarts \/ Exit \/ Crash

Spec == Init /\ [][Next]_vars

\* The idle machine asks for a start over and over, a start and a goroutine
\* take their next step, every Agent is ended by its limits at the latest - with all
\* that is in its process group; RunOutput has what left it - a daemon that is
\* stopping stops, and launchd starts it again.
Fairness ==
  /\ WF_vars(BeginStart)
  /\ WF_vars(Starting)
  /\ \A r \in RunId : WF_vars(CarryOut(r))
  /\ WF_vars(Recover)
  /\ WF_vars(Close \/ RefuseStarts \/ Exit)

FairSpec == Spec /\ Fairness

-----------------------------------------------------------------------------
(* What the service promises.  Where a bound of zero is named, the promise   *)
(* is made of a daemon whose writes all succeed (MaxFaults), or of Projects  *)
(* nobody removes while a Run of theirs is going (Removable).                *)

\* The goroutine still has something to do to its Job.
Working(r) == work[r].at \in {"agent", "verify", "plan", "finish", "move"}

AtWork == {r \in RunId : Working(r)}

\* The start has claimed its Job and not let go of it.
Holding == start.at \notin {"idle", "exhaust", "check"}

\* No Job is worked on twice at once: not by two Runs, and not by a Run and
\* the start that is preparing the next one (run.go:481-500, 948-1017).
OneRunPerJob ==
  /\ \A q, r \in RunId :
       q # r /\ Working(q) /\ Working(r) => runJob[q] # runJob[r]
  /\ \A r \in RunId : Holding /\ Working(r) => runJob[r] # start.job

\* An attempt is spent by every Run that ended and by nothing else, whatever
\* ended it and however often the daemon died in between: what a Job has left
\* and the Runs it had are what it was given (runs.go:69-92, 278-306).
\* MaxFaults = 0.
AttemptsAccounted ==
  \A j \in Job : Exists(j) => ttl[j] + Cardinality(EndedRuns(j)) = granted[j]

\* What ADR-0036 says of the Runs a stop ends: they cost their Job nothing
\* (0036-per-run-limits.md:71-73).
InterruptedCostsNothing ==
  [][\A r \in RunId : outcome[r] = "open" /\ outcome'[r] = "interrupted" =>
                        ttl'[runJob[r]] = ttl[runJob[r]]]_vars

\* Even when writes fail, no Job is charged more than the Runs it had.
NeverOvercharged ==
  \A j \in Job : Exists(j) => ttl[j] + Cardinality(EndedRuns(j)) >= granted[j]

\* The caps of ADR-0021 bound the Agents really at work, not only the rows
\* the scan counts (caps.go:51-72, 120-163).  Removable = {}: the rows of a Run
\* still going are taken with its Project.
WithinCaps ==
  /\ Cardinality(AtWork) <= MaxParallel
  /\ \A p \in Project :
       Cardinality({r \in AtWork : ProjectOf[runJob[r]] = p}) <= MaxPerProject

\* ... and those that draw on one Account.  MaxEdits = 0: a Project that names
\* another Account between the scan and the claim is not looked at again.
WithinAccountCaps ==
  MaxPerAccount > 0 =>
    \A a \in Account : Cardinality({r \in AtWork : work[r].acct = a}) <= MaxPerAccount

\* The subscription a Run draws on is the one its Job records, for every Run
\* of the Job's life and whatever its Project names by then (run.go:570-576,
\* ADR-0023).
RunsOnItsAccount ==
  \A r \in RunId : Working(r) /\ Exists(runJob[r]) => work[r].acct = account[runJob[r]]

\* The queue is the Jobs that wait, run or have run out, and their places count
\* from one without a gap, whichever of them left and in whatever order
\* (jobs.go:413-470, 509-540; projects.go:132-160).
QueueIsWhole ==
  /\ \A j \in Job : Queued(j) <=> state[j] \in {"pending", "active", "exhausted"}
  /\ {position[j] : j \in {i \in Job : Queued(i)}} = 1..Cardinality({i \in Job : Queued(i)})

\* While the daemon serves, an active Job is somebody's: the start that claimed
\* it or the goroutine of a Run.  Nothing else would ever move it
\* (run.go:493-500, 718-748, 1032-1056).  MaxFaults = 0.
NothingStranded ==
  \A j \in Job : ~Resting /\ state[j] = "active" =>
    \/ Holding /\ start.job = j
    \/ \E r \in RunId : Working(r) /\ runJob[r] = j

\* A Job waits for review only on the strength of its last Run, which ended
\* succeeded (run.go:1009-1017, 1036-1056).  MaxFaults = 0.
ReviewIsEarned ==
  \A j \in Job : state[j] = "review" =>
    \E r \in RunId : /\ runJob[r] = j /\ outcome[r] = "succeeded"
                     /\ \A q \in RunId : runJob[q] = j => q <= r

\* A decision is never overwritten: what was cancelled, blocked or handed over
\* for review stays that, until its Project is removed (jobs.go:302-318,
\* 413-440; run.go:475-490).  MaxFaults = 0.
DecisionsStand ==
  [][\A j \in Job : state[j] \in {"cancelled", "blocked", "review"} =>
                     state'[j] \in {state[j], "gone"}]_vars

\* A start that has a worktree to make finds none there: the Job's worktree and
\* branch outlive whatever interrupts a start or a daemon (run.go:378-383).
NoWorktreeForgotten == ~(At("tree") /\ start.job \in tree)

\* The daemon never believes it carries a Job that no start and no goroutine of
\* it is still on: such a Job would be reported abandoned by nobody, ever
\* (run.go:495-500, 954, 1193-1202).
CarriesWhatItDoes ==
  \A j \in carrying :
    \/ Holding /\ start.job = j
    \/ \E r \in RunId : ~WorkAt(r, "off") /\ runJob[r] = j

\* The converse: a Job the daemon has at work is one it says it carries, for as
\* long as anything about it is still to be written down (run.go:951-954).
WorkIsCarried == \A r \in RunId : Working(r) => runJob[r] \in carrying

\* Every Job that is being run is moved on.
ActiveMovesOn == \A j \in Job : state[j] = "active" ~> state[j] # "active"

\* Every Job nothing is wrong with gets its turn.
PendingIsServed ==
  \A j \in Job \ Unstartable : state[j] = "pending" ~> state[j] # "pending"

\* A daemon told to stop stops, whatever it was in the middle of, as long as its
\* Agents end when they are made to.
CloseReturns == daemon = "stopping" ~> daemon = "down"

\* What the queue and its Jobs look like from outside.
Lifecycle == INSTANCE JobLifecycle WITH left <- ttl
KeepsLifecycle == Lifecycle!Spec

\* ... and the queue, whatever the numbers its places have.
Line == INSTANCE QueueOrder WITH
          queue   <- {j \in Job : Queued(j)},
          waiting <- ListQueue("pending"),
          ahead   <- {pair \in Job \X Job : /\ Queued(pair[1]) /\ Queued(pair[2])
                                            /\ position[pair[1]] < position[pair[2]]}
KeepsOrder == Line!Spec
=============================================================================
