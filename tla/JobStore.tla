------------------------------ MODULE JobStore ------------------------------
(***************************************************************************)
(* The rows internal/store keeps of Jobs and Runs, and the statements that *)
(* change them.  The daemon opens SQLite with one connection, so every     *)
(* statement and every transaction is one atomic step; the services call   *)
(* them from many goroutines, and what they do between two calls is theirs *)
(* to get right.                                                           *)
(*                                                                         *)
(* One variable per column.  A Job that was never added is "unborn"; one   *)
(* whose Project was removed is "gone", as is each of its Runs.  Ids are   *)
(* AUTOINCREMENT, so neither is ever used again.                           *)
(***************************************************************************)
EXTENDS Naturals, FiniteSets

CONSTANTS
  Job,            \* ids of the Jobs that may be added
  Project,        \* names of the Projects
  ProjectOf,      \* the Project each Job is queued against
  Account,        \* names of the Accounts
  NoAccount,      \* the empty name: no Account recorded
  NoJob,          \* the Job of a Run row nobody has inserted yet
  MaxRuns,        \* bound: how many Runs are ever inserted
  MaxAttempts     \* maxAttempts, 2^31 - 1 in the code

ASSUME StoreAssumption ==
  /\ IsFiniteSet(Job)
  /\ ProjectOf \in [Job -> Project]
  /\ NoAccount \notin Account
  /\ NoJob \notin Job
  /\ MaxRuns \in Nat
  /\ MaxAttempts \in Nat \ {0}

RunId == 1..MaxRuns

JobState == {"unborn", "pending", "active", "blocked", "review",
             "done", "cancelled", "exhausted", "gone"}
Outcome  == {"unused", "open", "succeeded", "failed", "interrupted", "gone"}
Ended    == {"succeeded", "failed", "interrupted"}

VARIABLES
  state,      \* jobs.state
  position,   \* jobs.position, 0 for NULL
  ttl,        \* jobs.ttl
  account,    \* jobs.account
  branch,     \* whether jobs.branch and jobs.worktree are recorded
  plan,       \* jobs.planned and jobs.plan: "none", "wanted" or "made"
  runJob,     \* runs.job_id
  outcome     \* runs.outcome, "open" for the empty one of a Run in progress

jobVars   == <<state, position, ttl, account, branch, plan>>
runVars   == <<runJob, outcome>>
storeVars == <<jobVars, runVars>>

StoreTypeOK ==
  /\ state    \in [Job -> JobState]
  /\ position \in [Job -> Nat]
  /\ ttl      \in [Job -> 0..MaxAttempts]
  /\ account  \in [Job -> Account \cup {NoAccount}]
  /\ branch   \in [Job -> BOOLEAN]
  /\ plan     \in [Job -> {"none", "wanted", "made"}]
  /\ runJob   \in [RunId -> Job \cup {NoJob}]
  /\ outcome  \in [RunId -> Outcome]

StoreInit ==
  /\ state    = [j \in Job |-> "unborn"]
  /\ position = [j \in Job |-> 0]
  /\ ttl      = [j \in Job |-> 0]
  /\ account  = [j \in Job |-> NoAccount]
  /\ branch   = [j \in Job |-> FALSE]
  /\ plan     = [j \in Job |-> "none"]
  /\ runJob   = [r \in RunId |-> NoJob]
  /\ outcome  = [r \in RunId |-> "unused"]

-----------------------------------------------------------------------------
(* Reading. *)

Exists(j) == state[j] \notin {"unborn", "gone"}

\* Whether the Job is in the queue: position IS NOT NULL.
Queued(j) == position[j] # 0

\* The Jobs a listing of the queue returns in a state.
ListQueue(s) == {j \in Job : Queued(j) /\ state[j] = s}

OpenRuns(j) == {r \in RunId : runJob[r] = j /\ outcome[r] = "open"}
EndedRuns(j) == {r \in RunId : runJob[r] = j /\ outcome[r] \in Ended}

\* The row the next INSERT INTO runs takes.
NextRun == {r \in RunId : outcome[r] = "unused"
                          /\ \A q \in RunId : outcome[q] = "unused" => r <= q}

-----------------------------------------------------------------------------
(* The queue's positions. *)

\* Where a Job stands among the positions of place: 0 when it has none.
Rank(place, j) == Cardinality({i \in Job : place[i] \in 1..place[j]})

\* Positions from one upwards, in the order the Jobs already stand in.
Renumber(place) == [j \in Job |-> Rank(place, j)]

\* place with j taken out and put back at seat p, the Jobs behind it shifted.
Insert(place, j, p) ==
  LET others == Renumber([place EXCEPT ![j] = 0])
  IN  [i \in Job |-> IF i = j THEN p
                     ELSE IF others[i] >= p THEN others[i] + 1
                     ELSE others[i]]

-----------------------------------------------------------------------------
(* Statements on jobs. *)

\* A new Job takes the place after the last one.
UpsertJob(j, attempts, planned) ==
  /\ state[j] = "unborn"
  /\ state' = [state EXCEPT ![j] = "pending"]
  /\ \E p \in 1..Cardinality(Job) :
       /\ \A i \in Job : position[i] < p
       /\ p = 1 \/ \E i \in Job : position[i] = p - 1
       /\ position' = [position EXCEPT ![j] = p]
  /\ ttl' = [ttl EXCEPT ![j] = attempts]
  /\ plan' = [plan EXCEPT ![j] = IF planned THEN "wanted" ELSE "none"]
  /\ UNCHANGED <<account, branch, runVars>>

\* Mutant of MoveJobState: whatever state the Job is in.
MoveFromAnywhere(j, from, to) ==
  /\ Exists(j)
  /\ state' = [state EXCEPT ![j] = to]
  /\ UNCHANGED <<position, ttl, account, branch, plan, runVars>>

\* Conditional on the state the caller saw; the place in the queue is kept.
MoveJobState(j, from, to) ==
  /\ state[j] = from
  /\ state' = [state EXCEPT ![j] = to]
  /\ UNCHANGED <<position, ttl, account, branch, plan, runVars>>

\* The condition DequeueJob and MoveJob put on the write (ErrNotQueued else).
StillQueued(j, from) == Queued(j) /\ state[j] = from

\* Mutant of DequeueJob: the gap behind the Job is left open.
DequeueLeavingGap(j, from, to) ==
  /\ StillQueued(j, from)
  /\ state' = [state EXCEPT ![j] = to]
  /\ position' = [position EXCEPT ![j] = 0]
  /\ UNCHANGED <<ttl, account, branch, plan, runVars>>

DequeueJob(j, from, to) ==
  /\ StillQueued(j, from)
  /\ state' = [state EXCEPT ![j] = to]
  /\ position' = Renumber([position EXCEPT ![j] = 0])
  /\ UNCHANGED <<ttl, account, branch, plan, runVars>>

\* Seats past the end put the Job last.
MoveJob(j, p, from) ==
  /\ StillQueued(j, from)
  /\ LET last == Cardinality({i \in Job : Queued(i)})
     IN  position' = Insert(position, j, IF p > last THEN last ELSE p)
  /\ UNCHANGED <<state, ttl, account, branch, plan, runVars>>

\* Mutants of ReturnJobToQueue: a Job with no attempts left is pending too, and
\* a Job put back is put at the end.
ReturnWithoutAttempts(j) ==
  /\ Exists(j)
  /\ state' = [state EXCEPT ![j] = "pending"]
  /\ UNCHANGED <<position, ttl, account, branch, plan, runVars>>
ReturnToTheEnd(j) ==
  /\ Exists(j)
  /\ state' = [state EXCEPT ![j] = IF ttl[j] > 0 THEN "pending" ELSE "exhausted"]
  /\ position' = Insert(position, j, Cardinality({i \in Job : Queued(i)}))
  /\ UNCHANGED <<ttl, account, branch, plan, runVars>>

\* Unconditional: whatever state the Job is in, and whether or not it still
\* has a place.  A Job that is gone is ErrJobNotFound.
ReturnJobToQueue(j) ==
  /\ Exists(j)
  /\ state' = [state EXCEPT ![j] = IF ttl[j] > 0 THEN "pending" ELSE "exhausted"]
  /\ UNCHANGED <<position, ttl, account, branch, plan, runVars>>

\* Mutant of Topped: the sum is not capped.
ToppedUncapped(j, add) == ttl[j] + add

\* MIN(ttl + add, maxAttempts).
Topped(j, add) == IF ttl[j] + add > MaxAttempts THEN MaxAttempts ELSE ttl[j] + add

ExtendJob(j, add) ==
  /\ Exists(j)
  /\ ttl' = [ttl EXCEPT ![j] = Topped(j, add)]
  /\ state' = IF state[j] = "exhausted" THEN [state EXCEPT ![j] = "pending"] ELSE state
  /\ UNCHANGED <<position, account, branch, plan, runVars>>

SetJobAccount(j, a) == Exists(j) /\ account' = [account EXCEPT ![j] = a]
SetJobWorkspace(j)  == Exists(j) /\ branch' = [branch EXCEPT ![j] = TRUE]
SetJobPlan(j)       == Exists(j) /\ plan' = [plan EXCEPT ![j] = "made"]

\* Mutant of RemoveProject: the queue is not renumbered.
RemoveLeavingGaps(p) ==
  LET lost == {j \in Job : ProjectOf[j] = p /\ Exists(j)}
  IN  /\ state' = [j \in Job |-> IF j \in lost THEN "gone" ELSE state[j]]
      /\ position' = [j \in Job |-> IF j \in lost THEN 0 ELSE position[j]]
      /\ outcome' = [r \in RunId |-> IF runJob[r] \in lost THEN "gone" ELSE outcome[r]]
      /\ UNCHANGED <<ttl, account, branch, plan, runJob>>

\* ON DELETE CASCADE takes the Project's Jobs and their Runs, whatever state
\* they are in, and the queue is renumbered.
RemoveProject(p) ==
  LET lost == {j \in Job : ProjectOf[j] = p /\ Exists(j)}
  IN  /\ state' = [j \in Job |-> IF j \in lost THEN "gone" ELSE state[j]]
      /\ position' = Renumber([j \in Job |-> IF j \in lost THEN 0 ELSE position[j]])
      /\ outcome' = [r \in RunId |-> IF runJob[r] \in lost THEN "gone" ELSE outcome[r]]
      /\ UNCHANGED <<ttl, account, branch, plan, runJob>>

-----------------------------------------------------------------------------
(* Statements on runs. *)

\* The foreign key refuses a Run of a Job that is gone.
StartRun(r, j) ==
  /\ Exists(j)
  /\ r \in NextRun
  /\ runJob' = [runJob EXCEPT ![r] = j]
  /\ outcome' = [outcome EXCEPT ![r] = "open"]
  /\ UNCHANGED jobVars

\* ttl = ttl - 1 WHERE ttl > 0, for each of the Jobs.
SpendAttempts(js) == ttl' = [j \in Job |-> IF j \in js /\ ttl[j] > 0 THEN ttl[j] - 1 ELSE ttl[j]]

\* A Run ends once, and ending it spends an attempt in the same transaction.
FinishRun(r, how) ==
  /\ outcome[r] = "open"
  /\ outcome' = [outcome EXCEPT ![r] = how]
  /\ SpendAttempts({runJob[r]})
  /\ UNCHANGED <<state, position, account, branch, plan, runJob>>

\* The one way an outcome changes once it is written.
FailRun(r) ==
  /\ outcome[r] \in Ended
  /\ outcome' = [outcome EXCEPT ![r] = "failed"]
  /\ UNCHANGED <<jobVars, runJob>>

\* Mutants of InterruptRunsInProgress: no attempt is spent; one is spent by
\* every active Job, whether or not it had got as far as a Run.
InterruptForFree ==
  /\ outcome' = [r \in RunId |-> IF outcome[r] = "open" THEN "interrupted" ELSE outcome[r]]
  /\ UNCHANGED <<jobVars, runJob>>
InterruptChargingActive ==
  /\ SpendAttempts({j \in Job : state[j] = "active"})
  /\ outcome' = [r \in RunId |-> IF outcome[r] = "open" THEN "interrupted" ELSE outcome[r]]
  /\ UNCHANGED <<state, position, account, branch, plan, runJob>>

\* Every Run in progress ends, and each of their Jobs spends one attempt.
InterruptRunsInProgress ==
  /\ SpendAttempts({j \in Job : OpenRuns(j) # {}})
  /\ outcome' = [r \in RunId |-> IF outcome[r] = "open" THEN "interrupted" ELSE outcome[r]]
  /\ UNCHANGED <<state, position, account, branch, plan, runJob>>
=============================================================================
