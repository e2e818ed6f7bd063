# Coding Owl in TLA+

Coding Owl is a daemon (`owld`) that carries out coding Jobs on a Mac while
nobody is using it. A user queues Jobs against Projects; the daemon takes the
oldest one nothing holds, gives it a git worktree of its own, runs an Agent in
it, verifies what the Agent did and leaves the result for review. This
directory is its formal model: TLA+ modules translated from the Go source,
TLC configurations that check them on small instances, and TLAPS proofs of what
holds on every instance.

Line numbers below and in `PROJECT.json` refer to `src/`. `PROJECT.json` also
says, definition by definition, which lines a definition stands for ("map"),
which places of the code are hard to test ("hazards") and which small change of
the code each property notices ("mutants").

## 1. The system

| Component | State it keeps | Operations | Talks to |
|---|---|---|---|
| Store (`internal/store`) | SQLite rows: projects, jobs, runs, usage, accounts, conversations | one statement or transaction each, through one connection | everybody |
| Queue service (`internal/queue`) | none of its own | Add, Cancel, Extend, Reorder, Show, List | store |
| Project service (`internal/project`) | `owl.yaml` in a checkout or in the configuration home | Add, Remove, Rename, Move, Setup | store, config |
| Run service (`internal/run/run.go`, `caps.go`, `phase.go`) | the starting lock, `carrying`, `live`, `ours`, `stages`, `s.ctx`, a wait group | Start, carryOut (a goroutine per Run), Recover, Close | store, git, executor, verifier, driver |
| Freezing and ending (`interrupt.go`, `limits.go`) | per live Run: paused, by whom, window timer, why it is being ended | Pause, Resume, expire, end, kill, releasePaused | executor, watcher, users |
| Watcher (`watch.go`, `internal/idle`) | last reading, when to ask again, an attempt in hand | look, act, freezeMine, begin | run service |
| Ceiling (`ceiling.go`, `store/usage.go`) | usage windows per Account | record, over, end the Runs of an Account | run service |
| Disposal (`dispose.go`) | disposal lock; branches and worktrees in git | Accept, Drop | store, git |
| Garbage collection (`internal/gc`) | none | list what is left, remove it, report abandoned Jobs | store, git, disposal lock |
| Worktree preparation (`rebase.go`, `internal/git`) | the branch, the stash, git's locks | rebase, set aside, abort, commit a plan | git |
| Verifier and setup commands (`internal/verifier`, `internal/shell`) | a process group per command | run, stop at a timeout, judge | operating system |
| Skills (`internal/skill`) | manifest, lockfile, cache, links in a worktree | add, remove, update; resolve and place at a start | git, run service |
| Log broker and host executor (`broker.go`, `executor/host`) | subscribers per Run; a process group | publish, subscribe, close; start, signal, wait, kill on a cancelled context | runs, followers |
| Chat (`internal/chat`) | exchanges in hand, pending consents | Send, tool loop, Answer | store, model provider |
| Accounts and credentials (`internal/account`, `internal/credential`) | a row, a directory, a secret each | Add, Remove, read at a start | store, keychain |
| Account files (`internal/driver/claudecode`, instructions) | settings and standing instructions in a directory the user owns too | seed, read, save | file system |
| Configuration (`internal/config`) | two YAML files | parse, resolve a phase, publish a schema | run service |
| Daemon (`internal/daemon`) | the socket's path | probe, recover, listen, serve, stop | everybody |
| Desktop app (`internal/desktop`) | one follow per Run, one chat call | FollowLog, StopLog, SendChat, Shutdown | daemon |
| CLI, RPC, client | none; `owl setup` is a walkthrough | translation; setup, status, show | the services |

**How they interact.** Nothing holds a lock across components: the database
serialises single statements, the starting lock serialises starts, the disposal
lock serialises disposals and collections, and everything between two
statements may be interleaved with anything else. A start is a sequence of
about ten statements with git and minutes of setup commands in between; it runs
under the caller's context, so a hang-up or a stop can cut it short anywhere.
Each Run it launches is a goroutine with its own sequence of statements. Users
cancel, extend, reorder and remove at any time. Recovery runs once, before the
socket is opened (`daemon.go:170-234`). What a service keeps in two places - a
row and a secret, a row and a directory, a branch and its row - it changes one
after the other.

**What is hard.** The claim of a Job read under no lock; a crash between any
two of those statements; a write that fails in the middle of a start's undoing;
a stop while a start is in progress; the same Job's next start overtaking the
last Run's goroutine; a queue renumbered by four operations; caps that count
rows although they are meant to bound Agents; timers that fire while what they
are about has changed; a freeze by the machine against one by the user; a
worktree an Agent, a user or a killed git left in any state; a listing read
minutes before what it decides; a follower that falls behind; an answer to a
question whose timer has fired. `PROJECT.json` lists every such place with its
line under "hazards".

**What makes each part correct.**

* Store and queue: places count from one without gaps; a Job's attempts and its
  ended Runs add up to what it was given; nobody's place changes but by a reorder.
* Run service: no Job is worked on twice; an active Job is somebody's; a decision
  (cancelled, blocked, for review) stands; a review is earned by a Run that
  succeeded; caps bound the Agents at work; a Job stays on one Account; a stop ends.
* Freezing: what the user paused the machine does not continue; the first ending
  of a Run is the one recorded; a frozen Run has a window; nobody is left stopped.
* Ceiling: while an Account is known to be over it is begun on once more at the
  most, and no Run that says anything goes on; what was held back goes on after
  the reset.
* Disposal and collection: nothing a Job still needs is removed; the branch of an
  accepted Job stays; what was begun can be finished.
* Worktree: an Agent begins on its Job's branch, rebased, with no lock, conflict
  or rebase left in it; what nobody committed is somewhere; a Job is in review on
  what judged its own last Run.
* Skills: a Run starts with what is declared and pinned, and what Owl did not put
  there stays.
* Broker and executor: a follower sees each line once, in order, and never holds
  up the Agent; a cancelled Agent leaves nobody of its group behind.
* Checks: what passed was earned, what was stopped is gone, every use ends.
* Chat: nothing runs unasked, a consent is answered once and to somebody who
  waits, what was seen is kept. It does not keep a Conversation to one exchange
  at a time, and nothing here says so.
* Accounts, files, configuration, setup, daemon, reports: what a user was told is
  so; no step takes what is not its own; a phase runs at the narrowest value set.

## 2. Modules

| Module | What it is |
|---|---|
| `JobStore` | the job, run and project rows; one operator per statement of `store/jobs.go`, `runs.go`, `projects.go` |
| `RunService` | extends `JobStore`: the start, the Runs' goroutines, the users and the daemon's life |
| `JobLifecycle` | abstract: a Job as its user sees it |
| `QueueOrder` | abstract: the queue as a line - who stands in it, who waits, who is ahead of whom |
| `Freezing` | the Runs' live records: freezing, continuing and ending, the watcher, the Agents, the stop |
| `Ceiling` | what is known of each Account's windows, what it holds back and whom it ends |
| `Spells` | extends `Ceiling`: what happened while an Account was known to be over |
| `Disposal` | worktrees and branches beside the rows: accept, drop, collect, report |
| `JobWorktree` | one worktree from Run to Run: rebase, stash, abort, handoff, checks, verdict |
| `Skills` | manifest, lockfile, cache and the links in a worktree |
| `RunOutput` | what an Agent says, from the pipe to the followers; the process group it is |
| `Checks` | a setup or check command: shell, children, output, timeout |
| `Desktop` | the app's follows and its chat call |
| `Chat` | exchanges, the tool loop, consents |
| `Secrets` | Accounts and chat providers, a row and a secret each |
| `AccountFiles` | settings and instructions in a directory the user writes too |
| `Projects` | a Project's row and its configuration, tied by a name |
| `Settings` | which values are taken, admitted, resolved and refused |
| `Setup` | the walkthrough of `owl setup` |
| `Daemon` | daemons that share one home |
| `Reports` | `owl status` and `owl show` over Jobs that move |
| `MCRunService`, `MCFreezing`, `MCCeiling` | the small sets TLC needs |
| `MCWorktree` | `JobWorktree` beside `Skills` |
| `MCProcesses` | `RunOutput` beside `Checks` and `Desktop` |
| `MCServices` | `Secrets`, `Daemon`, `Projects`, `Settings`, `AccountFiles`, `Setup`, `Reports` side by side |
| `RunServiceProofs` | theorems about `RunService`; the last part those of a daemon whose writes succeed |
| `FreezingProofs`, `SpellsProofs`, `DisposalProofs`, `ChatProofs` | theorems about the module of that name |
| `WorktreeProofs`, `ProcessesProofs`, `ServicesProofs` | theorems about `MCWorktree`, `MCProcesses`, `MCServices` |

The three composites put components side by side that share no state where the
properties look: `part`, chosen by Init, says which of them moves, and the others
rest where they began. Where components do share state - the store, the lock, the
worktree's rows - they are in one module: `RunService` over `JobStore`,
`Disposal` with the start it races, `Freezing` with the watcher and the executor.

### JobStore

One variable per column that matters. The daemon opens SQLite with a single
connection, so a statement or a transaction is one atomic step and an operator
each. What the operators keep of the SQL is the condition in its `WHERE` - it is
what the races are decided by: `MoveJobState` and `DequeueJob` are conditional
on the state the caller saw, `ReturnJobToQueue` is not conditional on anything.
A removed Project's rows are "gone", as by `ON DELETE CASCADE`, and ids are
never used again (`AUTOINCREMENT`).

### RunService

`start` is the one start that holds the starting lock, with a program counter
for the statement it is at: `exhaust` (the Jobs out of attempts), `check`
(configuration, Account, ceiling), the claim, `carry`, `tree` and `note` (git
makes the worktree; the row names it), `prepare` (rebase, Skills, setup
commands, prompt), `open` (the Run row), `launch`, and the undoing:
`abandonRun`, `abandonJob`, `uncarry`, `release`. `work[r]` is the goroutine of
Run r: `agent`, then `verify` or `plan`, `finish` (the Run's end is written),
`move` (its Job is moved on), `amend` (what `couldNotMove` does), `drop` (the
deferred end). Several statements nobody else can observe in between are one
action; two that somebody can get between are two.

`daemon` goes `down`, `recovering`, `up`, `stopping`, `cancelled`, `refusing`
and back to `down`. "Stopping" is the moment every caller's context ends and the
service's own has not (`daemon.go:235-244, 293-311`); then Close cancels the
latter, then takes the starting lock to refuse starts, then waits. `Crash` may
happen in any of these states.

Data abstracted: what an Agent, Verification, a rebase, a setup command or a
Skill comes to is a choice of verdict - how each comes to it is `JobWorktree`,
`Checks`, `Skills` and `Settings`; usage is any subset of `Throttled` being over
its ceiling at a scan - `Ceiling` has the figures; the configuration is the one
Account a Project names. `Fault` stands for a write that fails or a caller that
hangs up, at the places where the code has a path for it.

### JobLifecycle and QueueOrder

What the queue promises with no process, lock or database in it (ADR-0025,
ADR-0027). `RunService` is shown to implement both. `JobLifecycle` sees it with
`left <- ttl`. `QueueOrder` sees no numbers: `queue` is who has a place, `waiting`
who has one and is pending, and `ahead` the pairs of which the first has the
smaller place. Every Job that joins does so behind all the others, one that leaves
disturbs nobody, and only a reorder of a Job that waits changes who is ahead.

### Freezing

The part of a Run between its Agent's start and its goroutine's return, which
`RunService` keeps as one step (`AgentEnds`): there the Agent ends, here is how.
The two meet in three places: the verdict `execute` comes to, a Close that waits
for every Run, and the starts a watcher's `begin` asks for.

`paused`, `by`, `armed`, `why` are the fields of a `live` record, `ours` is
`s.ours`. Everything done under one hold of `s.mu` is one action - `Pause`,
`Resume`, `EndWith`, `ReleasePaused` - and what happens outside of it is an
action of its own, because that is where the races are: a window that has fired
and waits for the lock (`calls`, each with the freeze that armed it), the
signals an ending sends after letting go of the lock (`owed`), the kill's timer
(`killer`), an Agent that has exited and was not yet waited for, and the moment
between its being waited for and its record's end (`at = "read"`). The system's
side is `proc`: running, stopped or gone. A signal to an Agent that has been
waited for is refused, and to one that is gone but was not it may be
(`Unreachable`). No Agent has to act on SIGTERM.

The watcher's loop is a program counter, `look`: read the machine, act on the
change, look for a Run of its own that is going, freeze, and perhaps ask for a
start (`attempt` is that goroutine). The machine changes hands in between.
`life` is the daemon's stop as `daemon.go:297-315` orders it. Time is abstracted:
a timer that runs may fire.

### Ceiling and Spells

What is known of an Account is what Runs on it said: nothing asks a provider. A
reading has a figure and the time its window has left; `Tick` takes one from
every reading and from the time until the watcher asks again, which doubles up to
`MaxHold`. A Run hears a reading (`Hear`), records it, then judges its Account -
three steps, between which other Runs and starts go on. `Scan` walks the queue,
`Check` looks again under the starting lock (`run.go:468`), and `Claim` takes the Job
(`run.go:482`): two steps, because a Run that reports takes no starting lock and may
be heard in between. So a Job may be claimed on an Account that is over by then.
`Spells` remembers how often that happened since the Account is over (`late`) and
which Runs were judged since (`spoken`); no action of `Ceiling` reads either.

### Disposal

Per Job: its row, its directory (none, clean, dirty or broken), its branch (none, fresh, ahead
or merged), what the row notes of them. A decider is one call of accept or drop, a
program counter over `dispose.go`; the collection is one too, which lists, reads
rows, removes and reports. `hands` counts what people do in a worktree by
themselves, `torn` the Jobs whose drop was cut short. A directory git no longer
knows ("broken") is never reclaimed by collection, and an entry of a removed
Project stays: both are the code's.

### JobWorktree and Skills

`JobWorktree` follows one worktree over several Runs: HEAD, rebase in progress,
lock, conflict, what is uncommitted (in the tree, set aside, in the stash), what
the base is known to be, and of the last Run its checks and verdict. git may be
killed in the middle of a rebase. The Agent leaves any of it behind. git itself is
external: it is modelled as what Owl's calls rely on.

`Skills` keeps a manifest, a lockfile and a cache, each where the code keeps it (on
disk, on the base branch, in a command's hands), and the entries of one worktree,
an entry being a link to a commit, something of somebody else's, or nothing. A
commit stands for its content and so for its digest.

### RunOutput, Checks and Desktop

`RunOutput` numbers the lines of one Run. The reader scans, writes to the file,
publishes to each subscriber's buffer or marks it as fallen behind; a follower
reads the row, subscribes, reads the file, then the buffer. The Agent is a process
group whose child may hold the pipe open. `Checks` is `shell.Run`: the shell, the
goroutine that waits for it and for its output, the one that stops its group.
A process the Agent started may leave its group with the output open (`departed`):
no signal of Owl's reaches it then, and the pipe does not end before it does.
`Desktop` is FollowLog with the goroutine it leaves, StopLog, SendChat, Shutdown.

### Chat

An exchange is `Send`: record what was said, open (carry the last messages that
are no more than `MaxHistory` together, and shape them to one turn a role), ask, carry
out what was asked for, record the answer. What is said is reduced to who said it and
how much it is: a history is cut by its bytes (`send.go:23-26, 194-206`), and `Size`
has messages a request has room for and, as an answer may be twice `maxHistory`, one
that is more than it carries. A command waits under a name of its own for a consent, with a
timer, and its directory is looked at again when it is allowed. A restart forgets what was waiting and the consents.

### The services

`Secrets`: Add and Remove of an Account and of a chat provider, step by step over
row, directory and secret with their undos; a secret is known by the call that
brought it. `excused` marks the names whose user was told that a half is left, whose
daemon died in a call or whose calls overlapped; `unsaid` that a call left one half of
the provider and told nobody, until a later call puts it right. `AccountFiles`: seeding through a temporary file and a link, reading what a start may
grant, saving instructions with a look at what was there. `Projects`: Add, Setup,
Rename, Move and Remove over a row and a directory tied by name alone.
`Settings`: each kind of value in each key, through the parser, the schema, the
four levels of a phase and the driver's refusal; one phase stands for both.
`Setup`: two walkthroughs asking a person, over daemon, program and Accounts.
`Daemon`: several daemons probing, removing and making one socket. One that is
killed leaves any of its Agents at work (`orphan`), as they lead process groups of
their own (`host.go:65-67`). `Reports`:
the reads of a report, in their order, over Jobs that move in between.

## 3. Runs

| Run | Question | Instance |
|---|---|---|
| `crash` | Does everything hold together when the daemon is stopped or killed at any point, twice? | two Jobs in two Projects, one removable; planning; three Runs |
| `faults` | What survives writes that fail and callers that hang up? | two Jobs, two Accounts, two Runs at once, one stop, two faults, one edit; the Accounts symmetric |
| `caps` | Do the caps bound the Agents, and does the queue keep its order? | three Jobs, two Projects, two Accounts, one of them throttled; two Runs at once |
| `serves` | Does every Job get its turn, and does a stop end? | two Jobs, four Runs, one stop or crash; fairness |
| `frozen` | Does every freeze end, do the records tell the truth, does the user's pause stand, and does a stop end Agents frozen or deaf? | one Run, its Agent free to ignore SIGTERM; two requests, the machine changing hands twice, a stop; fairness |
| `disposal` | Does anything in use or uncommitted go, and does what was begun finish? | one Job, one call at a time beside the collection, one hand on the worktree, two faults; fairness |
| `headroom` | How far is an Account kept under its ceiling, and is what it held back taken up? | one Account, two Jobs, three windows, two ceilings; fairness |
| `exchange` | Does nothing run unasked, does the user open each request, and is what was seen kept? | two Conversations, two exchanges that may meet in one of them, messages of one or three where a request carries two; one command that asks and one that need not, a fault, a link, a restart |
| `worktree` | Is a start's worktree what it should be, in its branch and in its Skills, and is a review earned? | two Runs, one move of the base, one hand, two faults; one Skill, two refs, one command, two placements, one upset |
| `processes` | Is what Owl's processes said seen once and whole, and is what was stopped gone? | one follower, a buffer of two, three lines, one lost, a child that may leave its group; two commands; two follows |
| `services` | Is what the services told their users so, and does no step take what is not its own? | two callers in four calls, two faults; three daemons, two deaths; two names and commands; two edits; two starts, an editor, two writes of the user's, a crash; two walkthroughs; two Runs and a report |
| `wedged` | violation: a drop cut short cannot be asked for again | one fault |

Each run's exact instance is its `.cfg`; `PROJECT.json` names the properties.

**What the properties say.** `OneRunPerJob`: no two goroutines, and no
goroutine and start, are at the same Job. `AttemptsAccounted`: attempts left
plus ended Runs is what the Job was given - with a faulty database only
`NeverOvercharged` is left of it. `NothingStranded`: an active Job has somebody
who will move it on, which is what recovery and every error path of a start are
for. `ReviewIsEarned`, `DecisionsStand`: see section 1. `WithinCaps` and
`WithinAccountCaps` are about the Agents at work, not the rows the scan counts.
`RunsOnItsAccount`: the Account a Run draws on is the one its Job records.
`QueueIsWhole`: the places are 1..n. `CarriesWhatItDoes`: the daemon claims to
carry no Job it has let go of. `KeepsLifecycle`, `KeepsOrder`: the refinements.

`FrozenHasWindow` - a frozen Run has a window armed, or one that has fired.
`RecordIsTrue` - no record says frozen of an Agent that runs, and no Agent is
stopped that no record and no signal on its way will continue. `HearsTheStop` -
after `releasePaused` nobody is left stopped. `UserPauseStands` - only the user
undoes the user's pause. `NothingStaysStuck` - what is frozen or being ended is
in the end going or over, deaf Agents too; a stop ends; and on a machine somebody
stays at, no Agent of the watcher's keeps running, however late its start came
through.

`AcceptedKeepsBranch` - whoever else decides at the same time, an accepted Job's
branch is there. `WorkIsKept` - between a look and the removal it leads to,
nothing uncommitted goes unforced and nothing still of use is collected.
`DisposalEnds` - an accept asked for again finishes, and what nothing has a use
for does not stay. `KeptUnder` - since an Account is known to be over, at most one Job was
begun on it, by the start that had already looked, and no Run whose line was judged
since is left running. `HeldBackResumes` - on a machine left to Owl, and a
configuration that reads, every Job an Account held back gets its turn.

The runs over composites have one property for each kind of promise, a
conjunction of the parts', each named in the module it belongs to:

| Property | Parts |
|---|---|
| `ExchangeIsSound` | `ConsentGiven`, `NothingLeftAsking`, `LookedAtAgain`, `UserOpensAndWaits`: in no request does the user speak twice in a row, and the user opens it unless others' answers had drowned the question |
| `SeenIsKept` | what a user saw of an answer is in its Conversation when Send returns, unless the store refused it |
| `ReviewIsJudged` | a Job in review is there on its own last Run's checks and verifier |
| `WorktreeIsKept` | `BeginsSound`, `NothingUncommittedIsLost` |
| `SkillsAsDeclared` | `RecordIsTrue`, `StartsAsDeclared`, `OwnStays`, `FetchedIsGenuine`, `AdviceIsEnough` |
| `HeardOnceAndWhole` | `FollowedOnceInOrder`, `EndMeansWhole`, `CancelledLeavesNobody` |
| `StoppedMeansStopped` | `PassedWasEarned`, `NobodyLeftOfAStopped`, `EveryFollowCanBeStopped`, `EndIsToldOnce`, `CallerIsLetGo` |
| `NobodyIsHeldUp` | `NeverHeldUp`, `CancelledEnds` (unless what left the Agent's group holds its output), `EveryUseEnds`, `TellsWhichConversation` |
| `ToldIsTrue` | `AddedRuns`, `HalvesAgree`, `SavedReadsBack`, `ReadyIsTrue` |
| `NamesHold` | `LeavesNothing`, `ConfigFollowsTheName` |
| `TakesOnlyItsOwn` | `RecoversNobodysRun`, `NothingWrittenIsLost`, `GrantIsTheFiles`, `NothingTypedIsLost` |
| `AsItWasSet` | `RunsAtTheNarrowest`, `RefusedWhereWritten`, `WhatStoodIsReported` |

**Bounds.** `MaxRuns` Run rows: three let a Job be planned, interrupted and
carried out, or two Jobs be at work with a third Run behind them. `MaxStops`
two: the second one hits recovery from the first. `MaxFaults` two: a fault, and
one in the undoing of the first. `MaxGranted` bounds extensions; `MaxAttempts`
is 2^31-1 in the code and small here, so that a top-up reaches it. Two Jobs are
enough for every race about one Job and its neighbour; `caps` has three, so
that a cap can hold one of them while another passes it. `MaxFaults = 0`,
`Removable = {}` or `MaxEdits = 0` appear where a property is promised only
then, and each such property's comment says so.

`frozen` has one Run, because Pause, Resume, the endings and the stop treat
every record by itself; Runs meet only in `freezeMine`'s question, which is what
`byhand`'s two are for, and the invariants are proved for any number. `MaxAsks`
and `MaxTurns` two: a pause and the resume that undoes it, somebody leaving and
coming back. `disposal` has one Job and one call, since the disposal lock lets one
decide at a time and Jobs share nothing else; the collection, the start, the hand
and the crash race it. `headroom` has three windows of which two are weekly, so that
the ceiling of one kind must look at two figures. `exchange` lets two exchanges
meet in one Conversation or not; a history of two cuts two messages from three, and
a message of three is more than it carries. In the
composites every part has the smallest numbers at which each of its hazards
happens: a start and one that overtakes it, a command cut short and the next, a
fault and one in its undoing. The theorems of section 5 hold for every value of
these numbers, but where its table says otherwise.

**Fairness** (run `serves`). Weak fairness of: asking for a start - the watcher
asks at every look of an idle machine, the backoff is bounded by five minutes;
the steps of a start and of each goroutine - they are straight-line code, and
every Agent ends, at the latest by its limits (ADR-0036) and the kill after
them, which holds for all that stays in the Agent's process group: `RunOutput` has
what does not (finding at `run.go:1498`); recovery, and starting the daemon again - launchd keeps it alive
(`deploy/launchd/dev.codingowl.owld.plist:14-16`); and the steps of Close. No
fairness is assumed of users, of faults, or of the daemon being stopped.

In `frozen`: a window that is armed fires and its call gets the lock; an ending's
signals are sent and its kill comes - both are runtime timers and straight-line
code; a Run's goroutine goes on; the executor kills an Agent once the context is
cancelled, and with it all that holds its output, nothing having left its group; the watcher's ticker ticks until it is stopped; Close goes on. Nothing
is assumed of users, of the machine, of limits, of starts, or of an Agent's ending
by itself.

In `disposal`: a call that has begun goes on, a collection is run again every
interval (`daemon.go:352-380`), and somebody goes on asking for what is in review
to be accepted - strong, because other calls hold the lock in between. In
`headroom`: a Run's goroutine goes on and its Agent ends, the watcher's start is carried
through, the watcher looks, time passes; nobody asks by hand and no Run has to
report. In `processes`: the reader and both stoppers go on, and so do the runtime's
timers; no Agent, child or command has to end or to heed SIGTERM, and no follower
has to read.

## 4. Findings

The source says one thing and a comment or document beside it another. Those with
a configuration can be seen by running it; `wedged` is one of the checked runs.
`PROJECT.json` quotes the line each contradicts. A property named in brackets without a
configuration is stated in its module; to see it fail, name it in the configuration of
the run its module is part of (through a definition in the composite, where that has
the module as an instance).

* `run.go:518` - `start` lets git make the worktree and records it afterwards. A
  stop, a crash or a hang-up in between leaves a worktree no row names; the
  Job's next start asks git to make it again, git refuses, and the Job is
  blocked. (`RunService_worktree.cfg`)
* `run.go:553` - a refusal after the claim that the next try meets again leaves
  the Job pending at the head of the queue, and nothing behind it is started.
  (`RunService_starved.cfg`)
* `caps.go:235` - `exhaust` moves Jobs it listed earlier with an unconditional
  write: a cancel in between is overwritten. (`RunService_resurrected.cfg`)
* `run.go:954` - `carrying` is keyed by Job, so the deferred end of one Run's
  goroutine erases the mark of the Job's next start, and collection may report
  a Job that is being carried out as abandoned. (`RunService_uncarried.cfg`)
* `store/runs.go:70` - ADR-0036 says an interrupted Run costs its Job nothing;
  every Run's end spends an attempt. (`RunService_costless.cfg`)
* `limits.go:58` - the limits' timers are not stopped by a freeze, so a frozen
  Run, which can say nothing, passes its silence limit and fails.
  (`Freezing_blamed.cfg`)
* `watch.go:226` - `freezeMine` freezes every Run as soon as one of the
  watcher's is going; its comment says that nothing somebody asked for by hand
  is frozen at all. (`Freezing_byhand.cfg`)
* `dispose.go:110` - a drop cut short between the branch and its row cannot be
  asked for again. (`Disposal_wedged.cfg`)
* `gc.go:563` - a Job is reported abandoned from rows read before the mark was.
  (`Disposal_falsealarm.cfg`)
* `run.go:1478`, `run.go:1498` - a Run is over only when nobody has its Agent's output
  open any more: an Agent that exits while a child holds it is not over, and one that
  was cancelled is not while a process that left its group does, whatever `WaitDelay`
  and SIGKILL say. (`RunOutput_held.cfg`: `ExitedEnds`, `CancelledIsOver`)
* `chat/send.go:199` - one long answer of another exchange, or several, can be all of
  the history that is carried; shaped, nothing of it is left, and a request without a
  turn is sent. (`Chat_emptied.cfg`)
* `chat/send.go:207` - only an exchange's first request is shaped; a later one may
  have two turns of one role in a row. (`Chat_shaped.cfg`)
* `rebase.go:108` - a rebase the daemon's stop cut short blocks the Job.
* `daemon.go:316` - a daemon that stops removes the socket of the one started
  after it, so that a third serves beside that one (`HeldByOne`).
* `run.go:384` - a daemon that was killed leaves its Agents at work, and the next one
  closes their Runs and gives their Jobs back (`NothingSurvivesRestart`).
* `chat.go:196`, `keychain_darwin.go:71` - a first key whose row could not be written and
  which could not be taken back stays, and nobody is told; a rotation that fails
  between the keychain's two steps leaves the provider no key (`KeyIsTakenBack`,
  `KeyIsKept`).
* `project.go:407` - between the two halves of a Rename a reader finds the Project
  bare, and a daemon that dies there leaves it so (`ReadsItsConfig`).
* `run.go:1444` - another vendor's model is refused after the worktree is made and
  an attempt is spent (`RefusedBeforeItsWorktree`).
* `config/schema.go:170`, `config/config.go:771` - the schema admits `0s`, which the
  parsers refuse; a percentage may be NaN or a lone sign (`SchemaTellsTheTruth`,
  `CeilingTakenIsKept`).
* `shell.go:115` - a command that exited in time may be reported as timed out or
  stopped (`ExitedIsWhatItSaid`).
* `desktop.go:34` - a follow that was replaced may still announce its end
  (`StoppedIsSilent`).
* `cli/setup.go:153`, `cli/account.go:147` - owl setup looks with its own
  environment, not the daemon's; a name may be taken while its user authorises
  (`WhatARunGets`, `RefusedBeforeItAuthorises`).
* `run.go:957`, `run.go:841` - a Run past its Agent is shown as starting; a handoff
  is missed when its Job is accepted while it is read (`StageIsTrue`, `HandoffIsShown`).
* `account.go:252` - a Run that starts between the count and the delete names an
  Account that is gone (`JobsNameAnAccount`).
* `skill/service.go:123` - a Skill whose pinned ref was deleted from the manifest
  stays on it (`DefaultIsTrue`).

## 5. Proofs

Every invariant of the passing runs and every property of a step is a theorem: 36
results are listed in `PROJECT.json`, in eight modules. They are for
every value of the constants under the assumptions the modules name - finitely
many Jobs, caps of at least one, refs among which is the default, and the like -
and these, where a property is promised only then:

| Assumption | Theorems | Why it is there |
|---|---|---|
| `MaxFaults = 0` | the last part of `RunServiceProofs` | a write that fails may leave a Job's attempts, place or state as they were; `faults` and `NobodyOvercharged` say what is left then |
| `Removable = {}` | `CapsHold`, `AccountCapsHold` | a removed Project's Agent goes on with no row that counts it |
| `MaxEdits = 0` | `AccountCapsHold` | the scan counts by the Account a Project names today |
| `CallsAreNumbered`, `RefsAssumption`, `BoundsAssumption` | of `MCProcesses`, `MCWorktree`, `MCServices` | a follow's id is not the zero, there is a default ref, bounds are numbers |

Some statements name the histories they are not about, and the module says of each
why the code gives no more: a Job whose drop was cut short (`torn`, the finding at
`dispose.go:110`), daemons whose starts overlapped (`raced`, the finding at
`daemon.go:316`), Agents whose daemon was killed (`orphan`, the finding at `run.go:384`), commands that share a Project's name (`raced` of `Projects`, the
finding at `project.go:407`), a secret whose user was told that half of it failed
(`excused`), the two halves of a provider nobody is told of (`unsaid`, the findings at
`chat.go:196` and `keychain_darwin.go:71`), a question others' answers drowned
(`Drowned`, the finding at `send.go:199`), lines the log could not take (`lost`).

### RunServiceProofs

`TypeCorrect` includes that attempts stay within the column, which needs the cap
in `Topped` and the guard in `SpendAttempts`. `OneRunPerJob` is not inductive: a
claim could take a Job some goroutine is at, as far as it says. The strengthening
is

    IInv == TypeOK /\ Attached /\ Quiet /\ Listed /\ Taken /\ OneRunPerJob

`Taken` says that a Job a goroutine or a claimed start is at is active (or gone
with its Project), which is what makes the conditional claim exclusive. It is
kept only because nobody else moves an active Job: users cannot (their writes
are conditional on pending), `exhaust` could (its write is not), were it not for
`Listed`: no Job a start has listed as out of attempts is active, because only a
start claims and there is one start. Recovery could as well, were it not for
`Quiet`: while the daemon recovers it has no start and no goroutine. `Attached`
ties starts and goroutines to rows there are. `OneSubscription` adds `OnRecord`:
a claimed start's Account is the recorded one, if one is recorded.

`PlacesStayWhole` is about numbers: no place is held twice and none is left empty.
`Places` says it as a bijection onto 1..n (`Whole`), and the four ways the queue is
renumbered - leaving, joining, inserting, losing a Project - each have a lemma
about the operator. `ServiceKeepsOrder`, the refinement of `QueueOrder`, rests on
it and on three more lemmas of the same operators: renumbering keeps who is ahead
of whom (`RenumberKeepsOrder`), a place given up disturbs nobody (`LeavingKeepsOrder`),
and a reorder moves one Job past those between (`InsertMoves`). It assumes nothing
of faults: a write that fails leaves everybody's place as it was.

`NobodyOvercharged` bounds what a Job has lost by the Runs it has had, which needs
`Concluded`: a goroutine past its Agent knows how its Run ended. `CapsHold` and
`AccountCapsHold` need that the start's count of rows still bounds the Agents when
it launches, statements later (`Chosen`, `Room`, `RoomLeft`; `Shares` and `ShareLeft`
of an Account): only a start adds to them and there is one start.
`NothingCarriedForNobody` needs `LetGo`: a start that has only to release has
already let go of its Job.

Of a service whose writes succeed:

    SInv == IInv /\ Concluded /\ Places /\ RowInv /\ HandInv

`RowInv` is what the rows say by themselves - who has a place, who may be started,
that at most one Run of a Job is open, that attempts and ended Runs add up, what a
review was earned by - and `HandInv` what a start or goroutine at each of its
statements has in hand and still owes the rows. From it follow the
four invariants, that no step overwrites a decision, and the refinement of
`JobLifecycle`, action by action.

### SpellsProofs

    IInv == TypeOK /\ Waits /\ InTime /\ Once /\ Ended

`Once` and `Ended` are the property. `InTime` is why a second claim cannot follow: a
start that has looked at an Account it found under its ceiling is there with `late`
at zero, which only its own claim raises. `Waits` keeps its Job pending meanwhile.
What is judged sees every window that is over (`OverIsHeld`): the most spent of some
windows is no less than any of them, which needs that percentages have a greatest.

### FreezingProofs

`Sound(r)` is the strengthening: what Run r's Agent may be at each point of its
goroutine; that only what nothing is ending is frozen; that an ending which owes a
SIGCONT has taken the record's freeze; that nothing is frozen once the stop has let
go. It is a property of one Run at a time, so each action has a short lemma; the
ones that touch many Runs - Pause, Resume, `releasePaused` - are proved Run by Run.
`UsersFreezeStands` is of steps: each leaves a user's freeze alone, or is the
user's Resume, or ends the Run, or comes after the daemon's context is done.

### DisposalProofs

    IInv == Typed /\ AtHome /\ Waiting /\ Noted /\ Remembered /\ ReadTrue /\ Owned /\ Found

`AtHome` and `Waiting` keep starts and decisions apart: a Job a Run is at is active,
one somebody decides about is not. `Noted` says who may leave a row naming a branch
there is not - a drop, until it is done, or one that was cut short - and `Remembered`
the same of what a call read when it began. `ReadTrue`, `Owned` and `Found` are the
collection's, which holds no lock while it lists: what it read of a Job that is over
stays true because such a Job does not come back, and a directory it found no row
for is of a Job that went with its Project.

### WorktreeProofs

`BranchInv` has three groups: `Reviewing`, `Judging` and `ReviewIsJudged` follow a
verdict to the review it earns; `Ours`, `Known`, `Unlocked`, `Whole` and `Ahead` say
what each step of a start has established that the steps after it keep; `PutAside`
says where uncommitted work is at each of them. `SkillsInv` is `Sources`, `Cached`
and `FilesHold`, `CommandsHold`, `RunHolds` - every lockfile, wherever it is, pins
what its source answered - and `Placed`: what a placement has done to the entries
by each of its steps.

### ProcessesProofs

`OutInv` counts lines: what was said, written and published (`Reads`), and of each
follower what its subscription, its buffer and its reading of the file have of it
(`Subscribed`, `Queued`, `Heard`, `Ended`); that file and subscription overlap by
no more than what is skipped is the sum of the two. `CheckInv` adds to the two
properties what each activity has seen of the shell (`Found`, `Carried`), and
`DeskInv` that a registered follow is reachable by who may stop it (`Held`,
`Reachable`, `Settles`).

### ServicesProofs

`PartsInv` is one conjunct per part: `DaemonInv` (whose the socket's file may be, and
that where no two starts overlapped at most one daemon is starting or serving),
`FilesInv`, `SetupInv`, `ProjectsInv` (which name a command has at each of its steps,
and that of commands sharing none a configuration is under its Project's name or
where a rename has it), `SecretsInv` (what each call still owes row and secret),
`SettingsInv` and `ReportsInv` (what is listed was there when it was read). A report's latest Run is
a greatest element, whose existence is proved once.

### ChatProofs

`IInv` says who waits for which command, who was asked and what was decided. `SayInv`
adds `Recorded` - an exchange that is about to read its Conversation back has its own
question in it - and `Carrying`, the shape of a request at each of an exchange's steps.
That the user opens it is by where the question stands: if it is among the messages
carried, a user's turn is there to begin with; if it is not, what follows it is more than
a request may carry and, the last message being carried however long, some answer of
others is part of it, which is `Drowned`. The fold that shapes the request is followed by
an induction over its steps.

### What only TLC checks

* Liveness: `ActiveMovesOn`, `PendingIsServed`, `CloseReturns`, `NothingStaysStuck`,
  `DisposalEnds`, `HeldBackResumes`, `NobodyIsHeldUp`. Fairness needs ENABLED, about
  which the prover can show nothing here.
* What a definition by recursion over data computes for all inputs, where no
  invariant follows it step by step. The library's induction theorems are stated
  over an operator and cannot be used; the few inductions here (the fold of a
  request, a greatest or least element) go by way of a set of numbers and its least
  member.

## 6. State of the work

Modelled, checked and, but for the above, proved: everything of section 2. Next: the
parts of a composite's property that need no bound assumption named as theorems of their
own; an Agent that outlives its daemon in the modules of the Job and of the worktree, not
only in `Daemon`; and configurations for the stated properties that have none
(`KeyIsTakenBack`, `KeyIsKept`, `NothingSurvivesRestart`, `HeldByOne`,
`JobsNameAnAccount`, `StageIsTrue`, `HandoffIsShown`, `DefaultIsTrue`).

## 7. Not modelled

Generated code and build files, which have no state. YAML itself and the wording of
errors; a budget of `.inf`, which the parser takes (`config.go:399`); argument lists, prompts, diffs and the parsing of an Agent's stream; labels,
which only filter a listing; most commands of the CLI, which send one request and
print the answer; the translation between messages and services; what counts as
idle and how long a backoff is, which are choices; the text a chat's tools return.

Assumed of the outside: git does what Owl's calls rely on; an Agent ends with a daemon
that dies, as `run.go:379-383` says, in every module but `Daemon` (so `OneRunPerJob` is
about the daemon's goroutines: an Agent of a daemon that was killed may be at work beside
the next one's, as the finding at `run.go:384` says); what an Agent starts stays in its
process group, in every module but `RunOutput`; nothing but Owl writes
the skills directory of a worktree between a placement's looks and its rename; the
machine holds still while `owl setup` walks through it.

Seen while modelling, asked by no run: a limit that fires between the stop and the
Agent's end makes the Run a failure (`interrupt.go:379-383` says otherwise). Two
Runs of one Account may together keep more windows than `maxWindows`
(`ceiling.go:113-143`). Two overlapping `owl skills` commands lose an edit. A remove
that overlaps an add of the same Account deletes the new secret. A user's rebase
begun between Owl's look at HEAD and its own is aborted. The row of a removed
Project's Job goes while its Agent is at work, and collection then takes a clean
worktree from under it, as `docs/guide/projects-and-accounts.md:107-113` has it.
Two renames that share a name, or a daemon that dies in one, misplace a
configuration.
