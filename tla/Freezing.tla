------------------------------ MODULE Freezing ------------------------------
(***************************************************************************)
(* internal/run's interruption machinery: Runs frozen and continued by the *)
(* user and by the watcher, ended by the grace window, a limit, a ceiling  *)
(* or the daemon's stop, and the Agents that do or do not act on it.       *)
(*                                                                         *)
(* Every record of a live Run is read and written under one lock, s.mu.    *)
(* What is not under it is where the interleavings are: a timer that has   *)
(* fired waits for the lock, an ending is signalled after the lock is let  *)
(* go, an Agent dies before anybody has looked, and the machine changes    *)
(* hands between the watcher's reading and what it does about it.          *)
(***************************************************************************)
EXTENDS Naturals, FiniteSets

CONSTANTS
  Run,          \* the Runs that may be started
  MaxAsks,      \* bound: how often a user pauses or resumes
  MaxTurns,     \* bound: how often the machine changes hands
  MayStop       \* whether the daemon is ever told to stop

ASSUME FreezingAssumption ==
  /\ MaxAsks \in Nat /\ MaxTurns \in Nat /\ MayStop \in BOOLEAN

Freezer == {"user", "machine"}
Ending  == {"none", "grace", "limit", "ceiling"}

VARIABLES
  at,        \* where each Run's goroutine is
  proc,      \* its Agent, as the system has it
  term,      \* whether a SIGTERM has been sent to it
  paused, by, armed, why,   \* the live record: l.paused, l.by, a window that
                            \* is running, l.endedWhy
  froze,     \* how often it was frozen
  calls,     \* windows that have fired and wait for the lock, each with the
             \* freeze it was armed by
  owed,      \* the signal endWith has still to send, its lock let go
  killer,    \* whether the timer of endWith's SIGKILL is running
  outcome,   \* what execute makes of it
  ours,      \* s.ours
  asks,      \* how much of MaxAsks is used
  idle, turns,          \* the machine, and how often it changed hands
  look, reading, was,   \* the watcher: its step, what it read now and before
  attempt,              \* whether its begin goroutine is asking for starts
  life       \* the daemon, from serving to closed

liveVars  == <<paused, by, armed, why, froze>>
runVars   == <<at, proc, term, outcome>>
endVars   == <<calls, owed, killer>>
watchVars == <<idle, turns, look, reading, was, attempt>>
vars == <<liveVars, runVars, endVars, ours, asks, watchVars, life>>

TypeOK ==
  /\ at \in [Run -> {"unborn", "starting", "spawned", "live", "read", "over"}]
  /\ proc \in [Run -> {"none", "running", "stopped", "gone"}]
  /\ term \in [Run -> BOOLEAN]
  /\ paused \in [Run -> BOOLEAN] /\ armed \in [Run -> BOOLEAN]
  /\ by \in [Run -> Freezer] /\ why \in [Run -> Ending]
  /\ froze \in [Run -> Nat]
  /\ calls \subseteq Run \X Nat
  /\ owed \in [Run -> {"nothing", "cont", "term"}]
  /\ killer \in [Run -> BOOLEAN]
  /\ outcome \in [Run -> {"open", "itsOwn", "failed", "interrupted"}]
  /\ ours \subseteq Run /\ asks \in 0..MaxAsks
  /\ idle \in BOOLEAN /\ turns \in 0..MaxTurns
  /\ look \in {"looking", "acting", "mine", "freezing", "begin", "done"}
  /\ reading \in BOOLEAN /\ was \in {"unread", "idle", "inUse"}
  /\ attempt \in BOOLEAN
  /\ life \in {"up", "stopping", "cancelled", "released", "closed"}

Init ==
  /\ at = [r \in Run |-> "unborn"] /\ proc = [r \in Run |-> "none"]
  /\ term = [r \in Run |-> FALSE] /\ outcome = [r \in Run |-> "open"]
  /\ paused = [r \in Run |-> FALSE] /\ armed = [r \in Run |-> FALSE]
  /\ by = [r \in Run |-> "machine"] /\ why = [r \in Run |-> "none"]
  /\ froze = [r \in Run |-> 0]
  /\ calls = {} /\ owed = [r \in Run |-> "nothing"] /\ killer = [r \in Run |-> FALSE]
  /\ ours = {} /\ asks = 0
  /\ idle \in BOOLEAN /\ turns = 0
  /\ look = "looking" /\ reading = FALSE /\ was = "unread" /\ attempt = FALSE
  /\ life = "up"

\* The Runs in s.live, and those of them nothing is ending.
Live  == {r \in Run : at[r] \in {"live", "read"}}
Going == {r \in Live : why[r] = "none"}

\* s.ctx has not been cancelled.
Open == life \in {"up", "stopping"}

-----------------------------------------------------------------------------
(* Freezing and continuing, each under one hold of the lock. *)

\* Signals to an Agent that is not there: refused once it has been waited for,
\* and until then as the system likes.
Unreachable == {m \in SUBSET {r \in Going : proc[r] = "gone"} :
                  \A r \in Going : at[r] = "read" => r \in m}

\* Mutant of MayPause: a daemon that is stopping is not asked about.
PauseAnyTime == life # "closed"

\* Freezing an Agent that has been asked to stop would keep it from hearing.
MayPause == Open

\* A user who asks for a Run that is frozen already makes it theirs to continue.
TakesOver(f) == IF f = "user" THEN {r \in Going : paused[r]} ELSE {}

\* Every Run going is stopped and its window armed.
Pause(f) ==
  /\ MayPause
  /\ \E missed \in Unreachable :
       LET hit == {r \in Going : ~paused[r]} \ missed
       IN  /\ paused' = [r \in Run |-> r \in hit \/ paused[r]]
           /\ armed'  = [r \in Run |-> r \in hit \/ armed[r]]
           /\ froze'  = [r \in Run |-> IF r \in hit THEN froze[r] + 1 ELSE froze[r]]
           /\ by'     = [r \in Run |-> IF r \in hit \cup TakesOver(f) THEN f ELSE by[r]]
           /\ proc'   = [r \in Run |-> IF r \in hit /\ proc[r] = "running"
                                       THEN "stopped" ELSE proc[r]]
  /\ UNCHANGED <<why, at, term, outcome, endVars, ours>>

\* The records of hit let go of, and the Agents continued.
Release(hit) ==
  /\ paused' = [r \in Run |-> paused[r] /\ r \notin hit]
  /\ armed'  = [r \in Run |-> armed[r] /\ r \notin hit]
  /\ proc'   = [r \in Run |-> IF r \in hit /\ proc[r] = "stopped" THEN "running" ELSE proc[r]]

\* Mutant of MayContinue: the machine continues whatever is frozen.
AnybodyContinues(f, r) == TRUE

\* What the user froze is the user's to continue.
MayContinue(f, r) == f = "machine" => by[r] # "user"

\* Continued by the user, a Run is no longer the machine's to freeze.
Resume(f) ==
  LET hit == {r \in Going : paused[r] /\ MayContinue(f, r)} IN
  /\ Release(hit)
  /\ ours' = IF f = "user" THEN ours \ hit ELSE ours
  /\ UNCHANGED <<by, why, froze, at, term, outcome, endVars>>

serving == <<asks, watchVars, life>>

\* Named bound: MaxAsks.
Asked == life # "closed" /\ asks < MaxAsks /\ asks' = asks + 1

UserPauses  == Asked /\ Pause("user")  /\ UNCHANGED <<watchVars, life>>
UserResumes == Asked /\ Resume("user") /\ UNCHANGED <<watchVars, life>>

-----------------------------------------------------------------------------
(* Ending a Run on purpose: endWith and what it sets going. *)

\* Mutant of EndWith: a frozen Run is asked to stop and left stopped.
EndFrozen(r, reason) ==
  /\ why' = [why EXCEPT ![r] = reason]
  /\ owed' = [owed EXCEPT ![r] = "term"]
  /\ paused' = [paused EXCEPT ![r] = FALSE]
  /\ armed' = [armed EXCEPT ![r] = FALSE]

\* The first ending is the one that counts.  The signals come after the lock is
\* let go, and a frozen Agent is continued before it is asked to stop.
EndWith(r, reason) ==
  /\ why' = [why EXCEPT ![r] = reason]
  /\ owed' = [owed EXCEPT ![r] = IF paused[r] THEN "cont" ELSE "term"]
  /\ paused' = [paused EXCEPT ![r] = FALSE]
  /\ armed' = [armed EXCEPT ![r] = FALSE]

endFrame == <<runVars, by, froze, ours, serving>>

\* The grace window fires: its function is on its way to the lock, and stopping
\* the timer no longer stops it.
WindowFires(r) ==
  /\ armed[r]
  /\ armed' = [armed EXCEPT ![r] = FALSE]
  /\ calls' = calls \cup {<<r, froze[r]>>}
  /\ UNCHANGED <<runVars, paused, by, why, froze, owed, killer, ours, serving>>

\* Mutant of Outstayed: what the user froze is left alone.
OutstayedByMachine(r) == paused[r] /\ by[r] = "machine"

\* What expire asks, under the lock: whether the Run is frozen.
Outstayed(r) == paused[r]

Expire(r) ==
  /\ \E call \in calls : call[1] = r /\ calls' = calls \ {call}
  /\ IF r \in Going /\ Outstayed(r)
     THEN EndWith(r, "grace")
     ELSE UNCHANGED <<why, owed, paused, armed>>
  /\ UNCHANGED <<endFrame, killer>>

\* Either of the two limits: their timers run from the Agent's start and from its
\* last line, whatever has been done to it meanwhile.
LimitPassed(r) ==
  /\ r \in Going
  /\ EndWith(r, "limit")
  /\ UNCHANGED <<endFrame, calls, killer>>

\* A line it wrote takes its Account over the ceiling.
CeilingCrossed(r) ==
  /\ r \in Going /\ at[r] = "live"
  /\ EndWith(r, "ceiling")
  /\ UNCHANGED <<endFrame, calls, killer>>

SendCont(r) ==
  /\ owed[r] = "cont"
  /\ owed' = [owed EXCEPT ![r] = "term"]
  /\ proc' = IF proc[r] = "stopped" THEN [proc EXCEPT ![r] = "running"] ELSE proc
  /\ UNCHANGED <<at, term, outcome, liveVars, calls, killer, ours, serving>>

SendTerm(r) ==
  /\ owed[r] = "term"
  /\ owed' = [owed EXCEPT ![r] = "nothing"]
  /\ term' = [term EXCEPT ![r] = TRUE]
  /\ killer' = [killer EXCEPT ![r] = TRUE]
  /\ UNCHANGED <<at, proc, outcome, liveVars, calls, ours, serving>>

\* Mutant of Kill: an Agent that was asked to stop is trusted to.
KillNobody(r) ==
  /\ killer[r]
  /\ killer' = [killer EXCEPT ![r] = FALSE]
  /\ UNCHANGED <<runVars, liveVars, calls, owed, ours, serving>>

\* killAfterTerm later: an Agent that is still there is killed, stopped or not.
Kill(r) ==
  /\ killer[r]
  /\ killer' = [killer EXCEPT ![r] = FALSE]
  /\ proc' = IF r \in Live THEN [proc EXCEPT ![r] = "gone"] ELSE proc
  /\ UNCHANGED <<at, term, outcome, liveVars, calls, owed, ours, serving>>

-----------------------------------------------------------------------------
(* A Run's own goroutine: execute, from the start that counted it in. *)

quiet == <<liveVars, endVars>>

\* owl start, and the watcher's begin: what it starts is written down as its own
\* before the goroutine is.  How long the start took is in when this happens.
StartByHand(r) ==
  /\ life = "up" /\ at[r] = "unborn"
  /\ at' = [at EXCEPT ![r] = "starting"]
  /\ UNCHANGED <<proc, term, outcome, quiet, ours, serving>>

StartByMachine(r) ==
  /\ life = "up" /\ attempt /\ at[r] = "unborn"
  /\ at' = [at EXCEPT ![r] = "starting"]
  /\ ours' = ours \cup {r}
  /\ UNCHANGED <<proc, term, outcome, quiet, serving>>

\* Nothing is started under a context that is done.
Spawn(r) ==
  /\ at[r] = "starting" /\ Open
  /\ proc' = [proc EXCEPT ![r] = "running"]
  /\ at' = [at EXCEPT ![r] = "spawned"]
  /\ UNCHANGED <<term, outcome, quiet, ours, serving>>

\* Its log, its permissions or the start itself failed, or the stop came first.
NotSpawned(r) ==
  /\ at[r] = "starting"
  /\ at' = [at EXCEPT ![r] = "over"]
  /\ \E how \in {"failed"} \cup (IF Open THEN {} ELSE {"interrupted"}) :
       outcome' = [outcome EXCEPT ![r] = how]
  /\ ours' = ours \ {r}
  /\ UNCHANGED <<proc, term, quiet, serving>>

\* track: from here it can be frozen, continued and ended.
Track(r) ==
  /\ at[r] = "spawned"
  /\ at' = [at EXCEPT ![r] = "live"]
  /\ UNCHANGED <<proc, term, outcome, quiet, ours, serving>>

\* An Agent exits, of itself, because it was asked to, or killed by somebody
\* else.  It never has to: it may be deaf to SIGTERM.
AgentExits(r) ==
  /\ proc[r] \in {"running", "stopped"}
  /\ proc' = [proc EXCEPT ![r] = "gone"]
  /\ UNCHANGED <<at, term, outcome, quiet, ours, serving>>

\* Mutant of Verdict: what the system says of the process.
ProcessSays(r) == proc[r]

\* What the Agent's end comes to: why it is being ended, before why the daemon
\* is, before what the Agent itself says.
Verdict(r) ==
  IF why[r] = "limit" THEN "failed"
  ELSE IF why[r] # "none" \/ ~Open THEN "interrupted"
  ELSE "itsOwn"

\* The Agent has been waited for; the limits are stopped and the record dropped
\* a moment later.
ReadVerdict(r) ==
  /\ at[r] = "live" /\ proc[r] = "gone"
  /\ at' = [at EXCEPT ![r] = "read"]
  /\ outcome' = [outcome EXCEPT ![r] = Verdict(r)]
  /\ UNCHANGED <<proc, term, quiet, ours, serving>>

Forget(r) ==
  /\ at[r] = "read"
  /\ at' = [at EXCEPT ![r] = "over"]
  /\ paused' = [paused EXCEPT ![r] = FALSE] /\ by' = [by EXCEPT ![r] = "machine"]
  /\ armed' = [armed EXCEPT ![r] = FALSE]   /\ why' = [why EXCEPT ![r] = "none"]
  /\ froze' = [froze EXCEPT ![r] = 0]
  /\ ours' = ours \ {r}
  /\ UNCHANGED <<proc, term, outcome, endVars, serving>>

\* The executor's own stopping: asked, and killed killDelay later.
HostTerm(r) ==
  /\ ~Open /\ proc[r] \in {"running", "stopped"} /\ ~term[r]
  /\ term' = [term EXCEPT ![r] = TRUE]
  /\ UNCHANGED <<at, proc, outcome, quiet, ours, serving>>

\* Mutant of HostKill: it is asked, and no more.
HostTrusts(r) == FALSE

HostKill(r) ==
  /\ ~Open /\ proc[r] \in {"running", "stopped"} /\ term[r]
  /\ proc' = [proc EXCEPT ![r] = "gone"]
  /\ UNCHANGED <<at, term, outcome, quiet, ours, serving>>

-----------------------------------------------------------------------------
(* The watcher: Watch, act, freezeMine and begin. *)

runFrame == <<runVars, quiet, ours>>

\* Named bound: MaxTurns.
MachineTurns ==
  /\ turns < MaxTurns
  /\ idle' = ~idle
  /\ turns' = turns + 1
  /\ UNCHANGED <<runFrame, asks, look, reading, was, attempt, life>>

\* A look at the machine; one that cannot be read changes nothing.
Read ==
  /\ look = "looking"
  /\ reading' = idle
  /\ look' = "acting"
  /\ UNCHANGED <<runFrame, asks, idle, turns, was, attempt, life>>

\* A Pause that is refused has frozen nothing.
TryPause == \/ Pause("machine")
            \/ ~Open /\ UNCHANGED <<liveVars, runVars, endVars, ours>>

\* Freezing and continuing happen on the change.
Act ==
  /\ look = "acting"
  /\ IF was = "idle" /\ ~reading THEN TryPause
     ELSE IF was = "inUse" /\ reading THEN Resume("machine")
     ELSE UNCHANGED runFrame
  /\ look' = IF reading THEN "begin" ELSE "mine"
  /\ UNCHANGED <<asks, idle, turns, reading, was, attempt, life>>

\* Mutant of MineGoing: only what was frozen on the change.
NoneOfMine == FALSE

\* Whether a Run the watcher started is going all the same.
MineGoing == \E r \in Live : r \in ours /\ ~paused[r]

LookForMine ==
  /\ look = "mine"
  /\ look' = IF MineGoing THEN "freezing" ELSE "begin"
  /\ UNCHANGED <<runFrame, asks, idle, turns, reading, was, attempt, life>>

FreezeMine ==
  /\ look = "freezing"
  /\ TryPause
  /\ look' = "begin"
  /\ UNCHANGED <<asks, idle, turns, reading, was, attempt, life>>

\* The look ends: on an idle machine the queue is asked for something to start,
\* unless it still is being or what refused last is being waited out; what was
\* read is remembered.
Begin ==
  /\ look = "begin"
  /\ attempt' \in {attempt, attempt \/ reading}
  /\ was' = IF reading THEN "idle" ELSE "inUse"
  /\ reading' = FALSE
  /\ look' = IF life = "up" THEN "looking" ELSE "done"
  /\ UNCHANGED <<runFrame, asks, idle, turns, life>>

\* begin goes on starting for as long as something will, whatever the machine
\* does meanwhile, and then returns.
BeginReturns ==
  /\ attempt
  /\ attempt' = FALSE
  /\ UNCHANGED <<runFrame, asks, idle, turns, look, reading, was, life>>

-----------------------------------------------------------------------------
(* The daemon stops: the watcher first, then Close. *)

lifeFrame == <<asks, idle, turns, reading, was, attempt>>

Stop ==
  /\ MayStop /\ life = "up"
  /\ life' = "stopping"
  /\ look' = IF look = "looking" THEN "done" ELSE look
  /\ UNCHANGED <<runFrame, lifeFrame>>

CancelRuns ==
  /\ life = "stopping" /\ look = "done"
  /\ life' = "cancelled"
  /\ UNCHANGED <<runFrame, lifeFrame, look>>

ReleasePaused ==
  /\ life = "cancelled"
  /\ life' = "released"
  /\ Release({r \in Live : paused[r]})
  /\ UNCHANGED <<by, why, froze, at, term, outcome, endVars, ours, lifeFrame, look>>

Close ==
  /\ life = "released"
  /\ \A r \in Run : at[r] \in {"unborn", "over"}
  /\ life' = "closed"
  /\ UNCHANGED <<runFrame, lifeFrame, look>>

-----------------------------------------------------------------------------
Windows(r) == WindowFires(r) \/ Expire(r)

Signals(r) == SendCont(r) \/ SendTerm(r) \/ Kill(r)

Goroutine(r) == \/ Spawn(r) \/ NotSpawned(r)
                \/ Track(r) \/ ReadVerdict(r) \/ Forget(r)

Host(r) == HostTerm(r) \/ HostKill(r)

Watch == Read \/ Act \/ LookForMine \/ FreezeMine \/ Begin

Stopping == CancelRuns \/ ReleasePaused \/ Close

Next ==
  \/ UserPauses \/ UserResumes \/ MachineTurns
  \/ \E r \in Run : \/ StartByHand(r) \/ StartByMachine(r)
                    \/ Goroutine(r) \/ AgentExits(r) \/ Host(r)
                    \/ Windows(r) \/ Signals(r) \/ LimitPassed(r) \/ CeilingCrossed(r)
  \/ Watch \/ BeginReturns
  \/ Stop \/ Stopping

Spec == Init /\ [][Next]_vars

\* Timers fire and their functions get the lock, signals are sent, goroutines go
\* on, the executor's kill comes, and the watcher looks again.  Nobody has to start, freeze or end
\* anything, and no Agent has to exit by itself.
Fairness ==
  /\ \A r \in Run : /\ WF_vars(Windows(r)) /\ WF_vars(Signals(r))
                    /\ WF_vars(Goroutine(r)) /\ WF_vars(Host(r))
  /\ WF_vars(Watch)
  /\ WF_vars(Stopping)

FairSpec == Spec /\ Fairness

-----------------------------------------------------------------------------
(* What freezing promises. *)

\* What the user froze stays frozen, and the user's, until the user continues it
\* or the Run is over: no walking away from the machine, and no coming back to
\* it, undoes that (interrupt.go:134-150, 200-207).
UserPauseStands ==
  [][\A r \in Live : paused[r] /\ by[r] = "user" =>
       \/ paused'[r] /\ by'[r] = "user"
       \/ UserResumes \/ why'[r] # "none" \/ ~Open \/ at'[r] = "over"]_vars

\* A frozen Run has a window that will end it: armed, or fired and on its way to
\* the lock (interrupt.go:41-47, 160-163).
FrozenHasWindow ==
  \A r \in Live : paused[r] => armed[r] \/ <<r, froze[r]>> \in calls

\* What the record says is what the system does: a Run that is frozen does not
\* run, and an Agent that is stopped is frozen or about to be continued - a
\* record let go of is the last chance to continue it (interrupt.go:399-431).
RecordIsTrue ==
  /\ \A r \in Live : paused[r] => proc[r] # "running"
  /\ \A r \in Run : proc[r] = "stopped" => paused[r] \/ owed[r] = "cont"

\* A daemon that has asked its Agents to stop leaves none of them unable to hear
\* it, whoever pauses meanwhile (interrupt.go:119-123, 447-463).
HearsTheStop ==
  life = "released" => \A r \in Run : proc[r] = "stopped" => owed[r] = "cont"

\* A Run that is frozen, or is being ended, is in the end going again or over,
\* its record gone: whoever froze it, whoever comes back, and whatever its Agent
\* does about being asked to stop (interrupt.go:357-368, 422-427, ADR-0034).
FrozenMovesOn ==
  \A r \in Run : paused[r] \/ why[r] # "none" ~> ~paused[r] /\ why[r] = "none"

\* A daemon told to stop has its Runs stopped, frozen ones and deaf ones too.
StopEnds == life = "stopping" ~> life = "closed"

\* A machine whose user stays is given back: no Agent the daemon started by
\* itself runs on it for good, however late its start came through - unless
\* the user continues it (watch.go:85-92, 223-237).
GivenBack ==
  <>[](~idle /\ look # "done") => <>[](\A r \in ours : at[r] = "live" => proc[r] # "running")

\* Nothing freezing begins goes on for good: a freeze, a stop, or a start that came
\* through to a user who is back.
NothingStaysStuck == FrozenMovesOn /\ StopEnds /\ GivenBack

-----------------------------------------------------------------------------
(* What is said of it and does not hold. *)

\* A Run somebody started or continued by hand is frozen on the change only: when
\* somebody arrives at a machine the daemon had to itself (watch.go:52-55, 223-225).
ByHandLeftAlone ==
  [][\A r \in Run \ ours : paused'[r] /\ ~paused[r] /\ by'[r] = "machine" =>
       look = "acting"]_vars

\* A Run somebody froze is not blamed for not speaking or not finishing: that is
\* something that happened to it (ADR-0036, 0036-per-run-limits.md:75-77).
FrozenIsNotBlamed ==
  [][\A r \in Run : paused[r] => ~(why[r] = "none" /\ why'[r] = "limit")]_vars
=============================================================================
