--------------------------- MODULE FreezingProofs ---------------------------
(***************************************************************************)
(* What freezing promises at every moment, proved for every set of Runs,   *)
(* however many users ask and however often the machine changes hands.     *)
(*                                                                         *)
(* None of the three invariants is inductive by itself: that a frozen      *)
(* Agent is stopped needs that an ending has taken the record's freeze     *)
(* with it, and that a daemon which has let its Agents go leaves none      *)
(* stopped needs that nothing is frozen after it.  Sound says all of it,   *)
(* of one Run at a time, and the steps are proved against that.  That the  *)
(* user's freeze stands is about steps: each action either leaves the      *)
(* record alone, is the user's own, or takes the watcher's freezes only.   *)
(***************************************************************************)
EXTENDS Freezing, TLAPS

\* The strengthening, of one Run: what its Agent may be at each point of its
\* goroutine, what its record says, and what an ending still owes it.
Sound(r) ==
  /\ at[r] \in {"unborn", "starting"} => proc[r] = "none"
  /\ at[r] = "spawned" => proc[r] # "stopped"
  /\ at[r] \in {"read", "over"} => proc[r] \notin {"running", "stopped"}
  /\ paused[r] => at[r] \in {"live", "read"} /\ why[r] = "none"
  /\ paused[r] => armed[r] \/ <<r, froze[r]>> \in calls
  /\ paused[r] => proc[r] # "running"
  /\ proc[r] = "stopped" => paused[r] \/ owed[r] = "cont"
  /\ owed[r] = "cont" => why[r] # "none" \/ at[r] = "over"
  /\ life \in {"released", "closed"} => ~paused[r]

IInv == TypeOK /\ \A r \in Run : Sound(r)

\* The three invariants are parts of it (FrozenHasWindow, RecordIsTrue and
\* HearsTheStop, interrupt.go:91-178, 393-463).
LEMMA Implied ==
  ASSUME IInv PROVE FrozenHasWindow /\ RecordIsTrue /\ HearsTheStop
<1>1. FrozenHasWindow
  BY DEF IInv, Sound, FrozenHasWindow, Live
<1>2. RecordIsTrue
  BY DEF IInv, Sound, RecordIsTrue, Live
<1>3. HearsTheStop
  BY DEF IInv, Sound, HearsTheStop
<1> QED BY <1>1, <1>2, <1>3

\* Nothing has been started when the daemon comes up.
LEMMA InitSound == Init => IInv
<1> SUFFICES ASSUME Init PROVE IInv
  OBVIOUS
<1>1. TypeOK
  <2>1. idle \in BOOLEAN /\ reading \in BOOLEAN /\ attempt \in BOOLEAN
    BY Zenon DEF Init
  <2> QED BY <2>1, FreezingAssumption DEF Init, TypeOK, Freezer, Ending
<1>2. ASSUME NEW q \in Run PROVE Sound(q)
  BY <1>2 DEF Init, Sound
<1> QED BY <1>1, <1>2 DEF IInv

\* A pause freezes only what nothing is ending, arms its window, and is refused
\* once the daemon has asked its Agents to stop (Service.Pause).
LEMMA PauseSound ==
  ASSUME IInv, NEW f \in Freezer, Pause(f), life' = life
  PROVE  /\ \A r \in Run : Sound(r)'
         /\ paused' \in [Run -> BOOLEAN] /\ armed' \in [Run -> BOOLEAN]
         /\ by' \in [Run -> Freezer] /\ froze' \in [Run -> Nat]
         /\ proc' \in [Run -> {"none", "running", "stopped", "gone"}]
<1>1. PICK missed \in Unreachable :
        LET hit == {r \in Going : ~paused[r]} \ missed
        IN  /\ paused' = [r \in Run |-> r \in hit \/ paused[r]]
            /\ armed'  = [r \in Run |-> r \in hit \/ armed[r]]
            /\ froze'  = [r \in Run |-> IF r \in hit THEN froze[r] + 1 ELSE froze[r]]
            /\ proc'   = [r \in Run |-> IF r \in hit /\ proc[r] = "running"
                                        THEN "stopped" ELSE proc[r]]
  BY DEF Pause
<1> DEFINE hit == {r \in Going : ~paused[r]} \ missed
<1>2. ASSUME NEW r \in Run PROVE Sound(r)'
  <2>1. UNCHANGED <<why, at, calls, owed, life>>
    BY DEF Pause, endVars
  <2>2. CASE r \in hit
    <3>1. paused'[r] /\ armed'[r] /\ proc'[r] # "running"
      BY <1>1, <1>2, <2>2
    <3>2. at[r] \in {"live", "read"} /\ why[r] = "none"
      BY <2>2 DEF Going, Live
    <3>3. life \notin {"released", "closed"}
      BY DEF Pause, MayPause, Open
    <3>4. proc'[r] = IF proc[r] = "running" THEN "stopped" ELSE proc[r]
      BY <1>1, <1>2, <2>2
    <3> QED BY <1>2, <2>1, <3>1, <3>2, <3>3, <3>4 DEF IInv, Sound
  <2>3. CASE r \notin hit
    <3>1. /\ paused'[r] = paused[r] /\ armed'[r] = armed[r]
          /\ froze'[r] = froze[r] /\ proc'[r] = proc[r]
      BY <1>1, <1>2, <2>3 DEF IInv, TypeOK
    <3> QED BY <1>2, <2>1, <3>1 DEF IInv, Sound
  <2> QED BY <2>2, <2>3
<1>3. /\ paused' \in [Run -> BOOLEAN] /\ armed' \in [Run -> BOOLEAN]
      /\ by' \in [Run -> Freezer] /\ froze' \in [Run -> Nat]
      /\ proc' \in [Run -> {"none", "running", "stopped", "gone"}]
  BY DEF IInv, TypeOK, Pause
<1> QED BY <1>2, <1>3

\* Continuing lets go of the record and the Agent at once (Service.Resume).
LEMMA ResumeSound ==
  ASSUME IInv, NEW f \in Freezer, Resume(f), life' = life
  PROVE  /\ \A r \in Run : Sound(r)'
         /\ paused' \in [Run -> BOOLEAN] /\ armed' \in [Run -> BOOLEAN]
         /\ proc' \in [Run -> {"none", "running", "stopped", "gone"}]
         /\ ours' \subseteq Run
<1>1. ASSUME NEW r \in Run PROVE Sound(r)'
  BY <1>1 DEF IInv, TypeOK, Sound, Resume, Release, Going, Live, endVars
<1>2. /\ paused' \in [Run -> BOOLEAN] /\ armed' \in [Run -> BOOLEAN]
      /\ proc' \in [Run -> {"none", "running", "stopped", "gone"}]
      /\ ours' \subseteq Run
  BY DEF IInv, TypeOK, Resume, Release
<1> QED BY <1>1, <1>2

\* An ending takes the record's freeze with it and, when there was one, owes the
\* Agent the signal that continues it (Service.endWith).
LEMMA EndSound ==
  ASSUME IInv, NEW r \in Going, NEW reason \in Ending \ {"none"}, EndWith(r, reason),
         UNCHANGED <<at, proc, froze, life>>,
         \A q \in Run \ {r} : <<q, froze[q]>> \in calls => <<q, froze[q]>> \in calls'
  PROVE  /\ \A q \in Run : Sound(q)'
         /\ paused' \in [Run -> BOOLEAN] /\ armed' \in [Run -> BOOLEAN]
         /\ why' \in [Run -> Ending] /\ owed' \in [Run -> {"nothing", "cont", "term"}]
<1>1. ASSUME NEW q \in Run PROVE Sound(q)'
  <2>1. CASE q = r
    BY <1>1, <2>1 DEF IInv, TypeOK, Sound, EndWith, Going, Live, Ending
  <2>2. CASE q # r
    BY <1>1, <2>2 DEF IInv, TypeOK, Sound, EndWith, Going, Live
  <2> QED BY <2>1, <2>2
<1>2. /\ paused' \in [Run -> BOOLEAN] /\ armed' \in [Run -> BOOLEAN]
      /\ why' \in [Run -> Ending] /\ owed' \in [Run -> {"nothing", "cont", "term"}]
  BY DEF IInv, TypeOK, EndWith, Going, Live
<1> QED BY <1>1, <1>2

\* A window that fires leaves its call behind in the same step.
LEMMA WindowSound ==
  ASSUME IInv, NEW r \in Run, WindowFires(r) PROVE IInv'
<1>1. ASSUME NEW q \in Run PROVE Sound(q)'
  BY <1>1 DEF IInv, TypeOK, Sound, WindowFires, runVars, serving, watchVars
<1>2. TypeOK'
  BY DEF IInv, TypeOK, WindowFires, runVars, serving, watchVars
<1> QED BY <1>1, <1>2 DEF IInv

\* The signal an ending owes is sent while the record is already let go of.
LEMMA ContSound ==
  ASSUME IInv, NEW r \in Run, SendCont(r) PROVE IInv'
<1>1. ASSUME NEW q \in Run PROVE Sound(q)'
  BY <1>1 DEF IInv, TypeOK, Sound, SendCont, liveVars, serving, watchVars
<1>2. TypeOK'
  BY DEF IInv, TypeOK, SendCont, liveVars, serving, watchVars
<1> QED BY <1>1, <1>2 DEF IInv

\* Being asked to stop does not change what the Agent is.
LEMMA TermSound ==
  ASSUME IInv, NEW r \in Run, SendTerm(r) PROVE IInv'
<1>1. ASSUME NEW q \in Run PROVE Sound(q)'
  BY <1>1 DEF IInv, TypeOK, Sound, SendTerm, liveVars, serving, watchVars
<1>2. TypeOK'
  BY DEF IInv, TypeOK, SendTerm, liveVars, serving, watchVars
<1> QED BY <1>1, <1>2 DEF IInv

\* A kill only ever takes the Agent away.
LEMMA KillSound ==
  ASSUME IInv, NEW r \in Run, Kill(r) PROVE IInv'
<1>1. ASSUME NEW q \in Run PROVE Sound(q)'
  BY <1>1 DEF IInv, TypeOK, Sound, Kill, liveVars, serving, watchVars, Live
<1>2. TypeOK'
  BY DEF IInv, TypeOK, Kill, liveVars, serving, watchVars, Live
<1> QED BY <1>1, <1>2 DEF IInv

\* A start by hand puts a Run's goroutine at its beginning.
LEMMA ByHandSound ==
  ASSUME IInv, NEW r \in Run, StartByHand(r) PROVE IInv'
<1>1. ASSUME NEW q \in Run PROVE Sound(q)'
  BY <1>1 DEF IInv, TypeOK, Sound, StartByHand, quiet, serving, liveVars, endVars, watchVars
<1>2. TypeOK'
  BY DEF IInv, TypeOK, StartByHand, quiet, serving, liveVars, endVars, watchVars
<1> QED BY <1>1, <1>2 DEF IInv

\* A start of the watcher's does the same, and takes note of it.
LEMMA ByMachineSound ==
  ASSUME IInv, NEW r \in Run, StartByMachine(r) PROVE IInv'
<1>1. ASSUME NEW q \in Run PROVE Sound(q)'
  BY <1>1 DEF IInv, TypeOK, Sound, StartByMachine, quiet, serving, liveVars, endVars, watchVars
<1>2. TypeOK'
  BY DEF IInv, TypeOK, StartByMachine, quiet, serving, liveVars, endVars, watchVars
<1> QED BY <1>1, <1>2 DEF IInv

\* An Agent that is spawned runs, and has no record yet.
LEMMA SpawnSound ==
  ASSUME IInv, NEW r \in Run, Spawn(r) PROVE IInv'
<1>1. ASSUME NEW q \in Run PROVE Sound(q)'
  BY <1>1 DEF IInv, TypeOK, Sound, Spawn, quiet, serving, liveVars, endVars, watchVars, Open
<1>2. TypeOK'
  BY DEF IInv, TypeOK, Spawn, quiet, serving, liveVars, endVars, watchVars, Open
<1> QED BY <1>1, <1>2 DEF IInv

\* One that is not spawned has none, and is over.
LEMMA NotSpawnedSound ==
  ASSUME IInv, NEW r \in Run, NotSpawned(r) PROVE IInv'
<1>1. ASSUME NEW q \in Run PROVE Sound(q)'
  BY <1>1 DEF IInv, TypeOK, Sound, NotSpawned, quiet, serving, liveVars, endVars, watchVars
<1>2. TypeOK'
  BY DEF IInv, TypeOK, NotSpawned, quiet, serving, liveVars, endVars, watchVars
<1> QED BY <1>1, <1>2 DEF IInv

\* A Run that is tracked is not frozen yet.
LEMMA TrackSound ==
  ASSUME IInv, NEW r \in Run, Track(r) PROVE IInv'
<1>1. ASSUME NEW q \in Run PROVE Sound(q)'
  BY <1>1 DEF IInv, TypeOK, Sound, Track, quiet, serving, liveVars, endVars, watchVars
<1>2. TypeOK'
  BY DEF IInv, TypeOK, Track, quiet, serving, liveVars, endVars, watchVars
<1> QED BY <1>1, <1>2 DEF IInv

\* An Agent may go at any moment.
LEMMA ExitsSound ==
  ASSUME IInv, NEW r \in Run, AgentExits(r) PROVE IInv'
<1>1. ASSUME NEW q \in Run PROVE Sound(q)'
  BY <1>1 DEF IInv, TypeOK, Sound, AgentExits, quiet, serving, liveVars, endVars, watchVars
<1>2. TypeOK'
  BY DEF IInv, TypeOK, AgentExits, quiet, serving, liveVars, endVars, watchVars
<1> QED BY <1>1, <1>2 DEF IInv

\* Its end is read once it is gone.
LEMMA VerdictSound ==
  ASSUME IInv, NEW r \in Run, ReadVerdict(r) PROVE IInv'
<1>1. ASSUME NEW q \in Run PROVE Sound(q)'
  BY <1>1 DEF IInv, TypeOK, Sound, ReadVerdict, quiet, serving, liveVars, endVars, watchVars, Verdict
<1>2. TypeOK'
  BY DEF IInv, TypeOK, ReadVerdict, quiet, serving, liveVars, endVars, watchVars, Verdict
<1> QED BY <1>1, <1>2 DEF IInv

\* With its record goes everything said of the Run.
LEMMA ForgetSound ==
  ASSUME IInv, NEW r \in Run, Forget(r) PROVE IInv'
<1>1. ASSUME NEW q \in Run PROVE Sound(q)'
  BY <1>1 DEF IInv, TypeOK, Sound, Forget, endVars, serving, watchVars, Freezer, Ending
<1>2. TypeOK'
  BY DEF IInv, TypeOK, Forget, endVars, serving, watchVars, Freezer, Ending
<1> QED BY <1>1, <1>2 DEF IInv

\* The executor asks the Agent to stop as well.
LEMMA HostTermSound ==
  ASSUME IInv, NEW r \in Run, HostTerm(r) PROVE IInv'
<1>1. ASSUME NEW q \in Run PROVE Sound(q)'
  BY <1>1 DEF IInv, TypeOK, Sound, HostTerm, quiet, serving, liveVars, endVars, watchVars
<1>2. TypeOK'
  BY DEF IInv, TypeOK, HostTerm, quiet, serving, liveVars, endVars, watchVars
<1> QED BY <1>1, <1>2 DEF IInv

\* And kills it.
LEMMA HostKillSound ==
  ASSUME IInv, NEW r \in Run, HostKill(r) PROVE IInv'
<1>1. ASSUME NEW q \in Run PROVE Sound(q)'
  BY <1>1 DEF IInv, TypeOK, Sound, HostKill, quiet, serving, liveVars, endVars, watchVars
<1>2. TypeOK'
  BY DEF IInv, TypeOK, HostKill, quiet, serving, liveVars, endVars, watchVars
<1> QED BY <1>1, <1>2 DEF IInv

\* The window's call ends the Run if it is frozen still, and is used up.
LEMMA ExpireSound ==
  ASSUME IInv, NEW r \in Run, Expire(r) PROVE IInv'
<1>1. PICK call \in calls : call[1] = r /\ calls' = calls \ {call}
  BY DEF Expire
<1>2. \A q \in Run \ {r} : <<q, froze[q]>> \in calls => <<q, froze[q]>> \in calls'
  BY <1>1
<1>3. /\ UNCHANGED <<runVars, by, froze, killer, ours, serving>>
      /\ calls' \subseteq Run \X Nat
  BY <1>1 DEF Expire, endFrame, IInv, TypeOK
<1>4. CASE r \in Going /\ Outstayed(r)
  <2>1. EndWith(r, "grace")
    BY <1>4 DEF Expire
  <2>2. /\ \A q \in Run : Sound(q)'
        /\ paused' \in [Run -> BOOLEAN] /\ armed' \in [Run -> BOOLEAN]
        /\ why' \in [Run -> Ending] /\ owed' \in [Run -> {"nothing", "cont", "term"}]
    BY <1>2, <1>3, <1>4, <2>1, EndSound DEF runVars, serving, Ending
  <2> QED BY <1>3, <2>2 DEF IInv, TypeOK, runVars, serving, watchVars
<1>5. CASE ~(r \in Going /\ Outstayed(r))
  <2>1. UNCHANGED <<why, owed, paused, armed>>
    BY <1>5 DEF Expire
  <2>2. ~paused[r]
    BY <1>5 DEF IInv, Sound, Going, Live, Outstayed
  <2>3. ASSUME NEW q \in Run PROVE Sound(q)'
    BY <1>2, <1>3, <2>1, <2>2, <2>3 DEF IInv, Sound, runVars, serving
  <2> QED BY <1>3, <2>1, <2>3 DEF IInv, TypeOK, runVars, serving, watchVars
<1> QED BY <1>4, <1>5

\* A limit and the ceiling end it whatever its record says.
LEMMA LimitSound ==
  ASSUME IInv, NEW r \in Run, LimitPassed(r) \/ CeilingCrossed(r) PROVE IInv'
<1>1. PICK reason \in Ending \ {"none"} : r \in Going /\ EndWith(r, reason)
  BY DEF LimitPassed, CeilingCrossed, Ending
<1>2. UNCHANGED <<runVars, by, froze, calls, killer, ours, serving>>
  BY DEF LimitPassed, CeilingCrossed, endFrame
<1>3. /\ \A q \in Run : Sound(q)'
      /\ paused' \in [Run -> BOOLEAN] /\ armed' \in [Run -> BOOLEAN]
      /\ why' \in [Run -> Ending] /\ owed' \in [Run -> {"nothing", "cont", "term"}]
  BY <1>1, <1>2, EndSound DEF runVars, serving
<1> QED BY <1>2, <1>3 DEF IInv, TypeOK, runVars, serving, watchVars

\* What leaves the Runs alone keeps what is true of them, as long as it does not
\* let go of Agents it has not continued.
LEMMA FrameSound ==
  ASSUME IInv, UNCHANGED runFrame,
         life' \in {"released", "closed"} => life \in {"released", "closed"}
  PROVE  \A r \in Run : Sound(r)'
<1>1. ASSUME NEW r \in Run PROVE Sound(r)'
  BY <1>1 DEF IInv, Sound, runFrame, runVars, quiet, liveVars, endVars
<1> QED BY <1>1

\* The records' own types, which every step of the watcher's leaves alone unless
\* it freezes or continues.
RecordsTyped ==
  /\ at \in [Run -> {"unborn", "starting", "spawned", "live", "read", "over"}]
  /\ proc \in [Run -> {"none", "running", "stopped", "gone"}]
  /\ term \in [Run -> BOOLEAN]
  /\ paused \in [Run -> BOOLEAN] /\ armed \in [Run -> BOOLEAN]
  /\ by \in [Run -> Freezer] /\ why \in [Run -> Ending]
  /\ froze \in [Run -> Nat]
  /\ calls \subseteq Run \X Nat
  /\ owed \in [Run -> {"nothing", "cont", "term"}]
  /\ killer \in [Run -> BOOLEAN]
  /\ outcome \in [Run -> {"open", "itsOwn", "failed", "interrupted"}]
  /\ ours \subseteq Run

\* They stay what they are when nothing happens to the Runs.
LEMMA FrameTyped ==
  ASSUME IInv, UNCHANGED runFrame PROVE RecordsTyped'
BY DEF IInv, TypeOK, RecordsTyped, runFrame, runVars, quiet, liveVars, endVars

\* A freeze, refused or not, and a thaw keep both.
LEMMA FreezeSound ==
  ASSUME IInv, life' = life, \/ UNCHANGED runFrame
                             \/ \E f \in Freezer : Pause(f) \/ Resume(f)
  PROVE  RecordsTyped' /\ \A r \in Run : Sound(r)'
<1>1. CASE UNCHANGED runFrame
  BY <1>1, FrameSound, FrameTyped
<1>2. ASSUME NEW f \in Freezer, Pause(f)
      PROVE  RecordsTyped' /\ \A r \in Run : Sound(r)'
  <2>1. UNCHANGED <<why, at, term, outcome, calls, owed, killer, ours>>
    BY <1>2 DEF Pause, endVars
  <2> QED BY <1>2, <2>1, PauseSound DEF IInv, TypeOK, RecordsTyped
<1>3. ASSUME NEW f \in Freezer, Resume(f)
      PROVE  RecordsTyped' /\ \A r \in Run : Sound(r)'
  <2>1. UNCHANGED <<by, why, froze, at, term, outcome, calls, owed, killer>>
    BY <1>3 DEF Resume, endVars
  <2> QED BY <1>3, <2>1, ResumeSound DEF IInv, TypeOK, RecordsTyped
<1> QED BY <1>1, <1>2, <1>3

\* Whatever the user asks keeps the invariant (Pause and Resume by ByUser).
LEMMA AskedSound ==
  ASSUME IInv, UserPauses \/ UserResumes PROVE IInv'
<1>1. /\ life' = life
      /\ \E f \in Freezer : Pause(f) \/ Resume(f)
  BY DEF UserPauses, UserResumes, Freezer
<1>2. RecordsTyped' /\ \A r \in Run : Sound(r)'
  BY <1>1, FreezeSound
<1>3. asks' \in 0..MaxAsks /\ UNCHANGED watchVars
  BY FreezingAssumption DEF UserPauses, UserResumes, Asked, IInv, TypeOK
<1> QED BY <1>1, <1>2, <1>3 DEF IInv, TypeOK, RecordsTyped, watchVars

\* The watcher freezes and continues, or leaves every Run as it is (Watch, act,
\* freezeMine, begin).
LEMMA WatchSound ==
  ASSUME IInv, Watch \/ BeginReturns \/ MachineTurns PROVE IInv'
<1>1. UNCHANGED <<asks, life>>
  BY DEF Watch, Read, Act, LookForMine, FreezeMine, Begin, BeginReturns, MachineTurns
<1>2. CASE Act \/ FreezeMine
  <2>1. \/ UNCHANGED runFrame
        \/ \E f \in Freezer : Pause(f) \/ Resume(f)
    BY <1>2 DEF Act, FreezeMine, TryPause, Freezer, runFrame, quiet
  <2>2. RecordsTyped' /\ \A r \in Run : Sound(r)'
    BY <1>1, <2>1, FreezeSound
  <2>3. UNCHANGED <<idle, turns, reading, was, attempt>> /\ look' \in {"begin", "mine"}
    BY <1>2 DEF Act, FreezeMine
  <2> QED BY <1>1, <2>2, <2>3 DEF IInv, TypeOK, RecordsTyped
<1>3. CASE Read \/ LookForMine \/ Begin \/ BeginReturns \/ MachineTurns
  <2>1. UNCHANGED runFrame
    BY <1>3 DEF Read, LookForMine, Begin, BeginReturns, MachineTurns
  <2>2. RecordsTyped' /\ \A r \in Run : Sound(r)'
    BY <1>1, <2>1, FrameSound, FrameTyped
  <2>3. /\ idle' \in BOOLEAN /\ reading' \in BOOLEAN /\ attempt' \in BOOLEAN
    BY <1>3, Zenon DEF Read, LookForMine, Begin, BeginReturns, MachineTurns, IInv, TypeOK
  <2>4. /\ turns' \in 0..MaxTurns
        /\ look' \in {"looking", "acting", "mine", "freezing", "begin", "done"}
        /\ was' \in {"unread", "idle", "inUse"}
    BY <1>3, FreezingAssumption
       DEF Read, LookForMine, Begin, BeginReturns, MachineTurns, IInv, TypeOK
  <2> QED BY <1>1, <2>2, <2>3, <2>4 DEF IInv, TypeOK, RecordsTyped
<1> QED BY <1>2, <1>3 DEF Watch

\* A daemon told to stop lets go of what it froze before it counts as having let
\* go (releasePaused), and freezes nothing after.
LEMMA StoppingSound ==
  ASSUME IInv, Stop \/ Stopping PROVE IInv'
<1>1. UNCHANGED <<asks, idle, turns, reading, was, attempt>>
  BY DEF Stop, Stopping, CancelRuns, ReleasePaused, Close, lifeFrame
<1>2. /\ life' \in {"up", "stopping", "cancelled", "released", "closed"}
      /\ look' \in {"looking", "acting", "mine", "freezing", "begin", "done"}
  BY DEF Stop, Stopping, CancelRuns, ReleasePaused, Close, IInv, TypeOK
<1>3. CASE Stop \/ CancelRuns \/ Close
  <2>1. /\ UNCHANGED runFrame
        /\ life' \in {"released", "closed"} => life \in {"released", "closed"}
    BY <1>3 DEF Stop, CancelRuns, Close
  <2> QED BY <1>1, <1>2, <2>1, FrameSound, FrameTyped DEF IInv, TypeOK, RecordsTyped
<1>4. CASE ReleasePaused
  <2>1. UNCHANGED <<by, why, froze, at, term, outcome, calls, owed, killer, ours>>
    BY <1>4 DEF ReleasePaused, endVars
  <2>2. ASSUME NEW r \in Run PROVE Sound(r)'
    <3>1. ~paused'[r]
      BY <1>4, <2>2 DEF ReleasePaused, Release, IInv, Sound, Live
    <3>2. proc'[r] = IF paused[r] /\ proc[r] = "stopped" THEN "running" ELSE proc[r]
      BY <1>4, <2>2 DEF ReleasePaused, Release, IInv, Sound, Live
    <3> QED BY <2>1, <2>2, <3>1, <3>2 DEF IInv, Sound
  <2>3. /\ paused' \in [Run -> BOOLEAN] /\ armed' \in [Run -> BOOLEAN]
        /\ proc' \in [Run -> {"none", "running", "stopped", "gone"}]
    BY <1>4 DEF ReleasePaused, Release, IInv, TypeOK
  <2> QED BY <1>1, <1>2, <2>1, <2>2, <2>3 DEF IInv, TypeOK
<1> QED BY <1>3, <1>4 DEF Stopping

\* Every step keeps the invariant.
LEMMA StepSound == IInv /\ [Next]_vars => IInv'
<1> SUFFICES ASSUME IInv, [Next]_vars PROVE IInv'
  OBVIOUS
<1>1. CASE UNCHANGED vars
  BY <1>1 DEF IInv, TypeOK, Sound, vars, liveVars, runVars, endVars, watchVars
<1>2. CASE UserPauses \/ UserResumes
  BY <1>2, AskedSound
<1>3. CASE Watch \/ BeginReturns \/ MachineTurns
  BY <1>3, WatchSound
<1>4. CASE Stop \/ Stopping
  BY <1>4, StoppingSound
<1>5. ASSUME NEW r \in Run,
             \/ StartByHand(r) \/ StartByMachine(r) \/ Goroutine(r) \/ AgentExits(r)
             \/ Host(r) \/ Windows(r) \/ Signals(r) \/ LimitPassed(r) \/ CeilingCrossed(r)
      PROVE  IInv'
  <2>1. CASE StartByHand(r) \/ StartByMachine(r)
    BY <2>1, ByHandSound, ByMachineSound
  <2>2. CASE Goroutine(r)
    BY <2>2, SpawnSound, NotSpawnedSound, TrackSound, VerdictSound, ForgetSound DEF Goroutine
  <2>3. CASE AgentExits(r) \/ Host(r)
    BY <2>3, ExitsSound, HostTermSound, HostKillSound DEF Host
  <2>4. CASE Windows(r)
    BY <2>4, WindowSound, ExpireSound DEF Windows
  <2>5. CASE Signals(r)
    BY <2>5, ContSound, TermSound, KillSound DEF Signals
  <2>6. CASE LimitPassed(r) \/ CeilingCrossed(r)
    BY <2>6, LimitSound
  <2> QED BY <1>5, <2>1, <2>2, <2>3, <2>4, <2>5, <2>6
<1> QED BY <1>1, <1>2, <1>3, <1>4, <1>5 DEF Next

\* The strengthening holds at every moment, whatever the constants.
THEOREM Soundness == Spec => []IInv
BY InitSound, StepSound, PTL DEF Spec

\* The records, the Agents and the watcher always hold what they may.
THEOREM FreezingTyped == Spec => []TypeOK
<1>1. IInv => TypeOK
  BY DEF IInv
<1> QED BY <1>1, Soundness, PTL

\* No Run stays frozen for want of a timer: whatever is asked and whoever is at
\* the machine, a frozen Run has a window armed or one that has fired and is
\* about to be heard (Service.Pause, expire).
THEOREM FrozenIsBounded == Spec => []FrozenHasWindow
<1>1. IInv => FrozenHasWindow
  BY Implied
<1> QED BY <1>1, Soundness, PTL

\* A record never says frozen of an Agent that runs, and never forgets one that
\* is stopped before the signal that continues it is on its way (live.release,
\* endWith).
THEOREM RecordsAreTrue == Spec => []RecordIsTrue
<1>1. IInv => RecordIsTrue
  BY Implied
<1> QED BY <1>1, Soundness, PTL

\* Once a stopping daemon has let go of its Agents none of them is left unable
\* to hear that it is to stop (Pause, releasePaused, Close).
THEOREM StopIsHeard == Spec => []HearsTheStop
<1>1. IInv => HearsTheStop
  BY Implied
<1> QED BY <1>1, Soundness, PTL

-----------------------------------------------------------------------------
(* What may be done to a freeze that is the user's. *)

\* UserPauseStands, of one Run: it stays frozen and the user's, or there is one
\* of the four reasons for it not to.
Stands(r) ==
  \/ paused'[r] /\ by'[r] = "user"
  \/ UserResumes \/ why'[r] # "none" \/ ~Open \/ at'[r] = "over"

\* A freeze passes over what is frozen already, but for the user's making it
\* theirs; the machine's thaw passes over what is the user's (Pause, Resume).
LEMMA TheirsIsPassedOver ==
  ASSUME IInv, NEW r \in Live, paused[r], by[r] = "user",
         \/ UNCHANGED <<paused, by>>
         \/ \E f \in Freezer : Pause(f)
         \/ Resume("machine")
  PROVE  paused'[r] /\ by'[r] = "user"
<1>1. CASE UNCHANGED <<paused, by>>
  BY <1>1
<1>2. ASSUME NEW f \in Freezer, Pause(f) PROVE paused'[r] /\ by'[r] = "user"
  <2>1. PICK missed \in Unreachable :
          LET hit == {q \in Going : ~paused[q]} \ missed
          IN  /\ paused' = [q \in Run |-> q \in hit \/ paused[q]]
              /\ by'     = [q \in Run |-> IF q \in hit \cup TakesOver(f) THEN f ELSE by[q]]
    BY <1>2 DEF Pause
  <2>2. r \in Run /\ r \notin {q \in Going : ~paused[q]}
    BY DEF Live
  <2>3. r \in TakesOver(f) => f = "user"
    BY DEF TakesOver
  <2> QED BY <2>1, <2>2, <2>3
<1>3. CASE Resume("machine")
  BY <1>3 DEF Resume, Release, MayContinue, Live
<1> QED BY <1>1, <1>2, <1>3

\* The watcher only ever freezes and continues in the machine's name (act,
\* freezeMine), and what is left of a user's asking is a freeze.
LEMMA WatcherPassesOver ==
  ASSUME IInv, NEW r \in Live, paused[r], by[r] = "user",
         UserPauses \/ Watch \/ BeginReturns \/ MachineTurns
  PROVE  Stands(r)
<1>1. \/ UNCHANGED <<paused, by>>
      \/ \E f \in Freezer : Pause(f)
      \/ Resume("machine")
  BY DEF UserPauses, Watch, Read, Act, LookForMine, FreezeMine, TryPause, Begin,
         BeginReturns, MachineTurns, runFrame, quiet, liveVars, Freezer
<1> QED BY <1>1, TheirsIsPassedOver DEF Stands

\* A Run is ended with a reason, and loses its record only when it is over
\* (endWith, track).
LEMMA OnlyItsEnd ==
  ASSUME IInv, NEW r \in Live, paused[r], by[r] = "user", NEW q \in Run,
         \/ StartByHand(q) \/ StartByMachine(q) \/ Goroutine(q) \/ AgentExits(q)
         \/ Host(q) \/ Windows(q) \/ Signals(q) \/ LimitPassed(q) \/ CeilingCrossed(q)
  PROVE  Stands(r)
<1>1. r \in Run /\ why \in [Run -> Ending] /\ paused \in [Run -> BOOLEAN]
  BY DEF Live, IInv, TypeOK
<1>2. CASE \/ StartByHand(q) \/ StartByMachine(q) \/ AgentExits(q) \/ Host(q)
           \/ Signals(q) \/ WindowFires(q)
  BY <1>2 DEF StartByHand, StartByMachine, AgentExits, Host, HostTerm, HostKill, Signals,
              SendCont, SendTerm, Kill, WindowFires, quiet, liveVars, Stands
<1>3. CASE Goroutine(q)
  <2>1. CASE Forget(q)
    BY <1>1, <2>1 DEF Forget, IInv, TypeOK, Stands
  <2>2. CASE Spawn(q) \/ NotSpawned(q) \/ Track(q) \/ ReadVerdict(q)
    BY <2>2 DEF Spawn, NotSpawned, Track, ReadVerdict, quiet, liveVars, Stands
  <2> QED BY <1>3, <2>1, <2>2 DEF Goroutine
<1>4. CASE \E reason \in Ending \ {"none"} : EndWith(q, reason) /\ by' = by
  <2>1. PICK reason \in Ending \ {"none"} : EndWith(q, reason) /\ by' = by
    BY <1>4
  <2> QED BY <1>1, <2>1 DEF EndWith, Stands
<1>5. CASE Expire(q)
  BY <1>4, <1>5 DEF Expire, endFrame, Ending, Stands
<1>6. CASE LimitPassed(q) \/ CeilingCrossed(q)
  BY <1>4, <1>6 DEF LimitPassed, CeilingCrossed, endFrame, Ending
<1> QED BY <1>2, <1>3, <1>5, <1>6 DEF Windows

\* The daemon's stop lets go of it only when the Runs' context is done
\* (releasePaused after cancel).
LEMMA StopLetsGoLast ==
  ASSUME NEW r \in Live, paused[r], by[r] = "user", Stop \/ Stopping
  PROVE  Stands(r)
BY DEF Stop, Stopping, CancelRuns, ReleasePaused, Close, runFrame, quiet, liveVars, Open, Stands

\* What the user froze stays frozen, and the user's, for any number of Runs and
\* however often the machine changes hands, until the user continues it or it
\* is ended (interrupt.go:134-150, 200-207).
THEOREM UsersFreezeStands == Spec => UserPauseStands
<1>1. ASSUME IInv, [Next]_vars, NEW r \in Live, paused[r], by[r] = "user"
      PROVE  Stands(r)
  <2>1. CASE UNCHANGED vars
    BY <1>1, <2>1 DEF vars, liveVars, Stands
  <2>2. CASE UserResumes
    BY <2>2 DEF Stands
  <2>3. CASE UserPauses \/ Watch \/ BeginReturns \/ MachineTurns
    BY <1>1, <2>3, WatcherPassesOver
  <2>4. CASE Stop \/ Stopping
    BY <1>1, <2>4, StopLetsGoLast
  <2>5. ASSUME NEW q \in Run,
               \/ StartByHand(q) \/ StartByMachine(q) \/ Goroutine(q) \/ AgentExits(q)
               \/ Host(q) \/ Windows(q) \/ Signals(q) \/ LimitPassed(q) \/ CeilingCrossed(q)
        PROVE  Stands(r)
    BY <1>1, <2>5, OnlyItsEnd
  <2> QED BY <1>1, <2>1, <2>2, <2>3, <2>4, <2>5 DEF Next
<1>2. IInv /\ [Next]_vars =>
        [\A r \in Live : paused[r] /\ by[r] = "user" =>
           \/ paused'[r] /\ by'[r] = "user"
           \/ UserResumes \/ why'[r] # "none" \/ ~Open \/ at'[r] = "over"]_vars
  BY <1>1 DEF Stands
<1> QED BY <1>2, Soundness, PTL DEF Spec, UserPauseStands
=============================================================================
