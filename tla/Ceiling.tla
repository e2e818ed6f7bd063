------------------------------ MODULE Ceiling ------------------------------
(***************************************************************************)
(* What an Account is held to (internal/run/ceiling.go): Runs report what  *)
(* is spent of their Account's windows, a start that would work into a     *)
(* window that is spent waits, a Run that crosses is ended; and the        *)
(* watcher (watch.go) that asks for starts on an idle machine, less and    *)
(* less often while it is refused.  Nothing here asks a provider: what is  *)
(* known of an Account is what Runs on it said.                            *)
(*                                                                         *)
(* Time is what is left: each reading has the time until its window starts *)
(* again and the watcher the time until it asks again, and Tick takes one  *)
(* from all of them.  The other caps are RunService's.                     *)
(***************************************************************************)
EXTENDS Naturals, FiniteSets, FiniteSetsExt

CONSTANTS
  Account, Job,
  AccountOf,        \* the Account each Job is bound to
  Five, Weekly,     \* what a tool calls its short window, and its weekly ones
  Ceilings,         \* limits of each Account: [five, weekly], 0 for none
  Percent,          \* bound: how much of a window a tool reports as spent
  MaxAhead,         \* maxAhead
  MaxWindows,       \* maxWindows
  Every, MaxHold,   \* the watcher's interval, and maxHold
  MaxReports,       \* bound: how often Runs report
  MaxTurns          \* bound: how often the machine or the configuration changes

Window == Five \cup Weekly

ASSUME CeilingAssumption ==
  /\ AccountOf \in [Job -> Account]
  /\ Ceilings \in [Account -> [five : Nat, weekly : Nat]]
  /\ Five \cap Weekly = {} /\ Percent \in SUBSET (0..100)
  /\ {MaxAhead, MaxWindows, Every, MaxHold} \subseteq Nat \ {0} /\ Every <= MaxHold
  /\ {MaxReports, MaxTurns} \subseteq Nat

VARIABLES
  usage,     \* account_usage: what is known of each Account's windows
  readable,  \* the daemon's configuration can be read
  machine,   \* idle, inUse, unreadable
  at,        \* each Job: pending, running, ending, done
  reader,    \* its Run's reader: the line it is recording, or none
  start,     \* the start that holds s.starting
  attempt,   \* the watcher's begin: none, going, refused, fine
  ask,       \* asking: the time until it may ask again, and the last wait
  reports, swaps

vars == <<usage, readable, machine, at, reader, start, attempt, ask, reports, swaps>>

None    == [left |-> 0, spent |-> 0, known |-> FALSE]
Reading == [left : 0..MaxAhead, spent : Percent \cup {0}, known : BOOLEAN]
Quiet   == [step |-> "quiet"]
Free    == [step |-> "free"]

Known(a) == {w \in Window : usage[a][w].known}

Readers == {Quiet} \cup
  [step : {"record"}, window : Window, spent : Percent, left : 0..MaxAhead, room : BOOLEAN]
  \cup [step : {"judge"}]
Starts  == {Free} \cup [step : {"scan"}, by : {"user", "machine"}]
                  \cup [step : {"check", "claim"}, by : {"user", "machine"}, job : Job]

TypeOK ==
  /\ usage \in [Account -> [Window -> Reading]]
  /\ readable \in BOOLEAN /\ machine \in {"idle", "inUse", "unreadable"}
  /\ at \in [Job -> {"pending", "running", "ending", "done"}]
  /\ reader \in [Job -> Readers] /\ start \in Starts
  /\ attempt \in {"none", "going", "refused", "fine"}
  /\ ask \in [left : 0..MaxHold, waited : 0..MaxHold]

Init ==
  /\ usage = [a \in Account |-> [w \in Window |-> None]]
  /\ readable \in BOOLEAN /\ machine \in {"idle", "inUse"}
  /\ at = [j \in Job |-> "pending"]
  /\ reader = [j \in Job |-> Quiet] /\ start = Free
  /\ attempt = "none" /\ ask = [left |-> 0, waited |-> 0]
  /\ reports = 0 /\ swaps = 0

-----------------------------------------------------------------------------
(* What is known of an Account.                                             *)

\* Mutant of Current: a figure is kept until there is another.
CurrentOrNot(u) == u

\* ForgetResetWindows: what is about a window that is over goes.
Current(u) ==
  [a \in Account |-> [w \in Window |-> IF u[a][w].left > 0 THEN u[a][w] ELSE None]]

\* Mutant of Spent: the least spent of them is what counts.
SpentLeast(u, a, windows) == Min({u[a][w].spent : w \in {x \in windows : u[a][x].known}} \cup {100})

\* windowsOf: a weekly ceiling is kept against the most spent of the weekly windows.
Spent(u, a, windows) == Max({u[a][w].spent : w \in windows} \cup {0})
Over(u, a) ==
  \/ Ceilings[a].five > 0 /\ (\E w \in Five : u[a][w].known)
     /\ Spent(u, a, Five) >= Ceilings[a].five
  \/ Ceilings[a].weekly > 0 /\ (\E w \in Weekly : u[a][w].known)
     /\ Spent(u, a, Weekly) >= Ceilings[a].weekly

\* underCeiling sweeps, then judges what is left.
Held(a) == Over(Current(usage), a)

-----------------------------------------------------------------------------
(* A Run's reader: one line's windows are swept, listed, recorded, judged.  *)

\* An Account has only so many windows.
Room(a, w) ==
  LET kept == {x \in Window : Current(usage)[a][x].known}
  IN  w \in kept \/ Cardinality(kept) < MaxWindows

Hear(j) ==
  /\ at[j] \in {"running", "ending"} /\ reader[j] = Quiet
  /\ reports < MaxReports /\ reports' = reports + 1
  /\ \E w \in Window, p \in Percent, l \in 0..MaxAhead :
       reader' = [reader EXCEPT ![j] = [step |-> "record", window |-> w, spent |-> p, left |-> l,
                                        room |-> Room(AccountOf[j], w)]]
  /\ usage' = Current(usage)
  /\ UNCHANGED <<readable, machine, at, start, attempt, ask, swaps>>

\* A window that has started again is not what the figure is about.
Keeps(line) == line.left > 0 /\ line.room

Record(j) ==
  /\ reader[j].step = "record"
  /\ usage' = IF Keeps(reader[j])
              THEN [usage EXCEPT ![AccountOf[j]][reader[j].window] =
                      [left |-> reader[j].left, spent |-> reader[j].spent, known |-> TRUE]]
              ELSE usage
  /\ reader' = [reader EXCEPT ![j] = [step |-> "judge"]]
  /\ UNCHANGED <<readable, machine, at, start, attempt, ask, reports, swaps>>

\* crossedCeiling: all that is known is judged, and what cannot be read ends nothing.
Crossed(j) == readable /\ Held(AccountOf[j])

Judge(j) ==
  /\ reader[j].step = "judge"
  /\ reader' = [reader EXCEPT ![j] = Quiet]
  /\ IF at[j] = "running" /\ Crossed(j)
     THEN at' = [at EXCEPT ![j] = "ending"] ELSE UNCHANGED at
  /\ usage' = IF readable THEN Current(usage) ELSE usage
  /\ UNCHANGED <<readable, machine, start, attempt, ask, reports, swaps>>

\* A Run that was ended gives its Job back; one that was not has done its work.
RunEnds(j) ==
  /\ at[j] \in {"running", "ending"} /\ reader[j] = Quiet
  /\ at' = [at EXCEPT ![j] = IF @ = "ending" THEN "pending" ELSE "done"]
  /\ UNCHANGED <<usage, readable, machine, reader, start, attempt, ask, reports, swaps>>

-----------------------------------------------------------------------------
(* Starting, one at a time.                                                 *)

Pending == {j \in Job : at[j] = "pending"}

Begin(by) ==
  /\ start = Free
  /\ by = "machine" => attempt = "going"
  /\ start' = [step |-> "scan", by |-> by]
  /\ UNCHANGED <<usage, readable, machine, at, reader, attempt, ask, reports, swaps>>

\* What a start came to, for the watcher if it asked: a refusal is waited on, and
\* nothing to start is not one.
Answer(how) ==
  /\ start' = Free
  /\ attempt' = IF start.by = "machine" THEN how ELSE attempt

\* The first Job whose Account permits, each Account asked about once.
Scan ==
  /\ start.step = "scan"
  /\ \/ /\ Pending = {} /\ Answer("fine") /\ UNCHANGED usage
     \/ /\ Pending # {} /\ ~readable /\ Answer("refused") /\ UNCHANGED usage
     \/ /\ Pending # {} /\ readable /\ usage' = Current(usage)
        /\ IF \A j \in Pending : Held(AccountOf[j])
           THEN Answer("refused")
           ELSE /\ \E j \in Pending : /\ ~Held(AccountOf[j])
                                      /\ start' = [step |-> "check", by |-> start.by, job |-> j]
                /\ UNCHANGED attempt
  /\ UNCHANGED <<readable, machine, at, reader, ask, reports, swaps>>

\* Projects and tools were asked in between, so what is known of the Account is read
\* again (start's underCeiling).
Check ==
  /\ start.step = "check"
  /\ IF ~readable \/ Held(AccountOf[start.job])
     THEN Answer("refused") ELSE start' = [start EXCEPT !.step = "claim"] /\ UNCHANGED attempt
  /\ usage' = IF readable THEN Current(usage) ELSE usage
  /\ UNCHANGED <<readable, machine, at, reader, ask, reports, swaps>>

\* What a Run reported since then is not looked at any more: the Job is claimed, and
\* begin asks for another.
Claim ==
  /\ start.step = "claim"
  /\ at' = [at EXCEPT ![start.job] = "running"] /\ start' = Free
  /\ UNCHANGED <<usage, readable, machine, reader, attempt, ask, reports, swaps>>

-----------------------------------------------------------------------------
(* The watcher.                                                             *)

Least(x, y) == IF x < y THEN x ELSE y
Most(x, y)  == IF x < y THEN y ELSE x

\* Mutant of NextAsk: the wait doubles for as long as it is refused.
NextAskUncapped(waited) == Most(2 * waited, Every)

NextAsk(waited) == Least(Most(2 * waited, Every), MaxHold)

Rested == [left |-> 0, waited |-> 0]

\* Mutant of Asks: an idle window that opens is not asked about anew.
AsksOnce == attempt = "none" /\ ask.left = 0 /\ ask.waited = 0

Asks == attempt = "none" /\ ask.left = 0

\* One look: what the machine says, and then what came of asking before.
Look ==
  LET asks == machine = "idle" /\ Asks
      seen == IF machine = "inUse" THEN Rested ELSE ask
  IN  /\ attempt' = IF asks THEN "going" ELSE IF attempt \in {"refused", "fine"} THEN "none" ELSE attempt
      /\ ask' = CASE attempt = "refused" -> [left |-> NextAsk(seen.waited), waited |-> NextAsk(seen.waited)]
                  [] attempt = "fine"    -> Rested
                  [] OTHER               -> seen
      /\ UNCHANGED <<usage, readable, machine, at, reader, start, reports, swaps>>

\* A unit of time passes for every window and for the watcher.
Less(n) == IF n > 0 THEN n - 1 ELSE 0
Tick ==
  /\ usage' = [a \in Account |-> [w \in Window |-> [usage[a][w] EXCEPT !.left = Less(@)]]]
  /\ reader' = [j \in Job |-> IF reader[j].step = "record"
                              THEN [reader[j] EXCEPT !.left = Less(@)] ELSE reader[j]]
  /\ ask' = [ask EXCEPT !.left = Less(@)]
  /\ UNCHANGED <<readable, machine, at, start, attempt, reports, swaps>>

Swap ==
  /\ swaps < MaxTurns /\ swaps' = swaps + 1
  /\ \/ readable' = ~readable /\ UNCHANGED machine
     \/ machine' \in {"idle", "inUse", "unreadable"} \ {machine} /\ UNCHANGED readable
  /\ UNCHANGED <<usage, at, reader, start, attempt, ask, reports>>

Next ==
  \/ \E j \in Job : Hear(j) \/ Record(j) \/ Judge(j) \/ RunEnds(j)
  \/ Begin("user") \/ Begin("machine") \/ Scan \/ Check \/ Claim \/ Look \/ Tick \/ Swap

Spec == Init /\ [][Next]_vars
\* A start is carried through, a Run goes on reading and ends, the watcher looks and
\* time passes.  Nobody has to ask by hand, and no Run has to say anything.
Starting == Begin("machine") \/ Scan \/ Check \/ Claim
Working(j) == Record(j) \/ Judge(j) \/ RunEnds(j)
Fairness ==
  /\ WF_vars(Starting) /\ WF_vars(Look) /\ WF_vars(Tick)
  /\ \A j \in Job : WF_vars(Working(j))

-----------------------------------------------------------------------------
\* Work an Account held back is taken up again: once the machine is left to Owl and
\* the configuration reads, every Job that waits gets its turn, as no figure outlives
\* its window and the watcher never waits longer than maxHold (ForgetResetWindows,
\* nextAsk).
HeldBackResumes ==
  <>[](machine = "idle" /\ readable) => []<>(\A j \in Job : at[j] # "pending")
=============================================================================
