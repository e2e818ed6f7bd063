---- MODULE Setup ----
(* owl setup: the walkthrough of the three things Owl needs before it can run *)
(* anything, which are a daemon, Claude Code where it will be looked for, and *)
(* an Account.                                                                *)
(*   internal/cli/{setup,ask,account,cli}.go, internal/yamledit/yamledit.go,  *)
(*   internal/driver/claudecode/claudecode.go, internal/launchd/launchd.go    *)
(* A walkthrough asks a person, so it is many steps; two may be going, each   *)
(* may be interrupted, and the daemon comes and goes meanwhile.  The user     *)
(* moves their programs, Accounts and file only while none is going: what a   *)
(* walkthrough says of a machine that changes under it is not judged here.    *)
EXTENDS Naturals, FiniteSets

CONSTANTS Walker,    \* walkthroughs that can be going at once
          Name,      \* names an Account can be given
          MaxMoves,  \* changes the user makes between walkthroughs
          MaxStops   \* interrupted walkthroughs, and stops of the daemon

\* Where a claude can be: on the shell's PATH, where its own installer puts it,
\* or somewhere only a claudePath says.
Place == {"shell", "local", "elsewhere"}
None == "none"

VARIABLES
  programs,  \* the places that hold a program somebody may run
  file,      \* the daemon's own file: its claudePath, and whether it can be read
  daemon,    \* whether it is up, the claudePath it loaded, whether its PATH is the shell's
  agent,     \* the launch agent is loaded
  accounts,  \* the Accounts registered
  walk,      \* the walkthroughs
  told,      \* the user was told that is everything, and has moved nothing since (history)
  spent,     \* the subscription was authorised and then refused its name (history)
  moves, stops
vars == <<programs, file, daemon, agent, accounts, walk, told, spent, moves, stops>>

Idle == [at |-> "idle", running |-> FALSE, findable |-> FALSE, path |-> None, name |-> None]
Machine == <<programs, accounts, spent, moves>>

Init ==
  /\ programs \in SUBSET Place
  /\ file = [named |-> None, whole |-> TRUE]
  /\ daemon = [up |-> FALSE, named |-> None, sees |-> FALSE]
  /\ agent = FALSE /\ accounts = {}
  /\ walk = [w \in Walker |-> Idle]
  /\ told = FALSE /\ spent = FALSE
  /\ moves = 0 /\ stops = 0

At(w, at) == walk[w].at = at
To(w, at) == walk' = [walk EXCEPT ![w].at = at]
\* An error, or an end of the answers, ends the walkthrough with nothing said
\* to be ready.
Ends(w) == walk' = [walk EXCEPT ![w] = Idle] /\ UNCHANGED told

\* Find: a path the file names is the only one looked at; then PATH, then the
\* installer's own directory.
Executable(place) == place \in programs
Find(named, sees) ==
  IF named # None THEN IF Executable(named) THEN named ELSE None
  ELSE IF sees /\ Executable("shell") THEN "shell"
  ELSE IF Executable("local") THEN "local" ELSE None

-----------------------------------------------------------------------------
(* The daemon, and the launch agent that keeps it.                           *)

\* A launch agent carries the PATH of the shell that wrote it; any other
\* supervisor gives the daemon the one it has.
Carried == {TRUE, agent}

\* A daemon loads its file once, as it starts, and does not start on one it
\* cannot read.
Start ==
  /\ ~daemon.up /\ file.whole
  /\ \E sees \in Carried :
       daemon' = [up |-> TRUE, named |-> file.named, sees |-> sees]
  /\ UNCHANGED <<Machine, file, agent, walk, told, stops>>

Stop ==
  /\ daemon.up /\ stops < MaxStops
  /\ daemon' = [daemon EXCEPT !.up = FALSE] /\ stops' = stops + 1
  /\ UNCHANGED <<Machine, file, agent, walk, told>>

\* Install: the file is written, what launchd had loaded under the label is
\* booted out whatever comes of that, and the new one is handed over.
Install(w) ==
  /\ At(w, "install")
  /\ daemon' = IF agent THEN [daemon EXCEPT !.up = FALSE] ELSE daemon
  /\ \E loads \in BOOLEAN :
       /\ agent' = loads
       /\ IF loads THEN To(w, "claude") /\ UNCHANGED told ELSE Ends(w)
  /\ UNCHANGED <<Machine, file, stops>>

-----------------------------------------------------------------------------
(* The walkthrough.                                                           *)

\* Only yes is yes.
Confirm == {"install", "claude"}

Begins(w) == At(w, "idle") /\ To(w, "daemon") /\ UNCHANGED <<Machine, file, daemon, agent, told, stops>>

\* setupDaemon: a daemon that is not there is offered as a launch agent, or its
\* supervisor is named.  It is down for what follows either way.
SetupDaemon(w) ==
  /\ At(w, "daemon")
  /\ \/ daemon.up /\ walk' = [walk EXCEPT ![w].at = "claude", ![w].running = TRUE]
     \/ ~daemon.up /\ \E at \in Confirm : To(w, at)
     \/ Ends(w)
  /\ UNCHANGED <<Machine, file, daemon, agent, told, stops>>

\* setupClaude reads the file, and looks with the search the Driver has.
SetupClaude(w) ==
  /\ At(w, "claude")
  /\ IF ~file.whole THEN Ends(w)
     ELSE IF Find(file.named, TRUE) # None
     THEN walk' = [walk EXCEPT ![w].at = "accounts", ![w].findable = TRUE] ELSE To(w, "asking")
  /\ UNCHANGED <<Machine, file, daemon, agent, told, stops>>

\* askExecutable: nothing typed skips it, an answer that is no program is asked
\* for again, and an end of the answers ends the walkthrough.
UsableAsTyped(answer) == TRUE
UsableProgram(answer) == Find(answer, TRUE) # None
AskExecutable(w) ==
  /\ At(w, "asking")
  /\ \/ \E answer \in Place : UsableProgram(answer)
          /\ walk' = [walk EXCEPT ![w].at = "reading", ![w].path = answer]
     \/ To(w, "accounts")
     \/ Ends(w)
  /\ UNCHANGED <<Machine, file, daemon, agent, told, stops>>

\* SetKey and what writes the file out again: one key is another, and the rest
\* is as its owner wrote it.
SetKey(f, place) == [f EXCEPT !.named = place]
Mapping(f) == f.whole

\* Edit: what the file says is read, and a file that is no mapping of settings,
\* an empty one among them, is refused.  One that comes back the same is left
\* alone.
Edit(w) ==
  /\ At(w, "reading")
  /\ IF ~Mapping(file) THEN Ends(w)
     ELSE LET same == SetKey(file, walk[w].path) = file IN
          walk' = [walk EXCEPT ![w].at = IF same THEN "accounts" ELSE "truncating",
                               ![w].findable = same]
  /\ UNCHANGED <<Machine, file, daemon, agent, told, stops>>

\* WriteFile empties the file before it fills it.
Truncates(w) ==
  /\ At(w, "truncating")
  /\ file' = [file EXCEPT !.whole = FALSE] /\ To(w, "writing")
  /\ UNCHANGED <<Machine, daemon, agent, told, stops>>

Writes(w) ==
  /\ At(w, "writing")
  /\ file' = [SetKey(file, walk[w].path) EXCEPT !.whole = TRUE]
  /\ walk' = [walk EXCEPT ![w].at = "accounts", ![w].findable = TRUE]
  /\ UNCHANGED <<Machine, daemon, agent, told, stops>>

\* The end of setup: what is left is said, and a machine with nothing left is
\* told it is ready.
Tells(w) == walk' = [walk EXCEPT ![w] = Idle] /\ told' = (told \/ (walk[w].running /\ walk[w].findable))

\* Only a name that can be a directory's is taken.
AskAccountName(w) == \E n \in Name : walk' = [walk EXCEPT ![w].at = "free", ![w].name = n]

\* setupAccount asks for one where the daemon has none.
SetupAccount(w) ==
  /\ At(w, "accounts")
  /\ IF ~walk[w].running THEN Tells(w)
     ELSE IF ~daemon.up THEN Ends(w)
     ELSE IF accounts # {} THEN Tells(w)
     ELSE UNCHANGED told /\ AskAccountName(w)
  /\ UNCHANGED <<Machine, file, daemon, agent, stops>>

\* accountAdd asks the daemon whether the name is free, and finds the tool,
\* before it runs the tool's own setup.
NameIsFree(name) == daemon.up /\ name \notin accounts
ToolIsThere == file.whole /\ Find(file.named, TRUE) # None
AccountAdd(w) ==
  /\ At(w, "free")
  /\ IF NameIsFree(walk[w].name) /\ ToolIsThere
     THEN To(w, "authorising") /\ UNCHANGED told ELSE Ends(w)
  /\ UNCHANGED <<Machine, file, daemon, agent, stops>>

\* The tool authorises a subscription in the Account's directory, and the token
\* it prints is pasted.
AccountToken(w) ==
  /\ At(w, "authorising")
  /\ \/ To(w, "adding") /\ UNCHANGED told
     \/ Ends(w)
  /\ UNCHANGED <<Machine, file, daemon, agent, stops>>

AddAccount(w) ==
  /\ At(w, "adding")
  /\ IF daemon.up /\ walk[w].name \notin accounts
     THEN accounts' = accounts \cup {walk[w].name} /\ Tells(w) /\ UNCHANGED spent
     ELSE /\ spent' = (spent \/ daemon.up) /\ Ends(w) /\ UNCHANGED accounts
  /\ UNCHANGED <<programs, moves, file, daemon, agent, stops>>

Interrupted(w) ==
  /\ ~At(w, "idle") /\ stops < MaxStops
  /\ stops' = stops + 1 /\ Ends(w)
  /\ UNCHANGED <<Machine, file, daemon, agent>>

\* The user's own doing: programs installed and removed, an Account removed,
\* the file written by hand.
Moves ==
  /\ \A w \in Walker : At(w, "idle")
  /\ moves < MaxMoves /\ moves' = moves + 1 /\ told' = FALSE
  /\ \/ (\E p \in Place : programs' \in {programs \cup {p}, programs \ {p}}) /\ UNCHANGED <<accounts, file>>
     \/ accounts # {} /\ accounts' = {} /\ UNCHANGED <<programs, file>>
     \/ \E named \in Place \cup {None} : file' = [named |-> named, whole |-> TRUE]
        /\ UNCHANGED <<programs, accounts>>
  /\ UNCHANGED <<daemon, agent, walk, spent, stops>>

Walks(w) ==
  \/ Begins(w) \/ SetupDaemon(w) \/ Install(w) \/ SetupClaude(w) \/ AskExecutable(w)
  \/ Edit(w) \/ Truncates(w) \/ Writes(w)
  \/ SetupAccount(w) \/ AccountAdd(w) \/ AccountToken(w) \/ AddAccount(w) \/ Interrupted(w)

Next == Start \/ Stop \/ Moves \/ \E w \in Walker : Walks(w)
Spec == Init /\ [][Next]_vars

-----------------------------------------------------------------------------
TypeOK ==
  /\ programs \subseteq Place
  /\ file \in [named : Place \cup {None}, whole : BOOLEAN]
  /\ daemon \in [up : BOOLEAN, named : Place \cup {None}, sees : BOOLEAN]
  /\ agent \in BOOLEAN /\ accounts \subseteq Name
  /\ told \in BOOLEAN /\ spent \in BOOLEAN

\* A machine that is told it is ready has an Account, and its file, when it can
\* be read, leads the search to a program somebody may run, whatever other
\* walkthroughs wrote or were stopped in (setup.go: a machine that can run
\* nothing must not be told it is ready).
ReadyIsTrue ==
  told => accounts # {} /\ (file.whole => Find(file.named, TRUE) # None)

\* The same of the daemon that is up: setup.go and Find say that what setup
\* reports is what a Run gets.
WhatARunGets ==
  told /\ daemon.up => Find(daemon.named, daemon.sees) # None

\* nameIsFree is what keeps a refusal from arriving after the user has
\* authorised a subscription.
RefusedBeforeItAuthorises == ~spent
====
