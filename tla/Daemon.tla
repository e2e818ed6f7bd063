-------------------------------- MODULE Daemon --------------------------------
(***************************************************************************)
(* Daemons that share one home: internal/daemon/daemon.go.  Run probes the *)
(* socket, opens the database, closes the Runs an earlier daemon left,     *)
(* listens, serves, and takes it all down again in an order.  Nothing but  *)
(* the socket's path keeps two daemons apart, and it is looked at, removed *)
(* and made by name, in separate steps.                                    *)
(*                                                                         *)
(* A start may overlap an earlier daemon's stop, and a crash leaves the    *)
(* socket's file behind.  raced marks the histories in which two starts    *)
(* overlapped, a server stopped serving by itself, or a stopping daemon    *)
(* took away the socket of the one started after it.                       *)
(*                                                                         *)
(* An Agent leads a process group of its own, and what ends it is a        *)
(* daemon: one that dies leaves it to itself, and orphan says so.          *)
(***************************************************************************)
EXTENDS Naturals, FiniteSets

CONSTANTS
  MaxStarts,    \* bound: daemons ever started
  MaxCrashes,   \* bound: how many of them die
  Job

Pid  == 1..MaxStarts
Step == {"none", "probe", "unlink", "open", "recover", "listen", "chmod", "serving",
         "closing", "shutdown", "remove", "returns", "off"}
Begun == {"probe", "unlink", "open", "recover", "listen", "chmod"}

VARIABLES
  pc,       \* where each daemon's Run is
  sock,     \* whose socket is at the path; 0 when nothing is
  open,     \* the daemons whose listener answers
  active,   \* the Jobs the database holds as active
  carrier,  \* the daemon that minds an active Job's Agent; 0 when none does
  orphan,   \* the Jobs with an Agent at work whose daemon died
  crashed, raced

vars == <<pc, sock, open, active, carrier, orphan, crashed, raced>>

TypeOK ==
  /\ pc \in [Pid -> Step] /\ sock \in 0..MaxStarts /\ open \subseteq Pid
  /\ active \subseteq Job /\ orphan \subseteq Job /\ carrier \in [Job -> 0..MaxStarts]
  /\ crashed \subseteq Pid /\ raced \in BOOLEAN

Init ==
  /\ pc = [p \in Pid |-> "none"] /\ sock = 0 /\ open = {}
  /\ active = {} /\ orphan = {} /\ carrier = [j \in Job |-> 0]
  /\ crashed = {} /\ raced = FALSE

jobVars == <<active, carrier, orphan>>
Moves(p, from, to) == pc[p] = from /\ pc' = [pc EXCEPT ![p] = to]
Carries(p) == {j \in Job : carrier[j] = p}

Begin(p) ==
  /\ \A q \in 1..(p - 1) : pc[q] # "none"
  /\ Moves(p, "none", "probe")
  /\ raced' = (raced \/ \E q \in Pid : pc[q] \in Begun)
  /\ UNCHANGED <<sock, open, jobVars, crashed>>

-----------------------------------------------------------------------------
(* removeStaleSocket.                                                       *)

Probe(p) ==
  /\ Moves(p, "probe", CASE sock = 0 -> "open"
                         [] sock \in open -> "off"      \* ErrAlreadyListening
                         [] OTHER -> "unlink")
  /\ UNCHANGED <<sock, open, jobVars, crashed, raced>>

\* By name: whatever is there by now.  One that is gone is an error.
Unlink(p) ==
  /\ Moves(p, "unlink", IF sock = 0 THEN "off" ELSE "open") /\ sock' = 0
  /\ UNCHANGED <<open, jobVars, crashed, raced>>

\* The database, git, the configuration and the credential store: what can fail
\* without a listener.
Open(p) ==
  /\ \E to \in {"recover", "off"} : Moves(p, "open", to)
  /\ UNCHANGED <<sock, open, jobVars, crashed, raced>>

\* Every active row is a Run an earlier daemon left.  (RunService has what becomes
\* of the Run and the Job.)
Recover(p) ==
  /\ Moves(p, "recover", "listen")
  /\ active' = {}
  /\ UNCHANGED <<sock, open, carrier, orphan, crashed, raced>>

\* A path that exists refuses to be listened on.
Listen(p) ==
  /\ \/ /\ sock = 0 /\ Moves(p, "listen", "chmod")
        /\ sock' = p /\ open' = open \cup {p}
     \/ /\ Moves(p, "listen", "off") /\ UNCHANGED <<sock, open>>
  /\ UNCHANGED <<jobVars, crashed, raced>>

\* Mutant of Gives: what was made is left behind.
GivesNothing(p) == UNCHANGED sock

\* The deferred close of a listener nothing serves on: Go unlinks its path, and Run
\* removes it again.
Gives(p) == sock' = 0

Chmod(p) ==
  /\ \/ Moves(p, "chmod", "serving") /\ UNCHANGED <<sock, open>>
     \/ Moves(p, "chmod", "off") /\ Gives(p) /\ open' = open \ {p}
  /\ UNCHANGED <<jobVars, crashed, raced>>

-----------------------------------------------------------------------------
(* Serving, and the order it is taken down in.                              *)

\* A start already under way counts its Run in before Close waits.
StartsRun(p, j) ==
  /\ pc[p] \in {"serving", "closing"} /\ j \notin active
  /\ active' = active \cup {j} /\ carrier' = [carrier EXCEPT ![j] = p]
  /\ UNCHANGED <<pc, sock, open, orphan, crashed, raced>>

RunEnds(p, j) ==
  /\ carrier[j] = p
  /\ active' = active \ {j} /\ carrier' = [carrier EXCEPT ![j] = 0]
  /\ UNCHANGED <<pc, sock, open, orphan, crashed, raced>>

Stop(p) ==
  /\ Moves(p, "serving", "closing")
  /\ UNCHANGED <<sock, open, jobVars, crashed, raced>>

\* Mutant of Closed: the server is shut down before the Runs are waited for.
ClosedAlready(p) == TRUE

\* runs.Close has waited for every Run it started.
Closed(p) == Carries(p) = {}

\* srv.Shutdown closes the listener, which unlinks the path, and only then waits
\* for the requests in flight.
ShutsDown(p) ==
  /\ Closed(p) /\ Moves(p, "closing", "remove")
  /\ open' = open \ {p}
  /\ sock' = 0
  /\ UNCHANGED <<jobVars, crashed, raced>>

\* os.Remove(sock), when Shutdown has returned: the path again, and whatever another
\* daemon has made of it by then.
RemovesSocket(p) ==
  /\ Moves(p, "remove", "off") /\ sock' = 0
  /\ raced' = (raced \/ sock # 0)
  /\ UNCHANGED <<open, jobVars, crashed>>

\* Accept fails: the socket goes first, and the deferred Close ends the Runs.
ServeFails(p) ==
  /\ Moves(p, "serving", "returns") /\ sock' = 0 /\ open' = open \ {p}
  /\ raced' = TRUE
  /\ UNCHANGED <<jobVars, crashed>>

Returns(p) ==
  /\ Closed(p) /\ Moves(p, "returns", "off")
  /\ UNCHANGED <<sock, open, jobVars, crashed, raced>>

\* The socket's file and the rows stay, and the Agents lose their daemon: nothing ends
\* one but that nobody reads what it says any more, so some go with it and some work
\* on until they are done.
Crash(p) ==
  /\ Cardinality(crashed) < MaxCrashes
  /\ pc[p] \notin {"none", "off"}
  /\ pc' = [pc EXCEPT ![p] = "off"] /\ open' = open \ {p}
  /\ carrier' = [j \in Job |-> IF carrier[j] = p THEN 0 ELSE carrier[j]]
  /\ \E left \in SUBSET Carries(p) : orphan' = orphan \cup left
  /\ crashed' = crashed \cup {p}
  /\ UNCHANGED <<sock, active, raced>>

OrphanEnds(j) ==
  /\ j \in orphan /\ orphan' = orphan \ {j}
  /\ UNCHANGED <<pc, sock, open, active, carrier, crashed, raced>>

Next ==
  \/ \E p \in Pid :
       \/ Begin(p) \/ Probe(p) \/ Unlink(p) \/ Open(p) \/ Recover(p) \/ Listen(p) \/ Chmod(p)
       \/ Stop(p) \/ ShutsDown(p) \/ RemovesSocket(p) \/ ServeFails(p) \/ Returns(p) \/ Crash(p)
       \/ \E j \in Job : StartsRun(p, j) \/ RunEnds(p, j)
  \/ \E j \in Job : OrphanEnds(j)

Spec == Init /\ [][Next]_vars

-----------------------------------------------------------------------------
(* Properties.                                                              *)

\* A daemon that starts while an earlier one serves or is on its way out closes no Run
\* an earlier daemon still minds, and one that starts after it returned finds none of
\* its Agents at work: the Runs are ended before the socket is given up, and a socket
\* that answers turns a start away before the database is opened.  It is said of
\* histories that did not race, which leaves out two starts that overlap, and of no
\* Agent whose daemon died.  (Run, its order.)
RecoversNobodysRun ==
  [][~raced => \A j \in active : carrier[j] # 0 =>
       j \in active' \/ carrier'[j] = 0]_vars

\* Every Agent is a child of the daemon, so nothing it started survives a restart, and
\* Recover puts back no Job that is being worked on (run.go:379-383).  Not so of a
\* daemon that was killed: its Agents are groups of their own (host.go:67), nobody
\* ends them, and the next daemon closes the Run and may give the Job another Agent.
NothingSurvivesRestart ==
  [][~raced => \A j \in active : j \in orphan => j \in active']_vars

\* Whatever it returns for, a daemon leaves no socket of its own for the next start
\* to find stale; only one that died does.  (The deferred close, Shutdown and the
\* removals by name.)
LeavesNothing == \A p \in Pid : pc[p] = "off" /\ sock = p => p \in crashed

\* Only one daemon can hold the socket (run.go:275).  Not so: two starts that
\* overlap, and a stop that removes by name the socket of the daemon started in the
\* meantime, each leave two that serve.
HeldByOne == \A p, q \in Pid : pc[p] = "serving" /\ pc[q] = "serving" => p = q
=============================================================================
