------------------------------ MODULE RunOutput ------------------------------
(***************************************************************************)
(* What an Agent says, from the pipe it says it into to whoever follows    *)
(* it: executor/host, which starts, stops and waits for the Agent and what *)
(* it started; execute (internal/run/run.go), which reads the pipe, writes *)
(* the log and publishes; broker.go, which fans the lines out; and Log,    *)
(* which makes one stream out of the file and a subscription.              *)
(*                                                                         *)
(* One Run.  The lines are numbered as the Agent says them.  A follower    *)
(* may arrive at any moment, be as slow as it likes and hang up.           *)
(***************************************************************************)
EXTENDS Naturals, Sequences, FiniteSets

CONSTANTS
  Follower,
  Buffer,       \* subscriberBuffer: how many lines a follower may fall behind by
  MaxLines,     \* bound: lines the Agent says
  MaxLost       \* bound: lines that could not be written to the log

ASSUME OutputAssumption == Buffer \in Nat \ {0} /\ MaxLines \in Nat /\ MaxLost \in Nat

VARIABLES
  row,        \* the Run's row: none, inserted, logged (it names the log)
  agent,      \* starting, running, exited, reaped
  child,      \* what the Agent started: none, meek (obeys SIGTERM), deaf
  holds,      \* the child has the Agent's stdout open
  departed,   \* one that has the Agent's stdout open left its process group
  said,       \* lines said into the pipe
  stopper,    \* stopWhenDone: watching, terminating, polling, over
  asked,      \* the context was cancelled while the stopper was watching
  reader,     \* execute and what carryOut does after it
  line,       \* the line being handled
  file,       \* the log: the lines in it
  lost,       \* lines whose write failed
  broker,     \* none, open, unmapped (off the Service's map), closed
  follower    \* each call of Log

procVars == <<agent, child, holds, departed, said, stopper, asked>>
logVars  == <<line, file, lost>>
vars     == <<row, procVars, reader, logVars, broker, follower>>

Away == [at |-> "away", path |-> FALSE, told |-> FALSE, sub |-> "none",
         buf |-> <<>>, sent |-> 0, got |-> <<>>]
Line == 1..MaxLines

TypeOK ==
  /\ row \in {"none", "inserted", "logged"}
  /\ agent \in {"starting", "running", "exited", "reaped"}
  /\ child \in {"none", "meek", "deaf"} /\ holds \in BOOLEAN /\ departed \in BOOLEAN
  /\ said \in 0..MaxLines /\ line \in 0..MaxLines
  /\ stopper \in {"watching", "terminating", "polling", "over"} /\ asked \in BOOLEAN
  /\ reader \in {"off", "scan", "write", "publish", "drain", "wait", "stopping",
                 "unmap", "close", "over"}
  /\ file \in Seq(Line) /\ lost \subseteq Line
  /\ broker \in {"none", "open", "unmapped", "closed"}
  /\ \A f \in Follower :
       /\ follower[f].at \in {"away", "asked", "found", "reading", "following", "whole", "behind"}
       /\ follower[f].sub \in {"none", "live", "closed", "dropped"}
       /\ Len(follower[f].buf) <= Buffer
       /\ follower[f].sent \in 0..MaxLines

Init ==
  /\ row = "none"
  /\ agent = "starting" /\ said = 0 /\ stopper = "watching" /\ asked = FALSE
  /\ child \in {"none", "meek", "deaf"} /\ holds \in BOOLEAN
  /\ child = "none" => ~holds
  /\ departed = FALSE
  /\ reader = "off" /\ line = 0 /\ file = <<>> /\ lost = {}
  /\ broker = "none"
  /\ follower = [f \in Follower |-> Away]

-----------------------------------------------------------------------------
(* The start of the Run: its row, its log's name, its broker, its Agent.    *)

StartRun == /\ row = "none" /\ row' = "inserted"
            /\ UNCHANGED <<procVars, reader, logVars, broker, follower>>
SetRunLog == /\ row = "inserted" /\ row' = "logged"
             /\ UNCHANGED <<procVars, reader, logVars, broker, follower>>
OpenBroker == /\ row = "logged" /\ broker = "none" /\ broker' = "open"
              /\ UNCHANGED <<row, procVars, reader, logVars, follower>>

\* The executor starts nothing for a context that is done.
StartAgent ==
  /\ broker = "open" /\ reader = "off"
  /\ agent' = "running" /\ reader' = "scan"
  /\ UNCHANGED <<row, child, holds, departed, said, stopper, asked, logVars, broker, follower>>

-----------------------------------------------------------------------------
(* The Agent and what it started, one process group, and how they end.      *)

procFrame == <<row, departed, reader, logVars, broker, follower>>

Say == /\ agent = "running" /\ said < MaxLines
       /\ said' = said + 1
       /\ UNCHANGED <<agent, child, holds, stopper, asked, procFrame>>
AgentExits == /\ agent = "running" /\ agent' = "exited"
              /\ UNCHANGED <<child, holds, said, stopper, asked, procFrame>>
ChildExits == /\ child # "none" /\ agent # "starting" /\ child' = "none"
              /\ UNCHANGED <<agent, holds, said, stopper, asked, procFrame>>

leaveFrame == <<row, agent, holds, said, stopper, asked, reader, logVars, broker, follower>>

\* A process may leave the group it was started in, and takes its files with it:
\* no signal to the group reaches it any more, and it ends when it likes.
ChildLeaves == /\ child # "none" /\ holds /\ agent # "starting"
               /\ child' = "none" /\ departed' = TRUE
               /\ UNCHANGED leaveFrame
DepartedEnds == /\ departed /\ departed' = FALSE
                /\ UNCHANGED <<child, leaveFrame>>

\* A zombie still names the group.
GroupAlive == agent \in {"running", "exited"} \/ child # "none"

\* What SIGTERM to the group does at once; an Agent takes its own time.
Terminated(who) == IF who = "meek" THEN "none" ELSE who

CancelContext ==
  /\ agent # "starting" /\ stopper = "watching"
  /\ stopper' = "terminating" /\ asked' = TRUE
  /\ UNCHANGED <<agent, child, holds, said, procFrame>>

\* SignalGroup: nothing is sent in the name of an Agent that was waited for.
SignalGroup ==
  /\ stopper = "terminating"
  /\ child' = IF agent = "reaped" THEN child ELSE Terminated(child)
  /\ stopper' = "polling"
  /\ UNCHANGED <<agent, holds, said, asked, procFrame>>

\* Mutant of StopWhenDone: the kill is decided by whether the Agent is there.
KillIfAgent ==
  /\ stopper = "polling"
  /\ agent' = IF agent = "running" THEN "exited" ELSE agent
  /\ child' = IF agent \in {"running", "exited"} THEN "none" ELSE child
  /\ stopper' = "over"
  /\ UNCHANGED <<holds, said, asked, procFrame>>

\* Mutant of StopWhenDone: what ignores SIGTERM is left.
NeverKill ==
  /\ stopper = "polling" /\ stopper' = "over"
  /\ UNCHANGED <<agent, child, holds, said, asked, procFrame>>

\* Over as soon as the group is empty; at the deadline what is left is killed.
StopWhenDone ==
  /\ stopper = "polling"
  /\ stopper' = "over"
  /\ IF GroupAlive
     THEN /\ agent' = IF agent = "running" THEN "exited" ELSE agent
          /\ child' = "none"
     ELSE UNCHANGED <<agent, child>>
  /\ UNCHANGED <<holds, said, asked, procFrame>>

-----------------------------------------------------------------------------
(* execute: the pipe is read to its end, and only then is the Agent waited  *)
(* for.                                                                     *)

readFrame == <<row, agent, child, holds, departed, said, stopper, asked>>

Scan ==
  /\ reader = "scan" /\ line < said
  /\ reader' = "write" /\ line' = line + 1
  /\ UNCHANGED <<readFrame, file, lost, broker, follower>>

WriteLine ==
  /\ reader = "write" /\ reader' = "publish"
  /\ \/ file' = Append(file, line) /\ UNCHANGED lost
     \/ /\ Cardinality(lost) < MaxLost
        /\ lost' = lost \cup {line} /\ UNCHANGED file
  /\ UNCHANGED <<readFrame, line, broker, follower>>

Live(f) == follower[f].sub = "live"
Full(f) == Len(follower[f].buf) >= Buffer

\* Mutant of Publish: the Agent's output waits for the slowest follower.
PublishBlocking ==
  /\ reader = "publish" /\ reader' = "scan"
  /\ \A f \in Follower : Live(f) => ~Full(f)
  /\ follower' = [f \in Follower |->
       IF Live(f) THEN [follower[f] EXCEPT !.buf = Append(@, line)] ELSE follower[f]]
  /\ UNCHANGED <<readFrame, logVars, broker>>

\* Mutant of Publish: a follower may fall behind by any number of lines.
PublishUnbounded ==
  /\ reader = "publish" /\ reader' = "scan"
  /\ follower' = [f \in Follower |->
       IF Live(f) THEN [follower[f] EXCEPT !.buf = Append(@, line)] ELSE follower[f]]
  /\ UNCHANGED <<readFrame, logVars, broker>>

\* publish: a follower that has no room left is dropped, and told so.
Publish ==
  /\ reader = "publish" /\ reader' = "scan"
  /\ follower' = [f \in Follower |->
       CASE Live(f) /\ Full(f)  -> [follower[f] EXCEPT !.sub = "dropped"]
         [] Live(f) /\ ~Full(f) -> [follower[f] EXCEPT !.buf = Append(@, line)]
         [] OTHER               -> follower[f]]
  /\ UNCHANGED <<readFrame, logVars, broker>>

\* A line too long to scan ends the reading; what is left is dropped.
GiveUpReading ==
  /\ reader = "scan" /\ line < said
  /\ reader' = "drain"
  /\ UNCHANGED <<readFrame, logVars, broker, follower>>

\* The pipe ends when nobody has it open, in the Agent's group or out of it: the
\* delay after which an exit no longer waits for the pipes is Wait's, which comes
\* after this.
EndOfOutput ==
  /\ reader \in {"scan", "drain"}
  /\ reader = "scan" => line = said
  /\ agent = "exited" /\ ~(holds /\ child # "none") /\ ~departed
  /\ reader' = "wait"
  /\ UNCHANGED <<readFrame, logVars, broker, follower>>

\* Wait: what the Agent left behind is asked to stop, once, and a stopping that
\* has not begun never will.
Wait ==
  /\ reader = "wait" /\ agent = "exited"
  /\ agent' = "reaped" /\ child' = Terminated(child)
  /\ stopper' = IF stopper = "watching" THEN "over" ELSE stopper
  /\ reader' = "stopping"
  /\ UNCHANGED <<row, holds, departed, said, asked, logVars, broker, follower>>

\* Mutant of Waited: Wait returns as soon as the Agent itself is gone.
WaitedForAgent ==
  /\ reader = "stopping"
  /\ reader' = "unmap"
  /\ UNCHANGED <<readFrame, logVars, broker, follower>>

Waited ==
  /\ reader = "stopping" /\ stopper = "over"
  /\ reader' = "unmap"
  /\ UNCHANGED <<readFrame, logVars, broker, follower>>

\* closeBroker: off the map first, then every stream ends.
Unmap ==
  /\ reader = "unmap" /\ reader' = "close" /\ broker' = "unmapped"
  /\ UNCHANGED <<readFrame, logVars, follower>>
CloseBroker ==
  /\ reader = "close" /\ reader' = "over" /\ broker' = "closed"
  /\ follower' = [f \in Follower |->
       IF Live(f) THEN [follower[f] EXCEPT !.sub = "closed"] ELSE follower[f]]
  /\ UNCHANGED <<readFrame, logVars>>

Execute == \/ Scan \/ WriteLine \/ Publish \/ EndOfOutput \/ Wait \/ Waited
           \/ Unmap \/ CloseBroker

-----------------------------------------------------------------------------
(* Log, following.                                                          *)

followFrame == <<row, procVars, reader, logVars, broker>>
Is(f, step) == follower[f].at = step
Becomes(f, rec) == follower' = [follower EXCEPT ![f] = rec]

\* told: the broker was there before the row was read, as it is for whoever
\* was told of the Run by the start that returned it.
ReadRow(f) ==
  /\ Is(f, "away") /\ row # "none"
  /\ Becomes(f, [Away EXCEPT !.at = "asked", !.path = row = "logged",
                             !.told = broker # "none"])
  /\ UNCHANGED followFrame

\* A Run nobody is fanning out any more, or yet, is read from its file alone.
FindBroker(f) ==
  /\ Is(f, "asked")
  /\ Becomes(f, [follower[f] EXCEPT !.at = IF broker = "open" THEN "found" ELSE "reading"])
  /\ UNCHANGED followFrame

Subscribe(f) ==
  /\ Is(f, "found")
  /\ Becomes(f, [follower[f] EXCEPT !.at = "reading",
                   !.sub = IF broker = "closed" THEN "closed" ELSE "live"])
  /\ UNCHANGED followFrame

ReadFile(f) ==
  LET lines == IF follower[f].path THEN file ELSE <<>> IN
  /\ Is(f, "reading")
  /\ Becomes(f, [follower[f] EXCEPT !.got = lines, !.sent = Len(lines),
                   !.at = IF follower[f].sub = "none" THEN "whole" ELSE "following"])
  /\ UNCHANGED followFrame

\* Mutant of Follow: what arrives is sent.
FollowAll(f) ==
  /\ Is(f, "following") /\ follower[f].buf # <<>>
  /\ Becomes(f, [follower[f] EXCEPT !.buf = Tail(@), !.sent = Head(follower[f].buf),
                                    !.got = Append(@, Head(follower[f].buf))])
  /\ UNCHANGED followFrame

\* A line with a number that was in the file is one already sent.
Follow(f) ==
  LET n == Head(follower[f].buf) IN
  /\ Is(f, "following") /\ follower[f].buf # <<>>
  /\ IF n <= follower[f].sent
     THEN Becomes(f, [follower[f] EXCEPT !.buf = Tail(@)])
     ELSE Becomes(f, [follower[f] EXCEPT !.buf = Tail(@), !.sent = n, !.got = Append(@, n)])
  /\ UNCHANGED followFrame

\* Mutant of EndOfStream: a closed channel is the end of the Run.
EndAsWhole(f) ==
  /\ Is(f, "following") /\ follower[f].buf = <<>>
  /\ ~Live(f)
  /\ Becomes(f, [follower[f] EXCEPT !.at = "whole"])
  /\ UNCHANGED followFrame

\* The channel is closed and empty: the Run ended, or this follower fell behind.
EndOfStream(f) ==
  /\ Is(f, "following") /\ follower[f].buf = <<>>
  /\ ~Live(f)
  /\ Becomes(f, [follower[f] EXCEPT !.at = IF follower[f].sub = "dropped" THEN "behind" ELSE "whole"])
  /\ UNCHANGED followFrame

HangUp(f) ==
  /\ ~Is(f, "away")
  /\ Becomes(f, Away)
  /\ UNCHANGED followFrame

Log(f) == FindBroker(f) \/ Subscribe(f) \/ ReadFile(f) \/ Follow(f) \/ EndOfStream(f)

Next ==
  \/ StartRun \/ SetRunLog \/ OpenBroker \/ StartAgent
  \/ Say \/ AgentExits \/ ChildExits \/ ChildLeaves \/ DepartedEnds
  \/ CancelContext \/ SignalGroup \/ StopWhenDone
  \/ Execute \/ GiveUpReading
  \/ \E f \in Follower : ReadRow(f) \/ Log(f) \/ HangUp(f)

Spec == Init /\ [][Next]_vars

\* The reader and the stopper are straight-line code; nothing makes an Agent or
\* a child end but a signal, nothing at all one that left the group, and no follower
\* has to read.
Fairness == WF_vars(Execute) /\ WF_vars(SignalGroup) /\ WF_vars(StopWhenDone)

FairSpec == Spec /\ Fairness

-----------------------------------------------------------------------------
Reading == reader \in {"scan", "write", "publish"}
Counted(seq) == \A i \in DOMAIN seq : seq[i] = i

\* A follower sees every line once and in order, though the file and the
\* subscription overlap by whatever was said in between (run.go:883-887,
\* 911-917) - as long as no line was lost on its way to the log, and the row
\* already named the log when the follower read it.
FollowedOnceInOrder ==
  \A f \in Follower : lost = {} /\ follower[f].path => Counted(follower[f].got)

\* A follower whose stream ends without a word has had the whole log of a Run
\* that is over; one that fell behind is told (broker.go:36-43, run.go:905-910).
EndMeansWhole ==
  \A f \in Follower : Is(f, "whole") /\ follower[f].told =>
    /\ reader \in {"close", "over"}
    /\ lost = {} => follower[f].got = file

\* However slow its followers, what an Agent says is read
\* (broker.go:29-46, run.go:1500-1504).
NeverHeldUp == Reading /\ line < said ~> ~Reading \/ line = said

\* A cancelled Agent is not over while anything of its group is there
\* (host.go:87-95, 209-212).
CancelledLeavesNobody == reader \in {"unmap", "close", "over"} /\ asked => child = "none"

\* ... and it is over in the end, whatever its group ignores and holds open, unless
\* what left the group holds its output open for ever.
CancelledEnds == asked ~> reader = "over" \/ departed

\* A context that is done ends the Agent, within the grace period and the kill
\* (host.go:109-116), whoever holds its output open.
CancelledIsOver == asked ~> reader = "over"

\* An Agent that exited is an Agent that exited, though something it started
\* still holds its output open (host.go:68-71).
ExitedEnds == agent = "exited" ~> reader = "over"
=============================================================================
