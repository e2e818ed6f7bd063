------------------------------ MODULE MCProcesses ------------------------------
(***************************************************************************)
(* The processes Owl starts and the streams that follow them: an Agent and *)
(* those who follow its log (RunOutput), a command of setup or             *)
(* verification (Checks), and the desktop app's follows and its chat       *)
(* (Desktop, whose two halves share nothing).  They share no state, so     *)
(* they are checked side by side: part says which of them moves, and the   *)
(* others rest where they began.  The fairness is theirs, of the part that *)
(* moves.                                                                  *)
(***************************************************************************)
EXTENDS RunOutput

CONSTANTS MaxCommands, Run, Stream, MaxShown

VARIABLES
  part,
  use, expects, now, shell, kid, chdHolds, stray, printed, late, given, inTime,
  waiting, waited, chdStopper, results, outcome,
  of, follows, at, stopped, closed, got, failed, first, told, ends,
  announced, exchange, expired, sent

C == INSTANCE Checks WITH holds <- chdHolds, stopper <- chdStopper
D == INSTANCE Desktop WITH MaxLines <- MaxShown

\* No call of FollowLog is no call: App.follows holds them by their address.
ASSUME CallsAreNumbered == D!NoFollow \notin Stream

checkVars  == <<use, expects, now, shell, kid, chdHolds, stray, printed, late, given, inTime,
                waiting, waited, chdStopper, results, outcome>>
followVars == <<of, follows, at, stopped, closed, got, failed, first, told, ends>>
sendVars   == <<announced, exchange, expired, sent>>
allVars    == <<part, vars, checkVars, followVars, sendVars>>

Parts == {"output", "command", "follow", "send"}

PartsInit ==
  /\ part \in Parts /\ Init /\ C!Init /\ D!Init
  /\ part # "output" => child = "none" /\ ~holds
  /\ part # "command" => use = "setup"
  /\ part # "follow" => of = [f \in Stream |-> CHOOSE r \in Run : TRUE]

Output(A)  == part = "output"  /\ A /\ UNCHANGED <<part, checkVars, followVars, sendVars>>
Command(A) == part = "command" /\ A /\ UNCHANGED <<part, vars, followVars, sendVars>>
Desk(A)    == A /\ UNCHANGED <<part, vars, checkVars>>

PartsNext ==
  \/ Output(Next)
  \/ Command(C!Next)
  \/ part = "follow" /\ Desk(D!Follows \/ D!Shutdown)
  \/ part = "send" /\ Desk(D!SendTo \/ D!Shutdown)

PartsSpec ==
  /\ PartsInit /\ [][PartsNext]_allVars
  /\ WF_allVars(Output(Execute)) /\ WF_allVars(Output(SignalGroup))
  /\ WF_allVars(Output(StopWhenDone))
  /\ WF_allVars(Command(C!Progress))

-----------------------------------------------------------------------------
\* Who follows a Run's log has every line once and in order, an end they were not
\* told otherwise of is the end, and a cancelled Agent's children are not left
\* behind (RunOutput).
HeardOnceAndWhole == FollowedOnceInOrder /\ EndMeansWhole /\ CancelledLeavesNobody

\* What was stopped is gone and what passed did pass: a check's verdict, the group
\* of a command that was stopped, a follow nobody can reach any more, and the one
\* word its caller gets of how it ended (Checks, Desktop).
StoppedMeansStopped ==
  /\ part = "command" => C!PassedWasEarned /\ C!NobodyLeftOfAStopped
  /\ part = "follow" => D!EveryFollowCanBeStopped /\ D!EndIsToldOnce /\ D!CallerIsLetGo

\* Nobody is held up for good: not an Agent's output by a slow follower, not a
\* stop by what ignores it and is still of the Agent's group, and not a use of
\* commands by what they do; and a user is told which conversation they began,
\* though it failed.
NobodyIsHeldUp ==
  /\ NeverHeldUp /\ CancelledEnds
  /\ part = "command" => C!EveryUseEnds
  /\ D!TellsWhichConversation
=============================================================================
