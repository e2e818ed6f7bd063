------------------------------ MODULE Desktop ------------------------------
(***************************************************************************)
(* The desktop app's long calls: following a Run's log, and one exchange   *)
(* with a model. A call of FollowLog registers a follow under its Run,     *)
(* starts a goroutine that streams the log into events, and waits for what *)
(* the goroutine says first; the frontend may stop the Run's follow,       *)
(* replace it by following the Run again, or close the window, at any      *)
(* point of it. SendTo waits for whichever comes first of the exchange's   *)
(* conversation, its failure and its end.                                  *)
(***************************************************************************)
EXTENDS Naturals, FiniteSets

CONSTANTS Run,             \* the Runs the app may follow
          Stream,          \* the calls of FollowLog, by their numbers
          MaxLines         \* how many lines a log has

NoFollow == 0                  \* no number of a call

VARIABLES of,          \* the Run each call follows
          follows,     \* App.follows: the follow registered under each Run
          at,          \* where the follow's goroutine is
          stopped,     \* the follows whose context was cancelled from outside
          closed,      \* was the window closed?
          got,         \* how many lines arrived at each follow
          failed,      \* did the follow's stream end in an error?
          first,       \* what was sent on each call's `first`, in how many sends
          told,        \* what each call returned: "nothing", "ok" or "error"
          ends,        \* how many LogEnd events each follow emitted
          announced,   \* SendTo: is the conversation in `opened`?
          exchange,    \* SendTo's goroutine: "none", "going", "ok", "error"
          expired,     \* did chatTimeout run out on it?
          sent         \* what SendTo returned: "nothing", "id", "error"

follow == <<of, follows, at, stopped, closed, got, failed, first, told, ends>>
sending == <<announced, exchange, expired, sent>>
vars == <<follow, sending>>

Ats == {"none", "streaming", "ended", "live", "announcing", "leaving", "gone"}

TypeOK ==
    /\ of \in [Stream -> Run] /\ follows \in [Run -> Stream \cup {NoFollow}]
    /\ at \in [Stream -> Ats] /\ stopped \subseteq Stream /\ closed \in BOOLEAN
    /\ got \in [Stream -> 0 .. MaxLines] /\ failed \in [Stream -> BOOLEAN]
    /\ first \in [Stream -> [value : {"nothing", "ok", "error"}, sends : 0 .. 1]]
    /\ told \in [Stream -> {"nothing", "ok", "error"}] /\ ends \in [Stream -> 0 .. 1]
    /\ announced \in BOOLEAN /\ exchange \in {"none", "going", "ok", "error"}
    /\ expired \in BOOLEAN /\ sent \in {"nothing", "id", "error"}

Init ==
    /\ of \in [Stream -> Run] /\ follows = [r \in Run |-> NoFollow]
    /\ at = [f \in Stream |-> "none"] /\ stopped = {} /\ closed = FALSE
    /\ got = [f \in Stream |-> 0] /\ failed = [f \in Stream |-> FALSE]
    /\ first = [f \in Stream |-> [value |-> "nothing", sends |-> 0]]
    /\ told = [f \in Stream |-> "nothing"] /\ ends = [f \in Stream |-> 0]
    /\ announced = FALSE /\ exchange = "none" /\ expired = FALSE /\ sent = "nothing"

Cancelled(f) == f \in stopped \/ closed

-----------------------------------------------------------------------------
(* The frontend's calls.                                                   *)

\* FollowLog: under the lock, stop the Run's follow and take its place.
FollowLog(f) ==
    /\ at[f] = "none"
    /\ stopped' = stopped \cup ({follows[of[f]]} \ {NoFollow})
    /\ follows' = [follows EXCEPT ![of[f]] = f]
    /\ at' = [at EXCEPT ![f] = "streaming"]
    /\ UNCHANGED <<of, closed, got, failed, first, told, ends, sending>>

\* `return <-first`.
Returns(f) ==
    /\ at[f] # "none" /\ told[f] = "nothing" /\ first[f].sends > 0
    /\ told' = [told EXCEPT ![f] = first[f].value]
    /\ UNCHANGED <<of, follows, at, stopped, closed, got, failed, first, ends, sending>>

StopLog(r) ==
    /\ follows[r] # NoFollow
    /\ stopped' = stopped \cup {follows[r]}
    /\ follows' = [follows EXCEPT ![r] = NoFollow]
    /\ UNCHANGED <<of, at, closed, got, failed, first, told, ends, sending>>

Shutdown ==
    /\ ~closed /\ closed' = TRUE
    /\ stopped' = stopped \cup ({follows[r] : r \in Run} \ {NoFollow})
    /\ follows' = [r \in Run |-> NoFollow]
    /\ UNCHANGED <<of, at, got, failed, first, told, ends, sending>>

-----------------------------------------------------------------------------
(* The goroutine of a follow.                                              *)

Settled(f, v) == [first EXCEPT ![f] = [value |-> v, sends |-> @.sends + 1]]

\* A line arrives and is emitted; the first settles the call. What was already
\* received is delivered even when the follow was stopped meanwhile.
Line(f) ==
    /\ at[f] = "streaming" /\ got[f] < MaxLines
    /\ got' = [got EXCEPT ![f] = @ + 1]
    /\ first' = IF got[f] = 0 THEN Settled(f, "ok") ELSE first
    /\ UNCHANGED <<of, follows, at, stopped, closed, failed, told, ends, sending>>

\* StreamRunLog returned: the Run ended, or the call was refused, the stream
\* broke, or the follow's context was cancelled.
StreamEnds(f) ==
    /\ at[f] = "streaming"
    /\ \E broken \in BOOLEAN : failed' = [failed EXCEPT ![f] = broken]
    /\ at' = [at EXCEPT ![f] = "ended"]
    /\ UNCHANGED <<of, follows, stopped, closed, got, first, told, ends, sending>>

\* A stopped follow that keeps a caller waiting for a line.
LeavesSaying(f) ==
    /\ at[f] = "ended" /\ Cancelled(f)
    /\ at' = [at EXCEPT ![f] = "leaving"]
    /\ UNCHANGED <<of, follows, stopped, closed, got, failed, first, told, ends, sending>>

\* A follow stopped or replaced leaves in silence, letting go of a caller still
\* waiting for a line.
LeavesSilently(f) ==
    /\ at[f] = "ended" /\ Cancelled(f)
    /\ first' = IF got[f] = 0 THEN Settled(f, "ok") ELSE first
    /\ at' = [at EXCEPT ![f] = "leaving"]
    /\ UNCHANGED <<of, follows, stopped, closed, got, failed, told, ends, sending>>

\* One that was not, as ctx.Err() had it, goes on to say how its log ended.
SeesItLives(f) ==
    /\ at[f] = "ended" /\ ~Cancelled(f)
    /\ at' = [at EXCEPT ![f] = "live"]
    /\ UNCHANGED <<of, follows, stopped, closed, got, failed, first, told, ends, sending>>

\* A failure refused to the caller and announced to the view.
RefusesAndTells(f) ==
    /\ at[f] = "live"
    /\ first' = IF got[f] = 0 THEN Settled(f, IF failed[f] THEN "error" ELSE "ok") ELSE first
    /\ at' = [at EXCEPT ![f] = "announcing"]
    /\ UNCHANGED <<of, follows, stopped, closed, got, failed, told, ends, sending>>

\* Nothing arrived: the caller is told, and a failure is not announced as well.
Refuses(f) ==
    /\ at[f] = "live"
    /\ first' = IF got[f] = 0 THEN Settled(f, IF failed[f] THEN "error" ELSE "ok") ELSE first
    /\ at' = [at EXCEPT ![f] = IF got[f] = 0 /\ failed[f] THEN "leaving" ELSE "announcing"]
    /\ UNCHANGED <<of, follows, stopped, closed, got, failed, told, ends, sending>>

\* The LogEnd event, which names the Run and not the follow.
Announces(f) ==
    /\ at[f] = "announcing"
    /\ ends' = [ends EXCEPT ![f] = @ + 1]
    /\ at' = [at EXCEPT ![f] = "leaving"]
    /\ UNCHANGED <<of, follows, stopped, closed, got, failed, first, told, sending>>

\* A goroutine that takes whatever is registered under its Run with it.
ForgetsTheRun(f) == [follows EXCEPT ![of[f]] = NoFollow]

\* Only its own entry: a replacement may be registered under the same Run.
Forgets(f) == IF follows[of[f]] = f THEN [follows EXCEPT ![of[f]] = NoFollow] ELSE follows

Leaves(f) ==
    /\ at[f] = "leaving"
    /\ follows' = Forgets(f)
    /\ at' = [at EXCEPT ![f] = "gone"]
    /\ UNCHANGED <<of, stopped, closed, got, failed, first, told, ends, sending>>

Goroutine(f) ==
    \/ Line(f) \/ StreamEnds(f) \/ LeavesSilently(f) \/ SeesItLives(f)
    \/ Refuses(f) \/ Announces(f) \/ Leaves(f)

-----------------------------------------------------------------------------
(* SendTo                                                                  *)

Sends ==
    /\ exchange = "none" /\ exchange' = "going"
    /\ UNCHANGED <<follow, announced, expired, sent>>

\* The daemon's first message carries the conversation.
Announced ==
    /\ exchange = "going" /\ ~announced /\ announced' = TRUE
    /\ UNCHANGED <<follow, exchange, expired, sent>>

\* The exchange ends, and takes the context both wait on with it.
ExchangeEnds ==
    /\ exchange = "going"
    /\ exchange' \in IF announced THEN {"ok", "error"} ELSE {"error"}
    /\ UNCHANGED <<follow, announced, expired, sent>>

Expires ==
    /\ exchange = "going" /\ ~expired /\ expired' = TRUE
    /\ UNCHANGED <<follow, announced, exchange, sent>>

\* A call that takes the failure or the end at its word.
TakesTheEnd == "error"

\* A failure or an end that is taken looks for the conversation first.
LooksFirst == IF announced THEN "id" ELSE "error"

\* The select takes any of what is ready.
SendReturns ==
    /\ exchange # "none" /\ sent = "nothing"
    /\ \/ announced /\ sent' = "id"
       \/ exchange = "error" /\ sent' = LooksFirst
       \/ (exchange \in {"ok", "error"} \/ expired \/ closed) /\ sent' = LooksFirst
    /\ UNCHANGED <<follow, announced, exchange, expired>>

SendTo == Sends \/ Announced \/ ExchangeEnds \/ Expires \/ SendReturns

Follows ==
    \/ \E f \in Stream : FollowLog(f) \/ Returns(f) \/ Goroutine(f)
    \/ \E r \in Run : StopLog(r)

Next == Follows \/ SendTo \/ Shutdown

Spec == Init /\ [][Next]_vars

-----------------------------------------------------------------------------
(* Properties                                                              *)

\* Every follow that still streams and that nobody cancelled is the one its Run is
\* registered with, so StopLog, a replacement and Shutdown can all reach it: a
\* follow that left did not take its replacement's entry (FollowLog's deferred
\* delete of only its own).
EveryFollowCanBeStopped ==
    \A f \in Stream :
        at[f] = "streaming" /\ ~Cancelled(f) => follows[of[f]] = f

\* A follow nobody cancelled says how its log ended once: as the caller's error, or
\* as an event after its lines, and never both (FollowLog's "refused here rather
\* than reported as an event").
EndIsToldOnce ==
    \A f \in Stream :
        /\ first[f].value = "error" => ends[f] = 0 /\ got[f] = 0
        /\ at[f] = "gone" /\ ~Cancelled(f) =>
              (first[f].value = "error") # (ends[f] = 1)

\* A send the daemon announced a conversation for is answered with it, although
\* the exchange had failed or ended by the time the call looked (SendTo's second
\* look at `opened`).
TellsWhichConversation ==
    [][announced /\ sent = "nothing" /\ sent' # "nothing" => sent' = "id"]_vars

\* A follow on its way out has let go of its caller, exactly once: one that was
\* stopped before a line came would leave it waiting, and a second word would not
\* fit the channel and hold the goroutine up (FollowLog's first, of one).
CallerIsLetGo ==
    \A f \in Stream :
        /\ first[f].sends <= 1
        /\ at[f] \in {"leaving", "gone"} => first[f].sends = 1

\* FALSE in the code. "A follow the frontend stopped or replaced ends silently:
\* nobody is listening" (desktop.go:34-37). FollowLog looks at the context once
\* after the stream ended, so a follow replaced just after it announces its end to
\* whoever follows the same Run now.
StoppedIsSilent ==
    [][\A f \in Stream : ends'[f] # ends[f] => ~Cancelled(f)]_vars

=============================================================================
