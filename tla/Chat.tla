-------------------------------- MODULE Chat --------------------------------
(***************************************************************************)
(* The chat: Send (internal/chat/send.go), which records what the user     *)
(* said, asks a model, carries out what it asks for and records the        *)
(* answer; runCommand and AnswerCommand (command.go), which let nothing    *)
(* run without consent; and the requests around them (daemon/chat.go).     *)
(*                                                                         *)
(* Exchanges run beside each other, in one Conversation too: nothing in    *)
(* the Service keeps them apart.  What is said is reduced to who said it   *)
(* and how much it is, a command to its name, and what only its directory  *)
(* can tell (an operand that leads out of it) to a link that comes and     *)
(* goes.                                                                   *)
(***************************************************************************)
EXTENDS Naturals, Sequences, FiniteSets, SequencesExt

CONSTANTS
  Conversation, Exchange,
  Command, Permitted,   \* what a model asks to run, and what the gate lets through
  Size,                 \* how much one message may be: an answer is up to maxAnswer
  MaxHistory,           \* maxHistory, of the same measure
  MaxTurns,             \* maxTurns
  MaxFaults,            \* bound: writes of the store that fail
  MaxLinks,             \* bound: how often the link comes or goes
  MaxRestarts           \* bound: how often the daemon restarts

ASSUME ChatAssumption ==
  /\ Permitted \subseteq Command
  /\ Size \subseteq Nat \ {0} /\ Size # {} /\ MaxHistory \in Nat \ {0} /\ MaxTurns \in Nat \ {0}
  /\ {MaxFaults, MaxLinks, MaxRestarts} \subseteq Nat

VARIABLES
  said,      \* chat_messages: each Conversation's, oldest first
  asking,    \* Service.asking: the commands that wait for an answer
  granted,   \* Service.granted
  blessed,   \* the Conversations a user told this daemon to stop asking in
  pc,        \* where each exchange is
  of,        \* the Conversation it is in
  cut,       \* its context is done: the caller hung up or the daemon is stopping
  turns,     \* turns it has taken
  history,   \* the roles of the request it sends
  text,      \* pieces of an answer arrived
  want,      \* the command in hand
  inbox,     \* the command's channel: the decision put in it
  word,      \* what the user decided about it
  clean,     \* its directory was sound at some moment since it was allowed
  linked,    \* an operand leads out of its directory
  links, faults, restarts

memVars   == <<asking, granted, blessed, restarts>>
cmdVars   == <<want, inbox, word, clean>>
locals    == <<text, cut, turns, history, cmdVars>>
worldVars == <<linked, links>>
storeVars == <<said, faults>>
vars == <<storeVars, memVars, pc, of, locals, worldVars>>

Role     == {"user", "assistant"}
Decision == {"once", "conversation", "refuse"}
Name     == Exchange \X (1..MaxTurns)        \* commandID: no two commands share one
None     == "none"

IdOf(e)   == <<e, turns[e]>>
Over      == {"away", "done", "gone"}
Active(e) == pc[e] \notin Over

Message   == [role : Role, by : Exchange, size : Size]

TypeOK ==
  /\ said \in [Conversation -> Seq(Message)]
  /\ asking \subseteq Name
  /\ granted \subseteq Conversation /\ blessed \subseteq Conversation
  /\ pc \in [Exchange -> Over \cup {"found", "opened", "turn", "streaming", "calling",
                                    "consent", "waiting", "allowed", "running", "ending"}]
  /\ of \in [Exchange -> Conversation] /\ cut \in [Exchange -> BOOLEAN]
  /\ turns \in [Exchange -> 0..MaxTurns] /\ history \in [Exchange -> Seq(Role)]
  /\ text \in [Exchange -> BOOLEAN]
  /\ want \in [Exchange -> Command \cup {None}]
  /\ inbox \in [Exchange -> Decision \cup {None}]
  /\ word \in [Exchange -> Decision \cup {None}]
  /\ clean \in [Exchange -> BOOLEAN] /\ linked \in BOOLEAN
  /\ links \in 0..MaxLinks /\ faults \in 0..MaxFaults /\ restarts \in 0..MaxRestarts

Blank(v) == [e \in Exchange |-> v]

Init ==
  /\ said = [c \in Conversation |-> <<>>]
  /\ asking = {} /\ granted = {} /\ blessed = {}
  /\ pc = Blank("away") /\ of \in [Exchange -> Conversation]
  /\ cut = Blank(FALSE) /\ turns = Blank(0) /\ history = Blank(<<>>)
  /\ text = Blank(FALSE)
  /\ want = Blank(None) /\ inbox = Blank(None) /\ word = Blank(None) /\ clean = Blank(FALSE)
  /\ linked = FALSE /\ links = 0 /\ faults = 0 /\ restarts = 0

Goes(e, to) == pc' = [pc EXCEPT ![e] = to]

\* A command's own variables, and then the exchange's, go with it.
Forgotten(v, gone, none) == [e \in Exchange |-> IF e \in gone THEN none ELSE v[e]]
DropCommand(gone) ==
  /\ want' = Forgotten(want, gone, None) /\ inbox' = Forgotten(inbox, gone, None)
  /\ word' = Forgotten(word, gone, None) /\ clean' = Forgotten(clean, gone, FALSE)
Drop(gone) ==
  /\ cut' = Forgotten(cut, gone, FALSE) /\ turns' = Forgotten(turns, gone, 0)
  /\ history' = Forgotten(history, gone, <<>>) /\ text' = Forgotten(text, gone, FALSE)
  /\ DropCommand(gone)
Returns(e) == Goes(e, "done") /\ Drop({e})

-----------------------------------------------------------------------------
(* Opening: what was said is recorded, then all of it is read back.         *)

\* The model is found among the providers and its key is read, or the caller is refused.
Send(e) ==
  /\ pc[e] = "away"
  /\ \/ Goes(e, "found") /\ UNCHANGED locals
     \/ Returns(e)
  /\ UNCHANGED <<storeVars, memVars, of, worldVars>>

Written(e, role, size) ==
  [said EXCEPT ![of[e]] = Append(@, [role |-> role, by |-> e, size |-> size])]

\* AddChatMessage and TouchConversation; either may fail, the second after the first.
Open(e) ==
  /\ pc[e] = "found"
  /\ \E recorded, fails \in BOOLEAN, size \in Size :
       /\ ~recorded => fails
       /\ fails => faults < MaxFaults
       /\ faults' = IF fails THEN faults + 1 ELSE faults
       /\ said' = IF recorded THEN Written(e, "user", size) ELSE said
       /\ IF fails THEN Returns(e) ELSE Goes(e, "opened") /\ UNCHANGED locals
  /\ UNCHANGED <<memVars, of, worldVars>>

\* Two turns of one role are one turn, and the first is the user's.
Shaped(roles) ==
  FoldLeft(LAMBDA out, role :
             IF out = <<>> THEN (IF role = "user" THEN <<role>> ELSE out)
             ELSE IF Last(out) = role THEN out ELSE Append(out, role),
           <<>>, roles)

\* The messages from one place to another are no more than a request may carry.
Fit(messages, i, k) ==
  FoldLeft(LAMBDA sum, m : sum + m.size, 0, SubSeq(messages, i, k)) <= MaxHistory

\* The most recent messages, up to what a request may carry, and the last of them
\* however much it is.
Oldest(messages) ==
  Min({k \in 1..Len(messages) : k = Len(messages) \/ Fit(messages, k, Len(messages))})
Recent(messages) ==
  [i \in 1..(Len(messages) + 1 - Oldest(messages)) |-> messages[Oldest(messages) + i - 1].role]

\* Mutant of Carried: what was cut is sent as it was found.
CarriedRaw(messages) == Recent(messages)

Carried(messages) == Shaped(Recent(messages))

\* ListChatMessages, and the first delta, which says which Conversation this is.
Listen(e) ==
  /\ pc[e] = "opened"
  /\ \/ /\ history' = [history EXCEPT ![e] = Carried(said[of[e]])]
        /\ Goes(e, "turn") /\ UNCHANGED <<text, cut, turns, cmdVars>>
     \/ cut[e] /\ Returns(e)
  /\ UNCHANGED <<storeVars, memVars, of, worldVars>>

-----------------------------------------------------------------------------
(* converse: the model is asked until it answers without asking for a tool. *)

Ask(e) ==
  /\ pc[e] = "turn"
  /\ IF turns[e] < MaxTurns
     THEN turns' = [turns EXCEPT ![e] = @ + 1] /\ Goes(e, "streaming")
     ELSE turns' = turns /\ Goes(e, "ending")
  /\ UNCHANGED <<storeVars, memVars, of, text, cut, history, cmdVars, worldVars>>

streamFrame == <<storeVars, memVars, of, cut, turns, worldVars>>

\* A piece is kept before it is passed on; a caller that is gone ends the stream.
Piece(e) ==
  /\ pc[e] = "streaming" /\ ~text[e]
  /\ text' = [text EXCEPT ![e] = TRUE]
  /\ \/ UNCHANGED pc
     \/ cut[e] /\ Goes(e, "ending")
  /\ UNCHANGED <<streamFrame, history, cmdVars>>

\* An answer, or nothing Owl can read as one; or the provider refuses, breaks off,
\* runs out of requestTimeout or says more than maxAnswer.
Ends(e) ==
  /\ pc[e] = "streaming" /\ Goes(e, "ending")
  /\ UNCHANGED <<streamFrame, text, history, cmdVars>>

\* What the model asked for is a turn of its own, and goes back with the result.
CallsCommand(e) ==
  /\ pc[e] = "streaming" /\ Goes(e, "calling")
  /\ \E c \in Command : want' = [want EXCEPT ![e] = c]
  /\ history' = [history EXCEPT ![e] = Append(@, "assistant")]
  /\ UNCHANGED <<streamFrame, text, inbox, word, clean>>

\* The other tools only read, and a call that cannot be answered is answered with why.
CallsTool(e) ==
  /\ pc[e] = "streaming" /\ Goes(e, "turn")
  /\ history' = [history EXCEPT ![e] = @ \o <<"assistant", "user">>]
  /\ UNCHANGED <<streamFrame, text, cmdVars>>

-----------------------------------------------------------------------------
(* runCommand and consent.                                                  *)

commandFrame == <<storeVars, of, text, cut, turns, worldVars>>

\* What came of a command, or why it did not run, goes back to the model.
Tells(e) ==
  /\ history' = [history EXCEPT ![e] = Append(@, "user")]
  /\ Goes(e, "turn") /\ DropCommand({e})
Stops(e)     == Goes(e, "ending") /\ DropCommand({e}) /\ UNCHANGED history
Proceeds(e, to) == Goes(e, to) /\ UNCHANGED <<history, want>>
Allows(e) == /\ Proceeds(e, "allowed") /\ UNCHANGED <<inbox, word>>
             /\ clean' = [clean EXCEPT ![e] = ~linked]

\* Parse, Check, Where, Argv and CheckIn.
Gate(e) ==
  /\ pc[e] = "calling"
  /\ IF want[e] \in Permitted /\ ~linked
     THEN Proceeds(e, "consent") /\ UNCHANGED <<inbox, word, clean>>
     ELSE Tells(e)
  /\ UNCHANGED <<commandFrame, memVars>>

\* Mutant of Ungranted: a grant given anywhere is a grant.
UngrantedAnywhere(e) == granted = {}

Ungranted(e) == of[e] \notin granted

Granted(e) ==
  /\ pc[e] = "consent" /\ ~Ungranted(e)
  /\ Allows(e)
  /\ UNCHANGED <<commandFrame, memVars>>

\* The user is shown what will run, under the name the answer must carry.
Propose(e) ==
  /\ pc[e] = "consent" /\ Ungranted(e)
  /\ \/ /\ Proceeds(e, "waiting") /\ asking' = asking \cup {IdOf(e)}
        /\ UNCHANGED <<inbox, word, clean>>
     \/ cut[e] /\ Stops(e) /\ UNCHANGED asking
  /\ UNCHANGED <<commandFrame, granted, blessed, restarts>>

\* AnswerCommand: off the map under the lock, then into the channel.
AnswerCommand(n, d) ==
  LET waits == pc[n[1]] = "waiting" /\ n = IdOf(n[1]) IN
  /\ n \in asking /\ asking' = asking \ {n}
  /\ inbox' = IF waits THEN [inbox EXCEPT ![n[1]] = d] ELSE inbox
  /\ word' = IF waits THEN [word EXCEPT ![n[1]] = d] ELSE word
  /\ blessed' = IF d = "conversation" THEN blessed \cup {of[n[1]]} ELSE blessed
  /\ UNCHANGED <<commandFrame, granted, restarts, pc, history, want, clean>>

\* Mutant of Forget: the entry stays for an answer that may come yet.
ForgetLater(e) == asking

\* The deferred delete.
Forget(e) == asking \ {IdOf(e)}

\* The select of consent, one arm each.  With several ready any may be taken.
Answered(e) ==
  /\ pc[e] = "waiting" /\ inbox[e] # None
  /\ asking' = Forget(e)
  /\ granted' = IF inbox[e] = "conversation" THEN granted \cup {of[e]} ELSE granted
  /\ IF inbox[e] = "refuse" THEN Tells(e) ELSE Allows(e)
  /\ UNCHANGED <<commandFrame, blessed, restarts>>

\* Mutant of WindowCloses: what nobody answered is taken for allowed.
WindowAllows(e) ==
  /\ pc[e] = "waiting" /\ asking' = Forget(e)
  /\ Allows(e)
  /\ UNCHANGED <<commandFrame, granted, blessed, restarts>>

WindowCloses(e) ==
  /\ pc[e] = "waiting" /\ asking' = Forget(e)
  /\ Tells(e)
  /\ UNCHANGED <<commandFrame, granted, blessed, restarts>>

CutWhileWaiting(e) ==
  /\ pc[e] = "waiting" /\ cut[e] /\ asking' = Forget(e)
  /\ Stops(e)
  /\ UNCHANGED <<commandFrame, granted, blessed, restarts>>

\* Mutant of Recheck: what was checked before the wait is not checked again.
RecheckNothing(e) ==
  /\ pc[e] = "allowed"
  /\ Proceeds(e, "running") /\ UNCHANGED <<inbox, word, clean>>
  /\ UNCHANGED <<commandFrame, memVars>>

\* A wait is time for the directory to have changed.
Recheck(e) ==
  /\ pc[e] = "allowed"
  /\ IF linked THEN Tells(e) ELSE Proceeds(e, "running") /\ UNCHANGED <<inbox, word, clean>>
  /\ UNCHANGED <<commandFrame, memVars>>

\* It ends, or Timeout or the context ends it; a caller that is gone is not shown it.
RunCommand(e) ==
  /\ pc[e] = "running"
  /\ Tells(e) \/ (cut[e] /\ Stops(e))
  /\ UNCHANGED <<commandFrame, memVars>>

-----------------------------------------------------------------------------
\* Mutant of Keep: the answer is written in the context of the exchange.
KeepIfThere(e) ==
  /\ pc[e] = "ending" /\ Returns(e)
  /\ \E size \in Size : said' = IF text[e] /\ ~cut[e] THEN Written(e, "assistant", size) ELSE said
  /\ UNCHANGED <<faults, memVars, of, worldVars>>

\* What arrived is what the user saw, so it is written down, caller or no caller.
Keep(e) ==
  /\ pc[e] = "ending" /\ Returns(e)
  /\ \E fails \in BOOLEAN, size \in Size :
       /\ fails => text[e] /\ faults < MaxFaults
       /\ faults' = IF fails THEN faults + 1 ELSE faults
       /\ said' = IF text[e] /\ ~fails THEN Written(e, "assistant", size) ELSE said
  /\ UNCHANGED <<memVars, of, worldVars>>

\* The caller hangs up, or the daemon's context ends.
HangUp(e) ==
  /\ Active(e) /\ ~cut[e] /\ cut' = [cut EXCEPT ![e] = TRUE]
  /\ UNCHANGED <<storeVars, memVars, pc, of, text, turns, history, cmdVars, worldVars>>

\* Mutant of Remembered: the grants are read back from somewhere.
RememberedGrants == granted

\* What a daemon that starts knows of what was granted: it is kept nowhere.
Remembered == {}

\* The daemon dies and another starts: what was in memory is forgotten.
Restart ==
  /\ restarts < MaxRestarts /\ restarts' = restarts + 1
  /\ asking' = {} /\ granted' = Remembered /\ blessed' = {}
  /\ pc' = [e \in Exchange |-> IF Active(e) THEN "gone" ELSE pc[e]]
  /\ Drop({e \in Exchange : Active(e)})
  /\ UNCHANGED <<storeVars, of, worldVars>>

\* Somebody works in the directory.
Relink ==
  /\ links < MaxLinks /\ links' = links + 1 /\ linked' = ~linked
  /\ clean' = [e \in Exchange |-> clean[e] \/ (pc[e] = "allowed" /\ ~linked')]
  /\ UNCHANGED <<storeVars, memVars, pc, of, text, cut, turns, history, want, inbox, word>>

Step(e) ==
  \/ Open(e) \/ Listen(e) \/ Ask(e) \/ Piece(e) \/ Ends(e) \/ CallsCommand(e) \/ CallsTool(e)
  \/ Gate(e) \/ Granted(e) \/ Propose(e) \/ Answered(e) \/ WindowCloses(e)
  \/ CutWhileWaiting(e) \/ Recheck(e) \/ RunCommand(e) \/ Keep(e)

Next ==
  \/ \E e \in Exchange : Send(e) \/ Step(e) \/ HangUp(e)
  \/ \E n \in Name, d \in Decision : AnswerCommand(n, d)
  \/ Restart \/ Relink

Spec == Init /\ [][Next]_vars

-----------------------------------------------------------------------------
\* A command runs only if a person allowed it, under its own name or for the rest of
\* its Conversation and in this daemon's life, and the gate did (runCommand, consent).
ConsentGiven ==
  \A e \in Exchange : pc[e] \in {"allowed", "running"} =>
    /\ word[e] \in {"once", "conversation"} \/ of[e] \in blessed
    /\ want[e] \in Permitted

\* A command on Service.asking is one an exchange is waiting for, so an answer that
\* is accepted always has somebody to reach (consent's deferred delete).
NothingLeftAsking ==
  \A n \in asking : pc[n[1]] = "waiting" /\ n = IdOf(n[1]) /\ inbox[n[1]] = None

\* Nothing runs in a directory that led out of itself from the moment the command was
\* allowed until it ran (the second CheckIn of runCommand).
LookedAtAgain == \A e \in Exchange : pc[e] = "running" => clean[e]

\* Others answered in its Conversation between its question and its reading back, and
\* so much that the question is not carried any more.
Drowned(e) ==
  LET its == said[of[e]] IN
  \E i, k \in 1..Len(its) :
    /\ its[i].role = "user" /\ its[i].by = e
    /\ \E l \in (i + 1)..k : its[l].role = "assistant"
    /\ ~Fit(its, i, k)

\* The user never speaks twice in a request, whatever was cut from it and whatever
\* answers never arrived, and opens it unless its question was drowned (shaped).
UserOpensAndWaits ==
  \A e \in Exchange : pc[e] = "streaming" =>
     /\ \A i \in 1..(Len(history[e]) - 1) : {history[e][i], history[e][i + 1]} # {"user"}
     /\ Drowned(e) \/ (history[e] # <<>> /\ Head(history[e]) = "user")

\* An exchange asks before it runs anything, lets nobody answer what nobody waits for,
\* and shows the provider a conversation it will take, but for the one case above.
ExchangeIsSound == ConsentGiven /\ NothingLeftAsking /\ LookedAtAgain /\ UserOpensAndWaits

\* What a user saw of an answer is in its Conversation once Send returns, whether or
\* not the user is still there, unless the store refused it (Send's WithoutCancel).
SeenIsKept ==
  [][\A e \in Exchange : Active(e) /\ text[e] /\ pc'[e] = "done" =>
       \/ Last(said'[of[e]]).role = "assistant" /\ Last(said'[of[e]]).by = e
       \/ faults' > faults]_vars

\* send.go:209-216: what shaped leaves is "a conversation a provider will take: it
\* starts with what the user said".
StartsWithTheUser ==
  \A e \in Exchange : pc[e] = "streaming" => history[e] # <<>> /\ Head(history[e]) = "user"

\* anthropic.go:120-123: a request arrives "starting with the user, one turn to a
\* role - because open shapes it there".
OneTurnToARole ==
  \A e \in Exchange : pc[e] = "streaming" =>
     \A i \in 1..(Len(history[e]) - 1) : history[e][i] # history[e][i + 1]
=============================================================================
