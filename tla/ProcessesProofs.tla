--------------------------- MODULE ProcessesProofs ---------------------------
(***************************************************************************)
(* What MCProcesses checks of the processes Owl starts, proved for any     *)
(* number of followers, lines, commands, Runs and follows: the three       *)
(* components it puts side by side have each an inductive invariant of     *)
(* their own, and a step of the composition is a step of one of them or    *)
(* leaves it as it was.                                                    *)
(***************************************************************************)
EXTENDS MCProcesses, SequenceTheorems, FiniteSetTheorems, TLAPS

-----------------------------------------------------------------------------
(* RunOutput.  What the log holds, what was published of it, and what each *)
(* follower has had or still has waiting for it.                           *)

FollowerRec ==
  [at : {"away", "asked", "found", "reading", "following", "whole", "behind"},
   path : BOOLEAN, told : BOOLEAN, sub : {"none", "live", "closed", "dropped"},
   buf : Seq(Line), sent : 0..MaxLines, got : Seq(Line)]

Typed ==
  /\ row \in {"none", "inserted", "logged"}
  /\ agent \in {"starting", "running", "exited", "reaped"}
  /\ child \in {"none", "meek", "deaf"} /\ holds \in BOOLEAN /\ departed \in BOOLEAN
  /\ said \in 0..MaxLines /\ line \in 0..MaxLines
  /\ stopper \in {"watching", "terminating", "polling", "over"} /\ asked \in BOOLEAN
  /\ reader \in {"off", "scan", "write", "publish", "drain", "wait", "stopping",
                 "unmap", "close", "over"}
  /\ file \in Seq(Line) /\ lost \subseteq Line
  /\ broker \in {"none", "open", "unmapped", "closed"}
  /\ follower \in [Follower -> FollowerRec]

\* How many lines the log was asked to hold, and how many were fanned out.
Written   == IF reader = "write" THEN line - 1 ELSE line
Published == IF reader \in {"write", "publish"} THEN line - 1 ELSE line

\* The reader is behind the Agent, and the log, if no line was lost, is what it read.
Reads ==
  /\ line <= said
  /\ reader \in {"write", "publish"} => line > 0
  /\ Len(file) <= Written
  /\ lost = {} => Len(file) = Written /\ Counted(file)

\* The row names the log before there is anyone to subscribe to, and the broker is
\* closed last.
Announcing ==
  /\ broker # "none" => row = "logged"
  /\ reader # "off" => broker # "none"
  /\ broker = "unmapped" <=> reader = "close"
  /\ broker = "closed" <=> reader = "over"

\* A cancelled Agent's stopper is at it or is done, and then nothing is left.
Stopping ==
  /\ asked => stopper # "watching"
  /\ asked /\ stopper = "over" => child = "none"
  /\ reader \in {"unmap", "close", "over"} => stopper = "over"

\* What a follower holds, by how far its call has come.
Subscribed(f) ==
  LET w == follower[f] IN
  /\ w.told => w.path
  /\ w.at \in {"away", "asked", "found"} => w.sub = "none"
  /\ w.at = "following" => w.sub # "none"
  /\ w.at \in {"away", "asked", "found", "reading"} => w.got = <<>>
  /\ w.sub = "none" => w.buf = <<>>
  /\ w.sub = "closed" => broker = "closed"
  /\ w.sub = "live" => broker # "closed"
  /\ w.told /\ w.at # "away" => broker # "none"
  /\ w.told /\ w.at = "reading" /\ w.sub = "none" => broker \in {"unmapped", "closed"}

\* What waits for a follower is one run of lines, and for one that was not dropped
\* it is the last that were published.
Queued(f) ==
  LET w == follower[f] IN
  /\ Len(w.buf) <= Published
  /\ \A i \in 1..Len(w.buf) : w.buf[i] = w.buf[1] + i - 1 /\ w.buf[i] <= Published
  /\ w.sub \in {"live", "closed"} =>
       \A i \in 1..Len(w.buf) : w.buf[i] = Published - Len(w.buf) + i

\* What a follower has had is a beginning of the log, and what waits for it begins
\* no later than where that ends.
Heard(f) ==
  LET w == follower[f] IN
  lost = {} /\ w.path =>
    /\ Counted(w.got)
    /\ w.at = "following" =>
         /\ w.sent = Len(w.got) /\ w.sent <= Len(file)
         /\ w.buf # <<>> => w.buf[1] <= w.sent + 1
         /\ w.sub \in {"live", "closed"} => Published - Len(w.buf) <= w.sent

\* One whose stream ended without a word has had all of it.
Ended(f) ==
  LET w == follower[f] IN
  w.at = "whole" /\ w.told => /\ reader \in {"close", "over"}
                              /\ lost = {} => w.got = file

OutInv == /\ Typed /\ Reads /\ Announcing /\ Stopping
          /\ \A f \in Follower : Subscribed(f) /\ Queued(f) /\ Heard(f) /\ Ended(f)

-----------------------------------------------------------------------------
(* The kinds of steps, as the log and the followers see them.              *)

\* A follower that is away has an empty record of its kind.
LEMMA EmptyIsTyped == <<>> \in Seq(Line) /\ Len(<<>>) = 0 /\ Away \in FollowerRec
BY OutputAssumption DEF Away, FollowerRec

\* One call of Log moves, and no other.
Alone(f) == /\ \A g \in Follower : g # f => follower'[g] = follower[g]
            /\ UNCHANGED <<row, procVars, reader, logVars, broker>>

\* A follower's record is replaced, and everything else stays.
LEMMA BecomesDoes ==
  ASSUME Typed, NEW f \in Follower, NEW rec \in FollowerRec,
         Becomes(f, rec), UNCHANGED followFrame
  PROVE  /\ follower' \in [Follower -> FollowerRec] /\ follower'[f] = rec /\ Alone(f)
BY DEF Typed, Becomes, Alone, followFrame

\* The record of a call of Log, field by field; each of its steps sets some of them.
Has(v, a, p, t, s, b, n, g) ==
  /\ v \in FollowerRec
  /\ v.at = a /\ v.path = p /\ v.told = t /\ v.sub = s
  /\ v.buf = b /\ v.sent = n /\ v.got = g

At == {"away", "asked", "found", "reading", "following", "whole", "behind"}
Sub == {"none", "live", "closed", "dropped"}

\* The record of one that asked: what it found in the row, and nothing else yet.
LEMMA AskedRecord ==
  ASSUME NEW p \in BOOLEAN, NEW t \in BOOLEAN
  PROVE  Has([Away EXCEPT !.at = "asked", !.path = p, !.told = t],
             "asked", p, t, "none", <<>>, 0, <<>>)
<1>1. ASSUME NEW v, v = [Away EXCEPT !.at = "asked", !.path = p, !.told = t]
      PROVE  Has(v, "asked", p, t, "none", <<>>, 0, <<>>)
  BY <1>1, OutputAssumption, EmptyIsTyped DEF Has, FollowerRec, Away
<1> QED BY <1>1

\* What replacing one or more fields of a follower's record leaves of the others.
LEMMA RecordSteps ==
  ASSUME NEW w \in FollowerRec, NEW a \in At, NEW s \in Sub, NEW b \in Seq(Line),
         NEW n \in 0..MaxLines, NEW g \in Seq(Line)
  PROVE  /\ Has([w EXCEPT !.at = a], a, w.path, w.told, w.sub, w.buf, w.sent, w.got)
         /\ Has([w EXCEPT !.sub = s], w.at, w.path, w.told, s, w.buf, w.sent, w.got)
         /\ Has([w EXCEPT !.buf = b], w.at, w.path, w.told, w.sub, b, w.sent, w.got)
         /\ Has([w EXCEPT !.at = a, !.sub = s], a, w.path, w.told, s, w.buf, w.sent, w.got)
         /\ Has([w EXCEPT !.got = g, !.sent = n, !.at = a],
                a, w.path, w.told, w.sub, w.buf, n, g)
         /\ Has([w EXCEPT !.buf = b, !.sent = n, !.got = g],
                w.at, w.path, w.told, w.sub, b, n, g)
<1>1. ASSUME NEW v, v = [w EXCEPT !.at = a]
      PROVE  Has(v, a, w.path, w.told, w.sub, w.buf, w.sent, w.got)
  BY <1>1 DEF Has, FollowerRec, At
<1>2. ASSUME NEW v, v = [w EXCEPT !.sub = s]
      PROVE  Has(v, w.at, w.path, w.told, s, w.buf, w.sent, w.got)
  BY <1>2 DEF Has, FollowerRec, Sub
<1>3. ASSUME NEW v, v = [w EXCEPT !.buf = b]
      PROVE  Has(v, w.at, w.path, w.told, w.sub, b, w.sent, w.got)
  BY <1>3 DEF Has, FollowerRec
<1>4. ASSUME NEW v, v = [w EXCEPT !.at = a, !.sub = s]
      PROVE  Has(v, a, w.path, w.told, s, w.buf, w.sent, w.got)
  BY <1>4 DEF Has, FollowerRec, At, Sub
<1>5. ASSUME NEW v, v = [w EXCEPT !.got = g, !.sent = n, !.at = a]
      PROVE  Has(v, a, w.path, w.told, w.sub, w.buf, n, g)
  BY <1>5 DEF Has, FollowerRec, At
<1>6. ASSUME NEW v, v = [w EXCEPT !.buf = b, !.sent = n, !.got = g]
      PROVE  Has(v, w.at, w.path, w.told, w.sub, b, n, g)
  BY <1>6 DEF Has, FollowerRec
<1> QED BY <1>1, <1>2, <1>3, <1>4, <1>5, <1>6

\* A follower's fields are of their kinds.
LEMMA FieldsTyped ==
  ASSUME Typed, NEW f \in Follower
  PROVE  /\ follower[f] \in FollowerRec /\ follower[f].at \in At
         /\ follower[f].path \in BOOLEAN /\ follower[f].told \in BOOLEAN
         /\ follower[f].sub \in Sub
         /\ follower[f].buf \in Seq(Line) /\ follower[f].sent \in 0..MaxLines
         /\ follower[f].got \in Seq(Line)
BY DEF Typed, FollowerRec, At, Sub

\* What a call of Log does to its own record, and that it does nothing else.
Does(f, a, p, t, s, b, n, g) ==
  /\ follower' \in [Follower -> FollowerRec] /\ Alone(f)
  /\ Has(follower'[f], a, p, t, s, b, n, g)

\* Log reads the row: whether it names a log, and whether there is a broker behind it.
LEMMA ReadRowDoes ==
  ASSUME Typed, NEW f \in Follower, ReadRow(f)
  PROVE  /\ row # "none"
         /\ \E p, t \in BOOLEAN :
              /\ p <=> row = "logged"
              /\ t <=> broker # "none"
              /\ Does(f, "asked", p, t, "none", <<>>, 0, <<>>)
<1>0. PICK p \in BOOLEAN, t \in BOOLEAN : p = (row = "logged") /\ t = (broker # "none")
  OBVIOUS
<1> DEFINE v == [Away EXCEPT !.at = "asked", !.path = p, !.told = t]
<1>1. Has(v, "asked", p, t, "none", <<>>, 0, <<>>)
  BY AskedRecord
<1>2. Becomes(f, v) /\ UNCHANGED followFrame /\ row # "none"
  BY <1>0 DEF ReadRow
<1> HIDE DEF v
<1>3. Does(f, "asked", p, t, "none", <<>>, 0, <<>>)
  BY <1>1, <1>2, BecomesDoes DEF Does, Has
<1> QED BY <1>0, <1>2, <1>3

\* Log looks for the broker, and goes on with or without one.
LEMMA FindBrokerDoes ==
  ASSUME Typed, NEW f \in Follower, FindBroker(f)
  PROVE  /\ follower[f].at = "asked"
         /\ Does(f, IF broker = "open" THEN "found" ELSE "reading", follower[f].path,
                 follower[f].told, follower[f].sub, follower[f].buf, follower[f].sent,
                 follower[f].got)
<1> DEFINE a == IF broker = "open" THEN "found" ELSE "reading"
           v == [follower[f] EXCEPT !.at = a]
<1>1. a \in At
  BY DEF At
<1>2. Becomes(f, v) /\ UNCHANGED followFrame /\ follower[f].at = "asked"
  BY DEF FindBroker, Is
<1> HIDE DEF a
<1>3. Has(v, a, follower[f].path, follower[f].told, follower[f].sub,
          follower[f].buf, follower[f].sent, follower[f].got)
  BY <1>1, FieldsTyped, RecordSteps
<1> HIDE DEF v
<1>4. Does(f, a, follower[f].path, follower[f].told, follower[f].sub,
          follower[f].buf, follower[f].sent, follower[f].got)
  BY <1>2, <1>3, BecomesDoes DEF Does, Has
<1> QED BY <1>2, <1>4 DEF a

\* Log subscribes; a broker that was closed by then ends the subscription at once.
LEMMA SubscribeDoes ==
  ASSUME Typed, NEW f \in Follower, Subscribe(f)
  PROVE  /\ follower[f].at = "found"
         /\ Does(f, "reading", follower[f].path, follower[f].told,
                 IF broker = "closed" THEN "closed" ELSE "live",
                 follower[f].buf, follower[f].sent, follower[f].got)
<1> DEFINE s == IF broker = "closed" THEN "closed" ELSE "live"
           v == [follower[f] EXCEPT !.at = "reading", !.sub = s]
<1>1. "reading" \in At /\ s \in Sub
  BY DEF At, Sub
<1>2. Becomes(f, v) /\ UNCHANGED followFrame /\ follower[f].at = "found"
  BY DEF Subscribe, Is
<1> HIDE DEF s
<1>3. Has(v, "reading", follower[f].path, follower[f].told, s, follower[f].buf,
          follower[f].sent, follower[f].got)
  BY <1>1, FieldsTyped, RecordSteps
<1> HIDE DEF v
<1>4. Does(f, "reading", follower[f].path, follower[f].told, s, follower[f].buf,
          follower[f].sent, follower[f].got)
  BY <1>2, <1>3, BecomesDoes DEF Does, Has
<1> QED BY <1>2, <1>4 DEF s

\* Log sends what the file holds, which is nothing if the row named none.
LEMMA ReadFileDoes ==
  ASSUME Typed, Reads, NEW f \in Follower, ReadFile(f)
  PROVE  /\ follower[f].at = "reading"
         /\ \E lines \in {file, <<>>} :
              /\ follower[f].path => lines = file
              /\ Len(lines) \in 0..MaxLines
              /\ Does(f, IF follower[f].sub = "none" THEN "whole" ELSE "following",
                      follower[f].path, follower[f].told, follower[f].sub,
                      follower[f].buf, Len(lines), lines)
<1> DEFINE lines == IF follower[f].path THEN file ELSE <<>>
           a == IF follower[f].sub = "none" THEN "whole" ELSE "following"
           v == [follower[f] EXCEPT !.got = lines, !.sent = Len(lines), !.at = a]
<1>0. Len(file) \in 0..MaxLines /\ file \in Seq(Line)
  BY OutputAssumption DEF Typed, Reads, Written
<1>1. /\ a \in At /\ lines \in Seq(Line) /\ Len(lines) \in 0..MaxLines
      /\ lines \in {file, <<>>} /\ (follower[f].path => lines = file)
  BY <1>0, EmptyIsTyped, OutputAssumption DEF At
<1>2. Becomes(f, v) /\ UNCHANGED followFrame /\ follower[f].at = "reading"
  BY DEF ReadFile, Is
<1> HIDE DEF a, lines
<1>3. Has(v, a, follower[f].path, follower[f].told, follower[f].sub, follower[f].buf,
          Len(lines), lines)
  BY <1>1, FieldsTyped, RecordSteps
<1> HIDE DEF v
<1>4. Does(f, a, follower[f].path, follower[f].told, follower[f].sub, follower[f].buf,
           Len(lines), lines)
  BY <1>2, <1>3, BecomesDoes DEF Does, Has
<1> QED BY <1>1, <1>2, <1>4 DEF a

\* Log takes the next line from its queue, and sends it unless the file had it.
LEMMA FollowDoes ==
  ASSUME Typed, NEW f \in Follower, Follow(f)
  PROVE  /\ follower[f].at = "following" /\ follower[f].buf # <<>>
         /\ LET n == Head(follower[f].buf) IN
            IF n <= follower[f].sent
            THEN Does(f, "following", follower[f].path, follower[f].told, follower[f].sub,
                      Tail(follower[f].buf), follower[f].sent, follower[f].got)
            ELSE Does(f, "following", follower[f].path, follower[f].told, follower[f].sub,
                      Tail(follower[f].buf), n, Append(follower[f].got, n))
<1> DEFINE n == Head(follower[f].buf)
           b == Tail(follower[f].buf)
           g == Append(follower[f].got, n)
           v == [follower[f] EXCEPT !.buf = b]
           w == [follower[f] EXCEPT !.buf = b, !.sent = n, !.got = g]
<1>1. /\ UNCHANGED followFrame /\ follower[f].at = "following" /\ follower[f].buf # <<>>
      /\ IF n <= follower[f].sent THEN Becomes(f, v) ELSE Becomes(f, w)
  BY DEF Follow, Is
<1>2. n \in Line /\ b \in Seq(Line)
  BY <1>1, FieldsTyped, HeadTailProperties
<1>3. n \in 0..MaxLines /\ g \in Seq(Line)
  BY <1>2, FieldsTyped, AppendProperties DEF Line
<1> HIDE DEF n, b, g
<1>4. /\ Has(v, follower[f].at, follower[f].path, follower[f].told, follower[f].sub, b,
             follower[f].sent, follower[f].got)
      /\ Has(w, follower[f].at, follower[f].path, follower[f].told, follower[f].sub, b,
             n, g)
  BY <1>2, <1>3, FieldsTyped, RecordSteps
<1> HIDE DEF v, w
<1>5. CASE n <= follower[f].sent
  <2>1. Does(f, "following", follower[f].path, follower[f].told, follower[f].sub, b,
             follower[f].sent, follower[f].got)
    BY <1>1, <1>4, <1>5, BecomesDoes DEF Does, Has
  <2> QED BY <1>1, <1>5, <2>1 DEF n, b
<1>6. CASE ~(n <= follower[f].sent)
  <2>1. Does(f, "following", follower[f].path, follower[f].told, follower[f].sub, b, n, g)
    BY <1>1, <1>4, <1>6, BecomesDoes DEF Does, Has
  <2> QED BY <1>1, <1>6, <2>1 DEF n, b, g
<1> QED BY <1>5, <1>6

\* A call whose queue is empty and whose subscription is over ends, and says which way.
LEMMA EndOfStreamDoes ==
  ASSUME Typed, NEW f \in Follower, EndOfStream(f)
  PROVE  /\ follower[f].at = "following" /\ follower[f].buf = <<>>
         /\ follower[f].sub # "live"
         /\ Does(f, IF follower[f].sub = "dropped" THEN "behind" ELSE "whole",
                 follower[f].path, follower[f].told, follower[f].sub, follower[f].buf,
                 follower[f].sent, follower[f].got)
<1> DEFINE a == IF follower[f].sub = "dropped" THEN "behind" ELSE "whole"
           v == [follower[f] EXCEPT !.at = a]
<1>1. a \in At
  BY DEF At
<1>2. /\ Becomes(f, v) /\ UNCHANGED followFrame /\ follower[f].at = "following"
      /\ follower[f].buf = <<>> /\ follower[f].sub # "live"
  BY DEF EndOfStream, Is, Live
<1> HIDE DEF a
<1>3. Has(v, a, follower[f].path, follower[f].told, follower[f].sub, follower[f].buf,
          follower[f].sent, follower[f].got)
  BY <1>1, FieldsTyped, RecordSteps
<1> HIDE DEF v
<1>4. Does(f, a, follower[f].path, follower[f].told, follower[f].sub, follower[f].buf,
           follower[f].sent, follower[f].got)
  BY <1>2, <1>3, BecomesDoes DEF Does, Has
<1> QED BY <1>2, <1>4 DEF a

\* A caller that hangs up leaves nothing behind.
LEMMA HangUpDoes ==
  ASSUME Typed, NEW f \in Follower, HangUp(f)
  PROVE  Does(f, "away", FALSE, FALSE, "none", <<>>, 0, <<>>)
<1>1. Has(Away, "away", FALSE, FALSE, "none", <<>>, 0, <<>>)
  BY EmptyIsTyped DEF Has, Away
<1>2. Becomes(f, Away) /\ UNCHANGED followFrame
  BY DEF HangUp
<1> QED BY <1>1, <1>2, EmptyIsTyped, BecomesDoes DEF Does

\* What the broker does to every follower at once.
LEMMA PublishDoes ==
  ASSUME Typed, Reads, Publish
  PROVE  /\ reader = "publish" /\ reader' = "scan"
         /\ UNCHANGED <<row, procVars, logVars, broker>>
         /\ follower' \in [Follower -> FollowerRec]
         /\ \A f \in Follower :
              \/ follower[f].sub # "live" /\ follower'[f] = follower[f]
              \/ /\ follower[f].sub = "live"
                 /\ Has(follower'[f], follower[f].at, follower[f].path, follower[f].told,
                        "dropped", follower[f].buf, follower[f].sent, follower[f].got)
              \/ /\ follower[f].sub = "live"
                 /\ Has(follower'[f], follower[f].at, follower[f].path, follower[f].told,
                        follower[f].sub, Append(follower[f].buf, line), follower[f].sent,
                        follower[f].got)
<1>1. line \in Line
  BY DEF Typed, Reads, Publish, Line
<1>2. ASSUME NEW f \in Follower
      PROVE  /\ \/ follower[f].sub # "live" /\ follower'[f] = follower[f]
                \/ /\ follower[f].sub = "live"
                   /\ Has(follower'[f], follower[f].at, follower[f].path, follower[f].told,
                          "dropped", follower[f].buf, follower[f].sent, follower[f].got)
                \/ /\ follower[f].sub = "live"
                   /\ Has(follower'[f], follower[f].at, follower[f].path,
                          follower[f].told, follower[f].sub,
                          Append(follower[f].buf, line), follower[f].sent, follower[f].got)
             /\ follower'[f] \in FollowerRec
  <2> DEFINE b == Append(follower[f].buf, line)
             v == [follower[f] EXCEPT !.sub = "dropped"]
             w == [follower[f] EXCEPT !.buf = b]
  <2>1. b \in Seq(Line) /\ "dropped" \in Sub
    BY <1>1, FieldsTyped, AppendProperties DEF Sub
  <2>2. \/ follower[f].sub # "live" /\ follower'[f] = follower[f]
        \/ follower[f].sub = "live" /\ follower'[f] = v
        \/ follower[f].sub = "live" /\ follower'[f] = w
    BY DEF Publish, Live, Full
  <2> HIDE DEF b
  <2>3. /\ Has(v, follower[f].at, follower[f].path, follower[f].told, "dropped",
               follower[f].buf, follower[f].sent, follower[f].got)
        /\ Has(w, follower[f].at, follower[f].path, follower[f].told, follower[f].sub, b,
               follower[f].sent, follower[f].got)
    BY <2>1, FieldsTyped, RecordSteps
  <2> HIDE DEF v, w
  <2>4. follower'[f] \in FollowerRec
    BY <2>2, <2>3, FieldsTyped DEF Has
  <2> QED BY <2>2, <2>3, <2>4 DEF b
<1>3. \E F : follower' = [f \in Follower |-> F[f]]
  <2> DEFINE F == [f \in Follower |->
                     CASE Live(f) /\ Full(f)  -> [follower[f] EXCEPT !.sub = "dropped"]
                       [] Live(f) /\ ~Full(f) -> [follower[f] EXCEPT !.buf = Append(@, line)]
                       [] OTHER               -> follower[f]]
  <2>1. follower' = F
    BY DEF Publish
  <2>2. F = [f \in Follower |-> F[f]]
    OBVIOUS
  <2> QED BY <2>1, <2>2
<1>4. follower' \in [Follower -> FollowerRec]
  BY <1>2, <1>3
<1> QED BY <1>2, <1>4 DEF Publish, readFrame, procVars

\* The broker's close ends every subscription that was live, and touches no queue.
LEMMA CloseBrokerDoes ==
  ASSUME Typed, CloseBroker
  PROVE  /\ reader = "close" /\ reader' = "over" /\ broker' = "closed"
         /\ UNCHANGED <<row, procVars, logVars>>
         /\ follower' \in [Follower -> FollowerRec]
         /\ \A f \in Follower :
              \/ follower[f].sub # "live" /\ follower'[f] = follower[f]
              \/ /\ follower[f].sub = "live"
                 /\ Has(follower'[f], follower[f].at, follower[f].path, follower[f].told,
                        "closed", follower[f].buf, follower[f].sent, follower[f].got)
<1>2. ASSUME NEW f \in Follower
      PROVE  /\ \/ follower[f].sub # "live" /\ follower'[f] = follower[f]
                \/ /\ follower[f].sub = "live"
                   /\ Has(follower'[f], follower[f].at, follower[f].path, follower[f].told,
                          "closed", follower[f].buf, follower[f].sent, follower[f].got)
             /\ follower'[f] \in FollowerRec
  <2> DEFINE v == [follower[f] EXCEPT !.sub = "closed"]
  <2>1. \/ follower[f].sub # "live" /\ follower'[f] = follower[f]
        \/ follower[f].sub = "live" /\ follower'[f] = v
    BY DEF CloseBroker, Live
  <2>2. Has(v, follower[f].at, follower[f].path, follower[f].told, "closed",
            follower[f].buf, follower[f].sent, follower[f].got)
    BY FieldsTyped, RecordSteps, ZenonT(30) DEF Sub
  <2> HIDE DEF v
  <2>4. follower'[f] \in FollowerRec
    BY <2>1, <2>2, FieldsTyped DEF Has
  <2> QED BY <2>1, <2>2, <2>4
<1>3. \E F : follower' = [f \in Follower |-> F[f]]
  <2> DEFINE F == [f \in Follower |->
                     IF Live(f) THEN [follower[f] EXCEPT !.sub = "closed"] ELSE follower[f]]
  <2>1. follower' = F
    BY DEF CloseBroker
  <2>2. F = [f \in Follower |-> F[f]]
    OBVIOUS
  <2> QED BY <2>1, <2>2
<1>4. follower' \in [Follower -> FollowerRec]
  BY <1>2, <1>3
<1> QED BY <1>2, <1>4 DEF CloseBroker, readFrame, procVars

-----------------------------------------------------------------------------
(* Every step of RunOutput, sorted.                                        *)

\* No follower has part in it.
Quiet ==
  \/ StartRun \/ SetRunLog \/ OpenBroker \/ StartAgent
  \/ Say \/ AgentExits \/ ChildExits \/ ChildLeaves \/ DepartedEnds
  \/ CancelContext \/ SignalGroup \/ StopWhenDone
  \/ Scan \/ WriteLine \/ EndOfOutput \/ Wait \/ Waited \/ Unmap \/ GiveUpReading
  \/ UNCHANGED vars

OneFollows(f) == ReadRow(f) \/ Log(f) \/ HangUp(f)

\* Every step is the Run's own, a publication, the close, or one follower's.
LEMMA OutKinds ==
  ASSUME [Next]_vars
  PROVE  Quiet \/ Publish \/ CloseBroker \/ \E f \in Follower : OneFollows(f)
BY DEF Next, Execute, Quiet, OneFollows

\* A follower's step is its own.
LEMMA OneFollowsAlone ==
  ASSUME Typed, Reads, NEW f \in Follower, OneFollows(f)
  PROVE  follower' \in [Follower -> FollowerRec] /\ Alone(f)
BY ReadRowDoes, FindBrokerDoes, SubscribeDoes, ReadFileDoes, FollowDoes, EndOfStreamDoes,
   HangUpDoes DEF OneFollows, Log, Does

\* The row, the processes, the log and the broker, whoever moves.
BaseTyped ==
  /\ row \in {"none", "inserted", "logged"}
  /\ agent \in {"starting", "running", "exited", "reaped"}
  /\ child \in {"none", "meek", "deaf"} /\ holds \in BOOLEAN /\ departed \in BOOLEAN
  /\ said \in 0..MaxLines /\ line \in 0..MaxLines
  /\ stopper \in {"watching", "terminating", "polling", "over"} /\ asked \in BOOLEAN
  /\ reader \in {"off", "scan", "write", "publish", "drain", "wait", "stopping",
                 "unmap", "close", "over"}
  /\ file \in Seq(Line) /\ lost \subseteq Line
  /\ broker \in {"none", "open", "unmapped", "closed"}

\* The Run's other steps leave the followers and what was published alone.
LEMMA QuietDoes ==
  ASSUME Typed, Reads, Announcing, Quiet
  PROVE  /\ follower' = follower
         /\ Published' = Published
         /\ broker # "none" => broker' # "none"
         /\ broker' = "closed" <=> broker = "closed"
         /\ broker \in {"unmapped", "closed"} => broker' \in {"unmapped", "closed"}
         /\ lost' = {} => lost = {}
         /\ Len(file') >= Len(file)
         /\ reader \in {"close", "over"} =>
              reader' \in {"close", "over"} /\ file' = file /\ lost' = lost
<1>1. Len(file) \in Nat /\ line \in 0..MaxLines /\ MaxLines \in Nat
  BY OutputAssumption DEF Typed
<1>2. WriteLine => Len(file') >= Len(file)
  <2> SUFFICES ASSUME WriteLine PROVE Len(file') >= Len(file)
    OBVIOUS
  <2>1. line \in Line
    BY DEF WriteLine, Reads, Typed, Line
  <2>2. file' = file \/ file' = Append(file, line)
    BY DEF WriteLine
  <2> QED BY <1>1, <2>1, <2>2, AppendProperties DEF Typed
<1>3. ~WriteLine => file' = file
  BY DEF Quiet, StartRun, SetRunLog, OpenBroker, StartAgent, Say, AgentExits,
       ChildExits, ChildLeaves, DepartedEnds, leaveFrame, CancelContext, SignalGroup,
       StopWhenDone, Scan, EndOfOutput, Wait, Waited, Unmap, GiveUpReading, vars,
       logVars, procVars, procFrame, readFrame
<1>4. /\ follower' = follower
      /\ lost' = {} => lost = {}
  BY DEF Quiet, StartRun, SetRunLog, OpenBroker, StartAgent, Say, AgentExits,
       ChildExits, ChildLeaves, DepartedEnds, leaveFrame, CancelContext, SignalGroup,
       StopWhenDone, Scan, WriteLine, EndOfOutput, Wait, Waited, Unmap, GiveUpReading,
       vars, logVars, procVars, procFrame, readFrame
<1>5. Published' = Published
  BY <1>1 DEF Quiet, StartRun, SetRunLog, OpenBroker, StartAgent, Say, AgentExits,
       ChildExits, ChildLeaves, DepartedEnds, leaveFrame, CancelContext, SignalGroup,
       StopWhenDone, Scan, WriteLine, EndOfOutput, Wait, Waited, Unmap, GiveUpReading,
       vars, logVars, procVars, procFrame, readFrame, Published
<1>6. /\ broker # "none" => broker' # "none"
      /\ broker' = "closed" <=> broker = "closed"
      /\ broker \in {"unmapped", "closed"} => broker' \in {"unmapped", "closed"}
      /\ reader \in {"close", "over"} =>
           reader' \in {"close", "over"} /\ file' = file /\ lost' = lost
  BY DEF Quiet, StartRun, SetRunLog, OpenBroker, StartAgent, Say, AgentExits,
       ChildExits, ChildLeaves, DepartedEnds, leaveFrame, CancelContext, SignalGroup,
       StopWhenDone, Scan, WriteLine, EndOfOutput, Wait, Waited, Unmap, GiveUpReading,
       vars, logVars, procVars, procFrame, readFrame, Announcing
<1> QED BY <1>1, <1>2, <1>3, <1>4, <1>5, <1>6 DEF Typed

\* The types are kept.
LEMMA TypedStep ==
  ASSUME Typed, Reads, [Next]_vars
  PROVE  Typed'
<1>1. CASE Quiet
  <2>1. BaseTyped
    BY DEF Typed, BaseTyped
  <2>2. file' \in Seq(Line) /\ lost' \subseteq Line
    <3>1. WriteLine => line \in Line
      BY DEF WriteLine, Reads, Typed, Line
    <3>2. ~WriteLine => file' = file /\ lost' = lost
      BY <1>1 DEF Quiet, StartRun, SetRunLog, OpenBroker, StartAgent, Say, AgentExits,
           ChildExits, ChildLeaves, DepartedEnds, leaveFrame, CancelContext,
           SignalGroup, StopWhenDone, Scan, EndOfOutput, Wait, Waited, Unmap,
           GiveUpReading, vars, logVars, procVars, procFrame, readFrame
    <3>3. WriteLine => file' \in {file, Append(file, line)} /\ lost' \in {lost, lost \cup {line}}
      BY DEF WriteLine
    <3> QED BY <3>1, <3>2, <3>3, AppendProperties, SMTT(30) DEF Typed
  <2>3. said' \in 0..MaxLines /\ line' \in 0..MaxLines
    BY <1>1, OutputAssumption DEF Typed, Reads, Quiet, StartRun, SetRunLog, OpenBroker,
         StartAgent, Say, AgentExits, ChildExits, ChildLeaves, DepartedEnds, leaveFrame,
         CancelContext, SignalGroup, StopWhenDone, Scan, WriteLine, EndOfOutput, Wait,
         Waited, Unmap, GiveUpReading, vars, logVars, procVars, procFrame, readFrame
  <2>4. /\ row' \in {"none", "inserted", "logged"}
        /\ reader' \in {"off", "scan", "write", "publish", "drain", "wait", "stopping",
                        "unmap", "close", "over"}
        /\ broker' \in {"none", "open", "unmapped", "closed"}
        /\ follower' = follower
    BY <1>1, <2>1 DEF BaseTyped, Quiet, StartRun, SetRunLog, OpenBroker, StartAgent,
         Say, AgentExits, ChildExits, ChildLeaves, DepartedEnds, leaveFrame,
         CancelContext, SignalGroup, StopWhenDone, Scan, WriteLine, EndOfOutput, Wait,
         Waited, Unmap, GiveUpReading, vars, logVars, procVars, procFrame, readFrame
  <2>5. /\ agent' \in {"starting", "running", "exited", "reaped"}
        /\ child' \in {"none", "meek", "deaf"} /\ holds' \in BOOLEAN /\ departed' \in BOOLEAN
        /\ stopper' \in {"watching", "terminating", "polling", "over"} /\ asked' \in BOOLEAN
    BY <1>1, <2>1 DEF BaseTyped, Quiet, StartRun, SetRunLog, OpenBroker, StartAgent,
         Say, AgentExits, ChildExits, ChildLeaves, DepartedEnds, leaveFrame,
         CancelContext, SignalGroup, StopWhenDone, Scan, WriteLine, EndOfOutput, Wait,
         Waited, Unmap, GiveUpReading, vars, logVars, procVars, procFrame, readFrame,
         Terminated
  <2> QED BY <2>2, <2>3, <2>4, <2>5 DEF Typed
<1>2. CASE Publish
  BY <1>2, PublishDoes DEF Typed, procVars, logVars
<1>3. CASE CloseBroker
  BY <1>3, CloseBrokerDoes DEF Typed, procVars, logVars
<1>4. ASSUME NEW f \in Follower, OneFollows(f)
      PROVE  Typed'
  BY <1>4, OneFollowsAlone DEF Typed, Alone, procVars, logVars
<1> QED BY <1>1, <1>2, <1>3, <1>4, OutKinds

\* The reader stays behind the Agent, and the log goes with the reader.
LEMMA ReadsStep ==
  ASSUME Typed, Reads, [Next]_vars
  PROVE  Reads'
<1>0. Len(file) \in Nat /\ line \in 0..MaxLines /\ said \in 0..MaxLines /\ MaxLines \in Nat
  BY OutputAssumption DEF Typed
<1>1. CASE WriteLine
  <2>1. line \in Line /\ reader = "write" /\ reader' = "publish" /\ line' = line
    BY <1>1 DEF WriteLine, Reads, Typed, Line, logVars
  <2>2. CASE file' = Append(file, line) /\ lost' = lost
    <3>1. /\ Len(file') = Len(file) + 1 /\ file'[Len(file) + 1] = line
          /\ \A i \in 1..Len(file) : file'[i] = file[i]
          /\ file' \in Seq(Line)
      BY <2>1, <2>2, AppendProperties DEF Typed
    <3>2. lost' = {} => Len(file') = Written' /\ Counted(file)'
      BY <1>0, <2>1, <2>2, <3>1 DEF Reads, Written, Counted, Typed
    <3> QED BY <1>0, <1>1, <2>1, <3>1, <3>2 DEF Reads, Written, WriteLine, readFrame
  <2>3. CASE lost' = lost \cup {line} /\ file' = file
    BY <1>0, <1>1, <2>1, <2>3 DEF Reads, Written, WriteLine, readFrame
  <2> QED BY <1>1, <2>2, <2>3 DEF WriteLine
<1>2. CASE Quiet /\ ~WriteLine
  <2>1. file' = file /\ lost' = lost
    BY <1>2 DEF Quiet, StartRun, SetRunLog, OpenBroker, StartAgent, Say, AgentExits,
         ChildExits, ChildLeaves, DepartedEnds, leaveFrame, CancelContext, SignalGroup,
         StopWhenDone, Scan, EndOfOutput, Wait, Waited, Unmap, GiveUpReading, vars,
         logVars, procVars, procFrame, readFrame
  <2>2. Counted(file)' <=> Counted(file)
    BY <2>1 DEF Counted
  <2>3. /\ line' <= said'
        /\ reader' \in {"write", "publish"} => line' > 0
        /\ Written' = Written
    BY <1>0, <1>2 DEF Reads, Written, Quiet, StartRun, SetRunLog, OpenBroker,
         StartAgent, Say, AgentExits, ChildExits, ChildLeaves, DepartedEnds, leaveFrame,
         CancelContext, SignalGroup, StopWhenDone, Scan, EndOfOutput, Wait, Waited,
         Unmap, GiveUpReading, vars, logVars, procVars, procFrame, readFrame
  <2> QED BY <2>1, <2>2, <2>3 DEF Reads
<1>3. CASE Publish
  <2>1. Counted(file)' <=> Counted(file)
    BY <1>3 DEF Counted, Publish, logVars
  <2> QED BY <1>3, <2>1 DEF Reads, Written, Publish, readFrame, logVars
<1>4. CASE CloseBroker
  <2>1. Counted(file)' <=> Counted(file)
    BY <1>4 DEF Counted, CloseBroker, logVars
  <2> QED BY <1>4, <2>1 DEF Reads, Written, CloseBroker, readFrame, logVars
<1>5. ASSUME NEW f \in Follower, OneFollows(f)
      PROVE  Reads'
  <2>1. UNCHANGED <<procVars, reader, logVars>>
    BY <1>5, OneFollowsAlone DEF Alone
  <2> QED BY <2>1 DEF Reads, Written, Counted, procVars, logVars
<1> QED BY <1>1, <1>2, <1>3, <1>4, <1>5, OutKinds

\* The row is written before the broker opens, and the broker closed after the rest.
LEMMA AnnouncingStep ==
  ASSUME Typed, Reads, Announcing, [Next]_vars
  PROVE  Announcing'
<1>1. CASE Quiet
  BY <1>1 DEF Announcing, Quiet, StartRun, SetRunLog, OpenBroker, StartAgent, Say,
       AgentExits, ChildExits, ChildLeaves, DepartedEnds, leaveFrame, CancelContext,
       SignalGroup, StopWhenDone, Scan, WriteLine, EndOfOutput, Wait, Waited, Unmap,
       GiveUpReading, vars, logVars, procVars, procFrame, readFrame
<1>2. CASE Publish
  BY <1>2 DEF Announcing, Publish, readFrame
<1>3. CASE CloseBroker
  BY <1>3 DEF Announcing, CloseBroker, readFrame
<1>4. ASSUME NEW f \in Follower, OneFollows(f)
      PROVE  Announcing'
  BY <1>4, OneFollowsAlone DEF Announcing, Alone
<1> QED BY <1>1, <1>2, <1>3, <1>4, OutKinds

\* A stopper that is over leaves nobody, and the reader is not over before it.
LEMMA StoppingStep ==
  ASSUME Typed, Reads, Stopping, [Next]_vars
  PROVE  Stopping'
<1>1. CASE Quiet
  BY <1>1 DEF Typed, Stopping, Quiet, StartRun, SetRunLog, OpenBroker, StartAgent, Say,
       AgentExits, ChildExits, ChildLeaves, DepartedEnds, leaveFrame, CancelContext,
       SignalGroup, StopWhenDone, Scan, WriteLine, EndOfOutput, Wait, Waited, Unmap,
       GiveUpReading, vars, logVars, procVars, procFrame, readFrame, Terminated,
       GroupAlive
<1>2. CASE Publish
  BY <1>2 DEF Stopping, Publish, readFrame
<1>3. CASE CloseBroker
  BY <1>3 DEF Stopping, CloseBroker, readFrame
<1>4. ASSUME NEW f \in Follower, OneFollows(f)
      PROVE  Stopping'
  BY <1>4, OneFollowsAlone DEF Stopping, Alone, procVars
<1> QED BY <1>1, <1>2, <1>3, <1>4, OutKinds

-----------------------------------------------------------------------------
(* What a step does to what one follower holds.                            *)

LEMMA SubscribedStep ==
  ASSUME Typed, Reads, Announcing, [Next]_vars, NEW g \in Follower, Subscribed(g)
  PROVE  Subscribed(g)'
<1>1. CASE Quiet
  BY <1>1, QuietDoes DEF Subscribed
<1>2. CASE Publish
  BY <1>2, PublishDoes DEF Subscribed, Has
<1>3. CASE CloseBroker
  BY <1>3, CloseBrokerDoes DEF Subscribed, Has
<1>4. ASSUME NEW f \in Follower, OneFollows(f)
      PROVE  Subscribed(g)'
  <2>1. broker' = broker
    BY <1>4, OneFollowsAlone DEF Alone
  <2>2. CASE g # f
    BY <1>4, <2>1, <2>2, OneFollowsAlone DEF Subscribed, Alone
  <2>3. CASE g = f /\ ReadRow(f)
    BY <2>1, <2>3, ReadRowDoes DEF Subscribed, Does, Has, Announcing
  <2>4. CASE g = f /\ FindBroker(f)
    BY <2>1, <2>4, FindBrokerDoes DEF Subscribed, Does, Has, Typed
  <2>5. CASE g = f /\ Subscribe(f)
    BY <2>1, <2>5, SubscribeDoes DEF Subscribed, Does, Has
  <2>6. CASE g = f /\ ReadFile(f)
    BY <2>1, <2>6, ReadFileDoes DEF Subscribed, Does, Has
  <2>7. CASE g = f /\ Follow(f)
    BY <2>1, <2>7, FollowDoes DEF Subscribed, Does, Has
  <2>8. CASE g = f /\ EndOfStream(f)
    BY <2>1, <2>8, EndOfStreamDoes DEF Subscribed, Does, Has
  <2>9. CASE g = f /\ HangUp(f)
    BY <2>1, <2>9, HangUpDoes DEF Subscribed, Does, Has
  <2> QED BY <1>4, <2>2, <2>3, <2>4, <2>5, <2>6, <2>7, <2>8, <2>9 DEF OneFollows, Log
<1> QED BY <1>1, <1>2, <1>3, <1>4, OutKinds

\* A queue is fed in order and drained from its front.
LEMMA QueuedStep ==
  ASSUME Typed, Reads, Announcing, [Next]_vars, NEW g \in Follower,
         Subscribed(g), Queued(g)
  PROVE  Queued(g)'
<1>0. /\ follower[g].buf \in Seq(Line) /\ Len(follower[g].buf) \in Nat
      /\ line \in 0..MaxLines /\ MaxLines \in Nat /\ Published \in Int
      /\ line \in Nat /\ Published \in Nat
  BY FieldsTyped, OutputAssumption DEF Typed, Published, Reads
<1>9. \A i \in 1..Len(follower[g].buf) : follower[g].buf[i] \in Int
  BY <1>0, ElementOfSeq DEF Line
<1>1. CASE Quiet
  BY <1>1, QuietDoes DEF Queued
<1>2. CASE Publish
  <2>1. Published' = line /\ Published = line - 1 /\ line \in Line
    BY <1>2 DEF Published, Publish, logVars, Typed, Reads, Line
  <2>2. CASE follower[g].sub # "live" /\ follower'[g] = follower[g]
    <3>1. follower[g].sub # "closed"
      BY <1>2 DEF Subscribed, Announcing, Publish
    <3>2. \A i \in 1..Len(follower[g].buf) : follower[g].buf[i] <= Published + 1
      BY <1>0, <1>9, SMTT(30) DEF Queued
    <3>3. Len(follower[g].buf) <= Published' /\ Published + 1 = Published'
      BY <1>0, <2>1 DEF Queued
    <3>4. \A i \in 1..Len(follower[g].buf) : follower[g].buf[i] = follower[g].buf[1] + i - 1
      BY DEF Queued
    <3> QED BY <2>2, <3>1, <3>2, <3>3, <3>4 DEF Queued
  <2>3. CASE /\ follower[g].sub = "live"
             /\ follower'[g].sub = "dropped" /\ follower'[g].buf = follower[g].buf
    BY <1>0, <1>9, <2>1, <2>3 DEF Queued
  <2>4. CASE /\ follower[g].sub = "live" /\ follower'[g].sub = "live"
             /\ follower'[g].buf = Append(follower[g].buf, line)
    <3> DEFINE b == Append(follower[g].buf, line)
               n == Len(follower[g].buf)
    <3>1. /\ Len(b) = n + 1 /\ b[n + 1] = line
          /\ \A i \in 1..n : b[i] = follower[g].buf[i]
      BY <1>0, <2>1, AppendProperties
    <3>2. n <= Published /\ \A i \in 1..n : follower[g].buf[i] = Published - n + i
      BY <2>4 DEF Queued
    <3>3. n \in Nat
      BY <1>0
    <3> HIDE DEF b, n
    <3>4. \A i \in 1..n + 1 : b[i] = line - (n + 1) + i
      BY <1>0, <2>1, <3>1, <3>2, <3>3
    <3>5. \A i \in 1..n + 1 : b[i] = b[1] + i - 1 /\ b[i] <= line
      BY <1>0, <2>1, <3>3, <3>4
    <3>6. follower'[g].buf = b /\ Len(b) <= line
      BY <1>0, <2>1, <2>4, <3>1, <3>2, <3>3 DEF b
    <3> QED BY <2>1, <3>1, <3>4, <3>5, <3>6 DEF Queued
  <2> QED BY <1>2, <2>2, <2>3, <2>4, PublishDoes DEF Has
<1>3. CASE CloseBroker
  <2>1. Published' = Published
    BY <1>3 DEF Published, CloseBroker, logVars
  <2> QED BY <1>3, <2>1, CloseBrokerDoes DEF Queued, Has
<1>4. ASSUME NEW f \in Follower, OneFollows(f)
      PROVE  Queued(g)'
  <2>1. Published' = Published
    BY <1>4, OneFollowsAlone DEF Alone, Published, logVars
  <2>2. CASE g # f
    BY <1>4, <2>1, <2>2, OneFollowsAlone DEF Queued, Alone
  <2>3. CASE g = f /\ ~Follow(f)
    <3>1. follower'[g].buf = <<>> \/ /\ follower'[g].buf = follower[g].buf
                                     /\ follower'[g].sub = follower[g].sub
      <4>1. ReadRow(f) \/ HangUp(f) => follower'[g].buf = <<>>
        BY <2>3, ReadRowDoes, HangUpDoes DEF Does, Has
      <4>2. Subscribe(f) => follower'[g].buf = <<>>
        BY <2>3, SubscribeDoes DEF Does, Has, Subscribed
      <4>3. FindBroker(f) \/ EndOfStream(f) =>
              follower'[g].buf = follower[g].buf /\ follower'[g].sub = follower[g].sub
        BY <2>3, FindBrokerDoes, EndOfStreamDoes DEF Does, Has
      <4>4. ReadFile(f) =>
              follower'[g].buf = follower[g].buf /\ follower'[g].sub = follower[g].sub
        BY <2>3, ReadFileDoes DEF Does, Has
      <4> QED BY <1>4, <2>3, <4>1, <4>2, <4>3, <4>4 DEF OneFollows, Log
    <3>2. CASE follower'[g].buf = <<>>
      BY <1>0, <2>1, <3>2, EmptyIsTyped DEF Queued
    <3>3. CASE follower'[g].buf = follower[g].buf /\ follower'[g].sub = follower[g].sub
      BY <2>1, <3>3 DEF Queued
    <3> QED BY <3>1, <3>2, <3>3
  <2>4. CASE g = f /\ Follow(f)
    <3> DEFINE b == follower[g].buf
    <3>1. /\ follower'[g].buf = Tail(b) /\ follower'[g].sub = follower[g].sub
          /\ b # <<>>
      BY <2>4, FollowDoes DEF Does, Has
    <3>2. /\ Len(Tail(b)) = Len(b) - 1 /\ Len(b) \in Nat
          /\ \A i \in 1..Len(Tail(b)) : Tail(b)[i] = b[i + 1]
      BY <1>0, <3>1, HeadTailProperties
    <3>3. Len(b) >= 1
      BY <1>0, <3>1, EmptySeq
    <3>4. b[1] \in Int /\ \A i \in 1..Len(b) : b[i] \in Int
      BY <1>0, <3>3, ElementOfSeq DEF Line
    <3> HIDE DEF b
    <3>5. /\ Len(b) <= Published
          /\ \A i \in 1..Len(b) : b[i] = b[1] + i - 1 /\ b[i] <= Published
          /\ follower[g].sub \in {"live", "closed"} =>
               \A i \in 1..Len(b) : b[i] = Published - Len(b) + i
      BY DEF Queued, b
    <3>6. /\ \A i \in 1..Len(Tail(b)) :
               Tail(b)[i] = Tail(b)[1] + i - 1 /\ Tail(b)[i] <= Published
          /\ follower[g].sub \in {"live", "closed"} =>
               \A i \in 1..Len(Tail(b)) : Tail(b)[i] = Published - Len(Tail(b)) + i
      <4> SUFFICES ASSUME NEW i \in 1..Len(Tail(b))
                   PROVE  /\ Tail(b)[i] = Tail(b)[1] + i - 1 /\ Tail(b)[i] <= Published
                          /\ follower[g].sub \in {"live", "closed"} =>
                               Tail(b)[i] = Published - Len(Tail(b)) + i
        OBVIOUS
      <4>1. i \in Nat /\ i + 1 \in 1..Len(b) /\ 2 \in 1..Len(b) /\ 1 \in 1..Len(Tail(b))
        BY <3>2, <3>3
      <4>2. Tail(b)[i] = b[i + 1] /\ Tail(b)[1] = b[2]
        BY <3>2, <4>1
      <4>3. b[i + 1] = b[1] + (i + 1) - 1 /\ b[2] = b[1] + 2 - 1 /\ b[i + 1] <= Published
        BY <3>5, <4>1
      <4>4. follower[g].sub \in {"live", "closed"} =>
              b[i + 1] = Published - Len(b) + (i + 1)
        BY <3>5, <4>1
      <4>5. b[1] \in Int /\ b[i + 1] \in Int /\ b[2] \in Int
        BY <3>4, <4>1
      <4>6. Tail(b)[i] = Tail(b)[1] + i - 1 /\ Tail(b)[i] <= Published
        BY <4>1, <4>2, <4>3, <4>5
      <4>7. follower[g].sub \in {"live", "closed"} =>
              Tail(b)[i] = Published - Len(Tail(b)) + i
        <5>1. \A p, n, k \in Int : p - n + (k + 1) = p - (n - 1) + k
          OBVIOUS
        <5>2. Published - Len(b) + (i + 1) = Published - (Len(b) - 1) + i
          BY <1>0, <3>2, <4>1, <5>1
        <5>3. Len(Tail(b)) = Len(b) - 1
          BY <3>2
        <5> QED BY <4>2, <4>4, <5>2, <5>3
      <4> QED BY <4>6, <4>7
    <3> QED BY <1>0, <2>1, <3>1, <3>2, <3>3, <3>5, <3>6 DEF Queued
  <2> QED BY <1>4, <2>2, <2>3, <2>4
<1> QED BY <1>1, <1>2, <1>3, <1>4, OutKinds

\* What was sent and what is queued stay a beginning of the log without a gap.
LEMMA HeardStep ==
  ASSUME Typed, Reads, Announcing, [Next]_vars, NEW g \in Follower,
         Subscribed(g), Queued(g), Heard(g)
  PROVE  Heard(g)'
<1>0. /\ follower[g].buf \in Seq(Line) /\ Len(follower[g].buf) \in Nat
      /\ follower[g].got \in Seq(Line) /\ Len(follower[g].got) \in Nat
      /\ line \in 0..MaxLines /\ MaxLines \in Nat /\ Published \in Nat
      /\ follower[g].sent \in 0..MaxLines /\ follower[g].sent \in Nat
      /\ Len(file) \in Nat /\ file \in Seq(Line)
  BY FieldsTyped, OutputAssumption DEF Typed, Published, Reads
<1>9. lost = {} => Published <= Len(file)
  BY <1>0 DEF Reads, Written, Published
<1>1. CASE Quiet
  <2>1. Len(file') \in Nat
    BY <1>1, ReadsStep, TypedStep DEF Typed
  <2>2. follower'[g] = follower[g]
    BY <1>1, QuietDoes
  <2>3. Counted(follower[g].got)' <=> Counted(follower[g].got)
    BY <2>2 DEF Counted
  <2> QED BY <1>0, <1>1, <2>1, <2>2, <2>3, QuietDoes DEF Heard
<1>2. CASE Publish
  <2>1. Published' = Published + 1 /\ line = Published + 1 /\ line \in Line
    BY <1>2 DEF Published, Publish, logVars, Typed, Reads, Line
  <2>2. lost' = lost /\ file' = file
    BY <1>2 DEF Publish, logVars
  <2>3. CASE follower[g].sub # "live" /\ follower'[g] = follower[g]
    <3>1. follower[g].sub # "closed"
      BY <1>2 DEF Subscribed, Announcing, Publish
    <3>2. Counted(follower[g].got)' <=> Counted(follower[g].got)
      BY <2>3 DEF Counted
    <3> QED BY <2>2, <2>3, <3>1, <3>2 DEF Heard
  <2>4. CASE /\ follower[g].sub = "live"
             /\ Has(follower'[g], follower[g].at, follower[g].path, follower[g].told,
                    "dropped", follower[g].buf, follower[g].sent, follower[g].got)
    <3>1. Counted(follower[g].got)' <=> Counted(follower[g].got)
      BY <2>4 DEF Counted, Has
    <3> QED BY <2>2, <2>4, <3>1 DEF Heard, Has
  <2>5. CASE /\ follower[g].sub = "live"
             /\ Has(follower'[g], follower[g].at, follower[g].path, follower[g].told,
                    follower[g].sub, Append(follower[g].buf, line), follower[g].sent,
                    follower[g].got)
    <3> DEFINE b == Append(follower[g].buf, line)
               n == Len(follower[g].buf)
    <3>1. /\ Len(b) = n + 1 /\ b[n + 1] = line /\ n \in Nat
          /\ \A i \in 1..n : b[i] = follower[g].buf[i]
      BY <1>0, <2>1, AppendProperties
    <3>2. Counted(follower[g].got)' <=> Counted(follower[g].got)
      BY <2>5 DEF Counted, Has
    <3>3. n = 0 => b[1] = line
      BY <3>1
    <3>4. n # 0 => b[1] = follower[g].buf[1] /\ follower[g].buf # <<>>
      BY <3>1, EmptyIsTyped
    <3>5. ASSUME lost = {}, follower[g].path, follower[g].at = "following"
          PROVE  b[1] <= follower[g].sent + 1 /\ Published + 1 - Len(b) <= follower[g].sent
      <4>1. /\ follower[g].buf # <<>> => follower[g].buf[1] <= follower[g].sent + 1
            /\ Published - n <= follower[g].sent
        BY <2>5, <3>5 DEF Heard
      <4> HIDE DEF b, n
      <4> QED BY <1>0, <2>1, <3>1, <3>3, <3>4, <4>1
    <3> HIDE DEF b
    <3>6. follower'[g].buf = b
      BY <2>5 DEF Has, b
    <3>7. /\ follower'[g].at = follower[g].at /\ follower'[g].path = follower[g].path
          /\ follower'[g].sent = follower[g].sent /\ follower'[g].got = follower[g].got
      BY <2>5 DEF Has
    <3>8. lost = {} /\ follower[g].path =>
            /\ Counted(follower[g].got)
            /\ follower[g].at = "following" =>
                 /\ follower[g].sent = Len(follower[g].got)
                 /\ follower[g].sent <= Len(file)
      BY DEF Heard
    <3>9. ASSUME lost' = {}, follower'[g].path
          PROVE  /\ Counted(follower[g].got)'
                 /\ follower'[g].at = "following" =>
                      /\ follower'[g].sent = Len(follower'[g].got)
                      /\ follower'[g].sent <= Len(file')
                      /\ follower'[g].buf[1] <= follower'[g].sent + 1
                      /\ Published' - Len(follower'[g].buf) <= follower'[g].sent
      <4>1. lost = {} /\ follower[g].path
        BY <2>2, <3>7, <3>9
      <4>2. Counted(follower[g].got)'
        BY <3>2, <3>8, <4>1
      <4> SUFFICES ASSUME follower[g].at = "following"
                   PROVE  /\ follower'[g].sent = Len(follower'[g].got)
                          /\ follower'[g].sent <= Len(file')
                          /\ follower'[g].buf[1] <= follower'[g].sent + 1
                          /\ Published' - Len(follower'[g].buf) <= follower'[g].sent
        BY <3>7, <4>2
      <4>3. follower[g].sent = Len(follower[g].got) /\ follower[g].sent <= Len(file)
        BY <3>8, <4>1
      <4>4. b[1] <= follower[g].sent + 1 /\ Published + 1 - Len(b) <= follower[g].sent
        BY <3>5, <4>1
      <4>5. follower'[g].sent = Len(follower'[g].got) /\ follower'[g].sent <= Len(file')
        BY <2>2, <3>7, <4>3
      <4>6. follower'[g].buf[1] <= follower'[g].sent + 1
        BY <3>6, <3>7, <4>4
      <4>7. Published' - Len(follower'[g].buf) <= follower'[g].sent
        <5>1. Published \in Nat /\ Len(b) \in Nat /\ follower[g].sent \in Nat
          BY <1>0, <3>1
        <5>2. Published' - Len(b) <= follower[g].sent
          BY <2>1, <4>4, <5>1
        <5> QED BY <3>6, <3>7, <5>2
      <4> QED BY <4>5, <4>6, <4>7
    <3> QED BY <3>9 DEF Heard
  <2> QED BY <1>2, <2>3, <2>4, <2>5, PublishDoes
<1>3. CASE CloseBroker
  <2>1. Published' = Published /\ lost' = lost /\ file' = file
    BY <1>3 DEF Published, CloseBroker, logVars
  <2>2. /\ follower'[g].at = follower[g].at /\ follower'[g].path = follower[g].path
        /\ follower'[g].buf = follower[g].buf /\ follower'[g].sent = follower[g].sent
        /\ follower'[g].got = follower[g].got
        /\ follower'[g].sub \in {"live", "closed"} => follower[g].sub \in {"live", "closed"}
    BY <1>3, CloseBrokerDoes DEF Has
  <2>3. Counted(follower[g].got)' <=> Counted(follower[g].got)
    BY <2>2 DEF Counted
  <2> QED BY <2>1, <2>2, <2>3 DEF Heard
<1>4. ASSUME NEW f \in Follower, OneFollows(f)
      PROVE  Heard(g)'
  <2>1. Published' = Published /\ lost' = lost /\ file' = file
    BY <1>4, OneFollowsAlone DEF Alone, Published, logVars
  <2>2. CASE g # f
    <3>1. follower'[g] = follower[g]
      BY <1>4, <2>2, OneFollowsAlone DEF Alone
    <3> QED BY <2>1, <3>1 DEF Heard, Counted
  <2>3. CASE g = f /\ (ReadRow(f) \/ HangUp(f))
    <3>1. follower'[g].got = <<>> /\ follower'[g].at # "following"
      BY <2>3, ReadRowDoes, HangUpDoes DEF Does, Has
    <3>2. Counted(<<>>)
      BY DEF Counted
    <3>3. Counted(follower[g].got)'
      BY <3>1, <3>2 DEF Counted
    <3> QED BY <3>1, <3>3 DEF Heard
  <2>4. CASE g = f /\ (FindBroker(f) \/ Subscribe(f) \/ EndOfStream(f))
    <3>1. /\ follower'[g].got = follower[g].got /\ follower'[g].path = follower[g].path
          /\ follower'[g].at # "following"
      BY <2>4, FindBrokerDoes, SubscribeDoes, EndOfStreamDoes DEF Does, Has
    <3>2. Counted(follower[g].got)' <=> Counted(follower[g].got)
      BY <3>1 DEF Counted
    <3> QED BY <2>1, <3>1, <3>2 DEF Heard
  <2>5. CASE g = f /\ ReadFile(f)
    <3> SUFFICES ASSUME lost = {}, follower[g].path PROVE Heard(g)'
      BY <2>1, <2>5, ReadFileDoes DEF Heard, Does, Has
    <3>1. /\ follower'[g].got = file /\ follower'[g].sent = Len(file)
          /\ follower'[g].buf = follower[g].buf /\ follower'[g].sub = follower[g].sub
      BY <2>5, ReadFileDoes DEF Does, Has
    <3>2. Counted(follower[g].got)'
      BY <3>1 DEF Reads, Counted
    <3>3. follower[g].buf # <<>> => follower[g].buf[1] <= Len(file) + 1
      <4> SUFFICES ASSUME follower[g].buf # <<>>
                   PROVE  follower[g].buf[1] <= Len(file) + 1
        OBVIOUS
      <4>1. 1 \in 1..Len(follower[g].buf)
        BY <1>0, EmptySeq
      <4>2. follower[g].buf[1] <= Published /\ follower[g].buf[1] \in Int
        BY <1>0, <4>1, ElementOfSeq DEF Queued, Line
      <4> QED BY <1>0, <1>9, <4>2
    <3>4. Published - Len(follower[g].buf) <= Len(file)
      BY <1>0, <1>9
    <3> QED BY <1>0, <2>1, <3>1, <3>2, <3>3, <3>4 DEF Heard
  <2>6. CASE g = f /\ Follow(f)
    <3> SUFFICES ASSUME lost = {}, follower[g].path PROVE Heard(g)'
      BY <2>1, <2>6, FollowDoes DEF Heard, Does, Has
    <3> DEFINE b == follower[g].buf
               n == b[1]
               s == follower[g].sent
    <3>1. b # <<>> /\ follower[g].at = "following"
      BY <2>6, FollowDoes
    <3>2. /\ Len(Tail(b)) = Len(b) - 1 /\ Len(b) \in Nat
          /\ \A i \in 1..Len(Tail(b)) : Tail(b)[i] = b[i + 1]
          /\ Tail(b) \in Seq(Line)
      BY <1>0, <3>1, HeadTailProperties
    <3>3. Len(b) >= 1 /\ Head(b) = n /\ 1 \in 1..Len(b)
      BY <1>0, <3>1, EmptySeq
    <3>4. n \in Line /\ n \in Nat /\ n <= Published
      BY <1>0, <3>3, ElementOfSeq DEF Line, Queued
    <3>5. /\ Counted(follower[g].got) /\ s = Len(follower[g].got) /\ s <= Len(file)
          /\ n <= s + 1
          /\ follower[g].sub \in {"live", "closed"} =>
               n = Published - Len(b) + 1
      BY <3>1, <3>3 DEF Heard, Queued
    <3>6. Tail(b) # <<>> => Tail(b)[1] = n + 1
      <4> SUFFICES ASSUME Tail(b) # <<>> PROVE Tail(b)[1] = n + 1
        OBVIOUS
      <4>1. 1 \in 1..Len(Tail(b)) /\ 2 \in 1..Len(b)
        BY <1>0, <3>2, EmptySeq
      <4>2. b[2] = n + 2 - 1
        BY <4>1 DEF Queued
      <4> QED BY <3>2, <3>4, <4>1, <4>2
    <3>7. /\ follower'[g].at = "following" /\ follower'[g].sub = follower[g].sub
          /\ follower'[g].buf = Tail(b)
          /\ IF n <= s
             THEN follower'[g].sent = s /\ follower'[g].got = follower[g].got
             ELSE follower'[g].sent = n /\ follower'[g].got = Append(follower[g].got, n)
      BY <2>6, <3>3, FollowDoes DEF Does, Has
    <3> HIDE DEF b, n, s
    <3>8. s \in Nat
      BY <1>0 DEF s
    <3>9. CASE n <= s
      <4>1. Counted(follower[g].got)'
        BY <3>5, <3>7, <3>9 DEF Counted
      <4>2. Tail(b) # <<>> => Tail(b)[1] <= s + 1
        BY <3>4, <3>6, <3>8, <3>9
      <4>3. follower[g].sub \in {"live", "closed"} => Published - Len(Tail(b)) <= s
        BY <1>0, <3>2, <3>4, <3>5, <3>8, <3>9
      <4> QED BY <2>1, <3>5, <3>7, <3>9, <4>1, <4>2, <4>3 DEF Heard
    <3>10. CASE ~(n <= s)
      <4> DEFINE h == Append(follower[g].got, n)
      <4>1. n = s + 1
        BY <3>4, <3>5, <3>8, <3>10
      <4>2. /\ Len(h) = Len(follower[g].got) + 1 /\ h[Len(follower[g].got) + 1] = n
            /\ \A i \in 1..Len(follower[g].got) : h[i] = follower[g].got[i]
            /\ h \in Seq(Line)
        BY <1>0, <3>4, AppendProperties
      <4>3. Counted(h) /\ Len(h) = n
        BY <1>0, <3>5, <3>8, <4>1, <4>2 DEF Counted
      <4>4. Tail(b) # <<>> => Tail(b)[1] <= n + 1
        BY <3>4, <3>6
      <4>5. follower[g].sub \in {"live", "closed"} => Published - Len(Tail(b)) <= n
        BY <1>0, <3>2, <3>4, <3>5
      <4>6. n <= Len(file)
        BY <1>0, <1>9, <3>4
      <4> HIDE DEF h
      <4>7. follower'[g].got = h /\ follower'[g].sent = n
        BY <3>7, <3>10 DEF h
      <4>8. Counted(follower[g].got)'
        BY <4>3, <4>7 DEF Counted
      <4> QED BY <2>1, <3>7, <4>3, <4>4, <4>5, <4>6, <4>7, <4>8 DEF Heard
    <3> QED BY <3>9, <3>10
  <2> QED BY <1>4, <2>2, <2>3, <2>4, <2>5, <2>6 DEF OneFollows, Log
<1> QED BY <1>1, <1>2, <1>3, <1>4, OutKinds

\* A call that ended whole had the last line, and no line comes after it.
LEMMA EndedStep ==
  ASSUME Typed, Reads, Announcing, [Next]_vars, NEW g \in Follower,
         Subscribed(g), Queued(g), Heard(g), Ended(g)
  PROVE  Ended(g)'
<1>0. /\ follower[g].got \in Seq(Line) /\ Len(follower[g].got) \in Nat
      /\ Len(file) \in Nat /\ file \in Seq(Line) /\ line \in Nat
  BY FieldsTyped, OutputAssumption DEF Typed
<1>1. CASE Quiet
  BY <1>1, QuietDoes DEF Ended
<1>2. CASE Publish
  <2>1. follower'[g].at = "whole" /\ follower'[g].told
          => follower[g].at = "whole" /\ follower[g].told
    BY <1>2, PublishDoes DEF Has
  <2> QED BY <1>2, <2>1 DEF Ended, Publish
<1>3. CASE CloseBroker
  <2>1. /\ follower'[g].at = follower[g].at /\ follower'[g].told = follower[g].told
        /\ follower'[g].got = follower[g].got
    BY <1>3, CloseBrokerDoes DEF Has
  <2>2. file' = file /\ lost' = lost /\ reader' = "over"
    BY <1>3 DEF CloseBroker, logVars
  <2> QED BY <2>1, <2>2 DEF Ended
<1>4. ASSUME NEW f \in Follower, OneFollows(f)
      PROVE  Ended(g)'
  <2>1. /\ reader' = reader /\ lost' = lost /\ file' = file
    BY <1>4, OneFollowsAlone DEF Alone, logVars
  <2>2. CASE g # f
    BY <1>4, <2>1, <2>2, OneFollowsAlone DEF Ended, Alone
  <2>3. CASE g = f /\ (ReadRow(f) \/ FindBroker(f) \/ Subscribe(f) \/ Follow(f) \/ HangUp(f))
    <3>1. follower'[g].at # "whole"
      BY <2>3, ReadRowDoes, FindBrokerDoes, SubscribeDoes, FollowDoes, HangUpDoes
         DEF Does, Has
    <3> QED BY <3>1 DEF Ended
  <2>4. CASE g = f /\ ReadFile(f)
    <3> SUFFICES ASSUME follower'[g].at = "whole", follower'[g].told
                 PROVE  reader \in {"close", "over"} /\ follower'[g].got = file
      BY <2>1 DEF Ended
    <3>1. /\ follower[g].sub = "none" /\ follower[g].told /\ follower[g].at = "reading"
      BY <2>4, ReadFileDoes DEF Does, Has
    <3>2. follower[g].path
      BY <3>1 DEF Subscribed
    <3> QED BY <2>4, <3>1, <3>2, ReadFileDoes DEF Does, Has, Subscribed, Announcing
  <2>5. CASE g = f /\ EndOfStream(f)
    <3> SUFFICES ASSUME follower'[g].at = "whole", follower'[g].told
                 PROVE  /\ reader \in {"close", "over"}
                        /\ lost = {} => follower'[g].got = file
      BY <2>1 DEF Ended
    <3>1. /\ follower[g].at = "following" /\ follower[g].buf = <<>>
          /\ follower[g].sub \notin {"live", "dropped"}
          /\ follower'[g].told = follower[g].told /\ follower'[g].got = follower[g].got
      BY <2>5, EndOfStreamDoes DEF Does, Has
    <3>2. follower[g].sub = "closed"
      BY <3>1, FieldsTyped DEF Subscribed, Sub
    <3>3. broker = "closed" /\ reader = "over"
      BY <3>2 DEF Subscribed, Announcing
    <3>4. ASSUME lost = {} PROVE follower[g].got = file
      <4>1. follower[g].path
        BY <3>1 DEF Subscribed
      <4>2. /\ Counted(follower[g].got) /\ follower[g].sent = Len(follower[g].got)
            /\ follower[g].sent <= Len(file) /\ Published - 0 <= follower[g].sent
        BY <3>1, <3>2, <3>4, <4>1, EmptyIsTyped DEF Heard
      <4>3. Published = line /\ Len(file) = line /\ Counted(file)
        BY <3>3, <3>4 DEF Published, Reads, Written
      <4>4. Len(follower[g].got) = Len(file)
        BY <1>0, <4>2, <4>3
      <4>5. \A i \in 1..Len(file) : follower[g].got[i] = file[i]
        BY <1>0, <4>2, <4>3, <4>4 DEF Counted
      <4> QED BY <1>0, <4>4, <4>5, SeqEqual
    <3> QED BY <3>1, <3>3, <3>4
  <2> QED BY <1>4, <2>2, <2>3, <2>4, <2>5 DEF OneFollows, Log
<1> QED BY <1>1, <1>2, <1>3, <1>4, OutKinds

\* A Run before it started.
LEMMA OutInit == Init => OutInv
<1> SUFFICES ASSUME Init PROVE OutInv
  OBVIOUS
<1>1. \A f \in Follower : follower[f] = Away
  BY DEF Init
<1>2. follower \in [Follower -> FollowerRec]
  BY EmptyIsTyped DEF Init
<1>3. Typed
  <2>1. 0 \in 0..MaxLines /\ {} \subseteq Line
    BY OutputAssumption
  <2>2. child \in {"none", "meek", "deaf"} /\ holds \in BOOLEAN
    BY DEF Init
  <2> QED BY <1>2, <2>1, <2>2, EmptyIsTyped DEF Init, Typed
<1>4. Counted(<<>>)
  BY DEF Counted
<1>5. Reads /\ Announcing /\ Stopping
  BY <1>4, EmptyIsTyped DEF Init, Reads, Written, Announcing, Stopping
<1>6. ASSUME NEW f \in Follower PROVE Subscribed(f) /\ Queued(f) /\ Heard(f) /\ Ended(f)
  BY <1>1, <1>4, EmptyIsTyped DEF Away, Subscribed, Queued, Heard, Ended, Published, Init
<1> QED BY <1>3, <1>5, <1>6 DEF OutInv

\* Every step preserves the log's invariant.
LEMMA OutStep == OutInv /\ [Next]_vars => OutInv'
<1> SUFFICES ASSUME OutInv, [Next]_vars PROVE OutInv'
  OBVIOUS
<1>1. Typed /\ Reads /\ Announcing /\ Stopping
  BY DEF OutInv
<1>2. \A f \in Follower : Subscribed(f) /\ Queued(f) /\ Heard(f) /\ Ended(f)
  BY DEF OutInv
<1>3. Typed' /\ Reads' /\ Announcing' /\ Stopping'
  BY <1>1, TypedStep, ReadsStep, AnnouncingStep, StoppingStep
<1>4. ASSUME NEW f \in Follower
      PROVE  (Subscribed(f) /\ Queued(f) /\ Heard(f) /\ Ended(f))'
  BY <1>1, <1>2, SubscribedStep, QueuedStep, HeardStep, EndedStep
<1> QED BY <1>3, <1>4 DEF OutInv

-----------------------------------------------------------------------------
(* The composition, as RunOutput sees it.                                  *)

LEMMA PartsStepOut == [PartsNext]_allVars => [Next]_vars
BY DEF PartsNext, allVars, Output, Command, Desk

\* It implies the property.
LEMMA OutIsWhole == OutInv => HeardOnceAndWhole
BY DEF OutInv, HeardOnceAndWhole, FollowedOnceInOrder, EndMeansWhole, CancelledLeavesNobody,
       Heard, Ended, Stopping, Is

\* However many follow a Run, whenever they come, however slow they are and whenever
\* they hang up: they have every line once and in order, a stream that ends without a
\* word ended with the log whole, and no child outlives a cancelled Agent (Log and
\* the broker; stopWhenDone).
THEOREM HeardByAll == PartsSpec => []HeardOnceAndWhole
<1>1. PartsInit => OutInv
  BY OutInit DEF PartsInit
<1>2. OutInv /\ [PartsNext]_allVars => OutInv'
  BY OutStep, PartsStepOut
<1> QED BY <1>1, <1>2, OutIsWhole, PTL DEF PartsSpec

-----------------------------------------------------------------------------
(* Checks.  What is true of the command being carried out, that what is    *)
(* found of it when shell.Run returns follows.                             *)

\* Results are in the order of the commands.
Found ==
  /\ results \in Seq(C!Result) /\ now \in Nat \ {0} /\ Len(results) = now - 1
  /\ shell \in {"none", "running"} \cup C!Exits /\ kid \in {"none", "polite", "deaf"}
  /\ inTime \in BOOLEAN /\ printed \in BOOLEAN
  /\ waiting \in {"idle", "shell", "pipes", "stopper"}

\* A shell that exited zero before either clock ran out was in time; one that is
\* answered for has exited; and of a group that was stopped nothing is left to start
\* anything more.
Carried ==
  /\ shell = "zero" /\ ~late /\ ~given => inTime
  /\ waiting = "idle" => shell = "none" /\ kid = "none" /\ chdStopper = "none"
  /\ waiting \in {"pipes", "stopper"} => shell \in C!Exits
  /\ chdStopper = "stopped" => kid = "none" /\ shell # "running"

CheckInv == Found /\ Carried /\ C!PassedWasEarned /\ C!NobodyLeftOfAStopped

\* A check before it is run.
LEMMA CheckInit == C!Init => CheckInv
<1> SUFFICES ASSUME C!Init PROVE CheckInv
  OBVIOUS
<1>1. <<>> \in Seq(C!Result) /\ Len(<<>>) = 0 /\ DOMAIN <<>> = {}
  OBVIOUS
<1>2. /\ now = 1 /\ results = <<>> /\ shell = "none" /\ kid = "none" /\ waiting = "idle"
      /\ chdStopper = "none" /\ printed = FALSE /\ inTime = FALSE
  BY DEF C!Init
<1>3. Found
  <2>1. now \in Nat \ {0} /\ Len(results) = now - 1
    BY <1>1, <1>2
  <2> QED BY <1>1, <1>2, <2>1 DEF Found
<1>4. Carried
  BY <1>2 DEF Carried
<1> QED BY <1>1, <1>2, <1>3, <1>4 DEF CheckInv, C!PassedWasEarned, C!NobodyLeftOfAStopped

\* What shell.Run returns is one result more, of the command being carried out.
LEMMA ReturnsDoes ==
  ASSUME Found, NEW r \in C!Result, C!Returns(r),
         C!PassedWasEarned, C!NobodyLeftOfAStopped,
         r.found = "passed" => r.exit = "zero" /\ r.inTime /\ (expects[now] => r.silent),
         r.wasStopped => ~r.left
  PROVE  CheckInv'
<1>1. results' = Append(results, r) /\ now' = now + 1 /\ expects' = expects
  BY DEF C!Returns, C!asked
<1>2. /\ results' \in Seq(C!Result) /\ Len(results') = now /\ results'[now] = r
      /\ \A k \in 1..now - 1 : results'[k] = results[k]
      /\ DOMAIN results' = 1..now /\ DOMAIN results = 1..now - 1
  BY <1>1, AppendProperties, LenProperties DEF Found
<1>3. Found' /\ Carried'
  <2>1. /\ shell' = "none" /\ kid' = "none" /\ waiting' = "idle" /\ chdStopper' = "none"
        /\ printed' = FALSE /\ inTime' = FALSE
    BY DEF C!Returns
  <2>2. now' \in Nat \ {0} /\ Len(results') = now' - 1
    BY <1>1, <1>2 DEF Found
  <2> QED BY <1>2, <2>1, <2>2 DEF Found, Carried
<1>4. ASSUME NEW k \in DOMAIN results'
      PROVE  /\ results'[k].found = "passed" =>
                  /\ results'[k].exit = "zero" /\ results'[k].inTime
                  /\ expects'[k] => results'[k].silent
             /\ results'[k].wasStopped => ~results'[k].left
  <2>1. CASE k = now
    BY <1>1, <1>2, <2>1
  <2>2. CASE k # now
    <3>1. k \in DOMAIN results /\ results'[k] = results[k]
      BY <1>2, <1>4, <2>2 DEF Found
    <3> QED BY <1>1, <3>1 DEF C!PassedWasEarned, C!NobodyLeftOfAStopped
  <2> QED BY <2>1, <2>2
<1> QED BY <1>3, <1>4 DEF CheckInv, C!PassedWasEarned, C!NobodyLeftOfAStopped

\* A check that cannot be run is found to have failed.
LEMMA NeverRunsStep ==
  ASSUME CheckInv, C!NeverRuns
  PROVE  CheckInv'
<1> DEFINE found == C!Judged(FALSE, "none", TRUE)
           r == [found |-> found, exit |-> "none", silent |-> TRUE, inTime |-> FALSE,
                 left |-> FALSE, wasStopped |-> FALSE]
<1>1. found \in C!Finds /\ found # "passed"
  BY DEF C!Judged, C!Finds
<1> HIDE DEF found
<1>2. r \in C!Result
  BY <1>1 DEF C!Result
<1>3. C!Returns(r)
  BY DEF C!NeverRuns, found
<1>4. r.found # "passed" /\ ~r.wasStopped
  BY <1>1
<1> QED BY <1>2, <1>3, <1>4, ReturnsDoes DEF CheckInv

\* The answer of a check is judged by how it went.
LEMMA AnswersStep ==
  ASSUME CheckInv, C!Answers
  PROVE  CheckInv'
<1> DEFINE found == C!Judged(TRUE, shell, ~printed)
           r == [found |-> found, exit |-> shell, silent |-> ~printed, inTime |-> inTime,
                 left |-> kid # "none", wasStopped |-> chdStopper = "stopped"]
<1>1. /\ found \in C!Finds
      /\ found = "passed" => /\ ~given /\ ~late /\ shell = "zero"
                             /\ expects[now] => ~printed
  BY DEF C!Judged, C!Finds
<1>2. waiting = "stopper" /\ C!Returns(r)
  BY DEF C!Answers
<1>3. shell \in C!Exits /\ (found = "passed" => inTime)
  BY <1>1, <1>2 DEF CheckInv, Carried
<1>4. (chdStopper = "stopped") => kid = "none"
  BY DEF CheckInv, Carried
<1> HIDE DEF found
<1>5. r \in C!Result
  BY <1>1, <1>3 DEF C!Result, CheckInv, Found
<1>6. /\ r.found = "passed" => r.exit = "zero" /\ r.inTime /\ (expects[now] => r.silent)
      /\ r.wasStopped => ~r.left
  BY <1>1, <1>3, <1>4
<1> QED BY <1>2, <1>5, <1>6, ReturnsDoes DEF CheckInv

\* Every step preserves the check's invariant.
LEMMA CheckStep == CheckInv /\ [C!Next]_(C!vars) => CheckInv'
<1> SUFFICES ASSUME CheckInv, [C!Next]_(C!vars) PROVE CheckInv'
  OBVIOUS
<1> DEFINE Rest == \/ C!Starts \/ C!Reaped \/ C!PipesClose \/ C!DelayRunsOut
                   \/ C!NothingToStop \/ C!StopsIt \/ C!GroupGone \/ C!GraceRunsOut
                   \/ C!TimesOut \/ C!GivesUp \/ C!Command \/ UNCHANGED C!vars
<1>1. C!NeverRuns \/ C!Answers \/ Rest
  BY DEF C!Next, C!Progress
<1>2. CASE Rest
  <2>1. UNCHANGED <<results, now, expects>>
    BY <1>2 DEF C!Starts, C!Reaped, C!PipesClose, C!DelayRunsOut, C!NothingToStop,
         C!StopsIt, C!GroupGone, C!GraceRunsOut, C!TimesOut, C!GivesUp, C!Command,
         C!ShellExits, C!Prints, C!LeavesAKid, C!LeavesAStray, C!KidEnds, C!StrayEnds,
         C!vars, C!found, C!asked
  <2>2. C!PassedWasEarned' /\ C!NobodyLeftOfAStopped'
    BY <2>1 DEF CheckInv, C!PassedWasEarned, C!NobodyLeftOfAStopped
  <2>3. /\ shell' \in {"none", "running"} \cup C!Exits /\ kid' \in {"none", "polite", "deaf"}
        /\ inTime' \in BOOLEAN /\ printed' \in BOOLEAN
        /\ waiting' \in {"idle", "shell", "pipes", "stopper"}
    BY <1>2, ZenonT(30) DEF CheckInv, Found, C!Exits, C!Starts, C!Reaped, C!PipesClose, C!DelayRunsOut,
         C!NothingToStop, C!StopsIt, C!GroupGone, C!GraceRunsOut, C!TimesOut, C!GivesUp,
         C!Command, C!ShellExits, C!Prints, C!LeavesAKid, C!LeavesAStray, C!KidEnds,
         C!StrayEnds, C!vars, C!found, C!asked, C!processes, C!running, C!clocks
  <2>4. Carried'
    <3>1. (shell = "zero" /\ ~late /\ ~given => inTime)'
      <4>1. CASE C!ShellExits
        <5>1. shell' = "zero" /\ ~late' /\ ~given' => ~late /\ ~given
          BY <4>1 DEF C!ShellExits, C!clocks
        <5> QED BY <4>1, <5>1 DEF C!ShellExits
      <4>2. CASE Rest /\ ~C!ShellExits
        BY <4>2 DEF CheckInv, Carried, C!Starts, C!Reaped, C!PipesClose,
           C!DelayRunsOut, C!NothingToStop, C!StopsIt, C!GroupGone, C!GraceRunsOut,
           C!TimesOut, C!GivesUp, C!Command, C!Prints, C!LeavesAKid,
           C!LeavesAStray, C!KidEnds, C!StrayEnds, C!vars, C!found, C!asked, C!processes,
           C!running, C!clocks
      <4> QED BY <1>2, <4>1, <4>2
    <3>2. (waiting = "idle" => shell = "none" /\ kid = "none" /\ chdStopper = "none")'
      BY <1>2 DEF CheckInv, Carried, C!Exits, C!Starts, C!Reaped, C!PipesClose,
           C!DelayRunsOut, C!NothingToStop, C!StopsIt, C!GroupGone, C!GraceRunsOut,
           C!TimesOut, C!GivesUp, C!Command, C!ShellExits, C!Prints, C!LeavesAKid,
           C!LeavesAStray, C!KidEnds, C!StrayEnds, C!vars, C!found, C!asked, C!processes,
           C!running, C!clocks
    <3>3. (waiting \in {"pipes", "stopper"} => shell \in C!Exits)'
      BY <1>2 DEF CheckInv, Carried, C!Exits, C!Starts, C!Reaped, C!PipesClose,
           C!DelayRunsOut, C!NothingToStop, C!StopsIt, C!GroupGone, C!GraceRunsOut,
           C!TimesOut, C!GivesUp, C!Command, C!ShellExits, C!Prints, C!LeavesAKid,
           C!LeavesAStray, C!KidEnds, C!StrayEnds, C!vars, C!found, C!asked, C!processes,
           C!running, C!clocks
    <3>4. (chdStopper = "stopped" => kid = "none" /\ shell # "running")'
      BY <1>2 DEF CheckInv, Found, Carried, C!Exits, C!GroupAlive, C!Starts, C!Reaped,
           C!PipesClose, C!DelayRunsOut, C!NothingToStop, C!StopsIt, C!GroupGone,
           C!GraceRunsOut, C!TimesOut, C!GivesUp, C!Command, C!ShellExits, C!Prints,
           C!LeavesAKid, C!LeavesAStray, C!KidEnds, C!StrayEnds, C!vars, C!found,
           C!asked, C!processes, C!running, C!clocks
    <3> QED BY <3>1, <3>2, <3>3, <3>4 DEF Carried
  <2> QED BY <2>1, <2>2, <2>3, <2>4 DEF CheckInv, Found
<1> QED BY <1>1, <1>2, NeverRunsStep, AnswersStep

-----------------------------------------------------------------------------
(* Desktop.  A follow is registered under its Run until it leaves or is    *)
(* cancelled, and has said one word of itself by the time it leaves.       *)

DeskTyped ==
  /\ of \in [Stream -> Run] /\ follows \in [Run -> Stream \cup {D!NoFollow}]
  /\ at \in [Stream -> D!Ats] /\ stopped \subseteq Stream /\ closed \in BOOLEAN
  /\ got \in [Stream -> Nat] /\ failed \in [Stream -> BOOLEAN]
  /\ first \in [Stream -> [value : {"nothing", "ok", "error"}, sends : Nat]]
  /\ ends \in [Stream -> Nat]

Absent(f) == at[f] \in {"none", "gone"}

\* What is registered under a Run is a follow of that Run which has not left ...
Held == \A r \in Run : follows[r] # D!NoFollow => of[follows[r]] = r /\ ~Absent(follows[r])

\* ... and whoever has not left and was not cancelled is registered.
Reachable == \A f \in Stream : ~Absent(f) /\ ~D!Cancelled(f) => follows[of[f]] = f

\* What a follow has said, by where its goroutine is.
Settles(f) ==
  /\ first[f].sends = 0 <=> first[f].value = "nothing"
  /\ at[f] = "none" => got[f] = 0
  /\ at[f] \in {"none", "streaming", "ended", "live"} =>
       /\ first[f].sends = (IF got[f] = 0 THEN 0 ELSE 1)
       /\ first[f].value # "error" /\ ends[f] = 0
  /\ at[f] \in {"announcing", "leaving", "gone"} => first[f].sends = 1
  /\ at[f] = "announcing" => ends[f] = 0 /\ first[f].value = "ok"
  /\ first[f].value = "error" => at[f] \in {"leaving", "gone"} /\ ends[f] = 0 /\ got[f] = 0
  /\ at[f] \in {"leaving", "gone"} /\ ~D!Cancelled(f) =>
       (first[f].value = "error" /\ ends[f] = 0) \/ (first[f].value = "ok" /\ ends[f] = 1)

DeskInv == DeskTyped /\ Held /\ Reachable /\ \A f \in Stream : Settles(f)

\* A goroutine's word to its caller.
LEMMA SettledDoes ==
  ASSUME DeskTyped, NEW f \in Stream, NEW v \in {"nothing", "ok", "error"}
  PROVE  /\ D!Settled(f, v) \in [Stream -> [value : {"nothing", "ok", "error"}, sends : Nat]]
         /\ D!Settled(f, v)[f].value = v /\ D!Settled(f, v)[f].sends = first[f].sends + 1
         /\ \A g \in Stream : g # f => D!Settled(f, v)[g] = first[g]
<1>1. first[f].sends \in Nat
  BY DEF DeskTyped
<1>2. D!Settled(f, v)[f] = [value |-> v, sends |-> first[f].sends + 1]
  BY DEF D!Settled, DeskTyped
<1>3. \A g \in Stream : g # f => D!Settled(f, v)[g] = first[g]
  BY DEF D!Settled, DeskTyped
<1>4. D!Settled(f, v) \in [Stream -> [value : {"nothing", "ok", "error"}, sends : Nat]]
  BY <1>1 DEF D!Settled, DeskTyped
<1> QED BY <1>2, <1>3, <1>4

\* The app with no follow.
LEMMA DeskInit == D!Init => DeskInv
<1> SUFFICES ASSUME D!Init PROVE DeskInv
  OBVIOUS
<1>1. DeskTyped
  BY DEF D!Init, DeskTyped, D!Ats
<1>2. Held /\ Reachable
  BY DEF D!Init, Held, Reachable, Absent
<1>3. \A f \in Stream : Settles(f)
  BY DEF D!Init, Settles
<1> QED BY <1>1, <1>2, <1>3 DEF DeskInv

\* One follow's step: the others are as they were, and none is cancelled no longer.
LEMMA CancelledStays ==
  ASSUME DeskTyped, [D!Next]_(D!vars), NEW f \in Stream, D!Cancelled(f)
  PROVE  D!Cancelled(f)'
BY DEF DeskTyped, D!Next, D!Follows, D!FollowLog, D!Returns, D!Goroutine, D!Line,
     D!StreamEnds, D!LeavesSilently, D!SeesItLives, D!Refuses, D!Announces, D!Leaves,
     D!StopLog, D!Shutdown, D!SendTo, D!Sends, D!Announced, D!ExchangeEnds, D!Expires,
     D!SendReturns, D!vars, D!follow, D!sending, D!Cancelled

\* The app's types are kept.
LEMMA DeskTypedStep ==
  ASSUME DeskTyped, [D!Next]_(D!vars)
  PROVE  DeskTyped'
<1>1. ASSUME NEW f \in Stream, D!Line(f) \/ D!LeavesSilently(f) \/ D!Refuses(f)
      PROVE  DeskTyped'
  <2>1. first' \in [Stream -> [value : {"nothing", "ok", "error"}, sends : Nat]]
    <3>1. first' \in {first, D!Settled(f, "ok"), D!Settled(f, "error")}
      BY <1>1 DEF D!Line, D!LeavesSilently, D!Refuses
    <3> QED BY <3>1, SettledDoes DEF DeskTyped
  <2>2. got' \in [Stream -> Nat]
    BY <1>1 DEF DeskTyped, D!Line, D!LeavesSilently, D!Refuses
  <2>3. at' \in [Stream -> D!Ats]
    BY <1>1 DEF DeskTyped, D!Line, D!LeavesSilently, D!Refuses, D!Ats
  <2>4. UNCHANGED <<of, follows, stopped, closed, failed, ends>>
    BY <1>1 DEF D!Line, D!LeavesSilently, D!Refuses
  <2> QED BY <2>1, <2>2, <2>3, <2>4 DEF DeskTyped
<1>2. ASSUME NEW f \in Stream, D!FollowLog(f)
      PROVE  DeskTyped'
  BY <1>2 DEF DeskTyped, D!FollowLog, D!Ats
<1>3. ASSUME NEW f \in Stream, D!Returns(f) \/ D!SeesItLives(f)
      PROVE  DeskTyped'
  BY <1>3 DEF DeskTyped, D!Returns, D!SeesItLives, D!Ats
<1>4. ASSUME NEW f \in Stream, D!StreamEnds(f)
      PROVE  DeskTyped'
  BY <1>4 DEF DeskTyped, D!StreamEnds, D!Ats
<1>5. ASSUME NEW f \in Stream, D!Announces(f) \/ D!Leaves(f)
      PROVE  DeskTyped'
  <2>1. CASE D!Announces(f)
    BY <2>1 DEF DeskTyped, D!Announces, D!Ats
  <2>2. CASE D!Leaves(f)
    <3>1. follows' \in [Run -> Stream \cup {D!NoFollow}]
      BY <2>2 DEF DeskTyped, D!Leaves, D!Forgets
    <3>2. at' \in [Stream -> D!Ats]
      BY <2>2 DEF DeskTyped, D!Leaves, D!Ats
    <3> QED BY <2>2, <3>1, <3>2 DEF DeskTyped, D!Leaves
  <2> QED BY <1>5, <2>1, <2>2
<1>6. ASSUME NEW r \in Run, D!StopLog(r)
      PROVE  DeskTyped'
  BY <1>6 DEF DeskTyped, D!StopLog
<1>7. CASE D!Shutdown
  BY <1>7 DEF DeskTyped, D!Shutdown
<1>8. CASE D!SendTo \/ UNCHANGED D!vars
  BY <1>8 DEF DeskTyped, D!SendTo, D!Sends, D!Announced, D!ExchangeEnds, D!Expires,
       D!SendReturns, D!vars, D!follow
<1> QED BY <1>1, <1>2, <1>3, <1>4, <1>5, <1>6, <1>7, <1>8
        DEF D!Next, D!Follows, D!Goroutine

\* What the registrations go by.
LEMMA HeldStep ==
  ASSUME DeskTyped, Held, Reachable, [D!Next]_(D!vars)
  PROVE  Held' /\ Reachable'
<1>1. ASSUME NEW f \in Stream, D!FollowLog(f)
      PROVE  Held' /\ Reachable'
  <2>1. /\ of' = of /\ closed' = closed /\ at[f] = "none"
        /\ at'[f] = "streaming" /\ \A g \in Stream : g # f => at'[g] = at[g]
        /\ follows'[of[f]] = f
        /\ \A r \in Run : r # of[f] => follows'[r] = follows[r]
        /\ stopped' = stopped \cup ({follows[of[f]]} \ {D!NoFollow})
    BY <1>1 DEF D!FollowLog, DeskTyped
  <2>2. Held'
    BY <2>1 DEF Held, Absent, DeskTyped
  <2>3. Reachable'
    BY <2>1, CallsAreNumbered DEF Reachable, Absent, DeskTyped, D!Cancelled
  <2> QED BY <2>2, <2>3
<1>2. ASSUME NEW f \in Stream, D!Leaves(f)
      PROVE  Held' /\ Reachable'
  <2>1. /\ of' = of /\ closed' = closed /\ stopped' = stopped /\ at[f] = "leaving"
        /\ at'[f] = "gone" /\ \A g \in Stream : g # f => at'[g] = at[g]
    BY <1>2 DEF D!Leaves, DeskTyped
  <2>2. \A r \in Run : \/ follows'[r] = follows[r] /\ follows[r] # f
                       \/ follows'[r] = D!NoFollow /\ follows[r] = f
    BY <1>2, CallsAreNumbered DEF D!Leaves, D!Forgets, Held, DeskTyped
  <2>3. Held'
    BY <2>1, <2>2 DEF Held, Absent, DeskTyped
  <2>4. Reachable'
    BY <2>1, <2>2 DEF Reachable, Absent, DeskTyped, D!Cancelled
  <2> QED BY <2>3, <2>4
<1>3. ASSUME NEW f \in Stream,
             \/ D!Returns(f) \/ D!Line(f) \/ D!StreamEnds(f) \/ D!LeavesSilently(f)
             \/ D!SeesItLives(f) \/ D!Refuses(f) \/ D!Announces(f)
      PROVE  Held' /\ Reachable'
  <2>1. /\ UNCHANGED <<of, closed, stopped, follows>>
        /\ \A g \in Stream : Absent(g)' <=> Absent(g)
    BY <1>3 DEF D!Returns, D!Line, D!StreamEnds, D!LeavesSilently, D!SeesItLives, D!Refuses,
         D!Announces, Absent, DeskTyped
  <2>2. Held'
    BY <2>1 DEF Held, DeskTyped
  <2>3. Reachable'
    BY <2>1 DEF Reachable, D!Cancelled
  <2> QED BY <2>2, <2>3
<1>4. ASSUME NEW r \in Run, D!StopLog(r)
      PROVE  Held' /\ Reachable'
  <2>1. /\ UNCHANGED <<of, closed, at>> /\ follows[r] \in stopped' /\ stopped \subseteq stopped'
        /\ follows'[r] = D!NoFollow
        /\ \A q \in Run : q # r => follows'[q] = follows[q]
    BY <1>4 DEF D!StopLog, DeskTyped
  <2>2. Held'
    BY <2>1 DEF Held, Absent, DeskTyped
  <2>3. Reachable'
    BY <2>1 DEF Reachable, Absent, DeskTyped, D!Cancelled
  <2> QED BY <2>2, <2>3
<1>5. CASE D!Shutdown
  BY <1>5 DEF D!Shutdown, Held, Reachable, Absent, D!Cancelled, DeskTyped
<1>6. CASE D!SendTo \/ UNCHANGED D!vars
  <2>1. UNCHANGED <<of, closed, stopped, follows, at>>
    BY <1>6 DEF D!SendTo, D!Sends, D!Announced, D!ExchangeEnds, D!Expires, D!SendReturns,
         D!vars, D!follow
  <2> QED BY <2>1 DEF Held, Reachable, Absent, D!Cancelled
<1> QED BY <1>1, <1>2, <1>3, <1>4, <1>5, <1>6 DEF D!Next, D!Follows, D!Goroutine

\* A follow that is over or cancelled says one last thing, and no more after it.
LEMMA SettlesStep ==
  ASSUME DeskTyped, [D!Next]_(D!vars), NEW g \in Stream, Settles(g)
  PROVE  Settles(g)'
<1>0. /\ got[g] \in Nat /\ ends[g] \in Nat /\ first[g].sends \in Nat /\ at[g] \in D!Ats
      /\ first[g].value \in {"nothing", "ok", "error"}
      /\ D!Cancelled(g) => D!Cancelled(g)'
  BY CancelledStays DEF DeskTyped
<1>1. CASE UNCHANGED <<at[g], got[g], first[g], ends[g]>>
  BY <1>0, <1>1 DEF Settles
<1>2. CASE D!Line(g)
  <2>1. at[g] = "streaming" /\ at'[g] = "streaming" /\ got'[g] = got[g] + 1 /\ ends' = ends
    BY <1>2 DEF D!Line, DeskTyped
  <2>2. IF got[g] = 0
        THEN first'[g].value = "ok" /\ first'[g].sends = first[g].sends + 1
        ELSE first'[g] = first[g]
    BY <1>2, SettledDoes DEF D!Line
  <2> QED BY <1>0, <2>1, <2>2 DEF Settles
<1>3. CASE D!LeavesSilently(g)
  <2>1. /\ at[g] = "ended" /\ at'[g] = "leaving" /\ got' = got /\ ends' = ends
        /\ D!Cancelled(g)
    BY <1>3 DEF D!LeavesSilently, DeskTyped
  <2>2. IF got[g] = 0
        THEN first'[g].value = "ok" /\ first'[g].sends = first[g].sends + 1
        ELSE first'[g] = first[g]
    BY <1>3, SettledDoes DEF D!LeavesSilently
  <2> QED BY <1>0, <2>1, <2>2 DEF Settles
<1>4. CASE D!Refuses(g)
  <2>1. /\ at[g] = "live" /\ got' = got /\ ends' = ends
        /\ at'[g] = IF got[g] = 0 /\ failed[g] THEN "leaving" ELSE "announcing"
    BY <1>4 DEF D!Refuses, DeskTyped
  <2>2. IF got[g] = 0
        THEN /\ first'[g].value = IF failed[g] THEN "error" ELSE "ok"
             /\ first'[g].sends = first[g].sends + 1
        ELSE first'[g] = first[g]
    <3>1. (IF failed[g] THEN "error" ELSE "ok") \in {"nothing", "ok", "error"}
      OBVIOUS
    <3> QED BY <1>4, <3>1, SettledDoes DEF D!Refuses
  <2> QED BY <1>0, <2>1, <2>2 DEF Settles
<1>5. CASE D!Announces(g)
  <2>1. /\ at[g] = "announcing" /\ at'[g] = "leaving" /\ got' = got /\ first' = first
        /\ ends'[g] = ends[g] + 1
    BY <1>5 DEF D!Announces, DeskTyped
  <2> QED BY <1>0, <2>1 DEF Settles
<1>6. CASE D!Leaves(g)
  <2>1. /\ at[g] = "leaving" /\ at'[g] = "gone" /\ got' = got /\ first' = first /\ ends' = ends
    BY <1>6 DEF D!Leaves, DeskTyped
  <2> QED BY <1>0, <2>1 DEF Settles
<1>7. CASE D!FollowLog(g)
  <2>1. /\ at[g] = "none" /\ at'[g] = "streaming" /\ got' = got /\ first' = first /\ ends' = ends
    BY <1>7 DEF D!FollowLog, DeskTyped
  <2> QED BY <1>0, <2>1 DEF Settles
<1>8. CASE D!StreamEnds(g) \/ D!SeesItLives(g)
  <2>1. /\ at[g] \in {"streaming", "ended"} /\ at'[g] \in {"ended", "live"}
        /\ got' = got /\ first' = first /\ ends' = ends
    BY <1>8 DEF D!StreamEnds, D!SeesItLives, DeskTyped
  <2> QED BY <1>0, <2>1 DEF Settles
<1>9. ASSUME NEW f \in Stream, f # g, D!FollowLog(f) \/ D!Goroutine(f)
      PROVE  UNCHANGED <<at[g], got[g], first[g], ends[g]>>
  <2>1. UNCHANGED <<at[g], got[g], ends[g]>>
    BY <1>9 DEF D!FollowLog, D!Goroutine, D!Line, D!StreamEnds, D!LeavesSilently,
         D!SeesItLives, D!Refuses, D!Announces, D!Leaves, DeskTyped
  <2>2. first'[g] = first[g]
    <3>1. first' \in {first, D!Settled(f, "ok"), D!Settled(f, "error")}
      BY <1>9 DEF D!FollowLog, D!Goroutine, D!Line, D!StreamEnds, D!LeavesSilently,
           D!SeesItLives, D!Refuses, D!Announces, D!Leaves
    <3> QED BY <1>9, <3>1, SettledDoes
  <2> QED BY <2>1, <2>2
<1>10. ASSUME \/ \E f \in Stream : D!Returns(f)
              \/ \E r \in Run : D!StopLog(r)
              \/ D!Shutdown \/ D!SendTo \/ UNCHANGED D!vars
       PROVE  UNCHANGED <<at[g], got[g], first[g], ends[g]>>
  BY <1>10 DEF D!Returns, D!StopLog, D!Shutdown, D!SendTo, D!Sends, D!Announced,
       D!ExchangeEnds, D!Expires, D!SendReturns, D!vars, D!follow
<1> QED BY <1>1, <1>2, <1>3, <1>4, <1>5, <1>6, <1>7, <1>8, <1>9, <1>10
        DEF D!Next, D!Follows, D!Goroutine

\* Every step preserves the app's invariant.
LEMMA DeskStep == DeskInv /\ [D!Next]_(D!vars) => DeskInv'
BY DeskTypedStep, HeldStep, SettlesStep DEF DeskInv

-----------------------------------------------------------------------------
(* The composition, as Checks and Desktop see it.                          *)

LEMMA PartsStepRest == [PartsNext]_allVars => [C!Next]_(C!vars) /\ [D!Next]_(D!vars)
BY DEF PartsNext, allVars, Output, Command, Desk, D!Next, checkVars, followVars,
     sendVars, C!vars, C!asked, C!processes, C!clocks, C!running, C!found, D!vars,
     D!follow, D!sending

\* The two of them imply the property.
LEMMA RestIsStopped == CheckInv /\ DeskInv => StoppedMeansStopped
<1> SUFFICES ASSUME CheckInv, DeskInv PROVE StoppedMeansStopped
  OBVIOUS
<1>1. C!PassedWasEarned /\ C!NobodyLeftOfAStopped
  BY DEF CheckInv
<1>2. D!EveryFollowCanBeStopped
  BY DEF DeskInv, Reachable, Absent, D!EveryFollowCanBeStopped
<1>3. D!EndIsToldOnce
  BY DEF DeskInv, Settles, D!EndIsToldOnce
<1>4. D!CallerIsLetGo
  BY DEF DeskInv, DeskTyped, Settles, D!CallerIsLetGo, D!Ats
<1> QED BY <1>1, <1>2, <1>3, <1>4 DEF StoppedMeansStopped

\* However many commands a use runs and however they and the clocks race, a check that
\* passed ended by itself and in time, and nothing of a stopped command's group is
\* alive once it is answered for; and however many follows come and go, each can be
\* reached while it streams, lets go of its caller and ends with one word
\* (shell.Run and the command Verifier; FollowLog).
THEOREM StoppedIsStopped == PartsSpec => []StoppedMeansStopped
<1>1. PartsInit => CheckInv /\ DeskInv
  BY CheckInit, DeskInit DEF PartsInit
<1>2. CheckInv /\ DeskInv /\ [PartsNext]_allVars => CheckInv' /\ DeskInv'
  BY CheckStep, DeskStep, PartsStepRest
<1> QED BY <1>1, <1>2, RestIsStopped, PTL DEF PartsSpec

=============================================================================
