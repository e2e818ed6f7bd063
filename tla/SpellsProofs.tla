---------------------------- MODULE SpellsProofs ----------------------------
(***************************************************************************)
(* What is proved of an Account's ceiling, for any number of Accounts,     *)
(* Jobs, windows, figures and limits: while an Account is known to be over *)
(* it is begun on once more at the most, and a Run on it that says         *)
(* anything is ended.                                                      *)
(***************************************************************************)
EXTENDS Spells, WellFoundedInduction, TLAPS

-----------------------------------------------------------------------------
(* The most spent of some windows.                                          *)

Below == OpToRel(<, Nat)

\* The library's order of the numbers is the usual one.
LEMMA BelowIsLess == Below = {p \in Nat \X Nat : p[1] < p[2]}
  BY DEF Below, OpToRel

\* A set of numbers that is not empty has a least one.
LEMMA LeastOf ==
  ASSUME NEW S \in SUBSET Nat, S # {}
  PROVE  \E m \in S : \A n \in S : m <= n
<1>1. IsWellFoundedOn(Below, Nat)
  BY NatLessThanWellFounded, Zenon DEF Below
<1>2. PICK m \in S : \A n \in S : <<n, m>> \notin Below
  BY <1>1, WFMin
<1>3. ASSUME NEW n \in S PROVE m <= n
  <2>1. m \in Nat /\ n \in Nat
    OBVIOUS
  <2>2. n < m => <<n, m>> \in {p \in Nat \X Nat : p[1] < p[2]}
    BY <2>1
  <2>3. ~(n < m)
    BY <1>2, <2>2, BelowIsLess, Zenon
  <2>. QED
    BY <2>1, <2>3
<1>. QED
  BY <1>3

\* Figures are percentages, so that some of them have a greatest.
LEMMA GreatestFigure ==
  ASSUME NEW S \in SUBSET (0 .. 100), S # {}
  PROVE  Max(S) \in S /\ \A n \in S : n <= Max(S)
<1>. DEFINE B == {k \in 0 .. 100 : 100 - k \in S}
<1>1. \A n \in S : n \in 0 .. 100 /\ 100 - n \in B
  <2>1. ASSUME NEW n \in S PROVE n \in 0 .. 100 /\ 100 - n \in B
    <3>1. n \in 0 .. 100 /\ 100 - n \in 0 .. 100 /\ 100 - (100 - n) = n
      OBVIOUS
    <3>. QED
      BY <3>1
  <2>. QED
    BY <2>1
<1>2. PICK k \in B : \A i \in B : k <= i
  <2>1. B \in SUBSET Nat /\ B # {}
    <3>1. PICK n \in S : TRUE
      OBVIOUS
    <3>2. 100 - n \in B
      BY <1>1, <3>1
    <3>3. B \in SUBSET Nat
      OBVIOUS
    <3>. HIDE DEF B
    <3>. QED
      BY <3>2, <3>3
  <2>. HIDE DEF B
  <2>. QED
    BY <2>1, LeastOf
<1>3. \A n \in S : n <= 100 - k
  <2>1. ASSUME NEW n \in S PROVE n <= 100 - k
    <3>1. n \in 0 .. 100 /\ k \in 0 .. 100 /\ k <= 100 - n
      BY <1>1, <1>2
    <3>. QED
      BY <3>1
  <2>. QED
    BY <2>1
<1>4. \E x \in S : \A n \in S : x >= n
  BY <1>2, <1>3
<1>5. Max(S) \in S /\ \A n \in S : Max(S) >= n
  BY <1>4 DEF Max
<1>. QED
  BY <1>1, <1>5

\* What is left after a sweep are readings.
LEMMA FiguresAre ==
  ASSUME TypeOK, NEW a \in Account, NEW w \in Window
  PROVE  Current(usage)[a][w] \in Reading /\ Current(usage)[a][w].spent \in 0 .. 100
<1>1. usage[a][w] \in Reading /\ None \in Reading
  BY CeilingAssumption DEF TypeOK, Reading, None
<1>2. Current(usage)[a][w] = IF usage[a][w].left > 0 THEN usage[a][w] ELSE None
  BY DEF Current
<1>3. Percent \cup {0} \subseteq 0 .. 100
  <2>1. Percent \subseteq 0 .. 100
    BY CeilingAssumption
  <2>. QED
    BY <2>1
<1>4. \A r \in Reading : r.spent \in Percent \cup {0}
  BY DEF Reading
<1>. QED
  BY <1>1, <1>2, <1>3, <1>4

\* The most spent of some windows is no less than any of them.
LEMMA SpentIsMost ==
  ASSUME TypeOK, NEW a \in Account, NEW some \in SUBSET Window, NEW w \in some
  PROVE  /\ Spent(Current(usage), a, some) \in Nat
         /\ Current(usage)[a][w].spent <= Spent(Current(usage), a, some)
<1>. DEFINE S == {Current(usage)[a][x].spent : x \in some} \cup {0}
<1>1. \A x \in Window : Current(usage)[a][x].spent \in 0 .. 100
  BY FiguresAre
<1>2. S \in SUBSET (0 .. 100) /\ S # {} /\ Current(usage)[a][w].spent \in S
  BY <1>1
<1>3. Spent(Current(usage), a, some) = Max(S)
  BY DEF Spent
<1>. HIDE DEF S
<1>4. Max(S) \in S /\ \A n \in S : n <= Max(S)
  BY <1>2, GreatestFigure
<1>5. Max(S) \in 0 .. 100 /\ Current(usage)[a][w].spent <= Max(S)
  BY <1>2, <1>4, Zenon
<1>6. Max(S) \in Nat
  BY <1>5
<1>. QED
  BY <1>3, <1>5, <1>6, Zenon

-----------------------------------------------------------------------------
(* Types.                                                                   *)

\* Whatever is heard, recorded or forgotten, a reading is one.
LEMMA TypeKept == TypeOK /\ [Next]_vars => TypeOK'
<1>. SUFFICES ASSUME TypeOK, [Next]_vars PROVE TypeOK'
  OBVIOUS
<1>. USE CeilingAssumption
<1>1. Current(usage) \in [Account -> [Window -> Reading]]
  BY DEF TypeOK, Current, Reading, None
<1>2. ASSUME NEW j \in Job, Hear(j) PROVE TypeOK'
  <2>1. PICK w \in Window, p \in Percent, l \in 0..MaxAhead :
          reader' = [reader EXCEPT ![j] = [step |-> "record", window |-> w, spent |-> p,
                                           left |-> l, room |-> Room(AccountOf[j], w)]]
    BY <1>2 DEF Hear
  <2>2. Room(AccountOf[j], w) \in BOOLEAN
    BY DEF Room
  <2>3. [step |-> "record", window |-> w, spent |-> p, left |-> l,
         room |-> Room(AccountOf[j], w)] \in Readers
    BY <2>2 DEF Readers
  <2>. QED
    BY <1>1, <1>2, <2>1, <2>3 DEF Hear, TypeOK
<1>3. ASSUME NEW j \in Job, Record(j) PROVE TypeOK'
  <2>1. reader[j] \in [step : {"record"}, window : Window, spent : Percent,
                       left : 0..MaxAhead, room : BOOLEAN]
    BY <1>3 DEF Record, TypeOK, Readers, Quiet
  <2>2. [left |-> reader[j].left, spent |-> reader[j].spent, known |-> TRUE] \in Reading
    BY <2>1 DEF Reading
  <2>3. usage' \in [Account -> [Window -> Reading]]
    BY <1>3, <2>1, <2>2 DEF Record, TypeOK
  <2>4. [step |-> "judge"] \in Readers
    BY DEF Readers
  <2>. QED
    BY <1>3, <2>3, <2>4 DEF Record, TypeOK
<1>4. ASSUME NEW j \in Job, Judge(j) PROVE TypeOK'
  BY <1>1, <1>4 DEF Judge, TypeOK, Readers
<1>5. ASSUME NEW j \in Job, RunEnds(j) PROVE TypeOK'
  BY <1>5 DEF RunEnds, TypeOK
<1>6. ASSUME NEW by \in {"user", "machine"}, Begin(by) PROVE TypeOK'
  BY <1>6 DEF Begin, TypeOK, Starts
<1>7. CASE Scan
  BY <1>1, <1>7 DEF Scan, Answer, TypeOK, Starts, Free, Pending
<1>8. CASE Check
  <2>1. start \in [step : {"check", "claim"}, by : {"user", "machine"}, job : Job]
    BY <1>8 DEF Check, TypeOK, Starts, Free
  <2>2. [start EXCEPT !.step = "claim"] \in Starts
    BY <2>1 DEF Starts
  <2>. QED
    BY <1>1, <1>8, <2>2 DEF Check, Answer, TypeOK, Starts
<1>9. CASE Claim
  BY <1>9 DEF Claim, TypeOK, Starts, Free
<1>10. CASE Look
  <2>1. NextAsk(ask.waited) \in 0..MaxHold /\ NextAsk(0) \in 0..MaxHold
    BY DEF TypeOK, NextAsk, Least, Most
  <2>2. ask' \in [left : 0..MaxHold, waited : 0..MaxHold]
    BY <1>10, <2>1 DEF Look, TypeOK, Rested
  <2>. QED
    BY <1>10, <2>2 DEF Look, TypeOK
<1>11. CASE Tick
  <2>1. \A n \in Nat : Less(n) \in 0..n
    BY DEF Less
  <2>2. usage' \in [Account -> [Window -> Reading]]
    <3>1. ASSUME NEW a \in Account, NEW w \in Window
          PROVE  [usage[a][w] EXCEPT !.left = Less(@)] \in Reading
      <4>1. usage[a][w] \in Reading
        BY DEF TypeOK
      <4>2. Less(usage[a][w].left) \in 0..MaxAhead
        BY <2>1, <4>1 DEF Less, Reading
      <4>. QED
        BY <4>1, <4>2 DEF Reading
    <3>. QED
      BY <1>11, <3>1 DEF Tick
  <2>3. reader' \in [Job -> Readers]
    <3>1. ASSUME NEW j \in Job, reader[j].step = "record"
          PROVE  [reader[j] EXCEPT !.left = Less(@)] \in Readers
      <4>1. reader[j] \in [step : {"record"}, window : Window, spent : Percent,
                           left : 0..MaxAhead, room : BOOLEAN]
        BY <3>1 DEF TypeOK, Readers, Quiet
      <4>2. Less(reader[j].left) \in 0..MaxAhead
        BY <2>1, <4>1 DEF Less
      <4>. QED
        BY <4>1, <4>2 DEF Readers
    <3>. QED
      BY <1>11, <3>1 DEF Tick, TypeOK
  <2>4. ask' \in [left : 0..MaxHold, waited : 0..MaxHold]
    BY <1>11 DEF Tick, TypeOK, Less
  <2>. QED
    BY <1>11, <2>2, <2>3, <2>4 DEF Tick, TypeOK
<1>12. CASE Swap
  BY <1>12 DEF Swap, TypeOK
<1>13. CASE UNCHANGED vars
  BY <1>13 DEF TypeOK, vars
<1>. QED
  BY <1>2, <1>3, <1>4, <1>5, <1>6, <1>7, <1>8, <1>9, <1>10, <1>11, <1>12, <1>13 DEF Next

-----------------------------------------------------------------------------
(* A spell.                                                                 *)

\* The start that is past its scan waits for a Job that waits.
Waits == start.step \in {"check", "claim"} => at[start.job] = "pending"

\* Nobody began on an Account since the start that will claim looked at it.
InTime == start.step = "claim" => late[AccountOf[start.job]] = 0

Once  == \A a \in Account : late[a] <= 1
Ended == \A j \in spoken : at[j] = "ending"

IInv ==
  /\ TypeOK /\ late \in [Account -> Nat] /\ spoken \subseteq Job
  /\ Waits /\ InTime /\ Once /\ Ended

\* What is swept and then judged is all that can be over: no window is over that the
\* judgement does not see (ceiling.go, windowsOf).
LEMMA OverIsHeld ==
  ASSUME TypeOK, usage' = Current(usage), NEW a \in Account, Overspent(a)'
  PROVE  Held(a)
<1>1. PICK w \in Window : /\ Current(usage)[a][w].known /\ Limit(a, w) > 0
                          /\ Current(usage)[a][w].spent >= Limit(a, w)
  BY DEF Overspent, Limit
<1>2. /\ Ceilings[a].five \in Nat /\ Ceilings[a].weekly \in Nat
      /\ Current(usage)[a][w].spent \in Nat
      /\ Five \in SUBSET Window /\ Weekly \in SUBSET Window
  <2>1. Current(usage)[a][w].spent \in 0 .. 100
    BY FiguresAre, <1>1, Zenon
  <2>2. Ceilings[a] \in [five : Nat, weekly : Nat]
    BY CeilingAssumption
  <2>. QED
    BY <2>1, <2>2 DEF Window
<1>3. CASE w \in Five
  <2>1. /\ Spent(Current(usage), a, Five) \in Nat
        /\ Current(usage)[a][w].spent <= Spent(Current(usage), a, Five)
    BY <1>2, <1>3, SpentIsMost
  <2>. QED
    BY <1>1, <1>2, <1>3, <2>1 DEF Held, Over, Limit
<1>4. CASE w \notin Five
  <2>1. w \in Weekly
    BY <1>1, <1>4 DEF Window
  <2>2. /\ Spent(Current(usage), a, Weekly) \in Nat
        /\ Current(usage)[a][w].spent <= Spent(Current(usage), a, Weekly)
    BY <1>2, <2>1, SpentIsMost
  <2>. QED
    BY <1>1, <1>2, <1>4, <2>1, <2>2 DEF Held, Over, Limit
<1>. QED
  BY <1>3, <1>4

\* Only the start that claims begins on an Account, and it is done then.
LEMMA OnlyAClaimBegins ==
  ASSUME TypeOK, [Next]_vars, NEW j \in Job, at[j] = "pending", at'[j] = "running"
  PROVE  start.step = "claim" /\ start.job = j /\ start' = Free
BY DEF TypeOK, Next, vars, Hear, Record, Judge, RunEnds, Begin, Scan, Check, Claim, Look, Tick,
       Swap

\* A start that will claim has just looked, or has done nothing since.
LEMMA ClaimsWhatItSaw ==
  ASSUME TypeOK, [Next]_vars, start'.step = "claim"
  PROVE  \/ start' = start
         \/ /\ start'.job = start.job /\ start.job \in Job
            /\ usage' = Current(usage) /\ ~Held(AccountOf[start.job])
<1>1. ASSUME Check
      PROVE  /\ start'.job = start.job /\ start.job \in Job
             /\ usage' = Current(usage) /\ ~Held(AccountOf[start.job])
  <2>1. start \in [step : {"check", "claim"}, by : {"user", "machine"}, job : Job]
    BY <1>1 DEF Check, TypeOK, Starts, Free
  <2>. QED
    BY <1>1, <2>1 DEF Check, Answer, Free
<1>2. Claim \/ Scan \/ Begin("user") \/ Begin("machine") => start'.step # "claim"
  BY DEF Begin, Scan, Claim, Answer, Free
<1>3. Look \/ Tick \/ Swap \/ UNCHANGED vars => start' = start
  BY DEF vars, Look, Tick, Swap
<1>4. ASSUME NEW j \in Job, Hear(j) \/ Record(j) \/ Judge(j) \/ RunEnds(j) PROVE start' = start
  BY <1>4 DEF Hear, Record, Judge, RunEnds
<1>. QED
  BY <1>1, <1>2, <1>3, <1>4 DEF Next

\* A Job that is waited for is still waiting: one start takes Jobs, and a Run that ends
\* only gives its own back.
LEMMA WaitsKept ==
  ASSUME TypeOK, [Next]_vars, Waits
  PROVE  Waits'
<1>1. ASSUME NEW j \in Job, Hear(j) \/ Record(j) \/ Judge(j) \/ RunEnds(j)
      PROVE  Waits'
  <2>1. start.step \in {"check", "claim"} => start.job \in Job
    BY DEF TypeOK, Starts, Free
  <2>. QED
    BY <1>1, <2>1 DEF Waits, TypeOK, Hear, Record, Judge, RunEnds
<1>2. CASE Scan
  BY <1>2 DEF Waits, Scan, Answer, Pending, Free
<1>3. CASE Check
  <2>1. start \in [step : {"check", "claim"}, by : {"user", "machine"}, job : Job]
    BY <1>3 DEF Check, TypeOK, Starts, Free
  <2>. QED
    BY <1>3, <2>1 DEF Waits, Check, Answer, Free
<1>4. CASE Claim
  BY <1>4 DEF Waits, Claim, Free
<1>5. ASSUME Begin("user") \/ Begin("machine") \/ Look \/ Tick \/ Swap \/ UNCHANGED vars
      PROVE  Waits'
  BY <1>5 DEF Waits, Begin, Look, Tick, Swap, vars
<1>. QED
  BY <1>1, <1>2, <1>3, <1>4, <1>5 DEF Next

\* A Run that is being ended ends; its Job is not begun on meanwhile.
LEMMA EndingEnds ==
  ASSUME TypeOK, [Next]_vars, Waits, NEW j \in Job, at[j] = "ending"
  PROVE  at'[j] # "running"
BY DEF TypeOK, Waits, Next, vars, Hear, Record, Judge, RunEnds, Begin, Scan, Check, Claim, Look,
       Tick, Swap

\* A Run whose line was judged while its Account was over is ended.
LEMMA JudgedIsEnded ==
  ASSUME TypeOK, [Next]_vars, NEW j \in Job, JudgedOn(j), Overspent(AccountOf[j])'
  PROVE  at'[j] # "running"
<1>1. Judge(j)
  <2>1. reader[j].step = "judge" /\ reader'[j].step # "judge"
    BY DEF JudgedOn, Quiet
  <2>2. reader \in [Job -> Readers]
    BY DEF TypeOK
  <2>3. ASSUME NEW i \in Job, Hear(i) \/ Record(i) \/ RunEnds(i) \/ (i # j /\ Judge(i))
        PROVE  reader'[j].step = "judge"
    BY <2>1, <2>2, <2>3 DEF Hear, Record, Judge, RunEnds, Quiet
  <2>4. Begin("user") \/ Begin("machine") \/ Scan \/ Check \/ Claim \/ Look \/ Swap
          \/ UNCHANGED vars => reader' = reader
    BY DEF vars, Begin, Scan, Check, Claim, Look, Swap
  <2>5. Tick => reader'[j].step = "judge"
    BY <2>1, <2>2 DEF Tick
  <2>. QED
    BY <2>1, <2>3, <2>4, <2>5 DEF Next
<1>2. readable /\ usage' = Current(usage)
  BY <1>1 DEF JudgedOn, Judge
<1>3. Held(AccountOf[j])
  BY <1>2, OverIsHeld, CeilingAssumption
<1>. QED
  BY <1>1, <1>2, <1>3 DEF Judge, Crossed, TypeOK

\* What is remembered of a spell keeps what the property says of it.
LEMMA SpellStep ==
  ASSUME IInv, [SpellNext]_spellVars
  PROVE  IInv'
<1>1. CASE UNCHANGED spellVars
  BY <1>1 DEF IInv, TypeOK, Waits, InTime, Once, Ended, spellVars, vars
<1>2. CASE SpellNext
  <2>1. TypeOK /\ [Next]_vars /\ Waits /\ Remembers
    BY <1>2 DEF IInv, SpellNext
  <2>2. TypeOK' /\ Waits'
    BY <2>1, TypeKept, WaitsKept
  <2>3. late' \in [Account -> Nat] /\ spoken' \subseteq Job
    BY <2>1 DEF IInv, Remembers
  <2>4. InTime'
    <3>. SUFFICES ASSUME start'.step = "claim" PROVE late'[AccountOf[start'.job]] = 0
      BY DEF InTime
    <3>. DEFINE a == AccountOf[start'.job]
    <3>1. start'.job \in Job /\ a \in Account
      BY <2>2, CeilingAssumption DEF TypeOK, Starts, Free
    <3>2. ~BegunOn(a)
      BY <2>1, OnlyAClaimBegins DEF BegunOn, Free
    <3>3. CASE start' = start
      BY <2>1, <3>1, <3>2, <3>3 DEF IInv, InTime, Remembers
    <3>4. CASE usage' = Current(usage) /\ ~Held(a)
      BY <2>1, <3>1, <3>4, OverIsHeld DEF Remembers
    <3>. QED
      BY <2>1, <3>3, <3>4, ClaimsWhatItSaw
  <2>5. Once'
    <3>. SUFFICES ASSUME NEW a \in Account PROVE late'[a] <= 1
      BY DEF Once
    <3>1. BegunOn(a) => late[a] = 0
      BY <2>1, OnlyAClaimBegins DEF IInv, InTime, BegunOn
    <3>. QED
      BY <2>1, <3>1 DEF IInv, Once, Remembers
  <2>6. Ended'
    <3>. SUFFICES ASSUME NEW j \in spoken' PROVE at'[j] = "ending"
      BY DEF Ended
    <3>1. /\ j \in Job /\ Overspent(AccountOf[j])' /\ at'[j] \in {"running", "ending"}
          /\ j \in spoken \/ JudgedOn(j)
      BY <2>1 DEF Remembers
    <3>. QED
      BY <2>1, <3>1, EndingEnds, JudgedIsEnded DEF IInv, Ended
  <2>. QED
    BY <2>2, <2>3, <2>4, <2>5, <2>6 DEF IInv
<1>. QED
  BY <1>1, <1>2

\* However many Runs report and however starts and readings interleave: while an Account
\* is known to be over it is begun on once more at the most, and no Run on it that said
\* anything since goes on (start, under s.starting; watchUsage).
THEOREM SpellIsKept == SpellSpec => []KeptUnder
<1>1. SpellInit => IInv
  BY CeilingAssumption
     DEF SpellInit, Init, IInv, TypeOK, Waits, InTime, Once, Ended, Reading, None, Readers, Quiet,
         Starts, Free
<1>2. IInv /\ [SpellNext]_spellVars => IInv'
  BY SpellStep
<1>3. IInv => KeptUnder
  BY DEF IInv, Once, Ended, KeptUnder
<1>. QED
  BY <1>1, <1>2, <1>3, PTL DEF SpellSpec
=============================================================================
