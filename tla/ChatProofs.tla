----------------------------- MODULE ChatProofs -----------------------------
(***************************************************************************)
(* What Chat promises, proved for every number of Conversations, exchanges *)
(* and commands: nothing runs that nobody allowed, every answer that is    *)
(* accepted has somebody to reach, nothing runs in a directory that led    *)
(* out of itself, the user never speaks twice in a request and opens it    *)
(* unless drowned by others, and what was seen of an answer is kept.       *)
(*                                                                         *)
(* The request is shaped by a fold, and the first part says what any such  *)
(* fold of roles returns, by induction on how much of them was folded.     *)
(***************************************************************************)
EXTENDS Chat, SequenceTheorems, WellFoundedInduction, TLAPS

-----------------------------------------------------------------------------
(* Induction on the numbers, from the library's order of them.              *)

Below == OpToRel(<, Nat)

\* The library's order of the numbers is the usual one.
LEMMA BelowIsLess == Below = {p \in Nat \X Nat : p[1] < p[2]}
  BY DEF Below, OpToRel

\* A set of numbers that is not empty has a least one.
LEMMA LeastOf ==
  ASSUME NEW S \in SUBSET Nat, S # {}
  PROVE  \E m \in S : \A n \in S : m <= n
<1>1. IsWellFoundedOn(Below, Nat)
  BY NatLessThanWellFounded, Zenon DEF Below
<1>2. PICK m \in S : \A n \in S : <<n, m>> \notin Below
  BY <1>1, WFMin
<1>3. ASSUME NEW n \in S PROVE m <= n
  <2>1. m \in Nat /\ n \in Nat
    OBVIOUS
  <2>2. n < m => <<n, m>> \in {p \in Nat \X Nat : p[1] < p[2]}
    BY <2>1
  <2>3. ~(n < m)
    BY <1>2, <2>2, BelowIsLess, Zenon
  <2>. QED
    BY <2>1, <2>3
<1>. QED
  BY <1>3

\* A set that has zero and, with a number, the next, has them all.
LEMMA Induction ==
  ASSUME NEW S \in SUBSET Nat, 0 \in S, \A n \in S : n + 1 \in S
  PROVE  Nat \subseteq S
<1>. SUFFICES ASSUME Nat \ S # {} PROVE FALSE
  OBVIOUS
<1>1. PICK m \in Nat \ S : \A n \in Nat \ S : m <= n
  BY LeastOf
<1>2. m # 0 /\ m - 1 \in Nat /\ m - 1 \in S /\ (m - 1) + 1 = m
  BY <1>1
<1>. QED
  BY <1>1, <1>2

\* The numbers up to one have a greatest among any of them.
LEMMA GreatestOf ==
  ASSUME NEW k \in Nat, NEW s \in SUBSET (1 .. k), s # {}
  PROVE  Max(s) \in s /\ \A n \in s : n <= Max(s)
<1>. DEFINE B == {m \in Nat : \A n \in s : n <= m}
<1>1. PICK m \in B : \A b \in B : m <= b
  <2>1. k \in B /\ B \in SUBSET Nat
    OBVIOUS
  <2>. QED
    BY <2>1, LeastOf
<1>2. m \in s
  <2>. SUFFICES ASSUME m \notin s PROVE FALSE
    OBVIOUS
  <2>1. PICK n \in s : TRUE
    OBVIOUS
  <2>2. m \in Nat /\ n \in Nat /\ n >= 1 /\ n <= m
    BY <1>1
  <2>3. m - 1 \in Nat /\ m - 1 < m
    BY <2>2
  <2>4. \A l \in s : l <= m - 1
    BY <1>1
  <2>5. m - 1 \in B
    BY <2>3, <2>4
  <2>. QED
    BY <1>1, <2>2, <2>5
<1>3. \E x \in s : \A y \in s : x >= y
  BY <1>1, <1>2
<1>4. Max(s) \in s /\ \A y \in s : Max(s) >= y
  BY <1>3 DEF Max
<1>. QED
  BY <1>4

-----------------------------------------------------------------------------
(* What Shaped returns.                                                     *)

\* One role after those already shaped.
Grown(out, role) ==
  IF out = <<>> THEN (IF role = "user" THEN <<role>> ELSE out)
  ELSE IF Last(out) = role THEN out ELSE Append(out, role)

\* Any part of the roles shaped, from the shape of the part without its last.
IsFold(f, roles, places) ==
  f = [s \in SUBSET places |->
         IF s = {} THEN <<>> ELSE Grown(f[s \ {Max(s)}], roles[Max(s)])]
Fold(roles) == CHOOSE f : IsFold(f, roles, DOMAIN roles)

\* Shaping all the roles is that function at all of their places.
LEMMA ShapedIsFold == ASSUME NEW roles PROVE Shaped(roles) = Fold(roles)[DOMAIN roles]
  BY DEF Shaped, FoldLeft, MapThenFoldSet, Fold, IsFold, Grown

\* There is such a function, however many roles there are.
LEMMA FoldExists ==
  ASSUME NEW roles, NEW n \in Nat
  PROVE  \E f : IsFold(f, roles, 1 .. n)
<1>. DEFINE S == {k \in Nat : \E f : IsFold(f, roles, 1 .. k)}
<1>1. 0 \in S
  <2>. DEFINE f == [s \in SUBSET (1 .. 0) |-> <<>>]
  <2>1. SUBSET (1 .. 0) = {{}}
    OBVIOUS
  <2>2. IsFold(f, roles, 1 .. 0)
    BY <2>1 DEF IsFold
  <2>. QED
    BY <2>2
<1>2. ASSUME NEW k \in S PROVE k + 1 \in S
  <2>1. PICK f : IsFold(f, roles, 1 .. k)
    OBVIOUS
  <2>. DEFINE g == [s \in SUBSET (1 .. (k + 1)) |->
                      IF s \in SUBSET (1 .. k) THEN f[s]
                      ELSE Grown(f[s \ {k + 1}], roles[k + 1])]
  <2>2. ASSUME NEW s \in SUBSET (1 .. (k + 1))
        PROVE  g[s] = IF s = {} THEN <<>> ELSE Grown(g[s \ {Max(s)}], roles[Max(s)])
    <3>1. CASE s = {}
      BY <2>1, <3>1 DEF IsFold
    <3>2. CASE s # {} /\ s \in SUBSET (1 .. k)
      <4>1. s \ {Max(s)} \in SUBSET (1 .. k) /\ s \ {Max(s)} \in SUBSET (1 .. (k + 1))
        BY <3>2
      <4>2. g[s] = f[s] /\ g[s \ {Max(s)}] = f[s \ {Max(s)}]
        BY <3>2, <4>1
      <4>3. f[s] = Grown(f[s \ {Max(s)}], roles[Max(s)])
        BY <2>1, <3>2 DEF IsFold
      <4>. QED
        BY <3>2, <4>2, <4>3
    <3>3. CASE s # {} /\ s \notin SUBSET (1 .. k)
      <4>1. k \in Nat /\ k + 1 \in Nat /\ 1 .. (k + 1) = (1 .. k) \cup {k + 1}
        OBVIOUS
      <4>2. k + 1 \in s
        BY <3>3, <4>1
      <4>3. Max(s) \in s /\ \A m \in s : m <= Max(s)
        BY <3>3, <4>1, GreatestOf
      <4>4. Max(s) = k + 1
        <5>1. Max(s) \in 1 .. (k + 1) /\ k + 1 <= Max(s)
          BY <4>2, <4>3
        <5>. QED
          BY <4>1, <5>1
      <4>5. s \ {k + 1} \in SUBSET (1 .. k) /\ s \ {k + 1} \in SUBSET (1 .. (k + 1))
        BY <4>1
      <4>6. g[s] = Grown(f[s \ {k + 1}], roles[k + 1]) /\ g[s \ {k + 1}] = f[s \ {k + 1}]
        BY <3>3, <4>5
      <4>. QED
        BY <3>3, <4>4, <4>6
    <3>. QED
      BY <3>1, <3>2, <3>3
  <2>. HIDE DEF g
  <2>3. g = [s \in SUBSET (1 .. (k + 1)) |-> g[s]]
    BY DEF g
  <2>4. IsFold(g, roles, 1 .. (k + 1))
    BY <2>2, <2>3 DEF IsFold
  <2>. QED
    BY <2>4
<1>3. S \in SUBSET Nat
  OBVIOUS
<1>. HIDE DEF S
<1>4. n \in S
  BY <1>1, <1>2, <1>3, Induction
<1>. QED
  BY <1>4 DEF S

\* What a provider takes: the user first, and then by turns.
ByTurns(h) ==
  /\ h \in Seq(Role)
  /\ h # <<>> => h[1] = "user"
  /\ \A i \in 1 .. (Len(h) - 1) : h[i] # h[i + 1]

\* One more role leaves it so, and a user's is never lost.
LEMMA GrownByTurns ==
  ASSUME NEW out, ByTurns(out), NEW role \in Role
  PROVE  /\ ByTurns(Grown(out, role))
         /\ out # <<>> \/ role = "user" => Grown(out, role) # <<>>
<1>0. out \in Seq(Role) /\ Len(out) \in Nat
  BY DEF ByTurns
<1>1. CASE out = <<>>
  <2>1. CASE role = "user"
    <3>. DEFINE h == <<role>>
    <3>1. Grown(out, role) = h /\ h \in Seq(Role) /\ Len(h) = 1 /\ h[1] = "user"
      BY <1>1, <2>1 DEF Grown
    <3>. HIDE DEF h
    <3>2. h # <<>>
      BY <3>1
    <3>. QED
      BY <3>1, <3>2 DEF ByTurns
  <2>2. CASE role # "user"
    BY <1>1, <2>2 DEF Grown
  <2>. QED
    BY <2>1, <2>2
<1>2. CASE out # <<>> /\ Last(out) = role
  BY <1>2 DEF Grown
<1>3. CASE out # <<>> /\ Last(out) # role
  <2>. DEFINE h == Append(out, role)
  <2>1. Grown(out, role) = h
    BY <1>3 DEF Grown
  <2>2. /\ h \in Seq(Role) /\ Len(h) = Len(out) + 1 /\ h[Len(out) + 1] = role
        /\ \A i \in 1 .. Len(out) : h[i] = out[i]
    BY <1>0
  <2>3. Len(out) >= 1
    BY <1>0, <1>3
  <2>4. out[Len(out)] # role
    BY <1>3 DEF Last
  <2>. HIDE DEF h
  <2>5. ASSUME NEW i \in 1 .. (Len(h) - 1) PROVE h[i] # h[i + 1]
    <3>1. CASE i = Len(out)
      BY <1>0, <2>2, <2>3, <2>4, <3>1
    <3>2. CASE i # Len(out)
      <4>1. i \in 1 .. (Len(out) - 1) /\ i \in 1 .. Len(out) /\ i + 1 \in 1 .. Len(out)
        BY <1>0, <2>2, <3>2
      <4>2. h[i] = out[i] /\ h[i + 1] = out[i + 1]
        BY <2>2, <4>1
      <4>. QED
        BY <4>1, <4>2 DEF ByTurns
    <3>. QED
      BY <3>1, <3>2
  <2>6. h[1] = "user"
    BY <1>0, <1>3, <2>2, <2>3 DEF ByTurns
  <2>7. h # <<>>
    BY <1>0, <2>2
  <2>. QED
    BY <2>1, <2>2, <2>5, <2>6, <2>7 DEF ByTurns
<1>. QED
  BY <1>1, <1>2, <1>3

\* What was shaped goes by turns, and is not empty when the user said anything in it.
LEMMA ShapedByTurns ==
  ASSUME NEW roles \in Seq(Role)
  PROVE  /\ ByTurns(Shaped(roles))
         /\ (\E i \in 1 .. Len(roles) : roles[i] = "user") => Shaped(roles) # <<>>
<1>. DEFINE n == Len(roles)
            F == Fold(roles)
            S == {k \in Nat : k <= n =>
                    /\ ByTurns(F[1 .. k])
                    /\ (\E i \in 1 .. k : roles[i] = "user") => F[1 .. k] # <<>>}
<1>1. n \in Nat /\ DOMAIN roles = 1 .. n /\ \A i \in 1 .. n : roles[i] \in Role
  OBVIOUS
<1>2. Shaped(roles) = F[1 .. n]
  BY <1>1, ShapedIsFold
<1>. HIDE DEF n
<1>3. IsFold(F, roles, 1 .. n)
  <2>1. \E f : IsFold(f, roles, 1 .. n)
    BY <1>1, FoldExists
  <2>2. F = CHOOSE f : IsFold(f, roles, 1 .. n)
    BY <1>1 DEF Fold
  <2>. HIDE DEF F
  <2>. QED
    BY <2>1, <2>2, Zenon
<1>. HIDE DEF F
<1>4. 0 \in S
  <2>1. 1 .. 0 = {} /\ {} \in SUBSET (1 .. n)
    BY <1>1
  <2>2. F[1 .. 0] = <<>>
    BY <1>3, <2>1 DEF IsFold
  <2>3. ByTurns(<<>>)
    BY DEF ByTurns
  <2>. QED
    BY <2>1, <2>2, <2>3
<1>5. ASSUME NEW k \in S PROVE k + 1 \in S
  <2>. SUFFICES ASSUME k + 1 <= n
                PROVE  /\ ByTurns(F[1 .. (k + 1)])
                       /\ (\E i \in 1 .. (k + 1) : roles[i] = "user") => F[1 .. (k + 1)] # <<>>
    OBVIOUS
  <2>0. k \in Nat
    OBVIOUS
  <2>1. k \in Nat /\ k <= n /\ 1 .. (k + 1) = (1 .. k) \cup {k + 1} /\ k + 1 \in 1 .. n
    BY <1>1, <2>0
  <2>2. ByTurns(F[1 .. k]) /\ ((\E i \in 1 .. k : roles[i] = "user") => F[1 .. k] # <<>>)
    BY <2>1
  <2>. DEFINE s == 1 .. (k + 1)
  <2>3. s # {} /\ s \in SUBSET (1 .. n) /\ s \in SUBSET (1 .. (k + 1)) /\ k + 1 \in Nat
    <3>1. k + 1 \in s /\ k + 1 \in Nat
      BY <2>1
    <3>2. \A i \in s : i \in 1 .. n
      BY <1>1, <2>1
    <3>. QED
      BY <3>1, <3>2
  <2>4. Max(s) \in s /\ \A m \in s : m <= Max(s)
    BY <2>3, GreatestOf
  <2>5. Max(s) = k + 1
    <3>1. Max(s) \in 1 .. (k + 1) /\ k + 1 <= Max(s)
      BY <2>1, <2>4
    <3>. QED
      BY <2>1, <3>1
  <2>6. s \ {k + 1} = 1 .. k
    BY <2>1
  <2>. HIDE DEF s
  <2>7. F[s] = Grown(F[1 .. k], roles[k + 1])
    BY <1>3, <2>3, <2>5, <2>6 DEF IsFold
  <2>8. /\ ByTurns(F[s])
        /\ F[1 .. k] # <<>> \/ roles[k + 1] = "user" => F[s] # <<>>
    BY <1>1, <2>1, <2>2, <2>7, GrownByTurns
  <2>. QED
    BY <2>1, <2>2, <2>8 DEF s
<1>6. S \in SUBSET Nat
  OBVIOUS
<1>. HIDE DEF S
<1>7. n \in S
  BY <1>1, <1>4, <1>5, <1>6, Induction
<1>8. /\ ByTurns(F[1 .. n])
      /\ (\E i \in 1 .. n : roles[i] = "user") => F[1 .. n] # <<>>
  BY <1>1, <1>7 DEF S
<1>. QED
  BY <1>2, <1>8 DEF n

\* Of what was said, the last is carried and everything that fits with it.
LEMMA OldestOf ==
  ASSUME NEW messages, Len(messages) \in Nat \ {0}
  PROVE  /\ Oldest(messages) \in 1 .. Len(messages)
         /\ \A k \in 1 .. Len(messages) :
              k = Len(messages) \/ Fit(messages, k, Len(messages)) => Oldest(messages) <= k
<1>. DEFINE n == Len(messages)
            S == {k \in 1 .. n : k = n \/ Fit(messages, k, n)}
<1>1. S \in SUBSET Nat /\ n \in S
  OBVIOUS
<1>2. Oldest(messages) = Min(S)
  BY DEF Oldest
<1>3. \A k \in 1 .. n : k = n \/ Fit(messages, k, n) => k \in S
  OBVIOUS
<1>4. \A k \in S : k \in 1 .. n
  OBVIOUS
<1>. HIDE DEF S
<1>5. PICK m \in S : \A k \in S : m <= k
  BY <1>1, LeastOf
<1>6. Min(S) \in S /\ \A k \in S : Min(S) <= k
  BY <1>5 DEF Min
<1>. QED
  BY <1>2, <1>3, <1>4, <1>6

\* What is read back and carried goes by turns, and so does any of it.
LEMMA CarriedByTurns ==
  ASSUME NEW messages \in Seq(Message), messages # <<>>
  PROVE  /\ ByTurns(Carried(messages))
         /\ (\E i \in 1 .. Len(messages) :
               messages[i].role = "user" /\ Oldest(messages) <= i)
            => Carried(messages) # <<>>
<1>. DEFINE n == Len(messages)
            old == Oldest(messages)
            roles == [i \in 1 .. (n + 1 - old) |-> messages[old + i - 1].role]
<1>1. n \in Nat \ {0} /\ old \in 1 .. n
  <2>1. n \in Nat \ {0}
    OBVIOUS
  <2>. QED
    BY <2>1, OldestOf
<1>2. Carried(messages) = Shaped(roles)
  BY DEF Carried, Recent
<1>3. \A i \in 1 .. n : messages[i].role \in Role
  <2>1. \A i \in 1 .. n : messages[i] \in Message
    OBVIOUS
  <2>. QED
    BY <2>1 DEF Message
<1>. HIDE DEF n, old
<1>4. roles \in Seq(Role) /\ Len(roles) = n + 1 - old
  <2>1. \A i \in 1 .. (n + 1 - old) : old + i - 1 \in 1 .. n
    BY <1>1
  <2>2. n + 1 - old \in Nat
    BY <1>1
  <2>. QED
    BY <1>3, <2>1, <2>2
<1>5. ASSUME NEW i \in 1 .. n, messages[i].role = "user", old <= i
      PROVE  \E k \in 1 .. Len(roles) : roles[k] = "user"
  <2>1. i + 1 - old \in 1 .. (n + 1 - old) /\ old + (i + 1 - old) - 1 = i
    BY <1>1, <1>5
  <2>2. roles[i + 1 - old] = "user"
    BY <1>5, <2>1
  <2>. QED
    BY <1>4, <2>1, <2>2
<1>. HIDE DEF roles
<1>. QED
  BY <1>2, <1>4, <1>5, ShapedByTurns DEF n, old

-----------------------------------------------------------------------------
(* The inductive invariant.                                                 *)

Asked   == {"consent", "waiting", "allowed", "running"}
Commands == {"calling"} \cup Asked
Talking == {"streaming"} \cup Commands

\* A turn is counted before the model is asked, so a command has a name.
Counted == \A e \in Exchange : pc[e] \in Talking => turns[e] >= 1

\* Nothing is answered before there is a turn to answer in.
Heard == \A e \in Exchange : text[e] => pc[e] \in {"turn", "ending"} \cup Talking

\* What the gate let through stays what is in hand until it has run.
Gated == \A e \in Exchange : pc[e] \in Asked => want[e] \in Permitted

\* A decision in the channel is the one its user made, about this command, and what was
\* granted was granted by somebody.
Decided ==
  /\ \A e \in Exchange : inbox[e] # None =>
       /\ pc[e] \in {"waiting", "allowed", "running"} /\ word[e] = inbox[e]
       /\ inbox[e] = "conversation" => of[e] \in blessed
  /\ granted \subseteq blessed
Consented ==
  \A e \in Exchange : pc[e] \in {"allowed", "running"} =>
    word[e] \in {"once", "conversation"} \/ of[e] \in blessed

\* A directory that is sound while a command is allowed was so at some moment since.
Looked ==
  \A e \in Exchange :
    /\ pc[e] = "running" => clean[e]
    /\ pc[e] = "allowed" /\ ~linked => clean[e]

\* What an exchange said is in its Conversation when it reads it back.
Recorded ==
  \A e \in Exchange : pc[e] = "opened" =>
    \E i \in 1 .. Len(said[of[e]]) : said[of[e]][i].role = "user" /\ said[of[e]][i].by = e

\* In what a request carries the user never speaks twice; the user opens it, unless the
\* question was drowned; and while a command is in hand the model spoke last.
Fits(h) ==
  /\ h \in Seq(Role)
  /\ \A i \in 1 .. (Len(h) - 1) : h[i] = "user" => h[i + 1] # "user"
Opens(e) == Drowned(e) \/ (history[e] # <<>> /\ history[e][1] = "user")
CarriesAt(e) ==
  /\ pc[e] \in {"turn", "streaming"} => Fits(history[e]) /\ Opens(e)
  /\ pc[e] \in Commands =>
       /\ Fits(history[e]) /\ Opens(e) /\ history[e] # <<>>
       /\ history[e][Len(history[e])] = "assistant"
Carrying == \A e \in Exchange : CarriesAt(e)

IInv ==
  /\ TypeOK /\ Counted /\ Heard
  /\ Gated /\ Decided /\ Consented /\ NothingLeftAsking /\ Looked
SayInv == IInv /\ Recorded /\ Carrying
-----------------------------------------------------------------------------
(* What goes with a command, and with an exchange.                          *)

\* What goes of one exchange goes of no other.
LEMMA ForgottenAt ==
  ASSUME NEW T, NEW v \in [Exchange -> T], NEW e \in Exchange, NEW none
  PROVE  Forgotten(v, {e}, none) = [v EXCEPT ![e] = none]
  BY DEF Forgotten

\* What an exchange drops when its command is over.
LEMMA DropsCommand ==
  ASSUME TypeOK, NEW e \in Exchange, DropCommand({e})
  PROVE  /\ want' = [want EXCEPT ![e] = None] /\ inbox' = [inbox EXCEPT ![e] = None]
         /\ word' = [word EXCEPT ![e] = None] /\ clean' = [clean EXCEPT ![e] = FALSE]
  BY ForgottenAt DEF TypeOK, DropCommand

\* And when it is over itself.
LEMMA Drops ==
  ASSUME TypeOK, NEW e \in Exchange, Drop({e})
  PROVE  /\ cut' = [cut EXCEPT ![e] = FALSE] /\ turns' = [turns EXCEPT ![e] = 0]
         /\ history' = [history EXCEPT ![e] = <<>>] /\ text' = [text EXCEPT ![e] = FALSE]
         /\ want' = [want EXCEPT ![e] = None] /\ inbox' = [inbox EXCEPT ![e] = None]
         /\ word' = [word EXCEPT ![e] = None] /\ clean' = [clean EXCEPT ![e] = FALSE]
<1>1. DropCommand({e})
  BY DEF Drop
<1>2. /\ cut' = [cut EXCEPT ![e] = FALSE] /\ turns' = [turns EXCEPT ![e] = 0]
      /\ history' = [history EXCEPT ![e] = <<>>] /\ text' = [text EXCEPT ![e] = FALSE]
  BY ForgottenAt DEF TypeOK, Drop
<1>. QED
  BY <1>1, <1>2, DropsCommand

\* The type of what is said, of what is counted and of all the rest.
Lists ==
  /\ said \in [Conversation -> Seq(Message)]
  /\ history \in [Exchange -> Seq(Role)]
Bounds ==
  /\ turns \in [Exchange -> 0..MaxTurns]
  /\ links \in 0..MaxLinks /\ faults \in 0..MaxFaults /\ restarts \in 0..MaxRestarts
Fields ==
  /\ asking \subseteq Name
  /\ granted \subseteq Conversation /\ blessed \subseteq Conversation
  /\ pc \in [Exchange -> Over \cup {"found", "opened", "turn", "streaming", "calling",
                                    "consent", "waiting", "allowed", "running", "ending"}]
  /\ of \in [Exchange -> Conversation] /\ cut \in [Exchange -> BOOLEAN]
  /\ text \in [Exchange -> BOOLEAN]
  /\ want \in [Exchange -> Command \cup {None}]
  /\ inbox \in [Exchange -> Decision \cup {None}]
  /\ word \in [Exchange -> Decision \cup {None}]
  /\ clean \in [Exchange -> BOOLEAN] /\ linked \in BOOLEAN

\* What is written down is a message of its Conversation.
LEMMA WrittenTyped ==
  ASSUME TypeOK, NEW e \in Exchange, NEW role \in Role, NEW size \in Size
  PROVE  Written(e, role, size) \in [Conversation -> Seq(Message)]
<1>. DEFINE m == [role |-> role, by |-> e, size |-> size]
<1>1. m \in Message
  BY DEF Message
<1>2. said \in [Conversation -> Seq(Message)] /\ of[e] \in Conversation
  BY DEF TypeOK
<1>3. Written(e, role, size) = [said EXCEPT ![of[e]] = Append(@, m)]
  BY DEF Written
<1>. HIDE DEF m
<1>4. Append(said[of[e]], m) \in Seq(Message)
  BY <1>1, <1>2
<1>. QED
  BY <1>2, <1>3, <1>4

\* And whether or not it could be written, the Conversations hold messages.
LEMMA SaidTyped ==
  ASSUME TypeOK, NEW e \in Exchange, NEW role \in Role,
         said' = said \/ \E size \in Size : said' = Written(e, role, size)
  PROVE  said' \in [Conversation -> Seq(Message)]
<1>1. CASE said' = said
  BY <1>1 DEF TypeOK
<1>2. ASSUME NEW size \in Size, said' = Written(e, role, size)
      PROVE  said' \in [Conversation -> Seq(Message)]
  <2>1. Written(e, role, size) \in [Conversation -> Seq(Message)]
    BY WrittenTyped
  <2>. QED
    BY <1>2, <2>1, Zenon
<1>. QED
  BY <1>1, <1>2, Zenon

-----------------------------------------------------------------------------
(* What every action leaves true.                                           *)

USE DEF Goes, Returns, Tells, Stops, Proceeds, Allows, locals, cmdVars, storeVars, memVars,
  worldVars, streamFrame, commandFrame, Role, Decision, Name, None, IdOf, Over, Talking,
  Commands, Asked

\* The model is found, or the caller is refused.
LEMMA SendKeeps == ASSUME IInv, NEW e \in Exchange, Send(e) PROVE IInv'
<1>1. CASE Goes(e, "found") /\ UNCHANGED locals
  <2>1. TypeOK'
    BY <1>1, ChatAssumption DEF IInv, TypeOK, Counted, Send
  <2>2. Counted' /\ Heard'
    BY <1>1 DEF IInv, Counted, Heard, TypeOK, Send
  <2>3. Gated' /\ Decided' /\ Consented' /\ NothingLeftAsking' /\ Looked'
    BY <1>1 DEF IInv, Gated, Decided, Consented, NothingLeftAsking, Looked, TypeOK, Send
  <2>. QED
    BY <2>1, <2>2, <2>3 DEF IInv
<1>2. CASE Returns(e)
  <2>0. /\ cut' = [cut EXCEPT ![e] = FALSE] /\ turns' = [turns EXCEPT ![e] = 0]
        /\ history' = [history EXCEPT ![e] = <<>>] /\ text' = [text EXCEPT ![e] = FALSE]
        /\ want' = [want EXCEPT ![e] = None] /\ inbox' = [inbox EXCEPT ![e] = None]
        /\ word' = [word EXCEPT ![e] = None] /\ clean' = [clean EXCEPT ![e] = FALSE]
    BY <1>2, Drops DEF IInv, Send
  <2>1. TypeOK'
    <3>1. Lists'
      BY <2>0 DEF IInv, Lists, TypeOK, Send
    <3>2. Bounds'
      BY <2>0, ChatAssumption DEF IInv, Bounds, TypeOK, Send
    <3>3. Fields'
      BY <1>2, <2>0 DEF IInv, Fields, TypeOK, Send
    <3>. QED
      BY <3>1, <3>2, <3>3 DEF TypeOK, Lists, Bounds, Fields
  <2>2. Counted' /\ Heard'
    BY <1>2, <2>0 DEF IInv, Counted, Heard, TypeOK, Send
  <2>3. Gated' /\ Decided' /\ Consented' /\ NothingLeftAsking' /\ Looked'
    BY <1>2, <2>0 DEF IInv, Gated, Decided, Consented, NothingLeftAsking, Looked, TypeOK, Send
  <2>. QED
    BY <2>1, <2>2, <2>3 DEF IInv
<1>. QED
  BY <1>1, <1>2 DEF Send

\* What was said is recorded, or not.
LEMMA OpenKeeps == ASSUME IInv, NEW e \in Exchange, Open(e) PROVE IInv'
<1>1. CASE pc'[e] = "done" /\ Returns(e)
  <2>0. /\ cut' = [cut EXCEPT ![e] = FALSE] /\ turns' = [turns EXCEPT ![e] = 0]
        /\ history' = [history EXCEPT ![e] = <<>>] /\ text' = [text EXCEPT ![e] = FALSE]
        /\ want' = [want EXCEPT ![e] = None] /\ inbox' = [inbox EXCEPT ![e] = None]
        /\ word' = [word EXCEPT ![e] = None] /\ clean' = [clean EXCEPT ![e] = FALSE]
    BY <1>1, Drops DEF IInv, Open
  <2>1. TypeOK'
    <3>1. said' = said \/ \E size \in Size : said' = Written(e, "user", size)
      BY DEF Open
    <3>2. said' \in [Conversation -> Seq(Message)]
      BY <3>1, SaidTyped, Zenon DEF IInv, Role
    <3>3. faults' \in 0..MaxFaults
      BY ChatAssumption DEF IInv, TypeOK, Open
    <3>4. Lists' /\ Bounds'
      BY <2>0, <3>2, <3>3, ChatAssumption DEF IInv, Lists, Bounds, TypeOK, Open
    <3>5. Fields'
      BY <1>1, <2>0 DEF IInv, Fields, TypeOK, Open
    <3>. QED
      BY <3>4, <3>5 DEF TypeOK, Lists, Bounds, Fields
  <2>2. Counted' /\ Heard'
    BY <1>1, <2>0 DEF IInv, Counted, Heard, TypeOK, Open
  <2>3. Gated' /\ Decided' /\ Consented' /\ NothingLeftAsking' /\ Looked'
    BY <1>1, <2>0 DEF IInv, Gated, Decided, Consented, NothingLeftAsking, Looked, TypeOK, Open
  <2>. QED
    BY <2>1, <2>2, <2>3 DEF IInv
<1>2. CASE Goes(e, "opened") /\ UNCHANGED locals
  <2>1. Lists'
    <3>1. said' = said \/ \E size \in Size : said' = Written(e, "user", size)
      BY DEF Open
    <3>2. said' \in [Conversation -> Seq(Message)]
      BY <3>1, SaidTyped, Zenon DEF IInv, Role
    <3>3. history' \in [Exchange -> Seq(Role)]
      BY <1>2 DEF IInv, TypeOK
    <3>. QED
      BY <3>2, <3>3 DEF Lists
  <2>2. Bounds'
    BY <1>2, ChatAssumption DEF IInv, Bounds, TypeOK, Open
  <2>3. Fields'
    BY <1>2 DEF IInv, Fields, TypeOK, Counted, Open
  <2>4. Counted' /\ Heard'
    BY <1>2 DEF IInv, Counted, Heard, TypeOK, Open
  <2>5. Gated' /\ Decided' /\ Consented' /\ NothingLeftAsking' /\ Looked'
    BY <1>2 DEF IInv, Gated, Decided, Consented, NothingLeftAsking, Looked, TypeOK, Open
  <2>. QED
    BY <2>1, <2>2, <2>3, <2>4, <2>5 DEF IInv, TypeOK, Lists, Bounds, Fields
<1>3. PICK fails \in BOOLEAN : IF fails THEN Returns(e) ELSE Goes(e, "opened") /\ UNCHANGED locals
  BY DEF Open
<1>4. Returns(e) => pc'[e] = "done"
  BY DEF IInv, TypeOK
<1>. QED
  BY <1>1, <1>2, <1>3, <1>4

\* It is read back and shaped.
LEMMA ListenKeeps == ASSUME IInv, Recorded, NEW e \in Exchange, Listen(e) PROVE IInv'
<1>1. CASE Goes(e, "turn") /\ UNCHANGED <<text, cut, turns, cmdVars>>
  <2>1. Lists'
    <3>1. Carried(said[of[e]]) \in Seq(Role)
      <4>. DEFINE s == said[of[e]]
      <4>1. s \in Seq(Message) /\ Len(s) \in Nat
        BY DEF IInv, TypeOK
      <4>2. \E i \in 1 .. Len(s) : s[i].role = "user"
        BY DEF Recorded, Listen
      <4>. HIDE DEF s
      <4>3. s # <<>>
        BY <4>1, <4>2
      <4>4. ByTurns(Carried(s))
        BY <4>1, <4>3, CarriedByTurns
      <4>. QED
        BY <4>4 DEF s, ByTurns
    <3>2. history' = [history EXCEPT ![e] = Carried(said[of[e]])] /\ said' = said
      <4>1. turns' = turns /\ pc' = [pc EXCEPT ![e] = "turn"]
        BY <1>1
      <4>2. pc'[e] # "done"
        BY <4>1 DEF IInv, TypeOK
      <4>. QED
        BY <4>2 DEF IInv, TypeOK, Listen
    <3>. QED
      BY <3>1, <3>2 DEF IInv, Lists, TypeOK
  <2>2. Bounds'
    BY <1>1, ChatAssumption DEF IInv, Bounds, TypeOK, Listen
  <2>3. Fields'
    BY <1>1 DEF IInv, Fields, TypeOK, Counted, Listen
  <2>4. Counted' /\ Heard'
    BY <1>1 DEF IInv, Counted, Heard, TypeOK, Listen
  <2>5. Gated' /\ Decided' /\ Consented' /\ NothingLeftAsking' /\ Looked'
    BY <1>1 DEF IInv, Gated, Decided, Consented, NothingLeftAsking, Looked, TypeOK, Listen
  <2>. QED
    BY <2>1, <2>2, <2>3, <2>4, <2>5 DEF IInv, TypeOK, Lists, Bounds, Fields
<1>2. CASE Returns(e)
  <2>0. /\ cut' = [cut EXCEPT ![e] = FALSE] /\ turns' = [turns EXCEPT ![e] = 0]
        /\ history' = [history EXCEPT ![e] = <<>>] /\ text' = [text EXCEPT ![e] = FALSE]
        /\ want' = [want EXCEPT ![e] = None] /\ inbox' = [inbox EXCEPT ![e] = None]
        /\ word' = [word EXCEPT ![e] = None] /\ clean' = [clean EXCEPT ![e] = FALSE]
    BY <1>2, Drops DEF IInv, Listen
  <2>1. TypeOK'
    <3>1. Lists'
      BY <1>2, <2>0 DEF IInv, Lists, TypeOK, Listen
    <3>2. Bounds'
      BY <1>2, <2>0, ChatAssumption DEF IInv, Bounds, TypeOK, Listen
    <3>3. Fields'
      BY <1>2, <2>0 DEF IInv, Fields, TypeOK, Counted, Listen
    <3>. QED
      BY <3>1, <3>2, <3>3 DEF TypeOK, Lists, Bounds, Fields
  <2>2. Counted' /\ Heard'
    BY <1>2, <2>0 DEF IInv, Counted, Heard, TypeOK, Listen
  <2>3. Gated' /\ Decided' /\ Consented' /\ NothingLeftAsking' /\ Looked'
    BY <1>2, <2>0 DEF IInv, Gated, Decided, Consented, NothingLeftAsking, Looked, TypeOK, Listen
  <2>. QED
    BY <2>1, <2>2, <2>3 DEF IInv
<1>. QED
  BY <1>1, <1>2 DEF Listen

\* A turn is counted, or there are no more.
LEMMA AskKeeps == ASSUME IInv, NEW e \in Exchange, Ask(e) PROVE IInv'
<1>1. CASE pc' = [pc EXCEPT ![e] = "streaming"]
  <2>1. Lists'
    BY <1>1, ChatAssumption DEF IInv, Lists, TypeOK, Ask
  <2>2. Bounds'
    <3>1. turns[e] \in 0 .. MaxTurns /\ MaxTurns \in Nat
      BY ChatAssumption DEF IInv, TypeOK
    <3>2. turns[e] < MaxTurns /\ turns' = [turns EXCEPT ![e] = @ + 1]
      BY <1>1 DEF IInv, TypeOK, Ask
    <3>. QED
      BY <3>1, <3>2 DEF IInv, Bounds, TypeOK, Ask
  <2>3. Fields'
    BY <1>1 DEF IInv, Fields, TypeOK, Counted, Ask
  <2>4. Counted' /\ Heard'
    BY <1>1 DEF IInv, Counted, Heard, TypeOK, Ask
  <2>5. Gated' /\ Decided' /\ Consented' /\ NothingLeftAsking' /\ Looked'
    BY <1>1 DEF IInv, Gated, Decided, Consented, NothingLeftAsking, Looked, TypeOK, Ask
  <2>. QED
    BY <2>1, <2>2, <2>3, <2>4, <2>5 DEF IInv, TypeOK, Lists, Bounds, Fields
<1>2. CASE pc' = [pc EXCEPT ![e] = "ending"]
  <2>1. TypeOK'
    BY <1>2, ChatAssumption DEF IInv, TypeOK, Counted, Ask
  <2>2. Counted' /\ Heard'
    BY <1>2 DEF IInv, Counted, Heard, TypeOK, Ask
  <2>3. Gated' /\ Decided' /\ Consented' /\ NothingLeftAsking' /\ Looked'
    BY <1>2 DEF IInv, Gated, Decided, Consented, NothingLeftAsking, Looked, TypeOK, Ask
  <2>. QED
    BY <2>1, <2>2, <2>3 DEF IInv
<1>. QED
  BY <1>1, <1>2 DEF Ask

\* A piece arrives.
LEMMA PieceKeeps == ASSUME IInv, NEW e \in Exchange, Piece(e) PROVE IInv'
<1>1. CASE UNCHANGED pc
  <2>1. TypeOK'
    BY <1>1, ChatAssumption DEF IInv, TypeOK, Counted, Piece
  <2>2. Counted' /\ Heard'
    BY <1>1 DEF IInv, Counted, Heard, TypeOK, Piece
  <2>3. Gated' /\ Decided' /\ Consented' /\ NothingLeftAsking' /\ Looked'
    BY <1>1 DEF IInv, Gated, Decided, Consented, NothingLeftAsking, Looked, TypeOK, Piece
  <2>. QED
    BY <2>1, <2>2, <2>3 DEF IInv
<1>2. CASE Goes(e, "ending")
  <2>1. TypeOK'
    BY <1>2, ChatAssumption DEF IInv, TypeOK, Counted, Piece
  <2>2. Counted' /\ Heard'
    BY <1>2 DEF IInv, Counted, Heard, TypeOK, Piece
  <2>3. Gated' /\ Decided' /\ Consented' /\ NothingLeftAsking' /\ Looked'
    BY <1>2 DEF IInv, Gated, Decided, Consented, NothingLeftAsking, Looked, TypeOK, Piece
  <2>. QED
    BY <2>1, <2>2, <2>3 DEF IInv
<1>. QED
  BY <1>1, <1>2 DEF Piece

\* The answer ends.
LEMMA EndsKeeps == ASSUME IInv, NEW e \in Exchange, Ends(e) PROVE IInv'
<1>1. TypeOK'
  BY ChatAssumption DEF IInv, TypeOK, Counted, Ends
<1>2. Counted' /\ Heard'
  BY DEF IInv, Counted, Heard, TypeOK, Ends
<1>3. Gated' /\ Decided' /\ Consented' /\ NothingLeftAsking' /\ Looked'
  BY DEF IInv, Gated, Decided, Consented, NothingLeftAsking, Looked, TypeOK, Ends
<1>. QED
  BY <1>1, <1>2, <1>3 DEF IInv

\* The model asks for a command.
LEMMA CallsCommandKeeps == ASSUME IInv, NEW e \in Exchange, CallsCommand(e) PROVE IInv'
<1>1. Lists'
  BY ChatAssumption DEF IInv, Lists, TypeOK, CallsCommand
<1>2. Bounds'
  BY ChatAssumption DEF IInv, Bounds, TypeOK, CallsCommand
<1>3. Fields'
  <2>1. pc' = [pc EXCEPT ![e] = "calling"] /\ \E c \in Command : want' = [want EXCEPT ![e] = c]
    BY DEF CallsCommand
  <2>2. UNCHANGED <<asking, granted, blessed, of, cut, text, inbox, word, clean, linked>>
    BY DEF CallsCommand
  <2>. QED
    BY <2>1, <2>2 DEF IInv, Fields, TypeOK
<1>4. Counted' /\ Heard'
  BY DEF IInv, Counted, Heard, TypeOK, CallsCommand
<1>5. Gated' /\ Decided' /\ Consented' /\ NothingLeftAsking' /\ Looked'
  BY DEF IInv, Gated, Decided, Consented, NothingLeftAsking, Looked, TypeOK, CallsCommand
<1>. QED
  BY <1>1, <1>2, <1>3, <1>4, <1>5 DEF IInv, TypeOK, Lists, Bounds, Fields

\* The model asks for something it is told at once.
LEMMA CallsToolKeeps == ASSUME IInv, NEW e \in Exchange, CallsTool(e) PROVE IInv'
<1>1. Lists'
  BY ChatAssumption DEF IInv, Lists, TypeOK, CallsTool
<1>2. Bounds'
  BY ChatAssumption DEF IInv, Bounds, TypeOK, CallsTool
<1>3. Fields'
  BY DEF IInv, Fields, TypeOK, Counted, CallsTool
<1>4. Counted' /\ Heard'
  BY DEF IInv, Counted, Heard, TypeOK, CallsTool
<1>5. Gated' /\ Decided' /\ Consented' /\ NothingLeftAsking' /\ Looked'
  BY DEF IInv, Gated, Decided, Consented, NothingLeftAsking, Looked, TypeOK, CallsTool
<1>. QED
  BY <1>1, <1>2, <1>3, <1>4, <1>5 DEF IInv, TypeOK, Lists, Bounds, Fields

\* The gate looks at the command.
LEMMA GateKeeps == ASSUME IInv, NEW e \in Exchange, Gate(e) PROVE IInv'
<1>1. CASE Proceeds(e, "consent") /\ UNCHANGED <<inbox, word, clean>>
  <2>1. TypeOK'
    BY <1>1, ChatAssumption DEF IInv, TypeOK, Counted, Gate
  <2>2. Counted' /\ Heard'
    BY <1>1 DEF IInv, Counted, Heard, TypeOK, Gate
  <2>3. Gated' /\ Decided' /\ Consented' /\ NothingLeftAsking' /\ Looked'
    BY <1>1 DEF IInv, Gated, Decided, Consented, NothingLeftAsking, Looked, TypeOK, Gate
  <2>. QED
    BY <2>1, <2>2, <2>3 DEF IInv
<1>2. CASE Tells(e)
  <2>0. /\ want' = [want EXCEPT ![e] = None] /\ inbox' = [inbox EXCEPT ![e] = None]
        /\ word' = [word EXCEPT ![e] = None] /\ clean' = [clean EXCEPT ![e] = FALSE]
    BY <1>2, DropsCommand DEF IInv, Gate
  <2>1. Lists'
    BY <1>2, <2>0, ChatAssumption DEF IInv, Lists, TypeOK, Gate
  <2>2. Bounds'
    BY <1>2, <2>0, ChatAssumption DEF IInv, Bounds, TypeOK, Gate
  <2>3. Fields'
    BY <1>2, <2>0 DEF IInv, Fields, TypeOK, Counted, Gate
  <2>4. Counted' /\ Heard'
    BY <1>2, <2>0 DEF IInv, Counted, Heard, TypeOK, Gate
  <2>5. Gated' /\ Decided' /\ Consented' /\ NothingLeftAsking' /\ Looked'
    BY <1>2, <2>0 DEF IInv, Gated, Decided, Consented, NothingLeftAsking, Looked, TypeOK, Gate
  <2>. QED
    BY <2>1, <2>2, <2>3, <2>4, <2>5 DEF IInv, TypeOK, Lists, Bounds, Fields
<1>. QED
  BY <1>1, <1>2 DEF Gate

\* A granted Conversation is not asked again.
LEMMA GrantedKeeps == ASSUME IInv, NEW e \in Exchange, Granted(e) PROVE IInv'
<1>1. TypeOK'
  BY ChatAssumption DEF IInv, TypeOK, Counted, Granted, Ungranted
<1>2. Counted' /\ Heard'
  BY DEF IInv, Counted, Heard, TypeOK, Granted, Ungranted
<1>3. Gated' /\ Consented' /\ Looked'
  BY DEF IInv, Gated, Consented, Looked, TypeOK, Decided, Granted, Ungranted
<1>4. Decided'
  BY DEF IInv, Decided, NothingLeftAsking, TypeOK, Granted, Ungranted
<1>5. NothingLeftAsking'
  BY DEF IInv, NothingLeftAsking, TypeOK, Decided, Granted, Ungranted
<1>. QED
  BY <1>1, <1>2, <1>3, <1>4, <1>5 DEF IInv

\* A person is asked.
LEMMA ProposeKeeps == ASSUME IInv, NEW e \in Exchange, Propose(e) PROVE IInv'
<1>1. CASE Proceeds(e, "waiting") /\ UNCHANGED <<inbox, word, clean>>
  <2>1. TypeOK'
    BY <1>1, ChatAssumption DEF IInv, TypeOK, Counted, Propose, Ungranted
  <2>2. Counted' /\ Heard'
    BY <1>1 DEF IInv, Counted, Heard, TypeOK, Propose, Ungranted
  <2>3. Gated' /\ Consented' /\ Looked'
    BY <1>1 DEF IInv, Gated, Consented, Looked, TypeOK, Decided, Propose, Ungranted
  <2>4. Decided'
    BY <1>1 DEF IInv, Decided, NothingLeftAsking, TypeOK, Propose, Ungranted
  <2>5. NothingLeftAsking'
    <3>1. asking' = asking \cup {<<e, turns[e]>>} /\ pc' = [pc EXCEPT ![e] = "waiting"]
      BY <1>1 DEF Propose, IdOf, IInv, TypeOK
    <3>2. inbox' = inbox /\ turns' = turns /\ inbox[e] = None
      BY <1>1 DEF IInv, Decided, Propose
    <3>. QED
      BY <3>1, <3>2 DEF IInv, NothingLeftAsking, TypeOK, IdOf
  <2>. QED
    BY <2>1, <2>2, <2>3, <2>4, <2>5 DEF IInv
<1>2. CASE Stops(e)
  <2>0. /\ want' = [want EXCEPT ![e] = None] /\ inbox' = [inbox EXCEPT ![e] = None]
        /\ word' = [word EXCEPT ![e] = None] /\ clean' = [clean EXCEPT ![e] = FALSE]
    BY <1>2, DropsCommand DEF IInv, Propose
  <2>1. TypeOK'
    BY <1>2, <2>0, ChatAssumption DEF IInv, TypeOK, Counted, Propose, Ungranted
  <2>2. Counted' /\ Heard'
    BY <1>2, <2>0 DEF IInv, Counted, Heard, TypeOK, Propose, Ungranted
  <2>3. Gated' /\ Decided' /\ Consented' /\ NothingLeftAsking' /\ Looked'
    BY <1>2, <2>0 DEF IInv, Gated, Decided, Consented, NothingLeftAsking, Looked, TypeOK, Propose,
       Ungranted
  <2>. QED
    BY <2>1, <2>2, <2>3 DEF IInv
<1>. QED
  BY <1>1, <1>2 DEF Propose

\* The decision arrives.
LEMMA AnsweredKeeps == ASSUME IInv, NEW e \in Exchange, Answered(e) PROVE IInv'
<1>1. CASE Tells(e)
  <2>0. /\ want' = [want EXCEPT ![e] = None] /\ inbox' = [inbox EXCEPT ![e] = None]
        /\ word' = [word EXCEPT ![e] = None] /\ clean' = [clean EXCEPT ![e] = FALSE]
    BY <1>1, DropsCommand DEF IInv, Answered
  <2>1. Lists'
    BY <1>1, <2>0, ChatAssumption DEF IInv, Lists, TypeOK, Answered, Forget
  <2>2. Bounds'
    BY <1>1, <2>0, ChatAssumption DEF IInv, Bounds, TypeOK, Answered, Forget
  <2>3. Fields'
    BY <1>1, <2>0 DEF IInv, Fields, TypeOK, Counted, Answered, Forget
  <2>4. Counted' /\ Heard'
    BY <1>1, <2>0 DEF IInv, Counted, Heard, TypeOK, Answered, Forget
  <2>5. Gated' /\ Decided' /\ Consented' /\ NothingLeftAsking' /\ Looked'
    BY <1>1, <2>0 DEF IInv, Gated, Decided, Consented, NothingLeftAsking, Looked, TypeOK,
       Answered, Forget
  <2>. QED
    BY <2>1, <2>2, <2>3, <2>4, <2>5 DEF IInv, TypeOK, Lists, Bounds, Fields
<1>2. CASE Allows(e)
  <2>1. TypeOK'
    BY <1>2, ChatAssumption DEF IInv, TypeOK, Counted, Answered, Forget
  <2>2. Counted' /\ Heard'
    BY <1>2 DEF IInv, Counted, Heard, TypeOK, Answered, Forget
  <2>3. Gated' /\ Consented' /\ Looked'
    <3>1. inbox[e] \in {"once", "conversation"} /\ word[e] = inbox[e]
      BY <1>2 DEF IInv, TypeOK, Decided, Answered, Decision, None
    <3>2. Gated' /\ Looked'
      BY <1>2 DEF IInv, Gated, Looked, TypeOK, Over, Asked, Answered
    <3>3. Consented'
      BY <1>2, <3>1 DEF IInv, Consented, TypeOK, Answered
    <3>. QED
      BY <3>2, <3>3
  <2>4. Decided'
    BY <1>2 DEF IInv, Decided, NothingLeftAsking, TypeOK, Answered, Forget
  <2>5. NothingLeftAsking'
    BY <1>2 DEF IInv, NothingLeftAsking, TypeOK, Decided, Answered, Forget
  <2>. QED
    BY <2>1, <2>2, <2>3, <2>4, <2>5 DEF IInv
<1>. QED
  BY <1>1, <1>2 DEF Answered

\* Nobody answered.
LEMMA WindowClosesKeeps == ASSUME IInv, NEW e \in Exchange, WindowCloses(e) PROVE IInv'
<1>0. /\ want' = [want EXCEPT ![e] = None] /\ inbox' = [inbox EXCEPT ![e] = None]
      /\ word' = [word EXCEPT ![e] = None] /\ clean' = [clean EXCEPT ![e] = FALSE]
  BY DropsCommand DEF IInv, WindowCloses
<1>1. Lists'
  BY <1>0, ChatAssumption DEF IInv, Lists, TypeOK, WindowCloses, Forget
<1>2. Bounds'
  BY <1>0, ChatAssumption DEF IInv, Bounds, TypeOK, WindowCloses, Forget
<1>3. Fields'
  BY <1>0 DEF IInv, Fields, TypeOK, Counted, WindowCloses, Forget
<1>4. Counted' /\ Heard'
  BY <1>0 DEF IInv, Counted, Heard, TypeOK, WindowCloses, Forget
<1>5. Gated' /\ Decided' /\ Consented' /\ NothingLeftAsking' /\ Looked'
  BY <1>0 DEF IInv, Gated, Decided, Consented, NothingLeftAsking, Looked, TypeOK, WindowCloses,
     Forget
<1>. QED
  BY <1>1, <1>2, <1>3, <1>4, <1>5 DEF IInv, TypeOK, Lists, Bounds, Fields

\* The caller is gone while it waits.
LEMMA CutWhileWaitingKeeps == ASSUME IInv, NEW e \in Exchange, CutWhileWaiting(e) PROVE IInv'
<1>0. /\ want' = [want EXCEPT ![e] = None] /\ inbox' = [inbox EXCEPT ![e] = None]
      /\ word' = [word EXCEPT ![e] = None] /\ clean' = [clean EXCEPT ![e] = FALSE]
  BY DropsCommand DEF IInv, CutWhileWaiting
<1>1. TypeOK'
  BY <1>0, ChatAssumption DEF IInv, TypeOK, Counted, CutWhileWaiting, Forget
<1>2. Counted' /\ Heard'
  BY <1>0 DEF IInv, Counted, Heard, TypeOK, CutWhileWaiting, Forget
<1>3. Gated' /\ Decided' /\ Consented' /\ NothingLeftAsking' /\ Looked'
  BY <1>0 DEF IInv, Gated, Decided, Consented, NothingLeftAsking, Looked, TypeOK, CutWhileWaiting,
     Forget
<1>. QED
  BY <1>1, <1>2, <1>3 DEF IInv

\* The directory is looked at again.
LEMMA RecheckKeeps == ASSUME IInv, NEW e \in Exchange, Recheck(e) PROVE IInv'
<1>1. CASE Tells(e)
  <2>0. /\ want' = [want EXCEPT ![e] = None] /\ inbox' = [inbox EXCEPT ![e] = None]
        /\ word' = [word EXCEPT ![e] = None] /\ clean' = [clean EXCEPT ![e] = FALSE]
    BY <1>1, DropsCommand DEF IInv, Recheck
  <2>1. Lists'
    BY <1>1, <2>0, ChatAssumption DEF IInv, Lists, TypeOK, Recheck
  <2>2. Bounds'
    BY <1>1, <2>0, ChatAssumption DEF IInv, Bounds, TypeOK, Recheck
  <2>3. Fields'
    BY <1>1, <2>0 DEF IInv, Fields, TypeOK, Counted, Recheck
  <2>4. Counted' /\ Heard'
    BY <1>1, <2>0 DEF IInv, Counted, Heard, TypeOK, Recheck
  <2>5. Gated' /\ Decided' /\ Consented' /\ NothingLeftAsking' /\ Looked'
    BY <1>1, <2>0 DEF IInv, Gated, Decided, Consented, NothingLeftAsking, Looked, TypeOK, Recheck
  <2>. QED
    BY <2>1, <2>2, <2>3, <2>4, <2>5 DEF IInv, TypeOK, Lists, Bounds, Fields
<1>2. CASE Proceeds(e, "running") /\ UNCHANGED <<inbox, word, clean>>
  <2>1. TypeOK'
    BY <1>2, ChatAssumption DEF IInv, TypeOK, Counted, Recheck
  <2>2. Counted' /\ Heard'
    BY <1>2 DEF IInv, Counted, Heard, TypeOK, Recheck
  <2>3. Gated' /\ Decided' /\ Consented' /\ NothingLeftAsking' /\ Looked'
    BY <1>2 DEF IInv, Gated, Decided, Consented, NothingLeftAsking, Looked, TypeOK, Recheck
  <2>. QED
    BY <2>1, <2>2, <2>3 DEF IInv
<1>. QED
  BY <1>1, <1>2 DEF Recheck

\* The command runs.
LEMMA RunCommandKeeps == ASSUME IInv, NEW e \in Exchange, RunCommand(e) PROVE IInv'
<1>1. CASE Tells(e)
  <2>0. /\ want' = [want EXCEPT ![e] = None] /\ inbox' = [inbox EXCEPT ![e] = None]
        /\ word' = [word EXCEPT ![e] = None] /\ clean' = [clean EXCEPT ![e] = FALSE]
    BY <1>1, DropsCommand DEF IInv, RunCommand
  <2>1. Lists'
    BY <1>1, <2>0, ChatAssumption DEF IInv, Lists, TypeOK, RunCommand
  <2>2. Bounds'
    BY <1>1, <2>0, ChatAssumption DEF IInv, Bounds, TypeOK, RunCommand
  <2>3. Fields'
    BY <1>1, <2>0 DEF IInv, Fields, TypeOK, Counted, RunCommand
  <2>4. Counted' /\ Heard'
    BY <1>1, <2>0 DEF IInv, Counted, Heard, TypeOK, RunCommand
  <2>5. Gated' /\ Decided' /\ Consented' /\ NothingLeftAsking' /\ Looked'
    BY <1>1, <2>0 DEF IInv, Gated, Decided, Consented, NothingLeftAsking, Looked, TypeOK,
       RunCommand
  <2>. QED
    BY <2>1, <2>2, <2>3, <2>4, <2>5 DEF IInv, TypeOK, Lists, Bounds, Fields
<1>2. CASE Stops(e)
  <2>0. /\ want' = [want EXCEPT ![e] = None] /\ inbox' = [inbox EXCEPT ![e] = None]
        /\ word' = [word EXCEPT ![e] = None] /\ clean' = [clean EXCEPT ![e] = FALSE]
    BY <1>2, DropsCommand DEF IInv, RunCommand
  <2>1. TypeOK'
    BY <1>2, <2>0, ChatAssumption DEF IInv, TypeOK, Counted, RunCommand
  <2>2. Counted' /\ Heard'
    BY <1>2, <2>0 DEF IInv, Counted, Heard, TypeOK, RunCommand
  <2>3. Gated' /\ Decided' /\ Consented' /\ NothingLeftAsking' /\ Looked'
    BY <1>2, <2>0 DEF IInv, Gated, Decided, Consented, NothingLeftAsking, Looked, TypeOK,
       RunCommand
  <2>. QED
    BY <2>1, <2>2, <2>3 DEF IInv
<1>. QED
  BY <1>1, <1>2 DEF RunCommand

\* What arrived is written down.
LEMMA KeepKeeps == ASSUME IInv, NEW e \in Exchange, Keep(e) PROVE IInv'
<1>0. /\ cut' = [cut EXCEPT ![e] = FALSE] /\ turns' = [turns EXCEPT ![e] = 0]
      /\ history' = [history EXCEPT ![e] = <<>>] /\ text' = [text EXCEPT ![e] = FALSE]
      /\ want' = [want EXCEPT ![e] = None] /\ inbox' = [inbox EXCEPT ![e] = None]
      /\ word' = [word EXCEPT ![e] = None] /\ clean' = [clean EXCEPT ![e] = FALSE]
  BY Drops DEF IInv, Keep
<1>1. Lists'
  <2>1. said' = said \/ \E size \in Size : said' = Written(e, "assistant", size)
    BY DEF Keep
  <2>2. said' \in [Conversation -> Seq(Message)]
    BY <2>1, SaidTyped, Zenon DEF IInv, Role
  <2>3. history' \in [Exchange -> Seq(Role)]
    BY <1>0 DEF IInv, TypeOK
  <2>. QED
    BY <1>0, <2>2, <2>3, ChatAssumption DEF IInv, Lists, TypeOK, Keep
<1>2. Bounds'
  BY <1>0, ChatAssumption DEF IInv, Bounds, TypeOK, Keep
<1>3. Fields'
  BY <1>0 DEF IInv, Fields, TypeOK, Counted, Keep
<1>4. Counted' /\ Heard'
  BY <1>0 DEF IInv, Counted, Heard, TypeOK, Keep
<1>5. Gated' /\ Decided' /\ Consented' /\ NothingLeftAsking' /\ Looked'
  BY <1>0 DEF IInv, Gated, Decided, Consented, NothingLeftAsking, Looked, TypeOK, Keep
<1>. QED
  BY <1>1, <1>2, <1>3, <1>4, <1>5 DEF IInv, TypeOK, Lists, Bounds, Fields

\* The caller hangs up.
LEMMA HangUpKeeps == ASSUME IInv, NEW e \in Exchange, HangUp(e) PROVE IInv'
<1>1. TypeOK'
  BY ChatAssumption DEF IInv, TypeOK, Counted, HangUp, Active
<1>2. Counted' /\ Heard'
  BY DEF IInv, Counted, Heard, TypeOK, HangUp, Active
<1>3. Gated' /\ Decided' /\ Consented' /\ NothingLeftAsking' /\ Looked'
  BY DEF IInv, Gated, Decided, Consented, NothingLeftAsking, Looked, TypeOK, HangUp, Active
<1>. QED
  BY <1>1, <1>2, <1>3 DEF IInv

\* A person decides.
LEMMA AnswerCommandKeeps ==
  ASSUME IInv, NEW n \in Name, NEW d \in Decision, AnswerCommand(n, d)
  PROVE  IInv'
<1>1. TypeOK'
  <2>1. Lists'
    BY DEF IInv, Lists, TypeOK, AnswerCommand
  <2>2. Bounds'
    BY ChatAssumption DEF IInv, Bounds, TypeOK, AnswerCommand
  <2>3. Fields'
    BY DEF IInv, Fields, TypeOK, AnswerCommand
  <2>. QED
    BY <2>1, <2>2, <2>3 DEF TypeOK, Lists, Bounds, Fields
<1>2. Counted' /\ Heard'
  BY DEF IInv, Counted, Heard, TypeOK, AnswerCommand
<1>3. Gated' /\ Consented' /\ Looked'
  BY DEF IInv, Gated, Consented, Looked, TypeOK, Decided, AnswerCommand
<1>4. Decided'
  BY DEF IInv, Decided, NothingLeftAsking, TypeOK, AnswerCommand
<1>5. NothingLeftAsking'
  <2>1. ASSUME NEW m \in asking'
        PROVE  pc'[m[1]] = "waiting" /\ m = <<m[1], turns'[m[1]]>> /\ inbox'[m[1]] = None
    <3>1. m \in asking /\ m # n /\ m[1] \in Exchange /\ pc' = pc /\ turns' = turns
      BY DEF IInv, TypeOK, Name, AnswerCommand, commandFrame
    <3>2. pc[m[1]] = "waiting" /\ m = <<m[1], turns[m[1]]>> /\ inbox[m[1]] = None
      BY <3>1 DEF IInv, NothingLeftAsking, IdOf
    <3>3. inbox' = IF pc[n[1]] = "waiting" /\ n = <<n[1], turns[n[1]]>>
                   THEN [inbox EXCEPT ![n[1]] = d] ELSE inbox
      BY Zenon DEF AnswerCommand, IdOf
    <3>4. inbox'[m[1]] = inbox[m[1]]
      <4>1. CASE m[1] = n[1]
        BY <3>1, <3>2, <3>3, <4>1
      <4>2. CASE m[1] # n[1]
        BY <3>1, <3>3, <4>2 DEF IInv, TypeOK
      <4>. QED
        BY <4>1, <4>2
    <3>. QED
      BY <3>1, <3>2, <3>4
  <2>. QED
    BY <2>1 DEF NothingLeftAsking, IdOf
<1>. QED
  BY <1>1, <1>2, <1>3, <1>4, <1>5 DEF IInv

\* The daemon dies and another starts.
LEMMA RestartKeeps == ASSUME IInv, Restart PROVE IInv'
<1>1. Lists'
  <2>1. history' = [x \in Exchange |-> IF Active(x) THEN <<>> ELSE history[x]]
    BY DEF Restart, Drop, Forgotten
  <2>2. ASSUME NEW x \in Exchange
        PROVE  (IF Active(x) THEN <<>> ELSE history[x]) \in Seq(Role)
    BY DEF IInv, TypeOK
  <2>3. history' \in [Exchange -> Seq(Role)]
    BY <2>1, <2>2
  <2>. QED
    BY <2>3 DEF IInv, Lists, TypeOK, Restart
<1>2. Bounds'
  BY ChatAssumption DEF IInv, Bounds, TypeOK, Restart, Active, Remembered, Drop, DropCommand,
     Forgotten
<1>3. Fields'
  BY DEF IInv, Fields, TypeOK, Counted, Restart, Active, Remembered, Drop, DropCommand, Forgotten
<1>4. Counted' /\ Heard'
  BY DEF IInv, Counted, Heard, TypeOK, Restart, Active, Remembered, Drop, DropCommand, Forgotten
<1>5. Gated' /\ Decided' /\ Consented' /\ NothingLeftAsking' /\ Looked'
  BY DEF IInv, Gated, Decided, Consented, NothingLeftAsking, Looked, TypeOK, Restart, Active,
     Remembered, Drop, DropCommand, Forgotten
<1>. QED
  BY <1>1, <1>2, <1>3, <1>4, <1>5 DEF IInv, TypeOK, Lists, Bounds, Fields

\* Somebody works in the directory.
LEMMA RelinkKeeps == ASSUME IInv, Relink PROVE IInv'
<1>1. Lists'
  BY ChatAssumption DEF IInv, Lists, TypeOK, Relink
<1>2. Bounds'
  BY ChatAssumption DEF IInv, Bounds, TypeOK, Relink
<1>3. Fields'
  BY DEF IInv, Fields, TypeOK, Counted, Relink
<1>4. Counted' /\ Heard'
  BY DEF IInv, Counted, Heard, TypeOK, Relink
<1>5. Gated' /\ Decided' /\ Consented' /\ NothingLeftAsking' /\ Looked'
  BY DEF IInv, Gated, Decided, Consented, NothingLeftAsking, Looked, TypeOK, Relink
<1>. QED
  BY <1>1, <1>2, <1>3, <1>4, <1>5 DEF IInv, TypeOK, Lists, Bounds, Fields

-----------------------------------------------------------------------------
(* What a Conversation holds.                                               *)

\* What is said is added to, one message at a time, and each stays in its Conversation.
LEMMA SaidGrows ==
  ASSUME TypeOK, Next
  PROVE  /\ of' = of
         /\ \A c \in Conversation :
              \/ said'[c] = said[c]
              \/ \E m \in Message : said'[c] = Append(said[c], m)
<1>1. ASSUME NEW e \in Exchange, Open(e) \/ Keep(e)
      PROVE  /\ of' = of
             /\ said' = said \/ \E role \in Role, size \in Size : said' = Written(e, role, size)
  BY <1>1 DEF Open, Keep
<1>2. ASSUME NEW e \in Exchange, NEW role \in Role, NEW size \in Size,
             said' = Written(e, role, size), NEW c \in Conversation
      PROVE  said'[c] = said[c] \/ \E m \in Message : said'[c] = Append(said[c], m)
  <2>. DEFINE m == [role |-> role, by |-> e, size |-> size]
  <2>1. m \in Message
    BY DEF Message
  <2>2. said' = [said EXCEPT ![of[e]] = Append(@, m)]
    BY <1>2 DEF Written
  <2>. HIDE DEF m
  <2>3. said \in [Conversation -> Seq(Message)]
    BY DEF TypeOK
  <2>4. CASE c = of[e]
    <3>1. said'[c] = Append(said[c], m)
      BY <2>2, <2>3, <2>4
    <3>. QED
      BY <2>1, <3>1
  <2>5. CASE c # of[e]
    BY <2>2, <2>3, <2>5
  <2>. QED
    BY <2>4, <2>5
<1>3. ASSUME \/ \E e \in Exchange :
                  \/ Send(e) \/ Listen(e) \/ Ask(e) \/ Piece(e) \/ Ends(e) \/ CallsCommand(e)
                  \/ CallsTool(e) \/ Gate(e) \/ Granted(e) \/ Propose(e) \/ Answered(e)
                  \/ WindowCloses(e) \/ CutWhileWaiting(e) \/ Recheck(e) \/ RunCommand(e)
                  \/ HangUp(e)
             \/ \E n \in Name, d \in Decision : AnswerCommand(n, d)
             \/ Restart \/ Relink
      PROVE  said' = said /\ of' = of
  BY <1>3 DEF Send, Listen, Ask, Piece, Ends, CallsCommand, CallsTool, Gate, Granted, Propose,
     Answered, WindowCloses, CutWhileWaiting, Recheck, RunCommand, HangUp, AnswerCommand,
     Restart, Relink
<1>4. CASE \E e \in Exchange : Open(e) \/ Keep(e)
  <2>1. PICK e \in Exchange : Open(e) \/ Keep(e)
    BY <1>4
  <2>2. /\ of' = of
        /\ said' = said \/ \E role \in Role, size \in Size : said' = Written(e, role, size)
    BY <1>1, <2>1
  <2>. QED
    BY <1>2, <2>2
<1>5. CASE ~\E e \in Exchange : Open(e) \/ Keep(e)
  BY <1>3, <1>5 DEF Next, Step
<1>. QED
  BY <1>4, <1>5

\* So what stood in a Conversation stands there still.
LEMMA SaidStands ==
  ASSUME TypeOK, Next, NEW c \in Conversation
  PROVE  /\ said[c] \in Seq(Message) /\ said'[c] \in Seq(Message)
         /\ Len(said[c]) \in Nat /\ Len(said'[c]) \in Nat /\ Len(said[c]) <= Len(said'[c])
         /\ \A i \in 1 .. Len(said[c]) : said'[c][i] = said[c][i]
<1>. DEFINE s == said[c]
            t == said'[c]
<1>1. s \in Seq(Message)
  BY DEF TypeOK
<1>2. t = s \/ \E m \in Message : t = Append(s, m)
  BY SaidGrows
<1>. HIDE DEF s, t
<1>3. ASSUME t = s
      PROVE  /\ t \in Seq(Message) /\ Len(t) = Len(s) /\ Len(s) \in Nat
             /\ \A i \in 1 .. Len(s) : t[i] = s[i]
  BY <1>1, <1>3
<1>4. ASSUME NEW m \in Message, t = Append(s, m)
      PROVE  /\ t \in Seq(Message) /\ Len(t) = Len(s) + 1 /\ Len(s) \in Nat
             /\ \A i \in 1 .. Len(s) : t[i] = s[i]
  BY <1>1, <1>4
<1>5. /\ s \in Seq(Message) /\ t \in Seq(Message)
      /\ Len(s) \in Nat /\ Len(t) \in Nat /\ Len(s) <= Len(t)
      /\ \A i \in 1 .. Len(s) : t[i] = s[i]
  BY <1>1, <1>2, <1>3, <1>4
<1>. QED
  BY <1>5 DEF s, t

\* A part of a sequence is the same in one that goes on from it.
LEMMA SamePart ==
  ASSUME NEW T, NEW s \in Seq(T), NEW t \in Seq(T), Len(s) <= Len(t),
         \A i \in 1 .. Len(s) : t[i] = s[i],
         NEW i \in 1 .. Len(s), NEW k \in 1 .. Len(s)
  PROVE  SubSeq(t, i, k) = SubSeq(s, i, k)
<1>1. /\ i \in Int /\ k \in Int /\ Len(s) \in Nat /\ Len(t) \in Nat
      /\ \A x \in i .. k : x \in 1 .. Len(s) /\ s[x] \in T /\ t[x] \in T /\ t[x] = s[x]
  OBVIOUS
<1>2. /\ SubSeq(s, i, k) \in Seq(T) /\ SubSeq(t, i, k) \in Seq(T)
      /\ Len(SubSeq(s, i, k)) = IF i <= k THEN k - i + 1 ELSE 0
      /\ Len(SubSeq(t, i, k)) = IF i <= k THEN k - i + 1 ELSE 0
      /\ \A x \in 1 .. (k - i + 1) : SubSeq(s, i, k)[x] = s[i + x - 1]
      /\ \A x \in 1 .. (k - i + 1) : SubSeq(t, i, k)[x] = t[i + x - 1]
  BY <1>1, SubSeqProperties
<1>3. ASSUME NEW x \in 1 .. Len(SubSeq(s, i, k))
      PROVE  SubSeq(t, i, k)[x] = SubSeq(s, i, k)[x]
  <2>1. x \in 1 .. (k - i + 1) /\ i + x - 1 \in i .. k
    BY <1>1, <1>2
  <2>. QED
    BY <1>1, <1>2, <2>1
<1>. QED
  BY <1>2, <1>3, SeqEqual

\* A question that was drowned is not heard again.
LEMMA DrownedStays ==
  ASSUME TypeOK, Next, NEW e \in Exchange, Drowned(e)
  PROVE  Drowned(e)'
<1>. DEFINE s == said[of[e]]
            t == said'[of[e]]
<1>1. of[e] \in Conversation /\ of' = of
  BY SaidGrows DEF TypeOK
<1>2. /\ s \in Seq(Message) /\ t \in Seq(Message)
      /\ Len(s) \in Nat /\ Len(t) \in Nat /\ Len(s) <= Len(t)
      /\ \A i \in 1 .. Len(s) : t[i] = s[i]
  BY <1>1, SaidStands
<1>3. PICK i \in 1 .. Len(s), k \in 1 .. Len(s) :
        /\ s[i].role = "user" /\ s[i].by = e
        /\ \E l \in (i + 1) .. k : s[l].role = "assistant"
        /\ ~Fit(s, i, k)
  BY DEF Drowned
<1>. HIDE DEF s, t
<1>4. SubSeq(t, i, k) = SubSeq(s, i, k)
  BY <1>2, SamePart
<1>5. ~Fit(t, i, k)
  BY <1>3, <1>4 DEF Fit
<1>6. i \in 1 .. Len(t) /\ k \in 1 .. Len(t) /\ t[i].role = "user" /\ t[i].by = e
  BY <1>2, <1>3
<1>7. PICK l \in (i + 1) .. k : s[l].role = "assistant"
  BY <1>3
<1>8. l \in 1 .. Len(s) /\ t[l].role = "assistant"
  BY <1>2, <1>7
<1>9. \E x, y \in 1 .. Len(t) :
        /\ t[x].role = "user" /\ t[x].by = e
        /\ \E z \in (x + 1) .. y : t[z].role = "assistant"
        /\ ~Fit(t, x, y)
  BY <1>5, <1>6, <1>7, <1>8
<1>. QED
  BY <1>1, <1>9 DEF Drowned, t

\* An exchange that reads a Conversation back has said something there.
LEMMA RecordedStep ==
  ASSUME IInv, Recorded, Next
  PROVE  Recorded'
<1>1. TypeOK /\ of' = of
  BY SaidGrows DEF IInv
<1>2. SUFFICES ASSUME NEW x \in Exchange, pc'[x] = "opened"
               PROVE  \E i \in 1 .. Len(said'[of[x]]) :
                        said'[of[x]][i].role = "user" /\ said'[of[x]][i].by = x
  BY <1>1 DEF Recorded
<1>3. of[x] \in Conversation
  BY <1>1 DEF TypeOK
<1>4. CASE pc[x] = "opened"
  <2>1. PICK i \in 1 .. Len(said[of[x]]) :
          said[of[x]][i].role = "user" /\ said[of[x]][i].by = x
    BY <1>4 DEF Recorded
  <2>2. i \in 1 .. Len(said'[of[x]]) /\ said'[of[x]][i] = said[of[x]][i]
    BY <1>1, <1>3, SaidStands
  <2>. QED
    BY <2>1, <2>2
<1>5. CASE Open(x)
  <2>0. pc' = [pc EXCEPT ![x] = "opened"]
    BY <1>1, <1>2, <1>5 DEF TypeOK, Open
  <2>1. PICK size \in Size : said' = Written(x, "user", size)
    BY <1>1, <1>2, <1>5 DEF TypeOK, Open
  <2>. DEFINE m == [role |-> "user", by |-> x, size |-> size]
              s == said[of[x]]
  <2>2. said' = [said EXCEPT ![of[x]] = Append(@, m)]
    BY <2>1 DEF Written
  <2>3. s \in Seq(Message) /\ said \in [Conversation -> Seq(Message)] /\ m \in Message
    BY <1>1, <1>3 DEF TypeOK, Message
  <2>4. m.role = "user" /\ m.by = x
    OBVIOUS
  <2>. HIDE DEF m
  <2>5. said'[of[x]] = Append(s, m)
    BY <1>3, <2>2, <2>3
  <2>. HIDE DEF s
  <2>6. /\ Len(s) \in Nat /\ Len(Append(s, m)) = Len(s) + 1 /\ Append(s, m)[Len(s) + 1] = m
    BY <2>3
  <2>. QED
    BY <2>4, <2>5, <2>6
<1>6. ASSUME pc[x] # "opened" PROVE Open(x)
  <2>1. ASSUME NEW e \in Exchange,
               \/ Send(e) \/ Listen(e) \/ Ask(e) \/ Piece(e) \/ Ends(e) \/ CallsCommand(e)
               \/ CallsTool(e) \/ Keep(e) \/ HangUp(e)
        PROVE  FALSE
    BY <1>1, <1>2, <1>6, <2>1 DEF TypeOK, Send, Listen, Ask, Piece, Ends, CallsCommand,
       CallsTool, Keep, HangUp
  <2>2. ASSUME NEW e \in Exchange,
               \/ Gate(e) \/ Granted(e) \/ Propose(e) \/ Answered(e) \/ WindowCloses(e)
               \/ CutWhileWaiting(e) \/ Recheck(e) \/ RunCommand(e)
        PROVE  FALSE
    BY <1>1, <1>2, <1>6, <2>2 DEF TypeOK, Gate, Granted, Propose, Answered, WindowCloses,
       CutWhileWaiting, Recheck, RunCommand
  <2>3. ASSUME (\E n \in Name, d \in Decision : AnswerCommand(n, d)) \/ Restart \/ Relink
        PROVE  FALSE
    BY <1>1, <1>2, <1>6, <2>3 DEF TypeOK, AnswerCommand, Restart, Relink, Active
  <2>4. ASSUME NEW e \in Exchange, Open(e), e # x PROVE FALSE
    BY <1>1, <1>2, <1>6, <2>4 DEF TypeOK, Open
  <2>. QED
    BY <2>1, <2>2, <2>3, <2>4 DEF Next, Step
<1>. QED
  BY <1>4, <1>5, <1>6

-----------------------------------------------------------------------------
(* What a request carries.                                                  *)

\* What the model says leaves a request fit to send.
LEMMA FitAnswered ==
  ASSUME NEW h, Fits(h)
  PROVE  /\ Fits(Append(h, "assistant")) /\ Append(h, "assistant") # <<>>
         /\ Append(h, "assistant")[Len(Append(h, "assistant"))] = "assistant"
         /\ h # <<>> => Append(h, "assistant")[1] = h[1]
<1>. DEFINE g == Append(h, "assistant")
<1>1. h \in Seq(Role) /\ Len(h) \in Nat /\ (h # <<>> => Len(h) >= 1)
  BY DEF Fits
<1>2. /\ g \in Seq(Role) /\ Len(g) = Len(h) + 1 /\ g[Len(h) + 1] = "assistant"
      /\ \A i \in 1 .. Len(h) : g[i] = h[i]
  BY <1>1
<1>. HIDE DEF g
<1>3. ASSUME NEW i \in 1 .. (Len(g) - 1), g[i] = "user" PROVE g[i + 1] # "user"
  <2>1. CASE i = Len(h)
    BY <1>2, <2>1
  <2>2. CASE i # Len(h)
    <3>1. i \in 1 .. (Len(h) - 1) /\ i \in 1 .. Len(h) /\ i + 1 \in 1 .. Len(h)
      BY <1>1, <1>2, <2>2
    <3>. QED
      BY <1>2, <1>3, <3>1 DEF Fits
  <2>. QED
    BY <2>1, <2>2
<1>4. g # <<>> /\ (h # <<>> => g[1] = h[1])
  BY <1>1, <1>2
<1>. QED
  BY <1>2, <1>3, <1>4 DEF Fits, g

\* After what the model said, what it is told is the user's turn.
LEMMA FitTold ==
  ASSUME NEW h, Fits(h), h # <<>>, h[Len(h)] = "assistant"
  PROVE  /\ Fits(Append(h, "user")) /\ Append(h, "user") # <<>>
         /\ Append(h, "user")[1] = h[1]
<1>. DEFINE g == Append(h, "user")
<1>1. h \in Seq(Role) /\ Len(h) \in Nat /\ Len(h) >= 1
  BY DEF Fits
<1>2. /\ g \in Seq(Role) /\ Len(g) = Len(h) + 1
      /\ \A i \in 1 .. Len(h) : g[i] = h[i]
  BY <1>1
<1>. HIDE DEF g
<1>3. ASSUME NEW i \in 1 .. (Len(g) - 1), g[i] = "user" PROVE g[i + 1] # "user"
  <2>1. i \in 1 .. Len(h)
    BY <1>1, <1>2
  <2>2. i # Len(h)
    BY <1>2, <1>3, <2>1
  <2>3. i \in 1 .. (Len(h) - 1) /\ i + 1 \in 1 .. Len(h)
    BY <1>1, <2>1, <2>2
  <2>. QED
    BY <1>2, <1>3, <2>1, <2>3 DEF Fits
<1>4. g # <<>> /\ g[1] = h[1]
  BY <1>1, <1>2
<1>. QED
  BY <1>2, <1>3, <1>4 DEF Fits, g

\* So a call and its result may follow whatever was last.
LEMMA FitToldAtOnce ==
  ASSUME NEW h, Fits(h)
  PROVE  /\ Fits(h \o <<"assistant", "user">>)
         /\ h # <<>> => /\ h \o <<"assistant", "user">> # <<>>
                        /\ (h \o <<"assistant", "user">>)[1] = h[1]
<1>. DEFINE g == Append(h, "assistant")
<1>1. /\ Fits(g) /\ g # <<>> /\ g[Len(g)] = "assistant"
      /\ h # <<>> => g[1] = h[1]
  BY FitAnswered
<1>2. Append(g, "user") = h \o <<"assistant", "user">>
  BY DEF Fits
<1>. HIDE DEF g
<1>3. Fits(Append(g, "user")) /\ Append(g, "user") # <<>> /\ Append(g, "user")[1] = g[1]
  BY <1>1, FitTold
<1>. QED
  BY <1>1, <1>2, <1>3

\* What was asked is carried, or drowned: either what was said since then fits with it,
\* or some of it is the user's, or it is answers and too much.
LEMMA UserIsCarried ==
  ASSUME IInv, Recorded, NEW e \in Exchange, pc[e] = "opened"
  PROVE  LET h == Carried(said[of[e]])
         IN  Fits(h) /\ (Drowned(e) \/ (h # <<>> /\ h[1] = "user"))
<1>. DEFINE s == said[of[e]]
            h == Carried(s)
            n == Len(s)
<1>1. s \in Seq(Message) /\ n \in Nat
  BY DEF IInv, TypeOK
<1>2. PICK p \in 1 .. n : s[p].role = "user" /\ s[p].by = e
  BY DEF Recorded
<1>3. Drowned(e) = \E i, k \in 1 .. Len(s) :
                     /\ s[i].role = "user" /\ s[i].by = e
                     /\ \E l \in (i + 1) .. k : s[l].role = "assistant"
                     /\ ~Fit(s, i, k)
  BY DEF Drowned
<1>. HIDE DEF s
<1>4. n \in Nat \ {0} /\ s # <<>>
  BY <1>1, <1>2
<1>5. /\ Oldest(s) \in 1 .. n
      /\ \A k \in 1 .. n : k = n \/ Fit(s, k, n) => Oldest(s) <= k
  BY <1>4, OldestOf
<1>6. ByTurns(h) /\ ((\E i \in 1 .. n : s[i].role = "user" /\ Oldest(s) <= i) => h # <<>>)
  BY <1>1, <1>4, CarriedByTurns
<1>7. \A i \in 1 .. n : s[i].role \in Role
  <2>1. \A i \in 1 .. n : s[i] \in Message
    BY <1>1
  <2>. QED
    BY <2>1 DEF Message
<1>8. Drowned(e) \/ h # <<>>
  <2>1. CASE Oldest(s) <= p
    BY <1>2, <1>6, <2>1
  <2>2. CASE ~(Oldest(s) <= p) /\ s[n].role = "user"
    <3>1. n \in 1 .. n /\ Oldest(s) <= n
      BY <1>4, <1>5
    <3>. QED
      BY <1>6, <2>2, <3>1
  <2>3. CASE ~(Oldest(s) <= p) /\ s[n].role # "user"
    <3>1. ~Fit(s, p, n) /\ p # n
      BY <1>2, <1>5, <2>3
    <3>2. n \in (p + 1) .. n /\ n \in 1 .. n /\ s[n].role = "assistant"
      BY <1>2, <1>4, <1>7, <2>3, <3>1
    <3>. QED
      BY <1>2, <1>3, <3>1, <3>2
  <2>. QED
    BY <2>1, <2>2, <2>3
<1>. HIDE DEF h
<1>9. Fits(h) /\ (h # <<>> => h[1] = "user")
  BY <1>6 DEF ByTurns, Fits
<1>. QED
  BY <1>8, <1>9 DEF h, s

\* An exchange that returns is done, and nobody else notices.
LEMMA ReturnsAlone ==
  ASSUME TypeOK, NEW e \in Exchange, Returns(e)
  PROVE  pc'[e] = "done" /\ \A x \in Exchange \ {e} : pc'[x] = pc[x] /\ history'[x] = history[x]
<1>1. Drop({e}) /\ pc' = [pc EXCEPT ![e] = "done"]
  OBVIOUS
<1>2. history' = [history EXCEPT ![e] = <<>>]
  BY <1>1, Drops
<1>. QED
  BY <1>1, <1>2 DEF TypeOK

\* Every step leaves a request fit to send, whichever step it is and whoever takes it.
LEMMA CarryingStep ==
  ASSUME SayInv, [Next]_vars
  PROVE  Carrying'
<1>0. TypeOK /\ IInv /\ Recorded /\ Carrying
  BY DEF SayInv, IInv
<1>d. ASSUME NEW x \in Exchange, Drowned(x) PROVE Drowned(x)'
  <2>1. CASE Next
    BY <1>0, <1>d, <2>1, DrownedStays
  <2>2. CASE UNCHANGED vars
    BY <1>d, <2>2 DEF vars, Drowned
  <2>. QED
    BY <2>1, <2>2
<1>s. ASSUME NEW x \in Exchange, history'[x] = history[x],
             pc'[x] \in {"turn", "streaming"} => pc[x] \in {"turn", "streaming"},
             pc'[x] \in Commands => pc[x] \in Commands
      PROVE  CarriesAt(x)'
  BY <1>0, <1>d, <1>s DEF Carrying, CarriesAt, Opens
<1>g. ASSUME NEW x \in Exchange, pc'[x] \notin {"turn", "streaming"} \cup Commands
      PROVE  CarriesAt(x)'
  BY <1>g DEF CarriesAt
<1>1. ASSUME NEW e \in Exchange,
             \/ Send(e) \/ Open(e) \/ Ask(e) \/ Piece(e) \/ Ends(e) \/ Keep(e) \/ HangUp(e)
      PROVE  Carrying'
  <2>1. /\ \A x \in Exchange \ {e} : pc'[x] = pc[x]
        /\ pc'[e] \in {"turn", "streaming"} => pc[e] \in {"turn", "streaming"}
        /\ pc'[e] \in Commands => pc[e] \in Commands
    BY <1>0, <1>1 DEF TypeOK, Send, Open, Ask, Piece, Ends, Keep, HangUp
  <2>2. history' = history \/ Returns(e)
    BY <1>1 DEF Send, Open, Ask, Piece, Ends, Keep, HangUp
  <2>3. \A x \in Exchange : history'[x] = history[x] \/ pc'[x] = "done"
    BY <1>0, <2>2, ReturnsAlone
  <2>. QED
    BY <1>s, <1>g, <2>1, <2>3 DEF Carrying
<1>2. ASSUME NEW e \in Exchange, Listen(e) PROVE Carrying'
  <2>1. pc[e] = "opened" /\ \A x \in Exchange \ {e} : pc'[x] = pc[x]
    BY <1>0, <1>2 DEF TypeOK, Listen
  <2>2. CASE history' = [history EXCEPT ![e] = Carried(said[of[e]])] /\ pc'[e] = "turn"
    <3>. DEFINE h == Carried(said[of[e]])
    <3>1. Fits(h) /\ (Drowned(e) \/ (h # <<>> /\ h[1] = "user"))
      BY <1>0, <2>1, UserIsCarried
    <3>2. /\ history'[e] = h
          /\ \A x \in Exchange \ {e} : history'[x] = history[x]
      BY <1>0, <2>2 DEF TypeOK
    <3>. HIDE DEF h
    <3>3. CarriesAt(e)'
      BY <1>d, <2>2, <3>1, <3>2 DEF CarriesAt, Opens
    <3>. QED
      BY <1>s, <2>1, <3>2, <3>3 DEF Carrying
  <2>3. CASE Returns(e)
    <3>1. /\ pc'[e] = "done"
          /\ \A x \in Exchange \ {e} : history'[x] = history[x]
      BY <1>0, <2>3, ReturnsAlone
    <3>. QED
      BY <1>s, <1>g, <2>1, <3>1 DEF Carrying
  <2>. QED
    BY <1>0, <1>2, <2>2, <2>3 DEF TypeOK, Listen
<1>3. ASSUME NEW e \in Exchange, CallsCommand(e) \/ CallsTool(e) PROVE Carrying'
  <2>1. /\ pc[e] = "streaming" /\ Fits(history[e]) /\ Opens(e)
        /\ \A x \in Exchange \ {e} : pc'[x] = pc[x] /\ history'[x] = history[x]
    BY <1>0, <1>3 DEF TypeOK, Carrying, CarriesAt, CallsCommand, CallsTool
  <2>2. CASE CallsCommand(e)
    <3>1. history'[e] = Append(history[e], "assistant") /\ pc'[e] = "calling"
      BY <1>0, <2>2 DEF TypeOK, CallsCommand
    <3>. DEFINE h == history[e]
    <3>2. /\ Fits(Append(h, "assistant")) /\ Append(h, "assistant") # <<>>
          /\ Append(h, "assistant")[Len(Append(h, "assistant"))] = "assistant"
          /\ h # <<>> => Append(h, "assistant")[1] = h[1]
      BY <2>1, FitAnswered
    <3>3. CarriesAt(e)'
      BY <1>d, <2>1, <3>1, <3>2 DEF CarriesAt, Opens
    <3>. QED
      BY <1>s, <2>1, <3>3 DEF Carrying
  <2>3. CASE CallsTool(e)
    <3>1. history'[e] = history[e] \o <<"assistant", "user">> /\ pc'[e] = "turn"
      BY <1>0, <2>3 DEF TypeOK, CallsTool
    <3>. DEFINE h == history[e]
                g == h \o <<"assistant", "user">>
    <3>2. Fits(g) /\ (h # <<>> => g # <<>> /\ g[1] = h[1])
      BY <2>1, FitToldAtOnce
    <3>4. history'[e] = g /\ Opens(e) = (Drowned(e) \/ (h # <<>> /\ h[1] = "user"))
      BY <3>1 DEF Opens
    <3>. HIDE DEF g, h
    <3>3. CarriesAt(e)'
      BY <1>d, <2>1, <3>1, <3>2, <3>4 DEF CarriesAt, Opens
    <3>. QED
      BY <1>s, <2>1, <3>3 DEF Carrying
  <2>. QED
    BY <1>3, <2>2, <2>3
<1>4. ASSUME NEW e \in Exchange,
             \/ Gate(e) \/ Granted(e) \/ Propose(e) \/ Answered(e) \/ WindowCloses(e)
             \/ CutWhileWaiting(e) \/ Recheck(e) \/ RunCommand(e)
      PROVE  Carrying'
  <2>1. /\ pc[e] \in Commands
        /\ Fits(history[e]) /\ Opens(e) /\ history[e] # <<>>
        /\ history[e][Len(history[e])] = "assistant"
    BY <1>0, <1>4 DEF Carrying, CarriesAt, Gate, Granted, Propose, Answered, WindowCloses,
       CutWhileWaiting, Recheck, RunCommand
  <2>2. \/ Tells(e)
        \/ Stops(e)
        \/ \E to \in Asked : Proceeds(e, to)
    BY <1>4 DEF Gate, Granted, Propose, Answered, WindowCloses, CutWhileWaiting, Recheck,
       RunCommand
  <2>3. CASE Tells(e)
    <3>1. /\ history'[e] = Append(history[e], "user") /\ pc'[e] = "turn"
          /\ \A x \in Exchange \ {e} : pc'[x] = pc[x] /\ history'[x] = history[x]
      BY <1>0, <2>3 DEF TypeOK
    <3>. DEFINE h == history[e]
    <3>2. Fits(Append(h, "user")) /\ Append(h, "user") # <<>> /\ Append(h, "user")[1] = h[1]
      BY <2>1, FitTold
    <3>3. CarriesAt(e)'
      BY <1>d, <2>1, <3>1, <3>2 DEF CarriesAt, Opens
    <3>. QED
      BY <1>s, <3>1, <3>3 DEF Carrying
  <2>4. CASE Stops(e)
    <3>1. /\ history' = history /\ pc'[e] = "ending"
          /\ \A x \in Exchange \ {e} : pc'[x] = pc[x]
      BY <1>0, <2>4 DEF TypeOK
    <3>. QED
      BY <1>s, <1>g, <3>1 DEF Carrying
  <2>5. CASE \E to \in Asked : Proceeds(e, to)
    <3>1. /\ history' = history /\ pc'[e] \in Asked
          /\ \A x \in Exchange \ {e} : pc'[x] = pc[x]
      BY <1>0, <2>5 DEF TypeOK
    <3>. QED
      BY <1>s, <2>1, <3>1 DEF Carrying
  <2>. QED
    BY <2>2, <2>3, <2>4, <2>5
<1>5. CASE \/ \E n \in Name, d \in Decision : AnswerCommand(n, d)
           \/ Relink
           \/ UNCHANGED vars
  <2>1. history' = history /\ pc' = pc
    BY <1>5 DEF AnswerCommand, Relink, vars
  <2>. QED
    BY <1>s, <2>1 DEF Carrying
<1>6. CASE Restart
  <2>1. \A x \in Exchange : \/ pc'[x] = "gone"
                            \/ pc'[x] = pc[x] /\ history'[x] = history[x]
    BY <1>6 DEF Restart, Drop, Forgotten
  <2>. QED
    BY <1>s, <1>g, <2>1 DEF Carrying
<1>. QED
  BY <1>1, <1>2, <1>3, <1>4, <1>5, <1>6 DEF Next, Step

-----------------------------------------------------------------------------
(* The theorems.                                                            *)

LEMMA Begins == Init => SayInv
<1>. SUFFICES ASSUME Init PROVE SayInv
  OBVIOUS
<1>2. Lists
  <2>1. <<>> \in Seq(Role) /\ <<>> \in Seq(Message)
    OBVIOUS
  <2>. QED
    BY <2>1 DEF Init, Blank, Lists
<1>3. Bounds
  BY ChatAssumption DEF Init, Blank, Bounds
<1>4. Fields
  BY DEF Init, Blank, Fields
<1>5. \A e \in Exchange : pc[e] = "away" /\ text[e] = FALSE /\ inbox[e] = None
  BY DEF Init, Blank
<1>6. granted = {} /\ asking = {} /\ \A c \in Conversation : Len(said[c]) = 0
  BY DEF Init
<1>7. Counted /\ Heard /\ Gated /\ Decided /\ Consented /\ NothingLeftAsking /\ Looked
  BY <1>5, <1>6 DEF Counted, Heard, Gated, Decided, Consented, NothingLeftAsking, Looked
<1>8. Recorded /\ Carrying
  BY <1>5, <1>6 DEF Recorded, Carrying, CarriesAt
<1>. QED
  BY <1>2, <1>3, <1>4, <1>7, <1>8 DEF SayInv, IInv, TypeOK, Lists, Bounds, Fields

\* What each action leaves true, every step does.
LEMMA IInvStep == IInv /\ Recorded /\ [Next]_vars => IInv'
<1>. SUFFICES ASSUME IInv, Recorded, [Next]_vars PROVE IInv'
  OBVIOUS
<1>1. ASSUME NEW e \in Exchange, Send(e) \/ Step(e) \/ HangUp(e) PROVE IInv'
  BY <1>1, SendKeeps, OpenKeeps, ListenKeeps, AskKeeps, PieceKeeps, EndsKeeps,
     CallsCommandKeeps, CallsToolKeeps, GateKeeps, GrantedKeeps, ProposeKeeps, AnsweredKeeps,
     WindowClosesKeeps, CutWhileWaitingKeeps, RecheckKeeps, RunCommandKeeps, KeepKeeps,
     HangUpKeeps DEF Step
<1>2. ASSUME NEW n \in Name, NEW d \in Decision, AnswerCommand(n, d) PROVE IInv'
  BY <1>2, AnswerCommandKeeps
<1>3. CASE Restart \/ Relink
  BY <1>3, RestartKeeps, RelinkKeeps
<1>4. CASE UNCHANGED vars
  BY <1>4 DEF vars, IInv, TypeOK, Counted, Heard, Gated, Decided, Consented, NothingLeftAsking,
     Looked
<1>. QED
  BY <1>1, <1>2, <1>3, <1>4 DEF Next

\* And so with what is said and carried.
LEMMA SayInvStep == SayInv /\ [Next]_vars => SayInv'
<1>. SUFFICES ASSUME SayInv, [Next]_vars PROVE SayInv'
  OBVIOUS
<1>1. IInv'
  BY IInvStep DEF SayInv
<1>2. Carrying'
  BY CarryingStep
<1>3. Recorded'
  <2>1. CASE UNCHANGED vars
    BY <2>1 DEF vars, SayInv, Recorded
  <2>2. CASE Next
    BY <2>2, RecordedStep DEF SayInv
  <2>. QED
    BY <2>1, <2>2
<1>. QED
  BY <1>1, <1>2, <1>3 DEF SayInv

\* Every state satisfies it.
LEMMA SayInvHolds == Spec => []SayInv
  BY Begins, SayInvStep, PTL DEF Spec

\* The state of the chat is what it is declared to be (Service and Store's rows).
THEOREM ChatTyped == Spec => []TypeOK
<1>1. SayInv => TypeOK
  BY DEF SayInv, IInv
<1>. QED
  BY <1>1, SayInvHolds, PTL

\* However many people talk at once and however much is said: a command runs only if a
\* person allowed it and the gate did, an answer that is accepted reaches who waits for
\* it, nothing runs in a directory that led out of itself since it was allowed, and a
\* request begins with the user, who never speaks twice in it, unless others' answers
\* drowned the question before it was read back (runCommand, consent, open, shaped).
THEOREM ExchangesAreSound == Spec => []ExchangeIsSound
<1>1. SayInv => ExchangeIsSound
  <2>. SUFFICES ASSUME SayInv PROVE ExchangeIsSound
    OBVIOUS
  <2>1. ConsentGiven /\ NothingLeftAsking /\ LookedAtAgain
    BY DEF SayInv, IInv, Consented, Gated, Looked, ConsentGiven, LookedAtAgain
  <2>2. ASSUME NEW e \in Exchange, pc[e] = "streaming"
        PROVE  /\ \A i \in 1 .. (Len(history[e]) - 1) :
                    {history[e][i], history[e][i + 1]} # {"user"}
               /\ Drowned(e) \/ (history[e] # <<>> /\ Head(history[e]) = "user")
    <3>. DEFINE h == history[e]
    <3>1. Fits(h) /\ (Drowned(e) \/ (h # <<>> /\ h[1] = "user"))
      BY <2>2 DEF SayInv, Carrying, CarriesAt, Opens
    <3>. HIDE DEF h
    <3>2. h # <<>> => Head(h) = h[1]
      BY <3>1 DEF Fits
    <3>3. \A i \in 1 .. (Len(h) - 1) : {h[i], h[i + 1]} # {"user"}
      BY <3>1 DEF Fits
    <3>. QED
      BY <3>1, <3>2, <3>3 DEF h
  <2>. QED
    BY <2>1, <2>2 DEF ExchangeIsSound, UserOpensAndWaits
<1>. QED
  BY <1>1, SayInvHolds, PTL

\* What a user saw of an answer is in its Conversation once Send returns, unless the
\* store refused it, whoever else talks there (Send's WithoutCancel).
THEOREM WhatWasSeenIsKept == Spec => SeenIsKept
<1>1. ASSUME IInv, Next, NEW e \in Exchange, Active(e), text[e], pc'[e] = "done"
      PROVE  \/ Last(said'[of[e]]).role = "assistant" /\ Last(said'[of[e]]).by = e
             \/ faults' > faults
  <2>1. TypeOK /\ pc[e] \in {"turn", "ending"} \cup Talking
    BY <1>1 DEF IInv, Heard
  <2>2. Keep(e)
    <3>1. ASSUME NEW x \in Exchange, Send(x) \/ Step(x) \/ HangUp(x) PROVE Keep(x) /\ x = e
      <4>1. CASE Send(x) \/ Open(x) \/ Listen(x) \/ Ask(x) \/ Piece(x) \/ Ends(x) \/ HangUp(x)
        BY <1>1, <2>1, <4>1 DEF TypeOK, Send, Open, Listen, Ask, Piece, Ends, HangUp
      <4>2. CASE \/ CallsCommand(x) \/ CallsTool(x) \/ Gate(x) \/ Granted(x) \/ Propose(x)
                 \/ Answered(x) \/ WindowCloses(x) \/ CutWhileWaiting(x) \/ Recheck(x)
                 \/ RunCommand(x)
        BY <1>1, <2>1, <4>2 DEF TypeOK, CallsCommand, CallsTool, Gate, Granted, Propose,
           Answered, WindowCloses, CutWhileWaiting, Recheck, RunCommand
      <4>3. CASE Keep(x)
        BY <1>1, <2>1, <4>3 DEF TypeOK, Keep
      <4>. QED
        BY <3>1, <4>1, <4>2, <4>3 DEF Step
    <3>2. CASE (\E n \in Name, d \in Decision : AnswerCommand(n, d)) \/ Restart \/ Relink
      BY <1>1, <2>1, <3>2 DEF AnswerCommand, Restart, Relink, Active
    <3>. QED
      BY <1>1, <3>1, <3>2 DEF Next
  <2>3. PICK fails \in BOOLEAN, size \in Size :
          /\ faults' = IF fails THEN faults + 1 ELSE faults
          /\ said' = IF text[e] /\ ~fails THEN Written(e, "assistant", size) ELSE said
    BY <2>2 DEF Keep
  <2>4. CASE fails
    BY <2>1, <2>3, <2>4 DEF TypeOK
  <2>5. CASE ~fails
    <3>. DEFINE m == [role |-> "assistant", by |-> e, size |-> size]
                c == of[e]
    <3>1. said' = [said EXCEPT ![c] = Append(@, m)]
      BY <1>1, <2>3, <2>5 DEF Written
    <3>2. said \in [Conversation -> Seq(Message)] /\ c \in Conversation /\ m \in Message
      BY <2>1 DEF TypeOK, Message
    <3>3. m.role = "assistant" /\ m.by = e
      OBVIOUS
    <3>. HIDE DEF m, c
    <3>. DEFINE s == said[c]
    <3>4. s \in Seq(Message) /\ said'[c] = Append(s, m)
      BY <3>1, <3>2
    <3>. HIDE DEF s
    <3>5. Append(s, m)[Len(Append(s, m))] = m
      BY <3>2, <3>4
    <3>6. Last(said'[c]) = m
      BY <3>4, <3>5 DEF Last
    <3>. QED
      BY <3>3, <3>6 DEF c
  <2>. QED
    BY <2>4, <2>5
<1>2. IInv /\ [Next]_vars =>
        [\A e \in Exchange : Active(e) /\ text[e] /\ pc'[e] = "done" =>
           \/ Last(said'[of[e]]).role = "assistant" /\ Last(said'[of[e]]).by = e
           \/ faults' > faults]_vars
  BY <1>1
<1>3. SayInv => IInv
  BY DEF SayInv
<1>. QED
  BY <1>2, <1>3, SayInvHolds, PTL DEF Spec, SeenIsKept
=============================================================================
