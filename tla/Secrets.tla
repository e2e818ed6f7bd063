---- MODULE Secrets ----
(* An Account, a chat provider, and the secret of each: the row is in the     *)
(* database, the secret in the credential store, and a call changes one after *)
(* the other.                                                                 *)
(*   internal/account/account.go, internal/chat/chat.go,                      *)
(*   internal/credential/{file,keychain_darwin}.go, store/{accounts,chat}.go  *)
(* One name of each kind is followed.  A secret is known by the call that     *)
(* brought it.  A Run's start is here for what it reads of the Account and    *)
(* for the Job that names it afterwards.                                      *)
EXTENDS Naturals, FiniteSets

CONSTANTS Caller,    \* calls that can be under way at once
          MaxCalls,  \* calls ever made
          MaxFaults  \* writes that fail, and deaths of the daemon

ASSUME SecretsAssumption == {MaxCalls, MaxFaults} \subseteq Nat

Kind == {"account", "provider"}
Call == 1 .. MaxCalls
Nothing == 0

VARIABLES
  keychain,  \* secrets are in the keychain rather than in a file
  row,       \* the call whose row each name holds
  secret,    \* the call whose secret it holds
  jobs,      \* a Job records having run on the Account
  call,      \* the calls under way
  told,      \* the last addition its user was told of and that nothing undid (history)
  excused,   \* an error said a half is left, the daemon died, or calls overlapped (history)
  unsaid,    \* a failed call left one half of the provider, told nobody, and no
             \* call has put that right since
  calls, faults
vars == <<keychain, row, secret, jobs, call, told, excused, unsaid, calls, faults>>

Idle == [at |-> "idle"]
Null == [k \in Kind |-> Nothing]

Init ==
  /\ keychain \in BOOLEAN
  /\ row = Null /\ secret = Null /\ told = Null
  /\ jobs = FALSE
  /\ call = [u \in Caller |-> Idle]
  /\ excused = [k \in Kind |-> FALSE] /\ unsaid = FALSE
  /\ calls = 0 /\ faults = 0

UnderWay(k, ops) == {u \in Caller : call[u] # Idle /\ call[u].kind = k /\ call[u].op \in ops}

Overlaps(k, op) ==
  CASE op = "start" -> FALSE
    [] k = "account" /\ op = "add" -> UnderWay(k, {"remove"}) # {}
    [] OTHER -> UnderWay(k, {"add", "remove"}) # {}

\* A call begins.  Two additions of one Account are made to be able to overlap;
\* any other two calls that change a name are not, and what comes of that is
\* excused.
Begin(u, k, op) ==
  /\ call[u] = Idle /\ calls < MaxCalls
  /\ calls' = calls + 1
  /\ call' = [call EXCEPT ![u] = [at |-> op, kind |-> k, op |-> op, id |-> calls + 1,
                                  had |-> Nothing, rotating |-> FALSE]]
  /\ IF Overlaps(k, op)
     THEN told' = [told EXCEPT ![k] = Nothing] /\ excused' = [excused EXCEPT ![k] = TRUE]
     ELSE UNCHANGED <<told, excused>>

To(u, at) == call' = [call EXCEPT ![u].at = at]
Done(u) == call' = [call EXCEPT ![u] = Idle]
At(u, k, at) == call[u] # Idle /\ call[u].kind = k /\ call[u].at = at
Fails == faults < MaxFaults /\ faults' = faults + 1
Store == <<row, secret>>
Kept == <<keychain, jobs, calls>>
Env == <<Kept, unsaid>>

Answers(u, k) ==
  /\ Done(u)
  /\ told' = IF excused[k] THEN told ELSE [told EXCEPT ![k] = call[u].id]
  /\ UNCHANGED excused

\* The user is told that something of the name is left.
Excuses(u, k) == Done(u) /\ excused' = [excused EXCEPT ![k] = TRUE]
                 /\ told' = [told EXCEPT ![k] = Nothing]

-----------------------------------------------------------------------------
(* The credential store.                                                     *)

\* File.Set replaces the whole file at once.  Keychain.Set takes the item out
\* and puts another in, and is between the two when at is "half".
Set(u, k, at, s, next) ==
  \/ /\ ~keychain \/ At(u, k, "half")
     /\ secret' = [secret EXCEPT ![k] = s] /\ next
  \/ /\ keychain /\ At(u, k, at)
     /\ secret' = [secret EXCEPT ![k] = Nothing]
     /\ To(u, "half") /\ UNCHANGED <<told, excused>>

-----------------------------------------------------------------------------
(* owl account add and remove.                                               *)

\* AddAccount claims the name; nobody else's row or secret is touched by a call
\* that finds it taken.
AddAccountUnclaimed(u) ==
  /\ At(u, "account", "add") /\ To(u, "set")
  /\ row' = [row EXCEPT !.account = call[u].id]
  /\ UNCHANGED <<Env, secret, told, excused, faults>>
AddAccount(u) ==
  /\ At(u, "account", "add")
  /\ \/ row.account = Nothing /\ row' = [row EXCEPT !.account = call[u].id] /\ To(u, "set")
        /\ UNCHANGED faults
     \/ row.account # Nothing /\ Done(u) /\ UNCHANGED <<row, faults>>
     \/ Fails /\ Done(u) /\ UNCHANGED row
  /\ UNCHANGED <<Env, secret, told, excused>>

\* The directory, and the secret.
SetToken(u) ==
  /\ At(u, "account", "set") \/ At(u, "account", "half")
  /\ Set(u, "account", "set", call[u].id, Answers(u, "account"))
  /\ UNCHANGED <<Env, row, faults>>

SetTokenFails(u) ==
  /\ At(u, "account", "set") \/ At(u, "account", "half")
  /\ Fails /\ To(u, "undo")
  /\ UNCHANGED <<Env, Store, told, excused>>

\* undo takes the row out again, or says that it could not.
UndoNothing(u) ==
  /\ At(u, "account", "undo") /\ Done(u)
  /\ UNCHANGED <<Env, Store, told, excused, faults>>
Undo(u) ==
  /\ At(u, "account", "undo")
  /\ \/ row' = [row EXCEPT !.account = Nothing] /\ Done(u) /\ UNCHANGED <<told, excused, faults>>
     \/ Fails /\ Excuses(u, "account") /\ UNCHANGED row
  /\ UNCHANGED <<Env, secret>>

\* Remove reads the row and counts the Jobs that ran on it.
RemoveLooks(u) ==
  /\ At(u, "account", "remove")
  /\ IF row.account = Nothing \/ jobs THEN Done(u) ELSE To(u, "delete")
  /\ UNCHANGED <<Env, Store, told, excused, faults>>

\* The row goes first, then the figures about its windows, then the secret.
DeleteAccount(u) ==
  /\ At(u, "account", "delete")
  /\ \/ row.account # Nothing /\ row' = [row EXCEPT !.account = Nothing] /\ To(u, "forget")
        /\ told' = [told EXCEPT !.account = Nothing] /\ UNCHANGED faults
     \/ row.account = Nothing /\ Done(u) /\ UNCHANGED <<row, told, faults>>
     \/ Fails /\ Done(u) /\ UNCHANGED <<row, told>>
  /\ UNCHANGED <<Env, secret, excused>>

ForgetUsage(u) ==
  /\ At(u, "account", "forget")
  /\ \/ To(u, "secret") /\ UNCHANGED <<excused, told, faults>>
     \/ Fails /\ Excuses(u, "account")
  /\ UNCHANGED <<Env, Store>>

DeleteToken(u) ==
  /\ At(u, "account", "secret")
  /\ \/ secret' = [secret EXCEPT !.account = Nothing] /\ Done(u) /\ UNCHANGED <<told, excused, faults>>
     \/ Fails /\ Excuses(u, "account") /\ UNCHANGED secret
  /\ UNCHANGED <<Env, row>>

-----------------------------------------------------------------------------
(* A Run's start: the Account and its secret are read, and once the worktree  *)
(* is ready the Job records the Account.                                      *)

Credential(u) ==
  /\ At(u, "account", "start")
  /\ IF row.account # Nothing /\ secret.account # Nothing THEN To(u, "record") ELSE Done(u)
  /\ UNCHANGED <<Env, Store, told, excused, faults>>

SetJobAccount(u) ==
  /\ At(u, "account", "record")
  /\ jobs' = TRUE /\ Done(u)
  /\ UNCHANGED <<keychain, calls, Store, told, excused, unsaid, faults>>

-----------------------------------------------------------------------------
(* owl providers add and remove.                                             *)

\* Whether this rotates a key decides what a failure puts back.  A key that
\* cannot be read is taken for none.
ProviderLooks(u) ==
  /\ At(u, "provider", "add")
  /\ \E had \in {secret.provider, Nothing} :
       /\ had # secret.provider => row.provider # Nothing /\ Fails
       /\ had = secret.provider => UNCHANGED faults
       /\ call' = [call EXCEPT ![u].at = "set", ![u].rotating = row.provider # Nothing,
                     ![u].had = IF row.provider = Nothing THEN Nothing ELSE had]
  /\ UNCHANGED <<Env, Store, told, excused>>

SetKey(u) ==
  /\ At(u, "provider", "set") \/ At(u, "provider", "half")
  /\ Set(u, "provider", "set", call[u].id, To(u, "row") /\ UNCHANGED <<told, excused>>)
  /\ UNCHANGED <<Env, row, faults>>

\* A key that cannot be written ends the call there and then, also one of a
\* rotation that has already taken the old one out of the keychain.
SetKeyFails(u) ==
  /\ At(u, "provider", "set") \/ At(u, "provider", "half")
  /\ Fails /\ Done(u)
  /\ unsaid' = (unsaid \/ (At(u, "provider", "half") /\ call[u].rotating))
  /\ UNCHANGED <<Kept, Store, told, excused>>

AddChatProvider(u) ==
  /\ At(u, "provider", "row")
  /\ \/ row' = [row EXCEPT !.provider = call[u].id] /\ Answers(u, "provider")
        /\ unsaid' = FALSE /\ UNCHANGED faults
     \/ Fails /\ To(u, "putback") /\ UNCHANGED <<row, told, excused, unsaid>>
  /\ UNCHANGED <<Kept, secret>>

\* The row could not be written: a first key is taken back, a rotated one is
\* replaced by the key it replaced, and a user whose key is neither is told.
\* That a first key could not be taken back is told to nobody.
PutBackNothing(u) ==
  /\ At(u, "provider", "putback")
  /\ secret' = [secret EXCEPT !.provider = Nothing] /\ Done(u)
  /\ UNCHANGED <<Env, row, told, excused, faults>>
PutBack(u) ==
  /\ At(u, "provider", "putback")
  /\ LET back == call[u].had IN
     \/ /\ ~call[u].rotating \/ back # Nothing
        /\ secret' = [secret EXCEPT !.provider = back]
        /\ Done(u) /\ UNCHANGED <<told, excused, unsaid, faults>>
     \/ /\ ~call[u].rotating
        /\ Fails /\ Done(u) /\ unsaid' = TRUE
        /\ UNCHANGED <<secret, told, excused>>
     \/ /\ call[u].rotating /\ back # Nothing
        /\ Fails /\ Excuses(u, "provider") /\ UNCHANGED unsaid
        /\ \/ UNCHANGED secret
           \/ keychain /\ secret' = [secret EXCEPT !.provider = Nothing]
     \/ /\ call[u].rotating /\ back = Nothing
        /\ Excuses(u, "provider") /\ UNCHANGED <<secret, unsaid, faults>>
  /\ UNCHANGED <<Kept, row>>

RemoveChatProvider(u) ==
  /\ At(u, "provider", "remove")
  /\ \/ row.provider # Nothing /\ row' = [row EXCEPT !.provider = Nothing] /\ To(u, "secret")
        /\ told' = [told EXCEPT !.provider = Nothing] /\ UNCHANGED faults
     \/ row.provider = Nothing /\ Done(u) /\ UNCHANGED <<row, told, faults>>
     \/ Fails /\ Done(u) /\ UNCHANGED <<row, told>>
  /\ UNCHANGED <<Env, secret, excused>>

DeleteKey(u) ==
  /\ At(u, "provider", "secret")
  /\ \/ secret' = [secret EXCEPT !.provider = Nothing] /\ Done(u)
        /\ unsaid' = FALSE /\ UNCHANGED <<told, excused, faults>>
     \/ Fails /\ Excuses(u, "provider") /\ UNCHANGED <<secret, unsaid>>
  /\ UNCHANGED <<Kept, row>>

-----------------------------------------------------------------------------
\* The daemon dies: what was under way stops where it was.
Crash ==
  /\ Fails
  /\ call' = [u \in Caller |-> Idle]
  /\ excused' = [k \in Kind |-> excused[k] \/ UnderWay(k, {"add", "remove"}) # {}]
  /\ told' = [k \in Kind |-> IF UnderWay(k, {"add", "remove"}) # {} THEN Nothing ELSE told[k]]
  /\ UNCHANGED <<Env, Store>>

Begins(u) ==
  /\ \/ \E k \in Kind, op \in {"add", "remove"} : Begin(u, k, op)
     \/ Begin(u, "account", "start")
  /\ UNCHANGED <<keychain, jobs, Store, unsaid, faults>>

OnAccount(u) ==
  \/ AddAccount(u) \/ SetToken(u) \/ SetTokenFails(u) \/ Undo(u)
  \/ RemoveLooks(u) \/ DeleteAccount(u) \/ ForgetUsage(u) \/ DeleteToken(u)
  \/ Credential(u) \/ SetJobAccount(u)

OnProvider(u) ==
  \/ ProviderLooks(u) \/ SetKey(u) \/ SetKeyFails(u) \/ AddChatProvider(u) \/ PutBack(u)
  \/ RemoveChatProvider(u) \/ DeleteKey(u)

Next == Crash \/ \E u \in Caller : Begins(u) \/ OnAccount(u) \/ OnProvider(u)
Spec == Init /\ [][Next]_vars
-----------------------------------------------------------------------------
TypeOK ==
  /\ keychain \in BOOLEAN /\ jobs \in BOOLEAN
  /\ row \in [Kind -> Call \cup {Nothing}] /\ secret \in [Kind -> Call \cup {Nothing}]
  /\ told \in [Kind -> Call \cup {Nothing}] /\ excused \in [Kind -> BOOLEAN]
  /\ unsaid \in BOOLEAN
  /\ calls \in 0 .. MaxCalls /\ faults \in 0 .. MaxFaults

Settled(k) == UnderWay(k, {"add", "remove"}) = {}

\* Half of the provider was left and nobody was told: a first key that could not be
\* taken back, or the key a rotation took out of the keychain and put no other in for.
Untold(k) == k = "provider" /\ unsaid

\* What a user was told was added is there with the secret they gave, whoever
\* else was adding the same name, and whatever failed of the additions and the
\* rotations that came after, but for the rotation that loses a key (KeyIsKept).
AddedRuns ==
  \A k \in Kind :
    /\ told[k] # Nothing /\ ~Untold(k)
    /\ k = "account" \/ Settled(k)
    => row[k] # Nothing /\ secret[k] = told[k]

\* Between calls a name has a row and a secret or neither, unless an error told its
\* user otherwise, the daemon died in a call or calls overlapped (excused), or it is
\* one of the two halves nobody is told of, and then only until an addition or a
\* removal of the provider goes through (account.go, chat.go; the halves of the two
\* below are what chat.go says is not left).
HalvesAgree ==
  \A k \in Kind :
    Settled(k) /\ ~excused[k] /\ ~Untold(k) => (row[k] = Nothing <=> secret[k] = Nothing)

\* A key without a row is taken back rather than left in the store (chat.go:190-191).
\* Not so: that its deletion failed is dropped, and the user is told of the row alone.
KeyIsTakenBack ==
  Settled("provider") /\ ~excused.provider /\ row.provider = Nothing
    => secret.provider = Nothing

\* A rotation that did not happen leaves the provider the key it had
\* (chat.go:191-193).  Not so with the keychain, which takes the old key out before
\* it puts the new one in: when the second fails the provider has none.
KeyIsKept ==
  told.provider # Nothing /\ Settled("provider") => secret.provider = told.provider

\* An Account is not removed while a Job records having run on it, so what a
\* Job drew on stays knowable (account.go, Remove).
JobsNameAnAccount == jobs => row.account # Nothing
====
