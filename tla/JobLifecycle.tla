---------------------------- MODULE JobLifecycle ----------------------------
(***************************************************************************)
(* What a Job promises its user, as ADR-0025, ADR-0027 and internal/queue  *)
(* have it: a standing intent with a number of attempts left, taken up and *)
(* put back until it needs a decision.  No process, no lock, no database.  *)
(***************************************************************************)
EXTENDS Naturals

CONSTANT Job

VARIABLES
  state,   \* where each Job stands
  left     \* the attempts each Job has left

vars == <<state, left>>

Init ==
  /\ state = [j \in Job |-> "unborn"]
  /\ left = [j \in Job |-> 0]

Becomes(j, from, to) ==
  /\ state[j] = from
  /\ state' = [state EXCEPT ![j] = to]

\* A Job is produced with the attempts it was asked for, at least one.
Produce(j) ==
  /\ Becomes(j, "unborn", "pending")
  /\ left'[j] > 0
  /\ left' = [left EXCEPT ![j] = left'[j]]

\* Only a Job nobody has taken up can be cancelled.
Withdraw(j) == Becomes(j, "pending", "cancelled") /\ UNCHANGED left

\* Only a Job with an attempt left is taken up.
TakeUp(j) == left[j] > 0 /\ Becomes(j, "pending", "active") /\ UNCHANGED left

\* A Job taken up ends needing somebody, or is put back - or has run out.
Settle(j) ==
  /\ \E to \in {"blocked", "review"} : Becomes(j, "active", to)
  /\ UNCHANGED left
PutBack(j) ==
  /\ Becomes(j, "active", IF left[j] > 0 THEN "pending" ELSE "exhausted")
  /\ UNCHANGED left

\* Attempts are spent by Jobs that are taken up, one each.
Spend(js) ==
  /\ \A j \in js : state[j] = "active" /\ left[j] > 0
  /\ left' = [j \in Job |-> IF j \in js THEN left[j] - 1 ELSE left[j]]
  /\ UNCHANGED state

\* More attempts bring a Job that had run out back, and no other.
Extend(j) ==
  /\ state[j] \notin {"unborn", "gone"}
  /\ left'[j] >= left[j]
  /\ left' = [left EXCEPT ![j] = left'[j]]
  /\ state' = IF state[j] = "exhausted" THEN [state EXCEPT ![j] = "pending"] ELSE state

\* Jobs go with their Project.
Lose(js) ==
  /\ \A j \in js : state[j] # "unborn"
  /\ state' = [j \in Job |-> IF j \in js THEN "gone" ELSE state[j]]
  /\ UNCHANGED left

Next ==
  \/ \E j \in Job : \/ Produce(j) \/ Withdraw(j) \/ TakeUp(j)
                    \/ Settle(j) \/ PutBack(j) \/ Extend(j)
  \/ \E js \in SUBSET Job : Spend(js) \/ Lose(js)

Spec == Init /\ [][Next]_vars
=============================================================================
