------------------------------- MODULE Spells -------------------------------
(***************************************************************************)
(* What an Account's ceiling keeps, over the spell for which it is known   *)
(* to be over.  Two variables remember what happened in the spell; no      *)
(* action of Ceiling reads them.                                           *)
(*                                                                         *)
(* A start reads what is known and claims its Job in two steps             *)
(* (internal/run/run.go), and what a Run reports in between is not         *)
(* consulted, so an Account that is over may still be begun on.  What      *)
(* holds is how often.                                                     *)
(***************************************************************************)
EXTENDS Ceiling

VARIABLES
  late,      \* history: how often each Account was begun on since it is over
  spoken     \* history: Jobs whose Run was judged on a line of its own since then

spellVars == <<vars, late, spoken>>

Limit(a, w) == IF w \in Five THEN Ceilings[a].five ELSE Ceilings[a].weekly

\* Some window that has not started again is known to be spent up to its limit.
Overspent(a) ==
  \E w \in Window : /\ usage[a][w].known /\ usage[a][w].left > 0
                    /\ Limit(a, w) > 0 /\ usage[a][w].spent >= Limit(a, w)

BegunOn(a) == \E j \in Job : AccountOf[j] = a /\ at[j] = "pending" /\ at'[j] = "running"
JudgedOn(j) == readable /\ reader[j].step = "judge" /\ reader'[j] = Quiet

SpellInit == Init /\ late = [a \in Account |-> 0] /\ spoken = {}

Remembers ==
  /\ late' = [a \in Account |-> IF ~Overspent(a)' THEN 0
                                ELSE IF BegunOn(a) THEN late[a] + 1 ELSE late[a]]
  /\ spoken' = {j \in Job : /\ Overspent(AccountOf[j])' /\ at'[j] \in {"running", "ending"}
                            /\ j \in spoken \/ JudgedOn(j)}

SpellNext == Next /\ Remembers
SpellSpec == SpellInit /\ [][SpellNext]_spellVars
FairSpec  == SpellSpec /\ Fairness

-----------------------------------------------------------------------------
\* While an Account is known to be over, it is begun on once more at the most - by the
\* start that had read what was known before - and no Run that says anything goes on
\* (start's underCeiling before its claim, under s.starting; watchUsage).
KeptUnder ==
  /\ \A a \in Account : late[a] <= 1
  /\ \A j \in spoken : at[j] # "running"
=============================================================================
