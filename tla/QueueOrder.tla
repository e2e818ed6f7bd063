----------------------------- MODULE QueueOrder -----------------------------
(***************************************************************************)
(* The order of the queue as ADR-0025 has it: a line a Job joins at the    *)
(* end, keeps its place in while it is run and run again, and leaves       *)
(* without anybody else's place among the rest changing.  Only a reorder   *)
(* moves a Job, it moves one, and that one is waiting.                     *)
(*                                                                         *)
(* The line is who stands in it and who stands ahead of whom: there are no *)
(* numbers here to be renumbered.                                          *)
(***************************************************************************)
CONSTANT Job

VARIABLES
  queue,     \* the Jobs in the line
  ahead,     \* <<i, j>> when i stands somewhere ahead of j
  waiting    \* those of the line nobody has taken up

vars == <<queue, ahead, waiting>>

Init == queue = {} /\ ahead = {} /\ waiting = {}

\* Behind everybody there is.
Join(j) ==
  /\ j \notin queue
  /\ queue' = queue \cup {j}
  /\ ahead' = ahead \cup (queue \X {j})
  /\ waiting' = waiting \cup {j}

\* How the Jobs of js stand to one another.
Among(js) == {pair \in ahead : pair[1] \in js /\ pair[2] \in js}

Leave(js) ==
  /\ queue' = queue \ js
  /\ ahead' = Among(queue \ js)
  /\ waiting' = waiting \ js

\* Taken up, put back, out of attempts or given more: the place is kept.
Wait(js) ==
  /\ js \subseteq queue
  /\ waiting' = js
  /\ UNCHANGED <<queue, ahead>>

\* Somewhere else: behind a first part of the others and ahead of the rest.
Move(j) ==
  /\ j \in waiting
  /\ \E front \in SUBSET (queue \ {j}) :
       /\ \A pair \in Among(queue \ {j}) : pair[2] \in front => pair[1] \in front
       /\ ahead' = Among(queue \ {j}) \cup (front \X {j})
                                      \cup ({j} \X (queue \ (front \cup {j})))
  /\ UNCHANGED <<queue, waiting>>

Next ==
  \/ \E j \in Job : Join(j) \/ Move(j)
  \/ \E js \in SUBSET Job : Leave(js) \/ Wait(js)

Spec == Init /\ [][Next]_vars
=============================================================================
