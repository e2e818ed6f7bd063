---------------------------- MODULE MCRunService ----------------------------
(***************************************************************************)
(* RunService with the small sets TLC needs.                               *)
(***************************************************************************)
EXTENDS RunService, TLC

CONSTANTS j1, j2, j3, p1, p2, a1, a2

\* Two Jobs of one Project; two Jobs of two; and three, the last of them in a
\* Project of its own.
OneProject  == (j1 :> p1) @@ (j2 :> p1)
TwoProjects == (j1 :> p1) @@ (j2 :> p2)
ThreeJobs   == (j1 :> p1) @@ (j2 :> p1) @@ (j3 :> p2)

\* The Accounts are interchangeable; sound for the invariants of a run whose
\* configuration names neither.
Symmetry == Permutations({a1, a2})
=============================================================================
