----------------------------- MODULE MCFreezing -----------------------------
(***************************************************************************)
(* Freezing with the small sets TLC needs: one Run, or two where one is    *)
(* frozen because of the other.                                            *)
(***************************************************************************)
EXTENDS Freezing

CONSTANTS r1, r2
=============================================================================
