----------------------------- MODULE MCTimeline -----------------------------
(* Instances of Timeline for TLC. *)
EXTENDS Timeline, TLC

CONSTANTS r1, r2, i1, i2, o1, pay

MCReachedBy == [i \in Interviews |-> IF i = i1 THEN "interviewing" ELSE "screening"]
MCAsked == {"applied", "offer", "rejected", "withdrawn"}
Symmetry == Permutations(Requests)
=============================================================================
