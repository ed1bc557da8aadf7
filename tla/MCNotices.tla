----------------------------- MODULE MCNotices -----------------------------
(* Small instances of Notices for TLC. *)
EXTENDS Notices, TLC

CONSTANTS k1

OneKey == [e \in Errands |-> k1]
Alike == Permutations(Workers) \cup Permutations(Hookers) \cup Permutations(Errands)
=============================================================================
