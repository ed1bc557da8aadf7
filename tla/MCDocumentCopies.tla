-------------------------- MODULE MCDocumentCopies --------------------------
(* Small instances of DocumentCopies for TLC. *)
EXTENDS DocumentCopies, TLC

Alike == Permutations(Copies) \cup Permutations(Senders)
=============================================================================
