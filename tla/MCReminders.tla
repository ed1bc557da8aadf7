---------------------------- MODULE MCReminders ----------------------------
(* Small instances of Reminders for TLC. *)
EXTENDS Reminders, TLC

Alike == Permutations(Writers) \cup Permutations(Passes)
=============================================================================
