----------------------------- MODULE MCAccounts -----------------------------
(* Small instances of Accounts for TLC. *)
EXTENDS Accounts, TLC

Alike == Permutations(Requests) \cup Permutations(People) \cup Permutations(Invites)

(* Registration is opened, or two removals are decided side by side; neither looks
   at the other. *)
Few == uneasy => opened = 0
=============================================================================
