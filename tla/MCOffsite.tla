----------------------------- MODULE MCOffsite -----------------------------
(* Small instances of Offsite for TLC. *)
EXTENDS Offsite, TLC

=============================================================================
