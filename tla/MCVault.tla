------------------------------ MODULE MCVault ------------------------------
(* Small instances of Vault for TLC. *)
EXTENDS Vault, TLC

=============================================================================
