----------------------------- MODULE MCBackups -----------------------------
(* Small instances of Backups for TLC. *)
EXTENDS Backups, TLC

Alike == Permutations(Takers)

(* Of what comes from outside of the takers, this much at once: accidents, settings
   forms, requests to send and to delete. *)
Few == cuts + Cardinality({f \in Forms : form[f].step # "no"})
            + Cardinality(asking) + Cardinality(deleting) <= 1
=============================================================================
