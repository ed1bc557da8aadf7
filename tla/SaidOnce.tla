------------------------------ MODULE SaidOnce ------------------------------
(***************************************************************************)
(* What every announcer of the scheduler promises: each thing there is to  *)
(* say is said once, however many passes find it, as long as the note that *)
(* it was is not lost.  A thing may never be said: the note is written     *)
(* before the message goes, and the process may die in between.            *)
(***************************************************************************)
EXTENDS Naturals, Sequences

CONSTANT Things

VARIABLES said,  \* the things that were said, in order
          lost   \* the things whose note somebody has written over

TypeOK == said \in Seq(Things) /\ lost \subseteq Things

Init == said = <<>> /\ lost = {}

Say(x) ==
  /\ x \in lost \/ \A i \in DOMAIN said : said[i] # x
  /\ said' = Append(said, x) /\ UNCHANGED lost

Lose ==
  /\ lost' \in SUBSET Things /\ lost \subseteq lost'
  /\ UNCHANGED said

Next == Lose \/ \E x \in Things : Say(x)

Spec == Init /\ [][Next]_<<said, lost>>
=============================================================================
