---------------------------- MODULE StatusHistory ----------------------------
(***************************************************************************)
(* What the timeline of an application promises, with nothing said about   *)
(* who moves it or what they had read: the application stands somewhere,   *)
(* and the only way to stand elsewhere is to append an entry that says     *)
(* truly where it came from.  An entry from a status to itself is a reason *)
(* learnt afterwards, and only an ending has one.                          *)
(***************************************************************************)
EXTENDS Naturals, Sequences

CONSTANTS Statuses,   \* where an application may stand
          Endings     \* the statuses a reason may be given for afterwards

VARIABLES standing,   \* where it stands now
          history     \* the entries, each a record of where from and where to

hvars == <<standing, history>>

Entry(from, to) == [from |-> from, to |-> to]

(* The moves made as the application is recorded, before anybody reads it. *)
Init == /\ standing \in Statuses
        /\ history = <<>> \/ \E s \in Statuses : history = <<Entry(s, standing)>>

Move(s) == /\ s # standing
           /\ history' = Append(history, Entry(standing, s))
           /\ standing' = s

SayWhy == /\ standing \in Endings
          /\ history' = Append(history, Entry(standing, standing))
          /\ UNCHANGED standing

Next == SayWhy \/ \E s \in Statuses : Move(s)

Spec == Init /\ [][Next]_hvars
=============================================================================
