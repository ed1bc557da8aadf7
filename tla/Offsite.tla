------------------------------ MODULE Offsite ------------------------------
(***************************************************************************)
(* The copies of archives on their way to the backup destination, and the  *)
(* retention there (core/offsite.py, core/offsite_queue.py).               *)
(*                                                                         *)
(* Archives are numbered in the order they were made, and the rows are one *)
(* per archive, for the destination that is chosen.  A sender reads what is*)
(* due, claims a row by its state, its attempts and a lease that is not    *)
(* live, uploads, saves the whole row from its copy, and then lists the    *)
(* destination and deletes what is beyond the newest few of those it finds *)
(* recorded as sent.  "Newest" is by the moment the attempt began.  What   *)
(* is asked of the destination may have been done though its answer says   *)
(* otherwise, or never comes.                                              *)
(***************************************************************************)
EXTENDS Naturals, FiniteSets

CONSTANTS MaxArchives,   \* bound: archives ever made
          Senders,       \* passes and workers that send
          MaxAttempts,   \* six in the code
          RemoteKeep,    \* how many are kept at the destination; 0 deletes none
          MaxAgain,      \* bound: times somebody presses Send again
          MaxMoments,    \* bound: moments told apart, the last of which may be several
          MaxCuts        \* bound: senders killed, and leases outlived

ASSUME Bounds == MaxArchives \in Nat /\ MaxAttempts \in Nat \ {0} /\ RemoteKeep \in Nat
                        /\ MaxAgain \in Nat /\ MaxMoments \in Nat /\ MaxCuts \in Nat

Archives == 1 .. MaxArchives
States == {"none", "pending", "failed", "sent", "removed"}
OffsiteRows == [state : States, attempts : 0 .. MaxAttempts, due : BOOLEAN,
                lease : BOOLEAN, sentAt : Nat]
NoRow == [state |-> "none", attempts |-> 0, due |-> FALSE, lease |-> FALSE, sentAt |-> 0]
Steps == {"idle", "read", "claimed", "sealed", "stored", "recorded", "listed", "chosen", "deleted"}
Sendings == [step : Steps, of : 0 .. MaxArchives, was : OffsiteRows, began : Nat,
             view : SUBSET Archives]
Resting == [step |-> "idle", of |-> 0, was |-> NoRow, began |-> 0, view |-> {}]

VARIABLES row,      \* the row of each archive
          send,     \* what each sender is at: its copy, and what it listed
          remote,   \* the archives that are at the destination
          installed, \* whether the destination that is chosen is installed
          arrived,  \* history: archives that reached the destination, until it was not heard
          twice,    \* history: archives that reached it again
          unsaid,   \* history: archives it deleted and did not say so
          cut,      \* history: archives whose sender was cut off, or outlasted its lease
          cuts,     \* senders cut off so far
          again     \* times Send was pressed so far

vars == <<row, send, remote, installed, arrived, twice, unsaid, cut, cuts, again>>

TypeOK ==
  /\ row \in [Archives -> OffsiteRows]
  /\ send \in [Senders -> Sendings]
  /\ remote \subseteq Archives /\ arrived \subseteq Archives
  /\ twice \subseteq Archives /\ unsaid \subseteq Archives /\ cut \subseteq Archives
  /\ installed \in BOOLEAN /\ cuts \in 0 .. MaxCuts /\ again \in 0 .. MaxAgain

Init ==
  /\ row = [a \in Archives |-> NoRow]
  /\ send = [s \in Senders |-> Resting]
  /\ remote = {} /\ installed = TRUE
  /\ arrived = {} /\ twice = {} /\ unsaid = {} /\ cut = {} /\ cuts = 0 /\ again = 0

Step(s, step) == send[s].step = step
Of(s) == send[s].of
At(s, a) == send[s].of = a /\ send[s].step \in {"claimed", "sealed", "stored"}
Waiting(a) == row[a].state \in {"pending", "failed"}

-----------------------------------------------------------------------------
(* enqueue, and send_again for one that was never queued: one row per archive
   and destination, whoever asks again. *)
Enqueue(a) ==
  /\ row[a].state = "none"
  /\ row' = [row EXCEPT ![a] = [NoRow EXCEPT !.state = "pending", !.due = TRUE]]
  /\ UNCHANGED <<send, remote, installed, arrived, twice, unsaid, cut, cuts, again>>

(* send_again, on a row that is neither sent nor removed: due, with its
   attempts given back, whoever holds it. *)
SendAgain(a) ==
  /\ Waiting(a) /\ again < MaxAgain
  /\ row' = [row EXCEPT ![a].attempts = 0, ![a].due = TRUE]
  /\ again' = again + 1
  /\ UNCHANGED <<send, remote, installed, arrived, twice, unsaid, cut, cuts>>

\* Mutation: the last attempt is never made.
ReadRow_OneFewer(s, a) ==
  /\ Step(s, "idle") /\ installed
  /\ Waiting(a) /\ row[a].attempts + 1 < MaxAttempts /\ row[a].due /\ ~row[a].lease
  /\ send' = [send EXCEPT ![s] = [Resting EXCEPT !.step = "read", !.of = a, !.was = row[a]]]
  /\ UNCHANGED <<row, remote, installed, arrived, twice, unsaid, cut, cuts, again>>

(* pending, while there is a destination, and the row as it was read. *)
ReadRow(s, a) ==
  /\ Step(s, "idle") /\ installed
  /\ Waiting(a) /\ row[a].attempts < MaxAttempts /\ row[a].due /\ ~row[a].lease
  /\ send' = [send EXCEPT ![s] = [Resting EXCEPT !.step = "read", !.of = a, !.was = row[a]]]
  /\ UNCHANGED <<row, remote, installed, arrived, twice, unsaid, cut, cuts, again>>

(* The clock: past every moment that is remembered, while it can tell them apart. *)
Later(now) ==
  \/ now = MaxMoments
  \/ (\A s \in Senders : send[s].began < now) /\ (\A a \in Archives : row[a].sentAt < now)
IsNow(now) == Later(now) /\ \A sooner \in 1 .. MaxMoments : Later(sooner) => now <= sooner

\* Mutation: the claim looks at the lease alone.
ClaimRow_ByLease(s) ==
  /\ Step(s, "read")
  /\ IF row[Of(s)].state \in {"pending", "failed", "sent"} /\ ~row[Of(s)].lease
     THEN /\ row' = [row EXCEPT ![Of(s)].lease = TRUE]
          /\ \E now \in 1 .. MaxMoments :
               IsNow(now) /\ send' = [send EXCEPT ![s].step = "claimed", ![s].began = now]
     ELSE /\ send' = [send EXCEPT ![s] = Resting]
          /\ UNCHANGED row
  /\ UNCHANGED <<remote, installed, arrived, twice, unsaid, cut, cuts, again>>

(* claim: as it was read, and held by no live lease; send_one notes when it
   begins. *)
ClaimRow(s) ==
  /\ Step(s, "read")
  /\ IF /\ row[Of(s)].state = send[s].was.state /\ row[Of(s)].attempts = send[s].was.attempts
        /\ ~row[Of(s)].lease
     THEN /\ row' = [row EXCEPT ![Of(s)].lease = TRUE]
          /\ \E now \in 1 .. MaxMoments :
               IsNow(now) /\ send' = [send EXCEPT ![s].step = "claimed", ![s].began = now]
     ELSE /\ send' = [send EXCEPT ![s] = Resting]
          /\ UNCHANGED row
  /\ UNCHANGED <<remote, installed, arrived, twice, unsaid, cut, cuts, again>>

(* send_one: the archive is found, still verifies, and is encrypted. *)
Seal(s) ==
  /\ Step(s, "claimed")
  /\ send' = [send EXCEPT ![s].step = "sealed"]
  /\ UNCHANGED <<row, remote, installed, arrived, twice, unsaid, cut, cuts, again>>

(* The destination has it. *)
Store(s) ==
  LET a == Of(s) IN
  /\ Step(s, "sealed")
  /\ send' = [send EXCEPT ![s].step = "stored"]
  /\ remote' = remote \cup {a} /\ arrived' = arrived \cup {a}
  /\ twice' = IF a \in arrived THEN twice \cup {a} ELSE twice
  /\ UNCHANGED <<row, installed, unsaid, cut, cuts, again>>

(* The attempt failed, before the destination, at it, or after it had the archive
   but did not say so, or not where: counted, and to be tried later; or, for what no
   retry can change, with all attempts spent. *)
Fail(s, final) ==
  LET a == Of(s)
      tries == IF final THEN MaxAttempts ELSE send[s].was.attempts + 1
  IN  /\ send[s].step \in {"claimed", "sealed", "stored"} /\ (final => Step(s, "claimed"))
      /\ arrived' = IF Step(s, "stored") THEN arrived \ {a} ELSE arrived
      /\ row' = [row EXCEPT ![a] = [send[s].was EXCEPT !.state = "failed", !.attempts = tries,
                                                       !.due = FALSE, !.lease = FALSE]]
      /\ send' = [send EXCEPT ![s] = Resting]
      /\ UNCHANGED <<remote, installed, twice, unsaid, cut, cuts, again>>

(* Or send_one raises: there is no room for the encrypted copy, or the archive breaks
   off where it is looked at.  Nothing is written, and the lease is left to run out. *)
Escapes(s) ==
  /\ Step(s, "claimed")
  /\ send' = [send EXCEPT ![s] = Resting]
  /\ UNCHANGED <<row, remote, installed, arrived, twice, unsaid, cut, cuts, again>>

(* Sent: the whole row from the copy, dated when the attempt began. *)
RecordSent(s) ==
  LET a == Of(s) IN
  /\ Step(s, "stored")
  /\ row' = [row EXCEPT ![a] = [send[s].was EXCEPT !.state = "sent", !.attempts = @ + 1,
                                  !.due = FALSE, !.lease = FALSE, !.sentAt = send[s].began]]
  /\ send' = [send EXCEPT ![s].step = "recorded"]
  /\ UNCHANGED <<remote, installed, arrived, twice, unsaid, cut, cuts, again>>

-----------------------------------------------------------------------------
(* apply_remote_retention: the destination is listed, ... *)
ListRemote(s) ==
  /\ Step(s, "recorded")
  /\ send' = [send EXCEPT ![s] =
                IF RemoteKeep = 0 THEN Resting ELSE [@ EXCEPT !.step = "listed", !.view = remote]]
  /\ UNCHANGED <<row, remote, installed, arrived, twice, unsaid, cut, cuts, again>>

Ours(view) == {a \in view : row[a].state = "sent"}
Newer(a, b) == row[a].sentAt > row[b].sentAt \/ (row[a].sentAt = row[b].sentAt /\ a > b)

\* Mutation: one too many is beyond the newest.
Beyond_OneMore(view, a) ==
  a \in Ours(view) /\ Cardinality({b \in Ours(view) : Newer(b, a)}) + 1 >= RemoteKeep

(* ... and what is recorded as sent among it ordered by when that began. *)
Beyond(view, a) ==
  a \in Ours(view) /\ Cardinality({b \in Ours(view) : Newer(b, a)}) >= RemoteKeep

(* The rows are read, once, and what is beyond is settled. *)
ChooseRemote(s) ==
  /\ Step(s, "listed")
  /\ send' = [send EXCEPT ![s] = [Resting EXCEPT !.step = "chosen",
                !.view = {a \in send[s].view : Beyond(send[s].view, a)}]]
  /\ UNCHANGED <<row, remote, installed, arrived, twice, unsaid, cut, cuts, again>>

(* One is deleted there, ... *)
DeleteRemote(s, a) ==
  /\ Step(s, "chosen") /\ a \in send[s].view
  /\ remote' = remote \ {a}
  /\ send' = [send EXCEPT ![s].step = "deleted", ![s].of = a, ![s].view = @ \ {a}]
  /\ UNCHANGED <<row, installed, arrived, twice, unsaid, cut, cuts, again>>

(* ... or refused there, or deleted and not heard of: logged, and the row stays. *)
DeleteRefused(s, a) ==
  /\ Step(s, "chosen") /\ a \in send[s].view
  /\ send' = [send EXCEPT ![s].view = @ \ {a}]
  /\ \/ UNCHANGED <<remote, unsaid>>
     \/ remote' = remote \ {a} /\ unsaid' = unsaid \cup {a}
  /\ UNCHANGED <<row, installed, arrived, twice, cut, cuts, again>>

\* Mutation: the row is left as it was.
NoteRemoved_Forgets(s) ==
  /\ Step(s, "deleted")
  /\ send' = [send EXCEPT ![s].step = "chosen", ![s].of = 0]
  /\ UNCHANGED <<row, remote, installed, arrived, twice, unsaid, cut, cuts, again>>

(* Its row says so, in an update by number. *)
NoteRemoved(s) ==
  /\ Step(s, "deleted")
  /\ row' = [row EXCEPT ![Of(s)].state = "removed"]
  /\ send' = [send EXCEPT ![s].step = "chosen", ![s].of = 0]
  /\ UNCHANGED <<remote, installed, arrived, twice, unsaid, cut, cuts, again>>

EndRemote(s) ==
  /\ Step(s, "chosen") /\ send[s].view = {}
  /\ send' = [send EXCEPT ![s] = Resting]
  /\ UNCHANGED <<row, remote, installed, arrived, twice, unsaid, cut, cuts, again>>

-----------------------------------------------------------------------------
(* The wait of a failed attempt is over; the lease of a claim nobody is at. *)
RetryComes(a) ==
  /\ row[a].state = "failed" /\ ~row[a].due /\ row[a].attempts < MaxAttempts
  /\ row' = [row EXCEPT ![a].due = TRUE]
  /\ UNCHANGED <<send, remote, installed, arrived, twice, unsaid, cut, cuts, again>>

LeaseRunsOut(a) ==
  /\ row[a].lease /\ \A s \in Senders : ~At(s, a)
  /\ row' = [row EXCEPT ![a].lease = FALSE]
  /\ UNCHANGED <<send, remote, installed, arrived, twice, unsaid, cut, cuts, again>>

(* A sender stopped past its deadline, which ends before its lease does. *)
LeaseOutlived(a) ==
  /\ row[a].lease /\ cuts < MaxCuts /\ \E s \in Senders : At(s, a)
  /\ row' = [row EXCEPT ![a].lease = FALSE]
  /\ cut' = cut \cup {a} /\ cuts' = cuts + 1
  /\ UNCHANGED <<send, remote, installed, arrived, twice, unsaid, again>>

KillSender(s) ==
  /\ ~Step(s, "idle") /\ cuts < MaxCuts
  /\ cut' = IF send[s].step \in {"stored", "deleted"} THEN cut \cup {Of(s)} ELSE cut
  /\ cuts' = cuts + 1
  /\ send' = [send EXCEPT ![s] = Resting]
  /\ UNCHANGED <<row, remote, installed, arrived, twice, unsaid, again>>

(* The plugin is taken away, or put back. *)
Installs ==
  /\ installed' = ~installed
  /\ UNCHANGED <<row, send, remote, arrived, twice, unsaid, cut, cuts, again>>

GoesOn(s) ==
  \/ ClaimRow(s) \/ Store(s) \/ RecordSent(s)
  \/ \E final \in BOOLEAN : Fail(s, final)
  \/ ListRemote(s) \/ ChooseRemote(s) \/ NoteRemoved(s) \/ EndRemote(s)
  \/ \E a \in Archives : DeleteRemote(s, a) \/ DeleteRefused(s, a)
Goes(s) == Seal(s) \/ GoesOn(s)

Next ==
  \/ \E a \in Archives : Enqueue(a) \/ SendAgain(a) \/ RetryComes(a) \/ LeaseRunsOut(a)
                         \/ LeaseOutlived(a)
  \/ \E s \in Senders, a \in Archives : ReadRow(s, a)
  \/ \E s \in Senders : Goes(s) \/ Escapes(s) \/ KillSender(s)
  \/ Installs

Spec == Init /\ [][Next]_vars

(* A pass looks for what is due after each round, a sender that has begun goes on
   or is killed, and waits and leases end. *)
Fairness ==
  /\ \A s \in Senders : /\ WF_vars(\E a \in Archives : ReadRow(s, a))
                        /\ WF_vars(Goes(s))
  /\ \A a \in Archives : WF_vars(RetryComes(a)) /\ WF_vars(LeaseRunsOut(a))

FairSpec == Spec /\ Fairness
-----------------------------------------------------------------------------
(* An archive is uploaded once, and once more for each time the destination had it
   and was not heard, unless its sender was cut off between the upload and the row,
   or outlasted its lease. *)
UploadedOnce == twice \subseteq cut

(* What the rows call sent is at the destination, but for the moment in which it
   is deleted there and its row does not say so yet, and unless a sender was cut
   off in that moment or outlasted its lease and wrote over the removal, or the
   destination deleted it and was not heard. *)
SentIsThere ==
  \A a \in Archives :
    row[a].state = "sent" =>
      a \in remote \cup cut \cup unsaid \/ \E s \in Senders : Step(s, "deleted") /\ Of(s) = a

(* Retention there follows confirmed sends and never takes the last: while it
   keeps any, once an archive is recorded as sent one of those that were stays,
   two retentions side by side included.  A sender that outlasted its lease may
   call it failed even so; and an archive uploaded twice is dated anew, so that
   each of two retentions may delete what the other one kept. *)
OneStaysThere ==
  (\E a \in Archives : row[a].state \in {"sent", "removed"}) =>
    twice # {} \/ \E a \in remote : row[a].state = "sent" \/ a \in cut

(* What local retention relies on: a copy waits until it has arrived, and what has
   arrived waits no more (module Shipments). *)
Rows == INSTANCE Shipments WITH state <- [a \in Archives |-> row[a].state]
KeepsWaiting == Rows!ShipmentsSpec

(* No archive waits for the destination for ever, once that is installed to stay and
   send_one raises no more: it arrives, or its attempts are spent, which the page
   says, whoever was killed while sending it. *)
StaysPut == <>[]installed /\ <>[][\A s \in Senders : ~Escapes(s)]_vars
WaitsNotForEver ==
  StaysPut => \A a \in Archives : <>[](Waiting(a) => row[a].attempts = MaxAttempts)
=============================================================================
