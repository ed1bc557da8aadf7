------------------------------- MODULE Vault -------------------------------
(***************************************************************************)
(* The archives of the instance together with their copies away from it:   *)
(* Backups, which knows of the copies only what Shipments promises, runs   *)
(* beside Offsite, which knows nothing of files.  They meet where an       *)
(* archive is queued (backups.queue_send, offsite.send_again) and where a  *)
(* sender opens the file it is to encrypt (offsite.send_one).              *)
(***************************************************************************)
EXTENDS Offsite

CONSTANTS Takers,    \* schedulers, workers and commands that take backups
          NoTaker,   \* not a taker
          Keep,      \* backup_keep: how many local retention keeps
          MaxSlots,  \* bound: slots of the schedule
          MaxMishaps \* bound: whatever is killed or outlived, and times Send is pressed

ASSUME VaultAssumption == NoTaker \notin Takers /\ Keep \in Nat /\ MaxSlots \in Nat
                          /\ MaxMishaps \in Nat

VARIABLES file, known, take, lock, slot, lastRun, deleting, asking, slots, overran, slipped,
          byHand, late, opened, crossed,   \* of Backups
          kills,                           \* takers killed, and locks outlived, so far
          asks                             \* times Send was pressed so far

local == <<file, known, take, lock, slot, lastRun, deleting, asking, slots, overran, slipped,
           byHand, late, opened, crossed>>
counts == <<kills, asks>>
vaultVars == <<vars, local, counts>>

(* Backups, over the rows as Offsite has them; of what its bound counts, Offsite
   has its share.  No form saves the settings meanwhile. *)
B == INSTANCE Backups WITH state <- [a \in Archives |-> row[a].state],
                           cuts <- kills + Cardinality(cut),
                           MaxCuts <- MaxMishaps,
                           Forms <- {},
                           form <- [f \in {} |-> [step |-> "no", run |-> 0]],
                           putBack <- [k \in 1 .. MaxSlots |-> 0]

VaultInit == Init /\ kills = 0 /\ asks = 0 /\ B!Init

-----------------------------------------------------------------------------
Mishaps == kills + cuts + asks

(* What the takers, and an administrator's deletions, do among the files. *)
AmongFiles ==
  /\ B!TakeStep /\ UNCHANGED <<vars, kills>>
  /\ asks' = IF asking' = asking THEN asks ELSE asks + 1
  /\ Mishaps' <= MaxMishaps

TakerDies ==
  /\ kills' = kills + 1 /\ UNCHANGED <<vars, asks>> /\ Mishaps' <= MaxMishaps
  /\ \E t \in Takers : B!KillTaker(t)

LockEnds ==
  /\ kills' \in {kills, kills + 1} /\ UNCHANGED <<vars, asks>> /\ Mishaps' <= MaxMishaps
  /\ B!LockRunsOut

(* queue_send: enqueue, if there is somewhere to send it, and no row. *)
QueueArchive(t, made) ==
  /\ \E a \in Archives :
       /\ B!TakerAt(t, "queueing") /\ a = take[t].of
       /\ IF made /\ row[a].state = "none" THEN Enqueue(a) ELSE UNCHANGED vars
  /\ UNCHANGED counts
  /\ B!Queue(t, made)

(* send_again, for an archive that was found here: without a row, or with one, which
   is made due unless it was sent. *)
SendUnqueued(a) == Enqueue(a) /\ UNCHANGED counts /\ B!SendFirst(a)
SendQueued(a) ==
  /\ IF Waiting(a) THEN SendAgain(a) ELSE UNCHANGED vars
  /\ UNCHANGED counts /\ B!SendNextTime(a)

\* Mutation: what is encrypted has not been looked at.
SealArchive_Unverified(s) == Seal(s) /\ B!There(Of(s)) /\ UNCHANGED <<local, counts>>

(* send_one: the archive is found and verifies, and is encrypted. *)
SealArchive(s) == Seal(s) /\ file[Of(s)] = "good" /\ UNCHANGED <<local, counts>>

(* The rest of sending looks at no file; the destination stays installed, which only
   lets a sender begin. *)
AmongCopies ==
  /\ \/ \E a \in Archives : RetryComes(a) \/ LeaseRunsOut(a) \/ LeaseOutlived(a)
     \/ \E s \in Senders, a \in Archives : ReadRow(s, a)
     \/ \E s \in Senders : GoesOn(s) \/ Escapes(s) \/ KillSender(s)
  /\ UNCHANGED <<local, counts>> /\ Mishaps' <= MaxMishaps

VaultNext ==
  \/ AmongFiles \/ TakerDies \/ LockEnds
  \/ \E t \in Takers, made \in BOOLEAN : QueueArchive(t, made)
  \/ \E a \in Archives : SendUnqueued(a) \/ SendQueued(a)
  \/ \E s \in Senders : SealArchive(s)
  \/ AmongCopies

VaultSpec == VaultInit /\ [][VaultNext]_vaultVars
-----------------------------------------------------------------------------
(* What Backups takes for granted of the copies, Offsite does beside it: what it
   makes of Shipments alone holds of the two. *)
KeepsBackups == B!Spec

(* An archive that was ever queued is kept somewhere: here while it waits, at the
   destination once it is sent, until the retention there removes it.  But for
   one that somebody deleted here, that was queued when the retention here had
   settled on it or deleted it, whose sender was cut off or outlasted its lease, or
   that the retention there deleted and was not told so. *)
QueuedIsKept ==
  \A a \in Archives \ (byHand \cup late \cup cut \cup unsaid) :
    \/ row[a].state \in {"none", "removed"}
    \/ B!There(a)
    \/ a \in remote
    \/ \E s \in Senders : Step(s, "deleted") /\ Of(s) = a
=============================================================================
