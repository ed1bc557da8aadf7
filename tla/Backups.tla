------------------------------ MODULE Backups ------------------------------
(***************************************************************************)
(* Archives of the whole instance (core/backups.py, core/backup.py, the    *)
(* command backup, core/views_backups.py), and the rows of their copies as *)
(* module Shipments promises them, which module Offsite implements.        *)
(*                                                                         *)
(* Archives are taken by schedulers whose slot has come, by the errand an  *)
(* administrator sends, and by the command, which takes no lock.  The lock *)
(* is a key of the cache with a deadline.  An archive is written under the *)
(* name it keeps, so the listing shows it half written.  After a scheduled *)
(* one the oldest are deleted, but for those the destination waits for; an *)
(* administrator deletes any, after a look that nothing holds on to.  The  *)
(* moment of the last slot is a column of the settings row, which a form   *)
(* saves whole from the copy it loaded.                                    *)
(*                                                                         *)
(* Uploaded archives are left out, the cache forgets no verdict, and no    *)
(* two archives are named in the same second.                              *)
(***************************************************************************)
EXTENDS Naturals, FiniteSets, Shipments

CONSTANTS Takers,    \* schedulers, workers and commands that take backups
          NoTaker,   \* not a taker
          Forms,     \* requests that save the settings, each once
          Keep,      \* backup_keep: how many local retention keeps
          MaxSlots,  \* bound: slots of the schedule
          MaxCuts    \* bound: takers killed, locks and leases outlived

ASSUME TakerAssumption == NoTaker \notin Takers
ASSUME ArchiveAssumption == Archives \subseteq Nat \ {0} /\ IsFiniteSet(Archives)
ASSUME KeepAssumption == Keep \in Nat /\ MaxSlots \in Nat /\ MaxCuts \in Nat

VARIABLES cuts,      \* cut off so far
          file,      \* each archive in the directory
          known,     \* what its last verification said, as the cache remembers it
          take,      \* what each taker is at
          lock,      \* whose token the lock holds
          slot,      \* the schedule's last slot
          lastRun,   \* backup_last_run_at, as the slot it fell in
          form,      \* what each request that saves the settings has loaded
          deleting,  \* archives an administrator's request has found deletable
          asking,    \* archives an administrator's request to send has found here
          slots,     \* history: how often each slot was claimed
          putBack,   \* history: how often lastRun was put back to before it
          overran,   \* history: takers whose lock ran out under them
          slipped,   \* history: ... between the look at it and the delete
          byHand,    \* history: archives an administrator deleted
          late,      \* history: archives queued when retention had settled on them or deleted them
          opened,    \* history: some archive was known to open
          crossed    \* history: a deletion was decided beside another one, or before what it
                     \* deletes was whole

files == <<file, known>>
settings == <<form, putBack>>
clock == <<slot, lastRun, slots, settings>>
locks == <<lock, overran, slipped>>
requests == <<deleting, asking>>
histories == <<byHand, late, crossed, opened>>
localVars == <<files, take, clock, locks, requests, histories>>
vars == <<state, cut, cuts, localVars>>

TakeSteps == {"idle", "due", "turn", "dumping", "writing", "written", "queueing", "ended",
              "looked", "retaining", "listed", "deleting"}
Takings == [step : TakeSteps, kind : {"slot", "asked", "command"}, of : Archives \cup {0},
            was : 0 .. MaxSlots, view : SUBSET Archives]
Off == [step |-> "idle", kind |-> "asked", of |-> 0, was |-> 0, view |-> {}]

TypeOK ==
  /\ ShipmentsTypeOK /\ cuts \in 0 .. MaxCuts
  /\ file \in [Archives -> {"none", "part", "good", "gone"}]
  /\ known \in [Archives -> {"", "ok", "failed"}]
  /\ take \in [Takers -> Takings]
  /\ lock \in Takers \cup {NoTaker}
  /\ slot \in 0 .. MaxSlots /\ lastRun \in 0 .. slot
  /\ form \in [Forms -> [step : {"no", "loaded", "saved"}, run : 0 .. slot]]
  /\ deleting \subseteq Archives /\ asking \subseteq Archives
  /\ byHand \subseteq Archives /\ late \subseteq Archives
  /\ slots \in [1 .. MaxSlots -> Nat] /\ putBack \in [1 .. MaxSlots -> Nat]
  /\ overran \subseteq Takers /\ slipped \in BOOLEAN /\ crossed \in BOOLEAN
  /\ opened \in BOOLEAN

Init ==
  /\ ShipmentsInit /\ cuts = 0
  /\ file = [a \in Archives |-> "none"] /\ known = [a \in Archives |-> ""]
  /\ take = [t \in Takers |-> Off]
  /\ lock = NoTaker /\ slot = 0 /\ lastRun = 0
  /\ form = [f \in Forms |-> [step |-> "no", run |-> 0]]
  /\ deleting = {} /\ asking = {}
  /\ slots = [k \in 1 .. MaxSlots |-> 0] /\ putBack = [k \in 1 .. MaxSlots |-> 0]
  /\ overran = {} /\ slipped = FALSE /\ byHand = {} /\ late = {}
  /\ crossed = FALSE /\ opened = FALSE

UnderLock(t) == /\ take[t].step \in {"dumping", "writing", "written", "queueing", "ended", "looked"}
                /\ take[t].kind # "command"
TakerAt(t, step) == take[t].step = step
There(a) == file[a] \in {"part", "good"}
Retaining(t) == take[t].step \in {"listed", "deleting"} /\ take[t].view # {}
Trusted(a) == file[a] = "good" /\ known[a] = "ok"

(* The next number: archives are named by the second they are made in. *)
Fresh(a) == file[a] = "none" /\ \A b \in Archives : b < a => file[b] # "none"

-----------------------------------------------------------------------------
(* start_if_due: the slot that has come is seen to be owed, ... *)
ReadSlot(t) ==
  /\ TakerAt(t, "idle") /\ lastRun < slot
  /\ take' = [take EXCEPT ![t] = [Off EXCEPT !.step = "due", !.kind = "slot", !.was = lastRun]]
  /\ UNCHANGED <<files, locks, clock, requests, histories>>

\* Mutation: the row is updated whatever it says by now.
ClaimSlot_Blindly(t) ==
  /\ TakerAt(t, "due")
  /\ lastRun' = slot /\ slots' = [slots EXCEPT ![slot] = @ + 1]
  /\ take' = [take EXCEPT ![t].step = "turn"]
  /\ UNCHANGED <<files, locks, slot, settings, requests, histories>>

(* claim: ... and is this scheduler's if the row is as it was read. *)
ClaimSlot(t) ==
  /\ TakerAt(t, "due")
  /\ IF lastRun = take[t].was
     THEN /\ lastRun' = slot /\ slots' = [slots EXCEPT ![slot] = @ + 1]
          /\ take' = [take EXCEPT ![t].step = "turn"]
     ELSE /\ take' = [take EXCEPT ![t] = Off]
          /\ UNCHANGED <<lastRun, slots>>
  /\ UNCHANGED <<files, locks, slot, settings, requests, histories>>

(* A form that saves the settings loads the row without a lock, ... *)
LoadSettings(f) ==
  /\ form[f].step = "no"
  /\ form' = [form EXCEPT ![f] = [step |-> "loaded", run |-> lastRun]]
  /\ UNCHANGED <<files, take, locks, slot, lastRun, slots, putBack, requests, histories>>

(* ... and saves all of it from its copy: what lastRun was, or now, for a form that
   has changed the schedule. *)
SaveSettings(f) ==
  /\ form[f].step = "loaded"
  /\ lastRun' \in {form[f].run, slot}
  /\ putBack' = [k \in 1 .. MaxSlots |->
                   IF lastRun' < k /\ k <= lastRun THEN putBack[k] + 1 ELSE putBack[k]]
  /\ form' = [form EXCEPT ![f].step = "saved"]
  /\ UNCHANGED <<files, take, locks, slot, slots, requests, histories>>

(* take, by the scheduler whose slot it is, or by an errand: the lock is added. *)
Take(t) ==
  /\ TakerAt(t, "idle") \/ TakerAt(t, "turn")
  /\ lock = NoTaker /\ lock' = t
  /\ take' = [take EXCEPT ![t] = [Off EXCEPT !.step = "dumping",
                      !.kind = IF TakerAt(t, "turn") THEN "slot" ELSE "asked"]]
  /\ overran' = overran \ {t}
  /\ UNCHANGED <<files, clock, requests, slipped, histories>>

(* Busy. *)
Turned(t) ==
  /\ TakerAt(t, "turn") /\ lock # NoTaker
  /\ take' = [take EXCEPT ![t] = Off]
  /\ UNCHANGED <<files, locks, clock, requests, histories>>

(* The command takes no lock. *)
Command(t) ==
  /\ TakerAt(t, "idle")
  /\ take' = [take EXCEPT ![t] = [Off EXCEPT !.step = "dumping", !.kind = "command"]]
  /\ UNCHANGED <<files, locks, clock, requests, histories>>

(* write_backup has dumped the database, and opens the archive under its name. *)
Begin(t, a) ==
  /\ TakerAt(t, "dumping")
  /\ Fresh(a) /\ file' = [file EXCEPT ![a] = "part"]
  /\ take' = [take EXCEPT ![t].step = "writing", ![t].of = a]
  /\ UNCHANGED <<known, locks, clock, requests, histories>>

(* write_backup returns: the archive is whole, has been opened, and is remembered
   as one that opens; or the command was asked to leave it at the first two. *)
Written(t, plain) ==
  LET a == take[t].of IN
  /\ TakerAt(t, "writing") /\ There(a)
  /\ plain => take[t].kind = "command"
  /\ file' = [file EXCEPT ![a] = "good"]
  /\ known' = [known EXCEPT ![a] = IF plain THEN "" ELSE "ok"]
  /\ take' = [take EXCEPT ![t] = IF plain THEN Off ELSE [@ EXCEPT !.step = "written"]]
  /\ opened' = (opened \/ ~plain)
  /\ crossed' = (crossed \/ a \in deleting)
  /\ UNCHANGED <<locks, clock, requests, byHand, late>>

After(t) == IF take[t].kind = "command" THEN Off ELSE [take[t] EXCEPT !.step = "ended"]

(* It raises: what there is of the file is left in place. *)
WriteRaises(t) ==
  /\ take[t].step \in {"dumping", "writing"}
  /\ take' = [take EXCEPT ![t] = [After(t) EXCEPT !.of = 0]]
  /\ UNCHANGED <<files, locks, clock, requests, histories>>

(* queue_send: the archive is looked for, ... *)
FindToQueue(t) ==
  /\ TakerAt(t, "written")
  /\ take' = [take EXCEPT ![t] = IF There(@.of) THEN [@ EXCEPT !.step = "queueing"] ELSE After(t)]
  /\ UNCHANGED <<files, locks, clock, requests, histories>>

(* Those a retention has settled on, and those of which there is nothing left. *)
Settled == {a \in Archives : ~There(a) \/ \E t \in Takers : a \in take[t].view}

(* ... and given a row, unless it has one; none where no destination is chosen or
   the row could not be written, which raises nothing. *)
Queue(t, made) ==
  LET a == take[t].of IN
  /\ TakerAt(t, "queueing")
  /\ IF made /\ state[a] = "none" THEN Queued(a) ELSE UNCHANGED <<state, cut>>
  /\ late' = IF made /\ a \in Settled THEN late \cup {a} ELSE late
  /\ take' = [take EXCEPT ![t] = After(t)]
  /\ UNCHANGED <<cuts, files, locks, clock, requests, byHand, crossed, opened>>

-----------------------------------------------------------------------------
Leave(t) == IF take[t].kind = "slot" /\ take[t].of # 0
            THEN [take[t] EXCEPT !.step = "retaining"] ELSE Off

\* Mutation: the lock is not looked at before it is deleted.
LookAtLock_Blindly(t) ==
  /\ TakerAt(t, "ended")
  /\ take' = [take EXCEPT ![t].step = "looked"]
  /\ UNCHANGED <<files, locks, clock, requests, histories>>

(* The finally of take: the lock is looked at, ... *)
LookAtLock(t) ==
  /\ TakerAt(t, "ended")
  /\ take' = [take EXCEPT ![t] = IF lock = t THEN [@ EXCEPT !.step = "looked"] ELSE Leave(t)]
  /\ UNCHANGED <<files, locks, clock, requests, histories>>

(* ... and deleted, whoever holds it by now. *)
Unlock(t) ==
  /\ TakerAt(t, "looked")
  /\ lock' = NoTaker
  /\ take' = [take EXCEPT ![t] = Leave(t)]
  /\ UNCHANGED <<files, clock, requests, overran, slipped, histories>>

(* apply_retention: the directory is listed and what is beyond the newest few
   is set apart, ... *)
Newest == {a \in Archives : There(a) /\ Cardinality({b \in Archives : There(b) /\ b > a})
                                          < IF Keep = 0 THEN 1 ELSE Keep}

ListLocal(t) ==
  /\ TakerAt(t, "retaining")
  /\ take' = [take EXCEPT ![t].step = "listed",
                          ![t].view = {a \in Archives : There(a)} \ Newest]
  /\ crossed' = (crossed \/ deleting # {} \/ ~\E a \in Newest : Trusted(a))
  /\ UNCHANGED <<files, locks, clock, requests, byHand, late, opened>>

\* Mutation: a failed send holds nothing back.
HeldBack_OnlyPending(t) ==
  /\ TakerAt(t, "listed")
  /\ take' = [take EXCEPT ![t].step = "deleting",
                          ![t].view = {a \in @ : state[a] # "pending"}]
  /\ UNCHANGED <<files, locks, clock, requests, histories>>

(* ... those the destination waits for, pending or failed, are left out, ... *)
HeldBack(t) ==
  /\ TakerAt(t, "listed")
  /\ take' = [take EXCEPT ![t].step = "deleting", ![t].view = {a \in @ : ~Waits(a)}]
  /\ UNCHANGED <<files, locks, clock, requests, histories>>

(* ... and the rest deleted, one after another. *)
DeleteLocal(t, a) ==
  /\ TakerAt(t, "deleting") /\ a \in take[t].view
  /\ file' = [file EXCEPT ![a] = "gone"] /\ known' = [known EXCEPT ![a] = ""]
  /\ take' = [take EXCEPT ![t].view = @ \ {a}]
  /\ UNCHANGED <<locks, clock, requests, histories>>

EndLocal(t) ==
  /\ TakerAt(t, "deleting") /\ take[t].view = {}
  /\ take' = [take EXCEPT ![t] = Off]
  /\ UNCHANGED <<files, locks, clock, requests, histories>>

-----------------------------------------------------------------------------
(* Check: the archive is opened, and the answer remembered; an archive that breaks
   off may raise what nothing catches, and then nothing is. *)
Verify(a) ==
  /\ There(a)
  /\ \E says \in IF file[a] = "good" THEN {"ok"} ELSE {"failed", known[a]} :
       known' = [known EXCEPT ![a] = says]
  /\ opened' = (opened \/ file[a] = "good")
  /\ UNCHANGED <<file, take, locks, clock, requests, byHand, late, crossed>>

\* Mutation: the archive itself counts as another.
Blocked_Itself(a) == known[a] # "failed" /\ ~\E b \in Archives : There(b) /\ known[b] = "ok"

(* delete_blocked, for one whose manifest can be read. *)
Blocked(a) ==
  known[a] # "failed" /\ ~\E b \in Archives \ {a} : There(b) /\ known[b] = "ok"

(* Delete: nothing blocks it, or its manifest cannot be read, ... *)
AskDelete(a) ==
  /\ There(a) /\ a \notin deleting
  /\ ~Blocked(a) \/ file[a] = "part"
  /\ deleting' = deleting \cup {a}
  /\ crossed' = (crossed \/ deleting # {} \/ \E t \in Takers : Retaining(t))
  /\ UNCHANGED <<files, take, locks, clock, asking, byHand, late, opened>>

(* ... and then it is deleted, whatever there is by now. *)
Unlink(a) ==
  /\ a \in deleting
  /\ file' = [file EXCEPT ![a] = "gone"] /\ known' = [known EXCEPT ![a] = ""]
  /\ deleting' = deleting \ {a}
  /\ byHand' = IF There(a) THEN byHand \cup {a} ELSE byHand
  /\ UNCHANGED <<take, locks, clock, asking, late, crossed, opened>>

(* send_again: the archive is looked for, ... *)
AskSend(a) ==
  /\ There(a) /\ asking' = asking \cup {a}
  /\ UNCHANGED <<files, take, locks, clock, deleting, histories>>

-----------------------------------------------------------------------------
SlotComes ==
  /\ slot < MaxSlots /\ slot' = slot + 1
  /\ UNCHANGED <<files, take, locks, lastRun, requests, slots, settings, histories>>

(* The lock runs out: nobody is at it, or a backup outlasts it. *)
LockRunsOut ==
  /\ lock # NoTaker /\ lock' = NoTaker
  /\ LET held == UnderLock(lock)
     IN  /\ held => cuts < MaxCuts
         /\ cuts' = IF held THEN cuts + 1 ELSE cuts
         /\ overran' = IF held THEN overran \cup {lock} ELSE overran
         /\ slipped' = (slipped \/ take[lock].step = "looked")
  /\ UNCHANGED <<state, cut, files, take, clock, requests, histories>>

KillTaker(t) ==
  /\ ~TakerAt(t, "idle") /\ cuts < MaxCuts /\ cuts' = cuts + 1
  /\ take' = [take EXCEPT ![t] = Off]
  /\ UNCHANGED <<state, cut, files, locks, clock, requests, histories>>

(* What becomes of a row meanwhile; only what was whole when it was encrypted, and
   may have gone since, arrives. *)
Ship(a) ==
  \/ Fails(a) /\ UNCHANGED cuts
  \/ Arrives(a) /\ file[a] # "part" /\ UNCHANGED cuts
  \/ Removes(a) /\ UNCHANGED cuts
  \/ IsCut(a) /\ a \notin cut /\ cuts < MaxCuts /\ cuts' = cuts + 1
  \/ Returns(a) /\ UNCHANGED cuts

(* send_again: ... and one without a row is given one, whatever there is by now. *)
SendFirst(a) ==
  /\ a \in asking /\ Queued(a) /\ asking' = asking \ {a}
  /\ late' = IF a \in Settled THEN late \cup {a} ELSE late
  /\ UNCHANGED <<cuts, files, take, locks, clock, deleting, byHand, crossed, opened>>

(* ... and one that has a row by then is made due, at most. *)
SendNextTime(a) ==
  /\ a \in asking /\ state[a] # "none" /\ asking' = asking \ {a}
  /\ UNCHANGED <<state, cut, cuts, files, take, locks, clock, deleting, histories>>

TakeStep ==
  \/ SlotComes
  \/ \E t \in Takers :
       \/ ReadSlot(t) \/ ClaimSlot(t) \/ Take(t) \/ Turned(t) \/ Command(t) \/ WriteRaises(t)
       \/ FindToQueue(t) \/ LookAtLock(t) \/ Unlock(t) \/ ListLocal(t) \/ HeldBack(t) \/ EndLocal(t)
       \/ \E plain \in BOOLEAN : Written(t, plain)
       \/ \E a \in Archives : Begin(t, a) \/ DeleteLocal(t, a)
  \/ \E f \in Forms : LoadSettings(f) \/ SaveSettings(f)
  \/ \E a \in Archives : Verify(a) \/ AskDelete(a) \/ Unlink(a) \/ AskSend(a)

Next ==
  \/ TakeStep /\ UNCHANGED <<state, cut, cuts>>
  \/ (\E a \in Archives : Ship(a)) /\ UNCHANGED localVars
  \/ \E t \in Takers : KillTaker(t) \/ \E made \in BOOLEAN : Queue(t, made)
  \/ \E a \in Archives : SendFirst(a) \/ SendNextTime(a)
  \/ LockRunsOut

Spec == Init /\ [][Next]_vars
-----------------------------------------------------------------------------
(* A slot of the schedule is taken by one scheduler, however many go round; once
   more for each time a form of the settings put back what it had loaded before. *)
SlotOnce == \A k \in 1 .. MaxSlots : slots[k] <= 1 + putBack[k]

(* Two backups that asked for the lock are not under way at once, unless one has
   outlasted the lock; that it ran out between the look and the delete is the one
   way a third can lose it. *)
OneAtATime ==
  \A t, u \in Takers :
    UnderLock(t) /\ UnderLock(u) /\ t # u => slipped \/ t \in overran \/ u \in overran

(* What the destination waits for is not rotated away: the archive is here, unless
   somebody deleted it, it was queued when retention had settled on it or deleted
   it, or a sender that outlasted its lease put the row back. *)
WaitingIsKept ==
  \A a \in Archives : Waits(a) => There(a) \/ a \in byHand \cup late \cup cut

(* Once an archive is known to open there always is one, unless two deletions were
   decided side by side, one was by a retention whose newest few did not open, or
   one was of an archive still being written. *)
LastGoodStays == opened /\ ~crossed => \E a \in Archives : Trusted(a)
=============================================================================
