---------------------------- MODULE VaultProofs ----------------------------
(***************************************************************************)
(* Vault, for any number of archives, takers, senders, attempts and        *)
(* mishaps: run beside each other, Backups is still Backups and Offsite is *)
(* still Offsite, so that what is proved of each, with the other reduced to*)
(* what it promises, holds of the two; and an archive that was ever queued *)
(* is kept somewhere.                                                      *)
(***************************************************************************)
EXTENDS Vault, OffsiteProofs

(* The theorems about Backups, over the rows of Offsite. *)
BP == INSTANCE BackupsProofs WITH state <- [a \in Archives |-> row[a].state],
                                  cuts <- kills + Cardinality(cut),
                                  MaxCuts <- MaxMishaps,
                                  Forms <- {},
                                  form <- [f \in {} |-> [step |-> "no", run |-> 0]],
                                  putBack <- [k \in 1 .. MaxSlots |-> 0]

LEMMA ArchivesAsNamed == Archives \subseteq Nat \ {0} /\ IsFiniteSet(Archives)
<1>1. IsFiniteSet(Archives)
  BY FS_Interval, Bounds DEF Archives
<1> QED BY <1>1, Bounds DEF Archives

-----------------------------------------------------------------------------
(* Beside the takers, senders do what Offsite says, and nothing else does. *)
LEMMA NextOffsite == VaultNext => [Next]_vars
<1>1. ASSUME NEW t \in Takers, NEW made \in BOOLEAN, QueueArchive(t, made)
      PROVE  (\E a \in Archives : Enqueue(a)) \/ UNCHANGED vars
  BY <1>1 DEF QueueArchive
<1>2. AmongFiles \/ TakerDies \/ LockEnds => UNCHANGED vars
  BY DEF AmongFiles, TakerDies, LockEnds
<1>3. AmongCopies \/ (\E s \in Senders : SealArchive(s)) => Next
  BY DEF AmongCopies, SealArchive, Next, Goes
<1>4. (\E a \in Archives : SendUnqueued(a) \/ SendQueued(a)) => Next \/ UNCHANGED vars
  BY DEF SendUnqueued, SendQueued, Next
<1> QED BY <1>1, <1>2, <1>3, <1>4 DEF VaultNext, Next

(* What a sender has sealed was whole, and may have gone since. *)
Turns == {"none", "part", "good", "gone"}
FileOK == file \in [Archives -> Turns]
Whole == \A s \in Senders : send[s].step \in {"sealed", "stored"} => file[Of(s)] \in {"good", "gone"}

(* Every archive that is cut took a mishap of its own. *)
Counted == IsFiniteSet(cut) /\ Cardinality(cut) <= cuts /\ kills \in Nat /\ asks \in Nat

Beside == Ordered /\ FileOK /\ Whole /\ Counted

LEMMA InitBeside == VaultInit => Beside
<1> SUFFICES ASSUME VaultInit PROVE Beside
  OBVIOUS
<1>1. Ordered
  BY InitOrdered DEF VaultInit
<1>2. FileOK
  BY DEF VaultInit, B!Init, FileOK, Turns
<1>3. Whole
  BY DEF VaultInit, Init, Resting, Whole
<1>4. Counted
  BY FS_EmptySet DEF VaultInit, Init, Counted
<1> QED BY <1>1, <1>2, <1>3, <1>4 DEF Beside

(* An archive that is whole, or gone, is whole or gone for good. *)
LEMMA FileMoves ==
  ASSUME FileOK, VaultNext
  PROVE  /\ FileOK'
         /\ \A a \in Archives : file[a] \in {"good", "gone"} => file'[a] \in {"good", "gone"}
<1>1. CASE UNCHANGED file
  BY <1>1 DEF FileOK
<1>2. ASSUME NEW x, NEW to \in {"good", "gone"}, file' = [file EXCEPT ![x] = to]
      PROVE  FileOK' /\ \A a \in Archives : file[a] \in {"good", "gone"} => file'[a] \in {"good", "gone"}
  BY <1>2 DEF FileOK, Turns
<1>3. ASSUME NEW t \in Takers, NEW a \in Archives, B!Begin(t, a)
      PROVE  FileOK' /\ \A b \in Archives : file[b] \in {"good", "gone"} => file'[b] \in {"good", "gone"}
  BY <1>3 DEF FileOK, Turns, B!Begin, B!Fresh
<1>4. ASSUME NEW t \in Takers, NEW plain \in BOOLEAN, B!Written(t, plain)
      PROVE  file' = [file EXCEPT ![take[t].of] = "good"]
  BY <1>4 DEF B!Written
<1>5. ASSUME NEW a \in Archives, B!Unlink(a) \/ \E t \in Takers : B!DeleteLocal(t, a)
      PROVE  file' = [file EXCEPT ![a] = "gone"]
  BY <1>5 DEF B!Unlink, B!DeleteLocal
<1>6. ASSUME NEW t \in Takers,
             \/ B!ReadSlot(t) \/ B!ClaimSlot(t) \/ B!Take(t) \/ B!Turned(t) \/ B!Command(t)
             \/ B!WriteRaises(t) \/ B!LookAtLock(t) \/ B!Unlock(t) \/ B!ListLocal(t)
             \/ B!HeldBack(t) \/ B!EndLocal(t) \/ B!FindToQueue(t)
      PROVE  UNCHANGED file
  BY <1>6 DEF B!ReadSlot, B!ClaimSlot, B!Take, B!Turned, B!Command, B!WriteRaises, B!LookAtLock,
              B!Unlock, B!ListLocal, B!HeldBack, B!EndLocal, B!FindToQueue, B!files
<1>7. B!SlotComes \/ (\E a \in Archives : B!Verify(a) \/ B!AskDelete(a) \/ B!AskSend(a))
        => UNCHANGED file
  BY DEF B!SlotComes, B!Verify, B!AskDelete, B!AskSend, B!files
<1>8. CASE AmongFiles
  <2>1. ASSUME NEW x, NEW to \in {"good", "gone"}, file' = [file EXCEPT ![x] = to]
        PROVE  FileOK' /\ \A a \in Archives : file[a] \in {"good", "gone"} => file'[a] \in {"good", "gone"}
    BY <1>2, <2>1
  <2> QED BY <1>1, <1>3, <1>4, <1>5, <1>6, <1>7, <1>8, <2>1 DEF AmongFiles, B!TakeStep
<1>9. CASE ~AmongFiles
  <2>1. TakerDies \/ LockEnds => UNCHANGED file
    BY DEF TakerDies, LockEnds, B!KillTaker, B!LockRunsOut, B!files
  <2>2. (\E t \in Takers, made \in BOOLEAN : QueueArchive(t, made)) => UNCHANGED file
    BY DEF QueueArchive, B!Queue, B!files
  <2>3. (\E a \in Archives : SendUnqueued(a) \/ SendQueued(a)) => UNCHANGED file
    BY DEF SendUnqueued, SendQueued, B!SendFirst, B!SendNextTime, B!files
  <2>4. (\E s \in Senders : SealArchive(s)) \/ AmongCopies => UNCHANGED file
    BY DEF SealArchive, AmongCopies, local
  <2> QED BY <1>1, <1>9, <2>1, <2>2, <2>3, <2>4 DEF VaultNext
<1> QED BY <1>8, <1>9

(* All that happens to copies but for the sealing. *)
NoneSealed ==
  \/ \E a \in Archives : \/ Enqueue(a) \/ SendAgain(a) \/ RetryComes(a) \/ LeaseRunsOut(a)
                         \/ LeaseOutlived(a)
  \/ \E s \in Senders, a \in Archives : ReadRow(s, a)
  \/ \E s \in Senders : GoesOn(s) \/ Escapes(s) \/ KillSender(s)
  \/ UNCHANGED vars

(* What a sender has sealed after it, it had sealed before. *)
LEMMA SealedBefore ==
  ASSUME Typed, NoneSealed, NEW t \in Senders, send'[t].step \in {"sealed", "stored"}
  PROVE  /\ send'[t].of = send[t].of /\ Of(t) \in Archives
         /\ send[t].step \in {"sealed", "stored"}
<1>1. /\ send \in [Senders -> Sendings] /\ send[t] \in Sendings
      /\ send[t].step \in Begun => Of(t) \in Archives
      /\ Resting.step = "idle"
  BY DEF Typed, TypeOK, Spare, Resting
<1>2. CASE send'[t] = send[t]
  BY <1>1, <1>2 DEF Begun
<1>3. CASE send'[t] # send[t]
  <2>1. ASSUME NEW s \in Senders, s # t,
               GoesOn(s) \/ Escapes(s) \/ KillSender(s) \/ \E a \in Archives : ReadRow(s, a)
        PROVE  send'[t] = send[t]
    BY <1>1, <2>1 DEF GoesOn, Escapes, KillSender, ReadRow, Store, RecordSent, Fail, ClaimRow,
         ListRemote, ChooseRemote, NoteRemoved, EndRemote, DeleteRemote, DeleteRefused
  <2>2. ASSUME NEW a \in Archives, \/ Enqueue(a) \/ SendAgain(a) \/ RetryComes(a)
                                  \/ LeaseRunsOut(a) \/ LeaseOutlived(a)
        PROVE  send' = send
    BY <2>2 DEF Enqueue, SendAgain, RetryComes, LeaseRunsOut, LeaseOutlived
  <2>3. GoesOn(t) \/ Escapes(t) \/ KillSender(t) \/ \E a \in Archives : ReadRow(t, a)
    BY <1>3, <2>1, <2>2 DEF NoneSealed, vars
  <2>4. CASE Store(t)
    BY <1>1, <2>4 DEF Store, Step, Begun, Sendings
  <2>5. CASE ~Store(t)
    <3>1. \A a \in Archives : ReadRow(t, a) => send'[t].step = "read"
      BY <1>1, Rests DEF ReadRow, Sendings
    <3>2. Escapes(t) \/ KillSender(t) \/ EndRemote(t) \/ (\E final \in BOOLEAN : Fail(t, final))
            => send'[t].step = "idle"
      BY <1>1 DEF Escapes, KillSender, EndRemote, Fail
    <3>3. ClaimRow(t) => send'[t].step \in {"claimed", "idle"}
      BY <1>1 DEF ClaimRow, Sendings
    <3>4. RecordSent(t) => send'[t].step = "recorded"
      BY <1>1 DEF RecordSent, Sendings
    <3>5. ListRemote(t) => send'[t].step \in {"idle", "listed"}
      BY <1>1 DEF ListRemote, Sendings
    <3>6. ChooseRemote(t) => send'[t].step = "chosen"
      BY <1>1, Rests DEF ChooseRemote, Sendings
    <3>7. NoteRemoved(t) => send'[t].step = "chosen"
      BY <1>1 DEF NoteRemoved, Sendings
    <3>8. \A a \in Archives : DeleteRemote(t, a) \/ DeleteRefused(t, a) => send'[t].step \in {"chosen", "deleted"}
      BY <1>1 DEF DeleteRemote, DeleteRefused, Step, Sendings
    <3> QED BY <2>3, <2>5, <3>1, <3>2, <3>3, <3>4, <3>5, <3>6, <3>7, <3>8 DEF GoesOn
  <2> QED BY <2>4, <2>5
<1> QED BY <1>2, <1>3

(* Beside the takers, senders do what Offsite says, and seal but what is whole. *)
LEMMA SealsOrNot ==
  ASSUME VaultNext
  PROVE  (\E s \in Senders : SealArchive(s)) \/ NoneSealed
<1>1. AmongFiles \/ TakerDies \/ LockEnds => NoneSealed
  BY DEF AmongFiles, TakerDies, LockEnds, NoneSealed
<1>2. (\E t \in Takers, made \in BOOLEAN : QueueArchive(t, made)) => NoneSealed
  BY DEF QueueArchive, NoneSealed
<1>3. AmongCopies => NoneSealed
  BY DEF AmongCopies, NoneSealed
<1>4. (\E a \in Archives : SendUnqueued(a) \/ SendQueued(a)) => NoneSealed
  BY DEF SendUnqueued, SendQueued, NoneSealed
<1> QED BY <1>1, <1>2, <1>3, <1>4 DEF VaultNext

LEMMA StaysWhole ==
  ASSUME Typed, FileOK, Whole, VaultNext
  PROVE  Whole'
<1> SUFFICES ASSUME NEW t \in Senders, send'[t].step \in {"sealed", "stored"}
             PROVE  file'[send'[t].of] \in {"good", "gone"}
  BY DEF Whole, Of
<1>1. Of(t) \in Archives /\ send'[t].of = Of(t) /\ file[Of(t)] \in {"good", "gone"}
  <2>1. CASE NoneSealed
    BY <2>1, SealedBefore DEF Whole, Of
  <2>2. ASSUME NEW s \in Senders, SealArchive(s)
        PROVE  Of(t) \in Archives /\ send'[t].of = Of(t) /\ file[Of(t)] \in {"good", "gone"}
    <3>1. /\ send \in [Senders -> Sendings] /\ send[t] \in Sendings
          /\ \A u \in Senders : send[u].step \in Begun => Of(u) \in Archives
      BY DEF Typed, TypeOK, Spare
    <3>2. send' = [send EXCEPT ![s].step = "sealed"] /\ file[Of(s)] = "good" /\ send[s].step = "claimed"
      BY <2>2 DEF SealArchive, Seal, Step
    <3> QED BY <3>1, <3>2 DEF Whole, Of, Begun, Sendings
  <2> QED BY <2>1, <2>2, SealsOrNot
<1> QED BY <1>1, FileMoves

-----------------------------------------------------------------------------
(* Each archive whose sender is cut off, or outlasts its lease, takes a mishap. *)
LEMMA OneMore ==
  ASSUME Counted, NEW a, cut' = cut \/ cut' = cut \cup {a}, cuts \in Nat, kills' \in Nat, asks' \in Nat,
         (cut' = cut /\ cuts' = cuts) \/ cuts' = cuts + 1
  PROVE  Counted'
<1>1. IsFiniteSet(cut) /\ Cardinality(cut) <= cuts /\ Cardinality(cut) \in Nat
  BY FS_CardinalityType DEF Counted
<1>2. CASE cut' = cut
  BY <1>1, <1>2 DEF Counted
<1>3. CASE cut' = cut \cup {a} /\ cuts' = cuts + 1
  <2>1. IsFiniteSet(cut') /\ (Cardinality(cut') = Cardinality(cut) \/ Cardinality(cut') = Cardinality(cut) + 1)
    BY <1>1, <1>3, FS_AddElement
  <2> QED BY <1>1, <1>3, <2>1 DEF Counted
<1> QED BY <1>2, <1>3

LEMMA StaysCounted ==
  ASSUME Beside, VaultNext
  PROVE  Counted'
<1>1. Counted /\ cuts \in Nat /\ kills \in Nat /\ asks \in Nat
  BY Bounds DEF Beside, Counted, Ordered, Typed, TypeOK
<1>2. kills' \in Nat /\ asks' \in Nat
  BY <1>1 DEF counts, VaultNext, AmongFiles, TakerDies, LockEnds, QueueArchive, SendUnqueued, SendQueued,
       SealArchive, AmongCopies
<1>3. CASE NoneSealed
  <2>1. ASSUME NEW a \in Archives, LeaseOutlived(a) PROVE Counted'
    <3>1. cut' = cut \cup {a} /\ cuts' = cuts + 1
      BY <2>1 DEF LeaseOutlived
    <3> QED BY <1>1, <1>2, <3>1, OneMore
  <2>2. ASSUME NEW s \in Senders, KillSender(s) PROVE Counted'
    <3>1. PICK a : a = Of(s)
      OBVIOUS
    <3>2. cut' = cut \/ cut' = cut \cup {a}
      BY <2>2, <3>1 DEF KillSender
    <3>3. cuts' = cuts + 1
      BY <2>2 DEF KillSender
    <3> QED BY <1>1, <1>2, <3>2, <3>3, OneMore
  <2>3. ASSUME UNCHANGED <<cut, cuts>> PROVE Counted'
    BY <1>1, <1>2, <2>3 DEF Counted
  <2>4. ASSUME NEW s \in Senders, GoesOn(s) \/ Escapes(s) \/ \E a \in Archives : ReadRow(s, a)
        PROVE  UNCHANGED <<cut, cuts>>
    BY <2>4 DEF GoesOn, Escapes, ReadRow, Store, RecordSent, Fail, ClaimRow,
         ListRemote, ChooseRemote, NoteRemoved, EndRemote, DeleteRemote, DeleteRefused
  <2>5. ASSUME NEW a \in Archives, Enqueue(a) \/ SendAgain(a) \/ RetryComes(a) \/ LeaseRunsOut(a)
        PROVE  UNCHANGED <<cut, cuts>>
    BY <2>5 DEF Enqueue, SendAgain, RetryComes, LeaseRunsOut
  <2>6. UNCHANGED vars => UNCHANGED <<cut, cuts>>
    BY DEF vars
  <2> QED BY <1>3, <2>1, <2>2, <2>3, <2>4, <2>5, <2>6 DEF NoneSealed
<1>4. CASE \E s \in Senders : SealArchive(s)
  BY <1>1, <1>2, <1>4 DEF SealArchive, Seal, Counted
<1> QED BY <1>3, <1>4, SealsOrNot

LEMMA NextBeside == Beside /\ [VaultNext]_vaultVars => Beside'
<1> SUFFICES ASSUME Beside, [VaultNext]_vaultVars PROVE Beside'
  OBVIOUS
<1>1. CASE VaultNext
  <2>1. Ordered'
    BY <1>1, NextOffsite, NextOrdered DEF Beside
  <2>2. FileOK' /\ Whole'
    BY <1>1, FileMoves, StaysWhole DEF Beside, Ordered
  <2> QED BY <1>1, <2>1, <2>2, StaysCounted DEF Beside
<1>2. CASE UNCHANGED vaultVars
  <2>1. Ordered'
    BY <1>2, NextOrdered DEF Beside, vaultVars
  <2>2. UNCHANGED <<file, send, cut, cuts, kills, asks>>
    BY <1>2 DEF vaultVars, vars, local, counts
  <2>3. FileOK' /\ Whole' /\ Counted'
    BY <2>2 DEF Beside, FileOK, Whole, Counted, Of
  <2> QED BY <2>1, <2>3 DEF Beside
<1> QED BY <1>1, <1>2

-----------------------------------------------------------------------------
(* Backups, beside the senders, is Backups. *)
LEMMA AsShipments ==
  ASSUME NEW a
  PROVE  /\ Rows!Fails(a) => B!Fails(a)
         /\ Rows!Arrives(a) => B!Arrives(a)
         /\ Rows!Removes(a) => B!Removes(a)
         /\ Rows!Returns(a) => B!Returns(a)
         /\ Rows!IsCut(a) => B!IsCut(a)
BY DEF Rows!Fails, Rows!Arrives, Rows!Removes, Rows!Returns, Rows!IsCut, Rows!Becomes, Rows!Waits,
       B!Fails, B!Arrives, B!Removes, B!Returns, B!IsCut, B!Becomes, B!Waits

(* What shows in no state, and in no file, Backups sees nothing of. *)
LEMMA Unseen ==
  ASSUME UNCHANGED <<Shown, cut, local, kills>>
  PROVE  UNCHANGED B!vars
BY DEF Shown, local, B!vars, B!localVars, B!files, B!clock, B!settings, B!locks, B!requests,
       B!histories

LEMMA FilesStep == AmongFiles => B!Next
BY DEF AmongFiles, vars, B!Next

LEMMA MishapStep == TakerDies \/ LockEnds => B!Next
BY DEF TakerDies, LockEnds, B!Next

LEMMA QueueStep ==
  (\E t \in Takers, made \in BOOLEAN : QueueArchive(t, made))
    \/ (\E a \in Archives : SendUnqueued(a) \/ SendQueued(a)) => B!Next
BY DEF QueueArchive, SendUnqueued, SendQueued, B!Next

LEMMA SeenBeside ==
  ASSUME NEW a \in Archives, B!Ship(a), UNCHANGED local
  PROVE  B!Next
BY DEF local, B!Next, B!localVars, B!files, B!clock, B!settings, B!locks, B!requests, B!histories

(* A sender is cut off, or outlasts its lease: Backups counts those it has not seen. *)
LEMMA CutStep ==
  ASSUME Beside, NEW a \in Archives, Rows!IsCut(a), UNCHANGED <<local, counts>>,
         cuts' = cuts + 1, Mishaps' <= MaxMishaps
  PROVE  B!Next \/ UNCHANGED B!vars
<1>1. cut' = cut \cup {a} /\ Shown' = Shown
  BY DEF Rows!IsCut, Shown
<1>2. CASE a \in cut
  <2>1. cut' = cut
    BY <1>1, <1>2
  <2> QED BY <1>1, <2>1, Unseen DEF counts
<1>3. CASE a \notin cut
  <2>1. /\ IsFiniteSet(cut) /\ Cardinality(cut) \in Nat /\ Cardinality(cut) <= cuts
        /\ kills \in Nat /\ cuts \in Nat /\ asks \in Nat
    BY Bounds, FS_CardinalityType DEF Beside, Counted, Ordered, Typed, TypeOK
  <2>2. Cardinality(cut') = Cardinality(cut) + 1
    BY <1>1, <1>3, <2>1, FS_AddElement
  <2>3. kills' = kills /\ kills + (cuts + 1) + asks <= MaxMishaps
    BY DEF Mishaps, counts
  <2>4. kills + Cardinality(cut) < MaxMishaps
    BY <2>1, <2>3, VaultAssumption
  <2>5. kills' + Cardinality(cut') = kills + Cardinality(cut) + 1
    BY <2>1, <2>2, <2>3
  <2>6. B!IsCut(a)
    BY AsShipments
  <2>7. B!Ship(a)
    BY <1>3, <2>4, <2>5, <2>6 DEF B!Ship
  <2> QED BY <2>7, SeenBeside
<1> QED BY <1>2, <1>3

(* What a sender writes: a failure, an arrival or a removal, or what it had before. *)
LEMMA WriteStep ==
  ASSUME Beside, NEW s \in Senders, UNCHANGED <<local, counts>>,
         \/ RecordSent(s) \/ NoteRemoved(s)
         \/ \E final \in BOOLEAN : Fail(s, final)
  PROVE  B!Next \/ UNCHANGED B!vars
<1>1. PICK a : a = Of(s)
  OBVIOUS
<1>2. Ordered
  BY DEF Beside
<1>3. UNCHANGED cut
  BY DEF RecordSent, NoteRemoved, Fail
<1>4. UNCHANGED (kills + Cardinality(cut))
  BY <1>3 DEF counts
<1>5. ASSUME RecordSent(s)
      PROVE  a \in Archives /\ B!Ship(a)
  <2>1. a \in Archives /\ (Rows!Arrives(a) \/ Rows!Returns(a))
    BY <1>1, <1>2, <1>5, RecordShips
  <2>2. file[a] # "part"
    BY <1>1, <1>5 DEF Beside, Whole, RecordSent, Step
  <2>3. B!Arrives(a) \/ B!Returns(a)
    BY <2>1, AsShipments
  <2> QED BY <1>4, <2>1, <2>2, <2>3 DEF B!Ship
<1>6. ASSUME NEW final \in BOOLEAN, Fail(s, final)
      PROVE  a \in Archives /\ B!Ship(a)
  <2>1. a \in Archives /\ (Rows!Fails(a) \/ Rows!Returns(a))
    BY <1>1, <1>2, <1>6, FailShips
  <2>2. B!Fails(a) \/ B!Returns(a)
    BY <2>1, AsShipments
  <2> QED BY <1>4, <2>1, <2>2 DEF B!Ship
<1>7. ASSUME NoteRemoved(s)
      PROVE  (a \in Archives /\ B!Ship(a)) \/ UNCHANGED <<Shown, cut>>
  <2>1. a \in Archives /\ (Rows!Removes(a) \/ Rows!Returns(a) \/ UNCHANGED <<Shown, cut>>)
    BY <1>1, <1>2, <1>7, NoteShips
  <2>2. B!Removes(a) \/ B!Returns(a) \/ UNCHANGED <<Shown, cut>>
    BY <2>1, AsShipments
  <2> QED BY <1>4, <2>1, <2>2 DEF B!Ship
<1>8. a \in Archives /\ B!Ship(a) => B!Next
  BY SeenBeside
<1> QED BY <1>5, <1>6, <1>7, <1>8, Unseen DEF counts

(* The rest of what senders do, and what befalls the rows. *)
LEMMA CopiesStep == Beside /\ AmongCopies => B!Next \/ UNCHANGED B!vars
<1> SUFFICES ASSUME Beside, AmongCopies PROVE B!Next \/ UNCHANGED B!vars
  OBVIOUS
<1>1. Ordered /\ UNCHANGED <<local, counts, kills>> /\ Mishaps' <= MaxMishaps
  BY DEF Beside, AmongCopies, counts
<1>2. ASSUME NEW a \in Archives, RetryComes(a) \/ LeaseRunsOut(a)
      PROVE  UNCHANGED B!vars
  BY <1>1, <1>2, RowQuiet, Unseen
<1>3. ASSUME NEW a \in Archives, LeaseOutlived(a)
      PROVE  B!Next \/ UNCHANGED B!vars
  <2>1. cuts' = cuts + 1
    BY <1>3 DEF LeaseOutlived
  <2> QED BY <1>1, <1>3, <2>1, OutlivedShips, CutStep
<1>4. ASSUME NEW s \in Senders, KillSender(s)
      PROVE  B!Next \/ UNCHANGED B!vars
  <2>1. PICK a : a = Of(s)
    OBVIOUS
  <2>2. cuts' = cuts + 1
    BY <1>4 DEF KillSender
  <2>3. UNCHANGED <<Shown, cut>> \/ (a \in Archives /\ Rows!IsCut(a))
    BY <1>1, <1>4, <2>1, KillShips
  <2> QED BY <1>1, <2>2, <2>3, CutStep, Unseen
<1>5. ASSUME NEW s \in Senders, GoesOn(s)
      PROVE  B!Next \/ UNCHANGED B!vars
  <2>1. \/ RecordSent(s) \/ NoteRemoved(s) \/ \E final \in BOOLEAN : Fail(s, final)
        \/ UNCHANGED <<Shown, cut>>
    BY <1>1, <1>5, QuietShips DEF GoesOn
  <2> QED BY <1>1, <2>1, WriteStep, Unseen
<1>6. ASSUME NEW s \in Senders, Escapes(s) \/ \E a \in Archives : ReadRow(s, a)
      PROVE  UNCHANGED B!vars
  <2>1. UNCHANGED <<Shown, cut>>
    BY <1>1, <1>6, QuietShips
  <2> QED BY <1>1, <2>1, Unseen
<1> QED BY <1>2, <1>3, <1>4, <1>5, <1>6 DEF AmongCopies

LEMMA NextBackups == Beside /\ [VaultNext]_vaultVars => [B!Next]_(B!vars)
<1> SUFFICES ASSUME Beside, [VaultNext]_vaultVars PROVE B!Next \/ UNCHANGED B!vars
  OBVIOUS
<1>1. CASE UNCHANGED vaultVars
  <2>1. UNCHANGED <<Shown, cut, local, kills>>
    BY <1>1 DEF vaultVars, vars, Shown, counts
  <2> QED BY <2>1, Unseen
<1>2. ASSUME NEW s \in Senders, SealArchive(s)
      PROVE  UNCHANGED B!vars
  BY <1>2, QuietShips, Unseen DEF SealArchive, Beside, counts
<1> QED BY <1>1, <1>2, FilesStep, MishapStep, QueueStep, CopiesStep DEF VaultNext

(* Backups keeps its word beside the senders: what happens to the two together is
   what it may do with copies that keep the promise of Shipments. *)
THEOREM VaultKeepsBackups == VaultSpec => KeepsBackups
<1>1. VaultInit => B!Init
  BY DEF VaultInit
<1> QED BY <1>1, InitBeside, NextBeside, NextBackups, PTL DEF VaultSpec, KeepsBackups, B!Spec

(* The senders keep theirs beside the takers: it is what Offsite may do. *)
THEOREM VaultKeepsOffsite == VaultSpec => Spec
<1>1. VaultInit => Init
  BY DEF VaultInit
<1>2. UNCHANGED vaultVars => UNCHANGED vars
  BY DEF vaultVars
<1>3. [VaultNext]_vaultVars => [Next]_vars
  BY <1>2, NextOffsite
<1> QED BY <1>1, <1>3, PTL DEF VaultSpec, Spec

-----------------------------------------------------------------------------
(* Backups under its other name: the theorems about it speak of BP, Vault of B. *)
LEMMA SameFiles ==
  /\ \A a : (B!There(a) <=> BP!There(a)) /\ (B!Trusted(a) <=> BP!Trusted(a))
  /\ B!Newest = BP!Newest
<1>1. \A a : (B!There(a) <=> BP!There(a)) /\ (B!Trusted(a) <=> BP!Trusted(a))
  BY DEF B!There, BP!There, B!Trusted, BP!Trusted
<1>2. \A S : B!Cardinality(S) = BP!Cardinality(S)
  BY DEF B!Cardinality, BP!Cardinality, B!IsFiniteSet, BP!IsFiniteSet
<1>3. B!Newest = BP!Newest
  BY <1>1, <1>2 DEF B!Newest, BP!Newest
<1> QED BY <1>1, <1>3

LEMMA SameTakeStep == B!TakeStep => BP!TakeStep
<1> USE DEF B!files, BP!files, B!locks, BP!locks, B!clock, BP!clock, B!histories, BP!histories,
            B!settings, BP!settings, B!requests, BP!requests,
            B!TakerAt, BP!TakerAt, B!Off, BP!Off
<1>1. \A t : /\ B!ReadSlot(t) => BP!ReadSlot(t)
             /\ B!ClaimSlot(t) => BP!ClaimSlot(t)
  BY DEF B!ReadSlot, BP!ReadSlot, B!ClaimSlot, BP!ClaimSlot
<1>2. \A t : /\ B!Take(t) => BP!Take(t)
             /\ B!Turned(t) => BP!Turned(t)
             /\ B!Command(t) => BP!Command(t)
             /\ B!EndLocal(t) => BP!EndLocal(t)
  BY DEF B!Take, BP!Take, B!Turned, BP!Turned, B!Command, BP!Command, B!EndLocal, BP!EndLocal
<1>3. \A t : B!WriteRaises(t) => BP!WriteRaises(t)
  BY DEF B!WriteRaises, BP!WriteRaises, B!After, BP!After
<1>4. \A t : B!LookAtLock(t) => BP!LookAtLock(t)
  BY DEF B!LookAtLock, BP!LookAtLock, B!Leave, BP!Leave
<1>5. \A t : B!Unlock(t) => BP!Unlock(t)
  BY DEF B!Unlock, BP!Unlock, B!Leave, BP!Leave
<1>6. \A t : B!ListLocal(t) => BP!ListLocal(t)
  BY SameFiles DEF B!ListLocal, BP!ListLocal
<1>7. \A t : B!HeldBack(t) => BP!HeldBack(t)
  BY DEF B!HeldBack, BP!HeldBack, B!Waits, BP!Waits
<1>8. \A t, plain : B!Written(t, plain) => BP!Written(t, plain)
  BY DEF B!Written, BP!Written, B!There, BP!There
<1>9. \A t, a : /\ B!Begin(t, a) => BP!Begin(t, a)
                /\ B!DeleteLocal(t, a) => BP!DeleteLocal(t, a)
  BY DEF B!Begin, BP!Begin, B!Fresh, BP!Fresh, B!DeleteLocal, BP!DeleteLocal
<1>10. \A a : /\ B!Verify(a) => BP!Verify(a)
              /\ B!Unlink(a) => BP!Unlink(a)
  BY DEF B!Verify, BP!Verify, B!Unlink, BP!Unlink, B!There, BP!There
<1>11. \A a : B!AskDelete(a) => BP!AskDelete(a)
  BY DEF B!AskDelete, BP!AskDelete, B!There, BP!There, B!Blocked, BP!Blocked, B!Retaining, BP!Retaining
<1>12. B!SlotComes => BP!SlotComes
  BY DEF B!SlotComes, BP!SlotComes
<1>13. \A t : B!FindToQueue(t) => BP!FindToQueue(t)
  BY DEF B!FindToQueue, BP!FindToQueue, B!There, BP!There, B!After, BP!After
<1>14. \A a : B!AskSend(a) => BP!AskSend(a)
  BY DEF B!AskSend, BP!AskSend, B!There, BP!There
<1> QED BY <1>1, <1>2, <1>3, <1>4, <1>5, <1>6, <1>7, <1>8, <1>9, <1>10, <1>11, <1>12,
          <1>13, <1>14 DEF B!TakeStep, BP!TakeStep

LEMMA SameNext == B!Next => BP!Next
<1> USE DEF B!files, BP!files, B!locks, BP!locks, B!clock, BP!clock, B!histories, BP!histories,
            B!settings, BP!settings, B!requests, BP!requests,
            B!TakerAt, BP!TakerAt, B!Off, BP!Off, B!There, BP!There
<1>1. \A t : B!KillTaker(t) => BP!KillTaker(t)
  BY DEF B!KillTaker, BP!KillTaker
<1>2. \A t, made : B!Queue(t, made) => BP!Queue(t, made)
  BY DEF B!Queue, BP!Queue, B!After, BP!After, B!Queued, BP!Queued, B!Becomes, BP!Becomes,
     B!Settled, BP!Settled
<1>3. \A a : /\ B!SendFirst(a) => BP!SendFirst(a)
             /\ B!SendNextTime(a) => BP!SendNextTime(a)
  BY DEF B!SendFirst, BP!SendFirst, B!SendNextTime, BP!SendNextTime, B!Queued, BP!Queued,
     B!Becomes, BP!Becomes, B!Settled, BP!Settled
<1>4. \A a : B!Ship(a) => BP!Ship(a)
  BY DEF B!Ship, BP!Ship, B!Fails, BP!Fails, B!Arrives, BP!Arrives, B!Removes, BP!Removes,
     B!IsCut, BP!IsCut, B!Returns, BP!Returns, B!Waits, BP!Waits, B!Becomes, BP!Becomes
<1>5. B!LockRunsOut => BP!LockRunsOut
  BY DEF B!LockRunsOut, BP!LockRunsOut, B!UnderLock, BP!UnderLock
<1>6. UNCHANGED B!localVars => UNCHANGED BP!localVars
  BY DEF B!localVars, BP!localVars
<1> QED BY <1>1, <1>2, <1>3, <1>4, <1>5, <1>6, SameTakeStep DEF B!Next, BP!Next

LEMMA SameSpec == B!Spec => BP!Spec
<1>1. B!Init => BP!Init
  BY DEF B!Init, BP!Init, B!ShipmentsInit, BP!ShipmentsInit, B!Off, BP!Off
<1>2. UNCHANGED B!vars => UNCHANGED BP!vars
  BY DEF B!vars, BP!vars, B!localVars, BP!localVars, B!files, BP!files, B!locks, BP!locks,
     B!histories, BP!histories, B!clock, BP!clock, B!settings, BP!settings, B!requests, BP!requests
<1>3. [B!Next]_(B!vars) => [BP!Next]_(BP!vars)
  BY <1>2, SameNext
<1> QED BY <1>1, <1>3, PTL DEF B!Spec, BP!Spec

(* What was proved of Backups by itself is so beside the senders. *)
LEMMA BackupsBeside ==
  VaultSpec => [](BP!WaitingIsKept /\ BP!OneAtATime /\ BP!LastGoodStays)
<1>1. Archives \subseteq Nat \ {0} /\ BP!IsFiniteSet(Archives)
  BY ArchivesAsNamed DEF BP!IsFiniteSet, IsFiniteSet
<1>2. MaxMishaps \in Nat /\ NoTaker \notin Takers /\ Keep \in Nat /\ MaxSlots \in Nat
  BY VaultAssumption
<1>3. BP!Spec => []BP!WaitingIsKept
  BY <1>1, <1>2, BP!WaitingStaysHere
<1>4. BP!Spec => []BP!OneAtATime
  BY <1>1, <1>2, BP!OneBackupAtATime
<1>5. BP!Spec => []BP!LastGoodStays
  BY <1>1, <1>2, BP!LastGoodIsKept
<1> QED BY <1>3, <1>4, <1>5, VaultKeepsBackups, SameSpec, PTL DEF KeepsBackups

(* An archive that was ever queued is kept somewhere: here while it waits for the
   destination, there once it is sent, until the retention there removes it; but for
   those deleted by hand, queued too late, cut off, or deleted there unsaid. *)
THEOREM QueuedStaysSomewhere == VaultSpec => []QueuedIsKept
<1>1. Ordered /\ BP!WaitingIsKept => QueuedIsKept
  <2> SUFFICES ASSUME Ordered, BP!WaitingIsKept,
                      NEW a \in Archives, a \notin byHand \cup late \cup cut \cup unsaid,
                      row[a].state \notin {"none", "removed"}
               PROVE  \/ B!There(a) \/ a \in remote
                      \/ \E s \in Senders : Step(s, "deleted") /\ Of(s) = a
    BY DEF QueuedIsKept
  <2>1. CASE row[a].state = "sent"
    BY <2>1 DEF Ordered, There
  <2>2. CASE row[a].state # "sent"
    <3>1. row[a] \in OffsiteRows
      BY DEF Ordered, Typed, TypeOK
    <3>2. BP!Waits(a)
      BY <2>2, <3>1 DEF OffsiteRows, States, BP!Waits
    <3> QED BY <3>2, SameFiles DEF BP!WaitingIsKept
  <2> QED BY <2>1, <2>2
<1>2. VaultSpec => []Ordered
  BY VaultKeepsOffsite, AlwaysOrdered, PTL
<1> QED BY <1>1, <1>2, BackupsBeside, PTL
=============================================================================
