--------------------------- MODULE OffsiteProofs ---------------------------
(***************************************************************************)
(* Offsite, for any number of archives, senders, attempts and accidents:   *)
(* every state is well typed; an archive is uploaded once and what is      *)
(* called sent is at the destination, but for senders cut off and answers  *)
(* that were lost; the rows go through what module Shipments promises      *)
(* local retention; and retention there leaves one.                        *)
(***************************************************************************)
EXTENDS Offsite, FiniteSetTheorems, TLAPS

(* A row that has been read has attempts left, and is an archive's. *)
Begun == {"read", "claimed", "sealed", "stored"}
Spare(s) ==
  send[s].step \in Begun =>
    /\ Of(s) \in Archives /\ send[s].was.attempts + 1 \in 0 .. MaxAttempts
    /\ send[s].was.state \in {"pending", "failed"}
Named(s) == send[s].step \in {"recorded", "deleted"} => Of(s) \in Archives
Typed == TypeOK /\ \A s \in Senders : Spare(s) /\ Named(s)

LEMMA Rests == Resting \in Sendings /\ NoRow \in OffsiteRows
<1>1. NoRow \in OffsiteRows
  BY Bounds DEF NoRow, OffsiteRows, States
<1>2. 0 \in 0 .. MaxArchives
  BY Bounds
<1> QED BY <1>1, <1>2 DEF Resting, Sendings, Steps

LEMMA InitTyped == Init => Typed
<1> SUFFICES ASSUME Init PROVE Typed
  OBVIOUS
<1>1. row \in [Archives -> OffsiteRows] /\ send \in [Senders -> Sendings]
  BY Rests DEF Init
<1>2. /\ remote \subseteq Archives /\ arrived \subseteq Archives
      /\ twice \subseteq Archives /\ cut \subseteq Archives
      /\ unsaid \subseteq Archives /\ installed \in BOOLEAN /\ cuts \in 0 .. MaxCuts /\ again \in 0 .. MaxAgain
  BY Bounds DEF Init
<1>3. ASSUME NEW s \in Senders PROVE Spare(s) /\ Named(s)
  BY DEF Init, Resting, Spare, Named, Begun
<1> QED BY <1>1, <1>2, <1>3 DEF Typed, TypeOK

(* One sender goes on to m. *)
LEMMA OneGoes ==
  ASSUME Typed, NEW s \in Senders, NEW m \in Sendings, send' = [send EXCEPT ![s] = m],
         m.step \in Begun => /\ m.of \in Archives /\ m.was.attempts + 1 \in 0 .. MaxAttempts
                             /\ m.was.state \in {"pending", "failed"},
         m.step \in {"recorded", "deleted"} => m.of \in Archives
  PROVE  /\ send' \in [Senders -> Sendings]
         /\ \A t \in Senders : Spare(t)' /\ Named(t)'
<1>1. send \in [Senders -> Sendings]
  BY DEF Typed, TypeOK
<1>2. send' \in [Senders -> Sendings]
  BY <1>1
<1>3. ASSUME NEW t \in Senders PROVE Spare(t)' /\ Named(t)'
  <2>1. CASE t = s
    <3>1. send'[t] = m
      BY <1>1, <2>1
    <3> QED BY <3>1 DEF Spare, Named, Of
  <2>2. CASE t # s
    <3>1. send'[t] = send[t]
      BY <1>1, <2>2
    <3> QED BY <3>1 DEF Typed, Spare, Named, Of
  <2> QED BY <2>1, <2>2
<1> QED BY <1>2, <1>3

(* A sender that comes to rest. *)
LEMMA OneRests ==
  ASSUME Typed, NEW s \in Senders, send' = [send EXCEPT ![s] = Resting]
  PROVE  /\ send' \in [Senders -> Sendings]
         /\ \A t \in Senders : Spare(t)' /\ Named(t)'
<1>1. Resting \in Sendings /\ Resting.step = "idle"
  BY Rests DEF Resting
<1> QED BY <1>1, OneGoes DEF Begun

(* A sender whose copy stays as it was. *)
LEMMA OneSteps ==
  ASSUME Typed, NEW s \in Senders, NEW step \in Steps, NEW began \in Nat,
         send[s].step \in Begun,
         send' = [send EXCEPT ![s].step = step, ![s].began = began]
  PROVE  /\ send' \in [Senders -> Sendings]
         /\ \A t \in Senders : Spare(t)' /\ Named(t)'
<1> DEFINE m == [send[s] EXCEPT !.step = step, !.began = began]
<1>1. send \in [Senders -> Sendings] /\ send[s] \in Sendings
  BY DEF Typed, TypeOK
<1>2. m \in Sendings /\ m.of = send[s].of /\ m.was = send[s].was /\ m.step = step
  BY <1>1 DEF Sendings
<1>3. send' = [send EXCEPT ![s] = m]
  BY <1>1
<1>4. /\ Of(s) \in Archives /\ send[s].was.attempts + 1 \in 0 .. MaxAttempts
      /\ send[s].was.state \in {"pending", "failed"}
  BY DEF Typed, Spare
<1> HIDE DEF m
<1> QED BY <1>2, <1>3, <1>4, OneGoes DEF Of

(* A sender that has recorded what it sent: what it lists and settles is of archives. *)
LEMMA OneSettles ==
  ASSUME Typed, NEW s \in Senders, NEW view \in SUBSET Archives,
         NEW of \in Archives \cup {0}, NEW step \in {"recorded", "listed", "chosen", "deleted"},
         NEW was \in Sendings,
         step \in {"recorded", "deleted"} => of \in Archives,
         send' = [send EXCEPT ![s] = [was EXCEPT !.step = step, !.of = of, !.view = view]]
  PROVE  /\ send' \in [Senders -> Sendings]
         /\ \A t \in Senders : Spare(t)' /\ Named(t)'
<1> DEFINE m == [was EXCEPT !.step = step, !.of = of, !.view = view]
<1>1. of \in 0 .. MaxArchives
  BY Bounds DEF Archives
<1>2. m \in Sendings /\ m.of = of /\ m.step = step
  BY <1>1 DEF Sendings, Steps
<1>3. send' = [send EXCEPT ![s] = m]
  OBVIOUS
<1> HIDE DEF m
<1> QED BY <1>2, <1>3, OneGoes DEF Begun

(* Reading a row: the copy is its, and it has attempts left. *)
LEMMA ReadTyped ==
  ASSUME Typed, NEW s \in Senders, NEW a \in Archives, ReadRow(s, a)
  PROVE  Typed'
<1> DEFINE copied == [Resting EXCEPT !.step = "read", !.of = a, !.was = row[a]]
<1>1. row[a] \in OffsiteRows /\ a \in 0 .. MaxArchives
  BY Bounds DEF Typed, TypeOK, Archives
<1>2. copied \in Sendings /\ copied.of = a /\ copied.was = row[a] /\ copied.step = "read"
  BY <1>1, Rests DEF Sendings, Steps
<1>3. row[a].attempts + 1 \in 0 .. MaxAttempts
  <2>1. row[a].attempts \in 0 .. MaxAttempts /\ row[a].attempts < MaxAttempts
    BY <1>1 DEF OffsiteRows, ReadRow
  <2> QED BY <2>1, Bounds
<1>4. send \in [Senders -> Sendings] /\ send' = [send EXCEPT ![s] = copied]
      /\ row[a].state \in {"pending", "failed"}
  BY DEF Typed, TypeOK, ReadRow, Waiting
<1> HIDE DEF copied
<1>5. send' \in [Senders -> Sendings] /\ \A t \in Senders : Spare(t)' /\ Named(t)'
  BY <1>2, <1>3, <1>4, OneGoes DEF Begun
<1> QED BY <1>5 DEF Typed, TypeOK, ReadRow

LEMMA ClaimTyped ==
  ASSUME Typed, NEW s \in Senders, ClaimRow(s)
  PROVE  Typed'
<1>1. send[s].step \in Begun /\ Of(s) \in Archives
  BY DEF ClaimRow, Step, Typed, Spare, Begun
<1>2. row \in [Archives -> OffsiteRows]
  BY DEF Typed, TypeOK
<1>3. CASE UNCHANGED row /\ send' = [send EXCEPT ![s] = Resting]
  BY <1>3, OneRests DEF Typed, TypeOK, ClaimRow
<1>4. CASE /\ row' = [row EXCEPT ![Of(s)].lease = TRUE]
           /\ \E now \in 1 .. MaxMoments :
                send' = [send EXCEPT ![s].step = "claimed", ![s].began = now]
  <2>1. row' \in [Archives -> OffsiteRows]
    BY <1>1, <1>2, <1>4 DEF OffsiteRows
  <2>2. PICK now \in 1 .. MaxMoments : send' = [send EXCEPT ![s].step = "claimed", ![s].began = now]
    BY <1>4
  <2>3. now \in Nat
    BY Bounds
  <2>4. send' \in [Senders -> Sendings] /\ \A t \in Senders : Spare(t)' /\ Named(t)'
    BY <1>1, <2>2, <2>3, OneSteps DEF Steps
  <2> QED BY <1>2, <1>4, <2>1, <2>4 DEF Typed, TypeOK, ClaimRow
<1> QED BY <1>3, <1>4 DEF ClaimRow

(* What a sender that has claimed a row does with it. *)
LEMMA SendTyped ==
  ASSUME Typed, NEW s \in Senders,
         \/ Seal(s) \/ Store(s) \/ RecordSent(s) \/ Escapes(s)
         \/ \E final \in BOOLEAN : Fail(s, final)
  PROVE  Typed'
<1> DEFINE was == send[s].was
<1>1. send[s].step \in Begun /\ Of(s) \in Archives /\ was.attempts + 1 \in 0 .. MaxAttempts
  BY DEF Seal, Store, RecordSent, Escapes, Fail, Step, Typed, Spare, Begun
<1>2. /\ row \in [Archives -> OffsiteRows] /\ send \in [Senders -> Sendings]
      /\ send[s] \in Sendings /\ was \in OffsiteRows
      /\ send[s].began \in Nat /\ MaxAttempts \in 0 .. MaxAttempts
  BY Bounds DEF Typed, TypeOK, Sendings
<1>3. ASSUME NEW step \in Steps, send' = [send EXCEPT ![s].step = step]
      PROVE  send' \in [Senders -> Sendings] /\ \A t \in Senders : Spare(t)' /\ Named(t)'
  <2>1. [send[s] EXCEPT !.step = step] = [send[s] EXCEPT !.step = step, !.began = send[s].began]
    BY <1>2 DEF Sendings
  <2>2. send' = [send EXCEPT ![s].step = step, ![s].began = send[s].began]
    BY <1>2, <1>3, <2>1
  <2> QED BY <1>1, <1>2, <2>2, OneSteps
<1>4. CASE Seal(s)
  BY <1>3, <1>4 DEF Seal, Steps, Typed, TypeOK
<1>5. CASE Store(s)
  BY <1>1, <1>3, <1>5 DEF Store, Steps, Typed, TypeOK
<1>6. CASE RecordSent(s)
  <2>1. [was EXCEPT !.state = "sent", !.attempts = was.attempts + 1, !.due = FALSE,
                    !.lease = FALSE, !.sentAt = send[s].began] \in OffsiteRows
    BY <1>1, <1>2 DEF OffsiteRows, States
  <2>2. row' \in [Archives -> OffsiteRows]
    BY <1>1, <1>2, <1>6, <2>1 DEF RecordSent
  <2> QED BY <1>3, <1>6, <2>2 DEF RecordSent, Steps, Typed, TypeOK
<1>7. ASSUME NEW final \in BOOLEAN, Fail(s, final)
      PROVE  Typed'
  <2> DEFINE tries == IF final THEN MaxAttempts ELSE was.attempts + 1
  <2>1. tries \in 0 .. MaxAttempts
    BY <1>1, <1>2
  <2>2. [was EXCEPT !.state = "failed", !.attempts = tries, !.due = FALSE, !.lease = FALSE]
          \in OffsiteRows
    BY <1>2, <2>1 DEF OffsiteRows, States
  <2>3. row' = [row EXCEPT ![Of(s)] = [was EXCEPT !.state = "failed", !.attempts = tries,
                                                  !.due = FALSE, !.lease = FALSE]]
    BY <1>7 DEF Fail
  <2>4. row' \in [Archives -> OffsiteRows]
    BY <1>1, <1>2, <2>2, <2>3
  <2>5. send' = [send EXCEPT ![s] = Resting] /\ arrived' \subseteq Archives
    BY <1>7 DEF Fail, Typed, TypeOK
  <2> QED BY <1>7, <2>4, <2>5, OneRests DEF Fail, Typed, TypeOK
<1>8. CASE Escapes(s)
  BY <1>8, OneRests DEF Escapes, Typed, TypeOK
<1> QED BY <1>4, <1>5, <1>6, <1>7, <1>8

(* Retention there. *)
LEMMA RetentionTyped ==
  ASSUME Typed, NEW s \in Senders,
         ListRemote(s) \/ ChooseRemote(s) \/ NoteRemoved(s) \/ EndRemote(s)
         \/ \E a \in Archives : DeleteRemote(s, a) \/ DeleteRefused(s, a)
  PROVE  Typed'
<1>1. /\ row \in [Archives -> OffsiteRows] /\ send \in [Senders -> Sendings]
      /\ send[s] \in Sendings /\ remote \subseteq Archives
      /\ send[s].view \subseteq Archives /\ send[s].of \in Archives \cup {0}
  BY Bounds DEF Typed, TypeOK, Sendings, Archives
<1>2. CASE ListRemote(s)
  <2>1. CASE RemoteKeep = 0
    BY <1>2, <2>1, OneRests DEF ListRemote, Typed, TypeOK
  <2>2. CASE RemoteKeep # 0
    <3>1. [send[s] EXCEPT !.step = "listed", !.view = remote]
            = [send[s] EXCEPT !.step = "listed", !.of = send[s].of, !.view = remote]
      BY <1>1 DEF Sendings
    <3>2. send' = [send EXCEPT ![s] = [send[s] EXCEPT !.step = "listed", !.of = send[s].of,
                                                     !.view = remote]]
      BY <1>1, <1>2, <2>2, <3>1 DEF ListRemote
    <3>3. send' \in [Senders -> Sendings] /\ \A t \in Senders : Spare(t)' /\ Named(t)'
      BY <1>1, <3>2, OneSettles
    <3> QED BY <1>2, <3>3 DEF ListRemote, Typed, TypeOK
  <2> QED BY <2>1, <2>2
<1>3. CASE ChooseRemote(s)
  <2> DEFINE view == {a \in send[s].view : Beyond(send[s].view, a)}
  <2>1. \A v : [Resting EXCEPT !.step = "chosen", !.view = v]
                 = [Resting EXCEPT !.step = "chosen", !.of = 0, !.view = v]
    <3>1. Resting.of = 0
      BY DEF Resting
    <3> QED BY <3>1, Rests DEF Sendings
  <2>2. view \in SUBSET Archives
    BY <1>1
  <2>3. send' = [send EXCEPT ![s] = [Resting EXCEPT !.step = "chosen", !.of = 0, !.view = view]]
    BY <1>3, <2>1 DEF ChooseRemote
  <2> HIDE DEF view
  <2>4. send' \in [Senders -> Sendings] /\ \A t \in Senders : Spare(t)' /\ Named(t)'
    BY <2>2, <2>3, Rests, OneSettles
  <2> QED BY <1>3, <2>4 DEF ChooseRemote, Typed, TypeOK
<1>4. CASE NoteRemoved(s)
  <2>1. row' \in [Archives -> OffsiteRows]
    BY <1>1, <1>4 DEF NoteRemoved, OffsiteRows, States
  <2>2. [send[s] EXCEPT !.step = "chosen", !.of = 0]
          = [send[s] EXCEPT !.step = "chosen", !.of = 0, !.view = send[s].view]
    BY <1>1 DEF Sendings
  <2>3. send' = [send EXCEPT ![s] = [send[s] EXCEPT !.step = "chosen", !.of = 0,
                                                   !.view = send[s].view]]
    BY <1>1, <1>4, <2>2 DEF NoteRemoved
  <2>4. send' \in [Senders -> Sendings] /\ \A t \in Senders : Spare(t)' /\ Named(t)'
    BY <1>1, <2>3, OneSettles
  <2> QED BY <1>4, <2>1, <2>4 DEF NoteRemoved, Typed, TypeOK
<1>5. CASE EndRemote(s)
  BY <1>5, OneRests DEF EndRemote, Typed, TypeOK
<1>6. ASSUME NEW a \in Archives, DeleteRemote(s, a)
      PROVE  Typed'
  <2>1. send' = [send EXCEPT ![s] = [send[s] EXCEPT !.step = "deleted", !.of = a,
                                                   !.view = send[s].view \ {a}]]
    BY <1>1, <1>6 DEF DeleteRemote
  <2>2. send[s].view \ {a} \in SUBSET Archives
    BY <1>1
  <2>3. send' \in [Senders -> Sendings] /\ \A t \in Senders : Spare(t)' /\ Named(t)'
    BY <1>1, <2>1, <2>2, OneSettles
  <2> QED BY <1>1, <1>6, <2>3 DEF DeleteRemote, Typed, TypeOK
<1>7. ASSUME NEW a \in Archives, DeleteRefused(s, a)
      PROVE  Typed'
  <2>1. [send[s] EXCEPT !.view = send[s].view \ {a}]
          = [send[s] EXCEPT !.step = "chosen", !.of = send[s].of, !.view = send[s].view \ {a}]
    BY <1>1, <1>7 DEF DeleteRefused, Step, Sendings
  <2>2. send' = [send EXCEPT ![s] = [send[s] EXCEPT !.step = "chosen", !.of = send[s].of,
                                                   !.view = send[s].view \ {a}]]
    BY <1>1, <1>7, <2>1 DEF DeleteRefused
  <2>3. send[s].view \ {a} \in SUBSET Archives
    BY <1>1
  <2>4. send' \in [Senders -> Sendings] /\ \A t \in Senders : Spare(t)' /\ Named(t)'
    BY <1>1, <2>2, <2>3, OneSettles
  <2>5. remote' \subseteq Archives /\ unsaid' \subseteq Archives
    BY <1>1, <1>7 DEF DeleteRefused, Typed, TypeOK
  <2> QED BY <1>7, <2>4, <2>5 DEF DeleteRefused, Typed, TypeOK
<1> QED BY <1>2, <1>3, <1>4, <1>5, <1>6, <1>7

(* What is done to the rows, and what befalls them and their senders. *)
LEMMA RowTyped ==
  ASSUME Typed, NEW a \in Archives,
         Enqueue(a) \/ SendAgain(a) \/ RetryComes(a) \/ LeaseRunsOut(a) \/ LeaseOutlived(a)
  PROVE  Typed'
<1>1. /\ row \in [Archives -> OffsiteRows] /\ row[a] \in OffsiteRows /\ 0 \in 0 .. MaxAttempts
      /\ NoRow \in OffsiteRows
  BY Bounds, Rests DEF Typed, TypeOK
<1>2. row' \in [Archives -> OffsiteRows]
  <2>1. CASE Enqueue(a)
    BY <1>1, <2>1 DEF Enqueue, OffsiteRows, States
  <2>2. CASE SendAgain(a)
    <3>1. [row[a] EXCEPT !.attempts = 0, !.due = TRUE] \in OffsiteRows
      BY <1>1 DEF OffsiteRows
    <3> QED BY <1>1, <2>2, <3>1 DEF SendAgain
  <2>3. CASE RetryComes(a) \/ LeaseRunsOut(a) \/ LeaseOutlived(a)
    <3>1. [row[a] EXCEPT !.due = TRUE] \in OffsiteRows /\ [row[a] EXCEPT !.lease = FALSE] \in OffsiteRows
      BY <1>1 DEF OffsiteRows
    <3> QED BY <1>1, <2>3, <3>1 DEF RetryComes, LeaseRunsOut, LeaseOutlived
  <2> QED BY <2>1, <2>2, <2>3
<1>3. cuts' \in 0 .. MaxCuts /\ again' \in 0 .. MaxAgain
  <2>1. cuts \in 0 .. MaxCuts /\ again \in 0 .. MaxAgain
    BY DEF Typed, TypeOK
  <2>2. /\ cuts' = cuts \/ (cuts < MaxCuts /\ cuts' = cuts + 1)
        /\ again' = again \/ (again < MaxAgain /\ again' = again + 1)
    BY DEF Enqueue, SendAgain, RetryComes, LeaseRunsOut, LeaseOutlived
  <2> QED BY <2>1, <2>2, Bounds
<1>4. UNCHANGED <<send, remote, installed, arrived, twice, unsaid>> /\ cut' \subseteq Archives
  BY DEF Enqueue, SendAgain, RetryComes, LeaseRunsOut, LeaseOutlived, Typed, TypeOK
<1>5. \A t \in Senders : Spare(t)' /\ Named(t)'
  BY <1>4 DEF Typed, Spare, Named, Of
<1> QED BY <1>2, <1>3, <1>4, <1>5 DEF Typed, TypeOK

LEMMA KillTyped ==
  ASSUME Typed, NEW s \in Senders, KillSender(s)
  PROVE  Typed'
<1>1. cut' \subseteq Archives
  BY DEF KillSender, Typed, TypeOK, Spare, Named, Begun
<1>2. cuts' \in 0 .. MaxCuts
  <2>1. cuts \in 0 .. MaxCuts /\ cuts < MaxCuts /\ cuts' = cuts + 1
    BY DEF KillSender, Typed, TypeOK
  <2> QED BY <2>1, Bounds
<1> QED BY <1>1, <1>2, OneRests DEF KillSender, Typed, TypeOK

LEMMA InstallTyped ==
  ASSUME Typed, Installs
  PROVE  Typed'
<1>1. installed' \in BOOLEAN
  BY DEF Installs
<1>2. UNCHANGED <<row, send, remote, arrived, twice, unsaid, cut, cuts, again>>
  BY DEF Installs
<1> QED BY <1>1, <1>2 DEF Typed, TypeOK, Spare, Named, Of

LEMMA NextTyped == Typed /\ [Next]_vars => Typed'
<1> SUFFICES ASSUME Typed, [Next]_vars PROVE Typed'
  OBVIOUS
<1>1. CASE UNCHANGED vars
  BY <1>1 DEF vars, Typed, TypeOK, Spare, Named, Of
<1>2. CASE Next /\ ~Installs
  BY <1>2, ReadTyped, ClaimTyped, SendTyped, RetentionTyped, RowTyped, KillTyped DEF Next, Goes, GoesOn
<1>3. CASE Installs
  BY <1>3, InstallTyped
<1> QED BY <1>1, <1>2, <1>3

(* Every state is well typed, for any archives, senders and bounds. *)
THEOREM OffsiteTyped == Spec => []TypeOK
<1>1. Spec => []Typed
  BY InitTyped, NextTyped, PTL DEF Spec
<1>2. Typed => TypeOK
  BY DEF Typed
<1> QED BY <1>1, <1>2, PTL

-----------------------------------------------------------------------------
(* Whoever is at a row holds its lease, alone, and it waits; unless cut off. *)
Held(s) ==
  send[s].step \in {"claimed", "sealed", "stored"} =>
    /\ row[Of(s)].state # "none"
    /\ Of(s) \in cut \/ /\ row[Of(s)].lease /\ Waiting(Of(s))
                        /\ \A t \in Senders \ {s} : ~At(t, Of(s))

(* What retention there has settled on has been sent, and may be removed. *)
Past(a) == row[a].state \in {"sent", "removed"} \/ (a \in cut /\ row[a].state # "none")
Settled(s) ==
  send[s].step \in {"chosen", "deleted"} =>
    /\ \A a \in send[s].view : Past(a)
    /\ Step(s, "deleted") => Past(Of(s))

(* What is stored is there until its row says so, and what has arrived is in a
   sender's hand or its row does say so. *)
Stored(s) == Step(s, "stored") => Of(s) \in remote \cup cut
Noted(a) == a \in cut \/ row[a].state \in {"sent", "removed"}
            \/ \E s \in Senders : Step(s, "stored") /\ Of(s) = a
There(a) ==
  row[a].state = "sent" =>
    a \in remote \cup cut \cup unsaid \/ \E s \in Senders : Step(s, "deleted") /\ Of(s) = a

Ordered ==
  /\ Typed
  /\ \A s \in Senders : Held(s) /\ Settled(s) /\ Stored(s)
  /\ \A a \in arrived : Noted(a)
  /\ UploadedOnce
  /\ \A a \in Archives : There(a)

LEMMA InitOrdered == Init => Ordered
<1> SUFFICES ASSUME Init PROVE Ordered
  OBVIOUS
<1>1. \A s \in Senders : send[s].step = "idle"
  BY DEF Init, Resting
<1>2. \A a \in Archives : row[a].state = "none"
  BY DEF Init, NoRow
<1>3. arrived = {} /\ twice = {}
  BY DEF Init
<1> QED BY <1>1, <1>2, <1>3, InitTyped DEF Ordered, Held, Settled, Stored, There, UploadedOnce, Step

(* A row is queued, is made due again, or its lease ends. *)
LEMMA RowOrdered ==
  ASSUME Ordered, NEW a \in Archives,
         Enqueue(a) \/ SendAgain(a) \/ RetryComes(a) \/ LeaseRunsOut(a) \/ LeaseOutlived(a)
  PROVE  Ordered'
<1>1. Typed' /\ row \in [Archives -> OffsiteRows] /\ arrived \subseteq Archives
  BY RowTyped DEF Ordered, Typed, TypeOK
<1>2. UNCHANGED <<send, remote, arrived, twice, unsaid>> /\ cut \subseteq cut'
  BY DEF Enqueue, SendAgain, RetryComes, LeaseRunsOut, LeaseOutlived
<1>3. \A b \in Archives \ {a} : row'[b] = row[b]
  BY <1>1 DEF Enqueue, SendAgain, RetryComes, LeaseRunsOut, LeaseOutlived
<1>4. row'[a].state = row[a].state \/ (row[a].state = "none" /\ row'[a].state = "pending")
  BY <1>1, Rests DEF Enqueue, SendAgain, RetryComes, LeaseRunsOut, LeaseOutlived, OffsiteRows
<1>5. \A s \in Senders : At(s, a) => a \in cut' \/ row[a].state = "none" \/ row'[a].lease = row[a].lease
  <2>1. CASE Enqueue(a) \/ LeaseRunsOut(a) \/ LeaseOutlived(a)
    BY <2>1 DEF Enqueue, LeaseRunsOut, LeaseOutlived
  <2>2. CASE SendAgain(a) \/ RetryComes(a)
    BY <1>1, <2>2 DEF SendAgain, RetryComes, OffsiteRows
  <2> QED BY <2>1, <2>2
<1>6. ASSUME NEW s \in Senders PROVE Held(s)' /\ Settled(s)' /\ Stored(s)'
  <2>1. Held(s) /\ Settled(s) /\ Stored(s) /\ Spare(s) /\ Named(s)
    BY DEF Ordered, Typed
  <2>2. \A b : Past(b) /\ b \in Archives => Past(b)'
    BY <1>2, <1>3, <1>4 DEF Past
  <2>3. send[s].view \subseteq Archives
    BY DEF Ordered, Typed, TypeOK, Sendings
  <2>4. Settled(s)' /\ Stored(s)'
    BY <1>2, <2>1, <2>2, <2>3 DEF Settled, Stored, Step, Of, Named
  <2>5. Held(s)'
    <3>1. CASE Of(s) = a
      BY <1>2, <1>4, <1>5, <2>1, <3>1 DEF Held, Of, At, Waiting
    <3>2. CASE Of(s) # a
      BY <1>2, <1>3, <2>1, <3>2 DEF Held, Of, At, Waiting, Spare, Begun
    <3> QED BY <3>1, <3>2
  <2> QED BY <2>4, <2>5
<1>7. \A b \in arrived' : Noted(b)'
  BY <1>1, <1>2, <1>3, <1>4 DEF Ordered, Noted, Step, Of
<1>8. UploadedOnce' /\ \A b \in Archives : There(b)'
  BY <1>2, <1>3, <1>4 DEF Ordered, UploadedOnce, There, Step, Of
<1> QED BY <1>1, <1>6, <1>7, <1>8 DEF Ordered

(* A sender goes on, and nothing else does: what it holds it held before. *)
LEMMA SenderOrdered ==
  ASSUME Ordered, Typed', NEW s \in Senders, NEW m,
         send' = [send EXCEPT ![s] = m], UNCHANGED <<row, remote, arrived, twice, unsaid, cut>>,
         ~Step(s, "stored"), ~Step(s, "deleted"),
         m.step \notin {"stored", "deleted"},
         m.step \in {"claimed", "sealed"} =>
           m.of = Of(s) /\ send[s].step \in {"claimed", "sealed"},
         m.step = "chosen" => \A a \in m.view : Past(a)
  PROVE  Ordered'
<1>1. send'[s] = m /\ \A t \in Senders \ {s} : send'[t] = send[t]
  BY DEF Ordered, Typed, TypeOK
<1>2. \A a : Past(a)' <=> Past(a)
  BY DEF Past
<1>3. \A t \in Senders : \A a : At(t, a)' => At(t, a)
  BY <1>1 DEF At, Of
<1>4. ASSUME NEW t \in Senders PROVE Held(t)' /\ Settled(t)' /\ Stored(t)'
  <2>1. CASE t = s
    BY <1>1, <1>2, <1>3, <2>1 DEF Ordered, Held, Settled, Stored, Step, Of, Waiting
  <2>2. CASE t # s
    BY <1>1, <1>2, <1>3, <2>2 DEF Ordered, Held, Settled, Stored, Step, Of, Waiting
  <2> QED BY <2>1, <2>2
<1>5. \A a \in arrived' : Noted(a)'
  BY <1>1 DEF Ordered, Noted, Step, Of
<1>6. UploadedOnce' /\ \A a \in Archives : There(a)'
  BY <1>1 DEF Ordered, UploadedOnce, There, Step, Of
<1> QED BY <1>4, <1>5, <1>6 DEF Ordered

LEMMA ReadOrdered ==
  ASSUME Ordered, NEW s \in Senders, NEW a \in Archives, ReadRow(s, a)
  PROVE  Ordered'
<1> DEFINE m == [Resting EXCEPT !.step = "read", !.of = a, !.was = row[a]]
<1>1. Typed /\ Typed'
  BY ReadTyped DEF Ordered, Typed
<1>2. send' = [send EXCEPT ![s] = m] /\ Step(s, "idle")
  BY DEF ReadRow
<1>3. m.step = "read" /\ UNCHANGED <<row, remote, arrived, twice, unsaid, cut>>
  BY DEF Resting, ReadRow
<1> HIDE DEF m
<1> QED BY <1>1, <1>2, <1>3, SenderOrdered DEF Step

LEMMA QuietOrdered ==
  ASSUME Ordered, NEW s \in Senders,
         \/ \E a \in Archives : ReadRow(s, a)
         \/ \E a \in Archives : DeleteRefused(s, a) /\ UNCHANGED <<remote, unsaid>>
         \/ Seal(s) \/ ListRemote(s) \/ ChooseRemote(s) \/ EndRemote(s) \/ Escapes(s)
  PROVE  Ordered'
<1>1. Typed /\ Typed' /\ send \in [Senders -> Sendings] /\ send[s] \in Sendings
  BY ReadTyped, SendTyped, RetentionTyped DEF Ordered, Typed, TypeOK
<1>2. Resting.step = "idle"
  BY DEF Resting
<1>3. UNCHANGED <<row, remote, arrived, twice, unsaid, cut>>
  BY DEF ReadRow, DeleteRefused, Seal, ListRemote, ChooseRemote, EndRemote, Escapes
<1>4. ASSUME NEW a \in Archives, ReadRow(s, a)
      PROVE  Ordered'
  BY <1>4, ReadOrdered
<1>5. ASSUME NEW a \in Archives, DeleteRefused(s, a), UNCHANGED <<remote, unsaid>>
      PROVE  Ordered'
  <2> DEFINE m == [send[s] EXCEPT !.view = send[s].view \ {a}]
  <2>1. send' = [send EXCEPT ![s] = m] /\ Step(s, "chosen")
    BY <1>1, <1>5 DEF DeleteRefused
  <2>2. m.step = "chosen" /\ m.view = send[s].view \ {a}
    BY <1>1, <2>1 DEF Step, Sendings
  <2>3. \A b \in m.view : Past(b)
    BY <2>1, <2>2 DEF Ordered, Settled, Step
  <2> HIDE DEF m
  <2> QED BY <1>1, <1>3, <2>1, <2>2, <2>3, SenderOrdered DEF Step
<1>6. CASE Seal(s)
  <2> DEFINE m == [send[s] EXCEPT !.step = "sealed"]
  <2>1. send' = [send EXCEPT ![s] = m] /\ Step(s, "claimed")
    BY <1>1, <1>6 DEF Seal
  <2>2. m.step = "sealed" /\ m.of = Of(s)
    BY <1>1 DEF Of, Sendings
  <2> HIDE DEF m
  <2> QED BY <1>1, <1>3, <2>1, <2>2, SenderOrdered DEF Step
<1>7. CASE ListRemote(s)
  <2> DEFINE m == IF RemoteKeep = 0 THEN Resting ELSE [send[s] EXCEPT !.step = "listed", !.view = remote]
  <2>1. send' = [send EXCEPT ![s] = m] /\ Step(s, "recorded")
    BY <1>1, <1>7 DEF ListRemote
  <2>2. m.step \in {"idle", "listed"}
    BY <1>1, <1>2 DEF Sendings
  <2> HIDE DEF m
  <2> QED BY <1>1, <1>3, <2>1, <2>2, SenderOrdered DEF Step
<1>8. CASE ChooseRemote(s)
  <2> DEFINE beyond == {a \in send[s].view : Beyond(send[s].view, a)}
             m == [Resting EXCEPT !.step = "chosen", !.view = beyond]
  <2>1. send' = [send EXCEPT ![s] = m] /\ Step(s, "listed")
    BY <1>8 DEF ChooseRemote
  <2>2. \A a \in beyond : Past(a)
    BY DEF Beyond, Ours, Past
  <2> HIDE DEF beyond
  <2>3. m.step = "chosen" /\ m.view = beyond
    BY DEF Resting
  <2> HIDE DEF m
  <2> QED BY <1>1, <1>3, <2>1, <2>2, <2>3, SenderOrdered DEF Step
<1>9. CASE EndRemote(s) \/ Escapes(s)
  <2>1. send' = [send EXCEPT ![s] = Resting] /\ send[s].step \in {"chosen", "claimed"}
    BY <1>9 DEF EndRemote, Escapes, Step
  <2> QED BY <1>1, <1>2, <1>3, <2>1, SenderOrdered DEF Step
<1> QED BY <1>4, <1>5, <1>6, <1>7, <1>8, <1>9

(* Another sender's hold stands while one row, a, is written that it is not at,
   or that it has lost. *)
LEMMA StaysHeld ==
  ASSUME Ordered, NEW t \in Senders, send'[t] = send[t], cut' = cut, NEW a \in Archives,
         \A b \in Archives \ {a} : row'[b] = row[b], row'[a].state # "none",
         At(t, a) => a \in cut,
         \A u \in Senders, b \in Archives \ {a} : At(u, b)' => At(u, b)
  PROVE  Held(t)'
<1>1. SUFFICES ASSUME send[t].step \in {"claimed", "sealed", "stored"}
               PROVE  /\ row'[send[t].of].state # "none"
                      /\ \/ send[t].of \in cut
                         \/ /\ row'[send[t].of].lease
                            /\ row'[send[t].of].state \in {"pending", "failed"}
                            /\ \A u \in Senders \ {t} : ~At(u, send[t].of)'
  BY DEF Held, Of, Waiting
<1>2. send[t].of \in Archives
  BY <1>1 DEF Ordered, Typed, Spare, Begun, Of
<1>3. /\ row[send[t].of].state # "none"
      /\ \/ send[t].of \in cut
         \/ /\ row[send[t].of].lease /\ row[send[t].of].state \in {"pending", "failed"}
            /\ \A u \in Senders \ {t} : ~At(u, send[t].of)
  BY <1>1 DEF Ordered, Held, Of, Waiting
<1>4. CASE send[t].of = a
  BY <1>1, <1>4 DEF At
<1>5. CASE send[t].of # a
  <2>1. row'[send[t].of] = row[send[t].of]
    BY <1>2, <1>5
  <2>2. ASSUME NEW u \in Senders \ {t}, ~At(u, send[t].of) PROVE ~At(u, send[t].of)'
    BY <1>2, <1>5, <2>2
  <2> QED BY <1>3, <2>1, <2>2
<1> QED BY <1>4, <1>5

(* The claim: whoever else is at the row has lost its lease. *)
LEMMA ClaimOrdered ==
  ASSUME Ordered, NEW s \in Senders, ClaimRow(s)
  PROVE  Ordered'
<1>1. Typed /\ Typed' /\ send \in [Senders -> Sendings] /\ send[s] \in Sendings
      /\ row \in [Archives -> OffsiteRows]
  BY ClaimTyped DEF Ordered, Typed, TypeOK
<1>2. Resting.step = "idle" /\ Step(s, "read") /\ UNCHANGED <<remote, arrived, twice, unsaid, cut>>
  BY DEF Resting, ClaimRow
<1>3. CASE UNCHANGED row /\ send' = [send EXCEPT ![s] = Resting]
  BY <1>1, <1>2, <1>3, SenderOrdered DEF Step
<1>4. CASE /\ row[Of(s)].state = send[s].was.state /\ ~row[Of(s)].lease
           /\ row' = [row EXCEPT ![Of(s)].lease = TRUE]
           /\ \E now \in 1 .. MaxMoments :
                send' = [send EXCEPT ![s].step = "claimed", ![s].began = now]
  <2>1. Of(s) \in Archives /\ row[Of(s)].state \in {"pending", "failed"}
    BY <1>1, <1>2, <1>4 DEF Typed, Spare, Begun, Step
  <2>2. /\ Of(s)' = Of(s) /\ send'[s].step = "claimed"
        /\ \A t \in Senders \ {s} : send'[t] = send[t]
    BY <1>1, <1>4 DEF Of, Sendings
  <2>3. /\ \A a \in Archives : row'[a].state = row[a].state
        /\ \A a \in Archives \ {Of(s)} : row'[a] = row[a]
        /\ row'[Of(s)].lease = TRUE
    BY <1>1, <1>4, <2>1 DEF OffsiteRows
  <2>4. \A t \in Senders \ {s} : At(t, Of(s)) => Of(s) \in cut
    BY <1>4 DEF Ordered, Held, At, Of
  <2>5. Held(s)'
    BY <1>2, <2>1, <2>2, <2>3, <2>4 DEF Held, Waiting, At, Of
  <2>6. Settled(s)' /\ Stored(s)'
    BY <2>2 DEF Settled, Stored, Step
  <2>7. ASSUME NEW t \in Senders \ {s} PROVE Held(t)' /\ Settled(t)' /\ Stored(t)'
    <3>1. Held(t) /\ Settled(t) /\ Stored(t) /\ Spare(t) /\ Named(t) /\ send[t].view \subseteq Archives
      BY <1>1 DEF Ordered, Typed, Sendings
    <3>2. \A a \in Archives : Past(a) => Past(a)'
      BY <1>2, <2>3 DEF Past
    <3>3. Settled(t)' /\ Stored(t)'
      BY <1>2, <2>2, <3>1, <3>2 DEF Settled, Stored, Step, Of, Named
    <3>4. Held(t)'
      <4>1. \A u \in Senders, b \in Archives \ {Of(s)} : At(u, b)' => At(u, b)
        BY <2>2 DEF At, Of
      <4> QED BY <1>2, <2>1, <2>2, <2>3, <2>4, <4>1, StaysHeld
    <3> QED BY <3>3, <3>4
  <2>8. \A a \in arrived' : Noted(a)'
    BY <1>1, <1>2, <2>2, <2>3 DEF Ordered, Typed, TypeOK, Noted, Step, Of
  <2>9. UploadedOnce' /\ \A a \in Archives : There(a)'
    BY <1>2, <2>2, <2>3 DEF Ordered, UploadedOnce, There, Step, Of
  <2> QED BY <1>1, <2>5, <2>6, <2>7, <2>8, <2>9 DEF Ordered
<1> QED BY <1>3, <1>4 DEF ClaimRow

(* What a sender holds nobody else does, unless it was cut off; and nothing that
   retention has settled on is held. *)
LEMMA HeldAlone ==
  ASSUME Ordered, NEW s \in Senders, send[s].step \in {"claimed", "sealed", "stored"},
         Of(s) \notin cut
  PROVE  /\ Waiting(Of(s)) /\ ~Past(Of(s))
         /\ \A t \in Senders \ {s} : ~At(t, Of(s))
BY DEF Ordered, Held, Waiting, Past

LEMMA StoreOrdered ==
  ASSUME Ordered, NEW s \in Senders, Store(s)
  PROVE  Ordered'
<1>1. Typed /\ Typed' /\ send \in [Senders -> Sendings] /\ send[s] \in Sendings
      /\ Step(s, "sealed") /\ Of(s) \in Archives
  BY SendTyped DEF Ordered, Typed, TypeOK, Store, Spare, Begun, Step
<1>2. /\ Of(s)' = Of(s) /\ send'[s].step = "stored"
      /\ \A t \in Senders \ {s} : send'[t] = send[t]
  BY <1>1 DEF Store, Of, Sendings
<1>3. UNCHANGED <<row, cut, unsaid>> /\ remote' = remote \cup {Of(s)}
      /\ arrived' = arrived \cup {Of(s)}
  BY DEF Store
<1>4. \A t \in Senders : \A a : At(t, a)' <=> At(t, a)
  BY <1>1, <1>2 DEF At, Of, Step
<1>5. \A a : Past(a)' <=> Past(a)
  BY <1>3 DEF Past
<1>6. ASSUME NEW t \in Senders PROVE Held(t)' /\ Settled(t)' /\ Stored(t)'
  <2>1. CASE t = s
    BY <1>1, <1>2, <1>3, <1>4, <2>1 DEF Ordered, Held, Settled, Stored, Step, Waiting, Of
  <2>2. CASE t # s
    BY <1>2, <1>3, <1>4, <1>5, <2>2 DEF Ordered, Held, Settled, Stored, Step, Waiting, Of
  <2> QED BY <2>1, <2>2
<1>7. ASSUME NEW a \in arrived' PROVE Noted(a)'
  <2>1. CASE a = Of(s)
    BY <1>2, <2>1 DEF Noted, Step, Of
  <2>2. CASE a # Of(s)
    <3>1. Noted(a)
      BY <1>3, <2>2 DEF Ordered
    <3> QED BY <1>1, <1>2, <1>3, <3>1 DEF Noted, Step, Of
  <2> QED BY <2>1, <2>2
<1>8. Of(s) \in arrived => Of(s) \in cut
  <2>1. SUFFICES ASSUME Of(s) \in arrived, Of(s) \notin cut PROVE FALSE
    OBVIOUS
  <2>2. ~Past(Of(s)) /\ \A t \in Senders \ {s} : ~At(t, Of(s))
    BY <1>1, <2>1, HeldAlone DEF Step
  <2>3. PICK t \in Senders : Step(t, "stored") /\ Of(t) = Of(s)
    BY <2>1, <2>2 DEF Ordered, Noted, Past
  <2> QED BY <1>1, <2>2, <2>3 DEF Step, At, Of
<1>9. UploadedOnce'
  BY <1>3, <1>8 DEF Ordered, UploadedOnce, Store
<1>10. \A a \in Archives : There(a)'
  BY <1>1, <1>2, <1>3 DEF Ordered, There, Step, Of
<1> QED BY <1>1, <1>6, <1>7, <1>9, <1>10 DEF Ordered

(* The row of the archive in hand is written, failed or sent, and the sender is
   at it no more. *)
LEMMA WriteOrdered ==
  ASSUME Ordered, Typed', NEW s \in Senders, NEW m, NEW new \in {"failed", "sent"},
         send[s].step \in {"claimed", "sealed", "stored"},
         new = "sent" => Step(s, "stored"), arrived' \subseteq arrived,
         new = "failed" /\ Step(s, "stored") => Of(s) \notin arrived',
         send' = [send EXCEPT ![s] = m], m.step \in {"idle", "recorded"},
         \A a \in Archives \ {Of(s)} : row'[a] = row[a],
         row'[Of(s)].state = new, UNCHANGED <<remote, twice, unsaid, cut>>
  PROVE  Ordered'
<1>1. /\ send'[s] = m /\ \A t \in Senders \ {s} : send'[t] = send[t]
      /\ Of(s) \in Archives /\ arrived \subseteq Archives
  BY DEF Ordered, Typed, TypeOK, Spare, Begun
<1>2. \A t \in Senders : \A a : At(t, a)' => At(t, a) /\ t # s
  BY <1>1 DEF At, Of
<1>3. \A a \in Archives : Past(a) => Past(a)'
  <2>1. Past(Of(s)) => Of(s) \in cut
    BY HeldAlone
  <2> QED BY <2>1 DEF Past
<1>4. ASSUME NEW t \in Senders PROVE Held(t)' /\ Settled(t)' /\ Stored(t)'
  <2>1. CASE t = s
    BY <1>1, <2>1 DEF Held, Settled, Stored, Step
  <2>2. CASE t # s
    <3>1. Held(t) /\ Settled(t) /\ Stored(t) /\ Spare(t) /\ Named(t) /\ send[t].view \subseteq Archives
      BY DEF Ordered, Typed, TypeOK, Sendings
    <3>2. Of(t)' = Of(t) /\ send'[t] = send[t]
      BY <1>1, <2>2 DEF Of
    <3>3. Settled(t)' /\ Stored(t)'
      BY <1>3, <3>1, <3>2 DEF Settled, Stored, Step, Named
    <3>4. At(t, Of(s)) => Of(s) \in cut
      BY <2>2, HeldAlone
    <3>5. Held(t)'
      BY <1>1, <1>2, <3>2, <3>4, StaysHeld
    <3> QED BY <3>3, <3>5
  <2> QED BY <2>1, <2>2
<1>5. ASSUME NEW a \in arrived' PROVE Noted(a)'
  <2>1. Noted(a) /\ a \in Archives
    BY <1>1 DEF Ordered
  <2>2. CASE a = Of(s) /\ a \notin cut
    <3>1. ~Past(a) /\ \A t \in Senders \ {s} : ~At(t, a)
      BY <2>2, HeldAlone
    <3>2. Step(s, "stored")
      BY <2>1, <2>2, <3>1 DEF Noted, Past, At, Step, Of
    <3>3. row'[a].state = "sent"
      BY <2>2, <3>2
    <3> QED BY <3>3 DEF Noted
  <2>3. CASE a # Of(s)
    BY <1>1, <2>1, <2>3 DEF Noted, Step, Of
  <2> QED BY <2>2, <2>3 DEF Noted
<1>6. ASSUME NEW a \in Archives PROVE There(a)'
  <2>1. CASE a = Of(s)
    BY <2>1 DEF Ordered, Stored, There
  <2>2. CASE a # Of(s)
    <3>1. ~Step(s, "deleted")
      BY DEF Step
    <3> QED BY <1>1, <2>2, <3>1 DEF Ordered, There, Step, Of
  <2> QED BY <2>1, <2>2
<1> QED BY <1>4, <1>5, <1>6 DEF Ordered, UploadedOnce

LEMMA OutcomeOrdered ==
  ASSUME Ordered, NEW s \in Senders, RecordSent(s) \/ \E final \in BOOLEAN : Fail(s, final)
  PROVE  Ordered'
<1>1. Typed /\ Typed' /\ send \in [Senders -> Sendings] /\ send[s] \in Sendings
      /\ send[s].was \in OffsiteRows /\ row \in [Archives -> OffsiteRows]
  BY SendTyped DEF Ordered, Typed, TypeOK, Sendings
<1>2. CASE RecordSent(s)
  <2> DEFINE m == [send[s] EXCEPT !.step = "recorded"]
             new == [send[s].was EXCEPT !.state = "sent", !.attempts = send[s].was.attempts + 1,
                                        !.due = FALSE, !.lease = FALSE, !.sentAt = send[s].began]
  <2>1. Step(s, "stored") /\ Of(s) \in Archives
    BY <1>1, <1>2 DEF RecordSent, Step, Typed, Spare, Begun
  <2>2. row' = [row EXCEPT ![Of(s)] = new] /\ send' = [send EXCEPT ![s] = m]
        /\ UNCHANGED <<remote, arrived, twice, unsaid, cut>>
    BY <1>1, <1>2 DEF RecordSent
  <2>3. new.state = "sent" /\ m.step = "recorded"
    BY <1>1 DEF OffsiteRows, Sendings
  <2> HIDE DEF m, new
  <2>4. row'[Of(s)].state = "sent" /\ \A a \in Archives \ {Of(s)} : row'[a] = row[a]
    BY <1>1, <2>1, <2>2, <2>3
  <2> QED BY <1>1, <2>1, <2>2, <2>3, <2>4, WriteOrdered DEF Step
<1>3. ASSUME NEW final \in BOOLEAN, Fail(s, final)
      PROVE  Ordered'
  <2> DEFINE new == [send[s].was EXCEPT !.state = "failed",
                       !.attempts = IF final THEN MaxAttempts ELSE send[s].was.attempts + 1,
                       !.due = FALSE, !.lease = FALSE]
  <2>1. send[s].step \in {"claimed", "sealed", "stored"} /\ Of(s) \in Archives
    BY <1>1, <1>3 DEF Fail, Typed, Spare, Begun
  <2>2. row' = [row EXCEPT ![Of(s)] = new] /\ send' = [send EXCEPT ![s] = Resting]
        /\ UNCHANGED <<remote, twice, unsaid, cut>>
        /\ arrived' \subseteq arrived /\ (Step(s, "stored") => Of(s) \notin arrived')
    BY <1>3 DEF Fail
  <2>3. new.state = "failed" /\ Resting.step = "idle"
    BY <1>1 DEF OffsiteRows, Resting
  <2> HIDE DEF new
  <2>4. row'[Of(s)].state = "failed" /\ \A a \in Archives \ {Of(s)} : row'[a] = row[a]
    BY <1>1, <2>1, <2>2, <2>3
  <2> QED BY <1>1, <2>1, <2>2, <2>3, <2>4, WriteOrdered DEF Step
<1> QED BY <1>2, <1>3

(* Retention there deletes what nobody holds, and then says so; or is not heard. *)
Unheard(s, a) == DeleteRefused(s, a) /\ remote' = remote \ {a} /\ unsaid' = unsaid \cup {a}

LEMMA DeleteOrdered ==
  ASSUME Ordered, NEW s \in Senders, NEW a \in Archives, DeleteRemote(s, a) \/ Unheard(s, a)
  PROVE  Ordered'
<1>1. Typed /\ Typed' /\ send \in [Senders -> Sendings] /\ send[s] \in Sendings
  BY RetentionTyped DEF Ordered, Typed, TypeOK, Unheard
<1>2. /\ send'[s].view \subseteq send[s].view /\ \A t \in Senders \ {s} : send'[t] = send[t]
      /\ Step(s, "chosen") /\ a \in send[s].view
      /\ UNCHANGED <<row, arrived, twice, cut>> /\ remote' = remote \ {a}
      /\ \/ send'[s].step = "deleted" /\ send'[s].of = a /\ unsaid' = unsaid
         \/ send'[s].step = "chosen" /\ unsaid' = unsaid \cup {a}
  <2>1. CASE DeleteRemote(s, a)
    BY <1>1, <2>1 DEF DeleteRemote, Sendings
  <2>2. CASE Unheard(s, a)
    BY <1>1, <2>2 DEF Unheard, DeleteRefused, Sendings, Step
  <2> QED BY <2>1, <2>2
<1>3. Past(a) /\ \A b \in send[s].view : Past(b)
  BY <1>2 DEF Ordered, Settled, Step
<1>4. \A b : Past(b)' <=> Past(b)
  BY <1>2 DEF Past
<1>5. \A t \in Senders : \A b : At(t, b)' => At(t, b) /\ t # s
  BY <1>2 DEF At, Of
<1>6. ASSUME NEW t \in Senders PROVE Held(t)' /\ Settled(t)' /\ Stored(t)'
  <2>1. CASE t = s
    BY <1>2, <1>3, <1>4, <2>1 DEF Held, Settled, Stored, Step, Of
  <2>2. CASE t # s
    <3>1. Held(t) /\ Settled(t) /\ Stored(t)
      BY DEF Ordered
    <3>2. Held(t)' /\ Settled(t)'
      BY <1>2, <1>4, <1>5, <2>2, <3>1 DEF Held, Settled, Step, Of, Waiting
    <3>3. Step(t, "stored") /\ Of(t) = a => a \in cut
      BY <1>3, HeldAlone DEF Step
    <3> QED BY <1>2, <2>2, <3>1, <3>2, <3>3 DEF Stored, Step, Of
  <2> QED BY <2>1, <2>2
<1>7. \A b \in arrived' : Noted(b)'
  BY <1>2 DEF Ordered, Noted, Step, Of
<1>8. ASSUME NEW b \in Archives PROVE There(b)'
  <2>1. There(b)
    BY DEF Ordered
  <2>2. b = a => b \in unsaid' \/ (send'[s].step = "deleted" /\ send'[s].of = b)
    BY <1>2
  <2> QED BY <1>2, <2>1, <2>2 DEF There, Step, Of
<1>9. UploadedOnce'
  BY <1>2 DEF Ordered, UploadedOnce
<1> QED BY <1>1, <1>6, <1>7, <1>8, <1>9 DEF Ordered

LEMMA NoteOrdered ==
  ASSUME Ordered, NEW s \in Senders, NoteRemoved(s)
  PROVE  Ordered'
<1>1. Typed /\ Typed' /\ send \in [Senders -> Sendings] /\ send[s] \in Sendings
      /\ row \in [Archives -> OffsiteRows] /\ Of(s) \in Archives /\ arrived \subseteq Archives
  BY RetentionTyped DEF Ordered, Typed, TypeOK, NoteRemoved, Step, Named
<1>2. /\ send'[s].step = "chosen" /\ send'[s].view = send[s].view
      /\ \A t \in Senders \ {s} : send'[t] = send[t]
      /\ Step(s, "deleted") /\ UNCHANGED <<remote, arrived, twice, unsaid, cut>>
  BY <1>1 DEF NoteRemoved, Sendings
<1>3. /\ row'[Of(s)].state = "removed" /\ row'[Of(s)].lease = row[Of(s)].lease
      /\ \A b \in Archives \ {Of(s)} : row'[b] = row[b]
  BY <1>1 DEF NoteRemoved, OffsiteRows
<1>4. Past(Of(s)) /\ \A b \in send[s].view : Past(b)
  BY <1>2 DEF Ordered, Settled, Step
<1>5. \A b \in Archives : Past(b) => Past(b)'
  BY <1>2, <1>3 DEF Past
<1>6. \A t \in Senders : \A b : At(t, b)' => At(t, b) /\ t # s
  BY <1>2 DEF At, Of
<1>7. ASSUME NEW t \in Senders PROVE Held(t)' /\ Settled(t)' /\ Stored(t)'
  <2>1. CASE t = s
    <3>1. send[s].view \subseteq Archives
      BY <1>1 DEF Sendings
    <3> QED BY <1>2, <1>4, <1>5, <2>1, <3>1 DEF Held, Settled, Stored, Step, Of
  <2>2. CASE t # s
    <3>1. Held(t) /\ Settled(t) /\ Stored(t) /\ Spare(t) /\ Named(t) /\ send[t].view \subseteq Archives
      BY <1>1 DEF Ordered, Typed, Sendings
    <3>2. Of(t)' = Of(t) /\ send'[t] = send[t]
      BY <1>2, <2>2 DEF Of
    <3>3. Settled(t)' /\ Stored(t)'
      BY <1>2, <1>5, <3>1, <3>2 DEF Settled, Stored, Step, Named
    <3>4. At(t, Of(s)) => Of(s) \in cut
      BY <1>4, HeldAlone DEF At, Of
    <3>5. Held(t)'
      BY <1>1, <1>2, <1>3, <1>6, <3>2, <3>4, StaysHeld
    <3> QED BY <3>3, <3>5
  <2> QED BY <2>1, <2>2
<1>8. ASSUME NEW b \in arrived' PROVE Noted(b)'
  <2>1. Noted(b) /\ b \in Archives
    BY <1>1, <1>2 DEF Ordered
  <2>2. CASE b = Of(s)
    BY <1>3, <2>2 DEF Noted
  <2>3. CASE b # Of(s)
    BY <1>2, <1>3, <2>1, <2>3 DEF Noted, Step, Of
  <2> QED BY <2>2, <2>3
<1>9. ASSUME NEW b \in Archives PROVE There(b)'
  <2>1. CASE b = Of(s)
    BY <1>3, <2>1 DEF There
  <2>2. CASE b # Of(s)
    BY <1>2, <1>3, <2>2 DEF Ordered, There, Step, Of
  <2> QED BY <2>1, <2>2
<1> QED BY <1>1, <1>2, <1>7, <1>8, <1>9 DEF Ordered, UploadedOnce

LEMMA KillOrdered ==
  ASSUME Ordered, NEW s \in Senders, KillSender(s)
  PROVE  Ordered'
<1>1. Typed /\ Typed' /\ send \in [Senders -> Sendings] /\ Resting.step = "idle"
  BY KillTyped DEF Ordered, Typed, TypeOK, Resting
<1>2. /\ send'[s].step = "idle" /\ \A t \in Senders \ {s} : send'[t] = send[t]
      /\ UNCHANGED <<row, remote, arrived, twice, unsaid>> /\ cut \subseteq cut'
      /\ Step(s, "stored") \/ Step(s, "deleted") => Of(s) \in cut'
  BY <1>1 DEF KillSender, Step
<1>3. \A b : Past(b) => Past(b)'
  BY <1>2 DEF Past
<1>4. \A t \in Senders : \A b : At(t, b)' => At(t, b)
  BY <1>2 DEF At, Of
<1>5. ASSUME NEW t \in Senders PROVE Held(t)' /\ Settled(t)' /\ Stored(t)'
  <2>1. CASE t = s
    BY <1>2, <2>1 DEF Held, Settled, Stored, Step
  <2>2. CASE t # s
    BY <1>2, <1>3, <1>4, <2>2 DEF Ordered, Held, Settled, Stored, Step, Of, Waiting
  <2> QED BY <2>1, <2>2
<1>6. \A b \in arrived' : Noted(b)'
  BY <1>2 DEF Ordered, Noted, Step, Of
<1>7. UploadedOnce' /\ \A b \in Archives : There(b)'
  BY <1>2 DEF Ordered, UploadedOnce, There, Step, Of
<1> QED BY <1>1, <1>5, <1>6, <1>7 DEF Ordered

LEMMA NextOrdered == Ordered /\ [Next]_vars => Ordered'
<1> SUFFICES ASSUME Ordered, [Next]_vars PROVE Ordered'
  OBVIOUS
<1>1. CASE UNCHANGED vars \/ Installs
  <2>1. Typed'
    BY <1>1, NextTyped, InstallTyped DEF Ordered
  <2>2. UNCHANGED <<row, send, remote, arrived, twice, unsaid, cut>>
    BY <1>1 DEF vars, Installs
  <2> QED BY <2>1, <2>2 DEF Ordered, Held, Settled, Stored, Noted, There, UploadedOnce,
                            Past, Waiting, At, Of, Step
<1>2. CASE Next /\ ~Installs
  <2>1. ASSUME NEW s \in Senders, NEW a \in Archives, DeleteRefused(s, a)
        PROVE  Ordered'
    <3>1. Unheard(s, a) \/ UNCHANGED <<remote, unsaid>>
      BY <2>1 DEF DeleteRefused, Unheard
    <3> QED BY <2>1, <3>1, DeleteOrdered, QuietOrdered
  <2>2. ASSUME NEW s \in Senders, Goes(s)
        PROVE  Ordered'
    BY <2>1, <2>2, QuietOrdered, ClaimOrdered, StoreOrdered, OutcomeOrdered, DeleteOrdered,
       NoteOrdered DEF Goes, GoesOn
  <2>3. ASSUME NEW s \in Senders, Escapes(s) \/ KillSender(s) \/ \E a \in Archives : ReadRow(s, a)
        PROVE  Ordered'
    <3>1. CASE Escapes(s)
      BY <3>1, QuietOrdered
    <3>2. CASE KillSender(s)
      BY <3>2, KillOrdered
    <3>3. ASSUME NEW a \in Archives, ReadRow(s, a) PROVE Ordered'
      BY <3>3, ReadOrdered
    <3> QED BY <2>3, <3>1, <3>2, <3>3
  <2> QED BY <1>2, <2>2, <2>3, RowOrdered DEF Next
<1> QED BY <1>1, <1>2

LEMMA AlwaysOrdered == Spec => []Ordered
BY InitOrdered, NextOrdered, PTL DEF Spec

(* An archive is uploaded once, and once more for each answer that was lost after the
   destination had it, unless its sender was cut off. *)
THEOREM OffsiteUploadsOnce == Spec => []UploadedOnce
<1>1. Ordered => UploadedOnce
  BY DEF Ordered
<1> QED BY <1>1, AlwaysOrdered, PTL

(* What the rows call sent is at the destination, but for those cut off, those it has
   deleted and not said so, and the moment between the deletion there and the row. *)
THEOREM OffsiteSentIsThere == Spec => []SentIsThere
<1>1. Ordered => SentIsThere
  BY DEF Ordered, SentIsThere, There
<1> QED BY <1>1, AlwaysOrdered, PTL

-----------------------------------------------------------------------------
(* The state of each row, as module Shipments sees it. *)
Shown == [a \in Archives |-> row[a].state]
Same == \A a \in Archives : row'[a].state = row[a].state
Ship == \E a \in Archives : Rows!Queued(a) \/ Rows!Ships(a)

LEMMA SameShown == ASSUME Same PROVE UNCHANGED Shown
BY DEF Same, Shown

LEMMA OneShown ==
  ASSUME NEW a \in Archives, \A b \in Archives \ {a} : row'[b] = row[b]
  PROVE  Shown' = [Shown EXCEPT ![a] = row'[a].state]
BY DEF Shown

(* A row that is written by a sender that holds it waits, or may be written over. *)
LEMMA MayWrite ==
  ASSUME Ordered, NEW s \in Senders, send[s].step \in {"claimed", "sealed", "stored"}
  PROVE  /\ Of(s) \in Archives
         /\ Shown[Of(s)] \in {"pending", "failed"} \/ (Of(s) \in cut /\ Shown[Of(s)] # "none")
<1>1. Of(s) \in Archives
  BY DEF Ordered, Typed, Spare, Begun
<1> QED BY <1>1 DEF Ordered, Held, Waiting, Shown

LEMMA QueueShips ==
  ASSUME Ordered, NEW a \in Archives, Enqueue(a)
  PROVE  Rows!Queued(a)
<1>1. row \in [Archives -> OffsiteRows]
  BY DEF Ordered, Typed, TypeOK
<1>2. row'[a].state = "pending" /\ \A b \in Archives \ {a} : row'[b] = row[b]
  BY <1>1, Rests DEF Enqueue, OffsiteRows
<1>3. Shown[a] = "none" /\ cut' = cut
  BY DEF Enqueue, Shown
<1>4. Shown' = [Shown EXCEPT ![a] = "pending"]
  BY <1>2, OneShown
<1> QED BY <1>3, <1>4 DEF Rows!Queued, Rows!Becomes, Shown

LEMMA OutlivedShips ==
  ASSUME Ordered, NEW a \in Archives, LeaseOutlived(a)
  PROVE  Rows!IsCut(a)
<1>1. row \in [Archives -> OffsiteRows]
  BY DEF Ordered, Typed, TypeOK
<1>2. Same /\ cut' = cut \cup {a}
  BY <1>1 DEF Same, LeaseOutlived, OffsiteRows
<1> QED BY <1>2, SameShown DEF Rows!IsCut, Shown

(* Due again, or held no longer: the state of the row stays. *)
LEMMA RowQuiet ==
  ASSUME Ordered, NEW a \in Archives, SendAgain(a) \/ RetryComes(a) \/ LeaseRunsOut(a)
  PROVE  UNCHANGED <<Shown, cut>>
<1>1. row \in [Archives -> OffsiteRows]
  BY DEF Ordered, Typed, TypeOK
<1>2. Same /\ cut' = cut
  BY <1>1 DEF Same, SendAgain, RetryComes, LeaseRunsOut, OffsiteRows
<1> QED BY <1>2, SameShown

LEMMA RecordShips ==
  ASSUME Ordered, NEW s \in Senders, RecordSent(s), NEW a, a = Of(s)
  PROVE  a \in Archives /\ (Rows!Arrives(a) \/ Rows!Returns(a))
<1>1. /\ row \in [Archives -> OffsiteRows] /\ send[s].was \in OffsiteRows
      /\ send[s].step \in {"claimed", "sealed", "stored"}
  BY DEF Ordered, Typed, TypeOK, Sendings, RecordSent, Step
<1>2. /\ Of(s) \in Archives
      /\ Shown[Of(s)] \in {"pending", "failed"} \/ (Of(s) \in cut /\ Shown[Of(s)] # "none")
  BY <1>1, MayWrite
<1>3. row'[Of(s)].state = "sent" /\ \A b \in Archives \ {Of(s)} : row'[b] = row[b]
  BY <1>1, <1>2 DEF RecordSent, OffsiteRows
<1>4. Shown' = [Shown EXCEPT ![Of(s)] = "sent"] /\ cut' = cut
  BY <1>2, <1>3, OneShown DEF RecordSent
<1> QED BY <1>2, <1>4 DEF Rows!Arrives, Rows!Returns, Rows!Waits, Rows!Becomes, Shown

LEMMA FailShips ==
  ASSUME Ordered, NEW s \in Senders, NEW final \in BOOLEAN, Fail(s, final), NEW a, a = Of(s)
  PROVE  a \in Archives /\ (Rows!Fails(a) \/ Rows!Returns(a))
<1>1. /\ row \in [Archives -> OffsiteRows] /\ send[s].was \in OffsiteRows
      /\ send[s].step \in {"claimed", "sealed", "stored"}
  BY DEF Ordered, Typed, TypeOK, Sendings, Fail
<1>2. /\ Of(s) \in Archives
      /\ Shown[Of(s)] \in {"pending", "failed"} \/ (Of(s) \in cut /\ Shown[Of(s)] # "none")
  BY <1>1, MayWrite
<1>3. row'[Of(s)].state = "failed" /\ \A b \in Archives \ {Of(s)} : row'[b] = row[b]
  BY <1>1, <1>2 DEF Fail, OffsiteRows
<1>4. Shown' = [Shown EXCEPT ![Of(s)] = "failed"] /\ cut' = cut
  BY <1>2, <1>3, OneShown DEF Fail
<1> QED BY <1>2, <1>4 DEF Rows!Fails, Rows!Returns, Rows!Waits, Rows!Becomes, Shown

LEMMA NoteShips ==
  ASSUME Ordered, NEW s \in Senders, NoteRemoved(s), NEW a, a = Of(s)
  PROVE  a \in Archives /\ (Rows!Removes(a) \/ Rows!Returns(a) \/ UNCHANGED <<Shown, cut>>)
<1>1. row \in [Archives -> OffsiteRows] /\ Of(s) \in Archives /\ Past(Of(s))
  BY DEF Ordered, Typed, TypeOK, NoteRemoved, Named, Settled, Step
<1>2. row'[Of(s)].state = "removed" /\ \A b \in Archives \ {Of(s)} : row'[b] = row[b]
  BY <1>1 DEF NoteRemoved, OffsiteRows
<1>3. Shown' = [Shown EXCEPT ![Of(s)] = "removed"] /\ cut' = cut
  BY <1>1, <1>2, OneShown DEF NoteRemoved
<1>4. CASE Shown[Of(s)] = "removed"
  BY <1>1, <1>3, <1>4 DEF Shown
<1>5. CASE Shown[Of(s)] = "sent" \/ (Of(s) \in cut /\ Shown[Of(s)] # "none")
  BY <1>1, <1>3, <1>5 DEF Rows!Removes, Rows!Returns, Rows!Becomes, Shown
<1> QED BY <1>1, <1>4, <1>5 DEF Past, Shown

LEMMA KillShips ==
  ASSUME Ordered, NEW s \in Senders, KillSender(s), NEW a, a = Of(s)
  PROVE  UNCHANGED <<Shown, cut>> \/ (a \in Archives /\ Rows!IsCut(a))
<1>1. UNCHANGED Shown
  BY DEF KillSender, Shown
<1>2. CASE send[s].step \in {"stored", "deleted"}
  <2>1. Of(s) \in Archives /\ cut' = cut \cup {Of(s)}
    BY <1>2 DEF KillSender, Ordered, Typed, Spare, Named, Begun
  <2> QED BY <1>1, <2>1 DEF Rows!IsCut, Shown
<1>3. CASE send[s].step \notin {"stored", "deleted"}
  BY <1>1, <1>3 DEF KillSender
<1> QED BY <1>2, <1>3

(* The rest of what a sender does shows in no state of a row. *)
LEMMA QuietShips ==
  ASSUME Ordered, NEW s \in Senders,
         \/ ClaimRow(s) \/ Seal(s) \/ Store(s) \/ ListRemote(s) \/ ChooseRemote(s) \/ EndRemote(s)
         \/ Escapes(s)
         \/ \E a \in Archives : ReadRow(s, a) \/ DeleteRemote(s, a) \/ DeleteRefused(s, a)
  PROVE  UNCHANGED <<Shown, cut>>
<1>1. row \in [Archives -> OffsiteRows]
  BY DEF Ordered, Typed, TypeOK
<1>2. cut' = cut
  BY DEF ClaimRow, Seal, Store, ListRemote, ChooseRemote, EndRemote, ReadRow, DeleteRemote,
         DeleteRefused, Escapes
<1>3. CASE ClaimRow(s)
  <2>1. Same
    BY <1>1, <1>3 DEF Same, ClaimRow, OffsiteRows
  <2> QED BY <1>2, <2>1, SameShown
<1>4. CASE row' = row
  BY <1>2, <1>4 DEF Shown
<1> QED BY <1>3, <1>4 DEF Seal, Store, ListRemote, ChooseRemote, EndRemote, ReadRow, DeleteRemote,
                          DeleteRefused, Escapes

(* The rows go through what module Shipments promises: a copy waits until it has
   arrived, what has arrived waits no more, and what was removed does not come
   back, but where a sender was cut off or outlasted its lease. *)
THEOREM OffsiteImplementsShipments == Spec => KeepsWaiting
<1>1. Init => Rows!ShipmentsInit
  BY DEF Init, NoRow, Rows!ShipmentsInit
<1>2. Ordered /\ [Next]_vars => [Ship]_<<Shown, cut>>
  <2> SUFFICES ASSUME Ordered, [Next]_vars PROVE Ship \/ UNCHANGED <<Shown, cut>>
    OBVIOUS
  <2>1. CASE UNCHANGED vars \/ Installs
    BY <2>1 DEF vars, Installs, Shown
  <2>2. CASE Next /\ ~Installs
    <3>1. ASSUME NEW a \in Archives, Enqueue(a) \/ LeaseOutlived(a)
          PROVE  Ship
      BY <3>1, QueueShips, OutlivedShips DEF Ship, Rows!Ships
    <3>2. ASSUME NEW a \in Archives, Rows!Ships(a) PROVE Ship
      BY <3>2 DEF Ship
    <3>3. ASSUME NEW s \in Senders, \/ RecordSent(s) \/ NoteRemoved(s) \/ KillSender(s)
                                    \/ \E final \in BOOLEAN : Fail(s, final)
          PROVE  Ship \/ UNCHANGED <<Shown, cut>>
      <4>1. PICK a : a = Of(s)
        OBVIOUS
      <4>2. UNCHANGED <<Shown, cut>> \/ (a \in Archives /\ Rows!Ships(a))
        BY <3>3, <4>1, RecordShips, FailShips, NoteShips, KillShips DEF Rows!Ships
      <4> QED BY <3>2, <4>2
    <3> QED BY <2>2, <3>1, <3>3, RowQuiet, QuietShips DEF Next, Goes, GoesOn
  <2> QED BY <2>1, <2>2
<1> QED BY <1>1, <1>2, AlwaysOrdered, PTL
        DEF Spec, KeepsWaiting, Rows!ShipmentsSpec, Ship, Shown

-----------------------------------------------------------------------------
(* Retention at the destination.  A sender has settled on deleting a, ... *)
Chosen(s, a) == \/ send[s].step \in {"chosen", "deleted"} /\ a \in send[s].view
                \/ send[s].step = "deleted" /\ Of(s) = a
Stores(s, a) == send[s].step = "stored" /\ Of(s) = a
Said(a) == row[a].state \in {"sent", "removed"}

(* ... which has been there, while nothing was uploaded twice; what is stored and not
   yet recorded is there, is one sender's, and nobody settles on it; ... *)
BeenThere == twice = {} => \A a \in Archives :
  Said(a) \/ (\E s \in Senders : Chosen(s, a) \/ Stores(s, a)) => a \in arrived
NotYetSaid ==
  twice = {} => \A s \in Senders, a \in Archives : Stores(s, a) =>
    /\ a \in remote /\ ~Said(a)
    /\ \A u \in Senders : ~Chosen(u, a) /\ (Stores(u, a) => u = s)

(* ... and m, recorded with the date k, stays: it is there, nobody settles on it, and no
   other that is recorded is newer.  Its row says so, or was written over by a sender
   that had outlasted its lease. *)
Stays(m, k) ==
  /\ m \in remote /\ m \in arrived
  /\ \A s \in Senders : ~Chosen(s, m) /\ ~Stores(s, m)
  /\ IF row[m].state = "sent" THEN row[m].sentAt = k ELSE m \in cut
  /\ \A a \in Archives \ {m} :
       row[a].state = "sent" => row[a].sentAt < k \/ (row[a].sentAt = k /\ a < m)
NoneYet == \A a \in Archives : ~Said(a) /\ \A s \in Senders : ~Chosen(s, a)

LastThere ==
  /\ BeenThere /\ NotYetSaid
  /\ \A s \in Senders : send[s].step = "listed" => RemoteKeep # 0
  /\ twice = {} => NoneYet \/ \E m \in Archives, k \in Nat : Stays(m, k)

(* Nothing that is recorded, stored or settled on changes, unless somebody gives up. *)
LEMMA NothingSettled ==
  ASSUME LastThere, UNCHANGED <<remote, arrived, twice>>, cut \subseteq cut',
         \A a \in Archives : /\ row'[a].state = row[a].state
                                \/ (~Said(a) /\ row'[a].state \notin {"sent", "removed"})
                             /\ row[a].state = "sent" => row'[a].sentAt = row[a].sentAt,
         \A s \in Senders, a \in Archives : /\ Chosen(s, a)' => Chosen(s, a)
                                            /\ Stores(s, a)' => Stores(s, a),
         \A s \in Senders : send'[s].step = "listed" => RemoteKeep # 0
  PROVE  LastThere'
<1>1. \A a \in Archives : /\ Said(a)' <=> Said(a)
                          /\ row'[a].state = "sent" <=> row[a].state = "sent"
  BY DEF Said
<1>2. BeenThere' /\ NotYetSaid'
  BY <1>1 DEF LastThere, BeenThere, NotYetSaid
<1>3. ASSUME NoneYet PROVE NoneYet'
  BY <1>1, <1>3 DEF NoneYet
<1>4. ASSUME NEW m \in Archives, NEW k \in Nat, Stays(m, k) PROVE Stays(m, k)'
  BY <1>1, <1>4 DEF Stays
<1> QED BY <1>2, <1>3, <1>4 DEF LastThere

LEMMA RowLastThere ==
  ASSUME Ordered, LastThere, NEW a \in Archives,
         Enqueue(a) \/ SendAgain(a) \/ RetryComes(a) \/ LeaseRunsOut(a) \/ LeaseOutlived(a)
  PROVE  LastThere'
<1>1. row \in [Archives -> OffsiteRows] /\ NoRow.state = "none"
  BY DEF Ordered, Typed, TypeOK, NoRow
<1>2. UNCHANGED <<send, remote, arrived, twice>> /\ cut \subseteq cut'
  BY DEF Enqueue, SendAgain, RetryComes, LeaseRunsOut, LeaseOutlived
<1>3. \A b \in Archives : /\ row'[b].state = row[b].state
                             \/ (~Said(b) /\ row'[b].state \notin {"sent", "removed"})
                          /\ row[b].state = "sent" => row'[b].sentAt = row[b].sentAt
  <2>1. CASE Enqueue(a)
    <3>1. row'[a].state = "pending" /\ row[a].state = "none"
      BY <1>1, <2>1, Rests DEF Enqueue, OffsiteRows
    <3>2. \A b \in Archives \ {a} : row'[b] = row[b]
      BY <1>1, <2>1 DEF Enqueue
    <3> QED BY <3>1, <3>2 DEF Said
  <2>2. CASE SendAgain(a) \/ RetryComes(a) \/ LeaseRunsOut(a) \/ LeaseOutlived(a)
    BY <1>1, <2>2 DEF SendAgain, RetryComes, LeaseRunsOut, LeaseOutlived, OffsiteRows
  <2> QED BY <2>1, <2>2
<1>4. \A s \in Senders, b \in Archives : (Chosen(s, b)' <=> Chosen(s, b))
                                         /\ (Stores(s, b)' <=> Stores(s, b))
  BY <1>2 DEF Chosen, Stores, Of
<1> QED BY <1>2, <1>3, <1>4, NothingSettled DEF LastThere

(* A sender that goes on to m, where it neither stores nor settles on more. *)
LEMMA SenderLastThere ==
  ASSUME Ordered, LastThere, NEW s \in Senders, NEW m,
         send' = [send EXCEPT ![s] = m], UNCHANGED <<remote, arrived, twice>>, cut \subseteq cut',
         \A a \in Archives : row'[a].state = row[a].state /\ row'[a].sentAt = row[a].sentAt,
         m.step \notin {"stored", "deleted"}, m.step = "listed" => RemoteKeep # 0,
         m.step = "chosen" => send[s].step = "chosen" /\ m.view \subseteq send[s].view
  PROVE  LastThere'
<1>1. send'[s] = m /\ \A t \in Senders \ {s} : send'[t] = send[t]
  BY DEF Ordered, Typed, TypeOK
<1>2. \A t \in Senders, a \in Archives : (Chosen(t, a)' => Chosen(t, a))
                                         /\ (Stores(t, a)' => Stores(t, a))
  BY <1>1 DEF Chosen, Stores, Of
<1>3. \A t \in Senders : send'[t].step = "listed" => RemoteKeep # 0
  BY <1>1 DEF LastThere
<1> QED BY <1>2, <1>3, NothingSettled

LEMMA QuietLastThere ==
  ASSUME Ordered, LastThere, NEW s \in Senders,
         \/ \E a \in Archives : ReadRow(s, a) \/ (DeleteRefused(s, a) /\ remote' = remote)
         \/ ClaimRow(s) \/ Seal(s) \/ ListRemote(s) \/ EndRemote(s) \/ Escapes(s) \/ KillSender(s)
  PROVE  LastThere'
<1>1. /\ send \in [Senders -> Sendings] /\ send[s] \in Sendings /\ Resting.step = "idle"
      /\ row \in [Archives -> OffsiteRows]
  BY DEF Ordered, Typed, TypeOK, Resting
<1>2. UNCHANGED <<remote, arrived, twice>> /\ cut \subseteq cut'
  BY DEF ReadRow, DeleteRefused, ClaimRow, Seal, ListRemote, EndRemote, Escapes, KillSender
<1>3. \A a \in Archives : row'[a].state = row[a].state /\ row'[a].sentAt = row[a].sentAt
  <2>1. CASE ClaimRow(s)
    BY <1>1, <2>1 DEF ClaimRow, OffsiteRows
  <2>2. CASE row' = row
    BY <2>2
  <2> QED BY <2>1, <2>2 DEF ReadRow, DeleteRefused, Seal, ListRemote, EndRemote, Escapes, KillSender
<1>4. CASE send' = [send EXCEPT ![s] = Resting]
  BY <1>1, <1>2, <1>3, <1>4, SenderLastThere
<1>5. ASSUME NEW a \in Archives, ReadRow(s, a)
      PROVE  LastThere'
  <2> DEFINE m == [Resting EXCEPT !.step = "read", !.of = a, !.was = row[a]]
  <2>1. send' = [send EXCEPT ![s] = m] /\ m.step = "read"
    BY <1>5 DEF ReadRow, Resting
  <2> HIDE DEF m
  <2> QED BY <1>2, <1>3, <2>1, SenderLastThere
<1>6. ASSUME NEW a \in Archives, DeleteRefused(s, a), remote' = remote
      PROVE  LastThere'
  <2> DEFINE m == [send[s] EXCEPT !.view = send[s].view \ {a}]
  <2>1. send' = [send EXCEPT ![s] = m] /\ send[s].step = "chosen"
    BY <1>1, <1>6 DEF DeleteRefused, Step
  <2>2. m.step = "chosen" /\ m.view \subseteq send[s].view
    BY <1>1, <2>1 DEF Sendings
  <2> HIDE DEF m
  <2> QED BY <1>2, <1>3, <2>1, <2>2, SenderLastThere
<1>7. CASE ClaimRow(s) /\ send' # [send EXCEPT ![s] = Resting]
  <2>3. PICK now \in 1 .. MaxMoments : send' = [send EXCEPT ![s].step = "claimed", ![s].began = now]
    BY <1>7 DEF ClaimRow
  <2> DEFINE m == [send[s] EXCEPT !.step = "claimed", !.began = now]
  <2>1. send' = [send EXCEPT ![s] = m]
    BY <1>1, <2>3
  <2>2. m.step = "claimed"
    BY <1>1 DEF Sendings
  <2> HIDE DEF m
  <2> QED BY <1>2, <1>3, <2>1, <2>2, SenderLastThere
<1>8. CASE Seal(s)
  <2> DEFINE m == [send[s] EXCEPT !.step = "sealed"]
  <2>1. send' = [send EXCEPT ![s] = m] /\ m.step = "sealed"
    BY <1>1, <1>8 DEF Seal, Sendings
  <2> HIDE DEF m
  <2> QED BY <1>2, <1>3, <2>1, SenderLastThere
<1>9. CASE ListRemote(s) /\ RemoteKeep # 0
  <2> DEFINE m == [send[s] EXCEPT !.step = "listed", !.view = remote]
  <2>1. send' = [send EXCEPT ![s] = m] /\ m.step = "listed"
    BY <1>1, <1>9 DEF ListRemote, Sendings
  <2> HIDE DEF m
  <2> QED BY <1>2, <1>3, <1>9, <2>1, SenderLastThere
<1> QED BY <1>4, <1>5, <1>6, <1>7, <1>8, <1>9 DEF ListRemote, EndRemote, Escapes, KillSender

(* The destination takes an archive: one that has not been there, or one more time. *)
LEMMA StoreLastThere ==
  ASSUME Ordered, LastThere, NEW s \in Senders, Store(s)
  PROVE  LastThere'
<1>1. /\ send \in [Senders -> Sendings] /\ Of(s) \in Archives /\ send[s].step = "sealed"
  BY DEF Ordered, Typed, TypeOK, Spare, Begun, Store, Step
<1>2. /\ send'[s].step = "stored" /\ Of(s)' = Of(s)
      /\ \A t \in Senders \ {s} : send'[t] = send[t]
      /\ row' = row /\ remote' = remote \cup {Of(s)} /\ arrived' = arrived \cup {Of(s)}
      /\ cut' = cut /\ twice' = (IF Of(s) \in arrived THEN twice \cup {Of(s)} ELSE twice)
  BY <1>1 DEF Store, Of, Sendings
<1>3. \A t \in Senders, a \in Archives :
        /\ Chosen(t, a)' => Chosen(t, a)
        /\ Stores(t, a)' => Stores(t, a) \/ (t = s /\ a = Of(s))
  BY <1>2 DEF Chosen, Stores, Of
<1>4. \A t \in Senders : send'[t].step = "listed" => RemoteKeep # 0
  BY <1>2 DEF LastThere
<1>5. \A a \in Archives : Said(a)' <=> Said(a)
  BY <1>2 DEF Said
<1>6. BeenThere'
  BY <1>2, <1>3, <1>5 DEF LastThere, BeenThere
<1>7. twice' = {} => twice = {} /\ Of(s) \notin arrived
  BY <1>2
<1>8. ASSUME twice' = {}
      PROVE  /\ ~Said(Of(s)) /\ \A u \in Senders : ~Chosen(u, Of(s)) /\ ~Stores(u, Of(s))
  BY <1>1, <1>7, <1>8 DEF LastThere, BeenThere
<1>9. NotYetSaid'
  <2> SUFFICES ASSUME twice' = {}, NEW t \in Senders, NEW a \in Archives, Stores(t, a)'
               PROVE  /\ a \in remote' /\ ~Said(a)'
                      /\ \A u \in Senders : ~Chosen(u, a)' /\ (Stores(u, a)' => u = t)
    BY DEF NotYetSaid
  <2>1. CASE t = s /\ a = Of(s)
    <3>1. a \in remote' /\ ~Said(a)'
      BY <1>2, <1>5, <1>8, <2>1
    <3>2. \A u \in Senders : ~Chosen(u, a)' /\ (Stores(u, a)' => u = t)
      BY <1>3, <1>8, <2>1
    <3> QED BY <3>1, <3>2
  <2>2. CASE ~(t = s /\ a = Of(s))
    <3>1. Stores(t, a) /\ a # Of(s)
      BY <1>3, <1>8, <2>2
    <3> QED BY <1>2, <1>3, <1>5, <1>7, <3>1 DEF LastThere, NotYetSaid
  <2> QED BY <2>1, <2>2
<1>10. ASSUME NoneYet PROVE NoneYet'
  BY <1>3, <1>5, <1>10 DEF NoneYet
<1>11. ASSUME NEW m \in Archives, NEW k \in Nat, Stays(m, k), twice' = {} PROVE Stays(m, k)'
  <2>1. m # Of(s)
    BY <1>7, <1>11 DEF Stays
  <2> QED BY <1>2, <1>3, <1>11, <2>1 DEF Stays
<1> QED BY <1>4, <1>6, <1>7, <1>9, <1>10, <1>11 DEF LastThere

(* An attempt that failed says so over the row, which was not sent, unless the sender
   had outlasted its lease. *)
LEMMA FailLastThere ==
  ASSUME Ordered, LastThere, NEW s \in Senders, NEW final \in BOOLEAN, Fail(s, final)
  PROVE  LastThere'
<1> DEFINE a == Of(s)
<1>1. /\ row \in [Archives -> OffsiteRows] /\ send \in [Senders -> Sendings]
      /\ send[s].was \in OffsiteRows /\ a \in Archives /\ Resting.step = "idle"
  BY DEF Ordered, Typed, TypeOK, Spare, Begun, Fail, Sendings, Resting
<1>2. /\ send'[s].step = "idle" /\ \A t \in Senders \ {s} : send'[t] = send[t]
      /\ UNCHANGED <<remote, twice, cut>>
      /\ arrived' = IF Stores(s, Of(s)) THEN arrived \ {Of(s)} ELSE arrived
  BY <1>1 DEF Fail, Stores, Step
<1>3. row'[Of(s)].state = "failed" /\ \A b \in Archives \ {Of(s)} : row'[b] = row[b]
  BY <1>1 DEF Fail, OffsiteRows
<1>4. row[Of(s)].state = "sent" => Of(s) \in cut
  BY DEF Fail, Ordered, Held, Waiting
<1>5. \A t \in Senders, b \in Archives : (Chosen(t, b)' => Chosen(t, b))
                                         /\ (Stores(t, b)' => Stores(t, b))
  BY <1>2 DEF Chosen, Stores, Of
<1>6. \A b \in Archives : Said(b)' => Said(b)
  BY <1>3 DEF Said
<1>7. NotYetSaid'
  BY <1>2, <1>5, <1>6 DEF LastThere, NotYetSaid
<1>8. BeenThere'
  <2> SUFFICES ASSUME twice = {}, NEW b \in Archives,
                      Said(b)' \/ (\E t \in Senders : Chosen(t, b)' \/ Stores(t, b)')
               PROVE  b \in arrived'
    BY <1>2 DEF BeenThere
  <2>1. b \in arrived
    BY <1>5, <1>6 DEF LastThere, BeenThere
  <2>2. CASE b # Of(s) \/ ~Stores(s, Of(s))
    BY <1>2, <2>1, <2>2
  <2>3. CASE b = Of(s) /\ Stores(s, Of(s))
    <3>1. ~Said(b) /\ \A u \in Senders : ~Chosen(u, b) /\ (Stores(u, b) => u = s)
      BY <2>3 DEF LastThere, NotYetSaid
    <3>2. ~Stores(s, b)'
      BY <1>2 DEF Stores
    <3> QED BY <1>5, <1>6, <3>1, <3>2
  <2> QED BY <2>2, <2>3
<1>9. ASSUME NoneYet PROVE NoneYet'
  BY <1>5, <1>6, <1>9 DEF NoneYet
<1>10. ASSUME NEW m \in Archives, NEW k \in Nat, Stays(m, k) PROVE Stays(m, k)'
  <2>1. \A b \in Archives : row'[b].state = "sent" => row[b].state = "sent" /\ row'[b] = row[b]
    BY <1>3
  <2>2. IF row'[m].state = "sent" THEN row'[m].sentAt = k ELSE m \in cut
    BY <1>3, <1>4, <1>10 DEF Stays
  <2> QED BY <1>2, <1>5, <1>10, <2>1, <2>2 DEF Stays
<1> QED BY <1>2, <1>7, <1>8, <1>9, <1>10 DEF LastThere

(* A sender records what it stored, which is then the newest, or not. *)
LEMMA RecordLastThere ==
  ASSUME Ordered, LastThere, NEW s \in Senders, RecordSent(s)
  PROVE  LastThere'
<1> DEFINE date == send[s].began
<1>1. /\ row \in [Archives -> OffsiteRows] /\ send \in [Senders -> Sendings]
      /\ send[s] \in Sendings /\ send[s].was \in OffsiteRows /\ Of(s) \in Archives
      /\ send[s].step = "stored" /\ date \in Nat
  BY DEF Ordered, Typed, TypeOK, Spare, Begun, RecordSent, Step, Sendings
<1>2. /\ send'[s].step = "recorded" /\ \A t \in Senders \ {s} : send'[t] = send[t]
      /\ UNCHANGED <<remote, arrived, twice, cut>>
  BY <1>1 DEF RecordSent, Sendings
<1>3. /\ row'[Of(s)].state = "sent" /\ row'[Of(s)].sentAt = date
      /\ \A b \in Archives \ {Of(s)} : row'[b] = row[b]
  BY <1>1 DEF RecordSent, OffsiteRows
<1>4. \A t \in Senders, b \in Archives : (Chosen(t, b)' => Chosen(t, b))
                                         /\ (Stores(t, b)' => Stores(t, b) /\ t # s)
  BY <1>2 DEF Chosen, Stores, Of
<1>5. Stores(s, Of(s)) /\ (twice = {} => Of(s) \in arrived)
  BY <1>1 DEF Stores, LastThere, BeenThere
<1>6. \A b \in Archives \ {Of(s)} : Said(b)' <=> Said(b)
  BY <1>3 DEF Said
<1>7. BeenThere'
  BY <1>2, <1>4, <1>5, <1>6 DEF LastThere, BeenThere
<1>8. CASE twice # {}
  BY <1>2, <1>7, <1>8 DEF LastThere, NotYetSaid
<1>9. CASE twice = {}
  <2>1. /\ Of(s) \in remote
        /\ \A u \in Senders : ~Chosen(u, Of(s)) /\ (Stores(u, Of(s)) => u = s)
    BY <1>1, <1>5, <1>9 DEF LastThere, NotYetSaid
  <2>2. NotYetSaid'
    <3> SUFFICES ASSUME NEW t \in Senders, NEW b \in Archives, Stores(t, b)'
                 PROVE  /\ b \in remote /\ ~Said(b)'
                        /\ \A u \in Senders : ~Chosen(u, b)' /\ (Stores(u, b)' => u = t)
      BY <1>2 DEF NotYetSaid
    <3>1. Stores(t, b) /\ t # s /\ b # Of(s)
      BY <1>4, <2>1
    <3> QED BY <1>4, <1>6, <1>9, <3>1 DEF LastThere, NotYetSaid
  <2>3. \A b \in Archives : b \in Nat /\ row[b].sentAt \in Nat
    BY <1>1, Bounds DEF Archives, OffsiteRows
  <2>4. ASSUME \A b \in Archives \ {Of(s)} :
                 row[b].state = "sent" =>
                   row[b].sentAt < date \/ (row[b].sentAt = date /\ b < Of(s))
        PROVE  \E m \in Archives, k \in Nat : Stays(m, k)'
    <3> DEFINE m == Of(s)
               k == date
    <3>1. m \in Archives /\ k \in Nat
      BY <1>1
    <3>2. /\ m \in remote' /\ m \in arrived' /\ row'[m].state = "sent" /\ row'[m].sentAt = k
          /\ \A b \in Archives \ {m} :
               row'[b].state = "sent" => row'[b].sentAt < k \/ (row'[b].sentAt = k /\ b < m)
      BY <1>2, <1>3, <1>5, <1>9, <2>1, <2>4
    <3>3. \A u \in Senders : ~Chosen(u, Of(s)) /\ (Stores(u, Of(s)) => u = s)
      BY <2>1
    <3>4. \A b \in Archives : b = m => b = Of(s)
      OBVIOUS
    <3> HIDE DEF m, k
    <3>5. PICK b \in Archives, d \in Nat : b = m /\ d = k
      BY <3>1
    <3>6. b = Of(s)
      BY <3>4, <3>5
    <3>7. \A u \in Senders : ~Chosen(u, b)' /\ ~Stores(u, b)'
      BY <1>4, <3>3, <3>6
    <3>8. /\ b \in remote' /\ b \in arrived' /\ row'[b].state = "sent" /\ row'[b].sentAt = d
          /\ \A c \in Archives \ {b} :
               row'[c].state = "sent" => row'[c].sentAt < d \/ (row'[c].sentAt = d /\ c < b)
      BY <3>2, <3>5
    <3>9. Stays(b, d)'
      BY <3>7, <3>8 DEF Stays
    <3> QED BY <3>9
  <2>5. ASSUME NoneYet
        PROVE  \E m \in Archives, k \in Nat : Stays(m, k)'
    BY <2>4, <2>5 DEF NoneYet, Said
  <2>6. ASSUME \E m \in Archives, k \in Nat : Stays(m, k)
        PROVE  \E m \in Archives, k \in Nat : Stays(m, k)'
    <3>1. PICK m \in Archives, k \in Nat : Stays(m, k)
      BY <2>6
    <3>2. m # Of(s)
      BY <1>5, <3>1 DEF Stays
    <3>3. CASE date < k \/ (date = k /\ Of(s) < m)
      <4>1. Stays(m, k)'
        BY <1>2, <1>3, <1>4, <3>1, <3>2, <3>3 DEF Stays
      <4> QED BY <4>1
    <3>4. CASE k < date \/ (k = date /\ m < Of(s))
      <4>1. row[m].state = "sent" => row[m].sentAt = k
        BY <3>1 DEF Stays
      <4>2. ASSUME NEW b \in Archives \ {Of(s)}, row[b].state = "sent"
            PROVE  row[b].sentAt < date \/ (row[b].sentAt = date /\ b < Of(s))
        <5>1. CASE b = m
          BY <3>4, <4>1, <4>2, <5>1
        <5>2. CASE b # m
          <6>1. row[b].sentAt < k \/ (row[b].sentAt = k /\ b < m)
            BY <3>1, <4>2, <5>2 DEF Stays
          <6> QED BY <1>1, <2>3, <3>4, <6>1
        <5> QED BY <5>1, <5>2
      <4> QED BY <2>4, <4>2
    <3> QED BY <1>1, <2>3, <3>2, <3>3, <3>4
  <2>7. \E m \in Archives, k \in Nat : Stays(m, k)'
    BY <1>9, <2>5, <2>4, <2>6 DEF LastThere
  <2> QED BY <1>2, <1>7, <2>2, <2>7 DEF LastThere
<1> QED BY <1>8, <1>9

(* What is settled on is beyond the newest of what is recorded, so it is not the one
   that stays. *)
LEMMA ChooseLastThere ==
  ASSUME Ordered, LastThere, NEW s \in Senders, ChooseRemote(s)
  PROVE  LastThere'
<1> DEFINE doomed == {a \in send[s].view : Beyond(send[s].view, a)}
<1>1. /\ send \in [Senders -> Sendings] /\ send[s] \in Sendings /\ RemoteKeep # 0
      /\ row \in [Archives -> OffsiteRows]
  BY DEF Ordered, Typed, TypeOK, LastThere, ChooseRemote, Step
<1>2. Resting \in Sendings
  BY Rests
<1>3. /\ send'[s].step = "chosen" /\ send'[s].view = doomed
      /\ \A t \in Senders \ {s} : send'[t] = send[t]
      /\ UNCHANGED <<row, remote, arrived, twice, cut>>
  BY <1>1, <1>2 DEF ChooseRemote, Sendings
<1>4. \A a \in doomed : a \in Archives /\ row[a].state = "sent"
  BY <1>1 DEF Beyond, Ours, Sendings
<1>5. \A t \in Senders, a \in Archives :
        /\ Chosen(t, a)' => Chosen(t, a) \/ a \in doomed
        /\ Stores(t, a)' => Stores(t, a)
  BY <1>3 DEF Chosen, Stores, Of
<1>6. \A a \in Archives : Said(a)' <=> Said(a)
  BY <1>3 DEF Said
<1>7. BeenThere'
  BY <1>3, <1>4, <1>5, <1>6 DEF LastThere, BeenThere, Said
<1>8. NotYetSaid'
  BY <1>3, <1>4, <1>5, <1>6 DEF LastThere, NotYetSaid, Said
<1>9. \A t \in Senders : send'[t].step = "listed" => RemoteKeep # 0
  BY <1>1
<1>10. ASSUME NoneYet PROVE NoneYet'
  BY <1>4, <1>5, <1>6, <1>10 DEF NoneYet, Said
<1>11. ASSUME NEW m \in Archives, NEW k \in Nat, Stays(m, k) PROVE Stays(m, k)'
  <2>1. m \notin doomed
    <3> SUFFICES ASSUME m \in doomed PROVE FALSE
      OBVIOUS
    <3>1. row[m].state = "sent" /\ row[m].sentAt = k
      BY <1>4, <1>11 DEF Stays
    <3> DEFINE newer == {b \in Ours(send[s].view) : Newer(b, m)}
    <3>2. newer = {}
      <4> SUFFICES ASSUME NEW b \in Ours(send[s].view), Newer(b, m) PROVE FALSE
        OBVIOUS
      <4>1. b \in Archives /\ row[b].state = "sent"
        BY <1>1 DEF Ours, Sendings
      <4>2. row[b].sentAt \in Nat /\ b \in Nat /\ m \in Nat
        BY <1>1, <4>1, Bounds DEF OffsiteRows, Archives
      <4>3. row[b].sentAt > k \/ (row[b].sentAt = k /\ b > m)
        BY <3>1 DEF Newer
      <4>4. row[b].sentAt < k \/ (row[b].sentAt = k /\ b < m)
        BY <1>11, <4>1, <4>2, <4>3 DEF Stays
      <4> QED BY <4>2, <4>3, <4>4
    <3>3. Cardinality(newer) >= RemoteKeep
      BY DEF Beyond
    <3>4. Cardinality({}) = 0
      BY FS_EmptySet
    <3> HIDE DEF newer
    <3>5. 0 >= RemoteKeep
      BY <3>2, <3>3, <3>4
    <3> QED BY <1>1, <3>5, Bounds
  <2> QED BY <1>3, <1>5, <1>11, <2>1 DEF Stays
<1> QED BY <1>3, <1>7, <1>8, <1>9, <1>10, <1>11 DEF LastThere

LEMMA DeleteLastThere ==
  ASSUME Ordered, LastThere, NEW s \in Senders, NEW a \in Archives, DeleteRemote(s, a) \/ Unheard(s, a)
  PROVE  LastThere'
<1>1. send \in [Senders -> Sendings] /\ send[s] \in Sendings
  BY DEF Ordered, Typed, TypeOK
<1>2. /\ send'[s].view = send[s].view \ {a} /\ \A t \in Senders \ {s} : send'[t] = send[t]
      /\ UNCHANGED <<row, arrived, twice, cut>> /\ remote' = remote \ {a} /\ Chosen(s, a)
      /\ send[s].step = "chosen"
      /\ send'[s].step = "chosen" \/ (send'[s].step = "deleted" /\ send'[s].of = a)
  <2>1. CASE DeleteRemote(s, a)
    BY <1>1, <2>1 DEF DeleteRemote, Sendings, Chosen, Step
  <2>2. CASE Unheard(s, a)
    BY <1>1, <2>2 DEF Unheard, DeleteRefused, Sendings, Chosen, Step
  <2> QED BY <2>1, <2>2
<1>3. \A t \in Senders, b \in Archives : (Chosen(t, b)' => Chosen(t, b))
                                         /\ (Stores(t, b)' => Stores(t, b))
  BY <1>2 DEF Chosen, Stores, Of
<1>4. \A b \in Archives : Said(b)' <=> Said(b)
  BY <1>2 DEF Said
<1>5. BeenThere'
  BY <1>2, <1>3, <1>4 DEF LastThere, BeenThere
<1>6. NotYetSaid'
  BY <1>2, <1>3, <1>4 DEF LastThere, NotYetSaid
<1>7. ASSUME NoneYet PROVE NoneYet'
  BY <1>3, <1>4, <1>7 DEF NoneYet
<1>8. ASSUME NEW m \in Archives, NEW k \in Nat, Stays(m, k) PROVE Stays(m, k)'
  BY <1>2, <1>3, <1>8 DEF Stays
<1>9. \A t \in Senders : send'[t].step = "listed" => RemoteKeep # 0
  BY <1>2 DEF LastThere
<1> QED BY <1>2, <1>5, <1>6, <1>7, <1>8, <1>9 DEF LastThere

LEMMA NoteLastThere ==
  ASSUME Ordered, LastThere, NEW s \in Senders, NoteRemoved(s)
  PROVE  LastThere'
<1>1. /\ row \in [Archives -> OffsiteRows] /\ send \in [Senders -> Sendings]
      /\ send[s] \in Sendings /\ Of(s) \in Archives /\ Chosen(s, Of(s))
  BY DEF Ordered, Typed, TypeOK, Named, NoteRemoved, Step, Chosen
<1>2. /\ send'[s].step = "chosen" /\ send'[s].view = send[s].view /\ send[s].step = "deleted"
      /\ \A t \in Senders \ {s} : send'[t] = send[t]
      /\ UNCHANGED <<remote, arrived, twice, cut>>
  BY <1>1 DEF NoteRemoved, Sendings, Step
<1>3. row'[Of(s)].state = "removed" /\ \A b \in Archives \ {Of(s)} : row'[b] = row[b]
  BY <1>1 DEF NoteRemoved, OffsiteRows
<1>4. \A t \in Senders, b \in Archives : (Chosen(t, b)' => Chosen(t, b))
                                         /\ (Stores(t, b)' => Stores(t, b))
  BY <1>2 DEF Chosen, Stores, Of
<1>5. \A b \in Archives : Said(b)' => Said(b) \/ b = Of(s)
  BY <1>3 DEF Said
<1>6. BeenThere'
  BY <1>1, <1>2, <1>4, <1>5 DEF LastThere, BeenThere
<1>7. NotYetSaid'
  BY <1>1, <1>2, <1>4, <1>5 DEF LastThere, NotYetSaid
<1>8. ~NoneYet
  BY <1>1 DEF NoneYet
<1>9. ASSUME NEW m \in Archives, NEW k \in Nat, Stays(m, k) PROVE Stays(m, k)'
  <2>1. m # Of(s) /\ \A b \in Archives : row'[b].state = "sent" => row'[b] = row[b]
    BY <1>1, <1>3, <1>9 DEF Stays
  <2> QED BY <1>2, <1>3, <1>4, <1>9, <2>1 DEF Stays
<1>10. \A t \in Senders : send'[t].step = "listed" => RemoteKeep # 0
  BY <1>2 DEF LastThere
<1> QED BY <1>2, <1>6, <1>7, <1>8, <1>9, <1>10 DEF LastThere

(* Retention at the destination never takes the last that is recorded there, whatever
   other retentions run beside it, unless an archive was uploaded twice. *)
THEOREM OffsiteLeavesOne == Spec => []OneStaysThere
<1>1. Init => Ordered /\ LastThere
  <2> SUFFICES ASSUME Init PROVE LastThere
    BY InitOrdered
  <2>1. /\ \A s \in Senders : send[s].step = "idle"
        /\ \A a \in Archives : row[a].state = "none"
    BY DEF Init, Resting, NoRow
  <2> QED BY <2>1 DEF LastThere, BeenThere, NotYetSaid, NoneYet, Said, Chosen, Stores
<1>2. Ordered /\ LastThere /\ [Next]_vars => (Ordered /\ LastThere)'
  <2> SUFFICES ASSUME Ordered, LastThere, [Next]_vars PROVE LastThere'
    BY NextOrdered
  <2>1. CASE Next /\ ~Installs
    <3>1. ASSUME NEW s \in Senders, NEW a \in Archives, DeleteRefused(s, a)
          PROVE  Unheard(s, a) \/ remote' = remote
      BY <3>1 DEF DeleteRefused, Unheard
    <3> QED BY <2>1, <3>1, RowLastThere, QuietLastThere, StoreLastThere, FailLastThere,
               RecordLastThere, ChooseLastThere, DeleteLastThere, NoteLastThere DEF Next, Goes, GoesOn
  <2>2. CASE UNCHANGED vars \/ Installs
    <3>1. \A s \in Senders, a \in Archives : (Chosen(s, a)' <=> Chosen(s, a))
                                             /\ (Stores(s, a)' <=> Stores(s, a))
      BY <2>2 DEF vars, Installs, Chosen, Stores, Of
    <3> QED BY <2>2, <3>1, NothingSettled DEF vars, Installs, LastThere
  <2> QED BY <2>1, <2>2
<1>3. LastThere => OneStaysThere
  BY DEF LastThere, NoneYet, Said, Stays, OneStaysThere
<1> QED BY <1>1, <1>2, <1>3, PTL DEF Spec
=============================================================================
