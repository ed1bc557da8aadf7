--------------------------- MODULE BackupsProofs ---------------------------
(***************************************************************************)
(* Backups, for any takers, archives, schedule and number of accidents:    *)
(* every state is well typed; a slot is one scheduler's; two that asked    *)
(* for the lock are not at it at once while nobody outlasts it; local      *)
(* retention leaves what the destination waits for; and the last archive   *)
(* known to open stays.                                                    *)
(***************************************************************************)
EXTENDS Backups, FiniteSetTheorems, TLAPS

LEMMA Numbers ==
  ASSUME TypeOK
  PROVE  lastRun \in Nat /\ slot \in Nat /\ MaxSlots \in Nat /\ lastRun <= slot /\ slot <= MaxSlots
<1>1. slot \in 0 .. MaxSlots /\ lastRun \in 0 .. slot
  BY DEF TypeOK
<1> QED BY <1>1, KeepAssumption

(* What a taker may become is a taking. *)
LEMMA TakingsTyped ==
  ASSUME TypeOK, NEW t \in Takers
  PROVE  /\ Off \in Takings
         /\ \A s \in TakeSteps : [take[t] EXCEPT !.step = s] \in Takings
         /\ \A s \in TakeSteps, a \in Archives :
              [take[t] EXCEPT !.step = s, !.of = a] \in Takings
         /\ \A s \in TakeSteps, v \in SUBSET Archives :
              [take[t] EXCEPT !.step = s, !.view = v] \in Takings
         /\ \A v \in SUBSET Archives : [take[t] EXCEPT !.view = v] \in Takings
         /\ \A s \in TakeSteps, k \in {"slot", "asked", "command"} :
              [Off EXCEPT !.step = s, !.kind = k] \in Takings
         /\ [Off EXCEPT !.step = "due", !.kind = "slot", !.was = lastRun] \in Takings
         /\ After(t) \in Takings /\ [After(t) EXCEPT !.of = 0] \in Takings
         /\ Leave(t) \in Takings
<1>1. take[t] \in Takings /\ lastRun \in 0 .. MaxSlots
  <2>1. take[t] \in Takings
    BY DEF TypeOK
  <2>2. lastRun \in 0 .. MaxSlots
    BY Numbers
  <2> QED BY <2>1, <2>2
<1>2. Off \in Takings
  BY KeepAssumption DEF Off, Takings, TakeSteps
<1>3. /\ \A s \in TakeSteps : [take[t] EXCEPT !.step = s] \in Takings
      /\ \A s \in TakeSteps, a \in Archives :
           [take[t] EXCEPT !.step = s, !.of = a] \in Takings
      /\ \A s \in TakeSteps, v \in SUBSET Archives :
           [take[t] EXCEPT !.step = s, !.view = v] \in Takings
      /\ \A v \in SUBSET Archives : [take[t] EXCEPT !.view = v] \in Takings
  BY <1>1 DEF Takings
<1>4. \A s \in TakeSteps, k \in {"slot", "asked", "command"} :
        [Off EXCEPT !.step = s, !.kind = k] \in Takings
  BY <1>2 DEF Takings
<1>5. [Off EXCEPT !.step = "due", !.kind = "slot", !.was = lastRun] \in Takings
  BY <1>1, <1>2 DEF Takings, TakeSteps
<1>6. After(t) \in Takings
  BY <1>2, <1>3 DEF After, TakeSteps
<1>7. [After(t) EXCEPT !.of = 0] \in Takings
  BY <1>6 DEF Takings
<1>8. Leave(t) \in Takings
  BY <1>2, <1>3 DEF Leave, TakeSteps
<1> QED BY <1>2, <1>3, <1>4, <1>5, <1>6, <1>7, <1>8

LEMMA InitTyped == Init => TypeOK
<1> SUFFICES ASSUME Init PROVE TypeOK
  OBVIOUS
<1>1. take \in [Takers -> Takings]
  <2>1. 0 \in 0 .. MaxSlots
    BY KeepAssumption
  <2> QED BY <2>1 DEF Init, Off, Takings, TakeSteps
<1>2. crossed \in BOOLEAN /\ opened \in BOOLEAN /\ slipped \in BOOLEAN
  BY DEF Init
<1>3. /\ slots \in [1 .. MaxSlots -> Nat] /\ slot \in 0 .. MaxSlots /\ lastRun \in 0 .. slot
      /\ cuts \in 0 .. MaxCuts /\ putBack \in [1 .. MaxSlots -> Nat]
      /\ form \in [Forms -> [step : {"no", "loaded", "saved"}, run : 0 .. slot]]
  <2>1. /\ slots = [k \in 1 .. MaxSlots |-> 0] /\ slot = 0 /\ lastRun = 0 /\ cuts = 0
        /\ putBack = [k \in 1 .. MaxSlots |-> 0]
        /\ form = [f \in Forms |-> [step |-> "no", run |-> 0]]
    BY DEF Init
  <2>2. 0 \in 0 .. MaxSlots /\ 0 \in 0 .. MaxCuts /\ 0 \in 0 .. 0
    BY KeepAssumption
  <2> QED BY <2>1, <2>2
<1>4. /\ ShipmentsTypeOK
      /\ file \in [Archives -> {"none", "part", "good", "gone"}]
      /\ known \in [Archives -> {"", "ok", "failed"}]
      /\ lock \in Takers \cup {NoTaker}
      /\ deleting \subseteq Archives /\ asking \subseteq Archives
      /\ byHand \subseteq Archives /\ late \subseteq Archives
      /\ overran \subseteq Takers
  BY DEF Init, ShipmentsInit, ShipmentsTypeOK, ShipmentStates
<1> QED BY <1>1, <1>2, <1>3, <1>4 DEF TypeOK

-----------------------------------------------------------------------------
(* The schedule: what is claimed is behind the slot, and a slot is claimed once while
   the row says so, and once for each time the row was put back to before it. *)
Owed(k) == IF lastRun < k THEN 0 ELSE 1
SlotsCounted ==
  /\ \A t \in Takers : TakerAt(t, "due") => take[t].was < slot
  /\ \A k \in 1 .. MaxSlots : slots[k] <= putBack[k] + Owed(k)

LEMMA ScheduleTyped ==
  ASSUME TypeOK, SlotsCounted, NEW t \in Takers, ClaimSlot(t)
  PROVE  /\ lastRun' \in 0 .. slot /\ slots' \in [1 .. MaxSlots -> Nat]
         /\ \A k \in 1 .. MaxSlots : slots'[k] <= putBack'[k] + Owed(k)'
<1> DEFINE owed == lastRun = take[t].was
<1>1. /\ take[t].was < slot /\ slot \in 0 .. MaxSlots /\ lastRun \in 0 .. slot
      /\ putBack' = putBack /\ putBack \in [1 .. MaxSlots -> Nat]
  BY DEF ClaimSlot, SlotsCounted, TypeOK, settings
<1>2. CASE owed
  <2>1. slot \in 1 .. MaxSlots /\ lastRun < slot /\ lastRun \in Nat
    BY <1>1, <1>2, KeepAssumption
  <2>2. lastRun' = slot /\ slots' = [slots EXCEPT ![slot] = slots[slot] + 1]
    BY <1>2, <2>1 DEF ClaimSlot
  <2>3. slots \in [1 .. MaxSlots -> Nat]
        /\ \A k \in 1 .. MaxSlots : slots[k] <= putBack[k] + Owed(k)
    BY DEF TypeOK, SlotsCounted
  <2>4. slots' \in [1 .. MaxSlots -> Nat] /\ lastRun' \in 0 .. slot
    BY <1>1, <2>1, <2>2, <2>3
  <2>5. ASSUME NEW k \in 1 .. MaxSlots
        PROVE  slots'[k] <= putBack'[k] + Owed(k)'
    <3>1. CASE k = slot
      <4>1. slots[slot] <= putBack[slot] + 0
        BY <2>1, <2>3 DEF Owed
      <4>2. Owed(k)' = 1 /\ slots'[k] = slots[slot] + 1
        BY <2>1, <2>2, <2>3, <3>1 DEF Owed
      <4> QED BY <1>1, <2>1, <2>3, <3>1, <4>1, <4>2
    <3>2. CASE k # slot
      <4>1. slots'[k] = slots[k]
        BY <2>2, <2>3, <3>2
      <4>2. Owed(k) <= Owed(k)' /\ Owed(k) \in Nat /\ Owed(k)' \in Nat
        BY <2>1, <2>2 DEF Owed
      <4> QED BY <1>1, <2>3, <4>1, <4>2
    <3> QED BY <3>1, <3>2
  <2> QED BY <2>4, <2>5
<1>3. CASE ~owed
  <2>1. lastRun' = lastRun /\ slots' = slots
    BY <1>3 DEF ClaimSlot
  <2> QED BY <1>1, <2>1 DEF SlotsCounted, TypeOK, Owed
<1> QED BY <1>2, <1>3

(* A form that puts the row back is counted for every slot it takes the row before. *)
LEMMA SettingsTyped ==
  ASSUME TypeOK, SlotsCounted, NEW f \in Forms, SaveSettings(f)
  PROVE  /\ lastRun' \in 0 .. slot /\ putBack' \in [1 .. MaxSlots -> Nat]
         /\ form' \in [Forms -> [step : {"no", "loaded", "saved"}, run : 0 .. slot]]
         /\ \A k \in 1 .. MaxSlots : slots'[k] <= putBack'[k] + Owed(k)'
<1>1. /\ slot \in 0 .. MaxSlots /\ lastRun \in 0 .. slot
      /\ form \in [Forms -> [step : {"no", "loaded", "saved"}, run : 0 .. slot]]
      /\ slots \in [1 .. MaxSlots -> Nat] /\ putBack \in [1 .. MaxSlots -> Nat]
      /\ \A k \in 1 .. MaxSlots : slots[k] <= putBack[k] + Owed(k)
  BY DEF TypeOK, SlotsCounted
<1>2. slot \in Nat /\ lastRun \in Nat
  BY Numbers
<1>3. lastRun' \in 0 .. slot /\ slots' = slots
  BY <1>1, <1>2 DEF SaveSettings
<1>4. putBack' = [k \in 1 .. MaxSlots |->
                    IF lastRun' < k /\ k <= lastRun THEN putBack[k] + 1 ELSE putBack[k]]
  BY DEF SaveSettings
<1>5. putBack' \in [1 .. MaxSlots -> Nat]
  BY <1>1, <1>4
<1>6. form' \in [Forms -> [step : {"no", "loaded", "saved"}, run : 0 .. slot]]
  BY <1>1 DEF SaveSettings
<1>7. ASSUME NEW k \in 1 .. MaxSlots
      PROVE  slots'[k] <= putBack'[k] + Owed(k)'
  <2>1. /\ putBack'[k] = IF lastRun' < k /\ k <= lastRun THEN putBack[k] + 1 ELSE putBack[k]
        /\ slots[k] <= putBack[k] + Owed(k) /\ slots[k] \in Nat /\ putBack[k] \in Nat
    BY <1>1, <1>4
  <2>2. lastRun' \in Nat
    BY <1>2, <1>3
  <2> QED BY <1>2, <1>3, <2>1, <2>2 DEF Owed
<1> QED BY <1>3, <1>5, <1>6, <1>7

-----------------------------------------------------------------------------
(* Every step, taken apart: what one taker does, what is done to an archive, and
   what happens to them. *)
TakesAStep(t) ==
  \/ /\ \/ ReadSlot(t) \/ ClaimSlot(t) \/ Take(t) \/ Turned(t) \/ Command(t) \/ WriteRaises(t)
        \/ FindToQueue(t) \/ LookAtLock(t) \/ Unlock(t) \/ ListLocal(t) \/ HeldBack(t)
        \/ EndLocal(t)
        \/ \E plain \in BOOLEAN : Written(t, plain)
        \/ \E a \in Archives : Begin(t, a) \/ DeleteLocal(t, a)
     /\ UNCHANGED <<state, cut, cuts>>
  \/ KillTaker(t) \/ \E made \in BOOLEAN : Queue(t, made)

Administered(a) ==
  \/ (Verify(a) \/ AskDelete(a) \/ Unlink(a) \/ AskSend(a)) /\ UNCHANGED <<state, cut, cuts>>
  \/ SendFirst(a) \/ SendNextTime(a)
  \/ (Ship(a) /\ UNCHANGED localVars)

Befalls ==
  \/ /\ SlotComes \/ \E f \in Forms : LoadSettings(f) \/ SaveSettings(f)
     /\ UNCHANGED <<state, cut, cuts>>
  \/ LockRunsOut

LEMMA EveryStep ==
  ASSUME Next
  PROVE  \/ \E t \in Takers : TakesAStep(t)
         \/ \E a \in Archives : Administered(a)
         \/ Befalls
BY DEF Next, TakeStep, TakesAStep, Administered, Befalls

(* The next taking of the one taker that takes a step. *)
LEMMA TakerTyped ==
  ASSUME TypeOK, NEW t \in Takers, TakesAStep(t)
  PROVE  take' \in [Takers -> Takings]
<1> DEFINE became == take'[t]
<1>1. take \in [Takers -> Takings] /\ take[t] \in Takings
  BY DEF TypeOK
<1>2. CASE ReadSlot(t) \/ ClaimSlot(t) \/ Turned(t) \/ EndLocal(t) \/ KillTaker(t) \/ Unlock(t)
  BY <1>1, <1>2, TakingsTyped DEF ReadSlot, ClaimSlot, Turned, EndLocal, KillTaker, Unlock, TakeSteps
<1>3. CASE Take(t) \/ Command(t)
  BY <1>1, <1>3, TakingsTyped DEF Take, Command, TakeSteps
<1>4. CASE LookAtLock(t) \/ WriteRaises(t) \/ FindToQueue(t) \/ \E made \in BOOLEAN : Queue(t, made)
  BY <1>1, <1>4, TakingsTyped DEF WriteRaises, FindToQueue, LookAtLock, Queue, TakeSteps
<1>5. CASE \E plain \in BOOLEAN : Written(t, plain)
  <2>1. PICK plain \in BOOLEAN : Written(t, plain)
    BY <1>5
  <2> QED BY <1>1, <2>1, TakingsTyped DEF Written, TakeSteps
<1>6. CASE ListLocal(t)
  <2>1. {a \in Archives : There(a)} \ Newest \in SUBSET Archives
    OBVIOUS
  <2>2. take' = [take EXCEPT ![t] = [take[t] EXCEPT !.step = "listed",
                                      !.view = {a \in Archives : There(a)} \ Newest]]
    BY <1>1, <1>6 DEF ListLocal
  <2> QED BY <1>1, <2>1, <2>2, TakingsTyped DEF TakeSteps
<1>7. CASE HeldBack(t)
  <2>1. {a \in take[t].view : ~Waits(a)} \in SUBSET Archives
    BY <1>1 DEF Takings
  <2>2. take' = [take EXCEPT ![t] = [take[t] EXCEPT !.step = "deleting",
                                      !.view = {a \in take[t].view : ~Waits(a)}]]
    BY <1>1, <1>7 DEF HeldBack
  <2> QED BY <1>1, <2>1, <2>2, TakingsTyped DEF TakeSteps
<1>8. CASE \E a \in Archives : Begin(t, a) \/ DeleteLocal(t, a)
  <2>1. PICK a \in Archives : Begin(t, a) \/ DeleteLocal(t, a)
    BY <1>8
  <2>2. CASE Begin(t, a)
    <3>1. take' = [take EXCEPT ![t] = [take[t] EXCEPT !.step = "writing", !.of = a]]
      BY <1>1, <2>2 DEF Begin
    <3> QED BY <1>1, <3>1, TakingsTyped DEF TakeSteps
  <2>3. CASE DeleteLocal(t, a)
    <3>1. take[t].view \ {a} \in SUBSET Archives
      BY <1>1 DEF Takings
    <3>2. take' = [take EXCEPT ![t] = [take[t] EXCEPT !.view = take[t].view \ {a}]]
      BY <1>1, <2>3 DEF DeleteLocal
    <3> QED BY <1>1, <3>1, <3>2, TakingsTyped
  <2> QED BY <2>1, <2>2, <2>3
<1> QED BY <1>2, <1>3, <1>4, <1>5, <1>6, <1>7, <1>8 DEF TakesAStep

-----------------------------------------------------------------------------
LEMMA ShipmentTyped ==
  ASSUME TypeOK, NEW a, Queued(a) \/ (a \in Archives /\ Ship(a))
  PROVE  ShipmentsTypeOK'
<1>1. ShipmentsTypeOK
  BY DEF TypeOK
<1>2. \A new \in ShipmentStates : Becomes(a, new) => ShipmentsTypeOK'
  BY <1>1 DEF Becomes, ShipmentsTypeOK
<1>3. CASE a \in Archives /\ IsCut(a)
  BY <1>1, <1>3 DEF IsCut, ShipmentsTypeOK
<1>4. CASE Queued(a) \/ Fails(a) \/ Arrives(a) \/ Removes(a) \/ Returns(a)
  BY <1>2, <1>4 DEF Queued, Fails, Arrives, Removes, Returns, ShipmentStates
<1> QED BY <1>3, <1>4 DEF Ship

(* The archives and what is known of them. *)
LEMMA FilesTyped ==
  ASSUME TypeOK, Next
  PROVE  /\ file' \in [Archives -> {"none", "part", "good", "gone"}]
         /\ known' \in [Archives -> {"", "ok", "failed"}]
<1> DEFINE typed == /\ file \in [Archives -> {"none", "part", "good", "gone"}]
                    /\ known \in [Archives -> {"", "ok", "failed"}]
<1>1. typed
  BY DEF TypeOK
<1>2. CASE UNCHANGED files
  BY <1>1, <1>2 DEF files
<1>3. CASE \E t \in Takers : \/ \E plain \in BOOLEAN : Written(t, plain)
                             \/ \E a \in Archives : Begin(t, a) \/ DeleteLocal(t, a)
  BY <1>1, <1>3 DEF Written, Begin, DeleteLocal
<1>4. CASE \E a \in Archives : Verify(a) \/ Unlink(a)
  BY <1>1, <1>4 DEF Verify, Unlink
<1>5. ASSUME NEW t \in Takers, TakesAStep(t)
      PROVE  typed'
  BY <1>2, <1>3, <1>5 DEF TakesAStep, ReadSlot, ClaimSlot, Take, Turned, Command, WriteRaises,
       FindToQueue, LookAtLock, Unlock, ListLocal, HeldBack, EndLocal, KillTaker, Queue
<1>6. ASSUME NEW a \in Archives, Administered(a)
      PROVE  typed'
  BY <1>2, <1>4, <1>6 DEF Administered, AskDelete, AskSend, SendFirst, SendNextTime, localVars
<1>7. CASE Befalls
  BY <1>2, <1>7 DEF Befalls, SlotComes, LoadSettings, SaveSettings, LockRunsOut
<1> QED BY <1>5, <1>6, <1>7, EveryStep

(* The histories, the lock and the requests to delete. *)
LEMMA RestTyped ==
  ASSUME TypeOK, Next
  PROVE  /\ lock' \in Takers \cup {NoTaker}
         /\ deleting' \subseteq Archives /\ asking' \subseteq Archives
         /\ byHand' \subseteq Archives /\ late' \subseteq Archives
         /\ overran' \subseteq Takers
<1> USE DEF TypeOK
<1>1. ASSUME NEW t \in Takers, TakesAStep(t)
      PROVE  /\ lock' \in Takers \cup {NoTaker} /\ UNCHANGED <<requests, byHand>>
             /\ overran' \subseteq Takers
  BY <1>1 DEF TakesAStep, ReadSlot, ClaimSlot, Take, Turned, Command,
       WriteRaises, FindToQueue, LookAtLock,
       Unlock, ListLocal, HeldBack, EndLocal, KillTaker, Queue, Written, Begin, DeleteLocal,
       locks, requests, histories
<1>2. ASSUME NEW t \in Takers, TakesAStep(t)
      PROVE  late' \subseteq Archives
  <2>1. CASE \E made \in BOOLEAN : Queue(t, made)
    <3>1. PICK made \in BOOLEAN : Queue(t, made)
      BY <2>1
    <3> QED BY <3>1 DEF Queue, Settled
  <2>2. CASE ~\E made \in BOOLEAN : Queue(t, made)
    BY <1>2, <2>2 DEF TakesAStep, ReadSlot, ClaimSlot, Take, Turned, Command,
       WriteRaises, FindToQueue, LookAtLock,
       Unlock, ListLocal, HeldBack, EndLocal, KillTaker, Written, Begin, DeleteLocal, histories
  <2> QED BY <2>1, <2>2
<1>3. ASSUME NEW a \in Archives, Administered(a)
      PROVE  /\ deleting' \subseteq Archives /\ asking' \subseteq Archives
             /\ byHand' \subseteq Archives /\ late' \subseteq Archives
             /\ lock' = lock /\ overran' = overran
  BY <1>3 DEF Administered, Verify, AskDelete, Unlink, AskSend, SendFirst, SendNextTime, localVars, locks, requests, histories
<1>4. CASE Befalls
  BY <1>4 DEF Befalls, SlotComes, LoadSettings, SaveSettings, LockRunsOut, locks, requests, histories
<1> QED BY <1>1, <1>2, <1>3, <1>4, EveryStep DEF requests

(* What the histories say yes or no to. *)
LEMMA AnswersTyped ==
  ASSUME TypeOK, Next
  PROVE  slipped' \in BOOLEAN /\ crossed' \in BOOLEAN /\ opened' \in BOOLEAN
<1>1. slipped \in BOOLEAN /\ crossed \in BOOLEAN /\ opened \in BOOLEAN
  BY DEF TypeOK
<1>2. ASSUME NEW t \in Takers, TakesAStep(t)
      PROVE  slipped' \in BOOLEAN /\ crossed' \in BOOLEAN /\ opened' \in BOOLEAN
  BY <1>1, <1>2, Zenon DEF TakesAStep, ReadSlot, ClaimSlot, Take, Turned, Command, WriteRaises,
       FindToQueue, LookAtLock, Unlock, ListLocal, HeldBack, EndLocal, KillTaker, Queue, Written, Begin,
       DeleteLocal, locks, histories
<1>3. ASSUME NEW a \in Archives, Administered(a)
      PROVE  slipped' \in BOOLEAN /\ crossed' \in BOOLEAN /\ opened' \in BOOLEAN
  BY <1>1, <1>3 DEF Administered, Verify, AskDelete, Unlink, AskSend, SendFirst, SendNextTime, localVars, locks, histories
<1>4. CASE Befalls
  BY <1>1, <1>4 DEF Befalls, SlotComes, LoadSettings, SaveSettings, LockRunsOut, locks, histories
<1> QED BY <1>2, <1>3, <1>4, EveryStep

-----------------------------------------------------------------------------
(* The clock and the counts: only a slot that comes, a claim and a form change them. *)
ClockOK ==
  /\ slot \in 0 .. MaxSlots /\ lastRun \in 0 .. slot /\ slots \in [1 .. MaxSlots -> Nat]
  /\ putBack \in [1 .. MaxSlots -> Nat]
  /\ form \in [Forms -> [step : {"no", "loaded", "saved"}, run : 0 .. slot]]
  /\ \A k \in 1 .. MaxSlots : slots[k] <= putBack[k] + Owed(k)

LEMMA ClockTyped ==
  ASSUME TypeOK, SlotsCounted, Next
  PROVE  ClockOK' /\ cuts' \in 0 .. MaxCuts /\ slot <= slot'
<1>1. ClockOK /\ cuts \in 0 .. MaxCuts /\ slot \in Nat /\ lastRun \in Nat
  BY Numbers DEF TypeOK, SlotsCounted, ClockOK
<1>2. cuts' \in 0 .. MaxCuts
  <2>1. cuts' = cuts \/ (cuts < MaxCuts /\ cuts' = cuts + 1)
    <3>1. ASSUME NEW t \in Takers, TakesAStep(t)
          PROVE  cuts' = cuts \/ (cuts < MaxCuts /\ cuts' = cuts + 1)
      BY <3>1 DEF TakesAStep, KillTaker, Queue
    <3>2. ASSUME NEW a \in Archives, Administered(a)
          PROVE  cuts' = cuts \/ (cuts < MaxCuts /\ cuts' = cuts + 1)
      BY <3>2 DEF Administered, SendFirst, SendNextTime, Ship
    <3>3. CASE Befalls
      BY <3>3 DEF Befalls, LockRunsOut
    <3> QED BY <3>1, <3>2, <3>3, EveryStep
  <2> QED BY <1>1, <2>1, KeepAssumption
<1>3. CASE \E t \in Takers : ClaimSlot(t)
  <2>1. PICK t \in Takers : ClaimSlot(t)
    BY <1>3
  <2>2. UNCHANGED <<slot, form, putBack>>
    BY <2>1 DEF ClaimSlot, settings
  <2> QED BY <1>1, <1>2, <2>1, <2>2, ScheduleTyped DEF ClockOK
<1>4. CASE SlotComes
  <2>1. slot' = slot + 1 /\ slot < MaxSlots /\ UNCHANGED <<lastRun, slots, form, putBack>>
    BY <1>4 DEF SlotComes, settings
  <2>2. slot' \in 0 .. MaxSlots /\ 0 .. slot \subseteq 0 .. slot' /\ lastRun' \in 0 .. slot'
    BY <1>1, <2>1, KeepAssumption DEF ClockOK
  <2>3. form' \in [Forms -> [step : {"no", "loaded", "saved"}, run : 0 .. slot']]
    BY <1>1, <2>1, <2>2 DEF ClockOK
  <2>4. \A k \in 1 .. MaxSlots : slots'[k] <= putBack'[k] + Owed(k)'
    BY <1>1, <2>1 DEF ClockOK, Owed
  <2> QED BY <1>1, <1>2, <2>1, <2>2, <2>3, <2>4 DEF ClockOK
<1>5. CASE UNCHANGED clock
  BY <1>1, <1>2, <1>5 DEF clock, settings, ClockOK, Owed
<1>6. CASE \E f \in Forms : SaveSettings(f)
  <2>1. PICK f \in Forms : SaveSettings(f)
    BY <1>6
  <2>2. UNCHANGED <<slot, slots>>
    BY <2>1 DEF SaveSettings
  <2> QED BY <1>1, <1>2, <2>1, <2>2, SettingsTyped DEF ClockOK
<1>7. CASE \E f \in Forms : LoadSettings(f)
  <2>1. PICK f \in Forms : LoadSettings(f)
    BY <1>7
  <2>2. /\ UNCHANGED <<slot, lastRun, slots, putBack>>
        /\ form' = [form EXCEPT ![f] = [step |-> "loaded", run |-> lastRun]]
    BY <2>1 DEF LoadSettings
  <2>3. form' \in [Forms -> [step : {"no", "loaded", "saved"}, run : 0 .. slot]]
    BY <1>1, <2>2 DEF ClockOK
  <2> QED BY <1>1, <1>2, <2>2, <2>3 DEF ClockOK, Owed
<1>8. ASSUME NEW t \in Takers, TakesAStep(t)
      PROVE  ClaimSlot(t) \/ UNCHANGED clock
  BY <1>8 DEF TakesAStep, ReadSlot, Take, Turned, Command, WriteRaises, FindToQueue, LookAtLock,
       Unlock, ListLocal, HeldBack, EndLocal, KillTaker, Queue, Written, Begin, DeleteLocal
<1>9. ASSUME NEW a \in Archives, Administered(a)
      PROVE  UNCHANGED clock
  BY <1>9 DEF Administered, Verify, AskDelete, Unlink, AskSend, SendFirst, SendNextTime, localVars,
       clock
<1>10. Befalls => \/ SlotComes \/ UNCHANGED clock
                  \/ \E f \in Forms : LoadSettings(f) \/ SaveSettings(f)
  BY DEF Befalls, LockRunsOut
<1> QED BY <1>3, <1>4, <1>5, <1>6, <1>7, <1>8, <1>9, <1>10, EveryStep

(* What a taker that ends its archive, or goes to queue it, is at next. *)
LEMMA EndsIt ==
  ASSUME TypeOK, NEW t \in Takers,
         WriteRaises(t) \/ FindToQueue(t) \/ \E made \in BOOLEAN : Queue(t, made)
  PROVE  /\ take[t].step \in {"dumping", "writing", "written", "queueing"}
         /\ take'[t] \in Takings
         /\ \/ take'[t].step = "idle"
            \/ take'[t].step \in {"ended", "queueing"} /\ take'[t].kind = take[t].kind
<1>1. take \in [Takers -> Takings] /\ take[t] \in Takings
  BY DEF TypeOK
<1>2. /\ After(t).step = "idle" \/ (After(t).step = "ended" /\ After(t).kind = take[t].kind)
      /\ After(t) \in Takings
  BY <1>1, TakingsTyped DEF After, Off, Takings
<1>3. CASE FindToQueue(t)
  <2>1. take'[t] = (IF There(take[t].of) THEN [take[t] EXCEPT !.step = "queueing"] ELSE After(t))
    BY <1>1, <1>3 DEF FindToQueue
  <2>2. /\ [take[t] EXCEPT !.step = "queueing"] \in Takings
        /\ [take[t] EXCEPT !.step = "queueing"].step = "queueing"
        /\ [take[t] EXCEPT !.step = "queueing"].kind = take[t].kind
    BY <1>1 DEF Takings, TakeSteps
  <2> QED BY <1>2, <1>3, <2>1, <2>2 DEF FindToQueue, TakerAt
<1>4. CASE WriteRaises(t)
  <2>1. take'[t] = [After(t) EXCEPT !.of = 0]
    BY <1>1, <1>4 DEF WriteRaises
  <2>2. /\ [After(t) EXCEPT !.of = 0].step = After(t).step
        /\ [After(t) EXCEPT !.of = 0].kind = After(t).kind
        /\ [After(t) EXCEPT !.of = 0] \in Takings
    BY <1>2 DEF Takings
  <2> QED BY <1>2, <1>4, <2>1, <2>2 DEF WriteRaises
<1>5. CASE \E made \in BOOLEAN : Queue(t, made)
  <2>1. take'[t] = After(t) /\ take[t].step = "queueing"
    BY <1>1, <1>5 DEF Queue, TakerAt
  <2> QED BY <1>2, <2>1
<1> QED BY <1>3, <1>4, <1>5

LEMMA DueIsOwed ==
  ASSUME TypeOK, SlotsCounted, Next
  PROVE  \A t \in Takers : TakerAt(t, "due")' => take'[t].was < slot'
<1> SUFFICES ASSUME NEW t \in Takers, take'[t].step = "due"
             PROVE  take'[t].was < slot'
  BY DEF TakerAt
<1>1. slot \in Nat /\ slot' \in Nat /\ lastRun \in Nat /\ slot <= slot'
  BY ClockTyped, Numbers, KeepAssumption DEF ClockOK
<1>2. take \in [Takers -> Takings] /\ take[t] \in Takings
  BY DEF TypeOK
<1>3. take[t].was \in Nat
  BY <1>2, KeepAssumption DEF Takings
<1>4. CASE take'[t] = take[t]
  BY <1>1, <1>3, <1>4 DEF SlotsCounted, TakerAt
<1>5. CASE ReadSlot(t)
  <2>1. take'[t].was = lastRun /\ lastRun < slot
    BY <1>2, <1>5 DEF ReadSlot, Off
  <2> QED BY <1>1, <2>1
<1>6. ASSUME TakesAStep(t), ~ReadSlot(t)
      PROVE  FALSE
  <2>1. Off.step = "idle"
    BY DEF Off
  <2>2. CASE ClaimSlot(t) \/ Turned(t) \/ EndLocal(t) \/ KillTaker(t)
    BY <1>2, <2>1, <2>2 DEF ClaimSlot, Turned, EndLocal, KillTaker, Takings
  <2>3. CASE Take(t) \/ Command(t)
    BY <1>2, <2>3 DEF Take, Command, Off
  <2>4. CASE ListLocal(t) \/ HeldBack(t) \/ \E a \in Archives : Begin(t, a) \/ DeleteLocal(t, a)
    BY <1>2, <2>4 DEF ListLocal, HeldBack, Begin, DeleteLocal, TakerAt, Takings
  <2>5. CASE WriteRaises(t) \/ FindToQueue(t) \/ \E made \in BOOLEAN : Queue(t, made)
    BY <2>5, EndsIt
  <2>6. CASE LookAtLock(t) \/ Unlock(t)
    BY <1>2, <2>1, <2>6 DEF LookAtLock, Unlock, Leave, Takings
  <2>7. CASE \E plain \in BOOLEAN : Written(t, plain)
    BY <1>2, <2>1, <2>7 DEF Written, Takings
  <2> QED BY <1>6, <2>2, <2>3, <2>4, <2>5, <2>6, <2>7 DEF TakesAStep
<1>7. ASSUME NEW u \in Takers, u # t, TakesAStep(u)
      PROVE  take'[t] = take[t]
  BY <1>2, <1>7 DEF TakesAStep, ReadSlot, ClaimSlot, Take, Turned, Command,
       WriteRaises, FindToQueue, LookAtLock,
       Unlock, ListLocal, HeldBack, EndLocal, KillTaker, Queue, Written, Begin, DeleteLocal
<1>8. ASSUME NEW a \in Archives, Administered(a)
      PROVE  take'[t] = take[t]
  BY <1>8 DEF Administered, Verify, AskDelete, Unlink, AskSend, SendFirst, SendNextTime, localVars
<1>9. Befalls => take'[t] = take[t]
  BY DEF Befalls, SlotComes, LoadSettings, SaveSettings, LockRunsOut
<1> QED BY <1>4, <1>5, <1>6, <1>7, <1>8, <1>9, EveryStep

LEMMA InitCounted == Init => SlotsCounted
<1> SUFFICES ASSUME Init PROVE SlotsCounted
  OBVIOUS
<1>1. \A t \in Takers : ~TakerAt(t, "due")
  BY DEF Init, TakerAt, Off
<1>2. lastRun = 0 /\ \A k \in 1 .. MaxSlots : slots[k] = 0 /\ putBack[k] = 0
  BY KeepAssumption DEF Init
<1>3. \A k \in 1 .. MaxSlots : 0 < k
  BY KeepAssumption
<1> QED BY <1>1, <1>2, <1>3 DEF SlotsCounted, Owed

LEMMA NextTyped ==
  ASSUME TypeOK, SlotsCounted, [Next]_vars
  PROVE  TypeOK' /\ SlotsCounted'
<1>1. CASE Next
  <2>1. take' \in [Takers -> Takings]
    <3>1. (\E a \in Archives : Administered(a)) \/ Befalls => take' = take
      BY DEF Administered, Verify, AskDelete, Unlink, AskSend, SendFirst, SendNextTime, localVars, Befalls, SlotComes, LoadSettings, SaveSettings,
             LockRunsOut
    <3> QED BY <1>1, <3>1, TakerTyped, EveryStep DEF TypeOK
  <2>2. ShipmentsTypeOK'
    <3> DEFINE moves == \E a : Queued(a) \/ (a \in Archives /\ Ship(a))
    <3>1. moves => ShipmentsTypeOK'
      BY ShipmentTyped
    <3>6. (\A a : Queued(a) => moves) /\ (\A a \in Archives : Ship(a) => moves)
      OBVIOUS
    <3> HIDE DEF moves
    <3>2. UNCHANGED <<state, cut>> => ShipmentsTypeOK'
      BY DEF TypeOK, ShipmentsTypeOK
    <3>3. ASSUME NEW t \in Takers, TakesAStep(t)
          PROVE  moves \/ UNCHANGED <<state, cut>>
      <4>1. CASE \E made \in BOOLEAN : Queue(t, made)
        BY <3>6, <4>1 DEF Queue
      <4>2. CASE KillTaker(t)
        BY <4>2 DEF KillTaker
      <4> QED BY <3>3, <4>1, <4>2 DEF TakesAStep
    <3>4. ASSUME NEW a \in Archives, Administered(a)
          PROVE  moves \/ UNCHANGED <<state, cut>>
      BY <3>4, <3>6 DEF Administered, SendFirst, SendNextTime
    <3>5. Befalls => UNCHANGED <<state, cut>>
      BY DEF Befalls, LockRunsOut
    <3> QED BY <1>1, <3>1, <3>2, <3>3, <3>4, <3>5, EveryStep
  <2>3. TypeOK'
    BY <1>1, <2>1, <2>2, FilesTyped, RestTyped, AnswersTyped, ClockTyped DEF TypeOK, ClockOK
  <2> QED BY <1>1, <2>3, ClockTyped, DueIsOwed DEF SlotsCounted, ClockOK
<1>2. CASE UNCHANGED vars
  BY <1>2 DEF vars, localVars, files, locks, clock, settings, requests, histories, TypeOK,
              ShipmentsTypeOK, SlotsCounted, Owed, TakerAt
<1> QED BY <1>1, <1>2

(* Every state is well typed. *)
THEOREM BackupsTyped == Spec => []TypeOK
<1>1. Init => TypeOK /\ SlotsCounted
  BY InitTyped, InitCounted
<1>2. TypeOK /\ SlotsCounted /\ [Next]_vars => (TypeOK /\ SlotsCounted)'
  BY NextTyped
<1> QED BY <1>1, <1>2, PTL DEF Spec

(* However many schedulers go round, each slot is claimed once, and once more for each
   time a form of the settings put the row back to before it: the row says so from the
   moment it is claimed, and the claim is made only of a row that is as it was read. *)
THEOREM SlotsAreOnce == Spec => []SlotOnce
<1>1. Init => TypeOK /\ SlotsCounted
  BY InitTyped, InitCounted
<1>2. TypeOK /\ SlotsCounted /\ [Next]_vars => (TypeOK /\ SlotsCounted)'
  BY NextTyped
<1>3. TypeOK /\ SlotsCounted => SlotOnce
  <2> SUFFICES ASSUME TypeOK, SlotsCounted, NEW k \in 1 .. MaxSlots
               PROVE  slots[k] <= 1 + putBack[k]
    BY DEF SlotOnce
  <2>1. slots[k] \in Nat /\ putBack[k] \in Nat
    BY DEF TypeOK
  <2>2. slots[k] <= putBack[k] + 1
    BY <2>1 DEF SlotsCounted, Owed
  <2> QED BY <2>1, <2>2
<1> QED BY <1>1, <1>2, <1>3, PTL DEF Spec

-----------------------------------------------------------------------------
(* A taker leaves the others where they are; nothing else moves any. *)
LEMMA OthersStay ==
  ASSUME TypeOK, NEW t \in Takers, NEW u \in Takers, u # t, TakesAStep(u)
  PROVE  take'[t] = take[t]
<1>1. take \in [Takers -> Takings]
  BY DEF TypeOK
<1> QED BY <1>1 DEF TakesAStep, ReadSlot, ClaimSlot, Take, Turned, Command,
       WriteRaises, FindToQueue, LookAtLock,
       Unlock, ListLocal, HeldBack, EndLocal, KillTaker, Queue, Written, Begin, DeleteLocal

LEMMA NobodyMoves ==
  ASSUME (\E a \in Archives : Administered(a)) \/ Befalls
  PROVE  take' = take
BY DEF Administered, Verify, AskDelete, Unlink, AskSend, SendFirst, SendNextTime, localVars, Befalls, SlotComes, LoadSettings, SaveSettings, LockRunsOut

(* Whoever is at it under the lock holds it, or has outlasted it, or somebody has
   deleted it after it ran out between the look and the delete. *)
HoldsLock(t) ==
  /\ UnderLock(t) => \/ lock = t
                    \/ t \in overran
                    \/ slipped
  /\ TakerAt(t, "looked") => lock = t \/ slipped

(* A taker that goes on is under the lock only if it was, or takes it now. *)
LEMMA StaysUnder ==
  ASSUME TypeOK, NEW t \in Takers, TakesAStep(t), ~Take(t)
  PROVE  /\ UnderLock(t)' => UnderLock(t)
         /\ TakerAt(t, "looked")' => LookAtLock(t) /\ lock = t
<1>1. take \in [Takers -> Takings] /\ take[t] \in Takings
  BY DEF TypeOK
<1>2. Off.step = "idle"
  BY DEF Off
<1>3. CASE ClaimSlot(t) \/ Turned(t) \/ EndLocal(t) \/ KillTaker(t)
  BY <1>1, <1>2, <1>3 DEF ClaimSlot, Turned, EndLocal, KillTaker, Takings, UnderLock, TakerAt
<1>4. CASE Command(t) \/ ReadSlot(t)
  BY <1>1, <1>4 DEF Command, ReadSlot, Off, UnderLock, TakerAt
<1>5. CASE ListLocal(t) \/ HeldBack(t) \/ \E a \in Archives : Begin(t, a) \/ DeleteLocal(t, a)
  <2>1. CASE ListLocal(t)
    BY <1>1, <2>1 DEF ListLocal, TakerAt, Takings, UnderLock
  <2>2. CASE HeldBack(t)
    BY <1>1, <2>2 DEF HeldBack, TakerAt, Takings, UnderLock
  <2>3. CASE \E a \in Archives : Begin(t, a)
    BY <1>1, <2>3 DEF Begin, TakerAt, Takings, UnderLock
  <2>4. CASE \E a \in Archives : DeleteLocal(t, a)
    BY <1>1, <2>4 DEF DeleteLocal, TakerAt, Takings, UnderLock
  <2> QED BY <1>5, <2>1, <2>2, <2>3, <2>4
<1>6. CASE WriteRaises(t) \/ FindToQueue(t) \/ \E made \in BOOLEAN : Queue(t, made)
  BY <1>6, EndsIt DEF UnderLock, TakerAt
<1>7. CASE Unlock(t)
  BY <1>1, <1>2, <1>7 DEF Unlock, Leave, Takings, UnderLock, TakerAt
<1>8. CASE LookAtLock(t)
  BY <1>1, <1>2, <1>8 DEF LookAtLock, Leave, Takings, UnderLock, TakerAt
<1>9. CASE \E plain \in BOOLEAN : Written(t, plain)
  BY <1>1, <1>2, <1>9 DEF Written, Takings, UnderLock, TakerAt
<1> QED BY <1>3, <1>4, <1>5, <1>6, <1>7, <1>8, <1>9 DEF TakesAStep

(* What a taker's step does to the lock. *)
LEMMA LockMoves ==
  ASSUME TypeOK, NEW u \in Takers, TakesAStep(u)
  PROVE  /\ lock' = lock \/ (lock = NoTaker /\ lock' = u /\ Take(u)) \/ Unlock(u)
         /\ slipped' = slipped
         /\ overran' = overran \/ (Take(u) /\ overran' = overran \ {u})
BY DEF TakesAStep, ReadSlot, ClaimSlot, Take, Turned, Command, WriteRaises, FindToQueue, LookAtLock,
       Unlock, ListLocal, HeldBack, EndLocal, KillTaker, Queue, Written, Begin, DeleteLocal, locks

LEMMA LockHeld ==
  ASSUME TypeOK, \A t \in Takers : HoldsLock(t), [Next]_vars, NEW t \in Takers
  PROVE  HoldsLock(t)'
<1>1. HoldsLock(t) /\ take \in [Takers -> Takings] /\ lock \in Takers \cup {NoTaker}
  BY DEF TypeOK
<1>2. CASE TakesAStep(t)
  <2>1. CASE Take(t)
    <3>1. take'[t].step = "dumping" /\ lock' = t
      BY <1>1, <2>1 DEF Take, Off
    <3> QED BY <3>1 DEF HoldsLock, TakerAt
  <2>2. CASE Unlock(t)
    <3>1. Off.step = "idle" /\ take[t] \in Takings
      BY <1>1 DEF Off
    <3>2. take'[t].step \in {"idle", "retaining"}
      BY <1>1, <2>2, <3>1 DEF Unlock, Leave, Takings
    <3> QED BY <3>2 DEF HoldsLock, UnderLock, TakerAt
  <2>3. CASE ~Take(t) /\ ~Unlock(t)
    <3>1. lock' = lock /\ slipped' = slipped /\ overran' = overran
      BY <1>2, <2>3, LockMoves
    <3>2. (UnderLock(t)' => UnderLock(t)) /\ (TakerAt(t, "looked")' => lock = t)
      BY <1>2, <2>3, StaysUnder
    <3> QED BY <1>1, <3>1, <3>2 DEF HoldsLock
  <2> QED BY <2>1, <2>2, <2>3
<1>3. ASSUME NEW u \in Takers, u # t, TakesAStep(u)
      PROVE  HoldsLock(t)'
  <2>1. take'[t] = take[t]
    BY <1>3, OthersStay
  <2>2. (UnderLock(t)' <=> UnderLock(t)) /\ (TakerAt(t, "looked")' <=> TakerAt(t, "looked"))
    BY <2>1 DEF UnderLock, TakerAt
  <2>3. slipped' = slipped /\ (t \in overran => t \in overran')
    BY <1>3, LockMoves
  <2>4. lock = t => lock' = t \/ slipped
    <3>1. CASE Unlock(u)
      BY <1>3, <3>1 DEF Unlock, HoldsLock
    <3>2. CASE ~Unlock(u)
      BY <1>3, <3>2, LockMoves, TakerAssumption
    <3> QED BY <3>1, <3>2
  <2> QED BY <1>1, <2>2, <2>3, <2>4 DEF HoldsLock
<1>4. CASE \/ (\E a \in Archives : Administered(a)) \/ SlotComes
           \/ (\E f \in Forms : LoadSettings(f) \/ SaveSettings(f)) \/ UNCHANGED vars
  <2>1. take' = take /\ UNCHANGED locks
    BY <1>4 DEF Administered, Verify, AskDelete, Unlink, AskSend, SendFirst, SendNextTime, localVars, SlotComes,
       LoadSettings, SaveSettings, vars
  <2> QED BY <1>1, <2>1 DEF locks, HoldsLock, UnderLock, TakerAt
<1>5. CASE LockRunsOut
  <2>1. take' = take
    BY <1>5 DEF LockRunsOut
  <2>2. (UnderLock(t)' <=> UnderLock(t)) /\ (TakerAt(t, "looked")' <=> TakerAt(t, "looked"))
    BY <2>1 DEF UnderLock, TakerAt
  <2>3. /\ slipped => slipped'
        /\ lock = t /\ TakerAt(t, "looked") => slipped'
        /\ t \in overran => t \in overran'
        /\ lock = t /\ UnderLock(t) => t \in overran'
    BY <1>5 DEF LockRunsOut, TakerAt
  <2> QED BY <1>1, <2>2, <2>3 DEF HoldsLock
<1> QED BY <1>2, <1>3, <1>4, <1>5, EveryStep DEF Befalls

(* Two backups that asked for the lock are under way at once only when one of them has
   outlasted it, or when it ran out between the look at it and the delete. *)
THEOREM OneBackupAtATime == Spec => []OneAtATime
<1>1. Init => TypeOK /\ SlotsCounted /\ \A t \in Takers : HoldsLock(t)
  <2>1. Init => \A t \in Takers : HoldsLock(t)
    <3> SUFFICES ASSUME Init, NEW t \in Takers PROVE HoldsLock(t)
      OBVIOUS
    <3>1. take[t].step = "idle"
      BY DEF Init, Off
    <3> QED BY <3>1 DEF HoldsLock, UnderLock, TakerAt
  <2> QED BY <2>1, InitTyped, InitCounted
<1>2. TypeOK /\ SlotsCounted /\ (\A t \in Takers : HoldsLock(t)) /\ [Next]_vars
        => (TypeOK /\ SlotsCounted /\ \A t \in Takers : HoldsLock(t))'
  BY NextTyped, LockHeld
<1>3. (\A t \in Takers : HoldsLock(t)) => OneAtATime
  BY DEF HoldsLock, OneAtATime
<1> QED BY <1>1, <1>2, <1>3, PTL DEF Spec

-----------------------------------------------------------------------------
(* What local retention has settled on deleting is not waited for, unless the row
   came after, or came back. *)
Spared(t) == \A a \in Archives : TakerAt(t, "deleting") /\ a \in take[t].view
                                   => ~Waits(a) \/ a \in late \cup cut
Kept(a) == Waits(a) => There(a) \/ a \in byHand \cup late \cup cut

(* A row comes to wait only by being queued, late if some retention has listed it or
   nothing is left of it, or by a sender that was cut off. *)
LEMMA ComesToWait ==
  ASSUME TypeOK, Next, NEW a \in Archives, Waits(a)', ~Waits(a)
  PROVE  \/ a \in late'
         \/ There(a) /\ file' = file /\ \A t \in Takers : a \notin take[t].view
         \/ a \in cut
<1>1. state \in [Archives -> ShipmentStates]
  BY DEF TypeOK, ShipmentsTypeOK
<1>2. CASE UNCHANGED state
  BY <1>2 DEF Waits
<1>3. CASE \E t \in Takers, made \in BOOLEAN : Queue(t, made)
  <2>1. PICK t \in Takers, made \in BOOLEAN : Queue(t, made)
    BY <1>3
  <2>2. CASE made /\ state[take[t].of] = "none" /\ take[t].of = a
    BY <2>1, <2>2 DEF Queue, Settled, files
  <2>3. CASE ~(made /\ state[take[t].of] = "none") \/ take[t].of # a
    BY <1>1, <2>1, <2>3 DEF Queue, Queued, Becomes, Waits
  <2> QED BY <2>2, <2>3
<1>4. CASE \E b \in Archives : SendFirst(b)
  <2>1. PICK b \in Archives : SendFirst(b)
    BY <1>4
  <2>2. CASE b = a
    BY <2>1, <2>2 DEF SendFirst, Settled, files
  <2>3. CASE b # a
    BY <1>1, <2>1, <2>3 DEF SendFirst, Queued, Becomes, Waits
  <2> QED BY <2>2, <2>3
<1>5. CASE \E b \in Archives : Ship(b)
  <2>1. PICK b \in Archives : Ship(b)
    BY <1>5
  <2> QED BY <1>1, <2>1 DEF Ship, Fails, Arrives, Removes, IsCut, Returns, Becomes, Waits
<1>6. ASSUME NEW t \in Takers, TakesAStep(t)
      PROVE  UNCHANGED state \/ \E made \in BOOLEAN : Queue(t, made)
  BY <1>6 DEF TakesAStep, KillTaker
<1>7. (\E b \in Archives : SendNextTime(b)) => UNCHANGED state
  BY DEF SendNextTime
<1>8. Befalls => UNCHANGED state
  BY DEF Befalls, LockRunsOut
<1> QED BY <1>2, <1>3, <1>4, <1>5, <1>6, <1>7, <1>8, EveryStep DEF Administered

LEMMA HistoriesGrow ==
  ASSUME TypeOK, Next
  PROVE  late \subseteq late' /\ cut \subseteq cut' /\ byHand \subseteq byHand'
<1>1. ASSUME NEW t \in Takers, TakesAStep(t)
      PROVE  late \subseteq late' /\ cut \subseteq cut' /\ byHand \subseteq byHand'
  <2>1. CASE \E made \in BOOLEAN : Queue(t, made)
    BY <2>1 DEF Queue, Queued, Becomes
  <2>2. CASE ~\E made \in BOOLEAN : Queue(t, made)
    BY <1>1, <2>2 DEF TakesAStep, ReadSlot, ClaimSlot, Take, Turned, Command,
       WriteRaises, FindToQueue, LookAtLock,
         Unlock, ListLocal, HeldBack, EndLocal, KillTaker, Written, Begin, DeleteLocal, histories
  <2> QED BY <2>1, <2>2
<1>2. ASSUME NEW a \in Archives, Administered(a)
      PROVE  late \subseteq late' /\ cut \subseteq cut' /\ byHand \subseteq byHand'
  <2>1. CASE Ship(a) /\ UNCHANGED localVars
    BY <2>1 DEF Ship, Fails, Arrives, Removes, IsCut, Returns, Becomes, localVars, histories
  <2>2. CASE SendFirst(a) \/ SendNextTime(a)
    BY <2>2 DEF SendFirst, SendNextTime, Queued, Becomes, histories
  <2>3. CASE /\ Verify(a) \/ AskDelete(a) \/ Unlink(a) \/ AskSend(a)
             /\ UNCHANGED <<state, cut, cuts>>
    BY <2>3 DEF Verify, AskDelete, Unlink, AskSend, histories
  <2> QED BY <1>2, <2>1, <2>2, <2>3 DEF Administered
<1>3. Befalls => late \subseteq late' /\ cut \subseteq cut' /\ byHand \subseteq byHand'
  BY DEF Befalls, SlotComes, LoadSettings, SaveSettings, LockRunsOut, histories
<1> QED BY <1>1, <1>2, <1>3, EveryStep

(* A taker is about to delete only what it was, or what nothing waited for. *)
LEMMA SetOnDeleting ==
  ASSUME TypeOK, NEW t \in Takers, TakesAStep(t), TakerAt(t, "deleting")',
         NEW a \in Archives, a \in take'[t].view
  PROVE  /\ UNCHANGED <<state, cut>>
         /\ ~Waits(a) \/ (TakerAt(t, "deleting") /\ a \in take[t].view)
<1>1. take \in [Takers -> Takings] /\ take[t] \in Takings
  BY DEF TypeOK
<1>2. Off.step = "idle"
  BY DEF Off
<1>3. CASE HeldBack(t) /\ UNCHANGED <<state, cut, cuts>>
  BY <1>1, <1>3 DEF HeldBack, Takings
<1>4. CASE (\E b \in Archives : DeleteLocal(t, b)) /\ UNCHANGED <<state, cut, cuts>>
  <2>1. PICK b \in Archives : DeleteLocal(t, b)
    BY <1>4
  <2>2. take'[t].view = take[t].view \ {b} /\ TakerAt(t, "deleting")
    BY <1>1, <2>1 DEF DeleteLocal, Takings
  <2> QED BY <1>4, <2>2
<1>5. CASE ClaimSlot(t) \/ Turned(t) \/ EndLocal(t) \/ KillTaker(t)
  BY <1>1, <1>2, <1>5 DEF ClaimSlot, Turned, EndLocal, KillTaker, Takings, TakerAt
<1>6. CASE Command(t) \/ ReadSlot(t) \/ Take(t)
  BY <1>1, <1>6 DEF Command, ReadSlot, Take, Off, TakerAt
<1>7. CASE ListLocal(t) \/ \E b \in Archives : Begin(t, b)
  BY <1>1, <1>7 DEF ListLocal, Begin, TakerAt, Takings
<1>8. CASE WriteRaises(t) \/ FindToQueue(t) \/ \E made \in BOOLEAN : Queue(t, made)
  BY <1>8, EndsIt DEF TakerAt
<1>9. CASE Unlock(t) \/ LookAtLock(t)
  BY <1>1, <1>2, <1>9 DEF Unlock, LookAtLock, Leave, Takings, TakerAt
<1>10. CASE \E plain \in BOOLEAN : Written(t, plain)
  BY <1>1, <1>2, <1>10 DEF Written, Takings, TakerAt
<1> QED BY <1>3, <1>4, <1>5, <1>6, <1>7, <1>8, <1>9, <1>10 DEF TakesAStep

LEMMA StaysSpared ==
  ASSUME TypeOK, Next, NEW t \in Takers, Spared(t)
  PROVE  Spared(t)'
<1> SUFFICES ASSUME NEW a \in Archives, TakerAt(t, "deleting")', a \in take'[t].view, Waits(a)'
             PROVE  a \in late' \cup cut'
  BY DEF Spared
<1>1. late \subseteq late' /\ cut \subseteq cut'
  BY HistoriesGrow
<1>2. CASE TakesAStep(t)
  <2>1. UNCHANGED <<state, cut>>
        /\ (~Waits(a) \/ (TakerAt(t, "deleting") /\ a \in take[t].view))
    BY <1>2, SetOnDeleting
  <2> QED BY <1>1, <2>1 DEF Spared, Waits
<1>3. CASE take'[t] = take[t]
  <2>1. CASE Waits(a)
    BY <1>1, <1>3, <2>1 DEF Spared, TakerAt
  <2>2. CASE ~Waits(a)
    BY <1>1, <1>3, <2>2, ComesToWait
  <2> QED BY <2>1, <2>2
<1> QED BY <1>2, <1>3, EveryStep, OthersStay, NobodyMoves

LEMMA StaysKept ==
  ASSUME TypeOK, Next, NEW a \in Archives, Kept(a), \A t \in Takers : Spared(t)
  PROVE  Kept(a)'
<1> SUFFICES ASSUME Waits(a)', ~There(a)'
             PROVE  a \in byHand' \cup late' \cup cut'
  BY DEF Kept
<1>1. late \subseteq late' /\ cut \subseteq cut' /\ byHand \subseteq byHand'
  BY HistoriesGrow
<1>2. CASE ~Waits(a)
  <2>1. file' = file => (There(a)' <=> There(a))
    BY DEF There
  <2> QED BY <1>1, <1>2, <2>1, ComesToWait
<1>3. CASE Waits(a) /\ ~There(a)
  BY <1>1, <1>3 DEF Kept
<1>4. CASE Waits(a) /\ There(a)
  <2>1. file \in [Archives -> {"none", "part", "good", "gone"}]
    BY DEF TypeOK
  <2>2. CASE UNCHANGED file
    BY <1>4, <2>2 DEF There
  <2>3. ASSUME NEW t \in Takers, TakesAStep(t)
        PROVE  a \in byHand' \cup late' \cup cut'
    <3>1. CASE \E b \in Archives : DeleteLocal(t, b)
      <4>1. PICK b \in Archives : DeleteLocal(t, b)
        BY <3>1
      <4>2. CASE b = a
        BY <1>1, <1>4, <4>1, <4>2 DEF DeleteLocal, Spared
      <4>3. CASE b # a
        BY <1>4, <2>1, <4>1, <4>3 DEF DeleteLocal, There
      <4> QED BY <4>2, <4>3
    <3>2. CASE (\E b \in Archives : Begin(t, b)) \/ \E plain \in BOOLEAN : Written(t, plain)
      BY <1>4, <2>1, <3>2 DEF Begin, Written, There
    <3> QED BY <2>2, <2>3, <3>1, <3>2 DEF TakesAStep, ReadSlot, ClaimSlot, Take, Turned, Command,
                  WriteRaises, FindToQueue, LookAtLock, Unlock, ListLocal, HeldBack, EndLocal, KillTaker, Queue, files
  <2>4. ASSUME NEW b \in Archives, Administered(b)
        PROVE  a \in byHand' \cup late' \cup cut'
    <3>1. CASE Unlink(b)
      <4>1. CASE b = a
        BY <1>4, <3>1, <4>1 DEF Unlink
      <4>2. CASE b # a
        BY <1>4, <2>1, <3>1, <4>2 DEF Unlink, There
      <4> QED BY <4>1, <4>2
    <3> QED BY <2>2, <2>4, <3>1 DEF Administered, Verify, AskDelete, AskSend, SendFirst, SendNextTime, localVars, files
  <2>5. Befalls => UNCHANGED file
    BY DEF Befalls, SlotComes, LoadSettings, SaveSettings, LockRunsOut, files
  <2> QED BY <2>2, <2>3, <2>4, <2>5, EveryStep
<1> QED BY <1>2, <1>3, <1>4

(* Local retention deletes nothing the destination still waits for, whatever is queued,
   sent, killed and deleted around it. *)
THEOREM WaitingStaysHere == Spec => []WaitingIsKept
<1> DEFINE inv == /\ TypeOK /\ SlotsCounted
                  /\ \A t \in Takers : Spared(t)
                  /\ \A a \in Archives : Kept(a)
<1>1. Init => inv
  <2> SUFFICES ASSUME Init
               PROVE  (\A t \in Takers : Spared(t)) /\ \A a \in Archives : Kept(a)
    BY InitTyped, InitCounted
  <2>1. \A a \in Archives : ~Waits(a)
    BY DEF Init, ShipmentsInit, Waits
  <2> QED BY <2>1 DEF Spared, Kept
<1>2. inv /\ [Next]_vars => inv'
  <2> SUFFICES ASSUME inv, [Next]_vars
               PROVE  (\A t \in Takers : Spared(t)') /\ \A a \in Archives : Kept(a)'
    BY NextTyped
  <2>1. CASE Next
    BY <2>1, StaysSpared, StaysKept
  <2>2. CASE UNCHANGED vars
    BY <2>2 DEF vars, localVars, files, histories, Spared, Kept, TakerAt, Waits, There
  <2> QED BY <2>1, <2>2
<1>3. inv => WaitingIsKept
  BY DEF Kept, WaitingIsKept
<1> QED BY <1>1, <1>2, <1>3, PTL DEF Spec

-----------------------------------------------------------------------------
(* The last archive that is known to open.  What a retention under way is to delete
   has enough newer ones beside it, ... *)
Room == IF Keep = 0 THEN 1 ELSE Keep
Above(a) == {b \in Archives : There(b) /\ b > a}
Doomed(t, a) == take[t].step \in {"listed", "deleting"} /\ a \in take[t].view

(* ... a verdict is of what is in the directory, ... *)
VerdictsAgree ==
  \A a \in Archives : /\ known[a] = "ok" => file[a] = "good"
                      /\ known[a] = "failed" => file[a] # "good"

(* ... one that is being written is not whole, and is one taker's, ... *)
HalfWritten ==
  \A t \in Takers : TakerAt(t, "writing") =>
    /\ take[t].of \in Archives /\ file[take[t].of] \in {"part", "gone"}
    /\ \A u \in Takers : TakerAt(u, "writing") /\ u # t => take[u].of # take[t].of

(* ... an administrator's deletion is alone and leaves another that opens, or none opens
   yet and it is not whole, ... *)
AskedAlone ==
  ~crossed => \A a \in deleting :
    /\ deleting = {a}
    /\ (\E b \in Archives \ {a} : Trusted(b)) \/ (~opened /\ file[a] # "good")

(* ... and a retention is beside no such deletion, and leaves one that opens, as does
   every other. *)
NewestSpared ==
  ~crossed =>
    /\ \A t \in Takers, a \in Archives :
         Doomed(t, a) => deleting = {} /\ Cardinality(Above(a)) >= Room
    /\ (\E t \in Takers, a \in Archives : Doomed(t, a)) =>
         \E b \in Archives : Trusted(b) /\ \A t \in Takers : ~Doomed(t, b)

LastIsSafe == VerdictsAgree /\ HalfWritten /\ AskedAlone /\ NewestSpared /\ LastGoodStays

LEMMA Counted ==
  ASSUME NEW S \in SUBSET Archives, NEW T \in SUBSET S
  PROVE  Cardinality(S) \in Nat /\ Cardinality(T) \in Nat /\ Cardinality(T) <= Cardinality(S)
<1>1. IsFiniteSet(S)
  BY ArchiveAssumption, FS_Subset
<1>2. IsFiniteSet(T) /\ Cardinality(T) <= Cardinality(S)
  BY <1>1, FS_Subset
<1> QED BY <1>1, <1>2, FS_CardinalityType

LEMMA RoomIsPositive == Room \in Nat
BY KeepAssumption DEF Room

(* While no archive goes, and no more is to be deleted, a retention is as safe as it was. *)
LEMMA NewestStaysSpared ==
  ASSUME TypeOK, NewestSpared,
         crossed => crossed', deleting' = deleting,
         \A a \in Archives : There(a) => There(a)',
         \A a \in Archives : Trusted(a) => Trusted(a)',
         \A t \in Takers, a \in Archives : Doomed(t, a)' => Doomed(t, a)
  PROVE  NewestSpared'
<1> SUFFICES ASSUME ~crossed'
             PROVE  /\ \A t \in Takers, a \in Archives :
                         Doomed(t, a)' => deleting' = {} /\ Cardinality(Above(a)') >= Room
                    /\ (\E t \in Takers, a \in Archives : Doomed(t, a)') =>
                         \E b \in Archives : Trusted(b)' /\ \A t \in Takers : ~Doomed(t, b)'
  BY DEF NewestSpared, Room
<1>1. ASSUME NEW t \in Takers, NEW a \in Archives, Doomed(t, a)'
      PROVE  deleting' = {} /\ Cardinality(Above(a)') >= Room
  <2>1. deleting = {} /\ Cardinality(Above(a)) >= Room
    BY <1>1 DEF NewestSpared
  <2>2. Above(a) \subseteq Above(a)' /\ Above(a)' \subseteq Archives
    BY DEF Above
  <2> DEFINE now == Above(a)
             then == Above(a)'
  <2>3. now \subseteq then /\ then \subseteq Archives /\ Cardinality(now) >= Room
    BY <2>1, <2>2
  <2> HIDE DEF now, then
  <2>4. Cardinality(then) >= Room
    BY <2>3, Counted, RoomIsPositive
  <2> QED BY <2>1, <2>4 DEF then
<1>2. ASSUME NEW u \in Takers, NEW c \in Archives, Doomed(u, c)'
      PROVE  \E b \in Archives : Trusted(b)' /\ \A t \in Takers : ~Doomed(t, b)'
  BY <1>2 DEF NewestSpared
<1> QED BY <1>1, <1>2

(* While the archives and what is asked of them stay, only what is to be deleted and
   what is being written could matter. *)
LEMMA NothingTouched ==
  ASSUME TypeOK, LastIsSafe, UNCHANGED <<file, known, deleting, opened, crossed>>,
         \A t \in Takers : TakerAt(t, "writing")' =>
                             TakerAt(t, "writing") /\ take'[t].of = take[t].of,
         \A t \in Takers, a \in Archives : Doomed(t, a)' => Doomed(t, a)
  PROVE  LastIsSafe'
<1>1. \A a \in Archives : (There(a)' <=> There(a)) /\ (Trusted(a)' <=> Trusted(a))
  BY DEF There, Trusted
<1>2. VerdictsAgree'
  BY DEF LastIsSafe, VerdictsAgree
<1>3. HalfWritten'
  BY DEF LastIsSafe, HalfWritten
<1>4. AskedAlone'
  BY <1>1 DEF LastIsSafe, AskedAlone
<1>5. NewestSpared'
  BY <1>1, NewestStaysSpared DEF LastIsSafe
<1>6. LastGoodStays'
  BY <1>1 DEF LastIsSafe, LastGoodStays
<1> QED BY <1>2, <1>3, <1>4, <1>5, <1>6 DEF LastIsSafe

(* What a taker does that neither lists nor touches an archive. *)
LEMMA QuietTaker ==
  ASSUME TypeOK, LastIsSafe, NEW t \in Takers, TakesAStep(t),
         ~\E a \in Archives : Begin(t, a) \/ DeleteLocal(t, a),
         ~\E plain \in BOOLEAN : Written(t, plain), ~ListLocal(t)
  PROVE  LastIsSafe'
<1>1. take \in [Takers -> Takings] /\ take[t] \in Takings
  BY DEF TypeOK
<1>2. Off.step = "idle"
  BY DEF Off
<1>3. UNCHANGED <<file, known, deleting, opened, crossed>>
  BY DEF TakesAStep, ReadSlot, ClaimSlot, Take, Turned, Command, WriteRaises, FindToQueue, LookAtLock,
         Unlock, HeldBack, EndLocal, KillTaker, Queue, files, requests, histories
<1>4. /\ take'[t].step # "writing"
      /\ \A a \in Archives : Doomed(t, a)' => Doomed(t, a)
  <2>1. CASE ClaimSlot(t) \/ Turned(t) \/ EndLocal(t) \/ KillTaker(t)
    BY <1>1, <1>2, <2>1 DEF ClaimSlot, Turned, EndLocal, KillTaker, Takings, Doomed
  <2>2. CASE Command(t) \/ ReadSlot(t) \/ Take(t)
    BY <1>1, <2>2 DEF Command, ReadSlot, Take, Off, Doomed
  <2>3. CASE HeldBack(t)
    BY <1>1, <2>3 DEF HeldBack, TakerAt, Takings, Doomed
  <2>4. CASE WriteRaises(t) \/ FindToQueue(t) \/ \E made \in BOOLEAN : Queue(t, made)
    <3>1. take'[t].step \notin {"writing", "listed", "deleting"}
      BY <2>4, EndsIt
    <3> QED BY <3>1 DEF Doomed
  <2>5. CASE Unlock(t) \/ LookAtLock(t)
    BY <1>1, <1>2, <2>5 DEF Unlock, LookAtLock, Leave, Takings, Doomed
  <2> QED BY <2>1, <2>2, <2>3, <2>4, <2>5 DEF TakesAStep
<1>5. \A u \in Takers : u # t => take'[u] = take[u]
  BY OthersStay
<1>6. \A u \in Takers : TakerAt(u, "writing")' =>
                          TakerAt(u, "writing") /\ take'[u].of = take[u].of
  BY <1>4, <1>5 DEF TakerAt
<1>7. \A u \in Takers, a \in Archives : Doomed(u, a)' => Doomed(u, a)
  BY <1>4, <1>5 DEF Doomed
<1> QED BY <1>3, <1>6, <1>7, NothingTouched

(* An archive is opened under a number nobody writes to. *)
LEMMA BeginIsSafe ==
  ASSUME TypeOK, LastIsSafe, NEW t \in Takers, NEW a \in Archives, Begin(t, a)
  PROVE  LastIsSafe'
<1>1. /\ take \in [Takers -> Takings] /\ take[t] \in Takings
      /\ file \in [Archives -> {"none", "part", "good", "gone"}]
  BY DEF TypeOK
<1>2. /\ file[a] = "none" /\ file' = [file EXCEPT ![a] = "part"]
      /\ UNCHANGED <<known, deleting, opened, crossed>>
  BY DEF Begin, Fresh, histories, requests
<1>3. take'[t].step = "writing" /\ take'[t].of = a /\ \A u \in Takers : u # t => take'[u] = take[u]
  BY <1>1 DEF Begin, Takings
<1>4. \A b \in Archives : (There(b) => There(b)') /\ (Trusted(b)' <=> Trusted(b))
  BY <1>1, <1>2 DEF There, Trusted
<1>5. VerdictsAgree'
  BY <1>1, <1>2 DEF LastIsSafe, VerdictsAgree
<1>6. HalfWritten'
  BY <1>1, <1>2, <1>3 DEF LastIsSafe, HalfWritten, TakerAt
<1>7. AskedAlone'
  <2>1. deleting \subseteq Archives
    BY DEF TypeOK
  <2> QED BY <1>1, <1>2, <1>4, <2>1 DEF LastIsSafe, AskedAlone
<1>8. NewestSpared'
  <2>1. \A u \in Takers, b \in Archives : Doomed(u, b)' => Doomed(u, b)
    BY <1>3 DEF Doomed
  <2> QED BY <1>2, <1>4, <2>1, NewestStaysSpared DEF LastIsSafe
<1>9. LastGoodStays'
  BY <1>2, <1>4 DEF LastIsSafe, LastGoodStays
<1> QED BY <1>5, <1>6, <1>7, <1>8, <1>9 DEF LastIsSafe

(* It is whole: it was not, so that none is lost that was known to open. *)
LEMMA WrittenIsSafe ==
  ASSUME TypeOK, LastIsSafe, NEW t \in Takers, NEW plain \in BOOLEAN, Written(t, plain)
  PROVE  LastIsSafe'
<1> DEFINE a == take[t].of
<1>1. /\ take \in [Takers -> Takings] /\ take[t] \in Takings
      /\ file \in [Archives -> {"none", "part", "good", "gone"}]
      /\ known \in [Archives -> {"", "ok", "failed"}] /\ deleting \subseteq Archives
  BY DEF TypeOK
<1>2. /\ a \in Archives /\ file[a] = "part"
      /\ \A u \in Takers : TakerAt(u, "writing") /\ u # t => take[u].of # a
  BY DEF Written, LastIsSafe, HalfWritten, There
<1>3. /\ file' = [file EXCEPT ![a] = "good"] /\ known'[a] = (IF plain THEN "" ELSE "ok")
      /\ \A b \in Archives : b # a => known'[b] = known[b]
      /\ opened' = (opened \/ ~plain) /\ crossed' = (crossed \/ a \in deleting)
      /\ deleting' = deleting
  BY <1>1, <1>2 DEF Written, requests
<1>4. take'[t].step # "writing" /\ \A u \in Takers : u # t => take'[u] = take[u]
  BY <1>1 DEF Written, Off, Takings
<1>5. \A b \in Archives : (There(b) => There(b)') /\ (Trusted(b) => Trusted(b)')
  BY <1>1, <1>2, <1>3 DEF There, Trusted
<1>6. VerdictsAgree'
  BY <1>1, <1>2, <1>3 DEF LastIsSafe, VerdictsAgree
<1>7. HalfWritten'
  <2> SUFFICES ASSUME NEW u \in Takers, take'[u].step = "writing"
               PROVE  /\ take'[u].of \in Archives /\ file'[take'[u].of] \in {"part", "gone"}
                      /\ \A v \in Takers : take'[v].step = "writing" /\ v # u
                                             => take'[v].of # take'[u].of
    BY DEF HalfWritten, TakerAt
  <2>1. u # t /\ take'[u] = take[u] /\ take[u].of # a
    BY <1>2, <1>4 DEF TakerAt
  <2>2. take[u].of \in Archives /\ file[take[u].of] \in {"part", "gone"}
        /\ \A v \in Takers : take[v].step = "writing" /\ v # u => take[v].of # take[u].of
    BY <2>1 DEF LastIsSafe, HalfWritten, TakerAt
  <2> QED BY <1>1, <1>3, <1>4, <2>1, <2>2
<1>8. AskedAlone'
  <2> SUFFICES ASSUME ~crossed', NEW c \in deleting
               PROVE  /\ deleting = {c}
                      /\ \/ \E b \in Archives \ {c} : Trusted(b)'
                         \/ ~opened' /\ file'[c] # "good"
    BY <1>3 DEF AskedAlone
  <2>1. ~crossed /\ c # a /\ c \in Archives
    BY <1>1, <1>3
  <2>2. file'[c] = file[c]
    BY <1>1, <1>3, <2>1
  <2>3. CASE plain
    BY <1>3, <1>5, <2>1, <2>2, <2>3 DEF LastIsSafe, AskedAlone
  <2>4. CASE ~plain
    <3>1. file'[a] = "good" /\ known'[a] = "ok"
      BY <1>1, <1>2, <1>3, <2>4
    <3>2. \E b \in Archives \ {c} : Trusted(b)'
      BY <1>2, <2>1, <3>1 DEF Trusted
    <3> QED BY <2>1, <3>2 DEF LastIsSafe, AskedAlone
  <2> QED BY <2>3, <2>4
<1>9. NewestSpared'
  <2>1. \A u \in Takers, b \in Archives : Doomed(u, b)' => Doomed(u, b)
    <3>1. take'[t].step \in {"idle", "written"}
      BY <1>1 DEF Written, Off, Takings
    <3> QED BY <1>4, <3>1 DEF Doomed
  <2> QED BY <1>3, <1>5, <2>1, NewestStaysSpared DEF LastIsSafe
<1>10. LastGoodStays'
  <2> SUFFICES ASSUME opened', ~crossed' PROVE \E b \in Archives : Trusted(b)'
    BY DEF LastGoodStays
  <2>1. CASE plain
    BY <1>3, <1>5, <2>1 DEF LastIsSafe, LastGoodStays
  <2>2. CASE ~plain
    BY <1>1, <1>2, <1>3, <2>2 DEF Trusted
  <2> QED BY <2>1, <2>2
<1> QED BY <1>6, <1>7, <1>8, <1>9, <1>10 DEF LastIsSafe

(* Retention sets apart what is beyond the newest; a good one of those is in none of
   the retentions that are under way, since what they delete had enough newer ones. *)
LEMMA ListIsSafe ==
  ASSUME TypeOK, LastIsSafe, NEW t \in Takers, ListLocal(t)
  PROVE  LastIsSafe'
<1>1. /\ take \in [Takers -> Takings] /\ take[t] \in Takings
      /\ UNCHANGED <<file, known, deleting, opened>>
      /\ crossed' = (crossed \/ deleting # {} \/ ~\E a \in Newest : Trusted(a))
  BY DEF TypeOK, ListLocal, files, requests
<1>2. /\ take'[t].step = "listed" /\ take'[t].view = {a \in Archives : There(a)} \ Newest
      /\ \A u \in Takers : u # t => take'[u] = take[u]
  BY <1>1 DEF ListLocal, Takings
<1>3. \A a \in Archives : (There(a)' <=> There(a)) /\ (Trusted(a)' <=> Trusted(a))
  BY <1>1 DEF There, Trusted
<1>4. VerdictsAgree'
  BY <1>1 DEF LastIsSafe, VerdictsAgree
<1>5. HalfWritten'
  BY <1>1, <1>2 DEF LastIsSafe, HalfWritten, TakerAt
<1>6. AskedAlone'
  BY <1>1, <1>3 DEF LastIsSafe, AskedAlone
<1>7. \A a \in Archives : Above(a)' = Above(a) /\ Cardinality(Above(a)) \in Nat
  <2> SUFFICES ASSUME NEW a \in Archives
               PROVE  Above(a)' = Above(a) /\ Cardinality(Above(a)) \in Nat
    OBVIOUS
  <2>1. Above(a) \subseteq Archives /\ Above(a)' = Above(a)
    BY <1>1 DEF Above, There
  <2> DEFINE S == Above(a)
  <2>2. S \in SUBSET Archives
    BY <2>1
  <2> HIDE DEF S
  <2>3. Cardinality(S) \in Nat
    BY <2>2, Counted
  <2> QED BY <2>1, <2>3 DEF S
<1>8. \A a \in Archives : a \in Newest <=> There(a) /\ Cardinality(Above(a)) < Room
  BY DEF Newest, Above, Room
<1>9. NewestSpared'
  <2> SUFFICES ASSUME ~crossed'
               PROVE  /\ \A u \in Takers, a \in Archives :
                           Doomed(u, a)' => deleting' = {} /\ Cardinality(Above(a)') >= Room
                      /\ \E b \in Archives : Trusted(b)' /\ \A u \in Takers : ~Doomed(u, b)'
    BY DEF NewestSpared, Room
  <2>1. ~crossed /\ deleting = {} /\ \E b \in Newest : Trusted(b)
    BY <1>1
  <2>2. ASSUME NEW u \in Takers, NEW a \in Archives, Doomed(u, a)'
        PROVE  Cardinality(Above(a)) >= Room
    <3>1. CASE u = t
      <4>1. There(a) /\ a \notin Newest
        BY <1>2, <2>2, <3>1 DEF Doomed
      <4> QED BY <1>7, <1>8, <4>1, RoomIsPositive
    <3>2. CASE u # t
      BY <1>2, <2>1, <2>2, <3>2 DEF Doomed, LastIsSafe, NewestSpared
    <3> QED BY <3>1, <3>2
  <2>3. PICK b \in Newest : Trusted(b)
    BY <2>1
  <2>4. b \in Archives /\ Trusted(b)'
    BY <1>3, <2>3 DEF Newest
  <2>5. ASSUME NEW u \in Takers, Doomed(u, b)'
        PROVE  FALSE
    <3>1. Cardinality(Above(b)) >= Room
      BY <2>2, <2>4, <2>5
    <3> QED BY <1>7, <1>8, <2>3, <2>4, <3>1, RoomIsPositive
  <2> QED BY <1>1, <1>7, <2>1, <2>2, <2>4, <2>5
<1>10. LastGoodStays'
  BY <1>1, <1>3 DEF LastIsSafe, LastGoodStays
<1> QED BY <1>4, <1>5, <1>6, <1>9, <1>10 DEF LastIsSafe

(* Retention deletes one that it has settled on: those newer than what others are to
   delete are still enough, since the one that goes has as many above it. *)
LEMMA DeleteIsSafe ==
  ASSUME TypeOK, LastIsSafe, NEW t \in Takers, NEW a \in Archives, DeleteLocal(t, a)
  PROVE  LastIsSafe'
<1>1. /\ take \in [Takers -> Takings] /\ take[t] \in Takings
      /\ file \in [Archives -> {"none", "part", "good", "gone"}]
      /\ known \in [Archives -> {"", "ok", "failed"}] /\ deleting \subseteq Archives
  BY DEF TypeOK
<1>2. /\ file' = [file EXCEPT ![a] = "gone"] /\ known' = [known EXCEPT ![a] = ""]
      /\ UNCHANGED <<deleting, opened, crossed>> /\ Doomed(t, a)
  BY DEF DeleteLocal, histories, Doomed, TakerAt, requests
<1>3. /\ take'[t].step = "deleting" /\ take'[t].view = take[t].view \ {a}
      /\ \A u \in Takers : u # t => take'[u] = take[u]
  BY <1>1 DEF DeleteLocal, Takings, TakerAt
<1>4. \A u \in Takers, b \in Archives : Doomed(u, b)' => Doomed(u, b)
  <2>1. take[t].step = "deleting"
    BY DEF DeleteLocal, TakerAt
  <2> QED BY <1>3, <2>1 DEF Doomed
<1>5. \A b \in Archives \ {a} : (There(b)' <=> There(b)) /\ (Trusted(b)' <=> Trusted(b))
  BY <1>1, <1>2 DEF There, Trusted
<1>6. VerdictsAgree'
  BY <1>1, <1>2 DEF LastIsSafe, VerdictsAgree
<1>7. HalfWritten'
  <2> SUFFICES ASSUME NEW u \in Takers, take'[u].step = "writing"
               PROVE  /\ take'[u].of \in Archives /\ file'[take'[u].of] \in {"part", "gone"}
                      /\ \A v \in Takers : take'[v].step = "writing" /\ v # u
                                             => take'[v].of # take'[u].of
    BY DEF HalfWritten, TakerAt
  <2>1. u # t /\ take'[u] = take[u]
    BY <1>3
  <2>2. take[u].of \in Archives /\ file[take[u].of] \in {"part", "gone"}
        /\ \A v \in Takers : take[v].step = "writing" /\ v # u => take[v].of # take[u].of
    BY <2>1 DEF LastIsSafe, HalfWritten, TakerAt
  <2> QED BY <1>1, <1>2, <1>3, <2>1, <2>2
<1>8. ~crossed => deleting = {} /\ \E b \in Archives : Trusted(b) /\ \A u \in Takers : ~Doomed(u, b)
  BY <1>2 DEF LastIsSafe, NewestSpared
<1>9. AskedAlone'
  BY <1>2, <1>8 DEF AskedAlone
<1>10. ~crossed => \E b \in Archives : Trusted(b)' /\ \A u \in Takers : ~Doomed(u, b)'
  <2> SUFFICES ASSUME ~crossed
               PROVE  \E b \in Archives : Trusted(b)' /\ \A u \in Takers : ~Doomed(u, b)'
    OBVIOUS
  <2>1. PICK b \in Archives : Trusted(b) /\ \A u \in Takers : ~Doomed(u, b)
    BY <1>8
  <2>2. b # a
    BY <1>2, <2>1
  <2> QED BY <1>4, <1>5, <2>1, <2>2
<1>11. NewestSpared'
  <2> SUFFICES ASSUME ~crossed, NEW u \in Takers, NEW c \in Archives, Doomed(u, c)'
               PROVE  Cardinality(Above(c)') >= Room
    BY <1>2, <1>8, <1>10 DEF NewestSpared, Room
  <2>1. Cardinality(Above(c)) >= Room /\ Cardinality(Above(a)) >= Room
    BY <1>2, <1>4 DEF LastIsSafe, NewestSpared
  <2>2. \A b \in Archives : b \in Nat
    BY ArchiveAssumption
  <2>3. CASE a \in Above(c)
    <3>1. Above(a) \subseteq Above(c)'
      <4> SUFFICES ASSUME NEW b \in Above(a) PROVE b \in Above(c)'
        OBVIOUS
      <4>1. b \in Archives /\ There(b) /\ b > a /\ a > c
        BY <2>3 DEF Above
      <4>2. b # a /\ b > c
        BY <2>2, <4>1
      <4> QED BY <1>5, <4>1, <4>2 DEF Above
    <3> DEFINE S == Above(c)'
               T == Above(a)
    <3>2. S \in SUBSET Archives /\ T \in SUBSET S /\ Cardinality(T) >= Room
      BY <2>1, <3>1 DEF Above
    <3> HIDE DEF S, T
    <3>3. Cardinality(S) >= Room
      BY <3>2, Counted, RoomIsPositive
    <3> QED BY <3>3 DEF S
  <2>4. CASE a \notin Above(c)
    <3>1. Above(c) \subseteq Above(c)'
      BY <1>5, <2>4 DEF Above
    <3> DEFINE S == Above(c)'
               T == Above(c)
    <3>2. S \in SUBSET Archives /\ T \in SUBSET S /\ Cardinality(T) >= Room
      BY <2>1, <3>1 DEF Above
    <3> HIDE DEF S, T
    <3>3. Cardinality(S) >= Room
      BY <3>2, Counted, RoomIsPositive
    <3> QED BY <3>3 DEF S
  <2> QED BY <2>3, <2>4
<1>12. LastGoodStays'
  BY <1>2, <1>10 DEF LastGoodStays
<1> QED BY <1>6, <1>7, <1>9, <1>11, <1>12 DEF LastIsSafe

(* An archive is opened: one that opens is known to from then on. *)
LEMMA VerifyIsSafe ==
  ASSUME TypeOK, LastIsSafe, NEW a \in Archives, Verify(a)
  PROVE  LastIsSafe'
<1>1. /\ known \in [Archives -> {"", "ok", "failed"}] /\ deleting \subseteq Archives
      /\ UNCHANGED <<file, deleting, crossed, take>>
      /\ \E says \in IF file[a] = "good" THEN {"ok"} ELSE {"failed", known[a]} :
           known' = [known EXCEPT ![a] = says]
      /\ opened' = (opened \/ file[a] = "good")
  BY DEF Verify, TypeOK, requests
<1>2. \A b \in Archives : (There(b)' <=> There(b)) /\ (Trusted(b) => Trusted(b)')
  BY <1>1 DEF There, Trusted
<1>3. VerdictsAgree'
  BY <1>1 DEF LastIsSafe, VerdictsAgree
<1>4. HalfWritten'
  BY <1>1 DEF LastIsSafe, HalfWritten, TakerAt
<1>5. file[a] = "good" => Trusted(a)'
  <2> SUFFICES ASSUME file[a] = "good" PROVE file'[a] = "good" /\ known'[a] = "ok"
    BY DEF Trusted
  <2>1. known' = [known EXCEPT ![a] = "ok"]
    BY <1>1
  <2> QED BY <1>1, <2>1
<1>6. AskedAlone'
  <2> SUFFICES ASSUME ~crossed, NEW c \in deleting
               PROVE  /\ deleting = {c}
                      /\ \/ \E b \in Archives \ {c} : Trusted(b)'
                         \/ ~opened' /\ file[c] # "good"
    BY <1>1 DEF AskedAlone
  <2>1. /\ deleting = {c} /\ c \in Archives
        /\ (\E b \in Archives \ {c} : Trusted(b)) \/ (~opened /\ file[c] # "good")
    BY <1>1 DEF LastIsSafe, AskedAlone
  <2>2. CASE \E b \in Archives \ {c} : Trusted(b)
    BY <1>2, <2>1, <2>2
  <2>3. CASE ~opened /\ file[c] # "good" /\ file[a] = "good"
    BY <1>5, <2>1, <2>3
  <2>4. CASE ~opened /\ file[c] # "good" /\ file[a] # "good"
    BY <1>1, <2>1, <2>4
  <2> QED BY <2>1, <2>2, <2>3, <2>4
<1>7. NewestSpared'
  <2>1. \A u \in Takers, b \in Archives : Doomed(u, b)' => Doomed(u, b)
    BY <1>1 DEF Doomed
  <2> QED BY <1>1, <1>2, <2>1, NewestStaysSpared DEF LastIsSafe
<1>8. LastGoodStays'
  BY <1>1, <1>2, <1>5 DEF LastIsSafe, LastGoodStays
<1> QED BY <1>3, <1>4, <1>6, <1>7, <1>8 DEF LastIsSafe

(* A deletion is asked for: beside nothing, and of what is not the last. *)
LEMMA AskIsSafe ==
  ASSUME TypeOK, LastIsSafe, NEW a \in Archives, AskDelete(a)
  PROVE  LastIsSafe'
<1>1. /\ UNCHANGED <<file, known, opened, take>> /\ deleting' = deleting \cup {a}
      /\ crossed' = (crossed \/ deleting # {} \/ \E t \in Takers : Retaining(t))
      /\ ~Blocked(a) \/ file[a] = "part"
  BY DEF AskDelete, files
<1>2. \A b \in Archives : Trusted(b)' <=> Trusted(b)
  BY <1>1 DEF Trusted
<1>3. VerdictsAgree' /\ HalfWritten' /\ LastGoodStays'
  BY <1>1, <1>2 DEF LastIsSafe, VerdictsAgree, HalfWritten, TakerAt, LastGoodStays
<1>4. (\E b \in Archives \ {a} : Trusted(b)) \/ (~opened /\ file[a] # "good") \/ crossed'
  <2>1. CASE \E b \in Archives \ {a} : There(b) /\ known[b] = "ok"
    BY <2>1 DEF LastIsSafe, VerdictsAgree, Trusted
  <2>2. CASE file[a] = "part" \/ known[a] = "failed"
    <3>1. file[a] # "good"
      BY <2>2 DEF LastIsSafe, VerdictsAgree
    <3> QED BY <1>1, <3>1 DEF LastIsSafe, LastGoodStays, Trusted
  <2> QED BY <1>1, <2>1, <2>2 DEF Blocked
<1>5. AskedAlone'
  BY <1>1, <1>2, <1>4 DEF AskedAlone
<1>6. NewestSpared'
  <2> SUFFICES ASSUME ~crossed' PROVE \A t \in Takers, b \in Archives : ~Doomed(t, b)'
    BY DEF NewestSpared
  <2>1. \A t \in Takers : ~Retaining(t)
    BY <1>1
  <2> QED BY <1>1, <2>1 DEF Retaining, Doomed
<1> QED BY <1>3, <1>5, <1>6 DEF LastIsSafe

(* It is deleted. *)
LEMMA UnlinkIsSafe ==
  ASSUME TypeOK, LastIsSafe, NEW a \in Archives, Unlink(a)
  PROVE  LastIsSafe'
<1>1. /\ file \in [Archives -> {"none", "part", "good", "gone"}]
      /\ known \in [Archives -> {"", "ok", "failed"}] /\ deleting \subseteq Archives
      /\ file' = [file EXCEPT ![a] = "gone"] /\ known' = [known EXCEPT ![a] = ""]
      /\ UNCHANGED <<take, crossed, opened>> /\ a \in deleting /\ deleting' = deleting \ {a}
  BY DEF Unlink, TypeOK
<1>2. \A b \in Archives \ {a} : Trusted(b)' <=> Trusted(b)
  BY <1>1 DEF Trusted
<1>3. VerdictsAgree'
  BY <1>1 DEF LastIsSafe, VerdictsAgree
<1>4. HalfWritten'
  BY <1>1 DEF LastIsSafe, HalfWritten, TakerAt
<1>5. ~crossed => /\ deleting = {a}
                  /\ (\E b \in Archives \ {a} : Trusted(b)) \/ ~opened
  BY <1>1 DEF LastIsSafe, AskedAlone
<1>6. AskedAlone'
  BY <1>1, <1>5 DEF AskedAlone
<1>7. NewestSpared'
  <2> SUFFICES ASSUME ~crossed PROVE \A t \in Takers, b \in Archives : ~Doomed(t, b)'
    BY <1>1 DEF NewestSpared
  <2>1. \A t \in Takers, b \in Archives : ~Doomed(t, b)
    BY <1>1 DEF LastIsSafe, NewestSpared
  <2> QED BY <1>1, <2>1 DEF Doomed
<1>8. LastGoodStays'
  BY <1>1, <1>2, <1>5 DEF LastGoodStays
<1> QED BY <1>3, <1>4, <1>6, <1>7, <1>8 DEF LastIsSafe

(* While deletions are decided one after another, and each retention finds one that opens
   among the newest, the last archive that is known to open stays, whatever is written,
   verified, rotated away and deleted. *)
THEOREM LastGoodIsKept == Spec => []LastGoodStays
<1> DEFINE inv == TypeOK /\ SlotsCounted /\ LastIsSafe
<1>1. Init => inv
  <2> SUFFICES ASSUME Init PROVE LastIsSafe
    BY InitTyped, InitCounted
  <2>1. \A t \in Takers : take[t].step = "idle"
    BY DEF Init, Off
  <2>2. /\ \A a \in Archives : known[a] = ""
        /\ deleting = {} /\ opened = FALSE
    BY DEF Init
  <2> QED BY <2>1, <2>2 DEF LastIsSafe, VerdictsAgree, HalfWritten, AskedAlone, NewestSpared,
             LastGoodStays, TakerAt, Doomed
<1>2. inv /\ [Next]_vars => inv'
  <2> SUFFICES ASSUME TypeOK, LastIsSafe, [Next]_vars PROVE LastIsSafe'
    BY NextTyped
  <2>1. ASSUME NEW t \in Takers, TakesAStep(t)
        PROVE  LastIsSafe'
    BY <2>1, QuietTaker, BeginIsSafe, DeleteIsSafe, WrittenIsSafe, ListIsSafe
  <2>2. ASSUME NEW a \in Archives, Administered(a)
        PROVE  LastIsSafe'
    <3>1. CASE Verify(a) \/ AskDelete(a) \/ Unlink(a)
      BY <3>1, VerifyIsSafe, AskIsSafe, UnlinkIsSafe
    <3>2. CASE SendFirst(a) \/ SendNextTime(a) \/ AskSend(a) \/ UNCHANGED localVars
      <4>1. UNCHANGED <<file, known, deleting, opened, crossed>> /\ take' = take
        BY <3>2 DEF SendFirst, SendNextTime, AskSend, localVars, files, requests, histories
      <4> QED BY <4>1, NothingTouched DEF TakerAt, Doomed
    <3> QED BY <2>2, <3>1, <3>2 DEF Administered
  <2>3. CASE Befalls \/ UNCHANGED vars
    <3>1. UNCHANGED <<file, known, deleting, opened, crossed>> /\ take' = take
      BY <2>3 DEF Befalls, SlotComes, LoadSettings, SaveSettings, LockRunsOut, vars, localVars,
           files, requests, histories
    <3> QED BY <3>1, NothingTouched DEF TakerAt, Doomed
  <2> QED BY <2>1, <2>2, <2>3, EveryStep
<1>3. inv => LastGoodStays
  BY DEF LastIsSafe
<1> QED BY <1>1, <1>2, <1>3, PTL DEF Spec
=============================================================================
