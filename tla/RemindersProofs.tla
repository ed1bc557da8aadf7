-------------------------- MODULE RemindersProofs --------------------------
(***************************************************************************)
(* Reminders, for any number of reminders, writers and passes: every state *)
(* is well typed; passes overlap only after a lease was outlived; a tick   *)
(* is never lost to a stale copy; and each turn of a reminder is announced *)
(* once, unless a plugin made forget that it had been.                     *)
(***************************************************************************)
EXTENDS Reminders, TLAPS

(* What every action does to a told sequence: nothing, or one more. *)
LEMMA AppendTold ==
  ASSUME NEW S, NEW s \in Seq(S), NEW x \in S
  PROVE  /\ Append(s, x) \in Seq(S)
         /\ DOMAIN Append(s, x) = 1 .. Len(s) + 1
         /\ DOMAIN s = 1 .. Len(s) /\ Len(s) \in Nat
         /\ \A i \in 1 .. Len(s) : Append(s, x)[i] = s[i]
         /\ Append(s, x)[Len(s) + 1] = x
OBVIOUS

(* A reminder as it is made is a row. *)
LEMMA FreshTyped ==
  ASSUME NEW b \in BOOLEAN, NEW d \in Times, NEW t \in 0 .. MaxTurns
  PROVE  Fresh(b, d, t) \in Rows
BY DEF Fresh, Rows, Never

(* What the writers do keeps the types of what they touch. *)
LEMMA WritersTyped ==
  ASSUME SystemOK, PersonStep \/ PluginStep
  PROVE  SystemOK'
<1> USE DEF SystemOK, pass, stored, LetGo, Holds, Mine, Was
<1> USE BoundAssumption DEF Never
<1>1. ASSUME NEW w \in Writers, NEW r \in Reminders, NEW d \in Times, Create(w, r, d)
      PROVE  SystemOK'
  <2>1. Fresh(TRUE, d, 1) \in Rows
    <3>1. 1 \in 0 .. MaxTurns
      OBVIOUS
    <3> QED BY <3>1, FreshTyped
  <2>2. row' \in [Reminders -> Rows]
    BY <1>1, <2>1 DEF Create
  <2>3. copy' \in [Writers -> Copies \cup {Nobody}]
    BY <1>1, <2>2 DEF Create, Copies
  <2> QED BY <1>1, <2>2, <2>3 DEF Create
<1>2. ASSUME NEW w \in Writers, NEW r \in Reminders, Load(w, r)
      PROVE  SystemOK'
  <2>1. copy' \in [Writers -> Copies \cup {Nobody}]
    BY <1>2 DEF Load, Copies
  <2> QED BY <1>2, <2>1 DEF Load
<1>3. ASSUME NEW w \in Writers, Holds(w)
      PROVE  /\ Mine(w) \in Reminders /\ Was(w) \in Rows
             /\ LetGo(w) => copy' \in [Writers -> Copies \cup {Nobody}]
  BY <1>3 DEF Copies
<1>4. ASSUME NEW w \in Writers, Leave(w)
      PROVE  SystemOK'
  BY <1>3, <1>4 DEF Leave
<1>5. ASSUME NEW w \in Writers, NEW d \in Times, Postpone(w, d)
      PROVE  SystemOK'
  <2>1. row[Mine(w)] \in Rows
    BY <1>3, <1>5 DEF Postpone
  <2>a. row[Mine(w)].turn + 1 \in 0 .. MaxTurns
    BY <1>5, <2>1 DEF Postpone, Rows
  <2>2. [row[Mine(w)] EXCEPT !.due = d, !.stamp = Never, !.turn = @ + 1] \in Rows
    BY <2>1, <2>a DEF Rows
  <2>3. row' \in [Reminders -> Rows]
    BY <1>3, <1>5, <2>2 DEF Postpone
  <2> QED BY <1>3, <1>5, <2>3 DEF Postpone
<1>6. ASSUME NEW w \in Writers, Complete(w) \/ Reopen(w)
      PROVE  SystemOK'
  <2>1. row[Mine(w)] \in Rows
    BY <1>3, <1>6 DEF Complete, Reopen
  <2>2. \A b \in BOOLEAN : [row[Mine(w)] EXCEPT !.done = b] \in Rows
    BY <2>1 DEF Rows
  <2>3. row' \in [Reminders -> Rows]
    BY <1>3, <1>6, <2>2 DEF Complete, Reopen
  <2> QED BY <1>3, <1>6, <2>3 DEF Complete, Reopen
<1>7. ASSUME NEW w \in Writers, Delete(w)
      PROVE  SystemOK'
  <2>1. row[Mine(w)] \in Rows
    BY <1>3, <1>7 DEF Delete
  <2>2. Fresh(FALSE, 1, row[Mine(w)].turn) \in Rows
    <3>1. row[Mine(w)].turn \in 0 .. MaxTurns /\ 1 \in Times
      BY <2>1 DEF Rows, Times
    <3> QED BY <3>1, FreshTyped
  <2>3. row' \in [Reminders -> Rows]
    BY <1>3, <1>7, <2>2 DEF Delete
  <2> QED BY <1>3, <1>7, <2>3 DEF Delete
<1>8. ASSUME NEW r \in Reminders, Retire(r)
      PROVE  SystemOK'
  <2>1. [row[r] EXCEPT !.retired = TRUE] \in Rows
    BY DEF Rows
  <2> QED BY <1>8, <2>1 DEF Retire
<1>9. CASE SwitchAccount
  BY <1>9 DEF SwitchAccount
<1>10. ASSUME NEW w \in Writers, NEW d \in Times, Place(w, d)
       PROVE  SystemOK'
  <2> DEFINE later == d > Was(w).due
  <2>1. row[Mine(w)] \in Rows /\ Was(w) \in Rows
    BY <1>3, <1>10 DEF Place
  <2>2. ASSUME NEW s \in Times \cup {Never}, NEW t \in 0 .. MaxTurns
        PROVE  [row[Mine(w)] EXCEPT !.due = d, !.retired = FALSE, !.stamp = s, !.turn = t] \in Rows
    BY <2>1 DEF Rows
  <2>3. (IF later THEN Never ELSE Was(w).stamp) \in Times \cup {Never}
    BY <2>1 DEF Rows
  <2>4. (IF later THEN row[Mine(w)].turn + 1 ELSE row[Mine(w)].turn) \in 0 .. MaxTurns
    <3>1. row[Mine(w)].turn \in 0 .. MaxTurns
      BY <2>1 DEF Rows
    <3>2. later => row[Mine(w)].turn < MaxTurns
      BY <1>10 DEF Place
    <3> QED BY <3>1, <3>2
  <2>5. row' \in [Reminders -> Rows]
    BY <1>3, <1>10, <2>2, <2>3, <2>4 DEF Place
  <2> QED BY <1>3, <1>10, <2>5 DEF Place
<1> QED BY <1>1, <1>2, <1>4, <1>5, <1>6, <1>7, <1>8, <1>9, <1>10 DEF PersonStep, PluginStep

(* And what the passes do. *)
LEMMA PassesTyped ==
  ASSUME SystemOK, PassStep
  PROVE  SystemOK'
<1> USE DEF SystemOK, stored
<1> USE BoundAssumption DEF Never
<1>1. ASSUME NEW p \in Passes, Begin(p) \/ LookAtLease(p) \/ GiveBack(p) \/ Kill(p) \/ Raise(p)
      PROVE  SystemOK'
  BY <1>1 DEF Begin, LookAtLease, GiveBack, Kill, Raise
<1>2. ASSUME NEW p \in Passes, Read(p)
      PROVE  SystemOK'
  <2>1. \A r \in Reminders : [of |-> r, due |-> row[r].due, at |-> now] \in Found
    BY DEF Found, Rows
  <2>2. queue' \in [Passes -> SUBSET Found]
    BY <1>2, <2>1 DEF Read
  <2> QED BY <1>2, <2>2 DEF Read
<1>3. ASSUME NEW p \in Passes, NEW f \in queue[p], Claim(p, f)
      PROVE  SystemOK'
  <2>0. f \in Found
    OBVIOUS
  <2>1. f.of \in Reminders /\ f.at \in Times
    BY <2>0 DEF Found
  <2>r. row[f.of] \in Rows
    BY <2>1
  <2>2. [row[f.of] EXCEPT !.stamp = f.at] \in Rows
    BY <2>1, <2>r DEF Rows
  <2>3. row[f.of].turn \in 0 .. MaxTurns
    BY <2>r DEF Rows
  <2>4. [of |-> f.of, turn |-> row[f.of].turn] \in Notices
    BY <2>1, <2>3 DEF Notices
  <2>5. row' \in [Reminders -> Rows]
    BY <1>3, <2>1, <2>2 DEF Claim
  <2>6. telling' \in [Passes -> Notices \cup {Nobody}]
    BY <1>3, <2>4 DEF Claim
  <2>7. queue' \in [Passes -> SUBSET Found]
    BY <1>3 DEF Claim
  <2> QED BY <1>3, <2>5, <2>6, <2>7 DEF Claim
<1>4. ASSUME NEW p \in Passes, Tell(p)
      PROVE  SystemOK'
  <2>1. told' \in Seq(Notices)
    BY <1>4, AppendTold DEF Tell
  <2> QED BY <1>4, <2>1 DEF Tell
<1>5. CASE Expire
  BY <1>5 DEF Expire
<1> QED BY <1>1, <1>2, <1>3, <1>4, <1>5 DEF PassStep, ClaimNext

LEMMA InitTyped == Init => TypeOK
<1> SUFFICES ASSUME Init PROVE TypeOK
  OBVIOUS
<1>1. row \in [Reminders -> Rows]
  <2>1. 1 \in Times /\ 0 \in 0 .. MaxTurns
    BY BoundAssumption DEF Times
  <2>2. Fresh(FALSE, 1, 0) \in Rows
    BY <2>1, FreshTyped
  <2> QED BY <2>2 DEF Init
<1>2. now \in Times /\ kills \in 0 .. MaxKills
  BY BoundAssumption DEF Init, Times
<1>3. told \in Seq(Notices)
  BY DEF Init
<1>4. queue \in [Passes -> SUBSET Found]
  BY DEF Init
<1>5. telling \in [Passes -> Notices \cup {Nobody}]
  BY DEF Init
<1> QED BY <1>1, <1>2, <1>3, <1>4, <1>5 DEF Init, TypeOK, SystemOK

(* Whatever steps, the note that is taken of it is of reminders. *)
LEMMA Stepped ==
  ASSUME TypeOK, [Next]_vars
  PROVE  /\ (PersonStep \/ PluginStep) \/ Tick \/ PassStep \/ UNCHANGED system
         /\ crossed' \subseteq Reminders /\ forgotten' \subseteq Reminders
        /\ forgotten \subseteq forgotten'
BY DEF Next, Note, Forget, TypeOK, vars

LEMMA NextTyped == TypeOK /\ [Next]_vars => TypeOK'
<1> SUFFICES ASSUME TypeOK, [Next]_vars PROVE SystemOK'
  BY Stepped DEF TypeOK
<1> USE DEF TypeOK
<1>1. CASE PersonStep \/ PluginStep
  BY <1>1, WritersTyped
<1>2. CASE Tick
  BY <1>2, BoundAssumption DEF Tick, SystemOK, pass, Times
<1>3. CASE PassStep
  BY <1>3, PassesTyped
<1>4. CASE UNCHANGED system
  BY <1>4 DEF SystemOK, system
<1> QED BY <1>1, <1>2, <1>3, <1>4, Stepped

(* Every state of every schedule is well typed. *)
THEOREM RemindersTyped == Spec => []TypeOK
BY InitTyped, NextTyped, PTL DEF Spec

-----------------------------------------------------------------------------
(* A pass that is under way holds the lease, until the first lease runs out
   under the pass that held it. *)
OnTime == ~overran => \A p \in Passes : phase[p] # "idle" => lease = p

(* A pass runs beside another only once a lease was outlived: the cache gives
   the key to one, and takes it back from nobody but its holder. *)
THEOREM PassesOverlapOnlyLate == Spec => []OverlapOnlyAfterOverrun
<1>1. Init => OnTime
  BY DEF Init, OnTime
<1>2. TypeOK /\ OnTime /\ [Next]_vars => OnTime'
  <2> SUFFICES ASSUME TypeOK, OnTime, [Next]_vars PROVE OnTime'
    OBVIOUS
  <2> USE DEF OnTime, TypeOK, SystemOK
  <2>1. CASE PersonStep \/ PluginStep \/ Tick \/ UNCHANGED system
    <3>1. UNCHANGED <<lease, phase, overran>>
      BY <2>1 DEF PersonStep, PluginStep, Tick, system, pass, stored, Create, Load, Leave,
                  Postpone, Complete, Reopen, Place, Retire, Delete, SwitchAccount
    <3> QED BY <3>1
  <2>2. ASSUME NEW p \in Passes, Begin(p)
        PROVE  OnTime'
    BY <2>2, NobodyAssumption DEF Begin
  <2>3. ASSUME NEW p \in Passes, Read(p) \/ LookAtLease(p) \/ Kill(p) \/ Raise(p)
        PROVE  OnTime'
    BY <2>3 DEF Read, LookAtLease, Kill, Raise
  <2>4. ASSUME NEW p \in Passes, ClaimNext(p) \/ Tell(p)
        PROVE  OnTime'
    BY <2>4 DEF ClaimNext, Claim, Tell
  <2>5. ASSUME NEW p \in Passes, GiveBack(p)
        PROVE  OnTime'
    BY <2>5 DEF GiveBack
  <2>6. CASE Expire
    BY <2>6 DEF Expire
  <2> QED BY <2>1, <2>2, <2>3, <2>4, <2>5, <2>6, Stepped DEF PassStep
<1>3. OnTime => OverlapOnlyAfterOverrun
  BY DEF OnTime, OverlapOnlyAfterOverrun
<1> QED BY <1>1, <1>2, <1>3, RemindersTyped, PTL DEF Spec

-----------------------------------------------------------------------------
(* Nothing is ticked off before it is made. *)
BornUnticked ==
  \A r \in Reminders : /\ row[r].done => row[r].there
                       /\ row[r].there => row[r].turn # 0

(* What one step does to the tick of a reminder. *)
LEMMA TickStep ==
  ASSUME TypeOK, BornUnticked, [Next]_vars
  PROVE  /\ BornUnticked'
         /\ \A r \in Reminders :
              row[r].done /\ row'[r].there /\ ~row'[r].done =>
                \E w \in Writers : Holds(w) /\ Mine(w) = r /\ Was(w).done
<1> USE DEF TypeOK, SystemOK
<1> DEFINE Kept == \A r \in Reminders :
                     row[r].done /\ row'[r].there /\ ~row'[r].done =>
                       \E w \in Writers : Holds(w) /\ Mine(w) = r /\ Was(w).done
<1>1. ASSUME UNCHANGED row
      PROVE  BornUnticked' /\ Kept
  BY <1>1 DEF BornUnticked
<1>2. ASSUME NEW w \in Writers, Holds(w)
      PROVE  Mine(w) \in Reminders /\ Was(w) \in Rows
  BY <1>2 DEF Holds, Mine, Was, Copies
<1>3. ASSUME NEW w \in Writers, NEW r \in Reminders, NEW d \in Times, Create(w, r, d)
      PROVE  BornUnticked' /\ Kept
  <2>1. \A s \in Reminders : s # r => row'[s] = row[s]
    BY <1>3 DEF Create
  <2>2. row'[r].there /\ row'[r].turn = 1 /\ ~row'[r].done
    <3>1. row'[r] = Fresh(TRUE, d, 1)
      BY <1>3 DEF Create
    <3> QED BY <3>1 DEF Fresh
  <2>3. ~row[r].there /\ ~row[r].done
    BY <1>3 DEF Create, BornUnticked
  <2> QED BY <2>1, <2>2, <2>3 DEF BornUnticked
<1>4. ASSUME NEW w \in Writers, NEW d \in Times, Postpone(w, d) \/ Place(w, d)
      PROVE  BornUnticked' /\ Kept
  <2> DEFINE r == Mine(w)
  <2>1. r \in Reminders /\ row[r] \in Rows /\ row[r].there
    BY <1>2, <1>4 DEF Postpone, Place
  <2>2. \A s \in Reminders : s # r => row'[s] = row[s]
    BY <1>4 DEF Postpone, Place
  <2>3. \E s \in {Never, Was(w).stamp}, t \in {row[r].turn, row[r].turn + 1}, b \in BOOLEAN :
          row'[r] = [row[r] EXCEPT !.due = d, !.retired = b, !.stamp = s, !.turn = t]
    <3>1. CASE Postpone(w, d)
      <4>1. row'[r] = [row[r] EXCEPT !.due = d, !.stamp = Never, !.turn = @ + 1]
        BY <3>1, <2>1 DEF Postpone
      <4>2. row[r].retired \in BOOLEAN
        BY <2>1 DEF Rows
      <4>3. row'[r] = [row[r] EXCEPT !.due = d, !.retired = row[r].retired, !.stamp = Never,
                                     !.turn = row[r].turn + 1]
        BY <4>1, <2>1 DEF Rows
      <4> HIDE DEF r
      <4> QED BY <4>2, <4>3
    <3>2. CASE Place(w, d)
      BY <3>2, <2>1 DEF Place
    <3> QED BY <1>4, <3>1, <3>2
  <2> HIDE DEF r
  <2>4. PICK t \in {row[r].turn, row[r].turn + 1} :
          /\ row'[r].there <=> row[r].there
          /\ row'[r].done <=> row[r].done
          /\ row'[r].turn = t
    BY <2>1, <2>3 DEF Rows
  <2>5. row[r].turn \in Nat /\ row[r].turn # 0
    BY <2>1 DEF Rows, BornUnticked
  <2>6. BornUnticked'
    BY <2>1, <2>2, <2>4, <2>5 DEF BornUnticked
  <2>7. Kept
    BY <2>2, <2>4
  <2> QED BY <2>6, <2>7
<1>5. ASSUME NEW w \in Writers, Complete(w)
      PROVE  BornUnticked' /\ Kept
  BY <1>2, <1>5 DEF Complete, BornUnticked, Rows
<1>6. ASSUME NEW w \in Writers, Reopen(w)
      PROVE  BornUnticked' /\ Kept
  BY <1>2, <1>6 DEF Reopen, BornUnticked, Rows
<1>7. ASSUME NEW r \in Reminders, Retire(r)
      PROVE  BornUnticked' /\ Kept
  BY <1>7 DEF Retire, BornUnticked, Rows
<1>8. ASSUME NEW w \in Writers, Delete(w)
      PROVE  BornUnticked' /\ Kept
  <2> DEFINE r == Mine(w)
  <2>1. r \in Reminders
    BY <1>2, <1>8 DEF Delete
  <2>2. \A s \in Reminders : s # r => row'[s] = row[s]
    BY <1>8 DEF Delete
  <2>3. ~row'[r].there /\ ~row'[r].done
    <3>1. row'[r] = Fresh(FALSE, 1, row[r].turn)
      BY <1>8, <2>1 DEF Delete
    <3> QED BY <3>1 DEF Fresh
  <2> HIDE DEF r
  <2> QED BY <2>1, <2>2, <2>3 DEF BornUnticked
<1>9. ASSUME NEW p \in Passes, NEW f \in queue[p], Claim(p, f)
      PROVE  BornUnticked' /\ Kept
  <2>1. f.of \in Reminders
    BY DEF Found
  <2>2. \A s \in Reminders : \/ row'[s] = row[s]
                             \/ row'[s] = [row[s] EXCEPT !.stamp = f.at]
    BY <1>9, <2>1 DEF Claim
  <2>3. ASSUME NEW s \in Reminders
        PROVE  /\ row'[s].there <=> row[s].there
               /\ row'[s].done <=> row[s].done
               /\ row'[s].turn = row[s].turn
    <3>1. row[s] \in Rows
      BY DEF TypeOK, SystemOK
    <3>2. CASE row'[s] = row[s]
      BY <3>2
    <3>3. CASE row'[s] = [row[s] EXCEPT !.stamp = f.at]
      BY <3>1, <3>3 DEF Rows
    <3> QED BY <2>2, <3>2, <3>3
  <2> QED BY <2>3 DEF BornUnticked
<1>10. \/ UNCHANGED row
       \/ \E w \in Writers, r \in Reminders, d \in Times : Create(w, r, d)
       \/ \E w \in Writers, d \in Times : Postpone(w, d) \/ Place(w, d)
       \/ \E w \in Writers : Complete(w) \/ Reopen(w) \/ Delete(w)
       \/ \E r \in Reminders : Retire(r)
       \/ \E p \in Passes : \E f \in queue[p] : Claim(p, f)
  <2>1. CASE PersonStep \/ PluginStep
    BY <2>1 DEF PersonStep, PluginStep, Load, Leave, SwitchAccount, stored
  <2>2. CASE PassStep
    BY <2>2 DEF PassStep, ClaimNext, Begin, Read, Tell, LookAtLease, GiveBack, Kill, Raise,
                Expire, stored
  <2>3. CASE Tick \/ UNCHANGED system
    BY <2>3 DEF Tick, system
  <2> QED BY <2>1, <2>2, <2>3, Stepped
<1> HIDE DEF Kept
<1>11. BornUnticked' /\ Kept
  <2>1. CASE UNCHANGED row
    BY <2>1, <1>1
  <2>2. CASE \E w \in Writers, r \in Reminders, d \in Times : Create(w, r, d)
    BY <2>2, <1>3
  <2>3. CASE \E w \in Writers, d \in Times : Postpone(w, d) \/ Place(w, d)
    BY <2>3, <1>4
  <2>4. CASE \E w \in Writers : Complete(w) \/ Reopen(w) \/ Delete(w)
    BY <2>4, <1>5, <1>6, <1>8
  <2>5. CASE \E r \in Reminders : Retire(r)
    BY <2>5, <1>7
  <2>6. CASE \E p \in Passes : \E f \in queue[p] : Claim(p, f)
    BY <2>6, <1>9
  <2> QED BY <1>10, <2>1, <2>2, <2>3, <2>4, <2>5, <2>6
<1> QED BY <1>11 DEF Kept

(* The services save the columns they change and no other, so a copy read
   before the tick never takes it back. *)
THEOREM TicksKept == Spec => TickKept
<1>1. Init => BornUnticked
  <2> SUFFICES ASSUME Init, NEW r \in Reminders
               PROVE  ~row[r].there /\ ~row[r].done
    BY DEF BornUnticked
  <2>1. row[r] = Fresh(FALSE, 1, 0)
    BY DEF Init
  <2> QED BY <2>1 DEF Fresh
<1>2. TypeOK /\ BornUnticked /\ [Next]_vars => BornUnticked'
  BY TickStep
<1>3. TypeOK /\ BornUnticked /\ [Next]_vars =>
        [\A r \in Reminders :
           row[r].done /\ row'[r].there /\ ~row'[r].done =>
             \E w \in Writers : Holds(w) /\ Mine(w) = r /\ Was(w).done]_vars
  BY TickStep
<1> QED BY <1>1, <1>2, <1>3, RemindersTyped, PTL DEF Spec, TickKept

-----------------------------------------------------------------------------
(* What has been said, or is about to be. *)
Out(n) == (\E i \in DOMAIN told : told[i] = n) \/ (\E p \in Passes : telling[p] = n)

(* The stamp stands for the turn it was written in: while there is none, the
   turn is still to be said, unless one was forgotten; none is said ahead of its
   time; and what a pass is about to say, no pass has said and no other is about
   to say. *)
TurnToSay ==
  \A r \in Reminders \ forgotten : row[r].there /\ row[r].stamp = Never =>
    \A n \in Notices : n.of = r /\ n.turn = row[r].turn => ~Out(n)
NoneAhead == \A n \in Notices : Out(n) => n.turn <= row[n.of].turn
OneSpeaker ==
  \A p \in Passes : telling[p] # Nobody /\ telling[p].of \notin forgotten =>
    /\ \A i \in DOMAIN told : told[i] # telling[p]
    /\ \A q \in Passes : q # p => telling[q] # telling[p]
OnceInv == TurnToSay /\ NoneAhead /\ OneSpeaker

(* The writers change no announcement, and clear a stamp only with a new turn, or
   by forgetting it. *)
LEMMA WritersKeepOnce ==
  ASSUME TypeOK, OnceInv, forgotten \subseteq forgotten', PersonStep \/ (PluginStep /\ Forget)
  PROVE  OnceInv'
<1> USE DEF TypeOK, SystemOK
<1>1. UNCHANGED <<told, telling>>
  BY DEF PersonStep, PluginStep, Place, pass, Create, Load, Leave, Postpone, Complete, Reopen, Delete, Retire,
         SwitchAccount
<1>2. OneSpeaker'
  BY <1>1 DEF OnceInv, OneSpeaker
<1>3. \A n : Out(n)' <=> Out(n)
  BY <1>1 DEF Out
(* A reminder is left alone, goes, gets a new turn, or keeps its turn, and its stamp
   unless that is put back to an earlier one. *)
<1> DEFINE Same(r) == row'[r].turn = row[r].turn
           Kept(r) == /\ Same(r)
                      /\ row'[r].there => row[r].there
                      /\ row'[r].stamp = row[r].stamp
           Gone(r) == Same(r) /\ ~row'[r].there
           Marked(r) == Same(r) /\ row'[r].stamp # Never
           Lost(r) == Same(r) /\ r \in forgotten'
           Anew(r) == row'[r].turn = row[r].turn + 1
<1>4. ASSUME NEW w \in Writers, Holds(w)
      PROVE  Mine(w) \in Reminders
  BY <1>4 DEF Holds, Mine, Copies
<1>5. ASSUME NEW r \in Reminders
      PROVE  Kept(r) \/ Gone(r) \/ Anew(r) \/ Marked(r) \/ Lost(r)
  <2>0. row[r] \in Rows
    OBVIOUS
  <2>1. ASSUME NEW w \in Writers, NEW s \in Reminders, NEW d \in Times, Create(w, s, d)
        PROVE  Kept(r) \/ Anew(r)
    <3>1. CASE r = s
      <4>1. row'[r] = Fresh(TRUE, d, 1) /\ row[r].turn = 0
        BY <2>1, <3>1 DEF Create
      <4> QED BY <4>1 DEF Fresh
    <3>2. CASE r # s
      BY <2>1, <3>2 DEF Create
    <3> QED BY <3>1, <3>2
  <2>2. ASSUME NEW w \in Writers, NEW d \in Times, Postpone(w, d)
        PROVE  Kept(r) \/ Anew(r)
    <3>1. row'[r] = row[r]
          \/ row'[r] = [row[r] EXCEPT !.due = d, !.stamp = Never, !.turn = @ + 1]
      BY <2>2, <1>4 DEF Postpone
    <3> QED BY <3>1, <2>0 DEF Rows
  <2>3. ASSUME NEW w \in Writers, Complete(w) \/ Reopen(w)
        PROVE  Kept(r)
    <3>1. row'[r] = row[r] \/ \E b \in BOOLEAN : row'[r] = [row[r] EXCEPT !.done = b]
      BY <2>3, <1>4 DEF Complete, Reopen
    <3> QED BY <3>1, <2>0 DEF Rows
  <2>4. ASSUME NEW w \in Writers, Delete(w)
        PROVE  Kept(r) \/ Gone(r)
    <3>1. CASE r = Mine(w)
      <4>1. row'[r] = Fresh(FALSE, 1, row[r].turn)
        BY <2>4, <3>1 DEF Delete
      <4> QED BY <4>1 DEF Fresh
    <3>2. CASE r # Mine(w)
      BY <2>4, <3>2 DEF Delete
    <3> QED BY <3>1, <3>2
  <2>5. ASSUME NEW s \in Reminders, Retire(s)
        PROVE  Kept(r)
    <3>1. row'[r] = row[r] \/ row'[r] = [row[r] EXCEPT !.retired = TRUE]
      BY <2>5 DEF Retire
    <3> QED BY <3>1, <2>0 DEF Rows
  <2>6. ASSUME UNCHANGED row
        PROVE  Kept(r)
    BY <2>6
  <2>8. ASSUME NEW w \in Writers, NEW d \in Times, Place(w, d), Forget
        PROVE  Kept(r) \/ Anew(r) \/ Marked(r) \/ Lost(r)
    <3>1. CASE r # Mine(w)
      BY <2>8, <3>1 DEF Place
    <3>2. CASE r = Mine(w) /\ d > Was(w).due
      <4>1. row'[r] = [row[r] EXCEPT !.due = d, !.retired = FALSE, !.stamp = Never, !.turn = @ + 1]
        BY <2>8, <3>2 DEF Place
      <4> QED BY <2>0, <4>1 DEF Rows
    <3>3. CASE r = Mine(w) /\ ~(d > Was(w).due)
      <4>1. row'[r] = [row[r] EXCEPT !.due = d, !.retired = FALSE, !.stamp = Was(w).stamp]
            /\ row[r].there
        BY <2>8, <3>3 DEF Place
      <4>2. row'[r].turn = row[r].turn /\ (row'[r].there <=> row[r].there)
        BY <2>0, <4>1 DEF Rows
      <4>3. CASE row'[r].stamp = Never /\ row[r].stamp # Never
        BY <2>8, <4>2, <4>3 DEF Forget
      <4>4. CASE row'[r].stamp = Never /\ row[r].stamp = Never
        BY <4>2, <4>4
      <4> QED BY <4>2, <4>3, <4>4
    <3> QED BY <3>1, <3>2, <3>3
  <2>7. \/ UNCHANGED row
        \/ \E w \in Writers, s \in Reminders, d \in Times : Create(w, s, d)
        \/ \E w \in Writers, d \in Times : Place(w, d) /\ Forget
        \/ \E w \in Writers, d \in Times : Postpone(w, d)
        \/ \E w \in Writers : Complete(w) \/ Reopen(w) \/ Delete(w)
        \/ \E s \in Reminders : Retire(s)
    BY DEF PersonStep, PluginStep, Load, Leave, SwitchAccount, stored
  <2> HIDE DEF Kept, Gone, Anew, Marked, Lost
  <2> QED BY <2>1, <2>2, <2>3, <2>4, <2>5, <2>6, <2>7, <2>8
<1>6. \A r \in Reminders : row[r].turn \in Nat
  BY DEF Rows
<1>7. NoneAhead'
  <2> SUFFICES ASSUME NEW n \in Notices, Out(n)
               PROVE  n.turn <= row'[n.of].turn
    BY <1>3 DEF NoneAhead
  <2>1. n.of \in Reminders /\ n.turn \in Nat /\ n.turn <= row[n.of].turn
    BY DEF OnceInv, NoneAhead, Notices
  <2> QED BY <2>1, <1>5, <1>6
<1>8. TurnToSay'
  <2> SUFFICES ASSUME NEW r \in Reminders \ forgotten', row'[r].there, row'[r].stamp = Never,
                      NEW n \in Notices, n.of = r, n.turn = row'[r].turn
               PROVE  ~Out(n)
    BY <1>3 DEF TurnToSay
  <2>1. CASE Kept(r)
    BY <2>1 DEF OnceInv, TurnToSay
  <2>2. CASE Gone(r)
    BY <2>2
  <2>3. CASE Anew(r)
    BY <2>3, <1>6 DEF OnceInv, NoneAhead
  <2>4. ~Marked(r) /\ ~Lost(r)
    OBVIOUS
  <2> QED BY <2>1, <2>2, <2>3, <2>4, <1>5
<1> QED BY <1>2, <1>7, <1>8 DEF OnceInv

(* A pass stamps what it is about to say, and says it after that. *)
LEMMA PassesKeepOnce ==
  ASSUME TypeOK, OnceInv, PassStep, UNCHANGED forgotten
  PROVE  OnceInv'
<1> USE DEF TypeOK, SystemOK
<1>1. ASSUME UNCHANGED <<row, told, telling>>
      PROVE  OnceInv'
  BY <1>1 DEF OnceInv, TurnToSay, NoneAhead, OneSpeaker, Out
<1>2. ASSUME NEW p \in Passes, Kill(p) \/ Raise(p)
      PROVE  OnceInv'
  <2>1. UNCHANGED <<row, told>>
    BY <1>2 DEF Kill, Raise, stored
  <2>2. \A q \in Passes : telling'[q] = telling[q] \/ telling'[q] = Nobody
    BY <1>2 DEF Kill, Raise
  <2>3. \A n \in Notices : n # Nobody /\ Out(n)' => Out(n)
    BY <2>1, <2>2 DEF Out
  <2>4. \A n \in Notices : n # Nobody
    BY NoticeAssumption
  <2> QED BY <2>1, <2>2, <2>3, <2>4 DEF OnceInv, TurnToSay, NoneAhead, OneSpeaker
<1>3. ASSUME NEW p \in Passes, Tell(p)
      PROVE  OnceInv'
  <2>1. telling[p] \in Notices /\ telling' = [telling EXCEPT ![p] = Nobody] /\ UNCHANGED row
    BY <1>3 DEF Tell, stored
  <2>2. told' = told \/ told' = Append(told, telling[p])
    BY <1>3 DEF Tell
  <2>3. ASSUME NEW n \in Notices, n # Nobody, Out(n)'
        PROVE  Out(n)
    <3>1. CASE \E q \in Passes : telling'[q] = n
      BY <2>1, <2>3, <3>1 DEF Out
    <3>2. CASE \E i \in DOMAIN told' : told'[i] = n
      <4>1. n = telling[p] \/ \E i \in DOMAIN told : told[i] = n
        BY <2>1, <2>2, <3>2, AppendTold
      <4> QED BY <4>1 DEF Out
    <3> QED BY <2>3, <3>1, <3>2 DEF Out
  <2>4. \A n \in Notices : n # Nobody
    BY NoticeAssumption
  <2>5. TurnToSay' /\ NoneAhead'
    BY <2>1, <2>3, <2>4 DEF OnceInv, TurnToSay, NoneAhead
  <2>6. ASSUME NEW q \in Passes, telling'[q] # Nobody, telling'[q].of \notin forgotten
        PROVE  /\ \A i \in DOMAIN told' : told'[i] # telling'[q]
               /\ \A s \in Passes : s # q => telling'[s] # telling'[q]
    <3>1. q # p /\ telling'[q] = telling[q] /\ telling[q] # telling[p]
      BY <2>1, <2>6 DEF OnceInv, OneSpeaker
    <3>2. \A i \in DOMAIN told' : told'[i] # telling[q]
      <4>1. \A i \in DOMAIN told : told[i] # telling[q]
        BY <2>6, <3>1 DEF OnceInv, OneSpeaker
      <4> QED BY <2>1, <2>2, <3>1, <4>1, AppendTold
    <3> QED BY <2>1, <2>6, <3>1, <3>2 DEF OnceInv, OneSpeaker
  <2>7. OneSpeaker'
    BY <2>6 DEF OneSpeaker
  <2> QED BY <2>5, <2>7 DEF OnceInv
<1>4. ASSUME NEW p \in Passes, NEW f \in queue[p], Claim(p, f)
      PROVE  OnceInv'
  <2> DEFINE r == f.of
             notice == [of |-> r, turn |-> row[r].turn]
  <2>1. r \in Reminders /\ f.at \in Times /\ row[r] \in Rows /\ telling[p] = Nobody
    <3>1. f \in Found
      OBVIOUS
    <3> QED BY <1>4, <3>1 DEF Claim, Found
  <2>2. CASE UNCHANGED <<row, telling>>
    BY <1>1, <1>4, <2>2 DEF Claim
  <2>3. CASE /\ row[r].there /\ row[r].stamp = Never
             /\ row' = [row EXCEPT ![r].stamp = f.at]
             /\ telling' = [telling EXCEPT ![p] = notice]
    <3>1. notice \in Notices /\ notice.of = r /\ notice.turn = row[r].turn
      BY <2>1 DEF Notices, Rows
    <3>2. r \in forgotten \/ ~Out(notice)
      BY <2>1, <2>3, <3>1 DEF OnceInv, TurnToSay
    <3>3. UNCHANGED told
      BY <1>4 DEF Claim
    <3>4. \A n \in Notices : Out(n)' => Out(n) \/ n = notice
      BY <2>1, <2>3, <3>3 DEF Out
    <3>a. row'[r] = [row[r] EXCEPT !.stamp = f.at]
      BY <2>1, <2>3
    <3>5. \A s \in Reminders : /\ row'[s].turn = row[s].turn
                               /\ s # r => row'[s] = row[s]
      BY <2>1, <2>3, <3>a DEF Rows
    <3>6. row'[r].stamp # Never
      <4>1. row'[r].stamp = f.at
        BY <2>1, <3>a DEF Rows
      <4> QED BY <2>1, <4>1 DEF Times, Never
    <3>7. row[r].turn \in Nat
      BY <2>1 DEF Rows
    <3> HIDE DEF notice, r
    <3>8. NoneAhead'
      <4> SUFFICES ASSUME NEW n \in Notices, Out(n)'
                   PROVE  n.turn <= row'[n.of].turn
        BY DEF NoneAhead
      <4>1. n.of \in Reminders
        BY DEF Notices
      <4>2. CASE n = notice
        BY <4>2, <2>1, <3>1, <3>5, <3>7
      <4>3. CASE Out(n)
        BY <4>1, <4>3, <3>5 DEF OnceInv, NoneAhead
      <4> QED BY <4>2, <4>3, <3>4
    <3>9. TurnToSay'
      BY <3>1, <3>4, <3>5, <3>6 DEF OnceInv, TurnToSay
    <3>10. OneSpeaker'
      <4> SUFFICES ASSUME NEW q \in Passes, telling'[q] # Nobody, telling'[q].of \notin forgotten
                   PROVE  /\ \A i \in DOMAIN told : told[i] # telling'[q]
                          /\ \A s \in Passes : s # q => telling'[s] # telling'[q]
        BY <3>3 DEF OneSpeaker
      <4>1. CASE q = p
        BY <4>1, <2>3, <3>1, <3>2 DEF Out
      <4>2. CASE q # p
        <5>1. telling'[q] = telling[q]
          BY <2>3, <4>2
        <5>2. notice # telling[q]
          BY <3>1, <3>2, <5>1 DEF Out
        <5> QED BY <2>3, <4>2, <5>1, <5>2 DEF OnceInv, OneSpeaker
      <4> QED BY <4>1, <4>2
    <3> QED BY <3>8, <3>9, <3>10 DEF OnceInv
  <2> QED BY <1>4, <2>2, <2>3 DEF Claim
<1>5. \/ UNCHANGED <<row, told, telling>>
      \/ \E p \in Passes : Kill(p) \/ Raise(p) \/ Tell(p)
      \/ \E p \in Passes : \E f \in queue[p] : Claim(p, f)
  BY DEF PassStep, ClaimNext, Begin, Read, LookAtLease, GiveBack, Expire, stored
<1> QED BY <1>1, <1>2, <1>3, <1>4, <1>5

(* Whatever passes run beside each other, are killed or outlive their lease,
   and whatever plugins place again, no turn of a reminder is announced twice
   whose stamp was not forgotten: the implementation of SaidOnce. *)
THEOREM AnnouncesOnce == Spec => AnnouncedOnce
<1>1. Init => TypeOK /\ OnceInv /\ Once!Init
  <2> SUFFICES ASSUME Init PROVE TypeOK /\ OnceInv /\ Once!Init
    OBVIOUS
  <2>1. TypeOK
    BY InitTyped
  <2>2. told = <<>> /\ (\A p \in Passes : telling[p] = Nobody) /\ forgotten = {}
    BY DEF Init
  <2>3. \A n \in Notices : ~Out(n)
    BY <2>2, NoticeAssumption DEF Out
  <2>4. OnceInv
    BY <2>2, <2>3 DEF OnceInv, TurnToSay, NoneAhead, OneSpeaker
  <2> QED BY <2>1, <2>2, <2>4 DEF Once!Init
<1>2. TypeOK /\ OnceInv /\ [Next]_vars => (TypeOK /\ OnceInv)'
  <2> SUFFICES ASSUME TypeOK, OnceInv, [Next]_vars
               PROVE  TypeOK' /\ OnceInv'
    OBVIOUS
  <2>1. TypeOK' /\ forgotten \subseteq forgotten'
    BY NextTyped, Stepped
  <2>2. CASE PersonStep \/ (PluginStep /\ Forget)
    BY <2>1, <2>2, WritersKeepOnce
  <2>3. CASE PassStep /\ UNCHANGED forgotten
    BY <2>1, <2>3, PassesKeepOnce
  <2>4. CASE (Tick \/ UNCHANGED system) /\ UNCHANGED forgotten
    <3>1. UNCHANGED <<row, told, telling, forgotten>>
      BY <2>4 DEF Tick, system, pass
    <3> QED BY <2>1, <3>1 DEF OnceInv, TurnToSay, NoneAhead, OneSpeaker, Out
  <2> QED BY <2>1, <2>2, <2>3, <2>4 DEF Next, vars
<1>3. TypeOK /\ OnceInv /\ [Next]_vars =>
        [Once!Next]_<<told, {n \in Notices : n.of \in forgotten}>>
  <2> SUFFICES ASSUME TypeOK, OnceInv, [Next]_vars
               PROVE  [Once!Next]_<<told, {n \in Notices : n.of \in forgotten}>>
    OBVIOUS
  <2>0. forgotten \subseteq forgotten'
    BY Stepped
  <2>1. CASE told' = told
    <3>1. \/ UNCHANGED {n \in Notices : n.of \in forgotten}
          \/ Once!Lose
      BY <2>0, <2>1 DEF Once!Lose
    <3> QED BY <2>1, <3>1 DEF Once!Next
  <2>2. CASE told' # told
    <3>1. PICK p \in Passes : Tell(p) /\ UNCHANGED forgotten
      <4>1. ~(PersonStep \/ PluginStep \/ Tick \/ UNCHANGED system)
        BY <2>2 DEF PersonStep, PluginStep, pass, Create, Load, Leave, Postpone, Place, Complete,
                    Reopen, Delete, Retire, SwitchAccount, Tick, system
      <4>2. PassStep /\ UNCHANGED forgotten
        BY <4>1 DEF Next, vars
      <4> QED BY <2>2, <4>2 DEF PassStep, ClaimNext, Begin, Read, Claim, LookAtLease, GiveBack,
                                Kill, Raise, Expire
    <3>2. telling[p] # Nobody /\ told' = Append(told, telling[p])
      BY <2>2, <3>1 DEF Tell
    <3>3. telling[p] \in Notices
      BY <3>2 DEF TypeOK, SystemOK
    <3>4. Once!Say(telling[p])
      BY <3>1, <3>2, <3>3 DEF OnceInv, OneSpeaker, Once!Say
    <3> QED BY <3>3, <3>4 DEF Once!Next
  <2> QED BY <2>1, <2>2
<1> QED BY <1>1, <1>2, <1>3, PTL DEF Spec, AnnouncedOnce, Once!Spec

-----------------------------------------------------------------------------
(* What a pass has read as due still is, but for what has been written since:  *)
(* nobody is kept from writing to a reminder a pass has in hand.  And a copy   *)
(* in a writer's hand says of the stamp what was true when it was loaded.      *)
StillDue ==
  \A p \in Passes : \A f \in queue[p] :
    f.of \in crossed \/ ( /\ row[f.of].due <= f.at
                          /\ ~row[f.of].done /\ ~row[f.of].retired /\ active )
Stamped(r, x) == x.stamp # Never => r \in crossed \/ x.due <= x.stamp
CopiesStamped == \A w \in Writers : Holds(w) => Stamped(Mine(w), Was(w))
Known == NotSilenced /\ StillDue /\ CopiesStamped

LEMMA InitKnown == Init => Known
<1> SUFFICES ASSUME Init PROVE Known
  OBVIOUS
<1>1. \A r \in Reminders : row[r].stamp = Never
  BY DEF Init, Fresh
<1>2. \A p \in Passes : queue[p] = {}
  BY DEF Init
<1>3. \A w \in Writers : ~Holds(w)
  BY DEF Init, Holds
<1> QED BY <1>1, <1>2, <1>3 DEF Known, NotSilenced, StillDue, CopiesStamped

(* What a writer does, whichever it is: it notes what passes have in hand, and
   leaves their lists alone. *)
LEMMA WritersKnow ==
  ASSUME TypeOK, Known, PersonStep \/ PluginStep, Note
  PROVE  Known'
<1> USE DEF TypeOK, SystemOK
<1>0. crossed \subseteq crossed'
  BY DEF Note
<1>a. NotSilenced /\ StillDue /\ CopiesStamped
  BY DEF Known
<1>w. ASSUME NEW w \in Writers, Holds(w)
      PROVE  Mine(w) \in Reminders /\ Was(w) \in Rows
  BY <1>w DEF Holds, Mine, Was, Copies
<1>1. StillDue'
  <2>1. UNCHANGED queue
    BY DEF PersonStep, PluginStep, Create, Load, Leave, Postpone, Complete, Reopen, Place, Retire,
           Delete, SwitchAccount, pass
  <2> SUFFICES ASSUME NEW p \in Passes, NEW f \in queue[p], f.of \notin crossed'
               PROVE  /\ row'[f.of].due <= f.at
                      /\ ~row'[f.of].done /\ ~row'[f.of].retired /\ active'
    BY <2>1 DEF StillDue
  <2>2. f.of \in Reminders /\ InHand(f.of)
    BY DEF Found, InHand
  <2>3. row'[f.of] = row[f.of] /\ active' = active
    BY <2>2 DEF Note
  <2>4. f.of \notin crossed
    BY <1>0
  <2> QED BY <1>a, <2>3, <2>4 DEF StillDue
<1>2. ASSUME NEW r \in Reminders, \A s \in Reminders \ {r} : row'[s] = row[s],
             row'[r].there => row'[r].stamp = Never \/ r \in crossed' \/ row'[r].due <= row'[r].stamp
      PROVE  NotSilenced'
  BY <1>0, <1>2, <1>a DEF NotSilenced
<1>3. ASSUME NEW w \in Writers, LetGo(w)
      PROVE  CopiesStamped'
  <2> SUFFICES ASSUME NEW v \in Writers, Holds(v)' PROVE Stamped(Mine(v), Was(v))'
    BY DEF CopiesStamped
  <2>1. copy'[v] = copy[v] /\ Holds(v)
    BY <1>3 DEF LetGo, Holds
  <2>2. Stamped(Mine(v), Was(v))
    BY <1>a, <2>1 DEF CopiesStamped
  <2> QED BY <1>0, <2>1, <2>2 DEF Stamped, Mine, Was
<1>4. ASSUME NEW w \in Writers, NEW r \in Reminders, NEW x \in Rows, Stamped(r, x)',
             copy' = [copy EXCEPT ![w] = [of |-> r, was |-> x]]
      PROVE  CopiesStamped'
  <2> SUFFICES ASSUME NEW v \in Writers, Holds(v)' PROVE Stamped(Mine(v), Was(v))'
    BY DEF CopiesStamped
  <2>1. CASE v = w
    <3>1. copy'[v] = [of |-> r, was |-> x]
      BY <1>4, <2>1
    <3>2. copy'[v].of = r /\ copy'[v].was = x
      BY <3>1
    <3> QED BY <1>4, <3>2 DEF Mine, Was, Stamped
  <2>2. CASE v # w
    <3>1. copy'[v] = copy[v] /\ Holds(v)
      BY <1>4, <2>2 DEF Holds
    <3>2. Stamped(Mine(v), Was(v))
      BY <1>a, <3>1 DEF CopiesStamped
    <3> QED BY <1>0, <3>1, <3>2 DEF Stamped, Mine, Was
  <2> QED BY <2>1, <2>2
<1>5. ASSUME NEW w \in Writers, NEW r \in Reminders, NEW d \in Times, Create(w, r, d)
      PROVE  NotSilenced' /\ CopiesStamped'
  <2>1. row'[r] = Fresh(TRUE, d, 1) /\ \A s \in Reminders \ {r} : row'[s] = row[s]
    BY <1>5 DEF Create
  <2>2. row'[r].stamp = Never
    BY <2>1 DEF Fresh
  <2>3. NotSilenced'
    BY <1>2, <2>1, <2>2
  <2>4. PICK x : x = Fresh(TRUE, d, 1)
    OBVIOUS
  <2>5. x \in Rows /\ x.stamp = Never
    <3>1. 1 \in 0 .. MaxTurns
      BY BoundAssumption
    <3> QED BY <2>4, <3>1, FreshTyped DEF Fresh
  <2>6. copy' = [copy EXCEPT ![w] = [of |-> r, was |-> x]]
    BY <1>5, <2>1, <2>4 DEF Create
  <2>7. Stamped(r, x)'
    BY <2>5 DEF Stamped
  <2> QED BY <1>4, <2>3, <2>5, <2>6, <2>7
<1>6. ASSUME NEW w \in Writers, NEW r \in Reminders, Load(w, r)
      PROVE  NotSilenced' /\ CopiesStamped'
  <2>1. UNCHANGED row
    BY <1>6 DEF Load, stored
  <2>2. NotSilenced'
    BY <1>0, <1>a, <2>1 DEF NotSilenced
  <2>3. PICK x \in Rows : x = row[r]
    OBVIOUS
  <2>4. Stamped(r, x)'
    BY <1>0, <1>a, <1>6, <2>3 DEF NotSilenced, Stamped, Load
  <2>5. copy' = [copy EXCEPT ![w] = [of |-> r, was |-> x]]
    BY <1>6, <2>3 DEF Load
  <2> QED BY <1>4, <2>2, <2>4, <2>5
<1>7. ASSUME NEW w \in Writers, NEW d \in Times, Postpone(w, d)
      PROVE  NotSilenced' /\ CopiesStamped'
  <2>1. PICK r \in Reminders : r = Mine(w)
    BY <1>w, <1>7 DEF Postpone
  <2>2. row[r] \in Rows /\ \A s \in Reminders \ {r} : row'[s] = row[s]
    BY <1>7, <2>1 DEF Postpone
  <2>3. row'[r] = [row[r] EXCEPT !.due = d, !.stamp = Never, !.turn = row[r].turn + 1]
    BY <1>7, <2>1 DEF Postpone
  <2>4. row'[r].stamp = Never
    BY <2>2, <2>3 DEF Rows
  <2> QED BY <1>2, <1>3, <1>7, <2>2, <2>4 DEF Postpone
<1>8. ASSUME NEW w \in Writers, NEW d \in Times, Place(w, d)
      PROVE  NotSilenced' /\ CopiesStamped'
  <2>1. PICK r \in Reminders : r = Mine(w)
    BY <1>w, <1>8 DEF Place
  <2>2. /\ row[r] \in Rows /\ Was(w) \in Rows /\ Holds(w)
        /\ \A s \in Reminders \ {r} : row'[s] = row[s]
    BY <1>w, <1>8, <2>1 DEF Place
  <2>3. PICK st, tn :
          /\ st = IF d > Was(w).due THEN Never ELSE Was(w).stamp
          /\ row'[r] = [row[r] EXCEPT !.due = d, !.retired = FALSE, !.stamp = st, !.turn = tn]
    BY <1>8, <2>1, <2>2 DEF Place
  <2>4. row'[r].stamp = st /\ row'[r].due = d
    BY <2>2, <2>3 DEF Rows
  <2>5. Stamped(r, Was(w))
    BY <1>a, <2>1, <2>2 DEF CopiesStamped
  <2>6. CASE d > Was(w).due
    BY <1>2, <1>3, <1>8, <2>2, <2>3, <2>4, <2>6 DEF Place
  <2>7. CASE ~(d > Was(w).due)
    <3>1. d \in Nat /\ Was(w).due \in Nat /\ d <= Was(w).due
      BY <2>2, <2>7, BoundAssumption DEF Rows, Times
    <3>2. st = Was(w).stamp /\ st \in Nat
      BY <2>2, <2>3, <2>7 DEF Rows, Times, Never
    <3>3. st = Never \/ r \in crossed \/ d <= st
      BY <2>5, <3>1, <3>2 DEF Stamped
    <3>4. row'[r].stamp = Never \/ r \in crossed' \/ row'[r].due <= row'[r].stamp
      BY <1>0, <2>4, <3>2, <3>3
    <3>5. NotSilenced'
      BY <1>2, <2>2, <3>4
    <3> QED BY <1>3, <1>8, <3>5 DEF Place
  <2> QED BY <2>6, <2>7
<1>9. ASSUME NEW r \in Reminders, \A s \in Reminders \ {r} : row'[s] = row[s],
             row'[r].due = row[r].due, row'[r].stamp = row[r].stamp,
             row'[r].there => row[r].there
      PROVE  NotSilenced'
  BY <1>0, <1>9, <1>a DEF NotSilenced
<1>10. ASSUME NEW w \in Writers, Complete(w) \/ Reopen(w)
       PROVE  NotSilenced' /\ CopiesStamped'
  <2>1. PICK r \in Reminders : r = Mine(w)
    BY <1>w, <1>10 DEF Complete, Reopen
  <2>2. row[r] \in Rows /\ \A s \in Reminders \ {r} : row'[s] = row[s]
    BY <1>10, <2>1 DEF Complete, Reopen
  <2>3. PICK b : row'[r] = [row[r] EXCEPT !.done = b]
    BY <1>10, <2>1 DEF Complete, Reopen
  <2>4. /\ row'[r].due = row[r].due /\ row'[r].stamp = row[r].stamp
        /\ row'[r].there <=> row[r].there
    BY <2>2, <2>3 DEF Rows
  <2> QED BY <1>3, <1>9, <1>10, <2>2, <2>4 DEF Complete, Reopen
<1>11. ASSUME UNCHANGED copy
       PROVE  CopiesStamped'
  BY <1>0, <1>11, <1>a DEF CopiesStamped, Stamped, Holds, Mine, Was
<1>12. ASSUME NEW r \in Reminders, Retire(r)
       PROVE  NotSilenced' /\ CopiesStamped'
  <2>1. row[r] \in Rows /\ \A s \in Reminders \ {r} : row'[s] = row[s]
    BY <1>12 DEF Retire
  <2>2. row'[r] = [row[r] EXCEPT !.retired = TRUE]
    BY <1>12 DEF Retire
  <2>3. /\ row'[r].due = row[r].due /\ row'[r].stamp = row[r].stamp
        /\ row'[r].there <=> row[r].there
    BY <2>1, <2>2 DEF Rows
  <2> QED BY <1>9, <1>11, <1>12, <2>1, <2>3 DEF Retire
<1>13. ASSUME NEW w \in Writers, Delete(w)
       PROVE  NotSilenced' /\ CopiesStamped'
  <2>1. PICK r \in Reminders : r = Mine(w)
    BY <1>w, <1>13 DEF Delete
  <2>2. row'[r] = Fresh(FALSE, 1, row[r].turn) /\ \A s \in Reminders \ {r} : row'[s] = row[s]
    BY <1>13, <2>1 DEF Delete
  <2>3. ~row'[r].there
    BY <2>2 DEF Fresh
  <2> QED BY <1>2, <1>3, <1>13, <2>2, <2>3 DEF Delete
<1>14. ASSUME NEW w \in Writers, Leave(w)
       PROVE  NotSilenced' /\ CopiesStamped'
  BY <1>0, <1>3, <1>14, <1>a DEF Leave, stored, NotSilenced
<1>15. ASSUME SwitchAccount
       PROVE  NotSilenced' /\ CopiesStamped'
  BY <1>0, <1>11, <1>15, <1>a DEF SwitchAccount, NotSilenced
<1> QED BY <1>1, <1>5, <1>6, <1>7, <1>8, <1>10, <1>12, <1>13, <1>14, <1>15
        DEF Known, PersonStep, PluginStep

(* A pass stamps what it read as due with the time at which it read it. *)
LEMMA PassesKnow ==
  ASSUME TypeOK, Known, Tick \/ PassStep, UNCHANGED crossed
  PROVE  Known'
<1> USE DEF TypeOK, SystemOK
<1>a. NotSilenced /\ StillDue /\ CopiesStamped
  BY DEF Known
<1>1. CopiesStamped'
  <2>1. UNCHANGED copy
    BY DEF Tick, PassStep, Begin, Read, ClaimNext, Claim, Tell, LookAtLease, GiveBack, Kill, Raise,
           Expire
  <2> QED BY <1>a, <2>1 DEF CopiesStamped, Stamped, Holds, Mine, Was
<1>2. ASSUME UNCHANGED <<row, active>>, \A p \in Passes : queue'[p] \subseteq queue[p]
      PROVE  NotSilenced' /\ StillDue'
  BY <1>a, <1>2 DEF NotSilenced, StillDue
<1>3. ASSUME NEW p \in Passes, Read(p)
      PROVE  NotSilenced' /\ StillDue'
  <2>1. UNCHANGED <<row, active>>
    BY <1>3 DEF Read, stored
  <2>2. /\ queue'[p] = {[of |-> r, due |-> row[r].due, at |-> now] : r \in {s \in Reminders : Due(s)}}
        /\ \A q \in Passes \ {p} : queue'[q] = queue[q]
    BY <1>3 DEF Read
  <2>3. ASSUME NEW f \in queue'[p]
        PROVE  /\ row[f.of].due <= f.at
               /\ ~row[f.of].done /\ ~row[f.of].retired /\ active
    <3>1. PICK r \in Reminders : Due(r) /\ f = [of |-> r, due |-> row[r].due, at |-> now]
      BY <2>2
    <3> QED BY <3>1 DEF Due
  <2>4. StillDue'
    <3>1. ASSUME NEW q \in Passes, NEW f \in queue'[q]
          PROVE  f.of \in crossed \/ ( /\ row[f.of].due <= f.at
                                       /\ ~row[f.of].done /\ ~row[f.of].retired /\ active )
      <4>1. CASE q = p
        BY <2>3, <3>1, <4>1
      <4>2. CASE q # p
        BY <1>a, <2>2, <3>1, <4>2 DEF StillDue
      <4> QED BY <4>1, <4>2
    <3> QED BY <2>1, <3>1 DEF StillDue
  <2> QED BY <1>a, <2>1, <2>4 DEF NotSilenced
<1>4. ASSUME NEW p \in Passes, NEW f \in queue[p], Claim(p, f)
      PROVE  NotSilenced' /\ StillDue'
  <2>1. UNCHANGED active /\ \A q \in Passes : queue'[q] \subseteq queue[q]
    BY <1>4 DEF Claim
  <2>2. PICK r \in Reminders : r = f.of
    BY DEF Found
  <2>3. \/ UNCHANGED row
        \/ /\ row'[r] = [row[r] EXCEPT !.stamp = f.at]
           /\ \A s \in Reminders \ {r} : row'[s] = row[s]
    BY <1>4, <2>2 DEF Claim
  <2>4. CASE UNCHANGED row
    BY <1>2, <2>1, <2>4
  <2>5. CASE /\ row'[r] = [row[r] EXCEPT !.stamp = f.at]
             /\ \A s \in Reminders \ {r} : row'[s] = row[s]
    <3>1. /\ row'[r].due = row[r].due /\ row'[r].stamp = f.at
          /\ row'[r].done <=> row[r].done
          /\ row'[r].retired <=> row[r].retired
      <4>1. row[r] \in Rows
        OBVIOUS
      <4> QED BY <2>5, <4>1 DEF Rows
    <3>2. r \in crossed \/ row[r].due <= f.at
      BY <1>a, <2>2 DEF StillDue
    <3>3. NotSilenced'
      BY <1>a, <2>5, <3>1, <3>2 DEF NotSilenced
    <3>4. \A s \in Reminders : /\ row'[s].due = row[s].due
                               /\ row'[s].done <=> row[s].done
                               /\ row'[s].retired <=> row[s].retired
      BY <2>5, <3>1
    <3>5. ASSUME NEW q \in Passes, NEW g \in queue[q], g.of \notin crossed
          PROVE  /\ row'[g.of].due <= g.at
                 /\ ~row'[g.of].done /\ ~row'[g.of].retired /\ active
      <4>1. g.of \in Reminders
        BY DEF Found
      <4> QED BY <1>a, <3>4, <3>5, <4>1 DEF StillDue
    <3>6. StillDue'
      BY <2>1, <3>5 DEF StillDue
    <3> QED BY <3>3, <3>6
  <2> QED BY <2>3, <2>4, <2>5
<1>5. Tick => UNCHANGED <<row, active, queue>>
  BY DEF Tick, pass
<1>6. ASSUME NEW p \in Passes,
             Begin(p) \/ Tell(p) \/ LookAtLease(p) \/ GiveBack(p) \/ Kill(p) \/ Raise(p)
      PROVE  UNCHANGED <<row, active>> /\ \A q \in Passes : queue'[q] \subseteq queue[q]
  BY <1>6 DEF Begin, Tell, LookAtLease, GiveBack, Kill, Raise, stored
<1>7. Expire => UNCHANGED <<row, active, queue>>
  BY DEF Expire, stored
<1> QED BY <1>1, <1>2, <1>3, <1>4, <1>5, <1>6, <1>7 DEF Known, PassStep, ClaimNext

LEMMA KnownKept == TypeOK /\ Known /\ [Next]_vars => Known'
<1> SUFFICES ASSUME TypeOK, Known, [Next]_vars PROVE Known'
  OBVIOUS
<1>1. CASE UNCHANGED vars
  BY <1>1 DEF vars, system, Known, NotSilenced, StillDue, CopiesStamped, Stamped, Holds, Mine, Was
<1> QED BY <1>1, WritersKnow, PassesKnow DEF Next

(* No stamp silences a reminder ahead of its time, whatever copies plugins hold,
   unless it was written while a pass had it in hand. *)
THEOREM NothingSilenced == Spec => []NotSilenced
<1>1. Known => NotSilenced
  BY DEF Known
<1> QED BY <1>1, RemindersTyped, InitKnown, KnownKept, PTL DEF Spec

(* What a pass stamps, in order to tell of it, is outstanding at that moment,
   with the same exception. *)
THEOREM OnlyOutstanding == Spec => OnlyOutstandingAnnounced
<1>1. TypeOK /\ Known /\ [Next]_vars =>
        [\A p \in Passes :
           telling'[p] \notin {Nobody, telling[p]} =>
             LET r == telling'[p].of
             IN  r \in crossed \/ (~row[r].done /\ ~row[r].retired /\ active)]_vars
  <2> SUFFICES ASSUME TypeOK, Known, [Next]_vars,
                      NEW p \in Passes, telling'[p] \notin {Nobody, telling[p]}
               PROVE  \/ telling'[p].of \in crossed
                      \/ ~row[telling'[p].of].done /\ ~row[telling'[p].of].retired /\ active
    OBVIOUS
  <2> USE DEF TypeOK, SystemOK
  <2>1. ~(PersonStep \/ PluginStep \/ Tick \/ UNCHANGED system)
    BY DEF PersonStep, PluginStep, Create, Load, Leave, Postpone, Complete, Reopen, Place, Retire,
           Delete, SwitchAccount, Tick, pass, system
  <2>2. PassStep
    BY <2>1, Stepped
  <2>3. PICK q \in Passes : ClaimNext(q)
    <3>1. ASSUME NEW q \in Passes,
                 \/ Begin(q) \/ Read(q) \/ Tell(q) \/ LookAtLease(q) \/ GiveBack(q)
                 \/ Kill(q) \/ Raise(q)
          PROVE  FALSE
      BY <3>1 DEF Begin, Read, Tell, LookAtLease, GiveBack, Kill, Raise
    <3>2. ~Expire
      BY DEF Expire
    <3> QED BY <2>2, <3>1, <3>2 DEF PassStep
  <2>4. PICK f \in queue[q] : Claim(q, f)
    BY <2>3 DEF ClaimNext
  <2>5. f.of \in Reminders
    BY DEF Found
  <2>6. telling'[p] = [of |-> f.of, turn |-> row[f.of].turn]
    BY <2>4 DEF Claim
  <2>7. telling'[p].of = f.of
    BY <2>6
  <2>8. f.of \in crossed \/ (~row[f.of].done /\ ~row[f.of].retired /\ active)
    BY DEF Known, StillDue
  <2> QED BY <2>7, <2>8
<1> QED BY <1>1, RemindersTyped, InitKnown, KnownKept, PTL DEF Spec, OnlyOutstandingAnnounced
=============================================================================
