--------------------------- MODULE NoticesProofs ---------------------------
(***************************************************************************)
(* Notices, for any errands, performers, passes, keys, attempts and        *)
(* accidents.  Of the errands: the work of one is begun once unless the    *)
(* queue kept what it refused, what is done stays done unless two had it in*)
(* hand, and one that is done has left a row unless nobody was on to hear  *)
(* or an error was swallowed.  Of the rows: a receiver takes a delivery    *)
(* once, and once more for each time its sender was not told, a row says   *)
(* what its senders were told, one that is claimed stands as it was read,  *)
(* and one that is owed has somebody at it or will be found.               *)
(*                                                                         *)
(* What is said of the errands needs nothing of what becomes of the rows.  *)
(* What is said of the rows needs no order among them, but for the last: a *)
(* row whose retry time is still as a pass read it is due, and one that is *)
(* due is in nobody's hands, unless its sender was cut off or outlasted its*)
(* lease.                                                                  *)
(***************************************************************************)
EXTENDS Notices, SequenceTheorems, TLAPS

Busy == {"sending", "asked", "read", "running", "worked", "raised"}

(* Of an errand that the queue did not keep there is one number about: in the
   queue, or with one performer, and its work is begun only from there. *)
Once(e) ==
  \/ e \in kept
  \/ /\ \A p, q \in Workers : job[p].of = e /\ job[q].of = e => p = q
     /\ \A p \in Workers : job[p].of = e => e \notin tasks
     /\ e \in tasks => ran[e] = 0
     /\ \A p \in Workers : job[p].of = e /\ job[p].step \in {"sending", "asked", "read"} => ran[e] = 0
     /\ ran[e] <= 1
     /\ ~errand[e].made => ran[e] = 0 /\ e \notin tasks /\ \A p \in Workers : job[p].of # e

(* Two who have an errand in hand are noted, and so is one who has it in hand
   when it is done. *)
Watched(e) ==
  \A p \in Workers : InHand(p, e) =>
    /\ errand[e].state = "done" => e \in together
    /\ \A q \in Workers \ {p} : InHand(q, e) => e \in together

Orderly == ErrandsTypeOK /\ \A e \in Errands : Once(e) /\ Watched(e)

-----------------------------------------------------------------------------
(* A performer goes on with the errand it has. *)
LEMMA GoesOn ==
  ASSUME ErrandsTypeOK, NEW p \in Workers, NEW step \in Busy, ~At(p, "idle"), Goes(p, step)
  PROVE  /\ job' \in [Workers -> Jobs]
         /\ job[p].of \in Errands /\ job'[p].of = job[p].of /\ job'[p].step = step
         /\ \A q \in Workers \ {p} : job'[q] = job[q]
<1>1. job \in [Workers -> Jobs] /\ job[p] \in [of : Errands, step : Busy]
  BY DEF ErrandsTypeOK, Jobs, At, Busy
<1>2. /\ [job[p] EXCEPT !.step = step] \in [of : Errands, step : Busy]
      /\ [job[p] EXCEPT !.step = step].of = job[p].of /\ [job[p] EXCEPT !.step = step].step = step
  BY <1>1
<1>3. [job[p] EXCEPT !.step = step] \in Jobs
  BY <1>2 DEF Jobs, Busy
<1>4. job' = [job EXCEPT ![p] = [job[p] EXCEPT !.step = step]]
  BY DEF Goes
<1> QED BY <1>1, <1>2, <1>3, <1>4

(* A performer takes up an errand. *)
LEMMA TakesUp ==
  ASSUME ErrandsTypeOK, NEW p \in Workers, NEW e \in Errands, NEW step \in Busy,
         job' = [job EXCEPT ![p] = [of |-> e, step |-> step]]
  PROVE  /\ job' \in [Workers -> Jobs] /\ job'[p].of = e /\ job'[p].step = step
         /\ \A q \in Workers \ {p} : job'[q] = job[q]
<1>1. job \in [Workers -> Jobs] /\ [of |-> e, step |-> step] \in Jobs
  BY DEF ErrandsTypeOK, Jobs, Busy
<1> QED BY <1>1

(* A performer lets go of what it has. *)
LEMMA LetsGo ==
  ASSUME ErrandsTypeOK, NEW p \in Workers, Ends(p)
  PROVE  /\ job' \in [Workers -> Jobs] /\ job'[p].of = NoErrand /\ job'[p].step = "idle"
         /\ \A q \in Workers \ {p} : job'[q] = job[q]
<1>1. job \in [Workers -> Jobs] /\ Idle \in Jobs /\ Idle.of = NoErrand /\ Idle.step = "idle"
  BY DEF ErrandsTypeOK, Jobs, Idle
<1>2. job' = [job EXCEPT ![p] = Idle]
  BY DEF Ends
<1> HIDE DEF Idle
<1> QED BY <1>1, <1>2

(* The state of a row is written by its number. *)
LEMMA Writes ==
  ASSUME ErrandsTypeOK, NEW e \in Errands, NEW state \in States, Write(e, state)
  PROVE  /\ errand' \in [Errands -> ErrandRows]
         /\ errand'[e].state \in {errand[e].state, state}
         /\ \A f \in Errands : errand'[f].made = errand[f].made
         /\ \A f \in Errands \ {e} : errand'[f] = errand[f]
<1>1. errand \in [Errands -> ErrandRows]
  BY DEF ErrandsTypeOK
<1>2. CASE errand' = errand
  BY <1>1, <1>2
<1>3. CASE errand' = [errand EXCEPT ![e].state = state]
  BY <1>1, <1>3 DEF ErrandRows
<1> QED BY <1>2, <1>3 DEF Write

-----------------------------------------------------------------------------
LEMMA InitOrderly == ErrandsInit => Orderly
<1> SUFFICES ASSUME ErrandsInit PROVE Orderly
  OBVIOUS
<1>1. errand \in [Errands -> ErrandRows] /\ \A e \in Errands : errand[e].state = "waiting"
  BY DEF ErrandsInit, ErrandRows, States, Ages
<1>2. job \in [Workers -> Jobs] /\ \A p \in Workers : job[p].step = "idle" /\ job[p].of = NoErrand
  BY DEF ErrandsInit, Jobs, Idle
<1>3. /\ tasks = {} /\ kept = {} /\ together = {} /\ crashes \in 0 .. MaxCrashes
      /\ ran \in [Errands -> Nat] /\ \A e \in Errands : ran[e] = 0
  BY WorkerAssumption DEF ErrandsInit
<1>4. ErrandsTypeOK
  BY <1>1, <1>2, <1>3 DEF ErrandsTypeOK
<1>5. ASSUME NEW e \in Errands PROVE Once(e) /\ Watched(e)
  <2>1. e # NoErrand
    BY ErrandAssumption
  <2> QED BY <1>1, <1>2, <1>3, <2>1 DEF Once, Watched, InHand
<1> QED BY <1>4, <1>5 DEF Orderly

LEMMA SendOrderly ==
  ASSUME Orderly, NEW p \in Workers, NEW e \in Errands, Send(p, e)
  PROVE  Orderly'
<1> DEFINE step == IF WorkerExpected THEN "sending" ELSE "asked"
<1>1. /\ step \in {"sending", "asked"} /\ At(p, "idle") /\ ~errand[e].made
      /\ job' = [job EXCEPT ![p] = [of |-> e, step |-> step]]
      /\ UNCHANGED <<tasks, ran, together, kept, crashes>>
  BY DEF Send
<1> HIDE DEF step
<1>2. /\ job' \in [Workers -> Jobs] /\ job'[p].of = e /\ job'[p].step = step
      /\ \A q \in Workers \ {p} : job'[q] = job[q]
  BY <1>1, TakesUp DEF Orderly, Busy
<1>3. /\ errand' \in [Errands -> ErrandRows] /\ errand'[e].made
      /\ \A f \in Errands : errand'[f].state = errand[f].state
      /\ \A f \in Errands \ {e} : errand'[f] = errand[f]
  BY DEF Orderly, ErrandsTypeOK, ErrandRows, Send
<1>4. ErrandsTypeOK'
  BY <1>1, <1>2, <1>3 DEF Orderly, ErrandsTypeOK
<1>5. ASSUME NEW f \in Errands PROVE Once(f)'
  <2>1. Once(f) /\ ran[f] \in Nat
    BY DEF Orderly, ErrandsTypeOK
  <2>2. CASE f = e
    BY <1>1, <1>2, <1>3, <2>1, <2>2 DEF Once
  <2>3. CASE f # e
    BY <1>1, <1>2, <1>3, <2>1, <2>3 DEF Once
  <2> QED BY <2>2, <2>3
<1>6. ASSUME NEW f \in Errands PROVE Watched(f)'
  BY <1>1, <1>2, <1>3 DEF Orderly, Watched, InHand
<1> QED BY <1>4, <1>5, <1>6 DEF Orderly

LEMMA EnqueueOrderly ==
  ASSUME Orderly, NEW p \in Workers, Enqueue(p)
  PROVE  Orderly'
<1>1. /\ At(p, "sending") /\ tasks' = tasks \cup {job[p].of} /\ Ends(p)
      /\ UNCHANGED <<errand, ran, together, kept, crashes>>
  BY DEF Enqueue
<1>2. /\ job' \in [Workers -> Jobs] /\ job'[p].of = NoErrand /\ job'[p].step = "idle"
      /\ \A q \in Workers \ {p} : job'[q] = job[q]
  BY <1>1, LetsGo DEF Orderly
<1>3. job[p].of \in Errands
  BY <1>1 DEF Orderly, ErrandsTypeOK, Jobs, At
<1>4. ErrandsTypeOK'
  BY <1>1, <1>2, <1>3 DEF Orderly, ErrandsTypeOK
<1>5. ASSUME NEW e \in Errands PROVE Once(e)'
  <2>1. Once(e) /\ e # NoErrand
    BY ErrandAssumption DEF Orderly
  <2>2. CASE e = job[p].of
    BY <1>1, <1>2, <2>1, <2>2 DEF Once, At
  <2>3. CASE e # job[p].of
    BY <1>1, <1>2, <2>1, <2>3 DEF Once
  <2> QED BY <2>2, <2>3
<1>6. ASSUME NEW e \in Errands PROVE Watched(e)'
  BY <1>1, <1>2 DEF Orderly, Watched, InHand
<1> QED BY <1>4, <1>5, <1>6 DEF Orderly

LEMMA RaisesOrderly ==
  ASSUME Orderly, NEW p \in Workers, EnqueueRaises(p)
  PROVE  Orderly'
<1>1. /\ At(p, "sending") /\ crashes < MaxCrashes /\ crashes' = crashes + 1 /\ Goes(p, "asked")
      /\ \/ UNCHANGED <<tasks, kept>>
         \/ tasks' = tasks \cup {job[p].of} /\ kept' = kept \cup {job[p].of}
      /\ UNCHANGED <<errand, ran, together>>
  BY DEF EnqueueRaises
<1>2. /\ job' \in [Workers -> Jobs] /\ job[p].of \in Errands
      /\ job'[p].of = job[p].of /\ job'[p].step = "asked"
      /\ \A q \in Workers \ {p} : job'[q] = job[q]
  BY <1>1, GoesOn DEF Orderly, Busy, At
<1>3. crashes' \in 0 .. MaxCrashes
  BY <1>1, WorkerAssumption DEF Orderly, ErrandsTypeOK
<1>4. ErrandsTypeOK'
  BY <1>1, <1>2, <1>3 DEF Orderly, ErrandsTypeOK
<1>5. ASSUME NEW e \in Errands PROVE Once(e)'
  <2>1. Once(e)
    BY DEF Orderly
  <2>2. CASE e = job[p].of
    BY <1>1, <1>2, <2>1, <2>2 DEF Once, At
  <2>3. CASE e # job[p].of
    BY <1>1, <1>2, <2>1, <2>3 DEF Once
  <2> QED BY <2>2, <2>3
<1>6. ASSUME NEW e \in Errands PROVE Watched(e)'
  BY <1>1, <1>2 DEF Orderly, Watched, InHand
<1> QED BY <1>4, <1>5, <1>6 DEF Orderly

LEMMA TakeOrderly ==
  ASSUME Orderly, NEW p \in Workers, NEW e \in Errands, Take(p, e)
  PROVE  Orderly'
<1>1. /\ At(p, "idle") /\ e \in tasks /\ tasks' = tasks \ {e}
      /\ job' = [job EXCEPT ![p] = [of |-> e, step |-> "asked"]]
      /\ UNCHANGED <<errand, ran, together, kept, crashes>>
  BY DEF Take
<1>2. /\ job' \in [Workers -> Jobs] /\ job'[p].of = e /\ job'[p].step = "asked"
      /\ \A q \in Workers \ {p} : job'[q] = job[q]
  BY <1>1, TakesUp DEF Orderly, Busy
<1>3. ErrandsTypeOK'
  BY <1>1, <1>2 DEF Orderly, ErrandsTypeOK
<1>4. ASSUME NEW f \in Errands PROVE Once(f)'
  <2>1. Once(f)
    BY DEF Orderly
  <2>2. CASE f = e
    BY <1>1, <1>2, <2>1, <2>2 DEF Once
  <2>3. CASE f # e
    BY <1>1, <1>2, <2>1, <2>3 DEF Once
  <2> QED BY <2>2, <2>3
<1>5. ASSUME NEW f \in Errands PROVE Watched(f)'
  BY <1>1, <1>2 DEF Orderly, Watched, InHand
<1> QED BY <1>3, <1>4, <1>5 DEF Orderly
LEMMA PerformOrderly ==
  ASSUME Orderly, NEW p \in Workers, Perform(p)
  PROVE  Orderly'
<1> DEFINE e == job[p].of
<1>1. /\ At(p, "asked") /\ UNCHANGED <<errand, tasks, ran, kept, crashes>>
      /\ together' = IF \E q \in Workers \ {p} : InHand(q, e) THEN together \cup {e} ELSE together
      /\ IF errand[e].there /\ ~IsFinished(e) THEN Goes(p, "read") ELSE Ends(p)
  BY DEF Perform
<1>2. e \in Errands
  BY <1>1 DEF Orderly, ErrandsTypeOK, Jobs, At
<1>3. CASE ~IsFinished(e) /\ Goes(p, "read")
  <2>1. /\ job' \in [Workers -> Jobs] /\ job'[p].of = e /\ job'[p].step = "read"
        /\ \A q \in Workers \ {p} : job'[q] = job[q]
    BY <1>1, <1>3, GoesOn DEF Orderly, Busy, At
  <2>2. ErrandsTypeOK'
    BY <1>1, <1>2, <2>1 DEF Orderly, ErrandsTypeOK
  <2>3. ASSUME NEW f \in Errands PROVE Once(f)'
    BY <1>1, <2>1 DEF Orderly, Once, At
  <2>4. ASSUME NEW f \in Errands PROVE Watched(f)'
    <3>1. Watched(f)
      BY DEF Orderly
    <3>2. CASE f = e
      <4>1. errand'[f].state # "done"
        BY <1>1, <1>3, <3>2 DEF IsFinished
      <4>2. (\E q \in Workers \ {p} : InHand(q, f)) => f \in together'
        BY <1>1, <3>2
      <4>3. \A q \in Workers \ {p} : InHand(q, f)' <=> InHand(q, f)
        BY <2>1 DEF InHand
      <4> QED BY <1>1, <3>1, <4>1, <4>2, <4>3 DEF Watched
    <3>3. CASE f # e
      BY <1>1, <2>1, <3>1, <3>3 DEF Watched, InHand
    <3> QED BY <3>2, <3>3
  <2> QED BY <2>2, <2>3, <2>4 DEF Orderly
<1>4. CASE Ends(p)
  <2>1. /\ job' \in [Workers -> Jobs] /\ job'[p].of = NoErrand /\ job'[p].step = "idle"
        /\ \A q \in Workers \ {p} : job'[q] = job[q]
    BY <1>4, LetsGo DEF Orderly
  <2>2. ErrandsTypeOK'
    BY <1>1, <1>2, <2>1 DEF Orderly, ErrandsTypeOK
  <2>3. ASSUME NEW f \in Errands PROVE Once(f)'
    BY <1>1, <2>1, ErrandAssumption DEF Orderly, Once
  <2>4. ASSUME NEW f \in Errands PROVE Watched(f)'
    BY <1>1, <2>1 DEF Orderly, Watched, InHand
  <2> QED BY <2>2, <2>3, <2>4 DEF Orderly
<1> QED BY <1>1, <1>3, <1>4

LEMMA StartOrderly ==
  ASSUME Orderly, NEW p \in Workers, Start(p)
  PROVE  Orderly'
<1> DEFINE e == job[p].of
<1>1. /\ At(p, "read") /\ Write(e, "working") /\ ran' = [ran EXCEPT ![e] = @ + 1]
      /\ Goes(p, "running") /\ UNCHANGED <<tasks, together, kept, crashes>>
  BY DEF Start
<1>2. /\ job' \in [Workers -> Jobs] /\ e \in Errands /\ job'[p].of = e /\ job'[p].step = "running"
      /\ \A q \in Workers \ {p} : job'[q] = job[q]
  BY <1>1, GoesOn DEF Orderly, Busy, At
<1>3. /\ errand' \in [Errands -> ErrandRows]
      /\ errand'[e].state \in {errand[e].state, "working"}
      /\ \A f \in Errands : errand'[f].made = errand[f].made
      /\ \A f \in Errands \ {e} : errand'[f] = errand[f]
  BY <1>1, <1>2, Writes DEF Orderly, States
<1>4. /\ ran' \in [Errands -> Nat] /\ ran'[e] = ran[e] + 1
      /\ \A f \in Errands \ {e} : ran'[f] = ran[f]
  BY <1>1, <1>2 DEF Orderly, ErrandsTypeOK
<1>5. ErrandsTypeOK'
  BY <1>1, <1>2, <1>3, <1>4 DEF Orderly, ErrandsTypeOK
<1>6. ASSUME NEW f \in Errands PROVE Once(f)'
  <2>1. Once(f)
    BY DEF Orderly
  <2>2. CASE f = e
    <3>1. f \notin kept => ran[f] = 0 /\ f \notin tasks /\ errand[f].made
      BY <1>1, <2>1, <2>2 DEF Once, At
    <3> QED BY <1>1, <1>2, <1>3, <1>4, <2>1, <2>2, <3>1 DEF Once
  <2>3. CASE f # e
    BY <1>1, <1>2, <1>3, <1>4, <2>1, <2>3 DEF Once
  <2> QED BY <2>2, <2>3
<1>7. ASSUME NEW f \in Errands PROVE Watched(f)'
  <2>1. \A q \in Workers : InHand(q, f)' <=> InHand(q, f)
    BY <1>1, <1>2 DEF InHand, At
  <2>2. errand'[f].state = "done" => errand[f].state = "done"
    BY <1>3
  <2> QED BY <1>1, <2>1, <2>2 DEF Orderly, Watched
<1> QED BY <1>5, <1>6, <1>7 DEF Orderly

LEMMA WorksOrderly ==
  ASSUME Orderly, NEW p \in Workers, NEW step \in {"worked", "raised"}, Works(p, step)
  PROVE  Orderly'
<1>1. At(p, "running") /\ Goes(p, step)
      /\ UNCHANGED <<errand, tasks, ran, together, kept, crashes>>
  BY DEF Works
<1>2. /\ job' \in [Workers -> Jobs] /\ job'[p].of = job[p].of /\ job'[p].step = step
      /\ \A q \in Workers \ {p} : job'[q] = job[q]
  BY <1>1, GoesOn DEF Orderly, Busy, At
<1>3. ErrandsTypeOK'
  BY <1>1, <1>2 DEF Orderly, ErrandsTypeOK
<1>4. ASSUME NEW f \in Errands PROVE Once(f)'
  BY <1>1, <1>2 DEF Orderly, Once
<1>5. ASSUME NEW f \in Errands PROVE Watched(f)'
  <2>1. \A q \in Workers : InHand(q, f)' <=> InHand(q, f)
    BY <1>1, <1>2 DEF InHand, At
  <2> QED BY <1>1, <2>1 DEF Orderly, Watched
<1> QED BY <1>3, <1>4, <1>5 DEF Orderly

(* A performer lets go, having written the outcome or been killed. *)
LEMMA FinishOrderly ==
  ASSUME Orderly, NEW p \in Workers, Finish(p)
  PROVE  Orderly'
<1> DEFINE e == job[p].of
           state == IF At(p, "worked") THEN "done" ELSE "failed"
<1>1. /\ job[p].step \in {"worked", "raised"} /\ Write(e, state) /\ Ends(p)
      /\ UNCHANGED <<tasks, ran, together, kept, crashes>>
  BY DEF Finish
<1>2. e \in Errands
  BY <1>1 DEF Orderly, ErrandsTypeOK, Jobs
<1>3. /\ errand' \in [Errands -> ErrandRows]
      /\ \A f \in Errands : errand'[f].made = errand[f].made
      /\ \A f \in Errands \ {e} : errand'[f] = errand[f]
  BY <1>1, <1>2, Writes DEF Orderly, States
<1>4. /\ job' \in [Workers -> Jobs] /\ job'[p].of = NoErrand /\ job'[p].step = "idle"
      /\ \A q \in Workers \ {p} : job'[q] = job[q]
  BY <1>1, LetsGo DEF Orderly
<1>5. ErrandsTypeOK'
  BY <1>1, <1>3, <1>4 DEF Orderly, ErrandsTypeOK
<1>6. ASSUME NEW f \in Errands PROVE Once(f)'
  BY <1>1, <1>3, <1>4, ErrandAssumption DEF Orderly, Once
<1>7. ASSUME NEW f \in Errands PROVE Watched(f)'
  <2>1. InHand(p, e) /\ Watched(f)
    BY <1>1 DEF InHand, Orderly
  <2>2. \A q \in Workers : InHand(q, f)' => InHand(q, f) /\ q # p
    BY <1>4 DEF InHand
  <2>3. CASE f = e
    BY <1>1, <2>1, <2>2, <2>3 DEF Watched
  <2>4. CASE f # e
    BY <1>1, <1>3, <2>1, <2>2, <2>4 DEF Watched
  <2> QED BY <2>3, <2>4
<1> QED BY <1>5, <1>6, <1>7 DEF Orderly

LEMMA CrashOrderly ==
  ASSUME Orderly, NEW p \in Workers, Crash(p)
  PROVE  Orderly'
<1>1. /\ Ends(p) /\ crashes < MaxCrashes /\ crashes' = crashes + 1
      /\ UNCHANGED <<errand, tasks, ran, together, kept>>
  BY DEF Crash
<1>2. /\ job' \in [Workers -> Jobs] /\ job'[p].of = NoErrand /\ job'[p].step = "idle"
      /\ \A q \in Workers \ {p} : job'[q] = job[q]
  BY <1>1, LetsGo DEF Orderly
<1>3. crashes' \in 0 .. MaxCrashes
  BY <1>1, WorkerAssumption DEF Orderly, ErrandsTypeOK
<1>4. ErrandsTypeOK'
  BY <1>1, <1>2, <1>3 DEF Orderly, ErrandsTypeOK
<1>5. ASSUME NEW f \in Errands PROVE Once(f)'
  BY <1>1, <1>2, ErrandAssumption DEF Orderly, Once
<1>6. ASSUME NEW f \in Errands PROVE Watched(f)'
  BY <1>1, <1>2 DEF Orderly, Watched, InHand
<1> QED BY <1>4, <1>5, <1>6 DEF Orderly

(* What the sweeps, time and the deletion of the account do to the rows. *)
LEMMA RowsOrderly ==
  ASSUME Orderly, errand' \in [Errands -> ErrandRows],
         \A e \in Errands : /\ errand'[e].made = errand[e].made
                            /\ errand'[e].state = "done" <=> errand[e].state = "done",
         UNCHANGED <<tasks, job, ran, together, kept, crashes>>
  PROVE  Orderly'
<1>1. ErrandsTypeOK'
  BY DEF Orderly, ErrandsTypeOK
<1>2. \A e \in Errands : Once(e)'
  BY DEF Orderly, Once
<1>3. \A e \in Errands : Watched(e)'
  BY DEF Orderly, Watched, InHand
<1> QED BY <1>1, <1>2, <1>3 DEF Orderly

LEMMA SweepsKeep ==
  ASSUME Orderly, FailInterrupted \/ ForgetErrands \/ \E e \in Errands : Ageing(e)
  PROVE  /\ errand' \in [Errands -> ErrandRows]
         /\ \A e \in Errands : /\ errand'[e].made = errand[e].made
                               /\ errand'[e].state = "done" <=> errand[e].state = "done"
         /\ UNCHANGED <<tasks, job, ran, together, kept, crashes>>
<1>1. errand \in [Errands -> ErrandRows]
  BY DEF Orderly, ErrandsTypeOK
<1>2. CASE FailInterrupted
  BY <1>1, <1>2 DEF FailInterrupted, IsFinished, ErrandRows, States
<1>3. CASE ForgetErrands
  BY <1>1, <1>3 DEF ForgetErrands, ErrandRows
<1>4. ASSUME NEW e \in Errands, Ageing(e)
      PROVE  /\ errand' \in [Errands -> ErrandRows]
             /\ \A f \in Errands : errand'[f].made = errand[f].made
                                   /\ errand'[f].state = errand[f].state
             /\ UNCHANGED <<tasks, job, ran, together, kept, crashes>>
  BY <1>1, <1>4 DEF Ageing, ErrandRows, Ages
<1> QED BY <1>2, <1>3, <1>4

LEMMA DeletionKeeps ==
  ASSUME Orderly, DeleteAccount
  PROVE  /\ errand' \in [Errands -> ErrandRows]
         /\ \A e \in Errands : /\ errand'[e].made = errand[e].made
                               /\ errand'[e].state = "done" <=> errand[e].state = "done"
         /\ UNCHANGED <<tasks, job, ran, together, kept, crashes>>
<1>1. errand \in [Errands -> ErrandRows]
  BY DEF Orderly, ErrandsTypeOK
<1> QED BY <1>1 DEF DeleteAccount, ErrandRows

(* What the step of a composed system does to the errands. *)
Handles(p) == Works(p, "worked") \/ Works(p, "raised")
Performs == \E p \in Workers : \/ Enqueue(p) \/ EnqueueRaises(p) \/ Perform(p) \/ Start(p)
                               \/ Handles(p) \/ Finish(p) \/ Crash(p)
                               \/ \E e \in Errands : Send(p, e) \/ Take(p, e)
Sweeps == FailInterrupted \/ ForgetErrands \/ \E e \in Errands : Ageing(e)

LEMMA NextErrands == Next => Performs \/ Sweeps \/ DeleteAccount \/ UNCHANGED errandVars
BY DEF Next, TellStep, ErrandStep, Performs, Sweeps, Handles, Tell, NobodyHears, SaidAlready,
       AskRow, MakeRow, RaiseInNotify, RaiseOutOfNotify, CrashTelling

LEMMA NextOrderly == Orderly /\ [Next]_vars => Orderly'
<1> SUFFICES ASSUME Orderly, [Next]_vars PROVE Orderly'
  OBVIOUS
<1>1. CASE UNCHANGED errandVars
  BY <1>1 DEF errandVars, Orderly, ErrandsTypeOK, Once, Watched, InHand
<1>2. CASE Performs
  BY <1>2, SendOrderly, EnqueueOrderly, RaisesOrderly, TakeOrderly, PerformOrderly, StartOrderly,
     WorksOrderly, FinishOrderly, CrashOrderly DEF Performs, Handles
<1>3. CASE Sweeps
  BY <1>3, SweepsKeep, RowsOrderly DEF Sweeps
<1>4. CASE DeleteAccount
  BY <1>4, DeletionKeeps, RowsOrderly
<1> QED BY <1>1, <1>2, <1>3, <1>4, NextErrands DEF vars

LEMMA AlwaysOrderly == Spec => []Orderly
<1>1. Init => Orderly
  BY InitOrderly DEF Init
<1> QED BY <1>1, NextOrderly, PTL DEF Spec

(* The errands, the queue and what the performers are at are well typed. *)
THEOREM ErrandsTyped == Spec => []ErrandsTypeOK
<1>1. Orderly => ErrandsTypeOK
  BY DEF Orderly
<1> QED BY <1>1, AlwaysOrderly, PTL

(* The work of an errand is begun once, however its performers die, unless the
   queue refused it and kept it. *)
THEOREM ErrandsWorkedOnce == Spec => []WorkedOnce
<1>1. Orderly => WorkedOnce
  BY DEF Orderly, ErrandsTypeOK, Once, WorkedOnce
<1> QED BY <1>1, AlwaysOrderly, PTL

(* Only who has it in hand can take back that an errand is done, and then a second
   has, which is noted. *)
THEOREM ErrandsDoneStays == Spec => DoneStays
<1>1. Orderly /\ [Next]_vars =>
        [\A e \in Errands :
           errand[e].state = "done" /\ errand'[e].state # "done" => e \in together]_errandVars
  <2> SUFFICES ASSUME Orderly, [Next]_vars, NEW e \in Errands,
                      errand[e].state = "done", errand'[e].state # "done"
               PROVE  e \in together
    BY DEF errandVars
  <2>1. errand \in [Errands -> ErrandRows] /\ ~UNCHANGED errand
    BY DEF Orderly, ErrandsTypeOK
  <2>2. PICK p \in Workers : job[p].step \in {"read", "worked", "raised"} /\ job[p].of = e
    <3>1. ~DeleteAccount /\ ~Sweeps
      BY SweepsKeep, DeletionKeeps DEF Sweeps
    <3>2. PICK p \in Workers : Start(p) \/ Finish(p) \/ \E f \in Errands : Send(p, f)
      BY <2>1, <3>1, NextErrands DEF vars, errandVars, Performs, Handles, Enqueue, EnqueueRaises,
         Perform, Works, Crash, Take
    <3>3. ASSUME NEW f \in Errands, Send(p, f) PROVE FALSE
      BY <2>1, <3>3 DEF Send, ErrandRows
    <3>4. PICK state : Write(job[p].of, state) /\ job[p].step \in {"read", "worked", "raised"}
      BY <3>2, <3>3 DEF Start, Finish, At
    <3>5. job[p].of = e
      BY <2>1, <3>4 DEF Write
    <3> QED BY <3>4, <3>5
  <2> QED BY <2>2 DEF Orderly, Watched, InHand
<1> QED BY <1>1, AlwaysOrderly, PTL DEF Spec, DoneStays
-----------------------------------------------------------------------------
(* The rows of the webhook are only added to, and each keeps its key. *)
RowsHaveKeys ==
  /\ \E S : hook \in Seq(S)
  /\ \A r \in DOMAIN hook : "key" \in DOMAIN hook[r]
Keyed(k) == \E r \in DOMAIN hook : hook[r].key = k

LEMMA WrittenRows ==
  ASSUME RowsHaveKeys, NEW r, NEW x, hook' = [hook EXCEPT ![r] = x],
         r \in DOMAIN hook => "key" \in DOMAIN x /\ x.key = hook[r].key
  PROVE  RowsHaveKeys' /\ \A k : Keyed(k) => Keyed(k)'
<1>1. PICK S : hook \in Seq(S)
  BY DEF RowsHaveKeys
<1>2. hook \in Seq(S \cup {x})
  BY <1>1
<1>3. hook' \in Seq(S \cup {x}) /\ DOMAIN hook' = DOMAIN hook
  <2>1. CASE r \in DOMAIN hook
    BY <1>2, <2>1, ExceptSeq
  <2>2. CASE r \notin DOMAIN hook
    <3>1. hook \in [1 .. Len(hook) -> S \cup {x}] /\ DOMAIN hook = 1 .. Len(hook)
      BY <1>2
    <3>2. hook' = hook
      BY <2>2, <3>1
    <3> QED BY <1>2, <3>2
  <2> QED BY <2>1, <2>2
<1>4. \A i \in DOMAIN hook : "key" \in DOMAIN hook'[i] /\ hook'[i].key = hook[i].key
  BY DEF RowsHaveKeys
<1> QED BY <1>3, <1>4 DEF RowsHaveKeys, Keyed

LEMMA AddedRow ==
  ASSUME RowsHaveKeys, NEW x, "key" \in DOMAIN x, hook' = Append(hook, x)
  PROVE  RowsHaveKeys' /\ (\A k : Keyed(k) => Keyed(k)') /\ Keyed(x.key)'
<1>1. PICK S : hook \in Seq(S)
  BY DEF RowsHaveKeys
<1>2. hook \in Seq(S \cup {x})
  BY <1>1
<1>3. hook' \in Seq(S \cup {x}) /\ Len(hook) + 1 \in DOMAIN hook' /\ hook'[Len(hook) + 1] = x
  BY <1>2
<1>4. /\ DOMAIN hook \subseteq DOMAIN hook' /\ \A i \in DOMAIN hook : hook'[i] = hook[i]
      /\ \A i \in DOMAIN hook' : i \in DOMAIN hook \/ hook'[i] = x
  BY <1>2
<1> QED BY <1>3, <1>4 DEF RowsHaveKeys, Keyed

LEMMA GoneRows ==
  ASSUME RowsHaveKeys, hook' = [r \in DOMAIN hook |-> [hook[r] EXCEPT !.there = FALSE]]
  PROVE  RowsHaveKeys' /\ \A k : Keyed(k) => Keyed(k)'
<1>1. DOMAIN hook' = DOMAIN hook
      /\ \A r \in DOMAIN hook : "key" \in DOMAIN hook'[r] /\ hook'[r].key = hook[r].key
  BY DEF RowsHaveKeys
<1>2. \E T : hook' \in Seq(T)
  <2>1. PICK S : hook \in Seq(S)
    BY DEF RowsHaveKeys
  <2>2. DOMAIN hook = 1 .. Len(hook) /\ Len(hook) \in Nat
    BY <2>1
  <2> DEFINE T == {hook'[r] : r \in DOMAIN hook}
  <2>3. hook' \in [1 .. Len(hook) -> T]
    BY <2>2
  <2> HIDE DEF T
  <2>4. hook' \in Seq(T)
    BY <2>2, <2>3
  <2> QED BY <2>4
<1> QED BY <1>1, <1>2 DEF RowsHaveKeys, Keyed

LEMMA DeliveriesKeep ==
  ASSUME RowsHaveKeys, Deliveries \/ Disconnect
  PROVE  RowsHaveKeys' /\ (\A k : Keyed(k) => Keyed(k)') /\ asked' = asked
<1>1. CASE UNCHANGED hook /\ UNCHANGED asked
  BY <1>1 DEF RowsHaveKeys, Keyed
<1>2. CASE Disconnect
  BY <1>2, GoneRows DEF Disconnect
<1>3. ASSUME NEW p \in Hookers, ClaimHook(p), ~UNCHANGED hook
      PROVE  RowsHaveKeys' /\ (\A k : Keyed(k) => Keyed(k)') /\ asked' = asked
  <2> DEFINE r == Head(list[p]).id
             x == [hook[r] EXCEPT !.next = "lease"]
  <2>1. hook' = [hook EXCEPT ![r] = x] /\ asked' = asked
    BY <1>3 DEF ClaimHook
  <2>2. r \in DOMAIN hook => "key" \in DOMAIN x /\ x.key = hook[r].key
    BY DEF RowsHaveKeys
  <2> QED BY <2>1, <2>2, WrittenRows
<1>4. ASSUME NEW p \in Hookers, RecordHook(p), ~UNCHANGED hook
      PROVE  RowsHaveKeys' /\ (\A k : Keyed(k) => Keyed(k)') /\ asked' = asked
  <2> DEFINE r == hand[p].id
             x == [hook[r] EXCEPT !.status = Outcome(hand[p]), !.attempts = hand[p].attempts + 1,
                     !.next = IF Outcome(hand[p]) = "failed" THEN "later" ELSE "none"]
  <2>1. hook' = [hook EXCEPT ![r] = x] /\ asked' = asked
    BY <1>4 DEF RecordHook
  <2>2. r \in DOMAIN hook => "key" \in DOMAIN x /\ x.key = hook[r].key
    BY DEF RowsHaveKeys
  <2> QED BY <2>1, <2>2, WrittenRows
<1>5. ASSUME NEW r \in Ids, ComesDue(r) \/ OutlivesLease(r)
      PROVE  RowsHaveKeys' /\ (\A k : Keyed(k) => Keyed(k)') /\ asked' = asked
  <2> DEFINE x == [hook[r] EXCEPT !.next = "due"]
  <2>1. hook' = [hook EXCEPT ![r] = x] /\ asked' = asked
    BY <1>5 DEF ComesDue, OutlivesLease
  <2>2. r \in DOMAIN hook => "key" \in DOMAIN x /\ x.key = hook[r].key
    BY DEF RowsHaveKeys
  <2> QED BY <2>1, <2>2, WrittenRows
<1>6. ASSUME NEW r \in Ids, ForgetHooks(r)
      PROVE  RowsHaveKeys' /\ (\A k : Keyed(k) => Keyed(k)') /\ asked' = asked
  <2> DEFINE x == [hook[r] EXCEPT !.there = FALSE]
  <2>1. hook' = [hook EXCEPT ![r] = x] /\ asked' = asked
    BY <1>6 DEF ForgetHooks
  <2>2. r \in DOMAIN hook => "key" \in DOMAIN x /\ x.key = hook[r].key
    BY DEF RowsHaveKeys
  <2> QED BY <2>1, <2>2, WrittenRows
<1>7. ASSUME NEW p \in Hookers,
             \/ ReadHooks(p) \/ PolicySkips(p) \/ PolicyWaits(p) \/ KillHooker(p)
             \/ \E came \in {"taken", "later", "never"} : Post(p, came)
      PROVE  UNCHANGED hook /\ UNCHANGED asked
  BY <1>7 DEF ReadHooks, PolicySkips, PolicyWaits, KillHooker, Post
<1>8. ASSUME NEW p \in Hookers, ClaimHook(p) \/ RecordHook(p)
      PROVE  UNCHANGED asked
  BY <1>8 DEF ClaimHook, RecordHook
<1>9. CASE SwitchConnection
  BY <1>1, <1>9 DEF SwitchConnection
<1> QED BY <1>1, <1>2, <1>3, <1>4, <1>5, <1>6, <1>7, <1>8, <1>9 DEF Deliveries, HookerStep
-----------------------------------------------------------------------------
(* Who asks for a row is at the errand whose key it is; the handler of an errand
   has handed its message on before it returns. *)
Asking ==
  /\ asked \in [Workers -> Keys \cup {NoKey}]
  /\ \A p \in Workers : asked[p] # NoKey => job[p].step = "running" /\ asked[p] = Said(p)
Handed(e) == e \in unheard \cup dropped \/ Keyed(KeyOf[e])
HandsOn(p) == job[p].step = "worked" => Handed(job[p].of)
Heard ==
  /\ Orderly /\ RowsHaveKeys /\ Asking
  /\ \A p \in Workers : HandsOn(p)
  /\ \A e \in Errands : errand[e].state = "done" => Handed(e)

LEMMA InitHeard == Init => Heard
<1> SUFFICES ASSUME Init PROVE Heard
  OBVIOUS
<1>1. hook \in Seq({}) /\ DOMAIN hook = {}
  BY DEF Init, HooksInit
<1>2. Asking
  BY TellersAssumption DEF Init, HooksInit, Asking
<1>3. \A p \in Workers : job[p].step = "idle"
  BY DEF Init, ErrandsInit, Idle
<1>4. \A e \in Errands : errand[e].state = "waiting"
  BY DEF Init, ErrandsInit
<1>5. Orderly
  BY InitOrderly DEF Init
<1> QED BY <1>1, <1>2, <1>3, <1>4, <1>5 DEF Heard, RowsHaveKeys, HandsOn

(* What was handed on stays so while rows are only added. *)
LEMMA StaysHanded ==
  ASSUME \A k : Keyed(k) => Keyed(k)', unheard \subseteq unheard', dropped \subseteq dropped',
         NEW e, Handed(e)
  PROVE  Handed(e)'
BY DEF Handed

(* The performers' own steps, while nothing is asked for. *)
LEMMA PerformsHeard ==
  ASSUME Heard, Orderly', UNCHANGED <<hookVars, notes>>, NEW p \in Workers,
         \/ Enqueue(p) \/ EnqueueRaises(p) \/ Perform(p) \/ Start(p) \/ Finish(p)
         \/ \E e \in Errands : Send(p, e) \/ Take(p, e)
  PROVE  Heard'
<1>1. job \in [Workers -> Jobs] /\ errand \in [Errands -> ErrandRows]
      /\ UNCHANGED <<hook, asked, unheard, dropped>>
  BY DEF Heard, Orderly, ErrandsTypeOK, hookVars, notes
<1>2. /\ \A q \in Workers \ {p} : job'[q] = job[q]
      /\ job'[p].step \notin {"worked", "raised"} /\ job[p].step # "running"
  <2>1. CASE \E e \in Errands : Send(p, e)
    BY <1>1, <2>1, TakesUp DEF Send, Heard, Orderly, Busy, At
  <2>2. CASE \E e \in Errands : Take(p, e)
    BY <1>1, <2>2, TakesUp DEF Take, Heard, Orderly, Busy, At
  <2>3. CASE Enqueue(p) \/ Finish(p)
    BY <1>1, <2>3, LetsGo DEF Enqueue, Finish, Heard, Orderly, At
  <2>4. CASE EnqueueRaises(p) \/ Start(p)
    BY <1>1, <2>4, GoesOn DEF EnqueueRaises, Start, Heard, Orderly, At, Busy
  <2>5. CASE Perform(p)
    BY <1>1, <2>5, GoesOn, LetsGo DEF Perform, Heard, Orderly, At, Busy
  <2> QED BY <2>1, <2>2, <2>3, <2>4, <2>5
<1>3. \A e \in Errands : Handed(e)' <=> Handed(e)
  BY <1>1 DEF Handed, Keyed
<1>4. RowsHaveKeys' /\ Asking'
  <2>1. RowsHaveKeys'
    BY <1>1 DEF Heard, RowsHaveKeys
  <2>2. asked[p] = NoKey
    BY <1>2 DEF Heard, Asking
  <2> QED BY <1>1, <1>2, <2>1, <2>2 DEF Heard, Asking, Said
<1>5. ASSUME NEW q \in Workers PROVE HandsOn(q)'
  <2>1. CASE q = p
    BY <1>2, <2>1 DEF HandsOn
  <2>2. CASE q # p
    <3>1. job[q].step = "worked" => job[q].of \in Errands
      BY <1>1 DEF Jobs
    <3> QED BY <1>2, <1>3, <2>2, <3>1 DEF Heard, HandsOn
  <2> QED BY <2>1, <2>2
<1>6. ASSUME NEW e \in Errands, errand'[e].state = "done" PROVE Handed(e)'
  <2>1. CASE errand[e].state = "done"
    BY <1>3, <2>1 DEF Heard
  <2>2. CASE errand[e].state # "done"
    <3>1. Start(p) \/ Finish(p)
      <4>1. ASSUME NEW f \in Errands, Send(p, f) PROVE errand'[e].state = errand[e].state
        BY <1>1, <4>1 DEF Send, ErrandRows
      <4> QED BY <1>6, <2>2, <4>1 DEF Enqueue, EnqueueRaises, Perform, Take
    <3>2. At(p, "worked") /\ e = job[p].of
      BY <1>1, <1>6, <2>2, <3>1 DEF Start, Finish, Write, ErrandRows
    <3> QED BY <1>3, <3>2 DEF Heard, HandsOn, At
  <2> QED BY <2>1, <2>2
<1> QED BY <1>4, <1>5, <1>6 DEF Heard

(* The handler goes on with its message, or is killed with it. *)
LEMMA TellsHeard ==
  ASSUME Heard, Orderly', NEW p \in Workers,
         \/ NobodyHears(p) \/ SaidAlready(p) \/ AskRow(p) \/ MakeRow(p)
         \/ RaiseInNotify(p) \/ RaiseOutOfNotify(p) \/ CrashTelling(p)
  PROVE  Heard'
<1>1. job \in [Workers -> Jobs] /\ asked \in [Workers -> Keys \cup {NoKey}] /\ errand' = errand
      /\ unheard \subseteq unheard' /\ dropped \subseteq dropped'
  BY DEF Heard, Orderly, ErrandsTypeOK, Asking, NobodyHears, SaidAlready, AskRow, MakeRow,
         RaiseInNotify, RaiseOutOfNotify, CrashTelling, Works, Crash, errandVars, notes
<1>2. /\ \A q \in Workers \ {p} : job'[q] = job[q] /\ asked'[q] = asked[q]
      /\ asked' \in [Workers -> Keys \cup {NoKey}]
      /\ asked'[p] # NoKey => job'[p].step = "running" /\ asked'[p] = Said(p)'
      /\ RowsHaveKeys' /\ \A k : Keyed(k) => Keyed(k)'
      /\ HandsOn(p)'
  <2>1. CASE NobodyHears(p) \/ SaidAlready(p)
    <3>1. /\ \A q \in Workers \ {p} : job'[q] = job[q]
          /\ job'[p].of = job[p].of /\ job'[p].step = "worked"
      BY <2>1, GoesOn DEF NobodyHears, SaidAlready, Works, Heard, Orderly, At, Busy
    <3>2. UNCHANGED <<hook, asked>> /\ asked[p] = NoKey
      BY <2>1 DEF NobodyHears, SaidAlready, hookVars
    <3>3. Handed(job[p].of)'
      <4>1. CASE NobodyHears(p)
        BY <3>1, <4>1 DEF NobodyHears, Handed
      <4>2. CASE SaidAlready(p)
        BY <3>1, <3>2, <4>2 DEF SaidAlready, HasRow, Said, Handed, Keyed
      <4> QED BY <2>1, <4>1, <4>2
    <3> QED BY <1>1, <3>1, <3>2, <3>3 DEF Heard, RowsHaveKeys, Keyed, HandsOn, Handed
  <2>2. CASE AskRow(p)
    <3>1. UNCHANGED <<job, hook>> /\ asked' = [asked EXCEPT ![p] = Said(p)] /\ At(p, "running")
      BY <2>2 DEF AskRow, Ask, errandVars
    <3>2. Said(p) \in Keys
      BY <1>1, <3>1, KeyOfAssumption DEF Said, Jobs, At
    <3> QED BY <1>1, <3>1, <3>2 DEF Heard, RowsHaveKeys, Keyed, HandsOn, At, Said
  <2>3. CASE MakeRow(p)
    <3>1. /\ \A q \in Workers \ {p} : job'[q] = job[q]
          /\ job'[p].of = job[p].of /\ job'[p].step = "worked"
      BY <2>3, GoesOn DEF MakeRow, Works, Heard, Orderly, At, Busy
    <3>2. asked[p] = Said(p) /\ asked' = [asked EXCEPT ![p] = NoKey]
      BY <2>3 DEF MakeRow, Make, Heard, Asking
    <3>3. RowsHaveKeys' /\ (\A k : Keyed(k) => Keyed(k)') /\ Keyed(Said(p))'
      <4>1. PICK x : hook' = Append(hook, x) /\ "key" \in DOMAIN x /\ x.key = asked[p]
        BY <2>3 DEF MakeRow, Make
      <4>2. RowsHaveKeys' /\ (\A k : Keyed(k) => Keyed(k)') /\ Keyed(x.key)'
        BY <4>1, AddedRow DEF Heard
      <4>3. \E r \in DOMAIN hook' : hook'[r].key = asked[p]
        BY <4>1, <4>2 DEF Keyed
      <4> QED BY <3>1, <3>2, <4>2, <4>3 DEF Keyed, Said
    <3> QED BY <1>1, <3>1, <3>2, <3>3 DEF HandsOn, Handed, Said
  <2>4. CASE RaiseOutOfNotify(p)
    <3>1. /\ \A q \in Workers \ {p} : job'[q] = job[q]
          /\ job'[p].step = "raised"
      BY <2>4, GoesOn DEF RaiseOutOfNotify, Works, Heard, Orderly, At, Busy
    <3>2. UNCHANGED hook /\ asked' = [asked EXCEPT ![p] = NoKey]
      BY <2>4 DEF RaiseOutOfNotify, MakeRaises
    <3>3. RowsHaveKeys' /\ \A k : Keyed(k) => Keyed(k)'
      BY <3>2 DEF Heard, RowsHaveKeys, Keyed
    <3>4. /\ asked' \in [Workers -> Keys \cup {NoKey}] /\ asked'[p] = NoKey
          /\ \A q \in Workers \ {p} : asked'[q] = asked[q]
      BY <1>1, <3>2
    <3> QED BY <3>1, <3>3, <3>4 DEF HandsOn
  <2>5. CASE CrashTelling(p)
    <3>1. /\ \A q \in Workers \ {p} : job'[q] = job[q]
          /\ job'[p].step = "idle"
      BY <2>5, LetsGo DEF CrashTelling, Crash, Heard, Orderly
    <3>2. UNCHANGED hook /\ asked' = [asked EXCEPT ![p] = NoKey]
      BY <1>1, <2>5 DEF CrashTelling, Unask, hookVars
    <3>3. RowsHaveKeys' /\ \A k : Keyed(k) => Keyed(k)'
      BY <3>2 DEF Heard, RowsHaveKeys, Keyed
    <3>4. /\ asked' \in [Workers -> Keys \cup {NoKey}] /\ asked'[p] = NoKey
          /\ \A q \in Workers \ {p} : asked'[q] = asked[q]
      BY <1>1, <3>2
    <3> QED BY <3>1, <3>3, <3>4 DEF HandsOn
  <2>6. CASE RaiseInNotify(p)
    <3>1. /\ \A q \in Workers \ {p} : job'[q] = job[q]
          /\ job'[p].of = job[p].of /\ job'[p].step = "worked"
      BY <2>6, GoesOn DEF RaiseInNotify, Works, Heard, Orderly, At, Busy
    <3>2. UNCHANGED hook /\ asked' = [asked EXCEPT ![p] = NoKey]
      <4>1. CASE asked[p] = NoKey /\ UNCHANGED hookVars
        BY <1>1, <4>1 DEF hookVars
      <4>2. CASE Unask(p)
        BY <4>2 DEF Unask
      <4> QED BY <2>6, <4>1, <4>2 DEF RaiseInNotify
    <3>3. RowsHaveKeys' /\ \A k : Keyed(k) => Keyed(k)'
      BY <3>2 DEF Heard, RowsHaveKeys, Keyed
    <3>4. /\ asked' \in [Workers -> Keys \cup {NoKey}] /\ asked'[p] = NoKey
          /\ \A q \in Workers \ {p} : asked'[q] = asked[q]
      BY <1>1, <3>2
    <3>5. job'[p].of \in dropped'
      BY <2>6, <3>1 DEF RaiseInNotify
    <3> QED BY <3>1, <3>3, <3>4, <3>5 DEF HandsOn, Handed
  <2> QED BY <2>1, <2>2, <2>3, <2>4, <2>5, <2>6
<1>3. Asking'
  BY <1>2 DEF Heard, Asking, Said
<1>4. ASSUME NEW q \in Workers PROVE HandsOn(q)'
  <2>1. CASE q # p
    <3>1. job[q].step = "worked" => Handed(job[q].of)
      BY DEF Heard, HandsOn
    <3>2. job'[q] = job[q]
      BY <1>2, <2>1
    <3> QED BY <1>1, <1>2, <3>1, <3>2 DEF HandsOn, Handed
  <2> QED BY <1>2, <2>1
<1>5. \A e \in Errands : errand'[e].state = "done" => Handed(e)'
  BY <1>1, <1>2 DEF Heard, Handed
<1> QED BY <1>2, <1>3, <1>4, <1>5 DEF Heard

(* Sweeps, deliveries, and the deletion of the account. *)
LEMMA ApartHeard ==
  ASSUME Heard, Orderly', UNCHANGED <<job, unheard, dropped>>, asked' = asked,
         RowsHaveKeys', \A k : Keyed(k) => Keyed(k)',
         \A e \in Errands : errand'[e].state = "done" => errand[e].state = "done"
  PROVE  Heard'
<1>1. Asking'
  BY DEF Heard, Asking, Said
<1>2. \A p \in Workers : HandsOn(p)'
  BY DEF Heard, HandsOn, Handed
<1>3. \A e \in Errands : errand'[e].state = "done" => Handed(e)'
  BY DEF Heard, Handed
<1> QED BY <1>1, <1>2, <1>3 DEF Heard

LEMMA NextHeard == Heard /\ [Next]_vars => Heard'
<1> SUFFICES ASSUME Heard, [Next]_vars PROVE Heard'
  OBVIOUS
<1>1. Orderly'
  BY NextOrderly DEF Heard
<1>2. CASE UNCHANGED vars
  <2>1. UNCHANGED <<hook, asked, job, unheard, dropped, errand>>
    BY <1>2 DEF vars, errandVars, hookVars, notes
  <2>2. RowsHaveKeys' /\ \A k : Keyed(k) => Keyed(k)'
    BY <2>1 DEF Heard, RowsHaveKeys, Keyed
  <2> QED BY <1>1, <2>1, <2>2, ApartHeard
<1>3. CASE ErrandStep /\ UNCHANGED <<hookVars, notes>>
  <2>1. CASE Sweeps
    <3>1. RowsHaveKeys' /\ (\A k : Keyed(k) => Keyed(k)') /\ UNCHANGED <<asked, unheard, dropped>>
      BY <1>3 DEF Heard, RowsHaveKeys, Keyed, hookVars, notes
    <3> QED BY <1>1, <2>1, <3>1, SweepsKeep, ApartHeard DEF Heard, Sweeps
  <2>2. CASE ~Sweeps
    BY <1>1, <1>3, <2>2, PerformsHeard DEF ErrandStep, Sweeps
  <2> QED BY <2>1, <2>2
<1>4. CASE Deliveries /\ UNCHANGED <<errandVars, notes>>
  BY <1>1, <1>4, DeliveriesKeep, ApartHeard DEF Heard, errandVars, notes
<1>5. CASE DeleteAccount
  <2>1. RowsHaveKeys' /\ (\A k : Keyed(k) => Keyed(k)') /\ asked' = asked
    <3>1. CASE Disconnect
      BY <3>1, DeliveriesKeep DEF Heard
    <3>2. CASE UNCHANGED hookVars
      BY <3>2 DEF Heard, RowsHaveKeys, Keyed, hookVars
    <3> QED BY <1>5, <3>1, <3>2 DEF DeleteAccount
  <2>2. UNCHANGED <<job, unheard, dropped>>
    BY <1>5 DEF DeleteAccount
  <2> QED BY <1>1, <1>5, <2>1, <2>2, DeletionKeeps, ApartHeard DEF Heard
<1>6. ASSUME NEW p \in Workers, NEW e \in Errands, Tell(p, e) PROVE Heard'
  BY <1>1, <1>6, PerformsHeard DEF Tell
<1>7. CASE TellStep
  BY <1>1, <1>5, <1>6, <1>7, TellsHeard DEF TellStep
<1> QED BY <1>2, <1>3, <1>4, <1>7 DEF Next

(* An errand that is done has left a row behind, its own or one of the same key,
   unless no connection was on to hear it or an error was swallowed on the way. *)
THEOREM DoneHasARow == Spec => []DoneIsOnItsWay
<1>1. Heard => DoneIsOnItsWay
  BY DEF Heard, Handed, Keyed, DoneIsOnItsWay
<1> QED BY <1>1, InitHeard, NextHeard, PTL DEF Spec

-----------------------------------------------------------------------------
(* The rows. *)
Open == {"pending", "failed"}
Holds(p, r) == hand[p] # Empty /\ hand[p].id = r

RowsTyped ==
  /\ hook \in Seq(HookRows) /\ Len(hook) <= MaxHooks
  /\ list \in [Hookers -> Seq(Entries)]
  /\ asread \in [Hookers -> SUBSET DOMAIN hook]
  /\ hand \in [Hookers -> Hands \cup {Empty}]
  /\ told \in [Ids -> Nat]
  /\ cut \subseteq Ids

(* What a pass has before it are rows that had an attempt left when it read them. *)
Listed(p) ==
  /\ \A i \in DOMAIN list[p] : list[p][i].id \in DOMAIN hook /\ list[p][i].attempts < MaxAttempts
  /\ hand[p] # Empty => hand[p].id \in DOMAIN hook /\ hand[p].attempts < MaxAttempts

(* A row whose retry time is as it was read is as it was read. *)
Fresh(p) ==
  \A r \in asread[p] : There(r) =>
    /\ hook[r].next = "due" /\ hook[r].status \in Open
    /\ \A i \in DOMAIN list[p] : list[p][i].id = r => list[p][i].attempts = hook[r].attempts

(* A row has one sender, who keeps it from coming due, and stands as that sender
   has it; no receiver has said that it took it before its sender says so. *)
InOneHand(r) ==
  /\ \A p, q \in Hookers : Holds(p, r) /\ Holds(q, r) => p = q
  /\ There(r) /\ hook[r].next = "due" => \A p \in Hookers : ~Holds(p, r)
  /\ \A p \in Hookers : Holds(p, r) /\ There(r) =>
       /\ hook[r].next = "lease" /\ hook[r].status \in Open
       /\ hook[r].attempts = hand[p].attempts
  /\ \A p \in Hookers : Holds(p, r) /\ hand[p].came # "taken" => told[r] = 0
  /\ told[r] <= 1
  /\ There(r) /\ told[r] > 0 =>
       \/ hook[r].status = "sent"
       \/ \E p \in Hookers : Holds(p, r) /\ hand[p].came = "taken"

(* What is sent, or on its way to be, was said to be taken. *)
Truly(r) ==
  /\ \A p \in Hookers : Holds(p, r) /\ hand[p].came = "taken" => told[r] > 0
  /\ There(r) /\ hook[r].status = "sent" => told[r] > 0
  /\ r \notin DOMAIN hook => told[r] = 0

Sent ==
  /\ RowsTyped
  /\ \A p \in Hookers : Listed(p) /\ Fresh(p)
  /\ \A r \in Ids : (r \in cut \/ InOneHand(r)) /\ Truly(r)
-----------------------------------------------------------------------------
LEMMA RowsAreIds == RowsTyped => DOMAIN hook \subseteq Ids
BY HookBounds DEF RowsTyped, Ids

LEMMA InitSent == Init => Sent
<1> SUFFICES ASSUME Init PROVE Sent
  OBVIOUS
<1>1. /\ hook = <<>> /\ cut = {} /\ list = [p \in Hookers |-> <<>>]
      /\ asread = [p \in Hookers |-> {}] /\ hand = [p \in Hookers |-> Empty]
      /\ told = [r \in Ids |-> 0]
  BY DEF Init, HooksInit
<1>2. RowsTyped
  BY <1>1, HookBounds DEF RowsTyped
<1>3. \A p \in Hookers : Listed(p) /\ Fresh(p)
  BY <1>1 DEF Listed, Fresh
<1>4. \A r \in Ids : InOneHand(r) /\ Truly(r)
  BY <1>1 DEF InOneHand, Truly, Holds, There
<1> QED BY <1>2, <1>3, <1>4 DEF Sent

(* A row that is left alone, and whose sender goes on as before. *)
LEMMA SameRow ==
  ASSUME NEW r, r \in cut => r \in cut', r \in cut \/ InOneHand(r), Truly(r),
         r \in DOMAIN hook => r \in DOMAIN hook',
         There(r)' => There(r) /\ hook'[r] = hook[r],
         told'[r] = told[r],
         \A p \in Hookers : hand'[p] = hand[p] \/ (~Holds(p, r)' /\ ~Holds(p, r))
  PROVE  (r \in cut' \/ InOneHand(r)') /\ Truly(r)'
<1>1. Truly(r)'
  BY DEF Truly, Holds
<1>2. ASSUME InOneHand(r) PROVE InOneHand(r)'
  BY <1>2 DEF InOneHand, Holds
<1> QED BY <1>1, <1>2

(* A pass that goes on as before, while the retry times it counts on stand. *)
LEMMA SamePass ==
  ASSUME NEW p, Listed(p), Fresh(p), DOMAIN hook \subseteq DOMAIN hook',
         \A i \in DOMAIN list'[p] : \E j \in DOMAIN list[p] : list'[p][i] = list[p][j],
         hand'[p] = hand[p] \/ hand'[p] = Empty,
         asread'[p] \subseteq asread[p],
         \A r \in asread'[p] : There(r)' => There(r) /\ hook'[r] = hook[r]
  PROVE  Listed(p)' /\ Fresh(p)'
<1>1. Listed(p)'
  BY DEF Listed
<1>2. Fresh(p)'
  BY DEF Fresh
<1> QED BY <1>1, <1>2

(* What a step writes to one row, with its retry time. *)
LEMMA OneRow ==
  ASSUME RowsTyped, NEW r, NEW x, r \in DOMAIN hook => x \in HookRows, hook' = [hook EXCEPT ![r] = x]
  PROVE  /\ hook' \in Seq(HookRows) /\ Len(hook') <= MaxHooks /\ DOMAIN hook' = DOMAIN hook
         /\ r \in DOMAIN hook => hook'[r] = x
         /\ \A s \in DOMAIN hook : s # r => hook'[s] = hook[s]
<1>1. hook \in Seq(HookRows) /\ Len(hook) <= MaxHooks
  BY DEF RowsTyped
<1>2. CASE r \in DOMAIN hook
  BY <1>1, <1>2, ExceptSeq
<1>3. CASE r \notin DOMAIN hook
  <2>1. hook' = hook
    BY <1>1, <1>3
  <2> QED BY <1>1, <1>3, <2>1
<1> QED BY <1>2, <1>3

LEMMA ReadSent ==
  ASSUME Sent, NEW p \in Hookers, ReadHooks(p)
  PROVE  Sent'
<1>1. PICK n \in 1 .. Batch : \E at \in [1 .. n -> DueNow] :
        /\ ~Holding(p)
        /\ list' = [list EXCEPT ![p] =
                      [i \in 1 .. n |-> [id |-> line[at[i]], attempts |-> hook[line[at[i]]].attempts]]]
        /\ asread' = [asread EXCEPT ![p] = {line[at[i]] : i \in 1 .. n}]
        /\ UNCHANGED <<conn, hook, line, asked, hand, told, silent, cut, cuts>>
  BY DEF ReadHooks
<1>2. PICK at \in [1 .. n -> DueNow] :
        /\ ~Holding(p)
        /\ list' = [list EXCEPT ![p] =
                      [i \in 1 .. n |-> [id |-> line[at[i]], attempts |-> hook[line[at[i]]].attempts]]]
        /\ asread' = [asread EXCEPT ![p] = {line[at[i]] : i \in 1 .. n}]
        /\ UNCHANGED <<conn, hook, line, asked, hand, told, silent, cut, cuts>>
  BY <1>1
<1>3. n \in Nat /\ DOMAIN hook \subseteq Ids /\ hook \in Seq(HookRows)
  BY HookBounds, RowsAreIds DEF Sent, RowsTyped
<1>4. \A i \in 1 .. n : /\ Pending(line[at[i]]) /\ line[at[i]] \in DOMAIN hook
                        /\ hook[line[at[i]]] \in HookRows
  BY <1>3 DEF DueNow, Pending, There
<1> DEFINE read == [i \in 1 .. n |-> [id |-> line[at[i]], attempts |-> hook[line[at[i]]].attempts]]
<1>5. \A i \in 1 .. n : read[i] \in Entries /\ read[i].id = line[at[i]]
                        /\ read[i].attempts = hook[line[at[i]]].attempts
  BY <1>3, <1>4 DEF Entries, HookRows
<1>6. read \in Seq(Entries)
  BY <1>3, <1>5
<1>7. DOMAIN read = 1 .. n
  OBVIOUS
<1>8. list' = [list EXCEPT ![p] = read]
  BY <1>2
<1> HIDE DEF read
<1>9. /\ list' \in [Hookers -> Seq(Entries)] /\ list'[p] = read
      /\ \A q \in Hookers \ {p} : list'[q] = list[q] /\ asread'[q] = asread[q]
      /\ asread' \in [Hookers -> SUBSET DOMAIN hook]
      /\ asread'[p] = {line[at[i]] : i \in 1 .. n}
  BY <1>2, <1>4, <1>6, <1>8 DEF Sent, RowsTyped
<1>10. RowsTyped'
  BY <1>2, <1>9 DEF Sent, RowsTyped
<1>11. ASSUME NEW q \in Hookers PROVE Listed(q)' /\ Fresh(q)'
  <2>1. CASE q = p
    <3>1. Listed(p)'
      BY <1>2, <1>4, <1>5, <1>7, <1>9 DEF Listed, Holding, Pending
    <3>2. Fresh(p)'
      BY <1>2, <1>4, <1>5, <1>7, <1>9 DEF Fresh, Pending, There, Open
    <3> QED BY <2>1, <3>1, <3>2
  <2>2. CASE q # p
    BY <1>2, <1>9, <2>2, SamePass DEF Sent, There
  <2> QED BY <2>1, <2>2
<1>12. ASSUME NEW r \in Ids PROVE (r \in cut' \/ InOneHand(r)') /\ Truly(r)'
  <2>1. hook' = hook /\ hand' = hand /\ told' = told /\ cut' = cut
    BY <1>2
  <2>2. /\ r \in cut \/ InOneHand(r)
        /\ Truly(r)
        /\ There(r)' => There(r) /\ hook'[r] = hook[r]
    BY <2>1 DEF Sent, There
  <2> QED BY <2>1, <2>2, SameRow
<1> QED BY <1>10, <1>11, <1>12 DEF Sent

(* A pass that leaves a row out: what it has before it is what it had, less one. *)
LEMMA SkipSent ==
  ASSUME Sent, NEW p \in Hookers, list[p] # <<>>, list' = [list EXCEPT ![p] = Tail(@)],
         asread' = asread \/ asread' = [asread EXCEPT ![p] = @ \ {Head(list[p]).id}],
         UNCHANGED <<hook, hand, told, silent, cut>>
  PROVE  Sent'
<1>1. list[p] \in Seq(Entries) /\ asread \in [Hookers -> SUBSET DOMAIN hook]
  BY DEF Sent, RowsTyped
<1>2. /\ Tail(list[p]) \in Seq(Entries)
      /\ \A i \in DOMAIN Tail(list[p]) : i + 1 \in DOMAIN list[p] /\ Tail(list[p])[i] = list[p][i + 1]
  BY <1>1
<1>3. /\ list' \in [Hookers -> Seq(Entries)] /\ list'[p] = Tail(list[p])
      /\ \A q \in Hookers \ {p} : list'[q] = list[q]
  BY <1>2 DEF Sent, RowsTyped
<1>4. asread' \in [Hookers -> SUBSET DOMAIN hook] /\ \A q \in Hookers : asread'[q] \subseteq asread[q]
  BY <1>1
<1>5. RowsTyped'
  BY <1>3, <1>4 DEF Sent, RowsTyped
<1>6. ASSUME NEW q \in Hookers PROVE Listed(q)' /\ Fresh(q)'
  <2>1. \A i \in DOMAIN list'[q] : \E j \in DOMAIN list[q] : list'[q][i] = list[q][j]
    BY <1>2, <1>3
  <2> QED BY <1>4, <2>1, SamePass DEF Sent, There
<1>7. ASSUME NEW r \in Ids PROVE (r \in cut' \/ InOneHand(r)') /\ Truly(r)'
  <2>1. /\ r \in cut \/ InOneHand(r)
        /\ Truly(r)
        /\ There(r)' => There(r) /\ hook'[r] = hook[r]
    BY DEF Sent, There
  <2> QED BY <2>1, SameRow
<1> QED BY <1>5, <1>6, <1>7 DEF Sent

(* A row that was claimed is let go of before anything came of it; or its sender is
   killed, and what had come of it is noted. *)
LEMMA LetsGoSent ==
  ASSUME Sent, NEW p \in Hookers, hand' = [hand EXCEPT ![p] = Empty],
         list' \in {list, [list EXCEPT ![p] = <<>>]}, asread' \in {asread, [asread EXCEPT ![p] = {}]},
         cut \subseteq cut', cut' \subseteq Ids,
         Holding(p) /\ hand[p].came # "claimed" => hand[p].id \in cut',
         UNCHANGED <<hook, told, silent>>
  PROVE  Sent'
<1>1. /\ hand \in [Hookers -> Hands \cup {Empty}] /\ list \in [Hookers -> Seq(Entries)]
      /\ asread \in [Hookers -> SUBSET DOMAIN hook]
  BY DEF Sent, RowsTyped
<1>2. /\ hand' \in [Hookers -> Hands \cup {Empty}] /\ hand'[p] = Empty
      /\ \A q \in Hookers \ {p} : hand'[q] = hand[q]
  BY <1>1
<1>3. /\ list' \in [Hookers -> Seq(Entries)] /\ \A q \in Hookers : list'[q] = list[q] \/ list'[q] = <<>>
      /\ asread' \in [Hookers -> SUBSET DOMAIN hook]
      /\ \A q \in Hookers : asread'[q] \subseteq asread[q]
  <2>1. /\ list' \in [Hookers -> Seq(Entries)]
        /\ \A q \in Hookers : list'[q] = list[q] \/ list'[q] = <<>>
    <3>1. CASE list' = list
      BY <1>1, <3>1
    <3>2. CASE list' = [list EXCEPT ![p] = <<>>]
      <4>1. <<>> \in Seq(Entries)
        OBVIOUS
      <4> QED BY <1>1, <3>2, <4>1
    <3> QED BY <3>1, <3>2
  <2>2. asread' \in [Hookers -> SUBSET DOMAIN hook] /\ \A q \in Hookers : asread'[q] \subseteq asread[q]
    BY <1>1
  <2> QED BY <2>1, <2>2
<1>4. RowsTyped'
  BY <1>2, <1>3 DEF Sent, RowsTyped
<1>5. ASSUME NEW q \in Hookers PROVE Listed(q)' /\ Fresh(q)'
  <2>1. \A i \in DOMAIN list'[q] : \E j \in DOMAIN list[q] : list'[q][i] = list[q][j]
    BY <1>3
  <2>2. hand'[q] = hand[q] \/ hand'[q] = Empty
    BY <1>2
  <2> QED BY <1>3, <2>1, <2>2, SamePass DEF Sent, There
<1>6. ASSUME NEW r \in Ids PROVE (r \in cut' \/ InOneHand(r)') /\ Truly(r)'
  <2>1. CASE ~Holds(p, r)
    <3>1. \A q \in Hookers : hand'[q] = hand[q] \/ (~Holds(q, r)' /\ ~Holds(q, r))
      <4> TAKE q \in Hookers
      <4>1. CASE q = p
        BY <1>2, <2>1, <4>1 DEF Holds
      <4>2. CASE q # p
        BY <1>2, <4>2
      <4> QED BY <4>1, <4>2
    <3>2. /\ r \in cut \/ InOneHand(r)
          /\ Truly(r)
          /\ There(r)' => There(r) /\ hook'[r] = hook[r]
      BY DEF Sent, There
    <3> QED BY <3>1, <3>2, SameRow
  <2>2. CASE Holds(p, r)
    <3>1. /\ r \in cut \/ InOneHand(r)
        /\ Truly(r)
      BY DEF Sent
    <3>2. \A q \in Hookers : Holds(q, r)' => Holds(q, r) /\ hand'[q] = hand[q]
      BY <1>2 DEF Holds
    <3>3. Truly(r)'
      BY <3>1, <3>2 DEF Sent, Truly, There
    <3>4. CASE r \in cut'
      BY <3>3, <3>4
    <3>5. CASE r \notin cut'
      <4>1. InOneHand(r) /\ hand[p].came = "claimed" /\ \A q \in Hookers : ~Holds(q, r)'
        BY <1>2, <2>2, <3>1, <3>5 DEF InOneHand, Holds, Holding
      <4>2. told[r] = 0
        BY <2>2, <4>1 DEF InOneHand
      <4> QED BY <3>3, <4>1, <4>2 DEF InOneHand, There
    <3> QED BY <3>4, <3>5
  <2> QED BY <2>1, <2>2
<1> QED BY <1>4, <1>5, <1>6 DEF Sent

LEMMA KillSent ==
  ASSUME Sent, NEW p \in Hookers, KillHooker(p)
  PROVE  Sent'
<1>1. /\ hand' = [hand EXCEPT ![p] = Empty] /\ list' = [list EXCEPT ![p] = <<>>]
      /\ asread' = [asread EXCEPT ![p] = {}] /\ UNCHANGED <<hook, told, silent>>
      /\ cut' = IF Holding(p) /\ hand[p].came # "claimed" THEN cut \cup {hand[p].id} ELSE cut
  BY DEF KillHooker
<1>2. cut \subseteq Ids /\ Holding(p) => hand[p].id \in Ids
  BY RowsAreIds DEF Sent, RowsTyped, Listed, Holding
<1>3. cut \subseteq cut' /\ cut' \subseteq Ids
  BY <1>1, <1>2 DEF Sent, RowsTyped
<1> QED BY <1>1, <1>3, LetsGoSent

LEMMA ClaimSent ==
  ASSUME Sent, NEW p \in Hookers, ClaimHook(p)
  PROVE  Sent'
<1> DEFINE f == Head(list[p])
           r == f.id
           x == [hook[r] EXCEPT !.next = "lease"]
<1>1. /\ list[p] # <<>> /\ ~Holding(p) /\ list' = [list EXCEPT ![p] = Tail(@)]
      /\ UNCHANGED <<told, silent, cut>>
  BY DEF ClaimHook
<1>2. CASE ~(There(r) /\ r \in asread[p])
  <2>1. UNCHANGED <<hook, hand>> /\ asread' = asread
    BY <1>2 DEF ClaimHook
  <2> QED BY <1>1, <2>1, SkipSent
<1>3. CASE There(r) /\ r \in asread[p]
  <2>1. /\ hook' = [hook EXCEPT ![r] = x] /\ Rewritten(r)
        /\ hand' = [hand EXCEPT ![p] = [id |-> r, attempts |-> f.attempts, came |-> "claimed"]]
    BY <1>3 DEF ClaimHook
  <2>2. /\ list[p] \in Seq(Entries) /\ hook \in Seq(HookRows) /\ DOMAIN hook \subseteq Ids
        /\ hand \in [Hookers -> Hands \cup {Empty}] /\ asread \in [Hookers -> SUBSET DOMAIN hook]
    BY RowsAreIds DEF Sent, RowsTyped
  <2>3. /\ Tail(list[p]) \in Seq(Entries) /\ f \in Entries /\ 1 \in DOMAIN list[p] /\ f = list[p][1]
        /\ \A i \in DOMAIN Tail(list[p]) : i + 1 \in DOMAIN list[p] /\ Tail(list[p])[i] = list[p][i + 1]
    BY <1>1, <2>2
  <2>4. r \in DOMAIN hook /\ r \in Ids /\ hook[r] \in HookRows
    BY <1>3, <2>2 DEF There
  <2>5. x \in HookRows /\ x.next = "lease" /\ x.status = hook[r].status /\ x.attempts = hook[r].attempts
        /\ x.there = hook[r].there
    BY <2>4 DEF HookRows
  <2> HIDE DEF x
  <2>6. /\ hook' \in Seq(HookRows) /\ Len(hook') <= MaxHooks /\ DOMAIN hook' = DOMAIN hook
        /\ hook'[r] = x /\ \A s \in DOMAIN hook : s # r => hook'[s] = hook[s]
    BY <2>1, <2>4, <2>5, OneRow DEF Sent
  <2>7. /\ hook[r].status \in Open /\ hook[r].next = "due" /\ f.attempts = hook[r].attempts
        /\ f.attempts < MaxAttempts
    BY <1>3, <2>3 DEF Sent, Fresh, Listed
  <2> DEFINE h == [id |-> r, attempts |-> f.attempts, came |-> "claimed"]
  <2>8. h \in Hands /\ h.id = r /\ h.attempts = hook[r].attempts /\ h.came = "claimed" /\ h # Empty
    BY <2>3, <2>4, <2>7 DEF Hands, Entries, Empty
  <2>9. hand' = [hand EXCEPT ![p] = h]
    BY <2>1
  <2> HIDE DEF h
  <2>10. /\ hand' \in [Hookers -> Hands \cup {Empty}] /\ hand'[p] = h
         /\ \A q \in Hookers \ {p} : hand'[q] = hand[q]
    BY <2>2, <2>8, <2>9
  <2>11. /\ list' \in [Hookers -> Seq(Entries)] /\ list'[p] = Tail(list[p])
         /\ \A q \in Hookers \ {p} : list'[q] = list[q]
    BY <1>1, <2>3 DEF Sent, RowsTyped
  <2>12. /\ asread' \in [Hookers -> SUBSET DOMAIN hook]
         /\ \A q \in Hookers : asread'[q] = asread[q] \ {r}
    BY <2>1, <2>2 DEF Rewritten
  <2>13. RowsTyped'
    BY <1>1, <2>6, <2>10, <2>11, <2>12 DEF Sent, RowsTyped
  <2>14. ASSUME NEW q \in Hookers PROVE Listed(q)' /\ Fresh(q)'
    <3>1. \A i \in DOMAIN list'[q] : \E j \in DOMAIN list[q] : list'[q][i] = list[q][j]
      <4>1. CASE q = p
        BY <2>3, <2>11, <4>1
      <4>2. CASE q # p
        BY <2>11, <4>2
      <4> QED BY <4>1, <4>2
    <3>2. \A s \in asread'[q] : There(s)' => There(s) /\ hook'[s] = hook[s]
      BY <2>2, <2>6, <2>12 DEF There
    <3>3. Listed(q)'
      BY <2>4, <2>6, <2>7, <2>8, <2>10, <3>1 DEF Sent, Listed
    <3>4. Fresh(q)'
      BY <2>12, <3>1, <3>2 DEF Sent, Fresh
    <3> QED BY <3>3, <3>4
  <2>15. ASSUME NEW s \in Ids PROVE (s \in cut' \/ InOneHand(s)') /\ Truly(s)'
    <3>1. /\ s \in cut \/ InOneHand(s)
          /\ Truly(s)
      BY DEF Sent
    <3>2. CASE s # r
      <4>1. \A q \in Hookers : hand'[q] = hand[q] \/ (~Holds(q, s)' /\ ~Holds(q, s))
        BY <1>1, <2>8, <2>10, <3>2 DEF Holds, Holding
      <4>2. There(s)' => There(s) /\ hook'[s] = hook[s]
        BY <2>6, <3>2 DEF There
      <4> QED BY <1>1, <2>6, <3>1, <4>1, <4>2, SameRow
    <3>3. CASE s = r
      <4>1. There(s)' /\ hook'[s].next = "lease" /\ hook'[s].status \in Open
            /\ hook'[s].attempts = h.attempts
        BY <1>3, <2>4, <2>5, <2>6, <2>7, <2>8, <3>3 DEF There
      <4>2. Truly(s)'
        BY <1>1, <2>6, <2>8, <2>10, <3>1, <4>1 DEF Truly, Holds, Open
      <4>3. ASSUME s \notin cut PROVE InOneHand(s)'
        <5>1. /\ \A q \in Hookers : ~Holds(q, s) /\ told[s] <= 1
              /\ told[s] > 0 => hook[s].status = "sent" \/ \E q \in Hookers : Holds(q, s)
          BY <1>3, <2>7, <3>1, <3>3, <4>3 DEF InOneHand
        <5>2. told[s] = 0
          <6>1. ~(told[s] > 0)
            BY <2>7, <3>3, <5>1 DEF Open
          <6>2. told[s] \in Nat
            BY DEF Sent, RowsTyped
          <6> QED BY <6>1, <6>2
        <5>3. /\ \A q \in Hookers : Holds(q, s)' => q = p
          BY <2>10, <5>1 DEF Holds
        <5> QED BY <1>1, <2>8, <2>10, <3>3, <4>1, <5>2, <5>3 DEF InOneHand
      <4> QED BY <1>1, <4>2, <4>3
    <3> QED BY <3>2, <3>3
  <2> QED BY <2>13, <2>14, <2>15 DEF Sent
<1> QED BY <1>2, <1>3

LEMMA PostSent ==
  ASSUME Sent, NEW p \in Hookers, NEW came \in {"taken", "later", "never"}, Post(p, came)
  PROVE  Sent'
<1> DEFINE r == hand[p].id
<1>1. /\ Holding(p) /\ hand[p].came = "claimed" /\ hand' = [hand EXCEPT ![p].came = came]
      /\ told' = [told EXCEPT ![r] = IF came = "taken" THEN @ + 1 ELSE @]
      /\ UNCHANGED <<hook, list, asread, cut>>
  BY DEF Post
<1>2. /\ hand \in [Hookers -> Hands \cup {Empty}] /\ hand[p] \in Hands /\ hand[p] # Empty
      /\ told \in [Ids -> Nat] /\ r \in Ids
  BY <1>1 DEF Sent, RowsTyped, Holding, Hands
<1>3. /\ hand' \in [Hookers -> Hands \cup {Empty}] /\ hand'[p] # Empty
      /\ hand'[p].id = r /\ hand'[p].attempts = hand[p].attempts /\ hand'[p].came = came
      /\ \A q \in Hookers \ {p} : hand'[q] = hand[q]
  BY <1>1, <1>2 DEF Hands, Empty
<1>4. /\ told' \in [Ids -> Nat] /\ \A s \in Ids \ {r} : told'[s] = told[s]
      /\ told'[r] = IF came = "taken" THEN told[r] + 1 ELSE told[r]
  BY <1>1, <1>2
<1>5. RowsTyped'
  BY <1>1, <1>3, <1>4 DEF Sent, RowsTyped
<1>6. ASSUME NEW q \in Hookers PROVE Listed(q)' /\ Fresh(q)'
  <2>1. Listed(q)'
    BY <1>1, <1>2, <1>3 DEF Sent, Listed
  <2>2. Fresh(q)'
    BY <1>1 DEF Sent, Fresh, There
  <2> QED BY <2>1, <2>2
<1>7. ASSUME NEW s \in Ids PROVE (s \in cut' \/ InOneHand(s)') /\ Truly(s)'
  <2>1. /\ s \in cut \/ InOneHand(s)
        /\ Truly(s)
        /\ There(s)' <=> There(s)
    BY <1>1 DEF Sent, There
  <2>2. \A q \in Hookers : Holds(q, s)' <=> Holds(q, s)
    BY <1>2, <1>3 DEF Holds
  <2>3. CASE s # r
    <3>1. \A q \in Hookers : hand'[q] = hand[q] \/ (~Holds(q, s)' /\ ~Holds(q, s))
      BY <1>3, <2>3 DEF Holds
    <3> QED BY <1>1, <1>4, <2>1, <2>3, <3>1, SameRow
  <2>4. CASE s = r
    <3>1. Holds(p, s) /\ Holds(p, s)' /\ s \in DOMAIN hook
      BY <1>2, <1>3, <2>4 DEF Sent, Listed, Holds
    <3>2. Truly(s)'
      BY <1>1, <1>2, <1>3, <1>4, <2>1, <2>2, <2>4, <3>1 DEF Truly
    <3>3. ASSUME InOneHand(s) PROVE InOneHand(s)'
      <4>1. told[s] = 0 /\ \A q \in Hookers : Holds(q, s)' => q = p
        BY <1>1, <2>2, <3>1, <3>3 DEF InOneHand
      <4>2. /\ There(s)' /\ hook'[s].next = "due" => \A q \in Hookers : ~Holds(q, s)'
            /\ There(s)' => /\ hook'[s].next = "lease" /\ hook'[s].status \in Open
                            /\ hook'[s].attempts = hand'[p].attempts
        BY <1>1, <1>3, <2>1, <2>2, <3>1, <3>3 DEF InOneHand
      <4>3. /\ came # "taken" => told'[s] = 0
            /\ told'[s] <= 1
            /\ told'[s] > 0 => came = "taken"
        BY <1>4, <2>4, <4>1
      <4>4. \A q \in Hookers : Holds(q, s)' => hand'[q].came = came /\ hand'[q] = hand'[p]
        BY <1>3, <4>1
      <4>5. /\ \A q, u \in Hookers : Holds(q, s)' /\ Holds(u, s)' => q = u
            /\ \A q \in Hookers : Holds(q, s)' /\ There(s)' =>
                 /\ hook'[s].next = "lease" /\ hook'[s].status \in Open
                 /\ hook'[s].attempts = hand'[q].attempts
            /\ \A q \in Hookers : Holds(q, s)' /\ hand'[q].came # "taken" => told'[s] = 0
        BY <4>1, <4>2, <4>3, <4>4
      <4>6. told'[s] > 0 => \E q \in Hookers : Holds(q, s)' /\ hand'[q].came = "taken"
        BY <1>3, <3>1, <4>3
      <4> QED BY <4>2, <4>3, <4>5, <4>6 DEF InOneHand
    <3> QED BY <1>1, <2>1, <3>2, <3>3
  <2> QED BY <2>3, <2>4
<1> QED BY <1>5, <1>6, <1>7 DEF Sent

LEMMA RecordSent ==
  ASSUME Sent, NEW p \in Hookers, RecordHook(p)
  PROVE  Sent'
<1>0. PICK r : r = hand[p].id
  OBVIOUS
<1> DEFINE h == hand[p]
           x == [hook[r] EXCEPT !.status = Outcome(h), !.attempts = h.attempts + 1,
                   !.next = IF Outcome(h) = "failed" THEN "later" ELSE "none"]
<1>1. /\ Holding(p) /\ h.came # "claimed" /\ hand' = [hand EXCEPT ![p] = Empty]
      /\ list' \in {list, [list EXCEPT ![p] = <<>>]}
      /\ UNCHANGED <<told, silent, cut>>
  BY DEF RecordHook
<1>2. /\ hand \in [Hookers -> Hands \cup {Empty}] /\ h \in Hands /\ h.attempts < MaxAttempts
      /\ list \in [Hookers -> Seq(Entries)] /\ asread \in [Hookers -> SUBSET DOMAIN hook]
      /\ r \in DOMAIN hook /\ DOMAIN hook \subseteq Ids /\ hook \in Seq(HookRows)
  BY <1>0, <1>1, RowsAreIds DEF Sent, RowsTyped, Listed, Holding
<1>3. /\ hand' \in [Hookers -> Hands \cup {Empty}] /\ hand'[p] = Empty
      /\ \A q \in Hookers \ {p} : hand'[q] = hand[q]
  BY <1>1, <1>2
<1>4. /\ list' \in [Hookers -> Seq(Entries)]
      /\ \A q \in Hookers : list'[q] = list[q] \/ list'[q] = <<>>
  <2>1. CASE list' = list
    BY <1>2, <2>1
  <2>2. CASE list' = [list EXCEPT ![p] = <<>>]
    <3>1. <<>> \in Seq(Entries)
      OBVIOUS
    <3> QED BY <1>2, <2>2, <3>1
  <2> QED BY <1>1, <2>1, <2>2
<1>5. /\ hook' \in Seq(HookRows) /\ Len(hook') <= MaxHooks /\ DOMAIN hook' = DOMAIN hook
      /\ \A s \in DOMAIN hook : s # r => hook'[s] = hook[s]
      /\ There(r)' => There(r) /\ hook'[r].status = Outcome(h) /\ hook'[r].next \in {"later", "none"}
      /\ asread' \in [Hookers -> SUBSET DOMAIN hook]
      /\ \A q \in Hookers : asread'[q] \subseteq asread[q] /\ (There(r) => r \notin asread'[q])
  <2>1. CASE There(r)
    <3>1. hook' = [hook EXCEPT ![r] = x] /\ Rewritten(r)
      BY <1>0, <2>1 DEF RecordHook
    <3>2. Outcome(h) \in Statuses /\ h.attempts + 1 \in 0 .. MaxAttempts
      BY <1>2, HookBounds DEF Outcome, Statuses, Hands
    <3>3. hook[r] \in HookRows
      BY <1>2
    <3>4. x \in HookRows /\ x.status = Outcome(h) /\ x.next \in {"later", "none"}
      BY <3>2, <3>3 DEF HookRows
    <3> HIDE DEF x
    <3>5. /\ hook' \in Seq(HookRows) /\ Len(hook') <= MaxHooks /\ DOMAIN hook' = DOMAIN hook
          /\ hook'[r] = x /\ \A s \in DOMAIN hook : s # r => hook'[s] = hook[s]
      BY <1>2, <3>1, <3>4, OneRow DEF Sent
    <3>6. /\ asread' \in [Hookers -> SUBSET DOMAIN hook]
          /\ \A q \in Hookers : asread'[q] = asread[q] \ {r}
      BY <1>2, <3>1 DEF Rewritten
    <3> QED BY <2>1, <3>4, <3>5, <3>6
  <2>2. CASE ~There(r)
    <3>1. UNCHANGED <<hook, asread>>
      BY <1>0, <2>2 DEF RecordHook
    <3>2. ~There(r)'
      BY <2>2, <3>1 DEF There
    <3> QED BY <1>2, <2>2, <3>1, <3>2 DEF Sent, RowsTyped
  <2> QED BY <2>1, <2>2
<1>6. RowsTyped'
  BY <1>1, <1>3, <1>4, <1>5 DEF Sent, RowsTyped
<1>7. ASSUME NEW q \in Hookers PROVE Listed(q)' /\ Fresh(q)'
  <2>1. \A i \in DOMAIN list'[q] : \E j \in DOMAIN list[q] : list'[q][i] = list[q][j]
    BY <1>4
  <2>2. \A s \in asread'[q] : There(s)' => There(s) /\ hook'[s] = hook[s]
    <3> SUFFICES ASSUME NEW s \in asread'[q], There(s)' PROVE There(s) /\ hook'[s] = hook[s]
      OBVIOUS
    <3>1. s \in DOMAIN hook /\ s # r
      BY <1>2, <1>5
    <3> QED BY <1>5, <3>1 DEF There
  <2>3. hand'[q] = hand[q] \/ hand'[q] = Empty
    BY <1>3
  <2> QED BY <1>5, <2>1, <2>2, <2>3, SamePass DEF Sent
<1>8. ASSUME NEW s \in Ids PROVE (s \in cut' \/ InOneHand(s)') /\ Truly(s)'
  <2>1. /\ s \in cut \/ InOneHand(s)
        /\ Truly(s)
    BY DEF Sent
  <2>2. CASE s # r
    <3>1. \A q \in Hookers : hand'[q] = hand[q] \/ (~Holds(q, s)' /\ ~Holds(q, s))
      BY <1>0, <1>3, <2>2 DEF Holds
    <3>2. There(s)' => There(s) /\ hook'[s] = hook[s]
      BY <1>5, <2>2 DEF There
    <3> QED BY <1>1, <1>5, <2>1, <3>1, <3>2, SameRow
  <2>3. CASE s = r
    <3>1. Holds(p, s) /\ \A q \in Hookers : Holds(q, s)' => Holds(q, s) /\ q # p /\ hand'[q] = hand[q]
      BY <1>0, <1>1, <1>3, <2>3 DEF Holds, Holding
    <3>2. Outcome(h) = "sent" <=> h.came = "taken"
      BY DEF Outcome
    <3>3. h.came = "taken" => told[s] > 0
      BY <2>1, <3>1 DEF Truly
    <3>4. Truly(s)'
      BY <1>1, <1>2, <1>5, <2>1, <2>3, <3>1, <3>2, <3>3 DEF Truly
    <3>5. ASSUME InOneHand(s) PROVE InOneHand(s)'
      <4>1. \A q \in Hookers : ~Holds(q, s)'
        BY <3>1, <3>5 DEF InOneHand
      <4>2. told[s] <= 1 /\ (h.came # "taken" => told[s] = 0)
        BY <3>1, <3>5 DEF InOneHand
      <4>3. There(s)' /\ told'[s] > 0 => hook'[s].status = "sent"
        BY <1>1, <1>5, <2>3, <3>2, <4>2
      <4> QED BY <1>1, <4>1, <4>2, <4>3 DEF InOneHand
    <3> QED BY <1>1, <2>1, <3>4, <3>5
  <2> QED BY <2>2, <2>3
<1> QED BY <1>6, <1>7, <1>8 DEF Sent

(* The retry time of a row that nobody was to read comes: its own, a lease that
   nobody is at, or one that its sender has outlasted. *)
LEMMA DueSent ==
  ASSUME Sent, NEW r \in Ids, ComesDue(r) \/ OutlivesLease(r)
  PROVE  Sent'
<1> DEFINE x == [hook[r] EXCEPT !.next = "due"]
<1>1. /\ There(r) /\ hook[r].next \in {"later", "lease"} /\ hook' = [hook EXCEPT ![r] = x]
      /\ cut \subseteq cut' /\ cut' \subseteq cut \cup {r}
      /\ r \in cut' \/ \A p \in Hookers : hand[p].id # r
      /\ UNCHANGED <<list, asread, hand, told, silent>>
  BY DEF ComesDue, OutlivesLease
<1>2. /\ hook \in Seq(HookRows) /\ r \in DOMAIN hook /\ hook[r] \in HookRows
  BY <1>1 DEF Sent, RowsTyped, There
<1>3. x \in HookRows /\ x.status = hook[r].status /\ x.attempts = hook[r].attempts
  BY <1>2 DEF HookRows
<1> HIDE DEF x
<1>4. /\ hook' \in Seq(HookRows) /\ Len(hook') <= MaxHooks /\ DOMAIN hook' = DOMAIN hook
      /\ hook'[r] = x /\ \A s \in DOMAIN hook : s # r => hook'[s] = hook[s]
  BY <1>1, <1>2, <1>3, OneRow DEF Sent
<1>5. RowsTyped'
  BY <1>1, <1>4 DEF Sent, RowsTyped
<1>6. ASSUME NEW q \in Hookers PROVE Listed(q)' /\ Fresh(q)'
  <2>1. r \notin asread[q]
    BY <1>1 DEF Sent, Fresh
  <2>2. \A s \in asread[q] : There(s)' => There(s) /\ hook'[s] = hook[s]
    BY <1>4, <2>1 DEF There
  <2> QED BY <1>1, <1>4, <2>2, SamePass DEF Sent
<1>7. ASSUME NEW s \in Ids PROVE (s \in cut' \/ InOneHand(s)') /\ Truly(s)'
  <2>1. /\ s \in cut \/ InOneHand(s)
        /\ Truly(s)
        /\ \A q \in Hookers : Holds(q, s)' <=> Holds(q, s)
    BY <1>1 DEF Sent, Holds
  <2>2. CASE s # r
    <3>1. There(s)' => There(s) /\ hook'[s] = hook[s]
      BY <1>4, <2>2 DEF There
    <3> QED BY <1>1, <1>4, <2>1, <3>1, SameRow
  <2>3. CASE s = r
    <3>1. Truly(s)'
      BY <1>1, <1>2, <1>3, <1>4, <2>1, <2>3 DEF Truly
    <3>2. ASSUME InOneHand(s), s \notin cut' PROVE InOneHand(s)'
      <4>1. \A q \in Hookers : ~Holds(q, s)
        BY <1>1, <2>3, <3>2 DEF Holds
      <4>2. hook'[s].status = hook[s].status
        BY <1>3, <1>4, <2>3
      <4> QED BY <1>1, <2>1, <2>3, <3>2, <4>1, <4>2 DEF InOneHand
    <3> QED BY <1>1, <2>1, <3>1, <3>2
  <2> QED BY <2>2, <2>3
<1> QED BY <1>5, <1>6, <1>7 DEF Sent

(* Rows that go, or nothing at all. *)
LEMMA GoneSent ==
  ASSUME Sent, UNCHANGED <<list, asread, hand, told, silent, cut>>,
         hook' \in Seq(HookRows), Len(hook') = Len(hook), DOMAIN hook' = DOMAIN hook,
         \A r \in DOMAIN hook : hook'[r] = hook[r] \/ ~hook'[r].there
  PROVE  Sent'
<1>1. RowsTyped'
  BY DEF Sent, RowsTyped
<1>2. \A r : There(r)' => There(r) /\ hook'[r] = hook[r]
  BY DEF There
<1>3. ASSUME NEW p \in Hookers PROVE Listed(p)' /\ Fresh(p)'
  BY <1>2, SamePass DEF Sent
<1>4. ASSUME NEW r \in Ids PROVE (r \in cut' \/ InOneHand(r)') /\ Truly(r)'
  <2>1. /\ r \in cut \/ InOneHand(r)
        /\ Truly(r)
    BY DEF Sent
  <2> QED BY <1>2, <2>1, SameRow
<1> QED BY <1>1, <1>3, <1>4 DEF Sent

LEMMA ForgetSent ==
  ASSUME Sent, NEW r \in Ids, ForgetHooks(r)
  PROVE  Sent'
<1> DEFINE x == [hook[r] EXCEPT !.there = FALSE]
<1>1. /\ r \in DOMAIN hook /\ hook' = [hook EXCEPT ![r] = x]
      /\ UNCHANGED <<list, asread, hand, told, silent, cut>>
  BY DEF ForgetHooks
<1>2. hook \in Seq(HookRows) /\ hook[r] \in HookRows
  BY <1>1 DEF Sent, RowsTyped
<1>3. x \in HookRows /\ ~x.there
  BY <1>2 DEF HookRows
<1> HIDE DEF x
<1>4. /\ hook' \in Seq(HookRows) /\ DOMAIN hook' = DOMAIN hook
      /\ hook'[r] = x /\ \A s \in DOMAIN hook : s # r => hook'[s] = hook[s]
  BY <1>1, <1>3, OneRow DEF Sent
<1>5. Len(hook') = Len(hook)
  BY <1>2, <1>4
<1> QED BY <1>1, <1>3, <1>4, <1>5, GoneSent

LEMMA DisconnectSent ==
  ASSUME Sent, Disconnect
  PROVE  Sent'
<1>1. /\ hook' = [r \in DOMAIN hook |-> [hook[r] EXCEPT !.there = FALSE]]
      /\ UNCHANGED <<list, asread, hand, told, silent, cut>>
  BY DEF Disconnect
<1>2. hook \in Seq(HookRows) /\ DOMAIN hook = 1 .. Len(hook) /\ Len(hook) \in Nat
  BY DEF Sent, RowsTyped
<1>3. ASSUME NEW r \in DOMAIN hook PROVE hook'[r] \in HookRows /\ ~hook'[r].there
  <2>1. hook[r] \in HookRows
    BY <1>2, <1>3
  <2>2. hook'[r] = [hook[r] EXCEPT !.there = FALSE]
    BY <1>1, <1>3
  <2> QED BY <2>1, <2>2 DEF HookRows
<1>4. /\ hook' \in [1 .. Len(hook) -> HookRows] /\ DOMAIN hook' = DOMAIN hook
  BY <1>1, <1>2, <1>3
<1>5. hook' \in Seq(HookRows) /\ Len(hook') = Len(hook)
  BY <1>2, <1>4
<1> QED BY <1>1, <1>3, <1>4, <1>5, GoneSent

LEMMA MakeSent ==
  ASSUME Sent, NEW t, Make(t), asked[t] \in Keys
  PROVE  Sent'
<1> DEFINE x == [key |-> asked[t], there |-> TRUE, status |-> "pending", attempts |-> 0, next |-> "due"]
<1>1. /\ hook' = Append(hook, x) /\ Len(hook) < MaxHooks
      /\ UNCHANGED <<list, asread, hand, told, silent, cut>>
  BY DEF Make
<1>2. x \in HookRows /\ x.status = "pending" /\ x.next = "due"
  BY HookBounds DEF HookRows, Statuses
<1> HIDE DEF x
<1>3. hook \in Seq(HookRows) /\ MaxHooks \in Nat
  BY HookBounds DEF Sent, RowsTyped
<1>4. PICK n \in Nat : n = Len(hook) + 1
  BY <1>3
<1>5. /\ hook' \in Seq(HookRows) /\ Len(hook') <= MaxHooks
      /\ DOMAIN hook' = DOMAIN hook \cup {n} /\ n \notin DOMAIN hook
      /\ hook'[n] = x /\ \A r \in DOMAIN hook : hook'[r] = hook[r]
  BY <1>1, <1>2, <1>3, <1>4
<1>6. RowsTyped'
  <2>1. asread' \in [Hookers -> SUBSET DOMAIN hook']
    BY <1>1, <1>5 DEF Sent, RowsTyped
  <2> QED BY <1>1, <1>5, <2>1 DEF Sent, RowsTyped
<1>7. ASSUME NEW p \in Hookers PROVE Listed(p)' /\ Fresh(p)'
  <2>1. asread[p] \subseteq DOMAIN hook
    BY DEF Sent, RowsTyped
  <2>2. \A r \in asread[p] : There(r)' => There(r) /\ hook'[r] = hook[r]
    BY <1>5, <2>1 DEF There
  <2> QED BY <1>1, <1>5, <2>2, SamePass DEF Sent
<1>8. ASSUME NEW r \in Ids PROVE (r \in cut' \/ InOneHand(r)') /\ Truly(r)'
  <2>1. /\ r \in cut \/ InOneHand(r)
        /\ Truly(r)
    BY DEF Sent
  <2>2. CASE r # n
    <3>1. There(r)' => There(r) /\ hook'[r] = hook[r]
      BY <1>5, <2>2 DEF There
    <3> QED BY <1>1, <1>5, <2>1, <3>1, SameRow
  <2>3. CASE r = n
    <3>1. \A p \in Hookers : ~Holds(p, r)'
      BY <1>1, <1>5, <2>3 DEF Sent, Listed, Holds
    <3>2. told'[r] = 0
      BY <1>1, <1>5, <2>1, <2>3 DEF Truly
    <3>3. hook'[r].status # "sent" /\ r \in DOMAIN hook'
      BY <1>2, <1>5, <2>3
    <3> QED BY <3>1, <3>2, <3>3 DEF InOneHand, Truly
  <2> QED BY <2>2, <2>3
<1> QED BY <1>6, <1>7, <1>8 DEF Sent

LEMMA StillSent == Sent /\ UNCHANGED <<hook, list, asread, hand, told, silent, cut>> => Sent'
<1> SUFFICES ASSUME Sent, UNCHANGED <<hook, list, asread, hand, told, silent, cut>> PROVE Sent'
  OBVIOUS
<1>1. hook \in Seq(HookRows)
  BY DEF Sent, RowsTyped
<1> QED BY <1>1, GoneSent

LEMMA DeliveriesSent ==
  ASSUME Sent, Deliveries
  PROVE  Sent'
<1>1. ASSUME NEW p \in Hookers, HookerStep(p) PROVE Sent'
  <2>1. ASSUME PolicySkips(p) PROVE Sent'
    BY <2>1, SkipSent DEF PolicySkips
  <2>2. ASSUME PolicyWaits(p) PROVE Sent'
    <3>1. /\ hand' = [hand EXCEPT ![p] = Empty] /\ hand[p].came = "claimed"
          /\ UNCHANGED <<hook, told, silent, list, asread, cut>>
      BY <2>2 DEF PolicyWaits
    <3>2. cut \subseteq Ids
      BY DEF Sent, RowsTyped
    <3> QED BY <3>1, <3>2, LetsGoSent
  <2> QED BY <1>1, <2>1, <2>2, ReadSent, ClaimSent, RecordSent, KillSent, PostSent DEF HookerStep
<1>2. ASSUME NEW r \in Ids, ComesDue(r) \/ OutlivesLease(r) \/ ForgetHooks(r) PROVE Sent'
  BY <1>2, DueSent, ForgetSent
<1>3. ASSUME SwitchConnection PROVE Sent'
  BY <1>3, StillSent DEF SwitchConnection
<1> QED BY <1>1, <1>2, <1>3, DisconnectSent DEF Deliveries

LEMMA NextSent == Heard /\ Sent /\ [Next]_vars => Sent'
<1> SUFFICES ASSUME Heard, Sent, [Next]_vars PROVE Sent'
  OBVIOUS
<1>1. CASE UNCHANGED hookVars
  BY <1>1, StillSent DEF hookVars
<1>2. ASSUME NEW p \in Workers,
             \/ NobodyHears(p) \/ SaidAlready(p) \/ AskRow(p) \/ RaiseInNotify(p) \/ RaiseOutOfNotify(p)
             \/ CrashTelling(p)
      PROVE  UNCHANGED <<hook, list, asread, hand, told, silent, cut>>
  BY <1>2 DEF NobodyHears, SaidAlready, AskRow, Ask, RaiseInNotify, RaiseOutOfNotify, MakeRaises,
              CrashTelling, Unask,
              hookVars
<1>3. ASSUME NEW p \in Workers, MakeRow(p) PROVE Sent'
  <2>1. Make(p) /\ asked[p] \in Keys
    BY <1>3 DEF MakeRow, Make, Heard, Asking
  <2> QED BY <2>1, MakeSent
<1>4. CASE DeleteAccount
  BY <1>1, <1>4, DisconnectSent DEF DeleteAccount
<1>5. CASE TellStep
  BY <1>1, <1>2, <1>3, <1>4, <1>5, StillSent DEF TellStep, Tell
<1>6. CASE Deliveries
  BY <1>6, DeliveriesSent
<1> QED BY <1>1, <1>5, <1>6 DEF Next, vars

LEMMA AlwaysSent == Spec => [](Heard /\ Sent)
BY InitHeard, InitSent, NextHeard, NextSent, PTL DEF Spec
-----------------------------------------------------------------------------
(* A row that says sent was said to be taken, and one that was says so, unless it
   is still in a pass's hand or its sender was cut off. *)
THEOREM RowsSayWhatBecame == Spec => []SaysWhatBecame
<1>1. Sent => SaysWhatBecame
  <2> SUFFICES ASSUME Sent, NEW r \in DOMAIN hook, There(r)
               PROVE  /\ hook[r].status = "sent" => told[r] > 0
                      /\ told[r] > 0 /\ r \notin cut =>
                           \/ hook[r].status = "sent"
                           \/ \E p \in Hookers : hand[p].id = r /\ hand[p].came = "taken"
    BY DEF SaysWhatBecame
  <2>1. r \in Ids
    BY RowsAreIds DEF Sent
  <2> QED BY <2>1 DEF Sent, InOneHand, Truly, Holds
<1> QED BY <1>1, AlwaysSent, PTL

(* A row that a pass claims is due, open, and has the attempts the pass read. *)
THEOREM HooksClaimedAsRead == Spec => HookClaimedAsRead
<1> DEFINE Claimed == \A p \in Hookers :
       hand'[p].came = "claimed" /\ hand[p] # hand'[p] =>
         LET r == hand'[p].id IN Pending(r) /\ hook[r].attempts = hand'[p].attempts
<1>1. Heard /\ Sent /\ [Next]_vars => [Claimed]_hookVars
  <2> SUFFICES ASSUME Heard, Sent, [Next]_vars, NEW p \in Hookers,
                      hand'[p].came = "claimed", hand[p] # hand'[p]
               PROVE  Pending(hand'[p].id) /\ hook[hand'[p].id].attempts = hand'[p].attempts
    OBVIOUS
  <2>1. hand \in [Hookers -> Hands \cup {Empty}] /\ list \in [Hookers -> Seq(Entries)]
    BY DEF Sent, RowsTyped
  <2>2. ~UNCHANGED hand
    BY <2>1
  <2>3. ASSUME NEW q \in Hookers, ClaimHook(q)
        PROVE  Pending(hand'[p].id) /\ hook[hand'[p].id].attempts = hand'[p].attempts
    <3> DEFINE f == Head(list[q])
               h == [id |-> f.id, attempts |-> f.attempts, came |-> "claimed"]
    <3>1. /\ list[q] # <<>> /\ There(f.id) /\ f.id \in asread[q] /\ hand' = [hand EXCEPT ![q] = h]
      BY <2>2, <2>3 DEF ClaimHook
    <3>2. p = q /\ hand'[p] = h
      BY <2>1, <3>1
    <3>3. 1 \in DOMAIN list[q] /\ f = list[q][1]
      BY <2>1, <3>1
    <3>4. /\ hook[f.id].next = "due" /\ hook[f.id].status \in Open
          /\ f.attempts = hook[f.id].attempts /\ f.attempts < MaxAttempts
      BY <3>1, <3>3 DEF Sent, Fresh, Listed
    <3> QED BY <3>1, <3>2, <3>4 DEF Pending, Open
  <2>4. ASSUME NEW q \in Hookers, HookerStep(q), ~ClaimHook(q) PROVE FALSE
    <3>1. CASE \E came \in {"taken", "later", "never"} : Post(q, came)
      <4>1. PICK came \in {"taken", "later", "never"} : hand' = [hand EXCEPT ![q].came = came]
                                                       /\ hand[q] # Empty
        BY <3>1 DEF Post, Holding
      <4>2. hand[q] \in Hands
        BY <2>1, <4>1
      <4>3. hand'[q].came = came /\ (p # q => hand'[p] = hand[p])
        BY <2>1, <4>1, <4>2 DEF Hands
      <4> QED BY <4>3
    <3>2. CASE hand' = [hand EXCEPT ![q] = Empty]
      <4>1. hand'[p] = hand[p] \/ hand'[p] = Empty
        BY <2>1, <3>2
      <4> QED BY <4>1 DEF Empty
    <3>3. CASE UNCHANGED hand
      BY <2>2, <3>3
    <3> QED BY <2>4, <3>1, <3>2, <3>3
            DEF HookerStep, ReadHooks, PolicySkips, PolicyWaits, RecordHook, KillHooker
  <2>5. CASE Deliveries
    <3>1. ASSUME ~\E q \in Hookers : HookerStep(q) PROVE UNCHANGED hand
      BY <2>5, <3>1 DEF Deliveries, ComesDue, OutlivesLease, ForgetHooks, SwitchConnection, Disconnect
    <3> QED BY <2>2, <2>3, <2>4, <3>1
  <2>6. CASE UNCHANGED hookVars
    BY <2>2, <2>6 DEF hookVars
  <2>7. CASE TellStep
    BY <2>2, <2>7 DEF TellStep, Tell, NobodyHears, SaidAlready, AskRow, Ask, MakeRow, Make,
              RaiseInNotify, RaiseOutOfNotify,
              MakeRaises, CrashTelling, Unask, DeleteAccount, Disconnect, hookVars
  <2> QED BY <2>5, <2>6, <2>7 DEF Next, vars
<1> QED BY <1>1, AlwaysSent, PTL DEF Spec, HookClaimedAsRead
-----------------------------------------------------------------------------
(* The line, by which a pass finds what to do: every row whose retry time has
   come stands in it once, and nothing else does. *)
StandsIn(s, r) == \E i \in DOMAIN s : s[i] = r
NoneTwice(s) == \A i, j \in DOMAIN s : s[i] = s[j] => i = j

(* A row that is to be tried has a retry time and an attempt left; one whose
   story is over has no retry time. *)
ToBeTried(r) ==
  There(r) => /\ hook[r].status \in Open <=> hook[r].next # "none"
              /\ hook[r].status \in Open => hook[r].attempts < MaxAttempts

Lined ==
  /\ line \in Seq(DOMAIN hook) /\ NoneTwice(line)
  /\ \A r \in DOMAIN hook : StandsIn(line, r) <=> There(r) /\ hook[r].next = "due"
  /\ \A r \in DOMAIN hook : ToBeTried(r)

LEMMA WithoutOne ==
  ASSUME NEW S, NEW s \in Seq(S), NoneTwice(s), NEW r
  PROVE  /\ Without(s, r) \in Seq(S) /\ NoneTwice(Without(s, r))
         /\ \A x : StandsIn(Without(s, r), x) <=> StandsIn(s, x) /\ x # r
<1>1. CASE ~\E i \in DOMAIN s : s[i] = r
  BY <1>1 DEF Without, StandsIn
<1>2. CASE \E i \in DOMAIN s : s[i] = r
  <2> DEFINE k == CHOOSE i \in DOMAIN s : s[i] = r
             a == SubSeq(s, 1, k - 1)
             b == SubSeq(s, k + 1, Len(s))
  <2>1. k \in DOMAIN s /\ s[k] = r
    BY <1>2
  <2>2. Without(s, r) = a \o b
    BY <1>2 DEF Without, RemoveAt
  <2> HIDE DEF k
  <2>3. Len(s) \in Nat /\ DOMAIN s = 1 .. Len(s) /\ k \in 1 .. Len(s)
    BY <2>1
  <2>4. /\ a \in Seq(S) /\ Len(a) = k - 1 /\ \A i \in 1 .. k - 1 : a[i] = s[i]
    <3>1. \A i \in 1 .. k - 1 : s[i] \in S
      BY <2>3
    <3> QED BY <2>3, <3>1, SubSeqProperties
  <2>5. /\ b \in Seq(S) /\ Len(b) = Len(s) - k /\ \A i \in 1 .. Len(s) - k : b[i] = s[k + i]
    <3>1. \A i \in k + 1 .. Len(s) : s[i] \in S
      BY <2>3
    <3>2. /\ b \in Seq(S)
          /\ Len(b) = IF k + 1 <= Len(s) THEN Len(s) - (k + 1) + 1 ELSE 0
          /\ \A i \in 1 .. Len(s) - (k + 1) + 1 : b[i] = s[k + 1 + i - 1]
      BY <2>3, <3>1, SubSeqProperties
    <3>3. ASSUME NEW i \in 1 .. Len(s) - k PROVE b[i] = s[k + i]
      <4>1. i \in 1 .. Len(s) - (k + 1) + 1 /\ k + 1 + i - 1 = k + i
        BY <2>3
      <4> QED BY <3>2, <4>1
    <3>4. Len(b) = Len(s) - k
      <4>1. \A n \in Nat : \A m \in 1 .. n : (IF m + 1 <= n THEN n - (m + 1) + 1 ELSE 0) = n - m
        OBVIOUS
      <4> HIDE DEF b
      <4> QED BY <2>3, <3>2, <4>1
    <3> QED BY <3>2, <3>3, <3>4
  <2> HIDE DEF a, b
  <2>6. /\ a \o b \in Seq(S) /\ Len(a \o b) = Len(s) - 1
        /\ \A i \in 1 .. Len(s) - 1 : (a \o b)[i] = IF i < k THEN s[i] ELSE s[i + 1]
    <3>1. /\ a \o b \in Seq(S) /\ Len(a \o b) = Len(a) + Len(b)
          /\ \A i \in 1 .. Len(a) + Len(b) : (a \o b)[i] = IF i <= Len(a) THEN a[i] ELSE b[i - Len(a)]
      BY <2>4, <2>5, ConcatProperties
    <3>2. Len(a) + Len(b) = Len(s) - 1
      BY <2>3, <2>4, <2>5
    <3>3. ASSUME NEW i \in 1 .. Len(s) - 1 PROVE (a \o b)[i] = IF i < k THEN s[i] ELSE s[i + 1]
      <4>1. CASE i < k
        BY <2>3, <2>4, <3>1, <3>2, <4>1
      <4>2. CASE ~(i < k)
        <5>1. i - (k - 1) \in 1 .. Len(s) - k /\ k + (i - (k - 1)) = i + 1
          BY <2>3, <4>2
        <5>2. b[i - (k - 1)] = s[i + 1]
          BY <2>5, <5>1
        <5> QED BY <2>3, <2>4, <3>1, <3>2, <4>2, <5>2
      <4> QED BY <4>1, <4>2
    <3> QED BY <3>1, <3>2, <3>3
  <2> DEFINE t == a \o b
  <2>7. DOMAIN t = 1 .. Len(s) - 1 /\ \A i \in DOMAIN t : t[i] = IF i < k THEN s[i] ELSE s[i + 1]
    <3>1. DOMAIN (a \o b) = 1 .. Len(a \o b)
      BY <2>6, LenProperties
    <3> QED BY <2>3, <2>6, <3>1
  <2> HIDE DEF t
  <2>8. NoneTwice(t)
    BY <2>3, <2>7 DEF NoneTwice
  <2>9. ASSUME NEW x PROVE StandsIn(t, x) <=> StandsIn(s, x) /\ x # r
    <3>1. ASSUME NEW i \in DOMAIN t, t[i] = x PROVE StandsIn(s, x) /\ x # r
      BY <2>1, <2>3, <2>7, <3>1 DEF StandsIn, NoneTwice
    <3>2. ASSUME NEW i \in DOMAIN s, s[i] = x, x # r PROVE StandsIn(t, x)
      <4>1. CASE i < k
        BY <2>3, <2>7, <3>2, <4>1 DEF StandsIn
      <4>2. CASE i > k
        <5>1. i - 1 \in DOMAIN t /\ t[i - 1] = x
          BY <2>3, <2>7, <3>2, <4>2
        <5> QED BY <5>1 DEF StandsIn
      <4> QED BY <2>1, <2>3, <3>2, <4>1, <4>2
    <3> QED BY <3>1, <3>2 DEF StandsIn
  <2> QED BY <2>2, <2>6, <2>8, <2>9 DEF t
<1> QED BY <1>1, <1>2

LEMMA LongerLine ==
  ASSUME NEW S, NEW s \in Seq(S), NoneTwice(s), NEW r \in S, ~StandsIn(s, r)
  PROVE  /\ Append(s, r) \in Seq(S) /\ NoneTwice(Append(s, r))
         /\ \A x : StandsIn(Append(s, r), x) <=> StandsIn(s, x) \/ x = r
<1>1. /\ Append(s, r) \in Seq(S) /\ Len(s) \in Nat /\ DOMAIN s = 1 .. Len(s)
      /\ DOMAIN Append(s, r) = 1 .. Len(s) + 1
      /\ \A i \in DOMAIN s : Append(s, r)[i] = s[i]
      /\ Append(s, r)[Len(s) + 1] = r
  OBVIOUS
<1>2. NoneTwice(Append(s, r))
  BY <1>1 DEF NoneTwice, StandsIn
<1>3. \A x : StandsIn(Append(s, r), x) <=> StandsIn(s, x) \/ x = r
  BY <1>1 DEF StandsIn
<1> QED BY <1>1, <1>2, <1>3

LEMMA InitLined == Init => Lined
BY DEF Init, HooksInit, Lined, NoneTwice, StandsIn

(* A row is written and leaves the line, joins it, or was not in it and is not. *)
LEMMA RowLined ==
  ASSUME Sent, Lined, NEW r \in DOMAIN hook, NEW x \in HookRows, hook' = [hook EXCEPT ![r] = x],
         \/ line' = Without(line, r) /\ x.next # "due"
         \/ line' = Append(line, r) /\ x.there /\ x.next = "due" /\ hook[r].next # "due"
         \/ line' = line /\ ~x.there /\ hook[r].next # "due",
         x.there => /\ x.status \in Open <=> x.next # "none"
                    /\ x.status \in Open => x.attempts < MaxAttempts
  PROVE  Lined'
<1>1. /\ DOMAIN hook' = DOMAIN hook /\ hook'[r] = x
      /\ \A s \in DOMAIN hook : s # r => hook'[s] = hook[s]
  BY OneRow DEF Sent
<1>2. \A s \in DOMAIN hook : s # r => (There(s)' <=> There(s))
  BY <1>1 DEF There
<1>3. There(r)' <=> x.there
  BY <1>1 DEF There
<1>4. \A s \in DOMAIN hook : ToBeTried(s)'
  BY <1>1, <1>2, <1>3 DEF Lined, ToBeTried
<1>5. /\ line' \in Seq(DOMAIN hook) /\ NoneTwice(line')
      /\ \A s : s # r => (StandsIn(line', s) <=> StandsIn(line, s))
      /\ StandsIn(line', r) <=> x.there /\ x.next = "due"
  <2>1. CASE line' = Without(line, r) /\ x.next # "due"
    BY <2>1, WithoutOne DEF Lined
  <2>2. CASE line' = Append(line, r) /\ x.there /\ x.next = "due" /\ hook[r].next # "due"
    BY <2>2, LongerLine DEF Lined
  <2>3. CASE line' = line /\ ~x.there /\ hook[r].next # "due"
    BY <2>3 DEF Lined
  <2> QED BY <2>1, <2>2, <2>3
<1>6. \A s \in DOMAIN hook' : StandsIn(line', s) <=> There(s)' /\ hook'[s].next = "due"
  BY <1>1, <1>2, <1>3, <1>5 DEF Lined
<1>7. line' \in Seq(DOMAIN hook')
  BY <1>1, <1>5
<1> QED BY <1>1, <1>4, <1>5, <1>6, <1>7 DEF Lined

LEMMA ClaimLined ==
  ASSUME Sent, Lined, NEW p \in Hookers, ClaimHook(p)
  PROVE  Lined'
<1>1. PICK r : r = Head(list[p]).id
  OBVIOUS
<1>2. CASE ~(There(r) /\ r \in asread[p])
  BY <1>1, <1>2 DEF ClaimHook, Lined, ToBeTried, There
<1>3. CASE There(r) /\ r \in asread[p]
  <2> DEFINE x == [hook[r] EXCEPT !.next = "lease"]
  <2>1. hook' = [hook EXCEPT ![r] = x] /\ line' = Without(line, r)
    BY <1>1, <1>3 DEF ClaimHook
  <2>2. r \in DOMAIN hook /\ hook[r] \in HookRows /\ hook[r].status \in Open
    BY <1>3 DEF Sent, RowsTyped, Fresh, There
  <2>3. hook[r].attempts < MaxAttempts
    BY <1>3, <2>2 DEF Lined, ToBeTried
  <2>4. x \in HookRows /\ x.next = "lease" /\ x.status = hook[r].status /\ x.attempts = hook[r].attempts
    BY <2>2 DEF HookRows
  <2> HIDE DEF x
  <2> QED BY <2>1, <2>2, <2>3, <2>4, RowLined
<1> QED BY <1>2, <1>3

LEMMA RecordLined ==
  ASSUME Sent, Lined, NEW p \in Hookers, RecordHook(p)
  PROVE  Lined'
<1>1. PICK h, r : h = hand[p] /\ r = h.id
  OBVIOUS
<1>2. CASE ~There(r)
  BY <1>1, <1>2 DEF RecordHook, Lined, ToBeTried, There
<1>3. CASE There(r)
  <2> DEFINE x == [hook[r] EXCEPT !.status = Outcome(h), !.attempts = h.attempts + 1,
                     !.next = IF Outcome(h) = "failed" THEN "later" ELSE "none"]
  <2>1. hook' = [hook EXCEPT ![r] = x] /\ line' = Without(line, r)
    BY <1>1, <1>3 DEF RecordHook
  <2>2. r \in DOMAIN hook /\ hook[r] \in HookRows
    BY <1>3 DEF Sent, RowsTyped, There
  <2>3. h \in Hands /\ h.attempts < MaxAttempts
    BY <1>1 DEF RecordHook, Holding, Sent, RowsTyped, Listed
  <2>4. Outcome(h) \in {"sent", "given_up", "failed"} /\ h.attempts + 1 \in 0 .. MaxAttempts
        /\ (Outcome(h) = "failed" => h.attempts + 1 < MaxAttempts)
    BY <2>3, HookBounds DEF Outcome, Hands
  <2>5. /\ x \in HookRows /\ x.status = Outcome(h) /\ x.attempts = h.attempts + 1
        /\ x.next = IF Outcome(h) = "failed" THEN "later" ELSE "none"
    BY <2>2, <2>4 DEF HookRows, Statuses
  <2> HIDE DEF x
  <2>6. x.status \in Open <=> Outcome(h) = "failed"
    BY <2>4, <2>5 DEF Open
  <2> QED BY <2>1, <2>2, <2>4, <2>5, <2>6, RowLined
<1> QED BY <1>2, <1>3

LEMMA DueLined ==
  ASSUME Sent, Lined, NEW r \in Ids, ComesDue(r) \/ OutlivesLease(r)
  PROVE  Lined'
<1> DEFINE x == [hook[r] EXCEPT !.next = "due"]
<1>1. /\ There(r) /\ hook[r].next \in {"later", "lease"} /\ hook' = [hook EXCEPT ![r] = x]
      /\ line' = Append(line, r)
  BY DEF ComesDue, OutlivesLease
<1>2. r \in DOMAIN hook /\ hook[r] \in HookRows /\ hook[r].there
  BY <1>1 DEF Sent, RowsTyped, There
<1>3. hook[r].status \in Open /\ hook[r].attempts < MaxAttempts
  BY <1>1, <1>2 DEF Lined, ToBeTried
<1>4. /\ x \in HookRows /\ x.there /\ x.next = "due" /\ x.status = hook[r].status
      /\ x.attempts = hook[r].attempts
  BY <1>2 DEF HookRows
<1> HIDE DEF x
<1> QED BY <1>1, <1>2, <1>3, <1>4, RowLined

LEMMA ForgetLined ==
  ASSUME Sent, Lined, NEW r \in Ids, ForgetHooks(r)
  PROVE  Lined'
<1> DEFINE x == [hook[r] EXCEPT !.there = FALSE]
<1>1. /\ r \in DOMAIN hook /\ There(r) /\ hook[r].status \in {"sent", "given_up"}
      /\ hook' = [hook EXCEPT ![r] = x] /\ line' = line
  BY DEF ForgetHooks
<1>2. hook[r] \in HookRows
  BY <1>1 DEF Sent, RowsTyped
<1>3. hook[r].next = "none"
  BY <1>1, <1>2 DEF Lined, ToBeTried, Open
<1>4. x \in HookRows /\ ~x.there
  BY <1>2 DEF HookRows
<1> HIDE DEF x
<1> QED BY <1>1, <1>3, <1>4, RowLined

LEMMA DisconnectLined ==
  ASSUME Sent, Lined, Disconnect
  PROVE  Lined'
<1>1. DOMAIN hook' = DOMAIN hook /\ \A r \in DOMAIN hook : hook'[r] = [hook[r] EXCEPT !.there = FALSE]
  BY DEF Disconnect
<1>2. \A r \in DOMAIN hook : ~There(r)'
  <2>1. \A r \in DOMAIN hook : hook[r] \in HookRows
    BY DEF Sent, RowsTyped
  <2> QED BY <1>1, <2>1 DEF There, HookRows
<1>3. line' = <<>>
  BY DEF Disconnect
<1> QED BY <1>1, <1>2, <1>3 DEF Lined, NoneTwice, StandsIn, ToBeTried

LEMMA MakeLined ==
  ASSUME Sent, Lined, NEW t, Make(t)
  PROVE  Lined'
<1> DEFINE x == [key |-> asked[t], there |-> TRUE, status |-> "pending", attempts |-> 0, next |-> "due"]
<1>1. hook' = Append(hook, x) /\ line' = Append(line, Len(hook'))
  BY DEF Make
<1>2. x.there /\ x.status \in Open /\ x.next = "due" /\ x.attempts < MaxAttempts
  BY HookBounds DEF Open
<1> HIDE DEF x
<1>3. hook \in Seq(HookRows)
  BY DEF Sent, RowsTyped
<1>4. PICK n \in Nat : n = Len(hook) + 1
  BY <1>3
<1>5. /\ DOMAIN hook' = DOMAIN hook \cup {n} /\ n \notin DOMAIN hook /\ Len(hook') = n
      /\ hook'[n] = x /\ \A r \in DOMAIN hook : hook'[r] = hook[r]
  BY <1>1, <1>3, <1>4
<1>6. line \in Seq(DOMAIN hook') /\ ~StandsIn(line, n)
  BY <1>5, SeqMonotonic DEF Lined, StandsIn
<1>7. /\ line' \in Seq(DOMAIN hook') /\ NoneTwice(line')
      /\ \A s : StandsIn(line', s) <=> StandsIn(line, s) \/ s = n
  BY <1>1, <1>5, <1>6, LongerLine DEF Lined
<1>8. \A r \in DOMAIN hook : (There(r)' <=> There(r))
  BY <1>5 DEF There
<1>9. There(n)'
  BY <1>2, <1>5 DEF There
<1>10. \A r \in DOMAIN hook' : ToBeTried(r)'
  BY <1>2, <1>5, <1>8 DEF Lined, ToBeTried
<1>11. \A r \in DOMAIN hook' : StandsIn(line', r) <=> There(r)' /\ hook'[r].next = "due"
  BY <1>2, <1>5, <1>7, <1>8, <1>9 DEF Lined
<1> QED BY <1>7, <1>10, <1>11 DEF Lined

LEMMA StillLined == Lined /\ UNCHANGED <<hook, line>> => Lined'
BY DEF Lined, ToBeTried, There

LEMMA NextLined == Sent /\ Lined /\ [Next]_vars => Lined'
<1> SUFFICES ASSUME Sent, Lined, [Next]_vars PROVE Lined'
  OBVIOUS
<1>1. CASE UNCHANGED hookVars
  BY <1>1, StillLined DEF hookVars
<1>2. ASSUME NEW p \in Workers,
             \/ NobodyHears(p) \/ SaidAlready(p) \/ AskRow(p) \/ RaiseInNotify(p) \/ RaiseOutOfNotify(p)
             \/ CrashTelling(p)
      PROVE  UNCHANGED <<hook, line>>
  BY <1>2 DEF NobodyHears, SaidAlready, AskRow, Ask, RaiseInNotify, RaiseOutOfNotify, MakeRaises,
              CrashTelling, Unask,
              hookVars
<1>3. CASE DeleteAccount
  BY <1>1, <1>3, DisconnectLined DEF DeleteAccount
<1>4. CASE TellStep
  BY <1>1, <1>2, <1>3, <1>4, StillLined, MakeLined DEF TellStep, Tell, MakeRow
<1>5. ASSUME NEW p \in Hookers, HookerStep(p) PROVE Lined'
  <2>1. ASSUME ~ClaimHook(p), ~RecordHook(p) PROVE UNCHANGED <<hook, line>>
    BY <1>5, <2>1 DEF HookerStep, ReadHooks, PolicySkips, PolicyWaits, KillHooker, Post
  <2> QED BY <2>1, StillLined, ClaimLined, RecordLined
<1>6. ASSUME SwitchConnection PROVE Lined'
  BY <1>6, StillLined DEF SwitchConnection
<1>7. CASE Deliveries
  BY <1>5, <1>6, <1>7, DueLined, ForgetLined, DisconnectLined DEF Deliveries
<1> QED BY <1>1, <1>4, <1>7 DEF Next, vars

LEMMA AlwaysLined == Spec => [](Sent /\ Lined)
BY AlwaysSent, InitLined, NextLined, PTL DEF Spec

(* A delivery that is owed has an attempt left and a retry time, and the next
   read that comes to its place in line finds it: no claim that was cut short, no
   row written by two passes and no accident leaves one that nobody would try. *)
FoundOrAwaited(r) ==
  Owed(r) => /\ hook[r].attempts < MaxAttempts
             /\ \/ hook[r].next \in {"later", "lease"}
                \/ \E d \in DueNow : line[d] = r

THEOREM OwedRowsComeUp == Spec => [](\A r \in Ids : FoundOrAwaited(r))
<1>1. Sent /\ Lined => \A r \in Ids : FoundOrAwaited(r)
  <2> SUFFICES ASSUME Sent, Lined, NEW r \in Ids, Owed(r)
               PROVE  /\ hook[r].attempts < MaxAttempts
                      /\ \/ hook[r].next \in {"later", "lease"}
                         \/ \E d \in DueNow : line[d] = r
    BY DEF FoundOrAwaited
  <2>1. r \in DOMAIN hook /\ There(r) /\ hook[r].status \in Open
    BY DEF Owed, Open
  <2>2. hook[r].attempts < MaxAttempts /\ hook[r].next # "none"
    BY <2>1 DEF Lined, ToBeTried
  <2>3. hook[r].next \in {"due", "later", "lease", "none"}
    <3>1. hook[r] \in HookRows
      BY <2>1 DEF Sent, RowsTyped
    <3> QED BY <3>1 DEF HookRows
  <2>4. ASSUME hook[r].next = "due" PROVE \E d \in DueNow : line[d] = r
    <3>1. PICK d \in DOMAIN line : line[d] = r
      BY <2>1, <2>4 DEF Lined, StandsIn
    <3> QED BY <2>1, <2>2, <2>4, <3>1 DEF DueNow, Pending, Open
  <2> QED BY <2>2, <2>3, <2>4
<1> QED BY <1>1, AlwaysLined, PTL

(* The rest of what the variables hold. *)
Switches ==
  /\ conn \in {"on", "off", "gone"} /\ cuts \in 0 .. MaxCuts
  /\ owner \in BOOLEAN /\ unheard \subseteq Errands /\ dropped \subseteq Errands
  /\ silent \in [Ids -> Nat]

LEMMA NextSwitches == Heard /\ Switches /\ [Next]_vars => Switches'
<1> SUFFICES ASSUME Heard, Switches, [Next]_vars PROVE Switches'
  OBVIOUS
<1>1. MaxCuts \in Nat /\ cuts \in 0 .. MaxCuts
  BY HookBounds DEF Switches
<1>2. job \in [Workers -> Jobs]
  BY DEF Heard, Orderly, ErrandsTypeOK
<1>3. ASSUME NEW p \in Workers, NobodyHears(p) \/ RaiseInNotify(p) PROVE Switches'
  <2>1. job[p].of \in Errands
    BY <1>2, <1>3 DEF NobodyHears, RaiseInNotify, At, Jobs
  <2> QED BY <1>3, <2>1 DEF NobodyHears, RaiseInNotify, Unask, hookVars, Switches
<1>4. ASSUME NEW p \in Workers,
             SaidAlready(p) \/ AskRow(p) \/ MakeRow(p) \/ RaiseOutOfNotify(p) \/ CrashTelling(p)
      PROVE  Switches'
  BY <1>4 DEF SaidAlready, AskRow, Ask, MakeRow, Make, RaiseOutOfNotify, MakeRaises, CrashTelling,
              Unask, hookVars, notes, Switches
<1>5. ASSUME Disconnect, owner' \in BOOLEAN, UNCHANGED <<unheard, dropped>> PROVE Switches'
  BY <1>5 DEF Disconnect, Switches
<1>6. CASE DeleteAccount
  BY <1>5, <1>6 DEF DeleteAccount, hookVars, Switches
<1>7. CASE \E p \in Workers, e \in Errands : Tell(p, e)
  BY <1>7 DEF Tell, hookVars, notes, Switches
<1>8. CASE Deliveries /\ UNCHANGED notes
  <2>0. UNCHANGED <<owner, unheard, dropped>>
    BY <1>8 DEF notes
  <2>1. ASSUME NEW p \in Hookers, KillHooker(p) PROVE Switches'
    BY <1>1, <2>0, <2>1 DEF KillHooker, Switches
  <2>2. ASSUME NEW r \in Ids, OutlivesLease(r) PROVE Switches'
    BY <1>1, <2>0, <2>2 DEF OutlivesLease, Switches
  <2>3. ASSUME NEW p \in Hookers, HookerStep(p), ~KillHooker(p)
        PROVE  UNCHANGED <<conn, cuts>> /\ silent' \in [Ids -> Nat]
    <3>1. silent \in [Ids -> Nat]
      BY DEF Switches
    <3>2. CASE \E came \in {"taken", "later", "never"} : Post(p, came)
      BY <3>1, <3>2 DEF Post
    <3>3. CASE ReadHooks(p) \/ PolicySkips(p) \/ ClaimHook(p) \/ PolicyWaits(p) \/ RecordHook(p)
      BY <3>1, <3>3 DEF ReadHooks, PolicySkips, PolicyWaits, ClaimHook, RecordHook
    <3> QED BY <2>3, <3>2, <3>3 DEF HookerStep
  <2>4. ASSUME NEW r \in Ids, ComesDue(r) \/ ForgetHooks(r) PROVE UNCHANGED <<conn, cuts, silent>>
    BY <2>4 DEF ComesDue, ForgetHooks
  <2>5. ASSUME SwitchConnection PROVE Switches'
    BY <2>0, <2>5 DEF SwitchConnection, Switches
  <2>6. ASSUME UNCHANGED <<conn, cuts>>, silent' \in [Ids -> Nat] PROVE Switches'
    BY <2>0, <2>6 DEF Switches
  <2>7. ASSUME UNCHANGED <<conn, cuts, silent>> PROVE Switches'
    BY <2>0, <2>7 DEF Switches
  <2> QED BY <1>5, <1>8, <2>0, <2>1, <2>2, <2>3, <2>4, <2>5, <2>6, <2>7 DEF Deliveries, Switches
<1>9. CASE UNCHANGED <<conn, cuts, silent, owner, unheard, dropped>>
  BY <1>9 DEF Switches
<1> QED BY <1>3, <1>4, <1>6, <1>7, <1>8, <1>9 DEF Next, TellStep, vars, hookVars, notes

(* Every variable of Notices holds what it says it holds: with the errands and
   the rows of the webhook, the line, which names rows that were made. *)
THEOREM NoticesTyped == Spec => []TypeOK
<1>1. Init => Switches
  BY HookBounds DEF Init, HooksInit, Switches
<1>2. Heard /\ Sent /\ Lined /\ Switches => TypeOK
  <2> SUFFICES ASSUME Heard, Sent, Lined, Switches PROVE TypeOK
    OBVIOUS
  <2>1. asked \in [Tellers -> Keys \cup {NoKey}]
    BY TellersAssumption DEF Heard, Asking
  <2>2. asread \in [Hookers -> SUBSET Ids]
    BY RowsAreIds DEF Sent, RowsTyped
  <2>3. HooksTypeOK
    BY <2>1, <2>2 DEF HooksTypeOK, Sent, RowsTyped, Lined, Switches
  <2> QED BY <2>3 DEF TypeOK, Heard, Orderly, Switches
<1> QED BY <1>1, <1>2, AlwaysSent, AlwaysLined, NextSwitches, PTL DEF Spec

(* A receiver takes a delivery once, however many passes overlap, and once more
   for each time its sender was not told; unless the sender was cut off or outlasted
   its lease. *)
THEOREM DeliveriesTakenOnce == Spec => []TakenOnce
<1>1. Sent /\ silent \in [Ids -> Nat] => TakenOnce
  <2> SUFFICES ASSUME Sent, silent \in [Ids -> Nat], NEW r \in Ids, Taken(r) > 1 + silent[r]
               PROVE  r \in cut
    BY DEF TakenOnce
  <2>1. told[r] \in Nat /\ silent[r] \in Nat
    BY DEF Sent, RowsTyped
  <2>2. told[r] > 1
    BY <2>1 DEF Taken
  <2> QED BY <2>1, <2>2 DEF Sent, InOneHand
<1>2. TypeOK => silent \in [Ids -> Nat]
  BY DEF TypeOK, HooksTypeOK
<1> QED BY <1>1, <1>2, AlwaysSent, NoticesTyped, PTL
=============================================================================
