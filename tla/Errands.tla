------------------------------ MODULE Errands ------------------------------
(***************************************************************************)
(* Slow work sent off to be done (core/errands.py, core/tasks.py): a row   *)
(* that says how it went, a queue that holds its number, and the processes *)
(* that perform it: workers that take it from the queue, and the request   *)
(* itself where no worker is expected or the queue refuses the work.       *)
(*                                                                         *)
(* A performer looks at the row once, and afterwards writes to it without  *)
(* looking: the start and the end of the work are single updates by        *)
(* number.  A sweep of the scheduler fails what is a day old and not       *)
(* finished, and another forgets what is a week old.                       *)
(***************************************************************************)
EXTENDS Naturals

CONSTANTS Errands,         \* errands there may come to be
          Workers,         \* workers and requests, which perform them
          WorkerExpected,  \* the setting: a worker is said to be running
          NoErrand,        \* not an errand
          MaxCrashes       \* bound: performers killed, and refusals of the queue

ASSUME ErrandAssumption == NoErrand \notin Errands
ASSUME WorkerAssumption == WorkerExpected \in BOOLEAN /\ MaxCrashes \in Nat

VARIABLES errand,    \* the rows
          tasks,     \* the errands whose numbers are in the queue
          job,       \* what each performer is at
          ran,       \* history: how often the work of each was begun
          together,  \* history: those two performers had in hand at once
          kept,      \* history: those the queue refused and kept even so
          crashes    \* performers killed and refusals of the queue, so far

errandVars == <<errand, tasks, job, ran, together, kept, crashes>>

Ages == {"new", "day", "week"}
States == {"waiting", "working", "done", "failed"}
ErrandRows == [made : BOOLEAN, there : BOOLEAN, state : States, age : Ages]
Jobs == [of : Errands,
         step : {"sending", "asked", "read", "running", "worked", "raised"}]
        \cup [of : {NoErrand}, step : {"idle"}]

ErrandsTypeOK ==
  /\ errand \in [Errands -> ErrandRows]
  /\ tasks \subseteq Errands
  /\ job \in [Workers -> Jobs]
  /\ ran \in [Errands -> Nat]
  /\ together \subseteq Errands /\ kept \subseteq Errands
  /\ crashes \in 0 .. MaxCrashes

Idle == [of |-> NoErrand, step |-> "idle"]

ErrandsInit ==
  /\ errand = [e \in Errands |->
                 [made |-> FALSE, there |-> FALSE, state |-> "waiting", age |-> "new"]]
  /\ tasks = {}
  /\ job = [p \in Workers |-> Idle]
  /\ ran = [e \in Errands |-> 0]
  /\ together = {} /\ kept = {} /\ crashes = 0

At(p, step) == job[p].step = step
Goes(p, step) == job' = [job EXCEPT ![p].step = step]
Ends(p) == job' = [job EXCEPT ![p] = Idle]
IsFinished(e) == errand[e].state \in {"done", "failed"}
InHand(p, e) == job[p].of = e /\ job[p].step \in {"read", "running", "worked", "raised"}

(* An update by number: nothing happens to a row that has gone. *)
Write(e, state) ==
  errand' = IF errand[e].there THEN [errand EXCEPT ![e].state = state] ELSE errand

-----------------------------------------------------------------------------
(* send: the row is made, ... *)
Send(p, e) ==
  /\ At(p, "idle") /\ ~errand[e].made
  /\ errand' = [errand EXCEPT ![e].made = TRUE, ![e].there = TRUE]
  /\ job' = [job EXCEPT ![p] = [of |-> e, step |-> IF WorkerExpected THEN "sending" ELSE "asked"]]
  /\ UNCHANGED <<tasks, ran, together, kept, crashes>>

\* Mutation: what was handed to the queue is performed here as well.
Enqueue_AndPerform(p) ==
  /\ At(p, "sending")
  /\ tasks' = tasks \cup {job[p].of}
  /\ Goes(p, "asked")
  /\ UNCHANGED <<errand, ran, together, kept, crashes>>

(* ... and its number handed to the queue, ... *)
Enqueue(p) ==
  /\ At(p, "sending")
  /\ tasks' = tasks \cup {job[p].of}
  /\ Ends(p)
  /\ UNCHANGED <<errand, ran, together, kept, crashes>>

(* ... or performed here if that raises; the queue may have kept it even so. *)
EnqueueRaises(p) ==
  /\ At(p, "sending") /\ crashes < MaxCrashes
  /\ \/ UNCHANGED <<tasks, kept>>
     \/ tasks' = tasks \cup {job[p].of} /\ kept' = kept \cup {job[p].of}
  /\ Goes(p, "asked")
  /\ crashes' = crashes + 1
  /\ UNCHANGED <<errand, ran, together>>

(* A worker takes a number from the queue. *)
Take(p, e) ==
  /\ At(p, "idle") /\ e \in tasks
  /\ tasks' = tasks \ {e}
  /\ job' = [job EXCEPT ![p] = [of |-> e, step |-> "asked"]]
  /\ UNCHANGED <<errand, ran, together, kept, crashes>>

\* Mutation: a finished errand is performed again.
Perform_Finished(p) ==
  LET e == job[p].of IN
  /\ At(p, "asked")
  /\ IF errand[e].there THEN Goes(p, "read") ELSE Ends(p)
  /\ together' = IF \E q \in Workers \ {p} : InHand(q, e) THEN together \cup {e} ELSE together
  /\ UNCHANGED <<errand, tasks, ran, kept, crashes>>

(* perform: one look at the row; one that has gone or is finished is left. *)
Perform(p) ==
  LET e == job[p].of IN
  /\ At(p, "asked")
  /\ IF errand[e].there /\ ~IsFinished(e) THEN Goes(p, "read") ELSE Ends(p)
  /\ together' = IF \E q \in Workers \ {p} : InHand(q, e) THEN together \cup {e} ELSE together
  /\ UNCHANGED <<errand, tasks, ran, kept, crashes>>

(* _run: the row says working, whatever it says by now. *)
Start(p) ==
  /\ At(p, "read")
  /\ Write(job[p].of, "working")
  /\ ran' = [ran EXCEPT ![job[p].of] = @ + 1]
  /\ Goes(p, "running")
  /\ UNCHANGED <<tasks, together, kept, crashes>>

(* The handler returned, or raised. *)
Works(p, step) ==
  /\ At(p, "running") /\ Goes(p, step)
  /\ UNCHANGED <<errand, tasks, ran, together, kept, crashes>>

(* _finish: done or failed, over whatever the row says by now. *)
Finish(p) ==
  /\ job[p].step \in {"worked", "raised"}
  /\ Write(job[p].of, IF At(p, "worked") THEN "done" ELSE "failed")
  /\ Ends(p)
  /\ UNCHANGED <<tasks, ran, together, kept, crashes>>

(* The process is killed where it stands. *)
Crash(p) ==
  /\ ~At(p, "idle") /\ crashes < MaxCrashes
  /\ Ends(p)
  /\ crashes' = crashes + 1
  /\ UNCHANGED <<errand, tasks, ran, together, kept>>

-----------------------------------------------------------------------------
\* Mutation: only what was begun is failed, not what still waits.
FailInterrupted_OnlyWorking ==
  LET late == {e \in Errands : errand[e].there /\ errand[e].state = "working"
                               /\ errand[e].age # "new"} IN
  /\ late # {}
  /\ errand' = [e \in Errands |->
                  IF e \in late THEN [errand[e] EXCEPT !.state = "failed"] ELSE errand[e]]
  /\ UNCHANGED <<tasks, job, ran, together, kept, crashes>>

(* fail_interrupted, on a pass of the scheduler. *)
FailInterrupted ==
  LET late == {e \in Errands : errand[e].there /\ ~IsFinished(e) /\ errand[e].age # "new"} IN
  /\ late # {}
  /\ errand' = [e \in Errands |->
                  IF e \in late THEN [errand[e] EXCEPT !.state = "failed"] ELSE errand[e]]
  /\ UNCHANGED <<tasks, job, ran, together, kept, crashes>>

(* forget_old: a week old, whatever came of it. *)
ForgetErrands ==
  LET old == {e \in Errands : errand[e].there /\ errand[e].age = "week"} IN
  /\ old # {}
  /\ errand' = [e \in Errands |->
                  IF e \in old THEN [errand[e] EXCEPT !.there = FALSE] ELSE errand[e]]
  /\ UNCHANGED <<tasks, job, ran, together, kept, crashes>>

(* A day has passed since it was made; a week has. *)
Ageing(e) ==
  /\ errand[e].there /\ errand[e].age # "week"
  /\ errand' = [errand EXCEPT ![e].age = IF @ = "new" THEN "day" ELSE "week"]
  /\ UNCHANGED <<tasks, job, ran, together, kept, crashes>>
-----------------------------------------------------------------------------
(* No performer, killed or not, and no queue without a worker leaves an errand
   that promises for ever: it comes to be finished, or forgotten, and stays so. *)
ErrandsSettle ==
  \A e \in Errands : <>[](errand[e].made => IsFinished(e) \/ ~errand[e].there)

(* The work of an errand is begun once, however its performers die, unless the
   queue refused it and kept it. *)
WorkedOnce == \A e \in Errands : ran[e] > 1 => e \in kept

(* What was said to be done is not taken back: by no sweep, by no second
   performer that comes after the first. *)
DoneStays ==
  [][\A e \in Errands :
       errand[e].state = "done" /\ errand'[e].state # "done" => e \in together]_errandVars
=============================================================================
