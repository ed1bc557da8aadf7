------------------------------ MODULE Timeline ------------------------------
(***************************************************************************)
(* One application, its timeline, its interviews and its offers, and the   *)
(* requests that write to them at the same time                            *)
(* (src/postulo/applications/services.py and the views and API calls that  *)
(* use it).                                                                *)
(*                                                                         *)
(* A request reads the rows it needs (Load), and writes later, in one      *)
(* transaction.  Under PostgreSQL's READ COMMITTED nothing it wrote is     *)
(* seen before it commits, and a row it locks or updates is the one the    *)
(* last commit left; so the writes of a handler are one action, made from  *)
(* the copy the request loaded (stale by then, if another request has      *)
(* committed) and from the rows as they are now where the code re-reads    *)
(* them under a lock.  Leave is a request that ends without a write: an    *)
(* early return, a refusal, or a transaction that was rolled back.         *)
(*                                                                         *)
(* Dates are the position of the status entry written with them, 0 for     *)
(* none.  Words, notes and the other kinds of entry are left out.          *)
(***************************************************************************)
EXTENDS Naturals, Sequences

CONSTANTS Requests,    \* requests in flight at once
          Interviews,  \* interviews this application may come to have
          Offers,      \* offers it may come to have
          ReachedBy,   \* the status holding each interview puts it at
          Asked,       \* statuses people ask for in this instance
          Reasons,     \* reasons an application may have ended for
          NoReason,    \* no reason given
          NoCopy,      \* a request that holds nothing
          MaxEntries,  \* bound: entries written before the instance stops
          MaxAnswers   \* bound: reminders to answer an offer made in all

(* The board, left to right, each column with its place on it. *)
Rank == [draft |-> 1, applied |-> 2, acknowledged |-> 3, screening |-> 4,
         interviewing |-> 5, assessment |-> 6, offer |-> 7]
Open == DOMAIN Rank
Ends == {"rejected", "withdrawn", "ghosted"}
Statuses == Open \cup Ends \cup {"accepted"}
Sent == Statuses \ {"draft", "withdrawn"}

Settled == {"done", "cancelled", "no_show"}
Outcomes == Settled \cup {"none", "scheduled"}   \* none: not in the diary yet
Nudges == {"none", "open", "done"}
Authors == {"person", "interview", "offer", "import"}

ASSUME StatusAssumption ==
  /\ Asked \subseteq Statuses
  /\ ReachedBy \in [Interviews -> {"screening", "interviewing", "assessment"}]
ASSUME ReasonAssumption == NoReason \notin Reasons
ASSUME BoundAssumption == MaxEntries \in Nat /\ MaxAnswers \in Nat
ASSUME KindAssumption == Interviews \cap Offers = {}   \* rows of two tables

Rows == [status : Statuses, applied : Nat, closed : Nat]
Entries == [from : Statuses, to : Statuses, why : Reasons \cup {NoReason}, by : Authors]

Notes == [of : Interviews, said : Outcomes \cup {"moved"}]
         \cup [of : Offers, said : {"offered", "revised"}]

VARIABLES stored,    \* the application's row is in the database
          row,       \* that row
          log,       \* the status entries of its timeline, in the order written
          outcome,   \* the outcome column of each interview
          diary,     \* what the timeline says of interviews and offers
          offers,    \* the offers that have a row
          nudge,     \* the reminder of each interview
          bell,      \* the reminder column of each offer's row: a number, 0 for none
          answers,   \* the reminders to answer each offer that are still to ring
          made,      \* the number the last reminder to answer an offer was made with
          lost,      \* the number of the last one that went with the application
          copy,      \* what each request has loaded
          outdated,  \* history: what was decided by, or saved from, a copy that was not the
                     \* row by then: the place on the board, the dates, a row without its log
          overtaken  \* history: the offers written to from a copy that was not the offer, or
                     \* not its reminder, by then

answerVars == <<bell, answers, made, lost>>
offerVars == <<offers, answerVars>>
vars == <<stored, row, log, outcome, diary, nudge, offerVars, copy, outdated, overtaken>>

Copies == [row : Rows, outcome : [Interviews -> Outcomes], offers : SUBSET Offers,
           bell : [Offers -> Nat],     \* the reminder column of the offers as loaded
           ringing : SUBSET Offers]    \* the offers whose reminder was still to ring then

TypeOK ==
  /\ stored \in BOOLEAN
  /\ row \in Rows
  /\ log \in Seq(Entries)
  /\ outcome \in [Interviews -> Outcomes]
  /\ diary \in Seq(Notes)
  /\ offers \in SUBSET Offers
  /\ nudge \in [Interviews -> Nudges]
  /\ bell \in [Offers -> Nat] /\ answers \in [Offers -> SUBSET Nat]
  /\ made \in Nat /\ lost \in Nat
  /\ copy \in [Requests -> Copies \cup {NoCopy}]
  /\ outdated \subseteq {"place", "dates", "log"} /\ overtaken \subseteq Offers

Entry(from, to, why, by) == [from |-> from, to |-> to, why |-> why, by |-> by]
Draft == [status |-> "draft", applied |-> 0, closed |-> 0]
Room == Len(log) + Len(diary) < MaxEntries

-----------------------------------------------------------------------------
(* change_status, from the row as its lock found it. *)

\* Mutation: applied_at is stamped again by every status that says it was sent.
Moved_Restamps(before, new, mark, at) ==
  [status  |-> new,
   applied |-> IF mark /\ new \in Sent THEN at ELSE before.applied,
   closed  |-> IF new \in Open THEN 0 ELSE IF before.closed = 0 THEN at ELSE before.closed]

\* Mutation: closed_at is not cleared when the application reopens.
Moved_StaysClosed(before, new, mark, at) ==
  [status  |-> new,
   applied |-> IF mark /\ new \in Sent /\ before.applied = 0 THEN at ELSE before.applied,
   closed  |-> IF new \notin Open /\ before.closed = 0 THEN at ELSE before.closed]

Moved(before, new, mark, at) ==
  [status  |-> new,
   applied |-> IF mark /\ new \in Sent /\ before.applied = 0 THEN at ELSE before.applied,
   closed  |-> IF new \in Open THEN 0 ELSE IF before.closed = 0 THEN at ELSE before.closed]

(* The reason that stands: the latest given since the application last left
   the stages that are still live, reading the entries in the order written. *)
StandingReason ==
  LET told == {i \in DOMAIN log : /\ log[i].why # NoReason
                                  /\ \A j \in i .. Len(log) : log[j].to \in Ends}
  IN  IF told = {} THEN NoReason
      ELSE log[CHOOSE i \in told : \A j \in told : j <= i].why

(* _say_why: appended, unless the timeline says it already.  A new note makes
   an entry of a reason that stands; notes are not kept here, so either way. *)
SayWhy(before, why) ==
  /\ why # NoReason
  /\ row' = before
  /\ \/ log' = Append(log, Entry(before.status, before.status, why, "person"))
     \/ StandingReason = why /\ UNCHANGED log

MoveTo(before, new, why, by) ==
  /\ new # before.status
  /\ row' = Moved(before, new, TRUE, Len(log) + 1)
  /\ log' = Append(log, Entry(before.status, new, why, by))

ChangeStatus(before, new, why, by) ==
  /\ why # NoReason => new \in Ends
  /\ \/ MoveTo(before, new, why, by)
     \/ new = before.status /\ SayWhy(before, why)
     \/ new = before.status /\ why = NoReason /\ row' = before /\ UNCHANGED log

\* Mutation: whether the application is on the board is not asked.
Behind_OffTheBoard(status, target) == status \in Open => Rank[status] < Rank[target]

(* The guard of _catch_up and of record_offer: on the board, and behind. *)
Behind(status, target) == status \in Open /\ Rank[status] < Rank[target]

\* Mutation: what it moves from is the caller's copy too.
CatchUp_FromCopy(seen, target, by) ==
  IF Behind(seen, target)
  THEN ChangeStatus([row EXCEPT !.status = seen], target, NoReason, by)
  ELSE UNCHANGED <<row, log>>

(* Moving it along with what was just written: whether it is behind is judged
   by the caller's copy, what it moves from is read under the lock. *)
CatchUp(seen, target, by) ==
  IF Behind(seen, target) THEN ChangeStatus(row, target, NoReason, by)
                          ELSE UNCHANGED <<row, log>>

TickOff(k) == IF nudge[k] = "open" THEN [nudge EXCEPT ![k] = "done"] ELSE nudge

-----------------------------------------------------------------------------
(* apply_to_listing and the spreadsheet import: a draft, moved at once to the
   status it was recorded with; the import stamps no date it was not given.  A
   row that has a date goes by applied, which is a SetStatus from here. *)
Init ==
  /\ stored = TRUE
  /\ \E s \in Asked \cup {"draft"}, by \in {"person", "import"} :
       /\ row = IF s = "draft" THEN Draft ELSE Moved(Draft, s, by = "person", 1)
       /\ log = IF s = "draft" THEN <<>> ELSE <<Entry("draft", s, NoReason, by)>>
  /\ outcome = [i \in Interviews |-> "none"]
  /\ diary = <<>>
  /\ offers = {}
  /\ nudge = [i \in Interviews |-> "none"]
  /\ bell = [o \in Offers |-> 0] /\ answers = [o \in Offers |-> {}]
  /\ made = 0 /\ lost = 0
  /\ copy = [r \in Requests |-> NoCopy]
  /\ outdated = {} /\ overtaken = {}

Holds(r) == copy[r] # NoCopy
Done(r) == copy' = [copy EXCEPT ![r] = NoCopy]

Ringing(o) == bell[o] \in answers[o]

(* The request fetches what it was asked about, an offer with its reminder. *)
Load(r) ==
  /\ stored /\ ~Holds(r)
  /\ copy' = [copy EXCEPT ![r] =
       [row |-> row, outcome |-> outcome, offers |-> offers,
        bell |-> bell, ringing |-> {o \in Offers : Ringing(o)}]]
  /\ UNCHANGED <<stored, row, log, outcome, diary, nudge, offerVars>>

Leave(r) ==
  /\ Holds(r) /\ Done(r)
  /\ UNCHANGED <<stored, row, log, outcome, diary, nudge, offerVars>>

\* Mutation: the status moved from is the one the request loaded.
SetStatus_FromCopy(r, new, why) ==
  /\ Holds(r) /\ stored /\ Room
  /\ ChangeStatus([row EXCEPT !.status = copy[r].row.status], new, why, "person")
  /\ Done(r)
  /\ UNCHANGED <<stored, outcome, diary, nudge, offerVars>>

(* ApplicationStatusView, the bulk action and the API's set_status.  With the
   row gone, change_status saves nothing and raises: a Leave. *)
SetStatus(r, new, why) ==
  /\ Holds(r) /\ stored /\ Room
  /\ ChangeStatus(row, new, why, "person")
  /\ Done(r)
  /\ UNCHANGED <<stored, outcome, diary, nudge, offerVars>>

(* Interview.objects.create takes a number no row has had: none that is in the
   diary, and none that a request still holds after its row was deleted. *)
Unheard(i) ==
  outcome[i] = "none" /\ \A q \in Requests : Holds(q) => copy[q].outcome[i] = "none"

(* schedule_interview, for one that is still to come. *)
ScheduleInterview(r, i) ==
  /\ Holds(r) /\ stored /\ Room
  /\ Unheard(i)
  /\ outcome' = [outcome EXCEPT ![i] = "scheduled"]
  /\ diary' = Append(diary, [of |-> i, said |-> "scheduled"])
  /\ \E n \in {"none", "open"} : nudge' = [nudge EXCEPT ![i] = n]
  /\ Done(r)
  /\ UNCHANGED <<stored, row, log, offerVars>>

(* settle_interview, which raises where the row is gone (a Leave); and
   schedule_interview for one already over, which settles what it has made. *)
SettleInterview(r, i, how) ==
  /\ Holds(r) /\ stored /\ Room
  /\ \/ copy[r].outcome[i] \notin {"none", how} /\ outcome[i] # "none"
     \/ Unheard(i) /\ how = "done"
  /\ outcome' = [outcome EXCEPT ![i] = how]
  /\ diary' = Append(diary, [of |-> i, said |-> how])
  /\ IF how = "done" THEN CatchUp(copy[r].row.status, ReachedBy[i], "interview")
                     ELSE UNCHANGED <<row, log>>
  /\ nudge' = TickOff(i)
  /\ Done(r)
  /\ UNCHANGED <<stored, offerVars>>

(* InterviewUpdateView and the API's change_interview: the whole row is saved
   as it was loaded, then reschedule_interview writes the move, if there was
   one, and moves the reminder or ticks it off. *)
EditInterview(r, i, move) ==
  /\ Holds(r) /\ stored /\ Room
  /\ copy[r].outcome[i] # "none"
  /\ outcome' = [outcome EXCEPT ![i] = copy[r].outcome[i]]
  /\ IF move THEN /\ diary' = Append(diary, [of |-> i, said |-> "moved"])
                  /\ nudge' \in {nudge, TickOff(i)}
             ELSE UNCHANGED <<diary, nudge>>
  /\ Done(r)
  /\ UNCHANGED <<stored, row, log, offerVars>>

(* A reminder to answer, made and written to the offer's row. *)
NewAnswer(o) ==
  /\ made < MaxAnswers /\ made' = made + 1
  /\ bell' = [bell EXCEPT ![o] = made + 1]
  /\ answers' = [answers EXCEPT ![o] = @ \cup {made + 1}]

RecordOffer(r, o) ==
  /\ Holds(r) /\ stored /\ Room
  /\ o \notin offers /\ \A q \in Requests : Holds(q) => o \notin copy[q].offers
  /\ \A e \in DOMAIN diary : diary[e].of # o
  /\ offers' = offers \cup {o}
  /\ diary' = Append(diary, [of |-> o, said |-> "offered"])
  /\ NewAnswer(o) \/ (bell' = [bell EXCEPT ![o] = 0] /\ UNCHANGED <<answers, made>>)
  /\ CatchUp(copy[r].row.status, "offer", "offer")
  /\ Done(r)
  /\ UNCHANGED <<stored, outcome, nudge, lost>>

(* _remind_to_answer, by the reminder column b the request has: a date taken
   away or already past ticks the reminder off, another one makes it where the
   column is empty, and brings it back and moves it where it is not. *)
RemindToAnswer(o, b) ==
  \/ b = 0 /\ NewAnswer(o)
  \/ /\ b # 0 /\ bell' = [bell EXCEPT ![o] = b]
     /\ \/ answers' = [answers EXCEPT ![o] = @ \ {b}]
        \/ answers' = [answers EXCEPT ![o] = @ \cup {b}]
     /\ UNCHANGED made

(* OfferUpdateView: the whole row is saved as it was loaded, its reminder
   column too, which puts back a row withdrawn since, and is refused where that
   reminder is gone (a Leave); revise_offer writes the revision where a term was
   changed, and the reminder follows the answer-by date where that was. *)
ReviseOffer(r, o, terms) ==
  /\ Holds(r) /\ stored /\ Room
  /\ o \in copy[r].offers /\ (copy[r].bell[o] = 0 \/ copy[r].bell[o] > lost)
  /\ offers' = offers \cup {o}
  /\ \/ terms /\ RemindToAnswer(o, copy[r].bell[o])
     \/ bell' = [bell EXCEPT ![o] = copy[r].bell[o]] /\ UNCHANGED <<answers, made>>
  /\ diary' = IF terms THEN Append(diary, [of |-> o, said |-> "revised"]) ELSE diary
  /\ Done(r)
  /\ UNCHANGED <<stored, row, log, outcome, nudge, lost>>

\* Mutation: withdrawing leaves the reminder to answer.
WithdrawOffer_StillRings(r, o) ==
  /\ Holds(r) /\ stored
  /\ o \in copy[r].offers
  /\ offers' = offers \ {o} /\ bell' = [bell EXCEPT ![o] = 0]
  /\ Done(r)
  /\ UNCHANGED <<stored, row, log, outcome, diary, nudge, answers, made, lost>>

(* withdraw_offer: the reminder ticked off is the one of the offer as it was
   loaded, and only if it was to ring then; where that one is gone, the save
   raises (a Leave). *)
WithdrawOffer(r, o) ==
  /\ Holds(r) /\ stored
  /\ o \in copy[r].offers
  /\ o \in copy[r].ringing => copy[r].bell[o] > lost
  /\ answers' = IF o \in copy[r].ringing
                THEN [answers EXCEPT ![o] = @ \ {copy[r].bell[o]}] ELSE answers
  /\ offers' = offers \ {o} /\ bell' = [bell EXCEPT ![o] = 0]
  /\ Done(r)
  /\ UNCHANGED <<stored, row, log, outcome, diary, nudge, made, lost>>

(* ApplicationUpdateView: the status is the one under the lock, every other
   column the one that was loaded; then the status asked for, unless the form
   only carried back the one it was drawn with. *)
Saved(r) == [copy[r].row EXCEPT !.status = row.status]

EditApplication(r, asked) ==
  /\ Holds(r) /\ stored /\ Room
  /\ \/ row' = Saved(r) /\ UNCHANGED log
     \/ ChangeStatus(Saved(r), asked, NoReason, "person")
  /\ Done(r)
  /\ UNCHANGED <<stored, outcome, diary, nudge, offerVars>>

(* ApplicationDeleteView: the row, and with it all that hangs from it. *)
DeleteApplication(r) ==
  /\ Holds(r) /\ stored
  /\ stored' = FALSE
  /\ row' = Draft /\ log' = <<>>
  /\ outcome' = [i \in Interviews |-> "none"]
  /\ diary' = <<>> /\ offers' = {}
  /\ nudge' = [i \in Interviews |-> "none"]
  /\ bell' = [o \in Offers |-> 0] /\ answers' = [o \in Offers |-> {}]
  /\ lost' = made
  /\ Done(r)
  /\ UNCHANGED made

(* The same form, when the row went while it was open: the lock finds nothing,
   the status falls back on the loaded one, and the save inserts the row. *)
EditDeleted(r, asked) ==
  /\ Holds(r) /\ ~stored /\ Room
  /\ stored' = TRUE
  /\ \/ row' = copy[r].row /\ UNCHANGED log
     \/ ChangeStatus(copy[r].row, asked, NoReason, "person")
  /\ Done(r)
  /\ UNCHANGED <<outcome, diary, nudge, offerVars>>

-----------------------------------------------------------------------------
(* What a catching-up is judged by, and what an edit form saves with the status. *)
Judges(r) == outdated' = IF copy[r].row.status = row.status THEN outdated
                         ELSE outdated \cup {"place"}
Saves(r) ==
  outdated' = IF copy[r].row.applied = row.applied /\ copy[r].row.closed = row.closed
              THEN outdated ELSE outdated \cup {"dates"}

(* What an edit form writes over, and what a withdrawal judges the reminder by. *)
Reminds(r, o) ==
  overtaken' = IF o \notin offers \/ copy[r].bell[o] = bell[o] THEN overtaken
               ELSE overtaken \cup {o}
Withdraws(r, o) ==
  overtaken' = IF \/ o \notin offers
                  \/ copy[r].bell[o] = bell[o] /\ (o \in copy[r].ringing <=> Ringing(o))
               THEN overtaken ELSE overtaken \cup {o}

(* What goes through the services that keep the log true. *)
ServiceStep(r) ==
  \/ /\ \/ Load(r) \/ Leave(r)
        \/ \E new \in Asked, why \in Reasons \cup {NoReason} : SetStatus(r, new, why)
        \/ \E i \in Interviews : ScheduleInterview(r, i)
        \/ \E i \in Interviews, how \in Settled \ {"done"} : SettleInterview(r, i, how)
     /\ UNCHANGED <<outdated, overtaken>>
  \/ (\E o \in Offers : WithdrawOffer(r, o) /\ Withdraws(r, o)) /\ UNCHANGED outdated
  \/ /\ \/ \E i \in Interviews : SettleInterview(r, i, "done")
        \/ \E o \in Offers : RecordOffer(r, o)
     /\ Judges(r) /\ UNCHANGED overtaken

(* The edit forms, which save a whole row. *)
FormStep(r) ==
  \/ (\E i \in Interviews, move \in BOOLEAN : EditInterview(r, i, move))
     /\ UNCHANGED <<outdated, overtaken>>
  \/ (\E o \in Offers, terms \in BOOLEAN : ReviseOffer(r, o, terms) /\ Reminds(r, o))
     /\ UNCHANGED outdated
  \/ (\E asked \in Asked : EditApplication(r, asked)) /\ Saves(r) /\ UNCHANGED overtaken

DeleteStep(r) ==
  /\ \/ DeleteApplication(r) /\ UNCHANGED outdated
     \/ /\ \E asked \in Asked : EditDeleted(r, asked)
        /\ outdated' = outdated \cup {"dates", "log"}
  /\ UNCHANGED overtaken

ServiceNext == \E r \in Requests : ServiceStep(r)
KeptNext == \E r \in Requests : ServiceStep(r) \/ FormStep(r)
Next == \E r \in Requests : ServiceStep(r) \/ FormStep(r) \/ DeleteStep(r)

ServiceSpec == Init /\ [][ServiceNext]_vars   \* no edit form is used
KeptSpec == Init /\ [][KeptNext]_vars         \* the application is not deleted
Spec == Init /\ [][Next]_vars

-----------------------------------------------------------------------------
(* The timeline accounts for the status: each entry starts where the one
   before it ended, the first one at draft, and the row stands where the last
   one ended, whatever copies the requests that wrote them held, unless a form
   has put a deleted row back without them. *)
LogAgrees ==
  stored /\ "log" \notin outdated =>
            /\ \A e \in DOMAIN log :
                 log[e].from = IF e = 1 THEN "draft" ELSE log[e - 1].to
            /\ row.status = IF log = <<>> THEN "draft" ELSE log[Len(log)].to

(* applied_at is the moment of the first entry that says the application went
   out, and stays it; only an import that had no date leaves it for later, and
   only an edit form that was drawn before the dates changed writes over it. *)
AppliedWhenFirstSent ==
  stored /\ "dates" \notin outdated =>
    LET stamping == {e \in DOMAIN log : /\ log[e].to \in Sent \ {log[e].from}
                                         /\ log[e].by # "import"}
    IN  IF stamping = {} THEN row.applied = 0
        ELSE row.applied \in stamping /\ \A e \in stamping : row.applied <= e

(* closed_at is the moment the application was last settled, and there is
   none while it is open: it was set by the entry that left the open stages, and
   only such a form writes over it. *)
ClosedWhenSettled ==
  stored /\ "dates" \notin outdated =>
    IF row.status \in Open THEN row.closed = 0
    ELSE /\ row.closed \in DOMAIN log
         /\ log[row.closed].from \in Open
         /\ \A e \in row.closed .. Len(log) : log[e].to \notin Open

(* Holding an interview, or recording an offer, moves an application forward
   along the board, never back and never out of an ending, unless one was
   judged by a place the application had left by then. *)
CatchUpOnlyForward ==
  "place" \notin outdated =>
    \A e \in DOMAIN log :
      log[e].by \in {"interview", "offer"} =>
        log[e].from \in Open /\ Rank[log[e].from] < Rank[log[e].to]

(* Nothing rings for what is over: an interview that has an outcome, or an
   offer that was withdrawn, has no reminder left to announce, unless the offer
   was revised or withdrawn from a copy that was not the offer, or not its
   reminder, by then. *)
NoNudgeWhenOver ==
  /\ \A i \in Interviews : outcome[i] \in Settled => nudge[i] # "open"
  /\ \A o \in Offers : o \notin offers \cup overtaken => answers[o] = {}

(* The timeline is a history that is only ever appended to, and the status
   moves with it: the refinement of StatusHistory. *)
Path(l) == [e \in DOMAIN l |-> [from |-> l[e].from, to |-> l[e].to]]

History == INSTANCE StatusHistory WITH
  Endings <- Ends, standing <- row.status, history <- Path(log)
KeepsHistory == History!Spec
=============================================================================
