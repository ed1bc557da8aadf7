--------------------------- MODULE TimelineProofs ---------------------------
(***************************************************************************)
(* Proofs about Timeline, for any number of requests, interviews, offers   *)
(* and reasons, and a timeline of any length.                              *)
(***************************************************************************)
EXTENDS Timeline, SequenceTheorems, TLAPS

(* Sending and ending are about statuses that exist, and the interview       *)
(* targets are places on the board.                                          *)
LEMMA StatusFacts ==
  /\ Open \subseteq Statuses /\ Ends \subseteq Statuses /\ Sent \subseteq Statuses
  /\ "draft" \in Open /\ "offer" \in Open
  /\ \A i \in Interviews : ReachedBy[i] \in Statuses
  /\ Asked \subseteq Statuses
<1>1. DOMAIN Rank = {"draft", "applied", "acknowledged", "screening",
                     "interviewing", "assessment", "offer"}
  BY DEF Rank
<1>2. \A i \in Interviews : ReachedBy[i] \in {"screening", "interviewing", "assessment"}
  BY StatusAssumption
<1>3. QED
  BY <1>1, <1>2, StatusAssumption DEF Open, Ends, Sent, Statuses

-----------------------------------------------------------------------------
(* change_status keeps the row and the log well formed, whatever row it      *)
(* starts from.                                                              *)
LEMMA MovedType ==
  ASSUME NEW before \in Rows, NEW new \in Statuses, NEW mark \in BOOLEAN, NEW at \in Nat
  PROVE  /\ Moved(before, new, mark, at) \in Rows
         /\ Moved(before, new, mark, at).status = new
BY DEF Moved, Rows

LEMMA ChangeStatusType ==
  ASSUME log \in Seq(Entries),
         NEW before \in Rows, NEW new \in Statuses,
         NEW why \in Reasons \cup {NoReason}, NEW by \in Authors,
         ChangeStatus(before, new, why, by)
  PROVE  row' \in Rows /\ log' \in Seq(Entries)
<1>1. before.status \in Statuses
  BY DEF Rows
<1>2. Len(log) + 1 \in Nat /\ "person" \in Authors
  BY DEF Authors
<1>3. CASE MoveTo(before, new, why, by)
  <2>1. Entry(before.status, new, why, by) \in Entries
    BY <1>1 DEF Entry, Entries
  <2>2. Append(log, Entry(before.status, new, why, by)) \in Seq(Entries)
    BY <2>1
  <2>3. Moved(before, new, TRUE, Len(log) + 1) \in Rows
    BY <1>2, MovedType
  <2>4. QED
    BY <1>3, <2>2, <2>3 DEF MoveTo
<1>4. CASE SayWhy(before, why)
  <2>1. Entry(before.status, before.status, why, "person") \in Entries
    BY <1>1, <1>2 DEF Entry, Entries
  <2>2. QED
    BY <1>4, <2>1 DEF SayWhy
<1>5. CASE row' = before /\ UNCHANGED log
  BY <1>5
<1>6. QED
  BY <1>3, <1>4, <1>5 DEF ChangeStatus

LEMMA CatchUpType ==
  ASSUME log \in Seq(Entries), row \in Rows,
         NEW seen, NEW target \in Statuses, NEW by \in Authors,
         CatchUp(seen, target, by)
  PROVE  row' \in Rows /\ log' \in Seq(Entries)
BY ChangeStatusType DEF CatchUp

(* The row the edit form saves is a row, with the status that is stored. *)
LEMMA SavedType ==
  ASSUME TypeOK, NEW r \in Requests, Holds(r)
  PROVE  Saved(r) \in Rows /\ Saved(r).status = row.status
<1>1. copy[r].row \in Rows
  BY DEF TypeOK, Holds, Copies
<1>2. QED
  BY <1>1 DEF Saved, TypeOK, Rows

LEMMA TickOffType ==
  ASSUME nudge \in [Interviews -> Nudges], NEW k \in Interviews
  PROVE  TickOff(k) \in [Interviews -> Nudges]
BY DEF TickOff, Nudges

-----------------------------------------------------------------------------
LEMMA NoteType ==
  ASSUME diary \in Seq(Notes)
  PROVE  /\ \A i \in Interviews, said \in Outcomes \cup {"moved"} :
              Append(diary, [of |-> i, said |-> said]) \in Seq(Notes)
         /\ \A o \in Offers, said \in {"offered", "revised"} :
              Append(diary, [of |-> o, said |-> said]) \in Seq(Notes)
<1>1. \A i \in Interviews, said \in Outcomes \cup {"moved"} : [of |-> i, said |-> said] \in Notes
  BY DEF Notes
<1>2. \A o \in Offers, said \in {"offered", "revised"} : [of |-> o, said |-> said] \in Notes
  BY DEF Notes
<1>3. QED
  BY <1>1, <1>2

LEMMA InitType == Init => TypeOK
<1> SUFFICES ASSUME Init PROVE TypeOK
  OBVIOUS
<1>1. PICK s \in Asked \cup {"draft"}, by \in {"person", "import"} :
        /\ row = IF s = "draft" THEN Draft ELSE Moved(Draft, s, by = "person", 1)
        /\ log = IF s = "draft" THEN <<>> ELSE <<Entry("draft", s, NoReason, by)>>
  BY DEF Init
<1>2. s \in Statuses /\ "draft" \in Statuses /\ (by = "person") \in BOOLEAN /\ by \in Authors
  BY StatusFacts DEF Authors
<1>3. Draft \in Rows
  BY <1>2 DEF Draft, Rows
<1>4. Moved(Draft, s, by = "person", 1) \in Rows
  BY <1>2, <1>3, MovedType
<1>5. Entry("draft", s, NoReason, by) \in Entries
  BY <1>2 DEF Entry, Entries
<1>6. row \in Rows
  BY <1>1, <1>3, <1>4
<1>7. log \in Seq(Entries)
  BY <1>1, <1>5
<1>8. QED
  BY <1>6, <1>7 DEF Init, TypeOK, Outcomes, Nudges

(* What a request does, whatever it leaves to be known of its copy.           *)
Services(r) ==
  \/ Load(r) \/ Leave(r)
  \/ \E new \in Asked, why \in Reasons \cup {NoReason} : SetStatus(r, new, why)
  \/ \E i \in Interviews : ScheduleInterview(r, i)
  \/ \E i \in Interviews, how \in Settled : SettleInterview(r, i, how)
  \/ \E o \in Offers : RecordOffer(r, o) \/ WithdrawOffer(r, o)

Forms(r) ==
  \/ \E i \in Interviews, move \in BOOLEAN : EditInterview(r, i, move)
  \/ \E o \in Offers, terms \in BOOLEAN : ReviseOffer(r, o, terms)
  \/ \E asked \in Asked : EditApplication(r, asked)

Deletes(r) == DeleteApplication(r) \/ \E asked \in Asked : EditDeleted(r, asked)

LEMMA StepCases ==
  ASSUME NEW r \in Requests
  PROVE  /\ ServiceStep(r) => Services(r)
         /\ FormStep(r) => Forms(r)
         /\ DeleteStep(r) => Deletes(r)
<1>1. "done" \in Settled
  BY DEF Settled
<1>2. ServiceStep(r) => Services(r)
  BY <1>1 DEF ServiceStep, Services
<1>3. FormStep(r) => Forms(r)
  BY DEF FormStep, Forms
<1>4. DeleteStep(r) => Deletes(r)
  BY DEF DeleteStep, Deletes
<1> QED BY <1>2, <1>3, <1>4

(* What was outdated stays known to have been.                               *)
LEMMA OutdatedGrows ==
  ASSUME TypeOK, NEW r \in Requests, ServiceStep(r) \/ FormStep(r) \/ DeleteStep(r)
  PROVE  /\ outdated \subseteq outdated' /\ outdated' \subseteq {"place", "dates", "log"}
         /\ overtaken \subseteq overtaken' /\ overtaken' \subseteq Offers
<1>1. \/ UNCHANGED outdated \/ Judges(r) \/ Saves(r)
      \/ outdated' = outdated \cup {"dates", "log"}
  BY DEF ServiceStep, FormStep, DeleteStep
<1>2. UNCHANGED overtaken \/ \E o \in Offers : Reminds(r, o) \/ Withdraws(r, o)
  BY DEF ServiceStep, FormStep, DeleteStep
<1>3. overtaken \subseteq overtaken' /\ overtaken' \subseteq Offers
  BY <1>2 DEF TypeOK, Reminds, Withdraws
<1> QED BY <1>1, <1>3 DEF TypeOK, Judges, Saves

(* What the requests leave of the columns and the reminders of the offers.   *)
LEMMA AnswersType ==
  ASSUME TypeOK, NEW r \in Requests, ServiceStep(r) \/ FormStep(r) \/ DeleteStep(r)
  PROVE  /\ bell' \in [Offers -> Nat] /\ answers' \in [Offers -> SUBSET Nat]
         /\ made' \in Nat /\ lost' \in Nat
<1> USE DEF TypeOK
<1>1. ASSUME NEW o \in Offers, NewAnswer(o)
      PROVE  /\ bell' \in [Offers -> Nat] /\ answers' \in [Offers -> SUBSET Nat] /\ made' \in Nat
  BY <1>1 DEF NewAnswer
<1>2. ASSUME NEW o \in Offers, RecordOffer(r, o)
      PROVE  /\ bell' \in [Offers -> Nat] /\ answers' \in [Offers -> SUBSET Nat]
             /\ made' \in Nat /\ lost' \in Nat
  BY <1>1, <1>2 DEF RecordOffer
<1>3. ASSUME NEW o \in Offers, o \in copy[r].offers, Holds(r)
      PROVE  copy[r].bell \in [Offers -> Nat] /\ copy[r].bell[o] \in Nat
  BY <1>3 DEF Holds, Copies
<1>4. ASSUME NEW o \in Offers, NEW b \in Nat, RemindToAnswer(o, b)
      PROVE  /\ bell' \in [Offers -> Nat] /\ answers' \in [Offers -> SUBSET Nat] /\ made' \in Nat
  BY <1>1, <1>4 DEF RemindToAnswer
<1>5. ASSUME NEW o \in Offers, NEW terms \in BOOLEAN, ReviseOffer(r, o, terms)
      PROVE  /\ bell' \in [Offers -> Nat] /\ answers' \in [Offers -> SUBSET Nat]
             /\ made' \in Nat /\ lost' \in Nat
  BY <1>3, <1>4, <1>5 DEF ReviseOffer
<1>6. ASSUME NEW o \in Offers, WithdrawOffer(r, o)
      PROVE  /\ bell' \in [Offers -> Nat] /\ answers' \in [Offers -> SUBSET Nat]
             /\ made' \in Nat /\ lost' \in Nat
  BY <1>6 DEF WithdrawOffer
<1>7. DeleteApplication(r) => /\ bell' \in [Offers -> Nat] /\ answers' \in [Offers -> SUBSET Nat]
                              /\ made' \in Nat /\ lost' \in Nat
  BY DEF DeleteApplication
<1>8. UNCHANGED answerVars => /\ bell' \in [Offers -> Nat] /\ answers' \in [Offers -> SUBSET Nat]
                              /\ made' \in Nat /\ lost' \in Nat
  BY DEF answerVars
<1>9. ASSUME ~UNCHANGED answerVars
      PROVE  \/ \E o \in Offers : RecordOffer(r, o) \/ WithdrawOffer(r, o)
             \/ \E o \in Offers, terms \in BOOLEAN : ReviseOffer(r, o, terms)
             \/ DeleteApplication(r)
  BY <1>9, StepCases
     DEF Services, Forms, Deletes, Load, Leave, SetStatus, ScheduleInterview, SettleInterview,
         EditInterview, EditApplication, EditDeleted, offerVars
<1> QED BY <1>2, <1>5, <1>6, <1>7, <1>8, <1>9

(* Every action of a request keeps the state well formed.                    *)
LEMMA StepType ==
  ASSUME TypeOK, NEW r \in Requests, ServiceStep(r) \/ FormStep(r) \/ DeleteStep(r)
  PROVE  TypeOK'
<1> USE DEF Holds, Done, offerVars
<1> DEFINE Fetched == [row |-> row, outcome |-> outcome, offers |-> offers,
                       bell |-> bell, ringing |-> {o \in Offers : Ringing(o)}]
<1>0. /\ copy' \in [Requests -> Copies \cup {NoCopy}]
      /\ outdated' \subseteq {"place", "dates", "log"} /\ overtaken' \subseteq Offers
      /\ bell' \in [Offers -> Nat] /\ answers' \in [Offers -> SUBSET Nat]
      /\ made' \in Nat /\ lost' \in Nat
  <2>1. Fetched \in Copies
    BY DEF TypeOK, Copies
  <2>2. copy' \in {[copy EXCEPT ![r] = NoCopy], [copy EXCEPT ![r] = Fetched]}
    BY StepCases
       DEF Services, Forms, Deletes, Load, Leave, SetStatus, ScheduleInterview,
           SettleInterview, RecordOffer, WithdrawOffer, EditInterview, ReviseOffer,
           EditApplication, DeleteApplication, EditDeleted
  <2>3. QED
    BY <2>1, <2>2, OutdatedGrows, AnswersType DEF TypeOK
<1> HIDE DEF Fetched
<1>1. ASSUME Load(r) PROVE TypeOK'
  BY <1>0, <1>1 DEF Load, TypeOK
<1>2. ASSUME Leave(r) PROVE TypeOK'
  BY <1>0, <1>2 DEF Leave, TypeOK
<1>3. ASSUME NEW new \in Asked, NEW why \in Reasons \cup {NoReason}, SetStatus(r, new, why)
      PROVE TypeOK'
  <2>1. row' \in Rows /\ log' \in Seq(Entries)
    BY <1>3, ChangeStatusType, StatusFacts DEF SetStatus, TypeOK, Authors
  <2>2. QED
    BY <1>0, <1>3, <2>1 DEF SetStatus, TypeOK
<1>4. ASSUME NEW i \in Interviews, ScheduleInterview(r, i) PROVE TypeOK'
  <2>1. outcome' \in [Interviews -> Outcomes]
    BY <1>4 DEF ScheduleInterview, TypeOK, Outcomes
  <2>2. nudge' \in [Interviews -> Nudges]
    BY <1>4 DEF ScheduleInterview, TypeOK, Nudges
  <2>3. diary' \in Seq(Notes)
    BY <1>4, NoteType DEF ScheduleInterview, TypeOK, Outcomes
  <2>4. QED
    BY <1>0, <1>4, <2>1, <2>2, <2>3 DEF ScheduleInterview, TypeOK
<1>5. ASSUME NEW i \in Interviews, NEW how \in Settled, SettleInterview(r, i, how)
      PROVE TypeOK'
  <2>1. outcome' \in [Interviews -> Outcomes]
    BY <1>5 DEF SettleInterview, TypeOK, Outcomes
  <2>2. nudge' \in [Interviews -> Nudges]
    BY <1>5, TickOffType DEF SettleInterview, TypeOK
  <2>3. row' \in Rows /\ log' \in Seq(Entries)
    BY <1>5, CatchUpType, StatusFacts DEF SettleInterview, TypeOK, Authors
  <2>4. diary' \in Seq(Notes)
    BY <1>5, NoteType DEF SettleInterview, TypeOK, Outcomes
  <2>5. QED
    BY <1>0, <1>5, <2>1, <2>2, <2>3, <2>4 DEF SettleInterview, TypeOK
<1>6. ASSUME NEW o \in Offers, RecordOffer(r, o) PROVE TypeOK'
  <2>2. row' \in Rows /\ log' \in Seq(Entries)
    BY <1>6, CatchUpType, StatusFacts DEF RecordOffer, TypeOK, Authors
  <2>3. diary' \in Seq(Notes)
    BY <1>6, NoteType DEF RecordOffer, TypeOK
  <2>4. QED
    BY <1>0, <1>6, <2>2, <2>3 DEF RecordOffer, TypeOK
<1>7. ASSUME NEW o \in Offers, WithdrawOffer(r, o) PROVE TypeOK'
  BY <1>0, <1>7 DEF WithdrawOffer, TypeOK
<1>8. ASSUME NEW i \in Interviews, NEW move \in BOOLEAN, EditInterview(r, i, move)
      PROVE TypeOK'
  <2>1. copy[r].outcome[i] \in Outcomes
    BY <1>8 DEF EditInterview, TypeOK, Copies
  <2>2. nudge' \in [Interviews -> Nudges]
    BY <1>8, TickOffType DEF EditInterview, TypeOK
  <2>3. diary' \in Seq(Notes)
    BY <1>8, NoteType DEF EditInterview, TypeOK
  <2>4. outcome' \in [Interviews -> Outcomes]
    BY <1>8, <2>1 DEF EditInterview, TypeOK
  <2>5. QED
    BY <1>0, <1>8, <2>2, <2>3, <2>4 DEF EditInterview, TypeOK
<1>9. ASSUME NEW o \in Offers, NEW terms \in BOOLEAN, ReviseOffer(r, o, terms)
      PROVE TypeOK'
  <2>2. diary' \in Seq(Notes)
    BY <1>9, NoteType DEF ReviseOffer, TypeOK
  <2>3. QED
    BY <1>0, <1>9, <2>2 DEF ReviseOffer, TypeOK
<1>10. ASSUME NEW asked \in Asked, EditApplication(r, asked) PROVE TypeOK'
  <2>1. row' \in Rows /\ log' \in Seq(Entries)
    BY <1>10, ChangeStatusType, SavedType, StatusFacts DEF EditApplication, TypeOK, Authors
  <2>2. QED
    BY <1>0, <1>10, <2>1 DEF EditApplication, TypeOK
<1>11. ASSUME DeleteApplication(r) PROVE TypeOK'
  <2>1. Draft \in Rows
    BY StatusFacts DEF Draft, Rows
  <2>2. log' \in Seq(Entries) /\ diary' \in Seq(Notes) /\ offers' \in SUBSET Offers
    BY <1>11 DEF DeleteApplication
  <2>3. /\ outcome' \in [Interviews -> Outcomes]
        /\ nudge' \in [Interviews -> Nudges]
    BY <1>11 DEF DeleteApplication, Outcomes, Nudges
  <2>4. stored' \in BOOLEAN /\ row' \in Rows
    BY <1>11, <2>1 DEF DeleteApplication
  <2>5. QED
    BY <1>0, <2>2, <2>3, <2>4 DEF TypeOK
<1>12. ASSUME NEW asked \in Asked, EditDeleted(r, asked) PROVE TypeOK'
  <2>1. copy[r].row \in Rows
    BY <1>12 DEF EditDeleted, TypeOK, Copies
  <2>2. row' \in Rows /\ log' \in Seq(Entries)
    BY <1>12, <2>1, ChangeStatusType, StatusFacts DEF EditDeleted, TypeOK, Authors
  <2>3. QED
    BY <1>0, <1>12, <2>2 DEF EditDeleted, TypeOK
<1>13. QED
  BY <1>1, <1>2, <1>3, <1>4, <1>5, <1>6, <1>7, <1>8, <1>9, <1>10, <1>11, <1>12, StepCases
     DEF Services, Forms, Deletes

LEMMA StutterType == ASSUME TypeOK, UNCHANGED vars PROVE TypeOK'
BY DEF TypeOK, vars, offerVars, answerVars

(* Whatever requests overlap, every column holds what its type allows.       *)
THEOREM TypeCorrect == Spec => []TypeOK
<1>1. TypeOK /\ [Next]_vars => TypeOK'
  BY StepType, StutterType DEF Next
<1>2. QED
  BY <1>1, InitType, PTL DEF Spec

-----------------------------------------------------------------------------
(* What a request does to the status, seen from the timeline: it leaves the  *)
(* log alone, or it is one change_status from a row whose status is the one  *)
(* stored now.                                                               *)
Writers == {"person", "interview", "offer"}

Changes(before) ==
  \E new \in Statuses, why \in Reasons \cup {NoReason}, by \in Writers :
    ChangeStatus(before, new, why, by)

LEMMA ServiceMoves ==
  ASSUME TypeOK, NEW r \in Requests, ServiceStep(r)
  PROVE  stored' = stored /\ (UNCHANGED <<row, log>> \/ Changes(row))
<1>1. CASE Load(r) \/ Leave(r)
  BY <1>1 DEF Load, Leave
<1>2. ASSUME NEW new \in Asked, NEW why \in Reasons \cup {NoReason}, SetStatus(r, new, why)
      PROVE stored' = stored /\ Changes(row)
  BY <1>2, StatusFacts DEF SetStatus, Changes, Writers
<1>3. ASSUME NEW seen, NEW target \in Statuses, NEW by \in Writers, CatchUp(seen, target, by)
      PROVE UNCHANGED <<row, log>> \/ Changes(row)
  BY <1>3 DEF CatchUp, Changes
<1>4. ASSUME NEW i \in Interviews, ScheduleInterview(r, i)
      PROVE stored' = stored /\ UNCHANGED <<row, log>>
  BY <1>4 DEF ScheduleInterview
<1>5. ASSUME NEW i \in Interviews, NEW how \in Settled, SettleInterview(r, i, how)
      PROVE stored' = stored /\ (UNCHANGED <<row, log>> \/ Changes(row))
  BY <1>3, <1>5, StatusFacts DEF SettleInterview, Writers
<1>6. ASSUME NEW o \in Offers, RecordOffer(r, o)
      PROVE stored' = stored /\ (UNCHANGED <<row, log>> \/ Changes(row))
  BY <1>3, <1>6, StatusFacts DEF RecordOffer, Writers
<1>7. ASSUME NEW o \in Offers, WithdrawOffer(r, o)
      PROVE stored' = stored /\ UNCHANGED <<row, log>>
  BY <1>7 DEF WithdrawOffer
<1>8. QED
  BY <1>1, <1>2, <1>4, <1>5, <1>6, <1>7, StepCases DEF Services

LEMMA KeptMoves ==
  ASSUME TypeOK, NEW r \in Requests, ServiceStep(r) \/ FormStep(r)
  PROVE  /\ stored' = stored
         /\ \E before \in Rows :
              /\ before.status = row.status
              /\ (row' = before /\ UNCHANGED log) \/ Changes(before)
<1>1. CASE ServiceStep(r)
  BY <1>1, ServiceMoves DEF TypeOK
<1>2. ASSUME NEW i \in Interviews, NEW move \in BOOLEAN, EditInterview(r, i, move)
      PROVE stored' = stored /\ UNCHANGED <<row, log>>
  BY <1>2 DEF EditInterview
<1>3. ASSUME NEW o \in Offers, NEW terms \in BOOLEAN, ReviseOffer(r, o, terms)
      PROVE stored' = stored /\ UNCHANGED <<row, log>>
  BY <1>3 DEF ReviseOffer
<1>4. ASSUME NEW asked \in Asked, EditApplication(r, asked)
      PROVE /\ stored' = stored
            /\ Saved(r) \in Rows /\ Saved(r).status = row.status
            /\ (row' = Saved(r) /\ UNCHANGED log) \/ Changes(Saved(r))
  BY <1>4, SavedType, StatusFacts DEF EditApplication, Changes, Writers
<1>5. QED
  BY <1>1, <1>2, <1>3, <1>4, StepCases DEF Forms, TypeOK

(* One change_status, reduced to the two ways it can write an entry.         *)
LEMMA ChangeIsAnEntry ==
  ASSUME NEW before \in Rows, Changes(before)
  PROVE  \/ row' = before /\ UNCHANGED log
         \/ \E new \in Statuses, why \in Reasons \cup {NoReason}, by \in Writers :
              /\ log' = Append(log, Entry(before.status, new, why, by))
              /\ \/ /\ new # before.status
                    /\ row' = Moved(before, new, TRUE, Len(log) + 1)
                 \/ /\ new = before.status /\ row' = before
                    /\ why # NoReason /\ new \in Ends
<1>1. PICK new \in Statuses, why \in Reasons \cup {NoReason}, by \in Writers :
        ChangeStatus(before, new, why, by)
  BY DEF Changes
<1>2. "person" \in Writers
  BY DEF Writers
<1>3. CASE MoveTo(before, new, why, by)
  BY <1>3 DEF MoveTo
<1>4. CASE new = before.status /\ SayWhy(before, why)
  BY <1>1, <1>2, <1>4 DEF SayWhy, ChangeStatus
<1>5. QED
  BY <1>1, <1>3, <1>4 DEF ChangeStatus

LEMMA EntryFields ==
  ASSUME NEW from, NEW to, NEW why, NEW by
  PROVE  /\ Entry(from, to, why, by).from = from /\ Entry(from, to, why, by).to = to
         /\ Entry(from, to, why, by).why = why /\ Entry(from, to, why, by).by = by
BY DEF Entry

LEMMA AppendFacts ==
  ASSUME NEW S, NEW l \in Seq(S), NEW e \in S
  PROVE  /\ Append(l, e) \in Seq(S)
         /\ Len(Append(l, e)) = Len(l) + 1 /\ Len(l) \in Nat
         /\ DOMAIN l = 1 .. Len(l) /\ DOMAIN Append(l, e) = 1 .. Len(l) + 1
         /\ \A k \in 1 .. Len(l) : Append(l, e)[k] = l[k]
         /\ Append(l, e)[Len(l) + 1] = e
OBVIOUS

-----------------------------------------------------------------------------
(* The timeline accounts for the status, while the application is kept.      *)
LEMMA InitLog == Init => LogAgrees
<1> SUFFICES ASSUME Init PROVE LogAgrees
  OBVIOUS
<1>1. PICK s \in Asked \cup {"draft"}, by \in {"person", "import"} :
        /\ row = IF s = "draft" THEN Draft ELSE Moved(Draft, s, by = "person", 1)
        /\ log = IF s = "draft" THEN <<>> ELSE <<Entry("draft", s, NoReason, by)>>
  BY DEF Init
<1>2. CASE s = "draft"
  BY <1>1, <1>2 DEF LogAgrees, Draft
<1>3. CASE s # "draft"
  <2>1. row.status = s
    BY <1>1, <1>3 DEF Moved
  <2>2. log = <<Entry("draft", s, NoReason, by)>>
    BY <1>1, <1>3
  <2>3. log[1].from = "draft" /\ log[1].to = s /\ Len(log) = 1 /\ DOMAIN log = {1}
    BY <2>2 DEF Entry
  <2>4. QED
    BY <2>1, <2>2, <2>3 DEF LogAgrees
<1>4. QED
  BY <1>2, <1>3

LEMMA StepLog ==
  ASSUME TypeOK, LogAgrees, NEW r \in Requests, ServiceStep(r) \/ FormStep(r)
  PROVE  LogAgrees'
<1>0. outdated \subseteq outdated'
  BY OutdatedGrows
<1>1. PICK before \in Rows :
        /\ before.status = row.status
        /\ (row' = before /\ UNCHANGED log) \/ Changes(before)
  BY KeptMoves
<1>2. stored' = stored
  BY KeptMoves
<1>3. CASE row' = before /\ UNCHANGED log
  <2>1. row'.status = row.status /\ log' = log
    BY <1>1, <1>3
  <2>2. QED
    BY <1>0, <1>2, <2>1 DEF LogAgrees
<1>4. CASE Changes(before) /\ ~(row' = before /\ UNCHANGED log)
  <2>1. PICK new \in Statuses, why \in Reasons \cup {NoReason}, by \in Writers :
          /\ log' = Append(log, Entry(before.status, new, why, by))
          /\ \/ row' = Moved(before, new, TRUE, Len(log) + 1)
             \/ new = before.status /\ row' = before
    BY <1>4, ChangeIsAnEntry
  <2> DEFINE e == Entry(before.status, new, why, by)
  <2>2. e \in Entries /\ e.from = row.status /\ e.to = new
    <3>1. before.status \in Statuses /\ by \in Authors
      BY DEF Rows, Writers, Authors
    <3>2. e \in Entries
      BY <3>1 DEF Entry, Entries
    <3>3. QED
      BY <1>1, <3>2, EntryFields
  <2>3. row'.status = new
    BY <2>1 DEF Moved
  <2> HIDE DEF e
  <2>4. log \in Seq(Entries) /\ log' = Append(log, e)
    BY <2>1 DEF TypeOK, e
  <2>5. /\ DOMAIN log' = 1 .. Len(log) + 1 /\ Len(log') = Len(log) + 1 /\ Len(log) \in Nat
        /\ \A k \in 1 .. Len(log) : log'[k] = log[k]
        /\ log'[Len(log) + 1] = e /\ DOMAIN log = 1 .. Len(log)
    BY <2>2, <2>4, AppendFacts
  <2>6. ASSUME stored, "log" \notin outdated PROVE \A k \in DOMAIN log' :
          log'[k].from = IF k = 1 THEN "draft" ELSE log'[k - 1].to
    <3> SUFFICES ASSUME NEW k \in 1 .. Len(log) + 1
                 PROVE log'[k].from = IF k = 1 THEN "draft" ELSE log'[k - 1].to
      BY <2>5
    <3>1. CASE k \in 1 .. Len(log)
      BY <2>5, <2>6, <3>1 DEF LogAgrees
    <3>2. CASE k = Len(log) + 1
      <4>1. CASE Len(log) = 0
        BY <2>2, <2>4, <2>5, <2>6, <3>2, <4>1 DEF LogAgrees
      <4>2. CASE Len(log) # 0
        BY <2>2, <2>5, <2>6, <3>2, <4>2 DEF LogAgrees
      <4>3. QED
        BY <4>1, <4>2
    <3>3. QED
      BY <2>5, <3>1, <3>2
  <2>7. log' # <<>> /\ log'[Len(log')].to = row'.status
    BY <2>2, <2>3, <2>5
  <2>8. QED
    BY <1>0, <1>2, <2>6, <2>7 DEF LogAgrees
<1>5. QED
  BY <1>1, <1>3, <1>4

(* With the application gone there is nothing to account for, and a form that *)
(* puts it back is remembered.                                                *)
LEMMA DeleteLog ==
  ASSUME NEW r \in Requests, DeleteStep(r)
  PROVE  LogAgrees'
BY DEF DeleteStep, DeleteApplication, LogAgrees

(* With every service and every edit form at work, and requests overlapping   *)
(* in any order, the timeline accounts for the status of the application,     *)
(* unless a form has put a deleted row back without it.                       *)
THEOREM TimelineAccounts == Spec => []LogAgrees
<1>1. TypeOK /\ [Next]_vars => TypeOK'
  BY StepType, StutterType DEF Next
<1>2. TypeOK /\ LogAgrees /\ [Next]_vars => LogAgrees'
  <2>1. LogAgrees /\ UNCHANGED vars => LogAgrees'
    BY DEF LogAgrees, vars
  <2>2. QED
    BY <2>1, StepLog, DeleteLog DEF Next
<1>3. QED
  BY <1>1, <1>2, InitType, InitLog, PTL DEF Spec

-----------------------------------------------------------------------------
(* The timeline refines StatusHistory.  Its path, the ends of its entries,   *)
(* grows by one pair whenever the log grows by one entry.                    *)
Pairs == [from : Statuses, to : Statuses]

LEMMA FunSeq == ASSUME NEW S, NEW n \in Nat, NEW f \in [1..n -> S] PROVE f \in Seq(S) /\ Len(f) = n
OBVIOUS

LEMMA EntryPair ==
  ASSUME NEW l \in Seq(Entries), NEW k \in 1 .. Len(l)
  PROVE  [from |-> l[k].from, to |-> l[k].to] \in Pairs
<1>1. l[k] \in Entries
  OBVIOUS
<1>2. QED
  BY <1>1 DEF Entries, Pairs
LEMMA PathAppend ==
  ASSUME NEW l \in Seq(Entries), NEW e \in Entries
  PROVE  Path(Append(l, e)) = Append(Path(l), [from |-> e.from, to |-> e.to])
<1> DEFINE p == [from |-> e.from, to |-> e.to]
<1>1. p \in Pairs
  BY DEF Pairs, Entries
<1>2. /\ Append(l, e) \in Seq(Entries) /\ Len(Append(l, e)) = Len(l) + 1 /\ Len(l) \in Nat
      /\ DOMAIN l = 1 .. Len(l) /\ DOMAIN Append(l, e) = 1 .. Len(l) + 1
      /\ \A k \in 1 .. Len(l) : Append(l, e)[k] = l[k]
      /\ Append(l, e)[Len(l) + 1] = e
  BY AppendFacts
<1>3. Path(l) \in [1 .. Len(l) -> Pairs]
  BY <1>2, EntryPair DEF Path
<1>4. Path(l) \in Seq(Pairs) /\ Len(Path(l)) = Len(l)
  BY <1>2, <1>3, FunSeq
<1>5. Path(Append(l, e)) \in [1 .. Len(l) + 1 -> Pairs]
  BY <1>2, EntryPair DEF Path
<1>6. Path(Append(l, e)) \in Seq(Pairs) /\ Len(Path(Append(l, e))) = Len(l) + 1
  BY <1>2, <1>5, FunSeq
<1> HIDE DEF p
<1>7. /\ Append(Path(l), p) \in Seq(Pairs) /\ Len(Append(Path(l), p)) = Len(l) + 1
      /\ \A k \in 1 .. Len(l) : Append(Path(l), p)[k] = Path(l)[k]
      /\ Append(Path(l), p)[Len(l) + 1] = p
  BY <1>1, <1>4, AppendFacts
<1>8. \A k \in 1 .. Len(l) + 1 : Path(Append(l, e))[k] = Append(Path(l), p)[k]
  <2> SUFFICES ASSUME NEW k \in 1 .. Len(l) + 1
               PROVE  Path(Append(l, e))[k] = Append(Path(l), p)[k]
    OBVIOUS
  <2>1. Path(Append(l, e))[k] = [from |-> Append(l, e)[k].from, to |-> Append(l, e)[k].to]
    BY <1>2 DEF Path
  <2>2. CASE k \in 1 .. Len(l)
    BY <1>2, <1>7, <2>1, <2>2 DEF Path
  <2>3. CASE k = Len(l) + 1
    BY <1>2, <1>7, <2>1, <2>3 DEF p
  <2>4. k \in 1 .. Len(l) \/ k = Len(l) + 1
    BY <1>2
  <2>5. QED
    BY <2>2, <2>3, <2>4
<1>9. QED
  BY <1>6, <1>7, <1>8, SeqEqual DEF p

LEMMA InitHistory == Init => History!Init
<1> SUFFICES ASSUME Init PROVE History!Init
  OBVIOUS
<1>1. PICK s \in Asked \cup {"draft"}, by \in {"person", "import"} :
        /\ row = IF s = "draft" THEN Draft ELSE Moved(Draft, s, by = "person", 1)
        /\ log = IF s = "draft" THEN <<>> ELSE <<Entry("draft", s, NoReason, by)>>
  BY DEF Init
<1>2. s \in Statuses /\ "draft" \in Statuses /\ row.status = s
  BY <1>1, StatusFacts DEF Draft, Moved
<1>3. CASE s = "draft"
  <2>1. Path(log) = <<>>
    BY <1>1, <1>3 DEF Path
  <2>2. QED
    BY <1>2, <2>1 DEF History!Init
<1>4. CASE s # "draft"
  <2>1. log = <<Entry("draft", s, NoReason, by)>>
    BY <1>1, <1>4
  <2>2. Path(log) = <<[from |-> "draft", to |-> s]>>
    BY <2>1 DEF Path, Entry
  <2>3. QED
    BY <1>2, <2>2 DEF History!Init, History!Entry
<1>5. QED
  BY <1>3, <1>4

LEMMA StepHistory ==
  ASSUME TypeOK, NEW r \in Requests, ServiceStep(r) \/ FormStep(r)
  PROVE  History!Next \/ UNCHANGED History!hvars
<1>1. PICK before \in Rows :
        /\ before.status = row.status
        /\ (row' = before /\ UNCHANGED log) \/ Changes(before)
  BY KeptMoves
<1>2. CASE row' = before /\ UNCHANGED log
  BY <1>1, <1>2 DEF History!hvars, Path
<1>3. CASE Changes(before) /\ ~(row' = before /\ UNCHANGED log)
  <2>1. PICK new \in Statuses, why \in Reasons \cup {NoReason}, by \in Writers :
          /\ log' = Append(log, Entry(before.status, new, why, by))
          /\ \/ /\ new # before.status
                /\ row' = Moved(before, new, TRUE, Len(log) + 1)
             \/ /\ new = before.status /\ row' = before
                /\ why # NoReason /\ new \in Ends
    BY <1>3, ChangeIsAnEntry
  <2> DEFINE e == Entry(row.status, new, why, by)
  <2>2. e \in Entries
    <3>1. row.status \in Statuses /\ by \in Authors
      BY DEF TypeOK, Rows, Writers, Authors
    <3>2. QED
      BY <3>1 DEF Entry, Entries
  <2>3. e.from = row.status /\ e.to = new
    BY EntryFields
  <2>4. log \in Seq(Entries) /\ log' = Append(log, e)
    BY <1>1, <2>1 DEF TypeOK
  <2> HIDE DEF e
  <2>5. Path(log)' = Append(Path(log), [from |-> row.status, to |-> new])
    <3>1. Path(log)' = Path(Append(log, e))
      BY <2>4 DEF Path
    <3>2. QED
      BY <2>2, <2>3, <2>4, <3>1, PathAppend
  <2>6. row'.status = new
    BY <2>1 DEF Moved
  <2>7. CASE new # row.status
    BY <2>5, <2>6, <2>7 DEF History!Next, History!Move, History!Entry
  <2>8. CASE new = row.status
    BY <1>1, <2>1, <2>5, <2>6, <2>8 DEF History!Next, History!SayWhy, History!Entry
  <2>9. QED
    BY <2>7, <2>8
<1>4. QED
  BY <1>1, <1>2, <1>3

(* Requests overlapping in any order write what one careful clerk would: the  *)
(* services and the edit forms implement a status that moves only with an     *)
(* entry appended for it, and the entry says truly where it came from.        *)
THEOREM TimelineImplementsHistory == KeptSpec => KeepsHistory
<1>1. TypeOK /\ [KeptNext]_vars => TypeOK'
  BY StepType, StutterType DEF KeptNext
<1>2. TypeOK /\ [KeptNext]_vars => [History!Next]_(History!hvars)
  <2>1. UNCHANGED vars => UNCHANGED History!hvars
    BY DEF vars, History!hvars, Path
  <2>2. QED
    BY <2>1, StepHistory DEF KeptNext
<1>3. QED
  BY <1>1, <1>2, InitType, InitHistory, PTL DEF KeptSpec, KeepsHistory, History!Spec

-----------------------------------------------------------------------------
(* The two dates, until an edit form saves a whole row that is not the one   *)
(* that is stored.                                                           *)
LEMMA InitDates == Init => ClosedWhenSettled /\ AppliedWhenFirstSent
<1> SUFFICES ASSUME Init PROVE ClosedWhenSettled /\ AppliedWhenFirstSent
  OBVIOUS
<1>1. PICK s \in Asked \cup {"draft"}, by \in {"person", "import"} :
        /\ row = IF s = "draft" THEN Draft ELSE Moved(Draft, s, by = "person", 1)
        /\ log = IF s = "draft" THEN <<>> ELSE <<Entry("draft", s, NoReason, by)>>
  BY DEF Init
<1>2. CASE s = "draft"
  <2>1. row = Draft /\ log = <<>> /\ row.status = "draft" /\ row.closed = 0 /\ row.applied = 0
    BY <1>1, <1>2 DEF Draft
  <2>2. ClosedWhenSettled
    BY <2>1, StatusFacts DEF ClosedWhenSettled
  <2>3. AppliedWhenFirstSent
    BY <2>1 DEF AppliedWhenFirstSent
  <2>4. QED
    BY <2>2, <2>3
<1>3. CASE s # "draft"
  <2>1. /\ row.status = s
        /\ row.closed = (IF s \in Open THEN 0 ELSE 1)
        /\ row.applied = (IF by = "person" /\ s \in Sent THEN 1 ELSE 0)
    BY <1>1, <1>3 DEF Moved, Draft
  <2>2. /\ Len(log) = 1 /\ DOMAIN log = {1}
        /\ log[1].from = "draft" /\ log[1].to = s /\ log[1].by = by
    BY <1>1, <1>3 DEF Entry
  <2>3. ClosedWhenSettled
    BY <2>1, <2>2, StatusFacts DEF ClosedWhenSettled
  <2>4. AppliedWhenFirstSent
    <3> DEFINE stamping == {e \in DOMAIN log : /\ log[e].to \in Sent \ {log[e].from}
                                              /\ log[e].by # "import"}
    <3>1. stamping = IF by = "person" /\ s \in Sent THEN {1} ELSE {}
      BY <1>1, <1>3, <2>2
    <3>2. QED
      BY <2>1, <3>1 DEF AppliedWhenFirstSent
  <2>5. QED
    BY <2>3, <2>4
<1>4. QED
  BY <1>2, <1>3

(* What one change_status, from the row that is stored, leaves of them.       *)
LEMMA ChangeDates ==
  ASSUME TypeOK, ClosedWhenSettled, AppliedWhenFirstSent, stored, "dates" \notin outdated,
         Changes(row)
  PROVE  ClosedWhenSettled' /\ AppliedWhenFirstSent'
<1>1. CASE UNCHANGED <<row, log>>
  BY <1>1 DEF ClosedWhenSettled, AppliedWhenFirstSent
<1>2. CASE ~UNCHANGED <<row, log>>
  <2>1. PICK new \in Statuses, why \in Reasons \cup {NoReason}, by \in Writers :
          /\ log' = Append(log, Entry(row.status, new, why, by))
          /\ \/ /\ new # row.status
                /\ row' = Moved(row, new, TRUE, Len(log) + 1)
             \/ /\ new = row.status /\ row' = row
                /\ why # NoReason /\ new \in Ends
    BY <1>2, ChangeIsAnEntry DEF TypeOK
  <2> DEFINE e == Entry(row.status, new, why, by)
             n == Len(log) + 1
  <2>2. e.from = row.status /\ e.to = new /\ e.by = by /\ by # "import"
    BY EntryFields DEF Writers
  <2>3. e \in Entries
    <3>1. row.status \in Statuses /\ by \in Authors
      BY DEF TypeOK, Rows, Writers, Authors
    <3>2. QED
      BY <3>1 DEF Entry, Entries
  <2>4. log \in Seq(Entries) /\ log' = Append(log, e)
    BY <2>1 DEF TypeOK
  <2> HIDE DEF e
  <2>5. /\ n \in Nat /\ n > 0 /\ Len(log') = n /\ DOMAIN log' = 1 .. n /\ log'[n] = e
        /\ DOMAIN log = 1 .. n - 1 /\ Len(log) = n - 1
        /\ \A k \in 1 .. n - 1 : log'[k] = log[k]
    BY <2>3, <2>4, AppendFacts
  <2>6. row.applied \in Nat /\ row.closed \in Nat
    BY DEF TypeOK, Rows
  <2>7. /\ row'.status = new
        /\ row'.closed = IF new = row.status THEN row.closed
                         ELSE IF new \in Open THEN 0
                         ELSE IF row.closed = 0 THEN n ELSE row.closed
        /\ row'.applied = IF new # row.status /\ new \in Sent /\ row.applied = 0 THEN n
                          ELSE row.applied
    BY <2>1 DEF Moved
  <2> HIDE DEF n
  <2>8. ClosedWhenSettled'
    <3> SUFFICES IF row'.status \in Open THEN row'.closed = 0
                 ELSE /\ row'.closed \in DOMAIN log'
                      /\ log'[row'.closed].from \in Open
                      /\ \A k \in row'.closed .. Len(log') : log'[k].to \notin Open
      BY DEF ClosedWhenSettled
    <3>1. CASE new \in Open
      <4>1. new # row.status
        BY <2>1, <3>1 DEF Open, Ends, Rank
      <4>2. QED
        BY <2>7, <3>1, <4>1
    <3>2. CASE new \notin Open /\ row.status \in Open
      <4>1. row.closed = 0
        BY <3>2 DEF ClosedWhenSettled
      <4>2. row'.closed = n /\ row'.status = new
        BY <2>7, <3>2, <4>1
      <4>3. \A k \in n .. n : k = n
        BY <2>5
      <4>4. QED
        BY <2>2, <2>5, <3>2, <4>2, <4>3
    <3>3. CASE new \notin Open /\ row.status \notin Open
      <4>1. /\ row.closed \in 1 .. n - 1 /\ log[row.closed].from \in Open
            /\ \A k \in row.closed .. n - 1 : log[k].to \notin Open
        BY <2>5, <3>3 DEF ClosedWhenSettled
      <4>2. row'.closed = row.closed /\ row'.status = new
        BY <2>5, <2>7, <3>3, <4>1
      <4>3. \A k \in row.closed .. n : log'[k].to \notin Open
        BY <2>2, <2>5, <3>3, <4>1
      <4>4. QED
        BY <2>5, <3>3, <4>1, <4>2, <4>3
    <3>4. QED
      BY <3>1, <3>2, <3>3
  <2>9. AppliedWhenFirstSent'
    <3> DEFINE Stamps(l) == {k \in DOMAIN l : /\ l[k].to \in Sent \ {l[k].from}
                                             /\ l[k].by # "import"}
    <3>1. Stamps(log') = IF new \in Sent /\ new # row.status THEN Stamps(log) \cup {n}
                         ELSE Stamps(log)
      BY <2>2, <2>5
    <3>2. Stamps(log) \subseteq 1 .. n - 1
      BY <2>5
    <3>3. IF Stamps(log) = {} THEN row.applied = 0
           ELSE row.applied \in Stamps(log) /\ \A k \in Stamps(log) : row.applied <= k
      BY DEF AppliedWhenFirstSent
    <3> SUFFICES IF Stamps(log') = {} THEN row'.applied = 0
                 ELSE row'.applied \in Stamps(log')
                      /\ \A k \in Stamps(log') : row'.applied <= k
      BY DEF AppliedWhenFirstSent
    <3> HIDE DEF Stamps
    <3>4. CASE new \in Sent /\ new # row.status
      <4>1. CASE Stamps(log) = {}
        BY <2>5, <2>7, <3>1, <3>3, <3>4, <4>1
      <4>2. CASE Stamps(log) # {}
        <5>1. row.applied \in 1 .. n - 1
          BY <3>2, <3>3, <4>2
        <5>2. row'.applied = row.applied
          BY <2>5, <2>7, <5>1
        <5>3. QED
          BY <2>5, <3>1, <3>3, <3>4, <4>2, <5>1, <5>2
      <4>3. QED
        BY <4>1, <4>2
    <3>5. CASE ~(new \in Sent /\ new # row.status)
      BY <2>7, <3>1, <3>3, <3>5
    <3>6. QED
      BY <3>4, <3>5
  <2>10. QED
    BY <2>8, <2>9
<1>3. QED
  BY <1>1, <1>2

(* While no form has saved such a row, what is written starts from the row.   *)
LEMMA WritesTheRow ==
  ASSUME TypeOK, NEW r \in Requests, ServiceStep(r) \/ FormStep(r) \/ DeleteStep(r),
         stored', "dates" \notin outdated'
  PROVE  stored /\ "dates" \notin outdated /\ (UNCHANGED <<row, log>> \/ Changes(row))
<1>1. "dates" \notin outdated
  BY OutdatedGrows
<1>2. CASE ServiceStep(r)
  BY <1>1, <1>2, ServiceMoves
<1>3. CASE FormStep(r)
  <2>1. ASSUME NEW asked \in Asked, EditApplication(r, asked), Saves(r)
        PROVE  stored /\ (UNCHANGED <<row, log>> \/ Changes(row))
    <3>1. copy[r].row \in Rows /\ row \in Rows
      BY <2>1 DEF EditApplication, TypeOK, Holds, Copies
    <3>2. copy[r].row.applied = row.applied /\ copy[r].row.closed = row.closed
      BY <2>1 DEF Saves
    <3>3. Saved(r) = row
      BY <3>1, <3>2 DEF Saved, Rows
    <3> QED BY <2>1, <3>3, StatusFacts DEF EditApplication, Changes, Writers
  <2>2. ASSUME NEW i \in Interviews, NEW move \in BOOLEAN, EditInterview(r, i, move)
        PROVE  stored /\ UNCHANGED <<row, log>>
    BY <2>2 DEF EditInterview
  <2>3. ASSUME NEW o \in Offers, NEW terms \in BOOLEAN, ReviseOffer(r, o, terms)
        PROVE  stored /\ UNCHANGED <<row, log>>
    BY <2>3 DEF ReviseOffer
  <2> QED BY <1>1, <1>3, <2>1, <2>2, <2>3 DEF FormStep
<1>4. ~DeleteStep(r)
  BY DEF DeleteStep, DeleteApplication
<1> QED BY <1>2, <1>3, <1>4

LEMMA StepDates ==
  ASSUME TypeOK, ClosedWhenSettled, AppliedWhenFirstSent,
         NEW r \in Requests, ServiceStep(r) \/ FormStep(r) \/ DeleteStep(r)
  PROVE  ClosedWhenSettled' /\ AppliedWhenFirstSent'
<1>1. CASE stored' /\ "dates" \notin outdated'
  <2>1. stored /\ "dates" \notin outdated /\ (UNCHANGED <<row, log>> \/ Changes(row))
    BY <1>1, WritesTheRow
  <2>2. CASE UNCHANGED <<row, log>>
    BY <2>1, <2>2 DEF ClosedWhenSettled, AppliedWhenFirstSent
  <2> QED BY <2>1, <2>2, ChangeDates
<1>2. CASE ~(stored' /\ "dates" \notin outdated')
  BY <1>2 DEF ClosedWhenSettled, AppliedWhenFirstSent
<1> QED BY <1>1, <1>2

LEMMA DatesCorrect == Spec => [](TypeOK /\ ClosedWhenSettled /\ AppliedWhenFirstSent)
<1> DEFINE Inv == TypeOK /\ ClosedWhenSettled /\ AppliedWhenFirstSent
<1>1. Init => Inv
  BY InitType, InitDates
<1>2. Inv /\ [Next]_vars => Inv'
  <2>1. Inv /\ UNCHANGED vars => Inv'
    <3>1. UNCHANGED vars /\ ClosedWhenSettled => ClosedWhenSettled'
      BY DEF ClosedWhenSettled, vars
    <3>2. UNCHANGED vars /\ AppliedWhenFirstSent => AppliedWhenFirstSent'
      BY DEF AppliedWhenFirstSent, vars
    <3>3. QED
      BY <3>1, <3>2, StutterType
  <2>2. QED
    BY <2>1, StepType, StepDates DEF Next
<1>3. QED
  BY <1>1, <1>2, PTL DEF Spec

(* closed_at is set by the entry that left the open stages, and cleared when *)
(* the application reopens, whatever requests overlap, until an edit form    *)
(* drawn before the dates changed is saved.                                  *)
THEOREM ClosingDateFollows == Spec => []ClosedWhenSettled
BY DatesCorrect, PTL

(* applied_at is the moment of the first entry that says the application was *)
(* sent, and is never moved by a later one, until such a form is saved.      *)
THEOREM FirstSendingDated == Spec => []AppliedWhenFirstSent
BY DatesCorrect, PTL

(* Through the services alone, no edit form among them, both dates are right  *)
(* in every state, however old the copies their callers hold.                *)
THEOREM ServicesKeepDates ==
  ServiceSpec => []("dates" \notin outdated /\ AppliedWhenFirstSent /\ ClosedWhenSettled)
<1>1. Init => "dates" \notin outdated
  BY DEF Init
<1>2. "dates" \notin outdated /\ [ServiceNext]_vars => ("dates" \notin outdated)'
  BY DEF ServiceNext, ServiceStep, Judges, vars
<1>3. [ServiceNext]_vars => [Next]_vars
  BY DEF ServiceNext, Next
<1>4. ServiceSpec => Spec
  BY <1>3, PTL DEF ServiceSpec, Spec
<1> QED BY <1>1, <1>2, <1>4, ClosingDateFollows, FirstSendingDated, PTL DEF ServiceSpec

-----------------------------------------------------------------------------
(* NoNudgeWhenOver is not inductive: an edit form puts back the outcome it    *)
(* was drawn with, so what matters too is that a copy in somebody's hand that *)
(* says an interview is over is of one whose reminder has been ticked off.    *)
SilentCopies ==
  \A r \in Requests, i \in Interviews :
    Holds(r) /\ copy[r].outcome[i] \in Settled => nudge[i] # "open"

SilentInterviews == \A i \in Interviews : outcome[i] \in Settled => nudge[i] # "open"

(* And of an offer written to from no copy but the offer as it was, the only  *)
(* reminder that may ring is the one its row names.                          *)
SilentOffers ==
  \A o \in Offers :
    /\ 0 \notin answers[o]
    /\ o \notin overtaken => answers[o] \subseteq {bell[o]}
    /\ o \notin offers \cup overtaken => answers[o] = {}

Silent == TypeOK /\ SilentInterviews /\ SilentCopies /\ SilentOffers

LEMMA InitSilent == Init => SilentInterviews /\ SilentCopies /\ SilentOffers
BY DEF Init, SilentInterviews, SilentCopies, SilentOffers, Holds, Settled

(* A request that ends leaves the others their copies.                       *)
LEMMA EndsSilent ==
  ASSUME Silent, NEW r \in Requests, Done(r), UNCHANGED nudge
  PROVE  SilentCopies'
BY DEF Silent, SilentCopies, TypeOK, Done, Holds

(* Ticking off makes nothing ring that did not.                              *)
LEMMA TickedSilent ==
  ASSUME Silent, NEW r \in Requests, Done(r),
         NEW k \in Interviews, nudge' \in {nudge, TickOff(k)}
  PROVE  /\ SilentCopies'
         /\ \A x \in Interviews : nudge'[x] = "open" => nudge[x] = "open"
<1>1. \A x \in Interviews : nudge'[x] = "open" => nudge[x] = "open"
  BY DEF Silent, TypeOK, TickOff
<1>2. \A q \in Requests : Holds(q)' => Holds(q) /\ copy'[q] = copy[q]
  BY DEF Silent, TypeOK, Done, Holds
<1>3. QED
  BY <1>1, <1>2 DEF Silent, SilentCopies, Holds

LEMMA StepSilent ==
  ASSUME Silent, NEW r \in Requests, ServiceStep(r) \/ FormStep(r) \/ DeleteStep(r)
  PROVE  SilentInterviews' /\ SilentCopies'
<1> USE DEF Silent
<1>1. ASSUME Load(r) PROVE SilentInterviews' /\ SilentCopies'
  <2>1. SilentInterviews'
    BY <1>1 DEF Load, SilentInterviews
  <2>2. ASSUME NEW q \in Requests, Holds(q)'
        PROVE copy'[q].outcome = outcome \/ (Holds(q) /\ copy'[q] = copy[q])
    <3>1. CASE q = r
      BY <1>1, <3>1 DEF TypeOK, Load
    <3>2. CASE q # r
      BY <1>1, <2>2, <3>2 DEF TypeOK, Load, Holds
    <3>3. QED
      BY <3>1, <3>2
  <2>3. UNCHANGED nudge
    BY <1>1 DEF Load
  <2>4. QED
    BY <2>1, <2>2, <2>3 DEF SilentInterviews, SilentCopies, Holds
<1>2. ASSUME UNCHANGED <<outcome, nudge>>, Done(r)
      PROVE SilentInterviews' /\ SilentCopies'
  BY <1>2, EndsSilent DEF SilentInterviews
<1>3. ASSUME NEW i \in Interviews, ScheduleInterview(r, i)
      PROVE SilentInterviews' /\ SilentCopies'
  <2>1. \A k \in Interviews \ {i} : nudge'[k] = nudge[k]
    BY <1>3 DEF ScheduleInterview, TypeOK
  <2>2. /\ outcome'[i] = "scheduled"
        /\ \A j \in Interviews \ {i} : outcome'[j] = outcome[j]
    BY <1>3 DEF ScheduleInterview, TypeOK
  <2>3. SilentInterviews'
    BY <2>1, <2>2 DEF SilentInterviews, Settled
  <2>4. \A q \in Requests : Holds(q)' => Holds(q) /\ copy'[q] = copy[q]
    BY <1>3 DEF ScheduleInterview, TypeOK, Done, Holds
  <2>5. \A q \in Requests : Holds(q) => copy[q].outcome[i] \notin Settled
    BY <1>3 DEF ScheduleInterview, Unheard, Settled
  <2>6. QED
    BY <2>1, <2>3, <2>4, <2>5 DEF SilentCopies, Holds
<1>4. ASSUME NEW i \in Interviews, NEW how \in Settled, SettleInterview(r, i, how)
      PROVE SilentInterviews' /\ SilentCopies'
  <2>1. Done(r) /\ nudge' = TickOff(i)
    BY <1>4 DEF SettleInterview
  <2>2. nudge'[i] # "open"
    BY <2>1 DEF TickOff, TypeOK
  <2>3. \A j \in Interviews \ {i} : outcome'[j] = outcome[j]
    BY <1>4 DEF SettleInterview, TypeOK
  <2>4. /\ SilentCopies'
        /\ \A x \in Interviews : nudge'[x] = "open" => nudge[x] = "open"
    BY <2>1, TickedSilent
  <2>5. QED
    BY <2>1, <2>2, <2>3, <2>4 DEF SilentInterviews
<1>5. ASSUME NEW i \in Interviews, NEW move \in BOOLEAN, EditInterview(r, i, move)
      PROVE SilentInterviews' /\ SilentCopies'
  <2>1. Done(r) /\ nudge' \in {nudge, TickOff(i)} /\ Holds(r)
    BY <1>5 DEF EditInterview
  <2>2. outcome'[i] = copy[r].outcome[i] /\ \A j \in Interviews \ {i} : outcome'[j] = outcome[j]
    BY <1>5 DEF EditInterview, TypeOK
  <2>3. /\ SilentCopies'
        /\ \A x \in Interviews : nudge'[x] = "open" => nudge[x] = "open"
    BY <2>1, TickedSilent
  <2>4. copy[r].outcome[i] \in Settled => nudge[i] # "open"
    BY <2>1 DEF SilentCopies
  <2>5. QED
    BY <2>1, <2>2, <2>3, <2>4 DEF SilentInterviews
<1>6. ASSUME NEW o \in Offers, NEW terms \in BOOLEAN,
             RecordOffer(r, o) \/ ReviseOffer(r, o, terms) \/ WithdrawOffer(r, o)
      PROVE UNCHANGED <<outcome, nudge>> /\ Done(r)
  BY <1>6 DEF RecordOffer, ReviseOffer, WithdrawOffer
<1>7. ASSUME DeleteApplication(r) PROVE SilentInterviews' /\ SilentCopies'
  <2>1. \A k \in Interviews : nudge'[k] = "none"
    BY <1>7 DEF DeleteApplication
  <2>2. QED
    BY <2>1 DEF SilentInterviews, SilentCopies
<1>8. ASSUME NEW asked \in Asked, EditApplication(r, asked) \/ EditDeleted(r, asked)
       PROVE UNCHANGED <<outcome, nudge>> /\ Done(r)
  BY <1>8 DEF EditApplication, EditDeleted
<1>9. ASSUME NEW new \in Asked, NEW why \in Reasons \cup {NoReason}, SetStatus(r, new, why)
       PROVE UNCHANGED <<outcome, nudge>> /\ Done(r)
  BY <1>9 DEF SetStatus
<1>10. Leave(r) => UNCHANGED <<outcome, nudge>> /\ Done(r)
  BY DEF Leave
<1>11. QED
  BY <1>1, <1>2, <1>3, <1>4, <1>5, <1>6, <1>7, <1>8, <1>9, <1>10, StepCases
     DEF Services, Forms, Deletes

(* A reminder that is made is the one its offer's row names, and the only one *)
(* that rings.                                                                *)
LEMMA AnswerMade ==
  ASSUME Silent, NEW o \in Offers, NewAnswer(o), offers' = offers \cup {o},
         overtaken \subseteq overtaken',
         o \notin overtaken' => answers[o] = {}
  PROVE  SilentOffers'
<1>1. bell'[o] = made + 1 /\ answers'[o] = answers[o] \cup {made + 1} /\ made + 1 # 0
  BY DEF NewAnswer, Silent, TypeOK
<1>2. \A x \in Offers \ {o} : bell'[x] = bell[x] /\ answers'[x] = answers[x]
  BY DEF NewAnswer, Silent, TypeOK
<1> QED BY <1>1, <1>2 DEF Silent, SilentOffers

LEMMA StepAnswers ==
  ASSUME Silent, NEW r \in Requests, ServiceStep(r) \/ FormStep(r) \/ DeleteStep(r)
  PROVE  SilentOffers'
<1> USE DEF Silent
<1>0. overtaken \subseteq overtaken' /\ overtaken' \subseteq Offers
  BY OutdatedGrows
<1>1. UNCHANGED offerVars => SilentOffers'
  BY <1>0 DEF offerVars, answerVars, SilentOffers
<1>2. ASSUME NEW o \in Offers, RecordOffer(r, o) PROVE SilentOffers'
  <2>1. o \notin overtaken' => answers[o] = {}
    BY <1>0, <1>2 DEF RecordOffer, SilentOffers
  <2>2. CASE NewAnswer(o)
    BY <1>0, <1>2, <2>1, <2>2, AnswerMade DEF RecordOffer
  <2>3. CASE ~NewAnswer(o)
    <3>1. /\ offers' = offers \cup {o} /\ UNCHANGED answers
          /\ \A x \in Offers \ {o} : bell'[x] = bell[x]
      BY <1>2, <2>3 DEF RecordOffer, TypeOK
    <3> QED BY <1>0, <2>1, <3>1 DEF SilentOffers
  <2> QED BY <2>2, <2>3
<1>3. ASSUME NEW o \in Offers, NEW terms \in BOOLEAN, ReviseOffer(r, o, terms), Reminds(r, o)
      PROVE SilentOffers'
  <2> DEFINE b == copy[r].bell[o]
  <2>1. b \in Nat /\ offers' = offers \cup {o}
    BY <1>3 DEF ReviseOffer, TypeOK, Holds, Copies
  <2>2. o \notin overtaken' => answers[o] \subseteq {b}
    BY <1>3 DEF Reminds, SilentOffers
  <2>3. 0 \notin answers[o]
    BY DEF SilentOffers
  <2>4. CASE b = 0 /\ NewAnswer(o)
    BY <1>0, <2>1, <2>2, <2>3, <2>4, AnswerMade
  <2>5. ASSUME NEW S \in {answers[o], answers[o] \ {b}, answers[o] \cup {b}},
               S = answers[o] \cup {b} => b # 0,
               bell' = [bell EXCEPT ![o] = b], answers' = [answers EXCEPT ![o] = S]
        PROVE  SilentOffers'
    <3>1. bell'[o] = b /\ answers'[o] = S
      BY <2>5 DEF TypeOK
    <3>2. \A x \in Offers \ {o} : bell'[x] = bell[x] /\ answers'[x] = answers[x]
      BY <2>5 DEF TypeOK
    <3>3. 0 \notin S /\ (o \notin overtaken' => S \subseteq {b})
      BY <2>2, <2>3, <2>5
    <3>4. ASSUME NEW x \in Offers
          PROVE  /\ 0 \notin answers'[x]
                 /\ x \notin overtaken' => answers'[x] \subseteq {bell'[x]}
                 /\ x \notin offers' \cup overtaken' => answers'[x] = {}
      <4>1. CASE x = o
        BY <2>1, <3>1, <3>3, <4>1
      <4>2. CASE x # o
        BY <1>0, <2>1, <3>2, <4>2 DEF SilentOffers
      <4> QED BY <4>1, <4>2
    <3> QED BY <3>4 DEF SilentOffers
  <2>6. CASE UNCHANGED answers /\ bell' = [bell EXCEPT ![o] = b]
    <3>1. answers' = [answers EXCEPT ![o] = answers[o]]
      BY <2>6 DEF TypeOK
    <3>2. CASE answers[o] = answers[o] \cup {b}
      <4>1. b # 0
        BY <2>3, <3>2
      <4> QED BY <2>5, <2>6, <3>1, <4>1
    <3> QED BY <2>5, <2>6, <3>1, <3>2
  <2>7. CASE b # 0 /\ RemindToAnswer(o, b)
    BY <2>5, <2>7 DEF RemindToAnswer
  <2>8. \/ b = 0 /\ NewAnswer(o)
        \/ b # 0 /\ RemindToAnswer(o, b)
        \/ UNCHANGED answers /\ bell' = [bell EXCEPT ![o] = b]
    BY <1>3 DEF ReviseOffer, RemindToAnswer
  <2> QED BY <2>4, <2>6, <2>7, <2>8
<1>4. ASSUME NEW o \in Offers, WithdrawOffer(r, o), Withdraws(r, o) PROVE SilentOffers'
  <2>1. \A x \in Offers \ {o} : bell'[x] = bell[x] /\ answers'[x] = answers[x]
    BY <1>4 DEF WithdrawOffer, TypeOK
  <2>2. answers'[o] = IF o \in copy[r].ringing THEN answers[o] \ {copy[r].bell[o]} ELSE answers[o]
    BY <1>4 DEF WithdrawOffer, TypeOK
  <2>3. o \notin overtaken' => answers'[o] = {}
    BY <1>4, <2>2 DEF Withdraws, Ringing, SilentOffers
  <2>4. offers' = offers \ {o} /\ 0 \notin answers'[o]
    BY <1>4, <2>2 DEF WithdrawOffer, SilentOffers
  <2>5. ASSUME NEW x \in Offers
        PROVE  /\ 0 \notin answers'[x]
               /\ x \notin overtaken' => answers'[x] \subseteq {bell'[x]}
               /\ x \notin offers' \cup overtaken' => answers'[x] = {}
    <3>1. CASE x = o
      BY <2>3, <2>4, <3>1
    <3>2. CASE x # o
      BY <1>0, <2>1, <2>4, <3>2 DEF SilentOffers
    <3> QED BY <3>1, <3>2
  <2> QED BY <2>5 DEF SilentOffers
<1>5. DeleteApplication(r) => SilentOffers'
  BY DEF DeleteApplication, SilentOffers
<1>6. ASSUME NEW i \in Interviews, NEW how \in Settled, NEW move \in BOOLEAN,
             ScheduleInterview(r, i) \/ SettleInterview(r, i, how) \/ EditInterview(r, i, move)
      PROVE  UNCHANGED offerVars
  BY <1>6 DEF ScheduleInterview, SettleInterview, EditInterview
<1>7. ASSUME NEW asked \in Asked, NEW why \in Reasons \cup {NoReason},
             SetStatus(r, asked, why) \/ EditApplication(r, asked) \/ EditDeleted(r, asked)
      PROVE  UNCHANGED offerVars
  BY <1>7 DEF SetStatus, EditApplication, EditDeleted, offerVars
<1>8. Load(r) \/ Leave(r) => UNCHANGED offerVars
  BY DEF Load, Leave
<1>9. "done" \in Settled
  BY DEF Settled
<1>10. ServiceStep(r) => SilentOffers'
  BY <1>1, <1>2, <1>4, <1>6, <1>7, <1>8, <1>9 DEF ServiceStep
<1>11. FormStep(r) => SilentOffers'
  BY <1>1, <1>3, <1>6, <1>7, <1>9 DEF FormStep
<1>12. DeleteStep(r) => SilentOffers'
  BY <1>1, <1>5, <1>7 DEF DeleteStep
<1> QED BY <1>10, <1>11, <1>12

(* Whatever requests overlap, an edit form drawn before an interview was      *)
(* settled included, nothing rings for what is over: no interview with an     *)
(* outcome, and no withdrawn offer but one that was revised or withdrawn from *)
(* a copy that was not the offer, or not its reminder, by then.              *)
THEOREM NothingRingsWhenOver == Spec => []NoNudgeWhenOver
<1>1. Init => Silent
  BY InitType, InitSilent DEF Silent
<1>2. Silent /\ [Next]_vars => Silent'
  <2>1. Silent /\ Next => Silent'
    BY StepType, StepSilent, StepAnswers DEF Next, Silent
  <2>2. Silent /\ UNCHANGED vars => Silent'
    BY DEF Silent, TypeOK, SilentInterviews, SilentCopies, SilentOffers, Holds, vars,
           offerVars, answerVars
  <2>3. QED
    BY <2>1, <2>2
<1>3. Silent => NoNudgeWhenOver
  BY DEF Silent, SilentInterviews, SilentOffers, NoNudgeWhenOver
<1>4. QED
  BY <1>1, <1>2, <1>3, PTL DEF Spec

-----------------------------------------------------------------------------
(* What is judged by the place the application has is true of it: the entry   *)
(* goes forward.                                                              *)
MovesForward ==
  \A e \in DOMAIN log :
    log[e].by \in {"interview", "offer"} =>
      log[e].from \in Open /\ Rank[log[e].from] < Rank[log[e].to]

LEMMA CatchUpForward ==
  ASSUME TypeOK, MovesForward, NEW seen, seen = row.status,
         NEW target \in Open, NEW by \in {"interview", "offer"}, CatchUp(seen, target, by)
  PROVE  MovesForward'
<1> USE DEF TypeOK
<1>1. CASE ~Behind(seen, target)
  BY <1>1 DEF CatchUp, MovesForward
<1>2. CASE Behind(seen, target)
  <2>1. row.status \in Open /\ Rank[row.status] < Rank[target] /\ ChangeStatus(row, target, NoReason, by)
    BY <1>2 DEF Behind, CatchUp
  <2>2. row.status # target
    <3>1. Rank[target] \in Nat
      BY DEF Rank, Open
    <3> QED BY <2>1, <3>1
  <2>3. log' = Append(log, Entry(row.status, target, NoReason, by))
    BY <2>1, <2>2 DEF ChangeStatus, MoveTo
  <2>4. PICK e : e = Entry(row.status, target, NoReason, by)
    OBVIOUS
  <2>5. e.from = row.status /\ e.to = target /\ e \in Entries
    BY <2>4, StatusFacts, EntryFields DEF Entry, Entries, Rows, Authors
  <2>6. /\ DOMAIN log' = 1 .. Len(log) + 1 /\ DOMAIN log = 1 .. Len(log)
        /\ \A k \in 1 .. Len(log) : log'[k] = log[k]
        /\ log'[Len(log) + 1] = e /\ Len(log) \in Nat
    BY <2>3, <2>4, <2>5, AppendFacts
  <2>7. ASSUME NEW k \in DOMAIN log', log'[k].by \in {"interview", "offer"}
        PROVE  log'[k].from \in Open /\ Rank[log'[k].from] < Rank[log'[k].to]
    <3>1. CASE k = Len(log) + 1
      BY <2>1, <2>5, <2>6, <3>1
    <3>2. CASE k \in 1 .. Len(log)
      BY <2>6, <2>7, <3>2 DEF MovesForward
    <3> QED BY <2>6, <2>7, <3>1, <3>2
  <2> QED BY <2>7 DEF MovesForward
<1> QED BY <1>1, <1>2

(* What a person asks for is an entry of theirs. *)
LEMMA PersonForward ==
  ASSUME log \in Seq(Entries), MovesForward, NEW before \in Rows, NEW new \in Statuses,
         NEW why \in Reasons \cup {NoReason}, ChangeStatus(before, new, why, "person")
  PROVE  MovesForward'
<1>1. CASE UNCHANGED log
  BY <1>1 DEF MovesForward
<1>2. ASSUME NEW to \in Statuses, log' = Append(log, Entry(before.status, to, why, "person"))
      PROVE  MovesForward'
  <2>1. PICK e : e = Entry(before.status, to, why, "person")
    OBVIOUS
  <2>2. e.by = "person" /\ e \in Entries
    BY <2>1, EntryFields DEF Entry, Entries, Rows, Authors
  <2>3. /\ DOMAIN log' = 1 .. Len(log) + 1 /\ DOMAIN log = 1 .. Len(log)
        /\ \A k \in 1 .. Len(log) : log'[k] = log[k]
        /\ log'[Len(log) + 1] = e
    BY <1>2, <2>1, <2>2, AppendFacts
  <2>4. ASSUME NEW k \in DOMAIN log', log'[k].by \in {"interview", "offer"}
        PROVE  log'[k].from \in Open /\ Rank[log'[k].from] < Rank[log'[k].to]
    <3>1. k # Len(log) + 1
      BY <2>2, <2>3, <2>4
    <3>2. k \in 1 .. Len(log)
      BY <2>3, <3>1
    <3> QED BY <2>3, <2>4, <3>2 DEF MovesForward
  <2> QED BY <2>4 DEF MovesForward
<1>3. before.status \in Statuses
  BY DEF Rows
<1> QED BY <1>1, <1>2, <1>3 DEF ChangeStatus, MoveTo, SayWhy

LEMMA InitForward == Init => MovesForward
<1> SUFFICES ASSUME Init PROVE MovesForward
  OBVIOUS
<1>1. PICK s \in Asked \cup {"draft"}, by \in {"person", "import"} :
        log = IF s = "draft" THEN <<>> ELSE <<Entry("draft", s, NoReason, by)>>
  BY DEF Init
<1>2. \A e \in DOMAIN log : log[e].by \in {"person", "import"}
  BY <1>1 DEF Entry
<1> QED BY <1>2 DEF MovesForward

LEMMA StepForward ==
  ASSUME TypeOK, MovesForward, NEW r \in Requests, ServiceStep(r) \/ FormStep(r) \/ DeleteStep(r),
         "place" \notin outdated'
  PROVE  MovesForward'
<1>1. ASSUME UNCHANGED log PROVE MovesForward'
  BY <1>1 DEF MovesForward
<1>2. row \in Rows /\ log \in Seq(Entries)
  BY DEF TypeOK
<1>3. Judges(r) => copy[r].row.status = row.status
  BY DEF Judges
<1>4. ASSUME NEW new \in Asked, NEW why \in Reasons \cup {NoReason}, SetStatus(r, new, why)
      PROVE  MovesForward'
  BY <1>2, <1>4, PersonForward, StatusFacts DEF SetStatus
<1>5. ASSUME NEW i \in Interviews, NEW how \in Settled, SettleInterview(r, i, how),
             how = "done" => Judges(r)
      PROVE  MovesForward'
  <2>1. ReachedBy[i] \in Open
    BY StatusAssumption DEF Open, Rank
  <2>2. CASE how = "done"
    BY <1>3, <1>5, <2>1, <2>2, CatchUpForward DEF SettleInterview
  <2>3. CASE how # "done"
    BY <1>1, <1>5, <2>3 DEF SettleInterview
  <2> QED BY <2>2, <2>3
<1>6. ASSUME NEW o \in Offers, RecordOffer(r, o), Judges(r)
      PROVE  MovesForward'
  <2>1. "offer" \in Open
    BY StatusFacts
  <2> QED BY <1>3, <1>6, <2>1, CatchUpForward DEF RecordOffer
<1>7. ASSUME NEW asked \in Asked, EditApplication(r, asked)
      PROVE  MovesForward'
  BY <1>1, <1>2, <1>7, SavedType, PersonForward, StatusFacts, ReasonAssumption DEF EditApplication
<1>8. ASSUME NEW asked \in Asked, EditDeleted(r, asked)
      PROVE  MovesForward'
  <2>1. copy[r].row \in Rows
    BY <1>8 DEF EditDeleted, TypeOK, Holds, Copies
  <2> QED BY <1>1, <1>2, <1>8, <2>1, PersonForward, StatusFacts, ReasonAssumption DEF EditDeleted
<1>9. DeleteApplication(r) => MovesForward'
  BY DEF DeleteApplication, MovesForward
<1>10. ASSUME NEW i \in Interviews, NEW move \in BOOLEAN,
              ScheduleInterview(r, i) \/ EditInterview(r, i, move)
       PROVE  UNCHANGED log
  BY <1>10 DEF ScheduleInterview, EditInterview
<1>11. ASSUME NEW o \in Offers, NEW terms \in BOOLEAN, WithdrawOffer(r, o) \/ ReviseOffer(r, o, terms)
       PROVE  UNCHANGED log
  BY <1>11 DEF WithdrawOffer, ReviseOffer
<1>12. Load(r) \/ Leave(r) => UNCHANGED log
  BY DEF Load, Leave
<1>13. "done" \in Settled
  BY DEF Settled
<1>14. ServiceStep(r) => MovesForward'
  BY <1>1, <1>4, <1>5, <1>6, <1>10, <1>11, <1>12, <1>13 DEF ServiceStep
<1>15. FormStep(r) => MovesForward'
  BY <1>1, <1>7, <1>10, <1>11 DEF FormStep
<1>16. DeleteStep(r) => MovesForward'
  BY <1>8, <1>9 DEF DeleteStep
<1> QED BY <1>14, <1>15, <1>16

(* Whatever requests overlap, holding an interview or recording an offer never *)
(* moves an application back, nor out of an ending, but for what was judged by *)
(* a copy that named another place by then.                                  *)
THEOREM CatchingUpMovesForward == Spec => []CatchUpOnlyForward
<1> DEFINE Inv == TypeOK /\ CatchUpOnlyForward
<1>0. CatchUpOnlyForward <=> ("place" \notin outdated => MovesForward)
  BY DEF CatchUpOnlyForward, MovesForward
<1>0p. CatchUpOnlyForward' <=> ("place" \notin outdated' => MovesForward')
  BY DEF CatchUpOnlyForward, MovesForward
<1>1. Init => Inv
  BY InitType, InitForward, <1>0
<1>2. Inv /\ [Next]_vars => Inv'
  <2>1. ASSUME Inv, NEW r \in Requests, ServiceStep(r) \/ FormStep(r) \/ DeleteStep(r)
        PROVE  CatchUpOnlyForward'
    BY <2>1, <1>0, <1>0p, StepForward, OutdatedGrows
  <2>2. Inv /\ UNCHANGED vars => CatchUpOnlyForward'
    BY DEF CatchUpOnlyForward, vars
  <2> QED BY <2>1, <2>2, StepType, StutterType DEF Next
<1> QED BY <1>1, <1>2, PTL DEF Spec
=============================================================================
