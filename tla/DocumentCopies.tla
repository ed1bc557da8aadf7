--------------------------- MODULE DocumentCopies ---------------------------
(***************************************************************************)
(* The copies of one document that are owed to external stores, and those  *)
(* who send them: the passes of the scheduler and a person's Send now      *)
(* (documents/archiving.py; documents/signals.py for what a deletion takes *)
(* with it).                                                               *)
(*                                                                         *)
(* There is one copy per store connection.  A sender reads a list, claims  *)
(* a copy with a conditional update, hands the file to the store, which    *)
(* may take as long as it likes, and saves the whole row as it holds it.   *)
(* A claim is a time: nothing says whose it is, and it runs out.  Nothing  *)
(* of this is inside a transaction, so everybody else comes in between.    *)
(***************************************************************************)
EXTENDS Naturals

CONSTANTS Copies,       \* the connections the document is owed to, one copy each
          Senders,      \* passes and Send nows under way at once
          Nobody,       \* a sender with nothing in hand
          MaxAttempts,  \* MAX_ATTEMPTS: then a copy waits for a person
          MaxTries,     \* bound: attempts on one copy recorded
          MaxKills      \* bound: senders killed

ASSUME AttemptsAssumption == MaxAttempts \in Nat \ {0} /\ MaxTries \in Nat /\ MaxKills \in Nat

Statuses == {"pending", "sent", "failed", "declined"}

(* waits: the next attempt is still ahead (the backoff); claimed: the lease of
   a claim has not run out; tries: how often its state was recorded. *)
Rows == [there : BOOLEAN, status : Statuses, attempts : Nat, waits : BOOLEAN,
         claimed : BOOLEAN, tries : 0 .. MaxTries]
Seen == [of : Copies, status : Statuses, attempts : Nat, enabled : BOOLEAN,
         tries : 0 .. MaxTries, asked : BOOLEAN]
Outcomes == {"none", "sent", "failed", "declined"}
Jobs == [copy : Seen, outcome : Outcomes]

ASSUME NobodyAssumption == Nobody \notin Jobs

VARIABLES row,       \* the copies as they are stored
          conn,      \* each connection: switched on, off, or removed
          document,  \* the document is there
          allowed,   \* the policy allows the stores to the document's owner
          active,    \* the owner's account is switched on
          list,      \* what each sender has read and not come to
          job,       \* the copy each sender has claimed
          accepted,  \* how often each store has taken the document
          kills,     \* senders killed so far
          outlasted, \* history: copies whose lease ran out under a sender, or whose sender was
                     \* killed with a put it had not recorded
          givenBack, \* history: copies that Send now gave their attempts back
          unheard    \* history: how often each store took the document and did not say so

world == <<conn, document, allowed, active>>
histories == <<outlasted, givenBack, unheard>>
senders == <<list, job, accepted, kills, histories>>
vars == <<row, conn, document, allowed, active, list, job, accepted, kills, histories>>

TypeOK ==
  /\ row \in [Copies -> Rows]
  /\ conn \in [Copies -> {"on", "off", "gone"}]
  /\ document \in BOOLEAN /\ allowed \in BOOLEAN /\ active \in BOOLEAN
  /\ list \in [Senders -> SUBSET Seen]
  /\ job \in [Senders -> Jobs \cup {Nobody}]
  /\ accepted \in [Copies -> Nat] /\ unheard \in [Copies -> Nat]
  /\ kills \in 0 .. MaxKills
  /\ outlasted \subseteq Copies /\ givenBack \subseteq Copies

Unsent(there) == [there |-> there, status |-> "pending", attempts |-> 0, waits |-> FALSE,
                  claimed |-> FALSE, tries |-> 0]

Init ==
  /\ row = [c \in Copies |-> Unsent(FALSE)]
  /\ conn = [c \in Copies |-> "on"]
  /\ document = TRUE /\ allowed = TRUE /\ active = TRUE
  /\ list = [s \in Senders |-> {}]
  /\ job = [s \in Senders |-> Nobody]
  /\ accepted = [c \in Copies |-> 0] /\ unheard = [c \in Copies |-> 0]
  /\ kills = 0 /\ outlasted = {} /\ givenBack = {}

-----------------------------------------------------------------------------
(* schedule_copies, on creation and for Send everything: get_or_create, so a
   copy there already is left as it is.  A copy dropped with its connection is
   not made again: a connection added later is another one. *)
Schedule(c) ==
  /\ document /\ allowed /\ conn[c] = "on"
  /\ ~row[c].there
  /\ row' = [row EXCEPT ![c] = Unsent(TRUE)]
  /\ UNCHANGED world /\ UNCHANGED senders

(* A person switches a connection off and on. *)
SwitchConnection(c) ==
  /\ \/ conn[c] = "on" /\ conn' = [conn EXCEPT ![c] = "off"]
     \/ conn[c] = "off" /\ conn' = [conn EXCEPT ![c] = "on"]
  /\ UNCHANGED <<row, document, allowed, active>> /\ UNCHANGED senders

(* Removing a connection drops the copy it still owed, and keeps one sent. *)
RemoveConnection(c) ==
  /\ conn[c] # "gone"
  /\ conn' = [conn EXCEPT ![c] = "gone"]
  /\ row' = IF row[c].status = "sent" THEN row ELSE [row EXCEPT ![c].there = FALSE]
  /\ UNCHANGED <<document, allowed, active>> /\ UNCHANGED senders

DeleteDocument ==
  /\ document /\ document' = FALSE
  /\ row' = [c \in Copies |-> [row[c] EXCEPT !.there = FALSE]]
  /\ UNCHANGED <<conn, allowed, active>> /\ UNCHANGED senders

SwitchPolicy ==
  /\ allowed' = ~allowed
  /\ UNCHANGED <<row, conn, document, active>> /\ UNCHANGED senders

(* An administrator deactivates the owner's account, or the other way. *)
SwitchOwner ==
  /\ active' = ~active
  /\ UNCHANGED <<row, conn, document, allowed>> /\ UNCHANGED senders

(* The clock: the wait of a failed copy ends; the lease of a claim runs out, after
   whoever took it has done, or under somebody who is still at it. *)
WaitEnds(c) ==
  /\ row[c].waits
  /\ row' = [row EXCEPT ![c].waits = FALSE]
  /\ UNCHANGED world /\ UNCHANGED senders

HoldsOut(c) == \A s \in Senders : job[s] # Nobody => job[s].copy.of # c

LeaseEnds(c) ==
  /\ row[c].claimed
  /\ row' = [row EXCEPT ![c].claimed = FALSE]
  /\ outlasted' = IF HoldsOut(c) THEN outlasted ELSE outlasted \cup {c}
  /\ UNCHANGED world /\ UNCHANGED <<list, job, accepted, kills, givenBack, unheard>>

-----------------------------------------------------------------------------
Idle(s) == list[s] = {} /\ job[s] = Nobody

AsRead(c, asked) ==
  [of |-> c, status |-> row[c].status, attempts |-> row[c].attempts,
   enabled |-> conn[c] = "on", tries |-> row[c].tries, asked |-> asked]

\* Mutation: what has failed is not come back to.
Pending_OnlyNew(c) ==
  /\ row[c].there /\ row[c].status = "pending"
  /\ row[c].attempts < MaxAttempts
  /\ ~row[c].waits /\ ~row[c].claimed
  /\ conn[c] = "on" /\ allowed /\ active

(* pending_copies. *)
Pending(c) ==
  /\ row[c].there /\ row[c].status \in {"pending", "failed"}
  /\ row[c].attempts < MaxAttempts
  /\ ~row[c].waits /\ ~row[c].claimed
  /\ conn[c] = "on" /\ allowed /\ active

(* send_pending reads its list, of which the batch takes some: other documents'
   copies are before and behind this one's. *)
ReadBatch(s, batch) ==
  /\ Idle(s) /\ \A c \in batch : Pending(c)
  /\ list' = [list EXCEPT ![s] = {AsRead(c, FALSE) : c \in batch}]
  /\ UNCHANGED row /\ UNCHANGED world /\ UNCHANGED <<job, accepted, kills, histories>>

Batches == SUBSET Copies \ {{}}
ReadPending(s) == \E batch \in Batches : ReadBatch(s, batch)

(* send_now reads every copy not sent, whatever it waits for; what was missing
   is scheduled by the step before it.  The request was let in while its person
   was active, which is all it is asked. *)
ReadNow(s) ==
  /\ Idle(s) /\ document
  /\ \A c \in Copies : conn[c] = "on" /\ allowed => row[c].there
  /\ list' = [list EXCEPT ![s] =
       {AsRead(c, TRUE) : c \in {d \in Copies : /\ row[d].there /\ row[d].status # "sent"
                                                /\ conn[d] # "gone"}}]
  /\ UNCHANGED row /\ UNCHANGED world /\ UNCHANGED <<job, accepted, kills, histories>>

\* Mutation: the number of attempts is not compared.
Unchanged_StatusOnly(x) ==
  LET r == row[x.of] IN
  r.there /\ r.status = x.status /\ r.status # "sent" /\ ~r.claimed

\* Mutation: nobody else's claim is looked at.
Unchanged_Claimed(x) ==
  LET r == row[x.of] IN
  r.there /\ r.status = x.status /\ r.attempts = x.attempts /\ r.status # "sent"

\* Mutation: a copy is claimed by its key alone, while no lease is live.
Unchanged_KeyOnly(x) == row[x.of].there /\ ~row[x.of].claimed

(* claim: the row is as it was read, not sent, and nobody holds it. *)
Unchanged(x) ==
  LET r == row[x.of] IN
  /\ r.there /\ r.status = x.status /\ r.attempts = x.attempts
  /\ r.status # "sent" /\ ~r.claimed

(* One copy after the other: claimed, or somebody else has it.  Send now skips
   one the policy refuses, and gives the others their attempts back. *)
Claim(s, x) ==
  /\ job[s] = Nobody /\ x \in list[s]
  /\ list' = [list EXCEPT ![s] = @ \ {x}]
  /\ IF Unchanged(x) /\ (x.asked => allowed)
     THEN /\ row' = [row EXCEPT ![x.of].claimed = TRUE]
          /\ job' = [job EXCEPT ![s] =
               [copy |-> IF x.asked THEN [x EXCEPT !.attempts = 0] ELSE x, outcome |-> "none"]]
          /\ givenBack' = IF x.asked /\ x.attempts # 0 THEN givenBack \cup {x.of} ELSE givenBack
     ELSE UNCHANGED <<row, job, givenBack>>
  /\ UNCHANGED world /\ UNCHANGED <<accepted, kills, outlasted, unheard>>

Has(s, outcome) == job[s] # Nobody /\ job[s].outcome = outcome
Ends(s, outcome) == job' = [job EXCEPT ![s].outcome = outcome]

(* send_copy, refused by the policy: nothing is spent, and the claim is left
   to run out. *)
Refused(s) ==
  /\ Has(s, "none") /\ ~allowed
  /\ job' = [job EXCEPT ![s] = Nobody]
  /\ UNCHANGED row /\ UNCHANGED world /\ UNCHANGED <<list, accepted, kills, histories>>

(* It fails before the store is called: switched off when it was read, or the
   file is gone or damaged; or in the store, which may have taken the document
   all the same, when only its answer was lost.  A store that says the connection
   is finished has it switched off. *)
Fails(s) ==
  /\ Has(s, "none") /\ allowed
  /\ Ends(s, "failed")
  /\ LET c == job[s].copy.of IN
       /\ conn' \in {conn, IF conn[c] = "on" /\ job[s].copy.enabled
                           THEN [conn EXCEPT ![c] = "off"] ELSE conn}
       /\ \/ UNCHANGED <<accepted, unheard>>
          \/ /\ document /\ job[s].copy.enabled
             /\ accepted' = [accepted EXCEPT ![c] = @ + 1]
             /\ unheard' = [unheard EXCEPT ![c] = @ + 1]
  /\ UNCHANGED <<row, document, allowed, active, list, kills, outlasted, givenBack>>

(* The store takes it, or answers that it does not want the kind. *)
Put(s) ==
  /\ Has(s, "none") /\ allowed /\ document /\ job[s].copy.enabled
  /\ \/ /\ Ends(s, "sent")
        /\ accepted' = [accepted EXCEPT ![job[s].copy.of] = @ + 1]
     \/ Ends(s, "declined") /\ UNCHANGED accepted
  /\ UNCHANGED row /\ UNCHANGED world /\ UNCHANGED <<list, kills, histories>>

Written(s) ==
  LET j == job[s] c == j.copy.of IN
  [there |-> TRUE, status |-> j.outcome, attempts |-> j.copy.attempts + 1,
   waits |-> j.outcome = "failed", claimed |-> FALSE, tries |-> row[c].tries + 1]

(* The outcome is saved: every column, as this sender holds it, and as a new
   row if there is none any more. *)
Record(s) ==
  /\ job[s] # Nobody /\ job[s].outcome # "none"
  /\ LET c == job[s].copy.of IN
       /\ conn[c] # "gone" /\ row[c].tries < MaxTries
       /\ row' = [row EXCEPT ![c] = Written(s)]
  /\ job' = [job EXCEPT ![s] = Nobody]
  /\ UNCHANGED world /\ UNCHANGED <<list, accepted, kills, histories>>

(* The save names a connection that is no longer there: the database refuses
   it, and the exception ends the pass or the request. *)
RecordRaises(s) ==
  /\ job[s] # Nobody /\ job[s].outcome # "none"
  /\ conn[job[s].copy.of] = "gone"
  /\ job' = [job EXCEPT ![s] = Nobody]
  /\ list' = [list EXCEPT ![s] = {}]
  /\ UNCHANGED row /\ UNCHANGED world /\ UNCHANGED <<accepted, kills, histories>>

(* The process is killed: its claim stays on the row until it runs out. *)
Kill(s) ==
  /\ ~Idle(s) /\ kills < MaxKills
  /\ kills' = kills + 1
  /\ job' = [job EXCEPT ![s] = Nobody]
  /\ list' = [list EXCEPT ![s] = {}]
  /\ outlasted' = IF Has(s, "sent") THEN outlasted \cup {job[s].copy.of} ELSE outlasted
  /\ UNCHANGED row /\ UNCHANGED world /\ UNCHANGED <<accepted, givenBack, unheard>>

-----------------------------------------------------------------------------
ClaimNext(s) == \E x \in list[s] : Claim(s, x)

SenderStep(s) ==
  \/ ReadPending(s) \/ ClaimNext(s) \/ Refused(s) \/ Fails(s) \/ Put(s)
  \/ Record(s) \/ RecordRaises(s)

PersonStep ==
  \/ \E c \in Copies : Schedule(c) \/ SwitchConnection(c) \/ RemoveConnection(c)
  \/ DeleteDocument \/ SwitchPolicy \/ SwitchOwner
  \/ \E s \in Senders : ReadNow(s)

Next ==
  \/ PersonStep
  \/ \E c \in Copies : WaitEnds(c) \/ LeaseEnds(c)
  \/ \E s \in Senders : SenderStep(s) \/ Kill(s)

PassNext ==
  \/ \E c \in Copies : Schedule(c) \/ SwitchConnection(c) \/ RemoveConnection(c)
  \/ SwitchPolicy \/ SwitchOwner
  \/ \E c \in Copies : WaitEnds(c) \/ (LeaseEnds(c) /\ HoldsOut(c))
  \/ \E s \in Senders : SenderStep(s) \/ Kill(s)

Comes(c) == \E s \in Senders, batch \in Batches : c \in batch /\ ReadBatch(s, batch)

(* The scheduler comes round, a sender that has begun goes on, time passes.  A
   copy is read in its turn, since the lists are in the order of the next
   attempt, and what was tried is put behind what waits. *)
Fairness ==
  /\ \A s \in Senders : /\ WF_vars(ClaimNext(s))
                        /\ WF_vars(Refused(s) \/ Fails(s) \/ Put(s))
                        /\ WF_vars(Record(s) \/ RecordRaises(s))
  /\ \A c \in Copies : /\ SF_vars(Comes(c))
                       /\ WF_vars(WaitEnds(c)) /\ WF_vars(LeaseEnds(c) /\ HoldsOut(c))

Spec == Init /\ [][Next]_vars
PassSpec == Init /\ [][PassNext]_vars  \* nobody presses Send now
FairSpec == PassSpec /\ Fairness

-----------------------------------------------------------------------------
(* A copy is in the hands of one sender at a time, unless one has outlasted its
   lease. *)
OneSender ==
  \A s, t \in Senders :
    job[s] # Nobody /\ job[t] # Nobody /\ s # t =>
      job[s].copy.of # job[t].copy.of \/ job[s].copy.of \in outlasted

(* A store takes the document once, however many passes and Send nows had read
   that it was still owed; once more for each time it took it and its answer was
   lost, which is tried again; unless a sender outlasted its lease, or died before
   it had recorded that it was taken. *)
AcceptedOnce == \A c \in Copies : accepted[c] <= 1 + unheard[c] \/ c \in outlasted

(* A copy the store has taken says so, and goes on saying so: no sender that
   read it earlier puts another outcome over it, unless it outlasted its lease. *)
SentStays ==
  [][\A c \in Copies \ outlasted :
       row[c].there /\ row[c].status = "sent" /\ row'[c].there => row'[c].status = "sent"]_vars

(* A sender takes a copy only as it was read: nobody has tried it, and
   recorded how that went, since; unless Send now had given its attempts back,
   which are what tells, or two had tried it at once. *)
ClaimedAsRead ==
  [][\A s \in Senders :
       job[s] = Nobody /\ job'[s] # Nobody =>
         \/ row[job'[s].copy.of].tries = job'[s].copy.tries
         \/ job'[s].copy.of \in outlasted \cup givenBack]_vars

(* A copy that is due is settled, or stops being due for a reason: it is sent,
   declined, given up on, or held back by a person, who may for one deactivate its
   owner; no copy is forgotten because somebody claimed it and died. *)
Owed(c) ==
  /\ row[c].there /\ row[c].status \in {"pending", "failed"}
  /\ row[c].attempts < MaxAttempts /\ conn[c] = "on" /\ allowed /\ active
CopiesSettle == \A c \in Copies : Owed(c) ~> ~Owed(c)
=============================================================================
