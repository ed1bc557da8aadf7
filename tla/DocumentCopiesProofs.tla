------------------------ MODULE DocumentCopiesProofs ------------------------
(***************************************************************************)
(* DocumentCopies, for any number of stores and senders: every state is    *)
(* well typed; and but for copies whose lease ran out under a sender, or   *)
(* whose sender died with a put it had not recorded, a copy has one sender *)
(* at a time, a store that says so takes a document once, a copy that is   *)
(* sent stays sent, and one is claimed only as it was read.                *)
(***************************************************************************)
EXTENDS DocumentCopies, TLAPS

LEMMA UnsentTyped == \A b \in BOOLEAN : Unsent(b) \in Rows
BY AttemptsAssumption DEF Unsent, Rows, Statuses

(* What is read of a copy is a snapshot of its row. *)
LEMMA AsReadTyped ==
  ASSUME TypeOK, NEW c \in Copies, NEW asked \in BOOLEAN
  PROVE  AsRead(c, asked) \in Seen
<1>1. row[c] \in Rows
  BY DEF TypeOK
<1> QED BY <1>1 DEF AsRead, Seen, Rows

LEMMA InitTyped == Init => TypeOK
<1> SUFFICES ASSUME Init PROVE TypeOK
  OBVIOUS
<1>1. row \in [Copies -> Rows]
  BY UnsentTyped DEF Init
<1>2. list \in [Senders -> SUBSET Seen]
  BY DEF Init
<1>3. job \in [Senders -> Jobs \cup {Nobody}]
  BY DEF Init
<1>4. /\ conn \in [Copies -> {"on", "off", "gone"}]
      /\ accepted \in [Copies -> Nat] /\ unheard \in [Copies -> Nat]
  BY DEF Init
<1>5. document \in BOOLEAN /\ allowed \in BOOLEAN /\ active \in BOOLEAN
  BY Zenon DEF Init
<1>6. kills \in 0 .. MaxKills
  BY AttemptsAssumption DEF Init
<1>7. outlasted \subseteq Copies /\ givenBack \subseteq Copies
  BY DEF Init
<1> QED BY <1>1, <1>2, <1>3, <1>4, <1>5, <1>6, <1>7 DEF TypeOK

(* Every action keeps every variable in its type. *)
LEMMA NextTyped == TypeOK /\ [Next]_vars => TypeOK'
<1> SUFFICES ASSUME TypeOK, [Next]_vars PROVE TypeOK'
  OBVIOUS
<1> USE DEF TypeOK, world, histories, senders
<1>1. ASSUME NEW c \in Copies, Schedule(c)
      PROVE  TypeOK'
  <2>1. row' \in [Copies -> Rows]
    BY <1>1, UnsentTyped DEF Schedule
  <2> QED BY <1>1, <2>1 DEF Schedule
<1>2. ASSUME NEW c \in Copies, SwitchConnection(c)
      PROVE  TypeOK'
  BY <1>2 DEF SwitchConnection
<1>3. ASSUME NEW c \in Copies, RemoveConnection(c) \/ WaitEnds(c) \/ LeaseEnds(c)
      PROVE  TypeOK'
  <2>1. \A d \in Copies : /\ [row[d] EXCEPT !.there = FALSE] \in Rows
                          /\ [row[d] EXCEPT !.waits = FALSE] \in Rows
                          /\ [row[d] EXCEPT !.claimed = FALSE] \in Rows
    BY DEF Rows
  <2>2. row' \in [Copies -> Rows]
    BY <1>3, <2>1 DEF RemoveConnection, WaitEnds, LeaseEnds
  <2> QED BY <1>3, <2>2 DEF RemoveConnection, WaitEnds, LeaseEnds
<1>4. CASE DeleteDocument
  <2>1. \A d \in Copies : [row[d] EXCEPT !.there = FALSE] \in Rows
    BY DEF Rows
  <2> QED BY <1>4, <2>1 DEF DeleteDocument
<1>5. CASE SwitchPolicy \/ SwitchOwner
  <2>1. allowed' \in BOOLEAN /\ active' \in BOOLEAN
    BY <1>5, Zenon DEF SwitchPolicy, SwitchOwner
  <2> QED BY <1>5, <2>1 DEF SwitchPolicy, SwitchOwner
<1>6. ASSUME NEW s \in Senders, ReadPending(s) \/ ReadNow(s)
      PROVE  TypeOK'
  <2>1. \A c \in Copies : AsRead(c, FALSE) \in Seen /\ AsRead(c, TRUE) \in Seen
    BY AsReadTyped
  <2>2. CASE ReadPending(s)
    <3>1. PICK batch \in Batches : ReadBatch(s, batch)
      BY <2>2 DEF ReadPending
    <3> DEFINE due == {AsRead(c, FALSE) : c \in batch}
    <3>2. due \in SUBSET Seen
      BY <2>1 DEF Batches
    <3>3. list' = [list EXCEPT ![s] = due]
      BY <3>1 DEF ReadBatch
    <3> HIDE DEF due
    <3> QED BY <3>1, <3>2, <3>3 DEF ReadBatch
  <2>3. CASE ReadNow(s)
    <3> DEFINE owed == {AsRead(c, TRUE) : c \in {d \in Copies : /\ row[d].there
                                                              /\ row[d].status # "sent"
                                                              /\ conn[d] # "gone"}}
    <3>1. owed \in SUBSET Seen
      BY <2>1
    <3>2. list' = [list EXCEPT ![s] = owed]
      BY <2>3 DEF ReadNow
    <3> HIDE DEF owed
    <3> QED BY <2>3, <3>1, <3>2 DEF ReadNow
  <2> QED BY <1>6, <2>2, <2>3
<1>7. ASSUME NEW s \in Senders, NEW x \in list[s], Claim(s, x)
      PROVE  TypeOK'
  <2>1. x \in Seen
    OBVIOUS
  <2>2. x.of \in Copies /\ row[x.of] \in Rows
    BY <2>1 DEF Seen
  <2>3. [row[x.of] EXCEPT !.claimed = TRUE] \in Rows
    BY <2>2 DEF Rows
  <2>4. [x EXCEPT !.attempts = 0] \in Seen
    BY <2>1 DEF Seen
  <2>5. \A y \in Seen : [copy |-> y, outcome |-> "none"] \in Jobs
    BY DEF Jobs, Outcomes
  <2>6. row' \in [Copies -> Rows]
    BY <1>7, <2>2, <2>3 DEF Claim
  <2>7. job' \in [Senders -> Jobs \cup {Nobody}]
    BY <1>7, <2>1, <2>4, <2>5 DEF Claim
  <2>8. list' \in [Senders -> SUBSET Seen]
    BY <1>7 DEF Claim
  <2>9. outlasted' = outlasted /\ givenBack' \subseteq Copies
    BY <1>7, <2>2 DEF Claim
  <2> QED BY <1>7, <2>6, <2>7, <2>8, <2>9 DEF Claim
<1>8. ASSUME NEW s \in Senders, Refused(s) \/ RecordRaises(s) \/ Kill(s)
      PROVE  TypeOK'
  <2>1. CASE Refused(s)
    BY <2>1 DEF Refused
  <2>2. CASE RecordRaises(s)
    BY <2>2 DEF RecordRaises
  <2>3. CASE Kill(s)
    <3>1. outlasted' \subseteq Copies /\ givenBack' = givenBack
      BY <2>3 DEF Kill, Has, Jobs, Seen
    <3>2. kills' \in 0 .. MaxKills
      BY <2>3, AttemptsAssumption DEF Kill
    <3> QED BY <2>3, <3>1, <3>2 DEF Kill
  <2> QED BY <1>8, <2>1, <2>2, <2>3
<1>9. ASSUME NEW s \in Senders, Fails(s) \/ Put(s)
      PROVE  TypeOK'
  <2>1. job[s] \in Jobs /\ job[s].copy \in Seen /\ job[s].copy.of \in Copies
    BY <1>9 DEF Fails, Put, Has, Jobs, Seen
  <2>2. \A o \in Outcomes : [job[s] EXCEPT !.outcome = o] \in Jobs
    BY <2>1 DEF Jobs
  <2>3. job' \in [Senders -> Jobs \cup {Nobody}]
    BY <1>9, <2>2 DEF Fails, Put, Ends, Outcomes
  <2>4. conn' \in [Copies -> {"on", "off", "gone"}]
    BY <1>9, <2>1 DEF Fails, Put
  <2>5. accepted' \in [Copies -> Nat] /\ unheard' \in [Copies -> Nat]
    BY <1>9, <2>1 DEF Fails, Put
  <2> QED BY <1>9, <2>3, <2>4, <2>5 DEF Fails, Put
<1>10. ASSUME NEW s \in Senders, Record(s)
       PROVE  TypeOK'
  <2>1. job[s] \in Jobs /\ job[s].copy \in Seen /\ job[s].outcome \in Statuses
    BY <1>10 DEF Record, Jobs, Outcomes, Statuses
  <2>2. /\ job[s].copy.of \in Copies /\ job[s].copy.attempts + 1 \in Nat
        /\ row[job[s].copy.of] \in Rows
    BY <2>1 DEF Seen
  <2>3. row[job[s].copy.of].tries + 1 \in 0 .. MaxTries
    BY <1>10, <2>2, AttemptsAssumption DEF Record, Rows
  <2>4. Written(s) \in Rows
    BY <2>1, <2>2, <2>3 DEF Written, Rows
  <2>5. row' \in [Copies -> Rows]
    BY <1>10, <2>2, <2>4 DEF Record
  <2> QED BY <1>10, <2>5 DEF Record
<1>11. CASE UNCHANGED vars
  BY <1>11 DEF vars
<1> QED BY <1>1, <1>2, <1>3, <1>4, <1>5, <1>6, <1>7, <1>8, <1>9, <1>10, <1>11
        DEF Next, PersonStep, SenderStep, ClaimNext

(* Every state of every schedule is well typed. *)
THEOREM CopiesTyped == Spec => []TypeOK
BY InitTyped, NextTyped, PTL DEF Spec

-----------------------------------------------------------------------------
(* The invariant, one copy at a time, for those that nobody has outlasted.  One
   sender at most is at the copy, it holds its claim, the copy is not sent, and the
   store has not said that it took the document unless this sender has just heard it. *)
On(s, c) == job[s] # Nobody /\ job[s].copy.of = c
(* How often the store has said that it took the document. *)
Told(c) == accepted[c] - unheard[c]

Alone(c) == \A s, t \in Senders : On(s, c) /\ On(t, c) => s = t

Held(c) ==
  \A s \in Senders : On(s, c) =>
    /\ row[c].claimed /\ row[c].status # "sent"
    /\ job[s].outcome # "sent" => Told(c) = 0

(* What a store has taken is on its way into the row, is in the row, or the
   connection it went to has been removed. *)
Taken(c) ==
  /\ Told(c) \in 0 .. 1
  /\ Told(c) = 1 =>
       \/ \E s \in Senders : On(s, c) /\ job[s].outcome = "sent"
       \/ row[c].status = "sent"
       \/ conn[c] = "gone"

(* A row is missing because its connection or its document was removed, or
   because nothing was ever sent. *)
Missing(c) ==
  /\ conn[c] = "gone" /\ row[c].there => row[c].status = "sent"
  /\ document /\ conn[c] # "gone" /\ ~row[c].there =>
       Told(c) = 0 /\ \A s \in Senders : ~On(s, c)

Orderly(c) == Alone(c) /\ Held(c) /\ Taken(c) /\ Missing(c)

LEMMA InitOrderly == Init => \A c \in Copies : Orderly(c)
<1> SUFFICES ASSUME Init PROVE \A c \in Copies : Orderly(c)
  OBVIOUS
<1>1. \A s \in Senders : job[s] = Nobody
  BY DEF Init
<1>0. \A c \in Copies : accepted[c] = 0 /\ unheard[c] = 0 /\ conn[c] = "on"
  BY DEF Init
<1>2. ASSUME NEW c \in Copies
      PROVE  Told(c) = 0 /\ conn[c] = "on"
  <2>1. accepted[c] = 0 /\ unheard[c] = 0 /\ conn[c] = "on"
    BY <1>0
  <2>2. accepted[c] - unheard[c] = 0
    BY <2>1
  <2> QED BY <2>1, <2>2 DEF Told
<1>3. \A c \in Copies, s \in Senders : ~On(s, c)
  BY <1>1 DEF On
<1>4. \A c \in Copies : Alone(c) /\ Held(c)
  BY <1>3 DEF Alone, Held
<1>5. ASSUME NEW c \in Copies
      PROVE  Taken(c)
  <2>1. Told(c) = 0
    BY <1>2
  <2>2. Told(c) \in 0 .. 1 /\ Told(c) # 1
    BY <2>1
  <2> QED BY <2>2 DEF Taken
<1>6. \A c \in Copies : Missing(c)
  BY <1>2, <1>3 DEF Missing
<1> QED BY <1>4, <1>5, <1>6 DEF Orderly

(* A step that leaves a copy's row, connection, jobs and count alone, and does
   not bring the document back, leaves it orderly. *)
LEMMA OrderlyFrame ==
  ASSUME NEW c \in Copies, Orderly(c), row'[c] = row[c], Told(c)' = Told(c),
         conn'[c] = "gone" <=> conn[c] = "gone", document' => document,
         \A s \in Senders : On(s, c)' <=> On(s, c),
         \A s \in Senders : On(s, c) => job'[s].outcome = job[s].outcome
  PROVE  Orderly(c)'
BY DEF Orderly, Alone, Held, Taken, Missing

(* One that leaves all of them alone but for what the row waits for, and whether it
   is there, does so if no row goes but with its document, or because it was owed to a
   connection that goes. *)
LEMMA OrderlyTouched ==
  ASSUME NEW c \in Copies, Orderly(c), UNCHANGED <<job, accepted, unheard>>, document' => document,
         row'[c].status = row[c].status,
         \A s \in Senders : On(s, c) => (row[c].claimed => row'[c].claimed),
         \/ conn'[c] = conn[c] /\ (row'[c].there <=> row[c].there)
         \/ conn'[c] = "gone" /\ (row'[c].there => row[c].status = "sent")
         \/ conn'[c] = conn[c] /\ ~document' /\ ~row'[c].there
  PROVE  Orderly(c)'
BY DEF Orderly, Alone, Held, Taken, Missing, On, Told

(* What somebody does to one copy is nothing to another. *)
LEMMA OtherRows ==
  ASSUME TypeOK, NEW c \in Copies, NEW d \in Copies, c # d,
         Schedule(d) \/ SwitchConnection(d) \/ RemoveConnection(d) \/ WaitEnds(d) \/ LeaseEnds(d)
  PROVE  /\ row'[c] = row[c] /\ conn'[c] = conn[c]
         /\ UNCHANGED <<document, list, job, accepted, unheard>>
BY DEF Schedule, SwitchConnection, RemoveConnection, WaitEnds, LeaseEnds, TypeOK, world, senders,
       histories

(* What a person or the clock does to a copy. *)
LEMMA RowOrderly ==
  ASSUME TypeOK, NEW c \in Copies, Orderly(c), c \notin outlasted', NEW d \in Copies,
         Schedule(d) \/ SwitchConnection(d) \/ RemoveConnection(d) \/ WaitEnds(d) \/ LeaseEnds(d)
  PROVE  Orderly(c)'
<1>0. row \in [Copies -> Rows] /\ row[c] \in Rows /\ conn \in [Copies -> {"on", "off", "gone"}]
  BY DEF TypeOK
<1>1. CASE c # d
  BY <1>1, OtherRows, OrderlyFrame DEF On, Told
<1>2. CASE c = d
  <2>1. UNCHANGED <<document, job, accepted, unheard>>
    BY DEF Schedule, SwitchConnection, RemoveConnection, WaitEnds, LeaseEnds, world, senders, histories
  <2>2. CASE Schedule(c)
    <3>1. row'[c] = Unsent(TRUE) /\ conn[c] = "on" /\ document /\ ~row[c].there /\ conn' = conn
      BY <1>0, <2>2 DEF Schedule, world
    <3>2. row'[c].there /\ row'[c].status # "sent"
      BY <3>1 DEF Unsent
    <3>3. Told(c) = 0 /\ \A s \in Senders : ~On(s, c)
      BY <3>1 DEF Orderly, Missing
    <3>4. \A s \in Senders : ~On(s, c)'
      BY <2>1, <3>3 DEF On
    <3>5. Alone(c)' /\ Held(c)'
      BY <3>4 DEF Alone, Held
    <3>6. Taken(c)'
      BY <2>1, <3>3 DEF Taken, Told
    <3>7. Missing(c)'
      BY <3>1, <3>2 DEF Missing
    <3> QED BY <3>5, <3>6, <3>7 DEF Orderly
  <2>3. CASE SwitchConnection(c)
    <3>1. row' = row /\ (conn'[c] = "gone" <=> conn[c] = "gone")
      BY <1>0, <2>3 DEF SwitchConnection
    <3> QED BY <2>1, <3>1, OrderlyFrame DEF On, Told
  <2>4. CASE RemoveConnection(c)
    <3>1. conn'[c] = "gone"
      BY <1>0, <2>4 DEF RemoveConnection
    <3>2. CASE row[c].status = "sent"
      BY <2>1, <2>4, <3>1, <3>2, OrderlyTouched DEF RemoveConnection
    <3>3. CASE row[c].status # "sent"
      <4>1. row'[c] = [row[c] EXCEPT !.there = FALSE]
        BY <1>0, <2>4, <3>3 DEF RemoveConnection
      <4>2. ~row'[c].there /\ row'[c].status = row[c].status /\ (row'[c].claimed <=> row[c].claimed)
        BY <1>0, <4>1 DEF Rows
      <4> QED BY <2>1, <3>1, <4>2, OrderlyTouched
    <3> QED BY <3>2, <3>3
  <2>5. CASE WaitEnds(c)
    <3>1. row'[c] = [row[c] EXCEPT !.waits = FALSE] /\ conn' = conn
      BY <1>0, <2>5 DEF WaitEnds, world
    <3>2. /\ row'[c].there <=> row[c].there
          /\ row'[c].claimed <=> row[c].claimed
          /\ row'[c].status = row[c].status
      BY <1>0, <3>1 DEF Rows
    <3> QED BY <2>1, <3>1, <3>2, OrderlyTouched
  <2>6. CASE LeaseEnds(c)
    <3>1. row'[c] = [row[c] EXCEPT !.claimed = FALSE] /\ conn' = conn
      BY <1>0, <2>6 DEF LeaseEnds, world
    <3>2. (row'[c].there <=> row[c].there) /\ row'[c].status = row[c].status
      BY <1>0, <3>1 DEF Rows
    <3>3. \A s \in Senders : ~On(s, c)
      BY <1>2, <2>6 DEF LeaseEnds, HoldsOut, On
    <3> QED BY <2>1, <3>1, <3>2, <3>3, OrderlyTouched
  <2> QED BY <1>2, <2>2, <2>3, <2>4, <2>5, <2>6
<1> QED BY <1>1, <1>2

LEMMA DeleteOrderly ==
  ASSUME TypeOK, NEW c \in Copies, Orderly(c), DeleteDocument
  PROVE  Orderly(c)'
<1>1. ~document' /\ UNCHANGED <<conn, job, accepted, unheard>>
  BY DEF DeleteDocument, senders, histories
<1>2. row[c] \in Rows /\ row'[c] = [row[c] EXCEPT !.there = FALSE]
  BY DEF DeleteDocument, TypeOK
<1>3. ~row'[c].there /\ row'[c].status = row[c].status /\ (row'[c].claimed <=> row[c].claimed)
  BY <1>2 DEF Rows
<1> QED BY <1>1, <1>3, OrderlyTouched

(* A sender at another copy, or about to be, is nothing to this one. *)
LEMMA SenderElsewhere ==
  ASSUME TypeOK, NEW c \in Copies, Orderly(c), NEW s \in Senders,
         \A t \in Senders \ {s} : job'[t] = job[t], ~On(s, c), ~On(s, c)',
         row'[c] = row[c], Told(c)' = Told(c), document' = document,
         conn'[c] = "gone" <=> conn[c] = "gone"
  PROVE  Orderly(c)'
<1>1. \A t \in Senders : On(t, c)' <=> On(t, c)
  BY DEF On
<1>2. \A t \in Senders : On(t, c) => job'[t].outcome = job[t].outcome
  OBVIOUS
<1> QED BY <1>1, <1>2, OrderlyFrame

LEMMA ClaimOrderly ==
  ASSUME TypeOK, NEW c \in Copies, Orderly(c), NEW s \in Senders, NEW x \in list[s], Claim(s, x)
  PROVE  Orderly(c)'
<1>0. /\ row \in [Copies -> Rows] /\ row[c] \in Rows /\ accepted[c] \in Nat
      /\ job \in [Senders -> Jobs \cup {Nobody}] /\ x \in Seen /\ x.of \in Copies
  BY DEF TypeOK, Seen
<1>1. UNCHANGED <<conn, document, accepted, unheard>> /\ job[s] = Nobody
  BY DEF Claim, world
<1>2. CASE UNCHANGED <<row, job>>
  BY <1>1, <1>2, OrderlyFrame DEF On, Told
<1>3. ASSUME Unchanged(x), row' = [row EXCEPT ![x.of].claimed = TRUE],
             job' = [job EXCEPT ![s] =
               [copy |-> IF x.asked THEN [x EXCEPT !.attempts = 0] ELSE x, outcome |-> "none"]]
      PROVE  Orderly(c)'
  <2>1. /\ job'[s].copy.of = x.of /\ job'[s].outcome = "none"
        /\ \A t \in Senders \ {s} : job'[t] = job[t]
    BY <1>0, <1>3 DEF Seen
  <2>2. CASE x.of # c
    BY <1>0, <1>1, <1>3, <2>1, <2>2, SenderElsewhere DEF On, Told
  <2>3. CASE x.of = c
    <3>1. row'[c] = [row[c] EXCEPT !.claimed = TRUE]
      BY <1>0, <1>3, <2>3
    <3>2. row'[c].claimed /\ (row'[c].there <=> row[c].there) /\ row'[c].status = row[c].status
      BY <1>0, <3>1 DEF Rows
    <3>3. row[c].there /\ row[c].status # "sent" /\ ~row[c].claimed
      BY <1>3, <2>3 DEF Unchanged
    <3>4. \A t \in Senders : ~On(t, c)
      BY <3>3 DEF Orderly, Held
    <3>5. Told(c) = 0 /\ conn[c] # "gone"
      BY <1>0, <3>3, <3>4 DEF Orderly, Taken, Missing, Told
    <3>6. \A t \in Senders \ {s} : ~On(t, c)'
      BY <2>1, <3>4 DEF On
    <3>7. \A t \in Senders : On(t, c)' => t = s /\ job'[t].outcome = "none"
      BY <2>1, <3>6
    <3> QED BY <1>1, <3>2, <3>3, <3>5, <3>7 DEF Orderly, Alone, Held, Taken, Missing, Told
  <2> QED BY <2>2, <2>3
<1> QED BY <1>2, <1>3 DEF Claim

(* One that lets go of its copy without having given it to the store. *)
LEMMA LetGoOrderly ==
  ASSUME TypeOK, NEW c \in Copies, Orderly(c), NEW s \in Senders, c \notin outlasted',
         Refused(s) \/ RecordRaises(s) \/ Kill(s)
  PROVE  Orderly(c)'
<1>1. job' = [job EXCEPT ![s] = Nobody] /\ UNCHANGED <<row, conn, document, accepted, unheard>>
  BY DEF Refused, RecordRaises, Kill, world, histories
<1>2. job'[s] = Nobody /\ \A t \in Senders \ {s} : job'[t] = job[t]
  BY <1>1 DEF TypeOK
<1>3. CASE ~On(s, c)
  BY <1>1, <1>2, <1>3, SenderElsewhere DEF On, Told
<1>4. CASE On(s, c)
  <2>1. job[s].outcome # "sent" \/ conn[c] = "gone"
    BY <1>4 DEF Refused, RecordRaises, Kill, Has, On
  <2>2. \A t \in Senders : ~On(t, c)'
    BY <1>2, <1>4 DEF Orderly, Alone, On
  <2>3. \A t \in Senders : On(t, c) => t = s
    BY <1>4 DEF Orderly, Alone
  <2>4. Told(c) = 1 => row[c].status = "sent" \/ conn[c] = "gone"
    BY <2>1, <2>3 DEF Orderly, Taken
  <2> QED BY <1>1, <2>2, <2>4 DEF Orderly, Alone, Held, Taken, Missing, Told
<1> QED BY <1>3, <1>4

(* One that hears from the store. *)
LEMMA HeardOrderly ==
  ASSUME TypeOK, NEW c \in Copies, Orderly(c), NEW s \in Senders, Fails(s) \/ Put(s)
  PROVE  Orderly(c)'
<1>1. PICK d \in Copies : d = job[s].copy.of
  BY DEF Fails, Put, Has, TypeOK, Jobs, Seen
<1>2. job[s] # Nobody /\ job[s].outcome = "none" /\ job[s] \in Jobs
  BY DEF Fails, Put, Has, TypeOK
<1>3. UNCHANGED <<row, document>> /\ (conn'[c] = "gone" <=> conn[c] = "gone")
  BY DEF Fails, Put, world, TypeOK
<1>4. PICK o \in Outcomes : /\ job' = [job EXCEPT ![s] = [job[s] EXCEPT !.outcome = o]]
                            /\ \A e \in Copies : Told(e)' = IF o = "sent" /\ e = d
                                                            THEN Told(e) + 1 ELSE Told(e)
  <2>1. CASE Fails(s)
    <3>1. job' = [job EXCEPT ![s] = [job[s] EXCEPT !.outcome = "failed"]]
      BY <1>2, <2>1 DEF Fails, Ends
    <3>2. \A e \in Copies : Told(e)' = Told(e)
      BY <1>1, <2>1 DEF Fails, Told, TypeOK
    <3> QED BY <3>1, <3>2 DEF Outcomes
  <2>2. CASE Put(s)
    <3>1. PICK p \in {"sent", "declined"} : job' = [job EXCEPT ![s] = [job[s] EXCEPT !.outcome = p]]
      BY <1>2, <2>2 DEF Put, Ends
    <3>2. UNCHANGED unheard
      BY <2>2 DEF Put, histories
    <3>3. p = "sent" => accepted' = [accepted EXCEPT ![d] = @ + 1]
      BY <1>1, <1>2, <2>2, <3>1 DEF Put, Ends, TypeOK, Jobs
    <3>4. p # "sent" => accepted' = accepted
      BY <1>1, <1>2, <2>2, <3>1 DEF Put, Ends, TypeOK, Jobs
    <3>5. \A e \in Copies : Told(e)' = IF p = "sent" /\ e = d THEN Told(e) + 1 ELSE Told(e)
      BY <3>2, <3>3, <3>4 DEF Told, TypeOK
    <3> QED BY <3>1, <3>5 DEF Outcomes
  <2> QED BY <2>1, <2>2
<1>5. [job[s] EXCEPT !.outcome = o] \in Jobs /\ [job[s] EXCEPT !.outcome = o].copy = job[s].copy
      /\ [job[s] EXCEPT !.outcome = o].outcome = o
  BY <1>2, <1>4 DEF Jobs
<1>6. /\ job'[s] # Nobody /\ job'[s].copy = job[s].copy /\ job'[s].outcome = o
      /\ \A t \in Senders \ {s} : job'[t] = job[t]
  BY <1>4, <1>5, NobodyAssumption DEF TypeOK
<1>7. CASE c # d
  <2>1. Told(c)' = Told(c)
    BY <1>4, <1>7 DEF TypeOK
  <2> QED BY <1>1, <1>3, <1>6, <1>7, <2>1, SenderElsewhere DEF On
<1>8. CASE c = d
  <2>1. On(s, c) /\ \A t \in Senders : On(t, c) => t = s
    BY <1>1, <1>2, <1>8 DEF On, Orderly, Alone
  <2>2. Told(c) = 0
    BY <1>2, <2>1 DEF Orderly, Held
  <2>3. Told(c)' = IF o = "sent" THEN 1 ELSE 0
    BY <1>4, <1>8, <2>2
  <2>4. \A t \in Senders : On(t, c)' => t = s
    BY <1>6, <2>1 DEF On
  <2>5. On(s, c)'
    BY <1>6, <2>1 DEF On
  <2>6. row[c].claimed /\ row[c].status # "sent"
    BY <2>1 DEF Orderly, Held
  <2>7. Alone(c)' /\ Held(c)'
    BY <1>3, <1>6, <2>3, <2>4, <2>6 DEF Alone, Held
  <2>8. Taken(c)'
    BY <1>6, <2>3, <2>5 DEF Taken
  <2>9. Missing(c)'
    BY <1>3, <2>1 DEF Orderly, Missing
  <2> QED BY <2>7, <2>8, <2>9 DEF Orderly
<1> QED BY <1>7, <1>8

(* One that records what it heard. *)
LEMMA RecordOrderly ==
  ASSUME TypeOK, NEW c \in Copies, Orderly(c), NEW s \in Senders, Record(s)
  PROVE  Orderly(c)'
<1>1. PICK d \in Copies : d = job[s].copy.of
  BY DEF Record, TypeOK, Jobs, Seen
<1>2. /\ job[s] # Nobody /\ job[s].outcome # "none" /\ conn[d] # "gone"
      /\ UNCHANGED <<conn, document, accepted, unheard>>
  BY <1>1 DEF Record, world, histories
<1>3. job'[s] = Nobody /\ \A t \in Senders \ {s} : job'[t] = job[t]
  BY DEF Record, TypeOK
<1>4. row'[d] = Written(s) /\ \A e \in Copies \ {d} : row'[e] = row[e]
  BY <1>1 DEF Record, TypeOK
<1>5. CASE c # d
  BY <1>1, <1>2, <1>3, <1>4, <1>5, SenderElsewhere DEF On, Told
<1>6. CASE c = d
  <2>1. On(s, c) /\ \A t \in Senders : On(t, c) => t = s
    BY <1>1, <1>2, <1>6 DEF On, Orderly, Alone
  <2>2. row'[c].there /\ row'[c].status = job[s].outcome
    BY <1>4, <1>6 DEF Written
  <2>3. \A t \in Senders : ~On(t, c)'
    BY <1>3, <2>1 DEF On
  <2>4. Told(c) <= 1 /\ (Told(c) = 1 => job[s].outcome = "sent")
    BY <2>1 DEF Orderly, Held, Taken
  <2> QED BY <1>2, <1>6, <2>2, <2>3, <2>4 DEF Orderly, Alone, Held, Taken, Missing, Told
<1> QED BY <1>5, <1>6

(* Every step leaves orderly what nobody has outlasted. *)
LEMMA StaysOrderly ==
  ASSUME TypeOK, [Next]_vars, NEW c \in Copies, Orderly(c), c \notin outlasted'
  PROVE  Orderly(c)'
<1>1. ASSUME NEW s \in Senders, ReadPending(s) \/ ReadNow(s)
      PROVE  Orderly(c)'
  <2>1. UNCHANGED <<row, conn, document, job, accepted, unheard>>
    BY <1>1 DEF ReadPending, ReadBatch, ReadNow, world, histories
  <2> QED BY <2>1, OrderlyFrame DEF On, Told
<1>2. CASE SwitchPolicy \/ SwitchOwner \/ UNCHANGED vars
  <2>1. UNCHANGED <<row, conn, document, job, accepted, unheard>>
    BY <1>2 DEF SwitchPolicy, SwitchOwner, vars, senders, histories
  <2> QED BY <2>1, OrderlyFrame DEF On, Told
<1> QED BY <1>1, <1>2, RowOrderly, DeleteOrderly, ClaimOrderly, LetGoOrderly, HeardOrderly, RecordOrderly
        DEF Next, PersonStep, SenderStep, ClaimNext

(* What has been outlasted stays so. *)
LEMMA HistoriesGrow ==
  ASSUME [Next]_vars
  PROVE  outlasted \subseteq outlasted' /\ givenBack \subseteq givenBack'
<1>1. ASSUME NEW c \in Copies, \/ Schedule(c) \/ SwitchConnection(c) \/ RemoveConnection(c)
                               \/ WaitEnds(c) \/ LeaseEnds(c)
      PROVE  outlasted \subseteq outlasted' /\ givenBack \subseteq givenBack'
  BY <1>1 DEF Schedule, SwitchConnection, RemoveConnection, WaitEnds, LeaseEnds, senders, histories
<1>2. ASSUME NEW s \in Senders, NEW x \in list[s], Claim(s, x)
      PROVE  outlasted \subseteq outlasted' /\ givenBack \subseteq givenBack'
  BY <1>2 DEF Claim
<1>3. ASSUME NEW s \in Senders, \/ ReadPending(s) \/ ReadNow(s) \/ Refused(s) \/ Fails(s) \/ Put(s)
                                \/ Record(s) \/ RecordRaises(s) \/ Kill(s)
      PROVE  outlasted \subseteq outlasted' /\ givenBack \subseteq givenBack'
  BY <1>3 DEF ReadPending, ReadBatch, ReadNow, Refused, Fails, Put, Record, RecordRaises, Kill, histories
<1>4. DeleteDocument \/ SwitchPolicy \/ SwitchOwner \/ UNCHANGED vars => UNCHANGED <<outlasted, givenBack>>
  BY DEF DeleteDocument, SwitchPolicy, SwitchOwner, vars, senders, histories
<1> QED BY <1>1, <1>2, <1>3, <1>4 DEF Next, PersonStep, SenderStep, ClaimNext

AllOrderly == TypeOK /\ \A c \in Copies \ outlasted : Orderly(c)

LEMMA NextOrderly == AllOrderly /\ [Next]_vars => AllOrderly'
BY NextTyped, HistoriesGrow, StaysOrderly DEF AllOrderly

LEMMA AlwaysOrderly == Spec => []AllOrderly
<1>1. Init => AllOrderly
  BY InitTyped, InitOrderly DEF AllOrderly
<1> QED BY <1>1, NextOrderly, PTL DEF Spec

(* Two senders are never at the same copy, unless one has outlasted its lease. *)
THEOREM CopiesOneSender == Spec => []OneSender
<1>1. AllOrderly => OneSender
  <2> SUFFICES ASSUME AllOrderly, NEW s \in Senders, NEW t \in Senders,
                      job[s] # Nobody, job[t] # Nobody, s # t, job[s].copy.of = job[t].copy.of
               PROVE  job[s].copy.of \in outlasted
    BY DEF OneSender
  <2>1. PICK c \in Copies : c = job[s].copy.of
    BY DEF AllOrderly, TypeOK, Jobs, Seen
  <2> QED BY <2>1 DEF AllOrderly, Orderly, Alone, On
<1> QED BY <1>1, AlwaysOrderly, PTL

(* However many senders had read that it was owed, a store takes the document once,
   and once more for each time it took it and its answer was lost; unless a sender
   outlasted its lease or died before it had recorded that it was taken. *)
THEOREM CopiesAcceptedOnce == Spec => []AcceptedOnce
<1>1. AllOrderly => AcceptedOnce
  <2> SUFFICES ASSUME AllOrderly, NEW c \in Copies, c \notin outlasted
               PROVE  accepted[c] <= 1 + unheard[c]
    BY DEF AcceptedOnce
  <2>1. accepted[c] - unheard[c] <= 1
    BY DEF AllOrderly, Orderly, Taken, Told
  <2>2. accepted[c] \in Nat /\ unheard[c] \in Nat
    BY DEF AllOrderly, TypeOK
  <2> QED BY <2>1, <2>2
<1> QED BY <1>1, AlwaysOrderly, PTL
-----------------------------------------------------------------------------
(* A copy that says it is sent: whoever records something of it has it on hand, and
   then it is not said to be sent. *)
LEMMA SentStep ==
  AllOrderly /\ [Next]_vars =>
    \A c \in Copies \ outlasted :
      row[c].there /\ row[c].status = "sent" /\ row'[c].there => row'[c].status = "sent"
<1> SUFFICES ASSUME AllOrderly, [Next]_vars, NEW c \in Copies \ outlasted,
                    row[c].there, row[c].status = "sent", row'[c].there
             PROVE  row'[c].status = "sent"
  OBVIOUS
<1>0. TypeOK /\ Orderly(c) /\ c \in Copies /\ row[c] \in Rows
  BY DEF AllOrderly, TypeOK
<1>1. ASSUME NEW d \in Copies, \/ Schedule(d) \/ SwitchConnection(d) \/ RemoveConnection(d)
                               \/ WaitEnds(d) \/ LeaseEnds(d)
      PROVE  row'[c].status = "sent"
  <2>1. \/ row'[c] = row[c] \/ row'[c] = [row[c] EXCEPT !.there = FALSE]
        \/ row'[c] = [row[c] EXCEPT !.waits = FALSE] \/ row'[c] = [row[c] EXCEPT !.claimed = FALSE]
    BY <1>0, <1>1
       DEF TypeOK, Schedule, SwitchConnection, RemoveConnection, WaitEnds, LeaseEnds
  <2> QED BY <1>0, <2>1 DEF Rows
<1>2. CASE DeleteDocument
  <2>1. row'[c] = [row[c] EXCEPT !.there = FALSE]
    BY <1>0, <1>2 DEF DeleteDocument
  <2> QED BY <1>0, <2>1 DEF Rows
<1>3. ASSUME NEW s \in Senders, NEW x \in list[s], Claim(s, x)
      PROVE  row'[c].status = "sent"
  <2>1. row'[c] = row[c] \/ row'[c] = [row[c] EXCEPT !.claimed = TRUE]
    BY <1>0, <1>3 DEF TypeOK, Claim
  <2> QED BY <1>0, <2>1 DEF Rows
<1>4. ASSUME NEW s \in Senders, Record(s)
      PROVE  row'[c].status = "sent"
  <2>1. job[s] # Nobody /\ job[s].copy.of # c
    BY <1>0, <1>4 DEF Orderly, Held, On, Record
  <2>2. row'[c] = row[c]
    BY <1>0, <1>4, <2>1 DEF TypeOK, Record
  <2> QED BY <2>2
<1>5. ASSUME NEW s \in Senders, \/ ReadPending(s) \/ ReadNow(s) \/ Refused(s) \/ Fails(s)
                                \/ Put(s) \/ RecordRaises(s) \/ Kill(s)
      PROVE  row'[c].status = "sent"
  BY <1>5 DEF ReadPending, ReadBatch, ReadNow, Refused, Fails, Put, RecordRaises, Kill
<1>6. CASE SwitchPolicy \/ SwitchOwner \/ UNCHANGED vars
  BY <1>6 DEF SwitchPolicy, SwitchOwner, vars
<1> QED BY <1>1, <1>2, <1>3, <1>4, <1>5, <1>6 DEF Next, PersonStep, SenderStep, ClaimNext

(* No sender that read a copy earlier puts another outcome over one that says it is
   sent, unless a sender outlasted its lease. *)
THEOREM CopiesStaySent == Spec => SentStays
<1>1. AllOrderly /\ [Next]_vars =>
        [\A c \in Copies \ outlasted :
           row[c].there /\ row[c].status = "sent" /\ row'[c].there => row'[c].status = "sent"]_vars
  BY SentStep
<1> QED BY <1>1, AlwaysOrderly, PTL DEF Spec, SentStays
-----------------------------------------------------------------------------
(* The attempts of a copy nobody gave back tell how often it was tried: on its row, in
   the hands of whoever is at it, and in every list that holds it. *)
EvenRow(c) ==
  /\ row[c].attempts = row[c].tries
  /\ \A s \in Senders : On(s, c) => job[s].copy.attempts = row[c].attempts
EvenRead(c) == \A s \in Senders : \A x \in list[s] : x.of = c => x.attempts = x.tries
Even(c) == EvenRow(c) /\ EvenRead(c)

LEMMA InitEven == Init => \A c \in Copies : Even(c)
<1> SUFFICES ASSUME Init, NEW c \in Copies PROVE Even(c)
  OBVIOUS
<1>1. row[c].attempts = 0 /\ row[c].tries = 0
  BY DEF Init, Unsent
<1>2. \A s \in Senders : job[s] = Nobody /\ list[s] = {}
  BY DEF Init
<1> QED BY <1>1, <1>2 DEF Even, EvenRow, EvenRead, On

(* Nothing has happened to it that counts: nobody new holds it, with other attempts. *)
LEMMA EvenFrame ==
  ASSUME NEW c \in Copies, EvenRow(c),
         row'[c].attempts = row[c].attempts, row'[c].tries = row[c].tries,
         \A s \in Senders : On(s, c)' => On(s, c) /\ job'[s].copy = job[s].copy
  PROVE  EvenRow(c)'
BY DEF EvenRow

(* What a person or the clock does to a row: one that is made was never tried. *)
LEMMA RowEven ==
  ASSUME TypeOK, NEW c \in Copies, Orderly(c), EvenRow(c), NEW d \in Copies,
         Schedule(d) \/ SwitchConnection(d) \/ RemoveConnection(d) \/ WaitEnds(d) \/ LeaseEnds(d)
  PROVE  EvenRow(c)'
<1>1. UNCHANGED job /\ row[c] \in Rows
  BY DEF Schedule, SwitchConnection, RemoveConnection, WaitEnds, LeaseEnds, senders, TypeOK
<1>2. CASE Schedule(d) /\ c = d
  <2>1. row'[c] = Unsent(TRUE)
    BY <1>2 DEF Schedule, TypeOK
  <2>2. row'[c].attempts = 0 /\ row'[c].tries = 0
    BY <2>1 DEF Unsent
  <2>3. \A s \in Senders : ~On(s, c)
    BY <1>2 DEF Schedule, Orderly, Missing
  <2> QED BY <1>1, <2>2, <2>3 DEF EvenRow, On
<1>3. CASE ~(Schedule(d) /\ c = d)
  <2>1. \/ row'[c] = row[c] \/ row'[c] = [row[c] EXCEPT !.there = FALSE]
        \/ row'[c] = [row[c] EXCEPT !.waits = FALSE] \/ row'[c] = [row[c] EXCEPT !.claimed = FALSE]
    <3>1. CASE Schedule(d)
      BY <1>3, <3>1 DEF Schedule, TypeOK
    <3>2. CASE SwitchConnection(d)
      BY <3>2 DEF SwitchConnection
    <3>3. CASE RemoveConnection(d)
      <4>1. row' = row \/ row' = [row EXCEPT ![d] = [row[d] EXCEPT !.there = FALSE]]
        BY <3>3 DEF RemoveConnection
      <4> QED BY <4>1 DEF TypeOK
    <3>4. CASE WaitEnds(d) \/ LeaseEnds(d)
      BY <3>4 DEF WaitEnds, LeaseEnds, TypeOK
    <3> QED BY <3>1, <3>2, <3>3, <3>4
  <2>2. row'[c].attempts = row[c].attempts /\ row'[c].tries = row[c].tries
    BY <1>1, <2>1 DEF Rows
  <2> QED BY <1>1, <2>2, EvenFrame DEF On
<1> QED BY <1>2, <1>3

(* What is read of a copy now has the attempts of its row. *)
LEMMA ReadingEven ==
  ASSUME TypeOK, NEW c \in Copies, Even(c), NEW s \in Senders, ReadPending(s) \/ ReadNow(s)
  PROVE  EvenRead(c)'
<1>1. PICK asked \in BOOLEAN, due \in SUBSET Copies :
        list' = [list EXCEPT ![s] = {AsRead(d, asked) : d \in due}]
  <2>1. CASE ReadPending(s)
    BY <2>1 DEF ReadPending, ReadBatch, Batches
  <2>2. CASE ReadNow(s)
    BY <2>2 DEF ReadNow
  <2> QED BY <2>1, <2>2
<1>2. ASSUME NEW d \in due, AsRead(d, asked).of = c
      PROVE  AsRead(d, asked).attempts = AsRead(d, asked).tries
  BY <1>2 DEF AsRead, Even, EvenRow
<1>3. ASSUME NEW t \in Senders, NEW x \in list'[t], x.of = c
      PROVE  x.attempts = x.tries
  <2>1. CASE t = s
    <3>1. PICK d \in due : x = AsRead(d, asked)
      BY <1>1, <1>3, <2>1 DEF TypeOK
    <3> QED BY <1>2, <1>3, <3>1
  <2>2. CASE t # s
    <3>1. x \in list[t]
      BY <1>1, <1>3, <2>2 DEF TypeOK
    <3> QED BY <1>3, <3>1 DEF Even, EvenRead
  <2> QED BY <2>1, <2>2
<1> QED BY <1>3 DEF EvenRead

(* Whoever claims it has its attempts right, unless it has just given them back. *)
LEMMA ClaimEven ==
  ASSUME TypeOK, NEW c \in Copies, Orderly(c), Even(c), NEW s \in Senders, NEW x \in list[s],
         Claim(s, x), c \notin givenBack'
  PROVE  Even(c)'
<1>0. row[c] \in Rows /\ x \in Seen /\ x.of \in Copies
  BY DEF TypeOK, Seen
<1>1. EvenRead(c)'
  <2>1. \A t \in Senders : list'[t] \subseteq list[t]
    BY DEF Claim, TypeOK
  <2> QED BY <2>1 DEF Even, EvenRead
<1>2. CASE UNCHANGED <<row, job>>
  BY <1>1, <1>2, EvenFrame DEF Even, On
<1>3. ASSUME Unchanged(x), row' = [row EXCEPT ![x.of].claimed = TRUE],
             job' = [job EXCEPT ![s] =
               [copy |-> IF x.asked THEN [x EXCEPT !.attempts = 0] ELSE x, outcome |-> "none"]],
             x.asked /\ x.attempts # 0 => x.of \in givenBack'
      PROVE  Even(c)'
  <2>1. /\ job'[s].copy = IF x.asked THEN [x EXCEPT !.attempts = 0] ELSE x
        /\ \A t \in Senders \ {s} : job'[t] = job[t]
    BY <1>3 DEF TypeOK
  <2>2. /\ job'[s].copy.of = x.of
        /\ job'[s].copy.attempts = IF x.asked THEN 0 ELSE x.attempts
    BY <1>0, <2>1 DEF Seen
  <2>3. row'[c] = row[c] \/ row'[c] = [row[c] EXCEPT !.claimed = TRUE]
    BY <1>3 DEF TypeOK
  <2>4. row'[c].attempts = row[c].attempts /\ row'[c].tries = row[c].tries
    BY <1>0, <2>3 DEF Rows
  <2>5. CASE x.of # c
    BY <1>1, <2>1, <2>2, <2>4, <2>5, EvenFrame DEF Even, On
  <2>6. CASE x.of = c
    <3>1. ~row[c].claimed /\ row[c].attempts = x.attempts
      BY <1>3, <2>6 DEF Unchanged
    <3>2. \A t \in Senders : ~On(t, c)
      BY <3>1 DEF Orderly, Held
    <3>3. job'[s].copy.attempts = row[c].attempts
      BY <1>3, <2>2, <2>6, <3>1
    <3>4. \A t \in Senders : On(t, c)' => t = s
      BY <2>1, <3>2 DEF On
    <3>5. EvenRow(c)'
      BY <2>4, <3>3, <3>4 DEF Even, EvenRow
    <3> QED BY <1>1, <3>5 DEF Even
  <2> QED BY <2>5, <2>6
<1> QED BY <1>2, <1>3 DEF Claim

(* A sender that goes on with its copy, or lets go of it. *)
LEMMA SenderEven ==
  ASSUME TypeOK, NEW c \in Copies, Orderly(c), Even(c), NEW s \in Senders,
         Refused(s) \/ Fails(s) \/ Put(s) \/ RecordRaises(s) \/ Kill(s)
  PROVE  Even(c)'
<1>1. row' = row /\ \A t \in Senders : list'[t] \subseteq list[t]
  BY DEF Refused, Fails, Put, RecordRaises, Kill, TypeOK
<1>2. \A t \in Senders : On(t, c)' => On(t, c) /\ job'[t].copy = job[t].copy
  <2>1. CASE Refused(s) \/ RecordRaises(s) \/ Kill(s)
    BY <2>1 DEF Refused, RecordRaises, Kill, TypeOK, On
  <2>2. CASE Fails(s) \/ Put(s)
    <3>1. job[s] \in Jobs /\ job[s] # Nobody
      BY <2>2 DEF Fails, Put, Has, TypeOK
    <3>2. PICK o \in Outcomes : job' = [job EXCEPT ![s] = [job[s] EXCEPT !.outcome = o]]
      BY <2>2 DEF Fails, Put, Ends, Outcomes
    <3>3. job'[s].copy = job[s].copy /\ \A t \in Senders \ {s} : job'[t] = job[t]
      BY <3>1, <3>2 DEF Jobs, TypeOK
    <3> QED BY <3>1, <3>3 DEF On
  <2> QED BY <2>1, <2>2
<1> QED BY <1>1, <1>2, EvenFrame DEF Even, EvenRead

(* What is recorded is one attempt more, and one more time tried. *)
LEMMA RecordEven ==
  ASSUME TypeOK, NEW c \in Copies, Orderly(c), Even(c), NEW s \in Senders, Record(s)
  PROVE  Even(c)'
<1>1. PICK d \in Copies : d = job[s].copy.of
  BY DEF Record, TypeOK, Jobs, Seen
<1>2. job[s] # Nobody /\ list' = list
  BY DEF Record
<1>3. job'[s] = Nobody /\ \A t \in Senders \ {s} : job'[t] = job[t]
  BY DEF Record, TypeOK
<1>4. row'[d] = Written(s) /\ \A e \in Copies \ {d} : row'[e] = row[e]
  BY <1>1 DEF Record, TypeOK
<1>5. CASE c # d
  BY <1>2, <1>3, <1>4, <1>5, EvenFrame DEF Even, EvenRead, On
<1>6. CASE c = d
  <2>1. On(s, c) /\ \A t \in Senders : On(t, c) => t = s
    BY <1>1, <1>2, <1>6 DEF On, Orderly, Alone
  <2>2. row'[c].attempts = job[s].copy.attempts + 1 /\ row'[c].tries = row[c].tries + 1
    BY <1>1, <1>4, <1>6 DEF Written
  <2>3. \A t \in Senders : ~On(t, c)'
    BY <1>3, <2>1 DEF On
  <2>4. row[c].attempts = row[c].tries /\ job[s].copy.attempts = row[c].attempts
    BY <2>1 DEF Even, EvenRow
  <2> QED BY <1>2, <2>2, <2>3, <2>4 DEF Even, EvenRow, EvenRead
<1> QED BY <1>5, <1>6

(* Every step leaves even what nobody has outlasted and whose attempts nobody gave
   back. *)
LEMMA StaysEven ==
  ASSUME TypeOK, [Next]_vars, NEW c \in Copies, Orderly(c), Even(c), c \notin givenBack'
  PROVE  Even(c)'
<1>1. ASSUME NEW s \in Senders, ReadPending(s) \/ ReadNow(s)
      PROVE  Even(c)'
  <2>1. UNCHANGED <<row, job>>
    BY <1>1 DEF ReadPending, ReadBatch, ReadNow
  <2> QED BY <1>1, <2>1, ReadingEven, EvenFrame DEF Even, On
<1>2. ASSUME NEW d \in Copies, \/ Schedule(d) \/ SwitchConnection(d) \/ RemoveConnection(d)
                               \/ WaitEnds(d) \/ LeaseEnds(d)
      PROVE  Even(c)'
  <2>1. UNCHANGED list
    BY <1>2 DEF Schedule, SwitchConnection, RemoveConnection, WaitEnds, LeaseEnds, senders
  <2> QED BY <1>2, <2>1, RowEven DEF Even, EvenRead
<1>3. CASE DeleteDocument
  <2>1. row[c] \in Rows /\ row'[c] = [row[c] EXCEPT !.there = FALSE] /\ UNCHANGED <<list, job>>
    BY <1>3 DEF DeleteDocument, TypeOK, senders
  <2>2. row'[c].attempts = row[c].attempts /\ row'[c].tries = row[c].tries
    BY <2>1 DEF Rows
  <2> QED BY <2>1, <2>2, EvenFrame DEF Even, EvenRead, On
<1>4. CASE SwitchPolicy \/ SwitchOwner \/ UNCHANGED vars
  BY <1>4, EvenFrame DEF SwitchPolicy, SwitchOwner, vars, senders, Even, EvenRead, On
<1> QED BY <1>1, <1>2, <1>3, <1>4, ClaimEven, SenderEven, RecordEven
        DEF Next, PersonStep, SenderStep, ClaimNext

AllEven == AllOrderly /\ \A c \in Copies \ (outlasted \cup givenBack) : Even(c)

LEMMA NextEven == AllEven /\ [Next]_vars => AllEven'
BY NextOrderly, HistoriesGrow, StaysEven DEF AllEven, AllOrderly

LEMMA AlwaysEven == Spec => []AllEven
<1>1. Init => AllEven
  BY InitTyped, InitOrderly, InitEven DEF AllEven, AllOrderly
<1> QED BY <1>1, NextEven, PTL DEF Spec

(* Only a claim puts a copy into idle hands. *)
LEMMA TakenByClaim ==
  ASSUME TypeOK, [Next]_vars, NEW s \in Senders, job[s] = Nobody, job'[s] # Nobody
  PROVE  \E x \in list[s] : Claim(s, x)
<1>1. ASSUME NEW t \in Senders, NEW x \in list[t], Claim(t, x)
      PROVE  t = s
  BY <1>1 DEF Claim, TypeOK
<1>2. ASSUME NEW t \in Senders,
             Refused(t) \/ Fails(t) \/ Put(t) \/ Record(t) \/ RecordRaises(t) \/ Kill(t)
      PROVE  FALSE
  BY <1>2 DEF Refused, Fails, Put, Record, RecordRaises, Kill, Has, Ends, TypeOK
<1>3. ASSUME NEW t \in Senders, ReadPending(t) \/ ReadNow(t)
      PROVE  FALSE
  BY <1>3 DEF ReadPending, ReadBatch, ReadNow
<1>4. ASSUME NEW c \in Copies, \/ Schedule(c) \/ SwitchConnection(c) \/ RemoveConnection(c)
                               \/ WaitEnds(c) \/ LeaseEnds(c)
      PROVE  FALSE
  BY <1>4 DEF Schedule, SwitchConnection, RemoveConnection, WaitEnds, LeaseEnds, senders
<1>5. ~(DeleteDocument \/ SwitchPolicy \/ SwitchOwner \/ UNCHANGED vars)
  BY DEF DeleteDocument, SwitchPolicy, SwitchOwner, senders, vars
<1> QED BY <1>1, <1>2, <1>3, <1>4, <1>5 DEF Next, PersonStep, SenderStep, ClaimNext

(* A sender takes a copy only as it was read: whoever tried it in between, and recorded
   how that went, has made the claim fail; but for copies that were outlasted, or had
   their attempts given back, which are what tells. *)
THEOREM CopiesClaimedAsRead == Spec => ClaimedAsRead
<1>1. AllEven /\ [Next]_vars =>
        [\A s \in Senders :
           job[s] = Nobody /\ job'[s] # Nobody =>
             \/ row[job'[s].copy.of].tries = job'[s].copy.tries
             \/ job'[s].copy.of \in outlasted \cup givenBack]_vars
  <2> SUFFICES ASSUME AllEven, [Next]_vars, NEW s \in Senders, job[s] = Nobody, job'[s] # Nobody,
                      job'[s].copy.of \notin outlasted \cup givenBack
               PROVE  row[job'[s].copy.of].tries = job'[s].copy.tries
    OBVIOUS
  <2>0. TypeOK
    BY DEF AllEven, AllOrderly
  <2>1. PICK x \in list[s] : Claim(s, x)
    BY <2>0, TakenByClaim
  <2>2. x \in Seen /\ x.of \in Copies
    BY <2>0 DEF TypeOK, Seen
  <2>3. Unchanged(x) /\ job'[s].copy = IF x.asked THEN [x EXCEPT !.attempts = 0] ELSE x
    BY <2>0, <2>1 DEF Claim, TypeOK
  <2>4. job'[s].copy.of = x.of /\ job'[s].copy.tries = x.tries
    BY <2>2, <2>3 DEF Seen
  <2>5. Even(x.of)
    BY <2>2, <2>4 DEF AllEven
  <2>6. row[x.of].attempts = x.attempts /\ row[x.of].attempts = row[x.of].tries /\ x.attempts = x.tries
    BY <2>3, <2>5 DEF Unchanged, Even, EvenRow, EvenRead
  <2> QED BY <2>4, <2>6
<1> QED BY <1>1, AlwaysEven, PTL DEF Spec, ClaimedAsRead
=============================================================================
