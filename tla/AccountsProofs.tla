--------------------------- MODULE AccountsProofs ---------------------------
(***************************************************************************)
(* Accounts, for any number of people, invitations and requests in flight: *)
(* every state is well typed; whoever leads by signing up is the first; an *)
(* invitation is one account; and none outlives its issuer unawares.       *)
(***************************************************************************)
EXTENDS Accounts, FiniteSetTheorems, TLAPS

LEMMA RowsTyped ==
  /\ Free \in Reqs
  /\ \A i \in Invites \cup {Nobody}, b \in BOOLEAN : open \in BOOLEAN => Arrived(i, b) \in Reqs
  /\ \A k \in Kinds, p \in People :
       [Free EXCEPT !.kind = k, !.step = "checked", !.who = p] \in Reqs
  /\ \A i \in Invites : [Free EXCEPT !.kind = "revoke", !.step = "checked", !.inv = i] \in Reqs
<1>1. Free \in Reqs
  BY DEF Free, Reqs, Kinds
<1>2. \A i \in Invites \cup {Nobody}, b \in BOOLEAN : open \in BOOLEAN => Arrived(i, b) \in Reqs
  BY DEF Free, Reqs, Kinds, Arrived
<1>3. \A k \in Kinds, p \in People :
        [Free EXCEPT !.kind = k, !.step = "checked", !.who = p] \in Reqs
  BY DEF Free, Reqs, Kinds
<1>4. \A i \in Invites : [Free EXCEPT !.kind = "revoke", !.step = "checked", !.inv = i] \in Reqs
  BY DEF Free, Reqs, Kinds
<1> QED BY <1>1, <1>2, <1>3, <1>4

(* A request goes from one step to the next, and is a request. *)
LEMMA StepsTyped ==
  ASSUME TypeOK, NEW r \in Requests
  PROVE  /\ \A p \in People, b \in BOOLEAN :
              [req[r] EXCEPT !.step = "settled", !.who = p, !.leads = b] \in Reqs
         /\ \A i \in Invites \cup {Nobody} :
              [req[r] EXCEPT !.step = "consuming", !.inv = i] \in Reqs
         /\ \A h \in SUBSET Invites : [req[r] EXCEPT !.step = "swept", !.holds = h] \in Reqs
         /\ \A v \in Invites \cup {Nobody}, h \in SUBSET Invites :
              [req[r] EXCEPT !.step = "admitted", !.via = v, !.holds = h] \in Reqs
<1>1. req[r] \in Reqs
  BY DEF TypeOK
<1> QED BY <1>1 DEF Reqs

LEMMA InitTyped == Init => TypeOK
<1> SUFFICES ASSUME Init PROVE TypeOK
  OBVIOUS
<1>1. invite \in [Invites -> InviteRows] /\ rank \in [People -> Ranks]
  BY DEF Init, InviteRows, Ranks
<1>2. req \in [Requests -> Reqs]
  BY RowsTyped DEF Init
<1>3. open \in BOOLEAN /\ opened \in 0 .. Uses /\ uneasy \in BOOLEAN
  <2>1. open = FALSE /\ uneasy = FALSE
    BY DEF Init
  <2>2. opened \in 0 .. Uses
    BY UsesAssumption DEF Init
  <2> QED BY <2>1, <2>2
<1>4. /\ account \in [People -> {"none", "active", "inactive", "gone"}]
      /\ sentinel \in Requests \cup {Nobody}
      /\ made \in [Invites -> SUBSET People] /\ vouched \subseteq People /\ stray \subseteq Invites
  BY DEF Init
<1> QED BY <1>1, <1>2, <1>3, <1>4 DEF TypeOK

(* What a request knows of once it has come so far. *)
KnowsWho ==
  \A r \in Requests :
    /\ req[r].kind \in {"promote", "demote", "activate", "deactivate", "delete"}
         => req[r].who \in People
    /\ req[r].kind = "signup" /\ req[r].step \in {"settled", "consuming"} => req[r].who \in People
    /\ req[r].kind = "revoke" => req[r].inv \in Invites

LEMMA NextTyped ==
  ASSUME TypeOK, KnowsWho, [Next]_vars
  PROVE  TypeOK'
<1> USE DEF TypeOK
<1>1. ASSUME NEW r \in Requests, NEW i \in Invites \cup {Nobody}, NEW b \in BOOLEAN, Arrives(r, i, b)
      PROVE  TypeOK'
  BY <1>1, RowsTyped DEF Arrives
<1>17. ASSUME NEW r \in Requests, SignUp(r) \/ SignUpAsserted(r)
       PROVE  TypeOK'
  <2>1. req[r].inv \in Invites \cup {Nobody}
    BY DEF Reqs
  <2>2. PICK v \in Invites \cup {Nobody}, h \in SUBSET Invites : Admit(r, v, h)
    BY <1>17, <2>1 DEF SignUp, SignUpAsserted, Invited
  <2>3. req' \in [Requests -> Reqs]
    BY <2>2, StepsTyped DEF Admit
  <2> QED BY <2>2, <2>3 DEF Admit
<1>2. ASSUME NEW r \in Requests, NEW p \in People, First(r, p)
      PROVE  TypeOK'
  <2>1. req' \in [Requests -> Reqs]
    BY <1>2, StepsTyped DEF First
  <2> QED BY <1>2, <2>1 DEF First
<1>3. ASSUME NEW r \in Requests, Consume(r)
      PROVE  TypeOK'
  <2>1. req[r].inv \in Invites \cup {Nobody}
    BY DEF Reqs
  <2>2. req' \in [Requests -> Reqs]
    BY <1>3, <2>1, StepsTyped DEF Consume
  <2> QED BY <1>3, <2>2 DEF Consume
<1>4. ASSUME NEW r \in Requests, Joins(r)
      PROVE  TypeOK'
  <2>1. req[r].who \in People
    BY <1>4 DEF Joins, Is, KnowsWho
  <2>2. account' \in [People -> {"none", "active", "inactive", "gone"}]
        /\ rank' \in [People -> Ranks]
    BY <1>4 DEF Joins, Join, Ranks
  <2>3. invite' \in [Invites -> InviteRows]
    BY <1>4, <2>1 DEF Joins, Join, InviteRows
  <2>4. made' \in [Invites -> SUBSET People] /\ vouched' \subseteq People
    BY <1>4, <2>1 DEF Joins, Join
  <2> QED BY <1>4, <2>2, <2>3, <2>4, RowsTyped DEF Joins, Release
<1>5. ASSUME NEW r \in Requests, RollsBack(r)
      PROVE  TypeOK'
  BY <1>5, RowsTyped DEF RollsBack, Release
<1>6. ASSUME NEW r \in Requests, NEW k \in Kinds, NEW p \in People, Decide(r, k, p)
      PROVE  TypeOK'
  BY <1>6, RowsTyped DEF Decide
<1>7. ASSUME NEW r \in Requests, NEW by \in People, NEW p \in People,
             AskRank(r, by, p) \/ AskActive(r, by, p) \/ AskDelete(r, by, p)
      PROVE  TypeOK'
  BY <1>6, <1>7 DEF AskRank, AskActive, AskDelete, Kinds
<1>8. ASSUME NEW r \in Requests, SavesPerson(r)
      PROVE  TypeOK'
  <2>1. account' \in [People -> {"none", "active", "inactive", "gone"}]
    BY <1>8 DEF SavesPerson
  <2>2. rank' \in [People -> Ranks]
    BY <1>8 DEF SavesPerson, Ranks
  <2> QED BY <1>8, <2>1, <2>2, RowsTyped DEF SavesPerson
<1>9. ASSUME NEW r \in Requests, Sweep(r)
      PROVE  TypeOK'
  <2>1. IssuedBy(req[r].who) \subseteq Invites
    BY DEF IssuedBy
  <2>2. req' \in [Requests -> Reqs]
    BY <1>9, <2>1, StepsTyped DEF Sweep
  <2> QED BY <1>9, <2>2 DEF Sweep
<1>10. ASSUME NEW r \in Requests, Deletes(r)
       PROVE  TypeOK'
  <2>1. account' \in [People -> {"none", "active", "inactive", "gone"}]
        /\ rank' \in [People -> Ranks]
    BY <1>10 DEF Deletes, Ranks
  <2>2. invite' \in [Invites -> InviteRows]
    BY <1>10 DEF Deletes, InviteRows
  <2> QED BY <1>10, <2>1, <2>2, RowsTyped DEF Deletes
<1>11. ASSUME NEW p \in People, NEW i \in Invites, Issue(p, i)
       PROVE  TypeOK'
  BY <1>11 DEF Issue, InviteRows
<1>12. ASSUME NEW r \in Requests, NEW i \in Invites, AskRevoke(r, i)
       PROVE  TypeOK'
  BY <1>12, RowsTyped DEF AskRevoke
<1>13. ASSUME NEW r \in Requests, Revokes(r)
       PROVE  TypeOK'
  BY <1>13, RowsTyped DEF Revokes, InviteRows
<1>14. ASSUME NEW i \in Invites, Expires(i)
       PROVE  TypeOK'
  BY <1>14 DEF Expires, InviteRows
<1>15. CASE OpenOrClose
  BY <1>15, UsesAssumption DEF OpenOrClose
<1>16. CASE UNCHANGED vars
  BY <1>16 DEF vars
<1> QED BY <1>1, <1>2, <1>3, <1>4, <1>5, <1>7, <1>8, <1>9, <1>10, <1>11, <1>12, <1>13, <1>14,
           <1>15, <1>16, <1>17 DEF Next

-----------------------------------------------------------------------------
(* What a step may do to one request: it is free, it begins, or it goes on. *)
Begins(q) ==
  \/ \E i \in Invites \cup {Nobody}, b \in BOOLEAN : Arrives(q, i, b)
  \/ \E k \in Kinds, p \in People :
       /\ k # "signup" /\ k # "revoke" /\ Decide(q, k, p)
       /\ k \in Removals => Has(p) /\ ~LastAdministrator(p)
  \/ \E i \in Invites : AskRevoke(q, i)
Admits(q) == SignUp(q) \/ SignUpAsserted(q)
GoesOn(q) ==
  Admits(q) \/ (\E p \in People : First(q, p)) \/ Consume(q) \/ Sweep(q)
Ends(q) == Joins(q) \/ RollsBack(q) \/ SavesPerson(q) \/ Deletes(q) \/ Revokes(q)
Apart == \/ \E p \in People, i \in Invites : Issue(p, i)
         \/ \E i \in Invites : Expires(i)
         \/ OpenOrClose
         \/ UNCHANGED vars

LEMMA StepKinds ==
  ASSUME [Next]_vars
  PROVE  (\E q \in Requests : Begins(q) \/ GoesOn(q) \/ Ends(q)) \/ Apart
<1>1. ASSUME NEW q \in Requests, NEW by \in People, NEW p \in People,
             AskRank(q, by, p) \/ AskActive(q, by, p) \/ AskDelete(q, by, p)
      PROVE  Begins(q)
  BY <1>1 DEF AskRank, AskActive, AskDelete, Begins, Kinds, Removals, Has
<1> QED BY <1>1 DEF Next, Begins, GoesOn, Ends, Apart, Admits

(* The request of a step, and the others, which it leaves as they are. *)
LEMMA OthersStay ==
  ASSUME TypeOK, NEW q \in Requests, Begins(q) \/ GoesOn(q) \/ Ends(q)
  PROVE  /\ \A r \in Requests \ {q} : req'[r] = req[r]
         /\ Ends(q) => req'[q] = Free
BY DEF Begins, GoesOn, Ends, Arrives, Admits, SignUp, SignUpAsserted, Admit, Decide, AskRevoke, First, Consume, Sweep, Joins, RollsBack,
       SavesPerson, Deletes, Revokes, TypeOK

(* What a sign-up is let in with: nothing, or its invitation, which still stood, and
   whose row it holds then unless a provider speaks for it. *)
LEMMA Admitted ==
  ASSUME TypeOK, NEW q \in Requests, Admits(q)
  PROVE  /\ req[q].kind = "signup" /\ req[q].step = "arrived"
         /\ req'[q].kind = "signup" /\ req'[q].step = "admitted"
         /\ req'[q].who = req[q].who /\ req'[q].inv = req[q].inv
         /\ req'[q].asserted = req[q].asserted
         /\ \/ req'[q].via = Nobody /\ req'[q].holds = {}
            \/ /\ req'[q].via = req[q].inv /\ req[q].inv # Nobody /\ Pending(req[q].inv)
               /\ \/ req[q].asserted /\ req'[q].holds = {}
                  \/ /\ ~req[q].asserted /\ req'[q].holds = {req[q].inv}
                     /\ Waited(q, req[q].inv)
<1>1. req[q] \in Reqs
  BY DEF TypeOK
<1>2. ASSUME NEW v, NEW h, Admit(q, v, h)
      PROVE  /\ req'[q].kind = req[q].kind /\ req'[q].step = "admitted"
             /\ req'[q].who = req[q].who /\ req'[q].inv = req[q].inv
             /\ req'[q].asserted = req[q].asserted /\ req'[q].via = v /\ req'[q].holds = h
  <2>1. req'[q] = [req[q] EXCEPT !.step = "admitted", !.via = v, !.holds = h]
    BY <1>2 DEF Admit, TypeOK
  <2> QED BY <1>1, <2>1 DEF Reqs
<1> QED BY <1>2 DEF Admits, SignUp, SignUpAsserted, Invited, Is

LEMMA ApartLeavesRequests == Apart => UNCHANGED req
BY DEF Apart, Issue, Expires, OpenOrClose, vars

LEMMA KnowsWhoKept ==
  ASSUME TypeOK, KnowsWho, [Next]_vars
  PROVE  KnowsWho'
<1> USE DEF KnowsWho
<1>f. Free.kind = "idle" /\ Free.step = ""
  BY DEF Free
<1>1. CASE Apart
  BY <1>1, ApartLeavesRequests
<1>2. ASSUME NEW q \in Requests, Ends(q)
      PROVE  KnowsWho'
  BY <1>2, <1>f, OthersStay
<1>3. ASSUME NEW q \in Requests, Begins(q)
      PROVE  KnowsWho'
  <2>1. /\ req'[q].kind \in {"promote", "demote", "activate", "deactivate", "delete"}
             => req'[q].who \in People
        /\ req'[q].kind = "signup" => req'[q].step = "arrived"
        /\ req'[q].kind = "revoke" => req'[q].inv \in Invites
    <3>1. ASSUME NEW i \in Invites \cup {Nobody}, NEW b \in BOOLEAN, Arrives(q, i, b)
          PROVE  req'[q].kind = "signup" /\ req'[q].step = "arrived"
      BY <3>1 DEF Arrives, Arrived, Free, TypeOK
    <3>2. ASSUME NEW k \in Kinds, NEW p \in People, k # "signup", k # "revoke", Decide(q, k, p)
          PROVE  req'[q].kind = k /\ req'[q].who = p
      BY <3>2 DEF Decide, Free, TypeOK
    <3>3. ASSUME NEW i \in Invites, AskRevoke(q, i)
          PROVE  req'[q].kind = "revoke" /\ req'[q].inv = i
      BY <3>3 DEF AskRevoke, Free, TypeOK
    <3> QED BY <1>3, <3>1, <3>2, <3>3 DEF Begins
  <2> QED BY <1>3, <2>1, OthersStay
<1>4. ASSUME NEW q \in Requests, GoesOn(q)
      PROVE  KnowsWho'
  <2>0. req[q] \in Reqs
    BY DEF TypeOK
  <2>1. ASSUME NEW p \in People, First(q, p)
        PROVE  req'[q].kind = "signup" /\ req'[q].who \in People
    <3>1. PICK b \in BOOLEAN : req'[q] = [req[q] EXCEPT !.step = "settled", !.who = p, !.leads = b]
      BY <2>1 DEF First, TypeOK
    <3>2. req'[q].kind = req[q].kind /\ req'[q].who = p
      BY <2>0, <3>1 DEF Reqs
    <3> QED BY <2>1, <3>2 DEF First, Is
  <2>2. ASSUME Consume(q)
        PROVE  req'[q].kind = "signup" /\ req'[q].who \in People
    <3>1. PICK i : req'[q] = [req[q] EXCEPT !.step = "consuming", !.inv = i]
      BY <2>2 DEF Consume, TypeOK
    <3>2. req'[q].kind = req[q].kind /\ req'[q].who = req[q].who
      BY <2>0, <3>1 DEF Reqs
    <3> QED BY <2>2, <3>2 DEF Consume, Is
  <2>3. ASSUME Sweep(q)
        PROVE  req'[q].kind = "delete" /\ req'[q].who \in People
    <3>1. PICK h : req'[q] = [req[q] EXCEPT !.step = "swept", !.holds = h]
      BY <2>3 DEF Sweep, TypeOK
    <3>2. req'[q].kind = req[q].kind /\ req'[q].who = req[q].who
      BY <2>0, <3>1 DEF Reqs
    <3> QED BY <2>3, <3>2 DEF Sweep, Is
  <2> QED BY <1>4, <2>1, <2>2, <2>3, OthersStay, Admitted DEF GoesOn
<1> QED BY <1>1, <1>2, <1>3, <1>4, StepKinds

(* Every state of every schedule is well typed. *)
THEOREM AccountsTyped == Spec => []TypeOK
<1>1. Init => TypeOK /\ KnowsWho
  <2>1. ASSUME Init, NEW r \in Requests
        PROVE  req[r].kind = "idle"
    BY <2>1 DEF Init, Free
  <2>2. Init => KnowsWho
    BY <2>1 DEF KnowsWho
  <2> QED BY <2>2, InitTyped
<1>2. TypeOK /\ KnowsWho /\ [Next]_vars => (TypeOK /\ KnowsWho)'
  BY NextTyped, KnowsWhoKept
<1> QED BY <1>1, <1>2, PTL DEF Spec

-----------------------------------------------------------------------------
(* What each step does to the accounts that are there. *)
Settling(r) == req[r].kind = "signup" /\ req[r].step \in {"settled", "consuming"}

(* A sign-up that has looked whether it is the first holds the settings row, and
   nobody else has an account if it saw nobody. *)
Queued ==
  \A r \in Requests : Settling(r) =>
    sentinel = r /\ (req[r].leads => \A p \in People : ~Has(p))
NobodyRanks == \A p \in People : account[p] = "none" => rank[p] = "member"
Leading == Queued /\ NobodyRanks

LEMMA JoiningIsAlone ==
  ASSUME TypeOK, Leading, NEW r \in Requests, Settling(r), NEW q \in Requests, Joins(q)
  PROVE  q = r
BY DEF Joins, Is, Leading, Queued, Settling

(* A step that is not a join gives nobody an account. *)
LEMMA OnlyJoinsAdd ==
  ASSUME TypeOK, [Next]_vars, NEW p \in People
  PROVE  \/ \E q \in Requests : Joins(q)
         \/ /\ Has(p)' => Has(p)
            /\ account'[p] = "none" => account[p] = "none" /\ rank'[p] = rank[p]
            /\ account[p] = "none" => rank'[p] \in {rank[p], "member"}
<1> USE DEF TypeOK, Has
<1>1. CASE Apart
  BY <1>1 DEF Apart, Issue, Expires, OpenOrClose, vars
<1>2. ASSUME NEW q \in Requests, Begins(q) \/ GoesOn(q) \/ RollsBack(q) \/ Revokes(q)
      PROVE  UNCHANGED <<account, rank>>
  BY <1>2 DEF Begins, GoesOn, Arrives, Admits, SignUp, SignUpAsserted, Admit, Decide, AskRevoke, First, Consume, Sweep, RollsBack, Revokes
<1>3. ASSUME NEW q \in Requests, SavesPerson(q)
      PROVE  /\ Has(p)' => Has(p)
             /\ account'[p] = "none" => account[p] = "none" /\ rank'[p] = rank[p]
             /\ account[p] = "none" => rank'[p] = rank[p]
  <2>1. Has(req[q].who)
    BY <1>3 DEF SavesPerson
  <2>2. CASE p = req[q].who
    <3>1. account'[p] \in {account[p], "active", "inactive"}
      BY <1>3, <2>2 DEF SavesPerson
    <3> QED BY <2>1, <2>2, <3>1
  <2>3. CASE p # req[q].who
    <3>1. account'[p] = account[p] /\ rank'[p] = rank[p]
      BY <1>3, <2>3 DEF SavesPerson
    <3> QED BY <3>1
  <2> QED BY <2>2, <2>3
<1>4. ASSUME NEW q \in Requests, Deletes(q)
      PROVE  /\ Has(p)' => Has(p)
             /\ account'[p] = "none" => account[p] = "none" /\ rank'[p] = rank[p]
             /\ account[p] = "none" => rank'[p] \in {rank[p], "member"}
  <2>1. CASE p = req[q].who
    <3>1. account'[p] = "gone" /\ rank'[p] = "member"
      BY <1>4, <2>1 DEF Deletes
    <3> QED BY <3>1
  <2>2. CASE p # req[q].who
    <3>1. account'[p] = account[p] /\ rank'[p] = rank[p]
      BY <1>4, <2>2 DEF Deletes
    <3> QED BY <3>1
  <2> QED BY <2>1, <2>2
<1> QED BY <1>1, <1>2, <1>3, <1>4, StepKinds DEF Ends

(* A sign-up gets to holding the settings row, or keeps it, or lets it go with all
   it held. *)
LEMMA QueuedKept ==
  ASSUME TypeOK, Leading, [Next]_vars
  PROVE  Queued'
<1> SUFFICES ASSUME NEW r \in Requests, Settling(r)'
             PROVE  sentinel' = r /\ (req'[r].leads => \A p \in People : ~Has(p)')
  BY DEF Queued
<1>0. req[r] \in Reqs
  BY DEF TypeOK
<1>a. ~(Free.kind = "signup")
  BY DEF Free
<1>1. CASE Apart
  <2>1. UNCHANGED <<req, sentinel, account>>
    BY <1>1 DEF Apart, Issue, Expires, OpenOrClose, vars
  <2> QED BY <2>1 DEF Leading, Queued, Settling, Has
<1>2. ASSUME NEW p \in People, First(r, p)
      PROVE  sentinel' = r /\ (req'[r].leads => \A q \in People : ~Has(q)')
  <2>1. sentinel' = r /\ UNCHANGED account
    BY <1>2 DEF First
  <2>2. req'[r] = [req[r] EXCEPT !.step = "settled", !.who = p,
                                 !.leads = ~\E q \in People : Has(q)]
    BY <1>2 DEF First, TypeOK
  <2>3. req'[r].leads = ~\E q \in People : Has(q)
    BY <1>0, <2>2 DEF Reqs
  <2> QED BY <2>1, <2>3 DEF Has
<1>3. ASSUME Settling(r), ~\E q \in Requests : Joins(q), req'[r].leads = req[r].leads, sentinel' = r
      PROVE  req'[r].leads => \A p \in People : ~Has(p)'
  BY <1>3, OnlyJoinsAdd DEF Leading, Queued
<1>4. ASSUME Consume(r)
      PROVE  sentinel' = r /\ (req'[r].leads => \A q \in People : ~Has(q)')
  <2>1. PICK i : req'[r] = [req[r] EXCEPT !.step = "consuming", !.inv = i]
    BY <1>4 DEF Consume, TypeOK
  <2>2. req'[r].leads = req[r].leads
    BY <1>0, <2>1 DEF Reqs
  <2>3. Settling(r) /\ UNCHANGED <<sentinel, account>>
    BY <1>4 DEF Consume, Is, Settling
  <2> QED BY <2>2, <2>3 DEF Leading, Queued, Has
<1>5. ASSUME NEW q \in Requests, Begins(q) \/ GoesOn(q) \/ Ends(q), q # r
      PROVE  sentinel' = r /\ (req'[r].leads => \A p \in People : ~Has(p)')
  <2>1. req'[r] = req[r] /\ Settling(r) /\ sentinel = r
    BY <1>5, OthersStay DEF Settling, Leading, Queued
  <2>2. ~\E s \in Requests : Joins(s)
    <3> SUFFICES ASSUME NEW s \in Requests, Joins(s) PROVE FALSE
      OBVIOUS
    <3>1. s = r
      BY <2>1, JoiningIsAlone
    <3>2. Ends(s)
      BY DEF Ends
    <3>3. req'[s] = Free
      BY <3>2, OthersStay
    <3> QED BY <1>a, <2>1, <3>1, <3>3 DEF Settling
  <2>3. sentinel' = r
    BY <1>5, <2>1, NobodyAssumption
       DEF Begins, GoesOn, Ends, Arrives, Admits, SignUp, SignUpAsserted, Admit, Decide, AskRevoke, First, Consume, Sweep, Joins, RollsBack,
           Release, SavesPerson, Deletes, Revokes
  <2> QED BY <1>3, <2>1, <2>2, <2>3
<1>6. ASSUME Begins(r)
      PROVE  FALSE
  <2>2. \A k \in Kinds, p \in People :
          k # "signup" => [Free EXCEPT !.kind = k, !.step = "checked", !.who = p].kind # "signup"
    BY DEF Free
  <2>3. \A i \in Invites : [Free EXCEPT !.kind = "revoke", !.step = "checked", !.inv = i].kind # "signup"
    BY DEF Free
  <2>4. ASSUME NEW i \in Invites \cup {Nobody}, NEW b \in BOOLEAN, Arrives(r, i, b)
        PROVE  req'[r].step = "arrived"
    BY <2>4 DEF Arrives, Arrived, Free, TypeOK
  <2>5. ASSUME NEW k \in Kinds, NEW p \in People, k # "signup", Decide(r, k, p)
        PROVE  req'[r].kind # "signup"
    BY <2>2, <2>5 DEF Decide, TypeOK
  <2>6. ASSUME NEW i \in Invites, AskRevoke(r, i)
        PROVE  req'[r].kind # "signup"
    BY <2>3, <2>6 DEF AskRevoke, TypeOK
  <2> QED BY <1>6, <2>4, <2>5, <2>6 DEF Begins, Settling
<1>7. ASSUME Sweep(r)
      PROVE  FALSE
  <2>1. PICK h : req'[r] = [req[r] EXCEPT !.step = "swept", !.holds = h]
    BY <1>7 DEF Sweep, TypeOK
  <2>2. req'[r].step = "swept"
    BY <1>0, <2>1 DEF Reqs
  <2> QED BY <2>2 DEF Settling
<1>8. ASSUME Ends(r)
      PROVE  FALSE
  BY <1>8, <1>a, OthersStay DEF Settling
<1>9. ASSUME Admits(r)
      PROVE  FALSE
  BY <1>9, Admitted DEF Settling
<1> QED BY <1>1, <1>2, <1>4, <1>5, <1>6, <1>7, <1>8, <1>9, StepKinds DEF GoesOn

LEMMA NobodyRanksKept ==
  ASSUME TypeOK, Leading, [Next]_vars
  PROVE  NobodyRanks'
<1> SUFFICES ASSUME NEW p \in People, account'[p] = "none"
             PROVE  rank'[p] = "member"
  BY DEF NobodyRanks
<1>1. ASSUME NEW q \in Requests, Joins(q)
      PROVE  account[p] = "none" /\ rank'[p] = rank[p]
  <2>1. p # req[q].who
    BY <1>1 DEF Joins, Join, TypeOK
  <2> QED BY <1>1, <2>1 DEF Joins, Join, TypeOK
<1> QED BY <1>1, OnlyJoinsAdd DEF Leading, NobodyRanks

(* Whoever leads by signing up is the first, however many sign up side by side:
   each has the settings row to itself from its look until it commits. *)
THEOREM TheFirstLeads == Spec => FirstLeads
<1>1. Init => Leading
  <2>1. ASSUME Init, NEW r \in Requests
        PROVE  req[r].kind = "idle"
    BY <2>1 DEF Init, Free
  <2>2. Init => Queued
    BY <2>1 DEF Queued, Settling
  <2>3. Init => NobodyRanks
    BY DEF Init, NobodyRanks
  <2> QED BY <2>2, <2>3 DEF Leading
<1>2. TypeOK /\ Leading /\ [Next]_vars => Leading'
  BY QueuedKept, NobodyRanksKept DEF Leading
<1>3. TypeOK /\ Leading /\ [Next]_vars =>
        [\A p \in People :
           account[p] = "none" /\ rank'[p] = "operator" =>
             \A q \in People \ {p} : ~Has(q)]_vars
  <2> SUFFICES ASSUME TypeOK, Leading, [Next]_vars,
                      NEW p \in People, account[p] = "none", rank'[p] = "operator",
                      NEW o \in People \ {p}
               PROVE  ~Has(o)
    OBVIOUS
  <2>1. rank[p] = "member"
    BY DEF Leading, NobodyRanks
  <2>2. PICK q \in Requests : Joins(q)
    BY <2>1, OnlyJoinsAdd
  <2>3. req[q].leads
    BY <2>1, <2>2 DEF Joins, Join, TypeOK
  <2>4. Settling(q)
    BY <2>2 DEF Joins, Is, Settling
  <2> QED BY <2>3, <2>4 DEF Leading, Queued
<1> QED BY <1>1, <1>2, <1>3, AccountsTyped, PTL DEF Spec, FirstLeads

-----------------------------------------------------------------------------
(* An invitation that is not there yet, or that no longer stands. *)
Unmade(i) == invite[i].state = "none"
Over(i) == ~Unmade(i) /\ ~Pending(i)

(* Who came by an invitation, but for those a provider spoke for that did not spend it. *)
Came(i) == made[i] \ vouched

(* A request holds rows that nobody else holds; a sign-up let in by an invitation still
   has it to spend, or none; by the form it holds it, nobody has come by it yet, and it
   is still there to spend unless it is over; and one somebody came by is over. *)
HeldApart == \A q, r \in Requests : q # r => req[q].holds \cap req[r].holds = {}
LetIn ==
  \A r \in Requests : req[r].via # Nobody =>
    /\ req[r].kind = "signup" /\ req[r].inv \in {req[r].via, Nobody}
    /\ ~req[r].asserted =>
         /\ req[r].via \in req[r].holds /\ Came(req[r].via) = {} /\ ~Unmade(req[r].via)
         /\ \/ req[r].inv = req[r].via
            \/ req[r].step = "consuming" /\ Over(req[r].via)
SpentOnOne ==
  \A i \in Invites : Came(i) = {} \/ (Over(i) /\ \E p \in People : Came(i) = {p})
Spending == HeldApart /\ LetIn /\ SpentOnOne

(* An invitation that has been made is not unmade, and one that is over stays so. *)
LEMMA InvitesMove ==
  ASSUME TypeOK, [Next]_vars, NEW i \in Invites
  PROVE  (~Unmade(i) => ~Unmade(i)') /\ (Over(i) => Over(i)')
<1> USE DEF TypeOK, Unmade, Over, Pending
<1>0. invite[i] \in InviteRows
  OBVIOUS
<1>1. CASE Apart
  <2>1. ASSUME NEW p \in People, NEW j \in Invites, Issue(p, j)
        PROVE  ~Unmade(i) => invite'[i] = invite[i]
    BY <2>1 DEF Issue
  <2>2. ASSUME NEW j \in Invites, Expires(j)
        PROVE  invite'[i] = invite[i] \/ (Pending(i) /\ invite'[i].state = "expired")
    BY <1>0, <2>2 DEF Expires, InviteRows
  <2>3. CASE OpenOrClose \/ UNCHANGED vars
    BY <2>3 DEF OpenOrClose, vars
  <2> QED BY <1>1, <2>1, <2>2, <2>3 DEF Apart
<1>2. ASSUME NEW q \in Requests, Begins(q) \/ GoesOn(q) \/ RollsBack(q) \/ SavesPerson(q)
      PROVE  UNCHANGED invite
  BY <1>2 DEF Begins, GoesOn, Arrives, Admits, SignUp, SignUpAsserted, Admit, Decide, AskRevoke, First, Consume, Sweep, RollsBack,
              SavesPerson
<1>3. ASSUME NEW q \in Requests, Joins(q)
      PROVE  invite'[i] = invite[i] \/ invite'[i].state = "accepted"
  BY <1>3 DEF Joins, Join
<1>4. ASSUME NEW q \in Requests, Revokes(q)
      PROVE  invite'[i] = invite[i] \/ invite'[i].state = "gone"
  BY <1>4 DEF Revokes
<1>5. ASSUME NEW q \in Requests, Deletes(q)
      PROVE  invite'[i].state = "gone" \/ invite'[i].state = invite[i].state
  <2> DEFINE mine == i \in req[q].holds \/ (invite[i].state = "accepted" /\ invite[i].of = req[q].who)
  <2>1. CASE mine
    BY <1>5, <2>1 DEF Deletes
  <2>2. CASE ~mine
    <3>1. invite'[i] = invite[i] \/ invite'[i] = [invite[i] EXCEPT !.of = Nobody]
      BY <1>5, <2>2 DEF Deletes
    <3> QED BY <1>0, <3>1 DEF InviteRows
  <2> QED BY <2>1, <2>2
<1> QED BY <1>1, <1>2, <1>3, <1>4, <1>5, StepKinds DEF Ends

(* What a step does to the request that takes it, as far as its rows go. *)
LEMMA HoldsMove ==
  ASSUME TypeOK, Spending, NEW q \in Requests, Begins(q) \/ GoesOn(q) \/ Ends(q)
  PROVE  \/ req'[q].holds = {} /\ req'[q].via = Nobody
         \/ /\ req'[q].holds = req[q].holds /\ req'[q].via = req[q].via
            /\ req'[q].kind = req[q].kind /\ req'[q].asserted = req[q].asserted
            /\ req[q].via # Nobody =>
                 \/ req'[q].inv = req[q].inv /\ req[q].step # "consuming"
                 \/ /\ req'[q].step = "consuming"
                    /\ \/ req'[q].inv = req[q].via
                       \/ req'[q].inv = Nobody /\ (req[q].asserted \/ Over(req[q].via))
         \/ /\ req'[q].via = Nobody
            /\ \A r \in Requests \ {q} : req'[q].holds \cap req[r].holds = {}
         \/ \E i \in Invites :
              /\ req'[q].kind = "signup" /\ req'[q].via = i /\ req'[q].inv = i /\ Pending(i)
              /\ \/ req'[q].asserted /\ req'[q].holds = {}
                 \/ /\ req'[q].holds = {i}
                    /\ \A r \in Requests \ {q} : i \notin req[r].holds
<1>0. req[q] \in Reqs
  BY DEF TypeOK
<1>a. Free.holds = {} /\ Free.via = Nobody
  BY DEF Free
<1>1. CASE Ends(q)
  BY <1>1, <1>a, OthersStay
<1>2. ASSUME Admits(q)
      PROVE  \/ req'[q].holds = {} /\ req'[q].via = Nobody
             \/ \E i \in Invites :
                  /\ req'[q].kind = "signup" /\ req'[q].via = i /\ req'[q].inv = i /\ Pending(i)
                  /\ \/ req'[q].asserted /\ req'[q].holds = {}
                     \/ /\ req'[q].holds = {i}
                        /\ \A r \in Requests \ {q} : i \notin req[r].holds
  <2>1. req[q].inv \in Invites \cup {Nobody}
    BY <1>0 DEF Reqs
  <2> QED BY <1>2, <2>1, Admitted DEF Waited
<1>3. ASSUME \/ \E i \in Invites \cup {Nobody}, b \in BOOLEAN : Arrives(q, i, b)
             \/ \E k \in Kinds, p \in People : Decide(q, k, p)
             \/ \E i \in Invites : AskRevoke(q, i)
      PROVE  req'[q].holds = {} /\ req'[q].via = Nobody
  <2>1. \A k \in Kinds, p \in People :
          /\ [Free EXCEPT !.kind = k, !.step = "checked", !.who = p].holds = {}
          /\ [Free EXCEPT !.kind = k, !.step = "checked", !.who = p].via = Nobody
    BY DEF Free
  <2>2. \A i \in Invites :
          /\ [Free EXCEPT !.kind = "revoke", !.step = "checked", !.inv = i].holds = {}
          /\ [Free EXCEPT !.kind = "revoke", !.step = "checked", !.inv = i].via = Nobody
    BY DEF Free
  <2>3. ASSUME NEW k \in Kinds, NEW p \in People, Decide(q, k, p)
        PROVE  req'[q].holds = {} /\ req'[q].via = Nobody
    BY <2>1, <2>3 DEF Decide, TypeOK
  <2>4. ASSUME NEW i \in Invites, AskRevoke(q, i)
        PROVE  req'[q].holds = {} /\ req'[q].via = Nobody
    BY <2>2, <2>4 DEF AskRevoke, TypeOK
  <2>5. ASSUME NEW i \in Invites \cup {Nobody}, NEW b \in BOOLEAN, Arrives(q, i, b)
        PROVE  req'[q].holds = {} /\ req'[q].via = Nobody
    BY <2>5 DEF Arrives, Arrived, Free, TypeOK
  <2> QED BY <1>3, <2>3, <2>4, <2>5
<1>4. ASSUME NEW p \in People, First(q, p)
      PROVE  /\ req'[q].holds = req[q].holds /\ req'[q].via = req[q].via
             /\ req'[q].inv = req[q].inv /\ req[q].step # "consuming"
             /\ req'[q].kind = req[q].kind /\ req'[q].asserted = req[q].asserted
  <2>1. PICK b \in BOOLEAN : req'[q] = [req[q] EXCEPT !.step = "settled", !.who = p, !.leads = b]
    BY <1>4 DEF First, TypeOK
  <2>2. /\ req'[q].holds = req[q].holds /\ req'[q].via = req[q].via
        /\ req'[q].inv = req[q].inv /\ req'[q].kind = req[q].kind
        /\ req'[q].asserted = req[q].asserted
    BY <1>0, <2>1 DEF Reqs
  <2> QED BY <1>4, <2>2 DEF First, Is
<1>5. ASSUME Consume(q)
      PROVE  /\ req'[q].holds = req[q].holds /\ req'[q].via = req[q].via
             /\ req'[q].kind = req[q].kind /\ req'[q].asserted = req[q].asserted
             /\ req[q].via # Nobody =>
                  /\ req'[q].step = "consuming"
                  /\ \/ req'[q].inv = req[q].via
                     \/ req'[q].inv = Nobody /\ (req[q].asserted \/ Over(req[q].via))
  <2> DEFINE j == IF Invited(q) THEN req[q].inv ELSE Nobody
  <2>1. req'[q] = [req[q] EXCEPT !.step = "consuming", !.inv = j]
    BY <1>5 DEF Consume, TypeOK
  <2>2. /\ req'[q].holds = req[q].holds /\ req'[q].via = req[q].via
        /\ req'[q].kind = req[q].kind /\ req'[q].inv = j /\ req'[q].step = "consuming"
        /\ req'[q].asserted = req[q].asserted
    BY <1>0, <2>1 DEF Reqs
  <2>3. req[q].step = "settled"
    BY <1>5 DEF Consume, Is
  <2>4. req[q].via # Nobody =>
          /\ req[q].inv \in {req[q].via, Nobody}
          /\ req[q].asserted \/ (req[q].inv = req[q].via /\ ~Unmade(req[q].via))
    BY <2>3 DEF Spending, LetIn
  <2> QED BY <2>2, <2>4 DEF Over, Invited
<1>6. ASSUME Sweep(q)
      PROVE  /\ req'[q].via = Nobody
             /\ \A r \in Requests \ {q} : req'[q].holds \cap req[r].holds = {}
  <2> DEFINE h == IssuedBy(req[q].who)
  <2>1. req'[q] = [req[q] EXCEPT !.step = "swept", !.holds = h]
    BY <1>6 DEF Sweep, TypeOK
  <2>2. req'[q].via = req[q].via /\ req'[q].holds = h
    BY <1>0, <2>1 DEF Reqs
  <2>3. req[q].via = Nobody
    BY <1>6 DEF Sweep, Is, Spending, LetIn
  <2>4. \A i \in h : Waited(q, i)
    BY <1>6 DEF Sweep
  <2> QED BY <2>2, <2>3, <2>4 DEF Waited
<1> QED BY <1>1, <1>2, <1>3, <1>4, <1>5, <1>6 DEF Begins, GoesOn

LEMMA HeldApartKept ==
  ASSUME TypeOK, Spending, [Next]_vars
  PROVE  HeldApart'
<1>1. CASE Apart
  BY <1>1, ApartLeavesRequests DEF Spending, HeldApart
<1>2. ASSUME NEW q \in Requests, Begins(q) \/ GoesOn(q) \/ Ends(q)
      PROVE  HeldApart'
  <2>1. \A r \in Requests \ {q} : req'[r] = req[r]
    BY <1>2, OthersStay
  <2>2. \A r \in Requests \ {q} : req'[q].holds \cap req[r].holds = {}
    BY <1>2, HoldsMove DEF Spending, HeldApart
  <2> QED BY <2>1, <2>2 DEF Spending, HeldApart
<1> QED BY <1>1, <1>2, StepKinds

(* Who comes by an invitation: only the sign-up that it let in, or that spends it
   while nobody else holds it. *)
LEMMA MadeMoves ==
  ASSUME TypeOK, Spending, [Next]_vars, NEW i \in Invites
  PROVE  \/ Came(i)' \subseteq Came(i)
         \/ \E q \in Requests :
              /\ Joins(q) /\ Came(i)' \subseteq Came(i) \cup {req[q].who}
              /\ \/ req[q].via = i /\ ~req[q].asserted
                 \/ req[q].inv = i /\ Pending(i) /\ Waited(q, i) /\ Over(i)'
<1> USE DEF TypeOK, Came
<1>1. ASSUME NEW q \in Requests, Joins(q)
      PROVE  \/ Came(i)' \subseteq Came(i)
             \/ /\ Came(i)' \subseteq Came(i) \cup {req[q].who}
                /\ \/ req[q].via = i /\ ~req[q].asserted
                   \/ req[q].inv = i /\ Pending(i) /\ Waited(q, i) /\ Over(i)'
  <2>1. made'[i] = IF i = req[q].via \/ (Invited(q) /\ i = req[q].inv)
                   THEN made[i] \cup {req[q].who} ELSE made[i]
    BY <1>1 DEF Joins, Join
  <2>2. /\ vouched \subseteq vouched'
        /\ req[q].asserted /\ req[q].via # Nobody /\ ~Invited(q) => req[q].who \in vouched'
    BY <1>1 DEF Joins, Join
  <2>3. CASE Invited(q) /\ i = req[q].inv
    <3>1. invite'[i] = [state |-> "accepted", of |-> req[q].who]
      BY <1>1, <2>3 DEF Joins, Join
    <3>2. Over(i)'
      BY <3>1 DEF Over, Unmade, Pending
    <3>3. Waited(q, i) /\ Pending(i)
      BY <1>1, <2>3 DEF Joins, Invited
    <3> QED BY <2>1, <2>2, <2>3, <3>2, <3>3
  <2>4. CASE ~(Invited(q) /\ i = req[q].inv)
    <3>1. CASE i = req[q].via /\ req[q].asserted
      <4>1. i # Nobody
        BY NobodyAssumption
      <4>2. ~Invited(q)
        BY <2>4, <3>1, <4>1 DEF Spending, LetIn, Invited
      <4> QED BY <2>1, <2>2, <3>1, <4>1, <4>2
    <3> QED BY <2>1, <2>2, <2>4, <3>1
  <2> QED BY <2>3, <2>4
<1>2. ASSUME ~\E q \in Requests : Joins(q)
      PROVE  UNCHANGED <<made, vouched>>
  <2>1. CASE Apart
    BY <2>1 DEF Apart, Issue, Expires, OpenOrClose, vars
  <2>2. ASSUME NEW q \in Requests, Begins(q) \/ GoesOn(q) \/ Ends(q)
        PROVE  UNCHANGED <<made, vouched>>
    BY <1>2, <2>2 DEF Begins, GoesOn, Ends, Arrives, Admits, SignUp, SignUpAsserted, Admit, Decide,
                      AskRevoke, First, Consume, Sweep, RollsBack, SavesPerson, Deletes, Revokes
  <2> QED BY <2>1, <2>2, StepKinds
<1> QED BY <1>1, <1>2

LEMMA JoiningEnds ==
  ASSUME TypeOK, NEW q \in Requests, Joins(q)
  PROVE  req'[q] = Free /\ req'[q] # req[q]
<1>1. req[q].kind = "signup" /\ req'[q] = Free
  BY DEF Joins, Is, TypeOK
<1>2. Free.kind = "idle"
  BY DEF Free
<1> QED BY <1>1, <1>2

(* What is known of a sign-up that has been let in goes on, unless it joins. *)
LEMMA StaysLetIn ==
  ASSUME TypeOK, Spending, [Next]_vars, NEW r \in Requests, NEW v, v # Nobody,
         req[r].via = v, ~req[r].asserted, ~Joins(r)
  PROVE  /\ v \in req[r].holds /\ Came(v)' = {} /\ ~Unmade(v)' /\ (Over(v) => Over(v)')
<1> USE DEF Spending
<1>1. v \in Invites /\ Came(v) = {} /\ v \in req[r].holds /\ ~Unmade(v)
  BY DEF LetIn, TypeOK, Reqs
<1>2. (~Unmade(v))' /\ (Over(v) => Over(v)')
  BY <1>1, InvitesMove DEF Unmade, Over, Pending
<1>3. ASSUME NEW q \in Requests, Joins(q)
      PROVE  ~(req[q].via = v /\ ~req[q].asserted) /\ ~Waited(q, v)
  <2>1. q # r
    BY <1>3
  <2>2. req[q].via # Nobody /\ ~req[q].asserted => req[q].via \in req[q].holds
    BY DEF LetIn
  <2>3. req[q].holds \cap req[r].holds = {}
    BY <2>1 DEF HeldApart
  <2> QED BY <1>1, <2>1, <2>2, <2>3 DEF Waited
<1>4. Came(v)' \subseteq Came(v)
  BY <1>1, <1>3, MadeMoves
<1> QED BY <1>1, <1>2, <1>4 DEF Came, Unmade

LEMMA LetInKept ==
  ASSUME TypeOK, Spending, [Next]_vars
  PROVE  LetIn'
<1> USE DEF Spending
<1> SUFFICES ASSUME NEW r \in Requests, NEW v, v # Nobody, req'[r].via = v
             PROVE  /\ req'[r].kind = "signup" /\ req'[r].inv \in {v, Nobody}
                    /\ ~req'[r].asserted =>
                         /\ v \in req'[r].holds /\ Came(v)' = {} /\ ~Unmade(v)'
                         /\ req'[r].inv = v \/ (req'[r].step = "consuming" /\ Over(v)')
  BY DEF LetIn, Came, Unmade, Over, Pending
<1>1. CASE req'[r] = req[r]
  <2>1. ~Joins(r)
    BY <1>1, JoiningEnds
  <2>2. /\ req[r].kind = "signup" /\ req[r].inv \in {v, Nobody}
        /\ ~req[r].asserted => req[r].inv = v \/ (req[r].step = "consuming" /\ Over(v))
    BY <1>1 DEF LetIn
  <2> QED BY <1>1, <2>1, <2>2, StaysLetIn
<1>2. CASE Apart
  BY <1>1, <1>2, ApartLeavesRequests
<1>3. ASSUME NEW q \in Requests, Begins(q) \/ GoesOn(q) \/ Ends(q), q # r
      PROVE  req'[r] = req[r]
  BY <1>3, OthersStay
<1>4. CASE Begins(r) \/ GoesOn(r) \/ Ends(r)
  <2>0. ~Joins(r)
    <3>1. Free.via = Nobody
      BY DEF Free
    <3> QED BY <3>1, JoiningEnds
  <2>1. CASE /\ req'[r].via = req[r].via /\ req'[r].holds = req[r].holds
             /\ req'[r].kind = req[r].kind /\ req'[r].asserted = req[r].asserted
             /\ req[r].via # Nobody =>
                  \/ req'[r].inv = req[r].inv /\ req[r].step # "consuming"
                  \/ /\ req'[r].step = "consuming"
                     /\ \/ req'[r].inv = req[r].via
                        \/ req'[r].inv = Nobody /\ (req[r].asserted \/ Over(req[r].via))
    <3>1. /\ req[r].kind = "signup" /\ req[r].inv \in {v, Nobody}
          /\ ~req[r].asserted => req[r].inv = v \/ (req[r].step = "consuming" /\ Over(v))
      BY <2>1 DEF LetIn
    <3> QED BY <2>0, <2>1, <3>1, StaysLetIn
  <2>2. CASE \E q \in Requests : Joins(q)
    <3>1. req'[r] = req[r]
      BY <2>0, <2>2, OthersStay DEF Ends
    <3> QED BY <1>1, <3>1
  <2>3. ASSUME ~\E q \in Requests : Joins(q), NEW i \in Invites,
               req'[r].kind = "signup", req'[r].via = i, req'[r].inv = i, Pending(i),
               \/ req'[r].asserted /\ req'[r].holds = {}
               \/ /\ req'[r].holds = {i}
                  /\ \A q \in Requests \ {r} : i \notin req[q].holds
        PROVE  /\ req'[r].kind = "signup" /\ req'[r].inv = v
               /\ ~req'[r].asserted => v \in req'[r].holds
               /\ Came(v)' = {} /\ (~Unmade(v))'
    <3>1. ~Unmade(i) /\ Came(i) = {}
      BY <2>3 DEF SpentOnOne, Over, Unmade, Pending
    <3>2. (~Unmade(i))'
      BY <3>1, InvitesMove DEF Unmade, Over, Pending
    <3>3. Came(i)' \subseteq Came(i)
      BY <2>3, MadeMoves
    <3> QED BY <2>3, <3>1, <3>2, <3>3 DEF Came, Unmade
  <2> QED BY <1>4, <2>1, <2>2, <2>3, HoldsMove
<1> QED BY <1>1, <1>2, <1>3, <1>4, StepKinds

LEMMA SpentOnOneKept ==
  ASSUME TypeOK, KnowsWho, Spending, [Next]_vars
  PROVE  SpentOnOne'
<1> USE DEF Spending
<1> SUFFICES ASSUME NEW i \in Invites
             PROVE  Came(i)' = {} \/ (Over(i)' /\ \E p \in People : Came(i)' = {p})
  BY DEF SpentOnOne, Came, Over, Unmade, Pending
<1>1. CASE Came(i)' \subseteq Came(i)
  <2>1. Over(i) => Over(i)'
    BY InvitesMove DEF Over, Unmade, Pending
  <2> QED BY <1>1, <2>1 DEF SpentOnOne
<1>2. ASSUME NEW q \in Requests, Joins(q), Came(i)' \subseteq Came(i) \cup {req[q].who},
             req[q].via = i, ~req[q].asserted
      PROVE  Came(i)' = {} \/ (Over(i)' /\ \E p \in People : Came(i)' = {p})
  <2>1. i # Nobody
    BY NobodyAssumption
  <2>2. Came(i) = {} /\ ~Unmade(i) /\ (req[q].inv = i \/ Over(i))
    BY <1>2, <2>1 DEF LetIn
  <2>3. req[q].who \in People
    BY <1>2 DEF Joins, Is, KnowsWho
  <2>4. Over(i)'
    <3>1. CASE Over(i)
      BY <3>1, InvitesMove DEF Over, Unmade, Pending
    <3>2. CASE ~Over(i)
      <4>1. Pending(i) /\ req[q].inv = i
        BY <2>2, <3>2 DEF Over
      <4>2. invite'[i] = [state |-> "accepted", of |-> req[q].who]
        BY <1>2, <2>1, <4>1 DEF Joins, Join, Invited, TypeOK
      <4> QED BY <4>2 DEF Over, Unmade, Pending
    <3> QED BY <3>1, <3>2
  <2>5. Came(i)' \subseteq {req[q].who}
    BY <1>2, <2>2
  <2> QED BY <2>3, <2>4, <2>5
<1>3. ASSUME NEW q \in Requests, Joins(q), Came(i)' \subseteq Came(i) \cup {req[q].who},
             Pending(i), Over(i)'
      PROVE  Came(i)' = {} \/ (Over(i)' /\ \E p \in People : Came(i)' = {p})
  <2>1. Came(i) = {}
    BY <1>3 DEF SpentOnOne, Over
  <2>2. req[q].who \in People
    BY <1>3 DEF Joins, Is, KnowsWho
  <2>3. Came(i)' \subseteq {req[q].who}
    BY <1>3, <2>1
  <2> QED BY <1>3, <2>2, <2>3
<1> QED BY <1>1, <1>2, <1>3, MadeMoves DEF Came, Over, Unmade, Pending

(* An invitation lets one sign-up in by the form, and is spent on one: the row is held
   from the look that lets it in until it commits.  Who comes besides was let in by a
   provider's word and an invitation that was not there to spend any more. *)
THEOREM InvitationsAreOnce == Spec => []InvitationOnce
<1>1. Init => KnowsWho /\ Spending
  <2>1. ASSUME Init, NEW r \in Requests
        PROVE  req[r].kind = "idle" /\ req[r].via = Nobody /\ req[r].holds = {}
    BY <2>1 DEF Init, Free
  <2>2. Init => SpentOnOne
    BY DEF Init, SpentOnOne, Came
  <2>3. Init => HeldApart /\ LetIn /\ KnowsWho
    BY <2>1 DEF HeldApart, LetIn, KnowsWho
  <2> QED BY <2>2, <2>3 DEF Spending
<1>2. TypeOK /\ KnowsWho /\ Spending /\ [Next]_vars => (KnowsWho /\ Spending)'
  BY KnowsWhoKept, HeldApartKept, LetInKept, SpentOnOneKept DEF Spending
<1>3. Spending => InvitationOnce
  <2> SUFFICES ASSUME SpentOnOne, NEW i \in Invites
               PROVE  Cardinality(Came(i)) <= 1
    BY DEF Spending, InvitationOnce, Came
  <2>1. CASE Came(i) = {}
    BY <2>1, FS_EmptySet
  <2>2. CASE \E p \in People : Came(i) = {p}
    <3>1. PICK p \in People : Came(i) = {p}
      BY <2>2
    <3>2. Cardinality({p}) = 1
      BY FS_Singleton
    <3> QED BY <3>1, <3>2
  <2> QED BY <2>1, <2>2 DEF SpentOnOne
<1> QED BY <1>1, <1>2, <1>3, AccountsTyped, PTL DEF Spec

-----------------------------------------------------------------------------
(* What a person under deletion issued is among what the deletion holds, or was
   issued since. *)
SweptAll ==
  \A r \in Requests, i \in Invites :
    Is(r, "delete", "swept") /\ Pending(i) /\ invite[i].of = req[r].who =>
      i \in req[r].holds \/ i \in stray
GoingAlong == InvitationsGoAlong /\ SweptAll

(* What a step leaves pending was so before, from the same person, or is issued. *)
LEMMA PendingMoves ==
  ASSUME TypeOK, KnowsWho, GoingAlong, [Next]_vars, NEW i \in Invites, Pending(i)'
  PROVE  /\ i \in stray => i \in stray'
         /\ \/ Pending(i) /\ invite'[i].of = invite[i].of
            \/ i \in stray'
            \/ \E by \in People : Issue(by, i) /\ invite'[i].of = by
<1> USE DEF TypeOK, Pending
<1>0. invite[i] \in InviteRows
  OBVIOUS
<1>1. ASSUME NEW p \in People, NEW j \in Invites, Issue(p, j)
      PROVE  /\ stray \subseteq stray'
             /\ invite'[i] = invite[i] \/ (i = j /\ invite'[i].of = p)
  <2>1. invite' = [invite EXCEPT ![j] = [state |-> "pending", of |-> p]]
    BY <1>1 DEF Issue
  <2>2. stray' = stray \cup {j} \/ stray' = stray
    BY <1>1 DEF Issue
  <2> QED BY <2>1, <2>2
<1>2. ASSUME NEW j \in Invites, Expires(j)
      PROVE  stray' = stray /\ invite'[i] = invite[i]
  <2>1. invite' = [invite EXCEPT ![j].state = "expired"] /\ stray' = stray
    BY <1>2 DEF Expires
  <2>2. i = j => invite'[i].state = "expired"
    BY <1>0, <2>1 DEF InviteRows
  <2> QED BY <2>1, <2>2
<1>3. CASE OpenOrClose \/ UNCHANGED vars
  BY <1>3 DEF OpenOrClose, vars
<1>4. ASSUME NEW q \in Requests,
             Begins(q) \/ GoesOn(q) \/ RollsBack(q) \/ SavesPerson(q) \/ Joins(q) \/ Revokes(q)
      PROVE  stray' = stray /\ invite'[i] = invite[i]
  <2>1. CASE Begins(q) \/ GoesOn(q) \/ RollsBack(q) \/ SavesPerson(q)
    BY <2>1 DEF Begins, GoesOn, Arrives, Admits, SignUp, SignUpAsserted, Admit, Decide, AskRevoke, First, Consume, Sweep, RollsBack,
                SavesPerson
  <2>2. CASE Joins(q)
    BY <2>2 DEF Joins, Join
  <2>3. CASE Revokes(q)
    BY <2>3 DEF Revokes
  <2> QED BY <1>4, <2>1, <2>2, <2>3
<1>5. ASSUME NEW q \in Requests, Deletes(q)
      PROVE  stray' = stray /\ (i \in stray \/ invite'[i] = invite[i])
  <2> DEFINE p == req[q].who
             mine == i \in req[q].holds \/ (invite[i].state = "accepted" /\ invite[i].of = p)
  <2>1. invite'[i] = CASE mine -> [state |-> "gone", of |-> Nobody]
                       [] i \notin req[q].holds /\ invite[i].state \in {"pending", "expired"}
                          /\ invite[i].of = p -> [invite[i] EXCEPT !.of = Nobody]
                       [] OTHER -> invite[i]
    BY <1>5 DEF Deletes
  <2>2. ~mine
    BY <2>1
  <2>3. CASE invite[i].state \in {"pending", "expired"} /\ invite[i].of = p
    <3>1. invite'[i] = [invite[i] EXCEPT !.of = Nobody]
      BY <2>1, <2>2, <2>3
    <3>2. Pending(i)
      BY <1>0, <3>1 DEF InviteRows
    <3> QED BY <1>5, <2>2, <2>3, <3>2 DEF GoingAlong, SweptAll, Deletes, Is
  <2>4. CASE ~(invite[i].state \in {"pending", "expired"} /\ invite[i].of = p)
    <3>1. invite'[i] = invite[i]
      BY <2>1, <2>2, <2>4
    <3> QED BY <1>5, <3>1 DEF Deletes
  <2> QED BY <1>5, <2>3, <2>4 DEF Deletes
<1> QED BY <1>1, <1>2, <1>3, <1>4, <1>5, StepKinds DEF Ends, Apart

LEMMA SweptAllKept ==
  ASSUME TypeOK, KnowsWho, GoingAlong, [Next]_vars
  PROVE  SweptAll'
<1> SUFFICES ASSUME NEW r \in Requests, NEW i \in Invites,
                    req'[r].kind = "delete", req'[r].step = "swept",
                    Pending(i)', invite'[i].of = req'[r].who
             PROVE  i \in req'[r].holds \/ i \in stray'
  BY DEF SweptAll, Is, Pending
<1>0. req[r] \in Reqs
  BY DEF TypeOK
<1>1. CASE req'[r] = req[r]
  <2>1. CASE Pending(i) /\ invite'[i].of = invite[i].of
    <3>1. i \in req[r].holds \/ i \in stray
      BY <1>1, <2>1 DEF GoingAlong, SweptAll, Is
    <3> QED BY <1>1, <3>1, PendingMoves
  <2>2. ASSUME NEW by \in People, Issue(by, i), invite'[i].of = by
        PROVE  i \in stray'
    BY <1>1, <2>2 DEF Issue, Is
  <2> QED BY <2>1, <2>2, PendingMoves
<1>2. ASSUME Sweep(r)
      PROVE  i \in req'[r].holds
  <2>1. req'[r] = [req[r] EXCEPT !.step = "swept", !.holds = IssuedBy(req[r].who)]
    BY <1>2 DEF Sweep, TypeOK
  <2>2. req'[r].holds = IssuedBy(req[r].who) /\ req'[r].who = req[r].who
    BY <1>0, <2>1 DEF Reqs
  <2>3. invite' = invite
    BY <1>2 DEF Sweep
  <2> QED BY <2>2, <2>3 DEF IssuedBy, Pending
<1>3. ASSUME Begins(r) \/ Admits(r) \/ (\E p \in People : First(r, p)) \/ Consume(r) \/ Ends(r)
      PROVE  FALSE
  <2>1. CASE Ends(r)
    <3>1. Free.kind = "idle"
      BY DEF Free
    <3> QED BY <2>1, <3>1, OthersStay
  <2>2. ASSUME NEW p \in People, First(r, p)
        PROVE  FALSE
    <3>1. PICK b \in BOOLEAN : req'[r] = [req[r] EXCEPT !.step = "settled", !.who = p, !.leads = b]
      BY <2>2 DEF First, TypeOK
    <3>2. req'[r].step = "settled"
      BY <1>0, <3>1 DEF Reqs
    <3> QED BY <3>2
  <2>3. CASE Consume(r)
    <3>1. PICK j : req'[r] = [req[r] EXCEPT !.step = "consuming", !.inv = j]
      BY <2>3 DEF Consume, TypeOK
    <3>2. req'[r].step = "consuming"
      BY <1>0, <3>1 DEF Reqs
    <3> QED BY <3>2
  <2>4. ASSUME NEW j \in Invites \cup {Nobody}, NEW b \in BOOLEAN, Arrives(r, j, b)
        PROVE  FALSE
    BY <2>4 DEF Arrives, Arrived, Free, TypeOK
  <2>5. ASSUME NEW k \in Kinds, NEW p \in People, Decide(r, k, p)
        PROVE  FALSE
    <3>1. [Free EXCEPT !.kind = k, !.step = "checked", !.who = p].step = "checked"
      BY DEF Free
    <3> QED BY <2>5, <3>1 DEF Decide, TypeOK
  <2>6. ASSUME NEW j \in Invites, AskRevoke(r, j)
        PROVE  FALSE
    <3>1. [Free EXCEPT !.kind = "revoke", !.step = "checked", !.inv = j].step = "checked"
      BY DEF Free
    <3> QED BY <2>6, <3>1 DEF AskRevoke, TypeOK
  <2> QED BY <1>3, <2>1, <2>2, <2>3, <2>4, <2>5, <2>6, Admitted DEF Begins
<1>4. ASSUME NEW q \in Requests, Begins(q) \/ GoesOn(q) \/ Ends(q), q # r
      PROVE  req'[r] = req[r]
  BY <1>4, OthersStay
<1>5. CASE Apart
  BY <1>1, <1>5, ApartLeavesRequests
<1> QED BY <1>1, <1>2, <1>3, <1>4, <1>5, StepKinds DEF GoesOn

(* An invitation that can still be followed has an issuer, except for those that
   were issued while their issuer was being deleted. *)
THEOREM InvitationsGoToo == Spec => []InvitationsGoAlong
<1>1. Init => KnowsWho /\ GoingAlong
  <2>1. ASSUME Init, NEW r \in Requests
        PROVE  req[r].kind = "idle"
    BY <2>1 DEF Init, Free
  <2>2. Init => InvitationsGoAlong
    BY DEF Init, InvitationsGoAlong, Pending
  <2>3. Init => SweptAll /\ KnowsWho
    BY <2>1 DEF SweptAll, Is, KnowsWho
  <2> QED BY <2>2, <2>3 DEF GoingAlong
<1>2. TypeOK /\ KnowsWho /\ GoingAlong /\ [Next]_vars => (KnowsWho /\ GoingAlong)'
  <2> SUFFICES ASSUME TypeOK, KnowsWho, GoingAlong, [Next]_vars
               PROVE  InvitationsGoAlong' /\ SweptAll' /\ KnowsWho'
    BY DEF GoingAlong
  <2>1. ASSUME NEW i \in Invites, Pending(i)'
        PROVE  invite'[i].of # Nobody \/ i \in stray'
    BY <2>1, PendingMoves, NobodyAssumption DEF GoingAlong, InvitationsGoAlong
  <2> QED BY <2>1, SweptAllKept, KnowsWhoKept DEF InvitationsGoAlong, Pending
<1>3. GoingAlong => InvitationsGoAlong
  BY DEF GoingAlong
<1> QED BY <1>1, <1>2, <1>3, AccountsTyped, PTL DEF Spec

-----------------------------------------------------------------------------
(* Somebody administers: not inductive by itself.  Of a removal under way it   *)
(* must be known that somebody else administers; that every removal under way *)
(* is of the same account, or their administrators might be one another; and  *)
(* of a sign-up that found others before it, that they are still there.       *)
Leaver(r) == req[r].kind \in Removals
SomebodyElse(p) == \E q \in People \ {p} : Administers(q)
Counted ==
  ~uneasy => /\ \A r \in Requests : Leaver(r) => SomebodyElse(req[r].who)
             /\ \A q, r \in Requests : Leaver(q) /\ Leaver(r) => req[q].who = req[r].who
             /\ \A r \in Requests : Settling(r) /\ ~req[r].leads => \E p \in People : Has(p)
Strangers == \A r \in Requests : Settling(r) => ~Has(req[r].who)
Administered == SomebodyAdministers /\ Counted /\ Strangers

(* A sign-up that has settled was settled before, or is settled by this step. *)
LEMMA SettlingMoves ==
  ASSUME TypeOK, Leading, [Next]_vars, NEW r \in Requests, Settling(r)'
  PROVE  \/ \E p \in People : /\ First(r, p) /\ req'[r].who = p
                              /\ req'[r].leads = ~\E q \in People : Has(q)
         \/ /\ Settling(r) /\ req'[r].who = req[r].who /\ req'[r].leads = req[r].leads
            /\ ~\E q \in Requests : Joins(q)
<1>0. req[r] \in Reqs
  BY DEF TypeOK
<1>a. Free.kind # "signup"
  BY DEF Free
<1>1. ASSUME Settling(r), req'[r] = req[r]
      PROVE  ~\E q \in Requests : Joins(q)
  <2> SUFFICES ASSUME NEW q \in Requests, Joins(q) PROVE FALSE
    OBVIOUS
  <2>1. q = r
    BY <1>1, JoiningIsAlone
  <2>2. req'[q] = Free
    BY OthersStay DEF Ends
  <2> QED BY <1>1, <1>a, <2>1, <2>2 DEF Settling
<1>2. ASSUME req'[r] = req[r]
      PROVE  /\ Settling(r) /\ req'[r].who = req[r].who /\ req'[r].leads = req[r].leads
             /\ ~\E q \in Requests : Joins(q)
  BY <1>1, <1>2 DEF Settling
<1>3. CASE Apart
  BY <1>2, <1>3, ApartLeavesRequests
<1>4. ASSUME NEW q \in Requests, Begins(q) \/ GoesOn(q) \/ Ends(q), q # r
      PROVE  req'[r] = req[r]
  BY <1>4, OthersStay
<1>5. ASSUME NEW p \in People, First(r, p)
      PROVE  req'[r].who = p /\ req'[r].leads = ~\E q \in People : Has(q)
  <2>1. req'[r] = [req[r] EXCEPT !.step = "settled", !.who = p,
                                 !.leads = ~\E q \in People : Has(q)]
    BY <1>5 DEF First, TypeOK
  <2> QED BY <1>0, <2>1 DEF Reqs
<1>6. ASSUME Consume(r)
      PROVE  /\ Settling(r) /\ req'[r].who = req[r].who /\ req'[r].leads = req[r].leads
             /\ ~\E q \in Requests : Joins(q)
  <2>1. PICK i : req'[r] = [req[r] EXCEPT !.step = "consuming", !.inv = i]
    BY <1>6 DEF Consume, TypeOK
  <2>2. req'[r].who = req[r].who /\ req'[r].leads = req[r].leads
    BY <1>0, <2>1 DEF Reqs
  <2>3. Settling(r)
    BY <1>6 DEF Consume, Is, Settling
  <2>4. ~\E q \in Requests : Joins(q)
    <3> SUFFICES ASSUME NEW q \in Requests, Joins(q) PROVE FALSE
      OBVIOUS
    <3>1. q = r
      BY <2>3, JoiningIsAlone
    <3> QED BY <1>6, <3>1 DEF Consume, Joins, Is
  <2> QED BY <2>2, <2>3, <2>4
<1>7. ~Begins(r) /\ ~Sweep(r) /\ ~Ends(r)
  <2>1. ASSUME Sweep(r) PROVE FALSE
    <3>1. PICK h : req'[r] = [req[r] EXCEPT !.step = "swept", !.holds = h]
      BY <2>1 DEF Sweep, TypeOK
    <3> QED BY <1>0, <3>1 DEF Reqs, Settling
  <2>2. ASSUME Begins(r) PROVE FALSE
    <3>1. ASSUME NEW i \in Invites \cup {Nobody}, NEW b \in BOOLEAN, Arrives(r, i, b)
          PROVE  req'[r].step = "arrived"
      BY <3>1 DEF Arrives, Arrived, Free, TypeOK
    <3>2. ASSUME NEW k \in Kinds, NEW p \in People, k # "signup", Decide(r, k, p)
          PROVE  req'[r].kind # "signup"
      BY <3>2 DEF Decide, Free, TypeOK
    <3>3. ASSUME NEW i \in Invites, AskRevoke(r, i)
          PROVE  req'[r].kind # "signup"
      BY <3>3 DEF AskRevoke, Free, TypeOK
    <3> QED BY <2>2, <3>1, <3>2, <3>3 DEF Begins, Settling
  <2>3. ASSUME Ends(r) PROVE FALSE
    BY <1>a, <2>3, OthersStay DEF Settling
  <2> QED BY <2>1, <2>2, <2>3
<1>8. CASE \E q \in Requests : q # r /\ (Begins(q) \/ GoesOn(q) \/ Ends(q))
  BY <1>2, <1>4, <1>8
<1>9. CASE GoesOn(r)
  BY <1>5, <1>6, <1>7, <1>9, Admitted DEF GoesOn, Settling
<1> QED BY <1>3, <1>7, <1>8, <1>9, StepKinds

(* A removal under way was under way before, or is decided by this step. *)
LEMMA LeaverMoves ==
  ASSUME TypeOK, [Next]_vars, NEW r \in Requests, Leaver(r)'
  PROVE  \/ \E k \in Removals, p \in People :
              /\ Decide(r, k, p) /\ req'[r].who = p
              /\ Has(p) /\ ~LastAdministrator(p)
         \/ Leaver(r) /\ req'[r].who = req[r].who
<1>0. req[r] \in Reqs
  BY DEF TypeOK
<1>a. Free.kind \notin Removals /\ "signup" \notin Removals /\ "revoke" \notin Removals
  BY DEF Free, Removals
<1>1. ASSUME req'[r] = req[r]
      PROVE  Leaver(r) /\ req'[r].who = req[r].who
  BY <1>1 DEF Leaver
<1>2. CASE Apart
  BY <1>1, <1>2, ApartLeavesRequests
<1>3. ASSUME NEW q \in Requests, Begins(q) \/ GoesOn(q) \/ Ends(q), q # r
      PROVE  req'[r] = req[r]
  BY <1>3, OthersStay
<1>4. CASE Begins(r)
  <2>1. ASSUME NEW i \in Invites \cup {Nobody}, NEW b \in BOOLEAN, Arrives(r, i, b)
        PROVE  req'[r].kind = "signup"
    BY <2>1 DEF Arrives, Arrived, Free, TypeOK
  <2>2. ASSUME NEW i \in Invites, AskRevoke(r, i)
        PROVE  req'[r].kind = "revoke"
    BY <2>2 DEF AskRevoke, Free, TypeOK
  <2>3. ASSUME NEW k \in Kinds, NEW p \in People, Decide(r, k, p)
        PROVE  req'[r].kind = k /\ req'[r].who = p
    BY <2>3 DEF Decide, Free, TypeOK
  <2> QED BY <1>4, <1>a, <2>1, <2>2, <2>3 DEF Begins, Leaver
<1>5. ASSUME NEW p \in People, First(r, p)
      PROVE  FALSE
  <2>1. PICK b \in BOOLEAN : req'[r] = [req[r] EXCEPT !.step = "settled", !.who = p, !.leads = b]
    BY <1>5 DEF First, TypeOK
  <2>2. req'[r].kind = req[r].kind
    BY <1>0, <2>1 DEF Reqs
  <2> QED BY <1>5, <1>a, <2>2 DEF Leaver, First, Is
<1>6. ASSUME Consume(r)
      PROVE  FALSE
  <2>1. PICK i : req'[r] = [req[r] EXCEPT !.step = "consuming", !.inv = i]
    BY <1>6 DEF Consume, TypeOK
  <2>2. req'[r].kind = "signup"
    BY <1>0, <1>6, <2>1 DEF Reqs, Consume, Is
  <2> QED BY <1>a, <2>2 DEF Leaver
<1>7. ASSUME Sweep(r)
      PROVE  Leaver(r) /\ req'[r].who = req[r].who
  <2>1. PICK h : req'[r] = [req[r] EXCEPT !.step = "swept", !.holds = h]
    BY <1>7 DEF Sweep, TypeOK
  <2>2. req'[r].kind = req[r].kind /\ req'[r].who = req[r].who
    BY <1>0, <2>1 DEF Reqs
  <2> QED BY <2>2 DEF Leaver
<1>8. ASSUME Ends(r)
      PROVE  FALSE
  BY <1>8, <1>a, OthersStay DEF Leaver
<1>9. ASSUME Admits(r)
      PROVE  FALSE
  BY <1>9, <1>a, Admitted DEF Leaver
<1> QED BY <1>1, <1>2, <1>3, <1>4, <1>5, <1>6, <1>7, <1>8, <1>9, StepKinds DEF GoesOn

(* Who administers goes on to, unless a removal of that account is committed. *)
LEMMA AdministersOn ==
  ASSUME TypeOK, KnowsWho, Strangers, [Next]_vars, NEW p \in People, Administers(p)
  PROVE  Administers(p)' \/ \E r \in Requests : Leaver(r) /\ req[r].who = p
<1> USE DEF TypeOK
<1>1. CASE Apart
  BY <1>1 DEF Apart, Issue, Expires, OpenOrClose, vars, Administers
<1>2. ASSUME NEW q \in Requests, Begins(q) \/ GoesOn(q) \/ RollsBack(q) \/ Revokes(q)
      PROVE  UNCHANGED <<account, rank>>
  BY <1>2 DEF Begins, GoesOn, Arrives, Admits, SignUp, SignUpAsserted, Admit, Decide, AskRevoke, First, Consume, Sweep, RollsBack, Revokes
<1>3. ASSUME NEW q \in Requests, Joins(q)
      PROVE  Administers(p)'
  <2>1. p # req[q].who
    BY <1>3 DEF Joins, Is, Settling, Strangers, Has, Administers
  <2>2. account'[p] = account[p] /\ rank'[p] = rank[p]
    BY <1>3, <2>1 DEF Joins, Join
  <2> QED BY <2>2 DEF Administers
<1>4. ASSUME NEW q \in Requests, SavesPerson(q), ~(Leaver(q) /\ req[q].who = p)
      PROVE  Administers(p)'
  <2>1. CASE p # req[q].who
    <3>1. account'[p] = account[p] /\ rank'[p] = rank[p]
      BY <1>4, <2>1 DEF SavesPerson
    <3> QED BY <3>1 DEF Administers
  <2>2. CASE p = req[q].who
    <3>1. req[q].kind \in {"promote", "activate"}
      BY <1>4, <2>2 DEF SavesPerson, Leaver, Removals
    <3>2. account'[p] = "active"
      BY <1>4, <2>2, <3>1 DEF SavesPerson, Administers
    <3>3. rank'[p] # "member"
      BY <1>4, <2>2, <3>1 DEF SavesPerson, Administers
    <3> QED BY <3>2, <3>3 DEF Administers
  <2> QED BY <2>1, <2>2
<1>5. ASSUME NEW q \in Requests, Deletes(q), ~(Leaver(q) /\ req[q].who = p)
      PROVE  Administers(p)'
  <2>1. p # req[q].who
    BY <1>5 DEF Deletes, Is, Leaver, Removals
  <2>2. account'[p] = account[p] /\ rank'[p] = rank[p]
    BY <1>5, <2>1 DEF Deletes
  <2> QED BY <2>2 DEF Administers
<1> QED BY <1>1, <1>2, <1>3, <1>4, <1>5, StepKinds DEF Ends, Administers

LEMMA UneasyStays == ASSUME TypeOK, [Next]_vars PROVE uneasy => uneasy'
<1>1. ASSUME NEW q \in Requests, Begins(q)
      PROVE  uneasy => uneasy'
  BY <1>1 DEF Begins, Arrives, Decide, AskRevoke
<1>2. ASSUME NEW q \in Requests, GoesOn(q) \/ Ends(q)
      PROVE  UNCHANGED uneasy
  BY <1>2 DEF GoesOn, Ends, Admits, SignUp, SignUpAsserted, Admit, First, Consume, Sweep, Joins,
             RollsBack, SavesPerson, Deletes, Revokes
<1>3. Apart => UNCHANGED uneasy
  BY DEF Apart, Issue, Expires, OpenOrClose, vars
<1> QED BY <1>1, <1>2, <1>3, StepKinds

(* While no two removals were decided side by side, whoever administers besides
   the account that is being removed is there after the step. *)
LEMMA SomebodyStays ==
  ASSUME TypeOK, KnowsWho, Administered, ~uneasy, [Next]_vars
  PROVE  /\ \A r \in Requests : Leaver(r) => SomebodyElse(req[r].who)
         /\ \A r \in Requests : Leaver(r) =>
              \E p \in People \ {req[r].who} : Administers(p)'
         /\ (\E p \in People : Administers(p)) => \E p \in People : Administers(p)'
<1> USE DEF Administered
<1>1. \A r \in Requests : Leaver(r) => SomebodyElse(req[r].who)
  BY DEF Counted
<1>2. ASSUME NEW r \in Requests, Leaver(r)
      PROVE  \E p \in People \ {req[r].who} : Administers(p)'
  <2>1. PICK p \in People \ {req[r].who} : Administers(p)
    BY <1>1, <1>2 DEF SomebodyElse
  <2>2. ~\E q \in Requests : Leaver(q) /\ req[q].who = p
    BY <1>2, <2>1 DEF Counted
  <2>3. Administers(p)'
    BY <2>1, <2>2, AdministersOn
  <2> QED BY <2>1, <2>3
<1>3. ASSUME NEW p \in People, Administers(p)
      PROVE  \E q \in People : Administers(q)'
  <2>1. CASE Administers(p)'
    BY <2>1
  <2>2. CASE \E r \in Requests : Leaver(r) /\ req[r].who = p
    BY <1>2, <2>2
  <2> QED BY <1>3, <2>1, <2>2, AdministersOn
<1> QED BY <1>1, <1>2, <1>3

LEMMA StrangersKept ==
  ASSUME TypeOK, Leading, Strangers, KnowsWho, [Next]_vars
  PROVE  Strangers'
<1> SUFFICES ASSUME NEW r \in Requests, Settling(r)' PROVE ~Has(req[r].who)'
  BY DEF Strangers
<1>1. ASSUME NEW p \in People, First(r, p), req'[r].who = p
      PROVE  ~Has(req[r].who)'
  <2>1. account[p] = "none" /\ UNCHANGED account
    BY <1>1 DEF First
  <2> QED BY <1>1, <2>1 DEF Has
<1>2. ASSUME Settling(r), req'[r].who = req[r].who, ~\E q \in Requests : Joins(q)
      PROVE  ~Has(req[r].who)'
  <2>1. PICK p \in People : p = req[r].who
    BY <1>2 DEF KnowsWho, Settling
  <2>2. Has(p)' => Has(p)
    BY <1>2, OnlyJoinsAdd
  <2> QED BY <1>2, <2>1, <2>2 DEF Strangers, Has
<1> QED BY <1>1, <1>2, SettlingMoves

LEMMA SomebodyKept ==
  ASSUME TypeOK, KnowsWho, Leading, Administered, [Next]_vars
  PROVE  SomebodyAdministers'
<1> USE DEF Administered
<1> SUFFICES ASSUME ~uneasy', NEW p \in People, Has(p)'
             PROVE  \E q \in People : Administers(q)'
  BY DEF SomebodyAdministers
<1>1. ~uneasy
  BY UneasyStays
<1>2. CASE \E q \in People : Has(q)
  BY <1>1, <1>2, SomebodyStays DEF SomebodyAdministers
<1>3. CASE ~\E q \in People : Has(q)
  <2>1. PICK r \in Requests : Joins(r)
    BY <1>3, OnlyJoinsAdd
  <2>2. Settling(r)
    BY <2>1 DEF Joins, Is, Settling
  <2>3. req[r].leads
    BY <1>1, <1>3, <2>2 DEF Counted
  <2>4. req[r].who \in People
    BY <2>2 DEF KnowsWho, Settling
  <2>5. account'[req[r].who] = "active" /\ rank'[req[r].who] = "operator"
    BY <2>1, <2>3, <2>4 DEF Joins, Join, TypeOK
  <2> QED BY <2>4, <2>5 DEF Administers
<1> QED BY <1>2, <1>3

LEMMA CountedKept ==
  ASSUME TypeOK, KnowsWho, Leading, Administered, [Next]_vars
  PROVE  Counted'
<1> USE DEF Administered
<1> SUFFICES ASSUME ~uneasy' PROVE Counted'
  BY DEF Counted
<1>1. ~uneasy
  BY UneasyStays
<1>2. ASSUME NEW r \in Requests, Leaver(r)'
      PROVE  SomebodyElse(req[r].who)'
  <2>1. ASSUME NEW k \in Removals, NEW p \in People, Decide(r, k, p), req'[r].who = p,
               Has(p), ~LastAdministrator(p)
        PROVE  \E q \in People \ {p} : Administers(q)'
    <3>1. UNCHANGED <<account, rank>>
      BY <2>1 DEF Decide
    <3>2. PICK x \in People : Administers(x)
      BY <1>1, <2>1 DEF SomebodyAdministers
    <3>3. \E q \in People \ {p} : Administers(q)
      BY <2>1, <3>2 DEF LastAdministrator
    <3> QED BY <3>1, <3>3 DEF Administers
  <2>2. ASSUME Leaver(r), req'[r].who = req[r].who
        PROVE  \E q \in People \ {req'[r].who} : Administers(q)'
    BY <1>1, <2>2, SomebodyStays
  <2>3. \E q \in People \ {req'[r].who} : Administers(q)'
    BY <1>2, <2>1, <2>2, LeaverMoves
  <2> QED BY <2>3 DEF SomebodyElse
<1>3. ASSUME NEW q \in Requests, NEW r \in Requests, Leaver(q)', Leaver(r)'
      PROVE  req'[q].who = req'[r].who
  <2>1. ASSUME NEW a \in Requests, NEW b \in Requests, Leaver(b)',
               NEW k \in Removals, NEW p \in People, Decide(a, k, p), req'[a].who = p
        PROVE  req'[b].who = p
    <3>1. CASE a # b
      <4>1. req'[b] = req[b]
        BY <2>1, <3>1 DEF Decide, TypeOK
      <4>2. b \in Removing
        BY <2>1, <4>1 DEF Leaver, Removing
      <4>3. ~\E s \in Removing : req[s].who # p
        BY <2>1 DEF Decide
      <4> QED BY <4>1, <4>2, <4>3
    <3> QED BY <2>1, <3>1
  <2>2. CASE Leaver(q) /\ req'[q].who = req[q].who /\ Leaver(r) /\ req'[r].who = req[r].who
    BY <1>1, <2>2 DEF Counted
  <2> QED BY <1>3, <2>1, <2>2, LeaverMoves
<1>4. ASSUME NEW r \in Requests, Settling(r)', ~req'[r].leads
      PROVE  \E p \in People : Has(p)'
  <2>1. CASE \E p \in People : Administers(p)'
    BY <2>1 DEF Administers, Has
  <2>2. ASSUME NEW p \in People, First(r, p), req'[r].leads = ~\E q \in People : Has(q)
        PROVE  \E q \in People : Has(q)
    BY <1>4, <2>2
  <2>3. \E q \in People : Has(q)
    BY <1>1, <1>4, <2>2, SettlingMoves DEF Counted
  <2>4. \E q \in People : Administers(q)
    BY <1>1, <2>3 DEF SomebodyAdministers
  <2> QED BY <1>1, <2>1, <2>4, SomebodyStays
<1> QED BY <1>2, <1>3, <1>4 DEF Counted

(* Where there are accounts somebody administers them, unless two removals were
   decided side by side, each counting on the other. *)
THEOREM SomebodyStaysOn == Spec => []SomebodyAdministers
<1>1. Init => KnowsWho /\ Leading /\ Administered
  <2>1. ASSUME Init, NEW r \in Requests
        PROVE  req[r].kind = "idle"
    BY <2>1 DEF Init, Free
  <2>2. Init => Leading
    BY <2>1 DEF Init, Leading, Queued, NobodyRanks, Settling
  <2>3. Init => SomebodyAdministers
    BY DEF Init, SomebodyAdministers, Has
  <2>4. Init => Counted /\ Strangers /\ KnowsWho
    BY <2>1 DEF Counted, Strangers, KnowsWho, Settling, Leaver, Removals
  <2> QED BY <2>2, <2>3, <2>4 DEF Administered
<1>2. TypeOK /\ KnowsWho /\ Leading /\ Administered /\ [Next]_vars
        => (KnowsWho /\ Leading /\ Administered)'
  BY KnowsWhoKept, QueuedKept, NobodyRanksKept, StrangersKept, SomebodyKept, CountedKept
     DEF Leading, Administered
<1>3. Administered => SomebodyAdministers
  BY DEF Administered
<1> QED BY <1>1, <1>2, <1>3, AccountsTyped, PTL DEF Spec
=============================================================================
