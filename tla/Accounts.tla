------------------------------ MODULE Accounts ------------------------------
(***************************************************************************)
(* Who gets an account and who administers the instance: sign-ups and the  *)
(* invitations that permit them, by the form or through an identity        *)
(* provider (accounts/signals.py, adapter.py, social_adapter.py, models.py,*)
(* views.py), the People page (core/server_views.py) and the deletion of   *)
(* an account (accounts/deletion.py).                                      *)
(*                                                                         *)
(* Every request is one transaction.  Under READ COMMITTED each statement  *)
(* reads what was committed before it, a row that another transaction has  *)
(* changed or locked is waited for, and all that a request wrote appears   *)
(* when it commits; so a request is the reads it decides by, one action    *)
(* each, and then one action that commits.  One that is refused later on,  *)
(* fails or is killed writes nothing.                                      *)
(*                                                                         *)
(* Accounts made at the console are left out, and so are addresses: an     *)
(* invitation bound to one is an invitation.                               *)
(***************************************************************************)
EXTENDS Naturals, FiniteSets

CONSTANTS People,    \* accounts there may come to be
          Invites,   \* invitations there may come to be
          Requests,  \* sign-ups and requests of administrators in flight at once
          Nobody,    \* no person, no invitation, no request
          AutoSignUp, \* POSTULO_OIDC_AUTO_SIGNUP: the identity provider is the invitation
          Uses       \* bound: times registration is opened

ASSUME NobodyAssumption == Nobody \notin People \cup Invites \cup Requests
ASSUME UsesAssumption == Uses \in Nat /\ AutoSignUp \in BOOLEAN

VARIABLES account,   \* the row of each account
          rank,      \* what it may do
          open,      \* registration is open, by the setting
          opened,    \* times it was opened
          invite,    \* the row of each invitation
          req,       \* what each request is at
          sentinel,  \* the request that holds the settings row
          made,      \* history: accounts each invitation let in, or was spent on
          vouched,   \* history: accounts a provider spoke for, let in by an invitation that
                     \* they were not the ones to spend
          uneasy,    \* history: two removals were decided side by side
          stray      \* history: invitations issued while their issuer was deleted

vars == <<account, rank, open, opened, invite, req, sentinel, made, vouched, uneasy, stray>>

Ranks == {"member", "staff", "operator"}
InviteRows == [state : {"none", "pending", "expired", "accepted", "gone"},
               of : People \cup {Nobody}]
Kinds == {"idle", "signup", "promote", "demote", "deactivate", "activate", "delete", "revoke"}
Removals == {"demote", "deactivate", "delete"}
Reqs == [kind : Kinds,
         step : {"", "arrived", "admitted", "settled", "consuming", "checked", "swept"},
         who : People \cup {Nobody}, inv : Invites \cup {Nobody},
         via : Invites \cup {Nobody}, holds : SUBSET Invites, leads : BOOLEAN,
         asserted : BOOLEAN, door : BOOLEAN]
Free == [kind |-> "idle", step |-> "", who |-> Nobody, inv |-> Nobody, via |-> Nobody,
         holds |-> {}, leads |-> FALSE, asserted |-> FALSE, door |-> FALSE]

TypeOK ==
  /\ account \in [People -> {"none", "active", "inactive", "gone"}]
  /\ rank \in [People -> Ranks]
  /\ open \in BOOLEAN /\ opened \in 0 .. Uses
  /\ invite \in [Invites -> InviteRows]
  /\ req \in [Requests -> Reqs]
  /\ sentinel \in Requests \cup {Nobody}
  /\ made \in [Invites -> SUBSET People] /\ vouched \subseteq People
  /\ uneasy \in BOOLEAN /\ stray \subseteq Invites

Init ==
  /\ account = [p \in People |-> "none"] /\ rank = [p \in People |-> "member"]
  /\ open = FALSE /\ opened = 0
  /\ invite = [i \in Invites |-> [state |-> "none", of |-> Nobody]]
  /\ req = [r \in Requests |-> Free] /\ sentinel = Nobody
  /\ made = [i \in Invites |-> {}] /\ vouched = {} /\ uneasy = FALSE /\ stray = {}

Is(r, kind, step) == req[r].kind = kind /\ req[r].step = step
Has(p) == account[p] \in {"active", "inactive"}
Administers(p) == account[p] = "active" /\ rank[p] # "member"
Pending(i) == invite[i].state = "pending"
Waited(r, i) == \A q \in Requests \ {r} : i \notin req[q].holds
Removing == {r \in Requests : req[r].kind \in Removals}

(* is_last_administrator. *)
LastAdministrator(p) == Administers(p) /\ ~\E q \in People \ {p} : Administers(q)

Release(r) == IF sentinel = r THEN Nobody ELSE sentinel

-----------------------------------------------------------------------------
(* A sign-up comes, with an invitation in its session or none, and a provider's word
   or none; the setting is read once, and remembered for the request. *)
Arrived(i, asserted) ==
  [Free EXCEPT !.kind = "signup", !.step = "arrived", !.inv = i, !.asserted = asserted,
               !.door = open]
Arrives(r, i, asserted) ==
  /\ req[r] = Free /\ req' = [req EXCEPT ![r] = Arrived(i, asserted)]
  /\ UNCHANGED <<account, rank, open, opened, invite, sentinel, made, vouched, uneasy, stray>>

(* signup_open_now, before this account is made: by the setting, or nobody has one. *)
Door(r) == req[r].door \/ ~\E p \in People : Has(p)

Admit(r, via, holds) ==
  /\ req' = [req EXCEPT ![r].step = "admitted", ![r].via = via, ![r].holds = holds]
  /\ UNCHANGED <<account, rank, open, opened, invite, sentinel, made, vouched, uneasy, stray>>

Invited(r) == req[r].inv # Nobody /\ Pending(req[r].inv)

\* Mutation: the invitation is looked at and not held.
SignUp_Unlocked(r) ==
  /\ Is(r, "signup", "arrived") /\ ~req[r].asserted
  /\ \/ Door(r) /\ Admit(r, Nobody, {})
     \/ ~Door(r) /\ Invited(r) /\ Admit(r, req[r].inv, {})

(* is_open_for_signup, on the POST of the form: through an open door, or by the
   invitation, whose row is then held. *)
SignUp(r) ==
  /\ Is(r, "signup", "arrived") /\ ~req[r].asserted
  /\ \/ Door(r) /\ Admit(r, Nobody, {})
     \/ ~Door(r) /\ Invited(r) /\ Waited(r, req[r].inv) /\ Admit(r, req[r].inv, {req[r].inv})

(* is_open_for_signup, for an account the provider asserts: the same, but for the
   hold on the row. *)
SignUpAsserted(r) ==
  /\ Is(r, "signup", "arrived") /\ req[r].asserted
  /\ \/ (AutoSignUp \/ Door(r)) /\ Admit(r, Nobody, {})
     \/ ~(AutoSignUp \/ Door(r)) /\ Invited(r) /\ Admit(r, req[r].inv, {})

\* Mutation: the settings row is not locked.
First_Unlocked(r, p) ==
  /\ Is(r, "signup", "admitted")
  /\ account[p] = "none" /\ \A q \in Requests : ~(req[q].kind = "signup" /\ req[q].who = p)
  /\ req' = [req EXCEPT ![r].step = "settled", ![r].who = p,
                        ![r].leads = ~\E q \in People : Has(q)]
  /\ UNCHANGED <<account, rank, open, opened, invite, sentinel, made, vouched, uneasy, stray>>

(* first_account_is_the_administrator: the account is made, the settings row is
   locked, and it leads if no other account has been committed by then. *)
First(r, p) ==
  /\ Is(r, "signup", "admitted") /\ sentinel = Nobody
  /\ account[p] = "none" /\ \A q \in Requests : ~(req[q].kind = "signup" /\ req[q].who = p)
  /\ sentinel' = r
  /\ req' = [req EXCEPT ![r].step = "settled", ![r].who = p,
                        ![r].leads = ~\E q \in People : Has(q)]
  /\ UNCHANGED <<account, rank, open, opened, invite, made, vouched, uneasy, stray>>

(* consume_invite: an invitation that does not stand by now is none, and then nothing
   is spent. *)
Consume(r) ==
  /\ Is(r, "signup", "settled")
  /\ req' = [req EXCEPT ![r].step = "consuming",
                        ![r].inv = IF Invited(r) THEN req[r].inv ELSE Nobody]
  /\ UNCHANGED <<account, rank, open, opened, invite, sentinel, made, vouched, uneasy, stray>>

Join(r) ==
  LET p == req[r].who  i == req[r].inv
      spends == Invited(r)
  IN  /\ account' = [account EXCEPT ![p] = "active"]
      /\ rank' = [rank EXCEPT ![p] = IF req[r].leads THEN "operator" ELSE "member"]
      /\ invite' = IF spends THEN [invite EXCEPT ![i] = [state |-> "accepted", of |-> p]]
                             ELSE invite
      /\ made' = [j \in Invites |-> IF j = req[r].via \/ (spends /\ j = i)
                                    THEN made[j] \cup {p} ELSE made[j]]
      /\ vouched' = IF req[r].asserted /\ req[r].via # Nobody /\ ~spends
                    THEN vouched \cup {p} ELSE vouched

(* accept, which spends it only while it stands, and the commit.  A sign-up whose
   invitation was spent under it joins only through a door that was open when it
   came. *)
Joins(r) ==
  /\ Is(r, "signup", "consuming")
  /\ LET i == req[r].inv IN i # Nobody => Waited(r, i) /\ (Pending(i) \/ req[r].door)
  /\ Join(r)
  /\ req' = [req EXCEPT ![r] = Free] /\ sentinel' = Release(r)
  /\ UNCHANGED <<open, opened, uneasy, stray>>

(* A request is refused, fails, or is killed. *)
RollsBack(r) ==
  /\ req[r] # Free
  /\ req' = [req EXCEPT ![r] = Free] /\ sentinel' = Release(r)
  /\ UNCHANGED <<account, rank, open, opened, invite, made, vouched, uneasy, stray>>

-----------------------------------------------------------------------------
Decide(r, kind, p) ==
  /\ req[r] = Free
  /\ req' = [req EXCEPT ![r] = [Free EXCEPT !.kind = kind, !.step = "checked", !.who = p]]
  /\ uneasy' = (uneasy \/ (kind \in Removals /\ \E q \in Removing : req[q].who # p))
  /\ UNCHANGED <<account, rank, open, opened, invite, sentinel, made, vouched, stray>>

(* PersonAdminView: never the last one, and the operator only by an operator. *)
AskRank(r, by, p) ==
  /\ Administers(by) /\ Has(p)
  /\ \/ rank[p] = "member" /\ Decide(r, "promote", p)
     \/ /\ rank[p] # "member" /\ ~LastAdministrator(p)
        /\ rank[p] = "operator" => rank[by] = "operator"
        /\ Decide(r, "demote", p)

(* PersonActiveView. *)
AskActive(r, by, p) ==
  /\ Administers(by) /\ Has(p) /\ p # by
  /\ \/ account[p] = "inactive" /\ Decide(r, "activate", p)
     \/ account[p] = "active" /\ ~LastAdministrator(p) /\ Decide(r, "deactivate", p)

\* Mutation: one's own account is not asked about.
AskDelete_Oneself(r, by, p) ==
  /\ Has(p) /\ (by = p \/ Administers(by)) /\ account[by] = "active"
  /\ by = p \/ ~LastAdministrator(p)
  /\ Decide(r, "delete", p)

(* PersonDeleteView, and one's own account under Settings. *)
AskDelete(r, by, p) ==
  /\ Has(p) /\ (by = p \/ Administers(by)) /\ account[by] = "active"
  /\ ~LastAdministrator(p)
  /\ Decide(r, "delete", p)

(* The columns that are saved; the row of an account that has gone saves nothing,
   which raises. *)
SavesPerson(r) ==
  LET p == req[r].who IN
  /\ req[r].kind \in {"promote", "demote", "activate", "deactivate"} /\ Has(p)
  /\ rank' = CASE req[r].kind = "promote" ->
                    [rank EXCEPT ![p] = IF @ = "operator" THEN @ ELSE "staff"]
               [] req[r].kind = "demote" -> [rank EXCEPT ![p] = "member"]
               [] OTHER -> rank
  /\ account' = CASE req[r].kind = "activate" -> [account EXCEPT ![p] = "active"]
                  [] req[r].kind = "deactivate" -> [account EXCEPT ![p] = "inactive"]
                  [] OTHER -> account
  /\ req' = [req EXCEPT ![r] = Free]
  /\ UNCHANGED <<open, opened, invite, sentinel, made, vouched, uneasy, stray>>

IssuedBy(p) == {i \in Invites : Pending(i) /\ invite[i].of = p}

\* Mutation: what the person issued is left to the database, which keeps it.
Sweep_Nothing(r) ==
  /\ Is(r, "delete", "checked")
  /\ req' = [req EXCEPT ![r].step = "swept"]
  /\ UNCHANGED <<account, rank, open, opened, invite, sentinel, made, vouched, uneasy, stray>>

(* delete_account: the pending invitations the person issued are deleted, ... *)
Sweep(r) ==
  LET p == req[r].who IN
  /\ Is(r, "delete", "checked")
  /\ \A i \in IssuedBy(p) : Waited(r, i)
  /\ req' = [req EXCEPT ![r].step = "swept", ![r].holds = IssuedBy(p)]
  /\ UNCHANGED <<account, rank, open, opened, invite, sentinel, made, vouched, uneasy, stray>>

(* ... with the one it accepted, and then the account, which leaves whatever else
   it issued without an issuer. *)
Deletes(r) ==
  LET p == req[r].who IN
  /\ Is(r, "delete", "swept")
  /\ account' = [account EXCEPT ![p] = "gone"] /\ rank' = [rank EXCEPT ![p] = "member"]
  /\ invite' = [i \in Invites |->
       CASE i \in req[r].holds \/ (invite[i].state = "accepted" /\ invite[i].of = p) ->
              [state |-> "gone", of |-> Nobody]
         [] i \notin req[r].holds /\ invite[i].state \in {"pending", "expired"}
            /\ invite[i].of = p -> [invite[i] EXCEPT !.of = Nobody]
         [] OTHER -> invite[i]]
  /\ req' = [req EXCEPT ![r] = Free]
  /\ UNCHANGED <<open, opened, sentinel, made, vouched, uneasy, stray>>

-----------------------------------------------------------------------------
(* InviteCreateView. *)
Issue(by, i) ==
  /\ Administers(by) /\ invite[i].state = "none"
  /\ invite' = [invite EXCEPT ![i] = [state |-> "pending", of |-> by]]
  /\ stray' = IF \E r \in Requests : Is(r, "delete", "swept") /\ req[r].who = by
              THEN stray \cup {i} ELSE stray
  /\ UNCHANGED <<account, rank, open, opened, req, sentinel, made, vouched, uneasy>>

(* InviteRevokeView: one that is not accepted when it is loaded is deleted. *)
AskRevoke(r, i) ==
  /\ invite[i].state \in {"pending", "expired"} /\ \E p \in People : Administers(p)
  /\ req[r] = Free
  /\ req' = [req EXCEPT ![r] = [Free EXCEPT !.kind = "revoke", !.step = "checked", !.inv = i]]
  /\ UNCHANGED <<account, rank, open, opened, invite, sentinel, made, vouched, uneasy, stray>>

Revokes(r) ==
  LET i == req[r].inv IN
  /\ Is(r, "revoke", "checked") /\ Waited(r, i)
  /\ invite' = [invite EXCEPT ![i] = [state |-> "gone", of |-> Nobody]]
  /\ req' = [req EXCEPT ![r] = Free]
  /\ UNCHANGED <<account, rank, open, opened, sentinel, made, vouched, uneasy, stray>>

Expires(i) ==
  /\ Pending(i) /\ invite' = [invite EXCEPT ![i].state = "expired"]
  /\ UNCHANGED <<account, rank, open, opened, req, sentinel, made, vouched, uneasy, stray>>

(* The setting, by an administrator. *)
OpenOrClose ==
  /\ \E p \in People : Administers(p)
  /\ ~open => opened < Uses
  /\ open' = ~open /\ opened' = IF open THEN opened ELSE opened + 1
  /\ UNCHANGED <<account, rank, invite, req, sentinel, made, vouched, uneasy, stray>>

Next ==
  \/ \E r \in Requests :
       \/ \E i \in Invites \cup {Nobody}, asserted \in BOOLEAN : Arrives(r, i, asserted)
       \/ SignUp(r) \/ SignUpAsserted(r)
       \/ \E p \in People : First(r, p)
       \/ Consume(r) \/ Joins(r) \/ RollsBack(r)
       \/ \E by, p \in People : AskRank(r, by, p) \/ AskActive(r, by, p) \/ AskDelete(r, by, p)
       \/ SavesPerson(r) \/ Sweep(r) \/ Deletes(r)
       \/ \E i \in Invites : AskRevoke(r, i)
       \/ Revokes(r)
  \/ \E p \in People, i \in Invites : Issue(p, i)
  \/ \E i \in Invites : Expires(i)
  \/ OpenOrClose

Spec == Init /\ [][Next]_vars
-----------------------------------------------------------------------------
(* An invitation is one account: however many sign-ups come with it at once, it lets
   one of them in, and that is the one it was spent on; besides those a provider
   spoke for, which found it standing and came to spend it when it no longer was. *)
InvitationOnce == \A i \in Invites : Cardinality(made[i] \ vouched) <= 1

(* Whoever becomes the administrator by signing up is the first: there is no other
   account when that is committed, even if two signed up side by side. *)
FirstLeads ==
  [][\A p \in People :
       account[p] = "none" /\ rank'[p] = "operator" =>
         \A q \in People \ {p} : ~Has(q)]_vars

(* Where there are accounts somebody administers: the last administrator is not
   demoted, deactivated or deleted, not even by themselves, unless two removals
   were decided side by side, each counting on the other one. *)
SomebodyAdministers ==
  (\E p \in People : Has(p)) => uneasy \/ \E p \in People : Administers(p)

(* No invitation outlives the account that issued it, unless it was issued while
   that account was being deleted. *)
InvitationsGoAlong == \A i \in Invites : Pending(i) => invite[i].of # Nobody \/ i \in stray
=============================================================================
