------------------------------ MODULE Webhooks ------------------------------
(***************************************************************************)
(* The deliveries of one webhook connection (notifications/webhooks.py).   *)
(*                                                                         *)
(* Whoever announces something asks whether its key has a row and makes    *)
(* one if not, in two steps.  A pass of the scheduler reads what is due, in*)
(* the order of the retry times, claims one row after the other by the     *)
(* retry time it read, posts it, and saves the whole row from its copy.    *)
(* Passes are kept apart by a lease (module Reminders); what they do here  *)
(* does not rest on it, and two may overlap at any moment.                 *)
(***************************************************************************)
EXTENDS Naturals, Sequences, SequencesExt

CONSTANTS Keys,         \* what there is to say, by its stable key
          Tellers,      \* processes that announce
          Hookers,      \* scheduler processes, which deliver
          NoKey,        \* nothing being announced
          MaxAttempts,  \* eight in the code
          MaxHooks,     \* bound: rows ever made
          Batch,        \* rows one pass reads; fifty in the code
          MaxCuts,      \* bound: senders killed, and leases outlived
          MaxSilent     \* bound: times a row is taken without its sender being told

ASSUME KeyAssumption == NoKey \notin Keys
ASSUME HookBounds == MaxAttempts \in Nat \ {0} /\ MaxHooks \in Nat /\ Batch \in Nat \ {0}
                     /\ MaxCuts \in Nat /\ MaxSilent \in Nat

VARIABLES conn,    \* the connection: on, off (switched, policy, account), gone
          hook,    \* the rows, by number
          line,    \* the numbers of those whose retry time has come, by that time
          asked,   \* the key each announcer found no row for
          list,    \* what each pass read and has not come to: number and attempts
          asread,  \* those of them whose retry time is still as the pass read it
          hand,    \* what each pass has claimed, and what came of it
          told,    \* history: the posts of each row a receiver took and answered so
          silent,  \* history: those it took and was not heard to, or answered otherwise
          cut,     \* history: rows whose sender was cut off or outlasted its lease
          cuts     \* senders cut off so far

hookVars == <<conn, hook, line, asked, list, asread, hand, told, silent, cut, cuts>>

Ids == 1 .. MaxHooks
Statuses == {"pending", "failed", "sent", "given_up"}
HookRows == [key : Keys, there : BOOLEAN, status : Statuses, attempts : 0 .. MaxAttempts,
             next : {"due", "later", "lease", "none"}]
Entries == [id : Ids, attempts : 0 .. MaxAttempts]
Hands == [id : Ids, attempts : 0 .. MaxAttempts, came : {"claimed", "taken", "later", "never"}]
Empty == [id |-> 0, attempts |-> 0, came |-> "nothing"]

HooksTypeOK ==
  /\ conn \in {"on", "off", "gone"}
  /\ hook \in Seq(HookRows) /\ Len(hook) <= MaxHooks
  /\ line \in Seq(DOMAIN hook)
  /\ asked \in [Tellers -> Keys \cup {NoKey}]
  /\ list \in [Hookers -> Seq(Entries)]
  /\ asread \in [Hookers -> SUBSET Ids]
  /\ hand \in [Hookers -> Hands \cup {Empty}]
  /\ told \in [Ids -> Nat] /\ silent \in [Ids -> Nat]
  /\ cut \subseteq Ids /\ cuts \in 0 .. MaxCuts

HooksInit ==
  /\ conn = "on" /\ hook = <<>> /\ line = <<>>
  /\ asked = [t \in Tellers |-> NoKey]
  /\ list = [p \in Hookers |-> <<>>]
  /\ asread = [p \in Hookers |-> {}]
  /\ hand = [p \in Hookers |-> Empty]
  /\ told = [r \in Ids |-> 0] /\ silent = [r \in Ids |-> 0]
  /\ cut = {} /\ cuts = 0

There(r) == r \in DOMAIN hook /\ hook[r].there
HasRow(k) == \E r \in DOMAIN hook : There(r) /\ hook[r].key = k
Holding(p) == hand[p] # Empty
\* No row stands in line twice.
Without(s, r) ==
  IF \E i \in DOMAIN s : s[i] = r THEN RemoveAt(s, CHOOSE i \in DOMAIN s : s[i] = r) ELSE s

-----------------------------------------------------------------------------
(* Announcing. *)

(* enqueue, its first half: no row has this key. *)
Ask(t, k) ==
  /\ asked[t] = NoKey /\ conn = "on" /\ ~HasRow(k)
  /\ asked' = [asked EXCEPT ![t] = k]
  /\ UNCHANGED <<conn, hook, line, list, asread, hand, told, silent, cut, cuts>>

(* The second half: the row is made, due at once, ... *)
Make(t) ==
  /\ asked[t] # NoKey /\ conn # "gone" /\ Len(hook) < MaxHooks
  /\ hook' = Append(hook, [key |-> asked[t], there |-> TRUE, status |-> "pending",
                           attempts |-> 0, next |-> "due"])
  /\ line' = Append(line, Len(hook'))
  /\ asked' = [asked EXCEPT ![t] = NoKey]
  /\ UNCHANGED <<conn, list, asread, hand, told, silent, cut, cuts>>

(* ... or cannot be, because the connection it would refer to has gone. *)
MakeRaises(t) ==
  /\ asked[t] # NoKey /\ conn = "gone"
  /\ asked' = [asked EXCEPT ![t] = NoKey]
  /\ UNCHANGED <<conn, hook, line, list, asread, hand, told, silent, cut, cuts>>

(* The announcer is killed in between. *)
Unask(t) ==
  /\ asked[t] # NoKey
  /\ asked' = [asked EXCEPT ![t] = NoKey]
  /\ UNCHANGED <<conn, hook, line, list, asread, hand, told, silent, cut, cuts>>

-----------------------------------------------------------------------------
(* Delivering. *)
Pending(r) == There(r) /\ hook[r].status \in {"pending", "failed"}
              /\ hook[r].attempts < MaxAttempts /\ hook[r].next = "due"
DueNow == {i \in DOMAIN line : Pending(line[i])}

(* pending, and the batch: the first rows in line.  Whether the connection and the
   account are on is read with the rows and not again. *)
ReadHooks(p) ==
  \E n \in 1 .. Batch : \E at \in [1 .. n -> DueNow] :
    /\ list[p] = <<>> /\ ~Holding(p) /\ conn = "on"
    /\ \A i, j \in 1 .. n : i < j => at[i] < at[j]
    /\ \A d \in DueNow : \/ \E i \in 1 .. n : at[i] = d
                         \/ n = Batch /\ at[n] < d
    /\ list' = [list EXCEPT ![p] =
                  [i \in 1 .. n |-> [id |-> line[at[i]], attempts |-> hook[line[at[i]]].attempts]]]
    /\ asread' = [asread EXCEPT ![p] = {line[at[i]] : i \in 1 .. n}]
    /\ UNCHANGED <<conn, hook, line, asked, hand, told, silent, cut, cuts>>

(* The policy is asked again: a row it has off by now stays where it is ... *)
PolicySkips(p) ==
  /\ list[p] # <<>> /\ ~Holding(p) /\ conn = "off"
  /\ list' = [list EXCEPT ![p] = Tail(@)]
  /\ asread' = [asread EXCEPT ![p] = @ \ {Head(list[p]).id}]
  /\ UNCHANGED <<conn, hook, line, asked, hand, told, silent, cut, cuts>>

(* ... and one that was claimed waits for its lease, with no attempt spent. *)
PolicyWaits(p) ==
  /\ Holding(p) /\ hand[p].came = "claimed" /\ conn = "off"
  /\ hand' = [hand EXCEPT ![p] = Empty]
  /\ UNCHANGED <<conn, hook, line, asked, list, asread, told, silent, cut, cuts>>

(* The retry time of a row is written: no list has it as it is any more. *)
Rewritten(r) == asread' = [p \in Hookers |-> asread[p] \ {r}]

\* Mutation: the row is claimed whatever has become of it.
ClaimHook_Blindly(p) ==
  LET f == Head(list[p]) IN
  /\ list[p] # <<>> /\ ~Holding(p)
  /\ list' = [list EXCEPT ![p] = Tail(@)]
  /\ IF There(f.id)
     THEN /\ hook' = [hook EXCEPT ![f.id].next = "lease"]
          /\ line' = Without(line, f.id)
          /\ Rewritten(f.id)
          /\ hand' = [hand EXCEPT ![p] = [id |-> f.id, attempts |-> f.attempts, came |-> "claimed"]]
     ELSE UNCHANGED <<hook, line, asread, hand>>
  /\ UNCHANGED <<conn, asked, told, silent, cut, cuts>>

\* Mutation: the claim leaves the retry time where it was.
ClaimHook_NoLease(p) ==
  LET f == Head(list[p]) IN
  /\ list[p] # <<>> /\ ~Holding(p)
  /\ list' = [list EXCEPT ![p] = Tail(@)]
  /\ IF There(f.id) /\ f.id \in asread[p]
     THEN hand' = [hand EXCEPT ![p] = [id |-> f.id, attempts |-> f.attempts, came |-> "claimed"]]
     ELSE UNCHANGED hand
  /\ UNCHANGED <<conn, hook, line, asked, asread, told, silent, cut, cuts>>

(* claim: the lease is written if the retry time is the one that was read. *)
ClaimHook(p) ==
  LET f == Head(list[p]) IN
  /\ list[p] # <<>> /\ ~Holding(p)
  /\ list' = [list EXCEPT ![p] = Tail(@)]
  /\ IF There(f.id) /\ f.id \in asread[p]
     THEN /\ hook' = [hook EXCEPT ![f.id].next = "lease"]
          /\ line' = Without(line, f.id)
          /\ Rewritten(f.id)
          /\ hand' = [hand EXCEPT ![p] = [id |-> f.id, attempts |-> f.attempts, came |-> "claimed"]]
     ELSE UNCHANGED <<hook, line, asread, hand>>
  /\ UNCHANGED <<conn, asked, told, silent, cut, cuts>>

(* deliver: the receiver took it, or it is to be tried later (no answer, a
   server error, 408, 429), or never (an unreadable secret, a refused address,
   another 4xx, moved for good).  One that did not answer, or that answered an
   error, may have taken it all the same. *)
Post(p, came) ==
  LET r == hand[p].id IN
  /\ Holding(p) /\ hand[p].came = "claimed"
  /\ hand' = [hand EXCEPT ![p].came = came]
  /\ told' = [told EXCEPT ![r] = IF came = "taken" THEN @ + 1 ELSE @]
  /\ \/ UNCHANGED silent
     \/ /\ came # "taken" /\ silent[r] < MaxSilent
        /\ silent' = [silent EXCEPT ![r] = @ + 1]
  /\ UNCHANGED <<conn, hook, line, asked, list, asread, cut, cuts>>

Outcome(h) ==
  IF h.came = "taken" THEN "sent"
  ELSE IF h.came = "never" \/ h.attempts + 1 >= MaxAttempts THEN "given_up" ELSE "failed"

\* Mutation: an attempt that fails is not counted.
Record_Uncounted(p) ==
  LET h == hand[p]  r == h.id IN
  /\ Holding(p) /\ h.came # "claimed"
  /\ hand' = [hand EXCEPT ![p] = Empty]
  /\ IF There(r)
     THEN /\ hook' = [hook EXCEPT ![r].status = Outcome(h),
                        ![r].next = IF Outcome(h) = "failed" THEN "later" ELSE "none"]
          /\ line' = Without(line, r)
          /\ Rewritten(r)
     ELSE UNCHANGED <<hook, line, asread>>
  /\ UNCHANGED <<conn, asked, list, told, silent, cut, cuts>>

(* row.save(), from the copy; the save of a row that went with its connection
   raises.  The pass goes on with the next row, or has spent its budget. *)
RecordHook(p) ==
  LET h == hand[p]  r == h.id IN
  /\ Holding(p) /\ h.came # "claimed"
  /\ hand' = [hand EXCEPT ![p] = Empty]
  /\ list' \in {list, [list EXCEPT ![p] = <<>>]}
  /\ IF There(r)
     THEN /\ hook' = [hook EXCEPT ![r].status = Outcome(h), ![r].attempts = h.attempts + 1,
                        ![r].next = IF Outcome(h) = "failed" THEN "later" ELSE "none"]
          /\ line' = Without(line, r)
          /\ Rewritten(r)
     ELSE UNCHANGED <<hook, line, asread>>
  /\ UNCHANGED <<conn, asked, told, silent, cut, cuts>>

\* Mutation: the claim of a killed pass is never given up.
ComesDue_OnlyLater(r) ==
  /\ r \in DOMAIN hook /\ There(r) /\ hook[r].next = "later"
  /\ \A p \in Hookers : hand[p].id # r
  /\ hook' = [hook EXCEPT ![r].next = "due"]
  /\ line' = Append(line, r)
  /\ UNCHANGED <<conn, asked, list, asread, hand, told, silent, cut, cuts>>

(* The retry time comes, or the lease of a claim nobody is at any more. *)
ComesDue(r) ==
  /\ r \in DOMAIN hook /\ There(r) /\ hook[r].next \in {"later", "lease"}
  /\ \A p \in Hookers : hand[p].id # r
  /\ hook' = [hook EXCEPT ![r].next = "due"]
  /\ line' = Append(line, r)
  /\ UNCHANGED <<conn, asked, list, asread, hand, told, silent, cut, cuts>>

(* A sender that was stopped longer than its lease: half a minute of posting
   against a quarter of an hour. *)
OutlivesLease(r) ==
  /\ r \in DOMAIN hook /\ There(r) /\ hook[r].next = "lease" /\ cuts < MaxCuts
  /\ \E p \in Hookers : hand[p].id = r
  /\ hook' = [hook EXCEPT ![r].next = "due"]
  /\ line' = Append(line, r)
  /\ cut' = cut \cup {r} /\ cuts' = cuts + 1
  /\ UNCHANGED <<conn, asked, list, asread, hand, told, silent>>

(* The process is killed: a row it had posted has not heard of it. *)
KillHooker(p) ==
  /\ (Holding(p) \/ list[p] # <<>>) /\ cuts < MaxCuts
  /\ cut' = IF Holding(p) /\ hand[p].came # "claimed" THEN cut \cup {hand[p].id} ELSE cut
  /\ cuts' = cuts + 1
  /\ list' = [list EXCEPT ![p] = <<>>]
  /\ asread' = [asread EXCEPT ![p] = {}]
  /\ hand' = [hand EXCEPT ![p] = Empty]
  /\ UNCHANGED <<conn, hook, line, asked, told, silent>>

(* forget_old: rows whose story is over, a week on; no pass takes a week. *)
ForgetHooks(r) ==
  /\ r \in DOMAIN hook /\ There(r) /\ hook[r].status \in {"sent", "given_up"}
  /\ \A p \in Hookers : hand[p].id # r
  /\ hook' = [hook EXCEPT ![r].there = FALSE]
  /\ UNCHANGED <<conn, line, asked, list, asread, hand, told, silent, cut, cuts>>

(* The connection, the policy or the account is switched; a connection that is
   removed takes its rows along. *)
SwitchConnection ==
  /\ conn' \in {"on", "off"} \ {conn} /\ conn # "gone"
  /\ UNCHANGED <<hook, line, asked, list, asread, hand, told, silent, cut, cuts>>

Disconnect ==
  /\ conn # "gone"
  /\ conn' = "gone"
  /\ hook' = [r \in DOMAIN hook |-> [hook[r] EXCEPT !.there = FALSE]]
  /\ line' = <<>>
  /\ UNCHANGED <<asked, list, asread, hand, told, silent, cut, cuts>>

-----------------------------------------------------------------------------
HookerStep(p) ==
  \/ ReadHooks(p) \/ PolicySkips(p) \/ ClaimHook(p) \/ PolicyWaits(p)
  \/ RecordHook(p) \/ KillHooker(p)
  \/ \E came \in {"taken", "later", "never"} : Post(p, came)

Deliveries ==
  \/ \E p \in Hookers : HookerStep(p)
  \/ \E r \in Ids : ComesDue(r) \/ OutlivesLease(r) \/ ForgetHooks(r)
  \/ SwitchConnection \/ Disconnect

Taken(r) == told[r] + silent[r]

(* A receiver takes a delivery once, however many passes overlap, and once more
   for each time it took it and its sender was not told, which tries again;
   unless the sender was cut off before it wrote that down, or outlasted its
   lease. *)
TakenOnce == \A r \in Ids : Taken(r) > 1 + silent[r] => r \in cut

(* A row says what its senders were told: sent means a receiver said that it took
   it, and of one it said so the row says sent, unless it is still in a pass's hand
   or its sender was cut off. *)
SaysWhatBecame ==
  \A r \in DOMAIN hook : There(r) =>
    /\ hook[r].status = "sent" => told[r] > 0
    /\ told[r] > 0 /\ r \notin cut =>
         \/ hook[r].status = "sent"
         \/ \E p \in Hookers : hand[p].id = r /\ hand[p].came = "taken"

(* The retry time is enough to claim by: a row that is claimed stands as it was
   read, its attempts included, though two passes read it and one has tried it. *)
HookClaimedAsRead ==
  [][\A p \in Hookers :
       hand'[p].came = "claimed" /\ hand[p] # hand'[p] =>
         LET r == hand'[p].id IN Pending(r) /\ hook[r].attempts = hand'[p].attempts]_hookVars

(* A delivery that is owed is made or given up on, or its connection is off or
   has gone: not by a killed sender, nor by those behind or before it in line. *)
Owed(r) == r \in DOMAIN hook /\ There(r) /\ hook[r].status \in {"pending", "failed"}
HooksSettle == \A r \in Ids : Owed(r) ~> (~Owed(r) \/ conn # "on")
=============================================================================
