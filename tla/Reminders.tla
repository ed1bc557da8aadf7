----------------------------- MODULE Reminders -----------------------------
(***************************************************************************)
(* The reminders of one person, the requests and plugins that write them,  *)
(* and the scheduler's passes that announce what has fallen due            *)
(* (applications/services.py, send_due_reminders.py, core/scheduler.py).   *)
(*                                                                         *)
(* A writer (a page, an API call, a plugin, an interview that moves) loads *)
(* a reminder and calls one service on its copy; each service saves the    *)
(* columns it names and no others.  A pass takes the lease, reads what is  *)
(* due, and stamps and tells one reminder after the other, so the writers  *)
(* come in between.  The lease is a cache key with a timeout: it can run   *)
(* out under a pass at any moment, and outlives a pass that was killed.    *)
(*                                                                         *)
(* A turn is one promise to announce: a reminder has the first when it is  *)
(* made and another each time it is moved.                                 *)
(***************************************************************************)
EXTENDS Naturals, Sequences

CONSTANTS Reminders,   \* reminders there may come to be
          Placed,      \* those a plugin, or a calendar file, places by uid
          Writers,     \* requests and plugins at work at once
          Passes,      \* scheduler processes: the loop, cron, one by hand
          Nobody,      \* no process, no copy, nothing being told
          MaxTime,     \* bound: the clock stops there
          MaxTurns,    \* bound: times one reminder is made or moved
          MaxTold,     \* bound: announcements after which nothing is placed again
          MaxKills     \* bound: passes killed, or ended by an exception

ASSUME PlacedAssumption == Placed \subseteq Reminders
ASSUME BoundAssumption == MaxTime \in Nat \ {0} /\ MaxTurns \in Nat \ {0}
                          /\ MaxTold \in Nat /\ MaxKills \in Nat
ASSUME NobodyAssumption == Nobody \notin Passes

Times == 1 .. MaxTime
Never == 0                 \* the stamp of a reminder not yet announced

Rows == [there : BOOLEAN, due : Times, done : BOOLEAN, retired : BOOLEAN,
         stamp : Times \cup {Never}, turn : 0 .. MaxTurns]
Copies == [of : Reminders, was : Rows]
Notices == [of : Reminders, turn : 0 .. MaxTurns]
ASSUME NoticeAssumption == Nobody \notin Notices
Found == [of : Reminders, due : Times, at : Times]

VARIABLES now,      \* the clock
          active,   \* the person's account has not been deactivated
          row,      \* the reminders as they are stored
          copy,     \* the copy each writer holds
          lease,    \* the pass whose token the cache key holds
          phase,    \* where each pass is
          queue,    \* what it read as due, and when, and has not come to yet
          telling,  \* what it has stamped and not told yet
          told,     \* the announcements made, in order
          overran,  \* a lease has run out under the pass that held it
          kills,    \* passes that did not reach their end so far
          crossed,  \* history: reminders written while a pass had them in hand
          forgotten \* history: reminders whose stamp a plugin put back to none

stored == <<now, active, row>>
pass == <<lease, phase, queue, telling, told, overran, kills>>
system == <<now, active, row, copy, lease, phase, queue, telling, told, overran, kills>>
vars == <<system, crossed, forgotten>>

SystemOK ==
  /\ now \in Times /\ active \in BOOLEAN
  /\ row \in [Reminders -> Rows]
  /\ copy \in [Writers -> Copies \cup {Nobody}]
  /\ lease \in Passes \cup {Nobody}
  /\ phase \in [Passes -> {"idle", "begun", "announcing", "releasing"}]
  /\ queue \in [Passes -> SUBSET Found]
  /\ telling \in [Passes -> Notices \cup {Nobody}]
  /\ told \in Seq(Notices)
  /\ overran \in BOOLEAN
  /\ kills \in 0 .. MaxKills
TypeOK == SystemOK /\ crossed \subseteq Reminders /\ forgotten \subseteq Reminders

Fresh(there, due, turn) ==
  [there |-> there, due |-> due, done |-> FALSE, retired |-> FALSE,
   stamp |-> Never, turn |-> turn]

Init ==
  /\ now = 1 /\ active = TRUE
  /\ row = [r \in Reminders |-> Fresh(FALSE, 1, 0)]
  /\ copy = [w \in Writers |-> Nobody]
  /\ lease = Nobody
  /\ phase = [p \in Passes |-> "idle"]
  /\ queue = [p \in Passes |-> {}]
  /\ telling = [p \in Passes |-> Nobody]
  /\ told = <<>>
  /\ overran = FALSE /\ kills = 0 /\ crossed = {} /\ forgotten = {}

-----------------------------------------------------------------------------
(* The writers. *)
Holds(w) == copy[w] # Nobody
Mine(w) == copy[w].of
Was(w) == copy[w].was
LetGo(w) == copy' = [copy EXCEPT ![w] = Nobody]

(* create_reminder.  One that arrives done (a calendar file) is ticked off by
   a second call, on the reminder just made. *)
Create(w, r, due) ==
  /\ ~Holds(w) /\ row[r].turn = 0
  /\ row' = [row EXCEPT ![r] = Fresh(TRUE, due, 1)]
  /\ copy' = [copy EXCEPT ![w] = [of |-> r, was |-> row'[r]]]
  /\ UNCHANGED <<now, active>> /\ UNCHANGED pass

Load(w, r) ==
  /\ ~Holds(w) /\ row[r].there
  /\ copy' = [copy EXCEPT ![w] = [of |-> r, was |-> row[r]]]
  /\ UNCHANGED stored /\ UNCHANGED pass

(* A refusal, an early return, or a save that found the row gone. *)
Leave(w) ==
  /\ Holds(w) /\ LetGo(w)
  /\ UNCHANGED stored /\ UNCHANGED pass

\* Mutation: the stamp stays when the time moves.
Postpone_KeepsStamp(w, due) ==
  /\ Holds(w) /\ ~Was(w).done
  /\ row[Mine(w)].there /\ row[Mine(w)].turn < MaxTurns
  /\ row' = [row EXCEPT ![Mine(w)].due = due, ![Mine(w)].turn = @ + 1]
  /\ LetGo(w)
  /\ UNCHANGED <<now, active>> /\ UNCHANGED pass

\* Mutation: the whole row is saved, not only the columns that moved.
Postpone_SavesAll(w, due) ==
  /\ Holds(w) /\ ~Was(w).done
  /\ row[Mine(w)].there /\ row[Mine(w)].turn < MaxTurns
  /\ row' = [row EXCEPT ![Mine(w)] =
               [Was(w) EXCEPT !.due = due, !.stamp = Never, !.turn = row[Mine(w)].turn + 1]]
  /\ LetGo(w)
  /\ UNCHANGED <<now, active>> /\ UNCHANGED pass

Postpone(w, due) ==
  /\ Holds(w) /\ ~Was(w).done
  /\ row[Mine(w)].there /\ row[Mine(w)].turn < MaxTurns
  /\ row' = [row EXCEPT ![Mine(w)].due = due, ![Mine(w)].stamp = Never,
                        ![Mine(w)].turn = @ + 1]
  /\ LetGo(w)
  /\ UNCHANGED <<now, active>> /\ UNCHANGED pass

Complete(w) ==
  /\ Holds(w) /\ ~Was(w).done /\ row[Mine(w)].there
  /\ row' = [row EXCEPT ![Mine(w)].done = TRUE]
  /\ LetGo(w)
  /\ UNCHANGED <<now, active>> /\ UNCHANGED pass

Reopen(w) ==
  /\ Holds(w) /\ Was(w).done /\ row[Mine(w)].there
  /\ row' = [row EXCEPT ![Mine(w)].done = FALSE]
  /\ LetGo(w)
  /\ UNCHANGED <<now, active>> /\ UNCHANGED pass

(* add_reminder, for a uid that is there already: the announced stamp is among
   the columns it saves, cleared if the entry moved later and otherwise as it
   was read. *)
Place(w, due) ==
  LET r == Mine(w)
      later == due > Was(w).due
  IN  /\ Holds(w) /\ r \in Placed
      /\ row[r].there /\ (later => row[r].turn < MaxTurns)
      /\ Len(told) < MaxTold
      /\ row' = [row EXCEPT ![r].due = due, ![r].retired = FALSE,
                            ![r].stamp = IF later THEN Never ELSE Was(w).stamp,
                            ![r].turn = IF later THEN @ + 1 ELSE @]
      /\ LetGo(w)
      /\ UNCHANGED <<now, active>> /\ UNCHANGED pass

(* retire_reminder, and retire_reminders_of when the plugin is removed. *)
Retire(r) ==
  /\ r \in Placed /\ row[r].there /\ ~row[r].retired
  /\ row' = [row EXCEPT ![r].retired = TRUE]
  /\ UNCHANGED <<now, active, copy>> /\ UNCHANGED pass

Delete(w) ==
  /\ Holds(w)
  /\ row' = [row EXCEPT ![Mine(w)] = Fresh(FALSE, 1, row[Mine(w)].turn)]
  /\ LetGo(w)
  /\ UNCHANGED <<now, active>> /\ UNCHANGED pass

(* An administrator deactivates the account, or lets it back in. *)
SwitchAccount ==
  /\ active' = ~active
  /\ UNCHANGED <<now, row, copy>> /\ UNCHANGED pass

Tick ==
  /\ now < MaxTime
  /\ now' = now + 1
  /\ UNCHANGED <<active, row, copy>> /\ UNCHANGED pass

-----------------------------------------------------------------------------
(* The passes. *)

(* only_one_pass: the key is taken only if nothing holds it; a pass that finds
   it taken leaves it to the other. *)
Begin(p) ==
  /\ phase[p] = "idle" /\ lease = Nobody
  /\ lease' = p
  /\ phase' = [phase EXCEPT ![p] = "begun"]
  /\ UNCHANGED stored /\ UNCHANGED <<copy, queue, telling, told, overran, kills>>

\* Mutation: a reminder a plugin has retired is still among what is due.
Due_RetiredToo(r) ==
  /\ row[r].there /\ ~row[r].done
  /\ row[r].due <= now /\ row[r].stamp = Never /\ active

Due(r) ==
  /\ row[r].there /\ ~row[r].done /\ ~row[r].retired
  /\ row[r].due <= now /\ row[r].stamp = Never /\ active

\* Mutation: only what fell due since the last pass is read.
Read_OnlyNew(p) ==
  /\ phase[p] = "begun"
  /\ phase' = [phase EXCEPT ![p] = "announcing"]
  /\ queue' = [queue EXCEPT ![p] = {[of |-> r, due |-> now, at |-> now] :
                                        r \in {s \in Reminders : Due(s) /\ row[s].due = now}}]
  /\ UNCHANGED stored /\ UNCHANGED <<copy, lease, telling, told, overran, kills>>

(* announce_due_reminders reads the clock, and then the list. *)
Read(p) ==
  /\ phase[p] = "begun"
  /\ phase' = [phase EXCEPT ![p] = "announcing"]
  /\ queue' = [queue EXCEPT ![p] = {[of |-> r, due |-> row[r].due, at |-> now] :
                                        r \in {s \in Reminders : Due(s)}}]
  /\ UNCHANGED stored /\ UNCHANGED <<copy, lease, telling, told, overran, kills>>

(* Its next one: the list is in the order of the times it read. *)
Foremost(p, f) == f \in queue[p] /\ \A g \in queue[p] : f.due <= g.due

\* Mutation: the stamp is written whether or not it was there.
Claim_Blindly(p, f) ==
  /\ phase[p] = "announcing" /\ telling[p] = Nobody
  /\ Foremost(p, f)
  /\ queue' = [queue EXCEPT ![p] = @ \ {f}]
  /\ IF row[f.of].there
     THEN /\ row' = [row EXCEPT ![f.of].stamp = f.at]
          /\ telling' = [telling EXCEPT ![p] = [of |-> f.of, turn |-> row[f.of].turn]]
     ELSE UNCHANGED <<row, telling>>
  /\ UNCHANGED <<now, active, copy, lease, phase, told, overran, kills>>

(* The stamp, written only if there is none yet; nothing else is looked at
   again. *)
Claim(p, f) ==
  /\ phase[p] = "announcing" /\ telling[p] = Nobody
  /\ Foremost(p, f)
  /\ queue' = [queue EXCEPT ![p] = @ \ {f}]
  /\ IF row[f.of].there /\ row[f.of].stamp = Never
     THEN /\ row' = [row EXCEPT ![f.of].stamp = f.at]
          /\ telling' = [telling EXCEPT ![p] = [of |-> f.of, turn |-> row[f.of].turn]]
     ELSE UNCHANGED <<row, telling>>
  /\ UNCHANGED <<now, active, copy, lease, phase, told, overran, kills>>

(* notify: carried, or failed, which is logged and not tried again.  Whether
   the account is active is asked of the owner as the list was read. *)
Tell(p) ==
  /\ telling[p] # Nobody
  /\ told' \in {told, Append(told, telling[p])}
  /\ telling' = [telling EXCEPT ![p] = Nobody]
  /\ UNCHANGED stored /\ UNCHANGED <<copy, lease, phase, queue, overran, kills>>

(* The end of the pass: the lease is given back if the key still holds this
   pass's token, in two calls. *)
LookAtLease(p) ==
  /\ phase[p] = "announcing" /\ queue[p] = {} /\ telling[p] = Nobody
  /\ phase' = [phase EXCEPT ![p] = IF lease = p THEN "releasing" ELSE "idle"]
  /\ UNCHANGED stored /\ UNCHANGED <<copy, lease, queue, telling, told, overran, kills>>

GiveBack(p) ==
  /\ phase[p] = "releasing"
  /\ lease' = Nobody
  /\ phase' = [phase EXCEPT ![p] = "idle"]
  /\ UNCHANGED stored /\ UNCHANGED <<copy, queue, telling, told, overran, kills>>

\* Mutation: the key has no timeout.
Expire_Never ==
  /\ FALSE
  /\ UNCHANGED system

(* The cache drops the key at its timeout. *)
Expire ==
  /\ lease # Nobody
  /\ lease' = Nobody
  /\ overran' = (overran \/ phase[lease] # "idle")
  /\ UNCHANGED stored /\ UNCHANGED <<copy, phase, queue, telling, told, kills>>

(* The process is killed: what it had stamped is not told, and its key stays
   in the cache. *)
Kill(p) ==
  /\ phase[p] # "idle" /\ kills < MaxKills
  /\ phase' = [phase EXCEPT ![p] = "idle"]
  /\ queue' = [queue EXCEPT ![p] = {}]
  /\ telling' = [telling EXCEPT ![p] = Nobody]
  /\ kills' = kills + 1
  /\ UNCHANGED stored /\ UNCHANGED <<copy, lease, told, overran>>

(* An exception that ends the pass: the lease is still given back. *)
Raise(p) ==
  /\ phase[p] \in {"begun", "announcing"} /\ kills < MaxKills
  /\ phase' = [phase EXCEPT ![p] = IF lease = p THEN "releasing" ELSE "idle"]
  /\ queue' = [queue EXCEPT ![p] = {}]
  /\ telling' = [telling EXCEPT ![p] = Nobody]
  /\ kills' = kills + 1
  /\ UNCHANGED stored /\ UNCHANGED <<copy, lease, told, overran>>

-----------------------------------------------------------------------------
PersonStep ==
  \/ \E w \in Writers, r \in Reminders : Load(w, r) \/ \E d \in Times : Create(w, r, d)
  \/ \E w \in Writers, d \in Times : Postpone(w, d)
  \/ \E w \in Writers : Leave(w) \/ Complete(w) \/ Reopen(w) \/ Delete(w)
  \/ \E r \in Reminders : Retire(r)
  \/ SwitchAccount

PluginStep == \E w \in Writers, d \in Times : Place(w, d)

ClaimNext(p) == \E f \in queue[p] : Claim(p, f)

PassStep ==
  \/ \E p \in Passes : \/ Begin(p) \/ Read(p) \/ ClaimNext(p) \/ Tell(p)
                       \/ LookAtLease(p) \/ GiveBack(p) \/ Kill(p) \/ Raise(p)
  \/ Expire

(* What is written to a reminder, or to the account, between a pass's reading it
   as due and its telling it. *)
InHand(r) ==
  \E p \in Passes : (\E f \in queue[p] : f.of = r) \/ (telling[p] # Nobody /\ telling[p].of = r)
Note ==
  crossed' = crossed \cup {r \in Reminders : InHand(r) /\ (row'[r] # row[r] \/ active' # active)}

(* What a plugin makes forget: a stamp written since it read the reminder goes
   with its save, and the turn has not changed. *)
Forget ==
  forgotten' = forgotten \cup {r \in Reminders : /\ row[r].stamp # Never /\ row'[r].stamp = Never
                                                /\ row'[r].turn = row[r].turn}

Next ==
  \/ PersonStep /\ Note /\ UNCHANGED forgotten
  \/ PluginStep /\ Note /\ Forget
  \/ (Tick \/ PassStep) /\ UNCHANGED <<crossed, forgotten>>

(* A pass that has begun goes on, the loop begins another, a key runs out. *)
Fairness ==
  /\ \A p \in Passes : /\ WF_system(Begin(p)) /\ WF_system(Read(p)) /\ WF_system(ClaimNext(p))
                       /\ WF_system(Tell(p)) /\ WF_system(LookAtLease(p))
                       /\ WF_system(GiveBack(p))
  /\ WF_system(Expire)

Spec == Init /\ [][Next]_vars
FairSpec == Spec /\ Fairness

-----------------------------------------------------------------------------
(* Each turn of a reminder is announced once, whichever passes overlap, are
   killed or find it due again: made once, moved once, one message each; unless
   a plugin that placed it again made forget that it had been. *)
Once == INSTANCE SaidOnce
          WITH Things <- Notices, said <- told, lost <- {n \in Notices : n.of \in forgotten}
AnnouncedOnce == Once!Spec

(* Two passes are under way at once only if one has outlived its lease. *)
OverlapOnlyAfterOverrun ==
  \A p, q \in Passes : p # q /\ phase[p] # "idle" /\ phase[q] # "idle" => overran

(* A tick is undone only by someone who saw it ticked: whoever moves or places
   a reminder they had read before does not write back that it was not done. *)
TickKept ==
  [][\A r \in Reminders :
       row[r].done /\ row'[r].there /\ ~row'[r].done =>
         \E w \in Writers : Holds(w) /\ Mine(w) = r /\ Was(w).done]_vars

(* What is announced is outstanding, as it stands when it is stamped: nothing
   done and nothing a plugin has retired, and the account is active, unless that
   was changed after the pass had read its list. *)
OnlyOutstandingAnnounced ==
  [][\A p \in Passes :
       telling'[p] \notin {Nobody, telling[p]} =>
         LET r == telling'[p].of
         IN  r \in crossed \/ (~row[r].done /\ ~row[r].retired /\ active)]_vars

(* A stamp says its time had come when it was written: a reminder that was
   moved ahead carries no stamp that would silence it there, unless it was moved
   after a pass had read it as due. *)
NotSilenced ==
  \A r \in Reminders :
    row[r].there /\ row[r].stamp # Never => r \in crossed \/ row[r].due <= row[r].stamp

(* What is due is stamped, or is no longer due: no pass that is killed, fails
   or keeps the lease holds the others up for ever. *)
DueIsDealtWith == \A r \in Reminders : Due(r) ~> ~Due(r)

(* The loop keeps going round: there is always another pass that gets to its
   end, which is what the heartbeat of the scheduler reports. *)
KeepsGoingRound == []<><<\E p \in Passes : LookAtLease(p)>>_vars
=============================================================================
