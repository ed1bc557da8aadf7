------------------------------ MODULE Notices ------------------------------
(***************************************************************************)
(* From what a person did to the receiver that hears of it: an errand of   *)
(* the kind notify (notifications/slow.py, service.py; module Errands) is  *)
(* sent once the change is committed, the worker that performs it makes a  *)
(* row for the webhook (module Webhooks), and passes of the scheduler      *)
(* deliver the row.  The performers of errands are the announcers.         *)
(*                                                                         *)
(* Two errands may carry one key: an interview moved away and back tells   *)
(* of the same time twice.                                                 *)
(***************************************************************************)
EXTENDS Errands, Webhooks

CONSTANT KeyOf   \* the key each errand's message carries

ASSUME TellersAssumption == Tellers = Workers
ASSUME KeyOfAssumption == KeyOf \in [Errands -> Keys]

VARIABLES owner,    \* the account is there
          unheard,  \* history: errands whose message no connection was on for
          dropped   \* history: errands whose message an error kept from having a row

notes == <<owner, unheard, dropped>>
vars == <<errandVars, hookVars, notes>>

Said(p) == KeyOf[job[p].of]

Init == ErrandsInit /\ HooksInit /\ owner = TRUE /\ unheard = {} /\ dropped = {}

(* tell: the person does something, or has the connection on; what nobody would
   hear is not queued. *)
Tell(p, e) ==
  /\ conn = "on" /\ owner
  /\ Send(p, e)
  /\ UNCHANGED <<hookVars, notes>>

(* notify, with no connection that is on. *)
NobodyHears(p) ==
  /\ At(p, "running") /\ asked[p] = NoKey /\ conn # "on"
  /\ Works(p, "worked")
  /\ unheard' = unheard \cup {job[p].of}
  /\ UNCHANGED <<hookVars, owner, dropped>>

\* Mutation: what somebody has set out to say counts as said.
SaidAlready_WhenAsked(p) ==
  /\ At(p, "running") /\ asked[p] = NoKey /\ conn = "on"
  /\ HasRow(Said(p)) \/ \E q \in Workers : asked[q] = Said(p)
  /\ Works(p, "worked")
  /\ UNCHANGED <<hookVars, notes>>

(* notify, for a key that has a row. *)
SaidAlready(p) ==
  /\ At(p, "running") /\ asked[p] = NoKey /\ conn = "on" /\ HasRow(Said(p))
  /\ Works(p, "worked")
  /\ UNCHANGED <<hookVars, notes>>

(* notify: it has none, and one is made. *)
AskRow(p) ==
  /\ At(p, "running") /\ Ask(p, Said(p))
  /\ UNCHANGED <<errandVars, notes>>

MakeRow(p) ==
  /\ Make(p) /\ Works(p, "worked")
  /\ UNCHANGED notes

(* _deliver: the connection's secrets cannot be read, or the row cannot be made.
   The error is noted on the connection, and the errand ends as if all were
   well ... *)
RaiseInNotify(p) ==
  /\ At(p, "running")
  /\ \/ asked[p] = NoKey /\ conn = "on" /\ UNCHANGED hookVars
     \/ asked[p] # NoKey /\ conn # "gone" /\ Unask(p)
  /\ Works(p, "worked")
  /\ dropped' = dropped \cup {job[p].of}
  /\ UNCHANGED <<owner, unheard>>

(* ... and with the connection gone it cannot be noted: that raises as well, and
   the errand fails. *)
RaiseOutOfNotify(p) ==
  /\ MakeRaises(p) /\ Works(p, "raised")
  /\ UNCHANGED notes

(* A worker that is killed, between the two halves of enqueue as well. *)
CrashTelling(p) ==
  /\ Crash(p)
  /\ IF asked[p] # NoKey THEN Unask(p) ELSE UNCHANGED hookVars
  /\ UNCHANGED notes

(* The account is deleted: errands, connection and rows go by cascade. *)
DeleteAccount ==
  /\ owner /\ owner' = FALSE
  /\ errand' = [e \in Errands |-> [errand[e] EXCEPT !.there = FALSE]]
  /\ IF conn # "gone" THEN Disconnect ELSE UNCHANGED hookVars
  /\ UNCHANGED <<tasks, job, ran, together, kept, crashes, unheard, dropped>>

ErrandStep ==
  \/ \E p \in Workers : Enqueue(p) \/ EnqueueRaises(p) \/ Perform(p) \/ Start(p) \/ Finish(p)
  \/ \E p \in Workers, e \in Errands : Take(p, e)
  \/ FailInterrupted \/ ForgetErrands
  \/ \E e \in Errands : Ageing(e)

TellStep ==
  \/ \E p \in Workers, e \in Errands : Tell(p, e)
  \/ \E p \in Workers : NobodyHears(p) \/ SaidAlready(p) \/ AskRow(p) \/ MakeRow(p)
                        \/ RaiseInNotify(p) \/ RaiseOutOfNotify(p) \/ CrashTelling(p)
  \/ DeleteAccount

Next ==
  \/ TellStep
  \/ ErrandStep /\ UNCHANGED <<hookVars, notes>>
  \/ Deliveries /\ UNCHANGED <<errandVars, notes>>

Spec == Init /\ [][Next]_vars

(* The scheduler goes round and time passes for it; a performer that is at work
   goes on, or is killed; nobody has to send, to switch, or to start a worker. *)
Fairness ==
  /\ \A p \in Workers :
       /\ WF_vars((Perform(p) \/ Start(p) \/ Finish(p)) /\ UNCHANGED <<hookVars, notes>>)
       /\ WF_vars(NobodyHears(p) \/ SaidAlready(p) \/ AskRow(p) \/ MakeRow(p)
                  \/ RaiseInNotify(p) \/ RaiseOutOfNotify(p))
  /\ WF_vars(FailInterrupted /\ UNCHANGED <<hookVars, notes>>)
  /\ \A e \in Errands : WF_vars(Ageing(e) /\ UNCHANGED <<hookVars, notes>>)
  /\ \A p \in Hookers :
       WF_vars((ReadHooks(p) \/ ClaimHook(p) \/ RecordHook(p)
                \/ \E came \in {"taken", "later", "never"} : Post(p, came))
               /\ UNCHANGED <<errandVars, notes>>)
  /\ \A r \in Ids : WF_vars(ComesDue(r) /\ UNCHANGED <<errandVars, notes>>)

FairSpec == Spec /\ Fairness
-----------------------------------------------------------------------------
TypeOK == ErrandsTypeOK /\ HooksTypeOK /\ owner \in BOOLEAN
          /\ unheard \subseteq Errands /\ dropped \subseteq Errands

(* An errand that says its message was handed on has left a row behind, its own
   or one with the same key, unless no connection was on to hear it or an error
   was swallowed on the way. *)
DoneIsOnItsWay ==
  \A e \in Errands :
    errand[e].there /\ errand[e].state = "done" =>
      e \in unheard \cup dropped \/ \E r \in DOMAIN hook : hook[r].key = KeyOf[e]

(* What a person did is heard of: the receiver takes it or it is given up on, or
   the errand says it failed, or nobody was on to hear it, or an error was
   swallowed, which only the connection says, or all of it is gone. *)
HeardInTheEnd ==
  \A e \in Errands :
    errand[e].made ~>
      \/ conn # "on" \/ ~errand[e].there \/ errand[e].state = "failed"
      \/ e \in unheard \cup dropped
      \/ \E r \in DOMAIN hook : hook[r].key = KeyOf[e] /\ ~Owed(r)
=============================================================================
