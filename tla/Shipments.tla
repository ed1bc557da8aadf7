----------------------------- MODULE Shipments -----------------------------
(***************************************************************************)
(* What a copy's row may go through on its way to the backup destination,  *)
(* as local retention and the page rely on it: it waits until it has       *)
(* arrived, what has arrived waits no more, and what was removed does not  *)
(* come back, but for those whose sender was cut off or outlasted its      *)
(* lease, which writes its copy of the row over whatever there is.         *)
(***************************************************************************)
CONSTANT Archives

VARIABLES state,  \* of each archive's row
          cut     \* archives whose sender was cut off, or outlasted its lease

ShipmentStates == {"none", "pending", "failed", "sent", "removed"}
ShipmentsTypeOK == state \in [Archives -> ShipmentStates] /\ cut \subseteq Archives
ShipmentsInit == state = [a \in Archives |-> "none"] /\ cut = {}

Waits(a) == state[a] \in {"pending", "failed"}
Becomes(a, new) == state' = [state EXCEPT ![a] = new] /\ UNCHANGED cut

Queued(a) == state[a] = "none" /\ Becomes(a, "pending")
Fails(a) == Waits(a) /\ Becomes(a, "failed")
Arrives(a) == Waits(a) /\ Becomes(a, "sent")
Removes(a) == state[a] = "sent" /\ Becomes(a, "removed")
IsCut(a) == cut' = cut \cup {a} /\ UNCHANGED state
Returns(a) == a \in cut /\ state[a] # "none" /\ \E new \in {"failed", "sent", "removed"} : Becomes(a, new)

Ships(a) == Fails(a) \/ Arrives(a) \/ Removes(a) \/ IsCut(a) \/ Returns(a)
ShipmentsSpec ==
  ShipmentsInit /\ [][\E a \in Archives : Queued(a) \/ Ships(a)]_<<state, cut>>
=============================================================================
