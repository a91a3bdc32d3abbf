------------------------------ MODULE Delivery ------------------------------
(***************************************************************************)
(* What the transactional outbox promises to the rest of the program: an   *)
(* event that was committed is delivered at least once or parked for an    *)
(* administrator, and it is never reported as sent without having been     *)
(* delivered.  Nothing is promised about duplicates or order: "consumers   *)
(* must therefore be idempotent" (app/tasks/outbox.py).                    *)
(***************************************************************************)
CONSTANT Events

VARIABLES
    place,     \* "none" before the event is committed, then where it stands
    delivered  \* events the broker has received

vars == <<place, delivered>>

Places == {"none", "owed", "done", "parked"}

Init == place = [e \in Events |-> "none"] /\ delivered = {}

Move(e, from, to) ==
    place[e] \in from /\ place' = [place EXCEPT ![e] = to] /\ delivered' = delivered

Request(e) == Move(e, {"none"}, "owed")

\* Possibly once more, and possibly when the event is already done.
Deliver(e) == place[e] # "none" /\ delivered' = delivered \cup {e} /\ place' = place

Finish(e) == e \in delivered /\ Move(e, {"owed", "parked"}, "done")

Park(e) == Move(e, {"owed", "done"}, "parked")

\* A replay, or a late failure that overwrites a success.
Reopen(e) == Move(e, {"done", "parked"}, "owed")

Next == \E e \in Events :
    Request(e) \/ Deliver(e) \/ Finish(e) \/ Park(e) \/ Reopen(e)

Spec == Init /\ [][Next]_vars

Resolved == \A e \in Events : place[e] = "owed" ~> place[e] \in {"done", "parked"}
=============================================================================
