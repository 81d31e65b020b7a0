----------------------------- MODULE OrderStatus -----------------------------
(***************************************************************************)
(* The life of a withdrawal as its status tells it to the clients: what a  *)
(* GET /payouts/withdrawals/<id>/ may answer after what it answered        *)
(* before.  Withdrawals implements it; TransferScreen is built on it.      *)
(***************************************************************************)
CONSTANT Orders

VARIABLE status

Settled == {"success", "failed", "reversed", "cancelled"}
OpenStatuses == {"processing", "queued"}

Init == status = [o \in Orders |-> "none"]

Create(o) ==
  /\ status[o] = "none"
  /\ status' = [status EXCEPT ![o] = "processing"]

\* Only a queued order is cancelled; nothing follows a settlement.
Move(o, st) ==
  /\ status[o] \in OpenStatuses
  /\ st \in OpenStatuses \cup Settled
  /\ st = "cancelled" => status[o] = "queued"
  /\ status' = [status EXCEPT ![o] = st]

Next == \E o \in Orders : Create(o) \/ \E st \in OpenStatuses \cup Settled : Move(o, st)

Spec == Init /\ [][Next]_status

=============================================================================
