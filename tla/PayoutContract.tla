--------------------------- MODULE PayoutContract ---------------------------
(***************************************************************************)
(* What every prepaid order of the back end promises: money is reserved    *)
(* from the wallet, the outside world delivers at most once (a bank pays,  *)
(* a biller credits a meter), and the reservation is then either spent on  *)
(* a delivery or returned because there was and will be none.  Withdrawals *)
(* (apps/payouts) and bill orders (apps/billing) are detailed forms of it. *)
(***************************************************************************)
CONSTANT Orders

VARIABLES
  purse,      \* the wallet hold: "idle", "reserved", "spent", "returned"
  goods       \* the delivery: "none", "delivered", "undone" (taken back by the bank)

vars == <<purse, goods>>

Init ==
  /\ purse = [o \in Orders |-> "idle"]
  /\ goods = [o \in Orders |-> "none"]

Reserve(o) ==
  /\ purse[o] = "idle"
  /\ purse' = [purse EXCEPT ![o] = "reserved"]
  /\ UNCHANGED goods

\* Nothing is delivered on money that was returned or already spent.
Deliver(o) ==
  /\ purse[o] = "reserved"
  /\ goods[o] = "none"
  /\ goods' = [goods EXCEPT ![o] = "delivered"]
  /\ UNCHANGED purse

Undo(o) ==
  /\ goods[o] = "delivered"
  /\ goods' = [goods EXCEPT ![o] = "undone"]
  /\ UNCHANGED purse

Spend(o) ==
  /\ purse[o] = "reserved"
  /\ goods[o] # "none"
  /\ purse' = [purse EXCEPT ![o] = "spent"]
  /\ UNCHANGED goods

Return(o) ==
  /\ purse[o] = "reserved"
  /\ goods[o] # "delivered"
  /\ purse' = [purse EXCEPT ![o] = "returned"]
  /\ UNCHANGED goods

Next == \E o \in Orders : Reserve(o) \/ Deliver(o) \/ Undo(o) \/ Spend(o) \/ Return(o)

Spec == Init /\ [][Next]_vars

=============================================================================
