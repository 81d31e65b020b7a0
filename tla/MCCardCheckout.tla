---------------------------- MODULE MCCardCheckout ----------------------------
(***************************************************************************)
(* CardCheckout on a small instance: one customer with one checkout.       *)
(***************************************************************************)
EXTENDS CardCheckout, TLC

CONSTANTS c1, ann

SoleCheckout == c1 :> ann

=============================================================================
