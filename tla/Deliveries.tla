----------------------------- MODULE Deliveries -----------------------------
(***************************************************************************)
(* Package deliveries (src/backend/apps/deliveries): dispatch to riders,   *)
(* and the money of a delivery, paid from the wallet, by card or transfer  *)
(* link, in cash, or at the door.                                          *)
(*                                                                         *)
(* Nearly every operation is one transaction that locks the delivery's row *)
(* and reads it again, so it is one action.  The others are two: a card    *)
(* payment is looked up at the gateway before the lock, a new link is saved *)
(* after the gateway was called, cash is saved over what was read earlier,  *)
(* and the periodic tick cancels from a list.                              *)
(***************************************************************************)
EXTENDS Naturals, FiniteSets

CONSTANTS
  Deliveries,
  Riders,
  Methods,    \* how each delivery may be paid: a subset of its payment_status
  MaxLinks,   \* bound: payment links of a delivery
  MaxChecks   \* bound: confirm_card calls of a delivery at a time

ASSUME DeliveryParameters ==
  /\ Methods \in [Deliveries -> SUBSET {"paid", "cash", "due", "unpaid"}]
  /\ "no rider" \notin Riders
  /\ MaxLinks \in Nat /\ MaxChecks \in Nat

VARIABLES
  stage,      \* DeliveryRequest.status, "new" before it exists
  payment,    \* payment_status
  rider,      \* rider
  link, url,  \* the payment link saved last, 0 when none, and whether it can be opened
  offer,      \* DispatchOffer of each delivery and rider
  hold,       \* the fee in suspense
  credited,   \* links whose payment was credited to the customer's wallet
  charge,     \* gateway: what became of each link
  linking,    \* links asked for at the gateway and not saved yet
  checking,   \* confirm_card calls that hold the gateway's success, before the lock
  counting,   \* collect_cash calls that have read payment_status `due'
  lapsed,     \* the deliveries on tick's list
  overwritten \* history: deliveries where cash was saved over a later payment

row == <<stage, payment, rider, link, url>>
linkVars == <<link, url>>
inFlight == <<linking, checking, counting, lapsed, overwritten>>
deliveryVars == <<row, offer, hold, credited, charge, inFlight>>

NoRider == "no rider"
Links == 1 .. MaxLinks
Active == {"accepted", "picked_up", "in_transit"}
Over == {"delivered", "cancelled"}
OfferStates == {"none", "offered", "expired", "withdrawn", "accepted"}
Dispatchable == {"paid", "cash", "due"}

DeliveryInit ==
  /\ stage = [d \in Deliveries |-> "new"]
  /\ payment = [d \in Deliveries |-> "none"]
  /\ rider = [d \in Deliveries |-> NoRider]
  /\ link = [d \in Deliveries |-> 0]
  /\ url = [d \in Deliveries |-> "none"]
  /\ offer = [d \in Deliveries |-> [r \in Riders |-> "none"]]
  /\ hold = [d \in Deliveries |-> "none"]
  /\ credited = [d \in Deliveries |-> {}]
  /\ charge = [d \in Deliveries |-> [n \in Links |-> "none"]]
  /\ linking = {}
  /\ checking = [d \in Deliveries |-> 0]
  /\ counting = {}
  /\ lapsed = {}
  /\ overwritten = {}

Advance(d, st) == stage' = [stage EXCEPT ![d] = st]
Pay(d, p) == payment' = [payment EXCEPT ![d] = p]

-----------------------------------------------------------------------------
(* The customer, and the ways to pay. *)

\* create; a card payment starts with its first link, asked for afterwards.
CreateDelivery(d, pay) ==
  /\ stage[d] = "new"
  /\ pay \in Methods[d]
  /\ Advance(d, "pending")
  /\ Pay(d, pay)
  /\ hold' = IF pay = "paid" THEN [hold EXCEPT ![d] = "held"] ELSE hold
  /\ UNCHANGED <<rider, linkVars, offer, credited, charge, inFlight>>

\* start_card_checkout numbers the link after the one it read.
AskLink(d) ==
  LET n == link[d] + 1
  IN  /\ \/ payment[d] = "unpaid" /\ stage[d] = "pending"
         \/ payment[d] = "due" /\ (stage[d] \notin Over \/ rider[d] # NoRider)
      /\ n \in Links
      /\ linking' = linking \cup {<<d, n>>}
      /\ charge' = IF charge[d][n] = "none" THEN [charge EXCEPT ![d][n] = "open"] ELSE charge
      /\ UNCHANGED <<row, offer, hold, credited, checking, counting, lapsed, overwritten>>

\* Saved whatever the delivery has become; the earlier link is forgotten.
SaveLink(d, n) ==
  /\ <<d, n>> \in linking
  /\ linking' = linking \ {<<d, n>>}
  /\ link' = [link EXCEPT ![d] = n]
  /\ url' = [url EXCEPT ![d] = "saved"]
  /\ UNCHANGED <<stage, payment, rider, offer, hold, credited, charge, checking, counting, lapsed, overwritten>>

PayLink(d, n) ==
  /\ charge[d][n] = "open"
  /\ charge' = [charge EXCEPT ![d][n] = "paid"]
  /\ UNCHANGED <<row, offer, hold, credited, inFlight>>

LinkPaid(d) == link[d] # 0 /\ charge[d][link[d]] = "paid"

\* confirm_card up to the lock: the saved link is what counts.
CheckCard(d) ==
  /\ \/ payment[d] \in {"unpaid", "due"}
     \/ payment[d] = "cash" /\ url[d] = "saved"
  /\ LinkPaid(d)
  /\ checking[d] < MaxChecks
  /\ checking' = [checking EXCEPT ![d] = @ + 1]
  /\ UNCHANGED <<row, offer, hold, credited, charge, linking, counting, lapsed, overwritten>>

\* A mutant: payment_status is not read again under the lock.
StillOwedAsRead(d) == payment[d] # "cash"

\* The checks of confirm_card under the lock.
StillOwed(d) == payment[d] \in {"unpaid", "due"}

\* confirm_card under the lock: also-paid-in-cash and lapsed deliveries go to the
\* wallet, others are credited and held at once.
ConfirmCard(d) ==
  LET credit == credited' = [credited EXCEPT ![d] = @ \cup {link[d]}]
      late == StillOwed(d) /\ stage[d] = "cancelled"
  IN  /\ checking[d] > 0
      /\ checking' = [checking EXCEPT ![d] = @ - 1]
      /\ \/ /\ payment[d] = "cash"
            /\ credit
            /\ url' = [url EXCEPT ![d] = "none"]
            /\ UNCHANGED <<payment, hold>>
         \/ /\ late
            /\ credit
            /\ Pay(d, "refunded")
            /\ UNCHANGED <<url, hold>>
         \/ /\ StillOwed(d) /\ ~late
            /\ credit
            /\ Pay(d, "paid")
            /\ hold' = [hold EXCEPT ![d] = "held"]
            /\ UNCHANGED url
         \/ /\ payment[d] # "cash" /\ ~StillOwed(d)
            /\ UNCHANGED <<credited, payment, url, hold>>
      /\ UNCHANGED <<stage, rider, link, offer, charge, linking, counting, lapsed, overwritten>>

\* collect_cash takes no lock.
ReadDue(d) ==
  /\ payment[d] = "due"
  /\ rider[d] # NoRider
  /\ counting' = counting \cup {d}
  /\ UNCHANGED <<row, offer, hold, credited, charge, linking, checking, lapsed, overwritten>>

SaveCash(d) ==
  /\ d \in counting
  /\ counting' = counting \ {d}
  /\ Pay(d, "cash")
  /\ overwritten' = IF payment[d] = "due" THEN overwritten ELSE overwritten \cup {d}
  /\ UNCHANGED <<stage, rider, linkVars, offer, hold, credited, charge, linking, checking, lapsed>>

\* PaymentService.refund
Refunded(d) ==
  IF payment[d] = "paid"
    THEN Pay(d, "refunded") /\ hold' = [hold EXCEPT ![d] = "released"]
    ELSE UNCHANGED <<payment, hold>>

Withdrawn(d) == [r \in Riders |-> IF offer[d][r] = "offered" THEN "withdrawn" ELSE offer[d][r]]

\* CustomerService.cancel
CancelDelivery(d) ==
  /\ stage[d] \notin Over \cup {"new"}
  /\ Refunded(d)
  /\ Advance(d, "cancelled")
  /\ offer' = [offer EXCEPT ![d] = Withdrawn(d)]
  /\ UNCHANGED <<rider, linkVars, credited, charge>>

\* By the customer before the pickup, by staff at any time.
CancelledByHand(d) == CancelDelivery(d) /\ UNCHANGED inFlight

-----------------------------------------------------------------------------
(* Dispatch and riders. *)

\* A rider of a round.  Whether a rider is busy or holds an offer is read of the other
\* deliveries without a lock, so it does not keep a round from making the offer.
Offer(d, r) ==
  /\ stage[d] = "pending"
  /\ payment[d] \in Dispatchable
  /\ offer[d][r] = "none"
  /\ offer' = [offer EXCEPT ![d][r] = "offered"]
  /\ UNCHANGED <<row, hold, credited, charge, inFlight>>

\* The offer runs out, or the rider rejects it.
OfferEnds(d, r) ==
  /\ offer[d][r] = "offered"
  /\ offer' = [offer EXCEPT ![d][r] = "expired"]
  /\ UNCHANGED <<row, hold, credited, charge, inFlight>>

\* A mutant: the offer alone decides.
FreeToAcceptOffer(d, r) == stage[d] = "pending"

\* The rider has no other delivery under way, and the delivery no rider.
FreeToAccept(d, r) ==
  /\ stage[d] = "pending"
  /\ \A e \in Deliveries : rider[e] = r => stage[e] \notin Active

\* accept: refused in all other cases, and then nothing is kept of it.
Accept(d, r) ==
  /\ offer[d][r] = "offered"
  /\ FreeToAccept(d, r)
  /\ Advance(d, "accepted")
  /\ rider' = [rider EXCEPT ![d] = r]
  /\ offer' = [offer EXCEPT ![d] = [Withdrawn(d) EXCEPT ![r] = "accepted"]]
  /\ UNCHANGED <<payment, linkVars, hold, credited, charge, inFlight>>

\* pickup and start
Proceed(d) ==
  /\ \/ stage[d] = "accepted" /\ Advance(d, "picked_up")
     \/ stage[d] = "picked_up" /\ Advance(d, "in_transit")
  /\ UNCHANGED <<payment, rider, linkVars, offer, hold, credited, charge, inFlight>>

\* deliver looks at the link of a due fee itself, and goes on only with the fee paid or
\* taken in cash; settle then pays the rider.
Deliver(d) ==
  LET pays == payment[d] = "due" /\ LinkPaid(d)
  IN  /\ stage[d] \in {"picked_up", "in_transit"}
      /\ payment[d] # "due" \/ pays
      /\ credited' = IF pays THEN [credited EXCEPT ![d] = @ \cup {link[d]}] ELSE credited
      /\ IF pays \/ payment[d] = "paid"
           THEN Pay(d, "settled") /\ hold' = [hold EXCEPT ![d] = "captured"]
           ELSE UNCHANGED <<payment, hold>>
      /\ Advance(d, "delivered")
      /\ UNCHANGED <<rider, linkVars, offer, charge, inFlight>>

\* The rider hands the delivery back.
HandBack(d) ==
  /\ stage[d] = "accepted"
  /\ Advance(d, "pending")
  /\ rider' = [rider EXCEPT ![d] = NoRider]
  /\ offer' = [offer EXCEPT ![d][rider[d]] = "withdrawn"]
  /\ UNCHANGED <<payment, linkVars, hold, credited, charge, inFlight>>

\* Staff forget all offers but accepted ones.
Redispatch(d) ==
  /\ stage[d] = "pending"
  /\ offer' = [offer EXCEPT ![d] = [r \in Riders |->
                 IF offer[d][r] = "accepted" THEN "accepted" ELSE "none"]]
  /\ UNCHANGED <<row, hold, credited, charge, inFlight>>

-----------------------------------------------------------------------------
(* tick *)

ListLapsed(d) ==
  /\ stage[d] = "pending"
  /\ payment[d] \in Dispatchable
  /\ lapsed' = lapsed \cup {d}
  /\ UNCHANGED <<row, offer, hold, credited, charge, linking, checking, counting, overwritten>>

\* Whatever is not over by then, also with a rider on the way.
CancelLapsed(d) ==
  /\ d \in lapsed
  /\ lapsed' = lapsed \ {d}
  /\ IF stage[d] \in Over THEN UNCHANGED <<row, offer, hold, credited, charge>>
     ELSE CancelDelivery(d)
  /\ UNCHANGED <<linking, checking, counting, overwritten>>

\* One UPDATE, whose conditions the database checks again.
Abandon(d) ==
  /\ stage[d] = "pending"
  /\ payment[d] = "unpaid"
  /\ Advance(d, "cancelled")
  /\ UNCHANGED <<payment, rider, linkVars, offer, hold, credited, charge, inFlight>>

DeliveryNext ==
  \E d \in Deliveries :
    \/ \E pay \in Methods[d] : CreateDelivery(d, pay)
    \/ AskLink(d)
    \/ \E n \in Links : SaveLink(d, n) \/ PayLink(d, n)
    \/ CheckCard(d)
    \/ ConfirmCard(d)
    \/ ReadDue(d)
    \/ SaveCash(d)
    \/ CancelledByHand(d)
    \/ \E r \in Riders : Offer(d, r) \/ OfferEnds(d, r) \/ Accept(d, r)
    \/ Proceed(d)
    \/ Deliver(d)
    \/ HandBack(d)
    \/ Redispatch(d)
    \/ ListLapsed(d)
    \/ CancelLapsed(d)
    \/ Abandon(d)

DeliverySpec == DeliveryInit /\ [][DeliveryNext]_deliveryVars

-----------------------------------------------------------------------------
(* Properties. *)

\* Every variable keeps its type.
DeliveryTypeOK ==
  /\ stage \in [Deliveries -> {"new", "pending"} \cup Active \cup Over]
  /\ payment \in [Deliveries -> {"none", "unpaid", "due", "paid", "cash", "settled", "refunded"}]
  /\ rider \in [Deliveries -> Riders \cup {NoRider}]
  /\ link \in [Deliveries -> {0} \cup Links]
  /\ url \in [Deliveries -> {"none", "saved"}]
  /\ offer \in [Deliveries -> [Riders -> OfferStates]]
  /\ hold \in [Deliveries -> {"none", "held", "captured", "released"}]
  /\ credited \in [Deliveries -> SUBSET Links]
  /\ charge \in [Deliveries -> [Links -> {"none", "open", "paid"}]]
  /\ linking \subseteq Deliveries \X Links
  /\ checking \in [Deliveries -> 0 .. MaxChecks]
  /\ counting \subseteq Deliveries
  /\ lapsed \subseteq Deliveries
  /\ overwritten \subseteq Deliveries

\* A rider has one delivery under way at most, whatever offers were made, handed back
\* or made again (RiderService.accept: "Finish your current delivery first").
OneActiveDelivery ==
  \A d, e \in Deliveries :
    /\ rider[d] = rider[e]
    /\ stage[d] \in Active /\ stage[e] \in Active
    => d = e /\ rider[d] # NoRider

\* The fee is in suspense exactly while a live delivery is paid, goes to the rider only
\* when it is delivered, and back to the customer only when it is cancelled - over any
\* order of card answers, cancellations, tick, riders and deliveries, except where
\* cash was saved over a payment that came in between.
MoneyFollowsDelivery ==
  \A d \in Deliveries \ overwritten :
    /\ hold[d] = "held" <=> payment[d] = "paid"
    /\ hold[d] = "captured" <=> payment[d] = "settled"
    /\ hold[d] = "released" => payment[d] = "refunded"
    /\ payment[d] = "paid" => stage[d] \notin Over
    /\ payment[d] = "settled" => stage[d] = "delivered"
    /\ payment[d] = "refunded" => stage[d] = "cancelled"
    /\ stage[d] = "delivered" => payment[d] \in {"settled", "cash"}

=============================================================================
