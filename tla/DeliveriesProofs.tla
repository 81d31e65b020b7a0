-------------------------- MODULE DeliveriesProofs --------------------------
(***************************************************************************)
(* Invariance proofs for Deliveries, for any number of deliveries, riders, *)
(* links and checks.  The rider's side follows from the guard of accept    *)
(* alone.  The money's side needs two facts the code establishes far from  *)
(* where they are used: a rider is only ever offered a delivery that can   *)
(* be paid for (PayableWhenOffered), and a call that came back from the    *)
(* gateway, or read `due', is about a delivery that exists (CallsAreReal). *)
(***************************************************************************)
EXTENDS Deliveries, TLAPS

\* A delivery starts with no payment, and one that is offered or under way is not
\* waiting for its first payment any more.
PayableWhenOffered ==
  \A d \in Deliveries :
    /\ stage[d] = "new" <=> payment[d] = "none"
    /\ stage[d] \in Active => payment[d] # "unpaid"
    /\ \A r \in Riders : offer[d][r] = "offered" => payment[d] \notin {"none", "unpaid"}

\* What a call in flight holds is about a delivery that was created, and a link that
\* was saved.
CallsAreReal ==
  \A d \in Deliveries :
    /\ checking[d] > 0 => link[d] # 0
    /\ d \in counting => stage[d] # "new"
    /\ \A n \in Links : <<d, n>> \in linking => stage[d] # "new"

DeliveryInv ==
  /\ DeliveryTypeOK
  /\ OneActiveDelivery
  /\ PayableWhenOffered
  /\ CallsAreReal
  /\ MoneyFollowsDelivery

-----------------------------------------------------------------------------
LEMMA DeliveryBounds == MaxLinks \in Nat /\ MaxChecks \in Nat /\ NoRider \notin Riders
  BY DeliveryParameters DEF NoRider

LEMMA InitDeliveryInv == DeliveryInit => DeliveryInv
<1> SUFFICES ASSUME DeliveryInit PROVE DeliveryInv
  OBVIOUS
<1>1. DeliveryTypeOK
  BY DeliveryBounds DEF DeliveryInit, DeliveryTypeOK, OfferStates
<1>2. OneActiveDelivery
  BY DEF DeliveryInit, OneActiveDelivery, Active
<1>3. PayableWhenOffered
  BY DEF DeliveryInit, PayableWhenOffered, Active
<1>4. CallsAreReal
  BY DEF DeliveryInit, CallsAreReal
<1>5. MoneyFollowsDelivery
  BY DEF DeliveryInit, MoneyFollowsDelivery, Over
<1>6. QED BY <1>1, <1>2, <1>3, <1>4, <1>5 DEF DeliveryInv

-----------------------------------------------------------------------------
(* Type correctness. *)

LEMMA NextType == DeliveryInv /\ [DeliveryNext]_deliveryVars => DeliveryTypeOK'
<1> SUFFICES ASSUME DeliveryInv, [DeliveryNext]_deliveryVars PROVE DeliveryTypeOK'
  OBVIOUS
<1> DeliveryTypeOK
  BY DEF DeliveryInv
<1> USE DeliveryBounds DEF DeliveryTypeOK, OfferStates, Active, Over, Advance, Pay, row, linkVars, inFlight
<1>1. ASSUME NEW d \in Deliveries, NEW pay \in Methods[d], CreateDelivery(d, pay)
      PROVE  DeliveryTypeOK'
  <2>1. pay \in {"paid", "cash", "due", "unpaid"}
    BY DeliveryParameters
  <2>2. payment' \in [Deliveries ->
                       {"none", "unpaid", "due", "paid", "cash", "settled", "refunded"}]
    BY <1>1, <2>1 DEF CreateDelivery
  <2>3. QED BY <1>1, <2>2 DEF CreateDelivery
<1>2. ASSUME NEW d \in Deliveries, AskLink(d) PROVE DeliveryTypeOK'
  BY <1>2 DEF AskLink
<1>3. ASSUME NEW d \in Deliveries, NEW n \in Links, SaveLink(d, n) \/ PayLink(d, n)
      PROVE  DeliveryTypeOK'
  <2>1. CASE SaveLink(d, n)
    BY <2>1 DEF SaveLink
  <2>2. CASE PayLink(d, n)
    <3>1. charge' \in [Deliveries -> [Links -> {"none", "open", "paid"}]]
      BY <2>2 DEF PayLink
    <3>2. QED BY <2>2, <3>1 DEF PayLink
  <2>3. QED BY <1>3, <2>1, <2>2
<1>4. ASSUME NEW d \in Deliveries, CheckCard(d) PROVE DeliveryTypeOK'
  BY <1>4 DEF CheckCard
<1>5. ASSUME NEW d \in Deliveries, ConfirmCard(d) PROVE DeliveryTypeOK'
  <2>1. link[d] \in Links
    BY <1>5 DEF ConfirmCard, DeliveryInv, CallsAreReal
  <2>2. credited' \in [Deliveries -> SUBSET Links]
    BY <1>5, <2>1 DEF ConfirmCard
  <2>3. checking' \in [Deliveries -> 0 .. MaxChecks]
    BY <1>5 DEF ConfirmCard
  <2>4. QED BY <1>5, <2>2, <2>3 DEF ConfirmCard
<1>6. ASSUME NEW d \in Deliveries, ReadDue(d) \/ SaveCash(d) PROVE DeliveryTypeOK'
  BY <1>6 DEF ReadDue, SaveCash
<1>7. ASSUME NEW d \in Deliveries, CancelDelivery(d), UNCHANGED <<linking, checking, counting, overwritten>>,
             lapsed' \subseteq lapsed
      PROVE  DeliveryTypeOK'
  BY <1>7 DEF CancelDelivery, Refunded, Withdrawn
<1>8. ASSUME NEW d \in Deliveries, NEW r \in Riders, Offer(d, r) \/ OfferEnds(d, r)
      PROVE  DeliveryTypeOK'
  <2>1. offer' \in [Deliveries -> [Riders -> OfferStates]]
    <3>1. PICK st \in OfferStates : offer' = [offer EXCEPT ![d][r] = st]
      BY <1>8 DEF Offer, OfferEnds
    <3>2. QED BY <3>1
  <2>2. QED BY <1>8, <2>1 DEF Offer, OfferEnds
<1>9. ASSUME NEW d \in Deliveries, NEW r \in Riders, Accept(d, r) PROVE DeliveryTypeOK'
  BY <1>9 DEF Accept, Withdrawn
<1>10. ASSUME NEW d \in Deliveries, Proceed(d) \/ Abandon(d) PROVE DeliveryTypeOK'
  BY <1>10 DEF Proceed, Abandon
<1>11. ASSUME NEW d \in Deliveries, Deliver(d) PROVE DeliveryTypeOK'
  <2>1. credited' \in [Deliveries -> SUBSET Links]
    BY <1>11 DEF Deliver, LinkPaid
  <2>2. QED BY <1>11, <2>1 DEF Deliver
<1>12. ASSUME NEW d \in Deliveries, HandBack(d) \/ Redispatch(d) PROVE DeliveryTypeOK'
  <2>1. offer' \in [Deliveries -> [Riders -> OfferStates]]
    <3>1. CASE HandBack(d)
      <4>1. [offer[d] EXCEPT ![rider[d]] = "withdrawn"] \in [Riders -> OfferStates]
        OBVIOUS
      <4>2. QED BY <3>1, <4>1 DEF HandBack
    <3>2. CASE Redispatch(d)
      BY <3>2 DEF Redispatch
    <3>3. QED BY <1>12, <3>1, <3>2
  <2>2. QED BY <1>12, <2>1 DEF HandBack, Redispatch
<1>13. ASSUME NEW d \in Deliveries, ListLapsed(d) PROVE DeliveryTypeOK'
  BY <1>13 DEF ListLapsed
<1>14. ASSUME NEW d \in Deliveries, CancelLapsed(d) PROVE DeliveryTypeOK'
  <2>1. CASE stage[d] \in Over
    BY <1>14, <2>1 DEF CancelLapsed
  <2>2. CASE stage[d] \notin Over
    BY <1>7, <1>14, <2>2 DEF CancelLapsed
  <2>3. QED BY <2>1, <2>2
<1>15. CASE UNCHANGED deliveryVars
  BY <1>15 DEF deliveryVars
<1> HIDE DEF DeliveryTypeOK
<1>16. QED
  BY <1>1, <1>2, <1>3, <1>4, <1>5, <1>6, <1>7, <1>8, <1>9, <1>10, <1>11, <1>12, <1>13, <1>14, <1>15
  DEF DeliveryNext, CancelledByHand

-----------------------------------------------------------------------------
(* The rider's side. *)

\* A step that gives no delivery a rider, and starts none, keeps the riders apart.
LEMMA RidersApart ==
  ASSUME OneActiveDelivery, UNCHANGED rider,
         \A d \in Deliveries : stage'[d] \in Active => stage[d] \in Active
  PROVE  OneActiveDelivery'
  BY DEF OneActiveDelivery

LEMMA NextOneActive == DeliveryInv /\ [DeliveryNext]_deliveryVars => OneActiveDelivery'
<1> SUFFICES ASSUME DeliveryInv, [DeliveryNext]_deliveryVars PROVE OneActiveDelivery'
  OBVIOUS
<1> DeliveryTypeOK /\ OneActiveDelivery
  BY DEF DeliveryInv
<1> USE DEF Active, Over, Advance, row
<1>1. ASSUME NEW d \in Deliveries, NEW r \in Riders, Accept(d, r) PROVE OneActiveDelivery'
  <2>1. /\ stage' = [stage EXCEPT ![d] = "accepted"]
        /\ rider' = [rider EXCEPT ![d] = r]
        /\ \A e \in Deliveries : rider[e] = r => stage[e] \notin Active
    BY <1>1 DEF Accept, FreeToAccept
  <2>2. QED BY <2>1, DeliveryBounds DEF OneActiveDelivery, DeliveryTypeOK
<1>2. ASSUME NEW d \in Deliveries, HandBack(d) PROVE OneActiveDelivery'
  <2>1. /\ stage' = [stage EXCEPT ![d] = "pending"]
        /\ rider' = [rider EXCEPT ![d] = NoRider]
    BY <1>2 DEF HandBack
  <2>2. QED BY <2>1 DEF OneActiveDelivery, DeliveryTypeOK
<1>3. ASSUME NEW d \in Deliveries, NEW st, UNCHANGED rider, Advance(d, st),
             st \in Active => stage[d] \in Active
      PROVE  OneActiveDelivery'
  BY <1>3, RidersApart DEF DeliveryTypeOK
<1>4. CASE UNCHANGED <<stage, rider>>
  BY <1>4, RidersApart
<1>5. ASSUME NEW d \in Deliveries, CancelledByHand(d) \/ CancelLapsed(d) PROVE OneActiveDelivery'
  BY <1>3, <1>4, <1>5 DEF CancelledByHand, CancelLapsed, CancelDelivery
<1>6. ASSUME NEW d \in Deliveries, \/ \E pay \in Methods[d] : CreateDelivery(d, pay)
                                   \/ Proceed(d) \/ Deliver(d) \/ Abandon(d)
      PROVE  OneActiveDelivery'
  BY <1>3, <1>6 DEF CreateDelivery, Proceed, Deliver, Abandon
<1>7. QED
  BY <1>1, <1>2, <1>4, <1>5, <1>6
  DEF DeliveryNext, deliveryVars, AskLink, SaveLink, PayLink, CheckCard, ConfirmCard, ReadDue,
      SaveCash, Offer, OfferEnds, Redispatch, ListLapsed

-----------------------------------------------------------------------------
(* The money's side. *)

\* What one delivery's part of the three invariants says of it.
Payable(e) ==
  /\ stage[e] = "new" <=> payment[e] = "none"
  /\ stage[e] \in Active => payment[e] # "unpaid"
  /\ \A r \in Riders : offer[e][r] = "offered" => payment[e] \notin {"none", "unpaid"}

RealCall(e) ==
  /\ checking[e] > 0 => link[e] # 0
  /\ e \in counting => stage[e] # "new"
  /\ \A n \in Links : <<e, n>> \in linking => stage[e] # "new"

Followed(e) ==
  e \notin overwritten =>
    /\ hold[e] = "held" <=> payment[e] = "paid"
    /\ hold[e] = "captured" <=> payment[e] = "settled"
    /\ hold[e] = "released" => payment[e] = "refunded"
    /\ payment[e] = "paid" => stage[e] \notin Over
    /\ payment[e] = "settled" => stage[e] = "delivered"
    /\ payment[e] = "refunded" => stage[e] = "cancelled"
    /\ stage[e] = "delivered" => payment[e] \in {"settled", "cash"}

Sound(e) == Payable(e) /\ RealCall(e) /\ Followed(e)

LEMMA OnOneDelivery ==
  ASSUME DeliveryInv, NEW e \in Deliveries
  PROVE  Sound(e)
  BY DEF DeliveryInv, PayableWhenOffered, CallsAreReal, MoneyFollowsDelivery, Sound, Payable, RealCall, Followed

\* A step on delivery d that leaves the values of e alone leaves e sound.
LEMMA NextSound ==
  ASSUME DeliveryInv, [DeliveryNext]_deliveryVars, NEW e \in Deliveries
  PROVE  Sound(e)'
<1> DeliveryTypeOK /\ Sound(e)
  BY OnOneDelivery DEF DeliveryInv
<1> USE DeliveryBounds DEF DeliveryTypeOK, OfferStates, Active, Over, Dispatchable, Advance, Pay, row,
                   linkVars, inFlight, Sound, Payable, RealCall, Followed
<1>1. ASSUME NEW d \in Deliveries, NEW pay \in Methods[d], CreateDelivery(d, pay) PROVE Sound(e)'
  <2>1. pay \in {"paid", "cash", "due", "unpaid"}
    BY DeliveryParameters
  <2>2. QED BY <1>1, <2>1 DEF CreateDelivery
<1>2. ASSUME NEW d \in Deliveries, AskLink(d) PROVE Sound(e)'
  BY <1>2 DEF AskLink
<1>3. ASSUME NEW d \in Deliveries, NEW n \in Links, SaveLink(d, n) PROVE Sound(e)'
  BY <1>3 DEF SaveLink, Links
<1>4. ASSUME NEW d \in Deliveries, CheckCard(d) PROVE Sound(e)'
  BY <1>4 DEF CheckCard, LinkPaid
<1>5. ASSUME NEW d \in Deliveries, ConfirmCard(d) PROVE Sound(e)'
  BY <1>5 DEF ConfirmCard, StillOwed
<1>6. ASSUME NEW d \in Deliveries, ReadDue(d) \/ SaveCash(d) PROVE Sound(e)'
  BY <1>6 DEF ReadDue, SaveCash
<1>7. ASSUME NEW d \in Deliveries, CancelDelivery(d), UNCHANGED <<linking, checking, counting, overwritten>>
      PROVE  Sound(e)'
  BY <1>7 DEF CancelDelivery, Refunded, Withdrawn
<1>8. ASSUME NEW d \in Deliveries, NEW r \in Riders, Offer(d, r) \/ OfferEnds(d, r) PROVE Sound(e)'
  BY <1>8 DEF Offer, OfferEnds
<1>9. ASSUME NEW d \in Deliveries, NEW r \in Riders, Accept(d, r) PROVE Sound(e)'
  BY <1>9 DEF Accept, FreeToAccept, Withdrawn
<1>10. ASSUME NEW d \in Deliveries, Proceed(d) \/ Abandon(d) PROVE Sound(e)'
  BY <1>10 DEF Proceed, Abandon
<1>11. ASSUME NEW d \in Deliveries, Deliver(d) PROVE Sound(e)'
  BY <1>11 DEF Deliver, LinkPaid
<1>12. ASSUME NEW d \in Deliveries, HandBack(d) \/ Redispatch(d) PROVE Sound(e)'
  BY <1>12 DEF HandBack, Redispatch
<1>13. ASSUME UNCHANGED <<stage, payment, link, offer, hold, linking, checking, counting, overwritten>>
       PROVE  Sound(e)'
  BY <1>13
<1>14. ASSUME NEW d \in Deliveries, CancelLapsed(d) PROVE Sound(e)'
  <2>1. CASE stage[d] \in Over
    BY <1>13, <1>14, <2>1 DEF CancelLapsed
  <2>2. CASE stage[d] \notin Over
    BY <1>7, <1>14, <2>2 DEF CancelLapsed
  <2>3. QED BY <2>1, <2>2
<1> HIDE DEF DeliveryTypeOK, Sound
<1>15. QED
  BY <1>1, <1>2, <1>3, <1>4, <1>5, <1>6, <1>7, <1>8, <1>9, <1>10, <1>11, <1>12, <1>13, <1>14
  DEF DeliveryNext, CancelledByHand, deliveryVars, ListLapsed, PayLink

LEMMA NextDeliveryInv == DeliveryInv /\ [DeliveryNext]_deliveryVars => DeliveryInv'
<1> SUFFICES ASSUME DeliveryInv, [DeliveryNext]_deliveryVars PROVE DeliveryInv'
  OBVIOUS
<1>1. \A e \in Deliveries : Sound(e)'
  BY NextSound
<1>2. PayableWhenOffered' /\ CallsAreReal' /\ MoneyFollowsDelivery'
  BY <1>1 DEF PayableWhenOffered, CallsAreReal, MoneyFollowsDelivery, Sound, Payable, RealCall, Followed
<1>3. QED BY <1>2, NextType, NextOneActive DEF DeliveryInv

LEMMA DeliveryInvariance == DeliverySpec => []DeliveryInv
  BY InitDeliveryInv, NextDeliveryInv, PTL DEF DeliverySpec

-----------------------------------------------------------------------------
(* Results. *)

\* The types of a delivery, its offers, fee, links and calls in flight.
THEOREM DeliveryTypeCorrect == DeliverySpec => []DeliveryTypeOK
  BY DeliveryInvariance, PTL DEF DeliveryInv

\* A rider never has two deliveries under way (RiderService.accept).
THEOREM RidersDoOneAtATime == DeliverySpec => []OneActiveDelivery
  BY DeliveryInvariance, PTL DEF DeliveryInv

\* Whatever the order of card answers, links, cancellations, tick and riders, the fee is
\* held, paid out or returned as the delivery's stage says (PaymentService).
THEOREM FeeFollowsDelivery == DeliverySpec => []MoneyFollowsDelivery
  BY DeliveryInvariance, PTL DEF DeliveryInv

=============================================================================
