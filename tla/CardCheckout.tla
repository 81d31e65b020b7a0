----------------------------- MODULE CardCheckout -----------------------------
(***************************************************************************)
(* Wallet funding (apps/payments) and the card checkout built on it        *)
(* (apps/billing/card.py): a card charge at the gateway, the settlement    *)
(* that credits the wallet - reported by the webhook, the status view, the *)
(* verify view or reconcile_payments, in any order - and the purchase that *)
(* a settlement starts.  A bill order is what PayoutContract says of it;   *)
(* Billing implements that.  Every checkout, and every order, costs 1.     *)
(***************************************************************************)
EXTENDS Naturals, FiniteSets

CONSTANTS
  Checkouts,
  Customers,
  Payer,      \* the customer of a checkout
  Savings,    \* the amounts a wallet may hold besides
  Bills,      \* bill orders there may be: a bound on the purchases
  Workers     \* requests and commands running at the same time

ASSUME Parameters ==
  /\ Payer \in [Checkouts -> Customers]
  /\ Savings \subseteq Nat

VARIABLES
  txn,        \* ServiceTransaction.status, "none" before the checkout is started
  credited,   \* checkouts whose journal "fund:<reference>" exists
  charge,     \* the gateway's charge
  events,     \* checkouts whose success event is recorded as a WebhookEvent
  checkout,   \* CardCheckout.status
  link,       \* CardCheckout.bill_order
  savings,    \* what was in each customer's wallet at first
  balance,    \* and is now
  buyer,      \* the checkout a bill order was bought for
  purse,      \* the order's wallet hold (PayoutContract)
  goods,      \* the order's delivery (PayoutContract)
  job         \* what each worker is doing

funding == <<txn, credited, charge, events>>
delivery == <<checkout, link>>
orders == <<savings, balance, buyer, purse, goods>>
vars == <<funding, delivery, orders, job>>

Bill == INSTANCE PayoutContract WITH Orders <- Bills

Nobody == "nobody"
Idle ==
  [step |-> "idle", checkout |-> Nobody, again |-> FALSE, bill |-> Nobody, seen |-> "idle"]

Init ==
  /\ txn = [c \in Checkouts |-> "none"]
  /\ credited = {}
  /\ charge = [c \in Checkouts |-> "open"]
  /\ events = {}
  /\ checkout = [c \in Checkouts |-> "pending"]
  /\ link = [c \in Checkouts |-> Nobody]
  /\ savings \in [Customers -> Savings]
  /\ balance = savings
  /\ buyer = [b \in Bills |-> Nobody]
  /\ Bill!Init
  /\ job = [w \in Workers |-> Idle]

-----------------------------------------------------------------------------
(* Paying. *)

\* CardCheckoutService.start; the customer gets the payment link only after it.
Start(c) ==
  /\ txn[c] = "none"
  /\ txn' = [txn EXCEPT ![c] = "processing"]
  /\ UNCHANGED <<credited, charge, events, delivery, orders, job>>

\* A declined card may be tried again on the same page, under the same reference.
CustomerPays(c) ==
  /\ txn[c] # "none"
  /\ charge[c] \in {"open", "declined"}
  /\ \E result \in {"paid", "underpaid", "declined"} :
       charge' = [charge EXCEPT ![c] = result]
  /\ UNCHANGED <<txn, credited, events, delivery, orders, job>>

\* What verify_charge makes of the charge; Paystack calls an unpaid page abandoned.
Reports(c) ==
  CASE charge[c] = "open" -> {"pending", "failed"}
    [] charge[c] = "declined" -> {"failed"}
    [] OTHER -> {charge[c]}

-----------------------------------------------------------------------------
(* FundingService.settle: one transaction, under the row lock of txn. *)

\* A mutant: the amount is not compared.
CreditsAny(c, said) == txn[c] # "success" /\ said \in {"paid", "underpaid"}

\* A mutant: a failed transaction is final.
CreditsUnlessFailed(c, said) == txn[c] \notin {"success", "failed"} /\ said = "paid"

Credits(c, said) == txn[c] # "success" /\ said = "paid"

Settle(c, said) ==
  IF Credits(c, said)
    THEN /\ txn' = [txn EXCEPT ![c] = "success"]
         /\ credited' = credited \cup {c}
         /\ balance' = [balance EXCEPT ![Payer[c]] = @ + 1]
    ELSE /\ txn' = IF txn[c] # "success" /\ said = "failed"
                     THEN [txn EXCEPT ![c] = "failed"] ELSE txn
         /\ UNCHANGED <<credited, balance>>

At(step, c, again) ==
  [Idle EXCEPT !.step = step, !.checkout = c, !.again = again]

\* A settlement that credits starts deliver (post_save, on commit); the status view
\* goes on after that.
AfterSettle(c, said, viewing) ==
  IF Credits(c, said) THEN At("deliver", c, viewing)
  ELSE IF viewing THEN At("look", c, FALSE)
  ELSE Idle

\* settle with the gateway asked under the lock.
Ask(w, c, viewing) ==
  /\ job[w] = Idle
  /\ txn[c] # "none"
  /\ \E said \in Reports(c) :
       /\ Settle(c, said)
       /\ job' = [job EXCEPT ![w] = AfterSettle(c, said, viewing)]
  /\ UNCHANGED <<charge, events, delivery, savings, buyer, purse, goods>>

StatusView(w, c) == Ask(w, c, TRUE)     \* settle_and_deliver
VerifyView(w, c) == Ask(w, c, FALSE)

\* reconcile_payments: c was not final when it was selected, or include-failed is on.
Reconcile(w, c) == txn[c] \in {"processing", "failed"} /\ Ask(w, c, FALSE)

\* WebhookService.ingest: an event seen before is not processed again.
Ingest(w, c) ==
  /\ job[w] = Idle
  /\ charge[c] \in {"paid", "underpaid"}
  /\ c \notin events
  /\ events' = events \cup {c}
  /\ job' = [job EXCEPT ![w] = At("settle", c, FALSE)]
  /\ UNCHANGED <<txn, credited, charge, delivery, orders>>

SettleEvent(w) ==
  LET c == job[w].checkout
  IN  /\ job[w].step = "settle"
      /\ Settle(c, charge[c])
      /\ job' = [job EXCEPT ![w] = AfterSettle(c, charge[c], FALSE)]
      /\ UNCHANGED <<charge, events, delivery, savings, buyer, purse, goods>>

\* A mutant: the status view delivers whatever settle did.
LookAway(w) ==
  /\ job[w].step = "look"
  /\ job' = [job EXCEPT ![w] = At("deliver", @.checkout, FALSE)]
  /\ UNCHANGED <<funding, delivery, orders>>

\* The status view reads the transaction again, and delivers if it is settled.
Look(w) ==
  /\ job[w].step = "look"
  /\ job' = [job EXCEPT ![w] =
               IF txn[@.checkout] = "success" THEN At("deliver", @.checkout, FALSE) ELSE Idle]
  /\ UNCHANGED <<funding, delivery, orders>>

-----------------------------------------------------------------------------
(* CardCheckoutService.deliver. *)

EndDelivery(w) ==
  job' = [job EXCEPT ![w] = IF @.again THEN At("look", @.checkout, FALSE) ELSE Idle]

\* The claim, under the checkout's row lock: only a delivered one is refused.
Claim(w) ==
  LET c == job[w].checkout
  IN  /\ job[w].step = "deliver"
      /\ IF checkout[c] = "delivered"
           THEN EndDelivery(w) /\ UNCHANGED checkout
           ELSE /\ checkout' = [checkout EXCEPT ![c] = "payment_received"]
                /\ job' = [job EXCEPT ![w].step = "buy"]
      /\ UNCHANGED <<funding, link, orders>>

FreeBills == {b \in Bills : purse[b] = "idle"}

\* A mutant: the hold does not look at the balance.
CoveredAnyway(c) == c \in Checkouts

Covered(c) == balance[Payer[c]] >= 1

\* create_and_hold of the purchase.
Buy(w) ==
  LET c == job[w].checkout
      b == CHOOSE x \in FreeBills : TRUE
  IN  /\ job[w].step = "buy"
      /\ FreeBills # {} /\ Covered(c)
      /\ Bill!Reserve(b)
      /\ buyer' = [buyer EXCEPT ![b] = c]
      /\ balance' = [balance EXCEPT ![Payer[c]] = @ - 1]
      /\ job' = [job EXCEPT ![w].step = "wait", ![w].bill = b]
      /\ UNCHANGED <<funding, delivery, savings>>

\* Too little money, an inactive biller, a missing verification: only the reason
\* is saved.
RefuseToBuy(w) ==
  /\ job[w].step = "buy"
  /\ EndDelivery(w)
  /\ UNCHANGED <<funding, delivery, orders>>

\* The purchase returns the order as it then is.
Bought(w) ==
  /\ job[w].step = "wait"
  /\ job' = [job EXCEPT ![w].step = "save", ![w].seen = purse[job[w].bill]]
  /\ UNCHANGED <<funding, delivery, orders>>

\* A mutant: an order that has not failed counts as delivered.
StatusForUnlessFailed(seen) == IF seen = "returned" THEN "payment_received" ELSE "delivered"

\* A mutant: the order's status becomes the checkout's.
StatusForRaw(seen) == seen

StatusFor(seen) == IF seen = "spent" THEN "delivered" ELSE "payment_received"

\* The save after the purchase: no lock, and the status as the order was returned.
Save(w) ==
  LET j == job[w]
  IN  /\ j.step = "save"
      /\ checkout' = [checkout EXCEPT ![j.checkout] = StatusFor(j.seen)]
      /\ link' = [link EXCEPT ![j.checkout] = j.bill]
      /\ EndDelivery(w)
      /\ UNCHANGED <<funding, orders>>

\* The request of an order, cron and the VTU webhook, by the order's contract.
BillStep(b) ==
  /\ \/ (Bill!Deliver(b) \/ Bill!Spend(b)) /\ UNCHANGED balance
     \/ Bill!Return(b) /\ balance' = [balance EXCEPT ![Payer[buyer[b]]] = @ + 1]
  /\ UNCHANGED <<funding, delivery, savings, buyer, job>>

\* A worker dies between two of its steps.
Crash(w) ==
  /\ job[w] # Idle
  /\ job' = [job EXCEPT ![w] = Idle]
  /\ UNCHANGED <<funding, delivery, orders>>

-----------------------------------------------------------------------------
Step(w) ==
  \/ SettleEvent(w) \/ Look(w) \/ Claim(w)
  \/ Buy(w) \/ RefuseToBuy(w) \/ Bought(w) \/ Save(w)

Next ==
  \/ \E c \in Checkouts : Start(c) \/ CustomerPays(c)
  \/ \E w \in Workers, c \in Checkouts :
       StatusView(w, c) \/ VerifyView(w, c) \/ Reconcile(w, c) \/ Ingest(w, c)
  \/ \E w \in Workers : Step(w) \/ Crash(w)
  \/ \E b \in Bills : BillStep(b)

Spec == Init /\ [][Next]_vars

\* Running requests go on, and every customer asks for the checkout's status again
\* and again and is served now and then.  No webhook need come, no command be run.
Fairness ==
  /\ \A w \in Workers : WF_vars(Step(w))
  /\ \A c \in Checkouts : SF_vars(\E w \in Workers : StatusView(w, c))

FairSpec == Spec /\ Fairness

-----------------------------------------------------------------------------
(* Properties. *)

\* Every variable keeps its type.
TypeOK ==
  /\ txn \in [Checkouts -> {"none", "processing", "success", "failed"}]
  /\ credited \subseteq Checkouts
  /\ charge \in [Checkouts -> {"open", "declined", "paid", "underpaid"}]
  /\ events \subseteq Checkouts
  /\ checkout \in [Checkouts -> {"pending", "payment_received", "delivered"}]
  /\ link \in [Checkouts -> Bills \cup {Nobody}]
  /\ savings \in [Customers -> Savings]
  /\ balance \in [Customers -> Nat]
  /\ buyer \in [Bills -> Checkouts \cup {Nobody}]
  /\ purse \in [Bills -> {"idle", "reserved", "spent", "returned"}]
  /\ goods \in [Bills -> {"none", "delivered"}]
  /\ job \in [Workers ->
       [step : {"idle", "settle", "look", "deliver", "buy", "wait", "save"},
        checkout : Checkouts \cup {Nobody}, again : BOOLEAN,
        bill : Bills \cup {Nobody},
        seen : {"idle", "reserved", "spent", "returned"}]]

\* Nobody's card pays less than the wallet gets, whoever reports the charge first,
\* and however often a declined or abandoned charge was reported before.
CreditedIsPaid == \A c \in credited : charge[c] = "paid"

\* No service is bought for a checkout before its payment is in the wallet.
NothingUnpaid == \A b \in Bills : purse[b] # "idle" => buyer[b] \in credited

\* A checkout shows delivered only with an order whose hold was captured.
DeliveredIsCaptured ==
  \A c \in Checkouts :
    checkout[c] = "delivered" => link[c] \in Bills /\ purse[link[c]] = "spent"

\* Orders of a checkout that were paid for and not refunded.
Purchases(c) == {b \in Bills : buyer[b] = c /\ purse[b] \in {"reserved", "spent"}}

\* One payment buys one service: deliver is "safe to call from the webhook and the
\* return-page verify at the same time".
OnePurchase == \A c \in Checkouts : Cardinality(Purchases(c)) <= 1

\* The services a customer has paid for, and the checkouts that paid for services.
PurchasesOf(p) == UNION {Purchases(c) : c \in {d \in Checkouts : Payer[d] = p}}
PaymentsOf(p) == {c \in credited : Payer[c] = p}

\* What the code does keep of that, whoever delivers at a time, and with refunds among
\* them: a customer never has more services than payments and what else was in the
\* wallet cover, because the next hold is refused (create_and_hold).  With nothing else
\* in the wallet a customer's one payment buys one service at a time.
PurchasesCovered ==
  \A p \in Customers : Cardinality(PurchasesOf(p)) <= savings[p] + Cardinality(PaymentsOf(p))

\* A charge paid in full is credited, if only its customer keeps asking: also when
\* the event is lost in a crash and the transaction was already marked failed.
PaidIsCredited == \A c \in Checkouts : charge[c] = "paid" ~> c \in credited

=============================================================================
