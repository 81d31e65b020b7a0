# Formal models of OAM

TLA+ specifications of the core of OAM: on the back end (`src/backend`, Django
REST Framework on PostgreSQL) the double-entry wallet, the withdrawals, bill
orders, card payments and deliveries built on it; of the clients
(`src/frontend`, `src/oam-mobile`) the parts that keep state between requests:
the signed-in session, the bank transfer page, the shared WebSocket and the
chat. TLC checks each module on a small instance; TLAPS proves the main
invariants of eight of them, and the refinements of two, for every instance.

## 1. The system

The back end is a set of Django applications (`src/backend/apps`) over adapters
for outside providers (`src/backend/integrations`). Requests run in web
workers; scheduled work runs from Render cron (`settle_bill_orders`), from
outside schedulers that call an HTTP endpoint (withdrawal queue, delivery tick)
and, for jobs only, from celery beat. `ATOMIC_REQUESTS` is off and PostgreSQL is
at READ COMMITTED, so a transaction is exactly a `transaction.atomic()` block
and mutual exclusion is exactly a `select_for_update()`.

| Component | State | Operations | Talks to |
|---|---|---|---|
| wallet service (`apps/wallet/services.py`) | `JournalEntry`, `LedgerPosting`, `Wallet.cached_balance`, system accounts `suspense:hold`, `oam:revenue` | credit, debit, hold, capture, release, sweep_revenue | called by every application that moves money |
| peer to peer transfer (`apps/wallet/transfer.py`) | `WalletTransfer` | send | debit and credit of the wallet service |
| withdrawals (`apps/payouts`) | `WithdrawalOrder` | request, queue, queue run, send, cancel, webhook, polling | hold, capture, release; Paystack or Flutterwave |
| bill orders (`apps/billing`) | `BillOrder` | purchase, poll, webhook, maintenance command | hold, capture, release; vtu.ng |
| card checkout (`apps/billing/card.py`) | `CardCheckout` | start, deliver | funding, bill orders |
| funding (`apps/payments`) | `ServiceTransaction`, `WebhookEvent` | initialise, settle, webhook, reconcile | credit; Paystack, Flutterwave |
| deliveries (`apps/deliveries`) | request, offers, rider, payout rows | create, pay, dispatch, accept, deliver, settle, tick | wallet service, withdrawals |
| bus tickets, airtime abroad (`apps/travu`, `apps/reloadly`) | booking, top-up | pay, settle, fulfil, refund | wallet service, funding |
| referrals (`apps/referrals`) | relationship, commission log | reward | credit from revenue |
| jobs board (`apps/jobs`) | postings, applications, credits | publish, apply, move, expire | celery |
| accounts (`apps/accounts`) | codes, PIN counters | issue, verify, lock out | cache |
| client session (`frontend/src/lib/api.ts`, `auth/AuthContext.tsx`) | tokens in localStorage; a user, a query cache and a refresh in flight in each tab | sign in and out, restore, ask, refresh on a 401 | accounts |
| bank transfer pages (`pages/services/Withdraw.tsx`, `Transfer.tsx`, the app's `withdraw.tsx`) | receipt, confirming and queued cards, poll | send, poll, cancel | withdrawals |
| jobs socket (`lib/jobsSocket.ts`, the app's `socket.ts`) | one WebSocket, outbox, timers, subscribers | subscribe, write, reconnect, close | jobs consumer, session |
| chat page (`pages/jobs/JobsChat.tsx`) | bubbles | load, send, retry | jobs socket, REST |
| the rest (marketplace, home services, messaging, notifications, moderation, uploads, assistant, SEO; the other pages) | records | plain writes | - |

What is hard in it:

* *Concurrency.* The same order is settled by its own request, by cron, by an
  open receipt that polls, by a webhook, by staff and by maintenance commands.
  Provider calls are made outside the database transaction, so everything read
  before one may be stale after it.
* *Failure.* A worker may die between any two steps; a provider call may end in
  a transport error that says nothing about what the provider did.
* *Delivery.* Webhooks are lost, late and repeated; a rejected transfer is
  retried under a fresh reference while events of the old one may still come.
* *Clients.* A page runs code of its own between two awaits, with other tabs,
  timers and late answers in between; its state must agree with a back end that
  moves meanwhile.
* *Bookkeeping.* Every balance is kept twice (postings and cached balance) and
  no database constraint ties them together.

What makes the components correct: wallets are never overdrawn and the cached
balance is the ledger's; a hold is captured or released and never both; money
is returned only if nothing was or will be delivered for it; nothing is sent
twice; and every order ends. A rider has one delivery at a time, and its fee
goes where the delivery goes. A client shows only what is true of the back end,
keeps no data of another user, and does not hang.

## 2. Modules

| Module | What it is |
|---|---|
| `WalletLedger` | the wallet service and peer to peer transfers |
| `WalletLedgerProofs` | theorems about `WalletLedger` |
| `PayoutContract` | what every prepaid order promises: abstract specification |
| `OrderStatus` | the life of a withdrawal as its status tells it to clients: abstract specification |
| `Withdrawals` | `apps/payouts`; implements `PayoutContract` and `OrderStatus` |
| `WithdrawalsProofs` | theorems about `Withdrawals` |
| `Billing` | `apps/billing`; implements `PayoutContract` |
| `BillingProofs` | theorems about `Billing` |
| `ReleaseStuckBills` | `Billing` composed with the maintenance command `release_stuck_bills` |
| `CardCheckout` | `apps/payments` and `apps/billing/card.py`; its bill orders are `PayoutContract`'s |
| `CardCheckoutProofs` | theorems about `CardCheckout` |
| `Deliveries`, `DeliveriesProofs` | `apps/deliveries`: dispatch and the money of a delivery |
| `ClientSession`, `ClientSessionProofs` | the session of the web client's tabs |
| `TransferScreen` | the bank transfer page, on `OrderStatus` |
| `JobsSocket` | the shared WebSocket of both clients |
| `JobsChat` | the chat page with `ChatService.send` |
| `PagesProofs` | theorems about `TransferScreen`, `JobsSocket` and `JobsChat` |
| `ComponentsProofs` | a theorem about the composition `MCComponents` |
| `MCWalletLedger`, `MCWithdrawals`, `MCBilling`, `MCCardCheckout`, `MCComponents` | instances for TLC |

The definition-by-definition correspondence with source lines is in
`PROJECT.json` under `map`. A definition whose comment begins "A mutant" is no
part of a model: it is a plausible bug of the definition that follows it, used
to see that a property would notice it.

### WalletLedger

A *session* is one database transaction in progress. `Call` is the key lookup
at the top of each operation, `LockWallet` one row lock with the balance it
returns, `Commit` everything up to and including the commit, `Refuse` the
insufficient-funds exception, `Abort` a rollback for any other reason. READ
COMMITTED is why `seen` (the balance read under the lock) and `journal` (read
again by `post()`) are looked at in different steps. A *reference* is one piece
of business with a fixed wallet and amount, so an idempotency key is a pair of
operation and reference. `ledger` is the balance the postings add up to:
`post()` adds nothing for a known key, while its caller adds to the cached
balance either way, as the code does.

`RowLocked` names the references whose callers hold the row lock of their order
around the status check and the wallet call. Withdrawals and bill orders lock
the order, funding locks the service transaction, and transfers and sweeps make
a new reference for every call. Bus bookings do not lock, hence the second
configuration. `CallerMay` is that rule of the callers, in the words of
`apply_transfer_status`: a settled order is left alone.

### PayoutContract, Withdrawals, Billing

In both applications each write happens in a section that locks and re-reads the
order row, so a write is one action, and the provider call is an action of its
own between two of them. `remote` holds what the provider made of each
reference. A worker of `Withdrawals` is a web request or a queue run (`todo` is
the list of ids it read); the order's own request of `Billing` is its `pc`. The
wallet entries of an order are the set `journal`; that an entry is posted once
and that suspense covers it is what `WalletLedger` shows.

Both modules map their order onto `PayoutContract` (`Purse` from the entries,
`Goods` from the provider's books) and check `Contract!Spec` as a property.
`Withdrawals` also implements `OrderStatus`, with its variable `status` as it
is: processing and queued may follow each other, only a queued order is
cancelled, and nothing follows a settlement. `TransferScreen` takes the steps of
its back end from that module, so what is shown of the page holds on any back
end that keeps this order, and `ClientsSeeOrder` proves that this one does.

### CardCheckout

`txn` is the `ServiceTransaction`, `credited` the journals `fund:<reference>`,
`charge` the gateway's side. A settlement is one action because the code asks the
gateway while it holds the transaction's row lock; what happens on commit (the
`post_save` hook that starts `deliver`) is a later step of the same worker, and a
crash may come between. `Ingest` and `SettleEvent` are two steps because the
event row commits first. A worker's `job` says where in settle-and-deliver it is;
`again` is the second `deliver` that the status view runs after the hook's. The
claim is under the checkout's lock, the final `Save` is not, and it writes from
the order as `Bought` saw it.

The orders that `Buy` creates take their steps from `PayoutContract`, through
`INSTANCE`: what is checked here of purchases rests on the refinement proved in
`BillingProofs`. Every checkout and every order costs 1. For data and cable plans
the code takes the price of the day instead of what was paid; that difference
is left out. `Savings` is the money a wallet may hold besides.

### Deliveries

`stage` is the status of a `DeliveryRequest`, `payment` its `payment_status`,
`hold` what the wallet keeps of the fee. Nearly every operation is one
transaction that locks the row and reads it again, hence one action. The others
are in two parts, with anything in between: `AskLink`/`SaveLink`
(`start_card_checkout` calls the gateway, then updates), `CheckCard`/`ConfirmCard`
(the gateway is asked before the lock), `ReadDue`/`SaveCash` (`collect_cash` takes
no lock) and `ListLapsed`/`CancelLapsed` (`tick` cancels from a list). `overwritten`
is a history variable: the deliveries whose payment `SaveCash` wrote over.

### ClientSession

Pair *n* is the *n*-th the back end issued; `pairs[n].refresh` is live, ended,
or the tab that rotated it. Code of a tab runs to the next `await` without
interruption: `Denied` is the interceptor up to `await refreshing`,
`RefreshServed` the back end, `Refreshed` and `RefreshFails` the rest of the
interceptor for every request that waits, which the event loop runs in one go.
A granted pair is in no store until its answer is back, and is lost with a page
load (`Reload`). A tab's own request, named by the tab, is its sign-out or its
restore. `strayed` is a history variable: the other users whose tokens were in
the store since the tab last changed its user.

### TransferScreen

`post`, `poll` and `cancel` are the page's calls with the answers that travel;
`queued`, `receipt`, `confirming`, `slow` and `error` its state. The three pages run the same code. `BackEnd` moves orders at any time.

### JobsSocket

`app` says which client runs: they differ in that the app reads its token with
an `await` (`connecting`, `TokenRead`) and asks again for subscribers, and
that only the web client hears `online` and `oam:logout`. `strays` counts
reconnect timers whose handle was overwritten and that nobody can clear any
more. `Refused` closes carry the code 4401 or not: the back end closes before
it accepts the handshake, and a browser is told 1006 then.

### JobsChat

A message is named by its `client_id`; a call is one way it was sent. `Looks`
and `Stores` are two steps because nothing locks the thread between the lookup
and the insert. `overlapped` and `reported` are history variables for the
exceptions of the two properties.

### Mishaps

`Mishaps` names the failures an instance of `Withdrawals` or `Billing` allows
(crashes are always on in `CardCheckout`):

| mishap | meaning | enabled in |
|---|---|---|
| crash | a worker or request dies between two steps | withdrawals, withdrawals_crash, billing |
| lost_answer | a provider call ends in a transport error, with or without effect | withdrawals, billing, billing_release_stuck |
| odd_event | an event with a status that is not final | withdrawals |
| recorded_rejection | the provider keeps a rejected transfer and reports it as failed | withdrawals_stale_event |
| resent_post | the HTTP client repeats a POST that was received, and the repetition is refused | no run |
| gateway_error | an HTTP error answers a purchase that was accepted | no run |

The last two, and recorded_rejection outside its own run, depend on what a
provider does and not on this code, and each of them lets an order be refunded
and delivered. `NoRefundedPayout`, `NoRefundedDelivery` and the contract
are therefore claims about providers that keep no record of a request they refuse.

## 3. Runs

| Run | Expect | Question |
|---|---|---|
| wallet_ledger | pass | do interleaved transactions keep the books when callers lock? |
| wallet_unlocked_caller | violation | is that lock needed? (bus bookings do not take it) |
| revenue_sweep_race | violation | may two sweeps overlap? |
| withdrawals | pass | can a withdrawal be sent twice, or refunded and paid? |
| withdrawals_live | pass | is every withdrawal finally paid or refunded? |
| withdrawals_crash | violation | is a queued withdrawal still retried after a crash? |
| withdrawals_stale_event | violation | is a retried withdrawal safe from events of the rejected attempt? |
| billing | pass | the same questions for bill orders, with the re-query job as the net |
| billing_release_stuck | violation | do "stuck" orders never reach the provider? |
| card_checkout | pass | is exactly what was paid credited, whoever reports it first, and nothing bought before? |
| card_double_purchase | violation | does one payment buy one service? |
| components | pass | do the session, the transfer page, the socket, the chat and deliveries keep what they promise, each against its races, lost answers and timers? |

Every "violation" run checks one sentence of the repository (a docstring or a
comment) that the code does not keep; the sentence and the scenario are in
`PROJECT.json` under `findings`.

Bounds. *wallet_ledger*: two wallets and three sessions, because a lost update
needs two sessions on one wallet and a deadlocking transfer a third party; one
funding for each wallet, spends that together cost more than one funding, a
transfer, and one sweep. More than one sweep is the subject of
revenue_sweep_race, so `RevenueNotOverdrawn` in the passing run says that the
captures, with charges above the amount among them, never make the revenue
negative. *withdrawals*: two orders, two workers (the smallest queue in
which one order can overtake or block another), one rejected attempt.
`MaxAttempts` bounds the rejections the provider answers with, not the code:
once it is reached the provider accepts or refuses for good.
*withdrawals_live*: two attempts and one worker, so that an order goes around the
queue more than once. *billing*: two orders; they do not interact, the second
one is there for the composed refinement. *card_checkout*: one checkout, since
checkouts meet only in a shared wallet, which `Savings` stands for; two workers
for the race between two deliveries, three orders so that a failed purchase can
be repeated by each of them. The customer starts with or without savings:
`PurchasesCovered` then allows one purchase more, and `NothingUnpaid` can only fail
with some.

*components* is the sum of five state spaces: the components share no state, so
`part` picks one and the others stay in their initial states (168,000 states in
all). The session is there twice: one tab with three token pairs (two expiries
and a change of user), and two tabs with two pairs (each presenting the
token they share); both start with the first user, since users are alike. The
page has two orders, so that a second transfer meets what the first left behind;
two tries and two calls in flight, so that calls overlap and the last try fails
with one still out. The socket has two sockets and two frames (order needs
two), one stray timer and one close handler at a time. The chat has one message
sent twice over any of its ways: messages meet in nothing but the list. In
deliveries, one delivery has all ways to pay and the other is there to compete
for the rider; two links, because the second one overwrites the first; nothing is
claimed once cash was saved over a payment, and the instance stops there.

Deadlock checking is off in every configuration: an instance has finitely many
orders and rests when all are settled.

Fairness. `Withdrawals`: a worker that has started goes on (weak), the
scheduler keeps calling `ProcessQueueView`, which both polls and runs the queue
(weak for `Sync` of each order; strong for `CronRun` of a worker, because the
queue is emptied and refilled and requests occupy workers in between), hours
pass (`Age`), and the provider decides what it accepted. No fairness on webhooks, except in
withdrawals_crash, where even delivered webhooks do not help. `Billing`:
requests go on unless they crash, cron re-queries each processing order, the
provider decides. Cron looks at the last 24 hours of orders
(`settle_bill_orders --hours`), so the provider is assumed to decide
within a day. An order which never reached the provider stays processing, by design
of that job: `AcceptedSettles` speaks only of accepted ones.
`CardCheckout`: running requests go on, and the customer keeps asking for the
checkout's status and is now and then served (strong, as workers are busy in
between). That is an assumption about the customer's app, and the only one made:
no scheduler of the repository runs `reconcile_payments`, and an event lost in a
crash is not processed when it is repeated, so without the customer nothing is
promised and nothing is claimed.
`ClientSession`: answers come or calls fail and awaited code goes on (weak), and
a page with a user keeps asking (the bell, every 30 seconds) and is now and then
answered (strong, for `GoneFromScreen` only). `TransferScreen`: the interval fires
while it runs, and every call ends, also with a failure. `JobsSocket`: timers
fire, awaited calls end, and a handshake does not fail for ever (strong, as a
socket may drop in between); the user and the token are not obliged to do anything,
so `Reconnects` speaks of times when somebody listens with a good token.
withdrawals_live has no mishaps: a crash strands a claimed order (that is
withdrawals_crash), and so does a lost answer to a transfer without a
provider reference unless a webhook comes.

## 4. Proofs

`WalletLedgerProofs` proves, for any sets of wallets, sessions and references
and any amounts:

* `TypeCorrect`: `Spec => []TypeOK`.
* `CacheIsLedger`: if `RowLocked = Refs`, then `Spec => []CachedMatchesLedger`.
* `NeverOverdrawn`: if `RowLocked = Refs`, then `Spec => []NoOverdraft`.

The assumption is exactly what wallet_unlocked_caller shows to be necessary.
`CachedMatchesLedger` alone is not inductive: a commit writes `seen + delta`,
which is right only if the balance read under the lock is still the current one
and the key is still unknown. The inductive invariant `IInv` adds these: a
session that holds a wallet's lock has seen its cached balance (row locks
exclude other writers), an active session's key is not yet posted, and no two
active sessions work on one reference (the callers' locks). The two
constant-level lemmas `DeltaSign` and `AccountDeltas` keep the arithmetic out of
the step lemmas.

* `SuspenseIsHolds`: if `RowLocked = Refs`, then `Spec => []SuspenseBacksHolds`.
* `SweepsNeverOverdraw`: `Spec /\ []OneSweepAtATime => []RevenueNotOverdrawn`.

`SuspenseBacksHolds` equates the suspense account with a sum over a set, and the
invariant `HoldInv` adds to `IInv` that a session which captures or releases does so
to a hold that is open (`SettlesOpen`), that nothing was captured or released but
what was held (`SettledWasHeld`), and that the open holds are finitely many. The
arithmetic is one fact, `TotalOfMore`: an element put into a finite set adds its
amount to the sum. The library defines such a sum through a recursive function on the
subsets of the set with an arbitrary choice at each level, so the fact needs
induction. The induction theorems take an operator, which the provers cannot
instantiate; `SumExists` and `SumsAgree` are therefore proved by a smallest
counterexample (`SmallestSet`, from the well-foundedness of the naturals, which takes
a set). `RevenueNotOverdrawn` needs no lock of a caller but its assumption, that no
two sweeps run at once: revenue_sweep_race shows what happens without it. Then the
revenue a sweep has seen can only have grown (`SweepsCovered`).

`BillingProofs` proves, for any set of orders:

* `TypeCorrect`: `Spec => []TypeOK`, whatever `Mishaps` is.
* `MoneyMatchesStatus`, `NoRefundOfDelivered`: if `"gateway_error"` is not in
  `Mishaps`, then `Spec => []StatusMatchesMoney` and
  `Spec => []NoRefundedDelivery`.
* `BillsKeepContract`: under the same assumption `Spec => KeepsContract`, the
  refinement of `PayoutContract`.

`StatusMatchesMoney` is not inductive: `Record` captures or releases on an
answer received some steps ago, and cron or the webhook may have settled the
order since. `IInv` adds that nothing touches an order before its request has
called the provider (`CalledLater`), that an answer waiting to be recorded is
undecided or agrees with the provider's record, which is then final
(`AnswerIsTrue`), and that a settled status agrees with that record
(`StatusIsTrue`). The assumption on gateway errors is used in one place, the
`Send` step of `AnswerIsTrue`: an HTTP error that answers an accepted purchase
is taken for a failure although the record stays open. In the refinement the
provider's completion of a processing order is `Deliver`, the writes that
capture and release are `Spend` and `Return`, creation is `Reserve`, and every
other step changes neither purse nor goods.

`WithdrawalsProofs` proves, for any orders, workers and number of attempts:

* `TypeCorrect`, `MoneyMatchesStatus`, `PollingIsCurrent` and `ClientsSeeOrder`
  (the refinement of `OrderStatus`), whatever `Mishaps` is.
* `NoRefundOfPaid`, `SentOnce` and `WithdrawalsKeepContract` (the refinement of
  `PayoutContract`): if `Mishaps` has neither resent_post nor recorded_rejection
  (`Honest`), as withdrawals_stale_event shows to be necessary.

`BInv` says who holds an order: one that is new or queued has no provider
reference (`Fresh`), one that a worker has placed or claimed is no other
worker's and is not queued (`Held`), and an attempt that was rejected was not
the last (`Bounded`). That is enough for money, polling and the order of
statuses. `HInv` adds what the provider has: something under the reference in
use only, and nothing for an order that is new or waits (`Unsent`); and as long
as a worker is still to send, or has an answer that says the transfer was not
taken, its order is processing and the provider has nothing of it (`Waits`).
From `Waits` and `Held`, two workers can never both be about to send one order.
For the contract `RInv` adds that a capture is for a transfer that the bank paid
(`PaidFor`), and that an answer which says so is true while it waits to be recorded
(`TruePaid`). A step then changes the money or the provider's books of one order:
a hold is `Reserve`, a capture `Spend`, a release `Return` (this is where
`NoRefundedPayout` is needed), a transfer that the bank settles or takes back is
`Deliver` or `Undo`, and a new attempt changes nothing the contract sees.

`CardCheckoutProofs` proves `TypeCorrect`, `CreditedWasPaid`, `PaidBeforeBought`,
`PurchasesWerePaid` and `DeliveredWasCaptured`, for any transactions, workers and savings. Its
invariant ties the transaction to the ledger (`Booked`: success exactly when
credited) and says that what a worker has seen lasts (`StillTrue`): a charge
that was paid, a credit and a captured order are never undone, so the steps that
act on an earlier look, as the unlocked `Save` does, act on the truth.
`PurchasesWerePaid` rests on a conservation law instead (`Even`): a customer's balance
and the services that are held or captured make up the savings and the payments
credited, and the balance is never negative. That is all that stands between two
deliveries of one checkout and two services, for `OnePurchase` itself fails
(card_double_purchase).

`DeliveriesProofs` proves `DeliveryTypeCorrect`, `RidersDoOneAtATime` and
`FeeFollowsDelivery` for any deliveries, riders, links and ways to pay. The last adds that a delivery which
is offered or under way is not waiting for its first payment
(`PayableWhenOffered`) and that a call in flight is about a delivery that
exists and a link that was saved (`CallsAreReal`). Each step changes one delivery, so
the proof is about that one and leaves the others alone; only `Accept` looks at
all of them.

`PagesProofs` has the pages of the clients, each for any values of its constants:

* `ScreenTypeCorrect`, `ReceiptsAreEarned` and `ShownCancelledIs` of the transfer
  page. The invariant follows each answer on its way: a final answer to the POST is
  still true of the order (`PostTrue`), a receipt that is not being confirmed has
  succeeded (`ReceiptTrue`), the page polls what it confirms (`PollTrue`), and a
  cancellation that was served is one (`CancelTrue`). It rests on `OrderStatus` only,
  where nothing follows a settlement.
* `SocketTypeCorrect`, `OnlySocket` and `FramesKeepOrder` of the jobs socket. The last
  needs that the outbox is empty while the socket is open (`Drained`): otherwise a
  new frame would overtake the waiting ones.
* `ChatTypeCorrect`, `ChatStoresOnce` and `ChatShowsOnce` of the chat. A message that
  no two calls looked for together has at most one call that found nothing and is
  about to store it, and none once it is stored (`Alone`). On the page, a bubble that
  was not reported as failed is pending until it names a row, and what it names is
  that message's row (`BubbleOK`); so whatever tells of the row next, the answer, the
  event or the load, finds the bubble by its message or by its row (`OneBubble`).

`ClientSessionProofs` proves `SessionTypeCorrect`, `NoTabLocksItselfOut` and
`TabsHoldOwnData` for any tabs, requests and users. The second needs that a pair which
was granted and is still on its way is in nobody's store and known to no other refresh
(`Secret`), and that a stored token which a tab has rotated means that this tab's
answer is still out, or was lost (`Replaced`): once it is back, the tab has stored the
new one or cleared the store. The third is about requests rather than caches: a query
whose answer the tab will keep was sent with a token of the tab's user, or of one
whose tokens it has met in the store (`OwnFetches`); every sign-in, sign-out and page
load either leaves the user alone or drops the cache and every answer on its way
(`Stays`, `Forgets`, `Learns`).

`ComponentsProofs` proves `ComponentsTypeCorrect`, the types of the composition that
TLC runs: each of its steps is a step of one component and none of the others
(`EachMoves`), so the five type theorems carry over.

Only model-checked: all liveness, which needs fairness and ENABLED. The invariants and
refinements that the runs check are all proved. The properties of the runs that expect
a violation are false, or are proved under the assumption that the run drops.

## 5. Not modelled

Component by component in `PROJECT.json`. Within the modelled applications:
amounts and fees of orders (an order is one amount; the ledger has amounts),
notifications, staff alerts, catalogues, customer verification, electricity
tokens collected after settlement, referral rewards that a bill's capture may
trigger, and currencies (no operation crosses one). Of deliveries: prices, the
search for riders and its rounds, availability, proof codes, ratings, the payout to
the rider's bank (a withdrawal like any other) and the commission on cash.

Bus bookings and airtime abroad repeat the hold, call, settle pattern of
`Billing`; what they do differently (no row lock) is in the runs of the wallet or
among the hazards. Referrals, codes and PINs, and the jobs board beside its
chat are single writes whose unlocked checks are listed as hazards.

Most TypeScript of the repository is not modelled, and there is little in it to
model: two tables of airports, type declarations and API wrappers of one request
each, translations, and pages that are JSX over queries. Nothing is kept there
between two requests that could go wrong in more than one step. The client
modules cover the code that does keep something: the session, the page that moves
money and waits for it, the socket and the chat. `PaymentCallback.tsx` is the one
page left of that kind: it asks for a card checkout, takes any error for "not a
card checkout" and then shows a wallet funding; it has no state beyond that.
