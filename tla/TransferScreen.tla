--------------------------- MODULE TransferScreen ---------------------------
(***************************************************************************)
(* The page that sends money to a bank account and follows the transfer:   *)
(* Withdraw.tsx and the bank form of Transfer.tsx (the app's withdraw.tsx  *)
(* is the same page), the hook useWithdrawalPoll and the card for a queued *)
(* transfer.  The back end is OrderStatus, which Withdrawals implements;   *)
(* its orders move on their own while requests and answers travel.         *)
(***************************************************************************)
EXTENDS Naturals

CONSTANTS
  Orders,
  Tries,      \* useWithdrawalPoll: 30 calls, 2 seconds apart
  MaxCalls    \* bound: calls of the poll that are unanswered at a time

ASSUME ScreenParameters ==
  /\ Tries \in Nat \ {0}
  /\ MaxCalls \in Nat \ {0}
  /\ "none" \notin Orders

VARIABLES
  status,     \* back end: WithdrawalOrder.status
  post,       \* the mutation `withdraw': its order, and where the call is
  answered,   \* history: the status an order's POST was answered with
  queued,     \* state `queued' of the page: an order or "none"
  cancel,     \* the mutation of QueuedTransfer and its `cancelled'
  receipt,    \* state `receipt': an order or "none"
  confirming, \* states `confirming', `slow' and `error'
  slow,
  error,
  poll        \* useWithdrawalPoll: its id, calls made, calls unanswered, `stopped'

page == <<queued, cancel, receipt, confirming, slow, error>>
screenVars == <<status, post, answered, page, poll>>

Bank == INSTANCE OrderStatus

None == "none"
NoPost == [order |-> None, step |-> "idle", answer |-> None]
NoPoll == [id |-> None, n |-> 0, calls |-> 0, stopped |-> FALSE]

ScreenInit ==
  /\ Bank!Init
  /\ post = NoPost
  /\ answered = [o \in Orders |-> None]
  /\ queued = None
  /\ cancel = "idle"
  /\ receipt = None
  /\ confirming = FALSE
  /\ slow = FALSE
  /\ error = FALSE
  /\ poll = NoPoll

\* The form is on the page unless one of the cards took its place.
FormShown == queued = None /\ receipt = None
ReceiptShown == queued = None /\ receipt # None /\ ~confirming

-----------------------------------------------------------------------------
(* Sending. *)

\* The button is disabled while the mutation is pending.
Submit(o) ==
  /\ FormShown
  /\ post = NoPost
  /\ status[o] = "none"
  /\ answered[o] = None
  /\ error' = FALSE
  /\ post' = [NoPost EXCEPT !.order = o, !.step = "asked"]
  /\ UNCHANGED <<status, answered, queued, cancel, receipt, confirming, slow, poll>>

\* WithdrawView creates the order, and sends or queues it.
PostArrives ==
  /\ post.step = "asked"
  /\ Bank!Create(post.order)
  /\ post' = [post EXCEPT !.step = "working"]
  /\ UNCHANGED <<answered, page, poll>>

\* The answer carries the status the order has by then, and travels.
PostServed ==
  /\ post.step = "working"
  /\ post' = [post EXCEPT !.step = "answered", !.answer = status[post.order]]
  /\ UNCHANGED <<status, answered, page, poll>>

\* A mutant: onSuccess asks for a final status but not for a failed one.
PostAnsweredBlindly ==
  LET o == post.order
      st == post.answer
  IN  /\ post.step = "answered"
      /\ post' = NoPost
      /\ answered' = [answered EXCEPT ![o] = st]
      /\ receipt' = o
      /\ error' = FALSE
      /\ UNCHANGED <<status, queued, cancel, confirming, slow, poll>>

\* onSuccess: a failed order is an error, a queued one has a card of its own, one in
\* flight is polled behind a `confirming' card, and anything else is a receipt.
PostAnswered ==
  LET o == post.order
      st == post.answer
  IN  /\ post.step = "answered"
      /\ post' = NoPost
      /\ answered' = [answered EXCEPT ![o] = st]
      /\ error' = (st = "failed")
      /\ queued' = IF st = "queued" THEN o ELSE queued
      /\ receipt' = IF st \in {"failed", "queued"} THEN receipt ELSE o
      /\ IF st = "processing"
           THEN /\ poll' = [NoPoll EXCEPT !.id = o]
                /\ confirming' = TRUE
                /\ slow' = FALSE
           ELSE UNCHANGED <<poll, confirming, slow>>
      /\ UNCHANGED <<status, cancel>>

\* onError: refused, or the answer is lost; the order may exist all the same.
PostFails ==
  /\ post.step # "idle"
  /\ post' = NoPost
  /\ answered' = [answered EXCEPT ![post.order] = "lost"]
  /\ error' = TRUE
  /\ UNCHANGED <<status, queued, cancel, receipt, confirming, slow, poll>>

-----------------------------------------------------------------------------
(* useWithdrawalPoll. *)

Polling == poll.id # None /\ ~poll.stopped

\* The interval fires whether or not earlier calls were answered.
Tick ==
  /\ Polling
  /\ poll.calls < MaxCalls
  /\ poll' = [poll EXCEPT !.n = IF @ < Tries THEN @ + 1 ELSE @, !.calls = @ + 1]
  /\ UNCHANGED <<status, post, answered, page>>

\* FINAL.includes(status).
IsFinal(st) == st \in {"success", "failed", "reversed", "cancelled"}

\* A mutant: the page forgets to set pollId to null.
PolledOn == [poll EXCEPT !.stopped = TRUE]

\* onFinal sets pollId to null; calls still unanswered are ignored then.
PollOver == NoPoll

\* A call tells a final status: onFinal.
PollSettles ==
  /\ poll.calls > 0
  /\ ~poll.stopped
  /\ IsFinal(status[poll.id])
  /\ poll' = PollOver
  /\ confirming' = FALSE
  /\ IF status[poll.id] = "success" THEN UNCHANGED <<receipt, error>>
     ELSE receipt' = None /\ error' = TRUE
  /\ UNCHANGED <<status, post, answered, queued, cancel, slow>>

\* A mutant: a call that fails does not count as a try.
PollMissesQuietly ==
  /\ poll.calls > 0
  /\ poll' = [poll EXCEPT !.calls = @ - 1]
  /\ UNCHANGED <<status, post, answered, page>>

\* A call fails, or was answered before the order settled: after the last try, give up.
PollMisses ==
  /\ poll.calls > 0
  /\ IF poll.n >= Tries /\ ~poll.stopped
       THEN poll' = [poll EXCEPT !.calls = @ - 1, !.stopped = TRUE] /\ slow' = TRUE
       ELSE poll' = [poll EXCEPT !.calls = @ - 1] /\ UNCHANGED slow
  /\ UNCHANGED <<status, post, answered, queued, cancel, receipt, confirming, error>>

-----------------------------------------------------------------------------
(* The card of a queued transfer. *)

CancelAsked ==
  /\ queued # None
  /\ cancel \in {"idle", "failed"}
  /\ cancel' = "asked"
  /\ UNCHANGED <<status, post, answered, queued, receipt, confirming, slow, error, poll>>

CancelServed ==
  /\ cancel = "asked"
  /\ IF status[queued] = "queued"
       THEN Bank!Move(queued, "cancelled") /\ cancel' = "done"
       ELSE cancel' = "refused" /\ UNCHANGED status
  /\ UNCHANGED <<post, answered, queued, receipt, confirming, slow, error, poll>>

\* A mutant: onSettled in place of onSuccess.
CancelShown(outcome) == "shown"

\* onSuccess shows the transfer as cancelled, onError a message.
CancelTaken(outcome) == IF outcome = "done" THEN "shown" ELSE "failed"

CancelAnswered ==
  /\ cancel \in {"done", "refused"}
  /\ cancel' = CancelTaken(cancel)
  /\ UNCHANGED <<status, post, answered, queued, receipt, confirming, slow, error, poll>>

CancelFails ==
  /\ cancel \in {"asked", "done", "refused"}
  /\ cancel' = "failed"
  /\ UNCHANGED <<status, post, answered, queued, receipt, confirming, slow, error, poll>>

-----------------------------------------------------------------------------
\* The page is left, and its state with it: Done, or the header at any time.
LeavePage ==
  /\ post = NoPost
  /\ page # <<None, "idle", None, FALSE, FALSE, FALSE>>
  /\ queued' = None
  /\ cancel' = "idle"
  /\ receipt' = None
  /\ confirming' = FALSE
  /\ slow' = FALSE
  /\ error' = FALSE
  /\ poll' = NoPoll
  /\ UNCHANGED <<status, post, answered>>

\* Queue runs, webhooks and the provider.
BackEnd ==
  /\ \E o \in Orders, st \in Bank!OpenStatuses \cup Bank!Settled : Bank!Move(o, st)
  /\ UNCHANGED <<post, answered, page, poll>>

ScreenNext ==
  \/ \E o \in Orders : Submit(o)
  \/ PostArrives
  \/ PostServed
  \/ PostAnswered
  \/ PostFails
  \/ Tick
  \/ PollSettles
  \/ PollMisses
  \/ CancelAsked
  \/ CancelServed
  \/ CancelAnswered
  \/ CancelFails
  \/ LeavePage
  \/ BackEnd

ScreenSpec == ScreenInit /\ [][ScreenNext]_screenVars

\* The interval keeps firing and every call ends, one way or another.
ScreenFairness ==
  /\ WF_screenVars(Tick)
  /\ WF_screenVars(PollSettles \/ PollMisses)

-----------------------------------------------------------------------------
(* Properties. *)

\* Every variable keeps its type; the page confirms exactly what it polls.
ScreenTypeOK ==
  /\ status \in [Orders -> {"none"} \cup Bank!OpenStatuses \cup Bank!Settled]
  /\ post \in [order : Orders \cup {None}, step : {"idle", "asked", "working", "answered"},
               answer : {None} \cup Bank!OpenStatuses \cup Bank!Settled]
  /\ answered \in [Orders -> {None, "lost"} \cup Bank!OpenStatuses \cup Bank!Settled]
  /\ queued \in Orders \cup {None}
  /\ cancel \in {"idle", "asked", "done", "refused", "shown", "failed"}
  /\ receipt \in Orders \cup {None}
  /\ confirming \in BOOLEAN /\ slow \in BOOLEAN /\ error \in BOOLEAN
  /\ poll \in [id : Orders \cup {None}, n : 0 .. Tries, calls : 0 .. MaxCalls, stopped : BOOLEAN]
  /\ confirming <=> poll.id # None
  /\ confirming => poll.id = receipt

\* "A receipt only ever appears for a transfer that has actually gone through"
\* (TransferConfirming.tsx:4-8), with calls that overlap, fail or come back late.
\* The exception is an order that was cancelled or reversed before its POST was
\* answered: onSuccess takes it for a success.
ReceiptEarned ==
  ReceiptShown => \/ status[receipt] = "success"
                  \/ answered[receipt] \in {"reversed", "cancelled"}

\* The card says "cancelled" only of an order that is, and was not sent since.
CancelledIsCancelled ==
  cancel = "shown" => queued # None /\ status[queued] = "cancelled"

\* "Confirming your transfer" does not stay on the page for ever: the bank's answer
\* replaces it or, after the last try, the card that says it is on its way.
ConfirmingEnds == confirming ~> (~confirming \/ slow)

=============================================================================
