----------------------------- MODULE Withdrawals -----------------------------
(***************************************************************************)
(* Withdrawals to a bank account (apps/payouts/services.py): the order     *)
(* with its wallet hold, the attempt to send it through a payout provider, *)
(* the queue of orders the provider's balance could not cover, and the     *)
(* webhooks and polling that settle what is in flight.                     *)
(*                                                                         *)
(* Every database write happens in a section that locks the order's row    *)
(* and re-reads it, so a write is one action.  The calls to the provider   *)
(* are made between the sections, with no lock, on the copy of the order   *)
(* the worker read last; a worker is a web request or a queue run.         *)
(*                                                                         *)
(* A transfer is named by the reference it was sent under: 0 is the        *)
(* order's own reference, n > 0 is the n-th fresh one ("-Rn"), and the one *)
(* in use is always `attempts'.  `remote' is the provider's books.         *)
(***************************************************************************)
EXTENDS Integers, FiniteSets

CONSTANTS
  Orders,
  Workers,
  MaxAttempts,  \* bound: rejections after which the provider rejects no more
  Mishaps       \* which of AllMishaps happen

AllMishaps == {"crash",               \* a worker dies between two steps
               "lost_answer",         \* a call ends in a transport error
               "resent_post",         \* the HTTP client repeats a POST that was received
               "recorded_rejection",  \* a rejected transfer is kept, and reported, as failed
               "odd_event"}           \* a webhook with a status that is not final

ASSUME Parameters ==
  /\ MaxAttempts \in Nat
  /\ Mishaps \subseteq AllMishaps
  /\ IsFiniteSet(Orders)
  /\ "none" \notin Orders

VARIABLES
  status,       \* WithdrawalOrder.status, "none" before the order exists
  attempts,     \* WithdrawalOrder.attempts; names transfer_reference
  provRef,      \* the transfer provider_reference points at, -1 when empty
  queuedAt,     \* place in the order of queued_at, 0 when null
  lastError,    \* kind of the last operator-side rejection kept on the order
  overdue,      \* orders queued for longer than WITHDRAWAL_QUEUE_MAX_HOURS
  journal,      \* ledger entries of the order: "hold", "capture", "release"
  remote,       \* what the provider made of each reference
  pc, job, ref, answer, todo  \* each worker: step, order, reference, answer, ids left

vars == <<status, attempts, provRef, queuedAt, lastError, overdue, journal, remote,
          pc, job, ref, answer, todo>>
order == <<status, attempts, provRef, queuedAt, lastError, journal>>
worker == <<pc, job, ref, answer, todo>>

References == 0 .. MaxAttempts
Final == {"success", "failed", "reversed", "cancelled"}

TransferStates == {"absent", "pending", "paid", "failed", "reversed"}

-----------------------------------------------------------------------------
Init ==
  /\ status = [o \in Orders |-> "none"]
  /\ attempts = [o \in Orders |-> 0]
  /\ provRef = [o \in Orders |-> -1]
  /\ queuedAt = [o \in Orders |-> 0]
  /\ lastError = [o \in Orders |-> "none"]
  /\ overdue = {}
  /\ journal = [o \in Orders |-> {}]
  /\ remote = [o \in Orders |-> [n \in References |-> "absent"]]
  /\ pc = [w \in Workers |-> "idle"]
  /\ job = [w \in Workers |-> "none"]
  /\ ref = [w \in Workers |-> 0]
  /\ answer = [w \in Workers |-> "none"]
  /\ todo = [w \in Workers |-> {}]

Queued == {o \in Orders : status[o] = "queued"}

\* _capture and _release: the wallet service posts each entry once.
Capture(o) == journal' = [journal EXCEPT ![o] = @ \cup {"capture"}]
Release(o) == journal' = [journal EXCEPT ![o] = @ \cup {"release"}]

SetStatus(o, st) == status' = [status EXCEPT ![o] = st]

DropOrder(w) ==
  /\ job' = [job EXCEPT ![w] = "none"]
  /\ ref' = [ref EXCEPT ![w] = 0]
  /\ answer' = [answer EXCEPT ![w] = "none"]

\* A mutant: the run goes on after its last id.
EndJobScans(w) ==
  /\ pc' = [pc EXCEPT ![w] = "scan"]
  /\ DropOrder(w)
  /\ UNCHANGED todo

\* The worker is done with its order: on to the next id of its queue run, if any.
EndJob(w) ==
  /\ pc' = [pc EXCEPT ![w] = IF todo[w] = {} THEN "idle" ELSE "scan"]
  /\ DropOrder(w)
  /\ UNCHANGED todo

\* ... unless the provider refuses transfers outright: the rest would fail too.
BreakRun(w) ==
  /\ pc' = [pc EXCEPT ![w] = "idle"]
  /\ todo' = [todo EXCEPT ![w] = {}]
  /\ DropOrder(w)

\* queued_at is kept from the first time.
QueuePlace(o) ==
  queuedAt' = [queuedAt EXCEPT ![o] =
                 IF @ # 0 THEN @ ELSE 1 + Cardinality({p \in Orders : queuedAt[p] # 0})]

-----------------------------------------------------------------------------
(* A withdrawal request. *)

\* create_and_hold: order, hold and status in one transaction.
Create(w, o) ==
  /\ pc[w] = "idle"
  /\ status[o] = "none"
  /\ SetStatus(o, "processing")
  /\ journal' = [journal EXCEPT ![o] = {"hold"}]
  /\ pc' = [pc EXCEPT ![w] = "placed"]
  /\ job' = [job EXCEPT ![w] = o]
  /\ UNCHANGED <<attempts, provRef, queuedAt, lastError, overdue, remote, ref, answer, todo>>

\* withdraw: while others wait, join the queue, and then run it.
JoinQueue(w) ==
  LET o == job[w]
  IN  /\ pc[w] = "placed"
      /\ Queued # {}
      /\ IF status[o] \in Final THEN UNCHANGED <<status, queuedAt>>
         ELSE SetStatus(o, "queued") /\ QueuePlace(o)
      /\ pc' = [pc EXCEPT ![w] = "joined"]
      /\ job' = [job EXCEPT ![w] = "none"]
      /\ UNCHANGED <<attempts, provRef, lastError, overdue, journal, remote, ref, answer, todo>>

\* withdraw: nobody waits, so send it now.
SendNow(w) ==
  /\ pc[w] = "placed"
  /\ Queued = {}
  /\ pc' = [pc EXCEPT ![w] = "send"]
  /\ ref' = [ref EXCEPT ![w] = 0]
  /\ UNCHANGED <<order, overdue, remote, job, answer, todo>>

-----------------------------------------------------------------------------
(* A queue run: cron, staff ("retry now" on chosen orders) or JoinQueue. *)

Snapshot(w, ids) ==
  /\ pc[w] \in {"idle", "joined"}
  /\ ids \subseteq Queued
  /\ pc' = [pc EXCEPT ![w] = IF ids = {} THEN "idle" ELSE "scan"]
  /\ todo' = [todo EXCEPT ![w] = ids]
  /\ UNCHANGED <<order, overdue, remote, job, ref, answer>>

Oldest(ids) == {o \in ids : \A p \in ids : queuedAt[o] <= queuedAt[p]}

\* The next id: skipped when no longer queued, refunded when overdue, else claimed.
Claim(w, o) ==
  LET rest == todo[w] \ {o}
      taken == status[o] # "queued"
      skip == taken \/ o \in overdue
  IN  /\ pc[w] = "scan"
      /\ o \in Oldest(todo[w])
      /\ todo' = [todo EXCEPT ![w] = rest]
      /\ IF taken THEN UNCHANGED <<status, journal>>
         ELSE IF o \in overdue THEN SetStatus(o, "cancelled") /\ Release(o)
         ELSE SetStatus(o, "processing") /\ UNCHANGED journal
      /\ pc' = [pc EXCEPT ![w] = IF ~skip THEN "send" ELSE IF rest = {} THEN "idle" ELSE "scan"]
      /\ job' = [job EXCEPT ![w] = IF skip THEN "none" ELSE o]
      /\ ref' = [ref EXCEPT ![w] = IF skip THEN @ ELSE attempts[o]]
      /\ UNCHANGED <<attempts, provRef, queuedAt, lastError, overdue, remote, answer>>

-----------------------------------------------------------------------------
(* execute: one attempt to send an order. *)

\* The provider's balance does not cover the order: back to the queue, no attempt.
LowBalance(w) ==
  LET o == job[w]
  IN  /\ pc[w] = "send"
      /\ IF status[o] \in Final
           THEN UNCHANGED <<status, queuedAt>> /\ EndJob(w)
           ELSE /\ SetStatus(o, "queued")
                /\ QueuePlace(o)
                /\ IF lastError[o] = "blocked" THEN BreakRun(w) ELSE EndJob(w)
      /\ UNCHANGED <<attempts, provRef, lastError, overdue, journal, remote>>

\* What initiate_transfer tells us, and what the provider then has under a new
\* reference.  "short" and "blocked" are operator-side rejections (empty
\* balance; transfers off), "refused" is one about the customer's account.
Outcomes ==
  {<<"pending", "pending">>, <<"paid", "paid">>}
    \cup {<<a, "absent">> : a \in {"refused", "short", "blocked"}}
    \cup (IF "lost_answer" \in Mishaps THEN {<<"lost", "absent">>, <<"lost", "pending">>} ELSE {})
    \cup (IF "resent_post" \in Mishaps THEN {<<"refused", "pending">>} ELSE {})
    \cup (IF "recorded_rejection" \in Mishaps
            THEN {<<a, "failed">> : a \in {"refused", "short"}} ELSE {})

Send(w, outcome) ==
  LET o == job[w]
      n == ref[w]
  IN  /\ pc[w] = "send"
      /\ outcome[1] \in {"short", "blocked"} => n < MaxAttempts
      /\ IF remote[o][n] = "absent"
           THEN /\ remote' = [remote EXCEPT ![o][n] = outcome[2]]
                /\ answer' = [answer EXCEPT ![w] = outcome[1]]
           ELSE \* a duplicate reference is refused
                /\ answer' = [answer EXCEPT ![w] = "refused"]
                /\ UNCHANGED remote
      /\ pc' = [pc EXCEPT ![w] = "record"]
      /\ UNCHANGED <<order, overdue, job, ref, todo>>

\* A mutant: a transport error counts as not sent, and the order is retried.
RecordedStatusRetriesLost(a) ==
  IF a = "paid" THEN "success"
  ELSE IF a = "refused" THEN "failed"
  ELSE IF a \in {"short", "blocked", "lost"} THEN "queued" ELSE "processing"

\* A lost answer keeps the hold and the order in flight.
RecordedStatus(a) ==
  IF a = "paid" THEN "success"
  ELSE IF a = "refused" THEN "failed"
  ELSE IF a \in {"short", "blocked"} THEN "queued" ELSE "processing"

\* A mutant: the provider's reference is kept for a rejected attempt too.
RecordedProvRefAlways(a, n, old) == IF a = "lost" THEN old ELSE n

\* _queue does not save the provider_reference; a refused transfer has none, or
\* one that is never asked about.
RecordedProvRef(a, n, old) ==
  IF a \in {"pending", "paid"} THEN n ELSE IF a = "refused" THEN -1 ELSE old

\* The section after the call, on the row as it is now.
Record(w) ==
  LET o == job[w]
      a == answer[w]
      rejected == a \in {"short", "blocked"}
  IN  /\ pc[w] = "record"
      /\ IF status[o] \in Final THEN UNCHANGED order /\ EndJob(w)
         ELSE /\ SetStatus(o, RecordedStatus(a))
              /\ IF a = "paid" THEN Capture(o)
                 ELSE IF a = "refused" THEN Release(o) ELSE UNCHANGED journal
              /\ provRef' = [provRef EXCEPT ![o] = RecordedProvRef(a, ref[w], @)]
              /\ IF rejected
                   THEN /\ QueuePlace(o)
                        /\ attempts' = [attempts EXCEPT ![o] = @ + 1]
                        /\ lastError' = [lastError EXCEPT ![o] = a]
                   ELSE UNCHANGED <<queuedAt, attempts, lastError>>
              /\ IF a = "blocked" THEN BreakRun(w) ELSE EndJob(w)
      /\ UNCHANGED <<overdue, remote>>

-----------------------------------------------------------------------------
(* Settlement by the customer, staff, webhooks and polling. *)

\* A mutant: an order in flight can be cancelled too.
CancelInFlight(o) ==
  /\ status[o] \in {"queued", "processing"}
  /\ Release(o)
  /\ SetStatus(o, "cancelled")
  /\ UNCHANGED <<attempts, provRef, queuedAt, lastError, overdue, remote, worker>>

Cancel(o) ==
  /\ status[o] = "queued"
  /\ Release(o)
  /\ SetStatus(o, "cancelled")
  /\ UNCHANGED <<attempts, provRef, queuedAt, lastError, overdue, remote, worker>>

\* A mutant: apply_transfer_status without its early return for settled orders.
ApplyAgain(o, st) ==
  /\ status[o] # "none"
  /\ \/ st = "success" /\ Capture(o) /\ SetStatus(o, "success")
     \/ st \in {"failed", "reversed"} /\ Release(o) /\ SetStatus(o, st)
     \/ st = "other" /\ SetStatus(o, "processing") /\ UNCHANGED journal
  /\ UNCHANGED <<attempts, provRef, queuedAt, lastError, overdue, remote, worker>>

\* apply_transfer_status, under the row lock.
Apply(o, st) ==
  /\ status[o] \notin {"none"} \cup Final
  /\ \/ st = "success" /\ Capture(o) /\ SetStatus(o, "success")
     \/ st \in {"failed", "reversed"} /\ Release(o) /\ SetStatus(o, st)
     \/ st = "other" /\ SetStatus(o, "processing") /\ UNCHANGED journal
  /\ UNCHANGED <<attempts, provRef, queuedAt, lastError, overdue, remote, worker>>

\* What the provider may report of a transfer, late or more than once.
Reports(o, n) ==
  (IF remote[o][n] \in {"paid", "reversed"} THEN {"success"} ELSE {})
    \cup (IF remote[o][n] \in {"failed", "reversed"} THEN {remote[o][n]} ELSE {})
    \cup (IF "odd_event" \in Mishaps /\ remote[o][n] # "absent" THEN {"other"} ELSE {})

\* A transfer event finds its order by the order's own reference, always, or by
\* the reference now in use.
Webhook(o, n) ==
  /\ n \in {0, attempts[o]}
  /\ \E st \in Reports(o, n) : Apply(o, st)

\* A mutant: only retried orders are polled.
SyncRetries(o) ==
  /\ status[o] = "processing"
  /\ provRef[o] > 0
  /\ \E st \in Reports(o, provRef[o]) : st # "other" /\ Apply(o, st)

\* sync_processing (cron) and refresh (an open receipt) ask for provider_reference.
Sync(o) ==
  /\ status[o] = "processing"
  /\ provRef[o] # -1
  /\ \E st \in Reports(o, provRef[o]) : st # "other" /\ Apply(o, st)

-----------------------------------------------------------------------------
(* The provider, time, and the worker process. *)

ProviderSettles(o, n) ==
  /\ remote[o][n] = "pending"
  /\ \E st \in {"paid", "failed"} : remote' = [remote EXCEPT ![o][n] = st]
  /\ UNCHANGED <<order, overdue, worker>>

BankReverses(o, n) ==
  /\ remote[o][n] = "paid"
  /\ remote' = [remote EXCEPT ![o][n] = "reversed"]
  /\ UNCHANGED <<order, overdue, worker>>

Age(o) ==
  /\ queuedAt[o] # 0
  /\ o \notin overdue
  /\ overdue' = overdue \cup {o}
  /\ UNCHANGED <<order, remote, worker>>

Crash(w) ==
  /\ "crash" \in Mishaps
  /\ pc[w] # "idle"
  /\ BreakRun(w)
  /\ UNCHANGED <<order, overdue, remote>>

-----------------------------------------------------------------------------
CronRun(w) == pc[w] = "idle" /\ Queued # {} /\ Snapshot(w, Queued)

\* A started request or run goes on.
Step(w) ==
  \/ JoinQueue(w)
  \/ SendNow(w)
  \/ pc[w] = "joined" /\ Snapshot(w, Queued)
  \/ \E o \in todo[w] : Claim(w, o)
  \/ LowBalance(w)
  \/ \E outcome \in Outcomes : Send(w, outcome)
  \/ Record(w)

Next ==
  \/ \E w \in Workers :
       \/ \E o \in Orders : Create(w, o)
       \/ \E o \in Queued : pc[w] = "idle" /\ Snapshot(w, {o})
       \/ CronRun(w)
       \/ Step(w)
       \/ Crash(w)
  \/ \E o \in Orders :
       \/ Cancel(o)
       \/ Sync(o)
       \/ Age(o)
       \/ \E n \in References : Webhook(o, n) \/ ProviderSettles(o, n) \/ BankReverses(o, n)

Spec == Init /\ [][Next]_vars

\* Started work goes on, the scheduler keeps calling the queue and the polling,
\* hours pass, and the provider decides every transfer it accepted.
Fairness ==
  /\ \A w \in Workers : WF_vars(Step(w)) /\ SF_vars(CronRun(w))
  /\ \A o \in Orders : /\ WF_vars(Age(o))
                       /\ WF_vars(Sync(o))
                       /\ \A n \in References : WF_vars(ProviderSettles(o, n))

FairSpec == Spec /\ Fairness

\* The same, and the provider also delivers every event it has to report.
FairEventsSpec ==
  FairSpec /\ \A o \in Orders, n \in References : WF_vars(Webhook(o, n))

-----------------------------------------------------------------------------
(* Properties. *)

\* Every variable keeps its type; a busy worker has an order.
TypeOK ==
  /\ status \in [Orders -> {"none", "processing", "queued"} \cup Final]
  /\ attempts \in [Orders -> References]
  /\ provRef \in [Orders -> References \cup {-1}]
  /\ queuedAt \in [Orders -> Nat]
  /\ lastError \in [Orders -> {"none", "short", "blocked"}]
  /\ overdue \subseteq Orders
  /\ journal \in [Orders -> SUBSET {"hold", "capture", "release"}]
  /\ remote \in [Orders -> [References -> TransferStates]]
  /\ pc \in [Workers -> {"idle", "placed", "joined", "scan", "send", "record"}]
  /\ job \in [Workers -> Orders \cup {"none"}]
  /\ ref \in [Workers -> References]
  /\ answer \in [Workers -> {"none", "pending", "paid", "refused", "short", "blocked", "lost"}]
  /\ todo \in [Workers -> SUBSET Orders]
  /\ \A w \in Workers : /\ pc[w] \in {"placed", "send", "record"} => job[w] # "none"
                        /\ pc[w] = "scan" => todo[w] # {}

\* The customer's money is where the status says: still held while the order is
\* processing or queued, captured when it succeeded, back in the wallet otherwise,
\* and never both, whichever of the settling paths got there first.
StatusMatchesMoney ==
  \A o \in Orders :
    /\ status[o] = "none" => journal[o] = {}
    /\ status[o] \in {"processing", "queued"} => journal[o] = {"hold"}
    /\ status[o] = "success" => journal[o] = {"hold", "capture"}
    /\ status[o] \in {"failed", "reversed", "cancelled"} => journal[o] = {"hold", "release"}

\* No refunded withdrawal has a transfer the bank has paid or may yet pay.
NoRefundedPayout ==
  \A o \in Orders : "release" \in journal[o] =>
    \A n \in References : remote[o][n] \notin {"pending", "paid"}

\* A worker about to call the provider uses a reference the provider has never
\* accepted, on an order still being processed for it alone: retries, queue runs
\* and requests that overlap never send a withdrawal twice.
SendsOnce ==
  \A w \in Workers : pc[w] = "send" =>
    /\ \A n \in References : remote[job[w]][n] \in {"absent", "failed"}
    /\ remote[job[w]][ref[w]] = "absent"
    /\ \A v \in Workers : v # w /\ pc[v] \in {"send", "record"} => job[v] # job[w]

\* What the polling asks about is the transfer now in use, so its answer is
\* never that of an earlier, rejected attempt.
PollsCurrent == \A o \in Orders : provRef[o] \in {-1, attempts[o]}

\* Purse and delivery of the payout contract, read off an order.
Purse ==
  [o \in Orders |-> IF "release" \in journal[o] THEN "returned"
                    ELSE IF "capture" \in journal[o] THEN "spent"
                    ELSE IF "hold" \in journal[o] THEN "reserved" ELSE "idle"]

Goods ==
  [o \in Orders |-> IF \E n \in References : remote[o][n] = "paid" THEN "delivered"
                    ELSE IF \E n \in References : remote[o][n] = "reversed" THEN "undone"
                    ELSE "none"]

Contract == INSTANCE PayoutContract WITH purse <- Purse, goods <- Goods

\* Withdrawals keep the payout contract: at most one bank payment per hold, spent
\* only on one that was made, returned only when there is none and never will be.
KeepsContract == Contract!Spec

Clients == INSTANCE OrderStatus

\* The clients read the status of an order again and again, and rely on its order: a
\* settled order stays as it is, and only a queued one is cancelled, whatever a late
\* webhook, a queue run or the section after a call writes over an older reading.
KeepsStatusOrder == Clients!Spec

\* A queued order is retried automatically until it is paid or refunded: the
\* comment on the queue columns (models.py:70-71) promises the retry.
QueuedSettles == \A o \in Orders : status[o] = "queued" ~> status[o] \in Final

\* Every withdrawal is finally paid or refunded; the queue refunds by itself what
\* it could not send in time.
AllSettle == \A o \in Orders : status[o] # "none" ~> status[o] \in Final

=============================================================================
