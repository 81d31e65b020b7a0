------------------------------- MODULE Billing -------------------------------
(***************************************************************************)
(* Bill orders - airtime, data, electricity, cable, betting -              *)
(* (apps/billing/services.py): the order with its wallet hold, the one     *)
(* purchase call its request makes to the VTU provider, the re-queries     *)
(* (settle_bill_orders from cron, the refresh endpoint) and the delivery   *)
(* webhook that settle it later.                                           *)
(*                                                                         *)
(* execute() and _apply() write under the order's row lock, on the row as  *)
(* it is then; the provider is called without it.                          *)
(***************************************************************************)
EXTENDS FiniteSets

CONSTANTS
  Orders,
  Mishaps     \* which of AllMishaps happen

AllMishaps == {"crash",          \* the request dies between two steps
               "lost_answer",    \* the purchase call ends in a transport error
               "gateway_error"}  \* an accepted purchase is answered with an HTTP error

ASSUME Parameters == Mishaps \subseteq AllMishaps

VARIABLES
  status,     \* BillOrder.status, "none" before the order exists
  provRef,    \* orders with a provider_reference
  journal,    \* ledger entries of the order: "hold", "capture", "release"
  remote,     \* the provider's order of that request_id
  pc,         \* step of the order's own request
  answer      \* what purchase() returned to it

vars == <<status, provRef, journal, remote, pc, answer>>
order == <<status, provRef, journal>>
request == <<pc, answer>>

Final == {"success", "failed", "reversed"}
Settled == {"completed", "refunded"}

Init ==
  /\ status = [o \in Orders |-> "none"]
  /\ provRef = {}
  /\ journal = [o \in Orders |-> {}]
  /\ remote = [o \in Orders |-> "absent"]
  /\ pc = [o \in Orders |-> "start"]
  /\ answer = [o \in Orders |-> "none"]

Post(o, entry) == journal' = [journal EXCEPT ![o] = @ \cup {entry}]
SetStatus(o, st) == status' = [status EXCEPT ![o] = st]

-----------------------------------------------------------------------------
(* The request: create_and_hold, then execute. *)

Create(o) ==
  /\ pc[o] = "start"
  /\ SetStatus(o, "processing")
  /\ Post(o, "hold")
  /\ pc' = [pc EXCEPT ![o] = "send"]
  /\ UNCHANGED <<provRef, remote, answer>>

\* What purchase() returns, and what the provider then has under request_id.
Outcomes ==
  {<<"success", "completed">>, <<"pending", "processing">>,
   <<"failed", "absent">>, <<"failed", "refunded">>}
    \cup (IF "lost_answer" \in Mishaps
            THEN {<<"lost", r>> : r \in {"absent", "processing"}} ELSE {})
    \cup (IF "gateway_error" \in Mishaps THEN {<<"failed", "processing">>} ELSE {})

Send(o, outcome) ==
  /\ pc[o] = "send"
  /\ answer' = [answer EXCEPT ![o] = outcome[1]]
  /\ remote' = [remote EXCEPT ![o] = outcome[2]]
  /\ pc' = [pc EXCEPT ![o] = "record"]
  /\ UNCHANGED <<order>>

\* A mutant: a transport error is taken for a failure and refunded.
RecordRefundsLost(o) ==
  LET a == answer[o]
      open == status[o] \notin Final
  IN  /\ pc[o] = "record"
      /\ IF open /\ a = "success" THEN SetStatus(o, "success") /\ Post(o, "capture")
         ELSE IF open /\ a \in {"failed", "lost"} THEN SetStatus(o, "failed") /\ Post(o, "release")
         ELSE UNCHANGED <<status, journal>>
      /\ provRef' = IF open /\ a \in {"success", "pending"} THEN provRef \cup {o} ELSE provRef
      /\ pc' = [pc EXCEPT ![o] = "done"]
      /\ UNCHANGED <<remote, answer>>

\* A mutant: the answer is recorded without a look at what settled meanwhile.
RecordBlindly(o) ==
  LET a == answer[o]
  IN  /\ pc[o] = "record"
      /\ CASE a = "success" -> SetStatus(o, "success") /\ Post(o, "capture")
           [] a = "failed" -> SetStatus(o, "failed") /\ Post(o, "release")
           [] OTHER -> SetStatus(o, "processing") /\ UNCHANGED journal
      /\ provRef' = IF a \in {"success", "pending"} THEN provRef \cup {o} ELSE provRef
      /\ pc' = [pc EXCEPT ![o] = "done"]
      /\ UNCHANGED <<remote, answer>>

\* A settled order is left as it is; a lost answer keeps the hold.
Record(o) ==
  LET a == answer[o]
      open == status[o] \notin Final
  IN  /\ pc[o] = "record"
      /\ IF open /\ a = "success" THEN SetStatus(o, "success") /\ Post(o, "capture")
         ELSE IF open /\ a = "failed" THEN SetStatus(o, "failed") /\ Post(o, "release")
         ELSE UNCHANGED <<status, journal>>
      /\ provRef' = IF open /\ a \in {"success", "pending"} THEN provRef \cup {o} ELSE provRef
      /\ pc' = [pc EXCEPT ![o] = "done"]
      /\ UNCHANGED <<remote, answer>>

Crash(o) ==
  /\ "crash" \in Mishaps
  /\ pc[o] \in {"send", "record"}
  /\ pc' = [pc EXCEPT ![o] = "done"]
  /\ UNCHANGED <<order, remote, answer>>

-----------------------------------------------------------------------------
(* Settling it later. *)

\* A mutant: the provider's word is stored as the status.
ApplyRaw(o, said) ==
  /\ status[o] \notin {"none"} \cup Final
  /\ \/ said \in Settled /\ SetStatus(o, said)
        /\ Post(o, IF said = "completed" THEN "capture" ELSE "release")
     \/ said \in {"absent", "processing"} /\ UNCHANGED <<status, journal>>

\* A mutant: an order the provider does not know (yet) counts as failed.
ApplyUnknownFails(o, said) ==
  /\ status[o] \notin {"none"} \cup Final
  /\ \/ said = "completed" /\ SetStatus(o, "success") /\ Post(o, "capture")
     \/ said \in {"refunded", "absent"} /\ SetStatus(o, "failed") /\ Post(o, "release")
     \/ said = "processing" /\ UNCHANGED <<status, journal>>

\* _apply with what the provider said, perhaps a while ago; an unknown or
\* undecided order maps to PENDING and changes no status.
Apply(o, said) ==
  /\ status[o] \notin {"none"} \cup Final
  /\ \/ said = "completed" /\ SetStatus(o, "success") /\ Post(o, "capture")
     \/ said = "refunded" /\ SetStatus(o, "failed") /\ Post(o, "release")
     \/ said \in {"absent", "processing"} /\ UNCHANGED <<status, journal>>

\* A mutant: only orders with a provider_reference are re-queried.
PollKnown(o) ==
  /\ o \in provRef
  /\ \E said \in {remote[o], "absent", "processing"} : Apply(o, said)
  /\ UNCHANGED <<provRef, remote, pc, answer>>

\* poll: also keeps the provider's order id, when there is one.
Poll(o) ==
  /\ \E said \in {remote[o], "absent", "processing"} : Apply(o, said)
  /\ provRef' = IF remote[o] # "absent" THEN provRef \cup {o} ELSE provRef
  /\ UNCHANGED <<remote, request>>

Webhook(o) ==
  /\ remote[o] # "absent"
  /\ Apply(o, remote[o])
  /\ UNCHANGED <<provRef, remote, request>>

ProviderSettles(o) ==
  /\ remote[o] = "processing"
  /\ \E r \in Settled : remote' = [remote EXCEPT ![o] = r]
  /\ UNCHANGED <<order, request>>

-----------------------------------------------------------------------------
Step(o) ==
  \/ \E outcome \in Outcomes : Send(o, outcome)
  \/ Record(o)

Next ==
  \E o \in Orders :
    \/ Create(o)
    \/ Step(o)
    \/ Crash(o)
    \/ Poll(o)
    \/ Webhook(o)
    \/ ProviderSettles(o)

Spec == Init /\ [][Next]_vars

\* Requests go on, cron re-queries every order still processing, and the provider
\* decides what it accepted.  Webhooks may all be lost.
Fairness ==
  \A o \in Orders : WF_vars(Step(o)) /\ WF_vars(Poll(o)) /\ WF_vars(ProviderSettles(o))

FairSpec == Spec /\ Fairness

-----------------------------------------------------------------------------
(* Properties. *)

\* Every variable keeps its type.
TypeOK ==
  /\ status \in [Orders -> {"none", "processing"} \cup Final]
  /\ provRef \subseteq Orders
  /\ journal \in [Orders -> SUBSET {"hold", "capture", "release"}]
  /\ remote \in [Orders -> {"absent", "processing"} \cup Settled]
  /\ pc \in [Orders -> {"start", "send", "record", "done"}]
  /\ answer \in [Orders -> {"none", "success", "pending", "failed", "lost"}]

\* The customer's money is where the order's status says, whether the request,
\* the cron job, the open receipt or the webhook settled it first.
StatusMatchesMoney ==
  \A o \in Orders :
    /\ status[o] = "none" => journal[o] = {}
    /\ status[o] = "processing" => journal[o] = {"hold"}
    /\ status[o] = "success" => journal[o] = {"hold", "capture"}
    /\ status[o] \in {"failed", "reversed"} => journal[o] = {"hold", "release"}

\* Nobody is refunded for a bill the provider has delivered or still may.
NoRefundedDelivery ==
  \A o \in Orders :
    "release" \in journal[o] => remote[o] \notin {"processing", "completed"}

\* Purse and delivery of the payout contract, read off an order.
Purse ==
  [o \in Orders |-> IF "release" \in journal[o] THEN "returned"
                    ELSE IF "capture" \in journal[o] THEN "spent"
                    ELSE IF "hold" \in journal[o] THEN "reserved" ELSE "idle"]

Goods == [o \in Orders |-> IF remote[o] = "completed" THEN "delivered" ELSE "none"]

Contract == INSTANCE PayoutContract WITH purse <- Purse, goods <- Goods

\* Bill orders keep the payout contract: a hold is captured only for a delivery
\* and released only when there is none and never will be, although answers get
\* lost, come late or twice, and requests die.
KeepsContract == Contract!Spec

\* An order that reached the provider is settled in the end, even when the request
\* died, the answer was lost and no webhook came (settle_bill_orders is the net).
AcceptedSettles ==
  \A o \in Orders : remote[o] # "absent" ~> status[o] \in Final

=============================================================================
