---------------------------- MODULE BillingProofs ----------------------------
(***************************************************************************)
(* Invariance and refinement proofs for Billing.  What a request, cron or  *)
(* the webhook reports of an order is either undecided or what the         *)
(* provider's own record already says for good (AnswerIsTrue), so a hold   *)
(* is captured only for a delivery and released only when there is none.   *)
(* This needs a provider that keeps no order whose purchase it answered    *)
(* with a failure: the assumption that no gateway error happens.           *)
(***************************************************************************)
EXTENDS Billing, TLAPS

\* The provider knows nothing of an order before its request has called it, and
\* until then nothing can settle the order.
CalledLater ==
  \A o \in Orders :
    /\ pc[o] = "start" <=> status[o] = "none"
    /\ pc[o] \in {"start", "send"} => remote[o] = "absent"
    /\ pc[o] = "send" => status[o] = "processing"

\* An answer not yet recorded says nothing, or what the provider's record says.
AnswerIsTrue ==
  \A o \in Orders : pc[o] = "record" =>
    /\ answer[o] = "success" => remote[o] = "completed"
    /\ answer[o] = "failed" => remote[o] \in {"absent", "refunded"}

\* A settled order has the status the provider settled it with.
StatusIsTrue ==
  \A o \in Orders :
    /\ status[o] = "success" => remote[o] = "completed"
    /\ status[o] \in {"failed", "reversed"} => remote[o] \in {"absent", "refunded"}

IInv == TypeOK /\ StatusMatchesMoney /\ CalledLater /\ AnswerIsTrue /\ StatusIsTrue

Reliable == "gateway_error" \notin Mishaps

-----------------------------------------------------------------------------
(* Type correctness. *)

\* What a purchase can answer and leave at the provider.
LEMMA OutcomeData ==
  ASSUME NEW outcome \in Outcomes
  PROVE  /\ outcome[1] \in {"success", "pending", "failed", "lost"}
         /\ outcome[2] \in {"absent", "processing"} \cup Settled
         /\ outcome[1] = "success" => outcome[2] = "completed"
         /\ Reliable /\ outcome[1] = "failed" => outcome[2] \in {"absent", "refunded"}
<1>1. \/ outcome \in {<<"success", "completed">>, <<"pending", "processing">>,
                      <<"failed", "absent">>, <<"failed", "refunded">>}
      \/ outcome \in {<<"lost", r>> : r \in {"absent", "processing"}}
      \/ ~Reliable /\ outcome = <<"failed", "processing">>
  BY DEF Outcomes, Reliable
<1>2. QED BY <1>1 DEF Settled

LEMMA InitIInv == Init => IInv
  BY DEF Init, IInv, TypeOK, StatusMatchesMoney, CalledLater, AnswerIsTrue, StatusIsTrue,
         Final, Settled

\* One order is settled, or left alone, on what the provider said of it.
LEMMA ApplyType ==
  ASSUME TypeOK, NEW o \in Orders, NEW said, Apply(o, said)
  PROVE  /\ status' \in [Orders -> {"none", "processing"} \cup Final]
         /\ journal' \in [Orders -> SUBSET {"hold", "capture", "release"}]
<1>1. CASE UNCHANGED <<status, journal>>
  BY <1>1 DEF TypeOK
<1>2. CASE SetStatus(o, "success") /\ Post(o, "capture")
  BY <1>2 DEF TypeOK, SetStatus, Post, Final
<1>3. CASE SetStatus(o, "failed") /\ Post(o, "release")
  BY <1>3 DEF TypeOK, SetStatus, Post, Final
<1>4. QED BY <1>1, <1>2, <1>3 DEF Apply

LEMMA NextTypeOK == TypeOK /\ [Next]_vars => TypeOK'
<1> SUFFICES ASSUME TypeOK, [Next]_vars PROVE TypeOK'
  OBVIOUS
<1>1. ASSUME NEW o \in Orders, Create(o) PROVE TypeOK'
  BY <1>1 DEF Create, TypeOK, SetStatus, Post
<1>2. ASSUME NEW o \in Orders, NEW outcome \in Outcomes, Send(o, outcome) PROVE TypeOK'
  BY <1>2, OutcomeData DEF Send, TypeOK, order
<1>3. ASSUME NEW o \in Orders, Record(o) PROVE TypeOK'
  <2>1. CASE UNCHANGED <<status, journal>>
    BY <1>3, <2>1 DEF Record, TypeOK
  <2>2. CASE SetStatus(o, "success") /\ Post(o, "capture")
    BY <1>3, <2>2 DEF Record, TypeOK, SetStatus, Post, Final
  <2>3. CASE SetStatus(o, "failed") /\ Post(o, "release")
    BY <1>3, <2>3 DEF Record, TypeOK, SetStatus, Post, Final
  <2>4. QED BY <1>3, <2>1, <2>2, <2>3 DEF Record
<1>4. ASSUME NEW o \in Orders, Crash(o) PROVE TypeOK'
  BY <1>4 DEF Crash, TypeOK, order
<1>5. ASSUME NEW o \in Orders, Poll(o) PROVE TypeOK'
  <2>1. PICK said : Apply(o, said)
    BY <1>5 DEF Poll
  <2>2. QED BY <1>5, <2>1, ApplyType DEF Poll, TypeOK, request
<1>6. ASSUME NEW o \in Orders, Webhook(o) PROVE TypeOK'
  BY <1>6, ApplyType DEF Webhook, TypeOK, request
<1>7. ASSUME NEW o \in Orders, ProviderSettles(o) PROVE TypeOK'
  BY <1>7 DEF ProviderSettles, TypeOK, order, request
<1>8. CASE UNCHANGED vars
  BY <1>8 DEF vars, TypeOK
<1>9. QED
  BY <1>1, <1>2, <1>3, <1>4, <1>5, <1>6, <1>7, <1>8 DEF Next, Step

\* Every reachable state is well typed, whatever goes wrong.
THEOREM TypeCorrect == Spec => []TypeOK
<1>1. Init => TypeOK
  BY InitIInv DEF IInv
<1>2. QED BY <1>1, NextTypeOK, PTL DEF Spec

-----------------------------------------------------------------------------
(* The inductive invariant. *)

\* Settling an order on what the provider's record says, or on nothing yet, keeps
\* the money and the status true.
LEMMA ApplyKeeps ==
  ASSUME IInv, NEW o \in Orders, NEW said, said \in {remote[o], "absent", "processing"},
         Apply(o, said), UNCHANGED <<remote, pc, answer>>
  PROVE  StatusMatchesMoney' /\ CalledLater' /\ AnswerIsTrue' /\ StatusIsTrue'
<1>1. status[o] = "processing" /\ journal[o] = {"hold"}
  BY DEF Apply, IInv, TypeOK, StatusMatchesMoney, Final
<1>2. CASE UNCHANGED <<status, journal>>
  BY <1>2 DEF IInv, StatusMatchesMoney, CalledLater, AnswerIsTrue, StatusIsTrue
<1>3. CASE said = "completed" /\ SetStatus(o, "success") /\ Post(o, "capture")
  <2>1. remote[o] = "completed" /\ pc[o] \notin {"start", "send"}
    BY <1>3 DEF IInv, CalledLater
  <2>2. status' = [status EXCEPT ![o] = "success"]
    BY <1>3 DEF SetStatus
  <2>3. journal' = [journal EXCEPT ![o] = {"hold", "capture"}]
    BY <1>1, <1>3 DEF Post, IInv, TypeOK
  <2>4. StatusMatchesMoney'
    BY <2>2, <2>3 DEF IInv, TypeOK, StatusMatchesMoney
  <2>5. QED
    BY <2>1, <2>2, <2>4, <1>1 DEF IInv, TypeOK, CalledLater, AnswerIsTrue, StatusIsTrue
<1>4. CASE said = "refunded" /\ SetStatus(o, "failed") /\ Post(o, "release")
  <2>1. remote[o] = "refunded" /\ pc[o] \notin {"start", "send"}
    BY <1>4 DEF IInv, CalledLater
  <2>2. status' = [status EXCEPT ![o] = "failed"]
    BY <1>4 DEF SetStatus
  <2>3. journal' = [journal EXCEPT ![o] = {"hold", "release"}]
    BY <1>1, <1>4 DEF Post, IInv, TypeOK
  <2>4. StatusMatchesMoney'
    BY <2>2, <2>3 DEF IInv, TypeOK, StatusMatchesMoney
  <2>5. QED
    BY <2>1, <2>2, <2>4, <1>1 DEF IInv, TypeOK, CalledLater, AnswerIsTrue, StatusIsTrue
<1>5. QED BY <1>2, <1>3, <1>4 DEF Apply

\* So does recording the request's own answer.
LEMMA RecordKeeps ==
  ASSUME IInv, NEW o \in Orders, Record(o)
  PROVE  StatusMatchesMoney' /\ CalledLater' /\ AnswerIsTrue' /\ StatusIsTrue'
<1>1. pc[o] = "record" /\ pc' = [pc EXCEPT ![o] = "done"] /\ UNCHANGED <<remote, answer>>
  BY DEF Record
<1>2. CASE UNCHANGED <<status, journal>>
  BY <1>1, <1>2 DEF IInv, TypeOK, StatusMatchesMoney, CalledLater, AnswerIsTrue, StatusIsTrue
<1>3. ASSUME status[o] \notin Final
      PROVE  status[o] = "processing" /\ journal[o] = {"hold"}
  BY <1>1, <1>3 DEF IInv, TypeOK, CalledLater, StatusMatchesMoney
<1>4. CASE /\ status[o] \notin Final /\ answer[o] = "success"
           /\ SetStatus(o, "success") /\ Post(o, "capture")
  <2>1. status' = [status EXCEPT ![o] = "success"] /\ remote[o] = "completed"
    BY <1>1, <1>4 DEF SetStatus, IInv, AnswerIsTrue
  <2>2. journal' = [journal EXCEPT ![o] = {"hold", "capture"}]
    BY <1>3, <1>4 DEF Post, IInv, TypeOK
  <2>3. StatusMatchesMoney'
    BY <2>1, <2>2 DEF IInv, TypeOK, StatusMatchesMoney
  <2>4. QED
    BY <1>1, <1>3, <1>4, <2>1, <2>3 DEF IInv, TypeOK, CalledLater, AnswerIsTrue, StatusIsTrue
<1>5. CASE /\ status[o] \notin Final /\ answer[o] = "failed"
           /\ SetStatus(o, "failed") /\ Post(o, "release")
  <2>1. status' = [status EXCEPT ![o] = "failed"] /\ remote[o] \in {"absent", "refunded"}
    BY <1>1, <1>5 DEF SetStatus, IInv, AnswerIsTrue
  <2>2. journal' = [journal EXCEPT ![o] = {"hold", "release"}]
    BY <1>3, <1>5 DEF Post, IInv, TypeOK
  <2>3. StatusMatchesMoney'
    BY <2>1, <2>2 DEF IInv, TypeOK, StatusMatchesMoney
  <2>4. QED
    BY <1>1, <1>3, <1>5, <2>1, <2>3 DEF IInv, TypeOK, CalledLater, AnswerIsTrue, StatusIsTrue
<1>6. QED BY <1>2, <1>4, <1>5 DEF Record

LEMMA NextIInv ==
  ASSUME Reliable, IInv, [Next]_vars
  PROVE  IInv'
<1>1. TypeOK'
  BY NextTypeOK DEF IInv
<1> DEFINE Kept == StatusMatchesMoney' /\ CalledLater' /\ AnswerIsTrue' /\ StatusIsTrue'
<1>2. ASSUME NEW o \in Orders, Create(o) PROVE Kept
  <2>1. status[o] = "none" /\ journal[o] = {} /\ remote[o] = "absent"
    BY <1>2 DEF Create, IInv, CalledLater, StatusMatchesMoney
  <2>2. /\ status' = [status EXCEPT ![o] = "processing"]
        /\ journal' = [journal EXCEPT ![o] = {"hold"}]
        /\ pc' = [pc EXCEPT ![o] = "send"]
        /\ UNCHANGED <<remote, answer>>
    BY <1>2, <2>1 DEF Create, SetStatus, Post, IInv, TypeOK
  <2>3. StatusMatchesMoney'
    BY <2>2 DEF IInv, TypeOK, StatusMatchesMoney
  <2>4. QED
    BY <2>1, <2>2, <2>3 DEF IInv, TypeOK, CalledLater, AnswerIsTrue, StatusIsTrue
<1>3. ASSUME NEW o \in Orders, NEW outcome \in Outcomes, Send(o, outcome) PROVE Kept
  <2>1. /\ pc[o] = "send" /\ status[o] = "processing"
        /\ answer' = [answer EXCEPT ![o] = outcome[1]]
        /\ remote' = [remote EXCEPT ![o] = outcome[2]]
        /\ pc' = [pc EXCEPT ![o] = "record"]
        /\ UNCHANGED <<status, journal>>
    BY <1>3 DEF Send, order, IInv, CalledLater
  <2>2. StatusMatchesMoney'
    BY <2>1 DEF IInv, StatusMatchesMoney
  <2>3. CalledLater' /\ StatusIsTrue'
    BY <2>1 DEF IInv, TypeOK, CalledLater, StatusIsTrue
  <2>4. AnswerIsTrue'
    BY <2>1, OutcomeData DEF IInv, TypeOK, AnswerIsTrue
  <2>5. QED BY <2>2, <2>3, <2>4
<1>4. ASSUME NEW o \in Orders, Record(o) PROVE Kept
  BY <1>4, RecordKeeps
<1>5. ASSUME NEW o \in Orders, Crash(o) PROVE Kept
  BY <1>5 DEF Crash, order, IInv, TypeOK, StatusMatchesMoney, CalledLater, AnswerIsTrue, StatusIsTrue
<1>6. ASSUME NEW o \in Orders, Poll(o) PROVE Kept
  BY <1>6, ApplyKeeps DEF Poll, request
<1>7. ASSUME NEW o \in Orders, Webhook(o) PROVE Kept
  BY <1>7, ApplyKeeps DEF Webhook, request
<1>8. ASSUME NEW o \in Orders, ProviderSettles(o) PROVE Kept
  <2>1. PICK r \in Settled : remote' = [remote EXCEPT ![o] = r]
    BY <1>8 DEF ProviderSettles
  <2>2. remote[o] = "processing" /\ UNCHANGED <<status, journal, pc, answer>>
    BY <1>8 DEF ProviderSettles, order, request
  <2>3. QED
    BY <2>1, <2>2 DEF IInv, TypeOK, StatusMatchesMoney, CalledLater, AnswerIsTrue, StatusIsTrue
<1>9. ASSUME UNCHANGED vars PROVE Kept
  BY <1>9 DEF vars, IInv, StatusMatchesMoney, CalledLater, AnswerIsTrue, StatusIsTrue
<1> HIDE DEF Kept
<1>10. Kept
  BY <1>2, <1>3, <1>4, <1>5, <1>6, <1>7, <1>8, <1>9 DEF Next, Step
<1>11. QED BY <1>1, <1>10 DEF IInv, Kept

\* IInv holds in every reachable state.
LEMMA Invariance == Reliable => (Spec => []IInv)
<1> SUFFICES ASSUME Reliable PROVE Spec => []IInv
  OBVIOUS
<1>1. Init => IInv
  BY InitIInv
<1>2. IInv /\ [Next]_vars => IInv'
  BY NextIInv
<1>3. QED BY <1>1, <1>2, PTL DEF Spec

\* The customer's money is always where the order's status says, for any number
\* of orders, lost answers, dead requests and late or repeated reports.
THEOREM MoneyMatchesStatus ==
  ASSUME Reliable
  PROVE  Spec => []StatusMatchesMoney
<1>1. IInv => StatusMatchesMoney
  BY DEF IInv
<1>2. QED BY <1>1, Invariance, PTL

\* Nobody is ever refunded for a bill that was or may yet be delivered.
THEOREM NoRefundOfDelivered ==
  ASSUME Reliable
  PROVE  Spec => []NoRefundedDelivery
<1>1. IInv => NoRefundedDelivery
  <2> SUFFICES ASSUME IInv, NEW o \in Orders, "release" \in journal[o]
               PROVE  remote[o] \notin {"processing", "completed"}
    BY DEF NoRefundedDelivery
  <2>1. status[o] \in {"failed", "reversed"}
    BY DEF IInv, TypeOK, StatusMatchesMoney, Final
  <2>2. QED BY <2>1 DEF IInv, StatusIsTrue
<1>2. QED BY <1>1, Invariance, PTL

-----------------------------------------------------------------------------
(* Refinement: each step of an order is one step of its payout contract, or none. *)

\* Purses and goods change only with the entries and the provider's records.
LEMMA NothingSeen ==
  /\ UNCHANGED <<journal, remote>> => UNCHANGED Contract!vars
  /\ UNCHANGED journal => UNCHANGED Purse
  /\ UNCHANGED remote => UNCHANGED Goods
  BY DEF Contract!vars, Purse, Goods

\* Capturing the hold of a delivered order spends it.
LEMMA CaptureSpends ==
  ASSUME IInv, IInv', NEW o \in Orders, journal[o] = {"hold"}, remote[o] = "completed",
         journal' = [journal EXCEPT ![o] = {"hold", "capture"}], UNCHANGED remote
  PROVE  Contract!Spend(o)
<1>1. Purse[o] = "reserved" /\ Goods[o] = "delivered"
  BY DEF Purse, Goods
<1>2. Purse' = [Purse EXCEPT ![o] = "spent"]
  BY DEF Purse, IInv, TypeOK
<1>3. QED BY <1>1, <1>2 DEF Contract!Spend, Goods

\* Releasing the hold of an order that is not and never will be delivered returns it.
LEMMA ReleaseReturns ==
  ASSUME IInv, IInv', NEW o \in Orders, journal[o] = {"hold"},
         remote[o] \in {"absent", "refunded"},
         journal' = [journal EXCEPT ![o] = {"hold", "release"}], UNCHANGED remote
  PROVE  Contract!Return(o)
<1>1. Purse[o] = "reserved" /\ Goods[o] = "none"
  BY DEF Purse, Goods
<1>2. Purse' = [Purse EXCEPT ![o] = "returned"]
  BY DEF Purse, IInv, TypeOK
<1>3. QED BY <1>1, <1>2 DEF Contract!Return, Goods

\* A settlement written on a true report of an open order is a step of the contract.
LEMMA SettleSteps ==
  ASSUME IInv, IInv', NEW o \in Orders, status[o] = "processing", UNCHANGED remote,
         \/ Post(o, "capture") /\ remote[o] = "completed"
         \/ Post(o, "release") /\ remote[o] \in {"absent", "refunded"}
         \/ UNCHANGED journal
  PROVE  [Contract!Next]_Contract!vars
<1>1. journal[o] = {"hold"}
  BY DEF IInv, StatusMatchesMoney
<1>2. CASE Post(o, "capture") /\ remote[o] = "completed"
  <2>1. journal' = [journal EXCEPT ![o] = {"hold", "capture"}]
    BY <1>1, <1>2 DEF Post, IInv, TypeOK
  <2>2. QED BY <1>1, <1>2, <2>1, CaptureSpends DEF Contract!Next
<1>3. CASE Post(o, "release") /\ remote[o] \in {"absent", "refunded"}
  <2>1. journal' = [journal EXCEPT ![o] = {"hold", "release"}]
    BY <1>1, <1>3 DEF Post, IInv, TypeOK
  <2>2. QED BY <1>1, <1>3, <2>1, ReleaseReturns DEF Contract!Next
<1>4. CASE UNCHANGED journal
  BY <1>4, NothingSeen
<1>5. QED BY <1>2, <1>3, <1>4

\* A change of the provider's record delivers an order whose money is reserved, or
\* is none of the contract's business.
LEMMA RemoteSteps ==
  ASSUME IInv, IInv', NEW o \in Orders, NEW r, remote' = [remote EXCEPT ![o] = r],
         status[o] = "processing" \/ r # "completed", remote[o] # "completed",
         UNCHANGED journal
  PROVE  [Contract!Next]_Contract!vars
<1>1. CASE r = "completed"
  <2>1. Purse[o] = "reserved" /\ Goods[o] = "none"
    BY <1>1 DEF Purse, Goods, IInv, StatusMatchesMoney
  <2>2. Goods' = [Goods EXCEPT ![o] = "delivered"]
    BY <1>1 DEF Goods, IInv, TypeOK
  <2>3. UNCHANGED Purse
    BY NothingSeen
  <2>4. QED BY <2>1, <2>2, <2>3 DEF Contract!Next, Contract!Deliver
<1>2. CASE r # "completed"
  BY <1>2 DEF Contract!vars, Purse, Goods, IInv, TypeOK
<1>3. QED BY <1>1, <1>2

LEMMA NextRefines ==
  ASSUME Reliable, IInv, IInv', [Next]_vars
  PROVE  [Contract!Next]_Contract!vars
<1> DEFINE Refined == [Contract!Next]_Contract!vars
<1>1. ASSUME NEW o \in Orders, Create(o) PROVE Refined
  <2>1. journal[o] = {}
    BY <1>1 DEF Create, IInv, CalledLater, StatusMatchesMoney
  <2>2. journal' = [journal EXCEPT ![o] = {"hold"}] /\ UNCHANGED remote
    BY <1>1, <2>1 DEF Create, Post, IInv, TypeOK
  <2>3. Purse[o] = "idle" /\ UNCHANGED Goods
    BY <2>1, <2>2 DEF Purse, Goods
  <2>4. Purse' = [Purse EXCEPT ![o] = "reserved"]
    BY <2>2 DEF Purse, IInv, TypeOK
  <2>5. QED BY <2>3, <2>4 DEF Contract!Next, Contract!Reserve
<1>2. ASSUME NEW o \in Orders, NEW outcome \in Outcomes, Send(o, outcome) PROVE Refined
  BY <1>2, RemoteSteps DEF Send, order, IInv, CalledLater
<1>3. ASSUME NEW o \in Orders, Record(o) PROVE Refined
  <2>1. CASE UNCHANGED journal
    BY <1>3, <2>1, NothingSeen DEF Record
  <2>2. CASE status[o] \notin Final /\ answer[o] = "success" /\ Post(o, "capture")
    BY <1>3, <2>2, SettleSteps DEF Record, IInv, TypeOK, CalledLater, AnswerIsTrue
  <2>3. CASE status[o] \notin Final /\ answer[o] = "failed" /\ Post(o, "release")
    BY <1>3, <2>3, SettleSteps DEF Record, IInv, TypeOK, CalledLater, AnswerIsTrue
  <2>4. QED BY <1>3, <2>1, <2>2, <2>3 DEF Record
<1>4. ASSUME NEW o \in Orders, Crash(o) PROVE Refined
  BY <1>4, NothingSeen DEF Crash, order
<1>5. ASSUME NEW o \in Orders, NEW said, said \in {remote[o], "absent", "processing"},
             Apply(o, said), UNCHANGED remote
      PROVE  Refined
  <2>1. status[o] = "processing"
    BY <1>5 DEF Apply, IInv, TypeOK
  <2>2. QED BY <1>5, <2>1, SettleSteps DEF Apply
<1>6. ASSUME NEW o \in Orders, Poll(o) PROVE Refined
  BY <1>5, <1>6 DEF Poll
<1>7. ASSUME NEW o \in Orders, Webhook(o) PROVE Refined
  BY <1>5, <1>7 DEF Webhook
<1>8. ASSUME NEW o \in Orders, ProviderSettles(o) PROVE Refined
  <2>1. PICK r \in Settled : remote' = [remote EXCEPT ![o] = r]
    BY <1>8 DEF ProviderSettles
  <2>2. remote[o] = "processing" /\ UNCHANGED journal
    BY <1>8 DEF ProviderSettles, order
  <2>3. status[o] = "processing"
    BY <2>2 DEF IInv, TypeOK, CalledLater, StatusIsTrue, Final
  <2>4. QED BY <2>1, <2>2, <2>3, RemoteSteps
<1>9. ASSUME UNCHANGED vars PROVE Refined
  BY <1>9, NothingSeen DEF vars
<1> HIDE DEF Refined
<1>10. Refined
  BY <1>1, <1>2, <1>3, <1>4, <1>6, <1>7, <1>8, <1>9 DEF Next, Step
<1>11. QED BY <1>10 DEF Refined

\* Bill orders keep the payout contract, whatever is lost, late or repeated.
THEOREM BillsKeepContract ==
  ASSUME Reliable
  PROVE  Spec => KeepsContract
<1>1. Init => Contract!Init
  BY DEF Init, Contract!Init, Purse, Goods
<1>2. IInv /\ IInv' /\ [Next]_vars => [Contract!Next]_Contract!vars
  BY NextRefines
<1>3. QED BY <1>1, <1>2, Invariance, PTL DEF Spec, KeepsContract, Contract!Spec

=============================================================================
