-------------------------- MODULE WithdrawalsProofs --------------------------
(***************************************************************************)
(* Invariance and refinement proofs for Withdrawals, for any number of     *)
(* orders and workers.  The database locks an order's row only within a    *)
(* section, so what keeps two workers apart across the call to the         *)
(* provider is the status: whoever is between its sections holds an order  *)
(* that is neither queued nor new (Held), and nobody claims one of those.  *)
(* The provider has nothing under a reference until the worker that holds  *)
(* the order sends it (Unsent), so until then nothing can settle the       *)
(* order behind the worker's back.                                         *)
(*                                                                         *)
(* The second fact needs a provider that answers with a rejection only     *)
(* what it does not keep: without the mishaps resent_post and              *)
(* recorded_rejection.  The types, the ledger and the statuses do not.     *)
(***************************************************************************)
EXTENDS Withdrawals, FiniteSetTheorems, TLAPS

Honest == {"resent_post", "recorded_rejection"} \cap Mishaps = {}

Busy(w) == pc[w] \in {"placed", "send", "record"}

\* A new order has made no attempt; a new or waiting one has no provider's reference.
Fresh ==
  \A o \in Orders :
    /\ status[o] = "none" => attempts[o] = 0
    /\ status[o] \in {"none", "queued"} => provRef[o] = -1

\* A worker's order is its own, and is no one's to claim.
HeldBy(w) ==
  Busy(w) =>
    /\ job[w] \in Orders
    /\ provRef[job[w]] = -1
    /\ pc[w] = "placed" => attempts[job[w]] = 0
    /\ pc[w] # "placed" => ref[w] = attempts[job[w]]
    /\ status[job[w]] \in {"processing"} \cup Final
    /\ \A v \in Workers : v # w /\ Busy(v) => job[v] # job[w]

Held == \A w \in Workers : HeldBy(w)

\* A rejected attempt was not the last one allowed.
Bounded ==
  \A w \in Workers :
    pc[w] = "record" /\ answer[w] \in {"short", "blocked"} => attempts[job[w]] < MaxAttempts

BInv == TypeOK /\ StatusMatchesMoney /\ Fresh /\ Held /\ Bounded /\ PollsCurrent

\* The provider has nothing of the order, under any reference.
Nowhere(o) == \A n \in References : remote[o][n] = "absent"

\* The provider knows an order under the reference in use only, and nothing of one that
\* is new or waits.
Unsent ==
  \A o \in Orders :
    /\ \A n \in References : n # attempts[o] => remote[o][n] = "absent"
    /\ status[o] \in {"none", "queued"} => Nowhere(o)

\* Until the provider has something of its order, the order waits for the worker.
Waits ==
  \A w \in Workers :
    \/ pc[w] \in {"placed", "send"}
    \/ pc[w] = "record" /\ answer[w] \in {"refused", "short", "blocked"}
    => status[job[w]] = "processing" /\ Nowhere(job[w])

HInv == BInv /\ Unsent /\ Waits /\ NoRefundedPayout

-----------------------------------------------------------------------------
(* Helpers. *)

Answers == {"pending", "paid", "refused", "short", "blocked", "lost"}

LEMMA Constants == MaxAttempts \in Nat /\ IsFiniteSet(Orders) /\ "none" \notin Orders
  BY Parameters

\* What a call can tell, and leave at the provider.
LEMMA OutcomeData ==
  ASSUME NEW outcome \in Outcomes
  PROVE  /\ outcome[1] \in Answers
         /\ outcome[2] \in {"absent", "pending", "paid", "failed"}
         /\ Honest /\ outcome[1] \in {"refused", "short", "blocked"} => outcome[2] = "absent"
         /\ outcome[1] = "paid" => outcome[2] = "paid"
<1>1. \/ outcome \in {<<"pending", "pending">>, <<"paid", "paid">>}
      \/ outcome \in {<<a, "absent">> : a \in {"refused", "short", "blocked"}}
      \/ outcome \in {<<"lost", "absent">>, <<"lost", "pending">>}
      \/ ~Honest /\ outcome = <<"refused", "pending">>
      \/ ~Honest /\ outcome \in {<<a, "failed">> : a \in {"refused", "short"}}
  BY DEF Outcomes, Honest
<1>2. QED BY <1>1 DEF Answers

LEMMA PlaceType ==
  ASSUME NEW o \in Orders, queuedAt \in [Orders -> Nat], QueuePlace(o)
  PROVE  queuedAt' \in [Orders -> Nat]
<1>1. Cardinality({p \in Orders : queuedAt[p] # 0}) \in Nat
  BY Constants, FS_Subset, FS_CardinalityType
<1>2. QED BY <1>1 DEF QueuePlace

LEMMA PostType ==
  ASSUME NEW o \in Orders, journal \in [Orders -> SUBSET {"hold", "capture", "release"}],
         Capture(o) \/ Release(o)
  PROVE  journal' \in [Orders -> SUBSET {"hold", "capture", "release"}]
  BY DEF Capture, Release

-----------------------------------------------------------------------------
(* Type correctness. *)

LEMMA InitBInv == Init => BInv
<1> SUFFICES ASSUME Init PROVE BInv
  OBVIOUS
<1>1. TypeOK
  BY Constants DEF Init, TypeOK, References, TransferStates
<1>2. StatusMatchesMoney /\ Fresh /\ Held /\ Bounded /\ PollsCurrent
  BY DEF Init, StatusMatchesMoney, Fresh, Held, HeldBy, Bounded, PollsCurrent, Busy
<1>3. QED BY <1>1, <1>2 DEF BInv

\* The two halves of TypeOK.
OrderTypes ==
  /\ status \in [Orders -> {"none", "processing", "queued"} \cup Final]
  /\ attempts \in [Orders -> References]
  /\ provRef \in [Orders -> References \cup {-1}]
  /\ queuedAt \in [Orders -> Nat]
  /\ lastError \in [Orders -> {"none", "short", "blocked"}]
  /\ overdue \subseteq Orders
  /\ journal \in [Orders -> SUBSET {"hold", "capture", "release"}]
  /\ remote \in [Orders -> [References -> TransferStates]]

WorkerTypes ==
  /\ pc \in [Workers -> {"idle", "placed", "joined", "scan", "send", "record"}]
  /\ job \in [Workers -> Orders \cup {"none"}]
  /\ ref \in [Workers -> References]
  /\ answer \in [Workers -> {"none"} \cup Answers]
  /\ todo \in [Workers -> SUBSET Orders]
  /\ \A w \in Workers : /\ pc[w] \in {"placed", "send", "record"} => job[w] # "none"
                        /\ pc[w] = "scan" => todo[w] # {}

LEMMA TypeHalves == TypeOK <=> OrderTypes /\ WorkerTypes
  BY Zenon DEF TypeOK, OrderTypes, WorkerTypes, Answers

LEMMA NextWorkerTypes == BInv /\ [Next]_vars => WorkerTypes'
<1> SUFFICES ASSUME BInv, [Next]_vars PROVE WorkerTypes'
  OBVIOUS
<1> WorkerTypes
  BY TypeHalves DEF BInv
<1> USE DEF WorkerTypes, worker, DropOrder, EndJob, BreakRun
<1>1. ASSUME NEW w \in Workers, NEW o \in Orders, Create(w, o) PROVE WorkerTypes'
  BY <1>1, Constants DEF Create
<1>2. ASSUME NEW w \in Workers, JoinQueue(w) PROVE WorkerTypes'
  BY <1>2 DEF JoinQueue
<1>3. ASSUME NEW w \in Workers, SendNow(w) PROVE WorkerTypes'
  <2>1. 0 \in References
    BY Constants DEF References
  <2>2. QED BY <1>3, <2>1 DEF SendNow
<1>4. ASSUME NEW w \in Workers, NEW ids, Snapshot(w, ids) PROVE WorkerTypes'
  <2>1. todo' = [todo EXCEPT ![w] = ids] /\ ids \in SUBSET Orders
    BY <1>4 DEF Snapshot, Queued
  <2>2. QED BY <1>4, <2>1 DEF Snapshot
<1>5. ASSUME NEW w \in Workers, NEW o \in todo[w], Claim(w, o) PROVE WorkerTypes'
  <2>1. o \in Orders /\ o # "none" /\ attempts[o] \in References
    BY Constants, TypeHalves DEF BInv, OrderTypes
  <2>2. ref' \in [Workers -> References] /\ job' \in [Workers -> Orders \cup {"none"}]
    BY <1>5, <2>1 DEF Claim
  <2>3. QED BY <1>5, <2>1, <2>2 DEF Claim
<1>6. ASSUME NEW w \in Workers, EndJob(w) \/ BreakRun(w) PROVE WorkerTypes'
  <2>1. 0 \in References
    BY Constants DEF References
  <2>2. QED BY <1>6, <2>1
<1>7. ASSUME NEW w \in Workers, NEW outcome \in Outcomes, Send(w, outcome) PROVE WorkerTypes'
  <2>1. answer' \in [Workers -> {"none"} \cup Answers]
    BY <1>7, OutcomeData DEF Send, Answers
  <2>2. QED BY <1>7, <2>1 DEF Send
<1>8. CASE UNCHANGED worker
  BY <1>8
<1> HIDE DEF WorkerTypes, EndJob, BreakRun
<1>9. QED
  BY <1>1, <1>2, <1>3, <1>4, <1>5, <1>6, <1>7, <1>8
  DEF Next, Step, CronRun, Webhook, Sync, LowBalance, Record, Crash, Cancel, Apply, Age,
      ProviderSettles, BankReverses, vars

LEMMA NextOrderTypes == BInv /\ [Next]_vars => OrderTypes'
<1> SUFFICES ASSUME BInv, [Next]_vars PROVE OrderTypes'
  OBVIOUS
<1> OrderTypes /\ WorkerTypes
  BY TypeHalves DEF BInv
<1> USE PlaceType, PostType DEF OrderTypes, Final, order, SetStatus
<1>1. ASSUME NEW w \in Workers, NEW o \in Orders, Create(w, o) PROVE OrderTypes'
  BY <1>1 DEF Create
<1>2. ASSUME NEW w \in Workers, JoinQueue(w) PROVE OrderTypes'
  BY <1>2 DEF JoinQueue, WorkerTypes
<1>5. ASSUME NEW w \in Workers, NEW o \in todo[w], Claim(w, o) PROVE OrderTypes'
  BY <1>5 DEF Claim, WorkerTypes
<1>6. ASSUME NEW w \in Workers, LowBalance(w) PROVE OrderTypes'
  BY <1>6 DEF LowBalance, WorkerTypes
<1>7. ASSUME NEW w \in Workers, NEW outcome \in Outcomes, Send(w, outcome) PROVE OrderTypes'
  <2>1. remote' \in [Orders -> [References -> TransferStates]]
    <3>1. PICK st \in TransferStates : \/ remote' = [remote EXCEPT ![job[w]][ref[w]] = st]
                                       \/ UNCHANGED remote
      BY <1>7, OutcomeData DEF Send, TransferStates
    <3>2. job[w] \in Orders => [remote[job[w]] EXCEPT ![ref[w]] = st] \in [References -> TransferStates]
      BY <3>1
    <3>3. QED BY <3>1, <3>2
  <2>2. QED BY <1>7, <2>1 DEF Send
<1>8. ASSUME NEW w \in Workers, Record(w) PROVE OrderTypes'
  <2>1. CASE status[job[w]] \in Final
    BY <1>8, <2>1 DEF Record
  <2>2. CASE status[job[w]] \notin Final
    <3> DEFINE o == job[w]
    <3>0. o \in Orders /\ ref[w] \in References /\ answer[w] \in {"none"} \cup Answers
      BY <1>8 DEF Record, WorkerTypes
    <3>1. attempts' \in [Orders -> References]
      <4>1. answer[w] \in {"short", "blocked"} => attempts[o] + 1 \in References
        BY <1>8, <3>0, Constants DEF Record, BInv, Bounded, References
      <4>2. QED BY <1>8, <2>2, <4>1 DEF Record
    <3>2. provRef' \in [Orders -> References \cup {-1}]
      BY <1>8, <2>2, <3>0 DEF Record, RecordedProvRef
    <3>3. lastError' \in [Orders -> {"none", "short", "blocked"}]
      BY <1>8, <2>2 DEF Record
    <3>4. status' \in [Orders -> {"none", "processing", "queued"} \cup Final]
      BY <1>8, <2>2 DEF Record, RecordedStatus
    <3>5. queuedAt' \in [Orders -> Nat]
      BY <1>8, <2>2, <3>0 DEF Record
    <3>6. journal' \in [Orders -> SUBSET {"hold", "capture", "release"}]
      <4>1. Capture(o) \/ Release(o) \/ UNCHANGED journal
        BY <1>8, <2>2 DEF Record
      <4>2. QED BY <3>0, <4>1
    <3>7. UNCHANGED <<overdue, remote>>
      BY <1>8 DEF Record
    <3>8. QED BY <3>1, <3>2, <3>3, <3>4, <3>5, <3>6, <3>7
  <2>3. QED BY <2>1, <2>2
<1>10. ASSUME NEW o \in Orders, Cancel(o) \/ Age(o) PROVE OrderTypes'
  BY <1>10 DEF Cancel, Age
<1>11. ASSUME NEW o \in Orders, NEW st, Apply(o, st) PROVE OrderTypes'
  BY <1>11 DEF Apply
<1>12. ASSUME NEW o \in Orders, NEW n \in References, ProviderSettles(o, n) \/ BankReverses(o, n)
       PROVE  OrderTypes'
  <2>1. PICK st \in TransferStates : remote' = [remote EXCEPT ![o][n] = st]
    BY <1>12 DEF ProviderSettles, BankReverses, TransferStates
  <2>2. remote' \in [Orders -> [References -> TransferStates]]
    BY <2>1
  <2>3. QED BY <1>12, <2>2 DEF ProviderSettles, BankReverses
<1>13. CASE UNCHANGED <<order, overdue, remote>>
  BY <1>13
<1>14. WorkerTypes => \A w \in Workers : todo[w] \subseteq Orders
  BY DEF WorkerTypes
<1> HIDE DEF OrderTypes
<1>15. QED
  BY <1>1, <1>2, <1>5, <1>6, <1>7, <1>8, <1>10, <1>11, <1>12, <1>13, <1>14
  DEF Next, Step, CronRun, Webhook, Sync, SendNow, Snapshot, Crash, vars

LEMMA NextTypeOK == BInv /\ [Next]_vars => TypeOK'
<1>1. OrderTypes' /\ WorkerTypes' => TypeOK'
  BY Zenon DEF TypeOK, OrderTypes, WorkerTypes, Answers
<1>2. QED BY <1>1, NextOrderTypes, NextWorkerTypes

-----------------------------------------------------------------------------
(* Status and ledger. *)

\* The ways an order that is not settled moves on.
Moves(o) ==
  /\ status[o] \in {"processing", "queued"}
  /\ \/ Capture(o) /\ SetStatus(o, "success")
     \/ \E st \in {"failed", "reversed"} : Release(o) /\ SetStatus(o, st)
     \/ status[o] = "queued" /\ Release(o) /\ SetStatus(o, "cancelled")
     \/ \E st \in {"processing", "queued"} : UNCHANGED journal /\ SetStatus(o, st)

Starts(o) ==
  /\ status[o] = "none"
  /\ SetStatus(o, "processing")
  /\ journal' = [journal EXCEPT ![o] = {"hold"}]

LEMMA OrderSteps ==
  ASSUME BInv, [Next]_vars
  PROVE  \/ \E o \in Orders : Starts(o) \/ Moves(o)
         \/ UNCHANGED <<status, journal>>
<1> DEFINE Goal == \/ \E o \in Orders : Starts(o) \/ Moves(o)
                   \/ UNCHANGED <<status, journal>>
<1> OrderTypes /\ WorkerTypes /\ Held
  BY TypeHalves DEF BInv
<1> USE DEF Final, order
<1>1. ASSUME NEW w \in Workers, NEW o \in Orders, Create(w, o) PROVE Goal
  BY <1>1 DEF Create, Starts
<1>2. ASSUME NEW w \in Workers, JoinQueue(w) \/ LowBalance(w) PROVE Goal
  <2>1. job[w] \in Orders /\ status[job[w]] \in {"processing"} \cup Final
    BY <1>2 DEF JoinQueue, LowBalance, Held, HeldBy, Busy
  <2>2. QED BY <1>2, <2>1 DEF JoinQueue, LowBalance, Moves
<1>3. ASSUME NEW w \in Workers, NEW o \in todo[w], Claim(w, o) PROVE Goal
  <2>1. o \in Orders
    BY DEF WorkerTypes
  <2>2. QED BY <1>3, <2>1 DEF Claim, Moves
<1>4. ASSUME NEW w \in Workers, Record(w) PROVE Goal
  <2>1. job[w] \in Orders /\ status[job[w]] \in {"processing"} \cup Final
    BY <1>4 DEF Record, Held, HeldBy, Busy
  <2>2. CASE status[job[w]] \in Final
    BY <1>4, <2>2 DEF Record
  <2>3. CASE status[job[w]] = "processing"
    BY <1>4, <2>1, <2>3 DEF Record, RecordedStatus, Moves
  <2>4. QED BY <2>1, <2>2, <2>3
<1>5. ASSUME NEW o \in Orders, Cancel(o) PROVE Goal
  BY <1>5 DEF Cancel, Moves
<1>6. ASSUME NEW o \in Orders, \E st : Apply(o, st) PROVE Goal
  <2>1. status[o] \in {"processing", "queued"}
    BY <1>6 DEF Apply, OrderTypes
  <2>2. QED BY <1>6, <2>1 DEF Apply, Moves
<1>7. ASSUME NEW w \in Workers, \/ SendNow(w) \/ Crash(w)
                                \/ \E ids : Snapshot(w, ids)
                                \/ \E outcome \in Outcomes : Send(w, outcome)
      PROVE  Goal
  BY <1>7 DEF SendNow, Crash, Snapshot, Send
<1>8. ASSUME NEW o \in Orders, \/ Age(o)
                              \/ \E n \in References : ProviderSettles(o, n) \/ BankReverses(o, n)
      PROVE  Goal
  BY <1>8 DEF Age, ProviderSettles, BankReverses
<1>9. ASSUME UNCHANGED vars PROVE Goal
  BY <1>9 DEF vars
<1> HIDE DEF Goal
<1>10. Goal
  BY <1>1, <1>2, <1>3, <1>4, <1>5, <1>6, <1>7, <1>8, <1>9
  DEF Next, Step, CronRun, Webhook, Sync
<1>11. QED BY <1>10 DEF Goal

LEMMA NextMoney == BInv /\ [Next]_vars => StatusMatchesMoney'
<1> SUFFICES ASSUME BInv, [Next]_vars, NEW o \in Orders
             PROVE  /\ status'[o] = "none" => journal'[o] = {}
                    /\ status'[o] \in {"processing", "queued"} => journal'[o] = {"hold"}
                    /\ status'[o] = "success" => journal'[o] = {"hold", "capture"}
                    /\ status'[o] \in {"failed", "reversed", "cancelled"} =>
                         journal'[o] = {"hold", "release"}
  BY DEF StatusMatchesMoney
<1> OrderTypes /\ StatusMatchesMoney
  BY TypeHalves DEF BInv
<1> USE DEF OrderTypes, StatusMatchesMoney, SetStatus, Capture, Release
<1>1. CASE \E p \in Orders : Starts(p)
  BY <1>1 DEF Starts
<1>2. ASSUME NEW p \in Orders, Moves(p)
      PROVE  /\ status'[o] = "none" => journal'[o] = {}
             /\ status'[o] \in {"processing", "queued"} => journal'[o] = {"hold"}
             /\ status'[o] = "success" => journal'[o] = {"hold", "capture"}
             /\ status'[o] \in {"failed", "reversed", "cancelled"} =>
                  journal'[o] = {"hold", "release"}
  <2>1. journal[p] = {"hold"}
    BY <1>2 DEF Moves
  <2>2. journal[p] \cup {"capture"} = {"hold", "capture"}
        /\ journal[p] \cup {"release"} = {"hold", "release"}
    BY <2>1
  <2>3. QED BY <1>2, <2>1, <2>2 DEF Moves
<1>3. CASE UNCHANGED <<status, journal>>
  BY <1>3
<1>4. QED BY <1>1, <1>2, <1>3, OrderSteps

-----------------------------------------------------------------------------
(* Workers and their orders. *)

LEMMA NextFresh == BInv /\ [Next]_vars => Fresh'
<1> SUFFICES ASSUME BInv, [Next]_vars PROVE Fresh'
  OBVIOUS
<1> OrderTypes /\ WorkerTypes /\ Fresh /\ Held
  BY TypeHalves DEF BInv
<1> USE DEF OrderTypes, Fresh, SetStatus, Final, order
<1>1. ASSUME NEW w \in Workers, NEW o \in Orders, Create(w, o) PROVE Fresh'
  BY <1>1 DEF Create
<1>2. ASSUME NEW w \in Workers, JoinQueue(w) \/ LowBalance(w) PROVE Fresh'
  <2>1. job[w] \in Orders /\ provRef[job[w]] = -1 /\ status[job[w]] # "none"
    BY <1>2 DEF JoinQueue, LowBalance, Held, HeldBy, Busy
  <2>2. QED BY <1>2, <2>1 DEF JoinQueue, LowBalance
<1>3. ASSUME NEW w \in Workers, NEW o \in todo[w], Claim(w, o) PROVE Fresh'
  BY <1>3 DEF Claim, WorkerTypes
<1>4. ASSUME NEW w \in Workers, Record(w) PROVE Fresh'
  <2>1. job[w] \in Orders /\ provRef[job[w]] = -1 /\ status[job[w]] \in {"processing"} \cup Final
    BY <1>4 DEF Record, Held, HeldBy, Busy
  <2>2. CASE status[job[w]] \in Final
    BY <1>4, <2>2 DEF Record
  <2>3. CASE status[job[w]] = "processing"
    BY <1>4, <2>1, <2>3 DEF Record, RecordedStatus, RecordedProvRef
  <2>4. QED BY <2>1, <2>2, <2>3
<1>5. ASSUME NEW o \in Orders, \/ Cancel(o)
                              \/ \E st : Apply(o, st)
      PROVE  Fresh'
  BY <1>5 DEF Cancel, Apply
<1>6. CASE UNCHANGED <<status, attempts, provRef>>
  BY <1>6
<1>7. ASSUME NEW w \in Workers, \/ SendNow(w) \/ Crash(w)
                                \/ \E ids : Snapshot(w, ids)
                                \/ \E outcome \in Outcomes : Send(w, outcome)
      PROVE  Fresh'
  BY <1>6, <1>7 DEF SendNow, Crash, Snapshot, Send
<1>8. ASSUME NEW o \in Orders, \/ Age(o)
                              \/ \E n \in References : ProviderSettles(o, n) \/ BankReverses(o, n)
      PROVE  Fresh'
  BY <1>6, <1>8 DEF Age, ProviderSettles, BankReverses
<1>9. CASE UNCHANGED vars
  BY <1>9 DEF vars
<1> HIDE DEF Fresh
<1>10. QED
  BY <1>1, <1>2, <1>3, <1>4, <1>5, <1>7, <1>8, <1>9
  DEF Next, Step, CronRun, Webhook, Sync

LEMMA NextPollsCurrent == BInv /\ [Next]_vars => PollsCurrent'
<1> SUFFICES ASSUME BInv, [Next]_vars PROVE PollsCurrent'
  OBVIOUS
<1> OrderTypes /\ PollsCurrent /\ Held
  BY TypeHalves DEF BInv
<1> USE DEF PollsCurrent, order
<1>1. ASSUME NEW w \in Workers, Record(w) PROVE PollsCurrent'
  <2>1. job[w] \in Orders /\ provRef[job[w]] = -1 /\ ref[w] = attempts[job[w]]
    BY <1>1 DEF Record, Held, HeldBy, Busy
  <2>2. CASE status[job[w]] \in Final
    BY <1>1, <2>2 DEF Record
  <2>3. CASE status[job[w]] \notin Final
    BY <1>1, <2>1, <2>3 DEF Record, RecordedProvRef, OrderTypes
  <2>4. QED BY <2>2, <2>3
<1>2. CASE UNCHANGED <<attempts, provRef>>
  BY <1>2
<1>3. ASSUME NEW w \in Workers, \/ SendNow(w) \/ Crash(w) \/ JoinQueue(w) \/ LowBalance(w)
                                \/ \E ids : Snapshot(w, ids)
                                \/ \E o : Claim(w, o) \/ Create(w, o)
                                \/ \E outcome \in Outcomes : Send(w, outcome)
      PROVE  PollsCurrent'
  BY <1>2, <1>3 DEF SendNow, Crash, JoinQueue, LowBalance, Snapshot, Claim, Create, Send
<1>4. ASSUME NEW o \in Orders, \/ Cancel(o) \/ Age(o)
                              \/ \E st : Apply(o, st)
                              \/ \E n \in References : ProviderSettles(o, n) \/ BankReverses(o, n)
      PROVE  PollsCurrent'
  BY <1>2, <1>4 DEF Cancel, Age, Apply, ProviderSettles, BankReverses
<1>5. CASE UNCHANGED vars
  BY <1>5 DEF vars
<1> HIDE DEF PollsCurrent
<1>6. QED
  BY <1>1, <1>3, <1>4, <1>5 DEF Next, Step, CronRun, Webhook, Sync


LEMMA NextHeld == BInv /\ [Next]_vars => Held'
<1> SUFFICES ASSUME BInv, [Next]_vars PROVE Held'
  OBVIOUS
<1> OrderTypes /\ WorkerTypes /\ Held /\ Fresh
  BY TypeHalves DEF BInv
<1> USE DEF WorkerTypes, Held, HeldBy, Busy, SetStatus, DropOrder, order, worker
\* A new order, or one from the queue, is nobody's.
<1>1. ASSUME NEW w \in Workers, NEW o \in Orders, status[o] \in {"none", "queued"},
             \/ Create(w, o)
             \/ Claim(w, o)
      PROVE  Held'
  <2>1. \A v \in Workers : Busy(v) => job[v] # o
    BY <1>1 DEF Final
  <2>2. /\ \A v \in Workers : v # w => pc'[v] = pc[v] /\ job'[v] = job[v] /\ ref'[v] = ref[v]
        /\ \A p \in Orders : p # o => status'[p] = status[p]
        /\ UNCHANGED <<attempts, provRef>>
    BY <1>1 DEF Create, Claim, OrderTypes
  <2>3. ASSUME NEW v \in Workers, v # w PROVE HeldBy(v)'
    <3>1. ASSUME Busy(w)' PROVE job'[w] = o
      BY <1>1, <3>1 DEF Create, Claim
    <3>2. QED BY <2>1, <2>2, <2>3, <3>1
  <2>4. HeldBy(w)'
    <3>1. CASE Create(w, o)
      BY <2>1, <2>2, <3>1 DEF Create, OrderTypes, Fresh
    <3>2. CASE Claim(w, o) /\ status[o] = "queued"
      BY <2>1, <2>2, <3>2 DEF Claim, OrderTypes, Fresh
    <3>3. CASE Claim(w, o) /\ status[o] # "queued"
      BY <3>3 DEF Claim
    <3>4. QED BY <1>1, <3>1, <3>2, <3>3
  <2>5. QED BY <2>3, <2>4
\* A worker that lets go of its order, or skips one.
<1>2. ASSUME NEW w \in Workers, pc'[w] \in {"idle", "joined", "scan"},
             \A v \in Workers : v # w => pc'[v] = pc[v] /\ job'[v] = job[v] /\ ref'[v] = ref[v],
             \A o \in Orders : ~(o = job[w] /\ Busy(w)) =>
               status'[o] = status[o] /\ attempts'[o] = attempts[o] /\ provRef'[o] = provRef[o]
      PROVE  Held'
  <2>1. ASSUME NEW v \in Workers, Busy(v)' PROVE v # w /\ Busy(v)
    BY <1>2, <2>1
  <2>2. ASSUME NEW v \in Workers PROVE HeldBy(v)'
    BY <1>2, <2>1
  <2>3. QED BY <2>2
<1>3. ASSUME NEW w \in Workers, NEW o \in todo[w], Claim(w, o) PROVE Held'
  <2>1. CASE status[o] = "queued"
    BY <1>1, <1>3, <2>1
  <2>2. CASE status[o] # "queued"
    BY <1>2, <1>3, <2>2 DEF Claim
  <2>3. QED BY <2>1, <2>2
<1>4. ASSUME NEW w \in Workers, LowBalance(w) \/ Record(w) \/ Crash(w) PROVE Held'
  <2>1. EndJob(w) \/ BreakRun(w)
    BY <1>4 DEF LowBalance, Record, Crash
  <2>2. \A o \in Orders : ~(o = job[w] /\ Busy(w)) =>
          status'[o] = status[o] /\ attempts'[o] = attempts[o] /\ provRef'[o] = provRef[o]
    <3>1. CASE LowBalance(w)
      BY <3>1 DEF LowBalance, OrderTypes
    <3>2. CASE Record(w)
      <4>1. CASE status[job[w]] \in Final
        BY <3>2, <4>1 DEF Record
      <4>2. CASE status[job[w]] \notin Final
        <5>1. \A o \in Orders : o # job[w] => status'[o] = status[o] /\ provRef'[o] = provRef[o]
          BY <3>2, <4>2 DEF Record, OrderTypes
        <5>2. \A o \in Orders : o # job[w] => attempts'[o] = attempts[o]
          BY <3>2, <4>2 DEF Record, OrderTypes
        <5>3. Busy(w)
          BY <3>2 DEF Record
        <5>4. QED BY <5>1, <5>2, <5>3
      <4>3. QED BY <4>1, <4>2
    <3>3. CASE Crash(w)
      BY <3>3 DEF Crash
    <3>4. QED BY <1>4, <3>1, <3>2, <3>3
  <2>3. pc'[w] \in {"idle", "joined", "scan"}
    BY <2>1 DEF EndJob, BreakRun
  <2>4. \A v \in Workers : v # w => pc'[v] = pc[v] /\ job'[v] = job[v] /\ ref'[v] = ref[v]
    BY <2>1 DEF EndJob, BreakRun
  <2>5. QED BY <1>2, <2>2, <2>3, <2>4
<1>5. ASSUME NEW w \in Workers, JoinQueue(w) PROVE Held'
  BY <1>5 DEF JoinQueue, OrderTypes
<1>6. ASSUME NEW w \in Workers, SendNow(w) PROVE Held'
  BY <1>6 DEF SendNow
<1>7. ASSUME NEW w \in Workers, NEW ids, Snapshot(w, ids) PROVE Held'
  BY <1>7 DEF Snapshot
<1>8. ASSUME NEW w \in Workers, NEW outcome \in Outcomes, Send(w, outcome) PROVE Held'
  BY <1>8 DEF Send
<1>9. ASSUME NEW o \in Orders, \/ Cancel(o)
                              \/ \E st : Apply(o, st)
      PROVE  Held'
  BY <1>9 DEF Cancel, Apply, OrderTypes, Final
<1>10. CASE UNCHANGED <<order, worker>>
  BY <1>10
<1> HIDE DEF Held
<1>11. QED
  BY <1>1, <1>3, <1>4, <1>5, <1>6, <1>7, <1>8, <1>9, <1>10
  DEF Next, Step, CronRun, Webhook, Sync, Age, Create, ProviderSettles, BankReverses, vars

LEMMA NextBounded == BInv /\ [Next]_vars => Bounded'
<1> SUFFICES ASSUME BInv, [Next]_vars PROVE Bounded'
  OBVIOUS
<1> OrderTypes /\ WorkerTypes /\ Held /\ Fresh /\ Bounded
  BY TypeHalves DEF BInv
<1> USE DEF WorkerTypes, Bounded, SetStatus, DropOrder, order, worker
<1>1. ASSUME NEW w \in Workers, NEW outcome \in Outcomes, Send(w, outcome) PROVE Bounded'
  <2>1. ref[w] = attempts[job[w]]
    BY <1>1 DEF Send, Held, HeldBy, Busy
  <2>2. QED BY <1>1, <2>1 DEF Send
\* A worker that is not, and does not come, between a call and its record.
<1>2. ASSUME NEW w \in Workers, pc'[w] # "record",
             \A v \in Workers : v # w => pc'[v] = pc[v] /\ job'[v] = job[v] /\ answer'[v] = answer[v],
             \A o \in Orders : ~(o = job[w] /\ Busy(w)) => attempts'[o] = attempts[o]
      PROVE  Bounded'
  <2>1. ASSUME NEW v \in Workers, v # w, pc[v] = "record"
        PROVE  attempts'[job'[v]] = attempts[job[v]]
    BY <1>2, <2>1 DEF Held, HeldBy, Busy
  <2>2. QED BY <1>2, <2>1
<1>3. ASSUME NEW w \in Workers, LowBalance(w) \/ Record(w) \/ Crash(w) PROVE Bounded'
  <2>1. EndJob(w) \/ BreakRun(w)
    BY <1>3 DEF LowBalance, Record, Crash
  <2>2. \A o \in Orders : ~(o = job[w] /\ Busy(w)) => attempts'[o] = attempts[o]
    BY <1>3 DEF LowBalance, Record, Crash, OrderTypes, Busy
  <2>3. pc'[w] # "record"
    BY <2>1 DEF EndJob, BreakRun
  <2>4. \A v \in Workers : v # w => pc'[v] = pc[v] /\ job'[v] = job[v] /\ answer'[v] = answer[v]
    BY <2>1 DEF EndJob, BreakRun
  <2>5. QED BY <1>2, <2>2, <2>3, <2>4
<1>4. ASSUME NEW w \in Workers, \/ JoinQueue(w) \/ SendNow(w)
                                \/ \E ids : Snapshot(w, ids)
                                \/ \E o \in Orders : Create(w, o) \/ Claim(w, o)
      PROVE  Bounded'
  BY <1>4 DEF JoinQueue, SendNow, Snapshot, Create, Claim
<1>5. CASE UNCHANGED <<attempts, worker>>
  BY <1>5
<1> HIDE DEF Bounded
<1>6. QED
  BY <1>1, <1>3, <1>4, <1>5
  DEF Next, Step, CronRun, Webhook, Sync, Cancel, Apply, Age, ProviderSettles, BankReverses, vars

LEMMA BInvariance == Spec => []BInv
<1>1. BInv /\ [Next]_vars => BInv'
  BY NextTypeOK, NextMoney, NextFresh, NextHeld, NextBounded, NextPollsCurrent DEF BInv
<1>2. QED BY <1>1, InitBInv, PTL DEF Spec

-----------------------------------------------------------------------------
(* The provider's books, when it keeps nothing that it rejected. *)

\* An order's share of Unsent and NoRefundedPayout.
Clean(o) ==
  /\ \A n \in References : n # attempts[o] => remote[o][n] = "absent"
  /\ status[o] \in {"none", "queued"} => Nowhere(o)
  /\ "release" \in journal[o] => remote[o][attempts[o]] \notin {"pending", "paid"}

\* What the order is when the provider has nothing of it and a worker is to send it.
Waiting(w) ==
  \/ pc[w] \in {"placed", "send"}
  \/ pc[w] = "record" /\ answer[w] \in {"refused", "short", "blocked"}

LEMMA InitHInv == Init => HInv
<1> SUFFICES ASSUME Init PROVE HInv
  OBVIOUS
<1>1. Unsent /\ Waits /\ NoRefundedPayout
  BY DEF Init, Unsent, Nowhere, Waits, NoRefundedPayout
<1>2. QED BY <1>1, InitBInv DEF HInv

LEMMA CleanOrders == HInv => \A o \in Orders : Clean(o)
  BY TypeHalves DEF HInv, BInv, OrderTypes, Unsent, NoRefundedPayout, Clean

\* Nothing settles an order the provider has nothing of.
LEMMA NoReports ==
  ASSUME NEW o \in Orders, NEW n \in References, remote[o][n] = "absent"
  PROVE  Reports(o, n) = {}
  BY DEF Reports

LEMMA NextClean ==
  ASSUME Honest, HInv, [Next]_vars, NEW o \in Orders
  PROVE  Clean(o)'
<1> OrderTypes /\ WorkerTypes /\ StatusMatchesMoney /\ Held /\ Waits /\ Clean(o)
  BY TypeHalves, CleanOrders DEF HInv, BInv
<1> USE DEF OrderTypes, Clean, Nowhere, SetStatus, Capture, Release, Final, order
<1>1. ASSUME NEW w \in Workers, NEW p \in Orders, Create(w, p) PROVE Clean(o)'
  BY <1>1 DEF Create
<1>2. ASSUME NEW w \in Workers, JoinQueue(w) \/ LowBalance(w) PROVE Clean(o)'
  <2>1. Nowhere(job[w]) /\ UNCHANGED <<attempts, journal, remote>>
    BY <1>2 DEF JoinQueue, LowBalance, Waits
  <2>2. o # job[w] => status'[o] = status[o]
    BY <1>2 DEF JoinQueue, LowBalance
  <2>3. QED BY <2>1, <2>2
<1>3. ASSUME NEW w \in Workers, NEW p \in todo[w], Claim(w, p) PROVE Clean(o)'
  <2>1. p \in Orders /\ UNCHANGED <<attempts, remote>>
    BY <1>3 DEF Claim, WorkerTypes
  <2>2. QED BY <1>3, <2>1 DEF Claim
<1>4. ASSUME NEW w \in Workers, NEW outcome \in Outcomes, Send(w, outcome) PROVE Clean(o)'
  <2>1. /\ job[w] \in Orders
        /\ ref[w] = attempts[job[w]]
        /\ status[job[w]] = "processing"
    BY <1>4 DEF Send, Held, HeldBy, Busy, Waits
  <2>2. journal[job[w]] = {"hold"}
    BY <2>1 DEF StatusMatchesMoney
  <2>3. /\ \A n \in References : n # ref[w] => remote'[job[w]][n] = remote[job[w]][n]
        /\ \A p \in Orders : p # job[w] => remote'[p] = remote[p]
        /\ UNCHANGED order
    BY <1>4 DEF Send
  <2>4. QED BY <2>1, <2>2, <2>3
<1>5. ASSUME NEW w \in Workers, Record(w) PROVE Clean(o)'
  <2>1. job[w] \in Orders
    BY <1>5 DEF Record, Held, HeldBy, Busy
  <2>2. CASE answer[w] \in {"refused", "short", "blocked"}
    <3>1. Nowhere(job[w])
      BY <1>5, <2>2 DEF Record, Waits
    <3>2. /\ UNCHANGED remote
          /\ o # job[w] => status'[o] = status[o] /\ attempts'[o] = attempts[o]
                                                  /\ journal'[o] = journal[o]
      BY <1>5 DEF Record
    <3>3. attempts' \in [Orders -> References]
      BY NextOrderTypes DEF HInv
    <3>4. QED BY <3>1, <3>2, <3>3
  <2>3. CASE answer[w] \notin {"refused", "short", "blocked"}
    BY <1>5, <2>1, <2>3 DEF Record, RecordedStatus
  <2>4. QED BY <2>2, <2>3
<1>6. ASSUME NEW p \in Orders, Cancel(p) PROVE Clean(o)'
  BY <1>6 DEF Cancel
<1>7. ASSUME NEW p \in Orders, NEW n \in References, NEW st \in Reports(p, n), Apply(p, st)
      PROVE  Clean(o)'
  <2>1. Clean(p)
    BY CleanOrders
  <2>2. remote[p][n] # "absent" /\ (st \in {"failed", "reversed"} => remote[p][n] = st)
    BY <1>7 DEF Reports
  <2>3. n = attempts[p] /\ status[p] = "processing"
    BY <1>7, <2>1, <2>2 DEF Apply
  <2>4. journal[p] = {"hold"}
    BY <2>3 DEF StatusMatchesMoney
  <2>5. /\ UNCHANGED <<attempts, remote>>
        /\ \A q \in Orders : q # p => status'[q] = status[q] /\ journal'[q] = journal[q]
    BY <1>7 DEF Apply
  <2>6. status'[p] \notin {"none", "queued"}
    BY <1>7 DEF Apply
  <2>7. "release" \in journal'[p] => st \in {"failed", "reversed"}
    BY <1>7, <2>4 DEF Apply
  <2>8. QED BY <2>1, <2>2, <2>3, <2>5, <2>6, <2>7
<1>8. ASSUME NEW p \in Orders, Sync(p) \/ \E n \in References : Webhook(p, n) PROVE Clean(o)'
  BY <1>7, <1>8 DEF Sync, Webhook
<1>9. ASSUME NEW p \in Orders, NEW n \in References, ProviderSettles(p, n) \/ BankReverses(p, n)
      PROVE  Clean(o)'
  <2>1. Clean(p)
    BY CleanOrders
  <2>2. n = attempts[p] /\ status[p] \notin {"none", "queued"} /\ remote[p][n] \in {"pending", "paid"}
    BY <1>9, <2>1 DEF ProviderSettles, BankReverses
  <2>3. "release" \notin journal[p]
    BY <2>1, <2>2
  <2>4. /\ \A m \in References : m # n => remote'[p][m] = remote[p][m]
        /\ \A q \in Orders : q # p => remote'[q] = remote[q]
        /\ UNCHANGED order
    BY <1>9 DEF ProviderSettles, BankReverses
  <2>5. QED BY <2>1, <2>2, <2>3, <2>4
<1>10. CASE UNCHANGED <<status, attempts, journal, remote>>
  BY <1>10
<1> HIDE DEF Clean
<1>11. QED
  BY <1>1, <1>2, <1>3, <1>4, <1>5, <1>6, <1>8, <1>9, <1>10
  DEF HInv, Next, Step, CronRun, SendNow, Snapshot, Crash, Age, vars

\* The share of one worker in Waits.
WaitsFor(w) == Waiting(w) => status[job[w]] = "processing" /\ Nowhere(job[w])

LEMMA NextWaits ==
  ASSUME Honest, HInv, [Next]_vars, NEW u \in Workers
  PROVE  WaitsFor(u)'
<1> OrderTypes /\ WorkerTypes /\ Held /\ WaitsFor(u)
  BY TypeHalves DEF HInv, BInv, Waits, WaitsFor, Waiting
<1> USE DEF WorkerTypes, Waiting, WaitsFor, Nowhere, SetStatus, DropOrder, order, worker
<1>1. ASSUME NEW w \in Workers, NEW o \in Orders, Create(w, o) PROVE WaitsFor(u)'
  <2>1. Nowhere(o)
    BY <1>1, CleanOrders DEF Create, Clean
  <2>2. CASE u = w
    BY <1>1, <2>1, <2>2 DEF Create, OrderTypes
  <2>3. CASE u # w
    BY <1>1, <2>3 DEF Create, OrderTypes
  <2>4. QED BY <2>2, <2>3
<1>2. ASSUME NEW w \in Workers, NEW o \in todo[w], Claim(w, o) PROVE WaitsFor(u)'
  <2>1. o \in Orders /\ (status[o] = "queued" => Nowhere(o))
    BY CleanOrders DEF Clean
  <2>2. CASE u = w
    BY <1>2, <2>1, <2>2 DEF Claim, OrderTypes
  <2>3. CASE u # w
    <3>1. pc'[u] = pc[u] /\ job'[u] = job[u] /\ answer'[u] = answer[u] /\ UNCHANGED remote
      BY <1>2, <2>3 DEF Claim
    <3>2. status[o] = "queued" \/ UNCHANGED status
      BY <1>2 DEF Claim
    <3>3. \A p \in Orders : p # o => status'[p] = status[p]
      BY <1>2, <2>1 DEF Claim, OrderTypes
    <3>4. Waiting(u) => job[u] \in Orders /\ status[job[u]] = "processing"
      BY DEF Held, HeldBy, Busy
    <3>5. QED BY <3>1, <3>2, <3>3, <3>4
  <2>4. QED BY <2>2, <2>3
<1>3. ASSUME NEW w \in Workers, u # w, Busy(w),
             UNCHANGED <<pc[u], job[u], answer[u]>>,
             \A o \in Orders : o # job[w] => status'[o] = status[o] /\ remote'[o] = remote[o]
      PROVE  WaitsFor(u)'
  <2>1. Waiting(u) => job[u] \in Orders /\ job[u] # job[w]
    BY <1>3 DEF Held, HeldBy, Busy
  <2>2. QED BY <1>3, <2>1
<1>4. ASSUME NEW w \in Workers, pc'[w] \in {"idle", "joined", "scan"} PROVE ~Waiting(w)'
  BY <1>4
<1>5. ASSUME NEW w \in Workers, LowBalance(w) \/ Record(w) \/ JoinQueue(w) PROVE WaitsFor(u)'
  <2>1. pc'[w] \in {"idle", "joined", "scan"}
    BY <1>5 DEF LowBalance, Record, JoinQueue, EndJob, BreakRun
  <2>2. CASE u = w
    BY <1>4, <2>1, <2>2
  <2>3. CASE u # w
    <3>1. Busy(w) /\ UNCHANGED <<pc[u], job[u], answer[u]>>
      BY <1>5, <2>3 DEF LowBalance, Record, JoinQueue, EndJob, BreakRun, Busy
    <3>2. \A o \in Orders : o # job[w] => status'[o] = status[o]
      BY <1>5 DEF LowBalance, Record, JoinQueue, OrderTypes
    <3>3. UNCHANGED remote
      BY <1>5 DEF LowBalance, Record, JoinQueue
    <3>4. QED BY <1>3, <2>3, <3>1, <3>2, <3>3
  <2>4. QED BY <2>2, <2>3
<1>6. ASSUME NEW w \in Workers, Crash(w) PROVE WaitsFor(u)'
  <2>1. CASE u = w
    BY <1>6, <2>1 DEF Crash, BreakRun
  <2>2. CASE u # w
    BY <1>6, <2>2 DEF Crash, BreakRun
  <2>3. QED BY <2>1, <2>2
<1>7. ASSUME NEW w \in Workers, SendNow(w) \/ \E ids : Snapshot(w, ids) PROVE WaitsFor(u)'
  BY <1>7 DEF SendNow, Snapshot
<1>8. ASSUME NEW w \in Workers, NEW outcome \in Outcomes, Send(w, outcome) PROVE WaitsFor(u)'
  <2>1. /\ job[w] \in Orders
        /\ ref[w] = attempts[job[w]]
    BY <1>8 DEF Send, Held, HeldBy, Busy
  <2>2. CASE u = w
    <3>1. WaitsFor(w) /\ Waiting(w)
      BY <1>8, <2>2 DEF Send
    <3>2. remote[job[w]][ref[w]] = "absent"
      BY <2>1, <3>1 DEF OrderTypes
    <3>3. answer'[w] = outcome[1] /\ remote' = [remote EXCEPT ![job[w]][ref[w]] = outcome[2]]
      BY <1>8, <3>2 DEF Send
    <3>4. answer'[w] \in {"refused", "short", "blocked"} => UNCHANGED remote
      BY <3>2, <3>3, OutcomeData DEF OrderTypes
    <3>5. UNCHANGED <<status, job>> /\ pc'[w] = "record"
      BY <1>8 DEF Send
    <3>6. QED BY <2>2, <3>1, <3>4, <3>5
  <2>3. CASE u # w
    <3>1. Busy(w) /\ UNCHANGED <<pc[u], job[u], answer[u]>>
      BY <1>8, <2>3 DEF Send, Busy
    <3>2. \A o \in Orders : o # job[w] => status'[o] = status[o] /\ remote'[o] = remote[o]
      BY <1>8 DEF Send, OrderTypes
    <3>3. QED BY <1>3, <2>3, <3>1, <3>2
  <2>4. QED BY <2>2, <2>3
<1>9. ASSUME NEW o \in Orders, NEW n \in References, remote[o][n] # "absent",
             UNCHANGED worker,
             \A p \in Orders : p # o => status'[p] = status[p] /\ remote'[p] = remote[p]
      PROVE  WaitsFor(u)'
  <2>1. Waiting(u) => job[u] # o /\ job[u] \in Orders
    BY <1>9 DEF Held, HeldBy, Busy
  <2>2. QED BY <1>9, <2>1
<1>10. ASSUME NEW o \in Orders, NEW n \in References, NEW st \in Reports(o, n), Apply(o, st)
       PROVE  WaitsFor(u)'
  <2>1. remote[o][n] # "absent" /\ UNCHANGED <<worker, remote>>
    BY <1>10, NoReports DEF Apply
  <2>2. \A p \in Orders : p # o => status'[p] = status[p]
    BY <1>10 DEF Apply, OrderTypes
  <2>3. QED BY <1>9, <2>1, <2>2
<1>11. ASSUME NEW o \in Orders, Sync(o) \/ \E n \in References : Webhook(o, n) PROVE WaitsFor(u)'
  <2>1. CASE \E n \in References : Webhook(o, n)
    BY <1>10, <2>1 DEF Webhook
  <2>2. CASE Sync(o)
    <3>1. provRef[o] \in References
      BY <2>2 DEF Sync, OrderTypes
    <3>2. QED BY <1>10, <2>2, <3>1 DEF Sync
  <2>3. QED BY <1>11, <2>1, <2>2
<1>12. ASSUME NEW o \in Orders, NEW n \in References, ProviderSettles(o, n) \/ BankReverses(o, n)
       PROVE  WaitsFor(u)'
  <2>1. remote[o][n] # "absent" /\ UNCHANGED <<worker, status>>
    BY <1>12 DEF ProviderSettles, BankReverses
  <2>2. \A p \in Orders : p # o => remote'[p] = remote[p]
    BY <1>12 DEF ProviderSettles, BankReverses, OrderTypes
  <2>3. QED BY <1>9, <2>1, <2>2
<1>13. ASSUME NEW o \in Orders, Cancel(o) PROVE WaitsFor(u)'
  <2>1. Waiting(u) => job[u] # o /\ job[u] \in Orders
    BY <1>13 DEF Cancel, Held, HeldBy, Busy
  <2>2. QED BY <1>13, <2>1 DEF Cancel, OrderTypes
<1>14. CASE UNCHANGED <<status, remote, worker>>
  BY <1>14
<1> HIDE DEF WaitsFor
<1>15. QED
  BY <1>1, <1>2, <1>5, <1>6, <1>7, <1>8, <1>11, <1>12, <1>13, <1>14
  DEF Next, Step, CronRun, Age, vars

LEMMA NextHInv ==
  ASSUME Honest, HInv, [Next]_vars
  PROVE  HInv'
<1>1. BInv'
  BY NextTypeOK, NextMoney, NextFresh, NextHeld, NextBounded, NextPollsCurrent DEF HInv, BInv
<1>2. OrderTypes'
  BY <1>1 DEF BInv, TypeOK, OrderTypes
<1>3. \A o \in Orders : Clean(o)'
  BY NextClean
<1>4. Unsent' /\ NoRefundedPayout'
  BY <1>2, <1>3 DEF Unsent, NoRefundedPayout, Clean, OrderTypes
<1>5. Waits'
  BY NextWaits DEF Waits, WaitsFor, Waiting
<1>6. QED BY <1>1, <1>4, <1>5 DEF HInv

LEMMA HInvariance == Honest => (Spec => []HInv)
<1> SUFFICES ASSUME Honest PROVE Spec => []HInv
  OBVIOUS
<1>1. HInv /\ [Next]_vars => HInv'
  BY NextHInv
<1>2. QED BY <1>1, InitHInv, PTL DEF Spec

-----------------------------------------------------------------------------
(* The payout contract, when the provider keeps nothing that it rejected. *)

\* What the provider has made of the transfer in use.
Current(o) == remote[o][attempts[o]]

PaidOut(o) == Current(o) \in {"paid", "reversed"}

\* A hold is captured for a transfer that was paid.
PaidFor == \A o \in Orders : "capture" \in journal[o] => PaidOut(o)

\* A provider that says it paid has.
TruePaid == \A w \in Workers : pc[w] = "record" /\ answer[w] = "paid" => PaidOut(job[w])

RInv == HInv /\ PaidFor /\ TruePaid

\* The steps of one order's money and transfer.
Reserves(o) ==
  /\ journal[o] = {}
  /\ journal' = [journal EXCEPT ![o] = {"hold"}]
  /\ UNCHANGED remote

Captures(o) ==
  /\ journal[o] = {"hold"}
  /\ PaidOut(o)
  /\ Capture(o)
  /\ UNCHANGED remote

Releases(o) ==
  /\ journal[o] = {"hold"}
  /\ Current(o) \notin {"pending", "paid"}
  /\ Release(o)
  /\ UNCHANGED remote

Transfers(o) ==
  /\ \E st \in TransferStates :
       /\ remote' = [remote EXCEPT ![o][attempts[o]] = st]
       /\ \/ Current(o) \in {"absent", "pending"} /\ journal[o] = {"hold"} /\ st # "reversed"
          \/ Current(o) = "pending" /\ st = "failed"
          \/ Current(o) = "paid" /\ st = "reversed"
  /\ UNCHANGED <<journal, attempts>>

\* An order that can still be settled has its money held.
LEMMA OpenIsHeld ==
  ASSUME RInv, NEW o \in Orders, status[o] \notin {"none"} \cup Final
  PROVE  status[o] \in {"processing", "queued"} /\ journal[o] = {"hold"}
  BY TypeHalves DEF RInv, HInv, BInv, OrderTypes, StatusMatchesMoney

\* What the provider reports is about the transfer in use, and true of it.
LEMMA TrueReports ==
  ASSUME RInv, NEW o \in Orders, NEW n \in References, NEW st \in Reports(o, n)
  PROVE  /\ n = attempts[o]
         /\ st = "success" => PaidOut(o)
         /\ st \in {"failed", "reversed"} => Current(o) = st
<1>1. remote[o][n] # "absent"
  BY NoReports
<1>2. n = attempts[o]
  BY <1>1, CleanOrders DEF RInv, Clean
<1>3. QED BY <1>2 DEF Reports, PaidOut, Current

LEMMA MoneyMoves ==
  ASSUME RInv, [Next]_vars
  PROVE  \/ \E o \in Orders : Reserves(o) \/ Captures(o) \/ Releases(o) \/ Transfers(o)
         \/ UNCHANGED <<journal, remote>>
<1> DEFINE Goal == \/ \E o \in Orders : Reserves(o) \/ Captures(o) \/ Releases(o) \/ Transfers(o)
                   \/ UNCHANGED <<journal, remote>>
<1> OrderTypes /\ WorkerTypes /\ StatusMatchesMoney /\ Held /\ Waits
  BY TypeHalves DEF RInv, HInv, BInv
<1> USE DEF order
<1>1. ASSUME NEW w \in Workers, NEW o \in Orders, Create(w, o) PROVE Goal
  BY <1>1 DEF Create, StatusMatchesMoney, Reserves
<1>2. ASSUME NEW w \in Workers, NEW o \in todo[w], Claim(w, o) PROVE Goal
  <2>1. CASE UNCHANGED journal
    BY <1>2, <2>1 DEF Claim
  <2>2. CASE status[o] = "queued" /\ Release(o)
    <3>1. o \in Orders /\ Nowhere(o)
      BY <2>2, CleanOrders DEF WorkerTypes, RInv, Clean
    <3>2. journal[o] = {"hold"} /\ Current(o) = "absent"
      BY <2>2, <3>1 DEF StatusMatchesMoney, Nowhere, Current, OrderTypes
    <3>3. Releases(o)
      BY <1>2, <2>2, <3>2 DEF Releases, Claim
    <3>4. QED BY <3>1, <3>3
  <2>3. QED BY <1>2, <2>1, <2>2 DEF Claim
<1>3. ASSUME NEW w \in Workers, NEW outcome \in Outcomes, Send(w, outcome) PROVE Goal
  <2>1. job[w] \in Orders /\ ref[w] = attempts[job[w]] /\ status[job[w]] = "processing"
    BY <1>3 DEF Send, Held, HeldBy, Busy, Waits
  <2>2. journal[job[w]] = {"hold"}
    BY <2>1 DEF StatusMatchesMoney
  <2>3. outcome[2] \in TransferStates \ {"reversed"}
    BY OutcomeData DEF TransferStates
  <2>4. Transfers(job[w]) \/ UNCHANGED remote
    BY <1>3, <2>1, <2>2, <2>3 DEF Send, Transfers, Current
  <2>5. QED BY <1>3, <2>1, <2>4 DEF Send
<1>4. ASSUME NEW w \in Workers, Record(w) PROVE Goal
  <2>1. job[w] \in Orders /\ status[job[w]] \in {"processing"} \cup Final
    BY <1>4 DEF Record, Held, HeldBy, Busy
  <2>2. CASE UNCHANGED journal
    BY <1>4, <2>2 DEF Record
  <2>3. CASE status[job[w]] \notin Final /\ answer[w] = "paid" /\ Capture(job[w])
    <3>1. Captures(job[w])
      BY <1>4, <2>1, <2>3, OpenIsHeld DEF Record, Captures, RInv, TruePaid, Final
    <3>2. QED BY <2>1, <3>1
  <2>4. CASE status[job[w]] \notin Final /\ answer[w] = "refused" /\ Release(job[w])
    <3>1. Current(job[w]) = "absent"
      BY <1>4, <2>1, <2>4 DEF Record, Waits, Nowhere, Current, OrderTypes
    <3>2. Releases(job[w])
      BY <1>4, <2>1, <2>4, <3>1, OpenIsHeld DEF Record, Releases, Final
    <3>3. QED BY <2>1, <3>2
  <2>5. QED BY <1>4, <2>2, <2>3, <2>4 DEF Record
<1>5. ASSUME NEW o \in Orders, Cancel(o) PROVE Goal
  <2>1. journal[o] = {"hold"} /\ Current(o) = "absent"
    BY <1>5, CleanOrders DEF Cancel, StatusMatchesMoney, RInv, Clean, Nowhere, Current, OrderTypes
  <2>2. QED BY <1>5, <2>1 DEF Cancel, Releases
<1>6. ASSUME NEW o \in Orders, NEW n \in References, NEW st \in Reports(o, n), Apply(o, st)
      PROVE  Goal
  <2>1. journal[o] = {"hold"}
    BY <1>6, OpenIsHeld DEF Apply
  <2>2. QED BY <1>6, <2>1, TrueReports DEF Apply, Captures, Releases
<1>7. ASSUME NEW o \in Orders, Sync(o) PROVE Goal
  <2>1. provRef[o] \in References
    BY <1>7 DEF Sync, OrderTypes
  <2>2. QED BY <1>6, <1>7, <2>1 DEF Sync
<1>8. ASSUME NEW o \in Orders, NEW n \in References, Webhook(o, n) PROVE Goal
  BY <1>6, <1>8 DEF Webhook
<1>9. ASSUME NEW o \in Orders, NEW n \in References, ProviderSettles(o, n) PROVE Goal
  <2>1. n = attempts[o] /\ status[o] \notin {"none", "queued"}
    BY <1>9, CleanOrders DEF ProviderSettles, RInv, Clean, Nowhere
  <2>2. Current(o) = "pending"
    BY <1>9, <2>1 DEF ProviderSettles, Current
  <2>3. journal[o] = {"hold"}
    <3>1. "release" \notin journal[o]
      BY <2>2, CleanOrders DEF RInv, Clean, Current
    <3>2. "capture" \notin journal[o]
      BY <2>2 DEF RInv, PaidFor, PaidOut
    <3>3. QED BY <2>1, <3>1, <3>2 DEF StatusMatchesMoney, OrderTypes, Final
  <2>4. QED BY <1>9, <2>1, <2>2, <2>3 DEF ProviderSettles, Transfers, TransferStates
<1>10. ASSUME NEW o \in Orders, NEW n \in References, BankReverses(o, n) PROVE Goal
  <2>1. n = attempts[o]
    BY <1>10, CleanOrders DEF BankReverses, RInv, Clean
  <2>2. QED BY <1>10, <2>1 DEF BankReverses, Transfers, TransferStates, Current
<1>11. ASSUME NEW w \in Workers, \/ JoinQueue(w) \/ SendNow(w) \/ LowBalance(w) \/ Crash(w)
                                 \/ \E ids : Snapshot(w, ids)
       PROVE  Goal
  BY <1>11 DEF JoinQueue, SendNow, LowBalance, Crash, Snapshot
<1>12. ASSUME NEW o \in Orders, Age(o) PROVE Goal
  BY <1>12 DEF Age
<1>13. ASSUME UNCHANGED vars PROVE Goal
  BY <1>13 DEF vars
<1> HIDE DEF Goal
<1>14. Goal
  BY <1>1, <1>2, <1>3, <1>4, <1>5, <1>7, <1>8, <1>9, <1>10, <1>11, <1>12, <1>13
  DEF Next, Step, CronRun
<1>15. QED BY <1>14 DEF Goal

\* A paid transfer stays the one in use, and paid or taken back by the bank.
LEMMA StaysPaid ==
  ASSUME RInv, [Next]_vars, NEW o \in Orders, PaidOut(o)
  PROVE  PaidOut(o)'
<1> OrderTypes /\ WorkerTypes /\ Held /\ Waits
  BY TypeHalves DEF RInv, HInv, BInv
<1>1. attempts'[o] = attempts[o]
  <2>1. ASSUME NEW w \in Workers, Record(w) PROVE attempts'[o] = attempts[o]
    <3>1. answer[w] \in {"short", "blocked"} => job[w] # o
      BY <2>1 DEF Record, Waits, Nowhere, PaidOut, Current, OrderTypes
    <3>2. QED BY <2>1, <3>1 DEF Record, order, OrderTypes
  <2>2. CASE UNCHANGED attempts
    BY <2>2
  <2>3. QED
    BY <2>1, <2>2
    DEF Next, Step, CronRun, Create, JoinQueue, SendNow, Snapshot, Claim, LowBalance, Send, Crash,
        Cancel, Sync, Webhook, Apply, Age, ProviderSettles, BankReverses, order, vars
<1>2. ASSUME NEW p \in Orders, Transfers(p) PROVE PaidOut(o)'
  <2>1. CASE p = o
    BY <1>2, <2>1 DEF Transfers, PaidOut, Current, OrderTypes
  <2>2. CASE p # o
    BY <1>2, <2>2 DEF Transfers, PaidOut, Current, OrderTypes
  <2>3. QED BY <2>1, <2>2
<1>3. CASE UNCHANGED remote
  BY <1>1, <1>3 DEF PaidOut, Current
<1>4. QED BY <1>2, <1>3, MoneyMoves DEF Reserves, Captures, Releases

LEMMA NextPaidFor ==
  ASSUME RInv, [Next]_vars
  PROVE  PaidFor'
<1> SUFFICES ASSUME NEW o \in Orders, "capture" \in journal'[o], ~PaidOut(o) PROVE FALSE
  BY StaysPaid DEF PaidFor
<1> OrderTypes
  BY TypeHalves DEF RInv, HInv, BInv
<1>1. "capture" \notin journal[o]
  BY DEF RInv, PaidFor
<1>2. QED
  BY <1>1, MoneyMoves DEF Reserves, Captures, Releases, Transfers, Capture, Release, OrderTypes

LEMMA NextTruePaid ==
  ASSUME RInv, [Next]_vars
  PROVE  TruePaid'
<1> SUFFICES ASSUME NEW u \in Workers, pc'[u] = "record", answer'[u] = "paid" PROVE PaidOut(job[u])'
  BY DEF TruePaid
<1> OrderTypes /\ WorkerTypes /\ Held /\ Waits
  BY TypeHalves DEF RInv, HInv, BInv
<1>1. CASE UNCHANGED <<pc[u], job[u], answer[u]>>
  <2>1. job[u] \in Orders /\ PaidOut(job[u])
    BY <1>1 DEF RInv, TruePaid, Held, HeldBy, Busy
  <2>2. QED BY <1>1, <2>1, StaysPaid DEF PaidOut, Current
<1>2. CASE \E outcome \in Outcomes : Send(u, outcome)
  <2>1. PICK outcome \in Outcomes : Send(u, outcome)
    BY <1>2
  <2>2. job[u] \in Orders /\ ref[u] = attempts[job[u]] /\ Nowhere(job[u])
    BY <2>1 DEF Send, Held, HeldBy, Busy, Waits
  <2>3. remote[job[u]][ref[u]] = "absent"
    BY <2>2 DEF Nowhere, OrderTypes
  <2>4. outcome[1] = "paid" /\ remote' = [remote EXCEPT ![job[u]][ref[u]] = outcome[2]]
    BY <2>1, <2>3 DEF Send, WorkerTypes
  <2>5. outcome[2] = "paid" /\ UNCHANGED <<attempts, job>>
    BY <2>1, <2>4, OutcomeData DEF Send, order
  <2>6. QED BY <2>2, <2>4, <2>5 DEF PaidOut, Current, OrderTypes
<1>3. ASSUME NEW w \in Workers, NEW outcome \in Outcomes, Send(w, outcome), w # u
      PROVE  UNCHANGED <<pc[u], job[u], answer[u]>>
  BY <1>3 DEF Send, WorkerTypes
<1>4. ASSUME NEW w \in Workers, \/ JoinQueue(w) \/ SendNow(w) \/ LowBalance(w) \/ Record(w) \/ Crash(w)
                                \/ \E ids : Snapshot(w, ids)
                                \/ \E o \in Orders : Create(w, o)
                                \/ \E o \in todo[w] : Claim(w, o)
      PROVE  UNCHANGED <<pc[u], job[u], answer[u]>>
  <2>1. CASE w = u
    BY <1>4, <2>1 DEF JoinQueue, SendNow, LowBalance, Record, Crash, Snapshot, Create, Claim, EndJob,
       BreakRun, WorkerTypes
  <2>2. CASE w # u
    BY <1>4, <2>2 DEF JoinQueue, SendNow, LowBalance, Record, Crash, Snapshot, Create, Claim, EndJob,
       BreakRun, DropOrder, WorkerTypes
  <2>3. QED BY <2>1, <2>2
<1>5. ASSUME UNCHANGED worker PROVE UNCHANGED <<pc[u], job[u], answer[u]>>
  BY <1>5 DEF worker
<1>6. QED
  BY <1>1, <1>2, <1>3, <1>4, <1>5
  DEF Next, Step, CronRun, Cancel, Sync, Webhook, Apply, Age, ProviderSettles, BankReverses, vars, worker

LEMMA RInvariance == Honest => (Spec => []RInv)
<1> SUFFICES ASSUME Honest PROVE Spec => []RInv
  OBVIOUS
<1>1. Init => RInv
  BY InitHInv DEF Init, RInv, PaidFor, TruePaid
<1>2. RInv /\ [Next]_vars => RInv'
  <2> SUFFICES ASSUME RInv, [Next]_vars PROVE RInv'
    OBVIOUS
  <2>1. HInv'
    BY NextHInv DEF RInv
  <2>2. QED BY <2>1, NextPaidFor, NextTruePaid DEF RInv
<1>3. QED BY <1>1, <1>2, PTL DEF Spec

\* The delivery of an order is read off the transfer in use: the others came to nothing.
LEMMA GoodsOfCurrent ==
  ASSUME RInv, NEW o \in Orders
  PROVE  Goods[o] = IF Current(o) = "paid" THEN "delivered"
                    ELSE IF Current(o) = "reversed" THEN "undone" ELSE "none"
<1>1. attempts[o] \in References /\ \A n \in References : n # attempts[o] => remote[o][n] = "absent"
  BY TypeHalves, CleanOrders DEF RInv, HInv, BInv, OrderTypes, Clean
<1>2. QED BY <1>1 DEF Goods, Current

LEMMA ReserveStep ==
  ASSUME RInv, NEW o \in Orders, Reserves(o)
  PROVE  Contract!Reserve(o)
<1> OrderTypes
  BY TypeHalves DEF RInv, HInv, BInv
<1>1. Purse[o] = "idle" /\ Purse' = [Purse EXCEPT ![o] = "reserved"]
  BY DEF Reserves, Purse, OrderTypes
<1>2. UNCHANGED Goods
  BY DEF Reserves, Goods
<1>3. QED BY <1>1, <1>2 DEF Contract!Reserve

LEMMA SpendStep ==
  ASSUME RInv, NEW o \in Orders, Captures(o)
  PROVE  Contract!Spend(o)
<1> OrderTypes
  BY TypeHalves DEF RInv, HInv, BInv
<1>1. journal' = [journal EXCEPT ![o] = {"hold", "capture"}]
  BY DEF Captures, Capture, OrderTypes
<1>2. Purse[o] = "reserved" /\ Purse' = [Purse EXCEPT ![o] = "spent"]
  BY <1>1 DEF Captures, Purse, OrderTypes
<1>3. Goods[o] # "none" /\ UNCHANGED Goods
  BY GoodsOfCurrent DEF Captures, PaidOut, Goods
<1>4. QED BY <1>2, <1>3 DEF Contract!Spend

LEMMA ReturnStep ==
  ASSUME RInv, NEW o \in Orders, Releases(o)
  PROVE  Contract!Return(o)
<1> OrderTypes
  BY TypeHalves DEF RInv, HInv, BInv
<1>1. journal' = [journal EXCEPT ![o] = {"hold", "release"}]
  BY DEF Releases, Release, OrderTypes
<1>2. Purse[o] = "reserved" /\ Purse' = [Purse EXCEPT ![o] = "returned"]
  BY <1>1 DEF Releases, Purse, OrderTypes
<1>3. Goods[o] # "delivered" /\ UNCHANGED Goods
  BY GoodsOfCurrent DEF Releases, Goods
<1>4. QED BY <1>2, <1>3 DEF Contract!Return

\* A transfer is paid at most once, on money that is held, and only a paid one is taken back.
LEMMA TransferStep ==
  ASSUME RInv, NEW o \in Orders, Transfers(o)
  PROVE  Contract!Deliver(o) \/ Contract!Undo(o) \/ UNCHANGED Contract!vars
<1> OrderTypes
  BY TypeHalves DEF RInv, HInv, BInv
<1>1. PICK st \in TransferStates :
        /\ remote' = [remote EXCEPT ![o][attempts[o]] = st]
        /\ \/ Current(o) \in {"absent", "pending"} /\ journal[o] = {"hold"} /\ st # "reversed"
           \/ Current(o) = "pending" /\ st = "failed"
           \/ Current(o) = "paid" /\ st = "reversed"
  BY DEF Transfers
<1>2. UNCHANGED <<Purse, attempts>> /\ Current(o)' = st
  BY <1>1 DEF Transfers, Purse, Current, OrderTypes
<1>3. Goods' = [Goods EXCEPT ![o] = IF st = "paid" THEN "delivered"
                                    ELSE IF st = "reversed" THEN "undone" ELSE "none"]
  <2>1. \A p \in Orders : p # o => Goods'[p] = Goods[p]
    BY <1>1 DEF Goods, OrderTypes
  <2>2. Goods'[o] = IF st = "paid" THEN "delivered" ELSE IF st = "reversed" THEN "undone" ELSE "none"
    <3>1. \A n \in References : n # attempts[o] => remote[o][n] = "absent"
      BY CleanOrders DEF RInv, Clean
    <3>2. \A n \in References : remote'[o][n] = IF n = attempts[o] THEN st ELSE "absent"
      BY <1>1, <3>1 DEF OrderTypes
    <3>3. attempts[o] \in References
      BY DEF OrderTypes
    <3>4. QED BY <3>2, <3>3 DEF Goods
  <2>3. Goods \in [Orders -> {"none", "delivered", "undone"}] /\ DOMAIN Goods' = Orders
    BY DEF Goods
  <2>4. QED BY <2>1, <2>2, <2>3 DEF Goods
<1>4. CASE st = "paid"
  <2>1. Purse[o] = "reserved" /\ Goods[o] = "none"
    BY <1>1, <1>4, GoodsOfCurrent DEF Purse
  <2>2. QED BY <1>2, <1>3, <1>4, <2>1 DEF Contract!Deliver
<1>5. CASE st = "reversed"
  BY <1>1, <1>2, <1>3, <1>5, GoodsOfCurrent DEF Contract!Undo
<1>6. CASE st \notin {"paid", "reversed"}
  <2>1. Goods[o] = "none"
    BY <1>1, <1>6, GoodsOfCurrent
  <2>2. QED BY <1>2, <1>3, <1>6, <2>1 DEF Contract!vars, Goods
<1>7. QED BY <1>4, <1>5, <1>6

-----------------------------------------------------------------------------
(* Results. *)

\* Types, for any provider.
THEOREM TypeCorrect == Spec => []TypeOK
  BY BInvariance, PTL DEF BInv

\* The customer's money is held, captured or returned as the status says, whatever the
\* provider does and wherever a worker dies (create_and_hold to apply_transfer_status).
THEOREM MoneyMatchesStatus == Spec => []StatusMatchesMoney
  BY BInvariance, PTL DEF BInv

\* Polling never asks about an earlier attempt (execute, sync_processing).
THEOREM PollingIsCurrent == Spec => []PollsCurrent
  BY BInvariance, PTL DEF BInv

\* With an honest provider no refunded withdrawal is paid, or will be.
THEOREM NoRefundOfPaid ==
  ASSUME Honest
  PROVE  Spec => []NoRefundedPayout
  BY HInvariance, PTL DEF HInv

\* With an honest provider no withdrawal is sent twice: not by a retry, a queue run, or a
\* request that overlaps them (execute).
THEOREM SentOnce ==
  ASSUME Honest
  PROVE  Spec => []SendsOnce
<1>1. HInv => SendsOnce
  BY TypeHalves DEF HInv, BInv, OrderTypes, WorkerTypes, SendsOnce, Held, HeldBy, Busy, Waits, Nowhere
<1>2. QED BY <1>1, HInvariance, PTL

\* What clients read of an order moves as OrderStatus says (WithdrawalOrder.status).
THEOREM ClientsSeeOrder == Spec => KeepsStatusOrder
<1>1. Init => Clients!Init
  BY DEF Init, Clients!Init
<1>2. BInv /\ [Next]_vars => [Clients!Next]_status
  <2> SUFFICES ASSUME BInv, [Next]_vars PROVE [Clients!Next]_status
    OBVIOUS
  <2>1. ASSUME NEW o \in Orders, Starts(o) PROVE Clients!Create(o)
    BY <2>1 DEF Starts, SetStatus, Clients!Create
  <2>2. ASSUME NEW o \in Orders, Moves(o)
        PROVE  \E st \in Clients!OpenStatuses \cup Clients!Settled : Clients!Move(o, st)
    BY <2>2 DEF Moves, SetStatus, Clients!Move, Clients!OpenStatuses, Clients!Settled
  <2>3. QED BY <2>1, <2>2, OrderSteps DEF Clients!Next
<1>3. QED BY <1>1, <1>2, BInvariance, PTL DEF Spec, KeepsStatusOrder, Clients!Spec

\* With an honest provider withdrawals keep the payout contract: a hold is paid out at most
\* once, spent only on a payment that was made, and returned only when there is none and
\* will be none (execute, apply_transfer_status and cancel against the provider's books).
THEOREM WithdrawalsKeepContract ==
  ASSUME Honest
  PROVE  Spec => KeepsContract
<1>1. Init => Contract!Init
  BY Constants DEF Init, Contract!Init, Purse, Goods
<1>2. RInv /\ [Next]_vars => [Contract!Next]_Contract!vars
  <2> SUFFICES ASSUME RInv, [Next]_vars PROVE [Contract!Next]_Contract!vars
    OBVIOUS
  <2>1. UNCHANGED <<journal, remote>> => UNCHANGED Contract!vars
    BY DEF Contract!vars, Purse, Goods
  <2>2. QED
    BY <2>1, MoneyMoves, ReserveStep, SpendStep, ReturnStep, TransferStep DEF Contract!Next
<1>3. QED BY <1>1, <1>2, RInvariance, PTL DEF Spec, KeepsContract, Contract!Spec

=============================================================================
