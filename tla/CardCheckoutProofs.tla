------------------------- MODULE CardCheckoutProofs -------------------------
(***************************************************************************)
(* Funding and card checkouts, for any number of checkouts, customers,     *)
(* orders and workers: what is credited was paid in full, what is bought   *)
(* was credited before, what shows delivered has been captured, and nobody *)
(* gets more services than were paid for.                                  *)
(***************************************************************************)
EXTENDS CardCheckout, FiniteSetTheorems, TLAPS

Steps == {"idle", "settle", "look", "deliver", "buy", "wait", "save"}
Seen == {"idle", "reserved", "spent", "returned"}

Jobs ==
  [step : Steps, checkout : Checkouts \cup {Nobody}, again : BOOLEAN,
   bill : Bills \cup {Nobody}, seen : Seen]

\* TypeOK without the workers.
Data ==
  /\ txn \in [Checkouts -> {"none", "processing", "success", "failed"}]
  /\ credited \subseteq Checkouts
  /\ charge \in [Checkouts -> {"open", "declined", "paid", "underpaid"}]
  /\ events \subseteq Checkouts
  /\ checkout \in [Checkouts -> {"pending", "payment_received", "delivered"}]
  /\ link \in [Checkouts -> Bills \cup {Nobody}]
  /\ savings \in [Customers -> Savings]
  /\ balance \in [Customers -> Nat]
  /\ buyer \in [Bills -> Checkouts \cup {Nobody}]
  /\ purse \in [Bills -> Seen]
  /\ goods \in [Bills -> {"none", "delivered"}]

JobData == job \in [Workers -> Jobs]

\* The transaction and the journal are written in one database transaction (settle).
Booked == \A c \in Checkouts : txn[c] = "success" <=> c \in credited

\* What a worker has seen still holds when it acts on it: a charge paid stays paid,
\* a credit stays, and an order that was reserved or captured does not go back.
StillTrue(w) ==
  LET j == job[w]
  IN  /\ j.step # "idle" => j.checkout \in Checkouts
      /\ j.step = "settle" => charge[j.checkout] \in {"paid", "underpaid"}
      /\ j.step \in {"deliver", "buy"} => j.checkout \in credited
      /\ j.step \in {"wait", "save"} => j.bill \in Bills /\ purse[j.bill] # "idle"
      /\ j.step = "save" /\ j.seen = "spent" => purse[j.bill] = "spent"

IInv ==
  /\ Data
  /\ JobData
  /\ Booked
  /\ CreditedIsPaid
  /\ NothingUnpaid
  /\ DeliveredIsCaptured
  /\ \A w \in Workers : StillTrue(w)

-----------------------------------------------------------------------------
(* The records of the workers. *)

LEMMA IdleJob == Idle \in Jobs /\ Idle.step = "idle"
  BY DEF Idle, Jobs, Steps, Seen

LEMMA AtJob ==
  ASSUME NEW c \in Checkouts, NEW s \in Steps, NEW again \in BOOLEAN
  PROVE  /\ At(s, c, again) \in Jobs
         /\ At(s, c, again).step = s
         /\ At(s, c, again).checkout = c
  BY DEF At, Idle, Jobs, Seen

LEMMA LookJob ==
  ASSUME NEW c \in Checkouts
  PROVE  /\ At("look", c, FALSE) \in Jobs
         /\ At("look", c, FALSE).step = "look"
         /\ At("look", c, FALSE).checkout = c
<1>1. "look" \in Steps /\ FALSE \in BOOLEAN
  BY DEF Steps
<1>2. QED BY <1>1, AtJob

LEMMA DeliverJob ==
  ASSUME NEW c \in Checkouts, NEW again \in BOOLEAN
  PROVE  /\ At("deliver", c, again) \in Jobs
         /\ At("deliver", c, again).step = "deliver"
         /\ At("deliver", c, again).checkout = c
<1>1. "deliver" \in Steps
  BY DEF Steps
<1>2. QED BY <1>1, AtJob

LEMMA AfterSettleJob ==
  ASSUME NEW c \in Checkouts, NEW said, NEW viewing \in BOOLEAN
  PROVE  /\ AfterSettle(c, said, viewing) \in Jobs
         /\ AfterSettle(c, said, viewing).step \in {"idle", "look", "deliver"}
         /\ AfterSettle(c, said, viewing).step # "idle" => AfterSettle(c, said, viewing).checkout = c
         /\ AfterSettle(c, said, viewing).step = "deliver" => Credits(c, said)
<1>1. CASE Credits(c, said)
  <2>1. AfterSettle(c, said, viewing) = At("deliver", c, viewing)
    BY <1>1 DEF AfterSettle
  <2>2. QED BY <1>1, <2>1, DeliverJob
<1>2. CASE ~Credits(c, said) /\ viewing
  <2>1. AfterSettle(c, said, viewing) = At("look", c, FALSE)
    BY <1>2 DEF AfterSettle
  <2>2. At("look", c, FALSE) \in Jobs /\ At("look", c, FALSE).step = "look"
        /\ At("look", c, FALSE).checkout = c
    BY LookJob
  <2>3. QED BY <2>1, <2>2
<1>3. CASE ~Credits(c, said) /\ ~viewing
  <2>1. AfterSettle(c, said, viewing) = Idle
    BY <1>3 DEF AfterSettle
  <2>2. QED BY <2>1, IdleJob
<1>4. QED BY <1>1, <1>2, <1>3

\* A worker begins another job.
LEMMA NewJob ==
  ASSUME JobData, NEW w \in Workers, NEW j \in Jobs, job' = [job EXCEPT ![w] = j]
  PROVE  JobData' /\ job'[w] = j /\ \A v \in Workers : v # w => job'[v] = job[v]
  BY DEF JobData

LEMMA BuyingJob ==
  ASSUME JobData, NEW w \in Workers, job' = [job EXCEPT ![w].step = "buy"]
  PROVE  /\ JobData'
         /\ job'[w].step = "buy" /\ job'[w].checkout = job[w].checkout
         /\ \A v \in Workers : v # w => job'[v] = job[v]
  BY DEF JobData, Jobs, Steps

LEMMA WaitingJob ==
  ASSUME JobData, NEW w \in Workers, NEW b \in Bills,
         job' = [job EXCEPT ![w].step = "wait", ![w].bill = b]
  PROVE  /\ JobData'
         /\ job'[w].step = "wait" /\ job'[w].checkout = job[w].checkout /\ job'[w].bill = b
         /\ \A v \in Workers : v # w => job'[v] = job[v]
  BY DEF JobData, Jobs, Steps

LEMMA SavingJob ==
  ASSUME JobData, NEW w \in Workers, NEW p \in Seen,
         job' = [job EXCEPT ![w].step = "save", ![w].seen = p]
  PROVE  /\ JobData'
         /\ job'[w].step = "save" /\ job'[w].checkout = job[w].checkout
         /\ job'[w].bill = job[w].bill /\ job'[w].seen = p
         /\ \A v \in Workers : v # w => job'[v] = job[v]
  BY DEF JobData, Jobs, Steps

LEMMA EndedJob ==
  ASSUME JobData, NEW w \in Workers, job[w].checkout \in Checkouts, EndDelivery(w)
  PROVE  /\ JobData'
         /\ job'[w].step \in {"idle", "look"}
         /\ job'[w].step = "look" => job'[w].checkout \in Checkouts
         /\ \A v \in Workers : v # w => job'[v] = job[v]
<1>1. CASE job[w].again
  <2> DEFINE j == At("look", job[w].checkout, FALSE)
  <2>1. job' = [job EXCEPT ![w] = j]
    BY <1>1 DEF EndDelivery, JobData
  <2>2. j \in Jobs /\ j.step = "look" /\ j.checkout \in Checkouts
    BY LookJob
  <2> HIDE DEF j
  <2>3. QED BY <2>1, <2>2, NewJob
<1>2. CASE ~job[w].again
  <2>1. job' = [job EXCEPT ![w] = Idle]
    BY <1>2 DEF EndDelivery, JobData
  <2>2. QED BY <2>1, IdleJob, NewJob
<1>3. QED BY <1>1, <1>2

-----------------------------------------------------------------------------
(* What no step takes back. *)

Lasting ==
  /\ credited \subseteq credited'
  /\ \A c \in Checkouts : charge[c] \in {"paid", "underpaid"} => charge'[c] = charge[c]
  /\ \A b \in Bills : /\ purse[b] # "idle" => purse'[b] # "idle"
                      /\ purse[b] = "spent" => purse'[b] = "spent"

\* A settlement credits only what the gateway reports as paid in full.
LEMMA SettleBooks ==
  ASSUME IInv, NEW c \in Checkouts, NEW said, Settle(c, said),
         said = "paid" => charge[c] = "paid", UNCHANGED charge
  PROVE  /\ txn' \in [Checkouts -> {"none", "processing", "success", "failed"}]
         /\ credited \subseteq credited' /\ credited' \subseteq Checkouts
         /\ balance' \in [Customers -> Nat]
         /\ Booked' /\ CreditedIsPaid'
         /\ Credits(c, said) => c \in credited'
<1> USE DEF IInv, Data, Booked, CreditedIsPaid
<1>1. CASE Credits(c, said)
  <2>1. /\ txn' = [txn EXCEPT ![c] = "success"]
        /\ credited' = credited \cup {c}
        /\ balance' = [balance EXCEPT ![Payer[c]] = @ + 1]
    BY <1>1 DEF Settle
  <2>2. charge[c] = "paid" /\ Payer[c] \in Customers
    BY <1>1, Parameters DEF Credits
  <2>3. QED BY <2>1, <2>2
<1>2. CASE ~Credits(c, said)
  BY <1>2 DEF Settle
<1>3. QED BY <1>1, <1>2

\* Every status the gateway reports of a charge is the charge's own.
LEMMA ReportsTrue ==
  ASSUME NEW c \in Checkouts, NEW said \in Reports(c)
  PROVE  said = "paid" => charge[c] = "paid"
  BY DEF Reports

LEMMA Unmoved ==
  ASSUME IInv, Lasting, NEW v \in Workers, job'[v] = job[v]
  PROVE  StillTrue(v)'
<1>1. JobData /\ StillTrue(v)
  BY DEF IInv
<1>2. job[v].step = "settle" => job[v].checkout \in Checkouts
  BY <1>1 DEF StillTrue
<1>3. QED BY <1>1, <1>2 DEF StillTrue, Lasting

\* A step of worker w that has left everything else as IInv wants it.
LEMMA WorkerMoves ==
  ASSUME IInv, NEW w \in Workers, Lasting, StillTrue(w)',
         \A v \in Workers : v # w => job'[v] = job[v],
         Data', JobData', Booked', CreditedIsPaid', NothingUnpaid', DeliveredIsCaptured'
  PROVE  IInv'
<1>1. ASSUME NEW v \in Workers PROVE StillTrue(v)'
  BY Unmoved
<1>2. QED BY <1>1 DEF IInv

\* A step that leaves the money and the orders alone.
LEMMA OnlyJobs ==
  ASSUME IInv, UNCHANGED <<funding, delivery, orders>>
  PROVE  Lasting /\ Data' /\ Booked' /\ CreditedIsPaid' /\ NothingUnpaid' /\ DeliveredIsCaptured'
<1> USE DEF funding, delivery, orders
<1>1. Data' BY DEF IInv, Data
<1>2. Booked' /\ CreditedIsPaid' BY DEF IInv, Booked, CreditedIsPaid
<1>3. NothingUnpaid' BY DEF IInv, NothingUnpaid
<1>4. DeliveredIsCaptured' BY DEF IInv, DeliveredIsCaptured
<1>5. Lasting BY DEF Lasting
<1>6. QED BY <1>1, <1>2, <1>3, <1>4, <1>5

-----------------------------------------------------------------------------
(* Every step keeps IInv. *)

LEMMA SettlesKeeps ==
  ASSUME IInv, NEW w \in Workers, NEW c \in Checkouts, NEW said, NEW viewing \in BOOLEAN,
         Settle(c, said), said = "paid" => charge[c] = "paid",
         job' = [job EXCEPT ![w] = AfterSettle(c, said, viewing)],
         UNCHANGED <<charge, events, delivery, savings, buyer, purse, goods>>
  PROVE  IInv'
<1> USE DEF delivery
<1>1. /\ credited \subseteq credited' /\ credited' \subseteq Checkouts
      /\ Booked' /\ CreditedIsPaid'
      /\ Credits(c, said) => c \in credited'
  BY SettleBooks
<1>2. Data'
  BY SettleBooks DEF IInv, Data
<1>3. Lasting
  BY <1>1 DEF Lasting
<1>4. NothingUnpaid' /\ DeliveredIsCaptured'
  BY <1>1 DEF IInv, NothingUnpaid, DeliveredIsCaptured
<1> DEFINE j == AfterSettle(c, said, viewing)
<1>5. /\ j \in Jobs
      /\ j.step \in {"idle", "look", "deliver"}
      /\ j.step # "idle" => j.checkout = c
      /\ j.step = "deliver" => Credits(c, said)
  BY AfterSettleJob
<1> HIDE DEF j
<1>6. JobData' /\ job'[w] = j /\ \A v \in Workers : v # w => job'[v] = job[v]
  BY <1>5, NewJob DEF j, IInv
<1>7. StillTrue(w)'
  BY <1>1, <1>5, <1>6 DEF StillTrue
<1>8. QED BY <1>1, <1>2, <1>3, <1>4, <1>6, <1>7, WorkerMoves

LEMMA AskKeeps ==
  ASSUME IInv, NEW w \in Workers, NEW c \in Checkouts, NEW viewing \in BOOLEAN, Ask(w, c, viewing)
  PROVE  IInv'
  BY ReportsTrue, SettlesKeeps DEF Ask

LEMMA IngestKeeps ==
  ASSUME IInv, NEW w \in Workers, NEW c \in Checkouts, Ingest(w, c)
  PROVE  IInv'
<1>1. /\ charge[c] \in {"paid", "underpaid"}
      /\ events' = events \cup {c}
      /\ job' = [job EXCEPT ![w] = At("settle", c, FALSE)]
      /\ UNCHANGED <<txn, credited, charge, checkout, link, savings, balance, buyer, purse, goods>>
  BY DEF Ingest, delivery, orders
<1> DEFINE j == At("settle", c, FALSE)
<1>2. "settle" \in Steps
  BY DEF Steps
<1>3. j \in Jobs /\ j.step = "settle" /\ j.checkout = c
  BY <1>2, AtJob
<1>4. JobData' /\ job'[w] = j /\ \A v \in Workers : v # w => job'[v] = job[v]
  BY <1>1, <1>3, NewJob DEF IInv
<1> HIDE DEF j
<1>5. StillTrue(w)'
  BY <1>1, <1>3, <1>4 DEF StillTrue
<1>6. Data'
  BY <1>1 DEF IInv, Data
<1>7. Booked' /\ CreditedIsPaid' /\ NothingUnpaid' /\ DeliveredIsCaptured' /\ Lasting
  BY <1>1 DEF IInv, Booked, CreditedIsPaid, NothingUnpaid, DeliveredIsCaptured, Lasting
<1>8. QED BY <1>4, <1>5, <1>6, <1>7, WorkerMoves

LEMMA CustomerKeeps ==
  ASSUME IInv, NEW c \in Checkouts, Start(c) \/ CustomerPays(c)
  PROVE  IInv'
<1>1. UNCHANGED <<credited, events, checkout, link, savings, balance, buyer, purse, goods, job>>
  BY DEF Start, CustomerPays, delivery, orders
<1>2. \/ txn[c] = "none" /\ txn' = [txn EXCEPT ![c] = "processing"] /\ UNCHANGED charge
      \/ /\ UNCHANGED txn
         /\ charge[c] \in {"open", "declined"}
         /\ \E p \in {"paid", "underpaid", "declined"} : charge' = [charge EXCEPT ![c] = p]
  BY DEF Start, CustomerPays
<1>3. Data'
  BY <1>1, <1>2 DEF IInv, Data
<1>4. Booked'
  BY <1>1, <1>2 DEF IInv, Data, Booked
<1>5. \A d \in Checkouts : charge[d] \in {"paid", "underpaid"} => charge'[d] = charge[d]
  BY <1>2 DEF IInv, Data
<1>6. Lasting
  BY <1>1, <1>5 DEF Lasting
<1>7. CreditedIsPaid' /\ NothingUnpaid' /\ DeliveredIsCaptured' /\ JobData'
  BY <1>1, <1>5 DEF IInv, Data, CreditedIsPaid, NothingUnpaid, DeliveredIsCaptured, JobData
<1>8. ASSUME NEW v \in Workers PROVE StillTrue(v)'
  BY <1>1, <1>6, Unmoved
<1>9. QED BY <1>3, <1>4, <1>7, <1>8 DEF IInv

LEMMA DeliverKeeps ==
  ASSUME IInv, NEW w \in Workers, Step(w)
  PROVE  IInv'
<1> StillTrue(w) /\ JobData /\ Data /\ NothingUnpaid
  BY DEF IInv
<1>1. CASE SettleEvent(w)
  <2>1. job[w].checkout \in Checkouts
    BY <1>1 DEF SettleEvent, StillTrue
  <2>2. QED BY <1>1, <2>1, SettlesKeeps DEF SettleEvent
<1>2. CASE Look(w)
  <2>1. job[w].checkout \in Checkouts /\ UNCHANGED <<funding, delivery, orders>>
    BY <1>2 DEF Look, StillTrue
  <2>2. CASE txn[job[w].checkout] = "success"
    <3> DEFINE j == At("deliver", job[w].checkout, FALSE)
    <3>1. job' = [job EXCEPT ![w] = j]
      BY <1>2, <2>2 DEF Look, JobData
    <3>2. j \in Jobs /\ j.step = "deliver" /\ j.checkout = job[w].checkout
      BY <2>1, DeliverJob
    <3> HIDE DEF j
    <3>3. JobData' /\ job'[w] = j /\ \A v \in Workers : v # w => job'[v] = job[v]
      BY <3>1, <3>2, NewJob
    <3>4. job[w].checkout \in credited /\ credited' = credited
      BY <2>1, <2>2 DEF IInv, Booked, funding
    <3>5. StillTrue(w)'
      BY <2>1, <3>2, <3>3, <3>4 DEF StillTrue
    <3>6. QED BY <2>1, <3>3, <3>5, OnlyJobs, WorkerMoves
  <2>3. CASE txn[job[w].checkout] # "success"
    <3>1. job' = [job EXCEPT ![w] = Idle]
      BY <1>2, <2>3 DEF Look, JobData
    <3>2. JobData' /\ job'[w] = Idle /\ \A v \in Workers : v # w => job'[v] = job[v]
      BY <3>1, IdleJob, NewJob
    <3>3. StillTrue(w)'
      BY <3>2, IdleJob DEF StillTrue
    <3>4. QED BY <2>1, <3>2, <3>3, OnlyJobs, WorkerMoves
  <2>4. QED BY <2>2, <2>3
<1>3. CASE Claim(w)
  <2> DEFINE c == job[w].checkout
  <2>1. c \in Checkouts /\ c \in credited /\ UNCHANGED <<funding, link, orders>>
    BY <1>3 DEF Claim, StillTrue
  <2>2. CASE checkout[c] = "delivered"
    <3>1. EndDelivery(w) /\ UNCHANGED <<funding, delivery, orders>>
      BY <1>3, <2>2 DEF Claim, delivery
    <3>2. /\ JobData'
          /\ job'[w].step \in {"idle", "look"}
          /\ job'[w].step = "look" => job'[w].checkout \in Checkouts
          /\ \A v \in Workers : v # w => job'[v] = job[v]
      BY <2>1, <3>1, EndedJob
    <3>3. StillTrue(w)'
      BY <3>2 DEF StillTrue
    <3>4. QED BY <3>1, <3>2, <3>3, OnlyJobs, WorkerMoves
  <2>3. CASE checkout[c] # "delivered"
    <3>1. /\ checkout' = [checkout EXCEPT ![c] = "payment_received"]
          /\ job' = [job EXCEPT ![w].step = "buy"]
      BY <1>3, <2>3 DEF Claim
    <3>2. /\ JobData'
          /\ job'[w].step = "buy" /\ job'[w].checkout = c
          /\ \A v \in Workers : v # w => job'[v] = job[v]
      BY <3>1, BuyingJob
    <3>3. UNCHANGED <<txn, credited, charge, events, link, savings, balance, buyer, purse, goods>>
      BY <2>1 DEF funding, orders
    <3>4. StillTrue(w)'
      BY <2>1, <3>2, <3>3 DEF StillTrue
    <3>5. Data'
      BY <2>1, <3>1, <3>3 DEF Data
    <3>6. DeliveredIsCaptured'
      BY <2>1, <3>1, <3>3 DEF Data, IInv, DeliveredIsCaptured
    <3>7. Lasting /\ Booked' /\ CreditedIsPaid' /\ NothingUnpaid'
      BY <3>3 DEF IInv, Lasting, Booked, CreditedIsPaid, NothingUnpaid
    <3>8. QED BY <3>2, <3>4, <3>5, <3>6, <3>7, WorkerMoves
  <2>4. QED BY <2>2, <2>3
<1>4. CASE Buy(w)
  <2> DEFINE c == job[w].checkout
             b == CHOOSE x \in FreeBills : TRUE
  <2>1. b \in Bills /\ purse[b] = "idle"
    BY <1>4 DEF Buy, FreeBills
  <2>2. c \in Checkouts /\ c \in credited /\ Payer[c] \in Customers /\ balance[Payer[c]] >= 1
    BY <1>4, Parameters DEF Buy, Covered, StillTrue
  <2>3. /\ purse' = [purse EXCEPT ![b] = "reserved"] /\ UNCHANGED goods
        /\ buyer' = [buyer EXCEPT ![b] = c]
        /\ balance' = [balance EXCEPT ![Payer[c]] = @ - 1]
        /\ job' = [job EXCEPT ![w].step = "wait", ![w].bill = b]
        /\ UNCHANGED <<txn, credited, charge, events, checkout, link, savings>>
    BY <1>4 DEF Buy, Bill!Reserve, funding, delivery
  <2> HIDE DEF b, c
  <2>4. /\ JobData'
        /\ job'[w].step = "wait" /\ job'[w].checkout = c /\ job'[w].bill = b
        /\ \A v \in Workers : v # w => job'[v] = job[v]
    BY <2>1, <2>3, WaitingJob DEF c
  <2>5. purse'[b] = "reserved" /\ \A x \in Bills : x # b => purse'[x] = purse[x]
    BY <2>1, <2>3 DEF Data
  <2>6. StillTrue(w)'
    BY <2>1, <2>2, <2>4, <2>5 DEF StillTrue
  <2>7. purse' \in [Bills -> Seen] /\ buyer' \in [Bills -> Checkouts \cup {Nobody}]
    BY <2>1, <2>2, <2>3 DEF Data, Seen
  <2>8. balance' \in [Customers -> Nat]
    BY <2>2, <2>3 DEF Data
  <2>9. Data'
    BY <2>3, <2>7, <2>8 DEF Data
  <2>10. Lasting
    BY <2>1, <2>3, <2>5 DEF Lasting
  <2>11. NothingUnpaid'
    BY <2>2, <2>3, <2>5 DEF NothingUnpaid, Data
  <2>12. DeliveredIsCaptured' /\ Booked' /\ CreditedIsPaid'
    BY <2>1, <2>3, <2>5 DEF IInv, DeliveredIsCaptured, Booked, CreditedIsPaid
  <2>13. QED BY <2>4, <2>6, <2>9, <2>10, <2>11, <2>12, WorkerMoves
<1>5. CASE RefuseToBuy(w)
  <2>1. job[w].checkout \in Checkouts /\ EndDelivery(w) /\ UNCHANGED <<funding, delivery, orders>>
    BY <1>5 DEF RefuseToBuy, StillTrue
  <2>2. /\ JobData'
        /\ job'[w].step \in {"idle", "look"}
        /\ job'[w].step = "look" => job'[w].checkout \in Checkouts
        /\ \A v \in Workers : v # w => job'[v] = job[v]
    BY <2>1, EndedJob
  <2>3. StillTrue(w)'
    BY <2>2 DEF StillTrue
  <2>4. QED BY <2>1, <2>2, <2>3, OnlyJobs, WorkerMoves
<1>6. CASE Bought(w)
  <2> DEFINE p == purse[job[w].bill]
  <2>1. /\ job[w].checkout \in Checkouts
        /\ job[w].bill \in Bills /\ p # "idle"
        /\ job' = [job EXCEPT ![w].step = "save", ![w].seen = p]
        /\ UNCHANGED <<funding, delivery, orders>>
    BY <1>6 DEF Bought, StillTrue
  <2>2. p \in Seen /\ purse' = purse
    BY <2>1 DEF Data, orders
  <2>3. /\ JobData'
        /\ job'[w].step = "save" /\ job'[w].checkout = job[w].checkout
        /\ job'[w].bill = job[w].bill /\ job'[w].seen = p
        /\ \A v \in Workers : v # w => job'[v] = job[v]
    BY <2>1, <2>2, SavingJob
  <2>4. StillTrue(w)'
    BY <2>1, <2>2, <2>3 DEF StillTrue
  <2>5. QED BY <2>1, <2>3, <2>4, OnlyJobs, WorkerMoves
<1>7. CASE Save(w)
  <2> DEFINE c == job[w].checkout
             b == job[w].bill
  <2>1. /\ c \in Checkouts /\ b \in Bills
        /\ job[w].seen = "spent" => purse[b] = "spent"
    BY <1>7 DEF Save, StillTrue
  <2>2. /\ checkout' = [checkout EXCEPT ![c] = StatusFor(job[w].seen)]
        /\ link' = [link EXCEPT ![c] = b]
        /\ EndDelivery(w)
        /\ UNCHANGED <<txn, credited, charge, events, savings, balance, buyer, purse, goods>>
    BY <1>7 DEF Save, funding, orders
  <2>3. /\ JobData'
        /\ job'[w].step \in {"idle", "look"}
        /\ job'[w].step = "look" => job'[w].checkout \in Checkouts
        /\ \A v \in Workers : v # w => job'[v] = job[v]
    BY <2>1, <2>2, EndedJob
  <2>4. StillTrue(w)'
    BY <2>3 DEF StillTrue
  <2>5. /\ StatusFor(job[w].seen) \in {"delivered", "payment_received"}
        /\ StatusFor(job[w].seen) = "delivered" => purse[b] = "spent"
    BY <2>1 DEF StatusFor
  <2>6. Data'
    BY <2>1, <2>2, <2>5 DEF Data
  <2>7. DeliveredIsCaptured'
    BY <2>1, <2>2, <2>5 DEF Data, IInv, DeliveredIsCaptured
  <2>8. Lasting /\ Booked' /\ CreditedIsPaid' /\ NothingUnpaid'
    BY <2>2 DEF IInv, Lasting, Booked, CreditedIsPaid, NothingUnpaid
  <2>9. QED BY <2>3, <2>4, <2>6, <2>7, <2>8, WorkerMoves
<1>8. QED BY <1>1, <1>2, <1>3, <1>4, <1>5, <1>6, <1>7 DEF Step

LEMMA CrashKeeps ==
  ASSUME IInv, NEW w \in Workers, Crash(w)
  PROVE  IInv'
<1>1. JobData' /\ job'[w] = Idle /\ \A v \in Workers : v # w => job'[v] = job[v]
  BY IdleJob, NewJob DEF Crash, IInv
<1>2. StillTrue(w)'
  BY <1>1, IdleJob DEF StillTrue
<1>3. UNCHANGED <<funding, delivery, orders>>
  BY DEF Crash
<1>4. QED BY <1>1, <1>2, <1>3, OnlyJobs, WorkerMoves

LEMMA BillKeeps ==
  ASSUME IInv, NEW b \in Bills, BillStep(b)
  PROVE  IInv'
<1> Data /\ NothingUnpaid
  BY DEF IInv
<1>1. UNCHANGED <<txn, credited, charge, events, checkout, link, savings, buyer, job>>
  BY DEF BillStep, funding, delivery
<1>2. purse[b] = "reserved"
  BY DEF BillStep, Bill!Deliver, Bill!Spend, Bill!Return
<1>3. /\ \/ UNCHANGED purse
         \/ \E p \in {"spent", "returned"} : purse' = [purse EXCEPT ![b] = p]
      /\ \/ UNCHANGED goods
         \/ goods' = [goods EXCEPT ![b] = "delivered"]
      /\ \/ UNCHANGED balance
         \/ balance' = [balance EXCEPT ![Payer[buyer[b]]] = @ + 1]
  BY DEF BillStep, Bill!Deliver, Bill!Spend, Bill!Return
<1>4. buyer[b] \in credited /\ Payer[buyer[b]] \in Customers
  BY <1>2, Parameters DEF NothingUnpaid, Data
<1>5. purse' \in [Bills -> Seen] /\ goods' \in [Bills -> {"none", "delivered"}]
  BY <1>3 DEF Data, Seen
<1>6. balance' \in [Customers -> Nat]
  BY <1>3, <1>4 DEF Data
<1>7. Data'
  BY <1>1, <1>5, <1>6 DEF Data
<1>8. \A x \in Bills : purse'[x] # purse[x] => purse[x] = "reserved" /\ purse'[x] # "idle"
  BY <1>2, <1>3 DEF Data
<1>9. Lasting
  BY <1>1, <1>8 DEF Lasting
<1>10. NothingUnpaid' /\ DeliveredIsCaptured'
  BY <1>1, <1>8 DEF IInv, NothingUnpaid, DeliveredIsCaptured
<1>11. Booked' /\ CreditedIsPaid' /\ JobData'
  BY <1>1 DEF IInv, Booked, CreditedIsPaid, JobData
<1>12. ASSUME NEW v \in Workers PROVE StillTrue(v)'
  BY <1>1, <1>9, Unmoved
<1>13. QED BY <1>7, <1>10, <1>11, <1>12 DEF IInv

LEMMA InitIInv == Init => IInv
<1> SUFFICES ASSUME Init PROVE IInv
  OBVIOUS
<1>1. Data
  BY Parameters DEF Init, Bill!Init, Data, Seen
<1>2. JobData /\ \A w \in Workers : StillTrue(w)
  BY IdleJob DEF Init, JobData, StillTrue
<1>3. Booked /\ CreditedIsPaid /\ NothingUnpaid /\ DeliveredIsCaptured
  BY DEF Init, Bill!Init, Booked, CreditedIsPaid, NothingUnpaid, DeliveredIsCaptured
<1>4. QED BY <1>1, <1>2, <1>3 DEF IInv

LEMMA NextIInv == IInv /\ [Next]_vars => IInv'
<1> SUFFICES ASSUME IInv, [Next]_vars PROVE IInv'
  OBVIOUS
<1>1. ASSUME NEW w \in Workers, NEW c \in Checkouts,
             StatusView(w, c) \/ VerifyView(w, c) \/ Reconcile(w, c)
      PROVE  IInv'
  BY <1>1, AskKeeps DEF StatusView, VerifyView, Reconcile
<1>2. CASE UNCHANGED vars
  <2>1. UNCHANGED <<funding, delivery, orders>> /\ UNCHANGED job
    BY <1>2 DEF vars
  <2>2. JobData' /\ \A v \in Workers : StillTrue(v)'
    BY <2>1, OnlyJobs, Unmoved DEF IInv, JobData
  <2>3. QED BY <2>1, <2>2, OnlyJobs DEF IInv
<1>3. QED BY <1>1, <1>2, IngestKeeps, CustomerKeeps, DeliverKeeps, CrashKeeps, BillKeeps DEF Next

LEMMA Invariance == Spec => []IInv
  BY InitIInv, NextIInv, PTL DEF Spec

-----------------------------------------------------------------------------
(* A customer's money: what came in is in the wallet or bought a service. *)

LEMMA PurchasesAre ==
  ASSUME NEW p
  PROVE  PurchasesOf(p) = {b \in Bills : /\ buyer[b] \in Checkouts /\ Payer[buyer[b]] = p
                                         /\ purse[b] \in {"reserved", "spent"}}
  BY DEF PurchasesOf, Purchases

Even(p) ==
  /\ IsFiniteSet(PurchasesOf(p)) /\ IsFiniteSet(PaymentsOf(p))
  /\ balance[p] + Cardinality(PurchasesOf(p)) = savings[p] + Cardinality(PaymentsOf(p))

EvenInv == IInv /\ \A p \in Customers : Even(p)

\* Nothing of it moves.
LEMMA StaysEven ==
  ASSUME NEW p, Even(p), UNCHANGED <<savings, buyer>>, balance'[p] = balance[p],
         PaymentsOf(p)' = PaymentsOf(p), PurchasesOf(p)' = PurchasesOf(p)
  PROVE  Even(p)'
  BY DEF Even

LEMMA SettleEven ==
  ASSUME IInv, NEW c \in Checkouts, NEW said, Settle(c, said), UNCHANGED <<savings, buyer, purse>>,
         NEW p \in Customers, Even(p)
  PROVE  Even(p)'
<1>1. PurchasesOf(p)' = PurchasesOf(p)
  BY DEF PurchasesOf, Purchases
<1>2. CASE Credits(c, said) /\ Payer[c] = p
  <2>1. c \notin credited /\ credited' = credited \cup {c}
    BY <1>2 DEF Credits, Settle, IInv, Booked
  <2>2. PaymentsOf(p)' = PaymentsOf(p) \cup {c} /\ c \notin PaymentsOf(p)
    BY <1>2, <2>1 DEF PaymentsOf
  <2>3. /\ IsFiniteSet(PaymentsOf(p)')
        /\ Cardinality(PaymentsOf(p)') = Cardinality(PaymentsOf(p)) + 1
    BY <2>2, FS_AddElement DEF Even
  <2>4. balance'[p] = balance[p] + 1
    BY <1>2 DEF Settle, IInv, Data
  <2>5. Cardinality(PaymentsOf(p)) \in Nat /\ Cardinality(PurchasesOf(p)) \in Nat
    BY FS_CardinalityType DEF Even
  <2>6. balance[p] \in Nat /\ savings[p] \in Nat
    BY Parameters DEF IInv, Data
  <2>7. balance'[p] + Cardinality(PurchasesOf(p)') = savings'[p] + Cardinality(PaymentsOf(p)')
    BY <1>1, <2>3, <2>4, <2>5, <2>6 DEF Even
  <2>8. QED BY <1>1, <2>3, <2>7 DEF Even
<1>3. CASE ~(Credits(c, said) /\ Payer[c] = p)
  <2>1. PaymentsOf(p)' = PaymentsOf(p)
    BY <1>3 DEF Settle, PaymentsOf
  <2>2. balance'[p] = balance[p]
    BY <1>3, Parameters DEF Settle, IInv, Data
  <2>3. QED BY <1>1, <2>1, <2>2, StaysEven
<1>4. QED BY <1>2, <1>3

LEMMA BuyEven ==
  ASSUME IInv, NEW w \in Workers, Buy(w), NEW p \in Customers, Even(p)
  PROVE  Even(p)'
<1> DEFINE c == job[w].checkout
           b == CHOOSE x \in FreeBills : TRUE
<1>1. b \in Bills /\ purse[b] = "idle"
  BY DEF Buy, FreeBills
<1>2. c \in Checkouts /\ Payer[c] \in Customers
  BY Parameters DEF Buy, IInv, StillTrue
<1>3. /\ purse' = [purse EXCEPT ![b] = "reserved"]
      /\ buyer' = [buyer EXCEPT ![b] = c]
      /\ balance' = [balance EXCEPT ![Payer[c]] = @ - 1]
      /\ balance[Payer[c]] >= 1
      /\ UNCHANGED <<credited, savings>>
  BY DEF Buy, Covered, Bill!Reserve, funding, delivery
<1> HIDE DEF b, c
<1>4. PaymentsOf(p)' = PaymentsOf(p)
  BY <1>3 DEF PaymentsOf
<1>5. b \notin PurchasesOf(p)
  BY <1>1, PurchasesAre
<1>6. \A x \in Bills : x # b => purse'[x] = purse[x] /\ buyer'[x] = buyer[x]
  BY <1>1, <1>3 DEF IInv, Data
<1>7. purse'[b] = "reserved" /\ buyer'[b] = c
  BY <1>1, <1>3 DEF IInv, Data
<1>8. PurchasesOf(p)' = {x \in Bills : /\ buyer'[x] \in Checkouts /\ Payer[buyer'[x]] = p
                                       /\ purse'[x] \in {"reserved", "spent"}}
  BY DEF PurchasesOf, Purchases
<1>9. CASE Payer[c] = p
  <2>1. PurchasesOf(p)' = PurchasesOf(p) \cup {b}
    BY <1>1, <1>2, <1>6, <1>7, <1>8, <1>9, PurchasesAre
  <2>2. /\ IsFiniteSet(PurchasesOf(p)')
        /\ Cardinality(PurchasesOf(p)') = Cardinality(PurchasesOf(p)) + 1
    BY <1>5, <2>1, FS_AddElement DEF Even
  <2>3. balance'[p] = balance[p] - 1
    BY <1>2, <1>3, <1>9 DEF IInv, Data
  <2>4. Cardinality(PaymentsOf(p)) \in Nat /\ Cardinality(PurchasesOf(p)) \in Nat
    BY FS_CardinalityType DEF Even
  <2>5. balance[p] \in Nat /\ savings[p] \in Nat
    BY Parameters DEF IInv, Data
  <2>6. balance'[p] + Cardinality(PurchasesOf(p)') = savings'[p] + Cardinality(PaymentsOf(p)')
    BY <1>3, <1>4, <2>2, <2>3, <2>4, <2>5 DEF Even
  <2>7. QED BY <1>4, <2>2, <2>6 DEF Even
<1>10. CASE Payer[c] # p
  <2>1. PurchasesOf(p)' = PurchasesOf(p)
    BY <1>1, <1>5, <1>6, <1>7, <1>8, <1>10, PurchasesAre
  <2>2. balance'[p] = balance[p] /\ UNCHANGED savings
    BY <1>2, <1>3, <1>10 DEF IInv, Data
  <2>3. QED BY <1>3, <1>4, <2>1, <2>2 DEF Even
<1>11. QED BY <1>9, <1>10

LEMMA BillEven ==
  ASSUME IInv, NEW b \in Bills, BillStep(b), NEW p \in Customers, Even(p)
  PROVE  Even(p)'
<1>1. UNCHANGED <<credited, savings, buyer>> /\ purse[b] = "reserved"
  BY DEF BillStep, funding, Bill!Deliver, Bill!Spend, Bill!Return
<1>2. buyer[b] \in Checkouts /\ Payer[buyer[b]] \in Customers
  BY <1>1, Parameters DEF IInv, NothingUnpaid, Data
<1>3. PaymentsOf(p)' = PaymentsOf(p)
  BY <1>1 DEF PaymentsOf
<1>4. PurchasesOf(p)' = {x \in Bills : /\ buyer'[x] \in Checkouts /\ Payer[buyer'[x]] = p
                                       /\ purse'[x] \in {"reserved", "spent"}}
  BY DEF PurchasesOf, Purchases
<1>5. CASE Bill!Deliver(b) \/ Bill!Spend(b)
  <2>1. \A x \in Bills : purse'[x] \in {"reserved", "spent"} <=> purse[x] \in {"reserved", "spent"}
    BY <1>1, <1>5 DEF IInv, Data, Bill!Deliver, Bill!Spend
  <2>2. PurchasesOf(p)' = PurchasesOf(p)
    BY <1>1, <1>4, <2>1, PurchasesAre
  <2>3. balance' = balance
    BY <1>5, <1>1 DEF BillStep, Bill!Deliver, Bill!Spend, Bill!Return, IInv, Data
  <2>4. QED BY <1>1, <1>3, <2>2, <2>3, StaysEven
<1>6. CASE Bill!Return(b)
  <2>1. purse' = [purse EXCEPT ![b] = "returned"]
    BY <1>6 DEF Bill!Return
  <2>2. balance' = [balance EXCEPT ![Payer[buyer[b]]] = @ + 1]
    BY <1>1, <2>1 DEF BillStep, Bill!Deliver, Bill!Spend, IInv, Data
  <2>3. purse'[b] = "returned" /\ \A x \in Bills : x # b => purse'[x] = purse[x]
    BY <2>1 DEF IInv, Data
  <2>4. CASE Payer[buyer[b]] = p
    <3>1. b \in PurchasesOf(p) /\ PurchasesOf(p)' = PurchasesOf(p) \ {b}
      BY <1>1, <1>2, <1>4, <2>3, <2>4, PurchasesAre
    <3>2. /\ IsFiniteSet(PurchasesOf(p)')
          /\ Cardinality(PurchasesOf(p)') = Cardinality(PurchasesOf(p)) - 1
      BY <3>1, FS_RemoveElement DEF Even
    <3>3. balance'[p] = balance[p] + 1
      BY <1>2, <2>2, <2>4 DEF IInv, Data
    <3>4. Cardinality(PaymentsOf(p)) \in Nat /\ Cardinality(PurchasesOf(p)) \in Nat
      BY FS_CardinalityType DEF Even
    <3>5. balance[p] \in Nat /\ savings[p] \in Nat
      BY Parameters DEF IInv, Data
    <3>6. balance'[p] + Cardinality(PurchasesOf(p)') = savings'[p] + Cardinality(PaymentsOf(p)')
      BY <1>1, <1>3, <3>2, <3>3, <3>4, <3>5 DEF Even
    <3>7. QED BY <1>3, <3>2, <3>6 DEF Even
  <2>5. CASE Payer[buyer[b]] # p
    <3>1. PurchasesOf(p)' = PurchasesOf(p)
      BY <1>1, <1>4, <2>3, <2>5, PurchasesAre
    <3>2. balance'[p] = balance[p]
      BY <1>2, <2>2, <2>5 DEF IInv, Data
    <3>3. QED BY <1>1, <1>3, <3>1, <3>2, StaysEven
  <2>6. QED BY <2>4, <2>5
<1>7. QED BY <1>5, <1>6 DEF BillStep

LEMMA EvenInvariance == Spec => []EvenInv
<1>1. Init => EvenInv
  <2> SUFFICES ASSUME Init PROVE \A p \in Customers : Even(p)
    BY InitIInv DEF EvenInv
  <2>1. ASSUME NEW p \in Customers PROVE Even(p)
    <3>1. PurchasesOf(p) = {} /\ PaymentsOf(p) = {} /\ balance = savings
      BY PurchasesAre DEF Init, Bill!Init, PaymentsOf
    <3>2. savings[p] \in Nat
      BY InitIInv, Parameters DEF IInv, Data
    <3>3. QED BY <3>1, <3>2, FS_EmptySet DEF Even
  <2>2. QED BY <2>1
<1>2. EvenInv /\ [Next]_vars => EvenInv'
  <2> SUFFICES ASSUME EvenInv, [Next]_vars PROVE EvenInv'
    OBVIOUS
  <2>1. IInv /\ IInv'
    BY NextIInv DEF EvenInv
  <2> SUFFICES ASSUME NEW p \in Customers PROVE Even(p)'
    BY <2>1 DEF EvenInv
  <2>2. Even(p)
    BY DEF EvenInv
  <2>3. ASSUME UNCHANGED <<credited, savings, balance, buyer, purse>> PROVE Even(p)'
    BY <2>2, <2>3 DEF Even, PurchasesOf, Purchases, PaymentsOf
  <2>4. ASSUME NEW w \in Workers, NEW c \in Checkouts, NEW viewing \in BOOLEAN, Ask(w, c, viewing)
        PROVE  Even(p)'
    BY <2>1, <2>2, <2>4, SettleEven DEF Ask
  <2>5. ASSUME NEW w \in Workers, SettleEvent(w) PROVE Even(p)'
    <3>1. job[w].checkout \in Checkouts
      BY <2>1, <2>5 DEF SettleEvent, IInv, StillTrue
    <3>2. QED BY <2>1, <2>2, <2>5, <3>1, SettleEven DEF SettleEvent
  <2>6. ASSUME NEW w \in Workers,
               Look(w) \/ Claim(w) \/ RefuseToBuy(w) \/ Bought(w) \/ Save(w) \/ Crash(w)
        PROVE  Even(p)'
    BY <2>3, <2>6 DEF Look, Claim, RefuseToBuy, Bought, Save, Crash, funding, orders
  <2>7. ASSUME NEW c \in Checkouts, Start(c) \/ CustomerPays(c) PROVE Even(p)'
    BY <2>3, <2>7 DEF Start, CustomerPays, orders
  <2>8. ASSUME NEW w \in Workers, NEW c \in Checkouts, Ingest(w, c) PROVE Even(p)'
    BY <2>3, <2>8 DEF Ingest, orders
  <2>9. CASE UNCHANGED vars
    BY <2>3, <2>9 DEF vars, funding, orders
  <2> HIDE DEF Even
  <2>10. QED
    BY <2>1, <2>2, <2>4, <2>5, <2>6, <2>7, <2>8, <2>9, BuyEven, BillEven
    DEF Next, Step, StatusView, VerifyView, Reconcile
<1>3. QED BY <1>1, <1>2, PTL DEF Spec

-----------------------------------------------------------------------------
(* Results. *)

\* The wallet is credited only for charges paid in full, whoever settles them first
\* (FundingService.settle).
THEOREM CreditedWasPaid == Spec => []CreditedIsPaid
  BY Invariance, PTL DEF IInv

\* No bill is bought before the payment of its checkout is in the wallet (deliver).
THEOREM PaidBeforeBought == Spec => []NothingUnpaid
  BY Invariance, PTL DEF IInv

\* A checkout that shows delivered has an order whose hold was captured, though the
\* save takes no lock (deliver).
THEOREM DeliveredWasCaptured == Spec => []DeliveredIsCaptured
  BY Invariance, PTL DEF IInv

\* A customer never has more services than payments and savings cover: whoever buys
\* for the same payment at a time, the second hold finds the wallet empty (deliver,
\* create_and_hold).
THEOREM PurchasesWerePaid == Spec => []PurchasesCovered
<1>1. EvenInv => PurchasesCovered
  <2> SUFFICES ASSUME EvenInv, NEW p \in Customers
               PROVE  Cardinality(PurchasesOf(p)) <= savings[p] + Cardinality(PaymentsOf(p))
    BY DEF PurchasesCovered
  <2>1. Even(p) /\ balance[p] \in Nat /\ savings[p] \in Nat
    BY Parameters DEF EvenInv, IInv, Data
  <2>2. Cardinality(PaymentsOf(p)) \in Nat /\ Cardinality(PurchasesOf(p)) \in Nat
    BY <2>1, FS_CardinalityType DEF Even
  <2>3. QED BY <2>1, <2>2 DEF Even
<1>2. QED BY <1>1, EvenInvariance, PTL

\* Types, for any workers.
THEOREM TypeCorrect == Spec => []TypeOK
<1>1. IInv => TypeOK
  BY DEF IInv, Data, JobData, Jobs, Steps, Seen, TypeOK
<1>2. QED BY <1>1, Invariance, PTL

=============================================================================
