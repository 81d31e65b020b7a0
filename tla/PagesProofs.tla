----------------------------- MODULE PagesProofs -----------------------------
(***************************************************************************)
(* The pages of the clients, each for any values of its constants.         *)
(*                                                                         *)
(* The transfer page, for any number of orders, tries and overlapping      *)
(* calls: what it shows as paid is paid, and what it shows as cancelled is *)
(* cancelled.                                                              *)
(*                                                                         *)
(* The jobs socket, for any number of sockets, screens, frames and timers: *)
(* there is never a second socket, and no frame is lost, repeated or       *)
(* overtaken on its way to one.                                            *)
(*                                                                         *)
(* The chat of a job, for any number of messages, tries and calls: a       *)
(* message is stored once and shown once, but for the messages that two    *)
(* calls looked for together or that were reported as failed.              *)
(***************************************************************************)
EXTENDS TransferScreen, JobsSocket, JobsChat, FiniteSetTheorems, TLAPS

-----------------------------------------------------------------------------
(* The transfer page. *)

Statuses == {"none"} \cup Bank!OpenStatuses \cup Bank!Settled

StatusData == status \in [Orders -> Statuses]

PostData == post \in [order : Orders \cup {None}, step : {"idle", "asked", "working", "answered"},
                      answer : {None} \cup Bank!OpenStatuses \cup Bank!Settled]

Polls == [id : Orders \cup {None}, n : Nat, calls : Nat, stopped : BOOLEAN]

PageData ==
  /\ answered \in [Orders -> {None, "lost"} \cup Bank!OpenStatuses \cup Bank!Settled]
  /\ queued \in Orders \cup {None}
  /\ receipt \in Orders \cup {None}
  /\ cancel \in {"idle", "asked", "done", "refused", "shown", "failed"}
  /\ poll \in Polls

\* A mutation runs only from the form, and knows its order; an answer that is final
\* has not been overtaken.
PostTrue ==
  post # NoPost =>
    /\ post.order \in Orders
    /\ queued = None /\ receipt = None
    /\ post.step = "working" => status[post.order] # "none"
    /\ post.step = "answered" =>
         /\ post.answer # None
         /\ post.answer \in Bank!Settled => status[post.order] = post.answer

\* A receipt is earned, or is hidden by a poll of its order.
ReceiptTrue ==
  receipt # None =>
    \/ status[receipt] = "success"
    \/ answered[receipt] \in {"reversed", "cancelled"}
    \/ confirming /\ poll.id = receipt

\* The poll and the card work on an order of the page.
PollTrue ==
  IF poll.id = None THEN poll.calls = 0 ELSE poll.id = receipt /\ confirming

CancelTrue ==
  /\ cancel # "idle" => queued # None
  /\ cancel \in {"done", "shown"} => status[queued] = "cancelled"

ScreenInv == StatusData /\ PostData /\ PageData /\ PostTrue /\ ReceiptTrue /\ PollTrue /\ CancelTrue

\* Final statuses stay, whatever the back end does.
LEMMA Settles ==
  ASSUME StatusData, NEW o \in Orders, NEW st \in Bank!OpenStatuses \cup Bank!Settled,
         Bank!Create(o) \/ Bank!Move(o, st)
  PROVE  /\ StatusData'
         /\ \A p \in Orders : status[p] \in Bank!Settled => status'[p] = status[p]
         /\ \A p \in Orders : status[p] # "none" => status'[p] # "none"
  BY DEF StatusData, Statuses, Bank!Create, Bank!Move, Bank!OpenStatuses, Bank!Settled

\* A step of the back end, the page as it was.
LEMMA BackEndKeeps ==
  ASSUME ScreenInv, StatusData', UNCHANGED <<post, answered, page, poll>>,
         \A p \in Orders : status[p] \in Bank!Settled => status'[p] = status[p],
         \A p \in Orders : status[p] # "none" => status'[p] # "none"
  PROVE  ScreenInv'
<1> USE ScreenParameters DEF ScreenInv, PageData, page, None
<1>1. PostData' /\ PageData' /\ PollTrue'
  BY DEF PostData, PollTrue
<1>2. PostTrue'
  BY DEF PostTrue
<1>3. ReceiptTrue'
  BY DEF ReceiptTrue, Bank!Settled
<1>4. CancelTrue'
  BY DEF CancelTrue, Bank!Settled
<1>5. QED BY <1>1, <1>2, <1>3, <1>4

LEMMA NoPostStep == NoPost.step = "idle" /\ NoPost.order = None /\ NoPost.answer = None
  BY DEF NoPost

LEMMA NoPostData ==
  NoPost \in [order : Orders \cup {None}, step : {"idle", "asked", "working", "answered"},
              answer : {None} \cup Bank!OpenStatuses \cup Bank!Settled]
  BY DEF NoPost

LEMMA NoPollData ==
  /\ NoPoll \in Polls
  /\ NoPoll.id = None /\ NoPoll.calls = 0
  BY DEF NoPoll, Polls

LEMMA NewPoll ==
  ASSUME NEW o \in Orders
  PROVE  [NoPoll EXCEPT !.id = o] \in Polls /\ [NoPoll EXCEPT !.id = o].id = o
  BY DEF NoPoll, Polls

\* A poll that makes its n-th call.
Calls(p, n, k) == [p EXCEPT !.n = n, !.calls = k]

LEMMA PollCalls ==
  ASSUME NEW p \in Polls, NEW n \in Nat, NEW k \in Nat
  PROVE  Calls(p, n, k) \in Polls /\ Calls(p, n, k).id = p.id
  BY DEF Calls, Polls

\* A call of a poll comes back.
LEMMA PollGoesOn ==
  ASSUME NEW p \in Polls, NEW k \in Nat
  PROVE  /\ [p EXCEPT !.calls = k, !.stopped = TRUE] \in Polls
         /\ [p EXCEPT !.calls = k, !.stopped = TRUE].id = p.id
         /\ [p EXCEPT !.calls = k] \in Polls
         /\ [p EXCEPT !.calls = k].id = p.id
  BY DEF Polls

LEMMA SubmitKeeps ==
  ASSUME ScreenInv, NEW o \in Orders, Submit(o)
  PROVE  ScreenInv'
<1>1. /\ queued = None /\ receipt = None
      /\ post' = [NoPost EXCEPT !.order = o, !.step = "asked"]
      /\ UNCHANGED <<status, answered, queued, cancel, receipt, confirming, slow, poll>>
  BY DEF Submit, FormShown
<1>2. post' = [order |-> o, step |-> "asked", answer |-> None]
  BY <1>1 DEF NoPost
<1>3. PostData' /\ PostTrue'
  BY <1>1, <1>2 DEF PostData, PostTrue
<1>4. StatusData' /\ PageData' /\ PollTrue' /\ CancelTrue'
  BY <1>1 DEF ScreenInv, StatusData, PageData, PollTrue, CancelTrue
<1>5. ReceiptTrue'
  BY <1>1 DEF ReceiptTrue
<1>6. QED BY <1>3, <1>4, <1>5 DEF ScreenInv

LEMMA PostArrivesKeeps ==
  ASSUME ScreenInv, PostArrives
  PROVE  ScreenInv'
<1>1. /\ post.order \in Orders /\ post.step = "asked"
      /\ Bank!Create(post.order)
      /\ post' = [post EXCEPT !.step = "working"]
      /\ UNCHANGED <<answered, page, poll>>
  BY NoPostStep DEF PostArrives, ScreenInv, PostTrue
<1>2. StatusData' /\ \A p \in Orders : status[p] \in Bank!Settled => status'[p] = status[p]
  BY <1>1, Settles DEF ScreenInv, Bank!OpenStatuses
<1>3. PostData' /\ PostTrue'
  <2>1. post' \in [order : Orders \cup {None}, step : {"idle", "asked", "working", "answered"},
                   answer : {None} \cup Bank!OpenStatuses \cup Bank!Settled]
        /\ post'.order = post.order /\ post'.step = "working"
    BY <1>1 DEF ScreenInv, PostData
  <2>4. status'[post.order] = "processing"
    BY <1>1 DEF ScreenInv, StatusData, Bank!Create
  <2>2. queued' = None /\ receipt' = None
    BY <1>1, NoPostStep DEF ScreenInv, PostTrue, page
  <2>3. QED BY <1>1, <2>1, <2>2, <2>4 DEF PostData, PostTrue
<1>4. PageData' /\ PollTrue'
  BY <1>1 DEF ScreenInv, PageData, PollTrue, page
<1>5. ReceiptTrue' /\ CancelTrue'
  BY <1>1, <1>2, ScreenParameters
  DEF ScreenInv, PageData, ReceiptTrue, CancelTrue, page, Bank!Settled, None
<1>6. QED BY <1>2, <1>3, <1>4, <1>5 DEF ScreenInv

LEMMA PostServedKeeps ==
  ASSUME ScreenInv, PostServed
  PROVE  ScreenInv'
<1>1. /\ post.order \in Orders /\ post.step = "working"
      /\ post' = [post EXCEPT !.step = "answered", !.answer = status[post.order]]
      /\ UNCHANGED <<status, answered, queued, cancel, receipt, confirming, slow, error, poll>>
      /\ queued = None /\ receipt = None
      /\ status[post.order] # "none"
  BY NoPostStep DEF PostServed, ScreenInv, PostTrue, page
<1>2. /\ PostData'
      /\ post'.order = post.order /\ post'.step = "answered"
      /\ post'.answer = status[post.order]
  BY <1>1 DEF ScreenInv, PostData, StatusData, Statuses
<1>3. PostTrue'
  BY <1>1, <1>2 DEF PostTrue, None
<1>4. StatusData' /\ PageData' /\ PollTrue' /\ ReceiptTrue' /\ CancelTrue'
  BY <1>1 DEF ScreenInv, StatusData, PageData, PollTrue, ReceiptTrue, CancelTrue
<1>5. QED BY <1>2, <1>3, <1>4 DEF ScreenInv

LEMMA PostAnsweredKeeps ==
  ASSUME ScreenInv, PostAnswered
  PROVE  ScreenInv'
<1> DEFINE o == post.order
           st == post.answer
<1>1. /\ o \in Orders /\ st # None
      /\ queued = None /\ receipt = None /\ cancel = "idle"
      /\ st \in Bank!Settled => status[o] = st
      /\ st \in Bank!OpenStatuses \cup Bank!Settled
  BY NoPostStep DEF PostAnswered, ScreenInv, PostTrue, PostData, CancelTrue
<1>2. /\ post' = NoPost /\ UNCHANGED <<status, cancel>>
      /\ answered' = [answered EXCEPT ![o] = st]
      /\ queued' = IF st = "queued" THEN o ELSE queued
      /\ receipt' = IF st \in {"failed", "queued"} THEN receipt ELSE o
  BY DEF PostAnswered
<1>3. \/ /\ st = "processing" /\ poll' = [NoPoll EXCEPT !.id = o] /\ confirming' = TRUE
      \/ st # "processing" /\ UNCHANGED <<poll, confirming>>
  BY DEF PostAnswered
<1>4. StatusData' /\ PostData' /\ PostTrue'
  BY <1>2, NoPostData DEF ScreenInv, StatusData, PostData, PostTrue
<1>5. [NoPoll EXCEPT !.id = o] \in Polls /\ [NoPoll EXCEPT !.id = o].id = o
  BY <1>1, NewPoll
<1> HIDE DEF o, st
<1>6. poll' \in Polls
      /\ (st = "processing" => poll'.id = o)
  BY <1>1, <1>3, <1>5 DEF ScreenInv, PageData
<1>7. answered' \in [Orders -> {None, "lost"} \cup Bank!OpenStatuses \cup Bank!Settled]
  BY <1>1, <1>2 DEF ScreenInv, PageData
<1>8. PageData'
  BY <1>1, <1>2, <1>6, <1>7 DEF ScreenInv, PageData
<1>9. PollTrue'
  <2>1. CASE st = "processing"
    BY <1>1, <1>2, <1>3, <1>6, <2>1, ScreenParameters DEF PollTrue, None
  <2>2. CASE st # "processing"
    <3>1. poll' = poll /\ poll.id = None
      BY <1>1, <1>3, <2>2 DEF ScreenInv, PollTrue, PageData
    <3>2. QED BY <3>1 DEF ScreenInv, PollTrue
  <2>3. QED BY <2>1, <2>2
<1>10. ReceiptTrue'
  <2>1. ASSUME receipt' # None PROVE receipt' = o /\ st \notin {"failed", "queued"}
    BY <1>1, <1>2, <2>1
  <2>2. answered'[o] = st
    BY <1>1, <1>2 DEF ScreenInv, PageData
  <2>3. st \in {"success", "processing", "failed", "queued", "reversed", "cancelled"}
    BY <1>1 DEF Bank!OpenStatuses, Bank!Settled
  <2>4. st = "success" => status'[o] = "success"
    BY <1>1, <1>2 DEF Bank!Settled
  <2>5. st = "processing" => confirming' /\ poll'.id = o
    BY <1>3, <1>6
  <2>6. QED BY <2>1, <2>2, <2>3, <2>4, <2>5 DEF ReceiptTrue
<1>11. CancelTrue'
  BY <1>1, <1>2 DEF CancelTrue
<1>12. QED BY <1>4, <1>8, <1>9, <1>10, <1>11 DEF ScreenInv

LEMMA PostFailsKeeps ==
  ASSUME ScreenInv, PostFails
  PROVE  ScreenInv'
<1>1. /\ post.order \in Orders /\ queued = None /\ receipt = None
      /\ post' = NoPost
      /\ answered' = [answered EXCEPT ![post.order] = "lost"]
      /\ UNCHANGED <<status, queued, cancel, receipt, confirming, poll>>
  BY NoPostStep DEF PostFails, ScreenInv, PostTrue
<1>2. StatusData' /\ PostData' /\ PostTrue'
  BY <1>1, NoPostData DEF ScreenInv, StatusData, PostData, PostTrue
<1>3. PageData'
  BY <1>1 DEF ScreenInv, PageData
<1>4. PollTrue' /\ ReceiptTrue' /\ CancelTrue'
  BY <1>1 DEF ScreenInv, PollTrue, ReceiptTrue, CancelTrue
<1>5. QED BY <1>2, <1>3, <1>4 DEF ScreenInv

-----------------------------------------------------------------------------
(* The poll and the card. *)

\* A call goes out, or comes back without a final status.
LEMMA PollWaitsKeeps ==
  ASSUME ScreenInv, Tick \/ PollMisses
  PROVE  ScreenInv'
<1>1. UNCHANGED <<status, post, answered, queued, cancel, receipt, confirming>>
  BY DEF Tick, PollMisses, page
<1>2. /\ poll' \in Polls
      /\ poll'.id = poll.id /\ poll.id # None
  <2>1. CASE Tick
    <3>1. /\ poll.id # None
          /\ \/ poll' = Calls(poll, poll.n + 1, poll.calls + 1)
             \/ poll' = Calls(poll, poll.n, poll.calls + 1)
      <4>1. CASE poll.n < Tries
        BY <2>1, <4>1 DEF Tick, Polling, Calls
      <4>2. CASE ~(poll.n < Tries)
        BY <2>1, <4>2 DEF Tick, Polling, Calls
      <4>3. QED BY <4>1, <4>2
    <3>2. poll \in Polls /\ poll.n \in Nat /\ poll.n + 1 \in Nat /\ poll.calls + 1 \in Nat
      BY DEF ScreenInv, PageData, Polls
    <3>3. QED BY <3>1, <3>2, PollCalls
  <2>2. CASE PollMisses
    <3>1. /\ poll.calls > 0
          /\ \/ poll' = [poll EXCEPT !.calls = poll.calls - 1, !.stopped = TRUE]
             \/ poll' = [poll EXCEPT !.calls = poll.calls - 1]
      BY <2>2 DEF PollMisses
    <3>2. poll.id # None
      BY <3>1 DEF ScreenInv, PollTrue
    <3>3. poll \in Polls /\ poll.calls - 1 \in Nat
      BY <3>1 DEF ScreenInv, PageData, Polls
    <3>4. QED BY <3>1, <3>2, <3>3, PollGoesOn
  <2>3. QED BY <2>1, <2>2
<1>3. PollTrue' /\ ReceiptTrue'
  BY <1>1, <1>2 DEF ScreenInv, PollTrue, ReceiptTrue
<1>4. StatusData' /\ PostData' /\ PageData' /\ PostTrue' /\ CancelTrue'
  BY <1>1, <1>2 DEF ScreenInv, StatusData, PostData, PageData, PostTrue, CancelTrue
<1>5. QED BY <1>3, <1>4 DEF ScreenInv

LEMMA PollSettlesKeeps ==
  ASSUME ScreenInv, PollSettles
  PROVE  ScreenInv'
<1>1. /\ poll.calls > 0
      /\ poll' = NoPoll
      /\ \/ status[poll.id] = "success" /\ UNCHANGED receipt
         \/ receipt' = None
      /\ UNCHANGED <<status, post, answered, queued, cancel>>
  BY DEF PollSettles, PollOver
<1>2. poll.id = receipt
  BY <1>1 DEF ScreenInv, PollTrue
<1>3. StatusData' /\ PostData' /\ PageData' /\ CancelTrue' /\ PostTrue'
  BY <1>1, NoPollData DEF ScreenInv, StatusData, PostData, PageData, CancelTrue, PostTrue
<1>4. PollTrue'
  BY <1>1, NoPollData DEF PollTrue
<1>5. ReceiptTrue'
  BY <1>1, <1>2 DEF ReceiptTrue
<1>6. QED BY <1>3, <1>4, <1>5 DEF ScreenInv

LEMMA CancelKeeps ==
  ASSUME ScreenInv, CancelAsked \/ CancelServed \/ CancelAnswered \/ CancelFails
  PROVE  ScreenInv'
<1>1. UNCHANGED <<post, answered, queued, receipt, confirming, poll>>
  BY DEF CancelAsked, CancelServed, CancelAnswered, CancelFails
<1>2. queued \in Orders
  BY DEF ScreenInv, PageData, CancelTrue, CancelAsked, CancelServed, CancelAnswered, CancelFails
<1>3. /\ StatusData'
      /\ \A p \in Orders : status[p] \in Bank!Settled => status'[p] = status[p]
      /\ \A p \in Orders : status[p] # "none" => status'[p] # "none"
  <2>1. CASE CancelServed /\ Bank!Move(queued, "cancelled")
    BY <1>2, <2>1, Settles DEF ScreenInv, Bank!Settled
  <2>2. CASE UNCHANGED status
    BY <2>2 DEF ScreenInv, StatusData
  <2>3. QED BY <2>1, <2>2 DEF CancelAsked, CancelServed, CancelAnswered, CancelFails
<1>4. CancelTrue' /\ cancel' \in {"idle", "asked", "done", "refused", "shown", "failed"}
  <2>1. CASE CancelServed
    <3>1. CASE cancel' = "done"
      <4>1. Bank!Move(queued, "cancelled")
        BY <2>1, <3>1 DEF CancelServed
      <4>2. status'[queued] = "cancelled"
        BY <1>2, <4>1 DEF ScreenInv, StatusData, Bank!Move
      <4>3. QED BY <1>1, <1>2, <3>1, <4>2, ScreenParameters DEF CancelTrue, None
    <3>2. CASE cancel' = "refused"
      BY <1>1, <1>2, <3>2, ScreenParameters DEF CancelTrue, None
    <3>3. QED BY <2>1, <3>1, <3>2 DEF CancelServed
  <2>2. CASE CancelAnswered
    BY <1>1, <2>2 DEF CancelAnswered, CancelTaken, ScreenInv, CancelTrue
  <2>3. CASE CancelAsked \/ CancelFails
    BY <1>1, <1>2, <2>3, ScreenParameters DEF CancelAsked, CancelFails, CancelTrue, None
  <2>4. QED BY <2>1, <2>2, <2>3
<1>5. PostData' /\ PageData' /\ PollTrue'
  BY <1>1, <1>4 DEF ScreenInv, PostData, PageData, PollTrue
<1>6. PostTrue'
  BY <1>1, <1>3 DEF ScreenInv, PostTrue
<1>7. ReceiptTrue'
  BY <1>1, <1>3 DEF ScreenInv, PageData, ReceiptTrue, Bank!Settled
<1>8. QED BY <1>3, <1>4, <1>5, <1>6, <1>7 DEF ScreenInv

LEMMA LeaveKeeps ==
  ASSUME ScreenInv, LeavePage
  PROVE  ScreenInv'
<1>1. /\ queued' = None /\ cancel' = "idle" /\ receipt' = None /\ poll' = NoPoll
      /\ UNCHANGED <<status, post, answered>>
      /\ post = NoPost
  BY DEF LeavePage
<1>2. QED
  BY <1>1, NoPollData
  DEF ScreenInv, StatusData, PostData, PageData, PostTrue, ReceiptTrue, PollTrue, CancelTrue

LEMMA ScreenInvariance == ScreenSpec => []ScreenInv
<1>1. ScreenInit => ScreenInv
  <2> SUFFICES ASSUME ScreenInit PROVE ScreenInv
    OBVIOUS
  <2>1. StatusData /\ PageData
    BY NoPollData DEF ScreenInit, Bank!Init, StatusData, Statuses, PageData
  <2>2. PostData /\ PostTrue
    BY NoPostData DEF ScreenInit, PostData, PostTrue
  <2>3. ReceiptTrue /\ PollTrue /\ CancelTrue
    BY NoPollData DEF ScreenInit, ReceiptTrue, PollTrue, CancelTrue
  <2>4. QED BY <2>1, <2>2, <2>3 DEF ScreenInv
<1>2. ScreenInv /\ [ScreenNext]_screenVars => ScreenInv'
  <2> SUFFICES ASSUME ScreenInv, [ScreenNext]_screenVars PROVE ScreenInv'
    OBVIOUS
  <2>1. CASE BackEnd
    <3>1. PICK o \in Orders, st \in Bank!OpenStatuses \cup Bank!Settled : Bank!Move(o, st)
      BY <2>1 DEF BackEnd
    <3>2. StatusData
      BY DEF ScreenInv
    <3>3. QED BY <2>1, <3>1, <3>2, Settles, BackEndKeeps DEF BackEnd
  <2>2. CASE UNCHANGED screenVars
    <3>1. UNCHANGED <<status, post, answered, page, poll>>
      BY <2>2 DEF screenVars
    <3>2. StatusData'
      BY <3>1 DEF ScreenInv, StatusData
    <3>3. QED BY <3>1, <3>2, BackEndKeeps
  <2>3. QED
    BY <2>1, <2>2, SubmitKeeps, PostArrivesKeeps, PostServedKeeps, PostAnsweredKeeps,
       PostFailsKeeps, PollWaitsKeeps, PollSettlesKeeps, CancelKeeps, LeaveKeeps
    DEF ScreenNext
<1>3. QED BY <1>1, <1>2, PTL DEF ScreenSpec

-----------------------------------------------------------------------------
(* The types of the page's cards. *)

BoundedPolls == [id : Orders \cup {None}, n : 0 .. Tries, calls : 0 .. MaxCalls, stopped : BOOLEAN]

Flags ==
  /\ confirming \in BOOLEAN /\ slow \in BOOLEAN /\ error \in BOOLEAN
  /\ poll \in BoundedPolls
  /\ confirming => poll.id # None

LEMMA PollBounds ==
  ASSUME NEW o \in Orders
  PROVE  [NoPoll EXCEPT !.id = o] \in BoundedPolls
<1>1. 0 \in 0 .. Tries /\ 0 \in 0 .. MaxCalls
  BY ScreenParameters
<1>2. QED BY <1>1 DEF NoPoll, BoundedPolls

LEMMA NoPollBounds == NoPoll \in BoundedPolls
<1>1. 0 \in 0 .. Tries /\ 0 \in 0 .. MaxCalls
  BY ScreenParameters
<1>2. QED BY <1>1 DEF NoPoll, BoundedPolls

\* Calls go out up to the bound and come back.
LEMMA PollStays ==
  ASSUME Flags, Tick \/ PollMisses
  PROVE  poll' \in BoundedPolls /\ poll'.id = poll.id
<1> USE ScreenParameters DEF Flags, BoundedPolls
<1>1. CASE Tick
  <2>1. poll.calls < MaxCalls /\ poll.calls + 1 \in 0 .. MaxCalls
    BY <1>1 DEF Tick
  <2>2. CASE poll.n < Tries
    <3>1. poll.n + 1 \in 0 .. Tries /\ poll' = [poll EXCEPT !.n = poll.n + 1, !.calls = poll.calls + 1]
      BY <1>1, <2>2 DEF Tick
    <3>2. QED BY <2>1, <3>1
  <2>3. CASE ~(poll.n < Tries)
    <3>1. poll' = [poll EXCEPT !.n = poll.n, !.calls = poll.calls + 1]
      BY <1>1, <2>3 DEF Tick
    <3>2. QED BY <2>1, <3>1
  <2>4. QED BY <2>2, <2>3
<1>2. CASE PollMisses
  <2>1. poll.calls - 1 \in 0 .. MaxCalls
    BY <1>2 DEF PollMisses
  <2>2. \/ poll' = [poll EXCEPT !.calls = poll.calls - 1, !.stopped = TRUE]
        \/ poll' = [poll EXCEPT !.calls = poll.calls - 1]
    BY <1>2 DEF PollMisses
  <2>3. QED BY <2>1, <2>2
<1>3. QED BY <1>1, <1>2

LEMMA FlagsStay ==
  ASSUME ScreenInv, Flags, [ScreenNext]_screenVars
  PROVE  Flags'
<1>1. CASE Tick \/ PollMisses
  <2>1. UNCHANGED <<confirming, error>> /\ slow' \in BOOLEAN
    BY <1>1 DEF Tick, PollMisses, page, Flags
  <2>2. QED BY <1>1, <2>1, PollStays DEF Flags
<1>2. CASE PollSettles \/ LeavePage
  <2>1. confirming' = FALSE /\ slow' \in BOOLEAN /\ error' \in BOOLEAN /\ poll' = NoPoll
    BY <1>2 DEF PollSettles, PollOver, LeavePage, Flags
  <2>2. QED BY <2>1, NoPollBounds DEF Flags
<1>3. CASE PostAnswered
  <2>1. post.order \in Orders /\ post.order # None
    BY <1>3, NoPostStep, ScreenParameters DEF PostAnswered, ScreenInv, PostTrue, None
  <2>2. error' \in BOOLEAN
    BY <1>3 DEF PostAnswered
  <2>3. CASE post.answer = "processing"
    <3>1. poll' = [NoPoll EXCEPT !.id = post.order] /\ confirming' = TRUE /\ slow' = FALSE
      BY <1>3, <2>3 DEF PostAnswered
    <3>2. [NoPoll EXCEPT !.id = post.order].id = post.order
      BY <2>1, NewPoll
    <3>3. QED BY <2>1, <2>2, <3>1, <3>2, PollBounds DEF Flags
  <2>4. CASE post.answer # "processing"
    BY <1>3, <2>2, <2>4 DEF PostAnswered, Flags
  <2>5. QED BY <2>3, <2>4
<1>4. CASE \/ \E o \in Orders : Submit(o)
           \/ PostArrives \/ PostServed \/ PostFails \/ BackEnd
           \/ CancelAsked \/ CancelServed \/ CancelAnswered \/ CancelFails
           \/ UNCHANGED screenVars
  <2>1. UNCHANGED <<confirming, slow, poll>> /\ error' \in BOOLEAN
    BY <1>4 DEF Submit, PostArrives, PostServed, PostFails, BackEnd, CancelAsked, CancelServed,
                CancelAnswered, CancelFails, screenVars, page, Flags
  <2>2. QED BY <2>1 DEF Flags
<1>5. QED BY <1>1, <1>2, <1>3, <1>4 DEF ScreenNext

-----------------------------------------------------------------------------
(* Results. *)

\* The types of the page, and that it confirms exactly the order that it polls
\* (Withdraw.tsx: `confirming' and `pollId' are set and cleared together).
THEOREM ScreenTypeCorrect == ScreenSpec => []ScreenTypeOK
<1>1. ScreenInit => Flags
  BY NoPollData, NoPollBounds DEF ScreenInit, Flags
<1>2. ScreenInv /\ Flags /\ [ScreenNext]_screenVars => Flags'
  BY FlagsStay
<1>3. ScreenInv /\ Flags => ScreenTypeOK
  <2> SUFFICES ASSUME ScreenInv, Flags PROVE ScreenTypeOK
    OBVIOUS
  <2>1. confirming <=> poll.id # None
    BY DEF ScreenInv, PollTrue, Flags
  <2>2. confirming => poll.id = receipt
    BY <2>1 DEF ScreenInv, PollTrue
  <2>3. QED BY <2>1, <2>2
    DEF ScreenInv, StatusData, Statuses, PostData, PageData, Flags, BoundedPolls, ScreenTypeOK
<1>4. QED BY <1>1, <1>2, <1>3, ScreenInvariance, PTL DEF ScreenSpec

\* A receipt is shown only of a transfer that went through, or whose POST already told
\* that it was cancelled or reversed (onSuccess, useWithdrawalPoll).
THEOREM ReceiptsAreEarned == ScreenSpec => []ReceiptEarned
<1>1. ScreenInv => ReceiptEarned
  BY DEF ScreenInv, ReceiptTrue, ReceiptEarned, ReceiptShown
<1>2. QED BY <1>1, ScreenInvariance, PTL

\* What the card shows as cancelled was cancelled at the back end (QueuedTransfer).
THEOREM ShownCancelledIs == ScreenSpec => []CancelledIsCancelled
<1>1. ScreenInv => CancelledIsCancelled
  BY DEF ScreenInv, CancelTrue, CancelledIsCancelled
<1>2. QED BY <1>1, ScreenInvariance, PTL

-----------------------------------------------------------------------------
(* The jobs socket. *)

SocketData ==
  /\ ws \in Sockets \cup {NoSocket}
  /\ phase \in [Sockets -> {"closed", "opening", "doomed", "open"}]

FrameData ==
  /\ outbox \in Seq(Nat)
  /\ handed \in Seq(Nat)
  /\ written \in Nat

\* onopen empties the outbox, and nothing is put there while the socket is open.
Drained == \A s \in Sockets : phase[s] = "open" => outbox = <<>>

SocketInv == SocketData /\ OneSocket
FrameInv == FrameData /\ Drained /\ FramesInOrder

\* What connect leaves behind: at most a socket that is not open yet, where there
\* was none.
Dials ==
  \/ UNCHANGED <<ws, phase>>
  \/ /\ ~HasSocket
     /\ \E s \in Sockets : /\ phase[s] = "closed"
                           /\ ws' = s
                           /\ \E p \in {"opening", "doomed"} : phase' = [phase EXCEPT ![s] = p]

LEMMA OpenedDials == Opened => Dials
  BY DEF Opened, Dials

LEMMA ConnectDials == Connect => Dials
  BY OpenedDials DEF Connect, Dials

-----------------------------------------------------------------------------
(* One socket. *)

\* Every step dials, or opens or closes the socket, or leaves it alone.
Drops == /\ ws' = NoSocket
         /\ \/ ~HasSocket /\ phase' = phase
            \/ HasSocket /\ phase' = [phase EXCEPT ![ws] = "closed"]
OpensSome == \E s \in Sockets : /\ phase[s] = "opening"
                                /\ phase' = [phase EXCEPT ![s] = "open"]
                                /\ ws' = ws

LEMMA SocketSteps ==
  ASSUME SocketInv, [SocketNext]_socketVars
  PROVE  Dials \/ Drops \/ OpensSome
<1> USE DEF frames, timers
<1>1. CASE \/ Subscribe \/ TimerFires \/ StrayFires \/ Visible \/ Online
  BY <1>1, ConnectDials DEF Subscribe, TimerFires, StrayFires, Visible, Online
<1>2. CASE Write
  BY <1>2, ConnectDials DEF Write, Dials
<1>3. CASE TokenRead
  BY <1>3, OpenedDials DEF TokenRead, Dials
<1>4. CASE IdleFires \/ SessionExpires
  BY <1>4 DEF IdleFires, SessionExpires, Disconnect, Drops
<1>5. ASSUME NEW s \in Sockets, Opens(s) PROVE OpensSome
  BY <1>5 DEF Opens, OpensSome
<1>6. ASSUME NEW s \in Sockets, Closes(s) PROVE Drops
  <2>1. ws = s /\ s # NoSocket
    BY <1>6, SocketParameters DEF Closes, SocketInv, OneSocket, NoSocket
  <2>2. QED BY <1>6, <2>1 DEF Closes, Drops, HasSocket
<1>7. CASE \/ Unsubscribe \/ Resumes \/ SignsIn \/ AccessAges \/ AccessRenewed \/ SignsOut
           \/ UNCHANGED socketVars
  BY <1>7 DEF Unsubscribe, Resumes, SignsIn, AccessAges, AccessRenewed, SignsOut, socketVars, Dials
<1>8. QED BY <1>1, <1>2, <1>3, <1>4, <1>5, <1>6, <1>7 DEF SocketNext

LEMMA SocketInvariance == SocketSpec => []SocketInv
<1>1. SocketInit => SocketInv
  BY DEF SocketInit, SocketInv, SocketData, OneSocket
<1>2. SocketInv /\ [SocketNext]_socketVars => SocketInv'
  <2> SUFFICES ASSUME SocketInv, [SocketNext]_socketVars PROVE SocketInv'
    OBVIOUS
  <2> USE SocketParameters DEF SocketInv, SocketData, OneSocket, HasSocket, NoSocket
  <2>1. CASE Dials
    BY <2>1 DEF Dials
  <2>2. CASE Drops
    BY <2>2 DEF Drops
  <2>3. CASE OpensSome
    BY <2>3 DEF OpensSome
  <2>4. QED BY <2>1, <2>2, <2>3, SocketSteps
<1>3. QED BY <1>1, <1>2, PTL DEF SocketSpec

\* "One shared WebSocket for the whole tab" (connect, onclose): whichever screens,
\* timers, close handlers and token reads overlap.
THEOREM OnlySocket == SocketSpec => []OneSocket
  BY SocketInvariance, PTL DEF SocketInv

-----------------------------------------------------------------------------
(* Frames. *)

\* Counting on by one.
LEMMA Longer ==
  ASSUME NEW n \in Nat
  PROVE  Append([i \in 1 .. n |-> i], n + 1) = [i \in 1 .. n + 1 |-> i]
  OBVIOUS

\* The outbox and what was handed over, as one sequence.
LEMMA Joined ==
  ASSUME NEW a \in Seq(Nat), NEW b \in Seq(Nat), NEW n \in Nat
  PROVE  /\ a \o <<>> = a
         /\ a \o Append(b, n) = Append(a \o b, n)
         /\ a \o b \in Seq(Nat)
         /\ Append(b, n) \in Seq(Nat)
  OBVIOUS

LEMMA NextFrames ==
  ASSUME SocketInv, FrameInv, [SocketNext]_socketVars
  PROVE  FrameInv'
<1> USE DEF FrameInv, FrameData, timers, frames
<1>1. CASE Write
  <2>1. written' = written + 1 /\ written + 1 \in Nat
    BY <1>1 DEF Write
  <2>2. [i \in 1 .. written + 1 |-> i] = Append(handed \o outbox, written + 1)
    BY <2>1, Longer DEF FramesInOrder
  <2>3. CASE HasSocket /\ phase[ws] = "open"
    <3>1. handed' = Append(handed, written + 1) /\ UNCHANGED <<outbox, ws, phase>>
      BY <1>1, <2>3 DEF Write
    <3>2. outbox = <<>>
      BY <2>3 DEF Drained, SocketInv, SocketData, HasSocket
    <3>3. handed' \o outbox' = Append(handed \o outbox, written + 1)
      BY <3>1, <3>2, <2>1, Joined
    <3>4. FramesInOrder'
      BY <2>1, <2>2, <3>3 DEF FramesInOrder
    <3>5. FrameData'
      BY <2>1, <3>1, Joined
    <3>6. QED BY <3>1, <3>4, <3>5 DEF Drained
  <2>4. CASE ~(HasSocket /\ phase[ws] = "open")
    <3>1. outbox' = Append(outbox, written + 1) /\ UNCHANGED handed /\ Connect
      BY <1>1, <2>4 DEF Write
    <3>2. handed' \o outbox' = Append(handed \o outbox, written + 1)
      BY <3>1, <2>1, Joined
    <3>3. FramesInOrder'
      BY <2>1, <2>2, <3>2 DEF FramesInOrder
    <3>4. FrameData'
      BY <2>1, <3>1, Joined
    <3>5. \A s \in Sockets : phase[s] # "open"
      BY <2>4, SocketParameters DEF SocketInv, OneSocket, SocketData, HasSocket, NoSocket
    <3>6. \A s \in Sockets : phase'[s] # "open"
      BY <3>1, <3>5, ConnectDials DEF Dials, SocketInv, SocketData
    <3>7. QED BY <3>3, <3>4, <3>6 DEF Drained
  <2>5. QED BY <2>3, <2>4
<1>2. ASSUME NEW s \in Sockets, Opens(s) PROVE FrameInv'
  <2>1. handed' = handed \o outbox /\ outbox' = <<>> /\ UNCHANGED written
    BY <1>2 DEF Opens, Flushed
  <2>2. handed' \in Seq(Nat) /\ outbox' \in Seq(Nat)
    BY <2>1, Joined
  <2>3. handed' \o outbox' = handed \o outbox
    BY <2>1, <2>2, Joined
  <2>4. QED BY <2>1, <2>2, <2>3 DEF Drained, FramesInOrder
\* A step that writes and opens nothing.
<1>3. ASSUME UNCHANGED frames, Dials \/ Drops PROVE FrameInv'
  <2>1. \A s \in Sockets : phase'[s] = "open" => phase[s] = "open"
    BY <1>3 DEF Dials, Drops, SocketInv, SocketData
  <2>2. QED BY <1>3, <2>1 DEF Drained, FramesInOrder
<1>4. CASE \/ Subscribe \/ TimerFires \/ StrayFires \/ Visible \/ Online
  <2>1. Connect /\ UNCHANGED frames
    BY <1>4 DEF Subscribe, TimerFires, StrayFires, Visible, Online
  <2>2. QED BY <1>3, <2>1, ConnectDials
<1>5. CASE TokenRead
  <2>1. UNCHANGED frames /\ (Opened \/ UNCHANGED <<ws, phase>>)
    BY <1>5 DEF TokenRead
  <2>2. QED BY <1>3, <2>1, OpenedDials DEF Dials
<1>6. CASE IdleFires \/ SessionExpires
  <2>1. Drops /\ UNCHANGED frames
    BY <1>6 DEF IdleFires, SessionExpires, Disconnect, Drops
  <2>2. QED BY <1>3, <2>1
<1>7. ASSUME NEW s \in Sockets, Closes(s) PROVE FrameInv'
  <2>1. ws = s /\ s # NoSocket
    BY <1>7, SocketParameters DEF Closes, SocketInv, OneSocket, NoSocket
  <2>2. Drops /\ UNCHANGED frames
    BY <1>7, <2>1 DEF Closes, Drops, HasSocket
  <2>3. QED BY <1>3, <2>2
<1>8. CASE \/ Unsubscribe \/ Resumes \/ SignsIn \/ AccessAges \/ AccessRenewed \/ SignsOut
           \/ UNCHANGED socketVars
  <2>1. UNCHANGED <<outbox, handed, written, ws, phase>>
    BY <1>8 DEF Unsubscribe, Resumes, SignsIn, AccessAges, AccessRenewed, SignsOut, socketVars
  <2>2. QED BY <1>3, <2>1 DEF Dials
<1> HIDE DEF FrameInv
<1>9. QED BY <1>1, <1>2, <1>4, <1>5, <1>6, <1>7, <1>8 DEF SocketNext

-----------------------------------------------------------------------------
(* Types. *)

SocketFlags == connecting \in BOOLEAN /\ timer \in BOOLEAN /\ idle \in BOOLEAN

Counts ==
  /\ screens \in 0 .. MaxScreens
  /\ strays \in 0 .. MaxTimers
  /\ awaiting \in 0 .. MaxCloses
  /\ written \in 0 .. MaxFrames

Login == app \in Apps /\ access \in {"valid", "expired", "none"}

Rest == Login /\ SocketFlags /\ Counts

LEMMA LoginStays ==
  ASSUME Login, [SocketNext]_socketVars
  PROVE  Login'
  BY DEF Login, SocketNext, socketVars, Subscribe, Unsubscribe, IdleFires, Write, TokenRead, Opens,
         Closes, Resumes, TimerFires, StrayFires, Visible, Online, SignsIn, AccessAges,
         AccessRenewed, SignsOut, SessionExpires

LEMMA SocketBounds ==
  MaxScreens \in Nat /\ MaxFrames \in Nat /\ MaxTimers \in Nat /\ MaxCloses \in Nat
  BY SocketParameters

LEMMA CountsStay ==
  ASSUME Counts, [SocketNext]_socketVars
  PROVE  Counts'
<1> USE SocketBounds DEF Counts, frames, timers
<1>1. CASE Subscribe \/ TimerFires \/ StrayFires \/ Visible \/ Online
  BY <1>1 DEF Subscribe, TimerFires, StrayFires, Visible, Online
<1>2. CASE Unsubscribe \/ SignsIn \/ AccessAges \/ AccessRenewed \/ SignsOut
  BY <1>2 DEF Unsubscribe, SignsIn, AccessAges, AccessRenewed, SignsOut
<1>3. CASE Write \/ TokenRead
  BY <1>3 DEF Write, TokenRead
<1>4. CASE IdleFires \/ SessionExpires
  BY <1>4 DEF IdleFires, SessionExpires
<1>5. ASSUME NEW s \in Sockets, Opens(s) PROVE Counts'
  BY <1>5 DEF Opens
<1>6. ASSUME SetTimer PROVE strays' \in 0 .. MaxTimers
  <2>1. CASE strays' = strays + 1 /\ strays < MaxTimers
    BY <2>1
  <2>2. CASE UNCHANGED strays
    BY <2>2
  <2>3. QED BY <1>6, <2>1, <2>2, Zenon DEF SetTimer
<1>7. ASSUME NEW s \in Sockets, Closes(s) PROVE Counts'
  BY <1>6, <1>7 DEF Closes
<1>8. CASE Resumes
  BY <1>6, <1>8 DEF Resumes
<1>9. CASE UNCHANGED socketVars
  BY <1>9 DEF socketVars
<1>10. QED BY <1>1, <1>2, <1>3, <1>4, <1>5, <1>7, <1>8, <1>9 DEF SocketNext

LEMMA ConnectWaits == SocketFlags /\ Connect => connecting' \in BOOLEAN
  BY Zenon DEF SocketFlags, Connect

LEMMA SocketFlagsStay ==
  ASSUME SocketFlags, [SocketNext]_socketVars
  PROVE  SocketFlags'
<1> USE DEF SocketFlags, timers
<1>1. CASE Subscribe \/ TimerFires \/ StrayFires \/ Visible \/ Online
  BY <1>1, ConnectWaits DEF Subscribe, TimerFires, StrayFires, Visible, Online
<1>2. CASE SignsIn \/ AccessAges \/ AccessRenewed
  BY <1>2 DEF SignsIn, AccessAges, AccessRenewed
<1>3. CASE Unsubscribe \/ SignsOut \/ SessionExpires \/ IdleFires
  <2>1. idle' \in BOOLEAN
    BY <1>3 DEF Unsubscribe, SignsOut, SessionExpires, IdleFires
  <2>2. UNCHANGED connecting /\ (UNCHANGED timer \/ timer' = FALSE)
    BY <1>3 DEF Unsubscribe, SignsOut, SessionExpires, IdleFires, Disconnect
  <2>3. QED BY <2>1, <2>2
<1>4. CASE Write
  BY <1>4, ConnectWaits DEF Write
<1>5. CASE TokenRead
  BY <1>5 DEF TokenRead
<1>6. ASSUME NEW s \in Sockets, Opens(s) \/ Closes(s) PROVE SocketFlags'
  BY <1>6 DEF Opens, Closes, SetTimer
<1>7. CASE Resumes
  BY <1>7 DEF Resumes, SetTimer
<1>8. CASE UNCHANGED socketVars
  BY <1>8 DEF socketVars
<1>9. QED BY <1>1, <1>2, <1>3, <1>4, <1>5, <1>6, <1>7, <1>8 DEF SocketNext

LEMMA FrameInvariance == SocketSpec => []FrameInv
<1>1. SocketInit => FrameInv
  <2> SUFFICES ASSUME SocketInit PROVE FrameInv
    OBVIOUS
  <2>1. outbox = <<>> /\ handed = <<>> /\ written = 0
    BY DEF SocketInit
  <2>2. <<>> \o <<>> = [n \in 1 .. 0 |-> n]
    OBVIOUS
  <2>3. QED BY <2>1, <2>2 DEF FrameInv, FrameData, Drained, FramesInOrder
<1>2. SocketInv /\ FrameInv /\ [SocketNext]_socketVars => FrameInv'
  BY NextFrames
<1>3. QED BY <1>1, <1>2, SocketInvariance, PTL DEF SocketSpec

\* The types of the socket module: its one socket, timers, listeners and outbox
\* (jobsSocket.ts, socket.ts).
THEOREM SocketTypeCorrect == SocketSpec => []SocketTypeOK
<1>1. SocketInit => Rest
  <2>1. SocketInit => Counts
    BY SocketBounds DEF SocketInit, Counts
  <2>2. SocketInit => Login /\ SocketFlags
    BY DEF SocketInit, Login, SocketFlags
  <2>3. QED BY <2>1, <2>2 DEF Rest
<1>2. Rest /\ [SocketNext]_socketVars => Rest'
  BY LoginStays, SocketFlagsStay, CountsStay DEF Rest
<1>3. SocketInv /\ FrameInv /\ Rest => SocketTypeOK
  BY DEF SocketInv, SocketData, FrameInv, FrameData, Rest, Login, SocketFlags, Counts, SocketTypeOK
<1>4. QED BY <1>1, <1>2, <1>3, SocketInvariance, FrameInvariance, PTL DEF SocketSpec

\* Frames reach a socket in the order they were written, each once, however often the
\* socket drops (sendJobsEvent, onopen).
THEOREM FramesKeepOrder == SocketSpec => []FramesInOrder
  BY FrameInvariance, PTL DEF FrameInv

-----------------------------------------------------------------------------
(* The chat: what is stored, what is on its way and what is shown agree. *)

CallsUpTo(n) ==
  [msg : Messages, try : 1 .. MaxTries, via : Routes,
   at : {"out", "checked", "stored", "refused"}, id : 0 .. n]
BubblesUpTo(n) == [msg : Messages, id : 0 .. n, look : {"pending", "failed", "sent"}]

CallOK(c) ==
  /\ c \in CallsUpTo(Len(rows))
  /\ tries[c.msg] > 0
  /\ c.id # Local => rows[c.id] = c.msg
  /\ c.at = "stored" => c.id # Local

\* Until a send of it is reported as failed, a bubble looks as what it shows is.
BubbleOK(b) ==
  /\ b \in BubblesUpTo(Len(rows))
  /\ tries[b.msg] > 0
  /\ b.id # Local => rows[b.id] = b.msg
  /\ b.msg \notin reported => b.look = IF b.id = Local THEN "pending" ELSE "sent"

ChatData ==
  /\ line \in BOOLEAN
  /\ tries \in [Messages -> 0 .. MaxTries]
  /\ rows \in Seq(Messages)
  /\ heard \subseteq 1 .. Len(rows)
  /\ load \in [step : {"asked", "served", "done"}, upto : 0 .. Len(rows)]
  /\ overlapped \subseteq Messages
  /\ reported \subseteq Messages
  /\ \A n \in 1 .. Len(rows) : tries[rows[n]] > 0

\* A message that two calls did not look for together is stored once, and not while a
\* call that did not find it is still about to store it.
Checked(m) == {c \in calls : c.msg = m /\ c.at = "checked"}
Alone(m) ==
  /\ \A c, d \in Checked(m) : c = d
  /\ Checked(m) # {} => RowsOf(m) = {}
  /\ \A i, j \in RowsOf(m) : i = j

StoreSide ==
  /\ IsFiniteSet(calls)
  /\ \A c \in calls : CallOK(c)
  /\ \A m \in Messages \ overlapped : Alone(m)

OneBubble(m) == \A b, d \in bubbles : b.msg = m /\ d.msg = m => b = d

PageSide ==
  /\ \A b \in bubbles : BubbleOK(b)
  /\ \A m \in Messages \ (reported \cup overlapped) : OneBubble(m)

ChatInv == ChatData /\ StoreSide /\ PageSide

-----------------------------------------------------------------------------
(* Sets of one element. *)

LEMMA FewAreOne ==
  ASSUME NEW S, IsFiniteSet(S), ~(Cardinality(S) > 1), NEW x \in S, NEW y \in S
  PROVE  x = y
<1>1. IsFiniteSet(S \ {x}) /\ Cardinality(S \ {x}) = Cardinality(S) - 1
  BY FS_RemoveElement
<1>2. Cardinality(S) \in Nat /\ Cardinality(S \ {x}) \in Nat
  BY <1>1, FS_CardinalityType
<1>3. Cardinality(S \ {x}) = 0
  BY <1>1, <1>2
<1>4. S \ {x} = {}
  BY <1>1, <1>3, FS_EmptySet
<1>5. QED BY <1>4

LEMMA OneIsFew ==
  ASSUME NEW S, \A x, y \in S : x = y
  PROVE  Cardinality(S) \in Nat /\ Cardinality(S) <= 1
<1>1. CASE S = {}
  BY <1>1, FS_EmptySet
<1>2. CASE S # {}
  <2>1. PICK x \in S : TRUE
    BY <1>2
  <2>2. S = {x}
    BY <2>1
  <2>3. QED BY <2>2, FS_Singleton
<1>3. QED BY <1>1, <1>2

-----------------------------------------------------------------------------
(* Nothing that was written, stored or reported is taken back. *)

Goes ==
  /\ tries' \in [Messages -> 0 .. MaxTries]
  /\ \A m \in Messages : tries[m] > 0 => tries'[m] > 0
  /\ rows' \in Seq(Messages)
  /\ 1 .. Len(rows) \subseteq 1 .. Len(rows')
  /\ 0 .. Len(rows) \subseteq 0 .. Len(rows')
  /\ \A n \in 1 .. Len(rows) : rows'[n] = rows[n]
  /\ reported \subseteq reported'

LEMMA CallStays ==
  ASSUME Goes, NEW c, CallOK(c)
  PROVE  CallOK(c)'
<1>1. c.id # Local => c.id \in 1 .. Len(rows)
  BY DEF CallOK, CallsUpTo, Local
<1>2. QED BY <1>1 DEF Goes, CallOK, CallsUpTo

LEMMA BubbleStays ==
  ASSUME Goes, NEW b, BubbleOK(b)
  PROVE  BubbleOK(b)'
<1>1. b.id # Local => b.id \in 1 .. Len(rows)
  BY DEF BubbleOK, BubblesUpTo, Local
<1>2. QED BY <1>1 DEF Goes, BubbleOK, BubblesUpTo

LEMMA StillGoes ==
  ASSUME ChatData, UNCHANGED <<tries, rows>>, reported \subseteq reported'
  PROVE  Goes
  BY DEF ChatData, Goes

\* What a call becomes.
LEMMA MovedOK ==
  ASSUME ChatData, NEW c, CallOK(c),
         NEW at \in {"out", "checked", "stored", "refused"},
         NEW id \in 0 .. Len(rows), id # Local => rows[id] = c.msg,
         at = "stored" => id # Local
  PROVE  CallOK([c EXCEPT !.at = at, !.id = id])
  BY DEF CallOK, CallsUpTo

-----------------------------------------------------------------------------
(* The back end. *)

\* No call comes to where it is about to store its message.
LEMMA NoneChecked ==
  ASSUME StoreSide, Goes, UNCHANGED <<rows, overlapped>>, IsFiniteSet(calls'),
         \A c \in calls' : CallOK(c)',
         \A c \in calls' : c.at = "checked" => c \in calls
  PROVE  StoreSide'
<1>1. ASSUME NEW m \in Messages \ overlapped PROVE Alone(m)'
  <2>1. Checked(m)' \subseteq Checked(m) /\ RowsOf(m)' = RowsOf(m)
    BY DEF Checked, RowsOf
  <2>2. QED BY <2>1 DEF StoreSide, Alone
<1>2. QED BY <1>1 DEF StoreSide

LEMMA FewerCalls ==
  ASSUME StoreSide, Goes, UNCHANGED <<rows, overlapped>>, calls' \subseteq calls
  PROVE  StoreSide'
<1>1. IsFiniteSet(calls')
  BY FS_Subset DEF StoreSide
<1>2. \A c \in calls' : CallOK(c)'
  BY CallStays DEF StoreSide
<1>3. QED BY <1>1, <1>2, NoneChecked

LEMMA DeliverGoes ==
  ASSUME ChatData, NEW m \in Messages, DeliverMessage(m), UNCHANGED <<rows, reported>>
  PROVE  Goes /\ tries'[m] > 0
  BY ChatParameters DEF ChatData, DeliverMessage, Goes

LEMMA DeliverKeeps ==
  ASSUME ChatData, StoreSide, NEW m \in Messages, DeliverMessage(m),
         UNCHANGED <<rows, reported, overlapped>>
  PROVE  StoreSide'
<1> DEFINE call(via) == [msg |-> m, try |-> tries[m] + 1, via |-> via, at |-> "out", id |-> Local]
<1>1. Goes /\ tries'[m] > 0
  BY DeliverGoes
<1>2. tries[m] + 1 \in 1 .. MaxTries /\ 0 \in 0 .. Len(rows)
  BY ChatParameters DEF ChatData, DeliverMessage
<1>3. ASSUME NEW d \in {call("rest"), call("socket")} PROVE CallOK(d)' /\ d.at = "out"
  <2>1. d \in CallsUpTo(Len(rows')) /\ d.msg = m /\ d.at = "out" /\ d.id = Local
    BY <1>1, <1>2 DEF CallsUpTo, Routes, Local
  <2>2. QED BY <1>1, <2>1 DEF CallOK
<1>4. /\ calls \subseteq calls'
      /\ calls' \subseteq calls \cup {call("rest"), call("socket")}
  BY DEF DeliverMessage
<1> HIDE DEF call
<1>5. IsFiniteSet(calls')
  <2>1. IsFiniteSet((calls \cup {call("rest")}) \cup {call("socket")})
    BY FS_AddElement DEF StoreSide
  <2>2. QED BY <1>4, <2>1, FS_Subset
<1>6. ASSUME NEW c \in calls' PROVE CallOK(c)'
  <2>1. CASE c \in calls
    BY <2>1, <1>1, CallStays DEF StoreSide
  <2>2. CASE c \notin calls
    BY <2>2, <1>3, <1>4
  <2>3. QED BY <2>1, <2>2
<1>7. \A c \in calls' : c.at = "checked" => c \in calls
  BY <1>3, <1>4
<1>8. QED BY <1>1, <1>5, <1>6, <1>7, NoneChecked

LEMMA MovedIs ==
  ASSUME NEW c, NEW at, NEW id
  PROVE  Moved(c, at, id) \subseteq (calls \ {c}) \cup {[c EXCEPT !.at = at, !.id = id]}
  BY DEF Moved

LEMMA LooksKeeps ==
  ASSUME ChatData, StoreSide, NEW c \in calls, Looks(c)
  PROVE  StoreSide'
<1> DEFINE next(at, id) == [c EXCEPT !.at = at, !.id = id]
           found == RowsOf(c.msg)
           target(at, id) ==
             /\ calls' = Moved(c, at, id)
             /\ id # Local => rows[id] = c.msg
             /\ at = "stored" => id # Local
             /\ at = "checked" => found = {}
<1>1. Goes /\ UNCHANGED rows /\ overlapped \subseteq overlapped' /\ CallOK(c)
  BY StillGoes DEF Looks, StoreSide
<1>2. PICK at \in {"stored", "checked", "refused"}, id \in 0 .. Len(rows) :
        target(at, id)
  <2>1. ASSUME NEW n \in found, calls' = Moved(c, "stored", n)
        PROVE  \E id \in 0 .. Len(rows) : target("stored", id)
    <3>1. n \in 1 .. Len(rows) /\ rows[n] = c.msg
      BY <2>1 DEF RowsOf, ChatData
    <3>2. n \in 0 .. Len(rows) /\ n # Local
      BY <3>1 DEF Local, ChatData
    <3>3. target("stored", n)
      BY <2>1, <3>1, <3>2
    <3>4. QED BY <3>2, <3>3
  <2>2. Local \in 0 .. Len(rows)
    BY DEF Local, ChatData
  <2>3. ASSUME found = {}, calls' = Moved(c, "checked", Local) PROVE target("checked", Local)
    BY <2>3
  <2>4. ASSUME calls' = Moved(c, "refused", Local) PROVE target("refused", Local)
    BY <2>4
  <2> HIDE DEF target
  <2>5. QED BY <2>1, <2>2, <2>3, <2>4 DEF Looks, AlreadyStored
<1>3. calls' \subseteq (calls \ {c}) \cup {next(at, id)}
  BY <1>2, MovedIs
<1>4. next(at, id).at = at /\ next(at, id).msg = c.msg
  BY <1>1 DEF CallOK, CallsUpTo
<1>5. CallOK(next(at, id))
  BY <1>1, <1>2, MovedOK
<1> HIDE DEF next
<1>6. IsFiniteSet(calls')
  BY <1>3, FS_AddElement, FS_RemoveElement, FS_Subset DEF StoreSide
<1>7. ASSUME NEW d \in calls' PROVE CallOK(d)'
  <2>1. CallOK(d)
    BY <1>3, <1>5 DEF StoreSide
  <2>2. QED BY <2>1, <1>1, CallStays
<1>8. ASSUME NEW m \in Messages \ overlapped' PROVE Alone(m)'
  <2>1. RowsOf(m)' = RowsOf(m) /\ Alone(m)
    BY <1>1 DEF RowsOf, StoreSide
  <2>2. CASE m = c.msg /\ at = "checked"
    <3>1. RowsOf(m) = {}
      BY <2>2, <1>2
    <3>2. ~(Cardinality(Checked(m)') > 1)
      BY <2>2 DEF Looks, Checked
    <3>3. IsFiniteSet(Checked(m)')
      BY <1>6, FS_Subset DEF Checked
    <3>4. \A x, y \in Checked(m)' : x = y
      BY <3>2, <3>3, FewAreOne
    <3>5. QED BY <2>1, <3>1, <3>4 DEF Alone
  <2>3. CASE m # c.msg \/ at # "checked"
    <3>1. Checked(m)' \subseteq Checked(m)
      BY <2>3, <1>3, <1>4 DEF Checked
    <3>2. QED BY <2>1, <3>1 DEF Alone
  <2>4. QED BY <2>2, <2>3
<1>9. QED BY <1>6, <1>7, <1>8 DEF StoreSide

LEMMA StoresGoes ==
  ASSUME ChatData, StoreSide, NEW c \in calls, Stores(c)
  PROVE  /\ Goes
         /\ Len(rows') = Len(rows) + 1
         /\ rows'[Len(rows) + 1] = c.msg
         /\ c.msg \in Messages /\ tries[c.msg] > 0
<1>1. c.msg \in Messages /\ tries[c.msg] > 0
  BY DEF StoreSide, CallOK, CallsUpTo
<1>2. rows' = Append(rows, c.msg) /\ UNCHANGED <<tries, reported>>
  BY DEF Stores
<1>3. QED BY <1>1, <1>2 DEF ChatData, Goes

LEMMA StoresKeeps ==
  ASSUME ChatData, StoreSide, NEW c \in calls, Stores(c)
  PROVE  StoreSide'
<1> DEFINE n == Len(rows) + 1
<1>1. /\ Goes /\ Len(rows') = n /\ rows'[n] = c.msg /\ CallOK(c)
      /\ UNCHANGED <<tries, overlapped>>
  BY StoresGoes DEF Stores, StoreSide
<1>2. PICK next : /\ next = [c EXCEPT !.at = "stored", !.id = n]
                  /\ calls' \subseteq (calls \ {c}) \cup {next}
                  /\ c.at = "checked"
  <2>1. calls' = Moved(c, "stored", n) /\ c.at = "checked"
    BY DEF Stores
  <2>2. calls' \subseteq (calls \ {c}) \cup {[c EXCEPT !.at = "stored", !.id = n]}
    BY <2>1, MovedIs
  <2>3. QED BY <2>1, <2>2
<1>3. CallOK(next)' /\ next.at = "stored"
  <2>1. n \in 0 .. Len(rows') /\ n # Local
    BY <1>1 DEF ChatData, Local
  <2>2. next \in CallsUpTo(Len(rows')) /\ next.msg = c.msg /\ next.id = n /\ next.at = "stored"
    BY <2>1, <1>1, <1>2 DEF CallOK, CallsUpTo
  <2>3. QED BY <1>1, <2>1, <2>2 DEF CallOK
<1>4. IsFiniteSet(calls')
  BY <1>2, FS_AddElement, FS_RemoveElement, FS_Subset DEF StoreSide
<1>5. ASSUME NEW d \in calls' PROVE CallOK(d)'
  BY <1>1, <1>2, <1>3, CallStays DEF StoreSide
<1>6. ASSUME NEW m \in Messages \ overlapped PROVE Alone(m)'
  <2>1. Checked(m)' \subseteq Checked(m) \ {c}
    BY <1>2, <1>3 DEF Checked
  <2>2. RowsOf(m)' \subseteq RowsOf(m) \cup {n} /\ (m # c.msg => RowsOf(m)' \subseteq RowsOf(m))
    <3>1. 1 .. Len(rows') = 1 .. Len(rows) \cup {n}
      BY <1>1 DEF ChatData
    <3>2. DOMAIN rows = 1 .. Len(rows) /\ DOMAIN rows' = 1 .. Len(rows')
      BY <1>1 DEF Goes, ChatData
    <3>3. QED BY <1>1, <3>1, <3>2 DEF RowsOf, Goes
  <2>3. Alone(m)
    BY DEF StoreSide
  <2>4. CASE m = c.msg
    <3>1. c \in Checked(m)
      BY <2>4, <1>2 DEF Checked
    <3>2. RowsOf(m) = {} /\ Checked(m)' = {}
      BY <2>1, <2>3, <3>1 DEF Alone
    <3>3. QED BY <2>2, <3>2 DEF Alone
  <2>5. CASE m # c.msg
    BY <2>1, <2>2, <2>3, <2>5 DEF Alone
  <2>6. QED BY <2>4, <2>5
<1>7. QED BY <1>1, <1>4, <1>5, <1>6 DEF StoreSide

LEMMA SendFailsKeeps ==
  ASSUME ChatData, StoreSide, NEW c \in calls, SendFails(c)
  PROVE  StoreSide'
<1> DEFINE next == [c EXCEPT !.via = "unheard"]
<1>1. Goes /\ UNCHANGED <<rows, overlapped>> /\ CallOK(c)
  BY StillGoes DEF SendFails, StoreSide
<1>2. calls' \subseteq (calls \ {c}) \cup {next}
  BY DEF SendFails
<1>3. CallOK(next) /\ next.at = c.at /\ next.msg = c.msg
  BY <1>1 DEF CallOK, CallsUpTo, Routes
<1> HIDE DEF next
<1>4. IsFiniteSet(calls')
  BY <1>2, FS_AddElement, FS_RemoveElement, FS_Subset DEF StoreSide
<1>5. ASSUME NEW d \in calls' PROVE CallOK(d)'
  BY <1>1, <1>2, <1>3, CallStays DEF StoreSide
<1>6. ASSUME NEW m \in Messages \ overlapped PROVE Alone(m)'
  <2>1. RowsOf(m)' = RowsOf(m) /\ Alone(m)
    BY <1>1 DEF RowsOf, StoreSide
  <2>2. Checked(m)' \subseteq (Checked(m) \ {c}) \cup {next}
    BY <1>2 DEF Checked
  <2>3. next \in Checked(m)' => c \in Checked(m)
    BY <1>3 DEF Checked
  <2>4. QED BY <2>1, <2>2, <2>3 DEF Alone
<1>7. QED BY <1>1, <1>4, <1>5, <1>6 DEF StoreSide

-----------------------------------------------------------------------------
(* The page. *)

\* The bubbles stay, or some go.
LEMMA FewerBubbles ==
  ASSUME PageSide, Goes, overlapped \subseteq overlapped', bubbles' \subseteq bubbles
  PROVE  PageSide'
<1>1. \A b \in bubbles' : BubbleOK(b)'
  BY BubbleStays DEF PageSide
<1>2. \A m \in Messages \ (reported' \cup overlapped') : OneBubble(m)'
  BY DEF PageSide, OneBubble, Goes
<1>3. QED BY <1>1, <1>2 DEF PageSide

\* A stored message that nobody reported takes the place of its pending bubble.
LEMMA MergedKeeps ==
  ASSUME ChatData, StoreSide, PageSide, NEW n \in 1 .. Len(rows), bubbles' \in Merged(n),
         UNCHANGED <<tries, rows, overlapped, reported>>
  PROVE  PageSide'
<1> DEFINE waiting == {b \in bubbles : b.msg = rows[n] /\ b.look = "pending"}
<1>1. Goes
  BY StillGoes
<1>2. CASE \E b \in bubbles : b.id = n
  <2>1. bubbles' = bubbles
    BY <1>2 DEF Merged
  <2>2. QED BY <1>1, <2>1, FewerBubbles
<1>3. CASE ~\E b \in bubbles : b.id = n
  <2>1. /\ Real(n) \in BubblesUpTo(Len(rows)) /\ Real(n).msg = rows[n] /\ Real(n).id = n /\ n # Local
        /\ Real(n).look = "sent"
    BY DEF Real, BubblesUpTo, ChatData, Local
  <2>2. BubbleOK(Real(n))
    BY <2>1 DEF BubbleOK, ChatData
  <2>3. PICK gone \in SUBSET bubbles :
          /\ bubbles' = (bubbles \ gone) \cup {Real(n)}
          /\ waiting # {} => \E b \in waiting : b \in gone
    <3>1. CASE waiting = {}
      <4>1. bubbles' = (bubbles \ {}) \cup {Real(n)}
        BY <1>3, <3>1 DEF Merged
      <4>2. QED BY <3>1, <4>1
    <3>2. CASE waiting # {}
      <4>1. PICK b \in waiting : bubbles' = (bubbles \ {b}) \cup {Real(n)}
        BY <1>3, <3>2 DEF Merged
      <4>2. {b} \in SUBSET bubbles
        OBVIOUS
      <4>3. QED BY <4>1, <4>2
    <3>3. QED BY <3>1, <3>2
  <2>4. ASSUME NEW b \in bubbles' PROVE BubbleOK(b)'
    <3>1. BubbleOK(b)
      BY <2>2, <2>3 DEF PageSide
    <3>2. QED BY <3>1, <1>1, BubbleStays
  <2>5. ASSUME NEW m \in Messages \ (reported \cup overlapped) PROVE OneBubble(m)'
    <3>1. OneBubble(m)
      BY DEF PageSide
    <3>2. CASE m # rows[n]
      BY <3>1, <3>2, <2>1, <2>3 DEF OneBubble
    <3>3. CASE m = rows[n]
      <4>1. ASSUME NEW b \in bubbles, b.msg = m PROVE b \in waiting
        <5>1. BubbleOK(b) /\ b.id # n
          BY <1>3 DEF PageSide
        <5>2. b.id = Local
          <6>1. SUFFICES ASSUME b.id # Local PROVE FALSE
            OBVIOUS
          <6>2. b.id \in 1 .. Len(rows) /\ rows[b.id] = m
            BY <4>1, <5>1, <6>1 DEF BubbleOK, BubblesUpTo, Local
          <6>3. b.id \in RowsOf(m) /\ n \in RowsOf(m)
            BY <6>2, <3>3 DEF RowsOf, ChatData
          <6>4. QED BY <6>3, <5>1 DEF StoreSide, Alone
        <5>3. QED BY <4>1, <5>1, <5>2, <3>3 DEF BubbleOK
      <4>2. ASSUME NEW b \in bubbles, b.msg = m PROVE b \in gone
        BY <4>1, <4>2, <3>1, <2>3 DEF OneBubble
      <4>3. QED BY <4>2, <2>3 DEF OneBubble
    <3>4. QED BY <3>2, <3>3
  <2>6. QED BY <2>4, <2>5 DEF PageSide
<1>4. QED BY <1>2, <1>3

\* Some bubbles of one message get another look, and a failed one is reported.
LEMMA LooksAgain ==
  ASSUME ChatData, PageSide, Goes, overlapped \subseteq overlapped', NEW m, m \in reported',
         NEW look \in {"pending", "failed"}, NEW some \in SUBSET {b \in bubbles : b.msg = m},
         bubbles' = {IF b \in some THEN [b EXCEPT !.look = look] ELSE b : b \in bubbles}
  PROVE  PageSide'
<1>1. ASSUME NEW b \in some
      PROVE  BubbleOK([b EXCEPT !.look = look])' /\ [b EXCEPT !.look = look].msg = m
  <2>1. BubbleOK(b)' /\ b.msg = m
    BY BubbleStays DEF PageSide
  <2>2. QED BY <2>1 DEF BubbleOK, BubblesUpTo
<1>2. \A b \in bubbles' : BubbleOK(b)'
  BY <1>1, BubbleStays DEF PageSide
<1>3. \A b \in bubbles' : b.msg # m => b \in bubbles
  BY <1>1
<1>4. \A o \in Messages \ (reported' \cup overlapped') : OneBubble(o)'
  BY <1>3 DEF PageSide, OneBubble, Goes
<1>5. QED BY <1>2, <1>4 DEF PageSide

\* What the page loads is a part of what is stored.
LEMMA LoadedKeeps ==
  ASSUME ChatData, StoreSide, PageSide, LoadAnswered
  PROVE  PageSide'
<1>1. Goes /\ UNCHANGED <<overlapped, reported>>
  BY StillGoes DEF LoadAnswered
<1>2. bubbles' = {Real(i) : i \in 1 .. load.upto} /\ load.upto \in 0 .. Len(rows)
  BY DEF LoadAnswered, Loaded, ChatData
<1>3. \A b \in bubbles' : \E i \in 1 .. Len(rows) : b = Real(i)
  BY <1>2 DEF ChatData
<1>4. ASSUME NEW b \in bubbles'
      PROVE  BubbleOK(b) /\ b = Real(b.id) /\ b.id \in RowsOf(b.msg)
  <2>1. PICK i \in 1 .. Len(rows) : b = Real(i)
    BY <1>3
  <2>2. /\ Real(i) \in BubblesUpTo(Len(rows)) /\ Real(i).msg = rows[i] /\ Real(i).id = i /\ i # Local
        /\ Real(i).look = "sent"
    BY DEF Real, BubblesUpTo, ChatData, Local
  <2>3. QED BY <2>1, <2>2 DEF BubbleOK, ChatData, RowsOf
<1>5. \A b \in bubbles' : BubbleOK(b)'
  BY <1>1, <1>4, BubbleStays
<1>6. ASSUME NEW m \in Messages \ (reported \cup overlapped) PROVE OneBubble(m)'
  BY <1>4 DEF StoreSide, Alone, OneBubble
<1>7. QED BY <1>1, <1>5, <1>6 DEF PageSide

\* The bubble of a message that is sent for the first time is its only one.
LEMMA FirstBubble ==
  ASSUME ChatData, PageSide, NEW m \in Messages, SendMessage(m)
  PROVE  PageSide'
<1> DEFINE new == [msg |-> m, id |-> Local, look |-> "pending"]
<1>1. /\ Goes /\ tries'[m] > 0 /\ tries[m] = 0
      /\ bubbles' = bubbles \cup {new}
      /\ UNCHANGED <<overlapped, reported>>
  BY DeliverGoes DEF SendMessage
<1>2. BubbleOK(new)' /\ new.msg = m
  <2>1. 0 \in 0 .. Len(rows')
    BY <1>1 DEF ChatData, Goes
  <2>2. QED BY <1>1, <2>1 DEF BubbleOK, BubblesUpTo, Local
<1> HIDE DEF new
<1>3. \A b \in bubbles' : BubbleOK(b)'
  BY <1>1, <1>2, BubbleStays DEF PageSide
<1>4. \A b \in bubbles : b.msg # m
  BY <1>1 DEF PageSide, BubbleOK
<1>5. \A o \in Messages \ (reported' \cup overlapped') : OneBubble(o)'
  BY <1>1, <1>2, <1>4 DEF PageSide, OneBubble
<1>6. QED BY <1>3, <1>5 DEF PageSide

-----------------------------------------------------------------------------
(* Every step. *)

\* What is not stored or on its way changes nothing of the rest.
LEMMA DataStays ==
  ASSUME ChatData, UNCHANGED <<tries, rows, overlapped>>, line' \in BOOLEAN, heard' \subseteq heard,
         load' \in [step : {"asked", "served", "done"}, upto : 0 .. Len(rows)],
         reported' \subseteq Messages
  PROVE  ChatData'
  BY DEF ChatData

LEMMA DeliverData ==
  ASSUME ChatData, NEW m \in Messages, DeliverMessage(m),
         UNCHANGED <<line, rows, heard, load, overlapped, reported>>
  PROVE  ChatData'
  BY DeliverGoes DEF ChatData, Goes

LEMMA CallSteps ==
  ASSUME ChatInv, NEW c \in calls,
         \/ Looks(c) \/ Stores(c) \/ SendAnswered(c) \/ SendFails(c) \/ ErrorHeard(c) \/ CallLost(c)
  PROVE  ChatInv'
<1> USE DEF ChatInv
<1>1. CallOK(c) /\ c.msg \in Messages
  BY DEF StoreSide, CallOK, CallsUpTo
<1>2. CASE Looks(c)
  <2>1. Goes /\ UNCHANGED bubbles /\ overlapped \subseteq overlapped'
    BY <1>2, StillGoes DEF Looks
  <2>2. ChatData'
    BY <1>1, <1>2 DEF Looks, ChatData
  <2>3. StoreSide'
    BY <1>2, LooksKeeps
  <2>4. QED BY <2>1, <2>2, <2>3, FewerBubbles
<1>3. CASE Stores(c)
  <2>1. /\ Goes /\ UNCHANGED <<line, tries, bubbles, load, overlapped, reported>>
        /\ Len(rows') = Len(rows) + 1 /\ rows'[Len(rows) + 1] = c.msg /\ tries[c.msg] > 0
    BY <1>3, StoresGoes DEF Stores
  <2>2. heard' \subseteq 1 .. Len(rows')
    <3>1. heard' \subseteq heard \cup {Len(rows) + 1}
      BY <1>3 DEF Stores
    <3>2. QED BY <2>1, <3>1 DEF ChatData
  <2>3. \A n \in 1 .. Len(rows') : tries'[rows'[n]] > 0
    <3>1. ASSUME NEW n \in 1 .. Len(rows') PROVE tries'[rows'[n]] > 0
      <4>1. CASE n \in 1 .. Len(rows)
        <5>1. rows'[n] = rows[n] /\ rows[n] \in Messages /\ tries[rows[n]] > 0
          BY <2>1, <4>1 DEF ChatData, Goes
        <5>2. QED BY <2>1, <5>1
      <4>2. CASE n = Len(rows) + 1
        BY <2>1, <4>2
      <4>3. Len(rows) \in Nat
        BY DEF ChatData
      <4>4. QED BY <2>1, <4>1, <4>2, <4>3
    <3>2. QED BY <3>1
  <2>4. ChatData'
    BY <2>1, <2>2, <2>3 DEF ChatData, Goes
  <2>5. StoreSide'
    BY <1>3, StoresKeeps
  <2>6. QED BY <2>1, <2>4, <2>5, FewerBubbles
<1>4. CASE SendAnswered(c)
  <2>1. /\ UNCHANGED <<line, tries, rows, heard, load, overlapped, reported>>
        /\ calls' \subseteq calls /\ bubbles' \in Merged(c.id) /\ c.id \in 1 .. Len(rows)
    BY <1>1, <1>4 DEF SendAnswered, CallOK, CallsUpTo, Local
  <2>2. ChatData' /\ StoreSide'
    BY <2>1, StillGoes, DataStays, FewerCalls DEF ChatData
  <2>3. PageSide'
    BY <2>1, MergedKeeps
  <2>4. QED BY <2>2, <2>3
<1>5. CASE SendFails(c)
  <2>1. /\ UNCHANGED <<line, tries, rows, heard, load, overlapped>>
        /\ bubbles' = Looking(c.msg, "failed") /\ reported' = reported \cup {c.msg}
    BY <1>5 DEF SendFails
  <2>2. Goes /\ c.msg \in reported' /\ overlapped \subseteq overlapped'
    BY <2>1, StillGoes
  <2>3. ChatData'
    BY <1>1, <2>1 DEF ChatData
  <2>4. PageSide'
    <3>1. PICK some \in SUBSET {b \in bubbles : b.msg = c.msg} : some = {b \in bubbles : b.msg = c.msg}
      OBVIOUS
    <3>2. bubbles' = {IF b \in some THEN [b EXCEPT !.look = "failed"] ELSE b : b \in bubbles}
      BY <2>1, <3>1 DEF Looking
    <3>3. QED BY <2>2, <3>2, LooksAgain
  <2>5. QED BY <1>5, <2>3, <2>4, SendFailsKeeps
<1>6. CASE ErrorHeard(c)
  <2>1. /\ UNCHANGED <<line, tries, rows, heard, load, overlapped>>
        /\ reported' = reported \cup {c.msg} /\ calls' \subseteq calls
    BY <1>6 DEF ErrorHeard
  <2>2. Goes /\ c.msg \in reported' /\ overlapped \subseteq overlapped'
    BY <2>1, StillGoes
  <2>3. ChatData'
    BY <1>1, <2>1 DEF ChatData
  <2>4. PageSide'
    <3>1. PICK some \in SUBSET {b \in bubbles : b.msg = c.msg} :
            some = {b \in bubbles : b.msg = c.msg /\ b.look = "pending"}
      OBVIOUS
    <3>2. bubbles' = {IF b \in some THEN [b EXCEPT !.look = "failed"] ELSE b : b \in bubbles}
      BY <1>6, <3>1 DEF ErrorHeard
    <3>3. QED BY <2>2, <3>2, LooksAgain
  <2>5. QED BY <2>1, <2>2, <2>3, <2>4, FewerCalls
<1>7. CASE CallLost(c)
  <2>1. /\ UNCHANGED <<line, tries, rows, heard, bubbles, load, overlapped, reported>>
        /\ calls' \subseteq calls
    BY <1>7 DEF CallLost
  <2>2. QED BY <2>1, StillGoes, DataStays, FewerCalls, FewerBubbles DEF ChatData
<1>8. QED BY <1>2, <1>3, <1>4, <1>5, <1>6, <1>7

LEMMA NextChat ==
  ASSUME ChatInv, [ChatNext]_chatVars
  PROVE  ChatInv'
<1> USE DEF ChatInv
<1>1. ASSUME NEW m \in Messages, SendMessage(m) PROVE ChatInv'
  <2>1. DeliverMessage(m) /\ UNCHANGED <<line, rows, heard, load, overlapped, reported>>
    BY <1>1 DEF SendMessage
  <2>2. QED BY <1>1, <2>1, DeliverData, DeliverKeeps, FirstBubble
<1>2. ASSUME NEW m \in Messages, Retry(m) PROVE ChatInv'
  <2>1. /\ DeliverMessage(m) /\ UNCHANGED <<line, rows, heard, load, overlapped, reported>>
        /\ bubbles' = Looking(m, "pending")
    BY <1>2 DEF Retry
  <2>2. Goes
    BY <2>1, DeliverGoes
  <2>3. m \in reported
    BY <1>2 DEF Retry, PageSide, BubbleOK
  <2>4. PageSide'
    <3>1. PICK some \in SUBSET {b \in bubbles : b.msg = m} : some = {b \in bubbles : b.msg = m}
      OBVIOUS
    <3>2. bubbles' = {IF b \in some THEN [b EXCEPT !.look = "pending"] ELSE b : b \in bubbles}
      BY <2>1, <3>1 DEF Looking
    <3>3. QED BY <2>1, <2>2, <2>3, <3>2, LooksAgain
  <2>5. QED BY <2>1, <2>4, DeliverData, DeliverKeeps
<1>3. ASSUME NEW n \in heard, Hear(n) PROVE ChatInv'
  <2>1. /\ UNCHANGED <<line, tries, calls, rows, load, overlapped, reported>>
        /\ heard' \subseteq heard /\ bubbles' \in Merged(n) /\ n \in 1 .. Len(rows)
    BY <1>3 DEF Hear, ChatData
  <2>2. ChatData' /\ StoreSide'
    BY <2>1, StillGoes, DataStays, FewerCalls DEF ChatData
  <2>3. PageSide'
    BY <2>1, MergedKeeps
  <2>4. QED BY <2>2, <2>3
\* Only the line, what is heard or the load moves.
<1>4. ASSUME UNCHANGED <<tries, calls, rows, bubbles, overlapped, reported>>, ChatData' PROVE ChatInv'
  BY <1>4, StillGoes, FewerCalls, FewerBubbles
<1>5. CASE LineDrops \/ LineOpens \/ UNCHANGED chatVars
  <2>1. ChatData'
    BY <1>5, DataStays DEF LineDrops, LineOpens, chatVars, ChatData
  <2>2. QED BY <1>4, <1>5, <2>1 DEF LineDrops, LineOpens, chatVars
<1>6. CASE LoadServed
  <2>1. load' \in [step : {"asked", "served", "done"}, upto : 0 .. Len(rows)]
    BY <1>6 DEF LoadServed, ChatData
  <2>2. ChatData'
    BY <1>6, <2>1, DataStays DEF LoadServed, ChatData
  <2>3. QED BY <1>4, <1>6, <2>2 DEF LoadServed
<1>7. CASE LoadAnswered
  <2>1. UNCHANGED <<line, tries, calls, rows, heard, overlapped, reported>>
    BY <1>7 DEF LoadAnswered
  <2>2. load' \in [step : {"asked", "served", "done"}, upto : 0 .. Len(rows)]
    BY <1>7 DEF LoadAnswered, ChatData
  <2>3. ChatData' /\ StoreSide'
    BY <2>1, <2>2, StillGoes, DataStays, FewerCalls DEF ChatData
  <2>4. QED BY <1>7, <2>3, LoadedKeeps
<1> HIDE DEF ChatInv
<1>8. QED BY <1>1, <1>2, <1>3, <1>5, <1>6, <1>7, CallSteps DEF ChatNext

LEMMA InitChat == ChatInit => ChatInv
<1> SUFFICES ASSUME ChatInit PROVE ChatInv
  OBVIOUS
<1>1. Len(rows) = 0 /\ 0 \in 0 .. 0 /\ calls = {} /\ bubbles = {} /\ rows = <<>>
  BY DEF ChatInit
<1>2. ChatData
  BY <1>1, ChatParameters DEF ChatInit, ChatData
<1>3. StoreSide
  BY <1>1, FS_EmptySet DEF StoreSide, Alone, Checked, RowsOf
<1>4. QED BY <1>1, <1>2, <1>3 DEF ChatInv, PageSide, OneBubble

LEMMA ChatInvariance == ChatSpec => []ChatInv
  BY InitChat, NextChat, PTL DEF ChatSpec

-----------------------------------------------------------------------------
(* What the chat promises. *)

\* The types of the chat, and that what a bubble or a call names as stored is the row of
\* that message (JobsChat.tsx, ChatService.send).
THEOREM ChatTypeCorrect == ChatSpec => []ChatTypeOK
<1>1. ChatInv => ChatTypeOK
  <2> SUFFICES ASSUME ChatInv PROVE ChatTypeOK
    OBVIOUS
  <2>1. DOMAIN rows = 1 .. Len(rows)
    BY DEF ChatInv, ChatData
  <2>2. QED BY <2>1
    DEF ChatInv, ChatData, StoreSide, PageSide, CallOK, BubbleOK, CallsUpTo, BubblesUpTo, ChatTypeOK
<1>2. QED BY <1>1, ChatInvariance, PTL

\* A message is stored once, by whichever of its calls and frames comes first, unless two
\* of them looked for it before either stored it (ChatService.send).
THEOREM ChatStoresOnce == ChatSpec => []StoredOnce
<1>1. ChatInv => StoredOnce
  <2> SUFFICES ASSUME ChatInv, NEW m \in Messages, m \notin overlapped
               PROVE  ~(Cardinality(RowsOf(m)) > 1)
    BY DEF StoredOnce
  <2>1. \A i, j \in RowsOf(m) : i = j
    BY DEF ChatInv, StoreSide, Alone
  <2>2. QED BY <2>1, OneIsFew
<1>2. QED BY <1>1, ChatInvariance, PTL

\* A message is shown once, whether its answer, its event or the load of the page tells of
\* it first, unless it was reported as failed or stored twice (JobsChat.tsx).
THEOREM ChatShowsOnce == ChatSpec => []ShownOnce
<1>1. ChatInv => ShownOnce
  <2> SUFFICES ASSUME ChatInv, NEW m \in Messages \ (reported \cup overlapped)
               PROVE  Cardinality({b \in bubbles : b.msg = m}) <= 1
    BY DEF ShownOnce
  <2>1. \A b, d \in {x \in bubbles : x.msg = m} : b = d
    BY DEF ChatInv, PageSide, OneBubble
  <2>2. QED BY <2>1, OneIsFew
<1>2. QED BY <1>1, ChatInvariance, PTL

=============================================================================
