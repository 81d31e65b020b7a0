---------------------------- MODULE WalletLedger ----------------------------
(***************************************************************************)
(* The wallet service of the back end (apps/wallet/services.py), the only  *)
(* code that moves money, and the peer to peer transfer built on it        *)
(* (apps/wallet/transfer.py).                                              *)
(*                                                                         *)
(* Every operation is one database transaction at READ COMMITTED: it looks *)
(* up its idempotency key, takes SELECT ... FOR UPDATE on the wallet rows  *)
(* it changes, checks the balance it read under the lock, and posts a      *)
(* journal and a new cached balance that become visible together when it   *)
(* commits.  A session is one such transaction in progress; sessions       *)
(* interleave between these steps and may die (roll back) at any of them.  *)
(*                                                                         *)
(* A reference is one piece of business: a card funding, a spend that is   *)
(* held and then captured or released, a transfer, a sweep of revenue.     *)
(* Its amount never changes, so a posted journal is its idempotency key    *)
(* [op, ref], and `ledger' is the balance the postings add up to.          *)
(***************************************************************************)
EXTENDS Integers, FiniteSets, FiniteSetsExt

CONSTANTS
  Wallets,      \* wallet rows of one currency
  Sessions,     \* concurrent database transactions
  Fundings,     \* references credited once from outside
  Spends,       \* references held, then captured or released
  Transfers,    \* references of peer to peer transfers
  Sweeps,       \* references of revenue sweeps
  Payer,        \* [reference -> wallet that pays, or is paid by a funding or sweep]
  Payee,        \* [transfer -> wallet that receives]
  Amount,       \* [reference -> amount moved]
  Cost,         \* [spend -> what the provider charges for it]
  RowLocked     \* references whose callers hold their order's row lock

Refs == Fundings \cup Spends \cup Transfers \cup Sweeps

ASSUME RefKindsDisjoint ==
  /\ Fundings \cap (Spends \cup Transfers \cup Sweeps) = {}
  /\ Spends \cap (Transfers \cup Sweeps) = {}
  /\ Transfers \cap Sweeps = {}

ASSUME RefData ==
  /\ Payer \in [Refs -> Wallets]
  /\ Payee \in [Transfers -> Wallets]
  /\ \A r \in Transfers : Payee[r] # Payer[r]
  /\ Amount \in [Refs -> Nat \ {0}]
  /\ Cost \in [Spends -> Int]
  /\ RowLocked \subseteq Refs

VARIABLES
  journal,      \* keys [op, ref] of the committed journal entries
  ledger,       \* wallet balances as the committed postings add up
  cached,       \* Wallet.cached_balance
  suspense,     \* balance of suspense:hold
  revenue,      \* balance of oam:revenue
  lock,         \* the session that holds a wallet's row lock
  sess          \* what each session is doing and the balances it has read

vars == <<journal, ledger, cached, suspense, revenue, lock, sess>>
books == <<journal, ledger, cached, suspense, revenue>>

Unlocked == "unlocked"

ASSUME SessionNames == Unlocked \notin Sessions

NothingSeen == [w \in Wallets |-> 0]
Idle == [op |-> "none", ref |-> "none", seen |-> NothingSeen]

Ops == {"fund", "hold", "capture", "release", "transfer", "sweep"}

\* The kind of reference an operation works on.
RefsOf(op) ==
  {r \in Refs : /\ op = "fund" => r \in Fundings
                /\ op \in {"hold", "capture", "release"} => r \in Spends
                /\ op = "transfer" => r \in Transfers
                /\ op = "sweep" => r \in Sweeps}

Calls == {c \in [op : Ops, ref : Refs] : c.ref \in RefsOf(c.op)}

-----------------------------------------------------------------------------
(* What a journal posts. *)

\* A mutant: the provider's charge is taken as it comes.
CaptureMarginRaw(r) == Amount[r] - Cost[r]

\* Provider cost above the amount, or not positive, leaves no margin.
CaptureMargin(r) ==
  IF Cost[r] <= 0 \/ Cost[r] > Amount[r] THEN 0 ELSE Amount[r] - Cost[r]

\* Wallet rows the operation locks and changes; capture moves no wallet.
WalletsOf(op, r) ==
  IF op = "capture" THEN {}
  ELSE {Payer[r]} \cup (IF op = "transfer" THEN {Payee[r]} ELSE {})

\* The wallet the operation takes the money from, after checking it is covered.
Debits(op, r, w) == op \in {"hold", "transfer"} /\ w = Payer[r]

\* Change of a wallet's balance.
WalletDelta(op, r, w) ==
  IF w \notin WalletsOf(op, r) THEN 0
  ELSE IF Debits(op, r, w) THEN -Amount[r] ELSE Amount[r]

\* Change of suspense:hold.
SuspenseDelta(op, r) ==
  IF op = "hold" THEN Amount[r]
  ELSE IF op \in {"capture", "release"} THEN -Amount[r] ELSE 0

\* Change of oam:revenue.
RevenueDelta(op, r) ==
  IF op = "capture" THEN CaptureMargin(r)
  ELSE IF op = "sweep" THEN -Amount[r] ELSE 0

-----------------------------------------------------------------------------
Init ==
  /\ journal = {}
  /\ ledger = [w \in Wallets |-> 0]
  /\ cached = [w \in Wallets |-> 0]
  /\ suspense = 0
  /\ revenue = 0
  /\ lock = [w \in Wallets |-> Unlocked]
  /\ sess = [s \in Sessions |-> Idle]

Key(op, r) == [op |-> op, ref |-> r]
Active(s) == sess[s].op # "none"
HeldBy(s) == {w \in Wallets : lock[w] = s}

\* A mutant: callers that do not lock their order's row.
CallerMayUnlocked(op, r) ==
  op \in {"capture", "release"} =>
    /\ Key("hold", r) \in journal
    /\ Key("capture", r) \notin journal
    /\ Key("release", r) \notin journal

\* A mutant: callers that do not look whether their order is settled.
CallerMayResettle(op, r) ==
  /\ op \in {"capture", "release"} => Key("hold", r) \in journal
  /\ r \in RowLocked => \A s \in Sessions : sess[s].ref # r

\* The callers' own rule: an operation on a spend follows its hold, and its
\* order is seen neither captured nor refunded; a caller that holds the order's
\* row lock is alone on the reference from that look until its transaction ends.
CallerMay(op, r) ==
  /\ op \in {"capture", "release"} =>
       /\ Key("hold", r) \in journal
       /\ Key("capture", r) \notin journal
       /\ Key("release", r) \notin journal
  /\ r \in RowLocked => \A s \in Sessions : sess[s].ref # r

\* First statement of every operation: a known key returns the old journal and
\* changes nothing, so only unknown keys go on.  A sweep reads the revenue
\* balance here, before any lock.
Call(s, op, r) ==
  /\ ~Active(s)
  /\ CallerMay(op, r)
  /\ Key(op, r) \notin journal
  /\ op = "sweep" => Amount[r] <= revenue
  /\ sess' = [sess EXCEPT ![s] = [op |-> op, ref |-> r, seen |-> NothingSeen]]
  /\ UNCHANGED <<books, lock>>

\* SELECT ... FOR UPDATE on one wallet row, which returns its committed balance.
\* A transfer locks its two rows with one unordered query, so in any order.
LockWallet(s, w) ==
  /\ Active(s)
  /\ w \in WalletsOf(sess[s].op, sess[s].ref)
  /\ lock[w] = Unlocked
  /\ lock' = [lock EXCEPT ![w] = s]
  /\ sess' = [sess EXCEPT ![s].seen[w] = cached[w]]
  /\ UNCHANGED books

AllLocked(s) == WalletsOf(sess[s].op, sess[s].ref) \subseteq HeldBy(s)

\* A mutant: the balance is checked before the amount is taken off.
CoveredLate(s) ==
  sess[s].op \in {"hold", "transfer"} => sess[s].seen[Payer[sess[s].ref]] >= 0

\* The balance checks made under the lock: a hold looks at the cached balance,
\* a transfer first at the derived one and then, in debit(), at the cached one.
Covered(s) ==
  LET r == sess[s].ref
  IN  /\ sess[s].op \in {"hold", "transfer"} => sess[s].seen[Payer[r]] - Amount[r] >= 0
      /\ sess[s].op = "transfer" => ledger[Payer[r]] >= Amount[r]

\* A mutant: the session is only half cleared.
EndSessionKeepsOp(s) ==
  /\ sess' = [sess EXCEPT ![s].ref = "none"]
  /\ lock' = [w \in Wallets |-> IF lock[w] = s THEN Unlocked ELSE lock[w]]

EndSession(s) ==
  /\ sess' = [sess EXCEPT ![s] = Idle]
  /\ lock' = [w \in Wallets |-> IF lock[w] = s THEN Unlocked ELSE lock[w]]

\* post() looks the key up again: an entry committed meanwhile is returned and
\* nothing is posted, and yet the caller goes on to add to the cached balance.
\* (A capture that meets its key is refused by the unique constraint, or
\* returns it: no wallet, no change.)
Commit(s) ==
  LET op == sess[s].op
      r  == sess[s].ref
      fresh == Key(op, r) \notin journal
  IN  /\ Active(s)
      /\ AllLocked(s)
      /\ Covered(s)
      /\ journal' = journal \cup {Key(op, r)}
      /\ cached' = [w \in Wallets |-> IF w \in WalletsOf(op, r)
                                        THEN sess[s].seen[w] + WalletDelta(op, r, w)
                                        ELSE cached[w]]
      /\ ledger' = [w \in Wallets |-> IF fresh THEN ledger[w] + WalletDelta(op, r, w)
                                              ELSE ledger[w]]
      /\ suspense' = IF fresh THEN suspense + SuspenseDelta(op, r) ELSE suspense
      /\ revenue' = IF fresh THEN revenue + RevenueDelta(op, r) ELSE revenue
      /\ EndSession(s)

\* InsufficientFunds: the transaction rolls back.
Refuse(s) ==
  /\ Active(s)
  /\ AllLocked(s)
  /\ ~Covered(s)
  /\ EndSession(s)
  /\ UNCHANGED books

\* The worker dies, or the database aborts the transaction (a deadlock victim).
Abort(s) ==
  /\ Active(s)
  /\ EndSession(s)
  /\ UNCHANGED books

Next ==
  \E s \in Sessions :
    \/ \E c \in Calls : Call(s, c.op, c.ref)
    \/ \E w \in Wallets : LockWallet(s, w)
    \/ Commit(s)
    \/ Refuse(s)
    \/ Abort(s)

Spec == Init /\ [][Next]_vars

-----------------------------------------------------------------------------
(* Properties. *)

\* Every variable keeps its type; a session's reference fits its operation.
TypeOK ==
  /\ journal \subseteq Calls
  /\ ledger \in [Wallets -> Int]
  /\ cached \in [Wallets -> Int]
  /\ suspense \in Int
  /\ revenue \in Int
  /\ lock \in [Wallets -> Sessions \cup {Unlocked}]
  /\ sess \in [Sessions -> [op : Ops \cup {"none"}, ref : Refs \cup {"none"},
                         seen : [Wallets -> Int]]]
  /\ \A s \in Sessions : Active(s) => Key(sess[s].op, sess[s].ref) \in Calls

\* The cached balance the application spends from is the balance of the ledger
\* postings, whatever sessions interleave, roll back or retry.
CachedMatchesLedger == \A w \in Wallets : cached[w] = ledger[w]

\* No wallet is ever overdrawn, neither in the cached balance nor in the ledger,
\* although every spender checks a balance it read before others committed.
NoOverdraft == \A w \in Wallets : cached[w] >= 0 /\ ledger[w] >= 0

\* Spends whose money still waits in suspense.
OpenHolds ==
  {r \in Spends : /\ Key("hold", r) \in journal
                  /\ Key("capture", r) \notin journal
                  /\ Key("release", r) \notin journal}

\* suspense:hold is worth exactly the holds still open: no spend is both captured
\* and refunded, and nothing is captured or refunded that was not held.  The
\* reserve report (reconcile) relies on it: obligations = wallets + suspense.
SuspenseBacksHolds == suspense = MapThenSumSet(LAMBDA r : Amount[r], OpenHolds)

\* OAM never sweeps out more revenue than the captures have brought in
\* (sweep_revenue refuses "Revenue available is ..., cannot sweep ...").
RevenueNotOverdrawn == revenue >= 0

=============================================================================
