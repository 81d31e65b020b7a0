------------------------- MODULE WalletLedgerProofs -------------------------
(***************************************************************************)
(* Invariance proofs for WalletLedger.  The balances are safe for one      *)
(* reason: whoever changes a wallet holds its row lock, the balance it     *)
(* read under the lock is still the committed one (SeenCurrent), and it is *)
(* the only session on its reference, so post() finds the key unused       *)
(* (ActiveIsFresh) and the ledger moves exactly when the cache does.       *)
(* For the same reason the suspense account is the sum of the open holds:  *)
(* a settlement still finds open what it looked for.  The revenue account  *)
(* has no such lock, and needs sweeps that do not meet.                    *)
(***************************************************************************)
EXTENDS WalletLedger, FiniteSetTheorems, TLAPS

\* A reference has at most one session working on it.
AloneOnReference ==
  \A s, t \in Sessions :
    Active(s) /\ Active(t) /\ sess[s].ref = sess[t].ref => s = t

\* The key of a session at work is still unused.
ActiveIsFresh ==
  \A s \in Sessions : Active(s) => Key(sess[s].op, sess[s].ref) \notin journal

\* A row lock belongs to a session that needs it and knows the balance.
SeenCurrent ==
  \A s \in Sessions, w \in Wallets :
    lock[w] = s => /\ Active(s)
                   /\ w \in WalletsOf(sess[s].op, sess[s].ref)
                   /\ sess[s].seen[w] = cached[w]

Discipline == AloneOnReference /\ ActiveIsFresh /\ SeenCurrent

IInv == TypeOK /\ Discipline /\ CachedMatchesLedger /\ NoOverdraft

-----------------------------------------------------------------------------
(* Facts about the operations. *)

\* A call's reference is a reference, and its wallets are wallets.
LEMMA CallData ==
  ASSUME NEW op, NEW r, Key(op, r) \in Calls
  PROVE  /\ op \in Ops /\ r \in Refs /\ op # "none"
         /\ Amount[r] \in Nat \ {0}
         /\ Payer[r] \in Wallets
         /\ WalletsOf(op, r) \subseteq Wallets
         /\ op \in {"hold", "transfer"} => Payer[r] \in WalletsOf(op, r)
<1>1. op \in Ops /\ r \in Refs /\ r \in RefsOf(op)
  BY DEF Key, Calls
<1>2. op = "transfer" => r \in Transfers
  BY <1>1 DEF RefsOf, Ops
<1>3. Amount[r] \in Nat \ {0} /\ Payer[r] \in Wallets
  BY <1>1, RefData
<1>4. op = "transfer" => Payee[r] \in Wallets
  BY <1>2, RefData
<1>5. WalletsOf(op, r) \subseteq Wallets
  <2>1. CASE op = "capture"
    BY <2>1 DEF WalletsOf
  <2>2. CASE op = "transfer"
    BY <2>2, <1>3, <1>4 DEF WalletsOf
  <2>3. CASE op \notin {"capture", "transfer"}
    BY <2>3, <1>3 DEF WalletsOf
  <2>4. QED BY <2>1, <2>2, <2>3
<1>6. op \in {"hold", "transfer"} => Payer[r] \in WalletsOf(op, r)
  BY DEF WalletsOf
<1>7. QED BY <1>1, <1>3, <1>5, <1>6 DEF Ops

\* Money is taken only from the payer of a hold or a transfer.
LEMMA DeltaSign ==
  ASSUME NEW op, NEW r, NEW w \in Wallets, Key(op, r) \in Calls
  PROVE  /\ WalletDelta(op, r, w) \in Int
         /\ \/ WalletDelta(op, r, w) >= 0
            \/ Debits(op, r, w) /\ WalletDelta(op, r, w) = -Amount[r]
         /\ w \notin WalletsOf(op, r) => WalletDelta(op, r, w) = 0
<1>1. Amount[r] \in Nat \ {0}
  BY CallData
<1>2. QED BY <1>1 DEF WalletDelta

\* The deltas a journal posts to the shared accounts are integers.
LEMMA AccountDeltas ==
  ASSUME NEW op, NEW r, Key(op, r) \in Calls
  PROVE  SuspenseDelta(op, r) \in Int /\ RevenueDelta(op, r) \in Int
<1>1. op \in Ops /\ r \in RefsOf(op) /\ Amount[r] \in Nat
  BY CallData DEF Calls, Key
<1>2. op = "capture" => r \in Spends
  BY <1>1 DEF RefsOf
<1>3. op = "capture" => CaptureMargin(r) \in Int
  BY <1>1, <1>2, RefData DEF CaptureMargin
<1>4. SuspenseDelta(op, r) \in Int
  BY <1>1 DEF SuspenseDelta
<1>5. RevenueDelta(op, r) \in Int
  <2>1. CASE op = "capture"
    BY <2>1, <1>3 DEF RevenueDelta
  <2>2. CASE op = "sweep"
    BY <2>2, <1>1 DEF RevenueDelta
  <2>3. CASE op \notin {"capture", "sweep"}
    BY <2>3 DEF RevenueDelta
  <2>4. QED BY <2>1, <2>2, <2>3
<1>6. QED BY <1>4, <1>5

-----------------------------------------------------------------------------
(* The initial states. *)

LEMMA InitIInv == Init => IInv
<1> SUFFICES ASSUME Init PROVE IInv
  OBVIOUS
<1>1. \A s \in Sessions : sess[s] = Idle /\ ~Active(s)
  BY DEF Init, Idle, Active
<1>2. TypeOK
  BY <1>1 DEF Init, TypeOK, Idle, NothingSeen, Active
<1>3. Discipline
  BY <1>1, SessionNames DEF Init, Discipline, AloneOnReference, ActiveIsFresh, SeenCurrent
<1>4. CachedMatchesLedger /\ NoOverdraft
  BY DEF Init, CachedMatchesLedger, NoOverdraft
<1>5. QED BY <1>2, <1>3, <1>4 DEF IInv

-----------------------------------------------------------------------------
(* Type correctness, of any specification of the row locks. *)

LEMMA EndSessionType ==
  ASSUME TypeOK, NEW s \in Sessions, EndSession(s)
  PROVE  /\ lock' \in [Wallets -> Sessions \cup {Unlocked}]
         /\ sess' \in [Sessions -> [op : Ops \cup {"none"}, ref : Refs \cup {"none"},
                                  seen : [Wallets -> Int]]]
         /\ \A t \in Sessions : Active(t)' => t # s /\ Active(t) /\ sess'[t] = sess[t]
<1>1. Idle \in [op : Ops \cup {"none"}, ref : Refs \cup {"none"}, seen : [Wallets -> Int]]
  BY DEF Idle, NothingSeen
<1>2. \A t \in Sessions : sess'[t] = IF t = s THEN Idle ELSE sess[t]
  BY DEF TypeOK, EndSession
<1>3. QED
  BY <1>1, <1>2 DEF TypeOK, EndSession, Active, Idle

LEMMA NextTypeOK == TypeOK /\ [Next]_vars => TypeOK'
<1> SUFFICES ASSUME TypeOK, [Next]_vars PROVE TypeOK'
  OBVIOUS
<1>1. ASSUME NEW s \in Sessions, NEW c \in Calls, Call(s, c.op, c.ref) PROVE TypeOK'
  <2>1. c \in [op : Ops, ref : Refs] /\ Key(c.op, c.ref) = c
    BY DEF Calls, Key
  <2>2. sess' = [sess EXCEPT ![s] = [op |-> c.op, ref |-> c.ref, seen |-> NothingSeen]]
    BY <1>1 DEF Call
  <2>3. NothingSeen \in [Wallets -> Int]
    BY DEF NothingSeen
  <2>4. sess' \in [Sessions -> [op : Ops \cup {"none"}, ref : Refs \cup {"none"},
                             seen : [Wallets -> Int]]]
    BY <2>1, <2>2, <2>3 DEF TypeOK
  <2>5. \A t \in Sessions : Active(t)' => Key(sess'[t].op, sess'[t].ref) \in Calls
    BY <2>1, <2>2 DEF TypeOK, Active
  <2>6. QED BY <1>1, <2>4, <2>5 DEF Call, TypeOK, books
<1>2. ASSUME NEW s \in Sessions, NEW w \in Wallets, LockWallet(s, w) PROVE TypeOK'
  <2>1. lock' \in [Wallets -> Sessions \cup {Unlocked}]
    BY <1>2 DEF LockWallet, TypeOK
  <2>2. \A t \in Sessions : sess'[t].op = sess[t].op /\ sess'[t].ref = sess[t].ref
    BY <1>2 DEF LockWallet, TypeOK
  <2>3. sess' \in [Sessions -> [op : Ops \cup {"none"}, ref : Refs \cup {"none"},
                             seen : [Wallets -> Int]]]
    BY <1>2 DEF LockWallet, TypeOK
  <2>4. QED BY <1>2, <2>1, <2>2, <2>3 DEF LockWallet, TypeOK, books, Active
<1>3. ASSUME NEW s \in Sessions, Commit(s) PROVE TypeOK'
  <2> DEFINE op == sess[s].op
             r  == sess[s].ref
  <2>1. Key(op, r) \in Calls /\ EndSession(s)
    BY <1>3 DEF Commit, TypeOK
  <2>2. \A w \in Wallets : WalletDelta(op, r, w) \in Int /\ sess[s].seen[w] \in Int
    BY <2>1, DeltaSign DEF TypeOK
  <2>3. journal' \subseteq Calls
    BY <1>3, <2>1 DEF Commit, TypeOK
  <2>4. cached' \in [Wallets -> Int]
    <3>1. \A w \in Wallets : cached[w] \in Int /\ sess[s].seen[w] + WalletDelta(op, r, w) \in Int
      BY <2>2 DEF TypeOK
    <3>2. QED BY <1>3, <3>1 DEF Commit
  <2>5. ledger' \in [Wallets -> Int]
    <3>1. \A w \in Wallets : ledger[w] \in Int /\ ledger[w] + WalletDelta(op, r, w) \in Int
      BY <2>2 DEF TypeOK
    <3>2. QED BY <1>3, <3>1 DEF Commit
  <2>6. suspense' \in Int /\ revenue' \in Int
    <3>1. SuspenseDelta(op, r) \in Int /\ RevenueDelta(op, r) \in Int
      BY <2>1, AccountDeltas
    <3>2. QED BY <1>3, <3>1 DEF Commit, TypeOK
  <2>7. \A t \in Sessions : Active(t)' => Key(sess'[t].op, sess'[t].ref) \in Calls
    BY <2>1, EndSessionType DEF TypeOK
  <2>8. QED BY <2>1, <2>3, <2>4, <2>5, <2>6, <2>7, EndSessionType DEF TypeOK
<1>4. ASSUME NEW s \in Sessions, Refuse(s) \/ Abort(s) PROVE TypeOK'
  <2>1. EndSession(s) /\ UNCHANGED books
    BY <1>4 DEF Refuse, Abort
  <2>2. \A t \in Sessions : Active(t)' => Key(sess'[t].op, sess'[t].ref) \in Calls
    BY <2>1, EndSessionType DEF TypeOK
  <2>3. QED BY <2>1, <2>2, EndSessionType DEF TypeOK, books
<1>5. CASE UNCHANGED vars
  BY <1>5 DEF vars, TypeOK, Active
<1>6. QED BY <1>1, <1>2, <1>3, <1>4, <1>5 DEF Next

\* Every reachable state is well typed: a session at work always carries a
\* reference of its operation's kind, whatever its callers do about locking.
THEOREM TypeCorrect == Spec => []TypeOK
<1>1. Init => TypeOK
  BY InitIInv DEF IInv
<1>2. QED BY <1>1, NextTypeOK, PTL DEF Spec

-----------------------------------------------------------------------------
(* The lock discipline, when every caller holds its order's row lock.  What  *)
(* a step that ends session s leaves of the other sessions is the same for   *)
(* Commit, Refuse and Abort.                                                 *)

LEMMA CallDiscipline ==
  ASSUME RowLocked = Refs, TypeOK, Discipline,
         NEW s \in Sessions, NEW c \in Calls, Call(s, c.op, c.ref)
  PROVE  Discipline'
<1>1. c.op # "none" /\ c.ref \in Refs
  BY DEF Calls, Ops
<1>2. \A t \in Sessions :
        sess'[t] = IF t = s THEN [op |-> c.op, ref |-> c.ref, seen |-> NothingSeen]
                   ELSE sess[t]
  BY DEF Call, TypeOK
<1>3. \A t \in Sessions : sess[t].ref # c.ref
  BY <1>1 DEF Call, CallerMay
<1>4. AloneOnReference'
  BY <1>2, <1>3 DEF Discipline, AloneOnReference, Active
<1>5. ActiveIsFresh'
  <2>1. journal' = journal /\ Key(c.op, c.ref) \notin journal
    BY DEF Call, books
  <2>2. QED BY <1>2, <2>1 DEF Discipline, ActiveIsFresh, Active
<1>6. SeenCurrent'
  <2>1. lock' = lock /\ cached' = cached /\ ~Active(s)
    BY DEF Call, books
  <2>2. \A w \in Wallets : lock[w] # s
    BY <2>1 DEF Discipline, SeenCurrent
  <2>3. QED BY <1>2, <2>1, <2>2 DEF Discipline, SeenCurrent, Active
<1>7. QED BY <1>4, <1>5, <1>6 DEF Discipline

LEMMA LockDiscipline ==
  ASSUME TypeOK, Discipline, NEW s \in Sessions, NEW w \in Wallets, LockWallet(s, w)
  PROVE  Discipline'
<1>1. \A t \in Sessions :
        /\ sess'[t].op = sess[t].op /\ sess'[t].ref = sess[t].ref
        /\ t # s => sess'[t] = sess[t]
  BY DEF LockWallet, TypeOK
<1>2. \A v \in Wallets : sess'[s].seen[v] = IF v = w THEN cached[w] ELSE sess[s].seen[v]
  BY DEF LockWallet, TypeOK
<1>3. AloneOnReference' /\ ActiveIsFresh'
  BY <1>1 DEF LockWallet, books, Discipline, AloneOnReference, ActiveIsFresh, Active
<1>4. SeenCurrent'
  <2>1. cached' = cached /\ \A v \in Wallets : lock'[v] = IF v = w THEN s ELSE lock[v]
    BY DEF LockWallet, books, TypeOK
  <2>2. Active(s) /\ w \in WalletsOf(sess[s].op, sess[s].ref)
    BY DEF LockWallet
  <2> SUFFICES ASSUME NEW t \in Sessions, NEW v \in Wallets, lock'[v] = t
               PROVE  /\ Active(t)' /\ v \in WalletsOf(sess'[t].op, sess'[t].ref)
                      /\ sess'[t].seen[v] = cached'[v]
    BY DEF SeenCurrent
  <2>3. CASE v = w
    <3>1. t = s /\ cached'[v] = cached[w]
      BY <2>1, <2>3
    <3>2. sess'[s].seen[w] = cached[w]
      BY <1>2
    <3>3. Active(s)' /\ w \in WalletsOf(sess'[s].op, sess'[s].ref)
      BY <1>1, <2>2 DEF Active
    <3>4. QED BY <2>3, <3>1, <3>2, <3>3
  <2>4. CASE v # w
    <3>1. lock[v] = t
      BY <2>1, <2>4
    <3>2. Active(t) /\ v \in WalletsOf(sess[t].op, sess[t].ref) /\ sess[t].seen[v] = cached[v]
      BY <3>1 DEF Discipline, SeenCurrent
    <3>3. sess'[t].seen[v] = sess[t].seen[v]
      <4>1. CASE t = s
        BY <1>2, <2>4, <4>1
      <4>2. CASE t # s
        BY <1>1, <4>2
      <4>3. QED BY <4>1, <4>2
    <3>4. sess'[t].op = sess[t].op /\ sess'[t].ref = sess[t].ref
      BY <1>1
    <3>5. QED BY <2>1, <3>2, <3>3, <3>4 DEF Active
  <2>5. QED BY <2>3, <2>4
<1>5. QED BY <1>3, <1>4 DEF Discipline

LEMMA EndDiscipline ==
  ASSUME TypeOK, Discipline, NEW s \in Sessions, EndSession(s)
  PROVE  /\ AloneOnReference'
         /\ \A t \in Sessions, w \in Wallets :
              lock'[w] = t => /\ t # s /\ Active(t)'
                              /\ lock[w] = t /\ sess'[t] = sess[t]
<1>1. \A t \in Sessions : Active(t)' => t # s /\ Active(t) /\ sess'[t] = sess[t]
  BY EndSessionType
<1>2. \A t \in Sessions : t # s => sess'[t] = sess[t]
  BY DEF EndSession, TypeOK
<1>3. AloneOnReference'
  BY <1>1 DEF Discipline, AloneOnReference, Active
<1>4. ASSUME NEW t \in Sessions, NEW w \in Wallets, lock'[w] = t
      PROVE  t # s /\ Active(t)' /\ lock[w] = t /\ sess'[t] = sess[t]
  <2>1. lock[w] # s /\ lock[w] = t
    BY <1>4, SessionNames DEF EndSession
  <2>2. Active(t) /\ t # s
    BY <2>1 DEF Discipline, SeenCurrent
  <2>3. QED BY <1>2, <2>1, <2>2 DEF Active
<1>5. QED BY <1>3, <1>4

LEMMA CommitDiscipline ==
  ASSUME TypeOK, Discipline, NEW s \in Sessions, Commit(s)
  PROVE  Discipline'
<1> DEFINE op == sess[s].op
           r  == sess[s].ref
<1>1. EndSession(s) /\ Active(s) /\ AllLocked(s)
  BY DEF Commit
<1>2. AloneOnReference'
  BY <1>1, EndDiscipline
<1>3. ActiveIsFresh'
  <2>1. \A t \in Sessions : Active(t)' => t # s /\ Active(t) /\ sess'[t] = sess[t]
    BY <1>1, EndSessionType
  <2>2. journal' = journal \cup {Key(op, r)}
    BY DEF Commit
  <2>3. \A t \in Sessions : t # s /\ Active(t) => Key(sess[t].op, sess[t].ref) # Key(op, r)
    BY <1>1 DEF Discipline, AloneOnReference, Key
  <2>4. QED BY <2>1, <2>2, <2>3 DEF Discipline, ActiveIsFresh
<1>4. SeenCurrent'
  <2> SUFFICES ASSUME NEW t \in Sessions, NEW w \in Wallets, lock'[w] = t
               PROVE  /\ Active(t)'
                      /\ w \in WalletsOf(sess'[t].op, sess'[t].ref)
                      /\ sess'[t].seen[w] = cached'[w]
    BY DEF SeenCurrent
  <2>1. t # s /\ Active(t)' /\ lock[w] = t /\ sess'[t] = sess[t]
    BY <1>1, EndDiscipline
  <2>2. w \notin WalletsOf(op, r)
    BY <1>1, <2>1 DEF AllLocked, HeldBy
  <2>3. cached'[w] = cached[w]
    BY <2>2 DEF Commit
  <2>4. QED BY <2>1, <2>3 DEF Discipline, SeenCurrent
<1>5. QED BY <1>2, <1>3, <1>4 DEF Discipline

LEMMA RollbackDiscipline ==
  ASSUME TypeOK, Discipline, NEW s \in Sessions, Refuse(s) \/ Abort(s)
  PROVE  Discipline'
<1>1. EndSession(s) /\ UNCHANGED books
  BY DEF Refuse, Abort
<1>2. AloneOnReference'
  BY <1>1, EndDiscipline
<1>3. ActiveIsFresh'
  <2>1. \A t \in Sessions : Active(t)' => Active(t) /\ sess'[t] = sess[t]
    BY <1>1, EndSessionType
  <2>2. QED BY <1>1, <2>1 DEF books, Discipline, ActiveIsFresh
<1>4. SeenCurrent'
  <2>1. cached' = cached
    BY <1>1 DEF books
  <2>2. QED BY <1>1, <2>1, EndDiscipline DEF Discipline, SeenCurrent
<1>5. QED BY <1>2, <1>3, <1>4 DEF Discipline

-----------------------------------------------------------------------------
(* The balances. *)

\* A commit changes cached and ledger balance of every wallet by the same amount,
\* and takes only what both of them cover.
LEMMA CommitBalances ==
  ASSUME IInv, NEW s \in Sessions, Commit(s)
  PROVE  CachedMatchesLedger' /\ NoOverdraft'
<1> DEFINE op == sess[s].op
           r  == sess[s].ref
<1>1. Active(s) /\ AllLocked(s) /\ Covered(s) /\ Key(op, r) \in Calls
  BY DEF Commit, IInv, TypeOK
<1>2. Key(op, r) \notin journal
  BY <1>1 DEF IInv, Discipline, ActiveIsFresh
<1>3. ASSUME NEW w \in Wallets
      PROVE  /\ cached'[w] = cached[w] + WalletDelta(op, r, w)
             /\ ledger'[w] = ledger[w] + WalletDelta(op, r, w)
  <2>1. WalletDelta(op, r, w) \in Int /\ cached[w] \in Int
    BY <1>1, DeltaSign DEF IInv, TypeOK
  <2>2. w \in WalletsOf(op, r) => sess[s].seen[w] = cached[w]
    BY <1>1 DEF AllLocked, HeldBy, IInv, Discipline, SeenCurrent
  <2>3. w \notin WalletsOf(op, r) => WalletDelta(op, r, w) = 0
    BY <1>1, DeltaSign
  <2>4. cached'[w] = IF w \in WalletsOf(op, r) THEN sess[s].seen[w] + WalletDelta(op, r, w)
                                               ELSE cached[w]
    BY DEF Commit
  <2>5. ledger'[w] = ledger[w] + WalletDelta(op, r, w)
    BY <1>2 DEF Commit
  <2>6. QED BY <2>1, <2>2, <2>3, <2>4, <2>5
<1>4. CachedMatchesLedger'
  BY <1>3 DEF IInv, CachedMatchesLedger
<1>5. ASSUME NEW w \in Wallets
      PROVE  cached[w] + WalletDelta(op, r, w) >= 0
  <2>1. /\ WalletDelta(op, r, w) \in Int /\ cached[w] \in Int /\ cached[w] >= 0
        /\ WalletDelta(op, r, w) >= 0 \/ (Debits(op, r, w) /\ WalletDelta(op, r, w) = -Amount[r])
    BY <1>1, DeltaSign DEF IInv, TypeOK, NoOverdraft
  <2>2. CASE Debits(op, r, w) /\ WalletDelta(op, r, w) = -Amount[r]
    <3>1. w = Payer[r] /\ w \in WalletsOf(op, r) /\ Amount[r] \in Nat
      BY <1>1, <2>2, CallData DEF Debits
    <3>2. sess[s].seen[w] = cached[w]
      BY <1>1, <3>1 DEF AllLocked, HeldBy, IInv, Discipline, SeenCurrent
    <3>3. cached[w] - Amount[r] >= 0
      BY <1>1, <2>2, <3>1, <3>2 DEF Covered, Debits
    <3>4. QED BY <2>1, <2>2, <3>1, <3>3
  <2>3. CASE WalletDelta(op, r, w) >= 0
    BY <2>1, <2>3
  <2>4. QED BY <2>1, <2>2, <2>3
<1>6. NoOverdraft'
  BY <1>3, <1>4, <1>5 DEF CachedMatchesLedger, NoOverdraft
<1>7. QED BY <1>4, <1>6

LEMMA NextIInv ==
  ASSUME RowLocked = Refs, IInv, [Next]_vars
  PROVE  IInv'
<1>1. TypeOK'
  BY NextTypeOK DEF IInv
<1>2. ASSUME UNCHANGED books PROVE CachedMatchesLedger' /\ NoOverdraft'
  BY <1>2 DEF books, IInv, CachedMatchesLedger, NoOverdraft
<1>3. ASSUME NEW s \in Sessions, NEW c \in Calls, Call(s, c.op, c.ref) PROVE IInv'
  <2>1. UNCHANGED books
    BY <1>3 DEF Call
  <2>2. Discipline'
    BY <1>3, CallDiscipline DEF IInv
  <2>3. QED BY <1>1, <1>2, <2>1, <2>2 DEF IInv
<1>4. ASSUME NEW s \in Sessions, NEW w \in Wallets, LockWallet(s, w) PROVE IInv'
  <2>1. UNCHANGED books
    BY <1>4 DEF LockWallet
  <2>2. Discipline'
    BY <1>4, LockDiscipline DEF IInv
  <2>3. QED BY <1>1, <1>2, <2>1, <2>2 DEF IInv
<1>5. ASSUME NEW s \in Sessions, Commit(s) PROVE IInv'
  <2>1. Discipline'
    BY <1>5, CommitDiscipline DEF IInv
  <2>2. QED BY <1>1, <1>5, <2>1, CommitBalances DEF IInv
<1>6. ASSUME NEW s \in Sessions, Refuse(s) \/ Abort(s) PROVE IInv'
  <2>1. UNCHANGED books
    BY <1>6 DEF Refuse, Abort
  <2>2. Discipline'
    BY <1>6, RollbackDiscipline DEF IInv
  <2>3. QED BY <1>1, <1>2, <2>1, <2>2 DEF IInv
<1>7. CASE UNCHANGED vars
  <2>1. UNCHANGED books /\ UNCHANGED <<lock, sess>>
    BY <1>7 DEF vars, books
  <2>2. Discipline'
    BY <2>1 DEF books, IInv, Discipline, AloneOnReference, ActiveIsFresh, SeenCurrent, Active
  <2>3. QED BY <1>1, <1>2, <2>1, <2>2 DEF IInv
<1>8. QED BY <1>3, <1>4, <1>5, <1>6, <1>7 DEF Next

\* The cached balance is the ledger balance, for any wallets, amounts and number
\* of transactions, as long as every caller serialises on its order's row.
THEOREM CacheIsLedger ==
  ASSUME RowLocked = Refs
  PROVE  Spec => []CachedMatchesLedger
<1>1. Init => IInv
  BY InitIInv
<1>2. IInv /\ [Next]_vars => IInv'
  BY NextIInv
<1>3. IInv => CachedMatchesLedger
  BY DEF IInv
<1>4. QED BY <1>1, <1>2, <1>3, PTL DEF Spec

\* No wallet is ever overdrawn, under the same rule for the callers.
THEOREM NeverOverdrawn ==
  ASSUME RowLocked = Refs
  PROVE  Spec => []NoOverdraft
<1>1. Init => IInv
  BY InitIInv
<1>2. IInv /\ [Next]_vars => IInv'
  BY NextIInv
<1>3. IInv => NoOverdraft
  BY DEF IInv
<1>4. QED BY <1>1, <1>2, <1>3, PTL DEF Spec

-----------------------------------------------------------------------------
(* Sums over finite sets.  MapThenSumSet picks its elements in one order; the *)
(* sum does not depend on it.  Each induction takes a smallest counterexample *)
(* (SmallestSet), so that it needs no induction rule.                         *)

\* A set of naturals has a least element.
LEMMA NatMin ==
  ASSUME NEW T \in SUBSET Nat, T # {}
  PROVE  \E n \in T : \A m \in T : n <= m
<1>1. IsWellFoundedOn(OpToRel(<,Nat), Nat)
  BY NatLessThanWellFounded, Zenon
<1>2. \E x \in T : \A y \in T : ~ (<<y, x>> \in OpToRel(<,Nat))
  BY <1>1, WFMin, Zenon
<1>3. \A x, y \in Nat : <<y, x>> \in OpToRel(<,Nat) <=> y < x
  BY DEF OpToRel
<1>4. \E x \in T : \A y \in T : ~ (y < x)
  BY <1>2, <1>3, Zenon
<1>5. QED BY <1>4

\* A smallest set.
LEMMA SmallestSet ==
  ASSUME NEW S, IsFiniteSet(S), NEW Bad \in SUBSET (SUBSET S), Bad # {}
  PROVE  \E s \in Bad : \A t \in Bad : Cardinality(s) <= Cardinality(t)
<1>1. \A s \in SUBSET S : Cardinality(s) \in Nat
  BY FS_Subset, FS_CardinalityType
<1> DEFINE T == {Cardinality(s) : s \in Bad}
<1>2. T \in SUBSET Nat /\ T # {}
  BY <1>1
<1>3. PICK n \in T : \A m \in T : n <= m
  BY <1>2, NatMin
<1>4. QED BY <1>3

\* The element MapThenSumSet takes next.
Pick(s) == CHOOSE x \in s : TRUE

LEMMA Smaller ==
  ASSUME NEW S, IsFiniteSet(S), NEW s \in SUBSET S, NEW x \in s
  PROVE  /\ s \ {x} \in SUBSET S
         /\ Cardinality(s) \in Nat /\ Cardinality(s \ {x}) \in Nat
         /\ Cardinality(s \ {x}) = Cardinality(s) - 1
         /\ Cardinality(s \ {x}) < Cardinality(s)
<1>1. IsFiniteSet(s)
  BY FS_Subset
<1>2. IsFiniteSet(s \ {x}) /\ Cardinality(s \ {x}) = Cardinality(s) - 1
  BY <1>1, FS_RemoveElement
<1>3. Cardinality(s) \in Nat /\ Cardinality(s \ {x}) \in Nat
  BY <1>1, <1>2, FS_CardinalityType
<1>4. QED BY <1>2, <1>3

\* What the recursion makes of a set, and a function that satisfies it.
Val(f, s, g) == IF s = {} THEN 0 ELSE f[Pick(s)] + g[s \ {Pick(s)}]
Sums(f, g, S) == g = [s \in SUBSET S |-> Val(f, s, g)]

\* A function that satisfies the recursion for the subsets of up to n elements.
RightTo(f, g, S, n) ==
  /\ g = [s \in SUBSET S |-> g[s]]
  /\ \A s \in SUBSET S : Cardinality(s) <= n => g[s] = Val(f, s, g)

LEMMA OneMore ==
  ASSUME NEW S, IsFiniteSet(S), NEW f, NEW n \in Nat, NEW g, RightTo(f, g, S, n)
  PROVE  \E h : RightTo(f, h, S, n + 1)
<1> DEFINE h == [s \in SUBSET S |-> Val(f, s, g)]
<1>1. ASSUME NEW s \in SUBSET S, Cardinality(s) <= n + 1 PROVE h[s] = Val(f, s, h)
  <2>1. CASE s = {}
    BY <2>1 DEF Val
  <2>2. CASE s # {}
    <3>1. Pick(s) \in s
      BY <2>2 DEF Pick
    <3>2. s \ {Pick(s)} \in SUBSET S /\ Cardinality(s \ {Pick(s)}) <= n
      BY <1>1, <3>1, Smaller
    <3>3. h[s \ {Pick(s)}] = g[s \ {Pick(s)}]
      BY <3>2 DEF RightTo
    <3>4. QED BY <3>3 DEF Val
  <2>3. QED BY <2>1, <2>2
<1>2. h = [s \in SUBSET S |-> h[s]]
  OBVIOUS
<1>3. RightTo(f, h, S, n + 1)
  BY <1>1, <1>2 DEF RightTo
<1>4. QED BY <1>3

LEMMA SumExists ==
  ASSUME NEW f, NEW S, IsFiniteSet(S)
  PROVE  \E g : Sums(f, g, S)
<1> DEFINE T == {n \in Nat : ~ \E g : RightTo(f, g, S, n)}
<1>1. \A n \in Nat : \E g : RightTo(f, g, S, n)
  <2>1. SUFFICES ASSUME T # {} PROVE FALSE
    OBVIOUS
  <2>2. PICK n \in T : \A m \in T : n <= m
    BY <2>1, NatMin
  <2>3. CASE n = 0
    <3> DEFINE g == [s \in SUBSET S |-> 0]
    <3>1. ASSUME NEW s \in SUBSET S, Cardinality(s) <= 0 PROVE s = {}
      <4>1. IsFiniteSet(s)
        BY FS_Subset
      <4>2. Cardinality(s) = 0
        BY <3>1, <4>1, FS_CardinalityType
      <4>3. QED BY <4>1, <4>2, FS_EmptySet
    <3>2. RightTo(f, g, S, 0)
      BY <3>1 DEF RightTo, Val
    <3>3. QED BY <2>3, <3>2
  <2>4. CASE n # 0
    <3>1. n - 1 \in Nat /\ n - 1 \notin T /\ (n - 1) + 1 = n
      BY <2>2, <2>4
    <3>2. PICK g : RightTo(f, g, S, n - 1)
      BY <3>1
    <3>3. \E h : RightTo(f, h, S, n)
      BY <3>1, <3>2, OneMore
    <3>4. QED BY <3>3
  <2>5. QED BY <2>3, <2>4
<1>2. Cardinality(S) \in Nat
  BY FS_CardinalityType
<1>3. PICK g : RightTo(f, g, S, Cardinality(S))
  BY <1>1, <1>2
<1>4. \A s \in SUBSET S : Cardinality(s) <= Cardinality(S)
  BY FS_Subset
<1>5. \A s \in SUBSET S : g[s] = Val(f, s, g)
  BY <1>3, <1>4 DEF RightTo
<1>6. g = [s \in SUBSET S |-> g[s]]
  BY <1>3 DEF RightTo
<1>7. Sums(f, g, S)
  BY <1>5, <1>6 DEF Sums
<1>8. QED BY <1>7

\* The sum of f over S.
Total(f, S) == MapThenSumSet(LAMBDA r : f[r], S)

LEMMA TotalIs ==
  ASSUME NEW f, NEW S, IsFiniteSet(S)
  PROVE  \E g : Sums(f, g, S) /\ Total(f, S) = g[S]
<1> DEFINE g == CHOOSE h : h = [s \in SUBSET S |-> Val(f, s, h)]
<1>1. Total(f, S) = g[S]
  BY DEF Total, MapThenSumSet, MapThenFoldSet, Val, Pick
<1>2. Sums(f, g, S)
  BY SumExists DEF Sums
<1>3. QED BY <1>1, <1>2

\* What a solution of the recursion is worth.
LEMMA SumVal ==
  ASSUME NEW f, NEW S, NEW g, Sums(f, g, S), NEW s \in SUBSET S
  PROVE  g[s] = Val(f, s, g)
  BY DEF Sums

LEMMA SumInt ==
  ASSUME NEW f, NEW S, IsFiniteSet(S), NEW g, Sums(f, g, S), \A x \in S : f[x] \in Int
  PROVE  \A s \in SUBSET S : g[s] \in Int
<1> DEFINE Bad == {s \in SUBSET S : g[s] \notin Int}
<1>1. SUFFICES ASSUME Bad # {} PROVE FALSE
  OBVIOUS
<1>2. PICK s \in Bad : \A t \in Bad : Cardinality(s) <= Cardinality(t)
  BY <1>1, SmallestSet
<1>3. g[s] = Val(f, s, g)
  BY SumVal
<1>4. CASE s = {}
  BY <1>3, <1>4 DEF Val
<1>5. CASE s # {}
  <2>1. Pick(s) \in s
    BY <1>5 DEF Pick
  <2>2. /\ s \ {Pick(s)} \in SUBSET S
        /\ Cardinality(s) \in Nat /\ Cardinality(s \ {Pick(s)}) \in Nat
        /\ Cardinality(s \ {Pick(s)}) < Cardinality(s)
    BY <2>1, Smaller
  <2>3. g[s \ {Pick(s)}] \in Int
    BY <1>2, <2>2
  <2>4. f[Pick(s)] \in Int
    BY <2>1
  <2>5. QED BY <1>3, <1>5, <2>3, <2>4 DEF Val
<1>6. QED BY <1>4, <1>5

\* In whatever order the elements are taken.
LEMMA TakeOut ==
  ASSUME NEW f, NEW S, IsFiniteSet(S), NEW g, Sums(f, g, S), \A x \in S : f[x] \in Int
  PROVE  \A s \in SUBSET S : \A x \in s : g[s] = f[x] + g[s \ {x}]
<1> DEFINE Bad == {s \in SUBSET S : ~ \A x \in s : g[s] = f[x] + g[s \ {x}]}
<1>1. SUFFICES ASSUME Bad # {} PROVE FALSE
  OBVIOUS
<1>2. PICK s \in Bad : \A t \in Bad : Cardinality(s) <= Cardinality(t)
  BY <1>1, SmallestSet
<1>3. PICK x \in s : g[s] # f[x] + g[s \ {x}]
  OBVIOUS
<1> DEFINE c == Pick(s)
<1>4. c \in s /\ g[s] = f[c] + g[s \ {c}]
  <2>1. g[s] = Val(f, s, g)
    BY SumVal
  <2>2. QED BY <1>3, <2>1 DEF Val, Pick
<1>5. c # x
  BY <1>3, <1>4
<1> HIDE DEF c
<1>6. ASSUME NEW y \in s, NEW z \in s \ {y}
      PROVE  g[s \ {y}] = f[z] + g[(s \ {y}) \ {z}]
  <2>1. s \ {y} \in SUBSET S /\ Cardinality(s \ {y}) < Cardinality(s)
        /\ Cardinality(s) \in Nat /\ Cardinality(s \ {y}) \in Nat
    BY Smaller
  <2>2. s \ {y} \notin Bad
    BY <1>2, <2>1
  <2>3. QED BY <2>1, <2>2
<1>7. g[s \ {c}] = f[x] + g[(s \ {c}) \ {x}]
  BY <1>3, <1>4, <1>5, <1>6
<1>8. g[s \ {x}] = f[c] + g[(s \ {x}) \ {c}]
  BY <1>3, <1>4, <1>5, <1>6
<1>9. (s \ {x}) \ {c} = (s \ {c}) \ {x}
  OBVIOUS
<1>10. f[x] \in Int /\ f[c] \in Int /\ g[(s \ {c}) \ {x}] \in Int
  <2>1. (s \ {c}) \ {x} \in SUBSET S
    OBVIOUS
  <2>2. QED BY <2>1, <1>3, <1>4, SumInt
<1>11. f[c] + (f[x] + g[(s \ {c}) \ {x}]) = f[x] + (f[c] + g[(s \ {c}) \ {x}])
  BY <1>10
<1>12. QED BY <1>3, <1>4, <1>7, <1>8, <1>9, <1>11

\* Sums over a set and over a larger one agree on what they share.
LEMMA SumsAgree ==
  ASSUME NEW f, NEW S, IsFiniteSet(S), NEW g, Sums(f, g, S),
         NEW T, NEW h, Sums(f, h, T), S \subseteq T
  PROVE  \A s \in SUBSET S : g[s] = h[s]
<1> DEFINE Bad == {s \in SUBSET S : g[s] # h[s]}
<1>1. SUFFICES ASSUME Bad # {} PROVE FALSE
  OBVIOUS
<1>2. PICK s \in Bad : \A t \in Bad : Cardinality(s) <= Cardinality(t)
  BY <1>1, SmallestSet
<1>3. g[s] = Val(f, s, g) /\ h[s] = Val(f, s, h)
  BY SumVal
<1>4. CASE s = {}
  BY <1>3, <1>4 DEF Val
<1>5. CASE s # {}
  <2>1. Pick(s) \in s
    BY <1>5 DEF Pick
  <2>2. /\ s \ {Pick(s)} \in SUBSET S
        /\ Cardinality(s) \in Nat /\ Cardinality(s \ {Pick(s)}) \in Nat
        /\ Cardinality(s \ {Pick(s)}) < Cardinality(s)
    BY <2>1, Smaller
  <2>3. g[s \ {Pick(s)}] = h[s \ {Pick(s)}]
    BY <1>2, <2>2
  <2>4. QED BY <1>3, <2>3 DEF Val
<1>6. QED BY <1>4, <1>5

LEMMA TotalOfNone ==
  ASSUME NEW f
  PROVE  Total(f, {}) = 0
<1>1. PICK g : Sums(f, g, {}) /\ Total(f, {}) = g[{}]
  BY TotalIs, FS_EmptySet
<1>2. g[{}] = Val(f, {}, g)
  BY <1>1, SumVal
<1>3. QED BY <1>1, <1>2 DEF Val

LEMMA TotalOfMore ==
  ASSUME NEW f, NEW S, IsFiniteSet(S), NEW x, x \notin S,
         f[x] \in Int, \A y \in S : f[y] \in Int
  PROVE  Total(f, S) \in Int /\ Total(f, S \cup {x}) = Total(f, S) + f[x]
<1> DEFINE T == S \cup {x}
<1>1. IsFiniteSet(T) /\ \A y \in T : f[y] \in Int
  BY FS_AddElement
<1>2. PICK g : Sums(f, g, S) /\ Total(f, S) = g[S]
  BY TotalIs
<1>3. PICK h : Sums(f, h, T) /\ Total(f, T) = h[T]
  BY <1>1, TotalIs
<1>4. h[T] = f[x] + h[T \ {x}] /\ T \ {x} = S
  <2>1. T \in SUBSET T /\ x \in T /\ T \ {x} = S
    OBVIOUS
  <2> HIDE DEF T
  <2>2. QED BY <1>1, <1>3, <2>1, TakeOut
<1>5. g[S] = h[S]
  BY <1>2, <1>3, SumsAgree
<1>6. g[S] \in Int
  BY <1>2, SumInt
<1>7. Total(f, S) \in Int
  BY <1>2, <1>6
<1>8. Total(f, T) = f[x] + g[S]
  BY <1>3, <1>4, <1>5
<1>9. f[x] + g[S] = g[S] + f[x]
  BY <1>6
<1>10. QED BY <1>2, <1>7, <1>8, <1>9

-----------------------------------------------------------------------------
(* Suspense.  Whoever settles a spend settles an open hold, because it looked *)
(* for one and has been alone on the reference since.                         *)

SettlesOpen ==
  \A s \in Sessions :
    Active(s) /\ sess[s].op \in {"capture", "release"} => sess[s].ref \in OpenHolds

SettledWasHeld ==
  \A r \in Spends : Key("capture", r) \in journal \/ Key("release", r) \in journal
                      => Key("hold", r) \in journal

SuspenseIsTotal == suspense = Total(Amount, OpenHolds)

HoldInv ==
  /\ IInv
  /\ SettlesOpen
  /\ SettledWasHeld
  /\ IsFiniteSet(OpenHolds)
  /\ SuspenseIsTotal

LEMMA TotalIsSum == SuspenseIsTotal <=> SuspenseBacksHolds
  BY DEF SuspenseIsTotal, SuspenseBacksHolds, Total

\* A journal entry of one reference leaves the holds of the others as they are.
LEMMA OtherHolds ==
  ASSUME NEW op, NEW r, journal' = journal \cup {Key(op, r)}
  PROVE  /\ \A x \in Spends : x # r => (x \in OpenHolds' <=> x \in OpenHolds)
         /\ op \notin {"hold", "capture", "release"} => OpenHolds' = OpenHolds
  BY DEF OpenHolds, Key

LEMMA CommitHolds ==
  ASSUME HoldInv, NEW s \in Sessions, Commit(s)
  PROVE  IsFiniteSet(OpenHolds') /\ SuspenseIsTotal' /\ SettledWasHeld'
<1> DEFINE op == sess[s].op
           r  == sess[s].ref
<1>1. Active(s) /\ Key(op, r) \in Calls /\ Key(op, r) \notin journal
  BY DEF Commit, HoldInv, IInv, TypeOK, Discipline, ActiveIsFresh
<1>2. journal' = journal \cup {Key(op, r)} /\ suspense' = suspense + SuspenseDelta(op, r)
  BY <1>1 DEF Commit
<1>3. suspense \in Int /\ \A x \in Spends : Amount[x] \in Int
  BY RefData DEF HoldInv, IInv, TypeOK, Refs
<1>4. OpenHolds \subseteq Spends /\ IsFiniteSet(OpenHolds) /\ suspense = Total(Amount, OpenHolds)
  BY DEF OpenHolds, HoldInv, SuspenseIsTotal
<1>5. \A x \in Spends : x # r => (x \in OpenHolds' <=> x \in OpenHolds)
  BY <1>2, OtherHolds
<1>6. OpenHolds' \subseteq Spends
  BY DEF OpenHolds
<1>7. op \in {"hold", "capture", "release"} => r \in Spends
  BY <1>1 DEF Key, Calls, RefsOf
<1>8. CASE op = "hold"
  <2>1. r \in Spends /\ r \notin OpenHolds
    BY <1>1, <1>7, <1>8 DEF OpenHolds
  <2>2. r \in OpenHolds'
    BY <1>1, <1>2, <1>8, <2>1 DEF OpenHolds, HoldInv, SettledWasHeld, Key
  <2>3. OpenHolds' = OpenHolds \cup {r}
    BY <1>4, <1>5, <1>6, <2>1, <2>2
  <2>4. Total(Amount, OpenHolds \cup {r}) = Total(Amount, OpenHolds) + Amount[r]
    BY <1>3, <1>4, <2>1, TotalOfMore
  <2>5. suspense' = suspense + Amount[r]
    BY <1>2, <1>8 DEF SuspenseDelta
  <2>6. SuspenseIsTotal'
    BY <1>4, <2>3, <2>4, <2>5 DEF SuspenseIsTotal
  <2>7. SettledWasHeld'
    BY <1>2, <1>8 DEF HoldInv, SettledWasHeld, Key
  <2>8. QED BY <1>4, <2>3, <2>6, <2>7, FS_AddElement
<1>9. CASE op \in {"capture", "release"}
  <2>1. r \in Spends /\ r \in OpenHolds
    BY <1>1, <1>7, <1>9 DEF HoldInv, SettlesOpen
  <2>2. r \notin OpenHolds'
    BY <1>2, <1>9 DEF OpenHolds
  <2>3. OpenHolds' = OpenHolds \ {r} /\ OpenHolds = (OpenHolds \ {r}) \cup {r}
    BY <1>4, <1>5, <1>6, <2>1, <2>2
  <2>4. IsFiniteSet(OpenHolds \ {r})
    BY <1>4, FS_RemoveElement
  <2>5. /\ Total(Amount, OpenHolds \ {r}) \in Int
        /\ Total(Amount, (OpenHolds \ {r}) \cup {r}) = Total(Amount, OpenHolds \ {r}) + Amount[r]
    BY <1>3, <1>4, <2>1, <2>4, TotalOfMore
  <2>6. suspense' = suspense - Amount[r]
    BY <1>2, <1>3, <1>9, <2>1 DEF SuspenseDelta
  <2>7. SuspenseIsTotal'
    <3>1. suspense = Total(Amount, OpenHolds \ {r}) + Amount[r]
      BY <1>4, <2>3, <2>5
    <3>2. suspense' = Total(Amount, OpenHolds \ {r})
      BY <1>3, <2>1, <2>5, <2>6, <3>1
    <3>3. QED BY <2>3, <3>2 DEF SuspenseIsTotal
  <2>8. SettledWasHeld'
    <3>1. Key("hold", r) \in journal
      BY <2>1 DEF OpenHolds
    <3>2. QED BY <1>2, <3>1 DEF HoldInv, SettledWasHeld, Key
  <2>9. QED BY <2>3, <2>4, <2>7, <2>8
<1>10. CASE op \notin {"hold", "capture", "release"}
  <2>1. OpenHolds' = OpenHolds
    BY <1>2, <1>10, OtherHolds
  <2>2. suspense' = suspense
    BY <1>2, <1>3, <1>10 DEF SuspenseDelta
  <2>3. SettledWasHeld'
    BY <1>2, <1>10 DEF HoldInv, SettledWasHeld, Key
  <2>4. QED BY <1>4, <2>1, <2>2, <2>3 DEF SuspenseIsTotal
<1>11. QED BY <1>8, <1>9, <1>10

LEMMA NextHolds ==
  ASSUME RowLocked = Refs, HoldInv, [Next]_vars
  PROVE  HoldInv'
<1>1. IInv'
  BY NextIInv DEF HoldInv
<1>2. ASSUME UNCHANGED books
      PROVE  OpenHolds' = OpenHolds /\ SettledWasHeld' /\ IsFiniteSet(OpenHolds') /\ SuspenseIsTotal'
  BY <1>2 DEF books, HoldInv, OpenHolds, SettledWasHeld, SuspenseIsTotal
<1>3. ASSUME NEW s \in Sessions, EndSession(s),
             \A t \in Sessions : t # s /\ Active(t) /\ sess[t].op \in {"capture", "release"}
                                   => sess[t].ref \in OpenHolds'
      PROVE  SettlesOpen'
  <2>1. \A t \in Sessions : Active(t)' => t # s /\ Active(t) /\ sess'[t] = sess[t]
    BY <1>3, EndSessionType DEF HoldInv, IInv
  <2>2. QED BY <1>3, <2>1 DEF SettlesOpen
<1>4. ASSUME NEW s \in Sessions, NEW c \in Calls, Call(s, c.op, c.ref) PROVE HoldInv'
  <2>1. UNCHANGED books
    BY <1>4 DEF Call
  <2>2. \A t \in Sessions :
          sess'[t] = IF t = s THEN [op |-> c.op, ref |-> c.ref, seen |-> NothingSeen] ELSE sess[t]
    BY <1>4 DEF Call, HoldInv, IInv, TypeOK
  <2>3. c.op \in {"capture", "release"} => c.ref \in OpenHolds
    BY <1>4 DEF Call, CallerMay, Calls, RefsOf, OpenHolds
  <2>4. SettlesOpen'
    BY <1>2, <2>1, <2>2, <2>3 DEF SettlesOpen, HoldInv, Active
  <2>5. QED BY <1>1, <1>2, <2>1, <2>4 DEF HoldInv
<1>5. ASSUME NEW s \in Sessions, NEW w \in Wallets, LockWallet(s, w) PROVE HoldInv'
  <2>1. UNCHANGED books
    BY <1>5 DEF LockWallet
  <2>2. \A t \in Sessions : sess'[t].op = sess[t].op /\ sess'[t].ref = sess[t].ref
    BY <1>5 DEF LockWallet, HoldInv, IInv, TypeOK
  <2>3. SettlesOpen'
    BY <1>2, <2>1, <2>2 DEF SettlesOpen, HoldInv, Active
  <2>4. QED BY <1>1, <1>2, <2>1, <2>3 DEF HoldInv
<1>6. ASSUME NEW s \in Sessions, Commit(s) PROVE HoldInv'
  <2>1. Active(s) /\ EndSession(s) /\ journal' = journal \cup {Key(sess[s].op, sess[s].ref)}
    BY <1>6 DEF Commit
  <2>2. ASSUME NEW t \in Sessions, t # s, Active(t), sess[t].op \in {"capture", "release"}
        PROVE  sess[t].ref \in OpenHolds'
    <3>1. sess[t].ref \in OpenHolds /\ sess[t].ref # sess[s].ref
      BY <2>1, <2>2 DEF HoldInv, SettlesOpen, IInv, Discipline, AloneOnReference
    <3>2. sess[t].ref \in Spends
      BY <3>1 DEF OpenHolds
    <3>3. QED BY <2>1, <3>1, <3>2, OtherHolds
  <2>3. SettlesOpen'
    BY <1>3, <2>1, <2>2
  <2>4. QED BY <1>1, <1>6, <2>3, CommitHolds DEF HoldInv
<1>7. ASSUME NEW s \in Sessions, Refuse(s) \/ Abort(s) PROVE HoldInv'
  <2>1. EndSession(s) /\ UNCHANGED books
    BY <1>7 DEF Refuse, Abort
  <2>2. SettlesOpen'
    BY <1>2, <1>3, <2>1 DEF HoldInv, SettlesOpen
  <2>3. QED BY <1>1, <1>2, <2>1, <2>2 DEF HoldInv
<1>8. CASE UNCHANGED vars
  <2>1. UNCHANGED books /\ UNCHANGED sess
    BY <1>8 DEF vars, books
  <2>2. SettlesOpen'
    BY <1>2, <2>1 DEF SettlesOpen, HoldInv, Active
  <2>3. QED BY <1>1, <1>2, <2>1, <2>2 DEF HoldInv
<1>9. QED BY <1>4, <1>5, <1>6, <1>7, <1>8 DEF Next

\* suspense:hold is worth exactly the holds that are still open, for any spends and
\* amounts: no spend is both captured and refunded, none is settled unheld, under
\* the callers' rule that a settlement holds its order's row.
THEOREM SuspenseIsHolds ==
  ASSUME RowLocked = Refs
  PROVE  Spec => []SuspenseBacksHolds
<1>1. Init => HoldInv
  <2> SUFFICES ASSUME Init PROVE HoldInv
    OBVIOUS
  <2>1. OpenHolds = {} /\ suspense = 0 /\ \A s \in Sessions : ~Active(s)
    BY DEF Init, OpenHolds, Active, Idle
  <2>2. SettlesOpen /\ SettledWasHeld
    BY <2>1 DEF Init, SettlesOpen, SettledWasHeld
  <2>3. IsFiniteSet(OpenHolds) /\ SuspenseIsTotal
    BY <2>1, FS_EmptySet, TotalOfNone DEF SuspenseIsTotal
  <2>4. QED BY <2>2, <2>3, InitIInv DEF HoldInv
<1>2. HoldInv /\ [Next]_vars => HoldInv'
  BY NextHolds
<1>3. HoldInv => SuspenseBacksHolds
  BY TotalIsSum DEF HoldInv
<1>4. QED BY <1>1, <1>2, <1>3, PTL DEF Spec

-----------------------------------------------------------------------------
(* Revenue. *)

\* Sweeps are not run at the same time.
OneSweepAtATime ==
  \A s, t \in Sessions : sess[s].op = "sweep" /\ sess[t].op = "sweep" => s = t

SweepsCovered ==
  \A s \in Sessions : sess[s].op = "sweep" => Amount[sess[s].ref] <= revenue

LEMMA MarginIsNat ==
  ASSUME NEW r \in Spends
  PROVE  CaptureMargin(r) \in Int /\ CaptureMargin(r) >= 0
<1>1. Amount[r] \in Nat /\ Cost[r] \in Int
  BY RefData DEF Refs
<1>2. QED BY <1>1 DEF CaptureMargin

\* A capture adds a margin, and the only sweep takes what is there.
LEMMA CommitRevenue ==
  ASSUME TypeOK, OneSweepAtATime, SweepsCovered, RevenueNotOverdrawn, NEW s \in Sessions, Commit(s)
  PROVE  RevenueNotOverdrawn' /\ SweepsCovered'
<1> DEFINE op == sess[s].op
           r  == sess[s].ref
<1>1. Key(op, r) \in Calls /\ Amount[r] \in Nat /\ revenue \in Int /\ revenue >= 0
  BY CallData DEF Commit, TypeOK, RevenueNotOverdrawn
<1>2. \A t \in Sessions : sess'[t].op = "sweep" => t # s /\ sess[t].op = "sweep" /\ sess'[t] = sess[t]
  <2>1. \A t \in Sessions : sess'[t] = IF t = s THEN Idle ELSE sess[t]
    BY DEF Commit, EndSession, TypeOK
  <2>2. QED BY <2>1 DEF Idle
<1>3. CASE op = "sweep"
  <2>1. \A t \in Sessions : sess'[t].op # "sweep"
    BY <1>2, <1>3 DEF OneSweepAtATime
  <2>2. revenue' = revenue - Amount[r] \/ revenue' = revenue
    BY <1>1, <1>3 DEF Commit, RevenueDelta
  <2>3. Amount[r] <= revenue
    BY <1>3 DEF SweepsCovered
  <2>4. QED BY <1>1, <2>1, <2>2, <2>3 DEF RevenueNotOverdrawn, SweepsCovered
<1>4. CASE op # "sweep"
  <2>1. revenue' \in Int /\ revenue' >= revenue
    <3>1. RevenueDelta(op, r) \in Int /\ RevenueDelta(op, r) >= 0
      <4>1. CASE op = "capture"
        <5>1. r \in Spends
          BY <1>1, <4>1 DEF Key, Calls, RefsOf
        <5>2. QED BY <4>1, <5>1, MarginIsNat DEF RevenueDelta
      <4>2. CASE op # "capture"
        BY <1>4, <4>2 DEF RevenueDelta
      <4>3. QED BY <4>1, <4>2
    <3>2. QED BY <1>1, <3>1 DEF Commit
  <2>2. \A t \in Sessions : sess'[t].op = "sweep" => Amount[sess'[t].ref] <= revenue'
    <3>1. ASSUME NEW t \in Sessions, sess'[t].op = "sweep" PROVE Amount[sess'[t].ref] <= revenue'
      <4>1. sess[t].op = "sweep" /\ sess'[t] = sess[t] /\ Active(t)
        BY <1>2, <3>1 DEF Active
      <4>2. Amount[sess[t].ref] \in Nat /\ Amount[sess[t].ref] <= revenue
        BY <4>1, CallData DEF TypeOK, SweepsCovered
      <4>3. QED BY <1>1, <2>1, <4>1, <4>2
    <3>2. QED BY <3>1
  <2>3. QED BY <1>1, <2>1, <2>2 DEF RevenueNotOverdrawn, SweepsCovered
<1>5. QED BY <1>3, <1>4

\* OAM never sweeps out more revenue than came in, whatever captures run meanwhile,
\* if its sweeps do not overlap: the balance is read before any lock is taken
\* (sweep_revenue), and two sweeps that overlap do overdraw it.
THEOREM SweepsNeverOverdraw ==
  Spec /\ []OneSweepAtATime => []RevenueNotOverdrawn
<1> DEFINE RInv == TypeOK /\ SweepsCovered /\ RevenueNotOverdrawn
<1>1. Init => RInv
  <2> SUFFICES ASSUME Init PROVE RInv
    OBVIOUS
  <2>1. revenue = 0 /\ \A s \in Sessions : sess[s].op = "none"
    BY DEF Init, Idle
  <2>2. QED BY <2>1, InitIInv DEF IInv, SweepsCovered, RevenueNotOverdrawn
<1>2. RInv /\ OneSweepAtATime /\ [Next]_vars => RInv'
  <2> SUFFICES ASSUME RInv, OneSweepAtATime, [Next]_vars PROVE RInv'
    OBVIOUS
  <2>1. TypeOK'
    BY NextTypeOK
  <2>2. ASSUME NEW s \in Sessions, NEW c \in Calls, Call(s, c.op, c.ref) PROVE RInv'
    <3>1. revenue' = revenue /\ (c.op = "sweep" => Amount[c.ref] <= revenue)
      BY <2>2 DEF Call, books
    <3>2. \A t \in Sessions :
            sess'[t] = IF t = s THEN [op |-> c.op, ref |-> c.ref, seen |-> NothingSeen] ELSE sess[t]
      BY <2>2 DEF Call, TypeOK
    <3>3. QED BY <2>1, <3>1, <3>2 DEF SweepsCovered, RevenueNotOverdrawn
  <2>3. ASSUME NEW s \in Sessions, NEW w \in Wallets, LockWallet(s, w) PROVE RInv'
    <3>1. revenue' = revenue
      BY <2>3 DEF LockWallet, books
    <3>2. \A t \in Sessions : sess'[t].op = sess[t].op /\ sess'[t].ref = sess[t].ref
      BY <2>3 DEF LockWallet, TypeOK
    <3>3. QED BY <2>1, <3>1, <3>2 DEF SweepsCovered, RevenueNotOverdrawn
  <2>4. ASSUME NEW s \in Sessions, Commit(s) PROVE RInv'
    BY <2>1, <2>4, CommitRevenue
  <2>5. ASSUME NEW s \in Sessions, Refuse(s) \/ Abort(s) PROVE RInv'
    <3>1. EndSession(s) /\ revenue' = revenue
      BY <2>5 DEF Refuse, Abort, books
    <3>2. \A t \in Sessions : sess'[t] = IF t = s THEN Idle ELSE sess[t]
      BY <3>1 DEF EndSession, TypeOK
    <3>3. QED BY <2>1, <3>1, <3>2 DEF SweepsCovered, RevenueNotOverdrawn, Idle
  <2>6. CASE UNCHANGED vars
    BY <2>1, <2>6 DEF vars, books, SweepsCovered, RevenueNotOverdrawn
  <2>7. QED BY <2>2, <2>3, <2>4, <2>5, <2>6 DEF Next
<1>3. RInv => RevenueNotOverdrawn
  OBVIOUS
<1>4. QED BY <1>1, <1>2, <1>3, PTL DEF Spec

=============================================================================
