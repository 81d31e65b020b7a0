--------------------------- MODULE MCWalletLedger ---------------------------
(***************************************************************************)
(* WalletLedger on a small instance: two wallets, a funding for each,      *)
(* spends that together cost more than their wallet can hold, a transfer   *)
(* from one wallet to the other, and sweeps of the captured margin.        *)
(***************************************************************************)
EXTENDS WalletLedger, TLC

CONSTANTS w1, w2, f1, f2, p1, p2, p3, t1, v1, v2

MCPayer == [r \in Refs |-> IF r \in {f2, p3} THEN w2 ELSE w1]
MCPayee == [r \in Transfers |-> w2]

\* The first funding covers one spend and the transfer, not everything at once.
MCAmount == [r \in Refs |-> CASE r = f1 -> 4
                              [] r \in {p1, p2, f2} -> 2
                              [] r \in {p3, t1} -> 3
                              [] OTHER -> 1]
\* p1 leaves a margin of 1; the others are charged above their amount: no margin.
MCCost == [r \in Spends |-> IF r = p1 THEN 1 ELSE 4]

\* Every caller locks its order's row first ...
AllRefs == Refs
\* ... or the callers that settle a spend do not (bus tickets: settle_card).
AllButSpends == Refs \ Spends

Interchangeable == Permutations(Sessions)

=============================================================================
