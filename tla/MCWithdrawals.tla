---------------------------- MODULE MCWithdrawals ----------------------------
(***************************************************************************)
(* Withdrawals on a small instance.                                        *)
(***************************************************************************)
EXTENDS Withdrawals, TLC

Interchangeable == Permutations(Orders) \cup Permutations(Workers)

=============================================================================
