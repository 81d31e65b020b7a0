-------------------------- MODULE ReleaseStuckBills --------------------------
(***************************************************************************)
(* Billing together with the maintenance command release_stuck_bills       *)
(* (apps/billing/management/commands/release_stuck_bills.py).  The command *)
(* reads the orders it takes for stuck once, and then refunds and marks    *)
(* the copies one by one, each write in a transaction of its own, without  *)
(* the row lock the rest of the code settles orders under.                 *)
(***************************************************************************)
EXTENDS Billing

VARIABLES
  stuck,      \* copies the command still has to treat
  refunded    \* the copy it has released and not yet marked

command == <<stuck, refunded>>

InitWithCommand == Init /\ stuck = {} /\ refunded = {}

StuckOrders == {o \in Orders : status[o] = "processing" /\ o \notin provRef}

Scan ==
  /\ stuck = {} /\ refunded = {}
  /\ stuck' = StuckOrders
  /\ UNCHANGED <<vars, refunded>>

\* _release, whatever happened to the order since the scan.
ReleaseCopy(o) ==
  /\ o \in stuck
  /\ refunded = {}
  /\ Post(o, "release")
  /\ stuck' = stuck \ {o}
  /\ refunded' = {o}
  /\ UNCHANGED <<status, provRef, remote, request>>

\* status = REVERSED is saved over whatever the row says now.
MarkReversed(o) ==
  /\ o \in refunded
  /\ SetStatus(o, "reversed")
  /\ refunded' = {}
  /\ UNCHANGED <<provRef, journal, remote, request, stuck>>

NextWithCommand ==
  \/ Next /\ UNCHANGED command
  \/ Scan
  \/ \E o \in Orders : ReleaseCopy(o) \/ MarkReversed(o)

SpecWithCommand == InitWithCommand /\ [][NextWithCommand]_<<vars, command>>

-----------------------------------------------------------------------------
(* Properties. *)

\* The command refunds only orders that never reached the provider (its docstring,
\* lines 2-4: "the order never reached the provider").
StuckNeverDelivered ==
  [][\A o \in Orders : ReleaseCopy(o) => remote[o] = "absent"]_<<vars, command>>

=============================================================================
