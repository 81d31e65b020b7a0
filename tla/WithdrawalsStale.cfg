SPECIFICATION Spec
CONSTANTS
  Orders = {o1}
  Workers = {w1}
  MaxAttempts = 1
  Mishaps = {"recorded_rejection"}
INVARIANTS
  NoRefundedPayout
CHECK_DEADLOCK FALSE
