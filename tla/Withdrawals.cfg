SPECIFICATION Spec
CONSTANTS
  Orders = {o1, o2}
  Workers = {w1, w2}
  MaxAttempts = 1
  Mishaps = {"crash", "lost_answer", "odd_event"}
SYMMETRY Interchangeable
INVARIANTS
  TypeOK
  StatusMatchesMoney
  NoRefundedPayout
  SendsOnce
  PollsCurrent
PROPERTIES
  KeepsContract
  KeepsStatusOrder
CHECK_DEADLOCK FALSE
