SPECIFICATION FairSpec
CONSTANTS
  Orders = {o1, o2}
  Mishaps = {"crash", "lost_answer"}
INVARIANTS
  TypeOK
  StatusMatchesMoney
  NoRefundedDelivery
PROPERTIES
  KeepsContract
  AcceptedSettles
CHECK_DEADLOCK FALSE
