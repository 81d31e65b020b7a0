SPECIFICATION FairEventsSpec
CONSTANTS
  Orders = {o1}
  Workers = {w1}
  MaxAttempts = 1
  Mishaps = {"crash"}
PROPERTIES
  QueuedSettles
CHECK_DEADLOCK FALSE
