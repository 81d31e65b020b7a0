SPECIFICATION FairSpec
CONSTANTS
  Orders = {o1, o2}
  Workers = {w1}
  MaxAttempts = 2
  Mishaps = {}
PROPERTIES
  AllSettle
CHECK_DEADLOCK FALSE
