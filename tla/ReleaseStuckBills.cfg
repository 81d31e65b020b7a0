SPECIFICATION SpecWithCommand
CONSTANTS
  Orders = {o1}
  Mishaps = {"lost_answer"}
PROPERTIES
  StuckNeverDelivered
CHECK_DEADLOCK FALSE
