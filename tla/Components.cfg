SPECIFICATION MCSpec
CONSTANTS
  t1 = t1
  t2 = t2
  a = a
  ann = ann
  d1 = d1
  d2 = d2
  Tabs = {t1, t2}
  Fetches = {a}
  TabOf <- MCTabOf
  Users = {ann, bob}
  MaxPairs = 3
  Orders = {o1, o2}
  Tries = 2
  MaxCalls = 2
  Apps = {"web", "mobile"}
  Sockets = {s1, s2}
  MaxScreens = 2
  MaxFrames = 2
  MaxTimers = 1
  MaxCloses = 1
  Messages = {m1}
  MaxTries = 2
  MaxSends = 2
  Deliveries = {d1, d2}
  Riders = {r1}
  Methods <- MCMethods
  MaxLinks = 2
  MaxChecks = 1
INVARIANTS
  TypesOK
  NeverLocksItselfOut
  OwnData
  ReceiptEarned
  CancelledIsCancelled
  OneSocket
  FramesInOrder
  StoredOnce
  ShownOnce
  OneActiveDelivery
  MoneyFollowsDelivery
PROPERTIES
  WaitersGoOn
  GoneFromScreen
  ConfirmingEnds
  Reconnects
  IdleSocketCloses
CHECK_DEADLOCK FALSE
