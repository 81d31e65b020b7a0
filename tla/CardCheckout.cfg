SPECIFICATION FairSpec
CONSTANTS
  c1 = c1
  ann = ann
  Checkouts = {c1}
  Customers = {ann}
  Payer <- SoleCheckout
  Savings = {0, 1}
  Bills = {b1, b2, b3}
  Workers = {w1, w2}
INVARIANTS
  TypeOK
  CreditedIsPaid
  NothingUnpaid
  DeliveredIsCaptured
  PurchasesCovered
PROPERTIES
  PaidIsCredited
CHECK_DEADLOCK FALSE
