SPECIFICATION Spec
CONSTANTS
  c1 = c1
  ann = ann
  Checkouts = {c1}
  Customers = {ann}
  Payer <- SoleCheckout
  Savings = {0, 1}
  Bills = {b1, b2}
  Workers = {w1}
INVARIANTS
  OnePurchase
CHECK_DEADLOCK FALSE
