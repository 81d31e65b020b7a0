SPECIFICATION Spec
CONSTANTS
  w1 = w1
  w2 = w2
  f1 = f1
  f2 = f2
  p1 = p1
  p2 = p2
  p3 = p3
  t1 = t1
  v1 = v1
  v2 = v2
  Wallets = {w1, w2}
  Sessions = {s1, s2, s3}
  Fundings = {f1}
  Spends = {p1}
  Transfers = {}
  Sweeps = {v1, v2}
  Payer <- MCPayer
  Payee <- MCPayee
  Amount <- MCAmount
  Cost <- MCCost
  RowLocked <- AllRefs
INVARIANTS
  RevenueNotOverdrawn
CHECK_DEADLOCK FALSE
