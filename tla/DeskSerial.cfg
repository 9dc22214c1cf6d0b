SPECIFICATION Spec
CONSTANTS
  r1 = r1
  r2 = r2
  p1 = p1
  p2 = p2
  p3 = p3
  NoRow = NoRow
  Requests = {r1}
  PaymentIds = {p1, p2}
  Amounts = {1, 2}
  Totals = {0, 1, 2}
  MaxDay = 1
  Ops <- EveryOp
INVARIANT PaidMeansCovered
CHECK_DEADLOCK FALSE
