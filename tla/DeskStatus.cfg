SPECIFICATION Spec
CONSTANTS
  r1 = r1
  r2 = r2
  p1 = p1
  p2 = p2
  p3 = p3
  NoRow = NoRow
  Requests = {r1, r2}
  PaymentIds = {p1, p2, p3}
  Amounts = {1, 2}
  Totals = {0, 1, 2}
  MaxDay = 1
  Ops <- StrictOps
INVARIANT LedgerConsistent
INVARIANT PaidIffCovered
INVARIANT NoOverpayment
PROPERTY VoidIsFinal
CHECK_DEADLOCK FALSE
