SPECIFICATION FairSpec
CONSTANTS
  w1 = w1
  w2 = w2
  i1 = i1
  i2 = i2
  s1 = s1
  s2 = s2
  a1 = a1
  a2 = a2
  Manual = Manual
  NoSession = NoSession
  NoInvoice = NoInvoice
  NoRow = NoRow
  Workers = {w1, w2}
  Invoices = {i1}
  Sessions = {s1}
  Accounts = {a1}
  Total = 2
  Amounts = {2}
  Ops = {"mark_paid"}
  Faults = {"crash", "db_error", "fee_error", "stripe_down", "lost_event"}
  MaxFaults = 2
  MaxManual = 1
INVARIANT CompleteMeansSettled
INVARIANT ClosedEventIsSettled
PROPERTIES MoneyReachesTheBooks FeeFollows
CHECK_DEADLOCK FALSE
