SPECIFICATION Spec
CONSTANTS
  w1 = w1
  w2 = w2
  i1 = i1
  i2 = i2
  s1 = s1
  s2 = s2
  a1 = a1
  a2 = a2
  Manual = Manual
  NoSession = NoSession
  NoInvoice = NoInvoice
  NoRow = NoRow
  Workers = {w1}
  Invoices = {i1}
  Sessions = {s1, s2}
  Accounts = {a1}
  Total = 2
  Amounts = {1, 2}
  Ops = {"manual", "landing", "void", "soft_delete"}
  Faults = {"lost_event", "db_error", "stripe_down"}
  MaxFaults = 1
  MaxManual = 1
INVARIANT ExpiredMeansNoMoney
PROPERTIES NeverCreditAgain SweepReachesAll
CHECK_DEADLOCK FALSE
