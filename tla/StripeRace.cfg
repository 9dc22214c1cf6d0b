SPECIFICATION Spec
CONSTANTS
  w1 = w1
  w2 = w2
  i1 = i1
  i2 = i2
  s1 = s1
  s2 = s2
  a1 = a1
  a2 = a2
  Manual = Manual
  NoSession = NoSession
  NoInvoice = NoInvoice
  NoRow = NoRow
  Workers = {w1, w2}
  Invoices = {i1}
  Sessions = {s1}
  Accounts = {a1, a2}
  Total = 2
  Amounts = {1, 2}
  Ops = {"manual", "mark_paid", "void", "soft_delete", "restore", "reconnect", "landing"}
  Faults = {"crash", "db_error", "fee_error", "stripe_down", "unknown_session", "lost_event", "lost_attempt"}
  MaxFaults = 1
  MaxManual = 1
INVARIANT CreditIsBacked
PROPERTY MoneyIsSafe
CONSTRAINT ShopOrWorkers
SYMMETRY Concurrency
CHECK_DEADLOCK FALSE
