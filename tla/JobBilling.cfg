SPECIFICATION Spec
CONSTANTS
  w1 = w1
  w2 = w2
  j1 = j1
  j2 = j2
  Workers = {w1, w2}
  Jobs = {j1, j2}
  BreaksOf <- OneBatch
  MaxInvoices = 2
  MaxNumber = 3
  MaxDay = 3
  MaxCrashes = 1
  Ops = {"complete", "pick", "ticket", "send", "batch", "void", "trash", "renumber", "purge"}
INVARIANT BilledOnce
INVARIANT AllocatedIsFree
INVARIANT SentWasMailed
PROPERTY LinesStay
PROPERTY RestorableStays
CONSTRAINT Bounds
SYMMETRY Processes
CHECK_DEADLOCK FALSE
