SPECIFICATION Spec
CONSTANTS
  w1 = w1
  w2 = w2
  NoTime = NoTime
  Workers = {w1, w2}
  NumTechs = 2
  MaxJobs = 4
  Starts = {0, 1}
  Lengths = {1}
  SlotsPerDay = 2
  Strategies = {"manual", "round_robin"}
  Primaries = {0}
  Ops = {"create", "edit", "book", "dispatch", "swap", "bulk", "reassign"}
  MaxRequests = 4
  MaxFaults = 1
INVARIANT VisitTogether
INVARIANT BookingsNeverDeadlock
INVARIANT RotationEven
CONSTRAINT Bounds
SYMMETRY Concurrency
CHECK_DEADLOCK FALSE
