SPECIFICATION Spec
CONSTANTS
  w1 = w1
  w2 = w2
  Workers = {w1, w2}
  MaxQuotes = 3
  MaxDay = 2
INVARIANT JobsOnce
INVARIANT OneOfferStands
CONSTRAINT Bounds
SYMMETRY Symmetry
CHECK_DEADLOCK FALSE
