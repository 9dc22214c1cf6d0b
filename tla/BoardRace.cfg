SPECIFICATION Spec
CONSTANTS
    w1 = w1
    w2 = w2
    j1 = j1
    j2 = j2
    Workers <- TwoWorkers
    Jobs <- TwoJobs
    MaxPairs = 2
    MaxFaults = 1
INVARIANTS PointsFollowWork DistinctTiers CountMatchesWork LinkActsOnce
PROPERTY CompletedIsTerminal
CONSTRAINT Bounds
SYMMETRY Symmetry
CHECK_DEADLOCK FALSE
