SPECIFICATION Spec
CONSTANTS
    w1 = w1
    w2 = w2
    c1 = c1
    c2 = c2
    c3 = c3
    j1 = j1
    j2 = j2
    j3 = j3
    r1 = r1
    Nothing = Nothing
    Workers <- TwoWorkers
    Customers <- ThreeCustomers
    Jobs <- ThreeJobs
    Redemptions <- OneRedemption
    OwnerOf <- TwoAndOne
    PerJob = 1
    Bonus = 1
    Cost = 1
    Milestone = 2
    Ops <- AllOps
    MaxFaults = 1
    MaxRows = 4
INVARIANTS BalanceIsLedger NeverNegative RefundMeansRejected ReferralPaysOnce ExpiresOnce
CONSTRAINT Bounds
SYMMETRY Symmetry
CHECK_DEADLOCK FALSE
