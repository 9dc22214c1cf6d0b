SPECIFICATION Spec
CONSTANTS
    w1 = w1
    w2 = w2
    cron = cron
    Handlers <- OneHandler
    Sweepers <- OneSweeper
    MaxSubs = 2
    PaidPlans = {"pro", "starter"}
    MaxChanges = 2
    MaxSeconds = 2
    MaxFaults = 1
    Ops = {"async", "fail", "end", "pause", "plan", "cancel", "trial"}
INVARIANT PaidPlanWasPaid
PROPERTY RowFollowsStripe
CHECK_DEADLOCK FALSE
