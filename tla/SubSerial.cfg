SPECIFICATION Spec
CONSTANTS
    w1 = w1
    w2 = w2
    cron = cron
    Handlers <- OneHandler
    Sweepers <- OneHandler
    MaxSubs = 2
    PaidPlans = {"pro"}
    MaxChanges = 4
    MaxSeconds = 2
    MaxFaults = 0
    Ops = {"fail", "end", "cancel"}
PROPERTIES GraceNotRestarted OverdueNotRestarted RowFollowsStripe PaidUpGetsIn
CHECK_DEADLOCK FALSE
