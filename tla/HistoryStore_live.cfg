SPECIFICATION FairSpec
CONSTANTS
    w1 = w1
    w2 = w2
    Windows <- Instances
    Limit = 2
    Quota = 3
    Budgets <- FewCalls
PROPERTIES LockReleased JobsEnd
CHECK_DEADLOCK FALSE
