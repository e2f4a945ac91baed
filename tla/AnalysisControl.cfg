\* Two lines and two rules against budgets that any of the stages can exhaust.
SPECIFICATION FairSpec
CONSTANTS
    Lines = 2
    Rules = 2
    MaxWork = 12
    MaxDiagnostics = 3
    MaxMemberships = 2
INVARIANTS EachOnce Bounded
PROPERTIES RulesKept Terminates
CHECK_DEADLOCK FALSE
