CONSTANTS
    empty = empty
    config = config
    sample = sample
    plain = plain
    guided = guided
    p = p
    q = q
    nowhere = nowhere
    Texts <- Texts3
    Empty <- empty
    Example <- sample
    Options <- Options2
    ExampleOptions <- guided
    Paths <- OneFile
    NoPath <- nowhere
    Budgets <- Mixed

SPECIFICATION FairSpec
INVARIANTS ResultsBelong OneAnalysis SavedOnDisk
PROPERTIES NoEditLost BusyEnds
CHECK_DEADLOCK FALSE
