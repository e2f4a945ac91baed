SPECIFICATION FairSpec
CONSTANTS
    Pages = {p1, p2}
    Rests = {r1, r2}
    Queries = {q1, q2}
    Threads = 2
    MaxInputs = 3
    None = None
INVARIANTS NoLostQuery BusyIsServed ListsBelong
PROPERTIES EditExact WaitsEnd
CHECK_DEADLOCK FALSE
