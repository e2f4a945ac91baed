SPECIFICATION Spec
CONSTANTS
    s1 = s1
    s2 = s2
    Savers = {s1, s2}
    MaxSaves = 3
    MaxOthers = 2
    MaxFaults = 2
SYMMETRY Symmetry
INVARIANTS LeftoversReported CheckedIsApproved
PROPERTIES NothingLost NewNeverOverwrites
CHECK_DEADLOCK FALSE
