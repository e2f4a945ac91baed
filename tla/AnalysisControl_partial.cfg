\* A budget that ends in the rules of a full analysis.
SPECIFICATION Spec
CONSTANTS
    Lines = 1
    Rules = 1
    MaxWork = 6
    MaxDiagnostics = 2
    MaxMemberships = 2
PROPERTIES PartialOutputKept
CHECK_DEADLOCK FALSE
