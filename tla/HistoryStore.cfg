SPECIFICATION Spec
CONSTANTS
    w1 = w1
    w2 = w2
    Windows <- Instances
    Limit = 2
    Quota = 3
    Budgets <- CallsAndFaults
SYMMETRY Symmetry
INVARIANTS TokensInv TransactionInv ErasedStaysErased
PROPERTIES NoEntryLost ImplementsPrivateHistory WritesObeyPolicy DamagePreserved RefreshHonoursPolicy
CHECK_DEADLOCK FALSE
