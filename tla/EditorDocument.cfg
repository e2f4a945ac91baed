SPECIFICATION Spec
CONSTANTS
    letter = letter
    newline = newline
    Symbols <- MCSymbols
    Wide <- MCWide
    NewLine = newline
    None = None
    PageSize = 2
    BoundarySearch = 1
    PagedAbove = 3
    Documents <- MCDocuments
    MaxLength = 5
    MaxInsert = 1
    MaxInputs = 5
INVARIANTS CopiesAgree PagesTile MarkHolds EditIsLocal
PROPERTIES ImplementsPlainEditor
CHECK_DEADLOCK FALSE
