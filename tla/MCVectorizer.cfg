CONSTANTS
    Inputs <- MCInputs
    None = None
SPECIFICATION Spec
INVARIANTS
    NoInternalError
    AlwaysConverges
    RowsCoveredOnce
    LanesReadTheirRows
CHECK_DEADLOCK FALSE
