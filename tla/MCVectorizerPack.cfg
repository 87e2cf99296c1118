CONSTANTS
    Inputs <- PackInputs
    None = None
SPECIFICATION Spec
INVARIANTS
    PacksInRowOrder
CHECK_DEADLOCK FALSE
