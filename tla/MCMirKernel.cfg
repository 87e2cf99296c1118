CONSTANTS
  Byte = 2
  Programs <- AllPrograms
  Inputs <- AllTables
SPECIFICATION Spec
PROPERTIES ImplementsRowFold ReturnsAfterAllRows
\* A kernel returns.
CHECK_DEADLOCK FALSE
