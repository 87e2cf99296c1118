SPECIFICATION Spec
CONSTANTS
  Byte = 2
  MaxArguments = 7
  MaxRoots = 2
  MaxLiveSteps = 10
  Programs <- BetweenPrograms
INVARIANTS BetweenIsInclusive
CHECK_DEADLOCK FALSE
