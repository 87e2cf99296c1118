SPECIFICATION Spec
CONSTANTS
  Byte = 2
  MaxArguments = 7
  MaxRoots = 2
  MaxLiveSteps = 10
  Programs <- MCPrograms
INVARIANTS
  TypeOK
  SameValue
  FaultsAsAsked
  SpecialOpsAnnounced
  ScalarWhenNeeded
  CastsDecomposed
  BuiltAccessesAgree
PROPERTY RefusedAddsNoOutput
CHECK_DEADLOCK FALSE
