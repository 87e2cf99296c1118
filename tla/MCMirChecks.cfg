CONSTANTS
  Byte = 4
  Operations <- AllOperations
  Rows <- SampledRows
  EmitterByte = 2
  Instructions <- EmittedSteps
  Samples <- EmittedSamples
  LaneSamples <- EmittedLanes
  FloatSamples <- FloatBoundaries
  RowSamples <- EmittedRows
  OtherBits <- OtherRows
  Kernels <- AllKernels
  RowCounts = {0, 1, 5, 7, 8, 9, 15, 16, 17, 24, 31, 33, 40}
  LastBit = 63
SPECIFICATION EmissionSpec
INVARIANTS LoweringKeepsValue ReportsOverflow EmittersKeepMeaning AccessesReachTheirRows MaskBitsLand
\* A row is lowered once.
CHECK_DEADLOCK FALSE
