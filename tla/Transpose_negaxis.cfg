CONSTANTS
  MaxRank <- MCMaxRank
  MaxExec <- MCMaxExec
  DimValues <- MCDimValues
SPECIFICATION Spec
INVARIANT ShapeAgreement
CHECK_DEADLOCK FALSE
