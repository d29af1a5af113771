CONSTANTS
  MaxRank <- MCMaxRank
  MaxExec <- MCMaxExec
  DimValues <- MCDimValues
SPECIFICATION Spec
INVARIANT TransposeUsesCurrentAxes
CHECK_DEADLOCK FALSE
