CONSTANTS
  MaxRank <- MCMaxRank
  MaxExec <- MCMaxExec
  DimValues <- MCDimValues
SPECIFICATION Spec
INVARIANT TypeOK
INVARIANT ExecWritesFitShape
INVARIANT TransposeCorrectWhileAxesUnchanged
CHECK_DEADLOCK FALSE
