CONSTANTS
  MaxNodes <- MCMaxNodes
  MaxRows <- MCMaxRows
  MaxExtent <- MCMaxExtent
  IndexValues <- MCIndexValues
  ListHeight <- MCListHeight
  Implicit = Implicit
SPECIFICATION Spec
INVARIANT TypeOK
INVARIANT ScatterGatherRoundTrip
CHECK_DEADLOCK FALSE
