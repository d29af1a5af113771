CONSTANTS
  MaxNodes <- MCMaxNodes
  MaxRows <- MCMaxRows
  MaxExtent <- MCMaxExtent
  IndexValues <- MCIndexValues
  ListHeight <- MCListHeight
  Implicit = Implicit
SPECIFICATION Spec
CHECK_DEADLOCK FALSE
INVARIANT ImplicitListPublished
