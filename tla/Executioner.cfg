CONSTANTS
  MaxNodes <- MCMaxNodes
  Graphs <- MCGraphs
  Placeholders <- MCPlaceholders
SPECIFICATION Spec
INVARIANT TypeOK
INVARIANT PassSucceedsIffGraphValid
PROPERTY ExecutionRefinesAbstract
PROPERTY StorageChangesOnlyInPlace
CHECK_DEADLOCK FALSE
