CONSTANTS
  Calls <- MCCalls
  ArgValues <- MCArgValues
  WalkBound <- MCWalkBound
  PlaceholderLength <- MCPlaceholderLength
SPECIFICATION Spec
CHECK_DEADLOCK FALSE
PROPERTY RangeTerminates
