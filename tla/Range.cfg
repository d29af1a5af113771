CONSTANTS
  Calls <- MCCalls
  ArgValues <- MCArgValues
  WalkBound <- MCWalkBound
  PlaceholderLength <- MCPlaceholderLength
SPECIFICATION Spec
INVARIANT TypeOK
INVARIANT RangeMatchesReference
PROPERTY RangeTerminatesWhenStepPointsToStop
CHECK_DEADLOCK FALSE
