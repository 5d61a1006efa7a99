CONSTANTS
  MaxIntervals = 2
  MaxCoord = 2
  kMaxIntegerValue = 100
  kMinIntegerValue <- MCkMinIntegerValue
SPECIFICATION Spec
CHECK_DEADLOCK FALSE
INVARIANT OverlappingSetsHaveTwoOrMore
