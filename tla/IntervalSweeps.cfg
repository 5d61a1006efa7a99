CONSTANTS
  MaxIntervals = 5
  MaxCoord = 3
  kMaxIntegerValue = 100
  kMinIntegerValue <- MCkMinIntegerValue
SPECIFICATION Spec
\* Each call returns once: the states after it have no successor.
CHECK_DEADLOCK FALSE
INVARIANTS
  OverlappingSetsAreMaximal
  ComponentsAreConnected
  ArticulationPointsAreExact
