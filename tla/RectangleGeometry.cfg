CONSTANTS
  MaxCoord = 3
  MaxRemove = 2
  MaxRegion = 2
  MaxRects = 3
  MaxItems = 3
  MaxStart = 1
  MaxSize = 2
SPECIFICATION GeometrySpec
\* Each behaviour is one call; the state after its return has no successor.
CHECK_DEADLOCK FALSE
INVARIANTS
  RegionIsDifference
  IntervalSetIsPaving
  ResultIsSpanningForest
  RestrictionsAreExact
