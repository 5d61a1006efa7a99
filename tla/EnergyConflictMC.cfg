\* Two items whose bounding areas lie in [0,3] x [0,3], and the factor 1/2:
\* walks that meet conflicts, candidates, the break at zero energy and
\* minimal probes.  The function returns, so the final state has no
\* successor.
CONSTANTS
  Items = {i1, i2}
  NoItem = NoItem
  MaxCoord = 3
  MinSize = 1
  FactorNum = 1
  FactorDen = 2
SYMMETRY ItemSymmetry
SPECIFICATION Spec
CHECK_DEADLOCK FALSE
INVARIANT
  ConflictsAreExact
PROPERTIES
  ShrinkDeltaAreaIsExact
  WalkTerminates
