\* Three disjoint rectangles with corners in 0..3: every arrangement, so
\* two rectangles share an edge of a third on each side, and rectangles
\* touch at corners only.  Construction is the only step; the queries are
\* read-only, so the state after it has no successor.
CONSTANTS
  NumBoxes = 3
  MaxCoord = 3
SPECIFICATION Spec
CHECK_DEADLOCK FALSE
INVARIANT
  NeighborsAreClockwise
