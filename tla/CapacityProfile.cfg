\* x in 0..2, y in 0..2, up to two additions (four events) between Clears:
\* overlapping, nested, adjacent and degenerate rectangles, and mandatory
\* consumptions starting or ending where a rectangle does.
CONSTANTS
  XMax = 2
  YMax = 2
  MaxEvents = 4
  kMinIntegerValue <- MCkMinIntegerValue
SPECIFICATION Spec
PROPERTIES
  ProfileIsResidualCapacity
  BoundingAreaIsSpanArea
