\* status() of a solver just constructed, before any Solve(), on the
\* diamond graph.
CONSTANTS
  NumNodes = 4
  Arcs <- MCArcs
  Source = 0
  Sink = 3
  kMaxFlowQuantity = 2
  MaxCapacity = 2
  kNilArc = kNilArc
  MaxSolveSteps = 32
SPECIFICATION Spec
INVARIANT
  StatusReportsLastSolve
