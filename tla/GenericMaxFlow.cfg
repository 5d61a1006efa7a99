\* A diamond with arcs both ways between its middle nodes; capacities 0..2
\* and a ceiling of 2, so the total flow can exceed it.
CONSTANTS
  NumNodes = 4
  Arcs <- MCArcs
  Source = 0
  Sink = 3
  kMaxFlowQuantity = 2
  MaxCapacity = 2
  kNilArc = kNilArc
  MaxSolveSteps = 32
SPECIFICATION Spec
INVARIANTS
  TypeOK
  PreflowInvariant
  ValidLabelling
  QueueIsOrdered
  SolveTerminates
  MinCutsAreMinimum
PROPERTIES
  
  SolveReturnsMaximumFlow
