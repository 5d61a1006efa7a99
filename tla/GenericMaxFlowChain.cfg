\* A chain of three arcs among eight nodes, capacities 0..3, a ceiling of 3:
\* nodes cut off from the sink ping-pong their excess, are skipped, and the
\* round is repeated.
CONSTANTS
  NumNodes = 8
  Arcs <- MCChainArcs
  Source = 0
  Sink = 3
  kMaxFlowQuantity = 3
  MaxCapacity = 3
  kNilArc = kNilArc
  MaxSolveSteps = 32
SPECIFICATION Spec
INVARIANTS
  ActiveNodesAreQueued
  SolveTerminates
PROPERTIES
  SolveReturnsMaximumFlow
