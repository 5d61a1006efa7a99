\* PushFlowExcessBackToSource() from every preflow of a graph with a cycle
\* 1 -> 2 -> 3 -> 1, flows 0..2 on every arc.  The run takes that one step
\* from each preflow; the state after it has nothing left to do here.
CONSTANTS
  NumNodes = 5
  Arcs <- MCCycleArcs
  Source = 0
  Sink = 4
  kMaxFlowQuantity = 6
  MaxCapacity = 2
  kNilArc = kNilArc
  MaxSolveSteps = 32
SPECIFICATION PushBackSpec
CHECK_DEADLOCK FALSE
PROPERTIES
  PushBackReturnsExcess
