\* Two elements, priorities 0..4, at most four queued: pushes at the
\* highest priority minus one, equal priorities on both stacks, and pops
\* interleaved with pushes.
CONSTANTS
  a = a
  b = b
  Elements <- MCElements
  MaxPriority = 4
  MaxSize = 4
  NoElement = NoElement
SPECIFICATION Spec
PROPERTIES
  ImplementsMaxPriorityQueue
