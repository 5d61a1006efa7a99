------------------ MODULE MCPriorityQueueWithRestrictedPush ------------------
EXTENDS PriorityQueueWithRestrictedPush

CONSTANTS a, b

MCElements == {a, b}
=============================================================================
