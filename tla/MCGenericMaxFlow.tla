-------------------------- MODULE MCGenericMaxFlow --------------------------
(***************************************************************************)
(* Graphs for GenericMaxFlow.                                              *)
(***************************************************************************)
EXTENDS GenericMaxFlow

\* A diamond, source 0 and sink 3, whose middle nodes 1 and 2 are joined by
\* arcs both ways, so that flow can cycle between them:
\* 0 -> 1, 0 -> 2, 1 -> 2, 2 -> 1, 1 -> 3, 2 -> 3.
MCArcs == <<[tail |-> 0, head |-> 1], [tail |-> 0, head |-> 2],
            [tail |-> 1, head |-> 2], [tail |-> 2, head |-> 1],
            [tail |-> 1, head |-> 3], [tail |-> 2, head |-> 3]>>

\* A chain 0 -> 1 -> 2 -> 3 among eight nodes, four of them without arcs:
\* the heights may reach 2n = 16, so that two nodes cut off from the sink
\* push flow back and forth, rising by two each time, which is the case
\* the skip heuristic of RefineWithGlobalUpdate is for.
MCChainArcs == <<[tail |-> 0, head |-> 1], [tail |-> 1, head |-> 2],
                 [tail |-> 2, head |-> 3]>>
\* A graph whose nodes 1, 2 and 3 form a cycle, source 0 and sink 4:
\* 0 -> 1, 0 -> 2, 1 -> 2, 2 -> 3, 3 -> 1, 3 -> 4, 2 -> 4.
MCCycleArcs == <<[tail |-> 0, head |-> 1], [tail |-> 0, head |-> 2],
                 [tail |-> 1, head |-> 2], [tail |-> 2, head |-> 3],
                 [tail |-> 3, head |-> 1], [tail |-> 3, head |-> 4],
                 [tail |-> 2, head |-> 4]>>

\* The end of a discharge phase with any preflow of arcs of capacity
\* MaxCapacity: the state PushFlowExcessBackToSource() starts from.  The
\* heights are left as InitializePreflow set them; the function does not
\* read them.
PreflowInit ==
  \E flow \in [DirectArcs -> 0..MaxCapacity] :
    LET Excess(v) ==
          MapThenSumSet(LAMBDA a : flow[a], {a \in DirectArcs : Arcs[a + 1].head = v})
          - MapThenSumSet(LAMBDA a : flow[a], {a \in DirectArcs : Arcs[a + 1].tail = v})
    IN /\ \A v \in Nodes \ {Source} : Excess(v) >= 0
       /\ residual_arc_capacity = [a \in ArcIds |->
            IF IsArcDirect(a) THEN MaxCapacity - flow[a] ELSE flow[Opposite(a)]]
       /\ node_excess = [v \in Nodes |-> Excess(v)]
       /\ node_potential = [v \in Nodes |-> IF v = Source THEN NumNodes ELSE 0]
       /\ first_admissible_arc = [v \in Nodes |-> kNilArc]
       /\ even_queue = <<>> /\ odd_queue = <<>>
       /\ skip_active_node = NoSkip
       /\ num_skipped = 0
       /\ status = "NOT_SOLVED"
       /\ pc = "discharge"
       /\ user_capacity = [a \in DirectArcs |-> MaxCapacity]
       /\ solve_steps = 0

PushBackSpec == PreflowInit /\ [][Counted(PushExcessBack)]_vars
=============================================================================
