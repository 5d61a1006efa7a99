--------------------------- MODULE GenericMaxFlow ---------------------------
(***************************************************************************)
(* The push-relabel maximum-flow solver GenericMaxFlow of                  *)
(* ortools/graph/generic_max_flow.h, on a fixed graph whose arc capacities *)
(* are set by SetArcCapacity between calls of Solve().                     *)
(*                                                                         *)
(* Solve() is split at the loops of RefineWithGlobalUpdate(): every action *)
(* below is one iteration of one of its loops, and each calls whole        *)
(* functions of the class (GlobalUpdate, Discharge, Relabel,               *)
(* PushFlowExcessBackToSource), written as operators on a record of the    *)
(* solver's members.  The solver is single-threaded, so nothing else runs  *)
(* between those steps; splitting them only lets the invariants be checked *)
(* at the points where the code's own comments state them.                 *)
(***************************************************************************)
EXTENDS Integers, SequencesExt

CONSTANTS
  NumNodes,          \* graph_->num_nodes(); nodes are 0..NumNodes-1
  Arcs,              \* the direct arcs: Arcs[a+1] = [tail |-> t, head |-> h]
  Source, Sink,      \* source_ and sink_
  kMaxFlowQuantity,  \* std::numeric_limits<FlowQuantity>::max(), scaled down
  MaxCapacity,       \* the largest capacity SetArcCapacity is called with
  kNilArc,           \* Graph::kNilArc
  MaxSolveSteps      \* a bound on the loop iterations of one Solve()

Nodes == 0..NumNodes - 1
NumArcs == Len(Arcs)
DirectArcs == 0..NumArcs - 1
ArcIds == -NumArcs..NumArcs - 1

ASSUME /\ NumNodes \in Nat \ {0}
       /\ {Source, Sink} \subseteq Nodes /\ Source # Sink
       /\ \A k \in DOMAIN Arcs : {Arcs[k].tail, Arcs[k].head} \subseteq Nodes
       /\ kMaxFlowQuantity \in Nat \ {0}
       /\ MaxCapacity \in 1..kMaxFlowQuantity
       /\ kNilArc \notin ArcIds

(***************************************************************************)
(* The graph container (graph.h, not in this repository): a reverse-arc    *)
(* graph whose opposite of arc a is ~a = -a-1.  Its iterators list arcs    *)
(* in the order of the linked lists of ReverseArcListGraph, the last added *)
(* first; OutgoingOrOppositeIncoming lists the opposite incoming arcs,     *)
(* then the outgoing ones.  An iterator started at kNilArc is empty.       *)
(***************************************************************************)
Opposite(arc) == -arc - 1
IsArcDirect(arc) == arc >= 0
GraphHead(arc) ==
  IF IsArcDirect(arc) THEN Arcs[arc + 1].head ELSE Arcs[Opposite(arc) + 1].tail
GraphTail(arc) == GraphHead(Opposite(arc))

\* The arcs of S in decreasing order.
Decreasing(S) ==
  [k \in 1..Cardinality(S) |->
     CHOOSE a \in S : Cardinality({b \in S : b > a}) = k - 1]

OutgoingArcs ==
  [v \in Nodes |-> Decreasing({a \in DirectArcs : Arcs[a + 1].tail = v})]
IncomingArcs ==
  [v \in Nodes |-> Decreasing({a \in DirectArcs : Arcs[a + 1].head = v})]
OutgoingOrOppositeIncomingArcs ==
  [v \in Nodes |-> [k \in DOMAIN IncomingArcs[v] |-> Opposite(IncomingArcs[v][k])]
                     \o OutgoingArcs[v]]

\* OutgoingOrOppositeIncomingArcIterator(graph, node, start).
ArcsFrom(node, start) ==
  IF start = kNilArc THEN <<>>
  ELSE LET adj == OutgoingOrOppositeIncomingArcs[node]
           k == CHOOSE k \in DOMAIN adj : adj[k] = start
       IN SubSeq(adj, k, Len(adj))

-----------------------------------------------------------------------------
(***************************************************************************)
(* The solver's members.                                                   *)
(***************************************************************************)
VARIABLES
  residual_arc_capacity,  \* [ArcIds -> Int]
  node_excess,            \* [Nodes -> Int]
  node_potential,         \* [Nodes -> Nat], the heights
  first_admissible_arc,   \* [Nodes -> ArcIds \cup {kNilArc}]
  even_queue, odd_queue,  \* active_node_by_height_: sequences of <<node, priority>>
  skip_active_node,       \* the local vector of RefineWithGlobalUpdate
  num_skipped,            \* the local counter of RefineWithGlobalUpdate
  status,                 \* status_
  pc,                     \* where Solve() is: "idle", "saturate" or "discharge"
  user_capacity,          \* the capacity last given to SetArcCapacity (history)
  solve_steps             \* loop iterations of the running Solve() (history)

vars == <<residual_arc_capacity, node_excess, node_potential,
          first_admissible_arc, even_queue, odd_queue, skip_active_node,
          num_skipped, status, pc, user_capacity, solve_steps>>

Statuses == {"NOT_SOLVED", "OPTIMAL", "INT_OVERFLOW", "BAD_INPUT", "BAD_RESULT"}

\* The members GlobalUpdate, Discharge and the others read and write.
State == [res |-> residual_arc_capacity, excess |-> node_excess,
          pot |-> node_potential, first |-> first_admissible_arc,
          even |-> even_queue, odd |-> odd_queue]

Assign(s) == /\ residual_arc_capacity' = s.res
             /\ node_excess' = s.excess
             /\ node_potential' = s.pot
             /\ first_admissible_arc' = s.first
             /\ even_queue' = s.even
             /\ odd_queue' = s.odd

Flow(s, arc) == IF IsArcDirect(arc) THEN s.res[Opposite(arc)] ELSE -s.res[arc]
Capacity(s, arc) ==
  IF IsArcDirect(arc) THEN s.res[arc] + s.res[Opposite(arc)] ELSE 0

IsAdmissible(s, tail, arc) ==
  s.res[arc] > 0 /\ s.pot[tail] = s.pot[GraphHead(arc)] + 1

PushFlow(s, flow, tail, arc) ==
  [s EXCEPT !.res[arc] = @ - flow,
            !.res[Opposite(arc)] = @ + flow,
            !.excess[tail] = @ - flow,
            !.excess[GraphHead(arc)] = @ + flow]

\* FastPushFlow: the same update on the excess array it is given, which
\* GlobalUpdate and Discharge pass as node_excess_.data().
FastPushFlow(s, flow, tail, arc) ==
  [s EXCEPT !.res[arc] = @ - flow,
            !.res[Opposite(arc)] = @ + flow,
            !.excess[tail] = @ - flow,
            !.excess[GraphHead(arc)] = @ + flow]

-----------------------------------------------------------------------------
(***************************************************************************)
(* active_node_by_height_: a PriorityQueueWithRestrictedPush<NodeIndex,    *)
(* NodeHeight> whose two stacks are fields of the state record.            *)
(***************************************************************************)
PQ == INSTANCE PriorityQueueWithRestrictedPush
        WITH Elements <- Nodes, MaxPriority <- 2 * NumNodes - 1,
             MaxSize <- NumNodes, NoElement <- kNilArc, popped <- kNilArc

IsEmptyActiveNodeContainer(s) == PQ!IsEmpty(s)

\* Mutant: the stacks swapped, an even height pushed on the odd stack.
PushActiveNodeWrongParity(s, node) ==
  IF s.pot[node] % 2 = 0 THEN [s EXCEPT !.odd = Append(@, <<node, s.pot[node]>>)]
  ELSE [s EXCEPT !.even = Append(@, <<node, s.pot[node]>>)]

PushActiveNode(s, node) == PQ!Push(s, node, s.pot[node])

GetAndRemoveFirstActiveNode(s) ==
  LET r == PQ!Pop(s) IN [node |-> r.element, st |-> r.queue]

-----------------------------------------------------------------------------
(***************************************************************************)
(* The steps of Solve().                                                   *)
(***************************************************************************)
\* InitializePreflow(): no excess, every arc at its capacity and without
\* flow, all heights 0 but the source's, no first admissible arc.
InitializePreflow(s) ==
  [s EXCEPT !.excess = [v \in Nodes |-> 0],
            !.res = [a \in ArcIds |->
                       IF IsArcDirect(a) THEN Capacity(s, a) ELSE 0],
            !.pot = [v \in Nodes |-> IF v = Source THEN NumNodes ELSE 0],
            !.first = [v \in Nodes |-> kNilArc]]

\* Mutant: the source saturates its arcs without the kMaxFlowQuantity cap.
RECURSIVE SaturateArcsUncapped(_, _, _)
SaturateArcsUncapped(s, arcs, flow_pushed) ==
  IF arcs = <<>> THEN [pushed |-> flow_pushed, st |-> s]
  ELSE
    LET arc == arcs[1]
        flow == s.res[arc]
    IN IF flow = 0 \/ s.pot[GraphHead(arc)] >= NumNodes
       THEN SaturateArcsUncapped(s, Tail(arcs), flow_pushed)
       ELSE SaturateArcsUncapped(PushFlow(s, flow, Source, arc), Tail(arcs), TRUE)

\* Mutant: the source also pushes to heads of height n or more, which
\* cannot reach the sink.
RECURSIVE SaturateArcsAnyHead(_, _, _)
SaturateArcsAnyHead(s, arcs, flow_pushed) ==
  IF arcs = <<>> THEN [pushed |-> flow_pushed, st |-> s]
  ELSE
    LET arc == arcs[1]
        flow == s.res[arc]
        capped_flow == kMaxFlowQuantity - (-s.excess[Source])
    IN IF flow = 0
       THEN SaturateArcsAnyHead(s, Tail(arcs), flow_pushed)
       ELSE IF capped_flow < flow
       THEN [pushed |-> TRUE,
             st |-> IF capped_flow = 0 THEN s
                    ELSE PushFlow(s, capped_flow, Source, arc)]
       ELSE SaturateArcsAnyHead(PushFlow(s, flow, Source, arc), Tail(arcs), TRUE)

\* The loop of SaturateOutgoingArcsFromSource() over the source's arcs.
RECURSIVE SaturateArcs(_, _, _)
SaturateArcs(s, arcs, flow_pushed) ==
  IF arcs = <<>> THEN [pushed |-> flow_pushed, st |-> s]
  ELSE
    LET arc == arcs[1]
        flow == s.res[arc]
        capped_flow == kMaxFlowQuantity - (-s.excess[Source])
    IN IF flow = 0 \/ s.pot[GraphHead(arc)] >= NumNodes
       THEN SaturateArcs(s, Tail(arcs), flow_pushed)
       ELSE IF capped_flow < flow
       THEN [pushed |-> TRUE,
             st |-> IF capped_flow = 0 THEN s
                    ELSE PushFlow(s, capped_flow, Source, arc)]
       ELSE SaturateArcs(PushFlow(s, flow, Source, arc), Tail(arcs), TRUE)

SaturateOutgoingArcsFromSource(s) ==
  IF s.excess[Sink] = kMaxFlowQuantity \/ s.excess[Source] = -kMaxFlowQuantity
  THEN [pushed |-> FALSE, st |-> s]
  ELSE SaturateArcs(s, OutgoingArcs[Source], FALSE)

\* The arc loop of GlobalUpdate() for the node at distance d - 1; g holds
\* the solver state st, node_in_bfs_queue_ and bfs_queue_.
RECURSIVE GlobalUpdateArcs(_, _, _)
GlobalUpdateArcs(g, d, arcs) ==
  IF arcs = <<>> THEN g
  ELSE
    LET arc == arcs[1]
        head == GraphHead(arc)
        opposite_arc == Opposite(arc)
        s == g.st
        stolen == IF s.excess[head] > 0
                  THEN FastPushFlow(s, Min({s.excess[head], s.res[opposite_arc]}),
                                head, opposite_arc)
                  ELSE s
    IN IF head \in g.in_queue \/ s.res[opposite_arc] = 0
       THEN GlobalUpdateArcs(g, d, Tail(arcs))
       ELSE IF s.excess[head] > 0 /\ stolen.res[opposite_arc] = 0
       THEN GlobalUpdateArcs([g EXCEPT !.st = stolen], d, Tail(arcs))
       ELSE GlobalUpdateArcs([st |-> [stolen EXCEPT !.pot[head] = d],
                              in_queue |-> g.in_queue \cup {head},
                              queue |-> Append(g.queue, head)],
                             d, Tail(arcs))

\* Mutant: the BFS gives the nodes at distance d the height d + 1.
RECURSIVE GlobalUpdateBfsOffByOne(_, _)
GlobalUpdateBfsOffByOne(g, i) ==
  IF i > Len(g.queue) THEN g
  ELSE LET node == g.queue[i]
       IN GlobalUpdateBfsOffByOne(GlobalUpdateArcs(g, g.st.pot[node] + 2,
                                                   OutgoingOrOppositeIncomingArcs[node]),
                                  i + 1)

\* The BFS loop of GlobalUpdate(), from position i of bfs_queue_.
RECURSIVE GlobalUpdateBfs(_, _)
GlobalUpdateBfs(g, i) ==
  IF i > Len(g.queue) THEN g
  ELSE LET node == g.queue[i]
       IN GlobalUpdateBfs(GlobalUpdateArcs(g, g.st.pot[node] + 1,
                                           OutgoingOrOppositeIncomingArcs[node]),
                          i + 1)

\* The final loop of GlobalUpdate(): the active nodes, in BFS order.
RECURSIVE PushActiveNodes(_, _)
PushActiveNodes(s, nodes) ==
  IF nodes = <<>> THEN s
  ELSE PushActiveNodes(IF s.excess[nodes[1]] > 0 THEN PushActiveNode(s, nodes[1])
                       ELSE s,
                       Tail(nodes))

GlobalUpdate(s) ==
  LET g == GlobalUpdateBfs([st |-> s, in_queue |-> {Sink, Source},
                            queue |-> <<Sink>>], 1)
      relabelled == [g.st EXCEPT !.pot = [v \in Nodes |->
                       IF v \in g.in_queue THEN @[v] ELSE 2 * NumNodes - 1]]
  IN PushActiveNodes(relabelled, Tail(g.queue))

\* The arc loop of Relabel(): the lowest head over the residual arcs, and
\* the first arc reaching it, stopping at a head one below the node.
RECURSIVE RelabelArcs(_, _, _, _, _)
RelabelArcs(s, node, arcs, min_height, first_admissible) ==
  IF arcs = <<>> THEN [min_height |-> min_height, arc |-> first_admissible]
  ELSE
    LET arc == arcs[1]
        head_height == s.pot[GraphHead(arc)]
    IN IF s.res[arc] > 0 /\ head_height < min_height
       THEN IF head_height + 1 = s.pot[node]
            THEN [min_height |-> head_height, arc |-> arc]
            ELSE RelabelArcs(s, node, Tail(arcs), head_height, arc)
       ELSE RelabelArcs(s, node, Tail(arcs), min_height, first_admissible)

\* A height above every reachable one: numeric_limits<NodeHeight>::max().
NoHeight == 4 * NumNodes

Relabel(s, node) ==
  LET r == RelabelArcs(s, node, OutgoingOrOppositeIncomingArcs[node],
                       NoHeight, kNilArc)
  IN [s EXCEPT !.pot[node] = r.min_height + 1, !.first[node] = r.arc]

\* The for loop of Discharge(): push on the admissible arcs from the first
\* admissible one until the node has no excess.
RECURSIVE DischargeArcs(_, _, _)
DischargeArcs(s, node, arcs) ==
  IF arcs = <<>> THEN [done |-> FALSE, st |-> s]
  ELSE
    LET arc == arcs[1]
        head == GraphHead(arc)
        queued == IF s.excess[head] = 0 THEN PushActiveNode(s, head) ELSE s
        pushed == FastPushFlow(queued, Min({s.excess[node], s.res[arc]}), node, arc)
    IN IF ~IsAdmissible(s, node, arc) THEN DischargeArcs(s, node, Tail(arcs))
       ELSE IF pushed.excess[node] = 0
       THEN [done |-> TRUE, st |-> [pushed EXCEPT !.first[node] = arc]]
       ELSE DischargeArcs(pushed, node, Tail(arcs))

\* Discharge(node): scan, relabel, and scan again until the node has no
\* excess or cannot reach the sink.
RECURSIVE Discharge(_, _)
Discharge(s, node) ==
  LET r == DischargeArcs(s, node, ArcsFrom(node, s.first[node]))
      relabelled == Relabel(r.st, node)
  IN IF r.done THEN r.st
     ELSE IF relabelled.pot[node] >= NumNodes THEN relabelled
     ELSE Discharge(relabelled, node)

(***************************************************************************)
(* PushFlowExcessBackToSource().  The DFS over the arcs with positive flow *)
(* keeps d = [st, arc_stack, index_branch, visited, stored,                *)
(* reverse_topological_order]; index_branch holds 1-based positions in     *)
(* arc_stack, where the code holds 0-based indices.                        *)
(***************************************************************************)
\* Mutant: the cancelled flow is the minimum over the branch only, not
\* over the closing arc as well.
CycleOfNoClosingArc(d, arc, head) ==
  LET branch == d.index_branch
      L == Len(branch)
      begin == Max({0} \cup {k \in 1..L : GraphHead(d.arc_stack[branch[k]]) = head}) + 1
      on_cycle == begin..L
      flow_at(k) == Flow(d.st, d.arc_stack[branch[k]])
      max_flow == Min({flow_at(k) : k \in on_cycle})
      saturated == {k \in on_cycle : flow_at(k) = max_flow}
  IN [begin |-> begin, max_flow |-> max_flow,
      first_saturated |-> IF saturated = {} THEN L + 1 ELSE Min(saturated)]

\* The cycle found when arc, out of node, reaches head on the current
\* branch: the first branch position on the cycle (cycle_begin + 1), the
\* flow to cancel (max_flow) and the first branch position whose arc it
\* saturates (first_saturated_index + 1, or Len + 1 for none).
CycleOf(d, arc, head) ==
  LET branch == d.index_branch
      L == Len(branch)
      begin == Max({0} \cup {k \in 1..L : GraphHead(d.arc_stack[branch[k]]) = head}) + 1
      on_cycle == begin..L
      flow_at(k) == Flow(d.st, d.arc_stack[branch[k]])
      max_flow == Min({Flow(d.st, arc)} \cup {flow_at(k) : k \in on_cycle})
      saturated == {k \in on_cycle : flow_at(k) = max_flow}
  IN [begin |-> begin, max_flow |-> max_flow,
      first_saturated |-> IF saturated = {} THEN L + 1 ELSE Min(saturated)]

\* Cancel the flow of the cycle, unvisit the heads of the saturated part,
\* and backtrack the DFS before its first saturated arc.
CancelCycle(d, node, arc, c) ==
  LET branch == d.index_branch
      L == Len(branch)
      \* PushFlow(-max_flow, ...) on the closing arc, then down the branch
      cancelled == FoldLeft(LAMBDA st, a : PushFlow(st, -c.max_flow, GraphTail(a), a),
                            d.st,
                            <<arc>> \o [k \in 1..L - c.begin + 1 |->
                                          d.arc_stack[branch[L + 1 - k]]])
      unvisited == {GraphHead(d.arc_stack[branch[k]]) : k \in c.first_saturated..L}
  IN IF c.first_saturated <= L
     THEN [d EXCEPT !.st = cancelled,
                    !.visited = @ \ unvisited,
                    !.arc_stack = SubSeq(@, 1, branch[c.first_saturated] - 1),
                    !.index_branch = SubSeq(@, 1, c.first_saturated - 1)]
     ELSE [d EXCEPT !.st = cancelled, !.visited = @ \ unvisited]

\* The loop over the outgoing arcs of a newly visited node; it stops early
\* when a cancelled cycle backtracked over the node.
RECURSIVE ExploreArcs(_, _, _)
ExploreArcs(d, node, arcs) ==
  IF arcs = <<>> THEN d
  ELSE
    LET arc == arcs[1]
        head == GraphHead(arc)
        c == CycleOf(d, arc, head)
    IN IF Flow(d.st, arc) <= 0 \/ head \in d.stored
       THEN ExploreArcs(d, node, Tail(arcs))
       ELSE IF head \notin d.visited
       THEN ExploreArcs([d EXCEPT !.arc_stack = Append(@, arc)], node, Tail(arcs))
       ELSE IF c.first_saturated <= Len(d.index_branch)
       THEN CancelCycle(d, node, arc, c)
       ELSE ExploreArcs(CancelCycle(d, node, arc, c), node, Tail(arcs))

\* The DFS loop: settle a node met again on backtracking, or visit it.
RECURSIVE Dfs(_)
Dfs(d) ==
  IF d.arc_stack = <<>> THEN d
  ELSE
    LET node == GraphHead(Last(d.arc_stack))
    IN IF node \in d.visited
       THEN Dfs(IF node \notin d.stored
                THEN [d EXCEPT !.stored = @ \cup {node},
                               !.reverse_topological_order = Append(@, node),
                               !.index_branch = Front(@),
                               !.arc_stack = Front(@)]
                ELSE [d EXCEPT !.arc_stack = Front(@)])
       ELSE Dfs(ExploreArcs([d EXCEPT !.visited = @ \cup {node},
                                      !.index_branch = Append(@, Len(d.arc_stack))],
                            node, OutgoingArcs[node]))

\* The loop over the incoming arcs of a node, returning its excess.
RECURSIVE ReturnExcess(_, _, _)
ReturnExcess(s, node, arcs) ==
  IF arcs = <<>> \/ s.excess[node] = 0 THEN s
  ELSE
    LET opposite_arc == Opposite(arcs[1])
    IN ReturnExcess(IF s.res[opposite_arc] > 0
                    THEN PushFlow(s, Min({s.excess[node], s.res[opposite_arc]}),
                                  node, opposite_arc)
                    ELSE s,
                    node, Tail(arcs))

PushFlowExcessBackToSource(s) ==
  LET d == Dfs([st |-> s,
                arc_stack |-> SelectSeq(OutgoingArcs[Source],
                                        LAMBDA a : Flow(s, a) > 0),
                index_branch |-> <<>>,
                visited |-> {Sink, Source},
                stored |-> {Sink},
                reverse_topological_order |-> <<>>])
  IN FoldLeft(LAMBDA st, node : ReturnExcess(st, node, IncomingArcs[node]),
              d.st, d.reverse_topological_order)

\* The nodes reachable from start along arcs with residual capacity, the
\* search of AugmentingPathExists() and of GetSourceSideMinCut().
RECURSIVE Reachable(_, _)
Reachable(s, reached) ==
  LET next == reached \cup {GraphHead(a) : a \in {a \in ArcIds :
                              GraphTail(a) \in reached /\ s.res[a] > 0}}
  IN IF next = reached THEN reached ELSE Reachable(s, next)

AugmentingPathExists(s) == Sink \in Reachable(s, {Source})

\* Mutant: the sink side searched along the arcs' own residual capacity.
RECURSIVE ComputeReachableNodesForward(_, _, _)
ComputeReachableNodesForward(s, reverse, reached) ==
  LET next == reached \cup {GraphHead(a) : a \in {a \in ArcIds :
                              GraphTail(a) \in reached /\ s.res[a] # 0}}
  IN IF next = reached THEN reached ELSE ComputeReachableNodesForward(s, reverse, next)

\* ComputeReachableNodes<reverse>(start): the BFS from start over the arcs
\* whose residual capacity, or that of their opposite when reverse, is not
\* 0.  The result is a vector in BFS order; its set is what the cuts use.
RECURSIVE ComputeReachableNodes(_, _, _)
ComputeReachableNodes(s, reverse, reached) ==
  LET next == reached \cup {GraphHead(a) : a \in {a \in ArcIds :
                              /\ GraphTail(a) \in reached
                              /\ s.res[IF reverse THEN Opposite(a) ELSE a] # 0}}
  IN IF next = reached THEN reached ELSE ComputeReachableNodes(s, reverse, next)

GetSourceSideMinCut(s) == ComputeReachableNodes(s, FALSE, {Source})
GetSinkSideMinCut(s) == ComputeReachableNodes(s, TRUE, {Sink})

\* CheckResult(): the DCHECK of Solve(): a flow (no excess but at the source
\* and the sink, which balance), non-negative residual capacities, and no
\* augmenting path below the ceiling.
CheckResult(s) ==
  /\ s.excess[Source] = -s.excess[Sink]
  /\ \A v \in Nodes \ {Source, Sink} : s.excess[v] = 0
  /\ \A a \in DirectArcs : s.res[a] >= 0 /\ s.res[Opposite(a)] >= 0
  /\ s.excess[Sink] < kMaxFlowQuantity => ~AugmentingPathExists(s)

-----------------------------------------------------------------------------
(***************************************************************************)
(* The actions.                                                            *)
(***************************************************************************)
NoSkip == [v \in Nodes |-> 0]

\* The constructor: no capacity, no flow; status_ is not initialised by it
\* and holds whatever value the memory had.
Init ==
  /\ residual_arc_capacity = [a \in ArcIds |-> 0]
  /\ node_excess = [v \in Nodes |-> 0]
  /\ node_potential = [v \in Nodes |-> 0]
  /\ first_admissible_arc = [v \in Nodes |-> kNilArc]
  /\ even_queue = <<>> /\ odd_queue = <<>>
  /\ skip_active_node = NoSkip
  /\ num_skipped = 0
  /\ status \in Statuses
  /\ pc = "idle"
  /\ user_capacity = [a \in DirectArcs |-> 0]
  /\ solve_steps = 0

\* SetCapacityAndClearFlow(arc, capacity): the capacity on the arc, no flow.
SetCapacityAndClearFlow(res, arc, capacity) ==
  [res EXCEPT ![arc] = capacity, ![Opposite(arc)] = 0]

\* SetArcCapacity(arc, new_capacity), between solves.
SetArcCapacity(arc, new_capacity) ==
  LET free_capacity == residual_arc_capacity[arc]
      capacity_delta == new_capacity - Capacity(State, arc)
  IN /\ pc = "idle"
     /\ capacity_delta # 0
     /\ status' = "NOT_SOLVED"
     /\ residual_arc_capacity' =
          IF free_capacity + capacity_delta >= 0
          THEN [residual_arc_capacity EXCEPT ![arc] = free_capacity + capacity_delta]
          ELSE SetCapacityAndClearFlow(residual_arc_capacity, arc, new_capacity)
     /\ user_capacity' = [user_capacity EXCEPT ![arc] = new_capacity]
     /\ UNCHANGED <<node_excess, node_potential, first_admissible_arc,
                    even_queue, odd_queue, skip_active_node, num_skipped, pc,
                    solve_steps>>

\* Solve() up to RefineWithGlobalUpdate(): status_ = NOT_SOLVED and
\* InitializePreflow(); source and sink are nodes of the graph.
Solve ==
  /\ pc = "idle"
  /\ \E s \in {InitializePreflow(State)} : Assign(s)
  /\ status' = "NOT_SOLVED"
  /\ pc' = "saturate"
  /\ solve_steps' = 0
  /\ UNCHANGED <<skip_active_node, num_skipped, user_capacity>>

\* The body of the do loop of RefineWithGlobalUpdate() up to its while:
\* reset the skip counters, then GlobalUpdate().
StartRound(s) ==
  /\ num_skipped' = 0
  /\ skip_active_node' = [v \in Nodes |-> IF v \in {Sink, Source} THEN 2 ELSE 0]
  /\ \E g \in {GlobalUpdate(s)} : Assign(g)
  /\ pc' = "discharge"

\* SaturateOutgoingArcsFromSource() returns true: a new round starts.
SaturateOutgoingArcs ==
  /\ pc = "saturate"
  /\ \E r \in {SaturateOutgoingArcsFromSource(State)} :
       /\ r.pushed
       /\ StartRound(r.st)
  /\ UNCHANGED <<status, user_capacity>>

\* Mutant: INT_OVERFLOW whenever kMaxFlowQuantity units reach the sink,
\* without the search for an augmenting path.
FinishSolveNoPathCheck ==
  /\ pc = "saturate"
  /\ \E r \in {SaturateOutgoingArcsFromSource(State)} :
       /\ ~r.pushed
       /\ Assign(r.st)
       /\ status' = IF r.st.excess[Sink] = kMaxFlowQuantity
                    THEN "INT_OVERFLOW" ELSE "OPTIMAL"
  /\ pc' = "idle"
  /\ skip_active_node' = NoSkip
  /\ num_skipped' = 0
  /\ solve_steps' = 0
  /\ UNCHANGED user_capacity

\* SaturateOutgoingArcsFromSource() returns false: the rest of Solve().
FinishSolve ==
  /\ pc = "saturate"
  /\ \E r \in {SaturateOutgoingArcsFromSource(State)} :
       /\ ~r.pushed
       /\ Assign(r.st)
       /\ status' = IF r.st.excess[Sink] = kMaxFlowQuantity /\ AugmentingPathExists(r.st)
                    THEN "INT_OVERFLOW" ELSE "OPTIMAL"
  /\ pc' = "idle"
  /\ skip_active_node' = NoSkip
  /\ num_skipped' = 0
  /\ solve_steps' = 0
  /\ UNCHANGED user_capacity

\* Mutant: a skipped node is not counted in num_skipped.
SkipActiveNodeUncounted ==
  /\ pc = "discharge"
  /\ ~IsEmptyActiveNodeContainer(State)
  /\ \E p \in {GetAndRemoveFirstActiveNode(State)} :
       /\ skip_active_node[p.node] > 1
       /\ Assign(p.st)
  /\ UNCHANGED <<skip_active_node, num_skipped, status, pc, user_capacity>>

\* An iteration of the while loop over the active nodes that pops a node
\* skipped twice already.
SkipActiveNode ==
  /\ pc = "discharge"
  /\ ~IsEmptyActiveNodeContainer(State)
  /\ \E p \in {GetAndRemoveFirstActiveNode(State)} :
       /\ skip_active_node[p.node] > 1
       /\ Assign(p.st)
       /\ num_skipped' = IF p.node \notin {Sink, Source} THEN num_skipped + 1
                         ELSE num_skipped
  /\ UNCHANGED <<skip_active_node, status, pc, user_capacity>>

\* An iteration that discharges the popped node, counting a rise of its
\* height by more than one.
DischargeActiveNode ==
  /\ pc = "discharge"
  /\ ~IsEmptyActiveNodeContainer(State)
  /\ \E p \in {GetAndRemoveFirstActiveNode(State)} :
       /\ skip_active_node[p.node] <= 1
       /\ \E d \in {Discharge(p.st, p.node)} :
            /\ Assign(d)
            /\ skip_active_node' =
                 IF d.pot[p.node] > p.st.pot[p.node] + 1
                 THEN [skip_active_node EXCEPT ![p.node] = @ + 1]
                 ELSE skip_active_node
  /\ UNCHANGED <<num_skipped, status, pc, user_capacity>>

\* The queue is empty and nodes were skipped: the do loop runs again.
RepeatRound ==
  /\ pc = "discharge"
  /\ IsEmptyActiveNodeContainer(State)
  /\ num_skipped > 0
  /\ StartRound(State)
  /\ UNCHANGED <<status, user_capacity>>

\* The queue is empty and nothing was skipped: PushFlowExcessBackToSource(),
\* and back to the test of the outer while loop.
PushExcessBack ==
  /\ pc = "discharge"
  /\ IsEmptyActiveNodeContainer(State)
  /\ num_skipped = 0
  /\ \E d \in {PushFlowExcessBackToSource(State)} : Assign(d)
  /\ pc' = "saturate"
  /\ UNCHANGED <<skip_active_node, num_skipped, status, user_capacity>>

\* Every step of Solve() but its last counts one iteration; the count stops
\* one above MaxSolveSteps, so that a Solve() that never returns cycles
\* through finitely many states.
Counted(A) == A /\ solve_steps' = Min({solve_steps + 1, MaxSolveSteps + 1})

SolveStep == Counted(SaturateOutgoingArcs) \/ FinishSolve \/ Counted(SkipActiveNode)
               \/ Counted(DischargeActiveNode) \/ Counted(RepeatRound)
               \/ Counted(PushExcessBack)

Next ==
  \/ \E arc \in DirectArcs, c \in 0..MaxCapacity : SetArcCapacity(arc, c)
  \/ Solve
  \/ SolveStep

Spec == Init /\ [][Next]_vars

-----------------------------------------------------------------------------
(***************************************************************************)
(* Reference definitions and properties.                                   *)
(***************************************************************************)
\* The maximum flow of the capacities cap: the capacity of a minimum cut.
CutCapacity(cap, S) ==
  MapThenSumSet(LAMBDA a : cap[a],
                {a \in DirectArcs : Arcs[a + 1].tail \in S /\ Arcs[a + 1].head \notin S})
MaxFlowValue(cap) ==
  Min({CutCapacity(cap, S) : S \in {S \in SUBSET Nodes : Source \in S /\ Sink \notin S}})

NetInflow(v) ==
  MapThenSumSet(LAMBDA a : Flow(State, a), {a \in DirectArcs : Arcs[a + 1].head = v})
  - MapThenSumSet(LAMBDA a : Flow(State, a), {a \in DirectArcs : Arcs[a + 1].tail = v})

QueueEntries == {even_queue[k] : k \in DOMAIN even_queue}
                  \cup {odd_queue[k] : k \in DOMAIN odd_queue}

TypeOK ==
  /\ residual_arc_capacity \in [ArcIds -> Int]
  /\ node_excess \in [Nodes -> -kMaxFlowQuantity..kMaxFlowQuantity]
  /\ node_potential \in [Nodes -> 0..2 * NumNodes]
  /\ first_admissible_arc \in [Nodes -> ArcIds \cup {kNilArc}]
  /\ QueueEntries \subseteq Nodes \X (0..2 * NumNodes - 1)
  /\ skip_active_node \in [Nodes -> Nat]
  /\ num_skipped \in Nat
  /\ status \in Statuses
  /\ pc \in {"idle", "saturate", "discharge"}
  /\ user_capacity \in [DirectArcs -> 0..MaxCapacity]
  /\ solve_steps \in Nat

\* While Solve() runs, and after it returned until SetArcCapacity is called,
\* the residual capacities form a preflow of the capacities last set: every
\* residual capacity is non-negative, direct and opposite residuals add up
\* to the capacity, node_excess_ is the net inflow of each node, and it is
\* non-negative everywhere but at the source, whose outflow is at most
\* kMaxFlowQuantity (PushFlow, SaturateOutgoingArcsFromSource, the cycle
\* cancelling of PushFlowExcessBackToSource).
PreflowInvariant ==
  pc # "idle" \/ status # "NOT_SOLVED" =>
    /\ \A a \in ArcIds : residual_arc_capacity[a] >= 0
    /\ \A a \in DirectArcs : Capacity(State, a) = user_capacity[a]
    /\ \A v \in Nodes \ {Source} : node_excess[v] = NetInflow(v) /\ node_excess[v] >= 0
    /\ -kMaxFlowQuantity <= node_excess[Source]

\* While nodes are discharged, the heights are a valid labelling below n:
\* an arc with residual capacity never leaves a node of height h < n for a
\* node below h - 1 (GlobalUpdate, Discharge and the relaxed Relabel).
ValidLabelling ==
  pc = "discharge" =>
    \A a \in ArcIds :
      residual_arc_capacity[a] > 0 /\ node_potential[GraphTail(a)] < NumNodes
        => node_potential[GraphTail(a)] <= node_potential[GraphHead(a)] + 1

\* While nodes are discharged, each stack of the restricted-push queue is
\* sorted by increasing priority, holds only its parity, and the priority of
\* a queued node is its current height; so Pop() returns a highest node
\* (PushActiveNode in GlobalUpdate and Discharge, Pop).
QueueIsOrdered ==
  pc = "discharge" =>
    /\ \A q \in {even_queue, odd_queue} :
         \A i, j \in DOMAIN q : i < j => q[i][2] <= q[j][2]
    /\ \A k \in DOMAIN even_queue : even_queue[k][2] % 2 = 0
    /\ \A k \in DOMAIN odd_queue : odd_queue[k][2] % 2 = 1
    /\ \A e \in QueueEntries : e[2] = node_potential[e[1]]

\* No active node is forgotten: while nodes are discharged, every node but
\* the source and the sink with excess and a height below n is queued, or a
\* node was skipped and the round will be repeated (the PushActiveNode of
\* Discharge and GlobalUpdate, the skip heuristic).
ActiveNodesAreQueued ==
  pc = "discharge" =>
    \A v \in Nodes \ {Source, Sink} :
      node_excess[v] > 0 /\ node_potential[v] < NumNodes
        => v \in {e[1] : e \in QueueEntries} \/ num_skipped > 0

\* When Solve() returns, the arc flows are a flow (CheckResult) whose value
\* is the maximum flow of the capacities set, and the status is OPTIMAL; or,
\* when the maximum flow exceeds kMaxFlowQuantity, the status is
\* INT_OVERFLOW and kMaxFlowQuantity units flow.
ResultIsMaximumFlow ==
  /\ CheckResult(State)
  /\ IF MaxFlowValue(user_capacity) > kMaxFlowQuantity
     THEN status = "INT_OVERFLOW" /\ node_excess[Sink] = kMaxFlowQuantity
     ELSE status = "OPTIMAL" /\ node_excess[Sink] = MaxFlowValue(user_capacity)

SolveReturnsMaximumFlow == [][FinishSolve => ResultIsMaximumFlow']_vars

\* After Solve() returned OPTIMAL, and until the capacities change, the
\* source side (GetSourceSideMinCut) and the complement of the sink side
\* (GetSinkSideMinCut) are minimum cuts: each separates source and sink and
\* its capacity is the flow found (ComputeReachableNodes<reverse>).
MinCutsAreMinimum ==
  pc = "idle" /\ status = "OPTIMAL" =>
    LET S == GetSourceSideMinCut(State)
        T == GetSinkSideMinCut(State)
    IN /\ Sink \notin S /\ Source \notin T
       /\ CutCapacity(user_capacity, S) = node_excess[Sink]
       /\ CutCapacity(user_capacity, Nodes \ T) = node_excess[Sink]

\* status() is NOT_SOLVED from construction until a Solve() returns, and
\* between solves it reports the result of the last one: whenever the
\* solver is idle with another status, the arc flows are the flow that
\* status describes (the constructor, status(), Solve(), SetArcCapacity).
StatusReportsLastSolve ==
  pc = "idle" /\ status # "NOT_SOLVED" => ResultIsMaximumFlow

\* PushFlowExcessBackToSource() turns a preflow into a flow of the same
\* value: afterwards no node but the source and the sink has excess, the
\* sink has what it had, and no arc carries more flow than before, so flow
\* cycles are cancelled rather than grown (the Tarjan DFS with its cycle
\* cancelling and the return along the reverse topological order).
PushBackReturnsExcess ==
  [][PushExcessBack =>
       /\ \A v \in Nodes \ {Source, Sink} : node_excess'[v] = 0
       /\ node_excess'[Sink] = node_excess[Sink]
       /\ \A a \in DirectArcs : 0 <= Flow(State', a) /\ Flow(State', a) <= Flow(State, a)
       /\ \A a \in ArcIds : residual_arc_capacity'[a] >= 0]_vars

\* Every call of Solve() returns, after at most MaxSolveSteps iterations of
\* the loops of RefineWithGlobalUpdate (the anti-overflow outer loop, the
\* rounds the skip heuristic repeats, the discharges).  Solve() is
\* deterministic, so this bound is its termination.
SolveTerminates == solve_steps <= MaxSolveSteps

\* Solve() is at the test of the outer while loop of RefineWithGlobalUpdate
\* after a PushFlowExcessBackToSource (the first test of a solve comes with
\* solve_steps = 0): the next GlobalUpdate may lower heights.
AfterPushBack == pc = "saturate" /\ solve_steps # 0

=============================================================================
