------------------------ MODULE RectangleIntersections ------------------------
(***************************************************************************)
(* FindPartialRectangleIntersections of part_000: a sweep over the x edges *)
(* of the rectangles that keeps, in a std::set ordered by start, disjoint  *)
(* y intervals each owned by one active rectangle; a new rectangle is      *)
(* split against the intervals it meets, records an arc with each, and the *)
(* arcs are cut down to a spanning forest by Kruskal's algorithm.          *)
(*                                                                         *)
(* The sweep is one action per edge: the end edges at an x before the      *)
(* begin edges, as the sort and the two inner for loops order them.  The   *)
(* set's iterator is the start of the element it points to (starts are     *)
(* the keys of the set and never change), or End.                          *)
(* BuildKruskalMinimumSpanningTreeFromSortedArcs is in                     *)
(* minimum_spanning_tree.h, outside the repository: it scans the arcs in   *)
(* order and keeps those joining two trees.                                *)
(***************************************************************************)
EXTENDS RegionDifference

CONSTANT MaxRects   \* the largest rectangles.size() of a call

kEnd == 0
kBegin == 1

\* Past every start: the set's end().
End == MaxCoord + 1

-----------------------------------------------------------------------------
(* The std::set<Interval> operations used.                                 *)

ElemAt(set, key) == CHOOSE e \in set : e.start = key

KeyAfter(set, key) ==
  LET later == {e.start : e \in {e \in set : e.start > key}}
  IN IF later = {} THEN End ELSE Min(later)

LowerBound(set, start) ==
  LET ge == {e.start : e \in {e \in set : e.start >= start}}
  IN IF ge = {} THEN End ELSE Min(ge)

\* if (it != interval_set.begin()) --it;
StepBack(set, key) ==
  LET before == {e.start : e \in {e \in set : e.start < key}}
  IN IF before = {} THEN key ELSE Max(before)

\* std::set::insert does nothing when an element of that start exists.
Insert(set, e) == IF \E o \in set : o.start = e.start THEN set ELSE set \cup {e}

Rewrite(set, current, end, index) ==
  (set \ {current}) \cup {[current EXCEPT !.end = end, !.index = index]}

-----------------------------------------------------------------------------
(* The end edge: erase the intervals of the rectangle from lower_bound on. *)

\* Mutant: every interval met is erased, whatever its owner.
RECURSIVE EraseFromAnyOwner(_, _, _, _)
EraseFromAnyOwner(set, it, r, index_to_remove) ==
  IF it = End THEN set
  ELSE LET current == ElemAt(set, it)
       IN IF current.start >= r.y_max THEN set
          ELSE EraseFromAnyOwner(set \ {current}, KeyAfter(set, it), r, index_to_remove)

RECURSIVE EraseFrom(_, _, _, _)
EraseFrom(set, it, r, index_to_remove) ==
  IF it = End THEN set
  ELSE LET current == ElemAt(set, it)
       IN IF current.start >= r.y_max THEN set
          ELSE EraseFrom(IF current.index = index_to_remove THEN set \ {current} ELSE set,
                         KeyAfter(set, it), r, index_to_remove)

-----------------------------------------------------------------------------
(* The begin edge: the while loop splitting to_insert against the set.     *)
(* st is [set, to_insert, it, arcs, checks_hold].                          *)

\* Mutant: the middle part goes to the rectangle that ends first.
MiddleIndexFirstEnd(rects, to_insert, current) ==
  IF rects[to_insert.index + 1].x_max < rects[current.index + 1].x_max
  THEN to_insert.index ELSE current.index

MiddleIndex(rects, to_insert, current) ==
  IF rects[to_insert.index + 1].x_max < rects[current.index + 1].x_max
  THEN current.index ELSE to_insert.index

RECURSIVE SplitLoop(_, _, _)
SplitLoop(st, rects, cur_index) ==
  IF st.it = End THEN st
  ELSE
  LET current == ElemAt(st.set, st.it)
      it == KeyAfter(st.set, st.it)
      ti == st.to_insert
  IN
  IF ti.start = ti.end THEN st
  ELSE IF current.end <= ti.start THEN SplitLoop([st EXCEPT !.it = it], rects, cur_index)
  ELSE IF current.start >= ti.end THEN st
  ELSE
    LET arcs == IF ti.index = cur_index
                THEN st.arcs \cup {<<Min({ti.index, current.index}),
                                     Max({ti.index, current.index})>>}
                ELSE st.arcs
        first_index == IF current.start < ti.start THEN current.index ELSE ti.index
        middle_index == MiddleIndex(rects, ti, current)
        last_index == IF current.end > ti.end THEN current.index ELSE ti.index
        points == SortSeq(<<current.start, current.end, ti.start, ti.end>>, <)
        checks == st.checks_hold /\ points[2] < points[3]
        last_part == [start |-> points[3], end |-> points[4], index |-> last_index]
    IN
    IF points[1] = points[2] THEN
      SplitLoop([set |-> Rewrite(st.set, current, points[3], middle_index),
                 to_insert |-> last_part, it |-> it, arcs |-> arcs,
                 checks_hold |-> checks], rects, cur_index)
    ELSE IF points[1] = current.start THEN
      IF middle_index = last_index THEN
        SplitLoop([set |-> Rewrite(st.set, current, points[2], first_index),
                   to_insert |-> [start |-> points[2], end |-> points[4], index |-> last_index],
                   it |-> it, arcs |-> arcs, checks_hold |-> checks], rects, cur_index)
      ELSE
        SplitLoop([set |-> Insert(Rewrite(st.set, current, points[2], first_index),
                                  [start |-> points[2], end |-> points[3], index |-> middle_index]),
                   to_insert |-> last_part, it |-> it, arcs |-> arcs,
                   checks_hold |-> checks], rects, cur_index)
    ELSE
      SplitLoop([set |-> Insert(Rewrite(st.set, current, points[3], middle_index),
                                [start |-> points[1], end |-> points[2], index |-> first_index]),
                 to_insert |-> last_part, it |-> it, arcs |-> arcs,
                 checks_hold |-> checks /\ points[2] = current.start], rects, cur_index)

-----------------------------------------------------------------------------
\* BuildKruskalMinimumSpanningTreeFromSortedArcs over the arcs in order;
\* comp maps each node to the smallest node of its tree.
KruskalForest(arcs) ==
  LET step(acc, arc) ==
        IF acc.comp[arc[1]] = acc.comp[arc[2]] THEN acc
        ELSE LET ca == acc.comp[arc[1]]
                 cb == acc.comp[arc[2]]
                 lo == Min({ca, cb})
             IN [comp |-> [n \in DOMAIN acc.comp |->
                             IF acc.comp[n] \in {ca, cb} THEN lo ELSE acc.comp[n]],
                 tree |-> Append(acc.tree, arc)]
      nodes == UNION {{a[1], a[2]} : a \in Range(arcs)}
  IN FoldLeft(step, [comp |-> [n \in nodes |-> n], tree |-> <<>>], arcs).tree

\* The edges, sorted by (x_coordinate, type, index).
SortedEdges(rects) ==
  SortSeq([k \in 1..2 * Len(rects) |->
             LET i == (k - 1) \div 2
             IN IF k % 2 = 1
                THEN [x_coordinate |-> rects[i + 1].x_min, index |-> i, type |-> kBegin]
                ELSE [x_coordinate |-> rects[i + 1].x_max, index |-> i, type |-> kEnd]],
          LAMBDA a, b : \/ a.x_coordinate < b.x_coordinate
                        \/ a.x_coordinate = b.x_coordinate /\ a.type < b.type
                        \/ a.x_coordinate = b.x_coordinate /\ a.type = b.type /\ a.index < b.index)

-----------------------------------------------------------------------------
VARIABLES rectangles, edges, current_index, interval_set, arcs, checks_hold,
          result, sweep_pc

sweep_vars == <<rectangles, edges, current_index, interval_set, arcs, checks_hold,
                result, sweep_pc>>

SweepInit ==
  /\ rectangles = <<>> /\ edges = <<>> /\ current_index = 0
  /\ interval_set = {} /\ arcs = {} /\ checks_hold = TRUE
  /\ result = <<>> /\ sweep_pc = "idle"

\* The call, up to the sweep: the edges, sorted.
FindPartialRectangleIntersections(rects) ==
  /\ sweep_pc = "idle"
  /\ rectangles' = rects
  /\ edges' = SortedEdges(rects)
  /\ sweep_pc' = "sweep"
  /\ UNCHANGED <<current_index, interval_set, arcs, checks_hold, result>>

\* An end edge: the rectangle's intervals leave the set.
SweepEnd ==
  /\ sweep_pc = "sweep"
  /\ current_index < Len(edges)
  /\ edges[current_index + 1].type = kEnd
  /\ LET index_to_remove == edges[current_index + 1].index
         r == rectangles[index_to_remove + 1]
     IN interval_set' = EraseFrom(interval_set, LowerBound(interval_set, r.y_min),
                                  r, index_to_remove)
  /\ current_index' = current_index + 1
  /\ UNCHANGED <<rectangles, edges, arcs, checks_hold, result, sweep_pc>>

\* A begin edge: the rectangle's y span is split against the set, an arc
\* is recorded with every interval it meets, and what is left is inserted.
SweepBegin ==
  /\ sweep_pc = "sweep"
  /\ current_index < Len(edges)
  /\ edges[current_index + 1].type = kBegin
  /\ LET cur_index == edges[current_index + 1].index
         r == rectangles[cur_index + 1]
         to_insert == [start |-> r.y_min, end |-> r.y_max, index |-> cur_index]
         st == SplitLoop([set |-> interval_set, to_insert |-> to_insert,
                          it |-> StepBack(interval_set, LowerBound(interval_set, r.y_min)),
                          arcs |-> arcs, checks_hold |-> checks_hold],
                         rectangles, cur_index)
     IN /\ interval_set' = IF st.to_insert.start < st.to_insert.end
                           THEN Insert(st.set, st.to_insert) ELSE st.set
        /\ arcs' = st.arcs
        /\ checks_hold' = st.checks_hold
  /\ current_index' = current_index + 1
  /\ UNCHANGED <<rectangles, edges, result, sweep_pc>>

\* After the sweep: the spanning forest of the arcs, in btree_set order.
SweepReturn ==
  /\ sweep_pc = "sweep"
  /\ current_index = Len(edges)
  /\ result' = KruskalForest(SetToSortSeq(arcs, LAMBDA a, b :
                               a[1] < b[1] \/ (a[1] = b[1] /\ a[2] < b[2])))
  /\ sweep_pc' = "done"
  /\ UNCHANGED <<rectangles, edges, current_index, interval_set, arcs, checks_hold>>

\* The rectangles a caller passes: non-empty (the DCHECK_GTs).
SweepInputs == BoundedSeq(Rectangles, MaxRects)

SweepNext ==
  \/ sweep_pc = "idle" /\ \E rects \in SweepInputs : FindPartialRectangleIntersections(rects)
  \/ SweepEnd
  \/ SweepBegin
  \/ SweepReturn

-----------------------------------------------------------------------------
(* References.                                                             *)

RectIndexes == 0..Len(rectangles) - 1
Rect(i) == rectangles[i + 1]

\* Where the sweep is: the x of the last edge processed, and the
\* rectangles begun and not yet ended there.
SweepX == edges[current_index].x_coordinate
Begun == {edges[k].index : k \in {k \in 1..current_index : edges[k].type = kBegin}}
ActiveRects == {i \in Begun : Rect(i).x_max > SweepX}

\* Between edges of one x, only once every end edge of it is processed.
EndsSettled ==
  current_index = Len(edges)
  \/ edges[current_index + 1].type = kBegin
  \/ edges[current_index + 1].x_coordinate # SweepX

YCells(lo, hi) == lo..hi - 1

\* Two rectangles share a point (for rectangles of non-zero area).
Intersecting(i, j) == ~IsDisjoint(Rect(i), Rect(j))

RECURSIVE Reach(_, _)
Reach(S, E) ==
  LET T == S \cup {n \in RectIndexes : \E e \in E : (e[1] \in S /\ e[2] = n) \/ (e[2] \in S /\ e[1] = n)}
  IN IF T = S THEN S ELSE Reach(T, E)

ComponentsOf(E) == {Reach({i}, E) : i \in RectIndexes}
IntersectionEdges == {<<i, j>> \in RectIndexes \X RectIndexes : i < j /\ Intersecting(i, j)}

\* "The interval_set only contains disjoint intervals", each "a subpart of
\* the full y-span of the initial rectangle with given index"; that
\* rectangle is still under the sweep line and ends last among those
\* covering the interval ("the pieces that has the largest x_max"), and once
\* the ends at an x are processed the intervals cover exactly the y spans of
\* the rectangles under the line; the CHECKs of the split hold.
IntervalSetIsPaving ==
  sweep_pc = "sweep" /\ current_index > 0 =>
    /\ checks_hold
    /\ \A e \in interval_set :
         /\ e.start < e.end
         /\ Rect(e.index).y_min <= e.start /\ e.end <= Rect(e.index).y_max
         /\ e.index \in Begun
    /\ \A e, f \in interval_set : e # f => e.end <= f.start \/ f.end <= e.start
    /\ EndsSettled =>
         /\ UNION {YCells(e.start, e.end) : e \in interval_set}
              = UNION {YCells(Rect(i).y_min, Rect(i).y_max) : i \in ActiveRects}
         /\ \A e \in interval_set : \A i \in ActiveRects :
              YCells(e.start, e.end) \cap YCells(Rect(i).y_min, Rect(i).y_max) # {}
                => Rect(i).x_max <= Rect(e.index).x_max

\* FindPartialRectangleIntersections returns pairs (a, b), a < b, of
\* intersecting rectangles forming a spanning forest of the intersection
\* graph: as many pairs as rectangles minus components, and the same
\* components (the arcs of the sweep and the Kruskal pass).
ResultIsSpanningForest ==
  sweep_pc = "done" =>
    /\ \A k \in DOMAIN result : result[k] \in IntersectionEdges
    /\ ComponentsOf(Range(result)) = ComponentsOf(IntersectionEdges)
    /\ Len(result) = Len(rectangles) - Cardinality(ComponentsOf(IntersectionEdges))
====
