----------------------------- MODULE Neighbours -----------------------------
(***************************************************************************)
(* The Neighbours graph of ortools/sat/2d_rectangle_presolve.h: for every  *)
(* rectangle and each of its four edges, the rectangles adjacent along     *)
(* that edge, sorted by CompareClockwise.  The constructor takes the       *)
(* (box_index, edge, neighbor) tuples BuildNeighboursGraph produces; that  *)
(* function's body is not in the repository, so its input is built from   *)
(* the contract its comment states: disjoint rectangles, adjacent when     *)
(* their edges share a segment of non-zero length.                         *)
(***************************************************************************)
EXTENDS Integers, SequencesExt

CONSTANTS NumBoxes,   \* rectangles.size()
          MaxCoord    \* coordinates are 0..MaxCoord

Boxes == 0..NumBoxes - 1

\* enum EdgePosition
TOP == 0
RIGHT == 1
BOTTOM == 2
LEFT == 3
Edges == {TOP, RIGHT, BOTTOM, LEFT}

Rectangles ==
  {r \in [x_min : 0..MaxCoord, x_max : 0..MaxCoord,
          y_min : 0..MaxCoord, y_max : 0..MaxCoord] :
     r.x_min < r.x_max /\ r.y_min < r.y_max}

Disjoint(a, b) ==
  \/ a.x_max <= b.x_min \/ b.x_max <= a.x_min
  \/ a.y_max <= b.y_min \/ b.y_max <= a.y_min

\* The length two intervals share (negative when they are apart).
Overlap(lo1, hi1, lo2, hi2) ==
  (IF hi1 < hi2 THEN hi1 ELSE hi2) - (IF lo1 > lo2 THEN lo1 ELSE lo2)

\* BuildNeighboursGraph's contract: n touches edge e of b along a segment
\* of non-zero length.
Adjacent(r, b, e, n) ==
  /\ b # n
  /\ CASE e = TOP    -> r[n].y_min = r[b].y_max /\ Overlap(r[b].x_min, r[b].x_max, r[n].x_min, r[n].x_max) > 0
       [] e = BOTTOM -> r[n].y_max = r[b].y_min /\ Overlap(r[b].x_min, r[b].x_max, r[n].x_min, r[n].x_max) > 0
       [] e = RIGHT  -> r[n].x_min = r[b].x_max /\ Overlap(r[b].y_min, r[b].y_max, r[n].y_min, r[n].y_max) > 0
       [] e = LEFT   -> r[n].x_max = r[b].x_min /\ Overlap(r[b].y_min, r[b].y_max, r[n].y_min, r[n].y_max) > 0

\* The tuples in the order BuildNeighboursGraph is taken to emit them.
NeighborTuples(r) ==
  SetToSortSeq({t \in Boxes \X Edges \X Boxes : Adjacent(r, t[1], t[2], t[3])},
               LAMBDA t, u : t[1] * 16 + t[2] * 4 + t[3] < u[1] * 16 + u[2] * 4 + u[3])

-----------------------------------------------------------------------------
\* CompareClockwise(edge)(a, b): std::tie comparisons of the ranges.
LexLess(a1, a2, b1, b2) == a1 < b1 \/ (a1 = b1 /\ a2 < b2)

\* Mutant: the RIGHT edge ordered by ascending y, like LEFT.
CompareClockwiseRightAscending(edge, a, b) ==
  CASE edge = BOTTOM -> LexLess(b.x_min, b.x_max, a.x_min, a.x_max)
    [] edge = TOP    -> LexLess(a.x_min, a.x_max, b.x_min, b.x_max)
    [] edge \in {LEFT, RIGHT} -> LexLess(a.y_min, a.y_max, b.y_min, b.y_max)

CompareClockwise(edge, a, b) ==
  CASE edge = BOTTOM -> LexLess(b.x_min, b.x_max, a.x_min, a.x_max)
    [] edge = TOP    -> LexLess(a.x_min, a.x_max, b.x_min, b.x_max)
    [] edge = LEFT   -> LexLess(a.y_min, a.y_max, b.y_min, b.y_max)
    [] edge = RIGHT  -> LexLess(b.y_min, b.y_max, a.y_min, a.y_max)

\* The constructor: group the neighbors by edge and box, in input order,
\* then sort each group with CompareClockwise.  The keys of each
\* flat_hash_map are the boxes that have a neighbor on that edge.
BuildNeighbors(r, tuples) ==
  [edge \in Edges |->
     LET keys == {tuples[k][1] : k \in {k \in DOMAIN tuples : tuples[k][2] = edge}}
     IN [box_index \in keys |->
           LET grouped == SelectSeq(tuples, LAMBDA t : t[1] = box_index /\ t[2] = edge)
               neighbors == [k \in DOMAIN grouped |-> grouped[k][3]]
           IN SortSeq(neighbors, LAMBDA a, b : CompareClockwise(edge, r[a], r[b]))]]

GetSortedNeighbors(nb, rectangle_index, edge) ==
  IF rectangle_index \in DOMAIN nb[edge] THEN nb[edge][rectangle_index] ELSE <<>>

-----------------------------------------------------------------------------
VARIABLES rectangles,   \* the disjoint rectangles
          neighbors,    \* the tuples given to the constructor
          neighbors_    \* neighbors_[edge], or <<>> before construction

vars == <<rectangles, neighbors, neighbors_>>

Init ==
  /\ rectangles \in {r \in [Boxes -> Rectangles] :
                       \A a, b \in Boxes : a # b => Disjoint(r[a], r[b])}
  /\ neighbors = NeighborTuples(rectangles)
  /\ neighbors_ = <<>>

\* explicit Neighbours(rectangles, neighbors).
Construct ==
  /\ neighbors_ = <<>>
  /\ neighbors_' = BuildNeighbors(rectangles, neighbors)
  /\ UNCHANGED <<rectangles, neighbors>>

Spec == Init /\ [][Construct]_vars

-----------------------------------------------------------------------------
\* Where the contact segment of n on edge e of b starts, measured along the
\* boundary of b clockwise from its top-left corner (y grows upwards).
ClockwisePosition(r, b, e, n) ==
  LET w == r[b].x_max - r[b].x_min
      h == r[b].y_max - r[b].y_min
      Max2(u, v) == IF u > v THEN u ELSE v
      Min2(u, v) == IF u < v THEN u ELSE v
  IN CASE e = TOP    -> Max2(r[b].x_min, r[n].x_min) - r[b].x_min
       [] e = RIGHT  -> w + r[b].y_max - Min2(r[b].y_max, r[n].y_max)
       [] e = BOTTOM -> w + h + r[b].x_max - Min2(r[b].x_max, r[n].x_max)
       [] e = LEFT   -> 2 * w + h + Max2(r[b].y_min, r[n].y_min) - r[b].y_min

\* "Neighbors are sorted in the clockwise order": after construction,
\* GetSortedNeighbors lists every rectangle adjacent along the edge exactly
\* once, in the order their contact segments are met walking clockwise
\* around the rectangle (the constructor and CompareClockwise).
NeighborsAreClockwise ==
  neighbors_ # <<>> =>
    \A b \in Boxes, e \in Edges :
      LET s == GetSortedNeighbors(neighbors_, b, e)
      IN /\ IsInjective(s)
         /\ Range(s) = {n \in Boxes : Adjacent(rectangles, b, e, n)}
         /\ \A i \in 1..Len(s) - 1 :
              ClockwisePosition(rectangles, b, e, s[i])
                < ClockwisePosition(rectangles, b, e, s[i + 1])
=============================================================================
