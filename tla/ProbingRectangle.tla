-------------------------- MODULE ProbingRectangle --------------------------
(***************************************************************************)
(* The ProbingRectangle of ortools/sat/diffn_util.cc (src/unnamed/part_000)*)
(* A probe rectangle starts as the bounding box of a set of "rectangles in *)
(* range" (an item of size x_size * y_size that must be placed somewhere   *)
(* inside its bounding_area) and is shrunk one edge at a time.  After each *)
(* Shrink the class keeps, incrementally, the minimum energy the items     *)
(* must put inside the probe, the energy each next Shrink would remove,    *)
(* and the bookkeeping it needs for that (items touching an edge, corner   *)
(* counts, intersection lengths).  ValidateInvariants() recomputes all of  *)
(* it from scratch; this module checks that recount in every reachable     *)
(* state of every small instance.                                          *)
(*                                                                         *)
(* The C++ vectors are 0-based and so are the indexes here.  An item is    *)
(* its index in intervals_, a model value of Items; the bogus points the   *)
(* constructor adds at both extremities carry index -1, here NoItem.       *)
(***************************************************************************)
EXTENDS Integers, SequencesExt

CONSTANTS
  Items,      \* the RectangleInRange given to the constructor (model values)
  NoItem,     \* the index -1 of the bogus extremity points
  MaxCoord,   \* bounding areas lie in [0, MaxCoord] x [0, MaxCoord]
  MinSize     \* smallest x_size / y_size an item may have (0 or 1)

ASSUME Items # {} /\ NoItem \notin Items /\ MaxCoord \in Nat \ {0} /\ MinSize \in {0, 1}

VARIABLES
  intervals,                         \* intervals_ (never changes)
  grouped_intervals_sorted_by_x,     \* grouped_intervals_sorted_by_x_
  grouped_intervals_sorted_by_y,     \* grouped_intervals_sorted_by_y_
  indexes,                           \* indexes_[edge]
  next_indexes,                      \* next_indexes_[edge]
  minimum_energy,                    \* minimum_energy_
  ranges_touching_both_boundaries,   \* ranges_touching_both_boundaries_[dir]
  corner_count,                      \* corner_count_[corner]
  intersect_length,                  \* intersect_length_[edge]
  cached_delta_energy,               \* cached_delta_energy_[edge]
  probe_area                         \* probe_area_

geometry == <<intervals, grouped_intervals_sorted_by_x,
              grouped_intervals_sorted_by_y>>
probe == <<indexes, next_indexes, minimum_energy,
           ranges_touching_both_boundaries, corner_count, intersect_length,
           cached_delta_energy, probe_area>>
vars == <<geometry, probe>>


-----------------------------------------------------------------------------
(* Rectangles, items and the edge tables (EdgeInfoHolder).                 *)

Edges == {"LEFT", "RIGHT", "BOTTOM", "TOP"}
Corners == {"BOTTOM_LEFT", "TOP_LEFT", "BOTTOM_RIGHT", "TOP_RIGHT"}
Directions == {"LEFT_AND_RIGHT", "TOP_AND_BOTTOM"}

\* RectangleInRange: a box of x_size * y_size placed anywhere in bounding_area.
RangeSpans == {s \in [min : 0..MaxCoord, max : 0..MaxCoord, size : 0..MaxCoord] :
                 s.min < s.max /\ MinSize <= s.size /\ s.size <= s.max - s.min}
AsRange(sx, sy) ==
  [bounding_area |-> [x_min |-> sx.min, x_max |-> sx.max,
                      y_min |-> sy.min, y_max |-> sy.max],
   x_size |-> sx.size, y_size |-> sy.size]
RangesInRange == {AsRange(sx, sy) : sx, sy \in RangeSpans}

Area(rect) == (rect.x_max - rect.x_min) * (rect.y_max - rect.y_min)

\* EdgeInfo of GetEdgeInfo(edge).
OppositeEdge == [LEFT |-> "RIGHT", RIGHT |-> "LEFT",
                 BOTTOM |-> "TOP", TOP |-> "BOTTOM"]
ShrinkDirection == [LEFT |-> "LEFT_AND_RIGHT", RIGHT |-> "LEFT_AND_RIGHT",
                    BOTTOM |-> "TOP_AND_BOTTOM", TOP |-> "TOP_AND_BOTTOM"]
OrthogonalShrinkDirection ==
  [LEFT |-> "TOP_AND_BOTTOM", RIGHT |-> "TOP_AND_BOTTOM",
   BOTTOM |-> "LEFT_AND_RIGHT", TOP |-> "LEFT_AND_RIGHT"]
\* Lower coordinate first: BOTTOM before TOP, LEFT before RIGHT.
OrthogonalEdges ==
  [LEFT   |-> <<[edge |-> "BOTTOM", corner |-> "BOTTOM_LEFT"],
                [edge |-> "TOP",    corner |-> "TOP_LEFT"]>>,
   RIGHT  |-> <<[edge |-> "BOTTOM", corner |-> "BOTTOM_RIGHT"],
                [edge |-> "TOP",    corner |-> "TOP_RIGHT"]>>,
   BOTTOM |-> <<[edge |-> "LEFT",   corner |-> "BOTTOM_LEFT"],
                [edge |-> "RIGHT",  corner |-> "BOTTOM_RIGHT"]>>,
   TOP    |-> <<[edge |-> "LEFT",   corner |-> "TOP_LEFT"],
                [edge |-> "RIGHT",  corner |-> "TOP_RIGHT"]>>]
\* CacheShrinkDeltaEnergy(dimension) indexes the Direction enum by 0 and 1.
DirectionOfDimension == [d \in 0..1 |->
                           IF d = 0 THEN "LEFT_AND_RIGHT" ELSE "TOP_AND_BOTTOM"]

\* Smallest1DIntersection: the overlap of [interval_min, interval_max] with
\* an item of the given size placed at either end of [range_min, range_max].
Smallest1DIntersection(range_min, range_max, size, interval_min, interval_max) ==
  LET overlap_on_left == Min({range_min + size, interval_max})
                           - Max({range_min, interval_min})
      overlap_on_right == Min({range_max, interval_max})
                            - Max({range_max - size, interval_min})
  IN Max({0, Min({overlap_on_left, overlap_on_right})})

\* GetSmallest1DIntersection(direction, range, rectangle).
GetSmallest1DIntersection(direction, range, rect) ==
  IF direction = "LEFT_AND_RIGHT"
  THEN Smallest1DIntersection(range.bounding_area.x_min, range.bounding_area.x_max,
                              range.x_size, rect.x_min, rect.x_max)
  ELSE Smallest1DIntersection(range.bounding_area.y_min, range.bounding_area.y_max,
                              range.y_size, rect.y_min, rect.y_max)

\* Area of range.GetMinimumIntersection(rect), as ValidateInvariants sums it.
MinimumIntersectionArea(range, rect) ==
  GetSmallest1DIntersection("LEFT_AND_RIGHT", range, rect)
    * GetSmallest1DIntersection("TOP_AND_BOTTOM", range, rect)

\* CanConsumeEnergy with >= in its first test (a probe ending where the
\* item's rightmost placement starts is taken as consuming).
CanConsumeEnergyAtBoundary(rect, item) ==
  /\ rect.x_max >= item.bounding_area.x_max - item.x_size
  /\ rect.y_max > item.bounding_area.y_max - item.y_size
  /\ rect.x_min < item.bounding_area.x_min + item.x_size
  /\ rect.y_min < item.bounding_area.y_min + item.y_size

\* CanConsumeEnergy: rect meets the inner rectangle of the four extreme
\* positions of the item.
CanConsumeEnergy(rect, item) ==
  /\ rect.x_max > item.bounding_area.x_max - item.x_size
  /\ rect.y_max > item.bounding_area.y_max - item.y_size
  /\ rect.x_min < item.bounding_area.x_min + item.x_size
  /\ rect.y_min < item.bounding_area.y_min + item.y_size

\* GetPossibleEdgeIntersection: which edges of rect lie inside the range.
GetPossibleEdgeIntersection(rect, range) ==
  [LEFT   |-> rect.x_min >= range.bounding_area.x_min,
   BOTTOM |-> rect.y_min >= range.bounding_area.y_min,
   RIGHT  |-> rect.x_max <= range.bounding_area.x_max,
   TOP    |-> rect.y_max <= range.bounding_area.y_max]

NoEdge == [e \in Edges |-> FALSE]

-----------------------------------------------------------------------------
(* The constructor: the four candidate positions of every item's edges on  *)
(* each axis, plus one bogus point beyond each end of the bounding box,    *)
(* sorted, deduplicated and grouped by coordinate.                         *)

PointsOnX(r) == {r.bounding_area.x_min, r.bounding_area.x_min + r.x_size,
                 r.bounding_area.x_max - r.x_size, r.bounding_area.x_max}
PointsOnY(r) == {r.bounding_area.y_min, r.bounding_area.y_min + r.y_size,
                 r.bounding_area.y_max - r.y_size, r.bounding_area.y_max}

Points(axis, r) == IF axis = "x" THEN PointsOnX(r) ELSE PointsOnY(r)

\* PointsForCoordinate: a coordinate and the items with a point on it; the
\* bogus extremity points carry NoItem (index -1).
GroupedPoints(ranges, axis, box_min, box_max) ==
  LET coords == UNION {Points(axis, ranges[i]) : i \in DOMAIN ranges}
                  \cup {box_min - 1, box_max + 1}
      \* the k-th smallest coordinate, after sorting and deduplication
      Sorted(k) == CHOOSE c \in coords : Cardinality({d \in coords : d < c}) = k
  IN [k \in 0..Cardinality(coords) - 1 |->
        [coordinate |-> Sorted(k),
         items_touching_coordinate |->
           {i \in DOMAIN ranges : Sorted(k) \in Points(axis, ranges[i])}
             \cup (IF Sorted(k) \in {box_min - 1, box_max + 1}
                   THEN {NoItem} ELSE {})]]

FullEnergy == MapThenSumSet(LAMBDA i : intervals[i].x_size * intervals[i].y_size,
                            Items)

LastX == Cardinality(DOMAIN grouped_intervals_sorted_by_x) - 1   \* size() - 1
LastY == Cardinality(DOMAIN grouped_intervals_sorted_by_y) - 1

-----------------------------------------------------------------------------
(* The probe state as one record, so that Reset can chain four Shrinks.    *)

State == [indexes |-> indexes, next_indexes |-> next_indexes,
          minimum_energy |-> minimum_energy,
          ranges_touching_both_boundaries |-> ranges_touching_both_boundaries,
          corner_count |-> corner_count, intersect_length |-> intersect_length,
          cached_delta_energy |-> cached_delta_energy, probe_area |-> probe_area]

\* GetCurrentRectangle() for the given indexes_.
RectangleAt(idx) ==
  [x_min |-> grouped_intervals_sorted_by_x[idx.LEFT].coordinate,
   x_max |-> grouped_intervals_sorted_by_x[idx.RIGHT].coordinate,
   y_min |-> grouped_intervals_sorted_by_y[idx.BOTTOM].coordinate,
   y_max |-> grouped_intervals_sorted_by_y[idx.TOP].coordinate]

GroupsOf(edge) == IF ShrinkDirection[edge] = "LEFT_AND_RIGHT"
                  THEN grouped_intervals_sorted_by_x
                  ELSE grouped_intervals_sorted_by_y

\* CanShrink(edge): the x test compares next RIGHT with LEFT, the y test
\* compares TOP with next BOTTOM.
CanShrink(s, edge) ==
  IF ShrinkDirection[edge] = "LEFT_AND_RIGHT"
  THEN s.next_indexes.RIGHT > s.indexes.LEFT
  ELSE s.indexes.TOP > s.next_indexes.BOTTOM

\* The energy lost by the ranges touching both boundaries of the dimension:
\* the sum of curr - other * next over ranges_touching_both_boundaries_.
BothBoundaryDelta(s, dimension, cur, next) ==
  LET dir == DirectionOfDimension[dimension]
      other == DirectionOfDimension[1 - dimension]
  IN MapThenSumSet(LAMBDA i :
                     MinimumIntersectionArea(intervals[i], cur)
                       - GetSmallest1DIntersection(other, intervals[i], cur)
                         * GetSmallest1DIntersection(dir, intervals[i], next),
                   s.ranges_touching_both_boundaries[dir])

\* CacheShrinkDeltaEnergy(dimension): the energy lost by shrinking the lower
\* ("up") and the upper ("down") edge of the dimension, as <<up, down>>.
CacheShrinkDeltaEnergy(s, dimension) ==
  LET cur == RectangleAt(s.indexes)
      lower == IF dimension = 0 THEN "LEFT" ELSE "BOTTOM"
      upper == IF dimension = 0 THEN "RIGHT" ELSE "TOP"
      up_coord == GroupsOf(lower)[s.next_indexes[lower]].coordinate
      down_coord == GroupsOf(upper)[s.next_indexes[upper]].coordinate
      next_up == IF dimension = 0 THEN [cur EXCEPT !.x_min = up_coord]
                                  ELSE [cur EXCEPT !.y_min = up_coord]
      next_down == IF dimension = 0 THEN [cur EXCEPT !.x_max = down_coord]
                                    ELSE [cur EXCEPT !.y_max = down_coord]
      step_up == IF dimension = 0 THEN up_coord - cur.x_min ELSE up_coord - cur.y_min
      step_down == IF dimension = 0 THEN cur.x_max - down_coord
                                    ELSE cur.y_max - down_coord
      BothDelta(next) == BothBoundaryDelta(s, dimension, cur, next)
  IN IF ~CanShrink(s, IF dimension = 0 THEN "LEFT" ELSE "TOP")
     THEN <<0, 0>>
     ELSE <<BothDelta(next_up) + s.intersect_length[lower] * step_up,
            BothDelta(next_down) + s.intersect_length[upper] * step_down>>

\* CachedDeltas with the "up" and "down" results of each dimension swapped.
CachedDeltasSwapped(s) ==
  LET x == CacheShrinkDeltaEnergy(s, 0)
      y == CacheShrinkDeltaEnergy(s, 1)
  IN [LEFT |-> x[2], RIGHT |-> x[1], BOTTOM |-> y[2], TOP |-> y[1]]

\* Both calls CacheShrinkDeltaEnergy(0) and (1) at the end of ShrinkImpl.
CachedDeltas(s) ==
  LET x == CacheShrinkDeltaEnergy(s, 0)
      y == CacheShrinkDeltaEnergy(s, 1)
  IN [LEFT |-> x[1], RIGHT |-> x[2], BOTTOM |-> y[1], TOP |-> y[2]]


-----------------------------------------------------------------------------
(* ShrinkImpl<edge>, split the way the C++ body runs.                      *)

IsLowerEdge(edge) == edge \in {"LEFT", "BOTTOM"}
Coordinate(rect, edge) ==
  CASE edge = "LEFT" -> rect.x_min [] edge = "RIGHT" -> rect.x_max
    [] edge = "BOTTOM" -> rect.y_min [] edge = "TOP" -> rect.y_max

\* The switch without the update of next_indexes_[opposite_edge].
ShrinkIndexesNoOpposite(s, edge) ==
  LET opp == OppositeEdge[edge]
      idx == [s.indexes EXCEPT ![edge] = s.next_indexes[edge]]
      nxt == IF IsLowerEdge(edge)
             THEN [s.next_indexes EXCEPT ![edge] = Min({idx[edge] + 1, idx[opp]})]
             ELSE [s.next_indexes EXCEPT ![edge] = Max({idx[edge] - 1, idx[opp]})]
  IN [indexes |-> idx, next_indexes |-> nxt]

\* The switch without the step: next_indexes_[edge] set to the new index
\* itself instead of one past it.
ShrinkIndexesNoStep(s, edge) ==
  LET opp == OppositeEdge[edge]
      idx == [s.indexes EXCEPT ![edge] = s.next_indexes[edge]]
      nxt == IF IsLowerEdge(edge)
             THEN [s.next_indexes EXCEPT ![edge] = Min({idx[edge], idx[opp]}),
                                         ![opp] = Max({idx[edge], s.next_indexes[opp]})]
             ELSE [s.next_indexes EXCEPT ![edge] = Max({idx[edge], idx[opp]}),
                                         ![opp] = Min({idx[edge], s.next_indexes[opp]})]
  IN [indexes |-> idx, next_indexes |-> nxt]

\* indexes_[edge] = next_indexes_[edge], then the switch on edge that moves
\* next_indexes_ of the edge and of its opposite.
ShrinkIndexes(s, edge) ==
  LET opp == OppositeEdge[edge]
      idx == [s.indexes EXCEPT ![edge] = s.next_indexes[edge]]
      nxt == IF IsLowerEdge(edge)
             THEN [s.next_indexes EXCEPT ![edge] = Min({idx[edge] + 1, idx[opp]}),
                                         ![opp] = Max({idx[edge], s.next_indexes[opp]})]
             ELSE [s.next_indexes EXCEPT ![edge] = Max({idx[edge] - 1, idx[opp]}),
                                         ![opp] = Min({idx[edge], s.next_indexes[opp]})]
  IN [indexes |-> idx, next_indexes |-> nxt]

\* The scans that move next_indexes_[edge] past coordinates where no item can
\* consume energy in the current rectangle (points_consume_energy).
PointsConsumeEnergy(groups, k, rect) ==
  \E i \in groups[k].items_touching_coordinate : CanConsumeEnergy(rect, intervals[i])
ScanUp(groups, start, bound, rect) ==
  LET found == {k \in start..(bound - 1) : PointsConsumeEnergy(groups, k, rect)}
  IN IF found # {} THEN Min(found) ELSE Max({start, bound})
ScanDown(groups, start, bound, rect) ==
  LET found == {k \in (bound + 1)..start : PointsConsumeEnergy(groups, k, rect)}
  IN IF found # {} THEN Max(found) ELSE Min({start, bound})
NextIndexScan(edge, nxt, idx, rect) ==
  IF IsLowerEdge(edge)
  THEN ScanUp(GroupsOf(edge), nxt[edge], idx[OppositeEdge[edge]], rect)
  ELSE ScanDown(GroupsOf(edge), nxt[edge], idx[OppositeEdge[edge]], rect)

\* ShrinkContext with current_rectangle read before indexes_[edge] moves.
ShrinkContextStaleCurrent(s, edge) ==
  LET moved == ShrinkIndexes(s, edge)
      prev == RectangleAt(s.indexes)
      cur == RectangleAt(s.indexes)
      touched == {i \in GroupsOf(edge)[moved.indexes[edge]].items_touching_coordinate :
                    CanConsumeEnergy(prev, intervals[i])}
  IN [moved |-> moved, prev |-> prev, cur |-> cur,
      step_1d_size |-> IF IsLowerEdge(edge)
                       THEN Coordinate(cur, edge) - Coordinate(prev, edge)
                       ELSE Coordinate(prev, edge) - Coordinate(cur, edge),
      touched |-> touched,
      before |-> [i \in touched |-> GetPossibleEdgeIntersection(prev, intervals[i])],
      after |-> [i \in touched |->
                   IF CanConsumeEnergy(cur, intervals[i])
                   THEN GetPossibleEdgeIntersection(cur, intervals[i]) ELSE NoEdge]]

\* The rectangles before and after the move, the length of the move, and
\* for each item on the new coordinate that CanConsumeEnergy(prev_rectangle)
\* the edges it could touch before and after (touching_boundary_before/after).
ShrinkContext(s, edge) ==
  LET moved == ShrinkIndexes(s, edge)
      prev == RectangleAt(s.indexes)
      cur == RectangleAt(moved.indexes)
      touched == {i \in GroupsOf(edge)[moved.indexes[edge]].items_touching_coordinate :
                    CanConsumeEnergy(prev, intervals[i])}
  IN [moved |-> moved, prev |-> prev, cur |-> cur,
      step_1d_size |-> IF IsLowerEdge(edge)
                       THEN Coordinate(cur, edge) - Coordinate(prev, edge)
                       ELSE Coordinate(prev, edge) - Coordinate(cur, edge),
      touched |-> touched,
      before |-> [i \in touched |-> GetPossibleEdgeIntersection(prev, intervals[i])],
      after |-> [i \in touched |->
                   IF CanConsumeEnergy(cur, intervals[i])
                   THEN GetPossibleEdgeIntersection(cur, intervals[i]) ELSE NoEdge]]

\* The per-item tests of the loop over items_touching_coordinate, for an
\* item i of ctx.touched.
ItemEnters(ctx, edge, i) == ctx.after[i][edge] /\ ~ctx.before[i][edge]
ItemLeaves(ctx, i, e) == ctx.before[i][e] /\ ~ctx.after[i][e]
TouchesBothOrthogonal(ctx, i, e) == /\ ctx.before[i][OrthogonalEdges[e][1].edge]
                                    /\ ctx.before[i][OrthogonalEdges[e][2].edge]

\* How many times erase_item(e) runs for item i: once from the entering
\* branch (for the opposite edge), once from the edge loop.
EraseCount(ctx, edge, i, e) ==
  (IF e = OppositeEdge[edge] /\ ItemEnters(ctx, edge, i)
        /\ ctx.before[i][OppositeEdge[edge]] THEN 1 ELSE 0)
    + (IF ItemLeaves(ctx, i, e) /\ ~ctx.before[i][OppositeEdge[e]] THEN 1 ELSE 0)

\* erase_item(e) without its "ignore touching both corners" early return.
RemovesCornerIgnoringBoth(ctx, edge, i, c) ==
  \E e \in Edges : /\ EraseCount(ctx, edge, i, e) > 0
                   /\ \E k \in 1..2 : /\ OrthogonalEdges[e][k].corner = c
                                      /\ ctx.before[i][OrthogonalEdges[e][k].edge]

\* remove_corner[c] as set by the erase_item calls for item i.
RemovesCorner(ctx, edge, i, c) ==
  \E e \in Edges : /\ EraseCount(ctx, edge, i, e) > 0
                   /\ ~TouchesBothOrthogonal(ctx, i, e)
                   /\ \E k \in 1..2 : /\ OrthogonalEdges[e][k].corner = c
                                      /\ ctx.before[i][OrthogonalEdges[e][k].edge]

\* delta_corner_count[c]++ for an item entering on edge and not touching
\* the opposite edge (the opposite of remove_item()).
AddsCorner(ctx, edge, i, c) ==
  /\ ItemEnters(ctx, edge, i) /\ ~ctx.before[i][OppositeEdge[edge]]
  /\ ~TouchesBothOrthogonal(ctx, i, edge)
  /\ \E k \in 1..2 : /\ OrthogonalEdges[edge][k].corner = c
                     /\ ctx.before[i][OrthogonalEdges[edge][k].edge]

\* The loop over items_touching_coordinate: the item entering the probe on
\* edge, erase_item() for every edge an item stops touching, and the
\* resulting ranges_touching_both_boundaries_, corner and length changes.
ShrinkItems(s, edge, ctx) ==
  LET opp == OppositeEdge[edge]
      Before(i) == ctx.before[i]
      Enters(i) == ItemEnters(ctx, edge, i)
      Orthogonal1D(e, i) ==
        GetSmallest1DIntersection(OrthogonalShrinkDirection[e], intervals[i], ctx.prev)
  IN [both |->
        [d \in Directions |->
           (s.ranges_touching_both_boundaries[d]
              \cup {i \in ctx.touched : /\ d = ShrinkDirection[edge]
                                        /\ Enters(i) /\ Before(i)[opp]})
           \ {i \in ctx.touched : \E e \in Edges : /\ ShrinkDirection[e] = d
                                                   /\ ItemLeaves(ctx, i, e)
                                                   /\ Before(i)[OppositeEdge[e]]}],
      corner_count |->
        [c \in Corners |->
           s.corner_count[c] - Cardinality({i \in ctx.touched : RemovesCorner(ctx, edge, i, c)})],
      delta_corner_count |->
        [c \in Corners |-> Cardinality({i \in ctx.touched : AddsCorner(ctx, edge, i, c)})],
      intersect_length |->
        [e \in Edges |->
           s.intersect_length[e]
             + (IF e = edge
                THEN MapThenSumSet(LAMBDA i : Orthogonal1D(edge, i),
                                   {i \in ctx.touched : Enters(i) /\ ~Before(i)[opp]})
                ELSE 0)
             - MapThenSumSet(LAMBDA i : EraseCount(ctx, edge, i, e) * Orthogonal1D(e, i),
                             ctx.touched)],
      update_next_index |->
        {edge} \cup {e \in Edges : \E i \in ctx.touched : ItemLeaves(ctx, i, e)}]

\* After the item loop: the length lost on the orthogonal edges by items
\* touching both sides and by the corners, the corner deltas, the next index
\* scans, the energy and the probe area.  The cache is filled in afterwards.
ShrinkImpl(s, edge, ctx, items) ==
  LET dir == ShrinkDirection[edge]
      orth == OrthogonalEdges[edge]
      TouchingCorner(i) ==
        LET r == intervals[i].bounding_area
        IN IF dir = "LEFT_AND_RIGHT"
           THEN <<ctx.cur.y_min >= r.y_min, ctx.cur.y_max <= r.y_max>>
           ELSE <<ctx.cur.x_min >= r.x_min, ctx.cur.x_max <= r.x_max>>
      BothLength(k) ==
        MapThenSumSet(LAMBDA i : GetSmallest1DIntersection(dir, intervals[i], ctx.prev)
                                 - GetSmallest1DIntersection(dir, intervals[i], ctx.cur),
                      {i \in items.both[dir] : /\ TouchingCorner(i)[1] # TouchingCorner(i)[2]
                                               /\ TouchingCorner(i)[k]})
      LengthLost(e) ==
        IF \E k \in 1..2 : orth[k].edge = e
        THEN LET k == CHOOSE k \in 1..2 : orth[k].edge = e
             IN BothLength(k) + items.corner_count[orth[k].corner] * ctx.step_1d_size
        ELSE 0
  IN [indexes |-> ctx.moved.indexes,
      next_indexes |->
        [e \in Edges |->
           IF e \in items.update_next_index
           THEN NextIndexScan(e, ctx.moved.next_indexes, ctx.moved.indexes, ctx.cur)
           ELSE ctx.moved.next_indexes[e]],
      minimum_energy |-> s.minimum_energy - s.cached_delta_energy[edge],
      ranges_touching_both_boundaries |-> items.both,
      corner_count |-> [c \in Corners |->
                          items.corner_count[c] + items.delta_corner_count[c]],
      intersect_length |-> [e \in Edges |-> items.intersect_length[e] - LengthLost(e)],
      cached_delta_energy |-> s.cached_delta_energy,
      probe_area |-> Area(ctx.cur)]

\* ShrinkImpl<edge> as a whole, ending with the two CacheShrinkDeltaEnergy
\* calls, as the singleton set of the state it leaves (each phase is bound
\* to its value once).
WithCache(shrunk) == [shrunk EXCEPT !.cached_delta_energy = CachedDeltas(shrunk)]
Shrunk(s, edge) ==
  UNION {UNION {{WithCache(shrunk) : shrunk \in {ShrinkImpl(s, edge, ctx, items)}}
                  : items \in {ShrinkItems(s, edge, ctx)}}
           : ctx \in {ShrinkContext(s, edge)}}

\* Reset(): back to the bogus extremities (ResetStart), then one Shrink per
\* edge, LEFT, BOTTOM, RIGHT, TOP, to drop the four bogus points.
ResetStart ==
  [indexes |-> [LEFT |-> 0, RIGHT |-> LastX, BOTTOM |-> 0, TOP |-> LastY],
   next_indexes |-> [LEFT |-> 1, RIGHT |-> LastX - 1, BOTTOM |-> 1, TOP |-> LastY - 1],
   minimum_energy |-> FullEnergy,
   ranges_touching_both_boundaries |-> [d \in Directions |-> {}],
   corner_count |-> [c \in Corners |-> 0],
   intersect_length |-> [e \in Edges |-> 0],
   cached_delta_energy |-> [e \in Edges |-> 0],
   probe_area |-> 0]

\* Mutant: Reset() without its last Shrink(Edge::TOP).
ResetResultSkipTop ==
  UNION {UNION {Shrunk(s2, "RIGHT") : s2 \in Shrunk(s1, "BOTTOM")}
           : s1 \in Shrunk(ResetStart, "LEFT")}

ResetResult ==
  UNION {UNION {UNION {Shrunk(s3, "TOP") : s3 \in Shrunk(s2, "RIGHT")}
                  : s2 \in Shrunk(s1, "BOTTOM")}
           : s1 \in Shrunk(ResetStart, "LEFT")}

-----------------------------------------------------------------------------
(* The specification.                                                      *)

InitProbe(s) ==
  /\ indexes = s.indexes
  /\ next_indexes = s.next_indexes
  /\ minimum_energy = s.minimum_energy
  /\ ranges_touching_both_boundaries = s.ranges_touching_both_boundaries
  /\ corner_count = s.corner_count
  /\ intersect_length = s.intersect_length
  /\ cached_delta_energy = s.cached_delta_energy
  /\ probe_area = s.probe_area

UpdateProbe(s) ==
  /\ indexes' = s.indexes
  /\ next_indexes' = s.next_indexes
  /\ minimum_energy' = s.minimum_energy
  /\ ranges_touching_both_boundaries' = s.ranges_touching_both_boundaries
  /\ corner_count' = s.corner_count
  /\ intersect_length' = s.intersect_length
  /\ cached_delta_energy' = s.cached_delta_energy
  /\ probe_area' = s.probe_area

\* The constructor ProbingRectangle(intervals) on a non-empty vector.  The
\* class only compares and subtracts coordinates, so inputs are taken up to
\* translation: the bounding box starts at (0, 0).
Init ==
  /\ intervals \in [Items -> RangesInRange]
  /\ LET box == [x_min |-> Min({intervals[i].bounding_area.x_min : i \in Items}),
                 x_max |-> Max({intervals[i].bounding_area.x_max : i \in Items}),
                 y_min |-> Min({intervals[i].bounding_area.y_min : i \in Items}),
                 y_max |-> Max({intervals[i].bounding_area.y_max : i \in Items})]
     IN /\ box.x_min = 0 /\ box.y_min = 0
        /\ grouped_intervals_sorted_by_x =
             GroupedPoints(intervals, "x", box.x_min, box.x_max)
        /\ grouped_intervals_sorted_by_y =
             GroupedPoints(intervals, "y", box.y_min, box.y_max)
  /\ \E s \in ResetResult : InitProbe(s)

\* Shrink(edge), called (as FindRectanglesWithEnergyConflictMC does) only
\* when CanShrink(edge).
Shrink(edge) ==
  /\ CanShrink(State, edge)
  /\ \E s \in Shrunk(State, edge) : UpdateProbe(s)
  /\ UNCHANGED geometry

Reset ==
  /\ \E s \in ResetResult : UpdateProbe(s)
  /\ UNCHANGED geometry

Next == (\E edge \in Edges : Shrink(edge)) \/ Reset

Spec == Init /\ [][Next]_vars

-----------------------------------------------------------------------------
(* ValidateInvariants(): the same quantities recomputed from scratch for   *)
(* the current rectangle.                                                  *)

CurrentRectangle == RectangleAt(indexes)

RecountTouching(rect, i) ==
  IF CanConsumeEnergy(rect, intervals[i])
  THEN GetPossibleEdgeIntersection(rect, intervals[i]) ELSE NoEdge

RecountEnergy(rect) ==
  MapThenSumSet(LAMBDA i : MinimumIntersectionArea(intervals[i], rect), Items)

RecountBoth(rect) ==
  [d \in Directions |->
     {i \in Items : IF d = "LEFT_AND_RIGHT"
                    THEN RecountTouching(rect, i).LEFT /\ RecountTouching(rect, i).RIGHT
                    ELSE RecountTouching(rect, i).TOP /\ RecountTouching(rect, i).BOTTOM}]

RecountIntersectLength(rect) ==
  [e \in Edges |->
     MapThenSumSet(LAMBDA i : GetSmallest1DIntersection(
                                OrthogonalShrinkDirection[e], intervals[i], rect),
                   {i \in Items : RecountTouching(rect, i)[e]
                                  /\ ~RecountTouching(rect, i)[OppositeEdge[e]]})]

CornerEdges == [BOTTOM_LEFT |-> {"BOTTOM", "LEFT"}, BOTTOM_RIGHT |-> {"BOTTOM", "RIGHT"},
                TOP_LEFT |-> {"TOP", "LEFT"}, TOP_RIGHT |-> {"TOP", "RIGHT"}]

RecountCornerCount(rect) ==
  [c \in Corners |->
     Cardinality({i \in Items :
                    LET t == RecountTouching(rect, i)
                    IN /\ ~(t.LEFT /\ t.RIGHT) /\ ~(t.TOP /\ t.BOTTOM)
                       /\ \A e \in CornerEdges[c] : t[e]})]

-----------------------------------------------------------------------------
(* Properties.                                                             *)

TypeOK ==
  /\ intervals \in [Items -> RangesInRange]
  /\ indexes \in [Edges -> Nat]
  /\ next_indexes \in [Edges -> Nat]
  /\ indexes.LEFT <= indexes.RIGHT /\ indexes.RIGHT <= LastX
  /\ indexes.BOTTOM <= indexes.TOP /\ indexes.TOP <= LastY
  /\ minimum_energy \in Int
  /\ ranges_touching_both_boundaries \in [Directions -> SUBSET Items]
  /\ corner_count \in [Corners -> Int]
  /\ intersect_length \in [Edges -> Int]
  /\ cached_delta_energy \in [Edges -> Int]
  /\ probe_area = Area(CurrentRectangle)

\* The CHECKs at the top of ValidateInvariants: the next index of each edge
\* never crosses the opposite edge, after any sequence of Shrinks.
IndexOrder ==
  /\ next_indexes.LEFT <= indexes.RIGHT
  /\ next_indexes.BOTTOM <= indexes.TOP
  /\ next_indexes.TOP >= indexes.BOTTOM
  /\ next_indexes.RIGHT >= indexes.LEFT

\* No edge of the probe, and no next index an edge may move to, rests on a
\* bogus extremity point: the four Shrinks that end Reset() move every edge
\* off them and later Shrinks only move inwards, so the items_touching_
\* coordinate that ShrinkImpl and its scans read hold real items and
\* intervals_[-1] is never read.
ProbeAvoidsBogusPoints ==
  \A e \in Edges :
    /\ NoItem \notin GroupsOf(e)[indexes[e]].items_touching_coordinate
    /\ NoItem \notin GroupsOf(e)[next_indexes[e]].items_touching_coordinate

\* minimum_energy_, kept by subtracting the cached delta of every Shrink,
\* equals the minimum energy the items must put in the current rectangle.
EnergyMatchesRecount == minimum_energy = RecountEnergy(CurrentRectangle)

\* The incremental bookkeeping ShrinkImpl maintains (items touching both
\* boundaries, corner counts, intersection lengths) equals its recount.
BookkeepingMatchesRecount ==
  /\ ranges_touching_both_boundaries = RecountBoth(CurrentRectangle)
  /\ corner_count = RecountCornerCount(CurrentRectangle)
  /\ intersect_length = RecountIntersectLength(CurrentRectangle)

\* CanConsumeEnergy, the filter ShrinkImpl uses to skip items, holds for an
\* item exactly when the item must put some energy in the (non-empty) probe.
CanConsumeEnergyIsExact ==
  \A i \in Items :
    (CanConsumeEnergy(CurrentRectangle, intervals[i]) /\ Area(CurrentRectangle) # 0)
      = (MinimumIntersectionArea(intervals[i], CurrentRectangle) # 0)

=============================================================================
