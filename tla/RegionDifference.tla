--------------------------- MODULE RegionDifference ---------------------------
(***************************************************************************)
(* Rectangle::RegionDifference, PavedRegionDifference and FindEmptySpaces  *)
(* of part_000.  RegionDifference cuts a rectangle minus another into up   *)
(* to four pieces; PavedRegionDifference removes a list of rectangles from *)
(* a region paved by disjoint rectangles, one rectangle per iteration of   *)
(* its outer loop; FindEmptySpaces sorts the occupied rectangles and       *)
(* removes them from the bounding box.                                     *)
(*                                                                         *)
(* Rectangle and Rectangle::Intersect are in diffn_util.h, outside the     *)
(* repository: a rectangle is [x_min, x_max) x [y_min, y_max), and         *)
(* Intersect returns the empty rectangle {0, 0, 0, 0} when the two do not  *)
(* overlap.                                                                *)
(***************************************************************************)
EXTENDS Integers, SequencesExt

CONSTANTS MaxCoord,    \* coordinates are 0..MaxCoord
          MaxRemove,   \* the largest area_to_remove of a call
          MaxRegion    \* the largest original_region of a direct call

Coords == 0..MaxCoord

Rectangles ==
  {r \in [x_min : Coords, x_max : Coords, y_min : Coords, y_max : Coords] :
     r.x_min < r.x_max /\ r.y_min < r.y_max}

Max2(a, b) == IF a > b THEN a ELSE b
Min2(a, b) == IF a < b THEN a ELSE b

\* Rectangle::IsDisjoint.
IsDisjoint(a, b) ==
  \/ a.x_min >= b.x_max \/ b.x_min >= a.x_max
  \/ a.y_min >= b.y_max \/ b.y_min >= a.y_max

\* Rectangle::Intersect (diffn_util.h).
Intersect(a, b) ==
  LET r == [x_min |-> Max2(a.x_min, b.x_min), x_max |-> Min2(a.x_max, b.x_max),
            y_min |-> Max2(a.y_min, b.y_min), y_max |-> Min2(a.y_max, b.y_max)]
  IN IF r.x_min >= r.x_max \/ r.y_min >= r.y_max
     THEN [x_min |-> 0, x_max |-> 0, y_min |-> 0, y_max |-> 0]
     ELSE r

SizeX(r) == r.x_max - r.x_min

Piece(cond, r) == IF cond THEN <<r>> ELSE <<>>

\* Mutant: pieces 3 and 4 span the whole width of the rectangle.
RegionDifferenceFullWidth(this, other) ==
  LET i == Intersect(this, other)
  IN IF SizeX(i) = 0 THEN <<this>>
     ELSE Piece(this.x_min < i.x_min, [this EXCEPT !.x_max = i.x_min])
       \o Piece(this.x_max > i.x_max, [this EXCEPT !.x_min = i.x_max])
       \o Piece(this.y_min < i.y_min, [this EXCEPT !.y_max = i.y_min])
       \o Piece(this.y_max > i.y_max, [this EXCEPT !.y_min = i.y_max])

\* Rectangle::RegionDifference: pieces 1 and 2 left and right of the
\* intersection over the full height, pieces 3 and 4 below and above it
\* over its width.
RegionDifference(this, other) ==
  LET i == Intersect(this, other)
  IN IF SizeX(i) = 0 THEN <<this>>
     ELSE Piece(this.x_min < i.x_min, [this EXCEPT !.x_max = i.x_min])
       \o Piece(this.x_max > i.x_max, [this EXCEPT !.x_min = i.x_max])
       \o Piece(this.y_min < i.y_min, [i EXCEPT !.y_min = this.y_min, !.y_max = i.y_min])
       \o Piece(this.y_max > i.y_max, [i EXCEPT !.y_min = i.y_max, !.y_max = this.y_max])

\* The sort of FindEmptySpaces by (x_min, -x_max, y_min); the order of
\* rectangles equal in those is left open.
SortedForSweep(s) ==
  {t \in {[i \in DOMAIN s |-> s[f[i]]] : f \in Permutations(DOMAIN s)} :
     IsSorted(t, LAMBDA a, b : \/ a.x_min < b.x_min
                               \/ a.x_min = b.x_min /\ a.x_max > b.x_max
                               \/ a.x_min = b.x_min /\ a.x_max = b.x_max /\ a.y_min <= b.y_min)}

-----------------------------------------------------------------------------
VARIABLES original_region,   \* original_region, swapped with new_area_to_cover
          area_to_remove,    \* the rectangles to remove, in the order given
          next,              \* the next rectangle of area_to_remove
          pc,                \* "idle", "loop" or "done"
          input_region       \* history: the region the call started from

vars == <<original_region, area_to_remove, next, pc, input_region>>

Init ==
  /\ original_region = <<>> /\ area_to_remove = <<>> /\ next = 1
  /\ pc = "idle" /\ input_region = <<>>

\* The call PavedRegionDifference(original_region, area_to_remove), whose
\* region is paved by disjoint rectangles; an empty list returns at once.
StartPaved(region, remove) ==
  /\ original_region' = region /\ area_to_remove' = remove /\ next' = 1
  /\ pc' = IF remove = <<>> THEN "done" ELSE "loop"
  /\ input_region' = region

PavedRegionDifference(region, remove) ==
  /\ pc = "idle"
  /\ StartPaved(region, remove)

FindEmptySpaces(bounding_box, ocupied_rectangles) ==
  /\ pc = "idle"
  /\ \E sorted \in SortedForSweep(ocupied_rectangles) : StartPaved(<<bounding_box>>, sorted)

\* One iteration of the loop over area_to_remove: every rectangle of the
\* region minus the next rectangle, then the swap and the break when the
\* region is empty.
RemoveRectangle ==
  /\ pc = "loop"
  /\ LET rectangle == area_to_remove[next]
         new_area_to_cover ==
           FoldLeft(LAMBDA acc, r : acc \o RegionDifference(r, rectangle), <<>>, original_region)
     IN /\ original_region' = new_area_to_cover
        /\ next' = next + 1
        /\ pc' = IF new_area_to_cover = <<>> \/ next = Len(area_to_remove)
                 THEN "done" ELSE "loop"
  /\ UNCHANGED <<area_to_remove, input_region>>

\* The calls are enabled only when idle; the guard comes first so that TLC
\* does not enumerate the inputs in the other states.
Next ==
  \/ /\ pc = "idle"
     /\ \/ \E bb \in Rectangles, occ \in BoundedSeq(Rectangles, MaxRemove) :
             FindEmptySpaces(bb, occ)
        \/ \E region \in {s \in BoundedSeq(Rectangles, MaxRegion) :
                            \A i, j \in DOMAIN s : i # j => IsDisjoint(s[i], s[j])},
              remove \in BoundedSeq(Rectangles, 1) :
             PavedRegionDifference(region, remove)
  \/ RemoveRectangle

Spec == Init /\ [][Next]_vars

-----------------------------------------------------------------------------
Cells(r) == (r.x_min..r.x_max - 1) \X (r.y_min..r.y_max - 1)
CellsOf(s) == UNION {Cells(s[k]) : k \in DOMAIN s}

\* After every iteration of PavedRegionDifference, and so at its return,
\* the region is paved by non-empty, pairwise disjoint rectangles covering
\* exactly the input region minus the rectangles removed so far
\* (RegionDifference's four pieces, the loop, the swap and the break).
RegionIsDifference ==
  pc # "idle" =>
    /\ \A k \in DOMAIN original_region : Cells(original_region[k]) # {}
    /\ \A i, j \in DOMAIN original_region :
         i # j => Cells(original_region[i]) \cap Cells(original_region[j]) = {}
    /\ CellsOf(original_region)
         = CellsOf(input_region) \ CellsOf(SubSeq(area_to_remove, 1, next - 1))
====
