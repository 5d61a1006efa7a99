------------------------- MODULE PairwiseRestrictions -------------------------
(***************************************************************************)
(* AppendPairwiseRestrictions of part_000: for each pair of boxes of a     *)
(* no_overlap_2d, four bits say in which directions box1 can still be      *)
(* placed apart from box2; no bit set is a CONFLICT, exactly one set is a  *)
(* precedence (FIRST_LEFT_OF_SECOND, ...) that is appended only when it    *)
(* tightens a bound.  Both overloads are one action each: the call with    *)
(* the whole of its two nested loops.                                      *)
(*                                                                         *)
(* ItemForPairwiseRestriction is declared in diffn_util.h; an item's x and *)
(* y are the bounds of an interval of fixed size, which every box with     *)
(* constant sizes gives.                                                   *)
(***************************************************************************)
EXTENDS Integers, Sequences, FiniteSets, Bitwise

CONSTANTS MaxItems,   \* the largest items.size() of a call
          MaxStart,   \* start_min and start_max are in 0..MaxStart
          MaxSize     \* sizes are in 1..MaxSize

PairwiseRestrictionTypes ==
  {"CONFLICT", "FIRST_LEFT_OF_SECOND", "FIRST_RIGHT_OF_SECOND",
   "FIRST_BELOW_SECOND", "FIRST_ABOVE_SECOND"}

ItemIntervals ==
  UNION {{[start_min |-> a, start_max |-> b, end_min |-> a + s, end_max |-> b + s] :
            b \in a..MaxStart} : a \in 0..MaxStart, s \in 1..MaxSize}

Boxes == [x : ItemIntervals, y : ItemIntervals]

\* The items of a call: indexes first .. first + Len(boxes) - 1.
Indexed(boxes, first) ==
  [k \in 1..Len(boxes) |-> [index |-> first + k - 1, x |-> boxes[k].x, y |-> boxes[k].y]]

BoxSeqs(n) == UNION {[1..k -> Boxes] : k \in 0..n}

Restriction(item1, item2, type) ==
  [first_index |-> item1.index, second_index |-> item2.index, type |-> type]

IsZeroOrPowerOfTwo(value) == (value & (value - 1)) = 0

Bit(cond) == IF cond THEN 1 ELSE 0

SeparationState(item1, item2) ==
  Bit(item1.x.end_min <= item2.x.start_max)
    + 2 * Bit(item2.x.end_min <= item1.x.start_max)
    + 4 * Bit(item1.y.end_min <= item2.y.start_max)
    + 8 * Bit(item2.y.end_min <= item1.y.start_max)

\* Mutant: the test without its second disjunct.
TightensEndMinOnly(first, second) == first.end_min > second.start_min

\* The test of cases 1 to 8: box1 ends after the earliest start of box2, or
\* box2 starts before the latest end of box1, on one axis.
Tightens(first, second) ==
  first.end_min > second.start_min \/ second.start_max < first.end_max

AppendPairwiseRestriction(item1, item2, result) ==
  LET state == SeparationState(item1, item2)
      Emit(type) == Append(result, Restriction(item1, item2, type))
  IN CASE ~IsZeroOrPowerOfTwo(state) -> result
       [] state = 0 -> Emit("CONFLICT")
       [] state = 1 /\ Tightens(item1.x, item2.x) -> Emit("FIRST_LEFT_OF_SECOND")
       [] state = 2 /\ Tightens(item2.x, item1.x) -> Emit("FIRST_RIGHT_OF_SECOND")
       [] state = 4 /\ Tightens(item1.y, item2.y) -> Emit("FIRST_BELOW_SECOND")
       [] state = 8 /\ Tightens(item2.y, item1.y) -> Emit("FIRST_ABOVE_SECOND")
       [] OTHER -> result

\* The loops of both overloads: the pairs <<i1, i2>> in the order they run.
RECURSIVE AppendPairs(_, _, _)
AppendPairs(pairs, items, result) ==
  IF pairs = <<>> THEN result
  ELSE AppendPairs(Tail(pairs), items,
         AppendPairwiseRestriction(items[Head(pairs)[1]], items[Head(pairs)[2]], result))

\* The pairs <<i1, i2>> of rows 1..rows, in loop order: i2 runs from i1 + 1
\* (one list) or from rows + 1 (against the other items) up to last.
PairsInOrder(rows, last, within) ==
  LET RECURSIVE Row(_)
      Row(i) == IF i > rows THEN <<>>
                ELSE LET first == IF within THEN i + 1 ELSE rows + 1
                     IN [k \in 1..(last - first + 1) |-> <<i, first + k - 1>>] \o Row(i + 1)
  IN Row(1)

\* for (i1 = 0; i1 + 1 < items.size(); ++i1) for (i2 = i1 + 1; ...)
AppendPairwiseRestrictions(items, result) ==
  AppendPairs(PairsInOrder(Len(items), Len(items), TRUE), items, result)

\* The overload with other_items: every item against every other item.
AppendPairwiseRestrictionsWithOthers(items, other_items, result) ==
  LET all == items \o other_items
  IN AppendPairs(PairsInOrder(Len(items), Len(all), FALSE), all, result)

-----------------------------------------------------------------------------
VARIABLES pw_items, pw_other_items, pw_result,
          pw_pc   \* "idle", or the overload that returned: "items" or "with_others"

pw_vars == <<pw_items, pw_other_items, pw_result, pw_pc>>

PairwiseInit ==
  /\ pw_items = <<>>
  /\ pw_other_items = <<>>
  /\ pw_result = <<>>
  /\ pw_pc = "idle"

CallAppendPairwiseRestrictions ==
  /\ pw_pc = "idle"
  /\ \E boxes \in BoxSeqs(MaxItems) :
       LET items == Indexed(boxes, 0)
       IN /\ pw_items' = items
          /\ pw_result' = AppendPairwiseRestrictions(items, pw_result)
  /\ pw_pc' = "items"
  /\ UNCHANGED pw_other_items

CallAppendPairwiseRestrictionsWithOthers ==
  /\ pw_pc = "idle"
  /\ \E boxes \in BoxSeqs(MaxItems - 1), others \in BoxSeqs(1) :
       LET items == Indexed(boxes, 0)
           other_items == Indexed(others, Len(boxes))
       IN /\ pw_items' = items
          /\ pw_other_items' = other_items
          /\ pw_result' = AppendPairwiseRestrictionsWithOthers(items, other_items, pw_result)
  /\ pw_pc' = "with_others"

PairwiseNext == CallAppendPairwiseRestrictions \/ CallAppendPairwiseRestrictionsWithOthers

-----------------------------------------------------------------------------
(* The reference: every placement of the two boxes.                        *)

Placements(iv) ==
  {[start |-> t, end |-> t + iv.end_min - iv.start_min] : t \in iv.start_min..iv.start_max}

Before(p, q) == p.end <= q.start

Apart(item1, item2, p1x, p1y, p2x, p2y) ==
  Before(p1x, p2x) \/ Before(p2x, p1x) \/ Before(p1y, p2y) \/ Before(p2y, p1y)

\* A restriction is implied when every placement of the pair that does not
\* overlap has it, and it removes a start of one of the boxes on its axis.
Implied(item1, item2, type) ==
  LET Holds(p1x, p1y, p2x, p2y) ==
        CASE type = "FIRST_LEFT_OF_SECOND" -> Before(p1x, p2x)
          [] type = "FIRST_RIGHT_OF_SECOND" -> Before(p2x, p1x)
          [] type = "FIRST_BELOW_SECOND" -> Before(p1y, p2y)
          [] type = "FIRST_ABOVE_SECOND" -> Before(p2y, p1y)
          [] type = "CONFLICT" -> FALSE
      axis == IF type \in {"FIRST_LEFT_OF_SECOND", "FIRST_RIGHT_OF_SECOND"} THEN "x" ELSE "y"
      first == IF type \in {"FIRST_LEFT_OF_SECOND", "FIRST_BELOW_SECOND"} THEN item1 ELSE item2
      second == IF first = item1 THEN item2 ELSE item1
      Removes ==
        \/ \E p \in Placements(first[axis]) : \A q \in Placements(second[axis]) : ~Before(p, q)
        \/ \E q \in Placements(second[axis]) : \A p \in Placements(first[axis]) : ~Before(p, q)
      AllPlacements ==
        Placements(item1.x) \X Placements(item1.y) \X Placements(item2.x) \X Placements(item2.y)
      ApartPlacements == {pl \in AllPlacements : Apart(item1, item2, pl[1], pl[2], pl[3], pl[4])}
  IN /\ \A pl \in ApartPlacements : Holds(pl[1], pl[2], pl[3], pl[4])
     /\ type = "CONFLICT" \/ (ApartPlacements # {} /\ Removes)

ReferenceRestrictions(items, pairs) ==
  UNION {{Restriction(items[pr[1]], items[pr[2]], t) :
            t \in {t \in PairwiseRestrictionTypes : Implied(items[pr[1]], items[pr[2]], t)}}
           : pr \in pairs}

CalledPairs ==
  IF pw_pc = "items"
  THEN {<<i, j>> \in (1..Len(pw_items)) \X (1..Len(pw_items)) : i < j}
  ELSE (1..Len(pw_items)) \X (Len(pw_items) + 1..Len(pw_items) + Len(pw_other_items))

-----------------------------------------------------------------------------
(* Properties.                                                             *)

\* After either call of AppendPairwiseRestrictions, the result holds, once
\* each, exactly the restrictions every non-overlapping placement of a pair
\* of boxes obeys and that remove a start of one of them (CONFLICT when no
\* placement of the pair is apart): the four separation bits, the
\* power-of-two test and the bound tests of AppendPairwiseRestriction decide
\* the same as placing the boxes.
RestrictionsAreExact ==
  pw_pc # "idle" =>
    LET all == pw_items \o pw_other_items
        expected == ReferenceRestrictions(all, CalledPairs)
    IN /\ {pw_result[k] : k \in DOMAIN pw_result} = expected
       /\ Len(pw_result) = Cardinality(expected)
====
