---------------------------- MODULE IntervalSweeps ----------------------------
(***************************************************************************)
(* The line sweeps of part_000 over a vector of IndexedInterval:           *)
(* ConstructOverlappingSets, GetOverlappingIntervalComponents and          *)
(* GetIntervalArticulationPoints.  Each sorts the caller's vector in place *)
(* and returns its result; ConstructOverlappingSets also appends a         *)
(* sentinel to the vector and swaps the intervals that leave the sweep to  *)
(* its front.                                                              *)
(*                                                                         *)
(* IndexedInterval and its comparators are in diffn_util.h, outside the    *)
(* repository: an interval is [start, end), ComparatorByStart orders by    *)
(* start only (std::sort then leaves the order of equal starts open, so    *)
(* the sort is a choice), ComparatorByStartThenEndThenIndex is the         *)
(* lexicographic order its name states.                                    *)
(***************************************************************************)
EXTENDS Integers, SequencesExt

CONSTANTS MaxIntervals,      \* the largest intervals->size() of a call
          MaxCoord,          \* starts and ends are 0..MaxCoord
          kMaxIntegerValue,  \* above every coordinate
          kMinIntegerValue   \* below every coordinate

ASSUME kMaxIntegerValue > MaxCoord /\ kMinIntegerValue < 0

\* The intervals a caller passes: non-empty (the DCHECK_LT of
\* GetIntervalArticulationPoints), with distinct indexes.
Inputs ==
  UNION {{[k \in 1..n |-> [index |-> k - 1, start |-> se[k][1], end |-> se[k][2]]] :
            se \in [1..n -> {p \in (0..MaxCoord) \X (0..MaxCoord) : p[1] < p[2]}]} :
         n \in 0..MaxIntervals}

Sentinel == [index |-> -1, start |-> kMaxIntegerValue, end |-> kMaxIntegerValue]

Min2(a, b) == IF a < b THEN a ELSE b
Max2(a, b) == IF a > b THEN a ELSE b

\* std::sort(..., ComparatorByStart()): any permutation sorted by start.
SortedByStart(v) ==
  {t \in {[i \in DOMAIN v |-> v[f[i]]] : f \in Permutations(DOMAIN v)} :
     IsSorted(t, LAMBDA a, b : a.start <= b.start)}

\* ComparatorByStartThenEndThenIndex.
ByStartThenEndThenIndex(a, b) ==
  \/ a.start < b.start
  \/ a.start = b.start /\ a.end < b.end
  \/ a.start = b.start /\ a.end = b.end /\ a.index < b.index

Swap(v, i, j) == [v EXCEPT ![i] = v[j], ![j] = v[i]]

-----------------------------------------------------------------------------
(* ConstructOverlappingSets.  The sweep state: the vector v (0-based       *)
(* indexes below, v[i + 1] in TLA+), start_index, end_index, min_end_in_set *)
(* and the result.                                                         *)

\* Mutant: an interval ending exactly at time is kept in the set.
RECURSIVE FlushFromKeepTouching(_, _, _)
FlushFromKeepTouching(s, i, time) ==
  IF i >= s.end_index THEN s
  ELSE LET w == s.v[i + 1]
           s1 == [s EXCEPT !.result[Len(s.result)] = Append(@, w.index)]
       IN FlushFromKeepTouching(
            IF w.end < time
            THEN [s1 EXCEPT !.v = Swap(@, s.start_index + 1, i + 1),
                            !.start_index = @ + 1]
            ELSE [s1 EXCEPT !.min_end_in_set = Min2(@, w.end)],
            i + 1, time)

\* The loop over [start_index, end_index): output every interval of the
\* set, move those that ended to the front and recompute min_end_in_set.
RECURSIVE FlushFrom(_, _, _)
FlushFrom(s, i, time) ==
  IF i >= s.end_index THEN s
  ELSE LET w == s.v[i + 1]
           s1 == [s EXCEPT !.result[Len(s.result)] = Append(@, w.index)]
       IN FlushFrom(
            IF w.end <= time
            THEN [s1 EXCEPT !.v = Swap(@, s.start_index + 1, i + 1),
                            !.start_index = @ + 1]
            ELSE [s1 EXCEPT !.min_end_in_set = Min2(@, w.end)],
            i + 1, time)

\* The do-while adding every interval that starts at time.
RECURSIVE AddStartingAt(_, _)
AddStartingAt(s, time) ==
  LET s1 == [s EXCEPT !.min_end_in_set = Min2(@, s.v[s.end_index + 1].end),
                      !.end_index = @ + 1]
  IN IF s1.end_index < Len(s1.v) /\ s1.v[s1.end_index + 1].start = time
     THEN AddStartingAt(s1, time)
     ELSE s1

\* The for loop over end_index.
RECURSIVE OverlappingSetsSweep(_)
OverlappingSetsSweep(s) ==
  IF s.end_index >= Len(s.v) THEN s
  ELSE LET time == s.v[s.end_index + 1].start
           flushed ==
             IF s.min_end_in_set <= time
             THEN LET f == FlushFrom([s EXCEPT !.result = Append(@, <<>>),
                                               !.min_end_in_set = kMaxIntegerValue],
                                     s.start_index, time)
                  IN IF Len(Last(f.result)) = 1
                     THEN [f EXCEPT !.result = Front(@)] ELSE f
             ELSE s
       IN OverlappingSetsSweep(AddStartingAt(flushed, time))

-----------------------------------------------------------------------------
(* GetOverlappingIntervalComponents, after its two early returns.          *)

\* Mutant: end_max_so_far takes the end of the last interval, not the max.
RECURSIVE ComponentsSweepLastEnd(_, _, _, _)
ComponentsSweepLastEnd(v, i, end_max_so_far, components) ==
  IF i >= Len(v) THEN components
  ELSE LET interval == v[i + 1]
       IN ComponentsSweepLastEnd(v, i + 1, interval.end,
            IF interval.start >= end_max_so_far
            THEN Append(components, <<interval.index>>)
            ELSE [components EXCEPT ![Len(components)] = Append(@, interval.index)])

RECURSIVE ComponentsSweep(_, _, _, _)
ComponentsSweep(v, i, end_max_so_far, components) ==
  IF i >= Len(v) THEN components
  ELSE LET interval == v[i + 1]
       IN ComponentsSweep(v, i + 1, Max2(end_max_so_far, interval.end),
            IF interval.start >= end_max_so_far
            THEN Append(components, <<interval.index>>)
            ELSE [components EXCEPT ![Len(components)] = Append(@, interval.index)])

-----------------------------------------------------------------------------
(* GetIntervalArticulationPoints: the loop from i = 1 on, over the state  *)
(* end_max_so_far, index_of_max, prev_end_max and articulation_points.    *)

\* Mutant: the guard against re-inserting the same articulation point is
\* dropped.
RECURSIVE ArticulationSweepNoDedup(_, _, _)
ArticulationSweepNoDedup(v, i, st) ==
  IF i >= Len(v) THEN st
  ELSE LET interval == v[i + 1]
       IN IF interval.start >= st.end_max_so_far
          THEN ArticulationSweepNoDedup(v, i + 1,
                 [st EXCEPT !.end_max_so_far = interval.end, !.index_of_max = i,
                            !.prev_end_max = kMinIntegerValue])
          ELSE LET points ==
                     IF st.prev_end_max # kMinIntegerValue /\ interval.start >= st.prev_end_max
                     THEN Append(st.articulation_points, st.index_of_max)
                     ELSE st.articulation_points
                   st1 == [st EXCEPT !.articulation_points = points]
               IN ArticulationSweepNoDedup(v, i + 1,
                    IF interval.end > st.end_max_so_far
                    THEN [st1 EXCEPT !.prev_end_max = st.end_max_so_far,
                                     !.end_max_so_far = interval.end, !.index_of_max = i]
                    ELSE IF interval.end > st.prev_end_max
                    THEN [st1 EXCEPT !.prev_end_max = interval.end]
                    ELSE st1)

RECURSIVE ArticulationSweep(_, _, _)
ArticulationSweep(v, i, st) ==
  IF i >= Len(v) THEN st
  ELSE LET interval == v[i + 1]
       IN IF interval.start >= st.end_max_so_far
          THEN ArticulationSweep(v, i + 1,
                 [st EXCEPT !.end_max_so_far = interval.end, !.index_of_max = i,
                            !.prev_end_max = kMinIntegerValue])
          ELSE LET points ==
                     IF /\ st.prev_end_max # kMinIntegerValue
                        /\ interval.start >= st.prev_end_max
                        /\ \/ st.articulation_points = <<>>
                           \/ Last(st.articulation_points) # st.index_of_max
                     THEN Append(st.articulation_points, st.index_of_max)
                     ELSE st.articulation_points
                   st1 == [st EXCEPT !.articulation_points = points]
               IN ArticulationSweep(v, i + 1,
                    IF interval.end > st.end_max_so_far
                    THEN [st1 EXCEPT !.prev_end_max = st.end_max_so_far,
                                     !.end_max_so_far = interval.end, !.index_of_max = i]
                    ELSE IF interval.end > st.prev_end_max
                    THEN [st1 EXCEPT !.prev_end_max = interval.end]
                    ELSE st1)

-----------------------------------------------------------------------------
VARIABLES input,       \* history: the vector the caller passed
          intervals,   \* the caller's vector, as the call leaves it
          result,      \* the call's result
          call         \* "none" before the call, then which function ran

vars == <<input, intervals, result, call>>

Init ==
  /\ input \in Inputs
  /\ intervals = input
  /\ result = <<>>
  /\ call = "none"

ConstructOverlappingSets(already_sorted) ==
  /\ call = "none"
  /\ already_sorted => IsSorted(intervals, LAMBDA a, b : a.start <= b.start)
  /\ \E sorted \in IF already_sorted THEN {intervals} ELSE SortedByStart(intervals) :
       LET s == OverlappingSetsSweep([v |-> Append(sorted, Sentinel),
                                      start_index |-> 0, end_index |-> 0,
                                      min_end_in_set |-> kMaxIntegerValue,
                                      result |-> <<>>])
       IN /\ intervals' = s.v
          /\ result' = s.result
  /\ call' = "sets"
  /\ UNCHANGED input

GetOverlappingIntervalComponents ==
  /\ call = "none"
  /\ IF Len(intervals) <= 1
     THEN /\ result' = IF intervals = <<>> THEN <<>> ELSE <<<<intervals[1].index>>>>
          /\ UNCHANGED intervals
     ELSE LET sorted == SortSeq(intervals, ByStartThenEndThenIndex)
          IN /\ intervals' = sorted
             /\ result' = ComponentsSweep(sorted, 1, sorted[1].end, <<<<sorted[1].index>>>>)
  /\ call' = "components"
  /\ UNCHANGED input

GetIntervalArticulationPoints ==
  /\ call = "none"
  /\ IF Len(intervals) < 3
     THEN result' = <<>> /\ UNCHANGED intervals
     ELSE \E sorted \in SortedByStart(intervals) :
            LET st == ArticulationSweep(sorted, 1,
                        [end_max_so_far |-> sorted[1].end, index_of_max |-> 0,
                         prev_end_max |-> kMinIntegerValue, articulation_points |-> <<>>])
            IN /\ intervals' = sorted
               /\ result' = [k \in DOMAIN st.articulation_points |->
                               sorted[st.articulation_points[k] + 1].index]
  /\ call' = "articulation"
  /\ UNCHANGED input

Next ==
  \/ \E already_sorted \in BOOLEAN : ConstructOverlappingSets(already_sorted)
  \/ GetOverlappingIntervalComponents
  \/ GetIntervalArticulationPoints

Spec == Init /\ [][Next]_vars
-----------------------------------------------------------------------------
(* Reference definitions on the input.                                     *)

Indexes == {input[k].index : k \in DOMAIN input}
IntervalOf(i) == input[i + 1]

\* The intervals that contain the point t.
CrossingAt(t) == {i \in Indexes : IntervalOf(i).start <= t /\ t < IntervalOf(i).end}

\* The maximal sets of at least two intervals that share a point.
MaximalOverlappingSets ==
  LET sets == {CrossingAt(t) : t \in 0..MaxCoord}
  IN {S \in sets : Cardinality(S) >= 2 /\ \A T \in sets : ~(S \subseteq T /\ S # T)}

Overlaps(i, j) ==
  IntervalOf(i).start < IntervalOf(j).end /\ IntervalOf(j).start < IntervalOf(i).end

\* The connected component of the interval graph on nodes that contains
\* the set S, grown to a fixpoint.
RECURSIVE ComponentFrom(_, _)
ComponentFrom(S, nodes) ==
  LET T == S \cup {j \in nodes : \E i \in S : Overlaps(i, j)}
  IN IF T = S THEN S ELSE ComponentFrom(T, nodes)

ConnectedComponentsOf(nodes) == {ComponentFrom({i}, nodes) : i \in nodes}

\* The intervals whose removal splits their component of the interval graph.
ArticulationPoints ==
  {i \in Indexes :
     Cardinality(ConnectedComponentsOf(Indexes \ {i}))
       > Cardinality(ConnectedComponentsOf(Indexes))}

-----------------------------------------------------------------------------
\* ConstructOverlappingSets returns every maximal set of two or more
\* intervals that share a point, each once and without repeated indexes
\* (the sweep's flush before deletions, the swaps to the front, the sentinel
\* that flushes the last set and the drop of singletons).
OverlappingSetsAreMaximal ==
  call = "sets" =>
    /\ \A k \in DOMAIN result : IsInjective(result[k])
    /\ IsInjective([k \in DOMAIN result |-> Range(result[k])])
    /\ {Range(result[k]) : k \in DOMAIN result} \ {{}} = MaximalOverlappingSets

\* "Do not output subset of size one": no set ConstructOverlappingSets
\* returns has fewer than two intervals (the flush the sentinel triggers
\* when min_end_in_set is still kMaxIntegerValue).
OverlappingSetsHaveTwoOrMore ==
  call = "sets" => \A k \in DOMAIN result : Len(result[k]) >= 2

\* GetOverlappingIntervalComponents returns the connected components of the
\* interval graph, each listed in the order of the sorted vector and the
\* components one after the other in that order (end_max_so_far).
ComponentsAreConnected ==
  call = "components" =>
    /\ {Range(result[k]) : k \in DOMAIN result}
         = ConnectedComponentsOf(Indexes)
    /\ FlattenSeq(result) = [k \in DOMAIN input |->
                               SortSeq(input, ByStartThenEndThenIndex)[k].index]

\* GetIntervalArticulationPoints returns each articulation point of the
\* interval graph once, whatever order the sort leaves equal starts in
\* (prev_end_max, its sentinel reset per component, and the re-insert guard).
ArticulationPointsAreExact ==
  call = "articulation" =>
    /\ IsInjective(result)
    /\ Range(result) = ArticulationPoints
====
