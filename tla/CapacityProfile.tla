--------------------------- MODULE CapacityProfile ---------------------------
(***************************************************************************)
(* CapacityProfile of part_000 (diffn_util.cc): rectangles and mandatory   *)
(* consumptions are added as events on the x axis; a sweep over the events *)
(* sorted by time builds the residual capacity profile, a step function of *)
(* x, and another computes the area under the span max y_max - min y_min. *)
(*                                                                         *)
(* The Event type, its constructors and its operator< are in diffn_util.h, *)
(* outside the repository: events are records, sorted by time.  std::sort  *)
(* leaves the order of equal times unspecified, so sorting is a choice     *)
(* among every time-sorted permutation.                                    *)
(***************************************************************************)
EXTENDS Integers, SequencesExt

CONSTANTS XMax,              \* x coordinates are 0..XMax
          YMax,              \* y coordinates and heights are 0..YMax
          MaxEvents,         \* bound on the events added before a Clear
          kMinIntegerValue   \* below every coordinate

Xs == 0..XMax
Ys == 0..YMax

\* The event types, and the events StartRectangleEvent, EndRectangleEvent
\* and ChangeMandatoryProfileEvent build (the change is kept in y_min).
START_RECTANGLE == "START_RECTANGLE"
END_RECTANGLE == "END_RECTANGLE"
CHANGE_MANDATORY_PROFILE == "CHANGE_MANDATORY_PROFILE"

StartRectangleEvent(index, x_min, y_min, y_max) ==
  [type |-> START_RECTANGLE, index |-> index, time |-> x_min, y_min |-> y_min, y_max |-> y_max]
EndRectangleEvent(index, x_max) ==
  [type |-> END_RECTANGLE, index |-> index, time |-> x_max, y_min |-> 0, y_max |-> 0]
ChangeMandatoryProfileEvent(time, delta) ==
  [type |-> CHANGE_MANDATORY_PROFILE, index |-> -1, time |-> time, y_min |-> delta, y_max |-> 0]

VARIABLES events,                 \* events_
          num_rectangles_added,   \* num_rectangles_added_
          profile,                \* the result of the last BuildResidualCapacityProfile
          bounding_area,          \* the result of the last GetBoundingArea, or -1
          rectangles,             \* history: the rectangles added since Clear
          mandatory               \* history: the consumptions added since Clear

vars == <<events, num_rectangles_added, profile, bounding_area, rectangles, mandatory>>

-----------------------------------------------------------------------------
(* The sweep.                                                              *)

\* std::sort(events_.begin(), events_.end()): any order by time.
SortedByTime(s) ==
  {t \in {[i \in DOMAIN s |-> s[f[i]]] : f \in Permutations(DOMAIN s)} :
     \A i \in 1..Len(t) - 1 : t[i].time <= t[i + 1].time}

\* The events of time events[i].time, from index i on.
GroupEnd(ev, i) ==
  LET later == {j \in i..Len(ev) : ev[j].time # ev[i].time}
  IN IF later = {} THEN Len(ev) + 1 ELSE CHOOSE j \in later : \A k \in later : j <= k

\* The switch on the event type: min_pq and max_pq hold the same indexes,
\* so they are one set of active [index, y_min, y_max] records.
ApplyEvent(st, event) ==
  CASE event.type = START_RECTANGLE ->
         [st EXCEPT !.active = @ \cup {[index |-> event.index, y_min |-> event.y_min,
                                        y_max |-> event.y_max]}]
    [] event.type = END_RECTANGLE ->
         [st EXCEPT !.active = {r \in @ : r.index # event.index}]
    [] event.type = CHANGE_MANDATORY_PROFILE ->
         [st EXCEPT !.mandatory_capacity = @ + event.y_min]

\* max_pq.Top().value + min_pq.Top().value: the largest y_max minus the
\* smallest y_min of the active rectangles.
Span(active) ==
  LET top == CHOOSE r \in active : \A o \in active : o.y_max <= r.y_max
      bottom == CHOOSE r \in active : \A o \in active : r.y_min <= o.y_min
  IN top.y_max - bottom.y_min

\* Mutant: the height is computed after every event, not after every group
\* of events of the same time.
RECURSIVE ProfileSweepPerEvent(_, _, _, _)
ProfileSweepPerEvent(ev, i, st, result) ==
  IF i > Len(ev) THEN result
  ELSE LET st2 == ApplyEvent(st, ev[i])
           new_height == IF st2.active = {} THEN 0
                         ELSE Span(st2.active) - st2.mandatory_capacity
           result2 == IF new_height # Last(result).height
                      THEN Append(result, [start |-> ev[i].time, height |-> new_height])
                      ELSE result
       IN ProfileSweepPerEvent(ev, i + 1, st2, result2)

\* The loop of BuildResidualCapacityProfile, from event i on.
RECURSIVE ProfileSweep(_, _, _, _)
ProfileSweep(ev, i, st, result) ==
  IF i > Len(ev) THEN result
  ELSE LET j == GroupEnd(ev, i)
           st2 == FoldLeft(ApplyEvent, st, SubSeq(ev, i, j - 1))
           new_height == IF st2.active = {} THEN 0
                         ELSE Span(st2.active) - st2.mandatory_capacity
           result2 == IF new_height # Last(result).height
                      THEN Append(result, [start |-> ev[i].time, height |-> new_height])
                      ELSE result
       IN ProfileSweep(ev, j, st2, result2)

\* Mutant: the elapsed interval is multiplied by the new height.
RECURSIVE AreaSweepNewHeight(_, _, _, _, _, _)
AreaSweepNewHeight(ev, i, st, area, previous_time, previous_height) ==
  IF i > Len(ev) THEN area
  ELSE LET j == GroupEnd(ev, i)
           current_time == ev[i].time
           st2 == FoldLeft(ApplyEvent, st, SubSeq(ev, i, j - 1))
           new_height == IF st2.active = {} THEN 0 ELSE Span(st2.active)
           area2 == IF previous_height # 0
                    THEN area + new_height * (current_time - previous_time)
                    ELSE area
       IN AreaSweepNewHeight(ev, j, st2, area2, current_time, new_height)

\* The loop of GetBoundingArea, from event i on.
RECURSIVE AreaSweep(_, _, _, _, _, _)
AreaSweep(ev, i, st, area, previous_time, previous_height) ==
  IF i > Len(ev) THEN area
  ELSE LET j == GroupEnd(ev, i)
           current_time == ev[i].time
           st2 == FoldLeft(ApplyEvent, st, SubSeq(ev, i, j - 1))
           new_height == IF st2.active = {} THEN 0 ELSE Span(st2.active)
           area2 == IF previous_height # 0
                    THEN area + previous_height * (current_time - previous_time)
                    ELSE area
       IN AreaSweep(ev, j, st2, area2, current_time, new_height)

NoActive == [active |-> {}, mandatory_capacity |-> 0]

-----------------------------------------------------------------------------
(* The member functions.                                                   *)

Init ==
  /\ events = <<>> /\ num_rectangles_added = 0
  /\ profile = <<>> /\ bounding_area = -1
  /\ rectangles = {} /\ mandatory = <<>>

Clear ==
  /\ events' = <<>> /\ num_rectangles_added' = 0
  /\ rectangles' = {} /\ mandatory' = <<>>
  /\ UNCHANGED <<profile, bounding_area>>

AddRectangle(x_min, x_max, y_min, y_max) ==
  /\ x_min <= x_max
  /\ Len(events) + 2 <= MaxEvents
  /\ IF x_min = x_max THEN UNCHANGED <<events, num_rectangles_added, rectangles>>
     ELSE /\ events' = events \o <<StartRectangleEvent(num_rectangles_added, x_min, y_min, y_max),
                                   EndRectangleEvent(num_rectangles_added, x_max)>>
          /\ num_rectangles_added' = num_rectangles_added + 1
          /\ rectangles' = rectangles \cup
               {[x_min |-> x_min, x_max |-> x_max, y_min |-> y_min, y_max |-> y_max]}
  /\ UNCHANGED <<profile, bounding_area, mandatory>>

AddMandatoryConsumption(x_min, x_max, y_height) ==
  /\ x_min <= x_max
  /\ Len(events) + 2 <= MaxEvents
  /\ IF x_min = x_max THEN UNCHANGED <<events, mandatory>>
     ELSE /\ events' = events \o <<ChangeMandatoryProfileEvent(x_min, y_height),
                                   ChangeMandatoryProfileEvent(x_max, -y_height)>>
          /\ mandatory' = Append(mandatory, [x_min |-> x_min, x_max |-> x_max, height |-> y_height])
  /\ UNCHANGED <<num_rectangles_added, profile, bounding_area, rectangles>>

BuildResidualCapacityProfile ==
  /\ \E sorted \in SortedByTime(events) :
       /\ events' = sorted
       /\ profile' = ProfileSweep(sorted, 1, NoActive,
                                  <<[start |-> kMinIntegerValue, height |-> 0]>>)
  /\ UNCHANGED <<num_rectangles_added, bounding_area, rectangles, mandatory>>

GetBoundingArea ==
  /\ \E sorted \in SortedByTime(events) :
       /\ events' = sorted
       /\ bounding_area' = AreaSweep(sorted, 1, NoActive, 0, kMinIntegerValue, 0)
  /\ UNCHANGED <<num_rectangles_added, profile, rectangles, mandatory>>

Next ==
  \/ Clear
  \/ \E x1, x2 \in Xs, y1, y2 \in Ys : y1 <= y2 /\ AddRectangle(x1, x2, y1, y2)
  \/ \E x1, x2 \in Xs, h \in Ys \ {0} : AddMandatoryConsumption(x1, x2, h)
  \/ BuildResidualCapacityProfile
  \/ GetBoundingArea

Spec == Init /\ [][Next]_vars

-----------------------------------------------------------------------------
(* Reference definitions, pointwise in x.                                  *)

Covering(x) == {r \in rectangles : r.x_min <= x /\ x < r.x_max}

MandatoryAt(x) ==
  FoldLeft(LAMBDA acc, m : IF m.x_min <= x /\ x < m.x_max THEN acc + m.height ELSE acc,
           0, mandatory)

\* The span of the rectangles over x, less the mandatory consumption there;
\* 0 where no rectangle covers x.
ResidualAt(x) ==
  IF Covering(x) = {} THEN 0 ELSE Span(Covering(x)) - MandatoryAt(x)

\* The height of a step function at x: the last step starting at or before x.
StepAt(p, x) ==
  p[CHOOSE i \in DOMAIN p : p[i].start <= x /\ \A k \in DOMAIN p : p[k].start <= x => k <= i].height

\* BuildResidualCapacityProfile returns the residual capacity at every x, as
\* a step function that starts at kMinIntegerValue with height 0, whose
\* steps start at increasing times and each change the height (the grouping
\* of events of equal time, the sort, and the dedup of equal heights).
ProfileIsResidualCapacity ==
  [][BuildResidualCapacityProfile =>
       /\ profile'[1] = [start |-> kMinIntegerValue, height |-> 0]
       /\ \A i \in 1..Len(profile') - 1 :
            /\ profile'[i].start < profile'[i + 1].start
            /\ profile'[i].height # profile'[i + 1].height
       /\ \A x \in Xs : StepAt(profile', x) = ResidualAt(x)]_vars

\* GetBoundingArea returns the area under the span of the rectangles.
BoundingAreaIsSpanArea ==
  [][GetBoundingArea =>
       bounding_area' =
         FoldLeft(LAMBDA acc, x : IF Covering(x) = {} THEN acc ELSE acc + Span(Covering(x)),
                  0, [i \in 1..XMax |-> i - 1])]_vars
=============================================================================
