-------------------------- MODULE EnergyConflictMC --------------------------
(***************************************************************************)
(* FindRectanglesWithEnergyConflictMC of part_000: the Monte-Carlo walk    *)
(* that builds a ProbingRectangle over the items, and until the probe is   *)
(* minimal records it as a conflict (minimum energy above its area) or a   *)
(* candidate (above candidate_energy_usage_factor times its area), stops   *)
(* at zero energy, and otherwise shrinks one of the edges that can shrink. *)
(*                                                                         *)
(* The edge is drawn with weights read from the exponential table; every   *)
(* entry exp(-(i - 50) / 5) is positive, so every edge that can shrink may *)
(* be drawn, and the draw is a nondeterministic choice among them.         *)
(***************************************************************************)
EXTENDS Integers, SequencesExt

CONSTANTS Items, NoItem, MaxCoord, MinSize,
          FactorNum, FactorDen   \* candidate_energy_usage_factor = FactorNum / FactorDen

ASSUME FactorNum \in Nat /\ FactorDen \in Nat \ {0}

VARIABLES intervals, grouped_intervals_sorted_by_x, grouped_intervals_sorted_by_y,
          indexes, next_indexes, minimum_energy, ranges_touching_both_boundaries,
          corner_count, intersect_length, cached_delta_energy, probe_area,
          pc,           \* "loop", "exit" (after the loop) or "done" (returned)
          conflicts,    \* result.conflicts
          candidates,   \* result.candidates
          visited       \* history: the probes the walk reached, in order

PR == INSTANCE ProbingRectangle

probing == <<intervals, grouped_intervals_sorted_by_x, grouped_intervals_sorted_by_y,
             indexes, next_indexes, minimum_energy, ranges_touching_both_boundaries,
             corner_count, intersect_length, cached_delta_energy, probe_area>>
driver == <<pc, conflicts, candidates, visited>>
vars == <<probing, driver>>

\* IsMinimal() (declared in diffn_util.h): no edge can shrink.
IsMinimal == \A edge \in PR!Edges : ~PR!CanShrink(PR!State, edge)

\* Mutant: the LEFT and RIGHT deltas multiplied by the width instead of the
\* height.
GetShrinkDeltaAreaWrongSize(edge) ==
  LET rect == PR!CurrentRectangle
      coordinate == PR!GroupsOf(edge)[next_indexes[edge]].coordinate
  IN CASE edge = "LEFT"   -> (coordinate - rect.x_min) * (rect.x_max - rect.x_min)
       [] edge = "BOTTOM" -> (coordinate - rect.y_min) * (rect.x_max - rect.x_min)
       [] edge = "RIGHT"  -> (rect.x_max - coordinate) * (rect.x_max - rect.x_min)
       [] edge = "TOP"    -> (rect.y_max - coordinate) * (rect.x_max - rect.x_min)

\* GetShrinkDeltaArea(edge): the area between the edge and its next
\* coordinate.
GetShrinkDeltaArea(edge) ==
  LET rect == PR!CurrentRectangle
      coordinate == PR!GroupsOf(edge)[next_indexes[edge]].coordinate
  IN CASE edge = "LEFT"   -> (coordinate - rect.x_min) * (rect.y_max - rect.y_min)
       [] edge = "BOTTOM" -> (coordinate - rect.y_min) * (rect.x_max - rect.x_min)
       [] edge = "RIGHT"  -> (rect.x_max - coordinate) * (rect.y_max - rect.y_min)
       [] edge = "TOP"    -> (rect.y_max - coordinate) * (rect.x_max - rect.x_min)

IsConflict(min_energy, rect_area) == min_energy > rect_area
IsCandidate(min_energy, rect_area) == min_energy * FactorDen > FactorNum * rect_area

Init ==
  /\ PR!Init
  /\ pc = "loop"
  /\ conflicts = <<>> /\ candidates = <<>>
  /\ visited = <<PR!CurrentRectangle>>

\* One iteration of the while loop: record the probe, then break at zero
\* energy or shrink an edge drawn among those CanShrink allows.
Iterate ==
  /\ pc = "loop"
  /\ ~IsMinimal
  /\ LET rect == PR!CurrentRectangle
         rect_area == PR!Area(rect)
     IN /\ conflicts' = IF IsConflict(minimum_energy, rect_area)
                        THEN Append(conflicts, rect) ELSE conflicts
        /\ candidates' = IF ~IsConflict(minimum_energy, rect_area)
                            /\ IsCandidate(minimum_energy, rect_area)
                         THEN Append(candidates, rect) ELSE candidates
  /\ \/ /\ minimum_energy = 0
        /\ pc' = "exit"
        /\ UNCHANGED <<probing, visited>>
     \/ /\ minimum_energy # 0
        /\ \E edge \in {e \in PR!Edges : PR!CanShrink(PR!State, e)} : PR!Shrink(edge)
        /\ visited' = Append(visited, PR!CurrentRectangle')
        /\ UNCHANGED pc

\* Mutant: the function returns after the loop without testing the last
\* probe.
FinalCheckSkipped ==
  /\ \/ pc = "exit"
     \/ pc = "loop" /\ IsMinimal
  /\ pc' = "done"
  /\ UNCHANGED <<probing, conflicts, candidates, visited>>

\* The loop has ended (minimal probe or break): the last probe is tested
\* once more for a conflict, and the result returned.
FinalCheck ==
  /\ \/ pc = "exit"
     \/ pc = "loop" /\ IsMinimal
  /\ LET rect == PR!CurrentRectangle IN
       /\ conflicts' = IF IsConflict(minimum_energy, PR!Area(rect))
                       THEN Append(conflicts, rect) ELSE conflicts
  /\ pc' = "done"
  /\ UNCHANGED <<probing, candidates, visited>>

Next == Iterate \/ FinalCheck

Spec == Init /\ [][Next]_vars

-----------------------------------------------------------------------------
\* When FindRectanglesWithEnergyConflictMC returns, result.conflicts holds,
\* once each, exactly the probes the walk reached whose minimum energy,
\* recounted from the items as ValidateInvariants does, exceeds their area:
\* the tests in the loop see every probe but the last when the loop ends on
\* a minimal probe, which only the test after the loop sees; a break at
\* zero energy leaves no conflict untested.
ConflictsAreExact ==
  pc = "done" =>
    /\ IsInjective(conflicts)
    /\ Range(conflicts) =
         {r \in Range(visited) : PR!RecountEnergy(r) > PR!Area(r)}

\* GetShrinkDeltaArea(edge) is the area the probe loses when that edge is
\* shrunk (the energy_deltas the weights are computed from).
ShrinkDeltaAreaIsExact ==
  [][\A edge \in PR!Edges :
       PR!Shrink(edge) =>
         PR!Area(PR!CurrentRectangle) - GetShrinkDeltaArea(edge)
           = PR!Area(PR!CurrentRectangle')]_vars

\* The walk returns: every iteration that stays in the loop moves an edge
\* strictly inward (the +1 and -1 of the index switch and the scans after
\* it), so the number of coordinates between opposite edges, a natural
\* number, decreases at every iteration.
Width == (indexes.RIGHT - indexes.LEFT) + (indexes.TOP - indexes.BOTTOM)
WalkTerminates ==
  [][pc = "loop" /\ pc' = "loop" => 0 <= Width' /\ Width' < Width]_vars
=============================================================================
