------------------------- MODULE MCRectangleGeometry -------------------------
(***************************************************************************)
(* The rectangle geometry of part_000 checked in one run: each behaviour   *)
(* is one call, of FindEmptySpaces, PavedRegionDifference,                 *)
(* FindPartialRectangleIntersections or one of the two                     *)
(* AppendPairwiseRestrictions, from the start of the call to its return.   *)
(* A call begins only while no other call is running.                      *)
(***************************************************************************)
EXTENDS RectangleIntersections, PairwiseRestrictions

GeometryInit == Init /\ SweepInit /\ PairwiseInit

GeometryNext ==
  \/ sweep_pc = "idle" /\ pw_pc = "idle" /\ Next /\ UNCHANGED <<sweep_vars, pw_vars>>
  \/ pc = "idle" /\ pw_pc = "idle" /\ SweepNext /\ UNCHANGED <<vars, pw_vars>>
  \/ pc = "idle" /\ sweep_pc = "idle" /\ PairwiseNext /\ UNCHANGED <<vars, sweep_vars>>

GeometrySpec == GeometryInit /\ [][GeometryNext]_<<vars, sweep_vars, pw_vars>>
====
