------------------------- MODULE MCProbingRectangle -------------------------
(***************************************************************************)
(* Model-checking instance of ProbingRectangle: items are model values, so *)
(* the order of the vector given to the constructor is a symmetry (the     *)
(* class sorts the points and only sums over items).                       *)
(***************************************************************************)
EXTENDS ProbingRectangle, TLC

ItemSymmetry == Permutations(Items)

=============================================================================
