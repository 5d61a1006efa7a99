------------------------- MODULE MCEnergyConflictMC -------------------------
(***************************************************************************)
(* Model-checking instance of EnergyConflictMC: items are model values and *)
(* the order of the input vector is a symmetry, as for ProbingRectangle.   *)
(***************************************************************************)
EXTENDS EnergyConflictMC, TLC

ItemSymmetry == Permutations(Items)
=============================================================================
