------------------------- MODULE MCCapacityProfile -------------------------
(***************************************************************************)
(* Model-checking instance of CapacityProfile: kMinIntegerValue is a       *)
(* coordinate below all those the model adds.                             *)
(***************************************************************************)
EXTENDS CapacityProfile

MCkMinIntegerValue == -1
=============================================================================
