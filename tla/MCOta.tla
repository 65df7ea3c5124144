-------------------------------- MODULE MCOta --------------------------------
(***************************************************************************)
(* Instances of Ota for TLC: the factory image and one or two more.        *)
(***************************************************************************)
EXTENDS OtaRefinement
=============================================================================
