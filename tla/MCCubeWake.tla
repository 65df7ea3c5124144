------------------------------ MODULE MCCubeWake ------------------------------
(***************************************************************************)
(* Instances of CubeWake for TLC.  The long times are scaled down to a few *)
(* slow polls.                                                             *)
(***************************************************************************)
EXTENDS CubeWake
===============================================================================
