---------------------------- MODULE MCSecureStore ----------------------------
(***************************************************************************)
(* Instances of SecureStore for TLC: two large entries exceed the plain    *)
(* text, a small one beside a large one fits.  The files of two bytes have *)
(* slices that start behind the end.  Five master keys are one more than   *)
(* can be in use: in RAM, in NVS, under the map and under the file.        *)
(***************************************************************************)
EXTENDS SecureStore, TLC

CONSTANTS Small, Big

MCWeight == (Small :> 1) @@ (Big :> 2)

Symmetry == Permutations(Keys) \cup Permutations(MasterKeys)
=============================================================================
