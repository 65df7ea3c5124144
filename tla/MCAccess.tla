------------------------------- MODULE MCAccess -------------------------------
(***************************************************************************)
(* An instance of Access for TLC: phones are alike.                        *)
(***************************************************************************)
EXTENDS Access, TLC

Symmetry == Permutations(Phones)
===============================================================================
