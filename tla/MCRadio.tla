------------------------------- MODULE MCRadio -------------------------------
(***************************************************************************)
(* An instance of Radio for TLC.  The device starts with both slots filled *)
(* or with none; commands and power cycles reach the other contents of     *)
(* NVS, a primary that the driver refuses among them.                      *)
(***************************************************************************)
EXTENDS Radio

CONSTANTS home, office

MCInit == RadioInit /\ saved \in {<<home, office>>, <<None, None>>}

MCSpec == MCInit /\ [][RadioNext]_radioVars /\ RadioFairness
==============================================================================
