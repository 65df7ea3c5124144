----------------------------- MODULE SlotUpdate -----------------------------
(***************************************************************************)
(* What the update promises the device, without tasks, downloads or        *)
(* commands.  One image runs and another waits on standby.  Only the       *)
(* standby is ever written; it is selected only when it is complete; and   *)
(* only a restart changes what runs, by exchanging the two, so that the    *)
(* image that ran is there to go back to.                                  *)
(***************************************************************************)
CONSTANTS
    Images,      \* complete images
    Contents     \* what a slot may hold: an image, or what is none

VARIABLES running, standby, selected

vars == <<running, standby, selected>>

Init == running \in Images /\ standby \in Contents /\ selected = FALSE

\* A download begins or ends a write, or spoils that of another.
Stage ==
    /\ standby' \in Contents
    /\ UNCHANGED <<running, selected>>

Select ==
    /\ standby \in Images
    /\ selected' = TRUE
    /\ UNCHANGED <<running, standby>>

\* A selection whose image was spoiled meanwhile is passed over, and stays.
Restart ==
    /\ selected /\ standby \in Images
    /\ running' = standby /\ standby' = running
    /\ selected' = FALSE

Next == Stage \/ Select \/ Restart

Spec == Init /\ [][Next]_vars
=============================================================================
