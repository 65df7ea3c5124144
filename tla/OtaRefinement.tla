--------------------------- MODULE OtaRefinement ---------------------------
(***************************************************************************)
(* The refinement mapping from the update of sk_ota.c to the promise       *)
(* stated in SlotUpdate.                                                   *)
(***************************************************************************)
EXTENDS Ota

\* The slot that is not running, whatever the tasks take for it.
standbySlot == 1 - run

Update == INSTANCE SlotUpdate
            WITH Contents <- Images \cup {Incomplete}, running <- slot[run],
                 standby <- slot[standbySlot], selected <- boot = standbySlot

\* Every step of checks, overlapping downloads, rollbacks, restarts and power cuts
\* is a step of the promised update or leaves it alone: nothing writes to what
\* runs, nothing incomplete is selected, and a restart exchanges the two images or
\* leaves them (the whole of sk_ota.c).
ImplementsSlotUpdate == Update!Spec
=============================================================================
