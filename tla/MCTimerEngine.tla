--------------------------- MODULE MCTimerEngine ---------------------------
(***************************************************************************)
(* Instances of TimerEngine for TLC: the display face, the USB face, a     *)
(* face whose countdown starts resettable and one short enough to start    *)
(* locked.  The lock lasts 2 s and the warning comes at 1 s.               *)
(***************************************************************************)
EXTENDS TimerEnginePrompt

CONSTANTS Display, Usb, Long, Short

MCFaces == {Display, Usb, Long, Short}

MCDuration == [f \in MCFaces |-> CASE f = Display -> 0
                                   [] f = Usb     -> -1
                                   [] f = Long    -> 4
                                   [] f = Short   -> 2]
=============================================================================
