------------------------------- MODULE CubeWake -------------------------------
(***************************************************************************)
(* FaceDetector and Power together.  A committed face is published to the  *)
(* power task, which turns the panel off and on by it; the power state     *)
(* that the task publishes sets the period at which the detector samples,  *)
(* and so how soon the next face is seen.  The timer is any sequence of    *)
(* timer.state, the user any sequence of turns and kicks.                  *)
(***************************************************************************)
EXTENDS FaceDetector, Power

CONSTANTS
    Display,  \* BF_FACE_Z_DOWN: the cube lies on its panel
    Burst     \* events of the timer and the user that may wait; the rest of
              \* the queue is for the face and the check

ASSUME CubeAssumption == Display \in Faces \ {None} /\ Burst \in Nat

cubeVars == <<faceVars, powerVars>>

CubeInit == FaceInit /\ PowerInit

\* commit publishes in the polling task.
Sample ==
    /\ Poll
    /\ IF face' # face THEN OnFaceChanged(face' = Display) ELSE UNCHANGED powerVars

SampleFails == PollFails /\ UNCHANGED powerVars

TurnCube == Turn /\ UNCHANGED powerVars

\* enter publishes in the power task, and only when the state changes.
TakeEvent ==
    /\ PowerTask
    /\ IF state' # state THEN OnPowerState(state') ELSE UNCHANGED faceVars

\* bf_power_init publishes the state whatever it is.
EndInit ==
    /\ \/ ReadsState \/ WakesPanel \/ TakesLock
    /\ IF init' = "up" THEN OnPowerState(state) ELSE UNCHANGED faceVars

Others ==
    /\ Len(queue) < Burst
    /\ Kick \/ \E b \in BOOLEAN : OnTimerState(b)
    /\ UNCHANGED faceVars

Check == OnTick /\ UNCHANGED faceVars

Time == FacePass /\ PowerPass

CubeNext == \/ Sample \/ SampleFails \/ TurnCube
            \/ TakeEvent \/ EndInit \/ Others \/ Check
            \/ Time

CubeSpec == CubeInit /\ [][CubeNext]_cubeVars

(***************************************************************************)
(* Properties.                                                             *)
(***************************************************************************)
\* The types of both components.
CubeTypeOK == FaceTypeOK /\ PowerTypeOK
===============================================================================
