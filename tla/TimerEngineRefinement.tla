----------------------- MODULE TimerEngineRefinement -----------------------
(***************************************************************************)
(* The refinement mapping from the engine of bf_timer_engine.c to the      *)
(* promise stated in FocusSession.                                         *)
(***************************************************************************)
EXTENDS TimerEngine

InSession == Counting \cup {"paused"}

phaseBar == CASE state = "timer_resettable" -> "running"
              [] state = "timer_locked"     -> "committed"
              [] state = "paused"           -> "suspended"
              [] state \in {"api_triggering", "cooldown"} -> "closing"
              [] OTHER -> "free"

goalBar   == IF state \in InSession THEN HalfSec * activeDur ELSE 0
servedBar == IF state \in InSession THEN worked + shaved ELSE 0
goalsBar  == {HalfSec * Duration[f] : f \in {g \in Faces : Duration[g] > 0}}

Session == INSTANCE FocusSession
             WITH Goals <- goalsBar, phase <- phaseBar,
                  goal <- goalBar, served <- servedBar

\* Every step of the engine is a step of the promised session or leaves it
\* alone: through queues, stale ticks, stalls and the init race (the whole of
\* bf_timer_engine.c).
ImplementsFocusSession == Session!Spec

\* Under the fairness of the tasks, a locked session is served and the cube
\* becomes free again.
KeepsFocusPromise == Session!FairSpec
=============================================================================
