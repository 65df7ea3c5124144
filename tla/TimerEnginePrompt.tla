------------------------- MODULE TimerEnginePrompt -------------------------
(***************************************************************************)
(* bf_timer_engine.c against the clock.  Handlers take milliseconds, but a *)
(* subscriber of the bus can hold timer_task up for seconds; what comes on *)
(* time then, and what only without such a stall, needs one more history   *)
(* variable beside the engine's own state.                                 *)
(***************************************************************************)
EXTENDS TimerEngineRefinement

VARIABLE
    late  \* history: since the last start, time passed, a tick fired or a
          \* face was committed while an event waited for the task

InitOnTime == Init /\ late = FALSE

Waiting == queue # <<>>

NextWatched ==
    \/ /\ FinishBoot \/ OnCooldownDone \/ TriggerEnds
       /\ UNCHANGED late
    \/ /\ TurnCube \/ OnTick \/ Pass
       /\ late' = (late \/ Waiting)
    \/ /\ TimerTask
       /\ late' = (late /\ ~ \E f \in Faces : FaceStarts(f))

WatchedSpec == InitOnTime /\ [][NextWatched]_<<vars, late>>

\* The fairness of TimerEngine!FairSpec: the history variable gives no task a
\* step it would not have otherwise.
FairWatchedSpec == /\ WatchedSpec
                   /\ WF_vars(TimerTask) /\ SF_vars(TriggerEnds)
                   /\ WF_vars(FinishBoot)
                   /\ WF_vars(OnTick) /\ SF_vars(OnCooldownDone) /\ SF_vars(Pass)

\* The lock starts on time: unless an event had to wait in this countdown, one
\* that is still resettable has more than LOCK_REMAINING_SEC left, counted from
\* the last tick, across restarts that inherit the tick's phase and across
\* resumes (handle_tick, start_countdown, resume_countdown).
LocksInTime ==
    state = "timer_resettable" /\ queue = <<>> /\ ~ late =>
        left + tick >= HalfSec * (LockSec + 1)

WarnedStep ==
    state \in Counting /\ state' \in {"api_triggering", "cooldown"} /\ ~ late =>
        pulses = 1

\* Every countdown that expires without such a wait gave its final warning
\* exactly once: the latch of handle_tick is neither left set by an earlier
\* countdown nor skipped.
WarnedBeforeExpiry == [][WarnedStep]_<<vars, late>>
=============================================================================
