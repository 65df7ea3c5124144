-------------------------------- MODULE Power --------------------------------
(***************************************************************************)
(* bf_power.c: the power state that the device is in by its use, with the  *)
(* panel and the wake lock that follow it.  Subscribers, the periodic      *)
(* timer and the commands only put an event in a queue; one task takes     *)
(* them.  bf_power_init applies the first state in the main task.          *)
(*                                                                         *)
(* A timestamp is the time since, in a unit that the instance chooses;     *)
(* timestamps older than LowPower are not told apart.                      *)
(***************************************************************************)
EXTENDS Integers, Sequences

CONSTANTS
    QueueLen,             \* length of the event queue
    ScreenOff, LowPower,  \* SCREEN_OFF_MS, LOW_POWER_MS
    CheckPeriod,          \* CHECK_PERIOD_MS
    Prompt                \* whether no subscriber of power.state stalls the task

ASSUME QueueAssumption == QueueLen \in Nat \ {0}
ASSUME TimeAssumption  == /\ {ScreenOff, CheckPeriod} \subseteq Nat \ {0}
                          /\ LowPower \in Nat /\ ScreenOff <= LowPower
ASSUME FlagAssumption  == Prompt \in BOOLEAN

VARIABLES
    state,     \* s_state
    idle,      \* time since s_last_activity_us
    quiet,     \* time since s_last_countdown_us
    running,   \* s_timer_running
    down,      \* s_face_down
    queue,     \* s_q
    check,     \* time until s_tick_t fires
    panel,     \* whether the panel is on
    held,      \* s_no_sleep_held
    init,      \* how far bf_power_init is: "spawned", "panel", "lock", "up"
    use        \* history: what the accepted events said, and the time since

outputs   == <<panel, held>>
ladder    == <<state, idle, quiet, running, down, outputs>>
powerVars == <<ladder, queue, check, init, use>>

Awake  == {"active_timer", "active_idle"}
Dark   == {"screen_off", "low_power"}

\* Events: the state of the timer, the face, and, alike, a released button and a
\* kick (power.kick, an app that connects).
TimerEvt(runs)  == [type |-> "timer", on |-> runs]
FaceEvt(hidden) == [type |-> "face", on |-> hidden]
KickEvt         == [type |-> "kick", on |-> TRUE]
TickEvt         == [type |-> "tick", on |-> TRUE]
Events          == [type : {"timer", "face", "kick", "tick"}, on : BOOLEAN]

PowerInit ==
    /\ state = "active_idle" /\ idle = 0 /\ quiet = 0
    /\ running = FALSE /\ down = FALSE
    /\ queue = <<>> /\ check = CheckPeriod
    /\ panel = TRUE /\ held = FALSE
    /\ init = "spawned"
    /\ use = [running |-> FALSE, down |-> FALSE, touched |-> 0, counted |-> 0]

(***************************************************************************)
(* The end of bf_power_init, in the main task while the task already runs. *)
(* apply gets the state by value.                                          *)
(***************************************************************************)
ReadsState ==
    /\ init = "spawned"
    /\ init' = IF state \in Awake THEN "panel" ELSE "up"
    /\ IF state \in Awake THEN UNCHANGED outputs ELSE panel' = FALSE /\ held' = FALSE
    /\ UNCHANGED <<state, idle, quiet, running, down, queue, check, use>>

WakesPanel ==
    /\ init = "panel" /\ init' = "lock"
    /\ panel' = TRUE
    /\ UNCHANGED <<state, idle, quiet, running, down, held, queue, check, use>>

TakesLock ==
    /\ init = "lock" /\ init' = "up"
    /\ held' = TRUE
    /\ UNCHANGED <<state, idle, quiet, running, down, panel, queue, check, use>>

(***************************************************************************)
(* The subscribers, the commands and the timer: a full queue drops.        *)
(***************************************************************************)
\* What the accepted events said: a face up and a kick count as use twice, a
\* countdown while it runs.
Heard(e) ==
    [running |-> IF e.type = "timer" THEN e.on ELSE use.running,
     down    |-> IF e.type = "face" THEN e.on ELSE use.down,
     touched |-> IF e.type = "tick" THEN use.touched ELSE 0,
     counted |-> IF \/ e.type = "kick"
                    \/ e.type = "timer" /\ (e.on \/ use.running)
                    \/ e.type = "face" /\ ~ e.on THEN 0 ELSE use.counted]

Accept(e) == /\ Len(queue) < QueueLen
             /\ queue' = Append(queue, e)
             /\ use' = Heard(e)

Drop      == Len(queue) = QueueLen /\ UNCHANGED <<queue, use>>

Send(e) ==
    /\ Accept(e) \/ Drop
    /\ UNCHANGED <<ladder, check, init>>

OnTimerState(runs)    == Send(TimerEvt(runs))
OnFaceChanged(hidden) == Send(FaceEvt(hidden))
Kick                  == Send(KickEvt)

OnTick ==
    /\ check = 0 /\ check' = CheckPeriod
    /\ Accept(TickEvt) \/ Drop
    /\ UNCHANGED <<ladder, init>>

(***************************************************************************)
(* recompute, enter and apply, in the task.                                *)
(***************************************************************************)
\* Mutant of Decide: a running countdown comes before the hidden panel.
DecideTimerFirst(d, r, i, q) ==
    CASE r              -> "active_timer"
      [] d /\ ~ r       -> "screen_off"
      [] OTHER          -> IF q >= LowPower THEN "low_power"
                           ELSE IF i >= ScreenOff THEN "screen_off" ELSE "active_idle"

\* The hidden panel first, then the countdown, then how long nobody was there.
Decide(d, r, i, q) ==
    CASE d                                  -> "screen_off"
      [] ~ d /\ r                           -> "active_timer"
      [] ~ d /\ ~ r /\ q >= LowPower        -> "low_power"
      [] ~ d /\ ~ r /\ q < LowPower
           /\ i >= ScreenOff                -> "screen_off"
      [] OTHER                              -> "active_idle"

Enter(s) ==
    /\ state' = s
    /\ IF s = state THEN UNCHANGED outputs
       ELSE panel' = (s \in Awake) /\ held' = (s \in Awake)

Recompute(d, r, i, q) ==
    /\ down' = d /\ running' = r
    /\ idle'  = IF r /\ ~ d THEN 0 ELSE i
    /\ quiet' = IF r /\ ~ d THEN 0 ELSE q
    /\ Enter(Decide(d, r, i, q))

Takes(type) == /\ queue # <<>> /\ Head(queue).type = type
               /\ queue' = Tail(queue)
               /\ UNCHANGED <<check, init, use>>

HandleTimer ==
    /\ Takes("timer")
    /\ LET r == Head(queue).on IN Recompute(down, r, 0, IF r THEN 0 ELSE quiet)

\* Mutant of HandleFace: a turn does not count against the low power state.
HandleFaceIdle ==
    /\ Takes("face")
    /\ Recompute(Head(queue).on, running, 0, quiet)

HandleFace ==
    /\ Takes("face")
    /\ LET d == Head(queue).on IN Recompute(d, running, 0, IF d THEN quiet ELSE 0)

HandleKick == Takes("kick") /\ Recompute(down, running, 0, 0)
HandleTick == Takes("tick") /\ Recompute(down, running, idle, quiet)

PowerTask == HandleTimer \/ HandleFace \/ HandleKick \/ HandleTick

(***************************************************************************)
(* Time.                                                                   *)
(***************************************************************************)
Aged(a) == IF a > LowPower + CheckPeriod THEN a ELSE a + 1

\* The end of the init takes no time that counts.
PowerPass ==
    /\ init = "up"
    /\ check > 0 /\ check' = check - 1
    /\ Prompt => queue = <<>>
    /\ idle' = Aged(idle) /\ quiet' = Aged(quiet)
    /\ use' = [use EXCEPT !.touched = Aged(@),
                          !.counted = IF use.running /\ ~ use.down THEN 0 ELSE Aged(@)]
    /\ UNCHANGED <<state, running, down, outputs, queue, init>>

PowerNext ==
    \/ ReadsState \/ WakesPanel \/ TakesLock
    \/ \E b \in BOOLEAN : OnTimerState(b) \/ OnFaceChanged(b)
    \/ Kick \/ OnTick \/ PowerPass
    \/ PowerTask

PowerSpec == PowerInit /\ [][PowerNext]_powerVars

(***************************************************************************)
(* Properties.                                                             *)
(***************************************************************************)
\* The types; the state is ACTIVE_TIMER only with a countdown and a visible panel.
PowerTypeOK ==
    /\ state \in Awake \cup Dark
    /\ state = "active_timer" => running /\ ~ down
    /\ {idle, quiet} \subseteq 0..(LowPower + CheckPeriod + 1)
    /\ running \in BOOLEAN /\ down \in BOOLEAN
    /\ queue \in Seq(Events) /\ Len(queue) <= QueueLen
    /\ check \in 0..CheckPeriod
    /\ panel \in BOOLEAN /\ held \in BOOLEAN
    /\ init \in {"spawned", "panel", "lock", "up"}

\* Once nothing waits in the queue, the device is dark only because it lies on
\* its panel or nobody used it for SCREEN_OFF_MS, whatever order the events came
\* in and however late they were taken.
DarkForAReason ==
    queue = <<>> =>
        /\ use.down => state = "screen_off"
        /\ ~ use.down /\ use.running => state = "active_timer"
        /\ state = "screen_off" => use.down \/ use.touched >= ScreenOff
        /\ state = "low_power"  => ~ use.down

Unused == Prompt /\ queue = <<>> /\ ~ use.running /\ ~ use.down

\* While no subscriber stalls the task, a device that nobody uses is dark at the
\* first check after SCREEN_OFF_MS, and in low power within a check of
\* LOW_POWER_MS after the last countdown, turn or kick.
DarkInTime ==
    Unused =>
        /\ use.touched > ScreenOff + CheckPeriod => state \in Dark
        /\ use.counted > LowPower + CheckPeriod => state = "low_power"
        /\ state = "low_power" => use.counted >= LowPower - CheckPeriod
===============================================================================
