-------------------------------- MODULE Panel --------------------------------
(***************************************************************************)
(* What the user sees and does: the battery monitor, the motor, the button *)
(* and the scenes on the panel, joined by the event bus of sk_event_bus.c, *)
(* which runs every subscriber in the task that publishes, and by the pin  *)
(* of the motor, which keeps the monitor from reading.  The timer engine,  *)
(* the detector, the outbound calls and the commands of an app are what    *)
(* they publish.  A restart loses all but the flash and the charger.       *)
(***************************************************************************)
EXTENDS Battery, Vibration, Button, Ui

CONSTANTS
    Scenarios,  \* what the environment does: which readings the cell gives,
                \* which inputs there are, how many at most, and the longest
                \* press of the button
    Burst       \* pulses of a longer pattern

Inputs == {"charger", "timer", "call", "cube", "motor", "warning", "button"}

ASSUME ScenariosAssumption ==
    Scenarios \subseteq [volts : SUBSET Volts, inputs : SUBSET Inputs,
                          most : Nat, press : 0..Reset]
ASSUME BurstAssumption == Burst \in Nat \ {0}

VARIABLES
    scenario,  \* the scenario of this behaviour
    inputs     \* how many inputs there were

panelVars == <<batteryVars, vibrationVars, buttonVars, uiVars, scenario, inputs>>

tiltOn == switch["tilt"]

Init == /\ BatteryInit /\ vbus \in BOOLEAN
        /\ VibrationInit /\ ButtonInit /\ UiInit
        /\ scenario \in Scenarios /\ inputs = 0

(***************************************************************************)
(* The environment.                                                        *)
(***************************************************************************)
Input(kind) ==
    /\ kind \in scenario.inputs /\ inputs < scenario.most
    /\ inputs' = inputs + 1
    /\ UNCHANGED scenario

NoInput == UNCHANGED <<scenario, inputs>>

Plugs == /\ Input("charger") /\ PlugsCharger
         /\ UNCHANGED <<vibrationVars, buttonVars, uiVars>>

TimerChanges == /\ Input("timer")
                /\ \E runs \in BOOLEAN : OnTimerState(runs)
                /\ UNCHANGED <<batteryVars, vibrationVars, buttonVars>>

\* A tick of the countdown; the last but one second of it pulses.
TimerTicks == /\ Input("timer") /\ counting /\ Notices("tick")
              /\ UNCHANGED patterns \/ Enqueues(1)
              /\ UNCHANGED <<batteryVars, switch, saved, pulses, worker, pin, buttonVars>>

TimerExpires == /\ Input("timer") /\ counting /\ OnTimerExpired
                /\ Enqueues(Burst)
                /\ UNCHANGED <<batteryVars, switch, saved, pulses, worker, pin, buttonVars>>

CallFails == /\ Input("call") /\ Listens /\ Notices("error")
             /\ UNCHANGED <<batteryVars, vibrationVars, buttonVars>>

\* face.tilted has a subscriber in bf_vibration.c and one in bf_ui.c.
CubeTilts == /\ Input("cube")
             /\ \E tilt \in BOOLEAN :
                   /\ OnFaceTilted(tilt)
                   /\ IF tilt /\ tiltOn THEN Enqueues(Burst) ELSE UNCHANGED patterns
             /\ UNCHANGED <<batteryVars, switch, saved, pulses, worker, pin, buttonVars>>

SwitchesMotor == /\ Input("motor")
                 /\ \E on \in BOOLEAN : SetsEnabled(on)
                 /\ UNCHANGED <<batteryVars, buttonVars, uiVars>>

\* vibration.burst plays the pattern of an expiry.
BurstsMotor == /\ Input("motor") /\ Enqueues(Burst)
               /\ UNCHANGED <<batteryVars, switch, saved, pulses, worker, pin, buttonVars, uiVars>>

\* The overlay of a tilted cube is drawn or cleared at the next occasion.
SwitchesWarning == /\ Input("warning")
                   /\ \E s \in Switches, on \in BOOLEAN : SetsWarning(s, on)
                   /\ IF tilted /\ tiltOn' # tiltOn THEN Misses ELSE DrawsNothing
                   /\ UNCHANGED <<batteryVars, buttonVars, phase, scene, events, flags, lost>>

PressesButton == /\ Input("button") /\ Presses
                 /\ UNCHANGED <<batteryVars, vibrationVars, uiVars>>

Environment == \/ Plugs \/ TimerChanges \/ TimerTicks \/ TimerExpires \/ CallFails
               \/ CubeTilts \/ SwitchesMotor \/ BurstsMotor \/ SwitchesWarning
               \/ PressesButton

(***************************************************************************)
(* button_task.  A press that restarts the device never comes back from    *)
(* the subscriber of sk_control.c, which is before the one of bf_ui.c.     *)
(***************************************************************************)
\* Mutant of Announced: the release of a long press is not announced.
AnnouncedShort(d) == d \in Debounced..(LongPress - 1)

Announced(d) == d \in Debounced..(Restart - 1)

HoldsButton == /\ Holds /\ held < scenario.press
               /\ Notices(IF held' = Debounced THEN "down" ELSE "hold")
               /\ UNCHANGED <<batteryVars, vibrationVars>>
               /\ NoInput

ReleasesButton ==
    /\ \E d \in 0..Reset : /\ Releases(d)
                           /\ IF Announced(d) THEN Notices("up") ELSE UNCHANGED uiVars
    /\ UNCHANGED <<batteryVars, vibrationVars>>
    /\ NoInput

TimePasses == /\ TapsAge
              /\ UNCHANGED <<batteryVars, vibrationVars, uiVars>>
              /\ NoInput

(***************************************************************************)
(* monitor_task and what its publications run.  Its first sample is over   *)
(* before app_main comes to bf_ui_init, the second comes after the boot    *)
(* scenes.  load_active: no sample while the motor is on.                  *)
(***************************************************************************)
Samples ==
    /\ ~ pin
    /\ step = "first" \/ phase = "runs"
    /\ \E mv \in scenario.volts : TakesSample(mv)
    /\ UNCHANGED <<vibrationVars, buttonVars, uiVars>>
    /\ NoInput

PublishesCharge ==
    /\ Idle("bf_battery")
    /\ \E rising \in BOOLEAN : UpdatesCharge(rising)
    /\ IF charge' # charge THEN OnBatteryChargeState(charge', tiltOn) ELSE UNCHANGED uiVars
    /\ UNCHANGED <<vibrationVars, buttonVars>>
    /\ NoInput

PublishesLockout ==
    /\ Idle("bf_battery") /\ UpdatesLockout
    /\ IF lockout' # lockout THEN OnBatteryLockout(lockout', tiltOn) ELSE UNCHANGED uiVars
    /\ UNCHANGED <<vibrationVars, buttonVars>>
    /\ NoInput

PublishesLevel ==
    /\ Idle("bf_battery") /\ UpdatesLevel
    /\ IF Alerts THEN OnBatteryLevel(level') ELSE UNCHANGED uiVars
    /\ IF Alerts /\ level' = "low" /\ switch["low_battery"]
       THEN Enqueues(Burst) ELSE UNCHANGED patterns
    /\ UNCHANGED <<switch, saved, pulses, worker, pin, buttonVars>>
    /\ NoInput

MonitorTask == PublishesCharge \/ PublishesLockout \/ PublishesLevel

(***************************************************************************)
(* app_main, ui_task, worker_task, the drawings and the restart.           *)
(***************************************************************************)
InitsUi == /\ step = "rest" /\ StartsUi
           /\ UNCHANGED <<batteryVars, vibrationVars, buttonVars>>
           /\ NoInput

UiWorks == /\ UiTask(tiltOn)
           /\ UNCHANGED <<batteryVars, vibrationVars, buttonVars>>
           /\ NoInput

Transfers(t) == /\ Presents(t)
                /\ UNCHANGED <<batteryVars, vibrationVars, buttonVars>>
                /\ NoInput

MotorWorks == /\ WorkerTask
              /\ UNCHANGED <<batteryVars, buttonVars, uiVars>>
              /\ NoInput

\* esp_restart, some hundred milliseconds after it was announced.
Reboots ==
    /\ device # "runs"
    /\ BatteryBoots /\ VibrationBoots /\ ButtonBoots /\ UiBoots
    /\ NoInput

Next == \/ Environment
        \/ HoldsButton \/ ReleasesButton \/ TimePasses
        \/ Samples \/ MonitorTask
        \/ InitsUi \/ UiWorks \/ MotorWorks \/ Reboots
        \/ \E t \in Tasks : Transfers(t)

Spec == Init /\ [][Next]_panelVars

(***************************************************************************)
(* Every task goes on; the monitor reads again whenever the motor is off   *)
(* often enough; a finger leaves the button.                               *)
(***************************************************************************)
FairSpec == /\ Spec
            /\ WF_panelVars(InitsUi) /\ WF_panelVars(UiWorks)
            /\ WF_panelVars(MotorWorks) /\ WF_panelVars(MonitorTask)
            /\ SF_panelVars(Samples) /\ WF_panelVars(ReleasesButton)
            /\ WF_panelVars(Reboots)
            /\ \A t \in Tasks : WF_panelVars(Transfers(t))

(***************************************************************************)
(* Properties.                                                             *)
(***************************************************************************)
AllDrawn == \A t \in Tasks : Idle(t)

\* LOW BATTERY stands on the panel exactly while bf_battery.c holds its latch.
LockoutShown == screen.shows = "low battery" <=> lockout

\* The panel shows the scene and the flags of bf_ui.c as they are now.
PictureCurrent == ~ Queued("render") => screen = Picture(tiltOn)

\* Whatever the scenes do, each change of the latch, the scene or a flag is on
\* the panel as soon as no task draws: it asked for a drawing, in the one task
\* or the other.  Drawings that overlap and failing transfers spoil that.
ScreenTruthful == AllDrawn /\ ~ stale => LockoutShown /\ PictureCurrent

\* The countdown is on the panel exactly while the engine counts: no order of
\* messages, boot scenes and state changes leaves the wrong scene, unless the
\* last timer.state found the queue full.
SceneFollowsTimer ==
    phase = "runs" /\ scene \notin Messages /\ ~ Queued("state") /\ "state" \notin lost
        => (scene = "countdown" <=> counting)

\* The hold bar stands only while the button is down, or until the restart
\* that the hold has asked for, unless the release found the queue full.
HoldBarFollows ==
    hold /\ ~ Queued("up") /\ "up" \notin lost
        => held \in Debounced..Reset \/ device # "runs"

WipeStep ==
    device = "runs" /\ device' = "resets" =>
        \/ held >= Restart
        \/ \A i \in 1..Taps : tapAges'[i] <= Window

\* The button wipes the device only on purpose: after a hold of about ten
\* seconds, or when so many short presses fell into one tap window
\* (button_task, on_button_released, on_button_multi_tap).
WipeMeant == [][WipeStep]_panelVars

\* A charger that stays plugged ends the lockout, also if the motor was on or
\* the device restarts, and takes LOW BATTERY from the panel unless its last
\* drawing was spoiled.
LockoutLifts ==
    <>[]vbus => <>[](~ lockout /\ (screen.shows = "low battery" => stale \/ ~ AllDrawn))
=============================================================================
