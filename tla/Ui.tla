---------------------------------- MODULE Ui ----------------------------------
(***************************************************************************)
(* bf_ui.c: the scenes on the panel.  Subscribers set flags in the tasks   *)
(* that publish and put events in a queue that drops when full; ui_task    *)
(* takes them and draws.  Two subscribers draw at once instead, in the     *)
(* battery's task, so two tasks can draw in the one framebuffer of         *)
(* bf_display.c.                                                           *)
(*                                                                         *)
(* A drawing is two steps: the choice of the picture from scene and flags, *)
(* and the transfer.  Percentages, digits and the two link icons are left  *)
(* out.                                                                    *)
(***************************************************************************)
EXTENDS Naturals, Sequences, SequencesExt

CONSTANT EventsLen  \* length of s_q

ASSUME EventsAssumption == EventsLen \in Nat \ {0}

VARIABLES
    phase,     \* how far bf_ui_init and the boot scenes are
    scene,     \* s_scene
    events,    \* s_q
    counting,  \* s_timer_counting
    hold,      \* s_hold_active
    locked,    \* s_battery_lockout
    charger,   \* s_battery_charging and s_battery_full
    low,       \* s_battery_low
    tilted,    \* s_tilted
    drawing,   \* the picture that each task is drawing, or Nothing
    spoiled,   \* history: drawings that overlap another, or that miss a change
    screen,    \* the picture on the panel
    stale,     \* history: the last drawing was spoiled or its transfer failed
    lost       \* history: kinds of events whose last one was dropped

flags   == <<counting, hold, locked, charger, low, tilted>>
canvas  == <<drawing, spoiled, screen, stale>>
uiVars  == <<phase, scene, events, flags, canvas, lost>>

Messages == {"break", "error"}
Scenes   == {"splash", "brand", "idle", "countdown"} \cup Messages
Kinds    == {"state", "tick", "down", "hold", "up", "render"} \cup Messages
Tasks    == {"bf_ui", "bf_battery"}

Marks    == {"hold", "charging", "full", "tilt"}
Blank    == [shows |-> "blank", marks |-> {}]
Nothing  == [shows |-> "nothing", marks |-> {}]

UiInit ==
    /\ phase = "off" /\ scene = "splash" /\ events = <<>>
    /\ counting = FALSE /\ hold = FALSE /\ locked = FALSE
    /\ charger = "discharging" /\ low = FALSE /\ tilted = FALSE
    /\ drawing = [t \in Tasks |-> Nothing] /\ spoiled = {}
    /\ screen = Blank /\ stale = TRUE /\ lost = {}

UiBoots ==
    /\ phase' = "off" /\ scene' = "splash" /\ events' = <<>>
    /\ counting' = FALSE /\ hold' = FALSE /\ locked' = FALSE
    /\ charger' = "discharging" /\ low' = FALSE /\ tilted' = FALSE
    /\ drawing' = [t \in Tasks |-> Nothing] /\ spoiled' = {}
    /\ screen' = Blank /\ stale' = TRUE /\ lost' = {}

Listens == phase # "off"
Idle(t) == drawing[t] = Nothing
Queued(kind) == Contains(events, kind)

(***************************************************************************)
(* render_current.  tiltOn is what bf_tilt_warn_is_enabled says.           *)
(***************************************************************************)
Bar(s, h)       == IF s = "idle" /\ h THEN {"hold"} ELSE {}
Plus(s, c)      == IF s = "countdown" THEN {c} \ {"discharging"} ELSE {}
Overlay(s, t)   == IF s \in {"idle", "countdown"} /\ t THEN {"tilt"} ELSE {}

\* The lockout overrides every scene.
PictureOf(lock, s, h, c, t) ==
    IF lock THEN [shows |-> "low battery", marks |-> {}]
    ELSE [shows |-> s, marks |-> Bar(s, h) \cup Plus(s, c) \cup Overlay(s, t)]

Picture(tiltOn) == PictureOf(locked, scene, hold, charger, tilted /\ tiltOn)

\* A task chooses its picture, after the changes of the same step.
Draws(t, tiltOn) ==
    /\ Idle(t)
    /\ drawing' = [drawing EXCEPT ![t] =
                     PictureOf(locked', scene', hold', charger', tilted /\ tiltOn)]
    /\ spoiled' = IF \A u \in Tasks : Idle(u) THEN spoiled \ {t} ELSE Tasks
    /\ UNCHANGED <<screen, stale>>

DrawsNothing == UNCHANGED canvas

\* bf_display_present: the transfer may fail half-way and is not repeated.
Presents(t) ==
    /\ ~ Idle(t)
    /\ screen' = drawing[t]
    /\ stale' \in {(t \in spoiled), TRUE}
    /\ drawing' = [drawing EXCEPT ![t] = Nothing]
    /\ UNCHANGED <<phase, scene, events, flags, spoiled, lost>>

\* What is drawn now does not show a change that asks for no drawing.
Misses == spoiled' = Tasks /\ stale' = TRUE /\ UNCHANGED <<drawing, screen>>

(***************************************************************************)
(* Subscribers.                                                            *)
(***************************************************************************)
\* xQueueSend with a zero timeout, for several events in a row.
Room           == EventsLen - Len(events)
Fits(kinds)    == SubSeq(kinds, 1, IF Room < Len(kinds) THEN Room ELSE Len(kinds))
Misfits(kinds) == Range(kinds) \ Range(Fits(kinds))

Sends(kinds) ==
    /\ events' = events \o Fits(kinds)
    /\ lost' = (lost \ Range(kinds)) \cup Misfits(kinds)

\* on_timer_state: the flag is the engine's state, the event only wakes the task.
OnTimerState(runs) ==
    /\ Listens
    /\ counting' = runs
    /\ Sends(<<"state">>) /\ DrawsNothing
    /\ UNCHANGED <<phase, scene, hold, locked, charger, low, tilted>>

\* The last timer.tick, timer.state "expired" and the "api_triggering" after it.
OnTimerExpired ==
    /\ Listens
    /\ counting' = FALSE
    /\ Sends(<<"tick", "break", "state", "state">>) /\ DrawsNothing
    /\ UNCHANGED <<phase, scene, hold, locked, charger, low, tilted>>

\* on_timer_tick, on_api_sent, on_button_down, on_button_hold, on_button_released.
Notices(kind) ==
    /\ IF Listens THEN Sends(<<kind>>) ELSE UNCHANGED <<events, lost>>
    /\ DrawsNothing
    /\ UNCHANGED <<phase, scene, flags>>

\* on_face_tilted: a drawing that was asked for in vain is missed.
OnFaceTilted(tilt) ==
    /\ Listens /\ tilt # tilted
    /\ tilted' = tilt
    /\ Sends(<<"render">>)
    /\ IF Len(events) < EventsLen THEN DrawsNothing ELSE Misses
    /\ UNCHANGED <<phase, scene, counting, hold, locked, charger, low>>

\* Mutant of OnBatteryLockout: the picture is left to the next event.
OnBatteryLockoutLater(active, tiltOn) ==
    /\ locked' = IF Listens THEN active ELSE locked
    /\ DrawsNothing
    /\ UNCHANGED <<phase, scene, events, counting, hold, charger, low, tilted, lost>>

\* on_battery_lockout draws in the task that publishes.
OnBatteryLockout(active, tiltOn) ==
    /\ locked' = IF Listens THEN active ELSE locked
    /\ UNCHANGED <<phase, scene, events, counting, hold, charger, low, tilted, lost>>
    /\ IF locked' # locked THEN Draws("bf_battery", tiltOn) ELSE DrawsNothing

\* on_battery_charge_state, likewise.
OnBatteryChargeState(state, tiltOn) ==
    /\ charger' = IF Listens THEN state ELSE charger
    /\ UNCHANGED <<phase, scene, events, counting, hold, locked, low, tilted, lost>>
    /\ IF charger' # charger THEN Draws("bf_battery", tiltOn) ELSE DrawsNothing

\* on_battery_event.
OnBatteryLevel(level) ==
    /\ low' = IF Listens THEN level # "ok" ELSE low
    /\ DrawsNothing
    /\ UNCHANGED <<phase, scene, events, counting, hold, locked, charger, tilted, lost>>

(***************************************************************************)
(* bf_ui_init and ui_task.                                                 *)
(***************************************************************************)
StartsUi ==
    /\ phase = "off" /\ phase' = "spawned"
    /\ DrawsNothing
    /\ UNCHANGED <<scene, events, flags, lost>>

BootScene == [spawned |-> "splash", splash |-> "brand", brand |-> "idle"]

\* Splash, brand, wordmark, with nothing taken from the queue for four seconds.
ShowsBoot(tiltOn) ==
    /\ phase \in DOMAIN BootScene
    /\ scene' = BootScene[phase]
    /\ phase' = IF scene' = "idle" THEN "runs" ELSE scene'
    /\ UNCHANGED <<events, flags, lost>>
    /\ Draws("bf_ui", tiltOn)

Takes(kind) ==
    /\ phase = "runs" /\ Idle("bf_ui")
    /\ events # <<>> /\ Head(events) = kind
    /\ events' = Tail(events)
    /\ UNCHANGED <<phase, counting, locked, charger, low, tilted, lost>>

TimerScene == IF counting THEN "countdown" ELSE "idle"

HandlesState(tiltOn) ==
    /\ Takes("state")
    /\ scene' = IF scene \in Messages THEN scene ELSE TimerScene
    /\ UNCHANGED hold
    /\ Draws("bf_ui", tiltOn)

HandlesTick(tiltOn) ==
    /\ Takes("tick")
    /\ UNCHANGED <<scene, hold>>
    /\ IF scene = "countdown" THEN Draws("bf_ui", tiltOn) ELSE DrawsNothing

HandlesMessage(kind, tiltOn) ==
    /\ kind \in Messages /\ Takes(kind)
    /\ scene' = kind
    /\ UNCHANGED hold
    /\ Draws("bf_ui", tiltOn)

\* button.down starts the bar, button.hold only feeds it, the release ends it.
HandlesButton(kind, tiltOn) ==
    /\ kind \in {"down", "hold", "up"} /\ Takes(kind)
    /\ hold' = (kind = "down" \/ (kind = "hold" /\ hold))
    /\ UNCHANGED scene
    /\ IF scene = "idle" THEN Draws("bf_ui", tiltOn) ELSE DrawsNothing

HandlesRender(tiltOn) ==
    /\ Takes("render")
    /\ UNCHANGED <<scene, hold>>
    /\ Draws("bf_ui", tiltOn)

\* Mutant of EndsMessage: a message always ends in the wordmark.
EndsMessageIdle(tiltOn) ==
    /\ phase = "runs" /\ Idle("bf_ui") /\ scene \in Messages
    /\ scene' = "idle"
    /\ UNCHANGED <<phase, events, flags, lost>>
    /\ Draws("bf_ui", tiltOn)

\* The deadline of a message has passed.
EndsMessage(tiltOn) ==
    /\ phase = "runs" /\ Idle("bf_ui") /\ scene \in Messages
    /\ scene' = TimerScene
    /\ UNCHANGED <<phase, events, flags, lost>>
    /\ Draws("bf_ui", tiltOn)

\* The icon of a low battery blinks in the countdown.
Blinks(tiltOn) ==
    /\ phase = "runs" /\ Idle("bf_ui") /\ scene = "countdown" /\ low
    /\ UNCHANGED <<phase, scene, events, flags, lost>>
    /\ Draws("bf_ui", tiltOn)

UiTask(tiltOn) ==
    \/ ShowsBoot(tiltOn)
    \/ HandlesState(tiltOn) \/ HandlesTick(tiltOn) \/ HandlesRender(tiltOn)
    \/ \E kind \in Kinds : HandlesMessage(kind, tiltOn) \/ HandlesButton(kind, tiltOn)
    \/ EndsMessage(tiltOn) \/ Blinks(tiltOn)

UiTypeOK ==
    /\ phase \in {"off", "spawned", "splash", "brand", "runs"} /\ scene \in Scenes
    /\ events \in Seq(Kinds) /\ Len(events) <= EventsLen
    /\ {counting, hold, locked, low, tilted, stale} \subseteq BOOLEAN
    /\ charger \in {"discharging", "charging", "full"}
    /\ spoiled \subseteq Tasks /\ lost \subseteq Kinds
    /\ DOMAIN drawing = Tasks
=============================================================================
