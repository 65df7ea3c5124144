------------------------------- MODULE Button -------------------------------
(***************************************************************************)
(* sk_button.c and sk_control.c: the one button.  button_task measures how *)
(* long it is held and announces it; the subscriber of button.released     *)
(* runs in that task and acts on the length, and enough quick taps wipe    *)
(* the device like a hold of ten seconds.                                  *)
(*                                                                         *)
(* A hold is as long as the thresholds it has passed: 0 before the         *)
(* debounce, 1 after it, then 2 to 5 at 1, 3, 5 and 10 s.  Time between    *)
(* taps advances in steps of a fraction of the tap window.                 *)
(***************************************************************************)
EXTENDS Naturals, Sequences

CONSTANTS
    Taps,    \* multi_tap_threshold
    Window   \* multi_tap_window_ms, in steps

ASSUME TapsAssumption   == Taps \in Nat /\ Taps >= 2
ASSUME WindowAssumption == Window \in Nat \ {0}

VARIABLES
    held,      \* the thresholds that this press has passed, or Up
    tapCount,  \* s_tap_count
    firstTap,  \* time since s_first_tap_us; more than Window is not told apart
    device,    \* "runs", or why it is about to restart
    tapAges    \* history: time since each of the last Taps short presses

tapVars    == <<tapCount, firstTap, tapAges>>
buttonVars == <<held, tapVars, device>>

Up        == 6
Debounced == 1
LongPress == 3   \* long_press_ms and SHORT_PRESS_MAX_MS
Restart   == 4   \* RESTART_MIN_MS
Reset     == 5   \* FACTORY_RESET_MIN_MS
Past      == Window + 1

ButtonInit ==
    /\ held = Up /\ device = "runs"
    /\ tapCount = 0 /\ firstTap = Past
    /\ tapAges = [i \in 1..Taps |-> Past]

ButtonBoots ==
    /\ held' = Up /\ device' = "runs"
    /\ tapCount' = 0 /\ firstTap' = Past
    /\ tapAges' = [i \in 1..Taps |-> Past]

Later(t) == IF t < Past THEN t + 1 ELSE t

\* One step of time, while it still makes a difference to a tap.
TapsAge ==
    /\ \E i \in 1..Taps : tapAges[i] < Past
    /\ firstTap' = Later(firstTap)
    /\ tapAges' = [i \in 1..Taps |-> Later(tapAges[i])]
    /\ UNCHANGED <<held, tapCount, device>>

(***************************************************************************)
(* button_task.                                                            *)
(***************************************************************************)
Presses ==
    /\ device = "runs" /\ held = Up
    /\ held' = 0
    /\ UNCHANGED <<tapVars, device>>

\* The next threshold is passed.
Holds ==
    /\ device = "runs" /\ held < Reset
    /\ held' = held + 1
    /\ UNCHANGED <<tapVars, device>>

\* The poll that sees the release may be the first to see the next threshold.
Lengths == {held, held + 1} \cap 0..Reset

\* A press of a second or more outlasts the tap window.
TapsAgain(d) == tapCount > 0 /\ firstTap <= Window /\ d = Debounced

\* Mutant of FirstTap: the window slides with every tap.
SlidingTap(d) == 0

\* The age of the window after a tap.
FirstTap(d) == IF TapsAgain(d) THEN firstTap ELSE 0

\* A press not yet announced as a long one counts as a tap.
Counts(d)   == d >= Debounced /\ held < LongPress

Wipes(d)    == \/ d = Reset
               \/ (Counts(d) /\ TapsAgain(d) /\ tapCount + 1 >= Taps)
Restarts(d) == d = Restart
Pairs(d)    == d >= Debounced /\ d < LongPress

Aged(age, d) == IF d > Debounced THEN Past ELSE age

CountsTap(d) ==
    /\ firstTap' = FirstTap(d)
    /\ tapAges' = [i \in 1..Taps |-> IF i = 1 THEN 0 ELSE Aged(tapAges[i - 1], d)]
    /\ tapCount' = IF ~ TapsAgain(d) THEN 1
                   ELSE IF tapCount + 1 < Taps THEN tapCount + 1 ELSE 0

KeepsTaps(d) ==
    /\ firstTap' = Aged(firstTap, d)
    /\ tapAges' = [i \in 1..Taps |-> Aged(tapAges[i], d)]
    /\ UNCHANGED tapCount

\* on_button_released and on_button_multi_tap: what a press of length d does.
Releases(d) ==
    /\ device = "runs" /\ held # Up /\ d \in Lengths
    /\ held' = Up
    /\ device' = IF Wipes(d) THEN "resets"
                 ELSE IF Restarts(d) THEN "restarts" ELSE "runs"
    /\ IF Counts(d) THEN CountsTap(d) ELSE KeepsTaps(d)

ButtonTypeOK ==
    /\ held \in 0..Up /\ device \in {"runs", "restarts", "resets"}
    /\ tapCount \in 0..(Taps - 1) /\ firstTap \in 0..Past
    /\ tapAges \in [1..Taps -> 0..Past]
=============================================================================
