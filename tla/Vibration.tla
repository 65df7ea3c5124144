------------------------------ MODULE Vibration ------------------------------
(***************************************************************************)
(* bf_vibration.c: a worker drives the motor through the patterns in its   *)
(* queue; commands of an app switch the motor and the two warnings on and  *)
(* off, now and in the flash.  The commands run in tasks of a transport,   *)
(* the Bluetooth one above the worker: one can come between the worker's   *)
(* look at the switch and its write to the pin.                            *)
(***************************************************************************)
EXTENDS Naturals, Sequences

CONSTANT PatternsLen  \* length of s_queue

ASSUME PatternsAssumption == PatternsLen \in Nat \ {0}

VARIABLES
    switch,    \* s_vibration_enabled, s_tilt_warn_enabled, s_low_batt_warn_enabled
    saved,     \* the same three in the flash
    patterns,  \* s_queue: how many pulses each pattern has
    pulses,    \* pulses the worker has still to give of its pattern
    worker,    \* where worker_task is
    pin        \* PIN_VIBRATION is high

motorVars     == <<patterns, pulses, worker, pin>>
vibrationVars == <<switch, saved, motorVars>>

Switches == {"vibration", "tilt", "low_battery"}
Defaults == [s \in Switches |-> TRUE]

VibrationInit ==
    /\ switch = Defaults /\ saved = Defaults
    /\ patterns = <<>> /\ pulses = 0
    /\ worker = "waits" /\ pin = FALSE

\* bf_vibration_init: the switches are what the flash says, the pin is low.
VibrationBoots ==
    /\ switch' = saved
    /\ patterns' = <<>> /\ pulses' = 0
    /\ worker' = "waits" /\ pin' = FALSE
    /\ UNCHANGED saved

\* enqueue: a pattern that does not fit is lost.
Enqueues(n) ==
    patterns' = IF Len(patterns) < PatternsLen THEN Append(patterns, n) ELSE patterns

(***************************************************************************)
(* The commands.  A save that fails is reported; the switch has moved.     *)
(***************************************************************************)
Switched(s, on) ==
    /\ switch' = [switch EXCEPT ![s] = on]
    /\ saved' \in {saved, [saved EXCEPT ![s] = on]}

SetsEnabled(on) ==
    /\ Switched("vibration", on)
    /\ pin' = (pin /\ on)
    /\ UNCHANGED <<patterns, pulses, worker>>

SetsWarning(s, on) == s # "vibration" /\ Switched(s, on) /\ UNCHANGED motorVars

(***************************************************************************)
(* worker_task.  vibration_drive(true) looks at the switch, then writes.   *)
(***************************************************************************)
TakesPattern ==
    /\ worker = "waits" /\ patterns # <<>>
    /\ pulses' = Head(patterns) /\ patterns' = Tail(patterns)
    /\ worker' = "starts"
    /\ UNCHANGED <<switch, saved, pin>>

LooksAtSwitch ==
    /\ worker = "starts"
    /\ worker' = IF switch["vibration"] THEN "raises" ELSE "lowers"
    /\ UNCHANGED <<switch, saved, patterns, pulses, pin>>

WritesPin ==
    /\ worker \in {"raises", "lowers"}
    /\ worker' = "pulses"
    /\ pin' = (worker = "raises")
    /\ UNCHANGED <<switch, saved, patterns, pulses>>

\* Mutant of EndsPulse: the driver leaves the pin alone once switched off.
EndsPulseIfEnabled ==
    /\ worker = "pulses"
    /\ pin' = (pin /\ ~ switch["vibration"])
    /\ pulses' = pulses - 1
    /\ worker' = IF pulses > 1 THEN "starts" ELSE "waits"
    /\ UNCHANGED <<switch, saved, patterns>>

\* vibration_drive(false), and the gap if another pulse follows.
EndsPulse ==
    /\ worker = "pulses"
    /\ pin' = FALSE
    /\ pulses' = pulses - 1
    /\ worker' = IF pulses > 1 THEN "starts" ELSE "waits"
    /\ UNCHANGED <<switch, saved, patterns>>

WorkerTask == TakesPattern \/ LooksAtSwitch \/ WritesPin \/ EndsPulse

VibrationTypeOK ==
    /\ switch \in [Switches -> BOOLEAN] /\ saved \in [Switches -> BOOLEAN]
    /\ patterns \in Seq(Nat \ {0}) /\ Len(patterns) <= PatternsLen
    /\ pulses \in Nat /\ pin \in BOOLEAN
    /\ worker \in {"waits", "starts", "raises", "lowers", "pulses"}
=============================================================================
