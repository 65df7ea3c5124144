------------------------------- MODULE Battery -------------------------------
(***************************************************************************)
(* bf_battery.c: every ten seconds monitor_task reads the cell and the     *)
(* charger and runs three state machines on the reading: the charge state, *)
(* the lockout latch and the alert level.  Each one publishes its change   *)
(* before the next one runs, in the same task, so a subscriber that draws  *)
(* works between two of them.  The displayed percentage is left out.       *)
(***************************************************************************)
EXTENDS Integers

CONSTANTS
    Volts,           \* readings of the cell, in mV
    PresentMin,      \* BF_BATT_PRESENT_MIN_MV
    LockoutMv,       \* BF_BATT_LOCKOUT_MV
    CritMv,          \* BF_BATT_CRIT_MV
    LowMv,           \* BF_BATT_LOW_MV
    OkMv,            \* BF_BATT_OK_MV
    FullMv,          \* CHARGE_FULL_MV
    LockoutSamples,  \* BF_LOCKOUT_DEBOUNCE_SAMPLES
    FullSamples      \* CHARGE_FULL_STABLE_S, in samples

ASSUME VoltsAssumption   == Volts \subseteq Nat
ASSUME LimitsAssumption  ==
    /\ {PresentMin, LockoutMv, CritMv, LowMv, OkMv, FullMv} \subseteq Nat
    /\ PresentMin <= LockoutMv /\ LockoutMv <= CritMv /\ CritMv <= LowMv /\ LowMv < OkMv
ASSUME SamplesAssumption ==
    /\ LockoutSamples \in Nat /\ LockoutSamples >= 2
    /\ FullSamples \in Nat \ {0}

VARIABLES
    vbus,     \* the charger is plugged in
    level,    \* s_state
    lockout,  \* s_lockout
    streak,   \* s_lockout_streak
    charge,   \* s_charge
    stable,   \* s_full_stable_s, in samples; more than FullSamples are not told apart
    step,     \* what monitor_task does next with its reading
    reading   \* the reading under way

latches     == <<level, lockout, streak, charge, stable>>
batteryVars == <<vbus, latches, step, reading>>

Levels  == {"ok", "low", "critical"}
Charges == {"discharging", "charging", "full"}
NoReading == [mv |-> 0, vbus |-> FALSE]

BatteryInit ==
    /\ level = "ok" /\ charge = "discharging" /\ lockout = FALSE
    /\ streak = 0 /\ stable = 0
    /\ step = "first" /\ reading = NoReading

\* A restart forgets all of it.
BatteryBoots ==
    /\ level' = "ok" /\ charge' = "discharging" /\ lockout' = FALSE
    /\ streak' = 0 /\ stable' = 0
    /\ step' = "first" /\ reading' = NoReading
    /\ UNCHANGED vbus

\* The charger is plugged in or pulled out, at any moment of a sample.
PlugsCharger ==
    /\ vbus' = ~ vbus
    /\ UNCHANGED <<latches, step, reading>>

(***************************************************************************)
(* monitor_task.  It reads nothing while the motor drags the rail down:    *)
(* that guard is the composition's.                                        *)
(***************************************************************************)
TakesSample(mv) ==
    /\ step \in {"first", "rest"}
    /\ step' = "charge"
    /\ reading' = [mv |-> mv, vbus |-> vbus]
    /\ UNCHANGED <<vbus, latches>>

\* update_charge_state asks the charger again: it may have gone meanwhile.
StableFor == IF ~ vbus \/ reading.mv < FullMv THEN 0
             ELSE IF stable < FullSamples THEN stable + 1 ELSE stable

NextCharge(rising) ==
    CASE ~ vbus                                        -> "discharging"
      [] vbus /\ StableFor = FullSamples               -> "full"
      [] vbus /\ StableFor < FullSamples
              /\ (rising \/ charge = "discharging")    -> "charging"
      [] OTHER                                         -> charge

UpdatesCharge(rising) ==
    /\ step = "charge" /\ step' = "lockout"
    /\ charge' = NextCharge(rising)
    /\ stable' = StableFor
    /\ UNCHANGED <<vbus, level, lockout, streak, reading>>

Drained == /\ ~ reading.vbus
           /\ reading.mv >= PresentMin /\ reading.mv < LockoutMv

\* Mutants of Latched: one low reading is enough; a charger does not release.
LatchedAtOnce   == ~ reading.vbus /\ (lockout \/ Drained)
LatchedForGood  == lockout \/ (Drained /\ streak + 1 >= LockoutSamples)

Latched == /\ ~ reading.vbus
           /\ lockout \/ (Drained /\ streak + 1 >= LockoutSamples)

UpdatesLockout ==
    /\ step = "lockout" /\ step' = "alert"
    /\ lockout' = Latched
    /\ streak' = IF ~ Drained THEN 0
                 ELSE IF streak < LockoutSamples THEN streak + 1 ELSE streak
    /\ UNCHANGED <<vbus, level, charge, stable, reading>>

\* Between LowMv and OkMv the level stays, and so does a critical one that is
\* low again.
NextLevel ==
    CASE reading.vbus                               -> level
      [] ~ reading.vbus /\ reading.mv < PresentMin  -> "ok"
      [] ~ reading.vbus /\ reading.mv >= OkMv       -> "ok"
      [] ~ reading.vbus /\ reading.mv \in PresentMin..CritMv -> "critical"
      [] ~ reading.vbus /\ reading.mv \in (CritMv + 1)..LowMv
                        /\ level # "critical"       -> "low"
      [] OTHER                                      -> level

\* battery.low, battery.critical, battery.recovered: the change is announced
\* unless the cell is gone, which resets the level in silence.
Alerts == NextLevel # level /\ reading.mv >= PresentMin

UpdatesLevel ==
    /\ step = "alert" /\ step' = "rest"
    /\ level' = NextLevel
    /\ reading' = NoReading
    /\ UNCHANGED <<vbus, lockout, streak, charge, stable>>

BatteryTypeOK ==
    /\ vbus \in BOOLEAN /\ lockout \in BOOLEAN
    /\ level \in Levels /\ charge \in Charges
    /\ streak \in 0..LockoutSamples /\ stable \in 0..FullSamples
    /\ step \in {"first", "charge", "lockout", "alert", "rest"}
    /\ reading \in [mv : Nat, vbus : BOOLEAN]
=============================================================================
