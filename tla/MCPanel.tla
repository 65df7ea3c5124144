------------------------------ MODULE MCPanel ------------------------------
(***************************************************************************)
(* Instances of Panel for TLC: one reading in each band that bf_battery.c  *)
(* tells apart, and environments that bring those inputs together which    *)
(* meet in the code.                                                       *)
(***************************************************************************)
EXTENDS Panel

MCVolts == {0, 3000, 3120, 3300, 3450, 3600, 4200}

Environments(volts, ins, most, press) ==
    [volts : volts, inputs : ins, most : {most}, press : {press}]

\* Every band of the cell, also with a charger that comes or goes; the scenes
\* under a lockout; the taps; the long presses; the motor and the warnings
\* between two samples; the queue at its limit.
MCScenarios ==
    Environments({MCVolts}, {{}}, 0, 0)
    \cup Environments({{0, 3000, 4200}}, {{"charger"}}, 1, 0)
    \cup Environments({{3000}}, {{"charger", "timer"}}, 2, 0)
    \cup Environments({{3600}}, {{"button"}}, 3, Debounced)
    \cup Environments({{3600}}, {{"button", "timer"}}, 2, Reset)
    \cup Environments({{3000}}, {{"charger", "motor", "cube"}}, 2, 0)
    \cup Environments({{3300}}, {{"motor", "warning", "cube"}}, 2, 0)
    \cup Environments({{3600}}, {{"timer", "call"}}, 3, 0)
    \cup Environments({{3600}}, {{"timer", "cube"}}, 2, 0)
=============================================================================
