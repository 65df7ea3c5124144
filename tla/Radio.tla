-------------------------------- MODULE Radio --------------------------------
(***************************************************************************)
(* Wifi and Ble on the one radio of the device.  The worker of a           *)
(* wifi.connect makes BLE leave the radio before it connects, and an       *)
(* address that WiFi obtains brings BLE back, 100 ms later and in the      *)
(* timer task.                                                             *)
(***************************************************************************)
EXTENDS Wifi, Ble

VARIABLE resume    \* s_resume_ble_timer runs

radioVars == <<wifiVars, bleVars, resume>>

RadioInit == WifiInit /\ BleInit /\ resume = FALSE

HandOver == WorkerStarts /\ TerminateBeforeWifi /\ UNCHANGED resume

Acquired == GotIp /\ resume' = TRUE /\ UNCHANGED bleVars

TakeBack ==
    /\ resume /\ resume' = FALSE
    /\ ResumeAfterWifi
    /\ UNCHANGED wifiVars

OtherWifi ==
    /\ \/ \E t \in Tasks : ConnectSta(t)
       \/ TakeDisconnected \/ Decide
       \/ WorkerSettled \/ Driver \/ Command \/ Move
    /\ UNCHANGED <<bleVars, resume>>

User ==
    /\ Op /\ BleUser
    /\ UNCHANGED <<saved, reach, state, step, goal, station, events, history, resume>>

Ble == (BleTimers \/ LinkEnds \/ PeerIdle) /\ UNCHANGED <<wifiVars, resume>>

Reboot ==
    /\ PowerCycle
    /\ window' = FALSE /\ bonded' = bonded
    /\ advertises' = TRUE /\ radio' = TRUE
    /\ links' = {} /\ leaving' = {} /\ handle' = Nobody
    /\ idleTimer' = FALSE /\ resume' = FALSE

RadioNext == \/ HandOver \/ Acquired \/ TakeBack \/ OtherWifi
             \/ User \/ Ble \/ Reboot

RadioSpec == RadioInit /\ [][RadioNext]_radioVars

\* FreeRTOS serves every task that can run, and the driver ends what it began.
WifiStep(A) == A /\ UNCHANGED <<bleVars, resume>>

RadioFairness ==
    /\ WF_radioVars(Acquired \/ WifiStep(TakeDisconnected \/ Decide \/ ConnectSta("event")))
    /\ WF_radioVars(HandOver \/ WifiStep(WorkerSettled \/ ConnectSta("worker")))
    /\ WF_radioVars(WifiStep(ConnectSta("main") \/ ConnectSta("command")))
    /\ WF_radioVars(WifiStep(Driver))

FairRadio == RadioSpec /\ RadioFairness

(***************************************************************************)
(* Properties.                                                             *)
(***************************************************************************)
\* The types of both components: a task that is connecting has a goal, the driver
\* works for a network exactly when it is not idle, the handle belongs to a link.
RadioTypeOK == WifiTypeOK /\ BleTypeOK /\ resume \in BOOLEAN

\* A phone that is bonded finds the device whenever WiFi is up and settled,
\* whatever the hand-overs, the timers, the window and other phones did:
\* it advertises or a phone is connected.
BondedReachable ==
    (bonded /\ Quiet /\ driver = "up" /\ ~ resume) => (advertises \/ links # {})
==============================================================================
