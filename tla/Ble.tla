--------------------------------- MODULE Ble ---------------------------------
(***************************************************************************)
(* sk_transport_ble.c: when the device advertises, who is connected, and   *)
(* how that follows the bond, the pairing window, the idle timer and the   *)
(* hand-over of the radio to WiFi.  The callbacks of the NimBLE host, of   *)
(* the timers and of the event bus run one after another.  The controller  *)
(* stops to advertise when a peer connects, accepts further peers when it  *)
(* advertises again, and reports the end of a link later than it is asked  *)
(* for it.                                                                 *)
(***************************************************************************)
EXTENDS Naturals, FiniteSets

CONSTANTS
    Peers,      \* phones
    Nobody

ASSUME BleAssumption == Nobody \notin Peers

VARIABLES
    advertises,  \* the controller advertises
    radio,       \* s_radio_active
    links,       \* peers connected
    leaving,     \* those whose link is being terminated
    handle,      \* s_conn_handle, here and in sk_transport_ble_gatt.c
    bonded,      \* sk_auth_has_bond
    window,      \* sk_auth_pairing_state is open
    idleTimer    \* s_idle_timer runs

peerVars == <<links, leaving, handle>>
bleVars  == <<advertises, radio, peerVars, bonded, window, idleTimer>>

\* start_advertising
StartAdvertising == advertises' = TRUE /\ radio' = TRUE

\* sk_transport_ble_stop; the timer is stopped with it.
Stop == advertises' = FALSE /\ radio' = FALSE

\* ble_gap_terminate of the peer that the transport knows.
Terminate == leaving' = leaving \cup ({handle} \ {Nobody})

BleInit ==
    /\ bonded \in BOOLEAN /\ window = FALSE
    /\ advertises = TRUE /\ radio = TRUE
    /\ links = {} /\ leaving = {} /\ handle = Nobody
    /\ idleTimer = FALSE

(***************************************************************************)
(* gap_event_cb.                                                           *)
(***************************************************************************)
\* BLE_GAP_EVENT_CONNECT.  A peer that finds neither a bond nor a window is
\* sent away.
PeerConnects(p) ==
    /\ advertises /\ p \notin links
    /\ advertises' = FALSE
    /\ links' = links \cup {p} /\ handle' = p
    /\ leaving' = IF bonded \/ window THEN leaving ELSE leaving \cup {p}
    /\ idleTimer' = FALSE
    /\ UNCHANGED <<radio, bonded, window>>

\* BLE_GAP_EVENT_DISCONNECT.
Disconnected(p) ==
    /\ p \in links
    /\ links' = links \ {p} /\ leaving' = leaving \ {p} /\ handle' = Nobody
    /\ StartAdvertising
    /\ idleTimer' = TRUE
    /\ UNCHANGED <<bonded, window>>

LinkEnds == \E p \in leaving : Disconnected(p)

(***************************************************************************)
(* The timers.                                                             *)
(***************************************************************************)
\* idle_timer_cb.  Mutant of IdleTimeout: the bond is not looked at.
IdleTimeoutStops ==
    /\ idleTimer /\ idleTimer' = FALSE
    /\ IF handle # Nobody \/ window THEN UNCHANGED <<advertises, radio>> ELSE Stop
    /\ UNCHANGED <<peerVars, bonded, window>>

IdleTimeout ==
    /\ idleTimer /\ idleTimer' = FALSE
    /\ IF handle # Nobody \/ bonded \/ window THEN UNCHANGED <<advertises, radio>> ELSE Stop
    /\ UNCHANGED <<peerVars, bonded, window>>

\* peer_idle_check_cb, after 10 minutes without traffic.
PeerIdle ==
    /\ handle # Nobody /\ handle \notin leaving
    /\ Terminate
    /\ UNCHANGED <<advertises, radio, links, handle, bonded, window, idleTimer>>

(***************************************************************************)
(* The pairing window.                                                     *)
(***************************************************************************)
OpenWindow ==
    /\ ~ window /\ window' = TRUE
    /\ StartAdvertising
    /\ UNCHANGED <<peerVars, bonded, idleTimer>>

\* pairing_event_handler for pairing.mode.close with reason timeout.
WindowTimeout ==
    /\ window /\ window' = FALSE
    /\ IF handle # Nobody \/ bonded THEN StartAdvertising /\ UNCHANGED idleTimer
       ELSE Stop /\ idleTimer' = (idleTimer /\ ~ radio)
    /\ UNCHANGED <<peerVars, bonded>>

CloseWindow ==
    /\ window /\ window' = FALSE
    /\ StartAdvertising
    /\ UNCHANGED <<peerVars, bonded, idleTimer>>

\* The exchange of keys closes the window and then the link.
Pair ==
    /\ window /\ handle # Nobody
    /\ window' = FALSE /\ bonded' = TRUE
    /\ StartAdvertising
    /\ Terminate
    /\ UNCHANGED <<links, handle, idleTimer>>

\* on_bond_revoked
Unpair ==
    /\ bonded /\ bonded' = FALSE
    /\ Terminate
    /\ UNCHANGED <<advertises, radio, links, handle, window, idleTimer>>

(***************************************************************************)
(* WiFi.                                                                   *)
(***************************************************************************)
\* on_terminate_before_wifi
TerminateBeforeWifi ==
    /\ Terminate
    /\ Stop
    /\ UNCHANGED <<links, handle, bonded, window, idleTimer>>

\* on_resume_after_wifi
ResumeAfterWifi ==
    /\ IF radio THEN UNCHANGED <<advertises, radio>> ELSE StartAdvertising
    /\ UNCHANGED <<peerVars, bonded, window, idleTimer>>

\* What phones and the owner do.
BleUser == \/ \E p \in Peers : PeerConnects(p) \/ Disconnected(p)
           \/ OpenWindow \/ CloseWindow \/ Pair \/ Unpair

BleTimers == IdleTimeout \/ WindowTimeout

\* The types; the handle is that of a link, and only an active radio advertises.
BleTypeOK ==
    /\ {advertises, radio, bonded, window, idleTimer} \subseteq BOOLEAN
    /\ leaving \subseteq links /\ links \subseteq Peers
    /\ handle \in links \cup {Nobody}
    /\ advertises => radio
==============================================================================
