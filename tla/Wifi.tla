-------------------------------- MODULE Wifi ---------------------------------
(***************************************************************************)
(* sk_wifi.c: two slots of credentials, the connection to one of them, the *)
(* retries and the failover to the other, and the pin that keeps a device  *)
(* disconnected.  Four tasks run sk_wifi_connect_sta, whose steps are 50 ms *)
(* or a publication apart: the boot, the worker of a wifi.connect, a       *)
(* command that forgets the primary, and the event task when it fails over. *)
(*                                                                         *)
(* A network is its SSID; the password is right where the network is in    *)
(* reach.  The driver is the ESP-IDF's: it refuses a configuration while   *)
(* it associates, a second connect does nothing, and whatever it loses or  *)
(* is told to leave it reports by an event.                                *)
(***************************************************************************)
EXTENDS Naturals, Sequences

CONSTANTS
    Nets,      \* networks a slot may name
    Bad,       \* those that esp_wifi_set_config refuses
    None,
    MaxFails,  \* FAILS_BEFORE_SWAP
    Ops        \* commands, moves and power cycles in a behaviour

ASSUME WifiAssumption == /\ Bad \subseteq Nets /\ None \notin Nets
                         /\ MaxFails \in Nat \ {0} /\ Ops \in Nat

VARIABLES
    saved,     \* NVS: the network of slot 1 and of slot 2
    ssid,      \* s_ssid
    pinned,    \* s_disconnect_pinned
    active,    \* s_active_slot
    fails,     \* s_consecutive_fails, counted as far as it is compared
    bit,       \* BIT_CONNECTED
    step,      \* where each task is in sk_wifi_connect_sta and around it
    goal,      \* the network each task configures
    spare,     \* the boot is at the primary, with the backup yet to try
    driver,    \* "idle", "associating" or "up"
    config,    \* network the driver is configured for
    link,      \* network the driver associates with or is up on
    events,    \* the default event loop
    reach,     \* networks in reach
    ops,       \* operations so far
    down,      \* history: disconnected with no connect under way
    crossed,   \* history: two tasks were in sk_wifi_connect_sta
    refused    \* history: the last configuration was refused on an idle driver

saves   == <<saved, ops, reach>>
state   == <<ssid, pinned, active, fails, bit, spare>>
station == <<driver, config, link>>
history == <<down, crossed, refused>>
wifiVars == <<saves, state, step, goal, station, events, history>>

Tasks == {"main", "worker", "command", "event"}
Slots == {1, 2}

\* Steps of sk_wifi_connect_sta.
Steps == {"pin", "configure", "target", "connect"}

Connecting == {t \in Tasks : step[t] \in Steps}
UnderWay   == {t \in Tasks : step[t] # "idle"}

(***************************************************************************)
(* The driver.                                                             *)
(***************************************************************************)
EspDisconnect ==
    /\ driver' = "idle" /\ link' = None
    /\ events' = IF driver = "idle" THEN events ELSE Append(events, "disconnected")
    /\ UNCHANGED config

EspConnect ==
    /\ driver' = IF driver = "idle" THEN "associating" ELSE driver
    /\ link' = IF driver = "idle" THEN config ELSE link
    /\ refused' = (refused /\ driver # "idle")
    /\ UNCHANGED <<config, events>>

DriverUp ==
    /\ driver = "associating" /\ link \in reach
    /\ driver' = "up"
    /\ events' = Append(events, "got_ip")
    /\ UNCHANGED <<saves, state, step, goal, config, link, history>>

DriverFails ==
    /\ driver # "idle" /\ link \notin reach
    /\ driver' = "idle" /\ link' = None
    /\ events' = Append(events, "disconnected")
    /\ UNCHANGED <<saves, state, step, goal, config, history>>

(***************************************************************************)
(* sk_wifi_connect_sta in task t.                                          *)
(***************************************************************************)
Goes(t, to) == step' = [step EXCEPT ![t] = to]

Enter(t, net) ==
    /\ Goes(t, "pin")
    /\ goal' = [goal EXCEPT ![t] = net]

Leaves(t, to) ==
    /\ Goes(t, to)
    /\ goal' = [goal EXCEPT ![t] = None]

\* Mutant of Pin: the driver is not told to leave the old network.
PinOnly(t) ==
    /\ step[t] = "pin" /\ Goes(t, "configure")
    /\ pinned' = TRUE
    /\ crossed' = (crossed \/ Connecting # {t})
    /\ UNCHANGED <<saves, ssid, active, fails, bit, spare, goal, station, events, down, refused>>

Pin(t) ==
    /\ step[t] = "pin" /\ Goes(t, "configure")
    /\ pinned' = TRUE
    /\ EspDisconnect
    /\ crossed' = (crossed \/ Connecting # {t})
    /\ UNCHANGED <<saves, ssid, active, fails, bit, spare, goal, down, refused>>

Configure(t) ==
    /\ step[t] = "configure" /\ goal[t] \notin Bad /\ driver # "associating"
    /\ Goes(t, "target")
    /\ config' = goal[t]
    /\ UNCHANGED <<saves, state, goal, driver, link, events, history>>

\* The event task retries at once on what is configured, the boot goes from the
\* primary to the backup, whatever slot is active by then, the others give up.
RefusedGoesOn(t) ==
    /\ spare' = (spare /\ t # "main")
    /\ IF t = "main" /\ spare /\ saved[2] # None
       THEN Enter(t, saved[2]) /\ active' = 2
       ELSE Leaves(t, "idle") /\ UNCHANGED active
    /\ IF t = "event" THEN EspConnect
       ELSE refused' = (driver = "idle") /\ UNCHANGED <<station, events>>

Refuse(t) ==
    /\ step[t] = "configure" /\ (goal[t] \in Bad \/ driver = "associating")
    /\ pinned' = FALSE
    /\ RefusedGoesOn(t)
    /\ UNCHANGED <<saves, ssid, fails, bit, down, crossed>>

Target(t) ==
    /\ step[t] = "target" /\ Goes(t, "connect")
    /\ ssid' = goal[t]
    /\ pinned' = FALSE /\ bit' = FALSE
    /\ UNCHANGED <<saves, active, fails, spare, goal, station, events, history>>

\* The event task gives the other slot a clean budget.
Connect(t) ==
    /\ step[t] = "connect" /\ Leaves(t, "idle")
    /\ EspConnect
    /\ fails' = IF t = "event" THEN 0 ELSE fails
    /\ spare' = (spare /\ t # "main")
    /\ UNCHANGED <<saves, ssid, pinned, active, bit, down, crossed>>

(***************************************************************************)
(* wifi_event_cb, in the event task.  The event is taken and published,    *)
(* which may wait; then the handler decides.                               *)
(***************************************************************************)
TakeDisconnected ==
    /\ step["event"] = "idle" /\ events # <<>> /\ Head(events) = "disconnected"
    /\ events' = Tail(events)
    /\ Goes("event", "decide")
    /\ UNCHANGED <<saves, state, goal, station, history>>

GotIp ==
    /\ step["event"] = "idle" /\ events # <<>> /\ Head(events) = "got_ip"
    /\ events' = Tail(events)
    /\ bit' = TRUE /\ fails' = 0
    /\ UNCHANGED <<saves, ssid, pinned, active, spare, step, goal, station, history>>

Fails == IF fails < MaxFails THEN fails + 1 ELSE fails

Swap == Fails = MaxFails /\ active # 0 /\ saved[3 - active] # None

StayDown ==
    /\ step["event"] = "decide" /\ (pinned \/ ssid = None)
    /\ Goes("event", "idle")
    /\ UNCHANGED <<saves, state, goal, station, events, history>>

\* Mutant of SwapSlot: only the primary fails over.
SwapFromPrimary ==
    /\ step["event"] = "decide" /\ ~ pinned /\ ssid # None /\ Swap /\ active = 1
    /\ fails' = Fails
    /\ active' = 3 - active
    /\ Enter("event", saved[3 - active])
    /\ UNCHANGED <<saves, ssid, pinned, bit, spare, station, events, history>>

SwapSlot ==
    /\ step["event"] = "decide" /\ ~ pinned /\ ssid # None /\ Swap
    /\ fails' = Fails
    /\ active' = 3 - active
    /\ Enter("event", saved[3 - active])
    /\ UNCHANGED <<saves, ssid, pinned, bit, spare, station, events, history>>

\* Mutant of Reconnect: the last of MaxFails failures is not retried.
ReconnectUnlessLast ==
    /\ step["event"] = "decide" /\ ~ pinned /\ ssid # None /\ ~ Swap
    /\ Goes("event", "idle")
    /\ fails' = Fails
    /\ IF Fails < MaxFails THEN EspConnect ELSE UNCHANGED <<station, events, refused>>
    /\ UNCHANGED <<saves, ssid, pinned, active, bit, spare, goal, down, crossed>>

Reconnect ==
    /\ step["event"] = "decide" /\ ~ pinned /\ ssid # None /\ ~ Swap
    /\ Goes("event", "idle")
    /\ fails' = Fails
    /\ EspConnect
    /\ UNCHANGED <<saves, ssid, pinned, active, bit, spare, goal, down, crossed>>

(***************************************************************************)
(* The worker of wifi.connect: the answer leaves, BLE leaves the radio,    *)
(* each for 100 ms.                                                        *)
(***************************************************************************)
WorkerStarts ==
    /\ step["worker"] = "answer" /\ Goes("worker", "settle")
    /\ UNCHANGED <<saves, state, goal, station, events, history>>

WorkerSettled ==
    /\ step["worker"] = "settle" /\ Goes("worker", "pin")
    /\ UNCHANGED <<saves, state, goal, station, events, history>>

(***************************************************************************)
(* The commands.                                                           *)
(***************************************************************************)
Op == ops < Ops /\ ops' = ops + 1

\* wifi.connect to the primary: saved and marked active whether or not the
\* worker is free; ERR_BUSY when it is not.
ConnectPrimary(net) ==
    /\ Op
    /\ saved' = [saved EXCEPT ![1] = net]
    /\ active' = 1 /\ fails' = 0
    /\ down' = FALSE
    /\ IF step["worker"] = "idle"
       THEN Goes("worker", "answer") /\ goal' = [goal EXCEPT !["worker"] = net]
       ELSE UNCHANGED <<step, goal>>
    /\ UNCHANGED <<reach, ssid, pinned, bit, spare, station, events, crossed, refused>>

SaveBackup(net) ==
    /\ Op
    /\ saved' = [saved EXCEPT ![2] = net]
    /\ UNCHANGED <<reach, state, step, goal, station, events, history>>

\* sk_wifi_disconnect.  Mutant of Leave: nothing is pinned.
LeaveUnpinned ==
    /\ active' = 0 /\ fails' = 0
    /\ EspDisconnect
    /\ down' = (UnderWay = {} /\ events = <<>>)
    /\ UNCHANGED <<ssid, pinned, bit, spare, step, goal, crossed, refused>>

Leave ==
    /\ pinned' = TRUE /\ active' = 0 /\ fails' = 0
    /\ EspDisconnect
    /\ down' = (UnderWay = {} /\ events = <<>>)
    /\ UNCHANGED <<ssid, bit, spare, step, goal, crossed, refused>>

Disconnect == Op /\ Leave /\ UNCHANGED <<saved, reach>>

\* wifi.forget without a slot, and the factory reset.
ForgetAll ==
    /\ Op
    /\ saved' = [s \in Slots |-> None]
    /\ Leave
    /\ UNCHANGED reach

ForgetPrimary ==
    /\ Op
    /\ step["command"] = "idle"
    /\ saved' = [saved EXCEPT ![1] = None]
    /\ IF active = 1 /\ saved[2] # None
       THEN /\ active' = 2 /\ Enter("command", saved[2])
            /\ UNCHANGED <<ssid, pinned, fails, bit, spare, station, events, history>>
       ELSE Leave
    /\ UNCHANGED reach

ForgetBackup ==
    /\ Op
    /\ saved' = [saved EXCEPT ![2] = None]
    /\ UNCHANGED <<reach, state, step, goal, station, events, history>>

Command == \/ \E net \in Nets : ConnectPrimary(net) \/ SaveBackup(net)
           \/ Disconnect \/ ForgetAll \/ ForgetPrimary \/ ForgetBackup

(***************************************************************************)
(* sk_wifi_init: the driver starts before a network is known, so that the  *)
(* start event does nothing; then sk_wifi_auto_connect takes the first slot *)
(* that is filled.                                                         *)
(***************************************************************************)
FirstSlot(slots) == IF slots[1] # None THEN 1 ELSE IF slots[2] # None THEN 2 ELSE 0

BootStep(slots) == [t \in Tasks |-> IF t = "main" /\ FirstSlot(slots) # 0 THEN "pin" ELSE "idle"]

BootGoal(slots) == [t \in Tasks |-> IF t = "main" /\ FirstSlot(slots) # 0
                                    THEN slots[FirstSlot(slots)] ELSE None]

WifiInit ==
    /\ saved \in [Slots -> Nets \cup {None}]
    /\ reach \in SUBSET (Nets \ Bad) /\ ops = 0
    /\ ssid = None /\ pinned = FALSE /\ fails = 0 /\ bit = FALSE
    /\ active = FirstSlot(saved) /\ spare = (saved[1] # None)
    /\ step = BootStep(saved) /\ goal = BootGoal(saved)
    /\ driver = "idle" /\ config = None /\ link = None /\ events = <<>>
    /\ down = FALSE /\ crossed = FALSE /\ refused = FALSE

PowerCycle ==
    /\ Op
    /\ ssid' = None /\ pinned' = FALSE /\ fails' = 0 /\ bit' = FALSE
    /\ active' = FirstSlot(saved) /\ spare' = (saved[1] # None)
    /\ step' = BootStep(saved) /\ goal' = BootGoal(saved)
    /\ driver' = "idle" /\ config' = None /\ link' = None /\ events' = <<>>
    /\ down' = FALSE /\ crossed' = FALSE /\ refused' = FALSE
    /\ UNCHANGED <<saved, reach>>

\* The device is carried elsewhere, or a router goes or comes.
Move ==
    /\ Op
    /\ \E nets \in SUBSET (Nets \ Bad) : reach' = nets
    /\ UNCHANGED <<saved, state, step, goal, station, events, history>>

ConnectSta(t) == Pin(t) \/ Configure(t) \/ Refuse(t) \/ Target(t) \/ Connect(t)

Decide == StayDown \/ SwapSlot \/ Reconnect

Driver == DriverUp \/ DriverFails

(***************************************************************************)
(* Properties.                                                             *)
(***************************************************************************)
\* Nothing is under way in the tasks, and every event is handled.
Quiet == UnderWay = {} /\ events = <<>>

\* The types; a task that is connecting has a goal, an idle driver no link.
WifiTypeOK ==
    /\ saved \in [Slots -> Nets \cup {None}] /\ reach \subseteq Nets /\ ops \in 0 .. Ops
    /\ ssid \in Nets \cup {None} /\ {pinned, bit, spare} \subseteq BOOLEAN
    /\ active \in 0 .. 2 /\ fails \in 0 .. MaxFails
    /\ step \in [Tasks -> Steps \cup {"idle", "answer", "settle", "decide"}]
    /\ goal \in [Tasks -> Nets \cup {None}]
    /\ \A t \in Connecting : goal[t] # None
    /\ driver \in {"idle", "associating", "up"}
    /\ {config, link} \subseteq Nets \cup {None}
    /\ driver = "idle" <=> link = None
    /\ events \in Seq({"disconnected", "got_ip"})
    /\ {down, crossed, refused} \subseteq BOOLEAN

\* The retries never die out: a device that is meant to be connected and has
\* nothing left to do is up or associating, whichever tasks crossed, unless a
\* configuration was refused while the driver was idle, after which nothing is
\* tried again.
RetryAlive == (Quiet /\ ~ pinned /\ ssid # None /\ driver = "idle") => refused

\* A disconnect that finds no connect under way lasts until the next connect.
DownStays == down => driver = "idle"

\* wifi.status tells the truth of a link that is up, as long as no two tasks
\* were in sk_wifi_connect_sta at a time: connected, and to the network named.
StatusNamesLink == (Quiet /\ ~ crossed /\ driver = "up") => (bit /\ link = ssid)

\* The failover reaches whichever of two saved networks is there, from either
\* slot and after any failure, power cycle or command: a device that is not
\* told to stay away and has a saved network in reach is connected in the end.
FailsOver ==
    <>[](/\ saved[1] # None /\ saved[2] # None /\ active # 0 /\ ~ pinned
         /\ ssid # None /\ ~ refused /\ {saved[1], saved[2]} \cap reach # {})
        => []<>(driver = "up")
==============================================================================
