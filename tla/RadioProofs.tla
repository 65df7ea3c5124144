------------------------------ MODULE RadioProofs ------------------------------
(***************************************************************************)
(* Proofs about WiFi and BLE on the one radio, for every set of networks   *)
(* and phones, every budget of failures and any number of commands.        *)
(*                                                                         *)
(* The argument: whoever leaves the driver idle is still under way or has  *)
(* an event queued that makes the event task retry; a task that is alone   *)
(* in sk_wifi_connect_sta works on a driver that it left idle and pinned;  *)
(* and whenever BLE is off the radio, an address that is still to come     *)
(* brings it back.                                                         *)
(***************************************************************************)
EXTENDS Radio, SequenceTheorems, TLAPS

Event == {"disconnected", "got_ip"}

Has(q, e) == \E i \in 1 .. Len(q) : q[i] = e

\* What a queue has it keeps when an event is added.
LEMMA AppendHas ==
    ASSUME NEW q \in Seq(Event), NEW e \in Event
    PROVE  /\ Append(q, e) \in Seq(Event) /\ Append(q, e) # <<>>
           /\ Has(Append(q, e), e)
           /\ \A x : Has(q, x) => Has(Append(q, e), x)
<1>1. /\ Append(q, e) \in Seq(Event) /\ Append(q, e) # <<>>
      /\ Len(Append(q, e)) = Len(q) + 1 /\ Len(q) \in Nat /\ Append(q, e)[Len(q) + 1] = e
      /\ \A i \in 1 .. Len(q) : Append(q, e)[i] = q[i]
  OBVIOUS
<1>2. /\ Len(q) + 1 \in 1 .. Len(Append(q, e))
      /\ \A i \in 1 .. Len(q) : i \in 1 .. Len(Append(q, e))
  BY <1>1
<1> QED BY <1>1, <1>2 DEF Has

\* What is taken from a queue is its head.
LEMMA TailHas ==
    ASSUME NEW q \in Seq(Event), q # <<>>
    PROVE  /\ Tail(q) \in Seq(Event)
           /\ \A x : Has(q, x) /\ Head(q) # x => Has(Tail(q), x)
<1>1. /\ Tail(q) \in Seq(Event) /\ Len(Tail(q)) = Len(q) - 1 /\ Len(q) \in Nat /\ Head(q) = q[1]
      /\ \A i \in 1 .. Len(Tail(q)) : Tail(q)[i] = q[i + 1]
  OBVIOUS
<1>2. \A i \in 1 .. Len(q) : i = 1 \/ (i - 1 \in 1 .. Len(Tail(q)) /\ Tail(q)[i - 1] = q[i])
  BY <1>1
<1> QED BY <1>1, <1>2 DEF Has

\* An empty queue has no event.
LEMMA EmptyHasNone == \A x : ~ Has(<<>>, x)
BY DEF Has

(***************************************************************************)
(* The parts of the invariant.                                             *)
(***************************************************************************)
Places == Steps \cup {"idle", "answer", "settle", "decide"}

\* The driver is configured once a network is known or on its way to be, and the
\* worker has a network to go to.
Configured ==
    /\ \/ ssid # None
       \/ step["event"] \in Steps
       \/ \E t \in Tasks : step[t] \in {"target", "connect"}
       => config # None
    /\ step["worker"] \in {"answer", "settle"} => goal["worker"] # None

\* An idle driver that should be connected has somebody who will see to it.
Retries ==
    ~ pinned /\ ssid # None /\ driver = "idle" /\ ~ refused =>
        UnderWay # {} \/ Has(events, "disconnected")

\* After a disconnect that found nothing under way nobody connects.
Down ==
    down => /\ driver = "idle" /\ pinned /\ active = 0
            /\ \A t \in Tasks \ {"event"} : step[t] = "idle"
            /\ step["event"] \in {"idle", "decide"}

Past == {"configure", "target", "connect"}

\* One task at a time has the driver, which it left idle and pinned.
Alone ==
    ~ crossed =>
        /\ \A t, u \in Tasks : step[t] \in Past /\ step[u] \in Past => t = u
        /\ \A t \in Tasks : step[t] \in {"configure", "target"} => pinned /\ driver = "idle"

\* What the driver works for is what the status names, and it says so.
Named ==
    ~ crossed =>
        /\ \A t \in Tasks : step[t] = "target" => config = goal[t]
        /\ (\A t \in Tasks : step[t] # "target") => config = ssid
        /\ driver # "idle" => link = config
        /\ driver = "up" => bit \/ Has(events, "got_ip")

\* An address is still to come, or the link is about to be left.
Owed == driver = "up" => Has(events, "got_ip") \/ step["worker"] \in {"settle", "pin"}

\* BLE that is off the radio comes back with the address.
Returns ==
    /\ radio => advertises \/ links # {}
    /\ bonded /\ ~ advertises /\ links = {} /\ ~ resume => Owed

WifiInv == WifiTypeOK /\ Configured /\ Retries /\ Down /\ Alone /\ Named

BleInv == BleTypeOK /\ resume \in BOOLEAN /\ Returns

RadioInv == WifiInv /\ BleInv

USE WifiAssumption DEF saves, state, station, history, Event

\* The boot with any credentials satisfies the invariant.
LEMMA RadioInitInv == RadioInit => RadioInv
<1> SUFFICES ASSUME RadioInit PROVE RadioInv
  OBVIOUS
<1>1. /\ events = <<>> /\ driver = "idle" /\ ssid = None /\ config = None /\ link = None
      /\ pinned = FALSE /\ bit = FALSE /\ down = FALSE /\ crossed = FALSE /\ refused = FALSE
      /\ step = BootStep(saved) /\ goal = BootGoal(saved) /\ active = FirstSlot(saved)
      /\ spare \in BOOLEAN
      /\ saved \in [Slots -> Nets \cup {None}]
  BY DEF RadioInit, WifiInit
<1>2. /\ \A t \in Tasks : step[t] \in {"pin", "idle"}
      /\ step \in [Tasks -> Places] /\ step["event"] = "idle" /\ step["worker"] = "idle"
  BY <1>1 DEF BootStep, Places, Steps, Tasks
<1>3. /\ goal \in [Tasks -> Nets \cup {None}] /\ active \in 0 .. 2
      /\ \A t \in Tasks : step[t] # "idle" => goal[t] # None
  BY <1>1 DEF BootGoal, BootStep, FirstSlot, Slots
<1>4. <<>> \in Seq({"disconnected", "got_ip"})
  OBVIOUS
<1>5. WifiTypeOK
  <2>1. reach \subseteq Nets /\ ops \in 0 .. Ops /\ fails \in 0 .. MaxFails
    BY DEF RadioInit, WifiInit
  <2>2. {pinned, bit} \subseteq BOOLEAN /\ {down, crossed, refused} \subseteq BOOLEAN
    BY <1>1
  <2>3. \A t \in Connecting : goal[t] # None
    BY <1>2, <1>3 DEF Connecting, Steps
  <2> QED BY <1>1, <1>2, <1>3, <1>4, <2>1, <2>2, <2>3 DEF WifiTypeOK, Places
<1>6. Configured /\ Retries /\ Down /\ Alone /\ Named
  BY <1>1, <1>2 DEF Configured, Retries, Down, Alone, Named, Past, Steps
<1>7. BleInv
  BY <1>1 DEF RadioInit, BleInit, Returns, Owed, BleInv, BleTypeOK
<1> QED BY <1>5, <1>6, <1>7 DEF RadioInv, WifiInv

(***************************************************************************)
(* The helpers of the actions.                                             *)
(***************************************************************************)
\* A task goes to a step; the others stay where they are.
LEMMA GoesFacts ==
    ASSUME WifiTypeOK, NEW t \in Tasks, NEW to \in Places, Goes(t, to)
    PROVE  /\ step' \in [Tasks -> Places] /\ step'[t] = to
           /\ \A u \in Tasks \ {t} : step'[u] = step[u]
BY DEF WifiTypeOK, Goes, Places

\* esp_wifi_disconnect leaves the driver idle and loses no event.
LEMMA DisconnectFacts ==
    ASSUME WifiTypeOK, EspDisconnect
    PROVE  /\ events' \in Seq(Event) /\ driver' = "idle" /\ link' = None /\ UNCHANGED config
           /\ \A x : Has(events, x) => Has(events', x)
<1>1. events' = (IF driver = "idle" THEN events ELSE Append(events, "disconnected"))
  BY DEF EspDisconnect
<1>2. events \in Seq(Event) /\ "disconnected" \in Event
  BY DEF WifiTypeOK
<1> QED BY <1>1, <1>2, AppendHas DEF EspDisconnect

\* esp_wifi_connect starts an idle driver and leaves another alone.
LEMMA ConnectFacts ==
    ASSUME WifiTypeOK, EspConnect
    PROVE  /\ driver' \in {"associating", "up"} /\ (driver' = "up" => driver = "up")
           /\ driver = "idle" => driver' = "associating" /\ link' = config
           /\ driver # "idle" => driver' = driver /\ link' = link
           /\ UNCHANGED <<config, events>> /\ refused' \in BOOLEAN
BY DEF EspConnect, WifiTypeOK

(***************************************************************************)
(* The steps of WiFi.                                                      *)
(***************************************************************************)

\* sk_wifi_connect_sta pins and leaves the old network; a task that is not alone
\* here shows as crossed.
LEMMA PinKeeps ==
    ASSUME WifiInv, NEW t \in Tasks, Pin(t)
    PROVE  WifiInv' /\ (Owed => Owed')
<1> USE DEF WifiInv
<1>1. /\ step[t] = "pin" /\ pinned' = TRUE
      /\ crossed' = (crossed \/ Connecting # {t})
      /\ UNCHANGED <<saves, ssid, active, fails, bit, spare, goal, down, refused>>
  BY DEF Pin
<1>2. /\ step' \in [Tasks -> Places] /\ step'[t] = "configure"
      /\ \A u \in Tasks \ {t} : step'[u] = step[u]
  <2>1. Goes(t, "configure") /\ "configure" \in Places
    BY DEF Pin, Places, Steps
  <2> QED BY <2>1, GoesFacts
<1>3. /\ events' \in Seq(Event) /\ driver' = "idle" /\ link' = None /\ UNCHANGED config
      /\ \A x : Has(events, x) => Has(events', x)
  BY DisconnectFacts DEF Pin
<1>4. WifiTypeOK'
  BY <1>1, <1>2, <1>3 DEF WifiTypeOK, Connecting, Steps, Places
<1>5. Configured' /\ Retries' /\ Down'
  BY <1>1, <1>2, <1>3 DEF Configured, Retries, Down, Steps, Tasks
<1>6. ~ crossed' => ~ crossed /\ \A u \in Tasks \ {t} : step[u] \notin Steps
  BY <1>1 DEF Connecting
<1>7. Alone' /\ Named'
  BY <1>1, <1>2, <1>3, <1>6 DEF Alone, Named, Steps, Past
<1>8. Owed => Owed'
  BY <1>3 DEF Owed, Tasks
<1> QED BY <1>3, <1>4, <1>5, <1>7, <1>8

\* The driver takes the configuration, while it is idle if the task is alone.
LEMMA ConfigureKeeps ==
    ASSUME WifiInv, NEW t \in Tasks, Configure(t)
    PROVE  WifiInv' /\ (Owed => Owed')
<1> USE DEF WifiInv
<1>1. /\ step[t] = "configure" /\ driver # "associating" /\ config' = goal[t]
      /\ UNCHANGED <<saves, state, goal, driver, link, events, history>>
  BY DEF Configure
<1>2. /\ step' \in [Tasks -> Places] /\ step'[t] = "target"
      /\ \A u \in Tasks \ {t} : step'[u] = step[u]
  <2>1. Goes(t, "target") /\ "target" \in Places /\ t \in Tasks
    BY DEF Configure, Places, Steps, Tasks
  <2> QED BY <2>1, GoesFacts
<1>3. goal[t] # None /\ goal[t] \in Nets \cup {None}
  BY <1>1 DEF WifiTypeOK, Connecting, Steps
<1>4. WifiTypeOK'
  BY <1>1, <1>2, <1>3 DEF WifiTypeOK, Connecting, Steps, Places
<1>5. Configured' /\ Retries' /\ Down'
  BY <1>1, <1>2, <1>3 DEF Configured, Retries, Down, UnderWay, Tasks
<1>6. Alone' /\ Named'
  BY <1>1, <1>2, <1>3 DEF Alone, Named, Past
<1>7. Owed => Owed'
  BY <1>1, <1>2 DEF Owed, Tasks
<1> QED BY <1>1, <1>2, <1>4, <1>5, <1>6, <1>7

\* The pin is taken off and the network named.
LEMMA TargetKeeps ==
    ASSUME WifiInv, NEW t \in Tasks, Target(t)
    PROVE  WifiInv' /\ (Owed => Owed')
<1> USE DEF WifiInv
<1>1. /\ step[t] = "target" /\ ssid' = goal[t] /\ pinned' = FALSE /\ bit' = FALSE
      /\ UNCHANGED <<saves, active, fails, spare, goal, station, events, history>>
  BY DEF Target
<1>2. /\ step' \in [Tasks -> Places] /\ step'[t] = "connect"
      /\ \A u \in Tasks \ {t} : step'[u] = step[u]
  <2>1. Goes(t, "connect") /\ "connect" \in Places /\ t \in Tasks
    BY DEF Target, Places, Steps, Tasks
  <2> QED BY <2>1, GoesFacts
<1>3. goal[t] # None /\ goal[t] \in Nets \cup {None}
  BY <1>1 DEF WifiTypeOK, Connecting, Steps
<1>4. WifiTypeOK'
  BY <1>1, <1>2, <1>3 DEF WifiTypeOK, Connecting, Steps, Places
<1>5. Configured' /\ Retries' /\ Down'
  BY <1>1, <1>2, <1>3 DEF Configured, Retries, Down, UnderWay, Tasks
<1>6. Alone' /\ Named'
  BY <1>1, <1>2, <1>3 DEF Alone, Named, Past
<1>7. Owed => Owed'
  BY <1>1, <1>2 DEF Owed, Tasks
<1> QED BY <1>1, <1>2, <1>4, <1>5, <1>6, <1>7

\* The driver is told to connect.
LEMMA ConnectKeeps ==
    ASSUME WifiInv, NEW t \in Tasks, Connect(t)
    PROVE  WifiInv' /\ (Owed => Owed')
<1> USE DEF WifiInv
<1>1. /\ step[t] = "connect" /\ goal' = [goal EXCEPT ![t] = None]
      /\ fails' = IF t = "event" THEN 0 ELSE fails
      /\ spare' = (spare /\ t # "main")
      /\ UNCHANGED <<saves, ssid, pinned, active, bit, down, crossed>>
  BY DEF Connect, Leaves
<1>2. /\ step' \in [Tasks -> Places] /\ step'[t] = "idle"
      /\ \A u \in Tasks \ {t} : step'[u] = step[u]
  <2>1. Goes(t, "idle") /\ "idle" \in Places /\ t \in Tasks
    BY DEF Connect, Leaves, Places, Steps, Tasks
  <2> QED BY <2>1, GoesFacts
<1>3. /\ driver' \in {"associating", "up"} /\ (driver' = "up" => driver = "up")
      /\ driver = "idle" => driver' = "associating" /\ link' = config
      /\ driver # "idle" => driver' = driver /\ link' = link
      /\ UNCHANGED <<config, events>> /\ refused' \in BOOLEAN
  BY ConnectFacts DEF Connect
<1>4. config # None
  BY <1>1 DEF Configured
<1>5. WifiTypeOK'
  <2>1. fails' \in 0 .. MaxFails
    BY <1>1 DEF WifiTypeOK
  <2> QED BY <1>1, <1>2, <1>3, <1>4, <2>1 DEF WifiTypeOK, Connecting, Steps, Places
<1>6. Configured' /\ Retries' /\ Down'
  BY <1>1, <1>2, <1>3, <1>4 DEF Configured, Retries, Down, Tasks
<1>7. Alone' /\ Named'
  BY <1>1, <1>2, <1>3 DEF Alone, Named, Past, WifiTypeOK
<1>8. Owed => Owed'
  BY <1>1, <1>2, <1>3 DEF Owed, Tasks
<1> QED BY <1>1, <1>2, <1>3, <1>5, <1>6, <1>7, <1>8

\* A refused configuration: the boot goes to the backup, the event task connects
\* with what is configured, others give up.
LEMMA RefuseKeeps ==
    ASSUME WifiInv, NEW t \in Tasks, Refuse(t)
    PROVE  WifiInv' /\ (Owed => Owed')
<1> USE DEF WifiInv
<1>1. /\ step[t] = "configure" /\ pinned' = FALSE
      /\ spare' = (spare /\ t # "main")
      /\ UNCHANGED <<saves, ssid, fails, bit, down, crossed>>
  BY DEF Refuse, RefusedGoesOn
<1>2. PICK to \in {"pin", "idle"}, net \in Nets \cup {None} :
        /\ Goes(t, to) /\ goal' = [goal EXCEPT ![t] = net]
        /\ to = "pin" => t = "main" /\ net # None
        /\ active' \in 0 .. 2
  <2>1. saved[2] \in Nets \cup {None} /\ active \in 0 .. 2
    BY DEF WifiTypeOK, Slots
  <2> QED BY <2>1 DEF Refuse, RefusedGoesOn, Enter, Leaves
<1>3. /\ step' \in [Tasks -> Places] /\ step'[t] = to
      /\ \A u \in Tasks \ {t} : step'[u] = step[u]
  BY <1>2, GoesFacts DEF Places, Steps
<1>4. config # None \/ t # "event"
  BY <1>1 DEF Configured, Steps
<1>5. /\ UNCHANGED <<config, events>> /\ refused' \in BOOLEAN
      /\ driver' \in {"idle", "associating", "up"} /\ (driver' = "up" => driver = "up")
      /\ driver' = "idle" => driver = "idle" /\ link' = link /\ refused'
      /\ driver' # "idle" => IF driver = "idle" THEN link' = config /\ t = "event" ELSE link' = link
  <2>1. CASE t = "event"
    BY <2>1, ConnectFacts DEF Refuse, RefusedGoesOn
  <2>2. CASE t # "event"
    BY <2>2 DEF Refuse, RefusedGoesOn, WifiTypeOK
  <2> QED BY <2>1, <2>2
<1>6. WifiTypeOK'
  BY <1>1, <1>2, <1>3, <1>4, <1>5 DEF WifiTypeOK, Connecting, Steps, Places
<1>7. Configured' /\ Retries' /\ Down'
  BY <1>1, <1>2, <1>3, <1>5 DEF Configured, Retries, Down, Steps, Tasks
<1>8. Alone' /\ Named'
  BY <1>1, <1>2, <1>3, <1>5 DEF Alone, Named, Past
<1>9. Owed => Owed'
  BY <1>1, <1>3, <1>5 DEF Owed, Tasks
<1> QED BY <1>1, <1>2, <1>3, <1>5, <1>6, <1>7, <1>8, <1>9

\* wifi_event_cb takes a disconnect and has then to decide on it.
LEMMA TakeDisconnectedKeeps ==
    ASSUME WifiInv, TakeDisconnected
    PROVE  WifiInv' /\ (Owed => Owed')
<1> USE DEF WifiInv
<1>1. /\ step["event"] = "idle" /\ events # <<>> /\ Head(events) = "disconnected"
      /\ events' = Tail(events)
      /\ UNCHANGED <<saves, state, goal, station, history>>
  BY DEF TakeDisconnected
<1>2. /\ step' \in [Tasks -> Places] /\ step'["event"] = "decide"
      /\ \A u \in Tasks \ {"event"} : step'[u] = step[u]
  <2>1. Goes("event", "decide") /\ "decide" \in Places /\ "event" \in Tasks
    BY DEF TakeDisconnected, Places, Steps, Tasks
  <2> QED BY <2>1, GoesFacts
<1>3. events' \in Seq(Event) /\ (Has(events, "got_ip") => Has(events', "got_ip"))
  BY <1>1, TailHas DEF WifiTypeOK
<1>4. WifiTypeOK'
  BY <1>1, <1>2, <1>3 DEF WifiTypeOK, Connecting, Steps, Places
<1>5. Configured' /\ Retries' /\ Down'
  BY <1>1, <1>2, <1>3 DEF Configured, Retries, Down, UnderWay, Steps, Tasks
<1>6. Alone' /\ Named'
  BY <1>1, <1>2, <1>3 DEF Alone, Named, Past, Tasks
<1>7. Owed => Owed'
  BY <1>1, <1>2, <1>3 DEF Owed, Tasks
<1> QED BY <1>4, <1>5, <1>6, <1>7

\* wifi_event_cb takes an address.
LEMMA GotIpKeeps ==
    ASSUME WifiInv, GotIp
    PROVE  WifiInv'
<1> USE DEF WifiInv
<1>1. /\ events # <<>> /\ Head(events) = "got_ip"
      /\ events' = Tail(events) /\ bit' = TRUE /\ fails' = 0
      /\ UNCHANGED <<saves, ssid, pinned, active, spare, step, goal, station, history>>
  BY DEF GotIp
<1>2. events' \in Seq(Event) /\ (Has(events, "disconnected") => Has(events', "disconnected"))
  BY <1>1, TailHas DEF WifiTypeOK
<1>3. WifiTypeOK'
  <2>1. fails' \in 0 .. MaxFails
    BY <1>1
  <2> QED BY <1>1, <1>2, <2>1 DEF WifiTypeOK, Connecting
<1>4. Configured' /\ Retries' /\ Down' /\ Alone' /\ Named'
  BY <1>1, <1>2 DEF Configured, Retries, Down, UnderWay, Alone, Named
<1> QED BY <1>3, <1>4

\* The count of failures stays within its budget.
LEMMA FailsType ==
    ASSUME WifiTypeOK
    PROVE  Fails \in 0 .. MaxFails
BY DEF WifiTypeOK, Fails

\* wifi_event_cb stays down, fails over or connects again.
LEMMA DecideKeeps ==
    ASSUME WifiInv, Decide
    PROVE  WifiInv' /\ (Owed => Owed')
<1> USE DEF WifiInv
<1>1. CASE StayDown
  <2>1. /\ step["event"] = "decide" /\ (pinned \/ ssid = None)
        /\ UNCHANGED <<saves, state, goal, station, events, history>>
    BY <1>1 DEF StayDown
  <2>2. /\ step' \in [Tasks -> Places] /\ step'["event"] = "idle"
        /\ \A u \in Tasks \ {"event"} : step'[u] = step[u]
    <3>1. Goes("event", "idle") /\ "idle" \in Places /\ "event" \in Tasks
      BY <1>1 DEF StayDown, Places, Steps, Tasks
    <3> QED BY <3>1, GoesFacts
  <2>3. WifiTypeOK'
    BY <2>1, <2>2 DEF WifiTypeOK, Connecting, Steps, Places
  <2>4. Configured' /\ Retries' /\ Down'
    BY <2>1, <2>2 DEF Configured, Retries, Down, Steps, Tasks
  <2>5. Alone' /\ Named'
    BY <2>1, <2>2 DEF Alone, Named, Past, Tasks
  <2>6. Owed => Owed'
    BY <2>1, <2>2 DEF Owed, Tasks
  <2> QED BY <2>3, <2>4, <2>5, <2>6
<1>2. CASE SwapSlot
  <2>1. /\ step["event"] = "decide" /\ ~ pinned /\ ssid # None /\ Swap
        /\ fails' = Fails /\ active' = 3 - active
        /\ goal' = [goal EXCEPT !["event"] = saved[3 - active]]
        /\ UNCHANGED <<saves, ssid, pinned, bit, spare, station, events, history>>
    BY <1>2 DEF SwapSlot, Enter
  <2>2. /\ step' \in [Tasks -> Places] /\ step'["event"] = "pin"
        /\ \A u \in Tasks \ {"event"} : step'[u] = step[u]
    <3>1. Goes("event", "pin") /\ "pin" \in Places /\ "event" \in Tasks
      BY <1>2 DEF SwapSlot, Enter, Places, Steps, Tasks
    <3> QED BY <3>1, GoesFacts
  <2>3. active' \in 0 .. 2 /\ saved[3 - active] \in Nets \cup {None} /\ saved[3 - active] # None
    <3>1. active \in {1, 2}
      BY <2>1 DEF Swap, WifiTypeOK
    <3> QED BY <2>1, <3>1 DEF Swap, WifiTypeOK, Slots
  <2>4. fails' \in 0 .. MaxFails
    BY <2>1, FailsType
  <2>5. WifiTypeOK'
    BY <2>1, <2>2, <2>3, <2>4 DEF WifiTypeOK, Connecting, Steps, Places
  <2>6. Configured' /\ Retries' /\ Down'
    BY <2>1, <2>2 DEF Configured, Retries, Down, UnderWay, Steps, Tasks
  <2>7. Alone' /\ Named'
    BY <2>1, <2>2 DEF Alone, Named, Past, Tasks
  <2>8. Owed => Owed'
    BY <2>1, <2>2 DEF Owed, Tasks
  <2> QED BY <2>5, <2>6, <2>7, <2>8
<1>3. CASE Reconnect
  <2>1. /\ step["event"] = "decide" /\ ~ pinned /\ ssid # None /\ fails' = Fails
        /\ UNCHANGED <<saves, ssid, pinned, active, bit, spare, goal, down, crossed>>
    BY <1>3 DEF Reconnect
  <2>2. /\ step' \in [Tasks -> Places] /\ step'["event"] = "idle"
        /\ \A u \in Tasks \ {"event"} : step'[u] = step[u]
    <3>1. Goes("event", "idle") /\ "idle" \in Places /\ "event" \in Tasks
      BY <1>3 DEF Reconnect, Places, Steps, Tasks
    <3> QED BY <3>1, GoesFacts
  <2>3. /\ driver' \in {"associating", "up"} /\ (driver' = "up" => driver = "up")
        /\ driver = "idle" => driver' = "associating" /\ link' = config
        /\ driver # "idle" => driver' = driver /\ link' = link
        /\ UNCHANGED <<config, events>> /\ refused' \in BOOLEAN
    BY <1>3, ConnectFacts DEF Reconnect
  <2>4. config # None
    BY <2>1 DEF Configured
  <2>5. fails' \in 0 .. MaxFails
    BY <2>1, FailsType
  <2>6. WifiTypeOK'
    BY <2>1, <2>2, <2>3, <2>4, <2>5 DEF WifiTypeOK, Connecting, Steps, Places
  <2>7. Configured' /\ Retries' /\ Down'
    BY <2>1, <2>2, <2>3, <2>4 DEF Configured, Retries, Down, Tasks
  <2>8. Alone' /\ Named'
    BY <2>1, <2>2, <2>3 DEF Alone, Named, Past, Tasks
  <2>9. Owed => Owed'
    BY <2>1, <2>2, <2>3 DEF Owed, Tasks
  <2> QED BY <2>6, <2>7, <2>8, <2>9
<1> QED BY <1>1, <1>2, <1>3 DEF Decide

\* The worker of a wifi.connect has answered.
LEMMA WorkerStartsKeeps ==
    ASSUME WifiInv, WorkerStarts
    PROVE  WifiInv' /\ (Owed => Owed')
<1> USE DEF WifiInv
<1>1. /\ step["worker"] = "answer"
      /\ UNCHANGED <<saves, state, goal, station, events, history>>
  BY DEF WorkerStarts
<1>2. /\ step' \in [Tasks -> Places] /\ step'["worker"] = "settle"
      /\ \A u \in Tasks \ {"worker"} : step'[u] = step[u]
  <2>1. Goes("worker", "settle") /\ "settle" \in Places /\ "worker" \in Tasks
    BY DEF WorkerStarts, Places, Steps, Tasks
  <2> QED BY <2>1, GoesFacts
<1>3. WifiTypeOK'
  BY <1>1, <1>2 DEF WifiTypeOK, Connecting, Steps, Places
<1>4. Configured' /\ Retries' /\ Down'
  BY <1>1, <1>2 DEF Configured, Retries, Down, UnderWay, Steps, Tasks
<1>5. Alone' /\ Named'
  BY <1>1, <1>2 DEF Alone, Named, Past, Tasks
<1>6. Owed'
  BY <1>2 DEF Owed
<1> QED BY <1>3, <1>4, <1>5, <1>6

\* BLE has left the radio, the worker connects.
LEMMA WorkerSettledKeeps ==
    ASSUME WifiInv, WorkerSettled
    PROVE  WifiInv' /\ (Owed => Owed')
<1> USE DEF WifiInv
<1>1. /\ step["worker"] = "settle" /\ goal["worker"] # None
      /\ UNCHANGED <<saves, state, goal, station, events, history>>
  BY DEF WorkerSettled, Configured
<1>2. /\ step' \in [Tasks -> Places] /\ step'["worker"] = "pin"
      /\ \A u \in Tasks \ {"worker"} : step'[u] = step[u]
  <2>1. Goes("worker", "pin") /\ "pin" \in Places /\ "worker" \in Tasks
    BY DEF WorkerSettled, Places, Steps, Tasks
  <2> QED BY <2>1, GoesFacts
<1>3. WifiTypeOK'
  BY <1>1, <1>2 DEF WifiTypeOK, Connecting, Steps, Places
<1>4. Configured' /\ Retries' /\ Down'
  BY <1>1, <1>2 DEF Configured, Retries, Down, UnderWay, Steps, Tasks
<1>5. Alone' /\ Named'
  BY <1>1, <1>2 DEF Alone, Named, Past, Tasks
<1>6. Owed'
  BY <1>2 DEF Owed
<1> QED BY <1>3, <1>4, <1>5, <1>6

\* The driver gets an address, or loses the network and reports it.
LEMMA DriverKeeps ==
    ASSUME WifiInv, Driver
    PROVE  WifiInv' /\ (Owed => Owed')
<1> USE DEF WifiInv
<1>1. events \in Seq(Event) /\ {"disconnected", "got_ip"} \subseteq Event
  BY DEF WifiTypeOK
<1>2. UNCHANGED <<saves, state, step, goal, config, history>>
  BY DEF Driver, DriverUp, DriverFails
<1>3. CASE DriverUp
  <2>1. /\ driver = "associating" /\ driver' = "up" /\ UNCHANGED link
        /\ events' = Append(events, "got_ip")
    BY <1>3 DEF DriverUp
  <2>2. events' \in Seq(Event) /\ Has(events', "got_ip")
    BY <1>1, <2>1, AppendHas
  <2>3. WifiTypeOK'
    BY <1>2, <2>1, <2>2 DEF WifiTypeOK, Connecting
  <2>4. Configured' /\ Retries' /\ Down' /\ Alone' /\ Named'
    BY <1>2, <2>1, <2>2 DEF Configured, Retries, Down, Alone, Named
  <2>5. Owed'
    BY <2>2 DEF Owed
  <2> QED BY <2>3, <2>4, <2>5
<1>4. CASE DriverFails
  <2>1. /\ driver # "idle" /\ driver' = "idle" /\ link' = None
        /\ events' = Append(events, "disconnected")
    BY <1>4 DEF DriverFails
  <2>2. events' \in Seq(Event) /\ Has(events', "disconnected")
    BY <1>1, <2>1, AppendHas
  <2>3. WifiTypeOK'
    BY <1>2, <2>1, <2>2 DEF WifiTypeOK, Connecting
  <2>4. Configured' /\ Retries' /\ Down' /\ Alone' /\ Named'
    BY <1>2, <2>1, <2>2 DEF Configured, Retries, Down, Alone, Named
  <2>5. Owed'
    BY <2>1 DEF Owed
  <2> QED BY <2>3, <2>4, <2>5
<1> QED BY <1>3, <1>4 DEF Driver

(***************************************************************************)
(* The commands, the owner and the power.                                  *)
(***************************************************************************)
\* sk_wifi_disconnect, with whatever happens to the slots.
LEMMA LeaveKeeps ==
    ASSUME WifiInv, Leave, saved' \in [Slots -> Nets \cup {None}],
           ops' \in 0 .. Ops, reach' \subseteq Nets
    PROVE  WifiInv' /\ (Owed => Owed')
<1> USE DEF WifiInv
<1>1. /\ pinned' = TRUE /\ active' = 0 /\ fails' = 0
      /\ down' = (UnderWay = {} /\ events = <<>>)
      /\ UNCHANGED <<ssid, bit, spare, step, goal, crossed, refused>>
  BY DEF Leave
<1>2. /\ events' \in Seq(Event) /\ driver' = "idle" /\ link' = None /\ UNCHANGED config
      /\ \A x : Has(events, x) => Has(events', x)
  BY DisconnectFacts DEF Leave
<1>3. down' \in BOOLEAN
  BY <1>1
<1>4. WifiTypeOK'
  <2>1. fails' \in 0 .. MaxFails /\ active' \in 0 .. 2
    BY <1>1
  <2> QED BY <1>1, <1>2, <1>3, <2>1 DEF WifiTypeOK, Connecting
<1>5. Configured' /\ Retries' /\ Alone' /\ Named'
  BY <1>1, <1>2 DEF Configured, Retries, Alone, Named
<1>6. Down'
  <2>1. down' => \A t \in Tasks : step'[t] = "idle"
    BY <1>1 DEF UnderWay
  <2> QED BY <1>1, <1>2, <2>1 DEF Down, Tasks
<1>7. Owed'
  BY <1>2 DEF Owed
<1> QED BY <1>4, <1>5, <1>6, <1>7

\* What touches only the slots and the surroundings.
LEMMA StoreKeeps ==
    ASSUME WifiInv, saved' \in [Slots -> Nets \cup {None}],
           ops' \in 0 .. Ops, reach' \subseteq Nets,
           UNCHANGED <<state, step, goal, station, events, history>>
    PROVE  WifiInv' /\ (Owed => Owed')
<1> USE DEF WifiInv
<1>1. WifiTypeOK'
  BY DEF WifiTypeOK, Connecting
<1>2. Configured' /\ Retries' /\ Down' /\ Alone' /\ Named'
  BY DEF Configured, Retries, Down, UnderWay, Alone, Named
<1> QED BY <1>1, <1>2 DEF Owed

\* The bound of the operations.
LEMMA OpFacts ==
    ASSUME WifiTypeOK, Op
    PROVE  ops' \in 0 .. Ops
BY DEF WifiTypeOK, Op

\* wifi.connect saves and marks the primary, and starts the worker if it is free.
LEMMA ConnectPrimaryKeeps ==
    ASSUME WifiInv, NEW net \in Nets, ConnectPrimary(net)
    PROVE  WifiInv' /\ (Owed => Owed')
<1> USE DEF WifiInv
<1>1. /\ Op /\ saved' = [saved EXCEPT ![1] = net]
      /\ active' = 1 /\ fails' = 0 /\ down' = FALSE
      /\ UNCHANGED <<reach, ssid, pinned, bit, spare, station, events, crossed, refused>>
  BY DEF ConnectPrimary
<1>2. /\ saved' \in [Slots -> Nets \cup {None}] /\ ops' \in 0 .. Ops
      /\ active' \in 0 .. 2 /\ fails' \in 0 .. MaxFails /\ net # None
  BY <1>1, OpFacts DEF WifiTypeOK, Slots
<1>3. CASE step["worker"] = "idle"
  <2>1. goal' = [goal EXCEPT !["worker"] = net]
    BY <1>3 DEF ConnectPrimary
  <2>2. /\ step' \in [Tasks -> Places] /\ step'["worker"] = "answer"
        /\ \A u \in Tasks \ {"worker"} : step'[u] = step[u]
    <3>1. Goes("worker", "answer") /\ "answer" \in Places /\ "worker" \in Tasks
      BY <1>3 DEF ConnectPrimary, Places, Tasks
    <3> QED BY <3>1, GoesFacts
  <2>3. WifiTypeOK'
    BY <1>1, <1>2, <2>1, <2>2 DEF WifiTypeOK, Connecting, Steps, Places, Tasks
  <2>4. Configured' /\ Retries' /\ Down'
    BY <1>1, <1>2, <1>3, <2>1, <2>2
    DEF Configured, Retries, Down, UnderWay, Steps, Tasks, WifiTypeOK
  <2>5. Alone' /\ Named'
    BY <1>1, <1>3, <2>1, <2>2 DEF Alone, Named, Past, Tasks, WifiTypeOK
  <2>6. Owed => Owed'
    BY <1>1, <1>3, <2>2 DEF Owed, Tasks
  <2> QED BY <2>3, <2>4, <2>5, <2>6
<1>4. CASE step["worker"] # "idle"
  <2>1. UNCHANGED <<step, goal>>
    BY <1>4 DEF ConnectPrimary
  <2>2. WifiTypeOK'
    BY <1>1, <1>2, <2>1 DEF WifiTypeOK, Connecting
  <2>3. Configured' /\ Retries' /\ Down' /\ Alone' /\ Named'
    BY <1>1, <2>1 DEF Configured, Retries, Down, UnderWay, Alone, Named
  <2>4. Owed => Owed'
    BY <1>1, <2>1 DEF Owed
  <2> QED BY <2>2, <2>3, <2>4
<1> QED BY <1>3, <1>4

\* wifi.forget of the primary leaves it or goes to the backup.
LEMMA ForgetPrimaryKeeps ==
    ASSUME WifiInv, ForgetPrimary
    PROVE  WifiInv' /\ (Owed => Owed')
<1> USE DEF WifiInv
<1>1. /\ Op /\ step["command"] = "idle"
      /\ saved' = [saved EXCEPT ![1] = None] /\ UNCHANGED reach
  BY DEF ForgetPrimary
<1>2. saved' \in [Slots -> Nets \cup {None}] /\ ops' \in 0 .. Ops /\ reach' \subseteq Nets
  BY <1>1, OpFacts DEF WifiTypeOK
<1>3. CASE Leave
  BY <1>2, <1>3, LeaveKeeps
<1>4. CASE active = 1 /\ saved[2] # None
  <2>1. /\ active' = 2 /\ goal' = [goal EXCEPT !["command"] = saved[2]]
        /\ saved[2] \in Nets \cup {None}
        /\ UNCHANGED <<ssid, pinned, fails, bit, spare, station, events, history>>
    BY <1>4 DEF ForgetPrimary, Enter, WifiTypeOK, Slots
  <2>2. /\ step' \in [Tasks -> Places] /\ step'["command"] = "pin"
        /\ \A u \in Tasks \ {"command"} : step'[u] = step[u]
    <3>1. Goes("command", "pin") /\ "pin" \in Places /\ "command" \in Tasks
      BY <1>4 DEF ForgetPrimary, Enter, Places, Steps, Tasks
    <3> QED BY <3>1, GoesFacts
  <2>3. WifiTypeOK'
    <3>1. active' \in 0 .. 2
      BY <2>1
    <3> QED BY <1>2, <1>4, <2>1, <2>2, <3>1 DEF WifiTypeOK, Connecting, Steps, Places
  <2>4. Configured' /\ Retries' /\ Down'
    BY <1>4, <2>1, <2>2 DEF Configured, Retries, Down, UnderWay, Steps, Tasks, WifiTypeOK
  <2>5. Alone' /\ Named'
    BY <1>1, <2>1, <2>2 DEF Alone, Named, Past, Tasks, WifiTypeOK
  <2>6. Owed => Owed'
    BY <2>1, <2>2 DEF Owed, Tasks
  <2> QED BY <2>3, <2>4, <2>5, <2>6
<1> QED BY <1>3, <1>4 DEF ForgetPrimary

\* The other commands.
LEMMA CommandKeeps ==
    ASSUME WifiInv, Command
    PROVE  WifiInv' /\ (Owed => Owed')
<1> USE DEF WifiInv
<1>1. ASSUME Op, UNCHANGED reach PROVE ops' \in 0 .. Ops /\ reach' \subseteq Nets
  BY <1>1, OpFacts DEF WifiTypeOK
<1>2. ASSUME NEW net \in Nets, SaveBackup(net) PROVE WifiInv' /\ (Owed => Owed')
  <2>1. saved' \in [Slots -> Nets \cup {None}]
    BY <1>2 DEF SaveBackup, WifiTypeOK
  <2> QED BY <1>1, <1>2, <2>1, StoreKeeps DEF SaveBackup
<1>3. CASE Disconnect
  BY <1>1, <1>3, LeaveKeeps DEF Disconnect, WifiTypeOK
<1>4. CASE ForgetAll
  <2>1. saved' \in [Slots -> Nets \cup {None}]
    BY <1>4 DEF ForgetAll
  <2> QED BY <1>1, <1>4, <2>1, LeaveKeeps DEF ForgetAll
<1>5. CASE ForgetBackup
  <2>1. saved' \in [Slots -> Nets \cup {None}]
    BY <1>5 DEF ForgetBackup, WifiTypeOK
  <2> QED BY <1>1, <1>5, <2>1, StoreKeeps DEF ForgetBackup
<1> QED BY <1>2, <1>3, <1>4, <1>5, ConnectPrimaryKeeps, ForgetPrimaryKeeps DEF Command

\* Networks come and go.
LEMMA MoveKeeps ==
    ASSUME WifiInv, Move
    PROVE  WifiInv' /\ (Owed => Owed')
<1> USE DEF WifiInv
<1>1. saved' \in [Slots -> Nets \cup {None}] /\ ops' \in 0 .. Ops /\ reach' \subseteq Nets
  BY OpFacts DEF Move, WifiTypeOK
<1> QED BY <1>1, StoreKeeps DEF Move

\* The power is cut and the device boots.
LEMMA PowerCycleKeeps ==
    ASSUME WifiInv, PowerCycle
    PROVE  WifiInv' /\ Owed'
<1> USE DEF WifiInv
<1>1. /\ events' = <<>> /\ driver' = "idle" /\ ssid' = None /\ config' = None /\ link' = None
      /\ pinned' = FALSE /\ bit' = FALSE /\ down' = FALSE /\ crossed' = FALSE /\ refused' = FALSE
      /\ step' = BootStep(saved) /\ goal' = BootGoal(saved) /\ active' = FirstSlot(saved)
      /\ spare' \in BOOLEAN
      /\ fails' = 0 /\ UNCHANGED <<saved, reach>> /\ saved \in [Slots -> Nets \cup {None}]
  BY DEF PowerCycle, WifiTypeOK
<1>2. /\ \A t \in Tasks : step'[t] \in {"pin", "idle"}
      /\ step' \in [Tasks -> Places] /\ step'["event"] = "idle" /\ step'["worker"] = "idle"
  BY <1>1 DEF BootStep, Places, Steps, Tasks
<1>3. /\ goal' \in [Tasks -> Nets \cup {None}] /\ active' \in 0 .. 2
      /\ \A t \in Tasks : step'[t] # "idle" => goal'[t] # None
  BY <1>1 DEF BootGoal, BootStep, FirstSlot, Slots
<1>4. events' \in Seq({"disconnected", "got_ip"})
  BY <1>1
<1>5. WifiTypeOK'
  <2>1. ops' \in 0 .. Ops /\ fails' \in 0 .. MaxFails
    BY <1>1, OpFacts DEF PowerCycle
  <2>2. {pinned', bit'} \subseteq BOOLEAN /\ {down', crossed', refused'} \subseteq BOOLEAN
    BY <1>1
  <2>3. \A t \in Connecting' : goal'[t] # None
    BY <1>2, <1>3 DEF Connecting, Steps
  <2> QED BY <1>1, <1>2, <1>3, <1>4, <2>1, <2>2, <2>3 DEF WifiTypeOK, Places
<1>6. Configured' /\ Retries' /\ Down' /\ Alone' /\ Named'
  BY <1>1, <1>2 DEF Configured, Retries, Down, Alone, Named, Past, Steps
<1>7. Owed'
  BY <1>1 DEF Owed
<1> QED BY <1>5, <1>6, <1>7

(***************************************************************************)
(* The steps of BLE, and of both.                                          *)
(***************************************************************************)
\* A step of BLE alone: phones come and go and the timers expire.
LEMMA BleKeeps ==
    ASSUME BleInv, BleUser \/ BleTimers \/ LinkEnds \/ PeerIdle,
           UNCHANGED resume, Owed => Owed'
    PROVE  BleInv'
<1> USE DEF BleInv, BleTypeOK, Returns, peerVars
<1>1. CASE \E p \in Peers : PeerConnects(p)
  BY <1>1 DEF PeerConnects
<1>2. CASE \E p \in links : Disconnected(p)
  BY <1>2 DEF Disconnected, StartAdvertising
<1>3. CASE OpenWindow \/ CloseWindow
  BY <1>3 DEF OpenWindow, CloseWindow, StartAdvertising
<1>4. CASE Pair \/ Unpair
  <2>1. leaving' \subseteq links /\ UNCHANGED <<links, handle, idleTimer, resume>>
    BY <1>4 DEF Pair, Unpair, Terminate
  <2>2. \/ advertises' = TRUE /\ radio' = TRUE /\ window' = FALSE /\ bonded' = TRUE
        \/ bonded' = FALSE /\ UNCHANGED <<advertises, radio, window>>
    BY <1>4 DEF Pair, Unpair, StartAdvertising
  <2>3. BleTypeOK'
    <3>1. {advertises', radio', bonded', window', idleTimer'} \subseteq BOOLEAN
      BY <2>1, <2>2
    <3>2. advertises' => radio'
      BY <2>2
    <3> QED BY <2>1, <3>1, <3>2
  <2>4. Returns'
    BY <2>1, <2>2
  <2> QED BY <2>1, <2>3, <2>4
<1>5. CASE IdleTimeout
  BY <1>5 DEF IdleTimeout, Stop
<1>6. CASE WindowTimeout
  BY <1>6 DEF WindowTimeout, StartAdvertising, Stop
<1>7. CASE PeerIdle
  BY <1>7 DEF PeerIdle, Terminate
<1>8. (\E p \in Peers : Disconnected(p)) \/ LinkEnds => \E p \in links : Disconnected(p)
  BY DEF LinkEnds, Disconnected
<1> QED BY <1>1, <1>2, <1>3, <1>4, <1>5, <1>6, <1>7, <1>8 DEF BleUser, BleTimers

\* Every step of both keeps the invariant.
LEMMA RadioStep == RadioInv /\ [RadioNext]_radioVars => RadioInv'
<1> SUFFICES ASSUME RadioInv, [RadioNext]_radioVars PROVE RadioInv'
  OBVIOUS
<1> USE DEF RadioInv
<1>1. ASSUME UNCHANGED <<bleVars, resume>>, Owed => Owed' PROVE BleInv'
  BY <1>1 DEF BleInv, BleTypeOK, Returns, bleVars, peerVars
<1>2. ASSUME UNCHANGED wifiVars PROVE WifiInv' /\ (Owed => Owed')
  <2>1. saved' \in [Slots -> Nets \cup {None}] /\ ops' \in 0 .. Ops /\ reach' \subseteq Nets
    BY <1>2 DEF wifiVars, WifiInv, WifiTypeOK
  <2> QED BY <1>2, <2>1, StoreKeeps DEF wifiVars
<1>3. CASE HandOver
  <2>1. WifiInv' /\ step'["worker"] = "settle"
    BY <1>3, WorkerStartsKeeps DEF HandOver, WorkerStarts, Goes, WifiInv, WifiTypeOK, Tasks
  <2>2. BleInv'
    BY <1>3, <2>1 DEF HandOver, TerminateBeforeWifi, Terminate, Stop, BleInv, BleTypeOK, Returns, Owed
  <2> QED BY <2>1, <2>2
<1>4. CASE Acquired
  <2>1. WifiInv'
    BY <1>4, GotIpKeeps DEF Acquired
  <2>2. BleInv'
    BY <1>4 DEF Acquired, BleInv, BleTypeOK, Returns, bleVars, peerVars
  <2> QED BY <2>1, <2>2
<1>5. CASE TakeBack
  <2>1. WifiInv'
    BY <1>2, <1>5 DEF TakeBack
  <2>2. BleInv'
    BY <1>5 DEF TakeBack, ResumeAfterWifi, StartAdvertising, BleInv, BleTypeOK, Returns, peerVars
  <2> QED BY <2>1, <2>2
<1>6. CASE OtherWifi
  <2>1. WifiInv' /\ (Owed => Owed')
    <3>1. ASSUME NEW t \in Tasks, ConnectSta(t) PROVE WifiInv' /\ (Owed => Owed')
      BY <3>1, PinKeeps, ConfigureKeeps, RefuseKeeps, TargetKeeps, ConnectKeeps DEF ConnectSta
    <3> QED BY <1>6, <3>1, TakeDisconnectedKeeps, DecideKeeps, WorkerSettledKeeps, DriverKeeps,
               CommandKeeps, MoveKeeps DEF OtherWifi
  <2> QED BY <1>1, <1>6, <2>1 DEF OtherWifi
<1>7. CASE User
  <2>1. ops' \in 0 .. Ops /\ saved' \in [Slots -> Nets \cup {None}] /\ reach' \subseteq Nets
    BY <1>7, OpFacts DEF User, WifiInv, WifiTypeOK
  <2>2. WifiInv' /\ (Owed => Owed')
    BY <1>7, <2>1, StoreKeeps DEF User
  <2> QED BY <1>7, <2>2, BleKeeps DEF User
<1>8. CASE Ble
  BY <1>2, <1>8, BleKeeps DEF Ble
<1>9. CASE Reboot
  <2>1. WifiInv' /\ Owed'
    BY <1>9, PowerCycleKeeps DEF Reboot
  <2>2. BleInv'
    BY <1>9, <2>1 DEF Reboot, BleInv, BleTypeOK, Returns
  <2> QED BY <2>1, <2>2
<1>10. CASE UNCHANGED radioVars
  BY <1>1, <1>2, <1>10 DEF radioVars
<1> QED BY <1>3, <1>4, <1>5, <1>6, <1>7, <1>8, <1>9, <1>10 DEF RadioNext

\* The invariant holds throughout.
LEMMA RadioAlways == RadioSpec => []RadioInv
BY RadioInitInv, RadioStep, PTL DEF RadioSpec

(***************************************************************************)
(* The theorems.                                                           *)
(***************************************************************************)
\* The types of sk_wifi.c and sk_transport_ble.c hold throughout.
THEOREM RadioTypes == RadioSpec => []RadioTypeOK
<1>1. RadioInv => RadioTypeOK
  BY DEF RadioInv, WifiInv, BleInv, RadioTypeOK
<1> QED BY <1>1, RadioAlways, PTL

\* The retries of wifi_event_cb never die out, except by a refused configuration.
THEOREM RetriesLive == RadioSpec => []RetryAlive
<1>1. RadioInv => RetryAlive
  BY EmptyHasNone DEF RadioInv, WifiInv, Retries, RetryAlive, Quiet
<1> QED BY <1>1, RadioAlways, PTL

\* A disconnect that finds no connect under way lasts until the next wifi.connect.
THEOREM DisconnectLasts == RadioSpec => []DownStays
<1>1. RadioInv => DownStays
  BY DEF RadioInv, WifiInv, Down, DownStays
<1> QED BY <1>1, RadioAlways, PTL

\* wifi.status tells the truth of a link that is up, as long as no two tasks are in
\* sk_wifi_connect_sta at a time.
THEOREM StatusTrue == RadioSpec => []StatusNamesLink
<1>1. RadioInv => StatusNamesLink
  BY EmptyHasNone DEF RadioInv, WifiInv, Named, StatusNamesLink, Quiet, UnderWay
<1> QED BY <1>1, RadioAlways, PTL

\* A phone that is bonded finds the device once WiFi is up and settled.
THEOREM BondedFinds == RadioSpec => []BondedReachable
<1>1. RadioInv => BondedReachable
  BY EmptyHasNone DEF RadioInv, BleInv, Returns, Owed, BondedReachable, Quiet, UnderWay, Tasks
<1> QED BY <1>1, RadioAlways, PTL
=============================================================================
