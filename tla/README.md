# Formal model of the BlockingFocus firmware

BlockingFocus is a focus cube (ESP32-C6, ESP-IDF, FreeRTOS with a 100 Hz tick).
The face that is up selects a countdown; while the last part of the countdown
runs, the cube cannot be talked out of it; when it expires the cube calls HTTP
endpoints.  Around that there is a passphrase, an encrypted store, a firmware
update, WiFi, BLE, USB and TCP command lines, pairing, a display, a battery.

This directory holds TLA+ modules of the firmware's components, the TLC
configurations that check them on small instances, and TLAPS proofs, for every
value of the constants, about the timer engine, the passphrase, the secure store,
the update, the detector with the power states, the radios, the bonds, the outbound
API and the panel, three of them with an abstract promise that they implement.  Every
definition is translated from the C code under `src/Code`; `PROJECT.json` maps
each one to its lines.

    cd tla
    tlc -workers 2 -config TimerEngine.cfg MCTimerEngine     (one run)
    tlapm TimerEngineProofs.tla                              (the proofs)

## 1. Inventory of the system

All paths are below `src/Code/components`.  "Task" is a FreeRTOS task; a
publication on the event bus calls every subscriber in the publisher's task
before it returns, so a slow subscriber stalls the publisher.

| Component | State it keeps | Operations | Who touches it | What makes it hard |
|---|---|---|---|---|
| Timer engine, `bf_timer_engine` | state machine, face and duration counted, deadline, paused remainder, warning latch, queue of 16 | face change, tick (500 ms), cooldown end, end of the trigger task, init | `timer_task` (prio 5), two esp_timers, `api_trigger_task` (4), the publisher of `face.changed` | stale ticks, a full queue that drops events, a stalled task, an init that runs after its task |
| Passphrase, `sk_passphrase` | salt, hash, mode bits, failure counter, each in RAM and in NVS | set, change, clear, verify, mode, lockout, factory reset | tasks of the transports under one mutex, the button's task, a subscriber of the reset | separate NVS writes, power cuts, publication under a mutex |
| Secure store, `bf_secure_store` | master key, cached map, its blob, user file | set, get, erase, write, read, reset | any command task under one mutex | cache before save, truncating writes, reset in steps |
| Firmware update, `sk_ota` | status, cached manifest, two slots, boot selection | check, start, download, verify, activate, rollback | one task per check and download, command tasks, restarts | overlap of tasks of which the status tells only one |
| Face detector, `bf_face_detector` | committed and pending face, overlay, poll period | sample, commit, overlay, change of period | poll task (4), publisher of `power.state` | timing limits on ticks, the period changes under the delay |
| Power, `bf_power` | power state, two timestamps, timer and face flags, queue of 16, panel, wake lock | 4 kinds of events, periodic check, init | `power_task` (4), publishers, esp_timer, main task | init in another task, order of events, timeouts |
| WiFi, `sk_wifi` | two slots, pin, active slot, failure counter, connected bit | connect, disconnect, forget, boot, retries, failover | event task (20), worker (4), command tasks, main | four tasks in one unlocked function, late driver events |
| BLE transport, `sk_transport_ble*` | radio flag, connection handle, idle timer, lines in assembly | advertise, links, window, hand-over to WiFi | NimBLE host, esp_timers, publishers | one radio, timers against events |
| Outbound API, `sk_api` | endpoints of the user and of computers, NVS keys, master switch | add, remove, purge, send, chain, call with retry | command tasks, chain and send tasks, no lock | look-up and copy unlocked, multi-key saves |
| Pairing and bonds, `sk_auth*` | 8 bonds, pairing window, pending bond, nonces, confirmation tokens | pair, verify, rotate, revoke | transports, esp_timer | window timer against handshake, RAM and NVS apart |
| Secure session, `sk_secure_session` | per-transport session and keys | begin, verify, line, timeout | transports | one global active bond for several transports |
| TCP, `sk_transport_tcp` | client slots | accept, line, drop | a task per client | a slot is free before its task is done |
| Event bus, `sk_event_bus` | 64 subscriptions | subscribe, unsubscribe, publish | all | snapshot outlives an unsubscribe |
| User interface, `bf_ui` | scene, flags, queue of 8, boot phase, deadlines | every subscriber that sets a flag, events, messages, drawing | `ui_task` (4), the tasks that publish, two of which draw at once | one framebuffer and two tasks, dropped events, four seconds in which nothing is taken |
| Vibration, `bf_vibration` | three switches in RAM and NVS, queue of 8, pin | patterns, commands, two subscribers | worker (5), command tasks | a switch between the worker's look and its write to the pin |
| Battery, `bf_battery` | level, lockout latch and its streak, charge state | sample (10 s) with three state machines, publications | monitor task, subscribers in it | sticky lockout, a first sample before anybody listens, no sample while the motor is on |
| Button, control, `sk_button`, `sk_control` | press, hold thresholds, taps of a group | hold events, release, tap groups, restart, reset | button task (4), subscribers in it | a release first seen with a threshold, the window of the taps, a restart before the other subscribers |
| CLI, log, identity, display, sensor, LED, USB | small or constant | | | pure input and output, parsing |

How they interact: the face detector publishes `face.changed`, which the timer
engine and power queue; the timer engine publishes `timer.state`, which power
queues and the UI shows; power publishes `power.state`, which sets the poll
period of the detector; an expired timer sends to the endpoints of the API,
which needs WiFi; WiFi and BLE share one radio and hand it over by events; the
passphrase, the button and the CLI publish `device.factory-reset.requested`, to
which every store subscribes.  The battery's monitor publishes level, latch and charge state, which
the UI shows and the vibration announces; it does not sample while the motor
runs.  The button publishes presses and holds, which `sk_control` acts on and the
UI shows as a bar.

What makes each component right, in the order of importance:

1. Timer engine: focus time is neither lost nor invented; the locked part ends
   only by its expiry; every expiry leads back to a free cube; what is reported
   is what was counted.
2. Passphrase: only a chosen word opens; wrong answers are counted across power
   cycles; reaching the limit resets; nobody waits for ever.
3. Secure store: what was acknowledged is there after a power cut.
4. Update: the device always boots; an image is what its hash says; no failure
   blocks updates.
5. Power and detector: the device goes dark for a reason and in time, wakes when
   it is turned, and panel and wake lock agree with the state.
6. WiFi and BLE: the device never gives up while it should be connected, and
   stays down when told; a bonded phone can always reach it.
7. API: every endpoint is called once, every accepted call ends.
8. Sessions and pairing: no command without a bond and a session.
9. Panel: it shows the state of now, LOW BATTERY exactly under the lockout; the
   button wipes only when that was meant; a charger ends the lockout.

## 2. Modules

| Module | Stands for | Notes |
|---|---|---|
| `FocusSession` | what the timer engine promises | abstract: free, running, committed, suspended, closing |
| `TimerEngine` | `bf_timer_engine.c` | one action per handler and branch, `TimerTask` takes the queue |
| `TimerEngineRefinement` | the mapping to `FocusSession` | `Session == INSTANCE ... WITH` |
| `TimerEnginePrompt` | `TimerEngine` with a history variable | whether an event had to wait since the last start: what comes on time |
| `PassphraseGuard` | what the passphrase promises | abstract: what opens the device now, what will after a restart, who asks |
| `Passphrase` | `sk_passphrase.c`, the resets of `sk_control` | a program counter per command task |
| `PassphraseRefinement` | the mapping to `PassphraseGuard` | `Guard == INSTANCE ... WITH` |
| `SecureStore` | `bf_secure_store.c` | operations are atomic but for failed saves and power cuts; a reset goes write by write |
| `SlotUpdate` | what the update promises | abstract: what runs, what is on standby, what is selected |
| `Ota` | `sk_ota.c` | a program counter per check and download task |
| `OtaRefinement` | the mapping to `SlotUpdate` | `Update == INSTANCE ... WITH` |
| `FaceDetector` | `bf_face_detector.c` | time in units of a poll |
| `Power` | `bf_power.c` | time in a unit of the instance |
| `CubeWake` | `FaceDetector` and `Power` joined | publications are joint steps |
| `Wifi` | `sk_wifi.c` | a program counter per task in `sk_wifi_connect_sta`, and the driver |
| `Ble` | `sk_transport_ble.c`, the pairing part of `_gatt.c` | operations are atomic |
| `Radio` | `Wifi` and `Ble` joined | the hand-over of the radio both ways |
| `Access` | `sk_auth*.c`, `sk_secure_session.c`, `sk_transport_tcp.c`, the lines of `_gatt.c` | one connection per client slot and one of BLE |
| `Api` | `sk_api.c`, the chain in `bf_timer_engine.c` | chain, single send, send tasks and saves interleave |
| `Battery` | the state machines of `bf_battery.c` | one action per machine, each publishes before the next runs |
| `Vibration` | `bf_vibration.c` | the worker's look at the switch and its write are two steps |
| `Button` | `sk_button.c`, the presses in `sk_control.c` | a hold is as long as the thresholds it passed |
| `Ui` | `bf_ui.c`, the framebuffer of `bf_display.c` | a drawing is the choice of the picture and its transfer |
| `Panel` | the four joined | a publication is a joint step of publisher and subscribers |
| `TimerEngineProofs`, `PassphraseProofs`, `FlashProofs` (secure store and update), `CubeWakeProofs`, `RadioProofs`, `AccessProofs`, `PanelProofs`, `ApiProofs` | theorems | section 6 |
| `MC*` | instances for TLC | values of constants, start states |

Variables keep the name of the C object, or it stands beside the declaration; a
variable marked *history* belongs to no C object and is read by properties only.
An action is a handler, or the part of one up to the next point at which another
task can run: a delay, a mutex, an NVS or flash write that can fail or be cut, a
publication that can stall.  Between such points a task of a single-core
FreeRTOS is preempted only by one of a higher priority; where the code relies on
that, or where the touched object is a single word, the step is left whole, and
where another task of any priority can come in between (the look-up and the copy
of an endpoint, the check of the update status and its change, the steps of
`sk_wifi_connect_sta`, the end of `bf_power_init`, the derivation of a key and
the check of a word, the match of a slot and its activation) it is split.

`Mutant of X` marks a definition that is not part of any specification: it is X
with a plausible mistake, and shows that a property would notice it.

### How the models correspond to the code

* **TimerEngine.** Time passes by half seconds (`HalfSec`, the tick): `left` is
  the deadline minus now, `Remaining` rounds down as `compute_remaining_sec`
  does.  `queue` is `s_evt_q` and drops what does not fit.  `Stalled` is a
  subscriber that holds `timer_task` up in a publication, so that ticks and
  faces pile up; in `API_TRIGGERING` and `COOLDOWN` the engine publishes nothing
  more, and so its task cannot stall there.  `boot` follows
  `bf_timer_engine_init`, which subscribes, creates the task and only then sets
  the state.  `handle_cancel` and the state LOW_POWER have no caller.
* **Passphrase.** A hash is the pair of a word and a salt.  The key derivation
  sleeps, so the mutex is held across steps.  `publish` and `wiping` follow the
  subscribers of the factory reset in the order of `main.c`.
* **SecureStore.** A ciphertext is its key and its plaintext.  `acked*` collects
  what each entry may be by the answers that callers got: an accepted write is
  exact, a refused one may have happened.  Every write of a factory reset may fail
  (926-940), and so may the close of the user file (550-552): the code looks at
  neither result.  `keyLost` remembers that the key in RAM is in no flash.
* **Ota.** A slot holds an image or is `Incomplete`; the ESP-IDF refuses to activate an
  incomplete slot and the boot loader falls back.  A download remembers whether it was
  alone: the code has no guard there (section 7).
* **FaceDetector, Power, CubeWake.** A timestamp is the time since; what is older
  than all limits is one value.  A sample that is due exactly at a limit may see
  it reached or not, because `vTaskDelay` ends on a tick.
* **Wifi, Ble, Radio.** The driver reports what it loses, also by its own
  `esp_wifi_disconnect`, through `events`.  A network is its SSID.  `Bad` are
  names that `esp_wifi_set_config` refuses.
* **Access.** A bond key is a number drawn once; `conn` holds for every
  connection its `sk_secure_session_t` and where its handler is.  A signed line is
  the key of its sender, compared with the one `sk_auth__token_ptr` gives: the
  active key, or that of slot 0.  `Close` stands for the end of a link; the BLE
  host ends it later by an event, in which time nothing can come that a new link
  could not bring as well, so the two are one step.  `stands` are the bonds of which
  phones have had the answer; it ends with removal, rotation, clearing, a new
  exchange of the same phone or loss of its data.  `revoked` collects every key that is
  in no slot any more, in RAM and in NVS, and `replaced` the active one whose slot
  a new pairing of its phone overwrote.  The erasure of a slot may fail
  without anybody looking at the result; `leftover` remembers it.
* **Api.** The URL, token and so on are one `body`; a save is three writes (name,
  body, peer) in the order of the eleven in the code.  The open of NVS and each write
  may fail, at which nobody looks (256-290): `Lost` goes on with the next key, and
  `unsaved` are the slots whose last save or erasure lost a write.  The name of a computer
  derives from its peer and is written as the peer.  The list that a chain works
  through is a function from the slots it was copied from to the names they had; the
  code's array is that function in slot order.  `ChainRun` is the chain of a command,
  `Trigger` that of an expired timer, which looks at the switch for each call only.  A
  purge saves one slot after the other: `saving.slots` are those not yet done.
* **Battery, Vibration, Button, Ui, Panel.** A sample is three steps, one for each
  state machine in `monitor_task`, since each publishes before the next one runs and
  a subscriber may draw in between.  `phase` follows `app_main` (the first sample is
  over before `bf_ui_init` subscribes) and the boot scenes, during which `ui_task`
  takes nothing.  `Draws` picks the picture by `render_current`, `Presents` is
  the transfer, which may fail half-way; a drawing that overlaps another one, or
  that misses a change which asks for no drawing, is `spoiled`, and a panel that was
  left by such a one is `stale`.  `events` drops what does not fit, and `lost`
  remembers the kinds whose last one was dropped.  A `scenario` fixes which inputs
  an environment gives and how many, so that small environments cover what meets
  in the code without multiplying.

## 3. Runs

| Run | Module | States | Question |
|---|---|---|---|
| `TimerEngine` | `MCTimerEngine` | 137 000 | with every order of faces, stalls, stale events and the init race: is time accounted for, does the lock hold, is no phase stranded, is `FocusSession` implemented, also under fairness; when no event had to wait: do lock and warning come in time |
| `TimerEngineExpiredFace` | `MCTimerEngine` | violation | does `timer.expired` name the face that was counted |
| `Passphrase` | `MCPassphrase` | 652 000 | two command tasks, the button, failing writes, one power cycle: who opens, what is counted, what is durable, who waits, is `PassphraseGuard` implemented |
| `PassphraseLockout` | `MCPassphrase` | violation | does the lockout reset the device |
| `SecureStore` | `MCSecureStore` | 97 000 | failing writes in saves and resets, power cuts: do RAM and flash agree with the answers |
| `Ota` | `MCOta` | 473 000 | a check, two overlapping downloads, rollback, power cuts: is `SlotUpdate` implemented, is an image what its hash says, is the updater free again |
| `CubeWake` | `MCCubeWake` | 2 470 000 | detector and power together, also with events during the init: debounce, latency, dark in time and for a reason |
| `Radio` | `MCRadio` | 1 120 000 | commands, moves, power cycles, phones: retries, failover, pin, status, BLE |
| `Access` | `MCAccess` | 1 108 000 | two phones over BLE and TCP: overlapping exchanges, window, word, failing writes, removal, rotation, power cycles |
| `AccessPairing` | `MCAccess` | violation | can a phone that is asked for the passphrase answer |
| `Api` | `MCApi` | 993 000 | both chains and sends against changes, power cuts, lost writes, offline and missing answers |
| `Panel` | `MCPanel` | 320 000 | battery, motor, button, charger and scenes in nine environments: what the panel shows, what a press does, whether the lockout ends |

What the properties say, beyond their comments in the modules:

* `TimeAccounted`: counted + left + rounded away by pauses = duration, at every
  point of a session.  With `ExpiresWhenServed` a session cannot end early.
* `OneChainOneCooldown`, `NeverStranded`: no state waits for
  an event that nobody will send.  `NeverStranded` needs a queue of only two
  places, because faces and ticks are the only other senders and the task
  empties the queue in the two phases that wait for one event.
* `LocksInTime`, `WarnedBeforeExpiry`: the two comparisons in `handle_tick` with
  whole seconds are never skipped over, whatever phase the tick inherited, as long
  as no event had to wait in the countdown (`late`).
* `OnlyChosenOpens`: after any mixture of cut and failed writes of salt and hash
  no word opens that nobody chose.  `ResetNotBlocked`: the reset waits only for a
  command that gives the mutex back - but for the lockout (section 7).
* `ImplementsPassphraseGuard`: the word that a client gave is compared once, at the
  head of a command, and the writes come later, between key derivations that sleep;
  the abstract guard asks at each of these writes that the word still opens the
  device.  It also says that a reset never falls into a change, that nothing else
  changes what opens, and what a cut may leave: the old word, the new one, none asked
  for, or, between salt and hash of a change, a device that no word opens (section 7).
* `ImplementsSlotUpdate`: only the standby is written and only a complete one is
  selected, whatever two downloads, a rollback and a restart do to one another.
* `HashHolds`: holds only for a download that was alone; without that conjunct
  it is violated by two downloads, which the code allows.
* `DarkForAReason` and `DarkInTime` relate the power state to what the accepted
  events said, however late they were taken; `SettlesInTime` bounds the loop in
  which the power state slows down the detector that has to end that state.
* `RetryAlive`: a device that is meant to be connected and has nothing under way
  is up or associating.  Its exceptions (two tasks crossed in
  `sk_wifi_connect_sta`, a configuration that an idle driver refused) are real,
  see section 7.
* `FailsOver`: a device whose two networks differ and of which only the other is
  in reach gets there.
* `ChainReachesAll`: the chain calls every endpoint that no command touched, in
  order, with what was registered - provided that no two share a name and that each
  computer's endpoint has the peer its name derives from (section 7).
* `BondDurable`: what a phone was told holds in RAM and in NVS.  It excepts runs in
  which a word committed the pending bond of another phone (section 7).
  `RevokedRefused` quantifies over every key that was removed, rotated, cleared or
  overwritten by a new pairing and is neither in RAM nor in NVS any more, whichever
  session still uses it.  One of them is served: the active key of a phone that
  pairs anew, until another becomes active (`replaced`, section 7).  A removal
  whose write failed leaves the key in NVS, and a restart brings it back, which the
  code reports to the caller as an error.
  `LastSessionServed` is about the connection whose handshake is the latest,
  begun or answered; older sessions lose the one active key (section 7).  That no
  phone has two slots is part of `BondDurable`, but after an erasure that failed.
* `KvKept`, `UserKept`: what is in RAM, and what the next start would read, is what
  the answers said - but that after a reset which could not save its new key all
  of it may be gone at the next start, or the old data be back (section 7).
* `ReloadsSame`: a cut save changes no slot but the one that is saved, whatever
  earlier cuts and lost writes left in the keys; slots whose own save lost a write
  without anybody noticing are excepted (section 7).
* `ScreenTruthful`: whenever no task draws and the last drawing was neither
  spoiled nor cut, the panel shows the picture of scene and flags as they are, and
  LOW BATTERY exactly while `bf_battery` holds its latch - two components that
  agree only through publications.  `stale` excepts the overlap of the two tasks,
  which the code does not exclude (section 7).
* `SceneFollowsTimer`, `HoldBarFollows`: no order of messages, boot scenes and
  dropped events leaves the countdown or the bar, unless the one event that would
  have ended it was itself dropped.
* `WipeMeant`: an action property over the button's counters and the real ages of
  the presses; `LockoutLifts`: the latch ends with a charger although the monitor
  waits for the motor, the motor for a switch, and a restart forgets all.
* `Settles`, `BusyEnds`, `KeepsFocusPromise`, `FailsOver`, `LockoutLifts` are liveness
  properties under the fairness of section 5.

Types are stated as invariants of the proofs and not in the runs: a type error in any
module stops TLC anyway.

Each property of a passing run has a mutant of a modelled definition in
`PROJECT.json` under which TLC finds it violated.

## 4. Bounds

* **TimerEngine**: a display face (arms), a USB face (pauses), a face of 4 s, one
  short enough to start locked; lock at 2 s, warning at 1 s.  The code has 60 s
  and 5 s; only comparisons with these matter.  Queue of 2 instead of 16: a
  shorter queue drops more, so more can go wrong; the proofs cover every
  capacity, face table and limit.
* **Passphrase**: two command tasks and the button, two words, four salts (three can
  be in use when a fresh one is drawn), lockout after 2, one power cycle.  Tasks,
  words and salts are symmetric.
* **SecureStore**: two keys whose large values together exceed the plain text;
  `MaxEntries` 2; a user file of two bytes; five master keys, one more than can be
  in use at a time, so that a fresh one is always there.
* **Ota**: one check task and two downloads: the status has one writer too many
  already with two.
* **CubeWake**: the long times are a few slow polls; `LowPower` is twice
  `ScreenOff` as in the code, a check is shorter than both.  `Burst` leaves room
  in the queue for the face and the check: with 16 places the queue is not filled
  by the publications of two samples.
* **Radio**: two networks and one that the driver refuses, `MaxFails` 2 instead
  of 5 (the counter is compared with nothing else), two operations of the user or
  the environment from two start states, one phone.
* **Access**: two phones, BLE and one TCP client, two slots instead of eight, two
  keys.  Two keys are an exchange beside another, a rotation after a pairing, and
  a pairing again; with three the run does not end in reasonable time.
  `AccessPairing` needs only one.
* **Api**: one user slot and two system slots, two computers, two bodies, one
  send task at a time, three operations, one power cut, one lost write.  Three operations are
  what it takes to run a chain and to remove an endpoint and register another in
  its slot between a look-up and the copy.  Start states are chosen up to the
  symmetry of bodies and computers.
* **Panel**: one reading in each band that `bf_battery.c` tells apart, three low
  samples in a row as in the code; queues of 3 and 2 instead of 8, so that they do
  overflow; three taps instead of five in a window of one step; bursts of two
  pulses.  `MCScenarios` lists the environments: every band of the cell; a charger
  that comes or goes; the scenes under a lockout; taps; long presses; motor and
  warnings between two samples; the queue at its limit.  An input that is in no
  common environment with another (a tap beside a charger) shares no state with it
  that a property reads; the proofs need no such argument, they hold for any set
  of scenarios.

Counters that only bound a run are `ops`/`Ops`, `cuts`/`Cuts`,
`losses`/`Losses`, `cycles`/`MaxCycles`, `drawn`/`MaxKeys` and `inputs` with the `most` of a
scenario.  `CHECK_DEADLOCK FALSE` stands where operations are bounded that way,
or where the violation looked for is that everything stops.

## 5. Fairness

FreeRTOS serves every task that stays ready, since no task of a higher priority
runs for ever: timer 5, power, poll, WiFi worker, API and update tasks 4, main
1, the WiFi event task 20.  That gives weak fairness of the steps of a task.
esp_timers fire.  HTTP calls and downloads have a timeout, so a call or a
download goes on or fails; which of the two is open.  A FreeRTOS mutex wakes its
waiters in turn, hence strong fairness of a factory reset that waits for one.
The WiFi driver ends an association it began, with or without success.  In `Panel`
the tasks, the transfers, the announced restart and the release of a button that
is held are weakly fair (the longest press is bounded by the scenario); sampling is
strongly fair, because `load_active` keeps the monitor from it again and again
while the motor pulses, and the monitor polls until it finds it off.  Nothing
else is assumed of users, phones, servers, networks or power.

## 6. Proofs

Each `*Proofs` module proves its theorems for every value of the constants that
the named assumptions of its component allow; TLC evaluates those assumptions in
the runs.  The last lines of a module are its theorems, before them stand one
lemma per action (or per group of alike actions), and before those the lemmas on
queues, records and functions.

| Module | Theorem | Property |
|---|---|---|
| `TimerEngineProofs` | `TypeCorrect` | `TypeOK` (proved only) |
| | `TimeIsAccounted` | `TimeAccounted` |
| | `CountingEngineTicks` | `CountingIsTicked` (proved only) |
| | `OneChainOneCooldownPerExpiry` | `OneChainOneCooldown` |
| | `EngineNeverStranded` | `NeverStranded` |
| | `NoCountdownBeforeInit`, `StateMatchesHandledFace` | `InitWindow`, `StateMatchesFace` (proved only) |
| | `LockedInTime` | `LocksInTime` |
| | `WarnedOnce` | `WarnedBeforeExpiry` (action property), if `LongEnough` |
| | `LockIsKept`, `SessionIsServed` | `LockHolds`, `ExpiresWhenServed` (action properties) |
| | `EngineImplementsSession` | `ImplementsFocusSession` (refinement) |
| `PassphraseProofs` | `NoOtherWordOpens` | `OnlyChosenOpens` |
| | `WrongAnswersCounted` | `WrongIsCounted` |
| | `CopiesStayEqual` | `RamIsDurable` |
| | `ResetWaitsForCommand` | `ResetNotBlocked` |
| | `PassphraseIsGuard` | `ImplementsPassphraseGuard` (refinement) |
| `FlashProofs` | `MapAsAnswered`, `FileAsAnswered` | `KvKept`, `UserKept` |
| | `AlwaysBootable` | `RunsComplete` (proved only) |
| | `ActivatedAsAnnounced` | `HashHolds` |
| | `OtaIsSlotUpdate` | `ImplementsSlotUpdate` (refinement) |
| `CubeWakeProofs` | `FaceIsDebounced` | `Debounced` (action property) |
| | `DarkWithReason` | `DarkForAReason` |
| | `CommitsInTime` | `SettlesInTime` |
| | `DarkWithinACheck` | `DarkInTime` |
| `RadioProofs` | `RadioTypes` | `RadioTypeOK` (proved only) |
| | `RetriesLive` | `RetryAlive` |
| | `DisconnectLasts` | `DownStays` |
| | `StatusTrue` | `StatusNamesLink` |
| | `BondedFinds` | `BondedReachable` |
| `AccessProofs` | `BondStays` | `BondDurable` |
| | `LatestServed` | `LastSessionServed` |
| | `RevokedStaysRefused` | `RevokedRefused` |
| `PanelProofs` | `WipesOnlyOnPurpose` | `WipeMeant` (action property) |
| | `SceneRight`, `HoldBarRight` | `SceneFollowsTimer`, `HoldBarFollows` |
| | `ScreenRight` | `ScreenTruthful` |
| `ApiProofs` | `SlotsReloadSame` | `ReloadsSame` |
| | `ChainsReachAll` | `ChainReachesAll` |
| | `ApiTypes` | `ApiTypeOK`, with: the calls due are those in flight (proved only) |

Every module also proves its inductive invariant (`EngineInvariant`,
`PassphraseCorrect`, `GuardCorrect`, `StoreCorrect`, `OtaCorrect`, `CubeCorrect`, `RadioAlways`,
`AccessCorrect`, `ButtonCorrect`, `SceneCorrect`, `ShowCorrect`, `ApiCorrect`).  None of the
properties is inductive alone; what each needs beside itself is the reason why the
code works:

* **Timer engine** (`IInv`, the conjunction of its invariants).  That an expiry
  starts one chain needs the type of the state, that the chain's event fits needs
  that it is the only one, that a tick may be ignored needs that a counting engine
  has its own, and what may happen before the init is over (`InitWindow`) is
  needed by all.  The refinement proof maps every action to a step of
  `FocusSession` or to a stutter; the arithmetic is that `worked + shaved` is what
  was served.  `OnTimeInv` adds the time: unless an event waited since the start, what
  is left and what the clock shows since the last tick add up to more than the lock
  time, or a tick has just fired (`LockDue`), and a countdown that has not warned
  still has a tick to do so (`WarnDue`).  The warning needs `LongEnough`: a face of one
  second, or a lock that allows a pause with one second left, could expire without
  one.  The code's values are 60 s, 5 s and whole minutes.
* **Passphrase** (`PassInv`).  `Mutex`: only the command that is under way holds the
  mutex.  `Stages`: how far NVS is at each write of a set or change.  `WordsChosen`,
  `Counted` and `CopiesAgree` say what holds between the writes of the two copies.
  `Lockout` (10 in the code) is assumed to lie below the width of the counter.
  The refinement (`GuardInv`) needs beside it that a request holds the mutex from its
  first step to its answer (`Served`); that from the comparison to the last write the
  word that was compared is the one that opens the device (`Rightful`); that a hash in
  NVS never stands without a salt (`SaltFirst`), so that loading changes nothing; and
  that at the last write the two belong together (`HashFits`).  A fresh salt is none
  that NVS or RAM still holds, which `esp_fill_random` gives with 16 bytes: with a
  salt that may come back an abandoned hash could become valid again.
* **Secure store** (`StoreInv`).  `KeyInRam`: the key in RAM is that of NVS while the
  store is up, so that what is saved can be read later, unless a reset failed to save
  it, and then the two differ, so that a later start mixes nothing; `MapInReset`:
  during a reset the map in RAM is empty.  A fresh key is that of no blob.
* **Update** (`OtaInv`).  `AloneWrites`: nobody else writes beside a download that was
  alone; `Compared`: the slot stays as it was when its hash was compared;
  `DoneBoots`: an activation stands until the restart.  The refinement needs no more
  than this: each write goes to the slot that does not run.
* **Detector and power** (`CubeInv`).  `SeenSince`: what is pending is no older than
  the samples that showed it.  `HeardLast`: of each kind of event the last one that
  waits says what was heard last, and with none waiting the task knows it;
  `Decided`: the state is the decision on what the task knows, also while the
  init is not over and events already come (section 7).  `Settling` and `TimeInv` are
  the same for time: a cube that is not yet committed was turned less than a period
  ago or waits for its debounce; the last decision is as old as the last check
  (`DecidedLately`), and with prompt subscribers the task's two timestamps are those
  of the use, but for the part of a check since a countdown that has just ended
  (`IdleIsUse`, `QuietIsUse`).  A check that is dropped at a full queue costs nothing,
  because what fills the queue decides as well.
* **Radio** (`RadioInv`).  `Retries`: whoever leaves the driver idle without a pin is
  still in `sk_wifi_connect_sta`, or a `disconnected` is queued or being decided on,
  or a configuration was refused.  `Alone` and `Named`: a task that met no other there
  works on a driver that it left idle and pinned, so that the configuration, the link
  and the name in the status move together.  `Down`: after a disconnect with nothing
  under way only the event task runs, and the pin holds it back.  `Owed`: a link that
  is up while BLE is off the radio still has its address to come, or the worker is
  about to leave it; this is what brings BLE back.  `Configured` says that a driver is
  told to connect only with a network.
* **Bonds** (`AccessInv`).  `OneHome`: a key has one slot, to which RAM, NVS, the active
  key and the sessions that matched it all point; `WaitingUnused`: a key that still
  waits for its slot is in none of them; `NoneErased`: what is in a slot is not
  revoked, and an active key that is, is `replaced`; `SlotInv`: RAM and NVS know the same phone in
  a slot.  The attempt to prove it without `leftover` found the failed erasure of
  section 7, which takes three keys and so no run reached it.
* **Panel**.  `ButtonInv`: the taps of a group are no older than its first one, from
  which the window is measured.  `SceneInv`: a queued release follows every queued
  press, a queued `timer.state` makes up for a scene that is behind.  `ShowInv` and
  `LatchInv`: a drawing that is alone and unspoiled is the picture of now, and the
  flag of `bf_ui` is the latch of `bf_battery`; this holds across the start only
  because the latch takes two samples or more and `bf_ui` subscribes after the first.
* **API** (`ApiInv`).  `Written`: but for the slots under a save and those whose save
  lost a write, RAM is what NVS would load, and a save in progress that lost nothing
  has written the keys before its own; this is what `ReloadsSame` needs.  The chain needs to know that what it has copied still
  leads where it led: `KeptSame` (a slot no command touched holds what it held when the
  chain began), `NamesApart` (its name is found in no slot that is searched before it),
  and for the place of the runner `CalledOrLeft`, `InTurn`, `BeforeLeft` and `FoundOwn`
  (every kept slot was called or is still on the list, in slot order, and a slot that
  was found is the one the name came from).  `NamesApart` was not provable as long as
  `ChainReachesAll` asked for distinct names only: after two power cuts a slot can have
  the name of one computer with the peer of another, and a registration of the first
  then takes a lower slot with the same name (section 7).  TLC confirms the sequence with
  `Cuts = 2`; the property now names that case.

Only model-checked: liveness (`KeepsFocusPromise`, `BusyEnds`, `FailsOver`,
`Settles`, `LockoutLifts`), which the prover does not reach since it knows nothing
of fairness and ENABLED.  Every safety and action property of a passing run is
stated by a theorem.

## 7. Disagreements between code and text

With a run (`findings` in `PROJECT.json`):

1. `timer.expired` and the endpoint payload pair the face that is up with the
   duration of another (`bf_timer_engine.c:434`).
2. The lockout deadlocks on the passphrase's own mutex instead of resetting the
   device (`sk_passphrase.c:311`).
3. A phone that pairs over BLE while a passphrase is asked for at pairing is told
   `need_passphrase`, and in the same call the window is closed and its pending
   bond wiped (`sk_transport_ble_gatt.c:239`).

Met while modelling, described by the models but without a run of their own:

* Timer engine: an observation handled between the subscription and line 713 is
  overwritten; the cube then shows its display face and is not armed.
* Passphrase: a power cut, or a failing write, between the salt and the hash of a
  change (`sk_passphrase.c:356-357`) leaves a device that no word opens after the next
  start; only a factory reset helps, which the header does not mention.
* Secure store: a `set` whose save fails has changed the cache (374).  A factory
  reset ignores the results of its writes (926-940): with a key that is only in RAM
  later data is acknowledged and unreadable after the next start, and with an erasure
  that failed the old data may be back then.  The close of the user file is ignored,
  too (550-552), so that a write may be answered as done and be cut.  A master key that
  cannot be read is replaced (158), after which everything stored reads as empty.
* Update: two starts pass `sk_ota_is_busy` before either sets the status (427),
  and two downloads write to one slot, one verifying what the other replaces.
  A rollback (464) activates whatever image is in the other slot, also one that
  failed its hash, which the comment at `sk_ota.c:3-5` rules out.
* Power: the main task applies the first state (480) beside the power task, which may
  leave the panel on in a dark state, or the wake lock as another state wants it
  (`WakesPanel`, `TakesLock`; the lock is tested and then changed, 108-118).  It takes a
  first face that is committed between lines 473 and 480, so nothing is claimed of
  panel and lock.
* Power: a dark cube that is turned wakes after up to 2-3 s (1 Hz poll and
  debounce), `main.c:308` says 1 s.
* WiFi: the help of `wifi.disconnect` says the device will not reconnect, but a
  worker that is in `sk_wifi_connect_sta` clears the pin (393); the connected bit
  outlives the connection (124-131); the failover of the event task is not
  excluded by `s_worker_active` (156, against the comment at 731-737); slot and
  credentials are changed before BUSY is answered (822-835); a refused
  configuration leaves nothing that retries (353).
* BLE: WiFi terminates the link, and the disconnect event advertises again
  (comment at 245-250); BLE returns only when WiFi gets an address; a device that
  was never bonded advertises for ever after its boot.
* Pairing: over TCP a word commits what is pending when it is accepted (731), which
  may be the exchange of another phone; a window that closed during a derivation
  still gets the bond or leaves one pending.
* Bonds: the result of the NVS write that erases a slot is looked at neither by
  `sk_auth_bond_remove` nor by `sk_auth_clear_all` (118-139): the bond is gone in RAM
  and back after the next start, and a phone that paired again meanwhile has two
  slots.
* Sessions: all connections share one active key.  `sk_auth.h` speaks of the bond
  of a connection and the comment at `sk_auth_handshake.c:43-44` of failing
  closed, but a handshake on one link takes the key of the others away, and without
  an active key slot 0's is used (`sk_auth.c:83`).  A removed bond does not end
  its connection, and a phone that pairs again leaves the active key of its session as
  it was (`sk_auth_bond_add`, 227-229): the overwritten key, which is in no slot any
  more, still signs commands until another key becomes active.
* API: `save_linear` ignores every error (256-290): `add` and `remove` answer ok, and at
  the next start the slot is the old one, a mixture, or back.
* API: an endpoint removed between look-up and copy is called empty (981, 988); a
  system name that equals a user name makes the chain call the user's twice and
  the other never; a cut update mixes the new URL with the old token, two cuts
  the fields of two endpoints.  A slot that two cuts left with the name of one computer
  and the peer of another is not found by the peer, so that registering the first again
  gives a second slot the same name (394-403, 421-430), and a chain that is under way
  calls the new one in place of the old.
* Panel: two tasks draw in one framebuffer without a lock; the comment at
  `bf_ui.c:666-670` calls the drawing in the battery's task safe, but a picture that
  `ui_task` began earlier can be sent after LOW BATTERY and stay.  A transfer that
  fails half-way is not repeated.
* Panel: a level or charge state that the first sample finds is published before
  `bf_ui` subscribes (`main.c:350-363`), so that its icon waits for the next change;
  `bf_battery.h` says `bf_ui` reads `bf_battery_lockout_active`, but nobody calls it.
  A committed face during the splash is dropped against `bf_ui.c:742-745`.
* Panel: `bf_ui.c:848-849` says that OOPS wins over BREAK, the later one does; a
  `timer.tick` that was queued before a new face overwrites its preloaded countdown
  (528-535).
* Battery: `battery.recovered` is not published while plugged; the comment at
  `bf_battery.c:285-289` says the latch releases on an edge, the code releases on the
  level (338-347); a fall from OK to CRITICAL gives no warning of the motor, which
  listens to `battery.low` only.
* Vibration: the comment at `bf_vibration.c:113` (in Turkish) says that OFF drops the
  pin at once if a pulse is under way, but a worker that had looked at the switch
  writes the pin after it; it stays high until the pulse ends.
* Factory reset: the help at `sk_control.c:171-172` says every NVS namespace; that of
  `bf_vibration` is not erased.

## 8. Assumptions, and what is not modelled

* `nvs_erase_all` and single NVS sets are atomic and durable at once, which the
  ESP-IDF's log-structured NVS gives.  Driver, boot loader, NimBLE and `esp_timer`
  are external and modelled from how the code uses them.
* Timer engine: the subscription to `face.changed` succeeds; the endpoints that
  `api_trigger_task` calls are `Trigger` of `Api`, here only its end is seen.
* NVS reads of what is there succeed, but that of the master key; what a failed
  `nvs_erase_all` or set leaves is what was there.  Update: the unlocked
  reads of URL and hash in `sk_ota_start` are one step.
* Power: the wake lock can be created.  No stall of the polling task.
* WiFi: the scan and its worker, static addresses and failing saves are left out.
  BLE: lines, fragments and writes over a link are left out.
* Access: nonces, timestamps, confirmation tokens and the migration of a legacy
  token (which a power cut between lines 185 and 188 of `sk_auth.c` loses) are left
  out; phones send only words that belong to an exchange of theirs.  A client
  slot that is taken again before its task has ended is left out.
* API: two commands, or two chains, at once are left out, although two transports
  could issue them; so is the text of requests.
* Panel: percentages, digits and link icons are not part of a picture; the displayed
  percentage, the voltage curve and the measured stability of a full charge in
  seconds are left out (samples are counted).  The timer engine, the detector and the
  outbound calls are what they publish: `Panel` and `TimerEngine` share only
  `timer.state`, `timer.tick` and `timer.expired`, in any order the engine's own
  modules allow and more.
* Not modelled: the table of `sk_event_bus` (every subscription is made in an init, and
  nobody unsubscribes), the scan of `sk_wifi`, `sk_log`; and
  `sk_cli`, `sk_baseline`, `sk_transport_usb`, `bf_lis3dsh`, `sk_led`, `sk_identity`,
  `sk_capabilities`, `sk_errors`, the drawing of `bf_display` (parsing, pure input or
  output, constants).

## 9. Plan

Done, in this order: timer engine, its abstraction and proofs; passphrase and update,
each with the promise it implements; secure store; detector and power; WiFi and BLE;
API; bonds, pairing and sessions; battery, vibration, button and user interface as
`Panel`; the proofs of section 6.

Left, by importance:

1. Around `Access`: the nonce ring and the confirmation tokens, the reuse of client
   slots, the migration of a legacy token, and an abstract promise that `Access`
   implements: a command runs only for a peer that has, or at its handshake had, a bond
   that nobody erased since.
2. `Panel` with `TimerEngine` and `CubeWake` in place of what they publish.
3. The factory reset over all stores, and a power cut between them.
