---------------------------- MODULE TimerEngine ----------------------------
(***************************************************************************)
(* bf_timer_engine.c: the focus countdown of the cube.  One FreeRTOS task  *)
(* (timer_task) owns the state machine and is fed through a bounded queue  *)
(* by four producers that never wait: the face.changed subscriber, the     *)
(* 1 Hz tick timer, the one-shot cooldown timer and the api_trigger_task   *)
(* that is spawned when a countdown expires.  The fifth actor is           *)
(* app_main, which is still inside bf_timer_engine_init when the task      *)
(* already runs.                                                           *)
(*                                                                         *)
(* Time advances in half seconds, so that a tick can fall inside a second  *)
(* of the countdown and the whole-second rounding of compute_remaining_sec *)
(* is visible.                                                             *)
(***************************************************************************)
EXTENDS Integers, Sequences

CONSTANTS
    Faces,      \* the faces the detector can commit
    NoFace,     \* BF_FACE_NONE
    Duration,   \* s_face_duration_sec: 0 display, negative USB, else seconds
    LockSec,    \* LOCK_REMAINING_SEC
    WarnSec,    \* WARN_REMAINING_SEC
    QCap        \* capacity of s_evt_q

ASSUME FacesAssumption    == NoFace \notin Faces
ASSUME DurationAssumption == Duration \in [Faces -> Int]
ASSUME LimitsAssumption   == LockSec \in Nat /\ WarnSec \in Nat /\ QCap \in Nat \ {0}

VARIABLES
    state,       \* s_state
    activeFace,  \* s_active_face
    activeDur,   \* s_active_duration_sec
    left,        \* half seconds until s_deadline_us; 0 when none or past
    paused,      \* s_paused_remaining_sec
    warned,      \* s_warned
    queue,       \* s_evt_q
    tick,        \* half seconds since s_tick_t last fired, or Off
    cool,        \* s_cool_t is running
    chains,      \* running api_trigger_tasks
    boot,        \* progress of bf_timer_engine_init
    up,          \* the face the detector last announced
    worked,      \* history: half seconds counted down since the last start
    shaved,      \* history: half seconds cut off by rounding at pauses
    pulses       \* history: warning pulses since the last start

countdown == <<activeDur, left, paused, warned>>
clocks    == <<tick, cool>>
history   == <<worked, shaved, pulses>>
vars == <<state, activeFace, countdown, queue, clocks, chains, boot, up,
          history>>

Off     == -1
HalfSec == 2        \* time units in a second

States == {"boot", "idle_needs_arm", "armed", "timer_resettable",
           "timer_locked", "paused", "api_triggering", "cooldown",
           "cooldown_needs_face_chg"}
Counting == {"timer_resettable", "timer_locked"}

TickEvt         == [type |-> "tick",          face |-> NoFace]
CooldownDoneEvt == [type |-> "cooldown_done", face |-> NoFace]
TriggerDoneEvt  == [type |-> "trigger_done",  face |-> NoFace]
FaceEvt(f)      == [type |-> "face",          face |-> f]
Events == {TickEvt, CooldownDoneEvt, TriggerDoneEvt} \cup {FaceEvt(f) : f \in Faces}

Init ==
    /\ state = "boot"
    /\ activeFace = NoFace
    /\ activeDur = 0 /\ left = 0 /\ paused = 0 /\ warned = FALSE
    /\ queue = <<>>
    /\ tick = Off /\ cool = FALSE
    /\ chains = 0
    /\ boot = "subscribed"
    /\ up \in Faces \cup {NoFace}
    /\ worked = 0 /\ shaved = 0 /\ pulses = 0

(***************************************************************************)
(* Helpers shared by the handlers.                                         *)
(***************************************************************************)
\* xQueueSend with a zero timeout: an event that does not fit is lost.
Offer(e) == queue' = IF Len(queue) < QCap THEN Append(queue, e) ELSE queue

\* compute_remaining_sec outside PAUSED: whole seconds, rounded down.
Remaining == left \div HalfSec

CountingState(sec) ==
    IF sec <= LockSec THEN "timer_locked" ELSE "timer_resettable"

\* esp_timer_start_periodic only if the timer is not active: a countdown that
\* replaces a running one inherits the phase of the running tick.
StartTick == tick' = IF tick = Off THEN 0 ELSE tick

\* Mutant of StartCountdown: the warning latch is not cleared.
StartKeepsWarned(dur) ==
    /\ activeDur' = dur
    /\ left' = HalfSec * dur
    /\ state' = CountingState(dur)
    /\ StartTick
    /\ worked' = 0 /\ shaved' = 0 /\ pulses' = 0
    /\ UNCHANGED <<paused, warned>>

StartCountdown(dur) ==
    /\ warned' = FALSE
    /\ activeDur' = dur
    /\ left' = HalfSec * dur
    /\ state' = CountingState(dur)
    /\ StartTick
    /\ worked' = 0 /\ shaved' = 0 /\ pulses' = 0
    /\ UNCHANGED paused

PauseCountdown ==
    /\ paused' = Remaining
    /\ tick' = Off
    /\ left' = 0
    /\ state' = "paused"
    /\ shaved' = shaved + left - HalfSec * Remaining
    /\ UNCHANGED <<activeDur, warned, worked, pulses>>

\* Mutants of ResumeCountdown: the whole duration is counted again; the tick
\* timer is not restarted.
ResumeFromStart ==
    /\ state' = CountingState(paused)
    /\ left' = HalfSec * activeDur
    /\ paused' = 0
    /\ StartTick
    /\ UNCHANGED <<activeDur, warned, history>>

ResumeCountdown ==
    /\ state' = CountingState(paused)
    /\ left' = HalfSec * paused
    /\ paused' = 0
    /\ StartTick
    /\ UNCHANGED <<activeDur, warned, history>>

\* Mutant of EnterCooldown: the one-shot timer is not started.
CooldownWithoutTimer ==
    /\ tick' = Off
    /\ left' = 0 /\ activeDur' = 0 /\ activeFace' = NoFace
    /\ state' = "cooldown"
    /\ UNCHANGED <<paused, warned, cool>>

\* clear_countdown, enter and esp_timer_start_once.
EnterCooldown ==
    /\ tick' = Off /\ cool' = TRUE
    /\ left' = 0 /\ activeDur' = 0 /\ activeFace' = NoFace
    /\ state' = "cooldown"
    /\ UNCHANGED <<paused, warned>>

InitOver == boot \in {"ready", "failed"}

(***************************************************************************)
(* bf_timer_engine_init from the subscription on.  The task has a higher   *)
(* priority than app_main and may handle an event between its creation and *)
(* the assignment that ends the init.  That window is far shorter than the *)
(* detector's debounce and the time grain: it sees at most the detector's  *)
(* first commit, and no time passes in it.                                 *)
(***************************************************************************)
CreateTask ==
    /\ boot = "subscribed"
    /\ boot' = "running"
    /\ UNCHANGED <<state, activeFace, countdown, queue, clocks, chains, up,
                   history>>

CreateTaskFails ==
    /\ boot = "subscribed"
    /\ boot' = "failed"
    /\ queue' = <<>>
    /\ UNCHANGED <<state, activeFace, countdown, clocks, chains, up, history>>

FinishInit ==
    /\ boot = "running"
    /\ boot' = "ready"
    /\ state' = "idle_needs_arm"
    /\ UNCHANGED <<activeFace, countdown, queue, clocks, chains, up, history>>

(***************************************************************************)
(* Scheduling.  timer_task (priority 5) is preempted by the timer          *)
(* callbacks but not by api_trigger_task (4) or the detector (4), so an    *)
(* event can wait only while the task is inside the handler of the event   *)
(* at the head: a handler that publishes runs the subscribers of the bus,  *)
(* and the BLE one waits and retries while its buffers are full.           *)
(***************************************************************************)
Take(type) ==
    /\ boot \in {"running", "ready"}
    /\ queue # <<>>
    /\ Head(queue).type = type
    /\ queue' = Tail(queue)

\* Mutants of Pauses: only the display face pauses; the lock does not hold.
PausesOnDisplay(f) == Duration[f] = 0 /\ state = "timer_resettable"
PausesLocked(f)    == Duration[f] <= 0 /\ state \in Counting

\* Mutant of Starts: the cooldown does not hold.
StartsInCooldown(f) == Duration[f] > 0 /\ state \notin {"idle_needs_arm", "timer_locked"}

Arms(f)    == /\ Duration[f] = 0
              /\ state \in {"boot", "idle_needs_arm", "cooldown_needs_face_chg"}
Rests(f)   == Duration[f] > 0 /\ state = "boot"
Pauses(f)  == Duration[f] <= 0 /\ state = "timer_resettable"
Resumes(f) == /\ Duration[f] > 0 /\ state = "paused"
              /\ paused > 0 /\ Duration[f] = activeDur
Starts(f)  == /\ Duration[f] > 0
              /\ state \in {"armed", "timer_resettable", "paused",
                            "cooldown_needs_face_chg"}
              /\ ~ Resumes(f)
Ignores(f) == ~ (Arms(f) \/ Rests(f) \/ Pauses(f) \/ Resumes(f) \/ Starts(f))

\* Mutant of Publishes: every event is announced on the bus, ignored or not.
PublishesAll(e) == TRUE

Publishes(e) == \/ e.type = "tick" /\ state \in Counting
                \/ e.type = "face" /\ ~ Ignores(e.face)
                \/ e.type = "trigger_done" /\ state = "api_triggering"
                \/ e.type = "cooldown_done" /\ state = "cooldown"

Stalled  == queue # <<>> /\ (Publishes(Head(queue)) \/ ~ InitOver)
CaughtUp == queue = <<>>

Has(q, type)    == \E i \in 1..Len(q) : q[i].type = type
Single(q, type) == \A i, j \in 1..Len(q) :
                      q[i].type = type /\ q[j].type = type => i = j
InQueue(type)   == Has(queue, type)

(***************************************************************************)
(* Producers.                                                              *)
(***************************************************************************)
\* The detector commits at most one face a second.
OnFaceEvent(f) ==
    /\ f # up
    /\ InitOver \/ up = NoFace
    /\ InQueue("face") => Stalled
    /\ up' = f
    /\ IF boot = "failed" THEN UNCHANGED queue ELSE Offer(FaceEvt(f))
    /\ UNCHANGED <<state, activeFace, countdown, clocks, chains, boot,
                   history>>

OnTick ==
    /\ tick = HalfSec
    /\ tick' = 0
    /\ Offer(TickEvt)
    /\ UNCHANGED <<state, activeFace, countdown, cool, chains, boot, up,
                   history>>

OnCooldownDone ==
    /\ cool
    /\ CaughtUp \/ Stalled
    /\ cool' = FALSE
    /\ Offer(CooldownDoneEvt)
    /\ UNCHANGED <<state, activeFace, countdown, tick, chains, boot, up,
                   history>>

\* Half a second passes.  The tick callback is never late, the engine may be.
Pass ==
    /\ InitOver
    /\ CaughtUp \/ Stalled
    /\ tick < HalfSec
    /\ tick # Off \/ left > 0
    /\ tick' = IF tick = Off THEN Off ELSE tick + 1
    /\ left' = IF left > 0 THEN left - 1 ELSE 0
    /\ worked' = IF left > 0 /\ state \in Counting THEN worked + 1 ELSE worked
    /\ UNCHANGED <<state, activeFace, activeDur, paused, warned, queue, cool,
                   chains, boot, up, shaved, pulses>>

\* An api_trigger_task has gone through the endpoints with their delays, or
\* had no memory for the endpoint list.
TriggerEnds ==
    /\ CaughtUp \/ Stalled
    /\ chains > 0
    /\ chains' = chains - 1
    /\ Offer(TriggerDoneEvt)
    /\ UNCHANGED <<state, activeFace, countdown, clocks, boot, up, history>>

(***************************************************************************)
(* timer_task: one event per step.                                         *)
(***************************************************************************)
TakeFace(f) ==
    /\ Take("face")
    /\ Head(queue).face = f
    /\ activeFace' = f
    /\ UNCHANGED <<cool, chains, boot, up>>

FaceArms(f) ==
    /\ TakeFace(f) /\ Arms(f)
    /\ state' = "armed"
    /\ UNCHANGED <<countdown, tick, history>>

FaceRests(f) ==
    /\ TakeFace(f) /\ Rests(f)
    /\ state' = "idle_needs_arm"
    /\ UNCHANGED <<countdown, tick, history>>

FaceStarts(f)  == TakeFace(f) /\ Starts(f)  /\ StartCountdown(Duration[f])
FacePauses(f)  == TakeFace(f) /\ Pauses(f)  /\ PauseCountdown
FaceResumes(f) == TakeFace(f) /\ Resumes(f) /\ ResumeCountdown

\* The state machine stands still, but s_active_face has moved.
FaceIgnored(f) ==
    /\ TakeFace(f) /\ Ignores(f)
    /\ UNCHANGED <<state, countdown, tick, history>>

HandleFace(f) == \/ FaceArms(f) \/ FaceRests(f) \/ FaceStarts(f)
                 \/ FacePauses(f) \/ FaceResumes(f) \/ FaceIgnored(f)

\* A tick from before the countdown stopped: the timer is stopped again.
TickStale ==
    /\ Take("tick") /\ state \notin Counting
    /\ tick' = Off
    /\ UNCHANGED <<state, activeFace, countdown, cool, chains, boot, up,
                   history>>

\* Mutant of TickCounts: the lock starts a second late.
TickLocksLate ==
    /\ Take("tick") /\ state \in Counting /\ Remaining > 0
    /\ warned' = (warned \/ Remaining <= WarnSec)
    /\ pulses' = IF Remaining <= WarnSec /\ ~ warned THEN pulses + 1 ELSE pulses
    /\ state' = IF Remaining < LockSec THEN "timer_locked" ELSE state
    /\ UNCHANGED <<activeFace, activeDur, left, paused, clocks, chains, boot,
                   up, worked, shaved>>

TickCounts ==
    /\ Take("tick") /\ state \in Counting /\ Remaining > 0
    /\ warned' = (warned \/ Remaining <= WarnSec)
    /\ pulses' = IF Remaining <= WarnSec /\ ~ warned THEN pulses + 1 ELSE pulses
    /\ state' = IF Remaining <= LockSec THEN "timer_locked" ELSE state
    /\ UNCHANGED <<activeFace, activeDur, left, paused, clocks, chains, boot,
                   up, worked, shaved>>

\* publish_expired: what timer.expired says in the step that announces it.
ExpiredEvent == [face |-> activeFace, duration |-> activeDur]

\* Mutants of TickExpires: a tick queued before the expiry expires it again;
\* the countdown ends a second early.
TickExpiresAgain ==
    /\ Take("tick") /\ state \in Counting \cup {"api_triggering"} /\ Remaining = 0
    /\ state' = "api_triggering"
    /\ chains' = chains + 1
    /\ UNCHANGED <<activeFace, countdown, clocks, boot, up, history>>

TickExpiresEarly ==
    /\ Take("tick") /\ state \in Counting /\ Remaining <= 1
    /\ state' = "api_triggering"
    /\ chains' = chains + 1
    /\ UNCHANGED <<activeFace, countdown, clocks, boot, up, history>>

\* on_expired: announce ExpiredEvent, then spawn the trigger task.
TickExpires ==
    /\ Take("tick") /\ state \in Counting /\ Remaining = 0
    /\ state' = "api_triggering"
    /\ chains' = chains + 1
    /\ UNCHANGED <<activeFace, countdown, clocks, boot, up, history>>

\* on_expired when xTaskCreate fails.
TickExpiresNoTask ==
    /\ Take("tick") /\ state \in Counting /\ Remaining = 0
    /\ EnterCooldown
    /\ UNCHANGED <<chains, boot, up, history>>

HandleTick == TickStale \/ TickCounts \/ TickExpires \/ TickExpiresNoTask

HandleCooldownDone ==
    /\ Take("cooldown_done")
    /\ state' = IF state = "cooldown" THEN "cooldown_needs_face_chg" ELSE state
    /\ UNCHANGED <<activeFace, countdown, clocks, chains, boot, up, history>>

HandleTriggerDone ==
    /\ Take("trigger_done")
    /\ IF state = "api_triggering"
       THEN EnterCooldown
       ELSE UNCHANGED <<state, activeFace, countdown, clocks>>
    /\ UNCHANGED <<chains, boot, up, history>>

TimerTask == \/ \E f \in Faces : HandleFace(f)
             \/ HandleTick \/ HandleCooldownDone \/ HandleTriggerDone

TurnCube       == \E f \in Faces : OnFaceEvent(f)
FinishBoot     == CreateTask \/ CreateTaskFails \/ FinishInit

Next == \/ FinishBoot \/ TurnCube \/ OnTick \/ OnCooldownDone \/ Pass
        \/ TriggerEnds \/ TimerTask

Spec == Init /\ [][Next]_vars

(***************************************************************************)
(* Every task runs when it has work, the timers fire, time goes on: tasks  *)
(* are preempted by priority but never starved.                            *)
(***************************************************************************)
FairSpec == /\ Spec
            /\ WF_vars(TimerTask) /\ SF_vars(TriggerEnds)
            /\ WF_vars(FinishBoot)
            /\ WF_vars(OnTick) /\ SF_vars(OnCooldownDone) /\ SF_vars(Pass)

(***************************************************************************)
(* Properties.                                                             *)
(***************************************************************************)
\* Every variable has the type of the C object it stands for.
TypeOK ==
    /\ state \in States
    /\ activeFace \in Faces \cup {NoFace}
    /\ activeDur \in Nat /\ left \in Nat /\ paused \in Nat
    /\ warned \in BOOLEAN
    /\ queue \in Seq(Events) /\ Len(queue) <= QCap
    /\ tick \in Off..HalfSec /\ cool \in BOOLEAN
    /\ chains \in Nat
    /\ boot \in {"subscribed", "running", "ready", "failed"}
    /\ up \in Faces \cup {NoFace}
    /\ worked \in Nat /\ shaved \in Nat /\ pulses \in Nat

\* No focus time is lost or invented: what was counted, what is left and what
\* the pauses rounded away always add up to the duration that was started,
\* through any number of pauses and resumes (pause_countdown,
\* resume_countdown, start_countdown).
TimeAccounted ==
    /\ state \in Counting => worked + left + shaved = HalfSec * activeDur
    /\ state = "paused"   => worked + HalfSec * paused + shaved = HalfSec * activeDur

\* A counting engine has its 1 Hz clock running, whatever stale ticks were
\* queued when the clock was last stopped (handle_tick stops it on those).
CountingIsTicked == state \in Counting => tick # Off

\* One expiry causes one endpoint chain and one cooldown: a chain or its
\* completion event exists only in API_TRIGGERING, the cooldown timer or its
\* event only in COOLDOWN, never two, so none can end the phase of a later
\* session (timer_task, on_expired, enter_cooldown).
OneChainOneCooldown ==
    /\ chains <= 1
    /\ chains = 1 => state = "api_triggering" /\ ~ InQueue("trigger_done")
    /\ InQueue("trigger_done") => state = "api_triggering"
    /\ Single(queue, "trigger_done")
    /\ cool => state = "cooldown" /\ ~ InQueue("cooldown_done")
    /\ InQueue("cooldown_done") => state = "cooldown"
    /\ Single(queue, "cooldown_done")

\* The engine is never left in a phase whose only exit event is gone: however
\* long subscribers stall it, no completion event finds the queue full, because
\* the handlers of API_TRIGGERING and COOLDOWN publish nothing.
NeverStranded ==
    /\ state = "api_triggering" => chains > 0 \/ InQueue("trigger_done")
    /\ state = "cooldown" => cool \/ InQueue("cooldown_done")

\* Until bf_timer_engine_init is over at most one event is in flight, the
\* detector's first commit, and nothing it does can start a countdown, a chain
\* or a cooldown that the last assignment of the init would cut off.
InitWindow ==
    /\ boot # "ready" =>
         /\ tick = Off /\ left = 0 /\ chains = 0 /\ cool = FALSE
         /\ state \in {"boot", "idle_needs_arm", "armed"}
    /\ boot \in {"subscribed", "failed"} => state = "boot"
    /\ boot \in {"subscribed", "running"} =>
         /\ up = NoFace => queue = <<>> /\ state = "boot"
         /\ queue # <<>> => /\ Len(queue) = 1 /\ queue[1].type = "face"
                            /\ state = "boot"
    /\ boot = "failed" => queue = <<>>

\* While the user can still choose (handle_face), the state agrees with the
\* face last handled: a resettable countdown is the one of that face, and the
\* engine never waits, armed or paused, on top of a timer face.
StateMatchesFace ==
    /\ state = "timer_resettable" => /\ activeFace \in Faces
                                     /\ Duration[activeFace] = activeDur
    /\ state \in {"armed", "paused"} => /\ activeFace \in Faces
                                        /\ Duration[activeFace] <= 0

LockedStep ==
    state = "timer_locked" =>
        /\ state' \in {"timer_locked", "api_triggering", "cooldown"}
        /\ state' = "timer_locked" => left' <= left /\ activeDur' = activeDur

\* The lock cannot be escaped: once locked, the countdown is neither paused,
\* restarted nor extended by any face, and ends only in its expiry.
LockHolds == [][LockedStep]_vars

ExpiryStep ==
    state \in Counting /\ state' \notin Counting \cup {"paused"} =>
        worked + shaved + 1 >= HalfSec * activeDur

\* A session expires only once its whole duration was counted, up to the last
\* half second and what its pauses rounded away.
ExpiresWhenServed == [][ExpiryStep]_vars

(* What comments and the header say of the program. *)

\* bf_timer_engine.h:21: timer.expired names the face and its duration.
ExpiredNamesItsFace ==
    [][(state \in Counting /\ state' \in {"api_triggering", "cooldown"}) =>
         Duration[ExpiredEvent.face] = ExpiredEvent.duration]_vars
=============================================================================
