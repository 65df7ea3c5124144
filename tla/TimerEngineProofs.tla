------------------------- MODULE TimerEngineProofs -------------------------
(***************************************************************************)
(* Proofs about bf_timer_engine.c for every face table, every lock and     *)
(* warning time and every queue capacity: its invariants, its timeliness,  *)
(* and that it implements FocusSession.                                    *)
(***************************************************************************)
EXTENDS TimerEnginePrompt, TLAPS

(***************************************************************************)
(* The inductive invariant: the invariants the runs check, together.       *)
(***************************************************************************)
IInv == /\ TypeOK
        /\ InitWindow
        /\ TimeAccounted
        /\ CountingIsTicked
        /\ OneChainOneCooldown
        /\ NeverStranded
        /\ StateMatchesFace

(***************************************************************************)
(* Facts about the event queue.                                            *)
(***************************************************************************)
\* Taking the head removes one event and adds none (xQueueReceive).
LEMMA TakeFacts ==
  ASSUME NEW q \in Seq(Events), q # <<>>, NEW t
  PROVE  /\ Tail(q) \in Seq(Events) /\ Len(Tail(q)) = Len(q) - 1
         /\ Head(q) \in Events
         /\ Has(Tail(q), t) => Has(q, t)
         /\ Single(q, t) => Single(Tail(q), t)
         /\ Has(q, t) /\ Head(q).type # t => Has(Tail(q), t)
         /\ Single(q, t) /\ Head(q).type = t => ~ Has(Tail(q), t)
<1>1. /\ Tail(q) \in Seq(Events) /\ Len(Tail(q)) = Len(q) - 1
      /\ Head(q) \in Events /\ Head(q) = q[1] /\ Len(q) \in Nat /\ Len(q) > 0
      /\ \A i \in 1..Len(Tail(q)) : Tail(q)[i] = q[i + 1]
  OBVIOUS
<1>2. Has(Tail(q), t) => Has(q, t)
  BY <1>1 DEF Has
<1>3. Single(q, t) => Single(Tail(q), t)
  <2> SUFFICES ASSUME Single(q, t), NEW i \in 1..Len(Tail(q)),
                      NEW j \in 1..Len(Tail(q)),
                      Tail(q)[i].type = t, Tail(q)[j].type = t
               PROVE  i = j
    BY DEF Single
  <2>1. i + 1 \in 1..Len(q) /\ j + 1 \in 1..Len(q)
    BY <1>1
  <2> QED BY <2>1, <1>1 DEF Single
<1>4. Has(q, t) /\ Head(q).type # t => Has(Tail(q), t)
  <2> SUFFICES ASSUME NEW i \in 1..Len(q), q[i].type = t, Head(q).type # t
               PROVE  Has(Tail(q), t)
    BY DEF Has
  <2>1. i # 1
    BY <1>1
  <2>2. i - 1 \in 1..Len(Tail(q)) /\ Tail(q)[i - 1] = q[i]
    BY <2>1, <1>1
  <2> QED BY <2>2 DEF Has
<1>5. Single(q, t) /\ Head(q).type = t => ~ Has(Tail(q), t)
  <2> SUFFICES ASSUME Single(q, t), Head(q).type = t,
                      NEW i \in 1..Len(Tail(q)), Tail(q)[i].type = t
               PROVE  FALSE
    BY DEF Has
  <2>1. i + 1 \in 1..Len(q) /\ 1 \in 1..Len(q) /\ i + 1 # 1
    BY <1>1
  <2> QED BY <2>1, <1>1 DEF Single
<1> QED BY <1>1, <1>2, <1>3, <1>4, <1>5

\* What a producer's event does to the queue, accepted or dropped (xQueueSend
\* with a zero timeout).
LEMMA OfferFacts ==
  ASSUME NEW q \in Seq(Events), NEW e \in Events, NEW r, NEW t,
         Len(q) <= QCap,
         r = IF Len(q) < QCap THEN Append(q, e) ELSE q
  PROVE  /\ r \in Seq(Events) /\ Len(r) <= QCap
         /\ q = <<>> => Len(r) = 1 /\ r[1] = e
         /\ Has(q, t) => Has(r, t)
         /\ e.type # t /\ Has(r, t) => Has(q, t)
         /\ e.type # t /\ Single(q, t) => Single(r, t)
         /\ ~ Has(q, t) => Single(r, t)
<1>0. QCap \in Nat /\ QCap > 0
  BY LimitsAssumption
<1>1. CASE r = q
  <2>1. q # <<>>
    BY <1>0, <1>1
  <2> QED BY <1>1, <2>1 DEF Has, Single
<1>2. CASE r = Append(q, e) /\ Len(q) < QCap
  <2>1. /\ r \in Seq(Events) /\ Len(r) = Len(q) + 1 /\ Len(q) \in Nat
        /\ r[Len(q) + 1] = e
        /\ \A i \in 1..Len(q) : r[i] = q[i]
    BY <1>2
  <2>2. \A i \in 1..Len(r) : i \in 1..Len(q) \/ i = Len(q) + 1
    BY <2>1
  <2>3. /\ Has(q, t) => Has(r, t)
        /\ e.type # t /\ Has(r, t) => Has(q, t)
    BY <2>1, <2>2 DEF Has
  <2>4. e.type # t /\ Single(q, t) => Single(r, t)
    BY <2>1, <2>2 DEF Single
  <2>5. ~ Has(q, t) => Single(r, t)
    BY <2>1, <2>2 DEF Single, Has
  <2> QED BY <1>0, <1>2, <2>1, <2>3, <2>4, <2>5
<1> QED BY <1>0, <1>1, <1>2

\* The events of a kind are the same before and after a step.
Kept(t) == /\ Has(queue', t) <=> Has(queue, t)
           /\ Single(queue, t) => Single(queue', t)

\* A step that leaves the queue alone keeps the events of every kind.
LEMMA KeptIfUnchanged ==
  ASSUME UNCHANGED queue, NEW t PROVE Kept(t)
BY DEF Kept, Has, Single

\* The queue before and after timer_task takes an event.
LEMMA Taken ==
  ASSUME TypeOK, NEW type, Take(type)
  PROVE  /\ queue' \in Seq(Events) /\ Len(queue') <= QCap
         /\ Head(queue) \in Events /\ Head(queue).type = type
         /\ Head(queue) = queue[1] /\ Has(queue, type)
         /\ Len(queue) = 1 => queue' = <<>>
         /\ \A t : type # t => Kept(t)
         /\ Single(queue, type) => Single(queue', type) /\ ~ Has(queue', type)
<1>1. /\ queue \in Seq(Events) /\ Len(queue) <= QCap /\ queue # <<>>
      /\ queue' = Tail(queue) /\ Head(queue).type = type
  BY DEF TypeOK, Take
<1>2. /\ queue' \in Seq(Events) /\ Len(queue') = Len(queue) - 1
      /\ Head(queue) \in Events /\ Len(queue) \in Nat
  BY <1>1, TakeFacts
<1>3. QCap \in Nat
  BY LimitsAssumption
<1>4. Len(queue') <= QCap
  BY <1>1, <1>2, <1>3
<1>5. Head(queue) = queue[1] /\ Has(queue, type)
  BY <1>1, <1>2 DEF Has
<1>6. ASSUME NEW t, type # t PROVE Kept(t)
  BY <1>1, <1>6, TakeFacts DEF Kept
<1>7. Single(queue, type) => Single(queue', type) /\ ~ Has(queue', type)
  BY <1>1, TakeFacts
<1>8. Len(queue) = 1 => queue' = <<>>
  BY <1>2
<1> QED BY <1>1, <1>2, <1>4, <1>5, <1>6, <1>7, <1>8

\* The queue before and after a producer's attempt to post.
LEMMA Offered ==
  ASSUME TypeOK, NEW e \in Events, Offer(e)
  PROVE  /\ queue' \in Seq(Events) /\ Len(queue') <= QCap
         /\ queue = <<>> => /\ Len(queue') = 1 /\ queue'[1] = e
                            /\ Has(queue', e.type)
         /\ \A t : e.type # t => Kept(t)
         /\ ~ Has(queue, e.type) => Single(queue', e.type)
         /\ queue' # <<>>
<1>1. /\ queue \in Seq(Events) /\ Len(queue) <= QCap
      /\ queue' = IF Len(queue) < QCap THEN Append(queue, e) ELSE queue
  BY DEF TypeOK, Offer
<1>2. /\ queue' \in Seq(Events) /\ Len(queue') <= QCap
      /\ queue = <<>> => Len(queue') = 1 /\ queue'[1] = e
      /\ ~ Has(queue, e.type) => Single(queue', e.type)
  BY <1>1, OfferFacts
<1>3. ASSUME NEW t, e.type # t PROVE Kept(t)
  BY <1>1, <1>3, OfferFacts DEF Kept
<1>4. queue = <<>> => Has(queue', e.type)
  BY <1>2 DEF Has
<1>5. queue' # <<>>
  BY <1>1, LimitsAssumption
<1> QED BY <1>2, <1>3, <1>4, <1>5

\* The four kinds of events.
LEMMA EventFacts ==
  /\ TickEvt \in Events /\ CooldownDoneEvt \in Events /\ TriggerDoneEvt \in Events
  /\ \A f \in Faces : FaceEvt(f) \in Events
  /\ TickEvt.type = "tick" /\ CooldownDoneEvt.type = "cooldown_done"
  /\ TriggerDoneEvt.type = "trigger_done"
  /\ \A f \in Faces : FaceEvt(f).type = "face" /\ FaceEvt(f).face = f
  /\ \A e \in Events : e.type = "face" => e.face \in Faces
<1>1. /\ TickEvt \in Events /\ CooldownDoneEvt \in Events /\ TriggerDoneEvt \in Events
      /\ \A f \in Faces : FaceEvt(f) \in Events
  BY DEF Events
<1>2. /\ TickEvt.type = "tick" /\ CooldownDoneEvt.type = "cooldown_done"
      /\ TriggerDoneEvt.type = "trigger_done"
  BY DEF TickEvt, CooldownDoneEvt, TriggerDoneEvt
<1>3. \A f \in Faces : FaceEvt(f).type = "face" /\ FaceEvt(f).face = f
  BY DEF FaceEvt
<1>4. ASSUME NEW e \in Events, e.type = "face" PROVE e.face \in Faces
  <2>1. PICK f \in Faces : e = FaceEvt(f)
    BY <1>2, <1>4 DEF Events
  <2> QED BY <2>1, <1>3
<1> QED BY <1>1, <1>2, <1>3, <1>4

\* compute_remaining_sec rounds down.
LEMMA RemainingFacts ==
  ASSUME left \in Nat
  PROVE  /\ Remaining \in Nat
         /\ left - HalfSec * Remaining \in {0, 1}
         /\ Remaining = 0 <=> left <= 1
BY DEF Remaining, HalfSec

(***************************************************************************)
(* Every action keeps the invariant: one lemma per action, one step per    *)
(* conjunct of IInv.                                                       *)
(***************************************************************************)
\* Neither the endpoint chain nor the cooldown can hold the task up: no handler
\* of their states publishes anything but the end of the state itself.
LEMMA NothingPublishedInCooldown ==
  ASSUME TypeOK, InitWindow, state \in {"api_triggering", "cooldown"},
         ~ Has(queue, "trigger_done"), ~ Has(queue, "cooldown_done"), queue # <<>>
  PROVE  ~ Stalled
<1>1. Head(queue) = queue[1] /\ Head(queue) \in Events /\ 1 \in 1..Len(queue)
  BY DEF TypeOK
<1>2. Head(queue).type \notin {"trigger_done", "cooldown_done"}
  BY <1>1 DEF Has
<1>3. Head(queue).type = "face" => Ignores(Head(queue).face)
  BY DEF Ignores, Arms, Rests, Pauses, Resumes, Starts
<1>4. ~ Publishes(Head(queue))
  BY <1>2, <1>3 DEF Publishes, Counting
<1>5. InitOver
  BY DEF InitWindow, InitOver
<1> QED BY <1>4, <1>5 DEF Stalled

\* xTaskCreate succeeds in bf_timer_engine_init.
LEMMA CreateTaskStep ==
  ASSUME IInv, CreateTask
  PROVE  IInv'
<1>0. TypeOK /\ InitWindow /\ TimeAccounted /\ CountingIsTicked
      /\ OneChainOneCooldown /\ NeverStranded /\ StateMatchesFace
  BY DEF IInv
<1>q. Kept("trigger_done") /\ Kept("cooldown_done")
  BY KeptIfUnchanged DEF CreateTask
<1>1. TypeOK'
  BY <1>0, <1>q
     DEF TypeOK, CreateTask, countdown, clocks, history, Counting, Off, States, HalfSec
<1>2. InitWindow'
  BY <1>0, <1>q
     DEF InitWindow, TypeOK, OneChainOneCooldown, CreateTask, countdown, clocks, history, Counting, Off, States, HalfSec
<1>3. TimeAccounted'
  BY <1>0, <1>q
     DEF TimeAccounted, TypeOK, CreateTask, countdown, clocks, history, Counting, Off, States, HalfSec
<1>4. CountingIsTicked'
  BY <1>0, <1>q
     DEF CountingIsTicked, TypeOK, CreateTask, countdown, clocks, history, Counting, Off, States, HalfSec
<1>5. OneChainOneCooldown'
  BY <1>0, <1>q
     DEF OneChainOneCooldown, InQueue, Kept, InitWindow, TypeOK, CountingIsTicked, CreateTask, countdown, clocks, history, Counting, Off, States, HalfSec
<1>6. NeverStranded'
  BY <1>0, <1>q
     DEF NeverStranded, InQueue, Kept, OneChainOneCooldown, InitWindow, TypeOK, CreateTask, countdown, clocks, history, Counting, Off, States, HalfSec
<1>7. StateMatchesFace'
  BY <1>0, <1>q
     DEF StateMatchesFace, TypeOK, CreateTask, countdown, clocks, history, Counting, Off, States, HalfSec
<1> QED BY <1>1, <1>2, <1>3, <1>4, <1>5, <1>6, <1>7 DEF IInv

\* xTaskCreate fails in bf_timer_engine_init.
LEMMA CreateTaskFailsStep ==
  ASSUME IInv, CreateTaskFails
  PROVE  IInv'
<1>0. TypeOK /\ InitWindow /\ TimeAccounted /\ CountingIsTicked
      /\ OneChainOneCooldown /\ NeverStranded /\ StateMatchesFace
  BY DEF IInv
<1>a. queue' = <<>> /\ queue' \in Seq(Events) /\ Len(queue') = 0
  BY LimitsAssumption DEF CreateTaskFails
<1>b. QCap \in Nat
  BY LimitsAssumption
<1>1. TypeOK'
  BY <1>0, <1>a, <1>b
     DEF TypeOK, CreateTaskFails, Has, Single, countdown, clocks, history, Counting, Off, States, HalfSec
<1>2. InitWindow'
  BY <1>0, <1>a, <1>b
     DEF InitWindow, TypeOK, OneChainOneCooldown, CreateTaskFails, Has, Single, countdown, clocks, history, Counting, Off, States, HalfSec
<1>3. TimeAccounted'
  BY <1>0, <1>a, <1>b
     DEF TimeAccounted, TypeOK, CreateTaskFails, Has, Single, countdown, clocks, history, Counting, Off, States, HalfSec
<1>4. CountingIsTicked'
  BY <1>0, <1>a, <1>b
     DEF CountingIsTicked, TypeOK, CreateTaskFails, Has, Single, countdown, clocks, history, Counting, Off, States, HalfSec
<1>5. OneChainOneCooldown'
  BY <1>0, <1>a, <1>b
     DEF OneChainOneCooldown, InQueue, Kept, InitWindow, TypeOK, CountingIsTicked, CreateTaskFails, Has, Single, countdown, clocks, history, Counting, Off, States, HalfSec
<1>6. NeverStranded'
  BY <1>0, <1>a, <1>b
     DEF NeverStranded, InQueue, Kept, OneChainOneCooldown, InitWindow, TypeOK, CreateTaskFails, Has, Single, countdown, clocks, history, Counting, Off, States, HalfSec
<1>7. StateMatchesFace'
  BY <1>0, <1>a, <1>b
     DEF StateMatchesFace, TypeOK, CreateTaskFails, Has, Single, countdown, clocks, history, Counting, Off, States, HalfSec
<1> QED BY <1>1, <1>2, <1>3, <1>4, <1>5, <1>6, <1>7 DEF IInv

\* The last assignment of bf_timer_engine_init.
LEMMA FinishInitStep ==
  ASSUME IInv, FinishInit
  PROVE  IInv'
<1>0. TypeOK /\ InitWindow /\ TimeAccounted /\ CountingIsTicked
      /\ OneChainOneCooldown /\ NeverStranded /\ StateMatchesFace
  BY DEF IInv
<1>q. Kept("trigger_done") /\ Kept("cooldown_done")
  BY KeptIfUnchanged DEF FinishInit
<1>1. TypeOK'
  BY <1>0, <1>q
     DEF TypeOK, FinishInit, countdown, clocks, history, Counting, Off, States, HalfSec
<1>2. InitWindow'
  BY <1>0, <1>q
     DEF InitWindow, TypeOK, OneChainOneCooldown, FinishInit, countdown, clocks, history, Counting, Off, States, HalfSec
<1>3. TimeAccounted'
  BY <1>0, <1>q
     DEF TimeAccounted, TypeOK, FinishInit, countdown, clocks, history, Counting, Off, States, HalfSec
<1>4. CountingIsTicked'
  BY <1>0, <1>q
     DEF CountingIsTicked, TypeOK, FinishInit, countdown, clocks, history, Counting, Off, States, HalfSec
<1>5. OneChainOneCooldown'
  BY <1>0, <1>q
     DEF OneChainOneCooldown, InQueue, Kept, InitWindow, TypeOK, CountingIsTicked, FinishInit, countdown, clocks, history, Counting, Off, States, HalfSec
<1>6. NeverStranded'
  BY <1>0, <1>q
     DEF NeverStranded, InQueue, Kept, OneChainOneCooldown, InitWindow, TypeOK, FinishInit, countdown, clocks, history, Counting, Off, States, HalfSec
<1>7. StateMatchesFace'
  BY <1>0, <1>q
     DEF StateMatchesFace, TypeOK, FinishInit, countdown, clocks, history, Counting, Off, States, HalfSec
<1> QED BY <1>1, <1>2, <1>3, <1>4, <1>5, <1>6, <1>7 DEF IInv

\* on_tick.
LEMMA OnTickStep ==
  ASSUME IInv, OnTick
  PROVE  IInv'
<1>0. TypeOK /\ InitWindow /\ TimeAccounted /\ CountingIsTicked
      /\ OneChainOneCooldown /\ NeverStranded /\ StateMatchesFace
  BY DEF IInv
<1>q. /\ queue' \in Seq(Events) /\ Len(queue') <= QCap /\ queue' # <<>>
      /\ Kept("trigger_done")
      /\ Kept("cooldown_done")
  BY <1>0, Offered, EventFacts DEF OnTick
<1>1. TypeOK'
  BY <1>0, <1>q
     DEF TypeOK, OnTick, countdown, clocks, history, Counting, Off, States, HalfSec
<1>2. InitWindow'
  BY <1>0, <1>q
     DEF InitWindow, TypeOK, OneChainOneCooldown, OnTick, countdown, clocks, history, Counting, Off, States, HalfSec
<1>3. TimeAccounted'
  BY <1>0, <1>q
     DEF TimeAccounted, TypeOK, OnTick, countdown, clocks, history, Counting, Off, States, HalfSec
<1>4. CountingIsTicked'
  BY <1>0, <1>q
     DEF CountingIsTicked, TypeOK, OnTick, countdown, clocks, history, Counting, Off, States, HalfSec
<1>5. OneChainOneCooldown'
  BY <1>0, <1>q
     DEF OneChainOneCooldown, InQueue, Kept, InitWindow, TypeOK, CountingIsTicked, OnTick, countdown, clocks, history, Counting, Off, States, HalfSec
<1>6. NeverStranded'
  BY <1>0, <1>q
     DEF NeverStranded, InQueue, Kept, OneChainOneCooldown, InitWindow, TypeOK, OnTick, countdown, clocks, history, Counting, Off, States, HalfSec
<1>7. StateMatchesFace'
  BY <1>0, <1>q
     DEF StateMatchesFace, TypeOK, OnTick, countdown, clocks, history, Counting, Off, States, HalfSec
<1> QED BY <1>1, <1>2, <1>3, <1>4, <1>5, <1>6, <1>7 DEF IInv

\* on_cooldown_done.
LEMMA OnCooldownDoneStep ==
  ASSUME IInv, OnCooldownDone
  PROVE  IInv'
<1>0. TypeOK /\ InitWindow /\ TimeAccounted /\ CountingIsTicked
      /\ OneChainOneCooldown /\ NeverStranded /\ StateMatchesFace
  BY DEF IInv
<1>q. /\ queue' \in Seq(Events) /\ Len(queue') <= QCap /\ queue' # <<>>
      /\ queue = <<>> => Has(queue', "cooldown_done")
      /\ ~ Has(queue, "cooldown_done") => Single(queue', "cooldown_done")
      /\ Kept("trigger_done")
  BY <1>0, Offered, EventFacts DEF OnCooldownDone
<1>1. TypeOK'
  BY <1>0, <1>q
     DEF TypeOK, OnCooldownDone, countdown, clocks, history, Counting, Off, States, HalfSec
<1>2. InitWindow'
  BY <1>0, <1>q
     DEF InitWindow, TypeOK, OneChainOneCooldown, OnCooldownDone, countdown, clocks, history, Counting, Off, States, HalfSec
<1>3. TimeAccounted'
  BY <1>0, <1>q
     DEF TimeAccounted, TypeOK, OnCooldownDone, countdown, clocks, history, Counting, Off, States, HalfSec
<1>4. CountingIsTicked'
  BY <1>0, <1>q
     DEF CountingIsTicked, TypeOK, OnCooldownDone, countdown, clocks, history, Counting, Off, States, HalfSec
<1>5. OneChainOneCooldown'
  BY <1>0, <1>q
     DEF OneChainOneCooldown, InQueue, Kept, InitWindow, TypeOK, CountingIsTicked, OnCooldownDone, countdown, clocks, history, Counting, Off, States, HalfSec
<1>6. NeverStranded'
  <2>1. state = "cooldown" /\ ~ Has(queue, "cooldown_done") /\ ~ Has(queue, "trigger_done")
    BY <1>0 DEF OnCooldownDone, OneChainOneCooldown, InQueue
  <2>2. queue # <<>> => ~ Stalled
    BY <1>0, <2>1, NothingPublishedInCooldown DEF OnCooldownDone
  <2>3. queue = <<>>
    BY <2>2 DEF OnCooldownDone, CaughtUp
  <2> QED BY <2>1, <2>3, <1>q DEF NeverStranded, InQueue, OnCooldownDone
<1>7. StateMatchesFace'
  BY <1>0, <1>q
     DEF StateMatchesFace, TypeOK, OnCooldownDone, countdown, clocks, history, Counting, Off, States, HalfSec
<1> QED BY <1>1, <1>2, <1>3, <1>4, <1>5, <1>6, <1>7 DEF IInv

\* The end of api_trigger_task.
LEMMA TriggerEndsStep ==
  ASSUME IInv, TriggerEnds
  PROVE  IInv'
<1>0. TypeOK /\ InitWindow /\ TimeAccounted /\ CountingIsTicked
      /\ OneChainOneCooldown /\ NeverStranded /\ StateMatchesFace
  BY DEF IInv
<1>q. /\ queue' \in Seq(Events) /\ Len(queue') <= QCap /\ queue' # <<>>
      /\ queue = <<>> => Has(queue', "trigger_done")
      /\ ~ Has(queue, "trigger_done") => Single(queue', "trigger_done")
      /\ Kept("cooldown_done")
  BY <1>0, Offered, EventFacts DEF TriggerEnds
<1>1. TypeOK'
  BY <1>0, <1>q
     DEF TypeOK, TriggerEnds, countdown, clocks, history, Counting, Off, States, HalfSec
<1>2. InitWindow'
  BY <1>0, <1>q
     DEF InitWindow, TypeOK, OneChainOneCooldown, TriggerEnds, countdown, clocks, history, Counting, Off, States, HalfSec
<1>3. TimeAccounted'
  BY <1>0, <1>q
     DEF TimeAccounted, TypeOK, TriggerEnds, countdown, clocks, history, Counting, Off, States, HalfSec
<1>4. CountingIsTicked'
  BY <1>0, <1>q
     DEF CountingIsTicked, TypeOK, TriggerEnds, countdown, clocks, history, Counting, Off, States, HalfSec
<1>5. OneChainOneCooldown'
  BY <1>0, <1>q
     DEF OneChainOneCooldown, InQueue, Kept, InitWindow, TypeOK, CountingIsTicked, TriggerEnds, countdown, clocks, history, Counting, Off, States, HalfSec
<1>6. NeverStranded'
  <2>1. state = "api_triggering" /\ ~ Has(queue, "cooldown_done") /\ ~ Has(queue, "trigger_done")
    BY <1>0 DEF TriggerEnds, OneChainOneCooldown, InQueue, TypeOK
  <2>2. queue # <<>> => ~ Stalled
    BY <1>0, <2>1, NothingPublishedInCooldown
  <2>3. queue = <<>>
    BY <2>2 DEF TriggerEnds, CaughtUp
  <2> QED BY <2>1, <2>3, <1>q DEF NeverStranded, InQueue, TriggerEnds
<1>7. StateMatchesFace'
  BY <1>0, <1>q
     DEF StateMatchesFace, TypeOK, TriggerEnds, countdown, clocks, history, Counting, Off, States, HalfSec
<1> QED BY <1>1, <1>2, <1>3, <1>4, <1>5, <1>6, <1>7 DEF IInv

\* Half a second passes.
LEMMA PassStep ==
  ASSUME IInv, Pass
  PROVE  IInv'
<1>0. TypeOK /\ InitWindow /\ TimeAccounted /\ CountingIsTicked
      /\ OneChainOneCooldown /\ NeverStranded /\ StateMatchesFace
  BY DEF IInv
<1>q. Kept("trigger_done") /\ Kept("cooldown_done")
  BY KeptIfUnchanged DEF Pass
<1>1. TypeOK'
  BY <1>0, <1>q
     DEF TypeOK, Pass, countdown, clocks, history, Counting, Off, States, HalfSec
<1>2. InitWindow'
  BY <1>0, <1>q
     DEF InitWindow, TypeOK, OneChainOneCooldown, Pass, countdown, clocks, history, Counting, Off, States, HalfSec
<1>3. TimeAccounted'
  BY <1>0, <1>q
     DEF TimeAccounted, TypeOK, Pass, countdown, clocks, history, Counting, Off, States, HalfSec
<1>4. CountingIsTicked'
  BY <1>0, <1>q
     DEF CountingIsTicked, TypeOK, Pass, countdown, clocks, history, Counting, Off, States, HalfSec
<1>5. OneChainOneCooldown'
  BY <1>0, <1>q
     DEF OneChainOneCooldown, InQueue, Kept, InitWindow, TypeOK, CountingIsTicked, Pass, countdown, clocks, history, Counting, Off, States, HalfSec
<1>6. NeverStranded'
  BY <1>0, <1>q
     DEF NeverStranded, InQueue, Kept, OneChainOneCooldown, InitWindow, TypeOK, Pass, countdown, clocks, history, Counting, Off, States, HalfSec
<1>7. StateMatchesFace'
  BY <1>0, <1>q
     DEF StateMatchesFace, TypeOK, Pass, countdown, clocks, history, Counting, Off, States, HalfSec
<1> QED BY <1>1, <1>2, <1>3, <1>4, <1>5, <1>6, <1>7 DEF IInv

\* on_face_event.
LEMMA OnFaceEventStep ==
  ASSUME IInv, NEW f \in Faces, OnFaceEvent(f)
  PROVE  IInv'
<1>0. TypeOK /\ InitWindow /\ TimeAccounted /\ CountingIsTicked
      /\ OneChainOneCooldown /\ NeverStranded /\ StateMatchesFace
  BY DEF IInv
<1>q. /\ queue' \in Seq(Events) /\ Len(queue') <= QCap
      /\ boot # "failed" /\ queue = <<>> => Len(queue') = 1 /\ queue'[1].type = "face"
      /\ Kept("trigger_done") /\ Kept("cooldown_done")
  BY <1>0, Offered, EventFacts, KeptIfUnchanged DEF OnFaceEvent, TypeOK
<1>1. TypeOK'
  BY <1>0, <1>q
     DEF TypeOK, OnFaceEvent, InitOver, countdown, clocks, history, Counting, Off, States, HalfSec
<1>2. InitWindow'
  BY <1>0, <1>q
     DEF InitWindow, TypeOK, OneChainOneCooldown, OnFaceEvent, InitOver, countdown, clocks, history, Counting, Off, States, HalfSec
<1>3. TimeAccounted'
  BY <1>0, <1>q
     DEF TimeAccounted, TypeOK, OnFaceEvent, InitOver, countdown, clocks, history, Counting, Off, States, HalfSec
<1>4. CountingIsTicked'
  BY <1>0, <1>q
     DEF CountingIsTicked, TypeOK, OnFaceEvent, InitOver, countdown, clocks, history, Counting, Off, States, HalfSec
<1>5. OneChainOneCooldown'
  BY <1>0, <1>q
     DEF OneChainOneCooldown, InQueue, Kept, InitWindow, TypeOK, CountingIsTicked, OnFaceEvent, InitOver, countdown, clocks, history, Counting, Off, States, HalfSec
<1>6. NeverStranded'
  BY <1>0, <1>q
     DEF NeverStranded, InQueue, Kept, OneChainOneCooldown, InitWindow, TypeOK, OnFaceEvent, InitOver, countdown, clocks, history, Counting, Off, States, HalfSec
<1>7. StateMatchesFace'
  BY <1>0, <1>q
     DEF StateMatchesFace, TypeOK, OnFaceEvent, InitOver, countdown, clocks, history, Counting, Off, States, HalfSec
<1> QED BY <1>1, <1>2, <1>3, <1>4, <1>5, <1>6, <1>7 DEF IInv

\* handle_face.
LEMMA FaceArmsStep ==
  ASSUME IInv, NEW f \in Faces, FaceArms(f)
  PROVE  IInv'
<1>0. TypeOK /\ InitWindow /\ TimeAccounted /\ CountingIsTicked
      /\ OneChainOneCooldown /\ NeverStranded /\ StateMatchesFace
  BY DEF IInv
<1>q. /\ queue' \in Seq(Events) /\ Len(queue') <= QCap
      /\ Head(queue) \in Events /\ queue[1].type = "face"
      /\ Len(queue) = 1 => queue' = <<>>
      /\ Kept("trigger_done")
      /\ Kept("cooldown_done")
  BY <1>0, Taken DEF FaceArms, TakeFace
<1>a. Duration[f] \in Int
  BY DurationAssumption
<1>1. TypeOK'
  BY <1>0, <1>q, <1>a
     DEF TypeOK, FaceArms, TakeFace, Take, Arms, countdown, clocks, history, Counting, Off, States, HalfSec
<1>2. InitWindow'
  BY <1>0, <1>q, <1>a
     DEF InitWindow, TypeOK, OneChainOneCooldown, FaceArms, TakeFace, Take, Arms, countdown, clocks, history, Counting, Off, States, HalfSec
<1>3. TimeAccounted'
  BY <1>0, <1>q, <1>a
     DEF TimeAccounted, TypeOK, FaceArms, TakeFace, Take, Arms, countdown, clocks, history, Counting, Off, States, HalfSec
<1>4. CountingIsTicked'
  BY <1>0, <1>q, <1>a
     DEF CountingIsTicked, TypeOK, FaceArms, TakeFace, Take, Arms, countdown, clocks, history, Counting, Off, States, HalfSec
<1>5. OneChainOneCooldown'
  BY <1>0, <1>q, <1>a
     DEF OneChainOneCooldown, InQueue, Kept, InitWindow, TypeOK, CountingIsTicked, FaceArms, TakeFace, Take, Arms, countdown, clocks, history, Counting, Off, States, HalfSec
<1>6. NeverStranded'
  BY <1>0, <1>q, <1>a
     DEF NeverStranded, InQueue, Kept, OneChainOneCooldown, InitWindow, TypeOK, FaceArms, TakeFace, Take, Arms, countdown, clocks, history, Counting, Off, States, HalfSec
<1>7. StateMatchesFace'
  BY <1>0, <1>q, <1>a
     DEF StateMatchesFace, TypeOK, FaceArms, TakeFace, Take, Arms, countdown, clocks, history, Counting, Off, States, HalfSec
<1> QED BY <1>1, <1>2, <1>3, <1>4, <1>5, <1>6, <1>7 DEF IInv

\* handle_face.
LEMMA FaceRestsStep ==
  ASSUME IInv, NEW f \in Faces, FaceRests(f)
  PROVE  IInv'
<1>0. TypeOK /\ InitWindow /\ TimeAccounted /\ CountingIsTicked
      /\ OneChainOneCooldown /\ NeverStranded /\ StateMatchesFace
  BY DEF IInv
<1>q. /\ queue' \in Seq(Events) /\ Len(queue') <= QCap
      /\ Head(queue) \in Events /\ queue[1].type = "face"
      /\ Len(queue) = 1 => queue' = <<>>
      /\ Kept("trigger_done")
      /\ Kept("cooldown_done")
  BY <1>0, Taken DEF FaceRests, TakeFace
<1>a. Duration[f] \in Int
  BY DurationAssumption
<1>1. TypeOK'
  BY <1>0, <1>q, <1>a
     DEF TypeOK, FaceRests, TakeFace, Take, Rests, countdown, clocks, history, Counting, Off, States, HalfSec
<1>2. InitWindow'
  BY <1>0, <1>q, <1>a
     DEF InitWindow, TypeOK, OneChainOneCooldown, FaceRests, TakeFace, Take, Rests, countdown, clocks, history, Counting, Off, States, HalfSec
<1>3. TimeAccounted'
  BY <1>0, <1>q, <1>a
     DEF TimeAccounted, TypeOK, FaceRests, TakeFace, Take, Rests, countdown, clocks, history, Counting, Off, States, HalfSec
<1>4. CountingIsTicked'
  BY <1>0, <1>q, <1>a
     DEF CountingIsTicked, TypeOK, FaceRests, TakeFace, Take, Rests, countdown, clocks, history, Counting, Off, States, HalfSec
<1>5. OneChainOneCooldown'
  BY <1>0, <1>q, <1>a
     DEF OneChainOneCooldown, InQueue, Kept, InitWindow, TypeOK, CountingIsTicked, FaceRests, TakeFace, Take, Rests, countdown, clocks, history, Counting, Off, States, HalfSec
<1>6. NeverStranded'
  BY <1>0, <1>q, <1>a
     DEF NeverStranded, InQueue, Kept, OneChainOneCooldown, InitWindow, TypeOK, FaceRests, TakeFace, Take, Rests, countdown, clocks, history, Counting, Off, States, HalfSec
<1>7. StateMatchesFace'
  BY <1>0, <1>q, <1>a
     DEF StateMatchesFace, TypeOK, FaceRests, TakeFace, Take, Rests, countdown, clocks, history, Counting, Off, States, HalfSec
<1> QED BY <1>1, <1>2, <1>3, <1>4, <1>5, <1>6, <1>7 DEF IInv

\* handle_face.
LEMMA FaceStartsStep ==
  ASSUME IInv, NEW f \in Faces, FaceStarts(f)
  PROVE  IInv'
<1>0. TypeOK /\ InitWindow /\ TimeAccounted /\ CountingIsTicked
      /\ OneChainOneCooldown /\ NeverStranded /\ StateMatchesFace
  BY DEF IInv
<1>q. /\ queue' \in Seq(Events) /\ Len(queue') <= QCap
      /\ Head(queue) \in Events /\ queue[1].type = "face"
      /\ Len(queue) = 1 => queue' = <<>>
      /\ Kept("trigger_done")
      /\ Kept("cooldown_done")
  BY <1>0, Taken DEF FaceStarts, TakeFace
<1>a. Duration[f] \in Int
  BY DurationAssumption
<1>1. TypeOK'
  <2>1. Duration[f] \in Nat /\ HalfSec * Duration[f] \in Nat
    BY <1>a DEF FaceStarts, Starts, HalfSec
  <2>2. state' \in States /\ tick' \in Off..HalfSec
    BY <1>0 DEF TypeOK, FaceStarts, StartCountdown, CountingState, StartTick, States, Off, HalfSec
  <2> QED
    BY <1>0, <1>q, <2>1, <2>2 DEF TypeOK, FaceStarts, StartCountdown, TakeFace
<1>2. InitWindow'
  BY <1>0, <1>q, <1>a
     DEF InitWindow, TypeOK, OneChainOneCooldown, FaceStarts, TakeFace, Take, Starts, Resumes, StartCountdown, CountingState, StartTick, countdown, clocks, history, Counting, Off, States, HalfSec
<1>3. TimeAccounted'
  BY <1>0, <1>q, <1>a
     DEF TimeAccounted, TypeOK, FaceStarts, TakeFace, Take, Starts, Resumes, StartCountdown, CountingState, StartTick, countdown, clocks, history, Counting, Off, States, HalfSec
<1>4. CountingIsTicked'
  BY <1>0, <1>q, <1>a
     DEF CountingIsTicked, TypeOK, FaceStarts, TakeFace, Take, Starts, Resumes, StartCountdown, CountingState, StartTick, countdown, clocks, history, Counting, Off, States, HalfSec
<1>5. OneChainOneCooldown'
  BY <1>0, <1>q, <1>a
     DEF OneChainOneCooldown, InQueue, Kept, InitWindow, TypeOK, CountingIsTicked, FaceStarts, TakeFace, Take, Starts, Resumes, StartCountdown, CountingState, StartTick, countdown, clocks, history, Counting, Off, States, HalfSec
<1>6. NeverStranded'
  BY <1>0, <1>q, <1>a
     DEF NeverStranded, InQueue, Kept, OneChainOneCooldown, InitWindow, TypeOK, FaceStarts, TakeFace, Take, Starts, Resumes, StartCountdown, CountingState, StartTick, countdown, clocks, history, Counting, Off, States, HalfSec
<1>7. StateMatchesFace'
  BY <1>0, <1>q, <1>a
     DEF StateMatchesFace, TypeOK, FaceStarts, TakeFace, Take, Starts, Resumes, StartCountdown, CountingState, StartTick, countdown, clocks, history, Counting, Off, States, HalfSec
<1> QED BY <1>1, <1>2, <1>3, <1>4, <1>5, <1>6, <1>7 DEF IInv

\* handle_face.
LEMMA FacePausesStep ==
  ASSUME IInv, NEW f \in Faces, FacePauses(f)
  PROVE  IInv'
<1>0. TypeOK /\ InitWindow /\ TimeAccounted /\ CountingIsTicked
      /\ OneChainOneCooldown /\ NeverStranded /\ StateMatchesFace
  BY DEF IInv
<1>q. /\ queue' \in Seq(Events) /\ Len(queue') <= QCap
      /\ Head(queue) \in Events /\ queue[1].type = "face"
      /\ Len(queue) = 1 => queue' = <<>>
      /\ Kept("trigger_done")
      /\ Kept("cooldown_done")
  BY <1>0, Taken DEF FacePauses, TakeFace
<1>a. Duration[f] \in Int
  BY DurationAssumption
<1>b. Remaining \in Nat /\ left - HalfSec * Remaining \in {0, 1}
  BY <1>0, RemainingFacts DEF TypeOK
<1>1. TypeOK'
  BY <1>0, <1>q, <1>a, <1>b
     DEF TypeOK, FacePauses, TakeFace, Take, Pauses, PauseCountdown, countdown, clocks, history, Counting, Off, States, HalfSec
<1>2. InitWindow'
  BY <1>0, <1>q, <1>a, <1>b
     DEF InitWindow, TypeOK, OneChainOneCooldown, FacePauses, TakeFace, Take, Pauses, PauseCountdown, countdown, clocks, history, Counting, Off, States, HalfSec
<1>3. TimeAccounted'
  BY <1>0, <1>q, <1>a, <1>b
     DEF TimeAccounted, TypeOK, FacePauses, TakeFace, Take, Pauses, PauseCountdown, countdown, clocks, history, Counting, Off, States, HalfSec
<1>4. CountingIsTicked'
  BY <1>0, <1>q, <1>a, <1>b
     DEF CountingIsTicked, TypeOK, FacePauses, TakeFace, Take, Pauses, PauseCountdown, countdown, clocks, history, Counting, Off, States, HalfSec
<1>5. OneChainOneCooldown'
  BY <1>0, <1>q, <1>a, <1>b
     DEF OneChainOneCooldown, InQueue, Kept, InitWindow, TypeOK, CountingIsTicked, FacePauses, TakeFace, Take, Pauses, PauseCountdown, countdown, clocks, history, Counting, Off, States, HalfSec
<1>6. NeverStranded'
  BY <1>0, <1>q, <1>a, <1>b
     DEF NeverStranded, InQueue, Kept, OneChainOneCooldown, InitWindow, TypeOK, FacePauses, TakeFace, Take, Pauses, PauseCountdown, countdown, clocks, history, Counting, Off, States, HalfSec
<1>7. StateMatchesFace'
  BY <1>0, <1>q, <1>a, <1>b
     DEF StateMatchesFace, TypeOK, FacePauses, TakeFace, Take, Pauses, PauseCountdown, countdown, clocks, history, Counting, Off, States, HalfSec
<1> QED BY <1>1, <1>2, <1>3, <1>4, <1>5, <1>6, <1>7 DEF IInv

\* handle_face.
LEMMA FaceResumesStep ==
  ASSUME IInv, NEW f \in Faces, FaceResumes(f)
  PROVE  IInv'
<1>0. TypeOK /\ InitWindow /\ TimeAccounted /\ CountingIsTicked
      /\ OneChainOneCooldown /\ NeverStranded /\ StateMatchesFace
  BY DEF IInv
<1>q. /\ queue' \in Seq(Events) /\ Len(queue') <= QCap
      /\ Head(queue) \in Events /\ queue[1].type = "face"
      /\ Len(queue) = 1 => queue' = <<>>
      /\ Kept("trigger_done")
      /\ Kept("cooldown_done")
  BY <1>0, Taken DEF FaceResumes, TakeFace
<1>a. Duration[f] \in Int
  BY DurationAssumption
<1>1. TypeOK'
  BY <1>0, <1>q, <1>a
     DEF TypeOK, FaceResumes, TakeFace, Take, Resumes, ResumeCountdown, CountingState, StartTick, countdown, clocks, history, Counting, Off, States, HalfSec
<1>2. InitWindow'
  BY <1>0, <1>q, <1>a
     DEF InitWindow, TypeOK, OneChainOneCooldown, FaceResumes, TakeFace, Take, Resumes, ResumeCountdown, CountingState, StartTick, countdown, clocks, history, Counting, Off, States, HalfSec
<1>3. TimeAccounted'
  BY <1>0, <1>q, <1>a
     DEF TimeAccounted, TypeOK, FaceResumes, TakeFace, Take, Resumes, ResumeCountdown, CountingState, StartTick, countdown, clocks, history, Counting, Off, States, HalfSec
<1>4. CountingIsTicked'
  BY <1>0, <1>q, <1>a
     DEF CountingIsTicked, TypeOK, FaceResumes, TakeFace, Take, Resumes, ResumeCountdown, CountingState, StartTick, countdown, clocks, history, Counting, Off, States, HalfSec
<1>5. OneChainOneCooldown'
  BY <1>0, <1>q, <1>a
     DEF OneChainOneCooldown, InQueue, Kept, InitWindow, TypeOK, CountingIsTicked, FaceResumes, TakeFace, Take, Resumes, ResumeCountdown, CountingState, StartTick, countdown, clocks, history, Counting, Off, States, HalfSec
<1>6. NeverStranded'
  BY <1>0, <1>q, <1>a
     DEF NeverStranded, InQueue, Kept, OneChainOneCooldown, InitWindow, TypeOK, FaceResumes, TakeFace, Take, Resumes, ResumeCountdown, CountingState, StartTick, countdown, clocks, history, Counting, Off, States, HalfSec
<1>7. StateMatchesFace'
  BY <1>0, <1>q, <1>a
     DEF StateMatchesFace, TypeOK, FaceResumes, TakeFace, Take, Resumes, ResumeCountdown, CountingState, StartTick, countdown, clocks, history, Counting, Off, States, HalfSec
<1> QED BY <1>1, <1>2, <1>3, <1>4, <1>5, <1>6, <1>7 DEF IInv

\* handle_face.
LEMMA FaceIgnoredStep ==
  ASSUME IInv, NEW f \in Faces, FaceIgnored(f)
  PROVE  IInv'
<1>0. TypeOK /\ InitWindow /\ TimeAccounted /\ CountingIsTicked
      /\ OneChainOneCooldown /\ NeverStranded /\ StateMatchesFace
  BY DEF IInv
<1>q. /\ queue' \in Seq(Events) /\ Len(queue') <= QCap
      /\ Head(queue) \in Events /\ queue[1].type = "face"
      /\ Len(queue) = 1 => queue' = <<>>
      /\ Kept("trigger_done")
      /\ Kept("cooldown_done")
  BY <1>0, Taken DEF FaceIgnored, TakeFace
<1>a. Duration[f] \in Int
  BY DurationAssumption
<1>1. TypeOK'
  BY <1>0, <1>q, <1>a
     DEF TypeOK, FaceIgnored, TakeFace, Take, Ignores, Arms, Rests, Pauses, Resumes, Starts, countdown, clocks, history, Counting, Off, States, HalfSec
<1>2. InitWindow'
  BY <1>0, <1>q, <1>a
     DEF InitWindow, TypeOK, OneChainOneCooldown, FaceIgnored, TakeFace, Take, Ignores, Arms, Rests, Pauses, Resumes, Starts, countdown, clocks, history, Counting, Off, States, HalfSec
<1>3. TimeAccounted'
  BY <1>0, <1>q, <1>a
     DEF TimeAccounted, TypeOK, FaceIgnored, TakeFace, Take, Ignores, Arms, Rests, Pauses, Resumes, Starts, countdown, clocks, history, Counting, Off, States, HalfSec
<1>4. CountingIsTicked'
  BY <1>0, <1>q, <1>a
     DEF CountingIsTicked, TypeOK, FaceIgnored, TakeFace, Take, Ignores, Arms, Rests, Pauses, Resumes, Starts, countdown, clocks, history, Counting, Off, States, HalfSec
<1>5. OneChainOneCooldown'
  BY <1>0, <1>q, <1>a
     DEF OneChainOneCooldown, InQueue, Kept, InitWindow, TypeOK, CountingIsTicked, FaceIgnored, TakeFace, Take, Ignores, Arms, Rests, Pauses, Resumes, Starts, countdown, clocks, history, Counting, Off, States, HalfSec
<1>6. NeverStranded'
  BY <1>0, <1>q, <1>a
     DEF NeverStranded, InQueue, Kept, OneChainOneCooldown, InitWindow, TypeOK, FaceIgnored, TakeFace, Take, Ignores, Arms, Rests, Pauses, Resumes, Starts, countdown, clocks, history, Counting, Off, States, HalfSec
<1>7. StateMatchesFace'
  BY <1>0, <1>q, <1>a
     DEF StateMatchesFace, TypeOK, FaceIgnored, TakeFace, Take, Ignores, Arms, Rests, Pauses, Resumes, Starts, countdown, clocks, history, Counting, Off, States, HalfSec
<1> QED BY <1>1, <1>2, <1>3, <1>4, <1>5, <1>6, <1>7 DEF IInv

\* handle_tick.
LEMMA TickStaleStep ==
  ASSUME IInv, TickStale
  PROVE  IInv'
<1>0. TypeOK /\ InitWindow /\ TimeAccounted /\ CountingIsTicked
      /\ OneChainOneCooldown /\ NeverStranded /\ StateMatchesFace
  BY DEF IInv
<1>q. /\ queue' \in Seq(Events) /\ Len(queue') <= QCap
      /\ Head(queue) \in Events /\ queue[1].type = "tick"
      /\ Len(queue) = 1 => queue' = <<>>
      /\ Kept("trigger_done")
      /\ Kept("cooldown_done")
  BY <1>0, Taken DEF TickStale
<1>1. TypeOK'
  BY <1>0, <1>q
     DEF TypeOK, TickStale, Take, countdown, clocks, history, Counting, Off, States, HalfSec
<1>2. InitWindow'
  BY <1>0, <1>q
     DEF InitWindow, TypeOK, OneChainOneCooldown, TickStale, Take, countdown, clocks, history, Counting, Off, States, HalfSec
<1>3. TimeAccounted'
  BY <1>0, <1>q
     DEF TimeAccounted, TypeOK, TickStale, Take, countdown, clocks, history, Counting, Off, States, HalfSec
<1>4. CountingIsTicked'
  BY <1>0, <1>q
     DEF CountingIsTicked, TypeOK, TickStale, Take, countdown, clocks, history, Counting, Off, States, HalfSec
<1>5. OneChainOneCooldown'
  BY <1>0, <1>q
     DEF OneChainOneCooldown, InQueue, Kept, InitWindow, TypeOK, CountingIsTicked, TickStale, Take, countdown, clocks, history, Counting, Off, States, HalfSec
<1>6. NeverStranded'
  BY <1>0, <1>q
     DEF NeverStranded, InQueue, Kept, OneChainOneCooldown, InitWindow, TypeOK, TickStale, Take, countdown, clocks, history, Counting, Off, States, HalfSec
<1>7. StateMatchesFace'
  BY <1>0, <1>q
     DEF StateMatchesFace, TypeOK, TickStale, Take, countdown, clocks, history, Counting, Off, States, HalfSec
<1> QED BY <1>1, <1>2, <1>3, <1>4, <1>5, <1>6, <1>7 DEF IInv

\* handle_tick.
LEMMA TickCountsStep ==
  ASSUME IInv, TickCounts
  PROVE  IInv'
<1>0. TypeOK /\ InitWindow /\ TimeAccounted /\ CountingIsTicked
      /\ OneChainOneCooldown /\ NeverStranded /\ StateMatchesFace
  BY DEF IInv
<1>q. /\ queue' \in Seq(Events) /\ Len(queue') <= QCap
      /\ Head(queue) \in Events /\ queue[1].type = "tick"
      /\ Len(queue) = 1 => queue' = <<>>
      /\ Kept("trigger_done")
      /\ Kept("cooldown_done")
  BY <1>0, Taken DEF TickCounts
<1>1. TypeOK'
  BY <1>0, <1>q
     DEF TypeOK, TickCounts, Take, Remaining, countdown, clocks, history, Counting, Off, States, HalfSec
<1>2. InitWindow'
  BY <1>0, <1>q
     DEF InitWindow, TypeOK, OneChainOneCooldown, TickCounts, Take, Remaining, countdown, clocks, history, Counting, Off, States, HalfSec
<1>3. TimeAccounted'
  BY <1>0, <1>q
     DEF TimeAccounted, TypeOK, TickCounts, Take, Remaining, countdown, clocks, history, Counting, Off, States, HalfSec
<1>4. CountingIsTicked'
  BY <1>0, <1>q
     DEF CountingIsTicked, TypeOK, TickCounts, Take, Remaining, countdown, clocks, history, Counting, Off, States, HalfSec
<1>5. OneChainOneCooldown'
  BY <1>0, <1>q
     DEF OneChainOneCooldown, InQueue, Kept, InitWindow, TypeOK, CountingIsTicked, TickCounts, Take, Remaining, countdown, clocks, history, Counting, Off, States, HalfSec
<1>6. NeverStranded'
  BY <1>0, <1>q
     DEF NeverStranded, InQueue, Kept, OneChainOneCooldown, InitWindow, TypeOK, TickCounts, Take, Remaining, countdown, clocks, history, Counting, Off, States, HalfSec
<1>7. StateMatchesFace'
  BY <1>0, <1>q
     DEF StateMatchesFace, TypeOK, TickCounts, Take, Remaining, countdown, clocks, history, Counting, Off, States, HalfSec
<1> QED BY <1>1, <1>2, <1>3, <1>4, <1>5, <1>6, <1>7 DEF IInv

\* handle_tick.
LEMMA TickExpiresStep ==
  ASSUME IInv, TickExpires
  PROVE  IInv'
<1>0. TypeOK /\ InitWindow /\ TimeAccounted /\ CountingIsTicked
      /\ OneChainOneCooldown /\ NeverStranded /\ StateMatchesFace
  BY DEF IInv
<1>q. /\ queue' \in Seq(Events) /\ Len(queue') <= QCap
      /\ Head(queue) \in Events /\ queue[1].type = "tick"
      /\ Len(queue) = 1 => queue' = <<>>
      /\ Kept("trigger_done")
      /\ Kept("cooldown_done")
  BY <1>0, Taken DEF TickExpires
<1>1. TypeOK'
  BY <1>0, <1>q
     DEF TypeOK, TickExpires, Take, countdown, clocks, history, Counting, Off, States, HalfSec
<1>2. InitWindow'
  BY <1>0, <1>q
     DEF InitWindow, TypeOK, OneChainOneCooldown, TickExpires, Take, countdown, clocks, history, Counting, Off, States, HalfSec
<1>3. TimeAccounted'
  BY <1>0, <1>q
     DEF TimeAccounted, TypeOK, TickExpires, Take, countdown, clocks, history, Counting, Off, States, HalfSec
<1>4. CountingIsTicked'
  BY <1>0, <1>q
     DEF CountingIsTicked, TypeOK, TickExpires, Take, countdown, clocks, history, Counting, Off, States, HalfSec
<1>5. OneChainOneCooldown'
  BY <1>0, <1>q
     DEF OneChainOneCooldown, InQueue, Kept, InitWindow, TypeOK, CountingIsTicked, TickExpires, Take, countdown, clocks, history, Counting, Off, States, HalfSec
<1>6. NeverStranded'
  BY <1>0, <1>q
     DEF NeverStranded, InQueue, Kept, OneChainOneCooldown, InitWindow, TypeOK, TickExpires, Take, countdown, clocks, history, Counting, Off, States, HalfSec
<1>7. StateMatchesFace'
  BY <1>0, <1>q
     DEF StateMatchesFace, TypeOK, TickExpires, Take, countdown, clocks, history, Counting, Off, States, HalfSec
<1> QED BY <1>1, <1>2, <1>3, <1>4, <1>5, <1>6, <1>7 DEF IInv

\* handle_tick.
LEMMA TickExpiresNoTaskStep ==
  ASSUME IInv, TickExpiresNoTask
  PROVE  IInv'
<1>0. TypeOK /\ InitWindow /\ TimeAccounted /\ CountingIsTicked
      /\ OneChainOneCooldown /\ NeverStranded /\ StateMatchesFace
  BY DEF IInv
<1>q. /\ queue' \in Seq(Events) /\ Len(queue') <= QCap
      /\ Head(queue) \in Events /\ queue[1].type = "tick"
      /\ Len(queue) = 1 => queue' = <<>>
      /\ Kept("trigger_done")
      /\ Kept("cooldown_done")
  BY <1>0, Taken DEF TickExpiresNoTask
<1>1. TypeOK'
  BY <1>0, <1>q
     DEF TypeOK, TickExpiresNoTask, Take, EnterCooldown, countdown, clocks, history, Counting, Off, States, HalfSec
<1>2. InitWindow'
  BY <1>0, <1>q
     DEF InitWindow, TypeOK, OneChainOneCooldown, TickExpiresNoTask, Take, EnterCooldown, countdown, clocks, history, Counting, Off, States, HalfSec
<1>3. TimeAccounted'
  BY <1>0, <1>q
     DEF TimeAccounted, TypeOK, TickExpiresNoTask, Take, EnterCooldown, countdown, clocks, history, Counting, Off, States, HalfSec
<1>4. CountingIsTicked'
  BY <1>0, <1>q
     DEF CountingIsTicked, TypeOK, TickExpiresNoTask, Take, EnterCooldown, countdown, clocks, history, Counting, Off, States, HalfSec
<1>5. OneChainOneCooldown'
  BY <1>0, <1>q
     DEF OneChainOneCooldown, InQueue, Kept, InitWindow, TypeOK, CountingIsTicked, TickExpiresNoTask, Take, EnterCooldown, countdown, clocks, history, Counting, Off, States, HalfSec
<1>6. NeverStranded'
  BY <1>0, <1>q
     DEF NeverStranded, InQueue, Kept, OneChainOneCooldown, InitWindow, TypeOK, TickExpiresNoTask, Take, EnterCooldown, countdown, clocks, history, Counting, Off, States, HalfSec
<1>7. StateMatchesFace'
  BY <1>0, <1>q
     DEF StateMatchesFace, TypeOK, TickExpiresNoTask, Take, EnterCooldown, countdown, clocks, history, Counting, Off, States, HalfSec
<1> QED BY <1>1, <1>2, <1>3, <1>4, <1>5, <1>6, <1>7 DEF IInv

\* handle_cooldown_done.
LEMMA HandleCooldownDoneStep ==
  ASSUME IInv, HandleCooldownDone
  PROVE  IInv'
<1>0. TypeOK /\ InitWindow /\ TimeAccounted /\ CountingIsTicked
      /\ OneChainOneCooldown /\ NeverStranded /\ StateMatchesFace
  BY DEF IInv
<1>q. /\ queue' \in Seq(Events) /\ Len(queue') <= QCap
      /\ Head(queue) \in Events /\ queue[1].type = "cooldown_done"
      /\ Len(queue) = 1 => queue' = <<>>
      /\ Has(queue, "cooldown_done")
      /\ Single(queue, "cooldown_done") => Single(queue', "cooldown_done") /\ ~ Has(queue', "cooldown_done")
      /\ Kept("trigger_done")
  BY <1>0, Taken DEF HandleCooldownDone
<1>1. TypeOK'
  BY <1>0, <1>q
     DEF TypeOK, HandleCooldownDone, Take, countdown, clocks, history, Counting, Off, States, HalfSec
<1>2. InitWindow'
  BY <1>0, <1>q
     DEF InitWindow, TypeOK, OneChainOneCooldown, HandleCooldownDone, Take, countdown, clocks, history, Counting, Off, States, HalfSec
<1>3. TimeAccounted'
  BY <1>0, <1>q
     DEF TimeAccounted, TypeOK, HandleCooldownDone, Take, countdown, clocks, history, Counting, Off, States, HalfSec
<1>4. CountingIsTicked'
  BY <1>0, <1>q
     DEF CountingIsTicked, TypeOK, HandleCooldownDone, Take, countdown, clocks, history, Counting, Off, States, HalfSec
<1>5. OneChainOneCooldown'
  BY <1>0, <1>q
     DEF OneChainOneCooldown, InQueue, Kept, InitWindow, TypeOK, CountingIsTicked, HandleCooldownDone, Take, countdown, clocks, history, Counting, Off, States, HalfSec
<1>6. NeverStranded'
  BY <1>0, <1>q
     DEF NeverStranded, InQueue, Kept, OneChainOneCooldown, InitWindow, TypeOK, HandleCooldownDone, Take, countdown, clocks, history, Counting, Off, States, HalfSec
<1>7. StateMatchesFace'
  BY <1>0, <1>q
     DEF StateMatchesFace, TypeOK, HandleCooldownDone, Take, countdown, clocks, history, Counting, Off, States, HalfSec
<1> QED BY <1>1, <1>2, <1>3, <1>4, <1>5, <1>6, <1>7 DEF IInv

\* EVT_API_TRIGGER_DONE in timer_task.
LEMMA HandleTriggerDoneStep ==
  ASSUME IInv, HandleTriggerDone
  PROVE  IInv'
<1>0. TypeOK /\ InitWindow /\ TimeAccounted /\ CountingIsTicked
      /\ OneChainOneCooldown /\ NeverStranded /\ StateMatchesFace
  BY DEF IInv
<1>q. /\ queue' \in Seq(Events) /\ Len(queue') <= QCap
      /\ Head(queue) \in Events /\ queue[1].type = "trigger_done"
      /\ Len(queue) = 1 => queue' = <<>>
      /\ Has(queue, "trigger_done")
      /\ Single(queue, "trigger_done") => Single(queue', "trigger_done") /\ ~ Has(queue', "trigger_done")
      /\ Kept("cooldown_done")
  BY <1>0, Taken DEF HandleTriggerDone
<1>1. TypeOK'
  <2>1. CASE state = "api_triggering"
    BY <1>0, <1>q, <2>1
       DEF TypeOK, HandleTriggerDone, EnterCooldown, States, Off, HalfSec, history
  <2>2. CASE state # "api_triggering"
    BY <1>0, <1>q, <2>2
       DEF TypeOK, HandleTriggerDone, countdown, clocks, history
  <2> QED BY <2>1, <2>2
<1>2. InitWindow'
  BY <1>0, <1>q
     DEF InitWindow, TypeOK, OneChainOneCooldown, HandleTriggerDone, Take, EnterCooldown, countdown, clocks, history, Counting, Off, States, HalfSec
<1>3. TimeAccounted'
  BY <1>0, <1>q
     DEF TimeAccounted, TypeOK, HandleTriggerDone, Take, EnterCooldown, countdown, clocks, history, Counting, Off, States, HalfSec
<1>4. CountingIsTicked'
  BY <1>0, <1>q
     DEF CountingIsTicked, TypeOK, HandleTriggerDone, Take, EnterCooldown, countdown, clocks, history, Counting, Off, States, HalfSec
<1>5. OneChainOneCooldown'
  BY <1>0, <1>q
     DEF OneChainOneCooldown, InQueue, Kept, InitWindow, TypeOK, CountingIsTicked, HandleTriggerDone, Take, EnterCooldown, countdown, clocks, history, Counting, Off, States, HalfSec
<1>6. NeverStranded'
  BY <1>0, <1>q
     DEF NeverStranded, InQueue, Kept, OneChainOneCooldown, InitWindow, TypeOK, HandleTriggerDone, Take, EnterCooldown, countdown, clocks, history, Counting, Off, States, HalfSec
<1>7. StateMatchesFace'
  BY <1>0, <1>q
     DEF StateMatchesFace, TypeOK, HandleTriggerDone, Take, EnterCooldown, countdown, clocks, history, Counting, Off, States, HalfSec
<1> QED BY <1>1, <1>2, <1>3, <1>4, <1>5, <1>6, <1>7 DEF IInv

\* Every step of the engine preserves the invariant.
LEMMA NextKeepsInvariant ==
  ASSUME IInv, Next PROVE IInv'
<1> USE DEF Next
<1>1. CASE CreateTask
  BY <1>1, CreateTaskStep
<1>2. CASE CreateTaskFails
  BY <1>2, CreateTaskFailsStep
<1>3. CASE FinishInit
  BY <1>3, FinishInitStep
<1>4. CASE OnTick
  BY <1>4, OnTickStep
<1>5. CASE OnCooldownDone
  BY <1>5, OnCooldownDoneStep
<1>6. CASE TriggerEnds
  BY <1>6, TriggerEndsStep
<1>7. CASE Pass
  BY <1>7, PassStep
<1>8. CASE TickStale
  BY <1>8, TickStaleStep
<1>9. CASE TickCounts
  BY <1>9, TickCountsStep
<1>10. CASE TickExpires
  BY <1>10, TickExpiresStep
<1>11. CASE TickExpiresNoTask
  BY <1>11, TickExpiresNoTaskStep
<1>12. CASE HandleCooldownDone
  BY <1>12, HandleCooldownDoneStep
<1>13. CASE HandleTriggerDone
  BY <1>13, HandleTriggerDoneStep
<1>14. ASSUME NEW f \in Faces, OnFaceEvent(f) PROVE IInv'
  BY <1>14, OnFaceEventStep
<1>15. ASSUME NEW f \in Faces, FaceArms(f) PROVE IInv'
  BY <1>15, FaceArmsStep
<1>16. ASSUME NEW f \in Faces, FaceRests(f) PROVE IInv'
  BY <1>16, FaceRestsStep
<1>17. ASSUME NEW f \in Faces, FaceStarts(f) PROVE IInv'
  BY <1>17, FaceStartsStep
<1>18. ASSUME NEW f \in Faces, FacePauses(f) PROVE IInv'
  BY <1>18, FacePausesStep
<1>19. ASSUME NEW f \in Faces, FaceResumes(f) PROVE IInv'
  BY <1>19, FaceResumesStep
<1>20. ASSUME NEW f \in Faces, FaceIgnored(f) PROVE IInv'
  BY <1>20, FaceIgnoredStep
<1> QED
  BY <1>1, <1>2, <1>3, <1>4, <1>5, <1>6, <1>7, <1>8, <1>9, <1>10, <1>11, <1>12, <1>13, <1>14, <1>15, <1>16, <1>17, <1>18, <1>19, <1>20
     DEF FinishBoot, TurnCube, TimerTask, HandleFace, HandleTick

\* So does a step of anything outside the engine.
LEMMA StutterKeepsInvariant ==
  ASSUME IInv, UNCHANGED vars PROVE IInv'
BY DEF IInv, vars, countdown, clocks, history, TypeOK, InitWindow, TimeAccounted,
       CountingIsTicked, OneChainOneCooldown, NeverStranded, StateMatchesFace,
       InQueue, Has, Single

\* The engine starts in it.
LEMMA InitHoldsInvariant == Init => IInv
<1> SUFFICES ASSUME Init PROVE IInv
  OBVIOUS
<1>1. queue \in Seq(Events) /\ Len(queue) = 0 /\ \A t : ~ Has(queue, t) /\ Single(queue, t)
  BY DEF Init, Has, Single
<1>2. TypeOK
  <2>1. Len(queue) <= QCap
    BY <1>1, LimitsAssumption
  <2>2. tick \in Off..HalfSec /\ state \in States
    BY DEF Init, Off, HalfSec, States
  <2> QED BY <1>1, <2>1, <2>2 DEF Init, TypeOK
<1>3. InitWindow
  BY DEF Init, InitWindow
<1>4. TimeAccounted /\ CountingIsTicked /\ StateMatchesFace
  BY DEF Init, TimeAccounted, CountingIsTicked, StateMatchesFace, Counting
<1>5. OneChainOneCooldown /\ NeverStranded
  BY <1>1 DEF Init, OneChainOneCooldown, NeverStranded, InQueue
<1> QED BY <1>2, <1>3, <1>4, <1>5 DEF IInv

(***************************************************************************)
(* The theorems.                                                           *)
(***************************************************************************)
\* The inductive invariant holds in every reachable state of the engine.
THEOREM EngineInvariant == Spec => []IInv
<1>1. Init => IInv
  BY InitHoldsInvariant
<1>2. IInv /\ [Next]_vars => IInv'
  BY NextKeepsInvariant, StutterKeepsInvariant
<1> QED BY <1>1, <1>2, PTL DEF Spec

\* Every variable of the engine keeps its type, whatever is queued.
THEOREM TypeCorrect == Spec => []TypeOK
<1>1. IInv => TypeOK
  BY DEF IInv
<1> QED BY <1>1, EngineInvariant, PTL

\* Pauses, resumes and restarts neither lose nor invent focus time.
THEOREM TimeIsAccounted == Spec => []TimeAccounted
<1>1. IInv => TimeAccounted
  BY DEF IInv
<1> QED BY <1>1, EngineInvariant, PTL

\* A counting engine always has its 1 Hz clock (start_tick_timer).
THEOREM CountingEngineTicks == Spec => []CountingIsTicked
<1>1. IInv => CountingIsTicked
  BY DEF IInv
<1> QED BY <1>1, EngineInvariant, PTL

\* One expiry, one endpoint chain, one cooldown (on_expired, enter_cooldown).
THEOREM OneChainOneCooldownPerExpiry == Spec => []OneChainOneCooldown
<1>1. IInv => OneChainOneCooldown
  BY DEF IInv
<1> QED BY <1>1, EngineInvariant, PTL

\* No completion event is ever lost to a full queue, whatever its capacity.
THEOREM EngineNeverStranded == Spec => []NeverStranded
<1>1. IInv => NeverStranded
  BY DEF IInv
<1> QED BY <1>1, EngineInvariant, PTL

\* The last assignment of bf_timer_engine_init cuts off no countdown.
THEOREM NoCountdownBeforeInit == Spec => []InitWindow
<1>1. IInv => InitWindow
  BY DEF IInv
<1> QED BY <1>1, EngineInvariant, PTL

\* The resting and resettable states agree with the face handled last.
THEOREM StateMatchesHandledFace == Spec => []StateMatchesFace
<1>1. IInv => StateMatchesFace
  BY DEF IInv
<1> QED BY <1>1, EngineInvariant, PTL

\* A locked countdown is left by no face and prolonged by none.
LEMMA LockedSteps ==
  ASSUME IInv, Next PROVE LockedStep
<1> SUFFICES ASSUME state = "timer_locked"
             PROVE  /\ state' \in {"timer_locked", "api_triggering", "cooldown"}
                    /\ state' = "timer_locked" => left' <= left /\ activeDur' = activeDur
  BY DEF LockedStep
<1>0. left \in Nat /\ TypeOK /\ InitWindow
  BY DEF IInv, TypeOK
<1>1. CASE FinishBoot
  BY <1>0, <1>1 DEF FinishBoot, CreateTask, CreateTaskFails, FinishInit,
                    InitWindow, countdown
<1>2. CASE TurnCube \/ OnTick \/ OnCooldownDone \/ TriggerEnds
  BY <1>0, <1>2 DEF TurnCube, OnFaceEvent, OnTick, OnCooldownDone, TriggerEnds,
                    countdown
<1>3. CASE Pass
  BY <1>0, <1>3 DEF Pass
<1>4. ASSUME NEW f \in Faces, HandleFace(f)
      PROVE  state' = state /\ left' = left /\ activeDur' = activeDur
  BY <1>4 DEF HandleFace, FaceArms, FaceRests, FaceStarts, FacePauses,
              FaceResumes, FaceIgnored, Arms, Rests, Starts, Pauses, Resumes,
              countdown
<1>5. CASE HandleTick
  BY <1>0, <1>5 DEF HandleTick, TickStale, TickCounts, TickExpires,
                    TickExpiresNoTask, EnterCooldown, countdown, Counting
<1>6. CASE HandleCooldownDone \/ HandleTriggerDone
  BY <1>0, <1>6 DEF HandleCooldownDone, HandleTriggerDone, countdown
<1> QED
  BY <1>0, <1>1, <1>2, <1>3, <1>4, <1>5, <1>6 DEF Next, TimerTask

\* No face, stale event or stall lets the user out of a locked countdown.
THEOREM LockIsKept == Spec => LockHolds
<1>1. IInv /\ [Next]_vars => [LockedStep]_vars
  BY LockedSteps
<1> QED BY <1>1, EngineInvariant, PTL DEF Spec, LockHolds

\* A countdown expires only when its time was counted.
LEMMA ExpirySteps ==
  ASSUME IInv, Next PROVE ExpiryStep
<1> SUFFICES ASSUME state \in Counting, state' \notin Counting \cup {"paused"}
             PROVE  worked + shaved + 1 >= HalfSec * activeDur
  BY DEF ExpiryStep
<1>0. /\ left \in Nat /\ worked \in Nat /\ shaved \in Nat /\ activeDur \in Nat
      /\ worked + left + shaved = HalfSec * activeDur /\ InitWindow
  BY DEF IInv, TypeOK, TimeAccounted
<1>1. left <= 1
  <2>1. Remaining = 0 => left <= 1
    BY <1>0, RemainingFacts
  <2>2. CASE FinishBoot \/ TurnCube \/ OnTick \/ OnCooldownDone \/ TriggerEnds \/ Pass
    BY <1>0, <2>2 DEF FinishBoot, CreateTask, CreateTaskFails, FinishInit, TurnCube,
         OnFaceEvent, OnTick, OnCooldownDone, TriggerEnds, Pass, InitWindow, Counting
  <2>3. ASSUME NEW f \in Faces, HandleFace(f) PROVE FALSE
    BY <2>3 DEF HandleFace, FaceArms, FaceRests, FaceStarts, FacePauses,
         FaceResumes, FaceIgnored, Arms, Rests, StartCountdown, PauseCountdown,
         ResumeCountdown, CountingState, Counting
  <2>4. CASE HandleTick
    BY <2>1, <2>4 DEF HandleTick, TickStale, TickCounts, TickExpires,
         TickExpiresNoTask, Counting
  <2>5. CASE HandleCooldownDone \/ HandleTriggerDone
    BY <2>5 DEF HandleCooldownDone, HandleTriggerDone, Counting
  <2> QED BY <2>2, <2>3, <2>4, <2>5 DEF Next, TimerTask
<1> QED BY <1>0, <1>1 DEF HalfSec

\* A session is never cut short by more than the last half second and the
\* rounding of its pauses.
THEOREM SessionIsServed == Spec => ExpiresWhenServed
<1>1. IInv /\ [Next]_vars => [ExpiryStep]_vars
  BY ExpirySteps
<1> QED BY <1>1, EngineInvariant, PTL DEF Spec, ExpiresWhenServed

(***************************************************************************)
(* What comes on time (TimerEnginePrompt).  When nothing had to wait since *)
(* the start, a tick that is queued has just fired, and what is left is    *)
(* what was left at the tick before, less what the clock shows since.      *)
(***************************************************************************)
JustTicked == queue # <<>> /\ Head(queue).type = "tick"

\* What the limits of bf_timer_engine.c satisfy: 60 s, 5 s and whole minutes.
LongEnough == WarnSec >= 1 /\ LockSec >= 2 /\ \A f \in Faces : Duration[f] # 1

LockDue ==
    state = "timer_resettable" /\ ~ late =>
        left + tick >= HalfSec * (LockSec + 1) \/ JustTicked

WarnDue ==
    /\ warned => pulses = 1
    /\ ~ warned => pulses = 0
    /\ LongEnough /\ ~ late /\ ~ warned =>
          /\ state \in Counting => left + tick >= 4 \/ (JustTicked /\ left >= 2)
          /\ state = "paused" => paused >= 2

OnTimeInv == IInv /\ LockDue /\ WarnDue

LEMMA OnTimeInit == InitOnTime => OnTimeInv
BY InitHoldsInvariant DEF InitOnTime, Init, OnTimeInv, LockDue, WarnDue, Counting

\* What the steps below need of IInv.
LEMMA Clocked ==
  ASSUME IInv
  PROVE  /\ left \in Nat /\ paused \in Nat /\ warned \in BOOLEAN /\ tick \in -1..2
         /\ state \in Counting => tick \in 0..2
         /\ boot # "ready" => state \in {"boot", "idle_needs_arm", "armed"}
         /\ chains > 0 => state = "api_triggering"
         /\ cool => state = "cooldown"
         /\ Has(queue, "trigger_done") => state = "api_triggering"
         /\ Has(queue, "cooldown_done") => state = "cooldown"
<1>1. TypeOK /\ CountingIsTicked /\ InitWindow /\ OneChainOneCooldown
  BY DEF IInv
<1>2. tick \in -1..2 /\ (state \in Counting => tick \in 0..2)
  BY <1>1 DEF TypeOK, CountingIsTicked, Off, HalfSec
<1>3. chains \in Nat
  BY <1>1 DEF TypeOK
<1> QED BY <1>1, <1>2, <1>3 DEF TypeOK, InitWindow, OneChainOneCooldown, InQueue

\* The producers, the clock and the init.
LEMMA OthersOnTime ==
  ASSUME OnTimeInv, IInv',
         \/ (FinishBoot \/ OnCooldownDone \/ TriggerEnds) /\ UNCHANGED late
         \/ (TurnCube \/ OnTick \/ Pass) /\ late' = (late \/ Waiting)
  PROVE  OnTimeInv'
<1> USE DEF OnTimeInv
<1>0. LockSec \in Nat /\ (LongEnough' <=> LongEnough)
  BY LimitsAssumption DEF LongEnough
<1>1. CASE FinishBoot \/ OnCooldownDone \/ TriggerEnds
  <2>1. state' \notin Counting \cup {"paused"} /\ UNCHANGED <<pulses, warned>>
    BY <1>1, Clocked DEF FinishBoot, CreateTask, CreateTaskFails, FinishInit, OnCooldownDone,
                         TriggerEnds, Counting, countdown, history
  <2> QED BY <2>1 DEF LockDue, WarnDue, Counting
<1>2. CASE (TurnCube \/ OnTick \/ Pass) /\ late' = (late \/ Waiting)
  <2>1. UNCHANGED <<state, pulses, warned, paused>>
    BY <1>2 DEF TurnCube, OnFaceEvent, OnTick, Pass, countdown, history
  <2>2. ~ late' => ~ late /\ queue = <<>> /\ ~ JustTicked
    BY <1>2 DEF Waiting, JustTicked
  <2>3. CASE TurnCube
    <3>1. UNCHANGED <<left, tick>>
      BY <2>3 DEF TurnCube, OnFaceEvent, countdown, clocks
    <3> QED BY <2>1, <2>2, <3>1 DEF LockDue, WarnDue
  <2>4. CASE OnTick
    <3>1. left' = left /\ tick = 2
      BY <2>4 DEF OnTick, countdown, HalfSec
    <3>2. queue = <<>> => JustTicked'
      <4>1. queue = <<>> => queue' # <<>> /\ queue'[1] = TickEvt
        BY <2>4, Offered, EventFacts DEF OnTick, IInv
      <4>2. TickEvt.type = "tick"
        BY EventFacts
      <4> QED BY <4>1, <4>2 DEF JustTicked
    <3>3. left + tick >= 4 => left' >= 2
      BY <3>1, Clocked
    <3> QED BY <2>1, <2>2, <3>2, <3>3 DEF LockDue, WarnDue
  <2>5. CASE Pass
    <3>1. left' = (IF left > 0 THEN left - 1 ELSE 0) /\ tick < 2
          /\ (tick \in 0..2 => tick' = tick + 1)
      BY <2>5 DEF Pass, HalfSec, Off
    <3>2. ASSUME state \in Counting, NEW n \in Nat, n >= 2, left + tick >= n
          PROVE  left' + tick' >= n
      BY <3>1, <3>2, Clocked
    <3>3. HalfSec * (LockSec + 1) \in Nat /\ HalfSec * (LockSec + 1) >= 2
      BY <1>0 DEF HalfSec
    <3>4. LockDue'
      BY <2>1, <2>2, <3>2, <3>3 DEF LockDue, Counting
    <3>5. WarnDue'
      <4>1. state \in Counting /\ left + tick >= 4 => left' + tick' >= 4
        BY <3>2
      <4>2. (warned' => pulses' = 1) /\ (~ warned' => pulses' = 0)
        BY <2>1 DEF WarnDue
      <4>3. ASSUME LongEnough', ~ late', ~ warned'
            PROVE  /\ state' \in Counting => left' + tick' >= 4
                   /\ state' = "paused" => paused' >= 2
        <5>1. LongEnough /\ ~ late /\ ~ warned /\ ~ JustTicked
          BY <1>0, <2>1, <2>2, <4>3
        <5>2. /\ state \in Counting => left + tick >= 4
              /\ state = "paused" => paused >= 2
          BY <5>1 DEF WarnDue
        <5> QED BY <2>1, <4>1, <5>2
      <4> QED BY <4>2, <4>3 DEF WarnDue, Counting
    <3> QED BY <3>4, <3>5
  <2> QED BY <1>2, <2>3, <2>4, <2>5
<1> QED BY <1>1, <1>2

\* timer_task.
LEMMA TaskOnTime ==
  ASSUME OnTimeInv, IInv', TimerTask,
         late' = (late /\ ~ \E f \in Faces : FaceStarts(f))
  PROVE  OnTimeInv' /\ (LongEnough => WarnedStep)
<1> USE DEF OnTimeInv
<1>0. LockSec \in Nat /\ WarnSec \in Nat /\ (LongEnough' <=> LongEnough)
  BY LimitsAssumption DEF LongEnough
<1>1. ASSUME NEW f \in Faces, FaceStarts(f) PROVE LockDue' /\ WarnDue' /\ (LongEnough => WarnedStep)
  <2>1. /\ Duration[f] \in Nat /\ Duration[f] > 0
        /\ left' = HalfSec * Duration[f] /\ warned' = FALSE /\ pulses' = 0
        /\ state' = CountingState(Duration[f])
        /\ tick' = (IF tick = Off THEN 0 ELSE tick)
    BY <1>1, DurationAssumption DEF FaceStarts, Starts, StartCountdown, StartTick
  <2>2. tick' \in 0..2
    BY <2>1, Clocked DEF Off
  <2>3. state' \in Counting /\ (state' = "timer_resettable" => Duration[f] > LockSec)
    BY <1>0, <2>1 DEF CountingState, Counting
  <2>4. LockDue'
    BY <1>0, <2>1, <2>2, <2>3 DEF LockDue, HalfSec
  <2>5. LongEnough => left' + tick' >= 4
    BY <2>1, <2>2 DEF LongEnough, HalfSec
  <2>6. WarnDue'
    <3>1. state' # "paused"
      BY <2>3 DEF Counting
    <3> QED BY <1>0, <2>1, <2>5, <3>1 DEF WarnDue, Counting
  <2> QED BY <2>3, <2>4, <2>6 DEF WarnedStep, Counting
<1>2. ASSUME ~ \E f \in Faces : FaceStarts(f) PROVE LockDue' /\ WarnDue' /\ (LongEnough => WarnedStep)
  <2>0. (~ late' => ~ late) /\ (LongEnough' <=> LongEnough)
    BY <1>2 DEF LongEnough
  <2>1. ASSUME NEW f \in Faces, FacePauses(f) PROVE LockDue' /\ WarnDue' /\ (LongEnough => WarnedStep)
    <3>1. /\ state = "timer_resettable" /\ state' = "paused" /\ paused' = Remaining
          /\ UNCHANGED <<warned, pulses>> /\ ~ JustTicked
      BY <2>1 DEF FacePauses, TakeFace, Take, Pauses, PauseCountdown, JustTicked
    <3>2. LongEnough /\ ~ late => left >= 4
      BY <1>0, <3>1, Clocked DEF LockDue, LongEnough, HalfSec, Counting
    <3>3. left >= 4 => Remaining >= 2
      BY Clocked, RemainingFacts DEF HalfSec
    <3> QED BY <2>0, <3>1, <3>2, <3>3 DEF LockDue, WarnDue, WarnedStep, Counting
  <2>2. ASSUME NEW f \in Faces, FaceResumes(f) PROVE LockDue' /\ WarnDue' /\ (LongEnough => WarnedStep)
    <3>1. /\ state = "paused" /\ left' = HalfSec * paused /\ state' = CountingState(paused)
          /\ tick' = (IF tick = Off THEN 0 ELSE tick) /\ UNCHANGED <<warned, pulses>>
      BY <2>2 DEF FaceResumes, Resumes, ResumeCountdown, StartTick, history
    <3>2. tick' \in 0..2 /\ paused \in Nat
      BY <3>1, Clocked DEF Off
    <3>3. state' \in Counting /\ (state' = "timer_resettable" => paused > LockSec)
      BY <1>0, <3>1, <3>2 DEF CountingState, Counting
    <3>4. left' = 2 * paused
      BY <3>1 DEF HalfSec
    <3>5. /\ paused > LockSec => left' + tick' >= 2 * (LockSec + 1)
          /\ paused >= 2 => left' + tick' >= 4
      <4>1. \A t \in 0..2, p \in Nat, l \in Nat :
               /\ p > l => 2 * p + t >= 2 * (l + 1)
               /\ p >= 2 => 2 * p + t >= 4
        OBVIOUS
      <4> QED BY <1>0, <3>2, <3>4, <4>1
    <3>6. LockDue'
      BY <3>3, <3>5 DEF LockDue, HalfSec
    <3>7. WarnDue'
      <4>1. state' # "paused" /\ warned' = warned /\ pulses' = pulses
        BY <3>1, <3>3 DEF Counting
      <4>2. LongEnough' /\ ~ late' /\ ~ warned' => left' + tick' >= 4
        BY <1>0, <2>0, <3>1, <3>5, <4>1 DEF WarnDue
      <4> QED BY <4>1, <4>2 DEF WarnDue, Counting
    <3> QED BY <3>1, <3>6, <3>7 DEF WarnedStep, Counting
  <2>3. ASSUME NEW f \in Faces, FaceArms(f) \/ FaceRests(f) \/ FaceIgnored(f)
        PROVE  LockDue' /\ WarnDue' /\ (LongEnough => WarnedStep)
    <3>1. /\ UNCHANGED <<left, tick, paused, warned, pulses>> /\ ~ JustTicked
          /\ state' = state \/ state' \in {"armed", "idle_needs_arm"}
      BY <2>3 DEF FaceArms, FaceRests, FaceIgnored, TakeFace, Take, JustTicked,
                  countdown, history
    <3> QED BY <2>0, <3>1 DEF LockDue, WarnDue, WarnedStep, Counting
  <2>4. CASE TickStale
    <3>1. state \notin Counting /\ UNCHANGED <<state, paused, warned, pulses>>
      BY <2>4 DEF TickStale, countdown, history
    <3> QED BY <2>0, <3>1 DEF LockDue, WarnDue, WarnedStep, Counting
  <2>5. CASE TickCounts
    <3>1. /\ state \in Counting /\ (warned' <=> warned \/ Remaining <= WarnSec)
          /\ pulses' = (IF Remaining <= WarnSec /\ ~ warned THEN pulses + 1 ELSE pulses)
          /\ state' = (IF Remaining <= LockSec THEN "timer_locked" ELSE state)
          /\ UNCHANGED <<left, tick>>
      BY <2>5 DEF TickCounts, clocks
    <3>2. Remaining \in Nat /\ left >= HalfSec * Remaining /\ left \in Nat /\ tick \in 0..2
      BY <3>1, Clocked, RemainingFacts DEF HalfSec
    <3>3. LockDue'
      BY <1>0, <3>1, <3>2 DEF LockDue, HalfSec, Counting
    <3>4. (warned' => pulses' = 1) /\ (~ warned' => pulses' = 0)
      <4>1. (warned => pulses = 1) /\ (~ warned => pulses = 0)
        BY DEF WarnDue
      <4>2. CASE warned
        BY <3>1, <4>1, <4>2
      <4>3. CASE ~ warned
        BY <3>1, <4>1, <4>3
      <4> QED BY <4>2, <4>3
    <3>5. LongEnough /\ ~ warned' => left' + tick' >= 4
      <4>1. ~ warned' => Remaining > WarnSec
        BY <1>0, <3>1, <3>2
      <4>2. LongEnough => WarnSec >= 1
        BY DEF LongEnough
      <4>3. left' = left /\ tick' = tick /\ left >= 2 * Remaining
        BY <3>1, <3>2 DEF HalfSec
      <4> QED BY <1>0, <3>2, <4>1, <4>2, <4>3
    <3>6. state' \in {"timer_resettable", "timer_locked"}
      BY <3>1 DEF Counting
    <3>7. WarnDue'
      BY <1>0, <3>4, <3>5, <3>6 DEF WarnDue, Counting
    <3> QED BY <3>3, <3>6, <3>7 DEF WarnedStep
  <2>6. CASE TickExpires \/ TickExpiresNoTask
    <3>1. /\ state \in Counting /\ state' \in {"api_triggering", "cooldown"}
          /\ UNCHANGED <<warned, pulses>> /\ Remaining = 0
      BY <2>6 DEF TickExpires, TickExpiresNoTask, EnterCooldown, countdown, history
    <3>2. left <= 1 /\ left \in Nat /\ tick \in 0..2
      BY <3>1, Clocked, RemainingFacts
    <3>3. LongEnough /\ ~ late => warned
      BY <3>1, <3>2, Clocked DEF WarnDue
    <3> QED BY <2>0, <3>1, <3>3 DEF LockDue, WarnDue, WarnedStep, Counting
  <2>7. CASE HandleCooldownDone \/ HandleTriggerDone
    <3>1. state \in {"cooldown", "api_triggering"} /\ UNCHANGED <<warned, pulses>>
      BY <2>7, Taken, Clocked DEF HandleCooldownDone, HandleTriggerDone, EnterCooldown,
                                  IInv, countdown, history
    <3>2. state' \notin Counting \cup {"paused"}
      BY <2>7, <3>1 DEF HandleCooldownDone, HandleTriggerDone, EnterCooldown, Counting
    <3> QED BY <3>1, <3>2 DEF LockDue, WarnDue, WarnedStep, Counting
  <2> QED BY <1>2, <2>1, <2>2, <2>3, <2>4, <2>5, <2>6, <2>7
          DEF TimerTask, HandleFace, HandleTick
<1> QED BY <1>1, <1>2

\* Nothing that runs beside the engine ends a countdown.
LEMMA StepsOnTime ==
  ASSUME OnTimeInv, [NextWatched]_<<vars, late>>
  PROVE  OnTimeInv' /\ (LongEnough => [WarnedStep]_<<vars, late>>)
<1>0. IInv
  BY DEF OnTimeInv
<1>1. CASE UNCHANGED <<vars, late>>
  <2>1. IInv'
    BY <1>0, <1>1, StutterKeepsInvariant
  <2>2. LockDue' /\ WarnDue'
    BY <1>1 DEF OnTimeInv, LockDue, WarnDue, JustTicked, LongEnough, vars, countdown, clocks,
                history
  <2> QED BY <1>1, <2>1, <2>2 DEF OnTimeInv
<1>2. CASE TimerTask /\ late' = (late /\ ~ \E f \in Faces : FaceStarts(f))
  BY <1>0, <1>2, NextKeepsInvariant, TaskOnTime DEF Next
<1>3. CASE \/ (FinishBoot \/ OnCooldownDone \/ TriggerEnds) /\ UNCHANGED late
           \/ (TurnCube \/ OnTick \/ Pass) /\ late' = (late \/ Waiting)
  <2>1. OnTimeInv'
    BY <1>0, <1>3, NextKeepsInvariant, OthersOnTime DEF Next
  <2>2. state' = state \/ state' \notin {"api_triggering", "cooldown"}
    BY <1>3 DEF FinishBoot, CreateTask, CreateTaskFails, FinishInit, OnCooldownDone, TriggerEnds,
                TurnCube, OnFaceEvent, OnTick, Pass
  <2> QED BY <2>1, <2>2 DEF WarnedStep, Counting
<1> QED BY <1>1, <1>2, <1>3 DEF NextWatched

LEMMA AlwaysOnTime == WatchedSpec => []OnTimeInv
<1>1. InitOnTime => OnTimeInv
  BY OnTimeInit
<1>2. OnTimeInv /\ [NextWatched]_<<vars, late>> => OnTimeInv'
  BY StepsOnTime
<1> QED BY <1>1, <1>2, PTL DEF WatchedSpec

\* handle_tick, start_countdown and resume_countdown lock a countdown on time
\* unless a subscriber held the task up since it started.
THEOREM LockedInTime == WatchedSpec => []LocksInTime
<1>1. OnTimeInv => LocksInTime
  BY DEF OnTimeInv, LockDue, JustTicked, LocksInTime
<1> QED BY <1>1, AlwaysOnTime, PTL

\* A countdown that expires on time has warned exactly once, if none lasts a
\* single second and the lock begins two seconds before the end or sooner.
THEOREM WarnedOnce == LongEnough => (WatchedSpec => WarnedBeforeExpiry)
<1> SUFFICES ASSUME LongEnough PROVE WatchedSpec => WarnedBeforeExpiry
  OBVIOUS
<1>1. OnTimeInv /\ [NextWatched]_<<vars, late>> => [WarnedStep]_<<vars, late>>
  BY StepsOnTime
<1> QED BY <1>1, AlwaysOnTime, PTL DEF WatchedSpec, WarnedBeforeExpiry

(***************************************************************************)
(* The refinement: the engine implements the promise of FocusSession.      *)
(***************************************************************************)
Same == phaseBar' = phaseBar /\ goalBar' = goalBar /\ servedBar' = servedBar

\* The mapping depends on these variables only.
LEMMA SameIfUnchanged ==
  ASSUME UNCHANGED <<state, activeDur, worked, shaved>> PROVE Same
BY DEF Same, phaseBar, goalBar, servedBar, InSession, Counting

\* The initial states of the engine are initial states of the session.
LEMMA InitMaps == Init => Session!Init
BY DEF Init, Session!Init, phaseBar, goalBar, servedBar, InSession, Counting

\* The lengths a countdown is started with are lengths of sessions.
LEMMA GoalFacts ==
  ASSUME NEW f \in Faces, Duration[f] > 0
  PROVE  HalfSec * Duration[f] \in goalsBar
BY DEF goalsBar

\* What the session shows of the states the engine can be in.
LEMMA MapFacts ==
  ASSUME IInv
  PROVE  /\ activeDur \in Nat /\ left \in Nat /\ worked \in Nat /\ shaved \in Nat
         /\ paused \in Nat
         /\ state \in Counting =>
              /\ phaseBar \in {"running", "committed"}
              /\ goalBar = HalfSec * activeDur /\ servedBar = worked + shaved
              /\ servedBar + left = goalBar
         /\ state = "timer_resettable" <=> phaseBar = "running"
         /\ state = "timer_locked" <=> phaseBar = "committed"
         /\ state = "paused" <=> phaseBar = "suspended"
         /\ state = "paused" =>
              /\ goalBar = HalfSec * activeDur /\ servedBar = worked + shaved
              /\ servedBar + HalfSec * paused = goalBar
         /\ state \in {"api_triggering", "cooldown"} <=> phaseBar = "closing"
         /\ state \in {"boot", "idle_needs_arm", "armed", "cooldown_needs_face_chg"}
              <=> phaseBar = "free"
         /\ state \notin Counting \cup {"paused"} => goalBar = 0 /\ servedBar = 0
<1>1. state \in States
  BY DEF IInv, TypeOK
<1>2. /\ activeDur \in Nat /\ left \in Nat /\ worked \in Nat /\ shaved \in Nat
      /\ paused \in Nat
  BY DEF IInv, TypeOK
<1>3. /\ state \in Counting => servedBar + left = goalBar
      /\ state = "paused" => servedBar + HalfSec * paused = goalBar
  BY <1>2 DEF IInv, TimeAccounted, servedBar, goalBar, InSession, HalfSec
<1>4. state \in Counting \cup {"paused"} =>
        goalBar = HalfSec * activeDur /\ servedBar = worked + shaved
  BY DEF goalBar, servedBar, InSession
<1>5. state \notin Counting \cup {"paused"} => goalBar = 0 /\ servedBar = 0
  BY DEF goalBar, servedBar, InSession
<1>6. /\ state \in Counting => phaseBar \in {"running", "committed"}
      /\ state = "timer_resettable" <=> phaseBar = "running"
      /\ state = "timer_locked" <=> phaseBar = "committed"
      /\ state = "paused" <=> phaseBar = "suspended"
      /\ state \in {"api_triggering", "cooldown"} <=> phaseBar = "closing"
      /\ state \in {"boot", "idle_needs_arm", "armed", "cooldown_needs_face_chg"}
           <=> phaseBar = "free"
  BY <1>1 DEF phaseBar, States, Counting
<1> QED BY <1>2, <1>3, <1>4, <1>5, <1>6

\* Everything that does not touch the countdown leaves the session alone.
LEMMA QuietSteps ==
  ASSUME IInv, FinishBoot \/ TurnCube \/ OnTick \/ OnCooldownDone \/ TriggerEnds
  PROVE  Same
<1>1. CASE CreateTask \/ CreateTaskFails \/ TurnCube \/ OnTick \/ OnCooldownDone
           \/ TriggerEnds
  BY <1>1, SameIfUnchanged
     DEF CreateTask, CreateTaskFails, TurnCube, OnFaceEvent, OnTick,
         OnCooldownDone, TriggerEnds, countdown, history
<1>2. CASE FinishInit
  BY <1>2 DEF IInv, InitWindow, FinishInit, Same, phaseBar, goalBar, servedBar,
              InSession, Counting
<1> QED BY <1>1, <1>2 DEF FinishBoot

\* Time serves the session.
LEMMA PassServes ==
  ASSUME IInv, IInv', Pass PROVE Session!Serve \/ Same
<1>1. CASE left > 0 /\ state \in Counting
  <2>1. /\ worked' = worked + 1 /\ state' = state /\ activeDur' = activeDur
        /\ shaved' = shaved
    BY <1>1 DEF Pass
  <2>2. /\ servedBar' = servedBar + 1 /\ goalBar' = goalBar /\ phaseBar' = phaseBar
        /\ servedBar < goalBar /\ phaseBar \in {"running", "committed"}
    BY <1>1, <2>1, MapFacts DEF servedBar, goalBar, phaseBar, InSession, Counting
  <2> QED BY <2>2 DEF Session!Serve, Session!Active
<1>2. CASE ~ (left > 0 /\ state \in Counting)
  BY <1>2, SameIfUnchanged DEF Pass
<1> QED BY <1>1, <1>2

\* A face starts, suspends or resumes the session, or leaves it alone.
LEMMA FaceMaps ==
  ASSUME IInv, IInv', NEW f \in Faces, HandleFace(f)
  PROVE  Session!Begin \/ Session!Suspend \/ Session!Resume \/ Same
<1>1. CASE FaceArms(f) \/ FaceRests(f) \/ FaceIgnored(f)
  <2>1. CASE FaceIgnored(f)
    BY <2>1, SameIfUnchanged DEF FaceIgnored, countdown, history
  <2>2. CASE FaceArms(f) \/ FaceRests(f)
    BY <2>2 DEF FaceArms, FaceRests, Arms, Rests, Same, phaseBar, goalBar,
                servedBar, InSession, Counting
  <2> QED BY <1>1, <2>1, <2>2
<1>2. CASE FaceStarts(f)
  <2>1. /\ Duration[f] > 0 /\ activeDur' = Duration[f] /\ worked' = 0 /\ shaved' = 0
        /\ state' \in Counting
        /\ state \in {"armed", "timer_resettable", "paused", "cooldown_needs_face_chg"}
    BY <1>2 DEF FaceStarts, Starts, StartCountdown, CountingState, Counting
  <2>2. phaseBar \in {"free", "running", "suspended"}
    BY <2>1 DEF phaseBar
  <2>3. phaseBar' \in {"running", "committed"}
    BY <2>1 DEF phaseBar, Counting
  <2>4. goalBar' \in goalsBar /\ servedBar' = 0
    BY <2>1, GoalFacts DEF goalBar, servedBar, InSession
  <2> QED BY <2>2, <2>3, <2>4 DEF Session!Begin, Session!Active
<1>3. CASE FacePauses(f)
  <2>1. /\ state = "timer_resettable" /\ state' = "paused"
        /\ activeDur' = activeDur /\ worked' = worked
        /\ shaved' = shaved + left - HalfSec * Remaining
    BY <1>3 DEF FacePauses, Pauses, PauseCountdown
  <2>2. left \in Nat /\ left - HalfSec * Remaining \in {0, 1} /\ Remaining \in Nat
    BY RemainingFacts DEF IInv, TypeOK
  <2>3. servedBar' \in {servedBar, servedBar + 1} /\ goalBar' = goalBar
    BY <2>1, <2>2, MapFacts DEF servedBar, goalBar, InSession, Counting, HalfSec
  <2>4. servedBar' <= goalBar /\ phaseBar = "running" /\ phaseBar' = "suspended"
    <3>1. servedBar + left = goalBar /\ servedBar' = servedBar + (left - HalfSec * Remaining)
      BY <2>1, <2>2, MapFacts DEF servedBar, goalBar, InSession, Counting, HalfSec
    <3>2. left - HalfSec * Remaining <= left /\ servedBar \in Nat
      BY <2>1, <2>2, MapFacts DEF HalfSec, Counting
    <3> QED BY <2>1, <2>2, <3>1, <3>2 DEF phaseBar, HalfSec
  <2> QED BY <2>3, <2>4 DEF Session!Suspend
<1>4. CASE FaceResumes(f)
  <2>1. /\ state = "paused" /\ state' \in Counting /\ paused > 0
        /\ activeDur' = activeDur /\ worked' = worked /\ shaved' = shaved
    BY <1>4 DEF FaceResumes, Resumes, ResumeCountdown, CountingState, Counting, history
  <2>2. /\ servedBar' = servedBar /\ goalBar' = goalBar
        /\ phaseBar = "suspended" /\ phaseBar' \in {"running", "committed"}
    BY <2>1 DEF servedBar, goalBar, phaseBar, InSession, Counting
  <2>3. servedBar < goalBar
    BY <2>1, MapFacts DEF HalfSec
  <2> QED BY <2>2, <2>3 DEF Session!Resume, Session!Active
<1> QED BY <1>1, <1>2, <1>3, <1>4 DEF HandleFace

\* A tick commits or completes the session, or leaves it alone.
LEMMA TickMaps ==
  ASSUME IInv, IInv', HandleTick
  PROVE  Session!Commit \/ Session!Complete \/ Same
<1>1. CASE TickStale
  BY <1>1, SameIfUnchanged DEF TickStale, countdown, history
<1>2. CASE TickCounts
  <2>1. CASE state = "timer_resettable" /\ state' = "timer_locked"
    BY <1>2, <2>1 DEF TickCounts, Session!Commit, phaseBar, goalBar, servedBar,
                      InSession, Counting
  <2>2. CASE ~ (state = "timer_resettable" /\ state' = "timer_locked")
    BY <1>2, <2>2, SameIfUnchanged DEF TickCounts, Counting
  <2> QED BY <2>1, <2>2
<1>3. CASE TickExpires \/ TickExpiresNoTask
  <2>1. state \in Counting /\ Remaining = 0 /\ state' \in {"api_triggering", "cooldown"}
    BY <1>3 DEF TickExpires, TickExpiresNoTask, EnterCooldown
  <2>2. left <= 1
    BY <2>1, RemainingFacts DEF IInv, TypeOK
  <2>3. servedBar + 1 >= goalBar /\ phaseBar \in {"running", "committed"}
    BY <2>1, <2>2, MapFacts
  <2>4. phaseBar' = "closing" /\ goalBar' = 0 /\ servedBar' = 0
    BY <2>1 DEF phaseBar, goalBar, servedBar, InSession, Counting
  <2> QED BY <2>3, <2>4 DEF Session!Complete, Session!Active
<1> QED BY <1>1, <1>2, <1>3 DEF HandleTick

\* The end of the chain keeps the session closing, the end of the cooldown
\* releases it.
LEMMA DoneMaps ==
  ASSUME IInv, IInv', HandleCooldownDone \/ HandleTriggerDone
  PROVE  Session!Release \/ Same
<1>1. CASE HandleCooldownDone
  <2>1. CASE state = "cooldown"
    BY <1>1, <2>1 DEF HandleCooldownDone, Session!Release, phaseBar, goalBar,
                      servedBar, InSession, Counting
  <2>2. CASE state # "cooldown"
    BY <1>1, <2>2, SameIfUnchanged DEF HandleCooldownDone, countdown, history
  <2> QED BY <2>1, <2>2
<1>2. CASE HandleTriggerDone
  <2>1. CASE state = "api_triggering"
    BY <1>2, <2>1 DEF HandleTriggerDone, EnterCooldown, Same, phaseBar, goalBar,
                      servedBar, InSession, Counting
  <2>2. CASE state # "api_triggering"
    BY <1>2, <2>2, SameIfUnchanged DEF HandleTriggerDone, countdown, history
  <2> QED BY <2>1, <2>2
<1> QED BY <1>1, <1>2

\* Every step of the engine is a step of the session or leaves it alone.
LEMMA NextMaps ==
  ASSUME IInv, IInv', [Next]_vars PROVE [Session!Next]_(Session!vars)
<1>1. CASE UNCHANGED vars
  BY <1>1, SameIfUnchanged DEF vars, countdown, history, Same, Session!vars
<1>2. CASE FinishBoot \/ TurnCube \/ OnTick \/ OnCooldownDone \/ TriggerEnds
  BY <1>2, QuietSteps DEF Same, Session!vars
<1>3. CASE Pass
  BY <1>3, PassServes DEF Same, Session!vars, Session!Next
<1>4. ASSUME NEW f \in Faces, HandleFace(f) PROVE [Session!Next]_(Session!vars)
  BY <1>4, FaceMaps DEF Same, Session!vars, Session!Next
<1>5. CASE HandleTick
  BY <1>5, TickMaps DEF Same, Session!vars, Session!Next
<1>6. CASE HandleCooldownDone \/ HandleTriggerDone
  BY <1>6, DoneMaps DEF Same, Session!vars, Session!Next
<1> QED
  BY <1>1, <1>2, <1>3, <1>4, <1>5, <1>6 DEF Next, TimerTask

\* The engine keeps the promise of FocusSession (its safety part).
THEOREM EngineImplementsSession == Spec => ImplementsFocusSession
<1>1. Init => Session!Init
  BY InitMaps
<1>2. IInv /\ IInv' /\ [Next]_vars => [Session!Next]_(Session!vars)
  BY NextMaps
<1> QED
  BY <1>1, <1>2, EngineInvariant, PTL
     DEF Spec, ImplementsFocusSession, Session!Spec
=============================================================================
