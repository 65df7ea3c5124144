---------------------------- MODULE CubeWakeProofs ----------------------------
(***************************************************************************)
(* Proofs about the detector and the power task together, for all periods  *)
(* and limits, every length of the queue and every pace of the events.     *)
(*                                                                         *)
(* The argument: what is pending is what the last samples showed, and it   *)
(* is no older than they are; the last face and the last timer event that  *)
(* wait say what was heard last, so that with none waiting the task knows  *)
(* it; the state is always the decision on what the task knows; and both   *)
(* tasks come back within their period, so what a sample or a decision saw *)
(* is at most that old.                                                    *)
(***************************************************************************)
EXTENDS CubeWake, SequenceTheorems, TLAPS

(***************************************************************************)
(* The detector.                                                           *)
(***************************************************************************)
FaceTypes ==
    /\ {cube, face, pending, last} \subseteq Faces
    /\ age \in 0 .. OldAge /\ streak \in 0 .. OldAge

\* What is pending has been seen in every sample since it is.
SeenSince == pending # None => last = pending /\ age <= streak

FaceInv == FaceTypes /\ SeenSince

LEMMA OldAgeNat == OldAge \in Nat
BY LimitsAssumption, PeriodAssumption DEF OldAge, Latency

LEMMA OlderKeepsOrder ==
    ASSUME NEW a \in 0 .. OldAge, NEW b \in 0 .. OldAge, a <= b
    PROVE  Older(a) \in 0 .. OldAge /\ Older(b) \in 0 .. OldAge /\ Older(a) <= Older(b)
BY OldAgeNat DEF Older, NoAge

LEMMA FaceInitInv == FaceInit => FaceInv
BY FacesAssumption, OldAgeNat DEF FaceInit, FaceInv, FaceTypes, SeenSince

\* A face is committed when the samples of a whole debounce showed it.
LEMMA PollKeeps ==
    ASSUME FaceInv, Poll
    PROVE  /\ FaceInv'
           /\ face' # face => last = face' /\ streak >= Debounce
<1> USE DEF FaceInv
<1>1. /\ Settled \/ Begins \/ Waits \/ Commits
      /\ last' = cube /\ streak' = (IF cube = last THEN streak ELSE 0) /\ cube' = cube
  BY DEF Poll
<1>2. None \in Faces /\ 0 \in 0 .. OldAge
  BY FacesAssumption, OldAgeNat
<1>3. FaceTypes'
  BY <1>1, <1>2 DEF FaceTypes, Settled, Begins, Waits, Commits
<1>4. SeenSince'
  BY <1>1, OldAgeNat DEF FaceTypes, SeenSince, Settled, Begins, Waits, Commits
<1>5. face' # face => last = face' /\ streak >= Debounce
  <2> SUFFICES ASSUME face' # face PROVE last = face' /\ streak >= Debounce
    OBVIOUS
  <2>1. Commits
    BY <1>1 DEF Settled, Begins, Waits
  <2>2. cube = pending /\ cube # None /\ face' = cube /\ age >= Debounce
    BY <2>1 DEF Commits
  <2> QED BY <2>2, LimitsAssumption, OldAgeNat DEF FaceTypes, SeenSince
<1> QED BY <1>3, <1>4, <1>5

LEMMA FaceRestKeeps ==
    ASSUME FaceInv, \/ PollFails \/ Turn \/ FacePass
                    \/ (\E s : OnPowerState(s)) \/ UNCHANGED faceVars
    PROVE  FaceInv' /\ face' = face
<1> USE DEF FaceInv
<1>1. CASE PollFails \/ Turn \/ (\E s : OnPowerState(s)) \/ UNCHANGED faceVars
  BY <1>1 DEF PollFails, Turn, OnPowerState, faceVars, detector, FaceTypes, SeenSince
<1>2. CASE FacePass
  <2>1. /\ UNCHANGED <<cube, face, pending, last>>
        /\ age' = (IF pending = None THEN 0 ELSE Older(age)) /\ streak' = Older(streak)
    BY <1>2 DEF FacePass
  <2>2. Older(age) \in 0 .. OldAge /\ Older(streak) \in 0 .. OldAge /\ 0 \in 0 .. OldAge
    BY OlderKeepsOrder, OldAgeNat DEF FaceTypes
  <2>3. pending # None => Older(age) <= Older(streak)
    BY OlderKeepsOrder DEF FaceTypes, SeenSince
  <2> QED BY <2>1, <2>2, <2>3 DEF FaceTypes, SeenSince
<1> QED BY <1>1, <1>2

(***************************************************************************)
(* What waits in the queue, for one type of event: whatever says something *)
(* else than what was heard last, or is known to be something else, has an *)
(* event behind it that says what was heard last.                          *)
(***************************************************************************)
Says(e, type, on) == e.type = type /\ e.on = on

Tells(q, type, known, heard) ==
    /\ \A i \in 1 .. Len(q) :
          q[i].type = type /\ q[i].on # heard
             => \E j \in 1 .. Len(q) : j > i /\ Says(q[j], type, heard)
    /\ known # heard => \E j \in 1 .. Len(q) : Says(q[j], type, heard)

OnlyTicks(q) == \A i \in 1 .. Len(q) : q[i].type = "tick"

LEMMA AppendTells ==
    ASSUME NEW q \in Seq(Events), NEW e \in Events, NEW type, NEW known, NEW heard,
           Tells(q, type, known, heard)
    PROVE  Tells(Append(q, e), type, known, IF e.type = type THEN e.on ELSE heard)
<1> DEFINE r == Append(q, e)
<1>1. /\ Len(r) = Len(q) + 1 /\ Len(q) \in Nat /\ r[Len(q) + 1] = e
      /\ \A i \in 1 .. Len(q) : r[i] = q[i] /\ i \in 1 .. Len(r) /\ Len(q) + 1 > i
      /\ \A i \in 1 .. Len(r) : i \in 1 .. Len(q) \/ i = Len(q) + 1
      /\ Len(q) + 1 \in 1 .. Len(r)
  OBVIOUS
<1> HIDE DEF r
<1>2. CASE e.type = type
  BY <1>1, <1>2 DEF Tells, Says, r
<1>3. CASE e.type # type
  BY <1>1, <1>3 DEF Tells, Says, r
<1> QED BY <1>2, <1>3

LEMMA TailTells ==
    ASSUME NEW q \in Seq(Events), q # <<>>, NEW type, NEW known, NEW heard,
           Tells(q, type, known, heard)
    PROVE  Tells(Tail(q), type, IF Head(q).type = type THEN Head(q).on ELSE known, heard)
<1> DEFINE r == Tail(q)
<1>1. /\ Len(r) = Len(q) - 1 /\ Len(q) \in Nat /\ Len(q) > 0
      /\ Head(q) = q[1] /\ 1 \in 1 .. Len(q)
      /\ \A i \in 1 .. Len(r) : r[i] = q[i + 1] /\ i + 1 \in 1 .. Len(q)
      /\ \A j \in 1 .. Len(q) : j = 1 \/ (j > 1 /\ j - 1 \in 1 .. Len(r) /\ r[j - 1] = q[j])
  OBVIOUS
<1> HIDE DEF r
<1>2. ASSUME NEW i \in 1 .. Len(r), r[i].type = type, r[i].on # heard
      PROVE  \E j \in 1 .. Len(r) : j > i /\ Says(r[j], type, heard)
  <2>1. PICK j \in 1 .. Len(q) : j > i + 1 /\ Says(q[j], type, heard)
    BY <1>1, <1>2 DEF Tells
  <2>2. j - 1 \in 1 .. Len(r) /\ j - 1 > i /\ r[j - 1] = q[j]
    BY <1>1, <2>1
  <2> QED BY <2>1, <2>2
<1>3. ASSUME (IF Head(q).type = type THEN Head(q).on ELSE known) # heard
      PROVE  \E j \in 1 .. Len(r) : Says(r[j], type, heard)
  <2>1. PICK j \in 1 .. Len(q) : j > 1 /\ Says(q[j], type, heard)
    <3>1. CASE Head(q).type = type
      BY <1>1, <1>3, <3>1 DEF Tells
    <3>2. CASE Head(q).type # type
      <4>1. PICK k \in 1 .. Len(q) : Says(q[k], type, heard)
        BY <1>3, <3>2 DEF Tells
      <4> QED BY <1>1, <3>2, <4>1 DEF Says
    <3> QED BY <3>1, <3>2
  <2>2. j - 1 \in 1 .. Len(r) /\ r[j - 1] = q[j]
    BY <1>1, <2>1
  <2> QED BY <2>1, <2>2
<1> QED BY <1>2, <1>3 DEF Tells, r

LEMMA TicksFacts ==
    ASSUME NEW q \in Seq(Events)
    PROVE  /\ \A e \in Events : OnlyTicks(Append(q, e)) => OnlyTicks(q) /\ e.type = "tick"
           /\ q # <<>> /\ Head(q).type = "tick" /\ OnlyTicks(Tail(q)) => OnlyTicks(q)
<1>1. ASSUME NEW e \in Events, OnlyTicks(Append(q, e)) PROVE OnlyTicks(q) /\ e.type = "tick"
  <2>1. /\ Len(Append(q, e)) = Len(q) + 1 /\ Len(q) \in Nat /\ Append(q, e)[Len(q) + 1] = e
        /\ \A i \in 1 .. Len(q) : Append(q, e)[i] = q[i]
    OBVIOUS
  <2>2. Len(q) + 1 \in 1 .. Len(Append(q, e))
        /\ \A i \in 1 .. Len(q) : i \in 1 .. Len(Append(q, e))
    BY <2>1
  <2> QED BY <1>1, <2>1, <2>2 DEF OnlyTicks
<1>2. ASSUME q # <<>>, Head(q).type = "tick", OnlyTicks(Tail(q)) PROVE OnlyTicks(q)
  <2>1. /\ Len(Tail(q)) = Len(q) - 1 /\ Len(q) \in Nat /\ Head(q) = q[1]
        /\ \A i \in 1 .. Len(Tail(q)) : Tail(q)[i] = q[i + 1]
    BY <1>2
  <2> SUFFICES ASSUME NEW j \in 1 .. Len(q) PROVE q[j].type = "tick"
    BY DEF OnlyTicks
  <2>2. CASE j = 1
    BY <1>2, <2>1, <2>2
  <2>3. CASE j > 1
    <3>1. j - 1 \in 1 .. Len(Tail(q)) /\ Tail(q)[j - 1] = q[j]
      BY <2>1, <2>3
    <3> QED BY <1>2, <3>1 DEF OnlyTicks
  <2> QED BY <2>2, <2>3
<1> QED BY <1>1, <1>2

(***************************************************************************)
(* The power task.                                                         *)
(***************************************************************************)
Uses == [running : BOOLEAN, down : BOOLEAN, touched : Nat, counted : Nat]

PowerTypes ==
    /\ state \in Awake \cup Dark /\ idle \in Nat /\ quiet \in Nat
    /\ running \in BOOLEAN /\ down \in BOOLEAN
    /\ queue \in Seq(Events) /\ use \in Uses
    /\ init \in {"spawned", "panel", "lock", "up"}

HeardLast == /\ Tells(queue, "face", down, use.down)
             /\ Tells(queue, "timer", running, use.running)

\* The state is the decision on what the task knows.
Decided ==
    /\ down => state = "screen_off"
    /\ ~ down /\ running => state = "active_timer"
    /\ OnlyTicks(queue) => /\ idle <= use.touched
                           /\ state = "screen_off" => down \/ use.touched >= ScreenOff

PowerInv == PowerTypes /\ HeardLast /\ Decided

LEMMA Times == /\ ScreenOff \in Nat /\ ScreenOff > 0 /\ LowPower \in Nat
               /\ CheckPeriod \in Nat /\ CheckPeriod > 0
BY TimeAssumption

LEMMA AgedKeepsOrder ==
    ASSUME NEW a \in Nat, NEW b \in Nat, a <= b
    PROVE  Aged(a) \in Nat /\ Aged(b) \in Nat /\ Aged(a) <= Aged(b) /\ a <= Aged(a)
BY Times DEF Aged

LEMMA EventFacts ==
    /\ \A b \in BOOLEAN : /\ TimerEvt(b) \in Events /\ FaceEvt(b) \in Events
    /\ KickEvt \in Events /\ TickEvt \in Events /\ TickEvt.type = "tick"
BY DEF Events, TimerEvt, FaceEvt, KickEvt, TickEvt

LEMMA PowerInitInv == PowerInit => PowerInv
<1> SUFFICES ASSUME PowerInit PROVE PowerInv
  OBVIOUS
<1> DEFINE fresh == [running |-> FALSE, down |-> FALSE, touched |-> 0, counted |-> 0]
<1>0. use = fresh /\ ~ fresh.running /\ ~ fresh.down /\ fresh \in Uses
      /\ queue = <<>> /\ Len(queue) = 0 /\ queue \in Seq(Events)
  BY DEF PowerInit, Uses
<1>1. PowerTypes
  BY <1>0 DEF PowerInit, PowerTypes, Awake
<1>2. HeardLast
  <2>1. down = FALSE /\ running = FALSE
    BY DEF PowerInit
  <2>2. use.down = FALSE /\ use.running = FALSE
    BY <1>0
  <2>3. \A i \in 1 .. Len(queue) : FALSE
    BY <1>0
  <2>4. Tells(queue, "face", FALSE, FALSE) /\ Tells(queue, "timer", FALSE, FALSE)
    BY <2>3 DEF Tells
  <2> QED BY <2>1, <2>2, <2>4 DEF HeardLast
<1>3. Decided
  BY DEF PowerInit, Decided
<1> QED BY <1>1, <1>2, <1>3 DEF PowerInv

LEMMA PowerStutters == PowerInv /\ UNCHANGED powerVars => PowerInv'
BY DEF PowerInv, powerVars, ladder, outputs, PowerTypes, HeardLast, Tells, Says, Decided, OnlyTicks

(***************************************************************************)
(* The end of the init changes what is put out, not what is known.         *)
(***************************************************************************)
LEMMA StartKeeps == PowerInv /\ (ReadsState \/ WakesPanel \/ TakesLock) => PowerInv'
<1> SUFFICES ASSUME PowerInv, ReadsState \/ WakesPanel \/ TakesLock PROVE PowerInv'
  OBVIOUS
<1> USE DEF PowerInv
<1>1. UNCHANGED <<state, idle, quiet, running, down, queue, check, use>>
  BY DEF ReadsState, WakesPanel, TakesLock
<1>2. PowerTypes'
  BY <1>1 DEF PowerTypes, ReadsState, WakesPanel, TakesLock
<1>3. HeardLast' /\ Decided'
  BY <1>1 DEF HeardLast, Tells, Says, Decided, OnlyTicks
<1> QED BY <1>2, <1>3

(***************************************************************************)
(* An event is queued, or dropped.                                         *)
(***************************************************************************)
LEMMA AcceptKeeps ==
    ASSUME PowerInv, NEW e \in Events, Accept(e), UNCHANGED <<ladder, init>>
    PROVE  PowerInv'
<1> USE DEF PowerInv
<1>1. /\ queue' = Append(queue, e)
      /\ UNCHANGED <<state, idle, quiet, running, down, panel, held, init>>
  BY DEF Accept, ladder, outputs
<1>2. /\ use' \in Uses
      /\ use'.running = (IF e.type = "timer" THEN e.on ELSE use.running)
      /\ use'.down = (IF e.type = "face" THEN e.on ELSE use.down)
      /\ e.type = "tick" => use'.touched = use.touched
  BY DEF Accept, Heard, PowerTypes, Uses, Events
<1>3. PowerTypes'
  BY <1>1, <1>2 DEF PowerTypes
<1>4. HeardLast'
  BY <1>1, <1>2, AppendTells DEF HeardLast, PowerTypes
<1>5. Decided'
  BY <1>1, <1>2, TicksFacts DEF Decided, PowerTypes
<1> QED BY <1>3, <1>4, <1>5

LEMMA SendKeeps ==
    ASSUME PowerInv, NEW e \in Events, Send(e)
    PROVE  PowerInv'
<1>1. CASE Accept(e)
  BY <1>1, AcceptKeeps DEF Send
<1>2. CASE Drop
  BY <1>2, PowerStutters DEF Send, Drop, powerVars
<1> QED BY <1>1, <1>2 DEF Send

LEMMA OnTickKeeps == PowerInv /\ OnTick => PowerInv'
<1> SUFFICES ASSUME PowerInv, OnTick PROVE PowerInv'
  OBVIOUS
<1>1. CASE Accept(TickEvt)
  BY <1>1, AcceptKeeps, EventFacts DEF OnTick
<1>2. CASE Drop
  BY <1>2 DEF OnTick, Drop, ladder, outputs, PowerInv, PowerTypes,
     HeardLast, Tells, Says, Decided, OnlyTicks
<1> QED BY <1>1, <1>2 DEF OnTick

(***************************************************************************)
(* The task takes an event.                                                *)
(***************************************************************************)
\* What a decision is: from the flags, and dark for the time only after ScreenOff.
LEMMA RecomputeFacts ==
    ASSUME NEW d \in BOOLEAN, NEW r \in BOOLEAN, NEW i \in Nat, NEW q \in Nat,
           Recompute(d, r, i, q)
    PROVE  /\ down' = d /\ running' = r
           /\ idle' = (IF r /\ ~ d THEN 0 ELSE i) /\ quiet' = (IF r /\ ~ d THEN 0 ELSE q)
           /\ state' \in Awake \cup Dark
           /\ d => state' = "screen_off"
           /\ ~ d /\ r => state' = "active_timer"
           /\ state' = "screen_off" => d \/ i >= ScreenOff
           /\ state' \in Awake => idle' < ScreenOff
           /\ state' # "low_power" /\ ~ d => quiet' < LowPower
           /\ state' = "low_power" => quiet' >= LowPower
<1>1. /\ down' = d /\ running' = r
      /\ idle' = (IF r /\ ~ d THEN 0 ELSE i) /\ quiet' = (IF r /\ ~ d THEN 0 ELSE q)
      /\ state' = Decide(d, r, i, q)
  BY DEF Recompute, Enter
<1>2. \/ d /\ Decide(d, r, i, q) = "screen_off"
      \/ ~ d /\ r /\ Decide(d, r, i, q) = "active_timer"
      \/ ~ d /\ ~ r /\ q >= LowPower /\ Decide(d, r, i, q) = "low_power"
      \/ ~ d /\ ~ r /\ q < LowPower /\ i >= ScreenOff /\ Decide(d, r, i, q) = "screen_off"
      \/ ~ d /\ ~ r /\ q < LowPower /\ i < ScreenOff /\ Decide(d, r, i, q) = "active_idle"
  BY Times DEF Decide
<1>3. LowPower > 0
  BY TimeAssumption
<1> QED BY <1>1, <1>2, <1>3, Times DEF Awake, Dark

\* A step that takes an event and decides on d and r keeps the invariant, if d and
\* r are what the event says or else what was known, and all but a check is use.
LEMMA TakeKeeps ==
    ASSUME PowerInv, NEW type, Takes(type),
           NEW d \in BOOLEAN, NEW r \in BOOLEAN, NEW i \in Nat, NEW q \in Nat,
           Recompute(d, r, i, q),
           d = (IF type = "face" THEN Head(queue).on ELSE down),
           r = (IF type = "timer" THEN Head(queue).on ELSE running),
           i = (IF type = "tick" THEN idle ELSE 0)
    PROVE  PowerInv'
<1> USE DEF PowerInv
<1>1. /\ queue # <<>> /\ Head(queue).type = type /\ queue' = Tail(queue)
      /\ UNCHANGED <<check, init, use>>
  BY DEF Takes
<1>2. /\ down' = d /\ running' = r
      /\ idle' \in Nat /\ quiet' \in Nat /\ idle' <= i
      /\ state' \in Awake \cup Dark
      /\ d => state' = "screen_off"
      /\ ~ d /\ r => state' = "active_timer"
      /\ state' = "screen_off" => d \/ i >= ScreenOff
  <2>1. 0 \in Nat /\ 0 <= i
    OBVIOUS
  <2> QED BY <2>1, RecomputeFacts
<1>3. Tail(queue) \in Seq(Events)
  BY <1>1 DEF PowerTypes
<1>4. PowerTypes'
  BY <1>1, <1>2, <1>3 DEF PowerTypes
<1>5. HeardLast'
  <2>1. Tells(Tail(queue), "face", IF Head(queue).type = "face" THEN Head(queue).on ELSE down,
              use.down)
    BY <1>1, TailTells DEF HeardLast, PowerTypes
  <2>2. Tells(Tail(queue), "timer", IF Head(queue).type = "timer" THEN Head(queue).on ELSE running,
              use.running)
    BY <1>1, TailTells DEF HeardLast, PowerTypes
  <2> QED BY <1>1, <1>2, <2>1, <2>2 DEF HeardLast
<1>6. Decided'
  <2>1. ASSUME OnlyTicks(Tail(queue))
        PROVE  idle' <= use.touched /\ (state' = "screen_off" => d \/ use.touched >= ScreenOff)
    <3>1. use.touched \in Nat
      BY DEF PowerTypes, Uses
    <3>2. CASE type = "tick"
      <4>1. idle <= use.touched /\ idle \in Nat
        BY <1>1, <2>1, <3>2, TicksFacts DEF Decided, PowerTypes
      <4> QED BY <1>2, <3>1, <3>2, <4>1, Times
    <3>3. CASE type # "tick"
      BY <1>2, <3>1, <3>3, Times
    <3> QED BY <3>2, <3>3
  <2> QED BY <1>1, <1>2, <2>1 DEF Decided
<1> QED BY <1>4, <1>5, <1>6

LEMMA TaskKeeps == PowerInv /\ PowerTask => PowerInv'
<1> SUFFICES ASSUME PowerInv, PowerTask PROVE PowerInv'
  OBVIOUS
<1>1. /\ down \in BOOLEAN /\ running \in BOOLEAN /\ idle \in Nat /\ quiet \in Nat /\ 0 \in Nat
      /\ queue # <<>> => Head(queue).on \in BOOLEAN
  <2>1. queue \in Seq(Events)
    BY DEF PowerInv, PowerTypes
  <2>2. queue # <<>> => Head(queue) \in Events
    BY <2>1
  <2> QED BY <2>2 DEF PowerInv, PowerTypes, Events
<1>2. CASE HandleTimer
  <2>1. Takes("timer") /\ queue # <<>>
    BY <1>2 DEF HandleTimer, Takes
  <2>2. Recompute(down, Head(queue).on, 0, IF Head(queue).on THEN 0 ELSE quiet)
    BY <1>2 DEF HandleTimer
  <2>3. (IF Head(queue).on THEN 0 ELSE quiet) \in Nat
    BY <1>1
  <2> QED BY <1>1, <2>1, <2>2, <2>3, TakeKeeps
<1>3. CASE HandleFace
  <2>1. Takes("face") /\ queue # <<>>
    BY <1>3 DEF HandleFace, Takes
  <2>2. Recompute(Head(queue).on, running, 0, IF Head(queue).on THEN quiet ELSE 0)
    BY <1>3 DEF HandleFace
  <2>3. (IF Head(queue).on THEN quiet ELSE 0) \in Nat
    BY <1>1
  <2> QED BY <1>1, <2>1, <2>2, <2>3, TakeKeeps
<1>4. CASE HandleKick
  BY <1>1, <1>4, TakeKeeps DEF HandleKick
<1>5. CASE HandleTick
  BY <1>1, <1>5, TakeKeeps DEF HandleTick
<1> QED BY <1>2, <1>3, <1>4, <1>5 DEF PowerTask

(***************************************************************************)
(* Time passes.                                                            *)
(***************************************************************************)
LEMMA PassKeeps == PowerInv /\ PowerPass => PowerInv'
<1> SUFFICES ASSUME PowerInv, PowerPass PROVE PowerInv'
  OBVIOUS
<1> USE DEF PowerInv
<1>1. /\ UNCHANGED <<state, running, down, panel, held, queue, init>> /\ init = "up"
      /\ idle' = Aged(idle) /\ quiet' = Aged(quiet)
  BY DEF PowerPass, outputs
<1>2. /\ idle \in Nat /\ quiet \in Nat /\ use.touched \in Nat /\ use.counted \in Nat
      /\ use \in Uses
  BY DEF PowerTypes, Uses
<1>3. /\ use' \in Uses /\ use'.running = use.running /\ use'.down = use.down
      /\ use'.touched = Aged(use.touched)
  <2>1. Aged(use.touched) \in Nat /\ Aged(use.counted) \in Nat
    BY <1>2, AgedKeepsOrder
  <2> QED BY <1>2, <2>1 DEF PowerPass, Uses
<1>4. PowerTypes'
  BY <1>1, <1>2, <1>3, AgedKeepsOrder DEF PowerTypes
<1>5. HeardLast'
  BY <1>1, <1>3 DEF HeardLast, Tells, Says
<1>6. Decided'
  <2>1. OnlyTicks(queue) => Aged(idle) <= Aged(use.touched)
    BY <1>2, AgedKeepsOrder DEF Decided
  <2>2. use.touched <= Aged(use.touched) /\ Aged(use.touched) \in Nat
    BY <1>2, AgedKeepsOrder
  <2> QED BY <1>1, <1>2, <1>3, <2>1, <2>2, Times DEF Decided, OnlyTicks
<1> QED BY <1>4, <1>5, <1>6

(***************************************************************************)
(* How late: the detector.  A cube that is neither none nor the committed  *)
(* face is read within a period, or was, and then waits for the debounce.  *)
(***************************************************************************)
FaceTimes ==
    /\ wait \in 0 .. PollLow /\ period \in 0 .. PollLow
    /\ rest \in 0 .. OldAge /\ cube \in Faces

Settling ==
    cube \notin {None, face} =>
        \/ rest + wait <= PollLow
        \/ pending = cube /\ rest <= PollLow + age /\ age + wait <= Debounce + PollLow

SettleInv == FaceTimes /\ Settling

LEMMA Periods == /\ PollLow \in Nat /\ Debounce \in Nat /\ TiltTrigger \in Nat
                 /\ OldAge = PollLow + Debounce + PollLow + TiltTrigger + 1
                 /\ \A s : PeriodIn(s) \in 0 .. PollLow
BY PeriodAssumption, LimitsAssumption DEF OldAge, Latency, PeriodIn

LEMMA SettleInit == FaceInit => SettleInv
BY Periods, PeriodAssumption DEF FaceInit, SettleInv, FaceTimes, Settling

LEMMA SettlePoll == FaceInv /\ SettleInv /\ Poll => SettleInv'
<1> SUFFICES ASSUME FaceInv, SettleInv, Poll PROVE SettleInv'
  OBVIOUS
<1> USE Periods DEF SettleInv
<1>1. /\ Settled \/ Begins \/ Waits \/ Commits
      /\ wait = 0 /\ wait' = period /\ UNCHANGED <<cube, period, rest>>
  BY DEF Poll
<1>2. FaceTimes'
  BY <1>1 DEF FaceTimes
<1>3. Settling'
  <2>1. CASE Settled
    BY <1>1, <2>1 DEF Settled, Settling
  <2>2. CASE Begins
    BY <1>1, <2>2 DEF Begins, Settling, FaceTimes, FaceInv, FaceTypes
  <2>3. CASE Waits
    BY <1>1, <2>3 DEF Waits, Settling, FaceTimes, FaceInv, FaceTypes
  <2>4. CASE Commits
    BY <1>1, <2>4 DEF Commits, Settling
  <2> QED BY <1>1, <2>1, <2>2, <2>3, <2>4
<1> QED BY <1>2, <1>3

LEMMA SettleRest ==
    ASSUME FaceInv, SettleInv, \/ PollFails \/ Turn \/ FacePass
                               \/ (\E s : OnPowerState(s)) \/ UNCHANGED faceVars
    PROVE  SettleInv'
<1> USE Periods DEF SettleInv
<1>1. CASE PollFails \/ Turn
  <2>1. rest' = 0 /\ wait' \in {wait, period} /\ UNCHANGED period /\ cube' \in Faces
    BY <1>1 DEF PollFails, Turn, detector, FaceTimes
  <2>2. wait' \in 0 .. PollLow /\ 0 \in 0 .. OldAge
    BY <2>1 DEF FaceTimes
  <2>3. rest' + wait' <= PollLow
    <3>1. \A w \in 0 .. PollLow : 0 + w <= PollLow
      BY PeriodAssumption
    <3> QED BY <2>1, <2>2, <3>1
  <2> QED BY <2>1, <2>2, <2>3 DEF FaceTimes, Settling
<1>2. CASE \E s : OnPowerState(s)
  <2>1. period' \in 0 .. PollLow
    BY <1>2 DEF OnPowerState
  <2>2. UNCHANGED <<cube, face, pending, age, wait, rest>>
    BY <1>2 DEF OnPowerState
  <2>3. FaceTimes'
    BY <2>1, <2>2 DEF FaceTimes
  <2>4. Settling'
    BY <2>2 DEF Settling
  <2> QED BY <2>3, <2>4
<1>3. CASE FacePass
  <2>1. /\ wait > 0 /\ wait' = wait - 1 /\ rest' = Older(rest)
        /\ age' = (IF pending = None THEN 0 ELSE Older(age))
        /\ UNCHANGED <<cube, face, pending, period>>
    BY <1>3 DEF FacePass
  <2>2. /\ Older(rest) = (IF rest = OldAge THEN rest ELSE rest + 1)
        /\ Older(age) = (IF age = OldAge THEN age ELSE age + 1)
    BY DEF Older, NoAge, FaceTimes, FaceInv, FaceTypes
  <2>3. FaceTimes'
    BY <2>1, <2>2 DEF FaceTimes
  <2>4. Settling'
    BY <2>1, <2>2 DEF Settling, FaceTimes, FaceInv, FaceTypes
  <2> QED BY <2>3, <2>4
<1>4. CASE UNCHANGED faceVars
  BY <1>4 DEF faceVars, detector, FaceTimes, Settling
<1> QED BY <1>1, <1>2, <1>3, <1>4

(***************************************************************************)
(* How late: the power task.  It decides at least once a check; when no    *)
(* subscriber stalls it, an event is taken in the instant in which it      *)
(* comes, so that its timestamps are those of the use, but for the time    *)
(* since the last check of a countdown that has just ended.                *)
(***************************************************************************)
Resets(e) == \/ e.type = "kick"
             \/ e.type = "timer" /\ e.on
             \/ e.type = "face" /\ ~ e.on

ResetWaits(q) == \E i \in 1 .. Len(q) : Resets(q[i])

KnownToCount == running /\ ~ down

\* What the last decision left, as old as the last check.
DecidedLately ==
    /\ check \in 0 .. CheckPeriod
    /\ queue = <<>> => /\ state \in Awake => idle < ScreenOff + CheckPeriod - check
                       /\ state # "low_power" /\ ~ down
                             => quiet < LowPower + CheckPeriod - check
    /\ state = "low_power" => quiet >= LowPower

\* The time since the last use, and in the instant of an event.
IdleIsUse ==
    /\ OnlyTicks(queue) /\ ~ KnownToCount => idle = use.touched
    /\ ~ OnlyTicks(queue) => use.touched = 0

\* The time since the last countdown, turn or kick.
QuietIsUse ==
    /\ use.running /\ ~ use.down => use.counted = 0
    /\ ResetWaits(queue) \/ KnownToCount => use.counted = 0
    /\ use.counted <= quiet
    /\ KnownToCount => quiet <= CheckPeriod - (IF queue = <<>> THEN check ELSE 0)
    /\ ~ down /\ ~ ResetWaits(queue) => quiet <= use.counted + CheckPeriod

TimeInv == DecidedLately /\ (Prompt => IdleIsUse /\ QuietIsUse)

LEMMA ResetFacts ==
    ASSUME NEW q \in Seq(Events)
    PROVE  /\ \A e \in Events : ResetWaits(Append(q, e)) <=> ResetWaits(q) \/ Resets(e)
           /\ q # <<>> => (ResetWaits(q) <=> Resets(Head(q)) \/ ResetWaits(Tail(q)))
<1>1. ASSUME NEW e \in Events
      PROVE  ResetWaits(Append(q, e)) <=> ResetWaits(q) \/ Resets(e)
  <2>1. /\ Len(Append(q, e)) = Len(q) + 1 /\ Len(q) \in Nat /\ Append(q, e)[Len(q) + 1] = e
        /\ \A i \in 1 .. Len(q) : Append(q, e)[i] = q[i]
    OBVIOUS
  <2>2. \A i : i \in 1 .. Len(Append(q, e)) <=> i \in 1 .. Len(q) \/ i = Len(q) + 1
    BY <2>1
  <2> QED BY <2>1, <2>2 DEF ResetWaits
<1>2. ASSUME q # <<>>
      PROVE  ResetWaits(q) <=> Resets(Head(q)) \/ ResetWaits(Tail(q))
  <2>1. /\ Len(Tail(q)) = Len(q) - 1 /\ Len(q) \in Nat /\ Len(q) > 0 /\ Head(q) = q[1]
        /\ \A i \in 1 .. Len(Tail(q)) : Tail(q)[i] = q[i + 1]
    BY <1>2
  <2>2. \A i \in 1 .. Len(q) : i = 1 \/ (i - 1 \in 1 .. Len(Tail(q)) /\ Tail(q)[i - 1] = q[i])
    BY <2>1
  <2>3. 1 \in 1 .. Len(q) /\ \A i \in 1 .. Len(Tail(q)) : i + 1 \in 1 .. Len(q)
    BY <2>1
  <2> QED BY <2>1, <2>2, <2>3 DEF ResetWaits
<1> QED BY <1>1, <1>2

LEMMA TimeInit == PowerInit => TimeInv
<1> SUFFICES ASSUME PowerInit PROVE TimeInv
  OBVIOUS
<1>1. /\ queue = <<>> /\ Len(queue) = 0 /\ state = "active_idle" /\ idle = 0 /\ quiet = 0
      /\ running = FALSE /\ down = FALSE /\ check = CheckPeriod
  BY DEF PowerInit
<1>2. use.touched = 0 /\ use.counted = 0
  BY DEF PowerInit
<1>3. ~ ResetWaits(queue) /\ OnlyTicks(queue)
  BY <1>1 DEF ResetWaits, OnlyTicks
<1>4. LowPower > 0
  BY TimeAssumption
<1>5. DecidedLately
  BY <1>1, <1>4, Times DEF DecidedLately
<1>6. IdleIsUse /\ QuietIsUse
  BY <1>1, <1>2, <1>3, Times DEF IdleIsUse, QuietIsUse, KnownToCount
<1> QED BY <1>5, <1>6 DEF TimeInv

LEMMA TimeStutters ==
    TimeInv /\ UNCHANGED <<state, idle, quiet, running, down, queue, check, use>> => TimeInv'
BY DEF TimeInv, DecidedLately, IdleIsUse, QuietIsUse, KnownToCount, OnlyTicks, ResetWaits

\* Until a waiting event is taken, what was heard is not yet known.
LEMMA TimeAccept ==
    ASSUME PowerInv, TimeInv, NEW e \in Events, Accept(e), UNCHANGED ladder,
           check' \in 0 .. CheckPeriod
    PROVE  TimeInv'
<1>1. queue' = Append(queue, e) /\ UNCHANGED <<state, idle, quiet, running, down>>
  BY DEF Accept, ladder
<1>2. queue \in Seq(Events) /\ queue' # <<>>
  BY <1>1 DEF PowerInv, PowerTypes
<1>3. DecidedLately'
  BY <1>1, <1>2 DEF TimeInv, DecidedLately
<1>4. ASSUME Prompt PROVE IdleIsUse'
  <2>1. use'.touched = (IF e.type = "tick" THEN use.touched ELSE 0)
    BY DEF Accept, Heard
  <2>2. OnlyTicks(queue') => OnlyTicks(queue) /\ e.type = "tick"
    BY <1>1, <1>2, TicksFacts
  <2>3. OnlyTicks(queue) /\ e.type = "tick" => OnlyTicks(queue')
    <3>1. /\ Len(queue') = Len(queue) + 1 /\ Len(queue) \in Nat
          /\ \A i \in 1 .. Len(queue') :
                IF i \in 1 .. Len(queue) THEN queue'[i] = queue[i] ELSE queue'[i] = e
      BY <1>1, <1>2
    <3> QED BY <3>1 DEF OnlyTicks
  <2> QED BY <1>1, <1>4, <2>1, <2>2, <2>3 DEF TimeInv, IdleIsUse, KnownToCount
<1>5. ASSUME Prompt PROVE QuietIsUse'
  <2>1. /\ Resets(e) => use'.counted = 0
        /\ e.type = "timer" /\ use.running => use'.counted = 0
        /\ use'.counted \in {0, use.counted}
        /\ ~ Resets(e) /\ ~ (e.type = "timer" /\ use.running) => use'.counted = use.counted
        /\ use'.running = (IF e.type = "timer" THEN e.on ELSE use.running)
        /\ use'.down = (IF e.type = "face" THEN e.on ELSE use.down)
    <3>1. use' = Heard(e)
      BY DEF Accept
    <3>2. Heard(e).counted = (IF \/ e.type = "kick"
                                 \/ e.type = "timer" /\ (e.on \/ use.running)
                                 \/ e.type = "face" /\ ~ e.on THEN 0 ELSE use.counted)
      BY DEF Heard
    <3>3. /\ Heard(e).running = (IF e.type = "timer" THEN e.on ELSE use.running)
          /\ Heard(e).down = (IF e.type = "face" THEN e.on ELSE use.down)
      BY DEF Heard
    <3>4. CASE \/ e.type = "kick"
               \/ e.type = "timer" /\ (e.on \/ use.running)
               \/ e.type = "face" /\ ~ e.on
      <4>1. Heard(e).counted = 0
        BY <3>2, <3>4
      <4>2. ~ Resets(e) => e.type = "timer" /\ use.running
        BY <3>4 DEF Resets
      <4> QED BY <3>1, <3>3, <4>1, <4>2
    <3>5. CASE ~ (\/ e.type = "kick"
                  \/ e.type = "timer" /\ (e.on \/ use.running)
                  \/ e.type = "face" /\ ~ e.on)
      <4>1. Heard(e).counted = use.counted
        BY <3>2, <3>5
      <4>2. ~ Resets(e) /\ ~ (e.type = "timer" /\ use.running)
        BY <3>5 DEF Resets
      <4> QED BY <3>1, <3>3, <4>1, <4>2
    <3> QED BY <3>4, <3>5
  <2>2. ResetWaits(queue') <=> ResetWaits(queue) \/ Resets(e)
    BY <1>1, <1>2, ResetFacts
  <2>3. /\ use.counted \in Nat /\ quiet \in Nat /\ check \in 0 .. CheckPeriod
        /\ use.running \in BOOLEAN /\ use.down \in BOOLEAN
        /\ e.type \in {"timer", "face", "kick", "tick"} /\ e.on \in BOOLEAN
    BY DEF PowerInv, PowerTypes, Uses, Events, TimeInv, DecidedLately
  <2>4. QuietIsUse
    BY <1>5 DEF TimeInv
  <2>5. use'.running /\ ~ use'.down => use'.counted = 0
    <3>1. use.running /\ ~ use.down => use.counted = 0
      BY <2>4 DEF QuietIsUse
    <3>2. CASE e.type = "timer"
      <4>1. use'.running = e.on /\ (e.on => Resets(e))
        BY <2>1, <3>2 DEF Resets
      <4> QED BY <2>1, <4>1
    <3>3. CASE e.type = "face"
      BY <2>1, <3>1, <3>3 DEF Resets
    <3>4. CASE e.type \notin {"timer", "face"}
      BY <2>1, <3>1, <3>4
    <3> QED BY <3>2, <3>3, <3>4
  <2>6. ResetWaits(queue') \/ KnownToCount' => use'.counted = 0
    <3>1. ResetWaits(queue) \/ KnownToCount => use.counted = 0
      BY <2>4 DEF QuietIsUse
    <3>2. KnownToCount' <=> KnownToCount
      BY <1>1 DEF KnownToCount
    <3>3. Resets(e) \/ use.counted = 0 => use'.counted = 0
      BY <2>1 DEF Resets
    <3> QED BY <2>2, <3>1, <3>2, <3>3
  <2>7. use'.counted <= quiet' /\ (KnownToCount' => quiet' <= CheckPeriod)
    <3>1. use.counted <= quiet
      BY <2>4 DEF QuietIsUse
    <3>2. use'.counted <= quiet'
      BY <1>1, <2>1, <2>3, <3>1
    <3>3. KnownToCount => quiet <= CheckPeriod - (IF queue = <<>> THEN check ELSE 0)
      BY <2>4 DEF QuietIsUse
    <3>4. KnownToCount => quiet <= CheckPeriod
      <4>1. CASE queue = <<>>
        BY <2>3, <3>3, <4>1, Times
      <4>2. CASE queue # <<>>
        BY <2>3, <3>3, <4>2, Times
      <4> QED BY <4>1, <4>2
    <3> QED BY <1>1, <3>2, <3>4 DEF KnownToCount
  <2>8. ASSUME ~ down', ~ ResetWaits(queue') PROVE quiet' <= use'.counted + CheckPeriod
    <3>1. CASE e.type = "timer" /\ use.running /\ ~ running
      <4>1. PICK j \in 1 .. Len(queue) : Says(queue[j], "timer", TRUE)
        BY <3>1, <2>3 DEF PowerInv, PowerTypes, HeardLast, Tells
      <4> QED BY <2>2, <2>8, <4>1 DEF Says, Resets, ResetWaits
    <3>2. CASE e.type = "timer" /\ use.running /\ running
      BY <1>1, <2>1, <2>3, <2>7, <2>8, <3>2, Times DEF KnownToCount
    <3>3. CASE ~ (e.type = "timer" /\ use.running)
      BY <1>1, <2>1, <2>2, <2>3, <2>4, <2>8, <3>3 DEF QuietIsUse
    <3> QED BY <3>1, <3>2, <3>3
  <2>9. KnownToCount' => quiet' <= CheckPeriod - (IF queue' = <<>> THEN check' ELSE 0)
    BY <1>2, <2>7, Times
  <2>10. use'.counted <= quiet'
    BY <2>7
  <2> QED BY <2>5, <2>6, <2>8, <2>9, <2>10 DEF QuietIsUse
<1> QED BY <1>3, <1>4, <1>5 DEF TimeInv

\* A step that takes an event and decides, as in TakeKeeps.
LEMMA TimeTake ==
    ASSUME PowerInv, TimeInv, NEW type, Takes(type),
           NEW d \in BOOLEAN, NEW r \in BOOLEAN, NEW i \in Nat, NEW q \in Nat,
           Recompute(d, r, i, q),
           d = (IF type = "face" THEN Head(queue).on ELSE down),
           r = (IF type = "timer" THEN Head(queue).on ELSE running),
           i = (IF type = "tick" THEN idle ELSE 0),
           q = (IF Resets(Head(queue)) THEN 0 ELSE quiet)
    PROVE  TimeInv'
<1>1. /\ queue # <<>> /\ Head(queue).type = type /\ queue' = Tail(queue)
      /\ UNCHANGED <<check, use>>
  BY DEF Takes
<1>2. /\ down' = d /\ running' = r
      /\ idle' = (IF r /\ ~ d THEN 0 ELSE i) /\ quiet' = (IF r /\ ~ d THEN 0 ELSE q)
      /\ state' \in Awake => idle' < ScreenOff
      /\ state' # "low_power" /\ ~ d => quiet' < LowPower
      /\ state' = "low_power" => quiet' >= LowPower
  BY RecomputeFacts
<1>3. /\ queue \in Seq(Events) /\ idle \in Nat /\ quiet \in Nat
      /\ use.touched \in Nat /\ use.counted \in Nat /\ check \in 0 .. CheckPeriod
      /\ running \in BOOLEAN /\ down \in BOOLEAN
  BY DEF PowerInv, PowerTypes, Uses, TimeInv, DecidedLately
<1>4. DecidedLately'
  BY <1>1, <1>2, <1>3, Times DEF DecidedLately
<1>5. OnlyTicks(queue) => type = "tick" /\ OnlyTicks(Tail(queue))
  <2>1. /\ Len(queue) > 0 /\ Len(queue) \in Nat /\ Head(queue) = queue[1]
        /\ \A j \in 1 .. Len(Tail(queue)) :
              Tail(queue)[j] = queue[j + 1] /\ j + 1 \in 1 .. Len(queue)
    BY <1>1, <1>3
  <2>2. 1 \in 1 .. Len(queue)
    BY <2>1
  <2> QED BY <1>1, <2>1, <2>2 DEF OnlyTicks
<1>6. type = "tick" /\ OnlyTicks(Tail(queue)) => OnlyTicks(queue)
  BY <1>1, <1>3, TicksFacts
<1>7. ASSUME Prompt PROVE IdleIsUse'
  BY <1>1, <1>2, <1>3, <1>5, <1>6, <1>7 DEF TimeInv, IdleIsUse, KnownToCount
<1>8. ASSUME Prompt PROVE QuietIsUse'
  <2>1. QuietIsUse
    BY <1>8 DEF TimeInv
  <2>2. ResetWaits(queue) <=> Resets(Head(queue)) \/ ResetWaits(Tail(queue))
    BY <1>1, <1>3, ResetFacts
  <2>3. r /\ ~ d => Resets(Head(queue)) \/ KnownToCount
    BY <1>1 DEF Resets, KnownToCount
  <2>4. ResetWaits(Tail(queue)) \/ (r /\ ~ d) => use.counted = 0
    BY <2>1, <2>2, <2>3 DEF QuietIsUse
  <2>5. use.counted <= quiet'
    BY <1>2, <1>3, <2>1, <2>2, <2>4 DEF QuietIsUse
  <2>6. r /\ ~ d => quiet' <= CheckPeriod - check /\ quiet' <= CheckPeriod
    <3>1. r /\ ~ d => quiet' = 0
      BY <1>2
    <3>2. 0 <= CheckPeriod - check /\ 0 <= CheckPeriod
      BY <1>3, Times
    <3> QED BY <3>1, <3>2
  <2>7. ASSUME ~ d, ~ ResetWaits(Tail(queue)) PROVE quiet' <= use.counted + CheckPeriod
    <3>1. CASE quiet' = 0
      BY <1>3, <3>1, Times
    <3>2. CASE quiet' # 0
      <4>1. ~ Resets(Head(queue)) /\ quiet' = quiet
        BY <1>2, <3>2
      <4>2. ~ down
        BY <1>1, <2>7, <4>1 DEF Resets
      <4> QED BY <2>1, <2>2, <2>7, <4>1, <4>2 DEF QuietIsUse
    <3> QED BY <3>1, <3>2
  <2>8. use.running /\ ~ use.down => use.counted = 0
    BY <2>1 DEF QuietIsUse
  <2>9. KnownToCount' <=> r /\ ~ d
    BY <1>2 DEF KnownToCount
  <2>10. ResetWaits(queue') <=> ResetWaits(Tail(queue))
    BY <1>1
  <2>11. KnownToCount' => quiet' <= CheckPeriod - (IF queue' = <<>> THEN check' ELSE 0)
    <3>1. CASE queue' = <<>>
      BY <1>1, <2>6, <2>9, <3>1
    <3>2. CASE queue' # <<>>
      BY <1>3, <2>6, <2>9, <3>2, Times
    <3> QED BY <3>1, <3>2
  <2>12. /\ use'.running /\ ~ use'.down => use'.counted = 0
         /\ ResetWaits(queue') \/ KnownToCount' => use'.counted = 0
         /\ use'.counted <= quiet'
         /\ ~ down' /\ ~ ResetWaits(queue') => quiet' <= use'.counted + CheckPeriod
    BY <1>1, <1>2, <2>4, <2>5, <2>7, <2>8, <2>9, <2>10
  <2> QED BY <2>11, <2>12 DEF QuietIsUse
<1> QED BY <1>4, <1>7, <1>8 DEF TimeInv

LEMMA TimeTask == PowerInv /\ TimeInv /\ PowerTask => TimeInv'
<1> SUFFICES ASSUME PowerInv, TimeInv, PowerTask PROVE TimeInv'
  OBVIOUS
<1>1. /\ down \in BOOLEAN /\ running \in BOOLEAN /\ idle \in Nat /\ quiet \in Nat /\ 0 \in Nat
      /\ queue # <<>> => Head(queue).on \in BOOLEAN
  <2>1. queue \in Seq(Events)
    BY DEF PowerInv, PowerTypes
  <2>2. queue # <<>> => Head(queue) \in Events
    BY <2>1
  <2> QED BY <2>2 DEF PowerInv, PowerTypes, Events
<1>2. CASE HandleTimer
  <2>1. Takes("timer") /\ queue # <<>> /\ Head(queue).type = "timer"
    BY <1>2 DEF HandleTimer, Takes
  <2>2. Recompute(down, Head(queue).on, 0, IF Resets(Head(queue)) THEN 0 ELSE quiet)
    BY <1>2, <2>1 DEF HandleTimer, Resets
  <2>3. (IF Resets(Head(queue)) THEN 0 ELSE quiet) \in Nat
    BY <1>1
  <2> QED BY <1>1, <2>1, <2>2, <2>3, TimeTake
<1>3. CASE HandleFace
  <2>1. Takes("face") /\ queue # <<>> /\ Head(queue).type = "face"
    BY <1>3 DEF HandleFace, Takes
  <2>2. Recompute(Head(queue).on, running, 0, IF Resets(Head(queue)) THEN 0 ELSE quiet)
    BY <1>3, <2>1, <1>1 DEF HandleFace, Resets
  <2>3. (IF Resets(Head(queue)) THEN 0 ELSE quiet) \in Nat
    BY <1>1
  <2> QED BY <1>1, <2>1, <2>2, <2>3, TimeTake
<1>4. CASE HandleKick
  <2>1. Takes("kick") /\ Resets(Head(queue))
    BY <1>4 DEF HandleKick, Takes, Resets
  <2> QED BY <1>1, <1>4, <2>1, TimeTake DEF HandleKick
<1>5. CASE HandleTick
  <2>1. Takes("tick") /\ ~ Resets(Head(queue))
    BY <1>5 DEF HandleTick, Takes, Resets
  <2> QED BY <1>1, <1>5, <2>1, TimeTake DEF HandleTick
<1> QED BY <1>2, <1>3, <1>4, <1>5 DEF PowerTask

LEMMA TimeSend ==
    ASSUME PowerInv, TimeInv, NEW e \in Events, Send(e)
    PROVE  TimeInv'
<1>1. CASE Accept(e)
  BY <1>1, TimeAccept DEF Send, TimeInv, DecidedLately
<1>2. CASE Drop
  BY <1>2, TimeStutters DEF Send, Drop, ladder
<1> QED BY <1>1, <1>2 DEF Send

\* A check that finds the queue full is made up for by what waits there.
LEMMA TimeOnTick == PowerInv /\ TimeInv /\ OnTick => TimeInv'
<1> SUFFICES ASSUME PowerInv, TimeInv, OnTick PROVE TimeInv'
  OBVIOUS
<1>1. check' = CheckPeriod /\ check' \in 0 .. CheckPeriod /\ UNCHANGED ladder
  BY Times DEF OnTick
<1>2. CASE Accept(TickEvt)
  BY <1>1, <1>2, TimeAccept, EventFacts
<1>3. CASE Drop
  <2>1. queue # <<>> /\ UNCHANGED <<state, idle, quiet, running, down, queue, use>>
    BY <1>1, <1>3, QueueAssumption DEF Drop, ladder
  <2> QED BY <1>1, <2>1 DEF TimeInv, DecidedLately, IdleIsUse, QuietIsUse, KnownToCount,
                             OnlyTicks, ResetWaits
<1> QED BY <1>2, <1>3 DEF OnTick

LEMMA TimePass == PowerInv /\ TimeInv /\ PowerPass => TimeInv'
<1> SUFFICES ASSUME PowerInv, TimeInv, PowerPass PROVE TimeInv'
  OBVIOUS
<1>1. /\ UNCHANGED <<state, running, down, queue>>
      /\ check > 0 /\ check' = check - 1 /\ (Prompt => queue = <<>>)
      /\ idle' = Aged(idle) /\ quiet' = Aged(quiet)
  BY DEF PowerPass
<1>2. /\ idle \in Nat /\ quiet \in Nat /\ use.touched \in Nat /\ use.counted \in Nat
      /\ use \in Uses /\ check \in 0 .. CheckPeriod
  BY DEF PowerInv, PowerTypes, Uses, TimeInv, DecidedLately
<1>3. /\ use'.running = use.running /\ use'.down = use.down
      /\ use'.touched = Aged(use.touched)
      /\ use'.counted = (IF use.running /\ ~ use.down THEN 0 ELSE Aged(use.counted))
  BY <1>2 DEF PowerPass, Uses
<1>4. /\ idle' \in Nat /\ idle <= idle' /\ idle' <= idle + 1
      /\ quiet' \in Nat /\ quiet <= quiet' /\ quiet' <= quiet + 1
      /\ Aged(use.counted) \in Nat
  BY <1>1, <1>2, Times DEF Aged
<1>5. DecidedLately'
  <2>1. check' \in 0 .. CheckPeriod
    BY <1>1, <1>2, Times
  <2>2. DecidedLately
    BY DEF TimeInv
  <2>3. state = "low_power" => quiet' >= LowPower
    BY <1>2, <1>4, <2>2, Times DEF DecidedLately
  <2>4. ASSUME queue = <<>>, state \in Awake PROVE idle' < ScreenOff + CheckPeriod - check'
    <3>1. idle < ScreenOff + CheckPeriod - check
      BY <2>2, <2>4 DEF DecidedLately
    <3> QED BY <1>1, <1>2, <1>4, <3>1, Times
  <2>5. ASSUME queue = <<>>, state # "low_power", ~ down
        PROVE  quiet' < LowPower + CheckPeriod - check'
    <3>1. quiet < LowPower + CheckPeriod - check
      BY <2>2, <2>5 DEF DecidedLately
    <3> QED BY <1>1, <1>2, <1>4, <3>1, Times
  <2> QED BY <1>1, <2>1, <2>3, <2>4, <2>5 DEF DecidedLately
<1>6. ASSUME Prompt PROVE IdleIsUse' /\ QuietIsUse'
  <2>1. queue = <<>> /\ OnlyTicks(queue) /\ ~ ResetWaits(queue)
    BY <1>1, <1>6 DEF OnlyTicks, ResetWaits
  <2>2. IdleIsUse /\ QuietIsUse
    BY <1>6 DEF TimeInv
  <2>3. running = use.running /\ down = use.down
    BY <2>1 DEF PowerInv, HeardLast, Tells
  <2>4. IdleIsUse'
    BY <1>1, <1>3, <2>1, <2>2 DEF IdleIsUse, KnownToCount, OnlyTicks
  <2>5. use'.counted <= Aged(quiet) /\ use'.counted \in Nat
    <3>1. use.counted <= quiet
      BY <2>2 DEF QuietIsUse
    <3>2. Aged(use.counted) <= Aged(quiet) /\ Aged(quiet) \in Nat
      BY <1>2, <3>1, AgedKeepsOrder
    <3> QED BY <1>3, <1>4, <3>2
  <2>6. KnownToCount => Aged(quiet) <= CheckPeriod - check'
    <3>1. KnownToCount => quiet <= CheckPeriod - check
      BY <2>1, <2>2 DEF QuietIsUse
    <3> QED BY <1>1, <1>2, <1>4, <3>1, Times
  <2>7. ~ down /\ ~ KnownToCount => Aged(quiet) <= Aged(use.counted) + CheckPeriod
    <3>1. ~ down => quiet <= use.counted + CheckPeriod
      BY <2>1, <2>2 DEF QuietIsUse
    <3> QED BY <1>2, <3>1, Times DEF Aged
  <2>8. ~ down => Aged(quiet) <= use'.counted + CheckPeriod
    <3>1. CASE KnownToCount
      BY <1>1, <1>2, <1>4, <2>5, <2>6, <3>1, Times
    <3>2. CASE ~ KnownToCount
      BY <1>3, <2>3, <2>7, <3>2 DEF KnownToCount
    <3> QED BY <3>1, <3>2
  <2>9. QuietIsUse'
    BY <1>1, <1>3, <2>1, <2>3, <2>5, <2>6, <2>8 DEF QuietIsUse, KnownToCount, ResetWaits
  <2> QED BY <2>4, <2>9
<1> QED BY <1>5, <1>6 DEF TimeInv

(***************************************************************************)
(* The two together.                                                       *)
(***************************************************************************)
CubeInv == FaceInv /\ PowerInv /\ SettleInv /\ TimeInv

LEMMA SendsKeep ==
    ASSUME PowerInv, TimeInv, NEW e \in Events, Send(e)
    PROVE  PowerInv' /\ TimeInv'
BY SendKeeps, TimeSend

LEMMA RestKeeps ==
    ASSUME FaceInv, SettleInv, \/ PollFails \/ Turn \/ FacePass
                               \/ (\E s : OnPowerState(s)) \/ UNCHANGED faceVars
    PROVE  FaceInv' /\ SettleInv' /\ face' = face
BY FaceRestKeeps, SettleRest

LEMMA StillKeeps == PowerInv /\ TimeInv /\ UNCHANGED powerVars => PowerInv' /\ TimeInv'
BY PowerStutters, TimeStutters DEF powerVars, ladder

LEMMA CubeStepKeeps ==
    ASSUME CubeInv, [CubeNext]_cubeVars
    PROVE  /\ CubeInv'
           /\ face' # face => last = face' /\ streak >= Debounce
<1> USE DEF CubeInv
<1>1. CASE Sample
  <2>1. FaceInv' /\ SettleInv' /\ (face' # face => last = face' /\ streak >= Debounce)
    BY <1>1, PollKeeps, SettlePoll DEF Sample
  <2>2. CASE face' # face
    <3>1. (face' = Display) \in BOOLEAN /\ OnFaceChanged(face' = Display)
      BY <1>1, <2>2 DEF Sample
    <3>2. PowerInv' /\ TimeInv'
      BY <3>1, SendsKeep, EventFacts DEF OnFaceChanged
    <3> QED BY <2>1, <3>2
  <2>3. CASE face' = face
    BY <1>1, <2>1, <2>3, StillKeeps DEF Sample
  <2> QED BY <2>2, <2>3
<1>2. CASE SampleFails \/ TurnCube
  BY <1>2, RestKeeps, StillKeeps DEF SampleFails, TurnCube
<1>3. CASE TakeEvent
  <2>1. FaceInv' /\ SettleInv' /\ face' = face
    BY <1>3, RestKeeps DEF TakeEvent
  <2> QED BY <1>3, <2>1, TaskKeeps, TimeTask DEF TakeEvent
<1>4. CASE EndInit
  <2>1. FaceInv' /\ SettleInv' /\ face' = face
    BY <1>4, RestKeeps DEF EndInit
  <2>2. UNCHANGED <<state, idle, quiet, running, down, queue, check, use>>
    BY <1>4 DEF EndInit, ReadsState, WakesPanel, TakesLock
  <2> QED BY <1>4, <2>1, <2>2, StartKeeps, TimeStutters DEF EndInit
<1>5. CASE Others
  <2>1. FaceInv' /\ SettleInv' /\ face' = face
    BY <1>5, RestKeeps DEF Others
  <2>2. PowerInv' /\ TimeInv'
    BY <1>5, SendsKeep, EventFacts DEF Others, Kick, OnTimerState
  <2> QED BY <2>1, <2>2
<1>6. CASE Check
  BY <1>6, RestKeeps, OnTickKeeps, TimeOnTick DEF Check
<1>7. CASE Time
  BY <1>7, RestKeeps, PassKeeps, TimePass DEF Time
<1>8. CASE UNCHANGED cubeVars
  BY <1>8, RestKeeps, StillKeeps DEF cubeVars
<1> QED BY <1>1, <1>2, <1>3, <1>4, <1>5, <1>6, <1>7, <1>8 DEF CubeNext

(***************************************************************************)
(* The theorems.                                                           *)
(***************************************************************************)
\* What is pending was seen since, the queue tells what the task does not know
\* yet, the state is decided on what it knows, and neither sample nor decision
\* is older than its period.
THEOREM CubeCorrect == CubeSpec => []CubeInv
<1>1. CubeInit => CubeInv
  BY FaceInitInv, PowerInitInv, SettleInit, TimeInit DEF CubeInit, CubeInv
<1>2. CubeInv /\ [CubeNext]_cubeVars => CubeInv'
  BY CubeStepKeeps
<1> QED BY <1>1, <1>2, PTL DEF CubeSpec

\* Whatever turns, unread samples and changes of the period come, process_sample
\* commits a face only when every sample of DEBOUNCE_MS showed it.
THEOREM FaceIsDebounced == CubeSpec => Debounced
<1>1. CubeInv /\ [CubeNext]_cubeVars
         => [face' # face => last = face' /\ streak >= Debounce]_faceVars
  BY CubeStepKeeps
<1> QED BY <1>1, CubeCorrect, PTL DEF CubeSpec, Debounced

\* Events that wait, come late or are dropped never leave the device dark but for
\* a cause that recompute knows: the panel is hidden, or nobody used it.
THEOREM DarkWithReason == CubeSpec => []DarkForAReason
<1>1. CubeInv => DarkForAReason
  <2> SUFFICES ASSUME CubeInv, queue = <<>>
               PROVE  /\ use.down => state = "screen_off"
                      /\ ~ use.down /\ use.running => state = "active_timer"
                      /\ state = "screen_off" => use.down \/ use.touched >= ScreenOff
                      /\ state = "low_power"  => ~ use.down
    BY DEF DarkForAReason
  <2>1. down = use.down /\ running = use.running
    BY DEF CubeInv, PowerInv, HeardLast, Tells
  <2>2. OnlyTicks(queue)
    BY DEF OnlyTicks
  <2> QED BY <2>1, <2>2 DEF CubeInv, PowerInv, PowerTypes, Decided, Uses
<1> QED BY <1>1, CubeCorrect, PTL

\* A cube that lies still and is read is committed within Latency, however
\* on_power_state changed the period of poll_task on the way.
THEOREM CommitsInTime == CubeSpec => []SettlesInTime
<1>1. CubeInv => SettlesInTime
  <2> SUFFICES ASSUME CubeInv, rest > Latency, cube \notin {None, face} PROVE FALSE
    BY DEF SettlesInTime
  <2>1. /\ rest \in Nat /\ wait \in Nat /\ age \in Nat
        /\ Latency = PollLow + Debounce + PollLow
        /\ PollLow \in Nat /\ Debounce \in Nat /\ TiltTrigger \in Nat
    BY Periods, OldAgeNat DEF CubeInv, FaceInv, FaceTypes, SettleInv, FaceTimes, Latency
  <2>2. rest > PollLow
    BY <2>1
  <2>3. \/ rest + wait <= PollLow
        \/ rest <= PollLow + age /\ age + wait <= Debounce + PollLow
    BY DEF CubeInv, SettleInv, Settling
  <2> QED BY <2>1, <2>2, <2>3
<1> QED BY <1>1, CubeCorrect, PTL

\* While no subscriber stalls the task, a device that nobody uses is dark and in
\* low power within a check of the limits, and not before.
THEOREM DarkWithinACheck == CubeSpec => []DarkInTime
<1>1. CubeInv => DarkInTime
  <2> SUFFICES ASSUME CubeInv, Unused
               PROVE  /\ use.touched > ScreenOff + CheckPeriod => state \in Dark
                      /\ use.counted > LowPower + CheckPeriod => state = "low_power"
                      /\ state = "low_power" => use.counted >= LowPower - CheckPeriod
    BY DEF DarkInTime
  <2>1. Prompt /\ queue = <<>> /\ ~ use.running /\ ~ use.down
    BY DEF Unused
  <2>2. ~ down /\ ~ running /\ state \in Awake \cup Dark
    BY <2>1 DEF CubeInv, PowerInv, PowerTypes, Uses, HeardLast, Tells
  <2>3. OnlyTicks(queue) /\ ~ ResetWaits(queue) /\ ~ KnownToCount
    BY <2>1, <2>2 DEF OnlyTicks, ResetWaits, KnownToCount
  <2>4. DecidedLately /\ IdleIsUse /\ QuietIsUse
    BY <2>1 DEF CubeInv, TimeInv
  <2>5. /\ use.touched \in Nat /\ use.counted \in Nat /\ quiet \in Nat /\ idle \in Nat
        /\ check \in 0 .. CheckPeriod
    BY <2>4 DEF CubeInv, PowerInv, PowerTypes, Uses, DecidedLately
  <2>6. idle = use.touched /\ use.counted <= quiet /\ quiet <= use.counted + CheckPeriod
    BY <2>2, <2>3, <2>4 DEF IdleIsUse, QuietIsUse
  <2>7. /\ state \in Awake => idle < ScreenOff + CheckPeriod - check
        /\ state # "low_power" => quiet < LowPower + CheckPeriod - check
        /\ state = "low_power" => quiet >= LowPower
    BY <2>1, <2>2, <2>4 DEF DecidedLately
  <2>8. use.touched > ScreenOff + CheckPeriod => state \in Dark
    BY <2>2, <2>5, <2>6, <2>7, Times
  <2>9. use.counted > LowPower + CheckPeriod => state = "low_power"
    BY <2>5, <2>6, <2>7, Times
  <2>10. state = "low_power" => use.counted >= LowPower - CheckPeriod
    BY <2>5, <2>6, <2>7, Times
  <2> QED BY <2>8, <2>9, <2>10
<1> QED BY <1>1, CubeCorrect, PTL
=============================================================================
