---------------------------- MODULE PanelProofs ----------------------------
(***************************************************************************)
(* Proofs about the panel, the battery, the motor and the button, for      *)
(* every set of readings, every queue, every tap count and tap window, and *)
(* every environment.                                                      *)
(***************************************************************************)
EXTENDS Panel, SequenceTheorems, TLAPS

(***************************************************************************)
(* The button.  The ages of the taps of the current group are at most the  *)
(* age of its first tap, which is what the window is measured from.        *)
(***************************************************************************)
GroupInWindow == \A i \in 1..tapCount : tapAges[i] <= firstTap

ButtonInv == ButtonTypeOK /\ GroupInWindow

\* What a step can be for the button.
ButtonNext == \/ Presses \/ Holds \/ TapsAge \/ ButtonBoots
              \/ \E d \in 0..Reset : Releases(d)

LEMMA ButtonSteps == Next => ButtonNext \/ UNCHANGED buttonVars
<1>1. Environment => ButtonNext \/ UNCHANGED buttonVars
  BY DEF Environment, ButtonNext, Plugs, TimerChanges, TimerTicks, TimerExpires,
         CallFails, CubeTilts, SwitchesMotor, BurstsMotor, SwitchesWarning, PressesButton
<1>2. HoldsButton \/ ReleasesButton \/ TimePasses \/ Reboots => ButtonNext
  BY DEF ButtonNext, HoldsButton, ReleasesButton, TimePasses, Reboots
<1>3. Samples \/ MonitorTask => UNCHANGED buttonVars
  BY DEF Samples, MonitorTask, PublishesCharge, PublishesLockout, PublishesLevel
<1>4. InitsUi \/ UiWorks \/ MotorWorks => UNCHANGED buttonVars
  BY DEF InitsUi, UiWorks, MotorWorks
<1>5. (\E t \in Tasks : Transfers(t)) => UNCHANGED buttonVars
  BY DEF Transfers
<1> QED BY <1>1, <1>2, <1>3, <1>4, <1>5 DEF Next

LEMMA ButtonInit_Inv == Init => ButtonInv
<1> SUFFICES ASSUME Init PROVE ButtonInv
  OBVIOUS
<1>1. ButtonTypeOK
  BY TapsAssumption, WindowAssumption
     DEF Init, ButtonInit, ButtonTypeOK, Up, Past
<1>2. GroupInWindow
  BY DEF Init, ButtonInit, GroupInWindow
<1> QED BY <1>1, <1>2 DEF ButtonInv

LEMMA ButtonNext_Inv == ButtonInv /\ (ButtonNext \/ UNCHANGED buttonVars) => ButtonInv'
<1> SUFFICES ASSUME ButtonInv, ButtonNext \/ UNCHANGED buttonVars PROVE ButtonInv'
  OBVIOUS
<1> USE TapsAssumption, WindowAssumption DEF ButtonInv
<1>1. CASE Presses \/ Holds
  BY <1>1 DEF Presses, Holds, tapVars, ButtonTypeOK, GroupInWindow, Up, Reset, Past
<1>2. CASE TapsAge
  <2>1. /\ held' = held /\ device' = device /\ tapCount' = tapCount
        /\ firstTap' = Later(firstTap)
        /\ tapAges' = [i \in 1..Taps |-> Later(tapAges[i])]
    BY <1>2 DEF TapsAge
  <2>2. \A t \in 0..Past : Later(t) \in 0..Past
    BY DEF Later, Past
  <2>3. \A s, t \in 0..Past : s <= t => Later(s) <= Later(t)
    BY DEF Later, Past
  <2>4. ButtonTypeOK'
    BY <2>1, <2>2 DEF ButtonTypeOK
  <2>5. GroupInWindow'
    BY <2>1, <2>3 DEF ButtonTypeOK, GroupInWindow
  <2> QED BY <2>4, <2>5
<1>3. CASE ButtonBoots
  BY <1>3 DEF ButtonBoots, ButtonTypeOK, GroupInWindow, Up, Past
<1>4. ASSUME NEW d \in 0..Reset, Releases(d) PROVE ButtonInv'
  <2>1. held' = Up /\ device' \in {"runs", "restarts", "resets"}
    BY <1>4 DEF Releases
  <2>2. CASE Counts(d) /\ TapsAgain(d)
    <3>1. /\ d = Debounced /\ firstTap' = firstTap
          /\ tapAges' = [i \in 1..Taps |-> IF i = 1 THEN 0 ELSE tapAges[i - 1]]
          /\ tapCount' = IF tapCount + 1 < Taps THEN tapCount + 1 ELSE 0
      BY <1>4, <2>2 DEF Releases, CountsTap, TapsAgain, FirstTap, Aged, Debounced
    <3>2. ButtonTypeOK'
      BY <2>1, <3>1 DEF ButtonTypeOK, Up, Past
    <3>3. GroupInWindow'
      BY <3>1 DEF ButtonTypeOK, GroupInWindow
    <3> QED BY <3>2, <3>3
  <2>3. CASE Counts(d) /\ ~ TapsAgain(d)
    <3>1. /\ firstTap' = 0 /\ tapCount' = 1
          /\ tapAges' = [i \in 1..Taps |-> IF i = 1 THEN 0 ELSE Aged(tapAges[i - 1], d)]
      BY <1>4, <2>3 DEF Releases, CountsTap, FirstTap
    <3>2. ButtonTypeOK'
      BY <2>1, <3>1 DEF ButtonTypeOK, Aged, Up, Past
    <3>3. GroupInWindow'
      BY <3>1 DEF GroupInWindow
    <3> QED BY <3>2, <3>3
  <2>4. CASE ~ Counts(d)
    <3>1. /\ firstTap' = Aged(firstTap, d) /\ tapCount' = tapCount
          /\ tapAges' = [i \in 1..Taps |-> Aged(tapAges[i], d)]
      BY <1>4, <2>4 DEF Releases, KeepsTaps
    <3>2. ButtonTypeOK'
      BY <2>1, <3>1 DEF ButtonTypeOK, Aged, Up, Past
    <3>3. GroupInWindow'
      BY <3>1 DEF ButtonTypeOK, GroupInWindow, Aged, Past
    <3> QED BY <3>2, <3>3
  <2> QED BY <2>2, <2>3, <2>4
<1>5. CASE UNCHANGED buttonVars
  BY <1>5 DEF buttonVars, tapVars, ButtonTypeOK, GroupInWindow
<1> QED BY <1>1, <1>2, <1>3, <1>4, <1>5 DEF ButtonNext

\* A step that wipes the device ends a hold of almost FACTORY_RESET_MIN_MS, or
\* is the last tap of a group within the window.
LEMMA WipeOnPurpose == ButtonInv /\ (ButtonNext \/ UNCHANGED buttonVars) => WipeStep
<1> SUFFICES ASSUME ButtonInv, ButtonNext \/ UNCHANGED buttonVars,
                    device = "runs", device' = "resets", ~ held >= Restart
             PROVE  \A i \in 1..Taps : tapAges'[i] <= Window
  BY DEF WipeStep
<1> USE TapsAssumption, WindowAssumption DEF ButtonInv
<1>1. PICK d \in 0..Reset : Releases(d)
  BY DEF ButtonNext, Presses, Holds, TapsAge, ButtonBoots, buttonVars
<1>2. Wipes(d) /\ d # Reset
  <2>1. Wipes(d)
    BY <1>1 DEF Releases
  <2>2. held \in 0..3 /\ d \in {held, held + 1}
    BY <1>1 DEF Releases, Lengths, ButtonTypeOK, Restart, Up
  <2> QED BY <2>1, <2>2 DEF Reset
<1>3. Counts(d) /\ TapsAgain(d) /\ tapCount + 1 >= Taps
  BY <1>2 DEF Wipes
<1>4. /\ tapCount = Taps - 1 /\ firstTap <= Window
      /\ tapAges' = [i \in 1..Taps |-> IF i = 1 THEN 0 ELSE tapAges[i - 1]]
  BY <1>1, <1>3 DEF Releases, CountsTap, TapsAgain, Aged, Debounced, ButtonTypeOK
<1> QED BY <1>4 DEF GroupInWindow, ButtonTypeOK, Past

\* sk_button.c, sk_control.c: the types of the button's state, and the ages of a
\* group of taps, in every state.
THEOREM ButtonCorrect == Spec => []ButtonInv
<1>1. ButtonInv /\ [Next]_panelVars => ButtonInv'
  BY ButtonSteps, ButtonNext_Inv DEF panelVars
<1> QED BY <1>1, ButtonInit_Inv, PTL DEF Spec

\* button_task, on_button_released, on_button_multi_tap: the button wipes the
\* device only on purpose, for every tap count and window.
THEOREM WipesOnlyOnPurpose == Spec => WipeMeant
<1>1. ButtonInv /\ [Next]_panelVars => [WipeStep]_panelVars
  BY ButtonSteps, WipeOnPurpose
<1> QED BY <1>1, ButtonCorrect, PTL DEF Spec, WipeMeant

(***************************************************************************)
(* The queue of bf_ui.c.                                                   *)
(***************************************************************************)
QueueOK == events \in Seq(Kinds) /\ Len(events) <= EventsLen

\* What is queued keeps its place; what is sent follows it, or is lost.
LEMMA SendsFacts ==
    ASSUME QueueOK, NEW kinds \in Seq(Kinds), Sends(kinds)
    PROVE  /\ QueueOK'
           /\ Len(events) <= Len(events')
           /\ \A i \in 1..Len(events) : events'[i] = events[i]
           /\ \A i \in 1..Len(events') : i > Len(events) => events'[i] \in Range(kinds)
           /\ \A k \in Kinds \ Range(kinds) : k \in lost' <=> k \in lost
           /\ \A k \in Range(kinds) :
                 k \in lost' \/ \E i \in 1..Len(events') : i > Len(events) /\ events'[i] = k
<1> USE EventsAssumption DEF QueueOK
<1> DEFINE m == IF Room < Len(kinds) THEN Room ELSE Len(kinds)
           f == SubSeq(kinds, 1, m)
<1>1. m \in 0..Len(kinds) /\ m <= Room /\ Room \in Nat
  BY DEF Room
<1>2. Fits(kinds) = f
  BY DEF Fits
<1>3. f \in Seq(Kinds) /\ Len(f) = m /\ \A i \in 1..m : f[i] = kinds[i]
  BY <1>1
<1> HIDE DEF m, f
<1>4. events' = events \o f
  BY <1>2 DEF Sends
<1>5. /\ events' \in Seq(Kinds) /\ Len(events') = Len(events) + m
      /\ \A i \in 1..Len(events) : events'[i] = events[i]
      /\ \A i \in 1..m : events'[Len(events) + i] = f[i]
  <2>1. events' \in Seq(Kinds) /\ Len(events') = Len(events) + m
    BY <1>3, <1>4, ConcatProperties
  <2>2. \A i \in 1..Len(events) : events'[i] = events[i]
    BY <1>3, <1>4
  <2>3. \A i \in 1..m : events'[Len(events) + i] = f[i]
    BY <1>1, <1>3, <1>4
  <2> QED BY <2>1, <2>2, <2>3
<1>6. Len(events') <= EventsLen
  BY <1>1, <1>5 DEF Room
<1>7. \A i \in 1..Len(events') : i > Len(events) => events'[i] \in Range(kinds)
  <2> SUFFICES ASSUME NEW i \in 1..Len(events'), i > Len(events)
               PROVE  events'[i] \in Range(kinds)
    OBVIOUS
  <2>1. i - Len(events) \in 1..m /\ i = Len(events) + (i - Len(events))
    BY <1>1, <1>5
  <2>2. events'[i] = kinds[i - Len(events)] /\ i - Len(events) \in 1..Len(kinds)
    BY <2>1, <1>1, <1>3, <1>5
  <2> QED BY <2>2 DEF Range
<1>8. \A k \in Kinds \ Range(kinds) : k \in lost' <=> k \in lost
  BY DEF Sends, Misfits
<1>9. ASSUME NEW k \in Range(kinds), k \notin lost'
      PROVE  \E i \in 1..Len(events') : i > Len(events) /\ events'[i] = k
  <2>1. k \in Range(f)
    BY <1>2, <1>9 DEF Sends, Misfits
  <2>2. PICK j \in 1..m : f[j] = k
    BY <1>3, <2>1 DEF Range
  <2>3. events'[Len(events) + j] = k
    BY <1>5, <2>2
  <2>4. Len(events) + j \in 1..Len(events') /\ Len(events) + j > Len(events)
    BY <1>1, <1>5
  <2> QED BY <2>3, <2>4
<1>10. QueueOK' /\ Len(events) <= Len(events')
  BY <1>1, <1>5, <1>6
<1> QED BY <1>5, <1>7, <1>8, <1>9, <1>10

\* One event of a kind.
LEMMA SendsOne ==
    ASSUME QueueOK, NEW kind \in Kinds, Sends(<<kind>>)
    PROVE  /\ QueueOK'
           /\ Len(events) <= Len(events')
           /\ \A i \in 1..Len(events) : events'[i] = events[i]
           /\ \A i \in 1..Len(events') : i > Len(events) => events'[i] = kind
           /\ \A k \in Kinds \ {kind} : k \in lost' <=> k \in lost
           /\ kind \in lost' \/ \E i \in 1..Len(events') : i > Len(events) /\ events'[i] = kind
<1>1. <<kind>> \in Seq(Kinds) /\ Range(<<kind>>) = {kind}
  BY DEF Range
<1> QED BY <1>1, SendsFacts

\* The queue without its head.
LEMMA TakesFacts ==
    ASSUME QueueOK, NEW kind, Takes(kind)
    PROVE  /\ QueueOK'
           /\ Len(events) >= 1 /\ events[1] = kind
           /\ Len(events') = Len(events) - 1
           /\ \A i \in 1..Len(events') : events'[i] = events[i + 1]
<1>1. events \in Seq(Kinds) /\ events # <<>> /\ Head(events) = kind /\ events' = Tail(events)
  BY DEF Takes, QueueOK
<1> QED BY <1>1, EventsAssumption DEF QueueOK

LEMMA TakesOther ==
    ASSUME QueueOK, NEW kind, Takes(kind), NEW k, k # kind
    PROVE  Queued(k)' <=> Queued(k)
<1> USE TakesFacts DEF Queued, Contains
<1>1. Queued(k)' => Queued(k)
  <2> SUFFICES ASSUME NEW i \in 1..Len(events'), events'[i] = k PROVE Queued(k)
    OBVIOUS
  <2> QED BY EventsAssumption DEF QueueOK
<1>2. Queued(k) => Queued(k)'
  <2> SUFFICES ASSUME NEW i \in 1..Len(events), events[i] = k PROVE Queued(k)'
    OBVIOUS
  <2>1. i - 1 \in 1..Len(events') /\ events'[i - 1] = k
    BY EventsAssumption DEF QueueOK
  <2> QED BY <2>1
<1> QED BY <1>1, <1>2

(***************************************************************************)
(* The hold bar and the scene.  An event that was queued is what makes up  *)
(* for a flag that ui_task has not acted on yet; a release stands behind   *)
(* every press in the queue.                                               *)
(***************************************************************************)
Down == held \in Debounced..Reset \/ device # "runs"

ReleaseFollows ==
    \A i \in 1..Len(events) : events[i] = "down" =>
        Down \/ "up" \in lost \/ \E j \in 1..Len(events) : j > i /\ events[j] = "up"

BarEnds == hold => Down \/ "up" \in lost \/ Queued("up")

StateFollows ==
    ~ Queued("state") /\ "state" \notin lost =>
        /\ phase = "runs" /\ scene \notin Messages => (scene = "countdown" <=> counting)
        /\ phase # "runs" => ~ counting

UiQuiet == phase = "off" => events = <<>> /\ hold = FALSE

SceneInv == /\ hold \in BOOLEAN /\ counting \in BOOLEAN
            /\ QueueOK /\ UiQuiet /\ ReleaseFollows /\ BarEnds /\ StateFollows

\* What a step can be for the queue: subscribers other than the button's post
\* events, or nothing of this changes.
Posts == /\ Listens /\ UNCHANGED <<phase, scene, hold, held, device>>
         /\ \E kinds \in Seq(Kinds \ {"down", "up"}) :
               /\ Sends(kinds)
               /\ counting' = counting \/ (counting' \in BOOLEAN /\ "state" \in Range(kinds))

Rests == /\ UNCHANGED <<scene, events, counting, hold, lost, held, device>>
         /\ phase' = phase \/ (phase = "off" /\ phase' = "spawned")

LEMMA PanelSteps ==
    Next => \/ PressesButton \/ HoldsButton \/ ReleasesButton \/ Reboots
            \/ UiWorks \/ Posts \/ Rests
<1> USE DEF NoInput, Input, uiVars, flags, canvas, buttonVars, DrawsNothing
<1>1. Plugs \/ SwitchesMotor \/ BurstsMotor => Rests
  BY DEF Plugs, SwitchesMotor, BurstsMotor, Rests
<1>2. TimerChanges => Posts
  <2> SUFFICES ASSUME NEW runs \in BOOLEAN, OnTimerState(runs), UNCHANGED buttonVars
               PROVE  Posts
    BY DEF TimerChanges
  <2>1. <<"state">> \in Seq(Kinds \ {"down", "up"}) /\ "state" \in Range(<<"state">>)
    BY DEF Kinds, Messages, Range
  <2> QED BY <2>1 DEF OnTimerState, Posts
<1>3. TimerExpires => Posts
  <2> DEFINE last == <<"tick", "break", "state", "state">>
  <2>1. last \in Seq(Kinds \ {"down", "up"})
    BY DEF Kinds, Messages
  <2>2. "state" \in Range(last)
    <3>1. 3 \in DOMAIN last /\ last[3] = "state"
      OBVIOUS
    <3> QED BY <3>1 DEF Range
  <2>3. TimerExpires => /\ Listens /\ Sends(last) /\ counting' = FALSE
                        /\ UNCHANGED <<phase, scene, hold, held, device>>
    BY DEF TimerExpires, OnTimerExpired
  <2> QED BY <2>1, <2>2, <2>3 DEF Posts
<1>4. ASSUME NEW kind \in {"tick", "error", "render"}, Listens, Sends(<<kind>>),
             UNCHANGED <<phase, scene, counting, hold, held, device>>
      PROVE  Posts
  <2>1. <<kind>> \in Seq(Kinds \ {"down", "up"})
    BY DEF Kinds, Messages
  <2> QED BY <1>4, <2>1 DEF Posts
<1>5. TimerTicks => Posts \/ Rests
  BY <1>4 DEF TimerTicks, Notices, Rests
<1>6. CallFails => Posts \/ Rests
  BY <1>4 DEF CallFails, Notices, Rests
<1>7. CubeTilts => Posts
  BY <1>4 DEF CubeTilts, OnFaceTilted
<1>8. SwitchesWarning => Rests
  BY DEF SwitchesWarning, Rests
<1>9. Samples \/ TimePasses \/ MotorWorks => Rests
  BY DEF Samples, TimePasses, MotorWorks, TapsAge, Rests
<1>10. PublishesCharge \/ PublishesLockout \/ PublishesLevel => Rests
  BY DEF PublishesCharge, PublishesLockout, PublishesLevel, OnBatteryChargeState,
         OnBatteryLockout, OnBatteryLevel, Rests
<1>11. InitsUi => Rests
  BY DEF InitsUi, StartsUi, Rests
<1>12. (\E t \in Tasks : Transfers(t)) => Rests
  BY DEF Transfers, Presents, Rests
<1> QED BY <1>1, <1>2, <1>3, <1>5, <1>6, <1>7, <1>8, <1>9, <1>10, <1>11, <1>12
        DEF Next, Environment, MonitorTask

LEMMA SceneInit_Inv == Init => SceneInv
<1> SUFFICES ASSUME Init PROVE SceneInv
  OBVIOUS
<1>1. events = <<>> /\ hold = FALSE /\ counting = FALSE /\ lost = {} /\ phase = "off"
  BY DEF Init, UiInit
<1>2. QueueOK
  BY <1>1, EventsAssumption DEF QueueOK
<1>3. UiQuiet /\ BarEnds /\ StateFollows
  BY <1>1 DEF UiQuiet, BarEnds, StateFollows
<1>4. ReleaseFollows
  BY <1>1 DEF ReleaseFollows
<1> QED BY <1>1, <1>2, <1>3, <1>4 DEF SceneInv

LEMMA PostsKeeps == SceneInv /\ Posts => SceneInv'
<1> SUFFICES ASSUME SceneInv, Posts PROVE SceneInv'
  OBVIOUS
<1> USE DEF SceneInv
<1>1. PICK kinds \in Seq(Kinds \ {"down", "up"}) :
         /\ Sends(kinds)
         /\ counting' = counting \/ (counting' \in BOOLEAN /\ "state" \in Range(kinds))
  BY DEF Posts
<1>2. kinds \in Seq(Kinds) /\ Range(kinds) \subseteq Kinds \ {"down", "up"}
  BY DEF Range
<1>3. /\ QueueOK' /\ Len(events) <= Len(events')
      /\ \A i \in 1..Len(events) : events'[i] = events[i]
      /\ \A i \in 1..Len(events') : i > Len(events) => events'[i] \in Range(kinds)
      /\ \A k \in Kinds \ Range(kinds) : k \in lost' <=> k \in lost
      /\ \A k \in Range(kinds) :
            k \in lost' \/ \E i \in 1..Len(events') : i > Len(events) /\ events'[i] = k
  BY <1>1, <1>2, SendsFacts
<1>4. Len(events) \in Nat /\ Len(events') \in Nat
  BY <1>3 DEF QueueOK
<1>5. /\ UNCHANGED <<phase, scene, hold, held, device>> /\ phase # "off"
      /\ Down' = Down /\ ("up" \in lost' <=> "up" \in lost)
  BY <1>2, <1>3 DEF Posts, Listens, Down, Kinds
<1>6. \A k : Queued(k) => Queued(k)'
  BY <1>3, <1>4 DEF Queued, Contains
<1>7. ReleaseFollows'
  <2> SUFFICES ASSUME NEW i \in 1..Len(events'), events'[i] = "down",
                      ~ Down, "up" \notin lost
               PROVE  \E j \in 1..Len(events') : j > i /\ events'[j] = "up"
    BY <1>5 DEF ReleaseFollows
  <2>1. i \in 1..Len(events) /\ events[i] = "down"
    BY <1>2, <1>3, <1>4
  <2>2. PICK j \in 1..Len(events) : j > i /\ events[j] = "up"
    BY <2>1 DEF ReleaseFollows
  <2> QED BY <1>3, <1>4, <2>2
<1>8. BarEnds'
  BY <1>5, <1>6 DEF BarEnds
<1>9. StateFollows'
  <2>1. CASE "state" \in Range(kinds)
    <3>1. "state" \in lost' \/ Queued("state")'
      BY <1>3, <1>4, <2>1 DEF Queued, Contains
    <3> QED BY <3>1 DEF StateFollows
  <2>2. CASE "state" \notin Range(kinds)
    <3>1. counting' = counting /\ ("state" \in lost' <=> "state" \in lost)
      BY <1>1, <1>3, <2>2 DEF Kinds
    <3> QED BY <1>5, <1>6, <3>1 DEF StateFollows
  <2> QED BY <2>1, <2>2
<1>10. counting' \in BOOLEAN /\ hold' \in BOOLEAN /\ UiQuiet'
  BY <1>1, <1>5 DEF UiQuiet
<1> QED BY <1>3, <1>7, <1>8, <1>9, <1>10

LEMMA RestsKeeps == SceneInv /\ Rests => SceneInv'
<1> SUFFICES ASSUME SceneInv, Rests PROVE SceneInv'
  OBVIOUS
<1>1. UNCHANGED <<scene, events, counting, hold, lost, held, device>>
  BY DEF Rests
<1>2. QueueOK' /\ ReleaseFollows' /\ BarEnds'
  BY <1>1 DEF SceneInv, QueueOK, ReleaseFollows, BarEnds, Down, Queued, Contains
<1>3. StateFollows'
  BY <1>1 DEF SceneInv, StateFollows, Queued, Contains, Rests
<1>4. UiQuiet'
  BY <1>1 DEF SceneInv, UiQuiet, Rests
<1> QED BY <1>1, <1>2, <1>3, <1>4 DEF SceneInv

\* A press or a hold that is announced.
LEMMA ButtonKeeps ==
    SceneInv /\ ButtonTypeOK /\ (PressesButton \/ HoldsButton \/ ReleasesButton) => SceneInv'
<1> SUFFICES ASSUME SceneInv, ButtonTypeOK,
                    PressesButton \/ HoldsButton \/ ReleasesButton
             PROVE  SceneInv'
  OBVIOUS
<1> USE DEF SceneInv
<1>1. CASE PressesButton
  <2>1. UNCHANGED uiVars /\ held = Up /\ held' = 0 /\ device' = device
    BY <1>1 DEF PressesButton, Presses
  <2>2. ~ Down \/ device # "runs"
    BY <2>1 DEF Down, Up, Debounced, Reset
  <2>3. Down => Down'
    BY <2>1, <2>2 DEF Down
  <2> QED
    BY <2>1, <2>3 DEF uiVars, flags, QueueOK, UiQuiet, ReleaseFollows, BarEnds,
       StateFollows, Queued, Contains
<1>2. ASSUME NEW kind \in {"down", "hold", "up"}, Notices(kind),
             Down => Down' \/ kind = "up", kind = "down" => Down'
      PROVE  SceneInv'
  <2>1. UNCHANGED <<phase, scene, counting, hold>>
    BY <1>2 DEF Notices, flags
  <2>2. CASE ~ Listens
    <3>1. events' = events /\ lost' = lost /\ events = <<>> /\ hold = FALSE /\ phase = "off"
      BY <1>2, <2>2 DEF Notices, Listens, UiQuiet
    <3> QED BY <2>1, <3>1 DEF QueueOK, UiQuiet, ReleaseFollows, BarEnds,
               StateFollows, Queued, Contains
  <2>3. CASE Listens
    <3>1. kind \in Kinds /\ Sends(<<kind>>)
      BY <1>2, <2>3 DEF Notices, Kinds
    <3>2. /\ QueueOK' /\ Len(events) <= Len(events')
          /\ \A i \in 1..Len(events) : events'[i] = events[i]
          /\ \A i \in 1..Len(events') : i > Len(events) => events'[i] = kind
          /\ \A k \in Kinds \ {kind} : k \in lost' <=> k \in lost
          /\ kind \in lost' \/ \E i \in 1..Len(events') : i > Len(events) /\ events'[i] = kind
      BY <3>1, SendsOne
    <3>3. Len(events) \in Nat /\ Len(events') \in Nat
      BY <3>2 DEF QueueOK
    <3>4. \A k : Queued(k) => Queued(k)'
      BY <3>2, <3>3 DEF Queued, Contains
    <3>5. UiQuiet'
      BY <2>1, <2>3 DEF UiQuiet, Listens
    <3>6. StateFollows'
      BY <2>1, <3>2, <3>4, <1>2 DEF StateFollows, Kinds
    <3>7. BarEnds'
      <4>1. CASE kind = "up"
        BY <4>1, <3>2, <3>3 DEF BarEnds, Queued, Contains
      <4>2. CASE kind # "up"
        BY <4>2, <2>1, <3>2, <3>4, <1>2 DEF BarEnds, Kinds
      <4> QED BY <4>1, <4>2
    <3>8. ReleaseFollows'
      <4>1. CASE Down'
        BY <4>1 DEF ReleaseFollows
      <4>2. CASE ~ Down' /\ kind = "up"
        <5> SUFFICES ASSUME NEW i \in 1..Len(events'), events'[i] = "down",
                            "up" \notin lost'
                     PROVE  \E j \in 1..Len(events') : j > i /\ events'[j] = "up"
          BY DEF ReleaseFollows
        <5>1. i <= Len(events)
          BY <3>2, <3>3, <4>2
        <5> QED BY <3>2, <3>3, <4>2, <5>1
      <4>3. CASE ~ Down' /\ kind = "hold"
        <5> SUFFICES ASSUME NEW i \in 1..Len(events'), events'[i] = "down",
                            "up" \notin lost'
                     PROVE  \E j \in 1..Len(events') : j > i /\ events'[j] = "up"
          BY DEF ReleaseFollows
        <5>1. i \in 1..Len(events) /\ events[i] = "down" /\ ~ Down /\ "up" \notin lost
          BY <1>2, <3>2, <3>3, <4>3 DEF Kinds
        <5>2. PICK j \in 1..Len(events) : j > i /\ events[j] = "up"
          BY <5>1 DEF ReleaseFollows
        <5> QED BY <3>2, <3>3, <5>2
      <4> QED BY <1>2, <4>1, <4>2, <4>3
    <3> QED BY <2>1, <3>2, <3>5, <3>6, <3>7, <3>8
  <2> QED BY <2>2, <2>3
<1>3. CASE HoldsButton
  <2>1. /\ device' = device /\ held \in 0..4 /\ held' = held + 1
        /\ Notices(IF held' = Debounced THEN "down" ELSE "hold")
    BY <1>3 DEF HoldsButton, Holds, ButtonTypeOK, Reset, Up
  <2>2. Down'
    BY <2>1 DEF Down, Debounced, Reset
  <2> QED BY <1>2, <2>1, <2>2
<1>4. CASE ReleasesButton
  <2>1. PICK d \in 0..Reset :
          /\ Releases(d)
          /\ IF Announced(d) THEN Notices("up") ELSE UNCHANGED uiVars
    BY <1>4 DEF ReleasesButton
  <2>2. CASE Announced(d)
    BY <1>2, <2>1, <2>2
  <2>3. CASE ~ Announced(d)
    <3>1. Down => Down'
      <4>1. d = 0 \/ d \in {Restart, Reset}
        BY <2>3 DEF Announced, Debounced, Restart, Reset
      <4>2. d = 0 => ~ Down
        BY <2>1 DEF Releases, Lengths, Down, Debounced, Reset, ButtonTypeOK, Up
      <4>3. d \in {Restart, Reset} => device' # "runs"
        BY <2>1 DEF Releases, Wipes, Restarts
      <4> QED BY <4>1, <4>2, <4>3 DEF Down
    <3>2. UNCHANGED uiVars
      BY <2>1, <2>3
    <3> QED
      BY <3>1, <3>2 DEF uiVars, flags, QueueOK, UiQuiet, ReleaseFollows, BarEnds,
         StateFollows, Queued, Contains
  <2> QED BY <2>2, <2>3
<1> QED BY <1>1, <1>3, <1>4

LEMMA UiTaskKeeps == SceneInv /\ UiWorks => SceneInv'
<1> SUFFICES ASSUME SceneInv, UiTask(tiltOn), UNCHANGED <<held, device>> PROVE SceneInv'
  BY DEF UiWorks, buttonVars
<1> USE DEF SceneInv
<1>0. Down' = Down
  BY DEF Down
<1>1. ASSUME UNCHANGED <<events, flags, lost>>, phase # "off", phase' # "off",
             StateFollows'
      PROVE  SceneInv'
  BY <1>1, <1>0 DEF flags, QueueOK, UiQuiet, ReleaseFollows, BarEnds, Queued, Contains
<1>2. CASE ShowsBoot(tiltOn)
  <2>1. /\ UNCHANGED <<events, flags, lost>> /\ phase \in {"spawned", "splash", "brand"}
        /\ \/ phase' \in {"splash", "brand"}
           \/ phase' = "runs" /\ scene' = "idle"
    BY <1>2 DEF ShowsBoot, BootScene
  <2>2. StateFollows'
    BY <2>1 DEF StateFollows, flags, Queued, Contains
  <2> QED BY <1>1, <2>1, <2>2
<1>3. CASE EndsMessage(tiltOn)
  <2>1. /\ UNCHANGED <<events, flags, lost>> /\ phase = "runs" /\ phase' = "runs"
        /\ scene' = TimerScene
    BY <1>3 DEF EndsMessage
  <2>2. StateFollows'
    BY <2>1 DEF StateFollows, TimerScene, flags
  <2> QED BY <1>1, <2>1, <2>2
<1>4. CASE Blinks(tiltOn)
  <2>1. UNCHANGED <<phase, scene, events, flags, lost>> /\ phase = "runs"
    BY <1>4 DEF Blinks
  <2>2. StateFollows'
    BY <2>1 DEF StateFollows, flags, Queued, Contains
  <2> QED BY <1>1, <2>1, <2>2
<1>5. ASSUME NEW kind, Takes(kind), hold' \in BOOLEAN, StateFollows', BarEnds' PROVE SceneInv'
  <2>1. /\ QueueOK' /\ Len(events') = Len(events) - 1
        /\ \A i \in 1..Len(events') : events'[i] = events[i + 1]
    BY <1>5, TakesFacts
  <2>2. Len(events) \in Nat /\ Len(events') \in Nat
    BY <2>1 DEF QueueOK
  <2>3. UNCHANGED <<phase, counting, lost>> /\ phase = "runs"
    BY <1>5 DEF Takes
  <2>4. ReleaseFollows'
    <3> SUFFICES ASSUME NEW i \in 1..Len(events'), events'[i] = "down",
                        ~ Down, "up" \notin lost
                 PROVE  \E j \in 1..Len(events') : j > i /\ events'[j] = "up"
      BY <1>0, <2>3 DEF ReleaseFollows
    <3>1. i + 1 \in 1..Len(events) /\ events[i + 1] = "down"
      BY <2>1, <2>2
    <3>2. PICK j \in 1..Len(events) : j > i + 1 /\ events[j] = "up"
      BY <3>1 DEF ReleaseFollows
    <3>3. j - 1 \in 1..Len(events') /\ events'[j - 1] = "up" /\ j - 1 > i
      BY <2>1, <2>2, <3>2
    <3> QED BY <3>3
  <2> QED BY <1>5, <2>1, <2>3, <2>4 DEF UiQuiet
<1>6. ASSUME NEW kind, Takes(kind), kind \notin {"down", "up"}, hold' = hold PROVE BarEnds'
  BY <1>0, <1>6, TakesOther DEF BarEnds, Takes
<1>7. ASSUME NEW kind, Takes(kind), kind # "state", scene' = scene PROVE StateFollows'
  BY <1>7, TakesOther DEF StateFollows, Takes
<1>8. CASE HandlesState(tiltOn)
  <2>1. Takes("state") /\ hold' = hold
        /\ scene' = IF scene \in Messages THEN scene ELSE TimerScene
    BY <1>8 DEF HandlesState
  <2>2. StateFollows'
    BY <2>1 DEF StateFollows, TimerScene, Takes
  <2> QED BY <1>5, <1>6, <2>1, <2>2
<1>9. CASE HandlesTick(tiltOn)
  BY <1>9, <1>5, <1>6, <1>7 DEF HandlesTick
<1>10. CASE HandlesRender(tiltOn)
  BY <1>10, <1>5, <1>6, <1>7 DEF HandlesRender
<1>11. ASSUME NEW kind \in Kinds, HandlesMessage(kind, tiltOn) PROVE SceneInv'
  <2>1. kind \in Messages /\ Takes(kind) /\ scene' = kind /\ hold' = hold
    BY <1>11 DEF HandlesMessage
  <2>2. StateFollows'
    BY <2>1 DEF StateFollows, Takes
  <2> QED BY <1>5, <1>6, <2>1, <2>2 DEF Messages
<1>12. ASSUME NEW kind \in Kinds, HandlesButton(kind, tiltOn) PROVE SceneInv'
  <2>1. /\ kind \in {"down", "hold", "up"} /\ Takes(kind) /\ scene' = scene
        /\ hold' = (kind = "down" \/ (kind = "hold" /\ hold))
    BY <1>12 DEF HandlesButton
  <2>2. BarEnds'
    <3>1. CASE kind = "down"
      <4> SUFFICES ASSUME ~ Down, "up" \notin lost PROVE Queued("up")'
        BY <1>0, <2>1 DEF BarEnds, Takes
      <4>1. events[1] = "down" /\ Len(events) >= 1 /\ Len(events) \in Nat
        BY <2>1, <3>1, TakesFacts DEF QueueOK
      <4>2. Queued("up")
        BY <4>1 DEF ReleaseFollows, Queued, Contains
      <4> QED BY <2>1, <3>1, <4>2, TakesOther
    <3>2. CASE kind = "hold"
      BY <2>1, <3>2, <1>0, TakesOther DEF BarEnds, Takes
    <3>3. CASE kind = "up"
      BY <2>1, <3>3 DEF BarEnds
    <3> QED BY <2>1, <3>1, <3>2, <3>3
  <2>3. StateFollows'
    BY <2>1, <1>7
  <2>4. hold' \in BOOLEAN
    BY <2>1
  <2> QED BY <1>5, <2>1, <2>2, <2>3, <2>4
<1> QED BY <1>2, <1>3, <1>4, <1>8, <1>9, <1>10, <1>11, <1>12 DEF UiTask

LEMMA SceneNext_Inv == SceneInv /\ ButtonInv /\ [Next]_panelVars => SceneInv'
<1>1. SceneInv /\ Reboots => SceneInv'
  <2> SUFFICES ASSUME Reboots PROVE SceneInv'
    OBVIOUS
  <2>1. events' = <<>> /\ hold' = FALSE /\ counting' = FALSE /\ phase' = "off"
    BY DEF Reboots, UiBoots
  <2>2. QueueOK'
    BY <2>1, EventsAssumption DEF QueueOK
  <2>3. UiQuiet' /\ BarEnds' /\ StateFollows'
    BY <2>1 DEF UiQuiet, BarEnds, StateFollows
  <2>4. ReleaseFollows'
    BY <2>1 DEF ReleaseFollows
  <2> QED BY <2>1, <2>2, <2>3, <2>4 DEF SceneInv
<1>2. SceneInv /\ UNCHANGED panelVars => SceneInv'
  BY RestsKeeps DEF panelVars, uiVars, flags, buttonVars, Rests
<1> QED
  BY <1>1, <1>2, PanelSteps, PostsKeeps, RestsKeeps, ButtonKeeps, UiTaskKeeps DEF ButtonInv

THEOREM SceneCorrect == Spec => []SceneInv
<1> QED BY SceneInit_Inv, SceneNext_Inv, ButtonCorrect, PTL DEF Spec

\* bf_ui.c: no order of messages, boot scenes and changes of the timer leaves the
\* wrong scene, for every length of the queue and every environment.
THEOREM SceneRight == Spec => []SceneFollowsTimer
<1>1. SceneInv => SceneFollowsTimer
  BY DEF SceneInv, StateFollows, SceneFollowsTimer
<1> QED BY <1>1, SceneCorrect, PTL

\* sk_button.c, bf_ui.c: the hold bar stands no longer than the press.
THEOREM HoldBarRight == Spec => []HoldBarFollows
<1>1. SceneInv => HoldBarFollows
  BY DEF SceneInv, BarEnds, Down, HoldBarFollows
<1> QED BY <1>1, SceneCorrect, PTL

(***************************************************************************)
(* The panel.  A drawing that is under way alone, or was the last one and  *)
(* was not spoiled, is the picture of now; two at once are both spoiled.   *)
(* The flag of bf_ui.c is the latch of bf_battery.c, because the latch     *)
(* needs more samples than there are before bf_ui.c listens.               *)
(***************************************************************************)
SwitchesOK == /\ switch \in [Switches -> BOOLEAN]
              /\ saved \in [Switches -> BOOLEAN]

LatchInv ==
    /\ lockout \in BOOLEAN /\ locked = lockout
    /\ phase = "off" => /\ lockout = FALSE
                        /\ step \in {"first", "charge", "lockout"} => streak = 0

Shown(x) == /\ x.shows = "low battery" <=> lockout
            /\ ~ Queued("render") => x = Picture(tiltOn)

DrawingShown ==
    \A t \in Tasks : t \notin spoiled /\ ~ Idle(t) =>
        /\ Shown(drawing[t])
        /\ \A u \in Tasks : u # t => Idle(u)

ShowInv == /\ scene \in Scenes /\ DOMAIN drawing = Tasks
           /\ DrawingShown
           /\ AllDrawn /\ ~ stale => Shown(screen)

LEMMA SwitchesNext_Inv == SwitchesOK /\ [Next]_panelVars => SwitchesOK'
<1> USE DEF SwitchesOK, vibrationVars, motorVars
<1>1. SwitchesOK /\ UNCHANGED <<switch, saved>> => SwitchesOK'
  OBVIOUS
<1>2. ASSUME SwitchesOK, NEW s \in Switches, NEW on \in BOOLEAN, Switched(s, on)
      PROVE  SwitchesOK'
  BY <1>2 DEF Switched
<1>3. ASSUME SwitchesOK, SwitchesMotor \/ SwitchesWarning PROVE SwitchesOK'
  BY <1>2, <1>3 DEF SwitchesMotor, SetsEnabled, SwitchesWarning, SetsWarning, Switches
<1>4. SwitchesOK /\ Reboots => SwitchesOK'
  BY DEF Reboots, VibrationBoots
<1>5. Plugs \/ TimerChanges \/ TimerTicks \/ TimerExpires \/ CallFails \/ CubeTilts
        \/ BurstsMotor \/ PressesButton => UNCHANGED <<switch, saved>>
  BY DEF Plugs, TimerChanges, TimerTicks, TimerExpires, CallFails, CubeTilts, BurstsMotor,
         PressesButton
<1>6. HoldsButton \/ ReleasesButton \/ TimePasses \/ Samples \/ InitsUi \/ UiWorks
        => UNCHANGED <<switch, saved>>
  BY DEF HoldsButton, ReleasesButton, TimePasses, Samples, InitsUi, UiWorks
<1>7. MonitorTask => UNCHANGED <<switch, saved>>
  BY DEF MonitorTask, PublishesCharge, PublishesLockout, PublishesLevel
<1>8. MotorWorks => UNCHANGED <<switch, saved>>
  BY DEF MotorWorks, WorkerTask, TakesPattern, LooksAtSwitch, WritesPin, EndsPulse
<1>9. (\E t \in Tasks : Transfers(t)) => UNCHANGED <<switch, saved>>
  BY DEF Transfers
<1> QED
  BY <1>1, <1>3, <1>4, <1>5, <1>6, <1>7, <1>8, <1>9 DEF Next, Environment, panelVars

LEMMA LatchNext_Inv == LatchInv /\ [Next]_panelVars => LatchInv'
<1> SUFFICES ASSUME LatchInv, [Next]_panelVars PROVE LatchInv'
  OBVIOUS
<1> USE DEF LatchInv, latches, flags
<1>1. ASSUME UNCHANGED <<lockout, locked>>, phase' = phase \/ phase' # "off",
             UNCHANGED <<step, streak>>
      PROVE  LatchInv'
  BY <1>1
<1>2. ASSUME Notices("up") \/ Notices("down") \/ Notices("hold") \/ Notices("tick")
               \/ Notices("error")
      PROVE  UNCHANGED <<locked, phase>>
  BY <1>2 DEF Notices
<1>3. Plugs \/ TimerChanges \/ TimerTicks \/ TimerExpires \/ CallFails \/ CubeTilts
        \/ SwitchesMotor \/ BurstsMotor \/ SwitchesWarning \/ PressesButton => LatchInv'
  BY <1>1, <1>2
     DEF Plugs, PlugsCharger, TimerChanges, TimerTicks, TimerExpires, CallFails, CubeTilts,
         BurstsMotor, SwitchesMotor, SwitchesWarning, PressesButton, OnTimerState,
         OnTimerExpired, OnFaceTilted, batteryVars, uiVars
<1>4. HoldsButton \/ ReleasesButton \/ TimePasses \/ MotorWorks => LatchInv'
  BY <1>1, <1>2 DEF HoldsButton, ReleasesButton, TimePasses, MotorWorks, batteryVars, uiVars
<1>5. InitsUi => LatchInv'
  BY <1>1 DEF InitsUi, StartsUi, batteryVars
<1>6. UiWorks => LatchInv'
  <2>1. UiWorks => UNCHANGED locked /\ (phase' = phase \/ phase' # "off")
    <3>1. ShowsBoot(tiltOn) => UNCHANGED locked /\ phase' # "off"
      BY DEF ShowsBoot, BootScene
    <3>2. EndsMessage(tiltOn) \/ Blinks(tiltOn) => UNCHANGED <<locked, phase>>
      BY DEF EndsMessage, Blinks
    <3>3. HandlesState(tiltOn) \/ HandlesTick(tiltOn) \/ HandlesRender(tiltOn)
            => UNCHANGED <<locked, phase>>
      BY DEF HandlesState, HandlesTick, HandlesRender, Takes
    <3>4. \A kind \in Kinds : HandlesMessage(kind, tiltOn) \/ HandlesButton(kind, tiltOn)
            => UNCHANGED <<locked, phase>>
      BY DEF HandlesMessage, HandlesButton, Takes
    <3> QED BY <3>1, <3>2, <3>3, <3>4 DEF UiWorks, UiTask
  <2> QED BY <1>1, <2>1 DEF UiWorks, batteryVars
<1>7. (\E t \in Tasks : Transfers(t)) => LatchInv'
  BY <1>1 DEF Transfers, Presents, batteryVars
<1>8. Samples => LatchInv'
  BY DEF Samples, TakesSample, uiVars
<1>9. PublishesCharge => LatchInv'
  BY DEF PublishesCharge, UpdatesCharge, OnBatteryChargeState, uiVars
<1>10. PublishesLevel => LatchInv'
  BY DEF PublishesLevel, UpdatesLevel, OnBatteryLevel, uiVars
<1>11. CASE PublishesLockout
  <2>1. /\ step = "lockout" /\ step' = "alert" /\ lockout' = Latched
        /\ IF lockout' # lockout THEN OnBatteryLockout(lockout', tiltOn) ELSE UNCHANGED uiVars
    BY <1>11 DEF PublishesLockout, UpdatesLockout
  <2>2. lockout' \in BOOLEAN
    BY <2>1 DEF Latched
  <2>3. CASE phase = "off"
    <3>1. streak = 0 /\ lockout = FALSE
      BY <2>1, <2>3
    <3>2. lockout' = FALSE
      BY <2>1, <3>1, SamplesAssumption DEF Latched
    <3> QED BY <2>1, <3>1, <3>2 DEF uiVars
  <2>4. CASE phase # "off"
    <3>1. phase' = phase
      BY <2>1 DEF OnBatteryLockout, uiVars
    <3>2. locked' = lockout'
      BY <2>1, <2>4 DEF OnBatteryLockout, Listens, uiVars
    <3> QED BY <2>2, <2>4, <3>1, <3>2
  <2> QED BY <2>3, <2>4
<1>12. Reboots => LatchInv'
  BY DEF Reboots, BatteryBoots, UiBoots
<1>13. UNCHANGED panelVars => LatchInv'
  BY DEF panelVars, batteryVars, uiVars
<1> QED BY <1>3, <1>4, <1>5, <1>6, <1>7, <1>8, <1>9, <1>10, <1>11, <1>12, <1>13
        DEF Next, Environment, MonitorTask

\* What a step can be for the panel.
SamePicture == \/ Queued("render")'
               \/ ~ Queued("render") /\ Picture(tiltOn)' = Picture(tiltOn)

Leaves == /\ UNCHANGED <<canvas, lockout>> /\ scene' \in Scenes
          /\ SamePicture

Covers == Misses /\ UNCHANGED <<scene, lockout>>

Redraws(t) == /\ Draws(t, tiltOn) /\ UNCHANGED <<tilted, switch>>
              /\ scene' \in Scenes

LEMMA LeavesKeeps == ShowInv /\ Leaves => ShowInv'
<1> SUFFICES ASSUME ShowInv, Leaves PROVE ShowInv'
  OBVIOUS
<1>1. /\ UNCHANGED <<drawing, spoiled, screen, stale, lockout>>
      /\ SamePicture /\ scene' \in Scenes
  BY DEF Leaves, canvas
<1>2. ASSUME NEW x, Shown(x) PROVE (x.shows = "low battery" <=> lockout')
                                /\ (~ Queued("render")' => x = Picture(tiltOn)')
  BY <1>1, <1>2 DEF Shown, SamePicture
<1>3. DrawingShown'
  <2> SUFFICES ASSUME NEW t \in Tasks, t \notin spoiled, ~ Idle(t)
               PROVE  Shown(drawing[t])' /\ \A u \in Tasks : u # t => Idle(u)
    BY <1>1 DEF DrawingShown, Idle
  <2>1. Shown(drawing[t]) /\ \A u \in Tasks : u # t => Idle(u)
    BY DEF ShowInv, DrawingShown
  <2> QED BY <1>1, <1>2, <2>1 DEF Shown
<1>4. AllDrawn' /\ ~ stale' => Shown(screen)'
  <2> SUFFICES ASSUME AllDrawn, ~ stale PROVE Shown(screen)'
    BY <1>1 DEF AllDrawn, Idle
  <2>1. Shown(screen)
    BY DEF ShowInv
  <2> QED BY <1>1, <1>2, <2>1 DEF Shown
<1> QED BY <1>1, <1>3, <1>4 DEF ShowInv

LEMMA CoversKeeps == ShowInv /\ Covers => ShowInv'
<1> SUFFICES ASSUME ShowInv, Covers PROVE ShowInv'
  OBVIOUS
<1>1. spoiled' = Tasks /\ stale' = TRUE /\ drawing' = drawing /\ scene' = scene
  BY DEF Covers, Misses
<1> QED BY <1>1 DEF ShowInv, DrawingShown

LEMMA RedrawsKeeps ==
    ASSUME ShowInv, LatchInv', NEW t \in Tasks, Redraws(t)
    PROVE  ShowInv'
<1> DEFINE new == Picture(tiltOn)'
<1>1. /\ Idle(t) /\ UNCHANGED <<screen, stale>> /\ scene' \in Scenes
      /\ drawing' = [drawing EXCEPT ![t] = new]
      /\ spoiled' = IF \A u \in Tasks : Idle(u) THEN spoiled \ {t} ELSE Tasks
  BY DEF Redraws, Draws, Picture, tiltOn
<1>2. /\ DOMAIN drawing = Tasks /\ DOMAIN drawing' = Tasks /\ drawing'[t] = new
      /\ \A u \in Tasks : u # t => drawing'[u] = drawing[u]
  BY <1>1 DEF ShowInv
<1>3. (new.shows = "low battery" <=> lockout') /\ new.shows # "nothing"
  <2>1. new = IF locked' THEN [shows |-> "low battery", marks |-> {}]
              ELSE [shows |-> scene',
                    marks |-> Bar(scene', hold') \cup Plus(scene', charger')
                                \cup Overlay(scene', (tilted /\ tiltOn)')]
    BY DEF Picture, PictureOf
  <2>2. lockout' \in BOOLEAN /\ locked' = lockout'
    BY DEF LatchInv
  <2>3. scene' # "low battery" /\ scene' # "nothing"
    BY <1>1 DEF Scenes, Messages
  <2>4. CASE lockout'
    <3>1. locked' = TRUE
      BY <2>2, <2>4
    <3>2. new = [shows |-> "low battery", marks |-> {}]
      BY <2>1, <3>1
    <3>3. [shows |-> "low battery", marks |-> {}].shows = "low battery"
      OBVIOUS
    <3> HIDE DEF new
    <3> QED BY <2>4, <3>2, <3>3
  <2>5. CASE ~ lockout'
    <3>1. new.shows = scene'
      BY <2>1, <2>2, <2>5
    <3> QED BY <2>3, <2>5, <3>1
  <2> QED BY <2>4, <2>5
<1> HIDE DEF new
<1>4. ~ Idle(t)'
  <2>1. Nothing.shows = "nothing"
    BY DEF Nothing
  <2>2. drawing'[t] # Nothing
    BY <1>2, <1>3, <2>1
  <2> QED BY <2>2 DEF Idle
<1>5. Shown(drawing[t])'
  BY <1>2, <1>3 DEF Shown, new
<1>6. DrawingShown'
  <2>1. CASE \A u \in Tasks : Idle(u)
    <3>1. \A u \in Tasks : u # t => Idle(u)'
      BY <1>2, <2>1 DEF Idle
    <3> QED BY <1>5, <3>1 DEF DrawingShown
  <2>2. CASE ~ \A u \in Tasks : Idle(u)
    <3>1. spoiled' = Tasks
      BY <1>1, <2>2
    <3> QED BY <3>1 DEF DrawingShown
  <2> QED BY <2>1, <2>2
<1>7. ~ AllDrawn'
  BY <1>4 DEF AllDrawn
<1> QED BY <1>1, <1>2, <1>6, <1>7 DEF ShowInv

LEMMA PresentsKeeps ==
    ASSUME ShowInv, NEW t \in Tasks, Presents(t), UNCHANGED <<lockout, switch>>
    PROVE  ShowInv'
<1>1. /\ ~ Idle(t) /\ screen' = drawing[t]
      /\ drawing' = [drawing EXCEPT ![t] = Nothing]
      /\ UNCHANGED <<scene, events, hold, locked, charger, tilted, spoiled, lockout, switch>>
      /\ ~ stale' => t \notin spoiled
  BY DEF Presents, flags
<1>2. /\ DOMAIN drawing' = Tasks /\ Idle(t)'
      /\ \A u \in Tasks : u # t => drawing'[u] = drawing[u]
  BY <1>1 DEF ShowInv, Idle
<1>3. Picture(tiltOn)' = Picture(tiltOn) /\ (Queued("render")' <=> Queued("render"))
  BY <1>1 DEF Picture, PictureOf, tiltOn, Queued
<1>4. ASSUME NEW x, Shown(x) PROVE (x.shows = "low battery" <=> lockout')
                                /\ (~ Queued("render")' => x = Picture(tiltOn)')
  <2>1. (x.shows = "low battery" <=> lockout) /\ lockout' = lockout
    BY <1>1, <1>4 DEF Shown
  <2>2. ~ Queued("render") => x = Picture(tiltOn)
    BY <1>4 DEF Shown
  <2> QED BY <1>3, <2>1, <2>2
<1>5. DrawingShown'
  <2> SUFFICES ASSUME NEW u \in Tasks, u \notin spoiled, ~ Idle(u)'
               PROVE  FALSE
    BY <1>1 DEF DrawingShown
  <2>1. u # t /\ ~ Idle(u)
    BY <1>2 DEF Idle
  <2> QED BY <1>1, <2>1 DEF ShowInv, DrawingShown
<1>6. ASSUME ~ stale' PROVE Shown(screen)'
  <2>1. Shown(drawing[t])
    BY <1>1, <1>6 DEF ShowInv, DrawingShown
  <2> QED BY <1>1, <1>4, <2>1 DEF Shown
<1> QED BY <1>1, <1>2, <1>5, <1>6 DEF ShowInv

\* Which step is which.
LEMMA SameWhenSame ==
    ASSUME UNCHANGED <<locked, scene, hold, charger, tilted, switch>>,
           Queued("render") => Queued("render")'
    PROVE  SamePicture
<1>1. Picture(tiltOn)' = Picture(tiltOn)
  BY DEF Picture, PictureOf, tiltOn
<1> QED BY <1>1 DEF SamePicture

LEMMA SendsKeepsQueued ==
    ASSUME QueueOK, NEW kinds \in Seq(Kinds), Sends(kinds), NEW k
    PROVE  Queued(k) => Queued(k)'
<1>1. /\ QueueOK' /\ Len(events) <= Len(events')
      /\ \A i \in 1..Len(events) : events'[i] = events[i]
  BY SendsFacts
<1> QED BY <1>1 DEF Queued, Contains, QueueOK

LEMMA UiTaskShows ==
    ASSUME ShowInv, QueueOK, UiTask(tiltOn), UNCHANGED <<lockout, switch>>
    PROVE  Leaves \/ Redraws("bf_ui")
<1> USE DEF flags
<1>1. "idle" \in Scenes /\ "countdown" \in Scenes /\ Messages \subseteq Scenes
  BY DEF Scenes
<1>2. scene \in Scenes
  BY DEF ShowInv
<1>3. CASE ShowsBoot(tiltOn)
  <2>1. scene' \in Scenes
    BY <1>3 DEF ShowsBoot, BootScene, Scenes
  <2> QED BY <1>3, <2>1 DEF ShowsBoot, Redraws
<1>4. CASE EndsMessage(tiltOn) \/ Blinks(tiltOn)
  BY <1>1, <1>2, <1>4 DEF EndsMessage, Blinks, TimerScene, Redraws
<1>5. CASE HandlesState(tiltOn)
  BY <1>1, <1>2, <1>5 DEF HandlesState, Takes, TimerScene, Redraws
<1>6. CASE HandlesRender(tiltOn)
  BY <1>2, <1>6 DEF HandlesRender, Takes, Redraws
<1>7. CASE HandlesTick(tiltOn)
  <2>1. Takes("tick") /\ UNCHANGED <<scene, hold>>
    BY <1>7 DEF HandlesTick
  <2>2. CASE scene = "countdown"
    BY <1>2, <1>7, <2>1, <2>2 DEF HandlesTick, Takes, Redraws
  <2>3. CASE scene # "countdown"
    <3>1. SamePicture
      BY <2>1, SameWhenSame, TakesOther DEF Takes
    <3> QED BY <1>2, <1>7, <2>1, <2>3, <3>1 DEF HandlesTick, DrawsNothing, Leaves
  <2> QED BY <2>2, <2>3
<1>8. ASSUME NEW kind \in Kinds, HandlesMessage(kind, tiltOn) PROVE Redraws("bf_ui")
  BY <1>1, <1>8 DEF HandlesMessage, Takes, Redraws
<1>9. ASSUME NEW kind \in Kinds, HandlesButton(kind, tiltOn)
      PROVE  Leaves \/ Redraws("bf_ui")
  <2>1. Takes(kind) /\ kind # "render" /\ scene' = scene
    BY <1>9 DEF HandlesButton
  <2>2. CASE scene = "idle"
    BY <1>2, <1>9, <2>1, <2>2 DEF HandlesButton, Takes, Redraws
  <2>3. CASE scene # "idle"
    <3>1. Picture(tiltOn)' = Picture(tiltOn)
      BY <2>1, <2>3 DEF Takes, Picture, PictureOf, Bar, tiltOn
    <3>2. SamePicture
      BY <2>1, <3>1, TakesOther DEF SamePicture
    <3> QED BY <1>2, <1>9, <2>1, <2>3, <3>2 DEF HandlesButton, DrawsNothing, Leaves
  <2> QED BY <2>2, <2>3
<1> QED BY <1>3, <1>4, <1>5, <1>6, <1>7, <1>8, <1>9 DEF UiTask

LEMMA NoticesShows ==
    ASSUME ShowInv, QueueOK, NEW kind \in Kinds, Notices(kind), UNCHANGED <<lockout, switch>>
    PROVE  Leaves
<1>1. UNCHANGED <<phase, scene, flags, canvas>>
  BY DEF Notices, DrawsNothing
<1>2. Queued("render") => Queued("render")'
  <2>1. CASE Listens
    <3>1. <<kind>> \in Seq(Kinds) /\ Sends(<<kind>>)
      BY <2>1 DEF Notices
    <3> QED BY <3>1, SendsKeepsQueued
  <2>2. CASE ~ Listens
    BY <2>2 DEF Notices, Queued, Contains
  <2> QED BY <2>1, <2>2
<1>3. SamePicture
  BY <1>1, <1>2, SameWhenSame DEF flags
<1> QED BY <1>1, <1>3 DEF Leaves, ShowInv

LEMMA ShowSteps ==
    ShowInv /\ LatchInv /\ LatchInv' /\ QueueOK /\ SwitchesOK /\ Next =>
        \/ Leaves \/ Covers \/ \E t \in Tasks : Redraws(t)
        \/ (\E t \in Tasks : Presents(t)) /\ UNCHANGED <<lockout, switch>>
        \/ Reboots
<1> SUFFICES ASSUME ShowInv, LatchInv, LatchInv', QueueOK, SwitchesOK, Next, ~ Reboots
             PROVE  \/ Leaves \/ Covers \/ \E t \in Tasks : Redraws(t)
                    \/ (\E t \in Tasks : Presents(t)) /\ UNCHANGED <<lockout, switch>>
  OBVIOUS
<1> USE DEF latches, vibrationVars, batteryVars
<1>0. scene \in Scenes /\ "bf_ui" \in Tasks /\ "bf_battery" \in Tasks
  BY DEF ShowInv, Tasks
<1>1. ASSUME UNCHANGED <<uiVars, lockout>>, switch'["tilt"] = switch["tilt"] PROVE Leaves
  <2>1. UNCHANGED <<locked, scene, events, hold, charger, tilted, canvas>>
    BY <1>1 DEF uiVars, flags
  <2>2. tiltOn' = tiltOn
    BY <1>1 DEF tiltOn
  <2>3. Picture(tiltOn)' = Picture(tiltOn) /\ Queued("render")' = Queued("render")
    BY <2>1, <2>2 DEF Picture, PictureOf, Queued
  <2> QED BY <1>0, <1>1, <2>1, <2>3 DEF Leaves, SamePicture
<1>2. CASE Plugs \/ BurstsMotor \/ PressesButton \/ TimePasses \/ Samples
  BY <1>1, <1>2 DEF Plugs, PlugsCharger, BurstsMotor, PressesButton, TimePasses, Samples,
     TakesSample
<1>3. CASE MotorWorks
  <2>1. UNCHANGED <<uiVars, lockout, switch>>
    BY <1>3 DEF MotorWorks, WorkerTask, TakesPattern, LooksAtSwitch, WritesPin, EndsPulse
  <2> QED BY <1>1, <2>1
<1>4. CASE SwitchesMotor
  <2>1. UNCHANGED <<uiVars, lockout>> /\ \E on \in BOOLEAN : switch' = [switch EXCEPT !["vibration"] = on]
    BY <1>4 DEF SwitchesMotor, SetsEnabled, Switched
  <2>2. switch'["tilt"] = switch["tilt"]
    BY <2>1 DEF SwitchesOK, Switches
  <2> QED BY <1>1, <2>1, <2>2
<1>5. CASE SwitchesWarning
  <2>1. UNCHANGED <<lockout, phase, scene, events, flags, lost>>
    BY <1>5 DEF SwitchesWarning
  <2>2. CASE tilted /\ tiltOn' # tiltOn
    BY <1>5, <2>1, <2>2 DEF SwitchesWarning, Covers
  <2>3. CASE ~ (tilted /\ tiltOn' # tiltOn)
    <3>1. UNCHANGED canvas
      BY <1>5, <2>3 DEF SwitchesWarning, DrawsNothing
    <3>2. (tilted /\ tiltOn)' = (tilted /\ tiltOn)
      BY <2>1, <2>3 DEF flags
    <3>3. Picture(tiltOn)' = Picture(tiltOn) /\ Queued("render")' = Queued("render")
      BY <2>1, <3>2 DEF Picture, PictureOf, Queued, flags
    <3> QED BY <1>0, <2>1, <3>1, <3>3 DEF Leaves, SamePicture
  <2> QED BY <2>2, <2>3
<1>6. CASE TimerChanges
  <2>1. PICK runs \in BOOLEAN : OnTimerState(runs)
    BY <1>6 DEF TimerChanges
  <2>2. <<"state">> \in Seq(Kinds) /\ Sends(<<"state">>)
    BY <2>1 DEF OnTimerState, Kinds
  <2>3. Queued("render") => Queued("render")'
    BY <2>2, SendsKeepsQueued
  <2>4. UNCHANGED <<canvas, lockout, locked, scene, hold, charger, tilted, switch>>
    BY <1>6, <2>1 DEF TimerChanges, OnTimerState, DrawsNothing
  <2> QED BY <1>0, <2>3, <2>4, SameWhenSame DEF Leaves
<1>7. CASE TimerExpires
  <2>1. OnTimerExpired
    BY <1>7 DEF TimerExpires
  <2>2. /\ <<"tick", "break", "state", "state">> \in Seq(Kinds)
        /\ Sends(<<"tick", "break", "state", "state">>)
    BY <2>1 DEF OnTimerExpired, Kinds, Messages
  <2>3. Queued("render") => Queued("render")'
    BY <2>2, SendsKeepsQueued
  <2>4. UNCHANGED <<canvas, lockout, locked, scene, hold, charger, tilted, switch>>
    BY <1>7, <2>1 DEF TimerExpires, OnTimerExpired, DrawsNothing
  <2> QED BY <1>0, <2>3, <2>4, SameWhenSame DEF Leaves
<1>8. CASE TimerTicks \/ CallFails \/ HoldsButton
  <2>1. PICK kind \in {"tick", "error", "down", "hold"} : Notices(kind)
    BY <1>8 DEF TimerTicks, CallFails, HoldsButton
  <2>2. kind \in Kinds
    BY DEF Kinds, Messages
  <2>3. UNCHANGED <<lockout, switch>>
    BY <1>8 DEF TimerTicks, CallFails, HoldsButton
  <2> QED BY <2>1, <2>2, <2>3, NoticesShows
<1>9. CASE ReleasesButton
  <2>1. UNCHANGED <<lockout, switch>> /\ (Notices("up") \/ UNCHANGED uiVars)
    BY <1>9 DEF ReleasesButton
  <2>2. "up" \in Kinds
    BY DEF Kinds
  <2> QED BY <1>1, <2>1, <2>2, NoticesShows
<1>10. CASE CubeTilts
  <2>1. PICK tilt \in BOOLEAN : OnFaceTilted(tilt)
    BY <1>10 DEF CubeTilts
  <2>2. UNCHANGED <<lockout, scene>>
    BY <1>10, <2>1 DEF CubeTilts, OnFaceTilted
  <2>3. CASE Len(events) < EventsLen
    <3>1. UNCHANGED canvas /\ Sends(<<"render">>)
      BY <2>1, <2>3 DEF OnFaceTilted, DrawsNothing
    <3>2. /\ <<"render">> \in Seq(Kinds) /\ Len(<<"render">>) = 1
          /\ Len(events) \in Nat /\ EventsLen \in Nat /\ Range(<<"render">>) = {"render"}
      BY EventsAssumption DEF Kinds, QueueOK, Range
    <3>3. Queued("render")'
      <4>1. Fits(<<"render">>) = SubSeq(<<"render">>, 1, 1)
        BY <2>3, <3>2 DEF Fits, Room
      <4>2. SubSeq(<<"render">>, 1, 1) \in Seq(Kinds) /\ Len(SubSeq(<<"render">>, 1, 1)) = 1
        BY <3>2
      <4>3. Len(events') = Len(events) + 1
        BY <3>1, <4>1, <4>2, ConcatProperties DEF Sends, QueueOK
      <4>4. \A i \in 1..Len(events') : i > Len(events) => events'[i] = "render"
        BY <3>1, <3>2, SendsFacts
      <4> QED BY <3>2, <4>3, <4>4 DEF Queued, Contains
    <3> QED BY <1>0, <2>2, <3>1, <3>3 DEF Leaves, SamePicture
  <2>4. CASE ~ Len(events) < EventsLen
    BY <2>1, <2>2, <2>4 DEF OnFaceTilted, Covers
  <2> QED BY <2>3, <2>4
<1>11. CASE PublishesCharge
  <2>1. UNCHANGED <<lockout, switch>>
    BY <1>11 DEF PublishesCharge, UpdatesCharge
  <2>2. CASE UNCHANGED uiVars
    BY <1>1, <2>1, <2>2
  <2>3. CASE OnBatteryChargeState(charge', tiltOn)
    <3>1. UNCHANGED <<scene, events, hold, locked, tilted>>
      BY <2>3 DEF OnBatteryChargeState
    <3>2. CASE charger' = charger
      <4>1. UNCHANGED canvas /\ Queued("render")' = Queued("render")
        BY <2>3, <3>1, <3>2 DEF OnBatteryChargeState, DrawsNothing, Queued
      <4> QED BY <1>0, <2>1, <3>1, <3>2, <4>1, SameWhenSame DEF Leaves
    <3>3. CASE charger' # charger
      BY <1>0, <2>1, <2>3, <3>1, <3>3 DEF OnBatteryChargeState, Redraws
    <3> QED BY <3>2, <3>3
  <2> QED BY <1>11, <2>2, <2>3 DEF PublishesCharge
<1>12. CASE PublishesLockout
  <2>1. UNCHANGED switch /\ UpdatesLockout
    BY <1>12 DEF PublishesLockout
  <2>2. CASE lockout' = lockout
    BY <1>1, <1>12, <2>1, <2>2 DEF PublishesLockout
  <2>3. CASE lockout' # lockout
    <3>1. OnBatteryLockout(lockout', tiltOn)
      BY <1>12, <2>3 DEF PublishesLockout
    <3>2. UNCHANGED <<phase, scene, tilted>> /\ locked' = IF Listens THEN lockout' ELSE locked
      BY <3>1 DEF OnBatteryLockout
    <3>3. Listens
      BY <2>3, <3>2 DEF LatchInv, Listens
    <3>4. locked' # locked
      BY <2>3, <3>2, <3>3 DEF LatchInv
    <3> QED BY <1>0, <2>1, <3>1, <3>2, <3>4 DEF OnBatteryLockout, Redraws
  <2> QED BY <2>2, <2>3
<1>13. CASE PublishesLevel
  <2>1. UNCHANGED <<lockout, switch>>
    BY <1>13 DEF PublishesLevel, UpdatesLevel
  <2>2. CASE UNCHANGED uiVars
    BY <1>1, <2>1, <2>2
  <2>3. CASE OnBatteryLevel(level')
    <3>1. UNCHANGED <<scene, events, hold, locked, charger, tilted, canvas>>
      BY <2>3 DEF OnBatteryLevel, DrawsNothing
    <3>2. Queued("render")' = Queued("render")
      BY <3>1 DEF Queued
    <3> QED BY <1>0, <2>1, <3>1, <3>2, SameWhenSame DEF Leaves
  <2> QED BY <1>13, <2>2, <2>3 DEF PublishesLevel
<1>14. CASE InitsUi
  <2>1. UNCHANGED <<lockout, switch, scene, events, hold, locked, charger, tilted, canvas>>
    BY <1>14 DEF InitsUi, StartsUi, DrawsNothing, flags
  <2>2. Queued("render")' = Queued("render")
    BY <2>1 DEF Queued
  <2> QED BY <1>0, <2>1, <2>2, SameWhenSame DEF Leaves
<1>15. CASE UiWorks
  <2>1. UiTask(tiltOn) /\ UNCHANGED <<lockout, switch>>
    BY <1>15 DEF UiWorks
  <2> QED BY <1>0, <2>1, UiTaskShows
<1>16. CASE \E t \in Tasks : Transfers(t)
  BY <1>16 DEF Transfers
<1> QED
  BY <1>2, <1>3, <1>4, <1>5, <1>6, <1>7, <1>8, <1>9, <1>10, <1>11, <1>12, <1>13, <1>14,
     <1>15, <1>16 DEF Next, Environment, MonitorTask

LEMMA ShowNext_Inv ==
    ShowInv /\ LatchInv /\ LatchInv' /\ QueueOK /\ SwitchesOK /\ [Next]_panelVars => ShowInv'
<1> SUFFICES ASSUME ShowInv, LatchInv, LatchInv', QueueOK, SwitchesOK, [Next]_panelVars
             PROVE  ShowInv'
  OBVIOUS
<1>1. CASE Reboots
  <2>1. /\ scene' = "splash" /\ stale' = TRUE
        /\ drawing' = [t \in Tasks |-> Nothing]
    BY <1>1 DEF Reboots, UiBoots
  <2>2. DrawingShown'
    BY <2>1 DEF DrawingShown, Idle
  <2> QED BY <2>1, <2>2 DEF ShowInv, Scenes
<1>2. CASE UNCHANGED panelVars
  <2>1. UNCHANGED <<canvas, lockout, scene, events, locked, hold, charger, tilted, switch>>
    BY <1>2 DEF panelVars, uiVars, flags, batteryVars, latches, vibrationVars
  <2>2. Queued("render")' = Queued("render")
    BY <2>1 DEF Queued
  <2> QED BY <2>1, <2>2, SameWhenSame, LeavesKeeps DEF Leaves, ShowInv
<1> QED
  BY <1>1, <1>2, ShowSteps, LeavesKeeps, CoversKeeps, RedrawsKeeps, PresentsKeeps

LEMMA ShowInit_Inv == Init => ShowInv /\ LatchInv /\ SwitchesOK
<1> SUFFICES ASSUME Init PROVE ShowInv /\ LatchInv /\ SwitchesOK
  OBVIOUS
<1>1. SwitchesOK
  BY DEF Init, VibrationInit, Defaults, SwitchesOK
<1>2. LatchInv
  BY DEF Init, BatteryInit, UiInit, LatchInv
<1>3. scene = "splash" /\ stale = TRUE /\ drawing = [t \in Tasks |-> Nothing]
  BY DEF Init, UiInit
<1>4. DrawingShown
  BY <1>3 DEF DrawingShown, Idle
<1>5. ShowInv
  BY <1>3, <1>4 DEF ShowInv, Scenes
<1> QED BY <1>1, <1>2, <1>5

THEOREM ShowCorrect == Spec => [](ShowInv /\ LatchInv /\ SwitchesOK)
<1>1. SceneInv => QueueOK
  BY DEF SceneInv
<1> QED
  BY <1>1, ShowInit_Inv, ShowNext_Inv, LatchNext_Inv, SwitchesNext_Inv, SceneCorrect,
     PTL DEF Spec

\* bf_ui.c, bf_battery.c: each change of the latch, the scene or a flag is on the
\* panel as soon as no task draws, whatever the queue drops, for every debounce of
\* two samples or more.
THEOREM ScreenRight == Spec => []ScreenTruthful
<1>1. ShowInv => ScreenTruthful
  BY DEF ShowInv, ScreenTruthful, Shown, LockoutShown, PictureCurrent
<1> QED BY <1>1, ShowCorrect, PTL
=============================================================================
