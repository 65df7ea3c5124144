----------------------------- MODULE FaceDetector -----------------------------
(***************************************************************************)
(* bf_face_detector.c: the cube is sampled at a period that follows the    *)
(* power state, a face is committed once it was stable for DEBOUNCE_MS,    *)
(* and an overlay comes up when no face was for TILT_TRIGGER_MS.           *)
(*                                                                         *)
(* Time is counted in units of a poll; a timestamp is the time since.      *)
(* vTaskDelay ends on a tick, so two samples that are N units apart may    *)
(* measure a little less or a little more: a limit that is reached exactly *)
(* may hold or not.                                                        *)
(***************************************************************************)
EXTENDS Integers

CONSTANTS
    Faces,                          \* what classify returns
    None,                           \* BF_FACE_NONE
    Debounce, TiltTrigger,          \* DEBOUNCE_MS, TILT_TRIGGER_MS
    PollActive, PollScreen, PollLow \* POLL_PERIOD_*_MS

ASSUME FacesAssumption  == None \in Faces
ASSUME LimitsAssumption == Debounce \in Nat /\ TiltTrigger \in Nat
ASSUME PeriodAssumption == /\ {PollActive, PollScreen, PollLow} \subseteq Nat \ {0}
                           /\ PollActive <= PollScreen /\ PollScreen <= PollLow

VARIABLES
    cube,       \* how the cube lies
    face,       \* s_committed_face
    pending,    \* s_pending_face
    age,        \* time since s_pending_started_us
    ambiguous,  \* time since s_tilt_started_us, or NoAge
    tilted,     \* s_tilted
    period,     \* s_poll_period_ms
    wait,       \* what is left of the delay of poll_task
    last,       \* history: the last sample that was read
    streak,     \* history: time since the samples have been that one
    rest        \* history: time since the cube was turned or a read failed

detector == <<face, pending, age, ambiguous, tilted, period, wait, last, streak>>
faceVars == <<cube, detector, rest>>

NoAge == -1

\* The longest time from a turn to its commit: the delay under way, the
\* debounce, and one more period when the limit falls between two samples.
Latency == PollLow + Debounce + PollLow

\* Timestamps older than every limit are not told apart.
OldAge == Latency + TiltTrigger + 1

Older(a) == IF a = OldAge \/ a = NoAge THEN a ELSE a + 1

FaceInit ==
    /\ cube \in Faces
    /\ face = None /\ pending = None /\ age = 0
    /\ ambiguous = NoAge /\ tilted = FALSE
    /\ period = PollActive /\ wait = 0
    /\ last = None /\ streak = 0 /\ rest = 0

(***************************************************************************)
(* process_sample.                                                         *)
(***************************************************************************)
\* No dominant axis: the overlay comes up when that has lasted.
Ambiguous ==
    /\ cube = None
    /\ ambiguous' = IF ambiguous = NoAge THEN 0 ELSE ambiguous
    /\ \/ ambiguous' >= TiltTrigger /\ tilted' = TRUE
       \/ ambiguous' <= TiltTrigger /\ UNCHANGED tilted

Flat == cube # None /\ ambiguous' = NoAge /\ tilted' = FALSE

\* Mutant of Settled: only the committed face clears what is pending.
SettledOnFace ==
    /\ cube \in {None, face}
    /\ IF cube = face THEN pending' = None /\ age' = 0 ELSE UNCHANGED <<pending, age>>
    /\ UNCHANGED face

\* Nothing new: the cube has to settle again before a commit.
Settled ==
    /\ cube \in {None, face}
    /\ pending' = None /\ age' = 0
    /\ UNCHANGED face

Begins ==
    /\ cube \notin {None, face, pending}
    /\ pending' = cube /\ age' = 0
    /\ UNCHANGED face

\* Mutant of Waits: every sample starts the debounce again.
WaitsAgain ==
    /\ cube \notin {None, face} /\ cube = pending
    /\ age <= Debounce
    /\ age' = 0
    /\ UNCHANGED <<face, pending>>

Waits ==
    /\ cube \notin {None, face} /\ cube = pending
    /\ age <= Debounce
    /\ UNCHANGED <<face, pending, age>>

\* commit: face.changed is published.
Commits ==
    /\ cube \notin {None, face} /\ cube = pending
    /\ age >= Debounce
    /\ face' = cube
    /\ pending' = None /\ age' = 0

(***************************************************************************)
(* poll_task, the subscriber of power.state, and the cube.                 *)
(***************************************************************************)
Poll ==
    /\ wait = 0
    /\ Ambiguous \/ Flat
    /\ Settled \/ Begins \/ Waits \/ Commits
    /\ wait' = period
    /\ last' = cube /\ streak' = IF cube = last THEN streak ELSE 0
    /\ UNCHANGED <<cube, period, rest>>

\* The sensor does not answer: the sample is skipped.
PollFails ==
    /\ wait = 0
    /\ wait' = period
    /\ rest' = 0
    /\ UNCHANGED <<cube, face, pending, age, ambiguous, tilted, period, last, streak>>

PeriodIn(s) == CASE s = "low_power"  -> PollLow
                 [] s = "screen_off" -> PollScreen
                 [] OTHER            -> PollActive

\* It counts from the next sample on.
OnPowerState(s) ==
    /\ period' = PeriodIn(s)
    /\ UNCHANGED <<cube, face, pending, age, ambiguous, tilted, wait, last, streak, rest>>

Turn ==
    /\ cube' \in Faces \ {cube}
    /\ rest' = 0
    /\ UNCHANGED detector

FacePass ==
    /\ wait > 0 /\ wait' = wait - 1
    /\ age' = IF pending = None THEN 0 ELSE Older(age)
    /\ ambiguous' = Older(ambiguous)
    /\ streak' = Older(streak)
    /\ rest' = Older(rest)
    /\ UNCHANGED <<cube, face, pending, tilted, period, last>>

FaceNext ==
    \/ Poll \/ PollFails \/ Turn \/ FacePass
    \/ \E s \in {"active_idle", "screen_off", "low_power"} : OnPowerState(s)

FaceSpec == FaceInit /\ [][FaceNext]_faceVars

(***************************************************************************)
(* Properties.                                                             *)
(***************************************************************************)
\* The types; what is pending is never what is committed already.
FaceTypeOK ==
    /\ {cube, face, pending, last} \subseteq Faces
    /\ {age, streak, rest} \subseteq 0..OldAge
    /\ ambiguous \in NoAge..OldAge
    /\ tilted \in BOOLEAN
    /\ period \in {PollActive, PollScreen, PollLow} /\ wait \in 0..PollLow
    /\ pending = face => pending = None

\* Whatever the order of turns, unread samples and changes of the period, a face
\* is only committed when every sample of at least DEBOUNCE_MS showed it.
Debounced == [][face' # face => last = face' /\ streak >= Debounce]_faceVars

\* A cube that is put down and read is committed within Latency, however the
\* period changed on the way.
SettlesInTime ==
    rest > Latency => cube \in {None, face}
===============================================================================
