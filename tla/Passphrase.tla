----------------------------- MODULE Passphrase -----------------------------
(***************************************************************************)
(* sk_passphrase.c: the optional passphrase, its salted hash, the mode     *)
(* toggles and the failed-attempt counter, in RAM and in NVS, and the      *)
(* factory reset that the last failed attempt, the control button or a CLI *)
(* command triggers.  Commands run in the tasks of the transports under    *)
(* one mutex, held across the key derivation, which sleeps; NVS writes are *)
(* separate and may fail; power may go at any point.                       *)
(*                                                                         *)
(* A salt is a name, a hash the pair of a word and a salt.                 *)
(***************************************************************************)
EXTENDS Integers

CONSTANTS
    Tasks,        \* tasks that dispatch commands (USB, BLE, TCP clients)
    Button,       \* the task of the control button
    Words,        \* passphrases
    Salts,        \* values of esp_fill_random
    None,
    Lockout,      \* SK_PASSPHRASE_FAIL_LOCKOUT
    Toggles,      \* values of the mode bits that commands ask for
    FlashFails,   \* whether NVS writes may fail
    MaxCycles     \* bound on the power cycles

ASSUME ActorsAssumption  == Button \notin Tasks /\ None \notin Tasks \cup {Button}
ASSUME WordsAssumption   == None \notin Words \cup Salts \cup (Words \X Salts)
ASSUME SaltsAssumption   == \A a, b, c \in Salts \cup {None} : \E s \in Salts : s \notin {a, b, c}
ASSUME LockoutAssumption == Lockout \in 1..254 /\ FlashFails \in BOOLEAN /\ MaxCycles \in Nat
ASSUME TogglesAssumption == Toggles \subseteq 0..3

VARIABLES
    nvs,      \* the namespace sk_pass
    ram,      \* s_salt, s_hash, s_mode_bits, s_fail_count
    holder,   \* the task that holds s_mtx
    pc,       \* where each task is in its command
    job,      \* the command of each task
    data,     \* stores that hold user data
    cycles,   \* power cycles so far
    chosen,   \* history: words written since the last wipe or completed change
    told,     \* history: wrong answers returned since the last accepted word
    lost      \* history: a write failed since the last wipe that did not

vars == <<nvs, ram, holder, pc, job, data, cycles, chosen, told, lost>>

Actors == Tasks \cup {Button}
Modes  == 0..3
Max8   == 255

Hashes == Words \X Salts
Empty  == [salt |-> None, hash |-> None, mode |-> 0, fails |-> 0]

Jobs == [op : {"verify", "clear"}, old : Words, new : {None}, mode : {0}]
   \cup [op : {"change"}, old : Words, new : Words, mode : {0}]
   \cup [op : {"set"}, old : {None}, new : Words, mode : {0}]
   \cup [op : {"mode"}, old : {None}, new : {None}, mode : Toggles]
Idle == [op |-> "none", old |-> None, new |-> None, mode |-> 0]

\* The stores whose subscribers to device.factory-reset.requested come before
\* (baseline, auth) and after (secure store, Wi-Fi, API) the one of this
\* component: the bus calls them in the order in which app_main subscribed them.
Stores == {"earlier", "later"}

\* nvs_load_state: the passphrase is set only if salt and hash are there.
Load(n) == IF None \in {n.salt, n.hash}
           THEN [n EXCEPT !.salt = None, !.hash = None] ELSE n

Opens(m, w) == m.hash # None /\ m.hash = <<w, m.salt>>

Init ==
    /\ nvs = Empty /\ ram = Empty
    /\ holder = None
    /\ pc  = [a \in Actors |-> "idle"]
    /\ job = [a \in Actors |-> Idle]
    /\ data = Stores
    /\ cycles = 0 /\ chosen = {} /\ told = 0 /\ lost = FALSE

(***************************************************************************)
(* Helpers.                                                                *)
(***************************************************************************)
Goto(a, label) == pc' = [pc EXCEPT ![a] = label]

\* A write of one key of the namespace: it takes place or, unchecked by most
\* callers, it does not.
Write(n)  == nvs' = n /\ UNCHANGED lost
WriteLost == FlashFails /\ lost' = TRUE /\ UNCHANGED nvs

\* The salt that a hash was made with.
SaltOf(h) == IF h = None THEN None ELSE h[2]

\* esp_fill_random never repeats a salt that is still somewhere.
FreshSalts == Salts \ {nvs.salt, SaltOf(nvs.hash), ram.salt}

CanLock == holder = None

\* What follows a word that matched.
AfterMatch(op) == CASE op = "change" -> "salt"
                    [] op = "clear"  -> "wipe"
                    [] OTHER         -> "accepted"

\* Power returns or esp_restart: RAM is loaded from NVS, no task is in a command.
Boot ==
    /\ ram' = Load(nvs)
    /\ holder' = None
    /\ pc'  = [a \in Actors |-> "idle"]
    /\ job' = [a \in Actors |-> Idle]
    /\ UNCHANGED <<nvs, data, chosen, told, lost>>

(***************************************************************************)
(* A command of one task, step by step.                                    *)
(***************************************************************************)
\* Mutant of Enter: a set does not look whether there is a passphrase already.
EnterAnyway(t, j) ==
    /\ pc[t] = "idle" /\ CanLock
    /\ holder' = t
    /\ job' = [job EXCEPT ![t] = j]
    /\ Goto(t, CASE j.op = "mode" -> "mode"
                 [] j.op = "set"  -> "salt"
                 [] OTHER         -> IF ram.hash = None THEN "refused" ELSE "verify")
    /\ UNCHANGED <<nvs, ram, data, cycles, chosen, told, lost>>

\* xSemaphoreTake, where a task that waits has no effect on the others, then the
\* test of s_has_pass.
Enter(t, j) ==
    /\ pc[t] = "idle" /\ CanLock
    /\ holder' = t
    /\ job' = [job EXCEPT ![t] = j]
    /\ Goto(t, CASE j.op = "mode" -> "mode"
                 [] j.op = "set"  -> IF ram.hash = None THEN "salt" ELSE "refused"
                 [] OTHER         -> IF ram.hash = None THEN "refused" ELSE "verify")
    /\ UNCHANGED <<nvs, ram, data, cycles, chosen, told, lost>>

\* Mutant of Match: the counter is reset in RAM only.
MatchInRam(t) ==
    /\ pc[t] = "verify" /\ Opens(ram, job[t].old)
    /\ Goto(t, AfterMatch(job[t].op))
    /\ ram' = [ram EXCEPT !.fails = 0]
    /\ told' = 0
    /\ UNCHANGED <<nvs, holder, job, data, cycles, chosen, lost>>

\* verify_internal, the word matches: the counter is reset.
Match(t) ==
    /\ pc[t] = "verify" /\ Opens(ram, job[t].old)
    /\ Goto(t, AfterMatch(job[t].op))
    /\ ram' = [ram EXCEPT !.fails = 0]
    /\ IF ram.fails # 0
       THEN Write([nvs EXCEPT !.fails = 0]) \/ WriteLost
       ELSE UNCHANGED <<nvs, lost>>
    /\ told' = 0
    /\ UNCHANGED <<holder, job, data, cycles, chosen>>

\* Mutant of Mismatch: the counter is kept in RAM only.
MismatchInRam(t) ==
    /\ pc[t] = "verify" /\ ~ Opens(ram, job[t].old)
    /\ LET fails == IF ram.fails < Max8 THEN ram.fails + 1 ELSE ram.fails
       IN /\ ram' = [ram EXCEPT !.fails = fails]
          /\ Goto(t, IF fails >= Lockout THEN "publish" ELSE "wrong")
    /\ UNCHANGED <<nvs, holder, job, data, cycles, chosen, told, lost>>

\* verify_internal, the word is wrong: the counter is saved before the caller
\* learns of it; at the limit the factory reset is published under the mutex.
Mismatch(t) ==
    /\ pc[t] = "verify" /\ ~ Opens(ram, job[t].old)
    /\ LET fails == IF ram.fails < Max8 THEN ram.fails + 1 ELSE ram.fails
       IN /\ ram' = [ram EXCEPT !.fails = fails]
          /\ Write([nvs EXCEPT !.fails = fails]) \/ WriteLost
          /\ Goto(t, IF fails >= Lockout THEN "publish" ELSE "wrong")
    /\ UNCHANGED <<holder, job, data, cycles, chosen, told>>

\* pbkdf2 fails, of the word to compare or of the new one: nothing is counted or
\* written.
DeriveFails(t) ==
    /\ pc[t] \in {"verify", "salt"}
    /\ Goto(t, "refused")
    /\ UNCHANGED <<nvs, ram, holder, job, data, cycles, chosen, told, lost>>

\* set and change: a fresh salt is saved first ...
SaveSalt(t) ==
    /\ pc[t] = "salt"
    /\ \/ /\ \E s \in FreshSalts : Write([nvs EXCEPT !.salt = s])
          /\ Goto(t, "hash")
       \/ WriteLost /\ Goto(t, "refused")
    /\ UNCHANGED <<ram, holder, job, data, cycles, chosen, told>>

\* ... then the hash made with it ...
SaveHash(t) ==
    /\ pc[t] = "hash"
    /\ \/ /\ Write([nvs EXCEPT !.hash = <<job[t].new, nvs.salt>>])
          /\ chosen' = chosen \cup {job[t].new}
          /\ Goto(t, "count")
       \/ WriteLost /\ Goto(t, "refused") /\ UNCHANGED chosen
    /\ UNCHANGED <<ram, holder, job, data, cycles, told>>

\* ... then the counter, and only then RAM changes.
SaveCount(t) ==
    /\ pc[t] = "count"
    /\ \/ /\ Write([nvs EXCEPT !.fails = 0])
          /\ ram' = [nvs EXCEPT !.fails = 0, !.mode = ram.mode]
          /\ chosen' = {job[t].new} /\ told' = 0
          /\ Goto(t, "accepted")
       \/ WriteLost /\ Goto(t, "refused") /\ UNCHANGED <<ram, chosen, told>>
    /\ UNCHANGED <<holder, job, data, cycles>>

\* nvs_wipe, whose result nobody looks at, then RAM.
WipeBoth ==
    /\ \/ nvs' = Empty /\ chosen' = {} /\ lost' = FALSE
       \/ WriteLost /\ UNCHANGED chosen
    /\ ram' = Empty
    /\ told' = 0

\* Mutant of Wipe: only RAM is cleared.
WipeRam(t) ==
    /\ pc[t] = "wipe"
    /\ ram' = Empty /\ told' = 0 /\ chosen' = {}
    /\ Goto(t, "accepted")
    /\ UNCHANGED <<nvs, holder, job, data, cycles, lost>>

Wipe(t) ==
    /\ pc[t] = "wipe"
    /\ WipeBoth
    /\ Goto(t, "accepted")
    /\ UNCHANGED <<holder, job, data, cycles>>

\* sk_passphrase_set_mode: without a passphrase the toggles are cleared.
SetMode(t) ==
    /\ pc[t] = "mode"
    /\ LET bits == IF ram.hash = None THEN 0 ELSE job[t].mode
       IN /\ ram' = [ram EXCEPT !.mode = bits]
          /\ Write([nvs EXCEPT !.mode = bits]) \/ WriteLost
    /\ Goto(t, IF ram.hash = None THEN "refused" ELSE "accepted")
    /\ UNCHANGED <<holder, job, data, cycles, chosen, told>>

\* Mutant of Return: a refused command keeps the mutex.
ReturnKeepsLock(t) ==
    /\ pc[t] \in {"accepted", "wrong", "refused"}
    /\ told' = IF pc[t] = "wrong" THEN told + 1 ELSE told
    /\ holder' = IF pc[t] = "refused" THEN t ELSE None
    /\ Goto(t, "idle")
    /\ job' = [job EXCEPT ![t] = Idle]
    /\ UNCHANGED <<nvs, ram, data, cycles, chosen, lost>>

\* xSemaphoreGive, and the caller learns the outcome.
Return(t) ==
    /\ pc[t] \in {"accepted", "wrong", "refused"}
    /\ told' = IF pc[t] = "wrong" THEN told + 1 ELSE told
    /\ holder' = None
    /\ Goto(t, "idle")
    /\ job' = [job EXCEPT ![t] = Idle]
    /\ UNCHANGED <<nvs, ram, data, cycles, chosen, lost>>

(***************************************************************************)
(* The factory reset: sk_event_bus_publish calls the subscribers one by    *)
(* one in the task of the publisher.                                       *)
(***************************************************************************)
\* Ten seconds on the button, five taps, or the CLI command.
RequestReset(a) ==
    /\ pc[a] = "idle"
    /\ Goto(a, "publish")
    /\ UNCHANGED <<nvs, ram, holder, job, data, cycles, chosen, told, lost>>

WipeEarlier(a) ==
    /\ pc[a] = "publish"
    /\ data' = data \ {"earlier"}
    /\ Goto(a, "wiping")
    /\ UNCHANGED <<nvs, ram, holder, job, cycles, chosen, told, lost>>

\* on_factory_reset_requested: takes s_mtx, wipes, gives it back.  The mutex is
\* not recursive: the publisher of a lockout holds it already.
WipePassphrase(a) ==
    /\ pc[a] = "wiping" /\ CanLock
    /\ WipeBoth
    /\ Goto(a, "later")
    /\ UNCHANGED <<holder, job, data, cycles>>

WipeLater(a) ==
    /\ pc[a] = "later"
    /\ data' = data \ {"later"}
    /\ Goto(a, "restart")
    /\ UNCHANGED <<nvs, ram, holder, job, cycles, chosen, told, lost>>

Restart(a) ==
    /\ pc[a] = "restart"
    /\ Boot
    /\ UNCHANGED cycles

PowerCycle ==
    /\ cycles < MaxCycles
    /\ cycles' = cycles + 1
    /\ Boot

Command(t) == \/ Match(t) \/ Mismatch(t) \/ DeriveFails(t)
              \/ SaveSalt(t) \/ SaveHash(t) \/ SaveCount(t)
              \/ Wipe(t) \/ SetMode(t) \/ Return(t)

FactoryReset(a) == WipeEarlier(a) \/ WipePassphrase(a) \/ WipeLater(a) \/ Restart(a)

Next == \/ \E t \in Tasks : Command(t) \/ \E j \in Jobs : Enter(t, j)
        \/ \E a \in Actors : RequestReset(a) \/ FactoryReset(a)
        \/ PowerCycle

Spec == Init /\ [][Next]_vars

\* The scheduler runs every ready task; a task that waits for a FreeRTOS mutex
\* is woken in turn when the mutex is given.
FairSpec == Spec /\ \A a \in Actors : SF_vars(FactoryReset(a))
                 /\ \A t \in Tasks : WF_vars(Command(t))

(***************************************************************************)
(* Properties.                                                             *)
(***************************************************************************)
\* No word opens the device, now or after a power cycle, but one that a set or
\* a change wrote and that no completed change or clear has replaced: also
\* after power failed, or a write failed, between the salt and the hash.  (A clear
\* whose erasure is lost has not completed, whatever sk_passphrase_clear returns.)
OnlyChosenOpens ==
    \A w \in Words : Opens(ram, w) \/ Opens(Load(nvs), w) => w \in chosen

\* Every wrong answer a caller received is in the counter that survives a power
\* cycle, and no caller receives the answer of the last attempt
\* (verify_internal saves before it returns), as long as no NVS write fails.
WrongIsCounted == ~ lost => told <= nvs.fails /\ told < Lockout

\* With no command in progress, RAM is what a power cycle would load: no
\* operation, cut short or complete, leaves the two apart unless a write failed.
RamIsDurable == holder = None /\ ~ lost => ram = Load(nvs)

LockedOut == \E t \in Tasks : pc[t] \in {"publish", "wiping"} /\ holder = t

UnderWay == {"verify", "salt", "hash", "count", "wipe", "mode",
             "accepted", "wrong", "refused"}

\* A factory reset from the button or the CLI that waits for the mutex waits for a
\* command that is on its way to give it back, however commands, resets and power
\* cuts are interleaved, unless a lockout came first.
ResetNotBlocked ==
    \A a \in Actors :
       pc[a] = "wiping" => CanLock \/ pc[holder] \in UnderWay \/ LockedOut

(* What the header says of the program. *)

\* sk_passphrase.h:21: reaching the lockout limit triggers a factory reset.
LockoutResets == LockedOut ~> data = {} /\ nvs.hash = None
=============================================================================
