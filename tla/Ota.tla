--------------------------------- MODULE Ota ---------------------------------
(***************************************************************************)
(* sk_ota.c: the manifest check, the download into the inactive slot, its  *)
(* verification and activation, and the rollback.  Every check and every   *)
(* download is a task of its own; commands arrive in other tasks of the    *)
(* same priority and look only at the shared status.                       *)
(*                                                                         *)
(* An image is a name and is its own hash; what a URL serves is open.  The *)
(* ESP-IDF refuses to activate a slot that holds no complete image, and    *)
(* the boot loader falls back to the other slot.                           *)
(***************************************************************************)
EXTENDS Integers

CONSTANTS
    Checks,      \* check_tasks that may be alive at a time
    Downloads,   \* download_tasks that may be alive at a time
    Images,      \* complete firmware images
    Factory,     \* the image the device came with
    NoHash,
    Incomplete,  \* content of a slot that is no complete image
    Overrides    \* whether a start may name a URL of its own

ASSUME ImagesAssumption == /\ Factory \in Images
                           /\ NoHash \notin Images /\ Incomplete \notin Images
                           /\ Overrides \in BOOLEAN

VARIABLES
    status,    \* s_status.state
    cached,    \* s_status.remote_sha256, or NoHash
    check,     \* where each check_task is
    dl,        \* each download_task: where it is, the hash it expects and
               \* whether no other download has written since it began
    slot,      \* content of ota_0 and ota_1
    run,       \* the running slot
    boot,      \* the slot that otadata selects
    leaving    \* a rollback waits for its restart

tasks == <<check, dl>>
parts == <<slot, run, boot>>
otaVars  == <<status, cached, tasks, parts, leaving>>

Slots == {0, 1}

\* Mutant of Other: the slot after the one selected for the next boot.
OtherThanBoot == 1 - boot

\* esp_ota_get_next_update_partition(NULL)
Other == 1 - run

NoTask == [pc |-> "none", sha |-> NoHash, alone |-> FALSE]

Busy == status \in {"checking", "downloading"}

OtaInit ==
    /\ status = "idle" /\ cached = NoHash
    /\ check = [c \in Checks |-> "none"]
    /\ dl = [d \in Downloads |-> NoTask]
    /\ slot = [s \in Slots |-> IF s = 0 THEN Factory ELSE Incomplete]
    /\ run = 0 /\ boot = 0
    /\ leaving = FALSE

(***************************************************************************)
(* sk_ota_check and check_task.                                            *)
(***************************************************************************)
CheckStarts(c) ==
    /\ ~ Busy /\ check[c] = "none"
    /\ check' = [check EXCEPT ![c] = "created"]
    /\ UNCHANGED <<status, cached, dl, parts, leaving>>

CheckFetches(c) ==
    /\ check[c] = "created"
    /\ check' = [check EXCEPT ![c] = "fetching"]
    /\ status' = "checking"
    /\ UNCHANGED <<cached, dl, parts, leaving>>

CheckFails(c) ==
    /\ check[c] = "fetching"
    /\ check' = [check EXCEPT ![c] = "none"]
    /\ status' = "error"
    /\ UNCHANGED <<cached, dl, parts, leaving>>

\* The manifest may have a hash or not, and a newer version or not.
CheckEnds(c) ==
    /\ check[c] = "fetching"
    /\ check' = [check EXCEPT ![c] = "none"]
    /\ cached' \in Images \cup {NoHash}
    /\ status' \in {"update_available", "no_update"}
    /\ UNCHANGED <<dl, parts, leaving>>

(***************************************************************************)
(* sk_ota_start and download_task.                                         *)
(***************************************************************************)
\* The task goes from one place to the next.
Moves(d, from, to) == dl[d].pc = from /\ dl' = [dl EXCEPT ![d].pc = to]

Ends(d, from) == dl[d].pc = from /\ dl' = [dl EXCEPT ![d] = NoTask]

\* The status only becomes "downloading" in the task, which runs later.
Start(d) ==
    /\ ~ Busy
    /\ dl[d].pc = "none"
    /\ \/ /\ status = "update_available"
          /\ dl' = [dl EXCEPT ![d] = [NoTask EXCEPT !.pc = "created", !.sha = cached]]
       \/ /\ Overrides
          /\ dl' = [dl EXCEPT ![d] = [NoTask EXCEPT !.pc = "created"]]
    /\ UNCHANGED <<status, cached, check, parts, leaving>>

Connect(d) ==
    /\ Moves(d, "created", "connecting")
    /\ status' = "downloading"
    /\ UNCHANGED <<cached, check, parts, leaving>>

\* Mutant of ConnectFails: the status is left as it is.
ConnectFailsSilently(d) ==
    /\ Ends(d, "connecting")
    /\ UNCHANGED <<status, cached, check, parts, leaving>>

ConnectFails(d) ==
    /\ Ends(d, "connecting")
    /\ status' = "error"
    /\ UNCHANGED <<cached, check, parts, leaving>>

\* The first write destroys what the slot held.  Downloads that write at the
\* same time mix their images.
Writing == {d \in Downloads : dl[d].pc = "writing"}

Write(d) ==
    /\ dl[d].pc = "connecting"
    /\ dl' = [e \in Downloads |->
                IF e = d THEN [dl[d] EXCEPT !.pc = "writing", !.alone = (Writing = {})]
                ELSE [dl[e] EXCEPT !.alone = FALSE]]
    /\ slot' = [slot EXCEPT ![Other] = Incomplete]
    /\ UNCHANGED <<status, cached, check, run, boot, leaving>>

WriteFails(d) ==
    /\ Ends(d, "writing")
    /\ status' = "error"
    /\ UNCHANGED <<cached, check, parts, leaving>>

Written(d) ==
    /\ Moves(d, "writing", "written")
    /\ \E image \in Images :
          slot' = [slot EXCEPT ![Other] = image] \/ (~ dl[d].alone /\ UNCHANGED slot)
    /\ UNCHANGED <<status, cached, check, run, boot, leaving>>

\* The manifest had a hash and it is not that of the slot, or the slot could not
\* be read.
Mismatch(d) ==
    /\ dl[d].sha # NoHash
    /\ Ends(d, "written")
    /\ status' = "error"
    /\ UNCHANGED <<cached, check, parts, leaving>>

\* Mutant of Verified: the result of the comparison is not looked at.
VerifiedAnyway(d) ==
    /\ Moves(d, "written", "verified")
    /\ status' = IF dl[d].sha = NoHash THEN status ELSE "downloading"
    /\ UNCHANGED <<cached, check, parts, leaving>>

Verified(d) ==
    /\ dl[d].sha \in {NoHash, slot[Other]}
    /\ Moves(d, "written", "verified")
    /\ status' = IF dl[d].sha = NoHash THEN status ELSE "downloading"
    /\ UNCHANGED <<cached, check, parts, leaving>>

\* esp_https_ota_finish checks that the image is complete, not whose it is.
Finish(d) ==
    /\ slot[Other] \in Images
    /\ Moves(d, "verified", "done")
    /\ boot' = Other
    /\ status' = "done"
    /\ UNCHANGED <<cached, check, slot, run, leaving>>

FinishFails(d) ==
    /\ Ends(d, "verified")
    /\ status' = "error"
    /\ UNCHANGED <<cached, check, parts, leaving>>

(***************************************************************************)
(* Rollback and restarts.                                                  *)
(***************************************************************************)
Rollback ==
    /\ slot[Other] \in Images
    /\ boot' = Other
    /\ leaving' = TRUE
    /\ UNCHANGED <<status, cached, tasks, slot, run>>

Restart ==
    /\ run' = IF slot[boot] \in Images THEN boot ELSE 1 - boot
    /\ status' = "idle" /\ cached' = NoHash
    /\ check' = [c \in Checks |-> "none"]
    /\ dl' = [d \in Downloads |-> NoTask]
    /\ leaving' = FALSE
    /\ UNCHANGED <<slot, boot>>

\* esp_restart half a second after a rollback, 1.5 s after a download.
EspRestart == (leaving \/ \E d \in Downloads : dl[d].pc = "done") /\ Restart
PowerLost   == Restart

CheckTask(c) == CheckFetches(c) \/ CheckFails(c) \/ CheckEnds(c)

DownloadTask(d) == \/ Connect(d) \/ ConnectFails(d)
                   \/ Write(d) \/ WriteFails(d) \/ Written(d)
                   \/ Mismatch(d) \/ Verified(d)
                   \/ Finish(d) \/ FinishFails(d)

OtaNext == \/ \E c \in Checks : CheckStarts(c) \/ CheckTask(c)
        \/ \E d \in Downloads : Start(d) \/ DownloadTask(d)
        \/ Rollback \/ EspRestart \/ PowerLost

OtaSpec == OtaInit /\ [][OtaNext]_otaVars

\* Every connection has a timeout, so a task goes on or fails.
FairOta == OtaSpec /\ \A c \in Checks : WF_otaVars(CheckTask(c))
                 /\ \A d \in Downloads : WF_otaVars(DownloadTask(d))
                 /\ WF_otaVars(EspRestart)

(***************************************************************************)
(* Properties.                                                             *)
(***************************************************************************)
\* The running slot holds a complete image, whatever downloads overlap, fail or
\* are cut off, and also between an activation and its restart: a second
\* download then still writes to the slot that is not running.
RunsComplete == slot[run] \in Images

\* The device is never busy for ever: every path out of a task, also of two
\* tasks that overwrite each other's status, leaves a status that lets the next
\* check or start in (sk_ota_is_busy).
BusyEnds == Busy ~> ~ Busy

\* An image that a download with a hash activated has that hash, whatever checks,
\* rollbacks and failed downloads came in between, as long as no other download
\* wrote at the same time.
HashHolds ==
    \A d \in Downloads :
       dl[d].pc = "done" /\ dl[d].alone /\ dl[d].sha # NoHash => slot[boot] = dl[d].sha
=============================================================================
