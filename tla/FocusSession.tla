---------------------------- MODULE FocusSession ----------------------------
(***************************************************************************)
(* What the cube promises its user, without queues, timers or faces.  A    *)
(* session has a goal, served half second by half second.  Until it is     *)
(* committed it may be replaced, suspended and resumed; once committed it  *)
(* can only be served.  It completes when no more than the last half       *)
(* second is missing, and the cube is busy closing it before it is free    *)
(* for the next one.                                                       *)
(***************************************************************************)
EXTENDS Integers

CONSTANT Goals      \* possible session lengths, in half seconds

VARIABLES phase, goal, served

vars == <<phase, goal, served>>

Active == {"running", "committed"}

Init == phase = "free" /\ goal = 0 /\ served = 0

Begin ==
    /\ phase \in {"free", "running", "suspended"}
    /\ phase' \in Active
    /\ goal' \in Goals
    /\ served' = 0

Serve ==
    /\ phase \in Active /\ served < goal
    /\ served' = served + 1
    /\ UNCHANGED <<phase, goal>>

Commit ==
    /\ phase = "running"
    /\ phase' = "committed"
    /\ UNCHANGED <<goal, served>>

\* Suspending rounds the missing time down to whole seconds.
Suspend ==
    /\ phase = "running"
    /\ phase' = "suspended"
    /\ served' \in {served, served + 1} /\ served' <= goal
    /\ UNCHANGED goal

Resume ==
    /\ phase = "suspended" /\ served < goal
    /\ phase' \in Active
    /\ UNCHANGED <<goal, served>>

Complete ==
    /\ phase \in Active /\ served + 1 >= goal
    /\ phase' = "closing"
    /\ goal' = 0 /\ served' = 0

Release ==
    /\ phase = "closing"
    /\ phase' = "free"
    /\ UNCHANGED <<goal, served>>

Next == Begin \/ Serve \/ Commit \/ Suspend \/ Resume \/ Complete \/ Release

Spec == Init /\ [][Next]_vars

\* A committed session is served to its end, and the cube becomes free again.
FairSpec == /\ Spec
            /\ WF_vars(phase = "committed" /\ Serve)
            /\ WF_vars(phase = "committed" /\ Complete)
            /\ WF_vars(Release)
=============================================================================
