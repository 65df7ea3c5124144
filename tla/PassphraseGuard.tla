--------------------------- MODULE PassphraseGuard ---------------------------
(***************************************************************************)
(* What the passphrase promises its owner, without mutexes, salts or       *)
(* counters: who may change what opens the device.  Requests are served    *)
(* one at a time.  As long as one is served it may change something only   *)
(* if its client gave the word that opens the device at that very moment,  *)
(* or none while none is asked for; and only towards what it asked for.    *)
(* An interrupted change can leave a device that no word opens.  Beside    *)
(* such requests only a reset takes the word away, and a restart goes back *)
(* to what was kept.                                                       *)
(***************************************************************************)
CONSTANTS
    Clients,
    Words,
    NoWord,     \* no word is asked for
    Shut        \* no word opens the device

VARIABLES
    now,        \* what opens the device: a word, NoWord or Shut
    kept,       \* what will open it after a restart
    asks        \* the request of each client

vars == <<now, kept, asks>>

\* What the client claims opens the device, and what shall.
Requests == [old : Words \cup {NoWord}, new : Words \cup {NoWord}]

Nothing == [old |-> NoWord, new |-> NoWord]

AllQuiet == \A c \in Clients : asks[c] = Nothing

Init == now = NoWord /\ kept = NoWord /\ asks = [c \in Clients |-> Nothing]

Ask(c) ==
    /\ AllQuiet
    /\ \E r \in Requests : asks' = [asks EXCEPT ![c] = r]
    /\ UNCHANGED <<now, kept>>

Leave(c) ==
    /\ asks' = [asks EXCEPT ![c] = Nothing]
    /\ UNCHANGED <<now, kept>>

Entitled(c) == asks[c] # Nothing /\ asks[c].old = now

\* A word is being replaced; until the new one is kept there is none.
Spoil(c) ==
    /\ Entitled(c) /\ asks[c].new # NoWord
    /\ kept # NoWord /\ kept' = Shut
    /\ UNCHANGED <<now, asks>>

Keep(c) ==
    /\ Entitled(c) /\ asks[c].new # NoWord
    /\ kept' = asks[c].new
    /\ UNCHANGED <<now, asks>>

Follow(c) ==
    /\ Entitled(c)
    /\ kept = asks[c].new
    /\ now' = asks[c].new
    /\ UNCHANGED <<kept, asks>>

\* What is kept may outlast its removal, when the erasure fails.
Remove == now' = NoWord /\ kept' \in {NoWord, kept}

Clear(c) ==
    /\ Entitled(c) /\ asks[c].new = NoWord
    /\ Remove
    /\ UNCHANGED asks

\* A reset needs no word, but it never comes in the middle of a request.
Reset == AllQuiet /\ Remove /\ UNCHANGED asks

Restart ==
    /\ now' = kept
    /\ asks' = [c \in Clients |-> Nothing]
    /\ UNCHANGED kept

Next == \/ \E c \in Clients : \/ Ask(c) \/ Leave(c)
                              \/ Spoil(c) \/ Keep(c) \/ Follow(c) \/ Clear(c)
        \/ Reset \/ Restart

Spec == Init /\ [][Next]_vars
=============================================================================
