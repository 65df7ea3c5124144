--------------------------------- MODULE Access ---------------------------------
(***************************************************************************)
(* Who may talk to the device: the bond slots, in RAM and in NVS, the      *)
(* pairing window and the pending bond of sk_auth.c, the handshake and the *)
(* gate of sk_secure_session.c, and the lines that both transports hand to *)
(* them (sk_transport_tcp.c, sk_transport_ble_gatt.c).                     *)
(*                                                                         *)
(* The host task of BLE and one task per TCP client run these handlers at  *)
(* the same time and share s_slots, the one active key, the window and the *)
(* pending bond.  Deriving a key and checking a word take long, so that    *)
(* others run meanwhile; a handshake is answered in two steps, match and   *)
(* activation.  A bond key is a number that is drawn once; a link whose    *)
(* line is refused is dropped.                                             *)
(***************************************************************************)
EXTENDS Naturals, FiniteSets

CONSTANTS
    Phones,      \* SKAPP installs, each with its peer_id
    Ble,         \* the BLE link
    Clients,     \* client slots of the TCP transport
    NSlots,      \* SK_AUTH_BOND_SLOT_COUNT
    None,
    FlashFails,  \* whether NVS writes may fail
    MaxKeys      \* bound on the keys drawn

Conns  == Clients \cup {Ble}
Slots  == 0 .. NSlots - 1
Keys   == 1 .. MaxKeys
Bond   == [phone : Phones, key : Keys]
Active == [slot : Slots, key : Keys]

ASSUME ConnsAssumption == Ble \notin Clients
ASSUME NoneAssumption  == None \notin Phones \cup Keys \cup Bond \cup Active
ASSUME SizeAssumption  == NSlots \in Nat \ {0} /\ MaxKeys \in Nat /\ FlashFails \in BOOLEAN

VARIABLES
    bonds,     \* s_slots
    nvs,       \* the namespace sk_auth
    active,    \* s_active_slot and s_active_key while s_active_set
    window,    \* s_pairing is open
    pending,   \* s_pending
    mode,      \* the passphrase: unset, or set and when it is asked for
    conn,      \* each connection, its session and where its handler is
    drawn,     \* keys drawn so far
    stored,    \* the bond key that each phone keeps
    asked,     \* the key of each phone's exchange that awaits the passphrase
    stands,    \* history: keys of phones that were told of a bond nobody took
    revoked,   \* history: keys that were erased or overwritten, in RAM and NVS
    replaced,  \* history: the active key, once a new pairing overwrote its slot
    last,      \* history: the connection of the last handshake
    overtaken, \* history: a word committed the exchange of another phone
    waits,     \* history: whom need_passphrase was sent to in this window
    leftover   \* history: a slot was emptied in RAM and not in NVS

auth  == <<active, window, pending>>
told  == <<stored, asked, stands>>
gone  == <<revoked, replaced, leftover>>
vars  == <<bonds, nvs, auth, mode, conn, drawn, told, gone, last, overtaken, waits>>

\* sk_passphrase_get_mode and sk_passphrase_is_set.
Modes == {"unset", "off", "pairing", "always"}
Gate  == mode \in {"pairing", "always"}

HasBond == \E s \in Slots : bonds[s] # None
KeysIn(b) == {b[s].key : s \in {t \in Slots : b[t] # None}}
KeysAt(s) == {b[s].key : b \in {n \in {bonds, nvs} : n[s] # None}}

\* sk_auth__token_ptr: the active key, or else that of slot 0.
Token == IF active # None THEN active.key
         ELSE IF bonds[0] # None THEN bonds[0].key ELSE None

Closed == [phone |-> None, step |-> "closed", pairs |-> FALSE,
           key |-> None, slot |-> None, open |-> FALSE]
Link(p, step, pairs) == [Closed EXCEPT !.phone = p, !.step = step, !.pairs = pairs]

Close(c)    == conn' = [conn EXCEPT ![c] = Closed]
Goto(c, st) == conn' = [conn EXCEPT ![c].step = st]

\* A handler that is between two of its steps.
Working(c) == conn[c].step \in {"matched", "deriving", "verifying"}

\* sk_auth_close_pairing_mode
CloseWindow ==
    /\ window' = FALSE
    /\ pending' = IF window THEN None ELSE pending
    /\ waits' = IF window THEN None ELSE waits

\* slot_save: NVS gets the slot of b, or the write fails.
Save(b, s) == nvs' = [nvs EXCEPT ![s] = b[s]]
SaveFails  == FlashFails /\ UNCHANGED nvs

\* sk_auth_init
Booted(n) ==
    /\ bonds' = n
    /\ active' = None /\ pending' = None
    /\ window' = (\A s \in Slots : n[s] = None)
    /\ conn' = [c \in Conns |-> Closed]

Init ==
    /\ bonds = [s \in Slots |-> None] /\ nvs = bonds
    /\ active = None /\ window = TRUE /\ pending = None
    /\ mode = "unset"
    /\ conn = [c \in Conns |-> Closed]
    /\ drawn = 0
    /\ stored = [p \in Phones |-> None] /\ asked = stored /\ stands = stored
    /\ revoked = {} /\ replaced = None /\ last = None /\ overtaken = FALSE /\ waits = None
    /\ leftover = FALSE

(***************************************************************************)
(* Links and handshakes.                                                   *)
(***************************************************************************)
\* sk_secure_session_begin: the challenge goes out and no key is active.
Begin(c, p) ==
    /\ HasBond
    /\ conn' = [conn EXCEPT ![c] = Link(p, "awaiting", FALSE)]
    /\ active' = None /\ replaced' = None /\ last' = c
    /\ UNCHANGED <<bonds, nvs, window, pending, mode, drawn, told, revoked, leftover,
                   overtaken, waits>>

\* Without a bond a peer is only let in to pair.
LetIn(c, p) ==
    /\ ~ HasBond /\ window
    /\ conn' = [conn EXCEPT ![c] = Link(p, "fresh", TRUE)]
    /\ UNCHANGED <<bonds, nvs, auth, mode, drawn, told, gone, last, overtaken, waits>>

\* client_task
Accept(c, p) == conn[c] = Closed /\ (Begin(c, p) \/ LetIn(c, p))

\* skbt_gatt_on_connect: the challenge waits for the subscription.
LinkUp(p) ==
    /\ HasBond
    /\ conn' = [conn EXCEPT ![Ble] = Link(p, "fresh", FALSE)]
    /\ UNCHANGED <<bonds, nvs, auth, mode, drawn, told, gone, last, overtaken, waits>>

ConnectBle(p) == conn[Ble] = Closed /\ (LinkUp(p) \/ LetIn(Ble, p))

\* skbt_gatt_on_subscribe
Subscribe ==
    /\ conn[Ble].step \in {"fresh", "awaiting"} /\ ~ conn[Ble].pairs
    /\ Begin(Ble, conn[Ble].phone)

\* The peer leaves or is dropped, for a line that is refused, a handshake that
\* is late, or no bond.  The active key stays.
Drop(c) ==
    /\ conn[c] # Closed /\ ~ Working(c)
    /\ Close(c)
    /\ UNCHANGED <<bonds, nvs, auth, mode, drawn, told, gone, last, overtaken, waits>>

\* sk_auth_handshake_verify_peer finds the slot whose key signed the response.
Match(c, s) ==
    /\ conn[c].step = "awaiting" /\ bonds[s] # None
    /\ bonds[s].key = stored[conn[c].phone]
    /\ conn' = [conn EXCEPT ![c].step = "matched", ![c].slot = s, ![c].key = bonds[s].key]
    /\ UNCHANGED <<bonds, nvs, auth, mode, drawn, told, gone, last, overtaken, waits>>

\* sk_auth__activate_slot, for a slot that may be gone or another's by now, then
\* the answer with whatever key is active.
Activate(c) ==
    /\ conn[c].step = "matched"
    /\ LET b == bonds[conn[c].slot] IN
         /\ active' = IF b = None THEN active ELSE [slot |-> conn[c].slot, key |-> b.key]
         /\ replaced' = IF b = None THEN replaced ELSE None
    /\ IF active' = None THEN Close(c)
       ELSE conn' = [conn EXCEPT ![c].step = "authed", ![c].open = (mode # "always")]
    /\ last' = c
    /\ UNCHANGED <<bonds, nvs, window, pending, mode, drawn, told, revoked, leftover,
                   overtaken, waits>>

(***************************************************************************)
(* Pairing.                                                                *)
(***************************************************************************)
\* find_first_free_slot and find_slot_by_peer.
FreeSlots   == {s \in Slots : bonds[s] = None}
OwnSlots(p) == {s \in Slots : bonds[s] # None /\ bonds[s].phone = p}
FirstOf(ss) == {s \in ss : \A t \in ss : s <= t}

\* The slot that sk_auth_bond_add takes, if there is one.
SlotOf(p) == FirstOf(IF OwnSlots(p) # {} THEN OwnSlots(p) ELSE FreeSlots)

\* handle_ecdh_exchange up to the derivation; a full store refuses.  A peer of a
\* bonded device gets here too while the window is open (handle_line).
Exchange(c) ==
    /\ window /\ drawn < MaxKeys
    /\ conn[c].step \in {"fresh", "awaiting"}
    /\ SlotOf(conn[c].phone) # {}
    /\ drawn' = drawn + 1
    /\ conn' = [conn EXCEPT ![c].step = "deriving", ![c].key = drawn', ![c].pairs = TRUE]
    /\ UNCHANGED <<bonds, nvs, auth, mode, told, gone, last, overtaken, waits>>

\* With the gate the bond is pending.  The answer is SK_AUTH_PAIRING_OK, on which
\* pairing_handle_line of BLE closes the window; TCP only closes the socket.
Ask(c) ==
    /\ conn[c].step = "deriving" /\ Gate
    /\ LET p == conn[c].phone
           b == [phone |-> p, key |-> conn[c].key] IN
       /\ asked' = [asked EXCEPT ![p] = conn[c].key]
       /\ waits' = IF window THEN p ELSE waits
       /\ window' = (window /\ c # Ble)
       /\ pending' = IF window /\ c = Ble THEN None ELSE b
    /\ Close(c)
    /\ UNCHANGED <<bonds, nvs, active, mode, drawn, stored, stands, gone, last, overtaken>>

\* Mutant of BondAdd: an unsuccessful write is not noticed.
BondAddUnchecked(b, s, ok) ==
    /\ bonds' = [bonds EXCEPT ![s] = b]
    /\ ok /\ (Save(bonds', s) \/ SaveFails)

\* sk_auth_bond_add of bond b in slot s; ok says whether the write succeeded.
BondAdd(b, s, ok) ==
    /\ bonds' = [bonds EXCEPT ![s] = b]
    /\ IF ok THEN Save(bonds', s) ELSE SaveFails

\* What goes of the keys that slot s held; the active key is not looked at.
Overwrites(s) ==
    /\ revoked' = revoked \cup (KeysAt(s) \ KeysIn(nvs'))
    /\ replaced' = IF active # None /\ active.slot = s THEN active.key ELSE replaced
    /\ UNCHANGED leftover

\* The reply that names the slot reaches phone p, who asked with key k, or not;
\* a bond that b replaces is gone either way.
Told(p, k, b, ok) ==
    \E heard \in {FALSE, ok} :
        /\ stored' = [stored EXCEPT ![p] = IF heard THEN k ELSE @]
        /\ stands' = [[stands EXCEPT ![b.phone] = None] EXCEPT ![p] =
                        IF heard THEN k ELSE IF p = b.phone THEN None ELSE @]

\* Without the gate the bond is added at once; a success closes the window.
Commit(c) ==
    /\ conn[c].step = "deriving" /\ ~ Gate
    /\ LET p == conn[c].phone
           b == [phone |-> p, key |-> conn[c].key] IN
       \E s \in SlotOf(p), ok \in BOOLEAN :
           /\ BondAdd(b, s, ok) /\ Overwrites(s)
           /\ Told(p, b.key, b, ok)
           /\ IF ok THEN CloseWindow ELSE UNCHANGED <<window, pending, waits>>
    /\ Close(c)
    /\ UNCHANGED <<active, mode, drawn, asked, last, overtaken>>

\* The derivation fails, or the last free slot was taken meanwhile.
DeriveFails(c) ==
    /\ conn[c].step = "deriving"
    /\ Close(c)
    /\ UNCHANGED <<bonds, nvs, auth, mode, drawn, told, gone, last, overtaken, waits>>

\* handle_passphrase_verify up to the key derivation of the word.
Verify(c) ==
    /\ window /\ pending # None
    /\ conn[c].step = "fresh" /\ conn[c].pairs
    /\ asked[conn[c].phone] # None
    /\ Goto(c, "verifying")
    /\ UNCHANGED <<bonds, nvs, auth, mode, drawn, told, gone, last, overtaken, waits>>

\* The word is right, or the passphrase is gone: pending_commit_locked takes what
\* is pending now.
Verified(c) ==
    /\ conn[c].step = "verifying" /\ pending # None
    /\ LET p == conn[c].phone IN
       \E s \in SlotOf(pending.phone), ok \in BOOLEAN :
           /\ BondAdd(pending, s, ok) /\ Overwrites(s)
           /\ Told(p, asked[p], pending, ok)
           /\ overtaken' = (overtaken \/ pending # [phone |-> p, key |-> asked[p]])
           /\ asked' = [asked EXCEPT ![p] = None]
           /\ window' = (window /\ ~ ok) /\ pending' = None /\ waits' = None
    /\ Close(c)
    /\ UNCHANGED <<active, mode, drawn, last>>

\* The word is wrong, and what is pending stays.
Wrong(c) ==
    /\ conn[c].step = "verifying" /\ mode # "unset"
    /\ Close(c)
    /\ UNCHANGED <<bonds, nvs, auth, mode, drawn, told, gone, last, overtaken, waits>>

\* The word is right and nothing can be committed: what was pending is gone, or
\* no slot is left for it.
Late(c) ==
    /\ conn[c].step = "verifying"
    /\ IF pending = None THEN TRUE ELSE SlotOf(pending.phone) = {}
    /\ pending' = None /\ waits' = None
    /\ Close(c)
    /\ UNCHANGED <<bonds, nvs, active, window, mode, drawn, told, gone, last, overtaken>>

\* sk_auth_open_pairing_mode, by the button or a command.
OpenWindow ==
    /\ ~ window /\ window' = TRUE
    /\ UNCHANGED <<bonds, nvs, active, pending, mode, conn, drawn, told, gone, last, overtaken, waits>>

\* pair_timeout_cb, or the command.
WindowEnds ==
    /\ window /\ CloseWindow
    /\ UNCHANGED <<bonds, nvs, active, mode, conn, drawn, told, gone, last, overtaken>>

(***************************************************************************)
(* Commands that take bonds away.                                          *)
(***************************************************************************)
\* What the phones of the slots ss lose.
Withdraw(ss) ==
    stands' = [p \in Phones |-> IF \E s \in ss : bonds[s] # None /\ bonds[s].phone = p
                                THEN None ELSE stands[p]]

\* What goes of the keys old, with an active key that changes, and whether NVS
\* keeps an emptied slot.
Revoke(old) ==
    /\ replaced' = IF active' = active THEN replaced ELSE None
    /\ revoked' = revoked \cup (old \ KeysIn(nvs'))
    /\ leftover' = (leftover \/ \E s \in Slots : bonds'[s] = None /\ nvs'[s] # None)

\* Mutants of Deactivated: the active key is kept, or lost whatever slot goes.
DeactivatedNever(s)  == active
DeactivatedAlways(s) == None

\* sk_auth_bond_remove
Deactivated(s) == IF active # None /\ active.slot = s THEN None ELSE active

Remove(s) ==
    /\ bonds[s] # None
    /\ bonds' = [bonds EXCEPT ![s] = None]
    /\ Save(bonds', s) \/ SaveFails
    /\ active' = Deactivated(s)
    /\ Withdraw({s}) /\ Revoke(KeysAt(s))
    /\ UNCHANGED <<window, pending, mode, conn, drawn, stored, asked, last, overtaken, waits>>

\* sk_auth_clear_all, of ble.unpair and of a factory reset.  The write is not
\* looked at.
ClearAll ==
    /\ bonds' = [s \in Slots |-> None]
    /\ nvs' = bonds' \/ SaveFails
    /\ active' = None
    /\ Withdraw(Slots) /\ Revoke(KeysIn(bonds) \cup KeysIn(nvs))
    /\ UNCHANGED <<window, pending, mode, conn, drawn, stored, asked, last, overtaken, waits>>

\* sk_auth_rotate_token: no phone learns the new key.
Rotate ==
    LET s == IF active # None THEN active.slot ELSE 0 IN
    /\ bonds[s] # None /\ drawn < MaxKeys
    /\ drawn' = drawn + 1
    /\ bonds' = [bonds EXCEPT ![s].key = drawn']
    /\ Save(bonds', s) \/ SaveFails
    /\ active' = IF active # None THEN [active EXCEPT !.key = drawn'] ELSE None
    /\ Withdraw({s}) /\ Revoke(KeysAt(s))
    /\ UNCHANGED <<window, pending, mode, conn, stored, asked, last, overtaken, waits>>

\* sk_secure_session_dispatch_signed lets a command through.
Served(c) == conn[c].step = "authed" /\ conn[c].key = Token /\ conn[c].open

\* bond.remove needs a session; the rest is open to USB as well.
Command == \/ \E c \in Conns, s \in Slots : Served(c) /\ Remove(s)
           \/ ClearAll \/ Rotate

\* auth.passphrase.verify of a session, with the right word or none set.
Unlock(c) ==
    /\ conn[c].step = "authed" /\ conn[c].key = Token /\ ~ conn[c].open
    /\ conn' = [conn EXCEPT ![c].open = TRUE]
    /\ UNCHANGED <<bonds, nvs, auth, mode, drawn, told, gone, last, overtaken, waits>>

(***************************************************************************)
(* The surroundings.                                                       *)
(***************************************************************************)
\* The commands of sk_passphrase.
SetMode(m) ==
    /\ m # mode /\ mode' = m
    /\ UNCHANGED <<bonds, nvs, auth, conn, drawn, told, gone, last, overtaken, waits>>

\* A phone loses its data.
Forget(p) ==
    /\ stored' = [stored EXCEPT ![p] = None]
    /\ asked' = [asked EXCEPT ![p] = None]
    /\ stands' = [stands EXCEPT ![p] = None]
    /\ UNCHANGED <<bonds, nvs, auth, mode, conn, drawn, gone, last, overtaken, waits>>

PowerCycle ==
    /\ Booted(nvs)
    /\ last' = None /\ waits' = None /\ replaced' = None
    /\ UNCHANGED <<nvs, mode, drawn, told, revoked, leftover, overtaken>>

Handshake(c) == (\E s \in Slots : Match(c, s)) \/ Activate(c)
Pairing(c)   == Exchange(c) \/ Ask(c) \/ Commit(c) \/ DeriveFails(c)
Passphrase(c) == Verify(c) \/ Verified(c) \/ Wrong(c) \/ Late(c) \/ Unlock(c)

Next ==
    \/ \E c \in Clients, p \in Phones : Accept(c, p)
    \/ \E p \in Phones : ConnectBle(p) \/ Forget(p)
    \/ Subscribe
    \/ \E c \in Conns : Drop(c) \/ Handshake(c) \/ Pairing(c) \/ Passphrase(c)
    \/ OpenWindow \/ WindowEnds \/ Command
    \/ \E m \in Modes : SetMode(m)
    \/ PowerCycle

Spec == Init /\ [][Next]_vars

(***************************************************************************)
(* Properties.                                                             *)
(***************************************************************************)
\* The types; the active slot is an occupied one.
Steps == {"closed", "fresh", "awaiting", "matched", "authed", "deriving", "verifying"}
Links == [phone : Phones \cup {None}, step : Steps, pairs : BOOLEAN,
          key : Keys \cup {None}, slot : Slots \cup {None}, open : BOOLEAN]

AccessTypeOK ==
    /\ bonds \in [Slots -> Bond \cup {None}] /\ nvs \in [Slots -> Bond \cup {None}]
    /\ active \in Active \cup {None} /\ (active # None => bonds[active.slot] # None)
    /\ window \in BOOLEAN /\ pending \in Bond \cup {None} /\ mode \in Modes
    /\ conn \in [Conns -> Links] /\ drawn \in 0 .. MaxKeys
    /\ {stored, asked, stands} \subseteq [Phones -> Keys \cup {None}]
    /\ revoked \subseteq 1 .. drawn /\ replaced \in Keys \cup {None} /\ leftover \in BOOLEAN

\* No phone has two slots, in RAM or in NVS, whatever exchanges ran at a time,
\* unless a slot could not be erased.
OneBondEach ==
    ~ leftover => \A s, t \in Slots, b \in {bonds, nvs} :
        (s # t /\ b[s] # None /\ b[t] # None) => b[s].phone # b[t].phone

\* What a phone was told stays true: its one bond is in a slot, in RAM and NVS,
\* until it is removed, rotated or replaced - through power cycles, failing
\* writes and exchanges of others, as long as no word commits the pending bond of
\* another phone than the one that sends it (Verified).
BondDurable ==
    /\ OneBondEach
    /\ \A p \in Phones : (stands[p] # None /\ ~ overtaken) =>
            \E s \in Slots : /\ bonds[s] = [phone |-> p, key |-> stands[p]]
                             /\ nvs[s] = bonds[s]

\* The latest connection to authenticate is served as long as its bond is there,
\* whatever happens to other bonds, sessions and windows.
LastSessionServed ==
    \A c \in Conns :
        (last = c /\ conn[c].step = "authed" /\ conn[c].key \in KeysIn(bonds))
            => Token = conn[c].key

\* No command passes with a key that was removed, rotated, cleared or overwritten
\* by a new pairing, not even on a connection that authenticated with it before,
\* nor during a handshake with it, nor after a restart - but for the key that is
\* active while its own phone pairs anew: sk_auth_bond_add leaves s_active_key
\* alone (sk_auth.c:227-229), and it is served until another becomes active.
RevokedRefused == Token \in revoked => active # None /\ Token = replaced

\* sk_auth.c:664-667: a peer that is told need_passphrase follows up within the
\* window, and the pending bond is wiped only when that closes, by time or
\* explicitly.
AskedCanAnswer == waits # None => pending # None /\ pending.phone = waits
================================================================================
