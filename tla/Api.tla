--------------------------------- MODULE Api ---------------------------------
(***************************************************************************)
(* sk_api.c: the endpoints of the user and of the paired computers, their  *)
(* copy in NVS, the chains that call all of them - on command, and in      *)
(* bf_timer_engine.c when a timer expires - and the task that makes each   *)
(* call.  Nothing is locked.  Commands come one at a time; chains, single  *)
(* sends and calls run while the endpoints are changed.                    *)
(*                                                                         *)
(* An endpoint is a name, a body - the URL, the token and all other fields *)
(* - and, for a paired computer, its peer.  The name of a paired computer  *)
(* derives from its peer and is written as the peer.                       *)
(***************************************************************************)
EXTENDS Naturals, Sequences, FiniteSets

CONSTANTS
    UserSlots,    \* SK_API_USER_SLOTS
    SystemSlots,  \* SK_API_SYSTEM_SLOTS
    Names,        \* names a user thinks of
    Bodies,
    Peers,
    None,
    Calls,        \* send_workers that memory has room for
    Ops,          \* commands, expired timers, bonds and connections made or lost
    Cuts,         \* power cuts
    Losses        \* writes to NVS that fail

ASSUME ApiAssumption ==
    /\ UserSlots \in Nat /\ SystemSlots \in Nat \ {0} /\ Ops \in Nat /\ Cuts \in Nat /\ Losses \in Nat
    /\ IsFiniteSet(Calls)
    /\ Names \cap Peers = {} /\ None \notin Names \cup Peers \cup Bodies

VARIABLES
    ram,       \* s_user and s_system by their linear index
    nvs,       \* the keys of each slot
    enabled,   \* the master switch, in NVS
    saving,    \* the slots that wait to be saved and how far the first is
    runner,    \* the chain and the single send
    call,      \* the send_workers
    online,    \* BIT_CONNECTED
    bonded,    \* the bonds of sk_auth
    ops, cuts, losses,
    unsaved,   \* history: the slots whose last save or erasure lost a write
    due,       \* history: calls accepted less api.sent published
    began,     \* history: the endpoints when the chain began
    kept,      \* history: those no command has touched since
    fired,     \* history: the slots the chain called and what it sent there
    clear      \* history: nothing kept the chain from calling

store == <<ram, nvs, enabled, saving>>
world == <<online, bonded, ops, cuts, losses>>
chainHistory == <<began, kept, fired, clear>>
apiVars == <<store, unsaved, runner, call, world, due, chainHistory>>

Slots  == 1 .. UserSlots + SystemSlots
User   == 1 .. UserSlots
System == Slots \ User

Endpoints == [name : Names \cup Peers, body : Bodies \cup {None}, peer : Peers \cup {None}]
Keys == [name : Names \cup Peers \cup {None}, body : Bodies \cup {None}, peer : Peers \cup {None}]

Erased  == [name |-> None, body |-> None, peer |-> None]
NoNames == [s \in Slots |-> None]
Idle    == [pc |-> "idle", first |-> "idle", names |-> NoNames, slot |-> 0]
NoSave  == [slots |-> {}, key |-> 1]

Filled(slots) == {s \in slots : ram[s] # None}

\* Every search starts at the lowest index: the one slot it ends at, or none.
Least(slots) == {s \in slots : \A t \in slots : s <= t}

(***************************************************************************)
(* The store.  save_linear sets or erases the keys one by one, in order,   *)
(* and each is durable at once.                                            *)
(***************************************************************************)
KeyOrder == <<"name", "body", "peer">>

\* load_all_slots: a slot of the system bucket needs its kind and its peer.
LoadSlot(s, keys) ==
    IF keys.name = None \/ (s \in System /\ keys.peer = None) THEN None ELSE keys

Load(keys) == [s \in Slots |-> LoadSlot(s, keys[s])]

Value(s, key) == IF ram[s] = None THEN None ELSE ram[s][key]

\* The slot that is being saved.
Busy == Least(saving.slots)

Clear(slots) ==
    /\ ram' = [s \in Slots |-> IF s \in slots THEN None ELSE ram[s]]
    /\ kept' = kept \ slots

\* Of several slots each is cleared when its turn to be saved comes.
NextSlot ==
    LET rest == saving.slots \ Busy IN
    saving' = [slots |-> rest, key |-> 1] /\ Clear(Least(rest))

NextKey ==
    IF saving.key < Len(KeyOrder)
    THEN saving' = [saving EXCEPT !.key = @ + 1] /\ UNCHANGED <<ram, kept>>
    ELSE NextSlot

Saving == UNCHANGED <<enabled, runner, call, online, bonded, ops, cuts, due, began, fired, clear>>

Loss == losses < Losses /\ losses' = losses + 1

\* A write that fails is not noticed.
Lost(s) == Loss /\ unsaved' = unsaved \cup {s} /\ UNCHANGED nvs

Stored(s) == /\ unsaved' = IF saving.key = 1 THEN unsaved \ {s} ELSE unsaved
             /\ UNCHANGED losses

\* Mutant of SaveKey: nothing is erased.
SaveKeySet ==
    /\ \E s \in Busy : LET key == KeyOrder[saving.key] IN
          /\ nvs' = [nvs EXCEPT ![s][key] = IF Value(s, key) = None THEN @ ELSE Value(s, key)]
          /\ Stored(s)
    /\ NextKey
    /\ Saving

SaveKey ==
    /\ \E s \in Busy : LET key == KeyOrder[saving.key] IN
          \/ nvs' = [nvs EXCEPT ![s][key] = Value(s, key)] /\ Stored(s)
          \/ Lost(s)
    /\ NextKey
    /\ Saving

\* nvs_open fails: none of the keys is written.
SaveNothing == saving.key = 1 /\ (\E s \in Busy : Lost(s)) /\ NextSlot /\ Saving

(***************************************************************************)
(* The commands.                                                           *)
(***************************************************************************)
Count == ops < Ops /\ ops' = ops + 1 /\ UNCHANGED cuts
Op == Count /\ UNCHANGED losses

ByName(slots, name) == {s \in Filled(slots) : ram[s].name = name}
ByPeer(peer) == {s \in Filled(System) : ram[s].peer = peer}

\* The slot with that name or peer, or else the first free one.
SlotFor(slots, found) == Least(IF found # {} THEN found ELSE slots \ Filled(slots))

Put(s, endpoint) ==
    /\ saving.slots = {}
    /\ ram' = [ram EXCEPT ![s] = endpoint]
    /\ saving' = [slots |-> {s}, key |-> 1]
    /\ kept' = kept \ {s}
    /\ UNCHANGED <<nvs, enabled, unsaved, runner, call, online, bonded, due, began, fired, clear>>

\* sk_api_endpoint_add, which refuses the name of a paired computer.
EndpointAdd(name, body) ==
    /\ Op /\ ByName(System, name) = {}
    /\ \E s \in SlotFor(User, ByName(User, name)) :
          Put(s, [name |-> name, body |-> body, peer |-> None])

EndpointRemove(name) == Op /\ \E s \in Least(ByName(User, name)) : Put(s, None)

\* sk_api_system_add, for a bonded peer.
SystemAdd(peer, body) ==
    /\ Op /\ peer \in bonded
    /\ \E s \in SlotFor(System, ByPeer(peer)) :
          Put(s, [name |-> peer, body |-> body, peer |-> peer])

SystemRemove(peer) == Op /\ \E s \in Least(ByPeer(peer)) : Put(s, None)

\* sk_api_system_remove_all clears and saves one slot after the other.
Purge ==
    /\ Op /\ saving.slots = {} /\ Filled(System) # {}
    /\ saving' = [slots |-> Filled(System), key |-> 1]
    /\ Clear(Least(Filled(System)))
    /\ UNCHANGED <<nvs, enabled, unsaved, runner, call, online, bonded, due, began, fired, clear>>

\* on_factory_reset; an absent switch reads as enabled.  What cannot be erased stays.
FactoryReset ==
    /\ Count /\ saving.slots = {}
    /\ \E stay \in SUBSET Slots :
          /\ nvs' = [s \in Slots |-> IF s \in stay THEN nvs[s] ELSE Erased]
          /\ unsaved' = stay
          /\ \/ stay = {} /\ enabled' = TRUE /\ UNCHANGED losses
             \/ Loss /\ enabled' \in {TRUE, enabled}
    /\ ram' = [s \in Slots |-> None]
    /\ kept' = {}
    /\ UNCHANGED <<saving, runner, call, online, bonded, due, began, fired, clear>>

Switch ==
    /\ Op /\ enabled' = ~ enabled
    /\ UNCHANGED <<ram, nvs, saving, unsaved, runner, call, online, bonded, due, chainHistory>>

Change == \/ \E name \in Names \cup Peers : EndpointRemove(name) \/ \E body \in Bodies : EndpointAdd(name, body)
          \/ \E peer \in Peers : SystemRemove(peer) \/ \E body \in Bodies : SystemAdd(peer, body)
          \/ Purge \/ FactoryReset \/ Switch

\* WiFi and sk_auth.
Elsewhere ==
    /\ \/ ~ online /\ online' = TRUE /\ UNCHANGED <<bonded, ops, cuts, losses>>
       \/ Op /\ online /\ online' = FALSE /\ UNCHANGED bonded
       \/ Op /\ (\E peer \in Peers : bonded' \in {bonded \cup {peer}, bonded \ {peer}})
             /\ UNCHANGED online
    /\ UNCHANGED <<store, unsaved, runner, call, due, chainHistory>>

(***************************************************************************)
(* sk_api_chain_run and chain_runner, api_trigger_task, sk_api_send.  A     *)
(* runner holds the names it still has to call, at the slots they had.     *)
(***************************************************************************)
List(first, names) == [pc |-> first, first |-> first, names |-> names, slot |-> 0]

ChainNames == [s \in Slots |-> IF ram[s] = None THEN None ELSE ram[s].name]

Begin(first) ==
    /\ Op /\ runner["chain"] = Idle /\ Filled(Slots) # {}
    /\ runner' = [runner EXCEPT !["chain"] = List(first, ChainNames)]
    /\ began' = ram /\ kept' = Filled(Slots) /\ fired' = <<>> /\ clear' = TRUE
    /\ UNCHANGED <<store, unsaved, call, online, bonded, due>>

ChainRun == enabled /\ Begin("look")

\* The timer's own chain looks at neither the switch nor the names.
Trigger == Begin("find")

Send(name) ==
    /\ Op /\ runner["send"] = Idle
    /\ runner' = [runner EXCEPT !["send"] = List("find", [NoNames EXCEPT ![1] = name])]
    /\ UNCHANGED <<store, unsaved, call, online, bonded, due, chainHistory>>

Goes(r, pc) == runner' = [runner EXCEPT ![r].pc = pc]

Left(r) == {s \in Slots : runner[r].names[s] # None}

\* Mutant of Turn: the system bucket first.
SystemFirst(r) ==
    LET system == Left(r) \cap System IN Least(IF system = {} THEN Left(r) ELSE system)

Turn(r) == Least(Left(r))

\* To the next name; after the last, api.chain.finished and the end.
Advance(r) ==
    LET rest == [s \in Slots |-> IF s \in Turn(r) THEN None ELSE runner[r].names[s]] IN
    runner' = [runner EXCEPT ![r] = IF rest = NoNames THEN Idle ELSE List(@.first, rest)]

\* find_any_by_name: the user's first.
Found(r) == UNION {ByName(Slots, runner[r].names[s]) : s \in Turn(r)}

\* chain_runner skips what was removed.
Look(r) ==
    /\ runner[r].pc = "look"
    /\ IF Found(r) = {} THEN Advance(r) ELSE Goes(r, "find")
    /\ UNCHANGED <<store, unsaved, call, world, due, chainHistory>>

Blocks(r) == clear' = (clear /\ r # "chain")

Find(r) ==
    /\ runner[r].pc = "find"
    /\ IF enabled /\ Found(r) # {}
       THEN /\ \E s \in Least(Found(r)) :
                  runner' = [runner EXCEPT ![r].pc = "copy", ![r].slot = s]
            /\ UNCHANGED clear
       ELSE Advance(r) /\ (IF enabled THEN UNCHANGED clear ELSE Blocks(r))
    /\ UNCHANGED <<store, unsaved, call, world, due, began, kept, fired>>

\* Offline is reported at once and counts as no call.
Offline(r) ==
    /\ runner[r].pc = "copy" /\ ~ online
    /\ Advance(r) /\ Blocks(r)
    /\ UNCHANGED <<store, unsaved, call, world, due, began, kept, fired>>

NoMemory(r) ==
    /\ runner[r].pc = "copy" /\ online
    /\ Advance(r) /\ Blocks(r)
    /\ UNCHANGED <<store, unsaved, call, world, due, began, kept, fired>>

\* The record is copied from where it was found, whatever is there by now.
NoCall == [endpoint |-> None, tries |-> 0]
Free   == {c \in Calls : call[c] = NoCall}
Copied(s) == IF ram[s] = None THEN Erased ELSE ram[s]

Spawn(r) ==
    /\ runner[r].pc = "copy" /\ online /\ Free # {}
    /\ LET s == runner[r].slot IN
       /\ call' = [call EXCEPT ![CHOOSE c \in Free : TRUE] = [endpoint |-> Copied(s), tries |-> 1]]
       /\ fired' = IF r = "chain" THEN Append(fired, <<s, Copied(s)>>) ELSE fired
    /\ due' = due + 1
    /\ Advance(r)
    /\ UNCHANGED <<store, unsaved, world, began, kept, clear>>

Run(r) == Look(r) \/ Find(r) \/ Offline(r) \/ NoMemory(r) \/ Spawn(r)

(***************************************************************************)
(* send_worker.                                                            *)
(***************************************************************************)
Ends(c) == call' = [call EXCEPT ![c] = NoCall]

\* worker_publish_result
Report == due' = due - 1

\* The request cannot be built or signed, as for a peer whose bond is gone.
Unsigned(c) ==
    /\ call[c] # NoCall
    /\ Ends(c) /\ Report
    /\ UNCHANGED <<store, unsaved, runner, world, chainHistory>>

Sendable(c) ==
    /\ call[c] # NoCall
    /\ call[c].endpoint.body # None /\ call[c].endpoint.peer \in bonded \cup {None}

\* Any status, good or bad.
Answered(c) ==
    /\ Sendable(c)
    /\ Ends(c) /\ Report
    /\ UNCHANGED <<store, unsaved, runner, world, chainHistory>>

\* Mutant of NoAnswer: the tries are never used up.
NoAnswerAgain(c) ==
    /\ Sendable(c)
    /\ call' = [call EXCEPT ![c].tries = 3 - @]
    /\ UNCHANGED <<store, unsaved, runner, world, due, chainHistory>>

\* No connection or no answer in time: tried once more.
NoAnswer(c) ==
    /\ Sendable(c)
    /\ IF call[c].tries < 2
       THEN call' = [call EXCEPT ![c].tries = @ + 1] /\ UNCHANGED due
       ELSE Ends(c) /\ Report
    /\ UNCHANGED <<store, unsaved, runner, world, chainHistory>>

Call(c) == Unsigned(c) \/ Answered(c) \/ NoAnswer(c)

(***************************************************************************)
(* The whole.                                                              *)
(***************************************************************************)
Runners == {"chain", "send"}

\* Every endpoint has a body; names differ within a bucket, peers are names.
Registered ==
    {r \in [Slots -> Endpoints \cup {None}] :
        /\ \A s \in Slots : r[s] # None => r[s].body # None
        /\ \A s \in User : r[s] # None => r[s].peer = None
        /\ \A s \in System : r[s] # None => r[s].peer = r[s].name
        /\ \A s, t \in Slots : s # t /\ r[s] # None /\ r[t] # None => r[s].name # r[t].name}

ApiInit ==
    /\ ram \in Registered
    /\ nvs = [s \in Slots |-> IF ram[s] = None THEN Erased ELSE ram[s]]
    /\ enabled = TRUE /\ saving = NoSave
    /\ runner = [r \in Runners |-> Idle]
    /\ call = [c \in Calls |-> NoCall]
    /\ online = TRUE /\ bonded \in SUBSET Peers /\ unsaved = {}
    /\ ops \in 0 .. Ops /\ cuts \in 0 .. Cuts /\ losses \in 0 .. Losses /\ due = 0
    /\ began = ram /\ kept = {} /\ fired = <<>> /\ clear = FALSE

\* Power goes and comes back: sk_api_init.
PowerCut ==
    /\ cuts < Cuts /\ cuts' = cuts + 1
    /\ ram' = Load(nvs) /\ saving' = NoSave
    /\ runner' = [r \in Runners |-> Idle]
    /\ call' = [c \in Calls |-> NoCall]
    /\ due' = 0 /\ unsaved' = {}
    /\ online' = FALSE
    /\ kept' = {} /\ fired' = <<>> /\ clear' = FALSE /\ began' = ram'
    /\ UNCHANGED <<nvs, enabled, bonded, ops, losses>>

ApiNext == \/ SaveKey \/ SaveNothing \/ Change \/ Elsewhere \/ PowerCut
           \/ ChainRun \/ Trigger \/ \E name \in Names \cup Peers : Send(name)
           \/ \E r \in Runners : Run(r)
           \/ \E c \in Calls : Call(c)

ApiSpec == ApiInit /\ [][ApiNext]_apiVars

\* FreeRTOS serves every task; a call ends by its timeout at the latest.
ApiFairness ==
    /\ \A r \in Runners : WF_apiVars(Run(r))
    /\ \A c \in Calls : WF_apiVars(Call(c))

FairApi == ApiSpec /\ ApiFairness

(***************************************************************************)
(* Properties.                                                             *)
(***************************************************************************)
\* The types; each system endpoint has its peer, a runner has names to call
\* exactly while it runs and a slot to copy from, and a call accepted and not reported is in flight.
ApiTypeOK ==
    /\ ram \in [Slots -> Endpoints \cup {None}] /\ nvs \in [Slots -> Keys]
    /\ \A s \in System : ram[s] # None => ram[s].peer # None
    /\ enabled \in BOOLEAN /\ online \in BOOLEAN /\ bonded \subseteq Peers /\ unsaved \subseteq Slots
    /\ saving \in [slots : SUBSET Slots, key : 1 .. Len(KeyOrder)]
    /\ runner \in [Runners -> [pc : {"idle", "look", "find", "copy"}, first : {"idle", "look", "find"},
                               names : [Slots -> Names \cup Peers \cup {None}], slot : Slots \cup {0}]]
    /\ \A r \in Runners : /\ runner[r] = Idle <=> runner[r].names = NoNames
                          /\ runner[r].pc = "copy" => runner[r].slot \in Slots
    /\ call \in [Calls -> [endpoint : Endpoints \cup {None, Erased}, tries : 0 .. 2]]
    /\ due = Cardinality(Calls \ Free)
    /\ ops \in 0 .. Ops /\ cuts \in 0 .. Cuts /\ losses \in 0 .. Losses
    /\ began \in [Slots -> Endpoints \cup {None}] /\ kept \subseteq Slots /\ clear \in BOOLEAN
    /\ fired \in Seq(Slots \X (Endpoints \cup {Erased}))

\* A power cut changes nothing but the slot whose save it interrupts and those whose
\* last save, or erasure by a reset, lost a write that the code did not check: all
\* other slots are loaded as they are, whatever earlier cuts and losses left in their
\* keys.
ReloadsSame ==
    \A s \in Slots : s \notin Busy \cup unsaved => LoadSlot(s, nvs[s]) = ram[s]

Differ(endpoints) ==
    \A s, t \in Slots : (s # t /\ endpoints[s] # None /\ endpoints[t] # None) =>
                           endpoints[s].name # endpoints[t].name

\* Not so after two power cuts: one that spoils the removal of a computer, one
\* that spoils the save of another in its place, whose keys go to a third.
OwnPeers(endpoints) == \A s \in System : endpoints[s] # None => endpoints[s].peer = endpoints[s].name

\* A chain that nothing blocks calls every endpoint that stays as it is once,
\* the user's before the computers' and each in slot order, and sends to it what
\* is registered there, whatever is added or removed elsewhere meanwhile -
\* provided no two endpoints share a name and each computer has its own.
ChainReachesAll ==
    (runner["chain"] = Idle /\ clear /\ Differ(began) /\ OwnPeers(began)) =>
        /\ \A s \in kept : \E i \in DOMAIN fired : fired[i] = <<s, began[s]>>
        /\ \A i, j \in DOMAIN fired :
              (i < j /\ {fired[i][1], fired[j][1]} \subseteq kept) => fired[i][1] < fired[j][1]

\* Chains finish and calls end, offline, without memory or without an answer.
Settles == []<>(due = 0 /\ \A r \in Runners : runner[r] = Idle)
==============================================================================
