------------------------------- MODULE ApiProofs -------------------------------
(***************************************************************************)
(* Proofs about the endpoints and the chains, for every number of slots,   *)
(* every set of names, bodies, computers and calls, and any power cuts and *)
(* failing writes.                                                         *)
(*                                                                         *)
(* The argument about the store: what the save in progress has written so  *)
(* far, if it has lost no write, is what its slot holds in RAM, so that    *)
(* after its last key the slot reads as it is, whatever was in its keys    *)
(* before.                                                                 *)
(*                                                                         *)
(* The argument about a chain: the list keeps the names of the slots it    *)
(* began with; a name whose slot nobody touched is found in that very      *)
(* slot, because no command registers its name a second time in a slot     *)
(* that is searched before; so each call is the one whose turn it is, and  *)
(* what was called precedes all that is left.                              *)
(***************************************************************************)
EXTENDS Api, FiniteSetTheorems, TLAPS

USE DEF store, world, chainHistory

Chain == runner["chain"]

(***************************************************************************)
(* The parts of the invariant.                                             *)
(***************************************************************************)
\* The keys that the save in progress has written, unless it lost one.
Written == \A s \in Busy \ unsaved : \A k \in 1 .. saving.key - 1 : nvs[s][KeyOrder[k]] = Value(s, KeyOrder[k])

\* A slot that is kept still holds what the chain began with.
KeptSame == \A s \in kept : ram[s] = began[s] /\ ram[s] # None

\* What a chain began with and what has blocked it, if anything.
Sound == clear /\ Differ(began) /\ OwnPeers(began)

\* The name of a kept slot is nowhere else, but that of a user's endpoint may by
\* now be a computer's too.
NamesApart ==
    /\ OwnPeers(ram)
    /\ \A s \in kept, t \in Slots :
          (s # t /\ ram[t] # None /\ ram[t].name = ram[s].name) => s \in User /\ t \in System

\* The names left are those the chain began with.
ListSame == \A s \in Left("chain") : began[s] # None /\ Chain.names[s] = began[s].name

\* A kept slot is called or its turn comes.
CalledOrLeft ==
    \A s \in kept : s \in Left("chain") \/ \E i \in DOMAIN fired : fired[i] = <<s, began[s]>>

\* Kept slots are called in order,
InTurn ==
    \A i, j \in DOMAIN fired :
       (i < j /\ {fired[i][1], fired[j][1]} \subseteq kept) => fired[i][1] < fired[j][1]

\* before those that are left.
BeforeLeft == \A i \in DOMAIN fired, s \in Left("chain") : fired[i][1] \in kept => fired[i][1] < s

\* The slot that was found is the one whose turn it is, if either is kept.
FoundOwn ==
    Chain.pc = "copy" => \E t \in Turn("chain") : (Chain.slot \in kept \/ t \in kept) => Chain.slot = t

ChainPart == NamesApart /\ ListSame /\ CalledOrLeft /\ InTurn /\ BeforeLeft /\ FoundOwn

ApiInv == ApiTypeOK /\ Written /\ ReloadsSame /\ KeptSame /\ (Sound => ChainPart)

(***************************************************************************)
(* Data.                                                                   *)
(***************************************************************************)
LEMMA SlotFacts ==
    /\ Slots \subseteq Nat /\ 1 \in Slots /\ 0 \notin Slots
    /\ User \subseteq Slots /\ System \subseteq Slots
    /\ \A s \in Slots : s \in System <=> s \notin User
    /\ \A s \in User, t \in System : s < t
BY ApiAssumption DEF Slots, User, System

LEMMA LeastFacts ==
    ASSUME NEW S \in SUBSET Slots
    PROVE  /\ Least(S) \subseteq S
           /\ \A s \in Least(S), t \in S : s <= t
           /\ \A s, t \in Least(S) : s = t
<1>1. Least(S) \subseteq S /\ \A s \in Least(S), t \in S : s <= t
  BY DEF Least
<1>2. ASSUME NEW s \in Least(S), NEW t \in Least(S) PROVE s = t
  <2>1. s <= t /\ t <= s /\ s \in Nat /\ t \in Nat
    BY <1>1, SlotFacts
  <2> QED BY <2>1
<1> QED BY <1>1, <1>2

LEMMA LeastOfOne == \A s \in Slots : Least({s}) = {s}
BY SlotFacts DEF Least

LEMMA LeastOfNone == Least({}) = {}
BY DEF Least

LEMMA NameFacts ==
    \A e \in Endpoints : e.name \in Names \cup Peers /\ e.name # None
BY ApiAssumption DEF Endpoints

LEMMA ListFacts ==
    /\ Idle.names = NoNames /\ Idle.pc = "idle"
    /\ \A first, names : /\ List(first, names).names = names /\ List(first, names).pc = first
                         /\ List(first, names).slot = 0 /\ List(first, names).first = first
BY DEF Idle, List

\* The length of what was called, and its entries, after one more call.
LEMMA AppendFacts ==
    ASSUME NEW T, NEW q \in Seq(T), NEW e \in T
    PROVE  /\ Append(q, e) \in Seq(T)
           /\ DOMAIN Append(q, e) = DOMAIN q \cup {Len(q) + 1}
           /\ Append(q, e)[Len(q) + 1] = e
           /\ \A i \in DOMAIN q : Append(q, e)[i] = q[i] /\ i < Len(q) + 1 /\ i \in Nat
<1>1. /\ Append(q, e) \in Seq(T) /\ Len(Append(q, e)) = Len(q) + 1 /\ Len(q) \in Nat
      /\ Append(q, e)[Len(q) + 1] = e /\ \A i \in 1 .. Len(q) : Append(q, e)[i] = q[i]
      /\ DOMAIN q = 1 .. Len(q) /\ DOMAIN Append(q, e) = 1 .. Len(Append(q, e))
  OBVIOUS
<1>2. 1 .. Len(q) + 1 = (1 .. Len(q)) \cup {Len(q) + 1}
  BY <1>1
<1> QED BY <1>1, <1>2

(***************************************************************************)
(* The types.                                                              *)
(***************************************************************************)
StoreType ==
    /\ ram \in [Slots -> Endpoints \cup {None}] /\ nvs \in [Slots -> Keys]
    /\ \A s \in System : ram[s] # None => ram[s].peer # None
    /\ enabled \in BOOLEAN /\ unsaved \subseteq Slots
    /\ saving \in [slots : SUBSET Slots, key : 1 .. Len(KeyOrder)]

Runner == [pc : {"idle", "look", "find", "copy"}, first : {"idle", "look", "find"},
           names : [Slots -> Names \cup Peers \cup {None}], slot : Slots \cup {0}]

RunnerType ==
    /\ runner \in [Runners -> Runner]
    /\ \A r \in Runners : /\ runner[r] = Idle <=> runner[r].names = NoNames
                          /\ runner[r].pc = "copy" => runner[r].slot \in Slots

CallType ==
    /\ call \in [Calls -> [endpoint : Endpoints \cup {None, Erased}, tries : 0 .. 2]]
    /\ due = Cardinality(Calls \ Free)

WorldType ==
    /\ online \in BOOLEAN /\ bonded \subseteq Peers
    /\ ops \in 0 .. Ops /\ cuts \in 0 .. Cuts /\ losses \in 0 .. Losses

HistoryType ==
    /\ began \in [Slots -> Endpoints \cup {None}] /\ kept \subseteq Slots /\ clear \in BOOLEAN
    /\ fired \in Seq(Slots \X (Endpoints \cup {Erased}))

LEMMA TypeParts == ApiTypeOK <=> StoreType /\ RunnerType /\ CallType /\ WorldType /\ HistoryType
BY DEF ApiTypeOK, StoreType, RunnerType, CallType, WorldType, HistoryType, Runner

LEMMA TypePartsNext ==
    (StoreType /\ RunnerType /\ CallType /\ WorldType /\ HistoryType)' => ApiTypeOK'
BY DEF ApiTypeOK, StoreType, RunnerType, CallType, WorldType, HistoryType, Runner

(***************************************************************************)
(* The store.  Each step of a command leaves most slots as they are and    *)
(* touches or clears others.                                               *)
(***************************************************************************)
\* Nothing of the chain and of the calls moves.
Aside == UNCHANGED <<runner, call, online, bonded, due, began, fired, clear>>

LEMMA AsideTypes ==
    ASSUME ApiTypeOK, Aside, StoreType', WorldType', kept' \subseteq kept
    PROVE  ApiTypeOK'
<1> USE DEF Aside
<1>1. RunnerType' /\ CallType' /\ HistoryType'
  BY TypeParts DEF RunnerType, CallType, HistoryType, Free
<1> QED BY <1>1, TypePartsNext

\* A step of a chain's world that touches no slot that stays kept leaves the
\* chain where it is.
LEMMA AsideChain ==
    ASSUME Sound => ChainPart, runner'["chain"] = runner["chain"], UNCHANGED <<began, fired>>,
           kept' \subseteq kept, clear' => clear, Sound => NamesApart'
    PROVE  Sound' => ChainPart'
<1> SUFFICES ASSUME Sound' PROVE ChainPart'
  OBVIOUS
<1>1. Sound
  BY DEF Sound, Differ, OwnPeers
<1>2. Left("chain")' = Left("chain") /\ Turn("chain")' = Turn("chain") /\ Chain' = Chain
  BY DEF Left, Turn, Least, Chain
<1>3. ListSame' /\ CalledOrLeft'
  BY <1>1, <1>2 DEF ChainPart, ListSame, CalledOrLeft
<1>4. InTurn'
  BY <1>1 DEF ChainPart, InTurn
<1>5. BeforeLeft'
  BY <1>1, <1>2 DEF ChainPart, BeforeLeft
<1>6. FoundOwn'
  BY <1>1, <1>2 DEF ChainPart, FoundOwn
<1> QED BY <1>1, <1>3, <1>4, <1>5, <1>6 DEF ChainPart

\* Names stay apart when slots are only cleared.
LEMMA ClearedApart ==
    ASSUME NamesApart, kept' \subseteq kept, \A s \in Slots : ram'[s] \in {ram[s], None},
           \A s \in kept' : ram'[s] = ram[s]
    PROVE  NamesApart'
<1>1. OwnPeers(ram)'
  BY SlotFacts DEF NamesApart, OwnPeers
<1> QED BY <1>1 DEF NamesApart

LEMMA ClearFacts ==
    ASSUME ApiInv, NEW S \in SUBSET Slots, Clear(S)
    PROVE  /\ ram' \in [Slots -> Endpoints \cup {None}] /\ \A s \in System : ram'[s] # None => ram'[s].peer # None
           /\ \A s \in Slots : ram'[s] = IF s \in S THEN None ELSE ram[s]
           /\ kept' \subseteq kept /\ \A s \in kept' : s \in Slots /\ ram'[s] = ram[s]
           /\ UNCHANGED began => KeptSame'
           /\ NamesApart => NamesApart'
<1>1. /\ ram' = [s \in Slots |-> IF s \in S THEN None ELSE ram[s]] /\ kept' = kept \ S /\ kept \subseteq Slots
      /\ ram \in [Slots -> Endpoints \cup {None}] /\ \A s \in System : ram[s] # None => ram[s].peer # None
  BY DEF Clear, ApiInv, ApiTypeOK
<1>2. /\ ram' \in [Slots -> Endpoints \cup {None}] /\ \A s \in System : ram'[s] # None => ram'[s].peer # None
      /\ \A s \in Slots : ram'[s] = IF s \in S THEN None ELSE ram[s]
      /\ kept' \subseteq kept /\ \A s \in kept' : s \in Slots /\ ram'[s] = ram[s]
  BY <1>1, SlotFacts
<1>3. UNCHANGED began => KeptSame'
  BY <1>2 DEF KeptSame, ApiInv
<1>4. NamesApart => NamesApart'
  BY <1>2, ClearedApart
<1> QED BY <1>2, <1>3, <1>4

LEMMA PutFacts ==
    ASSUME ApiInv, NEW s \in Slots, NEW e \in Endpoints \cup {None}, Put(s, e),
           (s \in System /\ e # None) => e.peer # None
    PROVE  /\ StoreType' /\ Written' /\ ReloadsSame' /\ KeptSame'
           /\ kept' = kept \ {s} /\ kept \subseteq Slots /\ Aside
           /\ ram'[s] = e /\ \A t \in Slots : t # s => ram'[t] = ram[t]
<1>1. /\ saving.slots = {} /\ ram' = [ram EXCEPT ![s] = e] /\ saving' = [slots |-> {s}, key |-> 1]
      /\ kept' = kept \ {s} /\ UNCHANGED <<nvs, enabled, unsaved>> /\ Aside
  BY DEF Put, Aside
<1>2. StoreType /\ kept \subseteq Slots
  BY TypeParts DEF ApiInv, HistoryType
<1>3. ram'[s] = e /\ \A t \in Slots : t # s => ram'[t] = ram[t]
  BY <1>1, <1>2 DEF StoreType
<1>4. StoreType'
  <2>1. saving' \in [slots : SUBSET Slots, key : 1 .. Len(KeyOrder)]
    BY <1>1 DEF KeyOrder
  <2> QED BY <1>1, <1>2, <1>3, <2>1 DEF StoreType
<1>5. Busy = {} /\ Busy' = {s}
  BY <1>1, LeastOfOne, LeastOfNone DEF Busy
<1>6. Written'
  BY <1>1 DEF Written
<1>7. ReloadsSame'
  BY <1>1, <1>3, <1>5 DEF ReloadsSame, ApiInv
<1>8. KeptSame'
  BY <1>1, <1>2, <1>3 DEF KeptSame, ApiInv, Aside
<1> QED BY <1>1, <1>2, <1>3, <1>4, <1>6, <1>7, <1>8

LEMMA KeyFacts ==
    /\ Len(KeyOrder) = 3
    /\ KeyOrder[1] = "name" /\ KeyOrder[2] = "body" /\ KeyOrder[3] = "peer"
    /\ \A s \in Slots, keys \in Keys, k \in 1 .. 3 : StoreType =>
          /\ [keys EXCEPT ![KeyOrder[k]] = Value(s, KeyOrder[k])] \in Keys
          /\ [keys EXCEPT ![KeyOrder[k]] = Value(s, KeyOrder[k])][KeyOrder[k]] = Value(s, KeyOrder[k])
          /\ \A j \in 1 .. 3 : j # k =>
                [keys EXCEPT ![KeyOrder[k]] = Value(s, KeyOrder[k])][KeyOrder[j]] = keys[KeyOrder[j]]
<1>1. /\ Len(KeyOrder) = 3
      /\ KeyOrder[1] = "name" /\ KeyOrder[2] = "body" /\ KeyOrder[3] = "peer"
  BY DEF KeyOrder
<1>2. ASSUME NEW s \in Slots, NEW keys \in Keys, StoreType
      PROVE  /\ [keys EXCEPT !["name"] = Value(s, "name")] \in Keys
             /\ [keys EXCEPT !["body"] = Value(s, "body")] \in Keys
             /\ [keys EXCEPT !["peer"] = Value(s, "peer")] \in Keys
  <2>1. /\ Value(s, "name") \in Names \cup Peers \cup {None}
        /\ Value(s, "body") \in Bodies \cup {None}
        /\ Value(s, "peer") \in Peers \cup {None}
    BY <1>2 DEF StoreType, Value, Endpoints
  <2> QED BY <2>1 DEF Keys
<1>3. ASSUME NEW keys \in Keys, NEW v, NEW x \in {"name", "body", "peer"}
      PROVE  /\ [keys EXCEPT ![x] = v][x] = v
             /\ \A y \in {"name", "body", "peer"} : y # x => [keys EXCEPT ![x] = v][y] = keys[y]
  BY DEF Keys
<1>4. ASSUME NEW k \in 1 .. 3
      PROVE  /\ KeyOrder[k] \in {"name", "body", "peer"}
             /\ \A j \in 1 .. 3 : j # k => KeyOrder[j] # KeyOrder[k]
  <2>1. (k = 1 \/ k = 2 \/ k = 3) /\ \A j \in 1 .. 3 : j = 1 \/ j = 2 \/ j = 3
    OBVIOUS
  <2> QED BY <1>1, <2>1
<1>5. ASSUME NEW s \in Slots, NEW keys \in Keys, NEW k \in 1 .. 3, StoreType
      PROVE  /\ [keys EXCEPT ![KeyOrder[k]] = Value(s, KeyOrder[k])] \in Keys
             /\ [keys EXCEPT ![KeyOrder[k]] = Value(s, KeyOrder[k])][KeyOrder[k]] = Value(s, KeyOrder[k])
             /\ \A j \in 1 .. 3 : j # k =>
                   [keys EXCEPT ![KeyOrder[k]] = Value(s, KeyOrder[k])][KeyOrder[j]] = keys[KeyOrder[j]]
  <2>1. [keys EXCEPT ![KeyOrder[k]] = Value(s, KeyOrder[k])] \in Keys
    <3>1. KeyOrder[k] = "name" \/ KeyOrder[k] = "body" \/ KeyOrder[k] = "peer"
      BY <1>4
    <3> QED BY <1>2, <1>5, <3>1
  <2>2. KeyOrder[k] \in {"name", "body", "peer"}
    BY <1>4
  <2>3. \A j \in 1 .. 3 : j # k => KeyOrder[j] # KeyOrder[k] /\ KeyOrder[j] \in {"name", "body", "peer"}
    BY <1>4
  <2> DEFINE v == Value(s, KeyOrder[k])
  <2> HIDE DEF v
  <2>4. /\ [keys EXCEPT ![KeyOrder[k]] = v][KeyOrder[k]] = v
        /\ \A j \in 1 .. 3 : j # k => [keys EXCEPT ![KeyOrder[k]] = v][KeyOrder[j]] = keys[KeyOrder[j]]
    BY <1>3, <2>2, <2>3
  <2> QED BY <2>1, <2>4 DEF v
<1> QED BY <1>1, <1>5

\* A slot all of whose keys hold what it has in RAM reads as it is.
LEMMA WrittenReads ==
    ASSUME StoreType, NEW s \in Slots, NEW keys \in Keys,
           \A k \in 1 .. 3 : keys[KeyOrder[k]] = Value(s, KeyOrder[k])
    PROVE  LoadSlot(s, keys) = ram[s]
<1>1. keys.name = Value(s, "name") /\ keys.body = Value(s, "body") /\ keys.peer = Value(s, "peer")
  BY KeyFacts
<1>2. CASE ram[s] = None
  BY <1>1, <1>2 DEF LoadSlot, Value
<1>3. CASE ram[s] # None
  <2>1. ram[s] \in Endpoints /\ (s \in System => ram[s].peer # None)
    BY <1>3 DEF StoreType
  <2>2. keys.name = ram[s].name /\ keys.body = ram[s].body /\ keys.peer = ram[s].peer
    BY <1>1, <1>3 DEF Value
  <2>3. keys = ram[s]
    BY <2>1, <2>2 DEF Keys, Endpoints
  <2>4. keys.name # None /\ (s \in System => keys.peer # None)
    BY <2>1, <2>2, NameFacts
  <2> QED BY <2>3, <2>4 DEF LoadSlot
<1> QED BY <1>2, <1>3

\* The turn of the next slot to be saved, once that of s is over.
LEMMA NextSlotKeeps ==
    ASSUME ApiInv, NEW s \in Slots, Busy = {s}, NextSlot, Aside, UNCHANGED enabled, WorldType',
           nvs' \in [Slots -> Keys], unsaved' \in SUBSET Slots,
           \A t \in Slots : t # s => nvs'[t] = nvs[t] /\ (t \in unsaved' <=> t \in unsaved),
           s \notin unsaved' => LoadSlot(s, nvs'[s]) = ram[s]
    PROVE  ApiInv'
<1>1. StoreType /\ ApiTypeOK /\ saving.slots \in SUBSET Slots
  BY TypeParts DEF ApiInv, StoreType
<1> DEFINE rest == saving.slots \ Busy
<1>2. saving' = [slots |-> rest, key |-> 1] /\ Clear(Least(rest))
  BY DEF NextSlot
<1>3. Least(rest) \in SUBSET Slots /\ rest \in SUBSET Slots /\ s \notin Least(rest)
  BY <1>1, LeastFacts
<1>4. Busy' = Least(rest)
  BY <1>2 DEF Busy
<1> HIDE DEF rest
<1>5. /\ ram' \in [Slots -> Endpoints \cup {None}] /\ \A t \in System : ram'[t] # None => ram'[t].peer # None
      /\ \A t \in Slots : ram'[t] = IF t \in Least(rest) THEN None ELSE ram[t]
      /\ kept' \subseteq kept /\ KeptSame' /\ (NamesApart => NamesApart')
  BY <1>2, <1>3, ClearFacts DEF Aside
<1>6. saving' \in [slots : SUBSET Slots, key : 1 .. 3] /\ saving'.key = 1
  BY <1>2, <1>3
<1>7. StoreType'
  BY <1>1, <1>5, <1>6, KeyFacts DEF StoreType
<1>8. Written'
  BY <1>6 DEF Written
<1>9. ReloadsSame'
  BY <1>4, <1>5 DEF ReloadsSame, ApiInv
<1>10. Sound' => ChainPart'
  BY <1>5, AsideChain DEF ApiInv, Aside, ChainPart
<1>11. ApiTypeOK'
  BY <1>1, <1>5, <1>7, AsideTypes
<1> QED BY <1>5, <1>8, <1>9, <1>10, <1>11 DEF ApiInv

LEMMA LossType ==
    ASSUME WorldType, UNCHANGED <<online, bonded, ops, cuts>>, Loss \/ UNCHANGED losses
    PROVE  WorldType'
<1>1. losses' \in 0 .. Losses
  BY ApiAssumption DEF WorldType, Loss
<1> QED BY <1>1 DEF WorldType

\* A save whose keys cannot be opened leaves them as they are.
LEMMA SaveNothingKeeps ==
    ASSUME ApiInv, SaveNothing
    PROVE  ApiInv'
<1>1. StoreType /\ WorldType
  BY TypeParts DEF ApiInv
<1>2. PICK s \in Busy : Lost(s)
  BY DEF SaveNothing
<1>3. s \in Slots /\ Busy = {s}
  BY <1>1, LeastFacts DEF StoreType, Busy
<1>4. NextSlot /\ Aside /\ UNCHANGED <<enabled, ops, cuts, nvs>> /\ Loss /\ unsaved' = unsaved \cup {s}
  BY <1>2 DEF SaveNothing, Saving, Lost, Aside
<1>5. WorldType'
  BY <1>1, <1>4, LossType DEF Aside
<1> QED BY <1>1, <1>3, <1>4, <1>5, NextSlotKeeps DEF StoreType

\* What one more key of the slot that is being saved leaves.
LEMMA SaveKeyKeeps ==
    ASSUME ApiInv, SaveKey
    PROVE  ApiInv'
<1>1. StoreType /\ WorldType /\ ApiTypeOK
  BY TypeParts DEF ApiInv
<1> DEFINE key == saving.key
<1>2. PICK s \in Busy : \/ nvs' = [nvs EXCEPT ![s][KeyOrder[key]] = Value(s, KeyOrder[key])] /\ Stored(s)
                        \/ Lost(s)
  BY DEF SaveKey
<1> DEFINE keys == [nvs[s] EXCEPT ![KeyOrder[key]] = Value(s, KeyOrder[key])]
<1>3. /\ saving.slots \in SUBSET Slots /\ s \in Slots /\ Busy = {s} /\ key \in 1 .. 3 /\ nvs[s] \in Keys
  BY <1>1, LeastFacts, KeyFacts DEF StoreType, Busy
<1>4. Aside /\ NextKey /\ UNCHANGED <<enabled, ops, cuts>>
  BY DEF SaveKey, Saving, Aside
<1>5. /\ nvs' \in [Slots -> Keys] /\ \A t \in Slots : t # s => nvs'[t] = nvs[t]
      /\ s \notin unsaved' => nvs'[s] = keys
  <2>1. keys \in Keys
    BY <1>1, <1>3, KeyFacts
  <2>2. nvs' = [nvs EXCEPT ![s] = keys] \/ (nvs' = nvs /\ s \in unsaved')
    BY <1>2 DEF Lost
  <2> HIDE DEF keys
  <2> QED BY <1>1, <1>3, <2>1, <2>2 DEF StoreType
<1>6. /\ unsaved' \in SUBSET Slots /\ \A t \in Slots : t # s => (t \in unsaved' <=> t \in unsaved)
      /\ s \notin unsaved' => key = 1 \/ s \notin unsaved
  <2>1. Stored(s) \/ Lost(s)
    BY <1>2
  <2>2. CASE Stored(s)
    <3>1. \/ key = 1 /\ unsaved' = unsaved \ {s}
          \/ unsaved' = unsaved
      BY <2>2 DEF Stored
    <3> QED BY <1>1, <3>1 DEF StoreType
  <2>3. CASE Lost(s)
    <3>1. unsaved' = unsaved \cup {s}
      BY <2>3 DEF Lost
    <3> QED BY <1>1, <1>3, <3>1 DEF StoreType
  <2> QED BY <2>1, <2>2, <2>3
<1>7. ASSUME s \notin unsaved', NEW k \in 1 .. key
      PROVE  nvs'[s][KeyOrder[k]] = Value(s, KeyOrder[k])
  <2>1. \A j \in 1 .. key - 1 : nvs[s][KeyOrder[j]] = Value(s, KeyOrder[j])
    BY <1>3, <1>6, <1>7 DEF ApiInv, Written
  <2>2. keys[KeyOrder[key]] = Value(s, KeyOrder[key])
    BY <1>1, <1>3, KeyFacts
  <2>3. \A j \in 1 .. key - 1 : keys[KeyOrder[j]] = nvs[s][KeyOrder[j]]
    BY <1>1, <1>3, KeyFacts
  <2> HIDE DEF keys
  <2>4. k = key \/ k \in 1 .. key - 1
    BY <1>3
  <2> QED BY <1>5, <1>7, <2>1, <2>2, <2>3, <2>4
<1> HIDE DEF keys
<1>8. WorldType'
  <2>1. Stored(s) \/ Lost(s)
    BY <1>2
  <2>2. Loss \/ UNCHANGED losses
    BY <2>1 DEF Stored, Lost
  <2> QED BY <1>1, <1>4, <2>2, LossType DEF Aside
<1>9. CASE key < 3
  <2>1. saving' = [saving EXCEPT !.key = key + 1] /\ UNCHANGED <<ram, kept>>
    BY <1>4, <1>9, KeyFacts DEF NextKey
  <2>2. saving' \in [slots : SUBSET Slots, key : 1 .. 3] /\ saving'.slots = saving.slots /\ saving'.key = key + 1
    BY <1>1, <1>3, <1>9, <2>1, KeyFacts DEF StoreType
  <2>3. Busy' = {s}
    BY <1>3, <2>2 DEF Busy
  <2>4. StoreType'
    BY <1>1, <1>4, <1>5, <1>6, <2>1, <2>2, KeyFacts DEF StoreType
  <2>5. Written'
    <3> SUFFICES ASSUME s \notin unsaved', NEW k \in 1 .. key PROVE nvs'[s][KeyOrder[k]] = Value(s, KeyOrder[k])'
      BY <1>3, <2>2, <2>3 DEF Written
    <3> QED BY <1>7, <2>1 DEF Value
  <2>6. ReloadsSame'
    BY <1>3, <1>5, <1>6, <2>1, <2>3 DEF ReloadsSame, ApiInv
  <2>7. KeptSame'
    BY <1>4, <2>1 DEF KeptSame, ApiInv, Aside
  <2>8. NamesApart => NamesApart'
    BY <2>1 DEF NamesApart, OwnPeers
  <2>9. Sound' => ChainPart'
    BY <1>4, <2>1, <2>8, AsideChain DEF ApiInv, Aside, ChainPart
  <2>10. ApiTypeOK'
    BY <1>1, <1>4, <1>8, <2>1, <2>4, AsideTypes
  <2> QED BY <2>5, <2>6, <2>7, <2>9, <2>10 DEF ApiInv
<1>10. CASE key = 3
  <2>1. NextSlot
    BY <1>4, <1>10, KeyFacts DEF NextKey
  <2>2. s \notin unsaved' => LoadSlot(s, nvs'[s]) = ram[s]
    BY <1>1, <1>3, <1>5, <1>7, <1>10, WrittenReads
  <2> QED BY <1>3, <1>4, <1>5, <1>6, <1>8, <2>1, <2>2, NextSlotKeeps
<1>11. key < 3 \/ key = 3
  BY <1>3
<1> QED BY <1>9, <1>10, <1>11

(***************************************************************************)
(* The commands.                                                           *)
(***************************************************************************)
LEMMA CountType ==
    ASSUME WorldType, Count, UNCHANGED <<online, bonded>>, Loss \/ UNCHANGED losses
    PROVE  WorldType'
<1>1. ops' \in 0 .. Ops /\ losses' \in 0 .. Losses
  BY ApiAssumption DEF WorldType, Count, Loss
<1> QED BY <1>1 DEF WorldType, Count

LEMMA OpType == WorldType /\ Op /\ UNCHANGED <<online, bonded>> => WorldType'
BY CountType DEF Op

LEMMA PutKeeps ==
    ASSUME ApiInv, NEW s \in Slots, NEW e \in Endpoints \cup {None}, Put(s, e), Op,
           (s \in System /\ e # None) => e.peer # None,
           Sound => NamesApart'
    PROVE  ApiInv'
<1>1. /\ StoreType' /\ Written' /\ ReloadsSame' /\ KeptSame' /\ kept' \subseteq kept /\ Aside
  BY PutFacts
<1>2. ApiTypeOK'
  BY <1>1, TypeParts, OpType, AsideTypes DEF ApiInv, Aside
<1>3. Sound' => ChainPart'
  BY <1>1, AsideChain DEF ApiInv, Aside
<1> QED BY <1>1, <1>2, <1>3 DEF ApiInv

LEMMA ByNameFacts ==
    \A S \in SUBSET Slots : \A name : /\ ByName(S, name) \in SUBSET S
                                      /\ \A s \in S : s \in ByName(S, name) <=> ram[s] # None /\ ram[s].name = name
BY DEF ByName, Filled

\* A name that a user registers is not that of a computer and replaces itself.
LEMMA EndpointAddKeeps ==
    ASSUME ApiInv, NEW name \in Names \cup Peers, NEW body \in Bodies, EndpointAdd(name, body)
    PROVE  ApiInv'
<1> DEFINE e == [name |-> name, body |-> body, peer |-> None]
<1>1. PICK s \in SlotFor(User, ByName(User, name)) : Put(s, e)
  BY DEF EndpointAdd
<1>2. Op /\ ByName(System, name) = {}
  BY DEF EndpointAdd
<1>3. /\ ByName(User, name) \in SUBSET User /\ User \ Filled(User) \in SUBSET User
  BY ByNameFacts, SlotFacts DEF Filled
<1>4. s \in User /\ s \in Slots /\ s \notin System /\ (ByName(User, name) # {} => s \in ByName(User, name))
  <2> DEFINE S == IF ByName(User, name) # {} THEN ByName(User, name) ELSE User \ Filled(User)
  <2>1. S \in SUBSET User /\ (ByName(User, name) # {} => S = ByName(User, name))
    BY <1>3
  <2>2. s \in Least(S)
    BY <1>1 DEF SlotFor
  <2> HIDE DEF S
  <2>3. s \in S
    BY <2>1, <2>2, LeastFacts, SlotFacts
  <2> QED BY <2>1, <2>3, SlotFacts
<1>5. e \in Endpoints /\ e.name = name
  BY DEF Endpoints
<1> HIDE DEF e
<1>6. ASSUME NamesApart PROVE NamesApart'
  <2>1. kept' = kept \ {s} /\ kept \subseteq Slots /\ ram'[s] = e /\ \A t \in Slots : t # s => ram'[t] = ram[t]
    BY <1>1, <1>4, <1>5, PutFacts
  <2>2. OwnPeers(ram)'
    BY <1>4, <1>6, <2>1, SlotFacts DEF NamesApart, OwnPeers
  <2>3. ASSUME NEW k \in kept', NEW t \in Slots, k # t, ram'[t] # None, ram'[t].name = ram'[k].name
        PROVE  k \in User /\ t \in System
    <3>1. k # s /\ k \in kept /\ k \in Slots /\ ram'[k] = ram[k] /\ ram[k] # None
      BY <2>1 DEF ApiInv, KeptSame
    <3>2. CASE t # s
      BY <1>6, <2>1, <2>3, <3>1, <3>2 DEF NamesApart
    <3>3. CASE t = s
      <4>1. ram[k].name = name
        BY <1>5, <2>1, <2>3, <3>1, <3>3
      <4>2. k \in User
        BY <1>2, <3>1, <4>1, ByNameFacts, SlotFacts
      <4>3. ram[s] # None /\ ram[s].name = name
        BY <1>4, <3>1, <4>1, <4>2, ByNameFacts, SlotFacts
      <4>4. FALSE
        BY <1>4, <1>6, <3>1, <4>1, <4>3 DEF NamesApart
      <4> QED BY <4>4
    <3> QED BY <3>2, <3>3
  <2> QED BY <2>2, <2>3 DEF NamesApart
<1>7. Sound => NamesApart'
  BY <1>6 DEF ApiInv, ChainPart
<1> QED BY <1>1, <1>2, <1>4, <1>5, <1>7, PutKeeps

\* A computer's endpoint replaces its own; a user's of its name is found before.
LEMMA SystemAddKeeps ==
    ASSUME ApiInv, NEW peer \in Peers, NEW body \in Bodies, SystemAdd(peer, body)
    PROVE  ApiInv'
<1> DEFINE e == [name |-> peer, body |-> body, peer |-> peer]
<1>1. PICK s \in SlotFor(System, ByPeer(peer)) : Put(s, e)
  BY DEF SystemAdd
<1>2. Op
  BY DEF SystemAdd
<1>3. /\ ByPeer(peer) \in SUBSET System /\ System \ Filled(System) \in SUBSET System
      /\ \A t \in System : t \in ByPeer(peer) <=> ram[t] # None /\ ram[t].peer = peer
  BY DEF Filled, ByPeer
<1>4. s \in System /\ s \in Slots /\ s \notin User /\ (ByPeer(peer) # {} => s \in ByPeer(peer))
  <2> DEFINE S == IF ByPeer(peer) # {} THEN ByPeer(peer) ELSE System \ Filled(System)
  <2>1. S \in SUBSET System /\ (ByPeer(peer) # {} => S = ByPeer(peer))
    BY <1>3
  <2>2. s \in Least(S)
    BY <1>1 DEF SlotFor
  <2> HIDE DEF S
  <2>3. s \in S
    BY <2>1, <2>2, LeastFacts, SlotFacts
  <2> QED BY <2>1, <2>3, SlotFacts
<1>5. e \in Endpoints /\ e.name = peer /\ e.peer = peer /\ peer # None
  BY ApiAssumption DEF Endpoints
<1> HIDE DEF e
<1>6. ASSUME NamesApart PROVE NamesApart'
  <2>1. kept' = kept \ {s} /\ kept \subseteq Slots /\ ram'[s] = e /\ \A t \in Slots : t # s => ram'[t] = ram[t]
    BY <1>1, <1>4, <1>5, PutFacts
  <2>2. OwnPeers(ram)'
    BY <1>4, <1>5, <1>6, <2>1, SlotFacts DEF NamesApart, OwnPeers
  <2>3. ASSUME NEW k \in kept', NEW t \in Slots, k # t, ram'[t] # None, ram'[t].name = ram'[k].name
        PROVE  k \in User /\ t \in System
    <3>1. k # s /\ k \in kept /\ k \in Slots /\ ram'[k] = ram[k] /\ ram[k] # None
      BY <2>1 DEF ApiInv, KeptSame
    <3>2. CASE t # s
      BY <1>6, <2>1, <2>3, <3>1, <3>2 DEF NamesApart
    <3>3. CASE t = s /\ k \in System
      <4>1. ram[k].name = peer /\ ram[k].peer = peer
        BY <1>5, <1>6, <2>1, <2>3, <3>1, <3>3 DEF NamesApart, OwnPeers
      <4>2. ram[s] # None /\ ram[s].name = peer
        BY <1>3, <1>4, <1>6, <3>1, <3>3, <4>1 DEF NamesApart, OwnPeers
      <4>3. FALSE
        BY <1>4, <1>6, <3>1, <3>3, <4>1, <4>2, SlotFacts DEF NamesApart
      <4> QED BY <4>3
    <3> QED BY <1>4, <3>1, <3>2, <3>3, SlotFacts
  <2> QED BY <2>2, <2>3 DEF NamesApart
<1>7. Sound => NamesApart'
  BY <1>6 DEF ApiInv, ChainPart
<1> QED BY <1>1, <1>2, <1>4, <1>5, <1>7, PutKeeps

LEMMA RemoveKeeps ==
    ASSUME ApiInv, NEW s \in Slots, Op, Put(s, None)
    PROVE  ApiInv'
<1>1. kept' = kept \ {s} /\ kept \subseteq Slots /\ ram'[s] = None /\ \A t \in Slots : t # s => ram'[t] = ram[t]
  BY PutFacts
<1>2. NamesApart => NamesApart'
  BY <1>1, ClearedApart
<1> QED BY <1>2, PutKeeps DEF ApiInv, ChainPart

LEMMA PurgeKeeps ==
    ASSUME ApiInv, Purge
    PROVE  ApiInv'
<1> DEFINE S == Filled(System)
<1>1. /\ saving.slots = {} /\ saving' = [slots |-> S, key |-> 1] /\ Clear(Least(S))
      /\ UNCHANGED <<nvs, enabled, unsaved>> /\ Aside /\ Op
  BY DEF Purge, Aside
<1>2. S \in SUBSET Slots /\ Least(S) \in SUBSET Slots
  BY SlotFacts, LeastFacts DEF Filled
<1> HIDE DEF S
<1>3. StoreType /\ WorldType
  BY TypeParts DEF ApiInv
<1>4. /\ ram' \in [Slots -> Endpoints \cup {None}] /\ \A t \in System : ram'[t] # None => ram'[t].peer # None
      /\ \A t \in Slots : ram'[t] = IF t \in Least(S) THEN None ELSE ram[t]
      /\ kept' \subseteq kept /\ KeptSame' /\ (NamesApart => NamesApart')
  BY <1>1, <1>2, ClearFacts DEF Aside
<1>5. saving' \in [slots : SUBSET Slots, key : 1 .. 3] /\ saving'.key = 1
  BY <1>1, <1>2
<1>6. Busy = {} /\ Busy' = Least(S)
  BY <1>1, LeastOfNone DEF Busy
<1>7. StoreType'
  BY <1>1, <1>3, <1>4, <1>5, KeyFacts DEF StoreType
<1>8. Written'
  BY <1>5 DEF Written
<1>9. ReloadsSame'
  BY <1>1, <1>4, <1>6 DEF ReloadsSame, ApiInv
<1>10. ApiTypeOK'
  BY <1>1, <1>3, <1>4, <1>7, OpType, AsideTypes DEF ApiInv, Aside
<1>11. Sound' => ChainPart'
  BY <1>1, <1>4, AsideChain DEF ApiInv, Aside, ChainPart
<1> QED BY <1>4, <1>8, <1>9, <1>10, <1>11 DEF ApiInv

LEMMA FactoryResetKeeps ==
    ASSUME ApiInv, FactoryReset
    PROVE  ApiInv'
<1>1. PICK stay \in SUBSET Slots :
         /\ nvs' = [s \in Slots |-> IF s \in stay THEN nvs[s] ELSE Erased] /\ unsaved' = stay
         /\ enabled' \in {TRUE, enabled} /\ (Loss \/ UNCHANGED losses)
  BY DEF FactoryReset
<1>2. /\ saving.slots = {} /\ ram' = [s \in Slots |-> None]
      /\ kept' = {} /\ UNCHANGED saving /\ Aside /\ Count
  BY DEF FactoryReset, Aside
<1>3. StoreType /\ WorldType
  BY TypeParts DEF ApiInv
<1>4. Erased \in Keys /\ Erased.name = None
  BY DEF Erased, Keys
<1>5. StoreType'
  BY <1>1, <1>2, <1>3, <1>4, SlotFacts DEF StoreType
<1>6. Busy' = {}
  BY <1>2, LeastOfNone DEF Busy
<1>7. Written' /\ KeptSame'
  BY <1>2, <1>6 DEF Written, KeptSame
<1>8. ReloadsSame'
  BY <1>1, <1>2, <1>4 DEF ReloadsSame, LoadSlot
<1>9. NamesApart'
  BY <1>2, SlotFacts DEF NamesApart, OwnPeers
<1>10. ApiTypeOK'
  <2>1. WorldType'
    BY <1>1, <1>2, <1>3, CountType DEF Aside
  <2> QED BY <1>2, <1>5, <2>1, AsideTypes DEF ApiInv
<1>11. Sound' => ChainPart'
  BY <1>2, <1>9, AsideChain DEF ApiInv, Aside
<1> QED BY <1>7, <1>8, <1>10, <1>11 DEF ApiInv

\* Steps that leave the endpoints, their keys and the chain alone.
LEMMA OutsideKeeps ==
    ASSUME ApiInv, UNCHANGED <<ram, nvs, saving, unsaved, chainHistory>>, runner'["chain"] = runner["chain"], ApiTypeOK'
    PROVE  ApiInv'
<1>1. Written' /\ ReloadsSame' /\ KeptSame'
  BY DEF ApiInv, Written, Busy, Value, ReloadsSame, KeptSame
<1>2. NamesApart => NamesApart'
  BY DEF NamesApart, OwnPeers
<1>3. Sound' => ChainPart'
  BY <1>2, AsideChain DEF ApiInv, ChainPart
<1> QED BY <1>1, <1>3 DEF ApiInv

LEMMA ElsewhereKeeps ==
    ASSUME ApiInv, Switch \/ Elsewhere
    PROVE  ApiInv'
<1>1. UNCHANGED <<ram, nvs, saving, unsaved, runner, call, due, chainHistory>> /\ enabled' \in BOOLEAN
  BY DEF Switch, Elsewhere, ApiInv, ApiTypeOK
<1>2. WorldType'
  <2>1. CASE Op
    <3>1. ops' \in 0 .. Ops /\ cuts' = cuts /\ losses' = losses
      BY <2>1, ApiAssumption DEF Op, Count, ApiInv, ApiTypeOK
    <3>2. online' \in BOOLEAN /\ bonded' \subseteq Peers
      BY DEF Switch, Elsewhere, ApiInv, ApiTypeOK
    <3> QED BY <3>1, <3>2, TypeParts DEF ApiInv, WorldType
  <2>2. CASE online' = TRUE /\ UNCHANGED <<bonded, ops, cuts, losses>>
    BY <2>2, TypeParts DEF ApiInv, WorldType
  <2> QED BY <2>1, <2>2 DEF Switch, Elsewhere
<1>3. ApiTypeOK'
  <2>1. StoreType' /\ RunnerType' /\ CallType' /\ HistoryType'
    BY <1>1, TypeParts DEF ApiInv, StoreType, RunnerType, CallType, HistoryType, Free
  <2> QED BY <1>2, <2>1, TypePartsNext
<1> QED BY <1>1, <1>3, OutsideKeeps

(***************************************************************************)
(* The runners.                                                            *)
(***************************************************************************)
\* What is left after a turn.
Rest(r) == [s \in Slots |-> IF s \in Turn(r) THEN None ELSE runner[r].names[s]]

LEMMA AdvanceFacts ==
    ASSUME RunnerType, NEW r \in Runners, Advance(r)
    PROVE  /\ RunnerType'
           /\ \A q \in Runners : q # r => runner'[q] = runner[q]
           /\ runner'[r].names = Rest(r) /\ runner'[r].pc # "copy"
<1> DEFINE new == IF Rest(r) = NoNames THEN Idle ELSE List(runner[r].first, Rest(r))
<1>1. runner' = [runner EXCEPT ![r] = new]
  BY DEF Advance, Rest
<1>2. Rest(r) \in [Slots -> Names \cup Peers \cup {None}] /\ NoNames \in [Slots -> Names \cup Peers \cup {None}]
  BY DEF RunnerType, Runner, Rest, NoNames
<1>3. /\ new.names = Rest(r) /\ new.pc # "copy"
      /\ new = Idle <=> new.names = NoNames
  <2>1. runner[r].first # "copy"
    BY DEF RunnerType, Runner
  <2>2. CASE Rest(r) = NoNames
    BY <2>2, ListFacts
  <2>3. CASE Rest(r) # NoNames
    BY <2>1, <2>3, ListFacts
  <2> QED BY <2>2, <2>3
<1>4. new \in Runner
  <2>1. Idle \in Runner
    BY <1>2 DEF Idle, Runner
  <2>2. List(runner[r].first, Rest(r)) \in Runner
    BY <1>2 DEF List, Runner, RunnerType
  <2> QED BY <2>1, <2>2
<1> HIDE DEF new
<1>5. runner' \in [Runners -> Runner] /\ runner'[r] = new /\ \A q \in Runners : q # r => runner'[q] = runner[q]
  BY <1>1, <1>4 DEF RunnerType
<1>6. RunnerType'
  BY <1>3, <1>5 DEF RunnerType
<1> QED BY <1>3, <1>5, <1>6

\* A runner that goes on with the name it has.
LEMMA OnwardFacts ==
    ASSUME RunnerType, NEW r \in Runners, NEW at \in {"find", "copy"}, NEW s \in Slots \cup {0},
           runner[r].pc # "idle", at = "copy" => s \in Slots,
           runner' = [runner EXCEPT ![r] = [@ EXCEPT !.pc = at, !.slot = s]]
    PROVE  /\ RunnerType'
           /\ \A q \in Runners : q # r => runner'[q] = runner[q]
           /\ runner'[r].names = runner[r].names /\ runner'[r].pc = at /\ runner'[r].slot = s
<1> DEFINE new == [runner[r] EXCEPT !.pc = at, !.slot = s]
<1>1. runner' = [runner EXCEPT ![r] = new]
  OBVIOUS
<1>2. new \in Runner /\ new.names = runner[r].names /\ new.pc = at /\ new.slot = s
  BY DEF RunnerType, Runner
<1> HIDE DEF new
<1>3. runner' \in [Runners -> Runner] /\ runner'[r] = new /\ \A q \in Runners : q # r => runner'[q] = runner[q]
  BY <1>1, <1>2 DEF RunnerType
<1>4. runner[r].names # NoNames /\ new # Idle
  BY <1>2, ListFacts DEF RunnerType
<1>5. RunnerType'
  BY <1>2, <1>3, <1>4 DEF RunnerType
<1> QED BY <1>2, <1>3, <1>5

\* What was found has the name whose turn it is; a kept slot finds itself.
LEMMA FoundFacts ==
    ASSUME ApiInv, ChainPart
    PROVE  /\ \A t \in Turn("chain") : t \in kept => t \in Found("chain")
           /\ \A l \in Found("chain") : l \in Slots /\ ram[l] # None
                 /\ \E t \in Turn("chain") : ram[l].name = Chain.names[t]
<1>1. Left("chain") \subseteq Slots /\ Turn("chain") \subseteq Left("chain")
  BY LeastFacts DEF Left, Turn
<1>2. ASSUME NEW t \in Turn("chain"), t \in kept PROVE t \in Found("chain")
  <2>1. t \in Slots /\ ram[t] # None /\ ram[t].name = Chain.names[t]
    BY <1>1, <1>2 DEF ApiInv, KeptSame, ChainPart, ListSame
  <2>2. t \in ByName(Slots, Chain.names[t])
    BY <2>1, ByNameFacts
  <2> QED BY <2>2 DEF Found, Chain
<1>3. ASSUME NEW l \in Found("chain")
      PROVE  l \in Slots /\ ram[l] # None /\ \E t \in Turn("chain") : ram[l].name = Chain.names[t]
  <2>1. PICK t \in Turn("chain") : l \in ByName(Slots, Chain.names[t])
    BY DEF Found, Chain
  <2> QED BY <2>1, ByNameFacts
<1> QED BY <1>2, <1>3

\* A chain goes on to the next name when the slot whose turn it was is not kept.
LEMMA SkipKeeps ==
    ASSUME ApiInv, Sound, Advance("chain"), \A t \in Turn("chain") : t \notin kept,
           UNCHANGED <<ram, began, kept, fired, clear>>
    PROVE  ChainPart'
<1>1. ChainPart /\ Chain'.names = Rest("chain") /\ Chain'.pc # "copy"
  <2>1. "chain" \in Runners /\ RunnerType
    BY TypeParts DEF ApiInv, Runners
  <2> QED BY <2>1, AdvanceFacts DEF ApiInv, Chain
<1>2. /\ Left("chain")' = Left("chain") \ Turn("chain")
      /\ \A s \in Left("chain") \ Turn("chain") : Chain'.names[s] = Chain.names[s]
  BY <1>1 DEF Left, Rest, Chain
<1>3. Left("chain")' \subseteq Left("chain") /\ Left("chain") \subseteq Slots /\ Left("chain")' \subseteq Slots
  <2>1. Left("chain") \subseteq Slots /\ Left("chain")' \subseteq Slots
    BY DEF Left
  <2> QED BY <1>2, <2>1
<1>4. NamesApart' /\ InTurn'
  BY <1>1 DEF ChainPart, NamesApart, OwnPeers, InTurn
<1>5. ListSame'
  <2> SUFFICES ASSUME NEW s \in Left("chain")'
               PROVE  began[s] # None /\ Chain'.names[s] = began[s].name
    BY DEF ListSame
  <2>1. s \in Slots /\ s \in Left("chain") /\ Chain'.names[s] = Chain.names[s]
    BY <1>2, <1>3
  <2> QED BY <1>1, <2>1 DEF ChainPart, ListSame
<1>6. CalledOrLeft'
  <2> SUFFICES ASSUME NEW s \in kept, s \notin Left("chain")'
               PROVE  \E i \in DOMAIN fired : fired[i] = <<s, began[s]>>
    BY DEF CalledOrLeft
  <2>1. s \notin Left("chain")
    BY <1>2, <1>3
  <2> QED BY <1>1, <2>1 DEF ChainPart, CalledOrLeft
<1>7. BeforeLeft'
  BY <1>1, <1>3 DEF ChainPart, BeforeLeft
<1>8. FoundOwn'
  BY <1>1 DEF FoundOwn
<1> QED BY <1>4, <1>5, <1>6, <1>7, <1>8 DEF ChainPart

LEMMA BlocksFacts ==
    ASSUME clear \in BOOLEAN
    PROVE  /\ Blocks("chain") => ~ clear'
           /\ \A r : Blocks(r) /\ r # "chain" => clear' = clear
           /\ \A r : Blocks(r) => clear' \in BOOLEAN
BY Zenon DEF Blocks

LEMMA ChainLooks ==
    ASSUME ApiInv, Look("chain") \/ Find("chain") \/ Offline("chain") \/ NoMemory("chain"), Sound'
    PROVE  ChainPart'
<1>1. /\ UNCHANGED <<ram, began, kept, fired>> /\ (clear' => clear)
  <2>1. UNCHANGED clear \/ Blocks("chain")
    BY DEF Look, Find, Offline, NoMemory
  <2>2. Blocks("chain") => ~ clear'
    BY BlocksFacts DEF ApiInv, ApiTypeOK
  <2> QED BY <2>1, <2>2 DEF Look, Find, Offline, NoMemory
<1>2. Sound /\ ChainPart /\ clear' = clear
  <2>1. Sound /\ clear' /\ clear
    BY <1>1 DEF Sound, Differ, OwnPeers
  <2> QED BY <1>1, <2>1 DEF ApiInv, ApiTypeOK
<1>3. "chain" \in Runners /\ RunnerType
  BY TypeParts DEF ApiInv, Runners
<1>4. CASE Advance("chain") /\ Found("chain") = {}
  <2>1. \A t \in Turn("chain") : t \notin kept
    BY <1>2, <1>4, FoundFacts
  <2> QED BY <1>1, <1>2, <1>4, <2>1, SkipKeeps
<1>5. ASSUME NEW at \in {"find", "copy"}, NEW s \in Slots \cup {0}, Chain.pc # "idle",
             runner' = [runner EXCEPT !["chain"] = [@ EXCEPT !.pc = at, !.slot = s]],
             at = "copy" => s \in Slots /\ s \in Least(Found("chain"))
      PROVE  ChainPart'
  <2>1. Chain'.names = Chain.names /\ Chain'.pc = at /\ Chain'.slot = s
    BY <1>3, <1>5, OnwardFacts DEF Chain
  <2>2. Left("chain")' = Left("chain") /\ Turn("chain")' = Turn("chain")
    BY <2>1 DEF Left, Turn, Least, Chain
  <2>3. NamesApart' /\ InTurn'
    BY <1>1, <1>2 DEF ChainPart, NamesApart, OwnPeers, InTurn
  <2>4. ListSame' /\ CalledOrLeft'
    BY <1>1, <1>2, <2>1, <2>2 DEF ChainPart, ListSame, CalledOrLeft
  <2>5. BeforeLeft'
    BY <1>1, <1>2, <2>2 DEF ChainPart, BeforeLeft
  <2>6. FoundOwn'
    <3> SUFFICES ASSUME at = "copy"
                 PROVE  \E t \in Turn("chain") : (s \in kept \/ t \in kept) => s = t
      BY <1>1, <2>1, <2>2 DEF FoundOwn
    <3>1. Found("chain") \in SUBSET Slots
      BY <1>2, FoundFacts
    <3>2. s \in Found("chain") /\ s \in Slots /\ \A l \in Found("chain") : s <= l
      BY <1>5, <3>1, LeastFacts
    <3>3. PICK t \in Turn("chain") : ram[s].name = Chain.names[t]
      BY <1>2, <3>2, FoundFacts
    <3>4. /\ t \in Left("chain") /\ t \in Slots /\ began[t] # None /\ Chain.names[t] = began[t].name
          /\ ram[s] # None
      <4>1. t \in Left("chain") /\ t \in Slots
        BY LeastFacts DEF Left, Turn
      <4> QED BY <1>2, <3>2, <4>1, FoundFacts DEF ChainPart, ListSame
    <3>5. ASSUME s \in kept PROVE s = t
      <4>1. began[s] # None /\ began[s].name = began[t].name
        BY <3>3, <3>4, <3>5 DEF ApiInv, KeptSame
      <4> QED BY <1>2, <3>2, <3>4, <4>1 DEF Sound, Differ
    <3>6. ASSUME t \in kept PROVE s = t
      <4>1. ram[t].name = ram[s].name /\ s <= t
        BY <1>2, <3>2, <3>3, <3>4, <3>6, FoundFacts DEF ApiInv, KeptSame
      <4>2. s # t => t \in User /\ s \in System
        BY <1>2, <3>2, <3>4, <3>6, <4>1 DEF ChainPart, NamesApart
      <4>3. s \in Nat /\ t \in Nat
        BY <3>2, <3>4, SlotFacts
      <4>4. s # t => t < s
        BY <4>2, SlotFacts
      <4> QED BY <4>1, <4>3, <4>4
    <3> QED BY <3>5, <3>6
  <2> QED BY <2>3, <2>4, <2>5, <2>6 DEF ChainPart
<1>6. CASE Look("chain")
  <2>1. CASE Found("chain") = {}
    BY <1>4, <1>6, <2>1 DEF Look
  <2>2. CASE Found("chain") # {}
    <3>1. /\ runner' = [runner EXCEPT !["chain"] = [@ EXCEPT !.pc = "find", !.slot = Chain.slot]]
          /\ Chain.slot \in Slots \cup {0} /\ Chain.pc # "idle"
      BY <1>3, <1>6, <2>2 DEF Look, Goes, Chain, RunnerType, Runner
    <3> QED BY <1>5, <3>1
  <2> QED BY <2>1, <2>2
<1>7. CASE Find("chain")
  <2>1. CASE enabled /\ Found("chain") # {}
    <3>1. PICK s \in Least(Found("chain")) :
            runner' = [runner EXCEPT !["chain"] = [@ EXCEPT !.pc = "copy", !.slot = s]]
      BY <1>3, <1>7, <2>1 DEF Find
    <3>2. Found("chain") \in SUBSET Slots
      BY <1>2, FoundFacts
    <3>3. s \in Slots /\ Chain.pc # "idle"
      BY <1>7, <3>2, LeastFacts DEF Find, Chain
    <3> QED BY <1>5, <3>1, <3>3
  <2>2. CASE enabled /\ Found("chain") = {}
    BY <1>4, <1>7, <2>2 DEF Find
  <2>3. CASE ~ enabled
    BY <1>2, <1>7, <2>3 DEF Find, Blocks, Sound
  <2> QED BY <2>1, <2>2, <2>3
<1>8. CASE Offline("chain") \/ NoMemory("chain")
  BY <1>2, <1>8 DEF Offline, NoMemory, Blocks, Sound
<1> QED BY <1>6, <1>7, <1>8

\* Any of the steps of a runner keeps the types of the runners.
LEMMA RunTypes ==
    ASSUME RunnerType, clear \in BOOLEAN, NEW r \in Runners, Run(r)
    PROVE  /\ RunnerType' /\ \A q \in Runners : q # r => runner'[q] = runner[q]
           /\ clear' \in BOOLEAN /\ (r # "chain" => clear' = clear)
<1>1. clear' \in BOOLEAN /\ (r # "chain" => clear' = clear)
  <2>1. UNCHANGED clear \/ Blocks(r)
    BY DEF Run, Look, Find, Offline, NoMemory, Spawn
  <2> QED BY <2>1, BlocksFacts
<1>2. CASE Advance(r)
  BY <1>1, <1>2, AdvanceFacts
<1>3. ASSUME NEW at \in {"find", "copy"}, NEW s \in Slots \cup {0}, runner[r].pc # "idle",
             runner' = [runner EXCEPT ![r] = [@ EXCEPT !.pc = at, !.slot = s]],
             at = "copy" => s \in Slots
      PROVE  RunnerType' /\ \A q \in Runners : q # r => runner'[q] = runner[q]
  BY <1>3, OnwardFacts
<1>4. CASE Look(r) /\ Goes(r, "find")
  <2>1. /\ runner' = [runner EXCEPT ![r] = [@ EXCEPT !.pc = "find", !.slot = runner[r].slot]]
        /\ runner[r].slot \in Slots \cup {0} /\ runner[r].pc # "idle"
    BY <1>4 DEF Look, Goes, RunnerType, Runner
  <2> QED BY <1>1, <1>3, <2>1
<1>5. ASSUME NEW s \in Least(Found(r)), Find(r),
             runner' = [runner EXCEPT ![r].pc = "copy", ![r].slot = s]
      PROVE  RunnerType' /\ \A q \in Runners : q # r => runner'[q] = runner[q]
  <2>1. Found(r) \in SUBSET Slots
    BY DEF Found, ByName, Filled
  <2>2. s \in Slots /\ runner[r].pc # "idle"
    BY <1>5, <2>1, LeastFacts DEF Find
  <2>3. runner' = [runner EXCEPT ![r] = [@ EXCEPT !.pc = "copy", !.slot = s]]
    BY <1>5 DEF RunnerType
  <2> QED BY <1>3, <2>2, <2>3
<1> QED BY <1>1, <1>2, <1>4, <1>5 DEF Run, Look, Find, Offline, NoMemory, Spawn

(***************************************************************************)
(* The calls.                                                              *)
(***************************************************************************)
Endpoint == Endpoints \cup {None, Erased}

LEMMA CopiedFacts ==
    ASSUME StoreType, NEW s \in Slots
    PROVE  Copied(s) \in Endpoints \cup {Erased} /\ (ram[s] # None => Copied(s) = ram[s])
BY DEF StoreType, Copied

LEMMA CallBegins ==
    ASSUME CallType, NEW c \in Free, NEW e \in Endpoints \cup {Erased}, due' = due + 1,
           call' = [call EXCEPT ![c] = [endpoint |-> e, tries |-> 1]]
    PROVE  CallType'
<1>1. c \in Calls /\ call[c] = NoCall
  BY DEF Free
<1>2. /\ call' \in [Calls -> [endpoint : Endpoint, tries : 0 .. 2]]
      /\ call'[c].tries = 1 /\ \A d \in Calls : d # c => call'[d] = call[d]
  BY <1>1 DEF CallType, Endpoint
<1>3. call'[c] # NoCall
  BY <1>2 DEF NoCall
<1>4. Calls \ Free' = (Calls \ Free) \cup {c} /\ c \notin Calls \ Free
  BY <1>1, <1>2, <1>3 DEF Free
<1>5. IsFiniteSet(Calls \ Free)
  BY ApiAssumption, FS_Subset
<1>6. Cardinality(Calls \ Free') = Cardinality(Calls \ Free) + 1
  BY <1>4, <1>5, FS_AddElement
<1> QED BY <1>2, <1>6 DEF CallType, Endpoint

LEMMA CallGoesOn ==
    ASSUME CallType, NEW c \in Calls, call[c] # NoCall, call[c].tries < 2, UNCHANGED due,
           call' = [call EXCEPT ![c].tries = @ + 1]
    PROVE  CallType'
<1>1. /\ call' \in [Calls -> [endpoint : Endpoint, tries : 0 .. 2]]
      /\ call'[c].tries # 0 /\ \A d \in Calls : d # c => call'[d] = call[d]
  <2>1. [call[c] EXCEPT !.tries = @ + 1] \in [endpoint : Endpoint, tries : 0 .. 2]
    BY DEF CallType, Endpoint
  <2>2. [call[c] EXCEPT !.tries = @ + 1].tries # 0
    BY DEF CallType, Endpoint
  <2>3. call' = [call EXCEPT ![c] = [call[c] EXCEPT !.tries = @ + 1]]
    OBVIOUS
  <2> QED BY <2>1, <2>2, <2>3 DEF CallType, Endpoint
<1>2. call'[c] # NoCall
  BY <1>1 DEF NoCall
<1>3. Free' = Free
  BY <1>1, <1>2 DEF Free
<1> QED BY <1>1, <1>3 DEF CallType, Endpoint

LEMMA CallIsOver ==
    ASSUME CallType, NEW c \in Calls, call[c] # NoCall, Ends(c), Report
    PROVE  CallType'
<1>1. /\ call' \in [Calls -> [endpoint : Endpoint, tries : 0 .. 2]]
      /\ call'[c] = NoCall /\ \A d \in Calls : d # c => call'[d] = call[d]
  <2>1. NoCall \in [endpoint : Endpoint, tries : 0 .. 2]
    BY DEF NoCall, Endpoint
  <2> QED BY <2>1 DEF CallType, Endpoint, Ends
<1>2. Calls \ Free' = (Calls \ Free) \ {c} /\ c \in Calls \ Free
  BY <1>1 DEF Free
<1>3. IsFiniteSet(Calls \ Free)
  BY ApiAssumption, FS_Subset
<1>4. Cardinality(Calls \ Free') = Cardinality(Calls \ Free) - 1
  BY <1>2, <1>3, FS_RemoveElement
<1> QED BY <1>1, <1>4 DEF CallType, Endpoint, Report

LEMMA CallKeeps ==
    ASSUME ApiInv, NEW c \in Calls, Call(c)
    PROVE  ApiInv'
<1>1. StoreType /\ RunnerType /\ CallType /\ WorldType /\ HistoryType
  BY TypeParts DEF ApiInv
<1>2. UNCHANGED <<store, unsaved, runner, world, chainHistory>> /\ call[c] # NoCall
  BY DEF Call, Unsigned, Answered, NoAnswer, Sendable
<1>3. CallType'
  BY <1>1, CallGoesOn, CallIsOver DEF Call, Unsigned, Answered, NoAnswer, Sendable
<1>4. StoreType' /\ RunnerType' /\ WorldType' /\ HistoryType'
  BY <1>1, <1>2 DEF StoreType, RunnerType, WorldType, HistoryType
<1> QED BY <1>2, <1>3, <1>4, TypePartsNext, OutsideKeeps

(***************************************************************************)
(* The chain calls.                                                        *)
(***************************************************************************)
LEMMA ChainSpawns ==
    ASSUME ApiInv, Spawn("chain"), Sound'
    PROVE  ChainPart'
<1>1. /\ StoreType /\ RunnerType /\ HistoryType /\ "chain" \in Runners
  BY TypeParts DEF ApiInv, Runners
<1> DEFINE u == Chain.slot
           call1 == <<u, Copied(u)>>
<1>2. /\ UNCHANGED <<ram, began, kept, clear>> /\ Advance("chain") /\ Chain.pc = "copy"
      /\ fired' = Append(fired, call1)
  BY DEF Spawn, Chain
<1>3. Sound /\ ChainPart
  BY <1>2 DEF ApiInv, Sound, Differ, OwnPeers
<1>4. u \in Slots /\ call1 \in Slots \X (Endpoints \cup {Erased}) /\ call1[1] = u
  BY <1>1, <1>2, CopiedFacts DEF RunnerType, Chain
<1>5. PICK t \in Turn("chain") : (u \in kept \/ t \in kept) => u = t
  BY <1>2, <1>3 DEF ChainPart, FoundOwn
<1>6. /\ Left("chain") \subseteq Slots /\ t \in Left("chain")
      /\ Turn("chain") = {t} /\ \A s \in Left("chain") : t <= s
  <2>1. Left("chain") \in SUBSET Slots
    BY DEF Left
  <2> QED BY <1>5, <2>1, LeastFacts DEF Turn
<1>7. Chain'.names = Rest("chain") /\ Chain'.pc # "copy"
  BY <1>1, <1>2, AdvanceFacts DEF Chain
<1>8. /\ Left("chain")' = Left("chain") \ {t}
      /\ \A s \in Left("chain") \ {t} : Chain'.names[s] = Chain.names[s]
  BY <1>6, <1>7 DEF Left, Rest, Chain
<1>9. t \in kept => call1 = <<t, began[t]>>
  BY <1>1, <1>4, <1>5, CopiedFacts DEF ApiInv, KeptSame
<1> HIDE DEF call1
<1>10. /\ DOMAIN fired' = DOMAIN fired \cup {Len(fired) + 1} /\ fired'[Len(fired) + 1] = call1
       /\ \A i \in DOMAIN fired : fired'[i] = fired[i] /\ i < Len(fired) + 1 /\ i \in Nat
       /\ Len(fired) \in Nat
  BY <1>1, <1>2, <1>4, AppendFacts DEF HistoryType
<1>11. NamesApart'
  BY <1>2, <1>3 DEF ChainPart, NamesApart, OwnPeers
<1>12. ListSame'
  <2> SUFFICES ASSUME NEW s \in Left("chain")'
               PROVE  began[s] # None /\ Chain'.names[s] = began[s].name
    BY <1>2 DEF ListSame
  <2> QED BY <1>3, <1>8 DEF ChainPart, ListSame
<1>13. CalledOrLeft'
  <2> SUFFICES ASSUME NEW s \in kept, s \notin Left("chain")'
               PROVE  \E i \in DOMAIN fired' : fired'[i] = <<s, began[s]>>
    BY <1>2 DEF CalledOrLeft
  <2>1. CASE s = t
    BY <1>9, <1>10, <2>1
  <2>2. CASE s # t
    <3>1. PICK i \in DOMAIN fired : fired[i] = <<s, began[s]>>
      BY <1>3, <1>8, <2>2 DEF ChainPart, CalledOrLeft
    <3> QED BY <1>10, <3>1
  <2> QED BY <2>1, <2>2
<1>14. InTurn'
  <2> SUFFICES ASSUME NEW i \in DOMAIN fired', NEW j \in DOMAIN fired', i < j,
                      fired'[i][1] \in kept, fired'[j][1] \in kept
               PROVE  fired'[i][1] < fired'[j][1]
    BY <1>2 DEF InTurn
  <2>1. i \in DOMAIN fired /\ fired'[i] = fired[i]
    <3>1. i # Len(fired) + 1
      <4> SUFFICES ASSUME i = Len(fired) + 1 PROVE FALSE
        OBVIOUS
      <4>1. j = Len(fired) + 1 \/ (j < Len(fired) + 1 /\ j \in Nat)
        BY <1>10
      <4> QED BY <1>10, <4>1
    <3> QED BY <1>10, <3>1
  <2>2. CASE j \in DOMAIN fired
    BY <1>3, <1>10, <2>1, <2>2 DEF ChainPart, InTurn
  <2>3. CASE j = Len(fired) + 1
    <3>1. fired'[j][1] = u /\ u = t
      BY <1>4, <1>5, <1>10, <2>3
    <3> QED BY <1>3, <1>6, <2>1, <3>1 DEF ChainPart, BeforeLeft
  <2> QED BY <1>10, <2>2, <2>3
<1>15. BeforeLeft'
  <2> SUFFICES ASSUME NEW i \in DOMAIN fired', NEW s \in Left("chain")', fired'[i][1] \in kept
               PROVE  fired'[i][1] < s
    BY <1>2 DEF BeforeLeft
  <2>1. s \in Left("chain") /\ s # t /\ s \in Slots
    BY <1>6, <1>8
  <2>2. CASE i \in DOMAIN fired
    BY <1>3, <1>10, <2>1, <2>2 DEF ChainPart, BeforeLeft
  <2>3. CASE i = Len(fired) + 1
    <3>1. fired'[i][1] = t
      BY <1>4, <1>5, <1>10, <2>3
    <3>2. t <= s /\ t \in Nat /\ s \in Nat
      BY <1>6, <2>1, SlotFacts
    <3> QED BY <2>1, <3>1, <3>2
  <2> QED BY <1>10, <2>2, <2>3
<1>16. FoundOwn'
  BY <1>7 DEF FoundOwn
<1> QED BY <1>11, <1>12, <1>13, <1>14, <1>15, <1>16 DEF ChainPart

LEMMA RunKeeps ==
    ASSUME ApiInv, NEW r \in Runners, Run(r)
    PROVE  ApiInv'
<1>1. StoreType /\ RunnerType /\ CallType /\ WorldType /\ HistoryType
  BY TypeParts DEF ApiInv
<1>2. /\ UNCHANGED <<store, unsaved, world, began, kept>>
      /\ Spawn(r) \/ UNCHANGED <<call, due, fired>>
  BY DEF Run, Look, Find, Offline, NoMemory, Spawn
<1>3. /\ RunnerType' /\ \A q \in Runners : q # r => runner'[q] = runner[q]
      /\ clear' \in BOOLEAN /\ (r # "chain" => clear' = clear)
  BY <1>1, RunTypes DEF HistoryType
<1>4. StoreType' /\ WorldType'
  BY <1>1, <1>2 DEF StoreType, WorldType
<1>5. ASSUME Spawn(r)
      PROVE  CallType' /\ fired' \in Seq(Slots \X (Endpoints \cup {Erased})) /\ (r # "chain" => fired' = fired)
  <2> DEFINE u == runner[r].slot
  <2>1. u \in Slots /\ Copied(u) \in Endpoints \cup {Erased}
    BY <1>1, <1>5, CopiedFacts DEF Spawn, RunnerType
  <2>2. (CHOOSE c \in Free : TRUE) \in Free
    BY <1>5 DEF Spawn
  <2>3. CallType'
    BY <1>1, <1>5, <2>1, <2>2, CallBegins DEF Spawn
  <2>4. fired' = IF r = "chain" THEN Append(fired, <<u, Copied(u)>>) ELSE fired
    BY <1>5 DEF Spawn
  <2>5. <<u, Copied(u)>> \in Slots \X (Endpoints \cup {Erased})
    BY <2>1
  <2> QED BY <1>1, <2>3, <2>4, <2>5, AppendFacts DEF HistoryType
<1>6. CallType' /\ HistoryType'
  BY <1>1, <1>2, <1>3, <1>5 DEF CallType, HistoryType, Free
<1>7. ApiTypeOK'
  BY <1>3, <1>4, <1>6, TypePartsNext
<1>8. Written' /\ ReloadsSame' /\ KeptSame'
  BY <1>2 DEF ApiInv, Written, Busy, Value, ReloadsSame, KeptSame
<1>9. CASE r = "chain"
  BY <1>7, <1>8, <1>9, ChainLooks, ChainSpawns DEF Run, ApiInv
<1>10. CASE r # "chain"
  <2>1. runner'["chain"] = runner["chain"] /\ UNCHANGED <<ram, nvs, saving, unsaved, chainHistory>>
    BY <1>2, <1>3, <1>5, <1>10 DEF Runners
  <2> QED BY <1>7, <2>1, OutsideKeeps
<1> QED BY <1>9, <1>10

LEMMA ListTypes ==
    ASSUME RunnerType, NEW r \in Runners, NEW first \in {"look", "find"},
           NEW names \in [Slots -> Names \cup Peers \cup {None}], names # NoNames,
           runner' = [runner EXCEPT ![r] = List(first, names)]
    PROVE  /\ RunnerType' /\ runner'[r].names = names /\ runner'[r].pc # "copy"
           /\ \A q \in Runners : q # r => runner'[q] = runner[q]
<1>1. List(first, names) \in Runner
  BY DEF List, Runner
<1>2. runner' \in [Runners -> Runner] /\ runner'[r] = List(first, names)
      /\ \A q \in Runners : q # r => runner'[q] = runner[q]
  BY <1>1 DEF RunnerType
<1>3. List(first, names) # Idle
  BY ListFacts
<1>4. RunnerType'
  BY <1>2, <1>3, ListFacts DEF RunnerType
<1> QED BY <1>2, <1>4, ListFacts

\* All names are left at the start, each of its own slot.
LEMMA BeginKeeps ==
    ASSUME ApiInv, ChainRun \/ Trigger
    PROVE  ApiInv'
<1>1. StoreType /\ RunnerType /\ CallType /\ WorldType /\ HistoryType
  BY TypeParts DEF ApiInv
<1>2. PICK first \in {"look", "find"} : Begin(first)
  BY DEF ChainRun, Trigger
<1>3. /\ Op /\ runner' = [runner EXCEPT !["chain"] = List(first, ChainNames)] /\ Filled(Slots) # {}
      /\ began' = ram /\ kept' = Filled(Slots) /\ fired' = <<>> /\ clear' = TRUE
      /\ UNCHANGED <<store, unsaved, call, online, bonded, due>>
  BY <1>2 DEF Begin
<1>4. /\ ChainNames \in [Slots -> Names \cup Peers \cup {None}]
      /\ \A s \in Slots : /\ ChainNames[s] # None <=> ram[s] # None
                          /\ ram[s] # None => ChainNames[s] = ram[s].name
  <2>1. \A s \in Slots : ram[s] # None => ram[s] \in Endpoints
    BY <1>1 DEF StoreType
  <2> QED BY <2>1, NameFacts DEF ChainNames
<1>5. ChainNames # NoNames
  <2>1. PICK s \in Slots : ram[s] # None
    BY <1>3 DEF Filled
  <2>2. ChainNames[s] # None /\ NoNames[s] = None
    BY <1>4, <2>1 DEF NoNames
  <2> QED BY <2>2
<1>6. RunnerType' /\ Chain'.names = ChainNames /\ Chain'.pc # "copy"
  BY <1>1, <1>3, <1>4, <1>5, ListTypes DEF Runners, Chain
<1>7. HistoryType'
  BY <1>1, <1>3 DEF HistoryType, StoreType, Filled
<1>8. ApiTypeOK'
  <2>1. StoreType' /\ CallType' /\ WorldType'
    BY <1>1, <1>3, OpType DEF StoreType, CallType, Free
  <2> QED BY <1>6, <1>7, <2>1, TypePartsNext
<1>9. Written' /\ ReloadsSame' /\ KeptSame'
  BY <1>3 DEF ApiInv, Written, Busy, Value, ReloadsSame, KeptSame, Filled
<1>10. Sound' => ChainPart'
  <2> SUFFICES ASSUME Sound' PROVE ChainPart'
    OBVIOUS
  <2>1. Left("chain")' = Filled(Slots)
    <3>1. Left("chain")' = {s \in Slots : ChainNames[s] # None}
      BY <1>6 DEF Left, Chain
    <3>2. \A s \in Slots : ChainNames[s] # None <=> ram[s] # None
      BY <1>4
    <3> QED BY <3>1, <3>2 DEF Filled
  <2>2. NamesApart'
    <3>1. OwnPeers(ram)'
      BY <1>3 DEF Sound, OwnPeers
    <3>2. \A s \in Slots, t \in Slots : (s # t /\ ram[s] # None /\ ram[t] # None) => ram[s].name # ram[t].name
      BY <1>3 DEF Sound, Differ
    <3> QED BY <1>3, <3>1, <3>2 DEF NamesApart, Filled
  <2>3. CalledOrLeft'
    BY <1>3, <2>1 DEF CalledOrLeft
  <2>4. ListSame'
    <3> SUFFICES ASSUME NEW s \in Filled(Slots) PROVE ram[s] # None /\ ChainNames[s] = ram[s].name
      BY <1>3, <1>6, <2>1 DEF ListSame
    <3> QED BY <1>4 DEF Filled
  <2>5. InTurn' /\ BeforeLeft'
    BY <1>3 DEF InTurn, BeforeLeft
  <2>6. FoundOwn'
    BY <1>6 DEF FoundOwn
  <2> QED BY <2>2, <2>3, <2>4, <2>5, <2>6 DEF ChainPart
<1> QED BY <1>8, <1>9, <1>10 DEF ApiInv

LEMMA SendKeeps ==
    ASSUME ApiInv, NEW name \in Names \cup Peers, Send(name)
    PROVE  ApiInv'
<1>1. StoreType /\ RunnerType /\ CallType /\ WorldType /\ HistoryType
  BY TypeParts DEF ApiInv
<1> DEFINE names == [NoNames EXCEPT ![1] = name]
<1>2. /\ names \in [Slots -> Names \cup Peers \cup {None}] /\ names # NoNames
  BY ApiAssumption, SlotFacts DEF NoNames
<1>3. Op /\ runner' = [runner EXCEPT !["send"] = List("find", names)]
      /\ UNCHANGED <<store, unsaved, call, online, bonded, due, chainHistory>>
  BY DEF Send
<1> HIDE DEF names
<1>4. RunnerType' /\ runner'["chain"] = runner["chain"]
  BY <1>1, <1>2, <1>3, ListTypes DEF Runners
<1>5. ApiTypeOK'
  <2>1. StoreType' /\ CallType' /\ WorldType' /\ HistoryType'
    BY <1>1, <1>3, OpType DEF StoreType, CallType, HistoryType, Free
  <2> QED BY <1>4, <2>1, TypePartsNext
<1> QED BY <1>3, <1>4, <1>5, OutsideKeeps

(***************************************************************************)
(* Power cuts.                                                             *)
(***************************************************************************)
LEMMA LoadFacts ==
    ASSUME nvs \in [Slots -> Keys]
    PROVE  /\ Load(nvs) \in [Slots -> Endpoints \cup {None}]
           /\ \A s \in Slots : Load(nvs)[s] = LoadSlot(s, nvs[s])
           /\ \A s \in System : Load(nvs)[s] # None => Load(nvs)[s].peer # None
<1>1. \A s \in Slots : LoadSlot(s, nvs[s]) \in Endpoints \cup {None}
  BY DEF LoadSlot, Keys, Endpoints
<1>2. \A s \in System : LoadSlot(s, nvs[s]) # None => LoadSlot(s, nvs[s]).peer # None
  BY DEF LoadSlot
<1> QED BY <1>1, <1>2, SlotFacts DEF Load

LEMMA NoneRuns ==
    [r \in Runners |-> Idle] \in [Runners -> Runner] /\ Idle.names = NoNames /\ Idle.pc # "copy"
<1>1. Idle \in Runner
  BY DEF Idle, Runner, NoNames
<1> QED BY <1>1, ListFacts

LEMMA NoneCalls ==
    ASSUME call' = [c \in Calls |-> NoCall], due' = 0
    PROVE  CallType'
<1>1. NoCall \in [endpoint : Endpoint, tries : 0 .. 2]
  BY DEF NoCall, Endpoint
<1>2. Calls \ Free' = {}
  BY DEF Free
<1> QED BY <1>1, <1>2, FS_EmptySet DEF CallType, Endpoint

LEMMA PowerCutKeeps ==
    ASSUME ApiInv, PowerCut
    PROVE  ApiInv'
<1>1. StoreType /\ RunnerType /\ CallType /\ WorldType /\ HistoryType
  BY TypeParts DEF ApiInv
<1>2. /\ ram' = Load(nvs) /\ saving' = NoSave /\ runner' = [r \in Runners |-> Idle]
      /\ call' = [c \in Calls |-> NoCall] /\ due' = 0 /\ online' = FALSE
      /\ kept' = {} /\ fired' = <<>> /\ clear' = FALSE /\ began' = ram'
      /\ UNCHANGED <<nvs, enabled, bonded, ops, losses>> /\ cuts < Cuts /\ cuts' = cuts + 1
      /\ unsaved' = {}
  BY DEF PowerCut
<1>3. /\ ram' \in [Slots -> Endpoints \cup {None}]
      /\ \A s \in Slots : ram'[s] = LoadSlot(s, nvs[s])
      /\ \A s \in System : ram'[s] # None => ram'[s].peer # None
  BY <1>1, <1>2, LoadFacts DEF StoreType
<1>4. NoSave \in [slots : SUBSET Slots, key : 1 .. 3] /\ NoSave.slots = {} /\ NoSave.key = 1
  BY DEF NoSave
<1>5. StoreType'
  BY <1>1, <1>2, <1>3, <1>4, KeyFacts DEF StoreType
<1>6. RunnerType'
  BY <1>2, NoneRuns DEF RunnerType
<1>7. CallType'
  BY <1>2, NoneCalls
<1>8. WorldType'
  <2>1. cuts' \in 0 .. Cuts
    BY <1>1, <1>2, ApiAssumption DEF WorldType
  <2> QED BY <1>1, <1>2, <2>1 DEF WorldType
<1>9. HistoryType'
  <2>1. kept' \subseteq Slots /\ clear' \in BOOLEAN /\ fired' = <<>>
    BY <1>2
  <2>2. <<>> \in Seq(Slots \X (Endpoints \cup {Erased}))
    OBVIOUS
  <2> QED BY <1>2, <1>3, <2>1, <2>2 DEF HistoryType
<1>10. Written' /\ KeptSame'
  BY <1>2, <1>4 DEF Written, KeptSame
<1>11. ReloadsSame'
  BY <1>2, <1>3 DEF ReloadsSame
<1>12. ~ Sound'
  BY <1>2 DEF Sound
<1>13. ApiTypeOK'
  BY <1>5, <1>6, <1>7, <1>8, <1>9, TypePartsNext
<1> QED BY <1>10, <1>11, <1>12, <1>13 DEF ApiInv

(***************************************************************************)
(* The theorems.                                                           *)
(***************************************************************************)
LEMMA ApiInvInit == ApiInit => ApiInv
<1> SUFFICES ASSUME ApiInit PROVE ApiInv
  OBVIOUS
<1>1. /\ ram \in Registered /\ nvs = [s \in Slots |-> IF ram[s] = None THEN Erased ELSE ram[s]]
      /\ enabled = TRUE /\ saving = NoSave /\ runner = [r \in Runners |-> Idle]
      /\ call = [c \in Calls |-> NoCall] /\ online = TRUE /\ bonded \in SUBSET Peers
      /\ ops \in 0 .. Ops /\ cuts \in 0 .. Cuts /\ losses \in 0 .. Losses /\ due = 0 /\ unsaved = {}
      /\ began = ram /\ kept = {} /\ fired = <<>> /\ clear = FALSE
  BY DEF ApiInit
<1>2. /\ ram \in [Slots -> Endpoints \cup {None}]
      /\ \A s \in System : ram[s] # None => ram[s].peer = ram[s].name
  BY <1>1 DEF Registered
<1>3. \A s \in Slots : ram[s] # None => ram[s] \in Endpoints /\ ram[s].name # None
  BY <1>2, NameFacts
<1>4. \A s \in System : s \in Slots /\ (ram[s] # None => ram[s].peer # None)
  BY <1>2, <1>3, SlotFacts
<1>5. Erased \in Keys /\ Erased.name = None /\ Endpoints \subseteq Keys
  BY DEF Erased, Keys, Endpoints
<1>6. nvs \in [Slots -> Keys]
  BY <1>1, <1>3, <1>5
<1>7. NoSave \in [slots : SUBSET Slots, key : 1 .. 3] /\ NoSave.slots = {} /\ NoSave.key = 1
  BY DEF NoSave
<1>8. StoreType /\ WorldType /\ HistoryType
  <2>1. StoreType
    BY <1>1, <1>2, <1>4, <1>6, <1>7, KeyFacts DEF StoreType
  <2>2. WorldType
    BY <1>1 DEF WorldType
  <2>3. fired \in Seq(Slots \X (Endpoints \cup {Erased}))
    BY <1>1
  <2>4. HistoryType
    BY <1>1, <1>2, <2>3 DEF HistoryType
  <2> QED BY <2>1, <2>2, <2>4
<1>9. RunnerType
  BY <1>1, NoneRuns DEF RunnerType
<1>10. CallType
  <2>1. NoCall \in [endpoint : Endpoint, tries : 0 .. 2]
    BY DEF NoCall, Endpoint
  <2>2. Calls \ Free = {}
    BY <1>1 DEF Free
  <2> QED BY <1>1, <2>1, <2>2, FS_EmptySet DEF CallType, Endpoint
<1>11. Written /\ KeptSame /\ ~ Sound
  BY <1>1, <1>7 DEF Written, KeptSame, Sound
<1>12. ReloadsSame
  BY <1>1, <1>3, <1>4, <1>5 DEF ReloadsSame, LoadSlot
<1> QED BY <1>8, <1>9, <1>10, <1>11, <1>12, TypeParts DEF ApiInv

LEMMA ApiInvNext == ApiInv /\ [ApiNext]_apiVars => ApiInv'
<1> SUFFICES ASSUME ApiInv, [ApiNext]_apiVars PROVE ApiInv'
  OBVIOUS
<1>1. CASE SaveKey \/ SaveNothing
  BY <1>1, SaveKeyKeeps, SaveNothingKeeps
<1>2. CASE Change
  <2>1. ASSUME NEW name \in Names \cup Peers, EndpointRemove(name) PROVE ApiInv'
    <3>1. ByName(User, name) \in SUBSET Slots
      BY ByNameFacts, SlotFacts
    <3> QED BY <2>1, <3>1, LeastFacts, RemoveKeeps DEF EndpointRemove
  <2>2. ASSUME NEW peer \in Peers, SystemRemove(peer) PROVE ApiInv'
    <3>1. ByPeer(peer) \in SUBSET Slots
      BY SlotFacts DEF ByPeer, Filled
    <3> QED BY <2>2, <3>1, LeastFacts, RemoveKeeps DEF SystemRemove
  <2> QED BY <1>2, <2>1, <2>2, EndpointAddKeeps, SystemAddKeeps, PurgeKeeps, FactoryResetKeeps,
             ElsewhereKeeps DEF Change
<1>3. CASE Elsewhere
  BY <1>3, ElsewhereKeeps
<1>4. CASE PowerCut
  BY <1>4, PowerCutKeeps
<1>5. CASE ChainRun \/ Trigger
  BY <1>5, BeginKeeps
<1>6. ASSUME NEW name \in Names \cup Peers, Send(name) PROVE ApiInv'
  BY <1>6, SendKeeps
<1>7. ASSUME NEW r \in Runners, Run(r) PROVE ApiInv'
  BY <1>7, RunKeeps
<1>8. ASSUME NEW c \in Calls, Call(c) PROVE ApiInv'
  BY <1>8, CallKeeps
<1>9. CASE UNCHANGED apiVars
  <2>1. StoreType' /\ RunnerType' /\ CallType' /\ WorldType' /\ HistoryType'
    BY <1>9, TypeParts DEF apiVars, ApiInv, StoreType, RunnerType, CallType, WorldType, HistoryType, Free
  <2> QED BY <1>9, <2>1, TypePartsNext, OutsideKeeps DEF apiVars
<1> QED BY <1>1, <1>2, <1>3, <1>4, <1>5, <1>6, <1>7, <1>8, <1>9 DEF ApiNext

\* The inductive invariant of the endpoints, their keys and the chain.
THEOREM ApiCorrect == ApiSpec => []ApiInv
<1> QED BY ApiInvInit, ApiInvNext, PTL DEF ApiSpec

\* The types, and each call that sk_api_send accepted is in flight or has been
\* reported once (worker_publish_result at each end of send_worker).
THEOREM ApiTypes == ApiSpec => []ApiTypeOK
<1>1. ApiInv => ApiTypeOK
  BY DEF ApiInv
<1> QED BY <1>1, ApiCorrect, PTL

\* A power cut changes nothing but the slot whose save it interrupts and those whose
\* last save or erasure lost a write, unnoticed (save_linear, on_factory_reset,
\* load_all_slots).
THEOREM SlotsReloadSame == ApiSpec => []ReloadsSame
<1>1. ApiInv => ReloadsSame
  BY DEF ApiInv
<1> QED BY <1>1, ApiCorrect, PTL

\* A chain that nothing blocks calls every endpoint that stays once, in order and
\* as registered (chain_runner, api_trigger_task, sk_api_send).
THEOREM ChainsReachAll == ApiSpec => []ChainReachesAll
<1>1. ASSUME ApiInv PROVE ChainReachesAll
  <2> SUFFICES ASSUME Chain = Idle, Sound PROVE CalledOrLeft /\ InTurn /\ Left("chain") = {}
    BY DEF ChainReachesAll, CalledOrLeft, InTurn, Sound, Chain
  <2>1. Left("chain") = {}
    BY ListFacts DEF Left, Chain, NoNames
  <2> QED BY <1>1, <2>1 DEF ApiInv, ChainPart
<1> QED BY <1>1, ApiCorrect, PTL
=============================================================================
