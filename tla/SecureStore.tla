----------------------------- MODULE SecureStore -----------------------------
(***************************************************************************)
(* bf_secure_store.c: the encrypted key/value map, cached in RAM and saved *)
(* as one NVS blob, and the encrypted user file on SPIFFS, both under a    *)
(* master key kept in NVS.  Every operation runs under s_mtx, so only      *)
(* failed writes and power cuts can split one.                             *)
(*                                                                         *)
(* A ciphertext is its plaintext and its key; with another key it does not *)
(* decrypt.  An entry weighs its encoded size.                             *)
(***************************************************************************)
EXTENDS Integers, Sequences, FiniteSets, FiniteSetsExt

CONSTANTS
    Keys, Values,
    None,
    Weight,      \* encoded size of an entry with each value
    PlainCap,    \* KV_PLAIN_CAP, less the header
    MaxEntries,  \* BF_SECURE_KV_MAX_ENTRIES
    Bytes,       \* bytes of the user file, with the zero that fills gaps
    UserCap,     \* BF_SECURE_USERDATA_CAP
    MasterKeys,  \* keys that esp_fill_random draws
    FlashFails   \* whether writes may fail and the master key be unreadable

Maps     == [Keys -> Values \cup {None}]
Contents == UNION {[1..n -> Bytes] : n \in 0..UserCap}

Blobs(Plain) == [key : MasterKeys, plain : Plain]
Torn         == [key |-> None, plain |-> <<>>]   \* a file cut short

ASSUME NoneAssumption   == /\ None \notin Values \cup MasterKeys \cup Maps
                           /\ None \notin Blobs(Maps) \cup Blobs(Contents) \cup {Torn}
ASSUME WeightAssumption == Weight \in [Values -> Nat] /\ PlainCap \in Nat /\ MaxEntries \in Nat
ASSUME UserAssumption   == UserCap \in Nat /\ 0 \in Bytes /\ FlashFails \in BOOLEAN

VARIABLES
    pc,         \* "off", "up", or the next step of the factory reset
    mk,         \* s_master_key
    kv,         \* s_kv, or None while not s_kv_loaded
    nvsMk,      \* the blob mk in bf_sec_int
    nvsKv,      \* the blob kv in bf_sec
    file,       \* /userdata/blob.enc
    ackedKv,    \* history: what each entry may be, by the answers given
    ackedUser,  \* history: what the user file holds, by what was asked
    leftKv,     \* history: what of the entries a power cut may leave
    leftUser,   \* history: what of the user file a power cut leaves
    keyLost     \* history: whether a reset failed to save the key now in RAM

ram   == <<mk, kv>>
flash == <<nvsMk, nvsKv, file>>
acked == <<ackedKv, ackedUser>>
left  == <<leftKv, leftUser, keyLost>>
vars  == <<pc, ram, flash, acked, left>>

EmptyMap == [k \in Keys |-> None]
NoEntry  == [k \in Keys |-> {None}]

Entries(m) == {k \in Keys : m[k] # None}
Fits(m)    == MapThenSumSet(LAMBDA k : Weight[m[k]], Entries(m)) <= PlainCap

\* kv_load_locked and userdata_load_locked: whatever does not decrypt is empty.
ReadKv(b, key)   == IF b # None /\ b.key = key THEN b.plain ELSE EmptyMap
ReadUser(b, key) == IF b # None /\ b.key = key THEN b.plain ELSE <<>>

\* The map that an operation works on: loaded on the first access.
Loaded == IF kv = None THEN ReadKv(nvsKv, mk) ELSE kv
User   == ReadUser(file, mk)

Init ==
    /\ pc = "off"
    /\ mk = None /\ kv = None
    /\ nvsMk = None /\ nvsKv = None /\ file = None
    /\ ackedKv = NoEntry /\ ackedUser = <<>>
    /\ leftKv = NoEntry /\ leftUser = <<>> /\ keyLost = FALSE

(***************************************************************************)
(* Power and bf_secure_store_init.                                         *)
(***************************************************************************)
\* What was only in RAM is gone, a key that was not saved with it.
Off ==
    /\ pc' = "off"
    /\ mk' = None /\ kv' = None
    /\ ackedKv' = leftKv /\ ackedUser' = leftUser'
    /\ keyLost' = FALSE
    /\ UNCHANGED <<nvsMk, nvsKv, leftKv>>

PowerCut == pc # "off" /\ UNCHANGED <<file, leftUser>> /\ Off

\* A key never drawn before.
Fresh(k) == k \in MasterKeys \ ({mk, nvsMk} \cup {b.key : b \in {nvsKv, file} \ {None}})

Boot ==
    /\ pc = "off" /\ nvsMk # None
    /\ pc' = "up"
    /\ mk' = nvsMk
    /\ UNCHANGED <<kv, flash, acked, left>>

\* master_key_load_or_generate: no key, or none that can be read.  When the new
\* one cannot be saved the init fails, app_main aborts and the chip restarts.
\* A key that is there and cannot be read takes everything with it.
BootFresh ==
    /\ pc = "off"
    /\ \E k \in MasterKeys : Fresh(k) /\ mk' = k /\ nvsMk' = k
    /\ pc' = "up"
    /\ \/ nvsMk = None /\ UNCHANGED <<acked, left>>
       \/ /\ nvsMk # None /\ FlashFails
          /\ ackedKv' = NoEntry /\ ackedUser' = <<>>
          /\ leftKv' = NoEntry /\ leftUser' = <<>> /\ UNCHANGED keyLost
    /\ UNCHANGED <<kv, nvsKv, file>>

(***************************************************************************)
(* The key/value map.                                                      *)
(***************************************************************************)
\* bf_secure_store_kv_get, bf_secure_store_kv_list.
KvRead ==
    /\ pc = "up"
    /\ kv' = Loaded
    /\ UNCHANGED <<pc, mk, flash, acked, left>>

\* kv_save_locked on the changed cache.
Save(m) ==
    /\ kv' = m
    /\ Fits(m)
    /\ nvsKv' = [key |-> mk, plain |-> m]

\* The cache is changed although the save fails.
SaveRefused(m) ==
    /\ kv' = m
    /\ ~ Fits(m) \/ FlashFails
    /\ UNCHANGED nvsKv

HasRoom(k) == k \in Entries(Loaded) \/ Cardinality(Entries(Loaded)) < MaxEntries

\* An accepted change is durable, unless a reset has lost its key: then a save
\* leaves nothing that can be read after a power cut.
Change(k, v, m) ==
    /\ pc = "up"
    /\ \/ /\ Save(m)
          /\ ackedKv' = [ackedKv EXCEPT ![k] = {v}]
          /\ leftKv' = IF keyLost THEN NoEntry ELSE ackedKv'
       \/ /\ SaveRefused(m)
          /\ ackedKv' = [ackedKv EXCEPT ![k] = @ \cup {v}]
          /\ UNCHANGED leftKv
    /\ UNCHANGED <<pc, mk, nvsMk, file, ackedUser, leftUser, keyLost>>

KvSet(k, v) == HasRoom(k) /\ Change(k, v, [Loaded EXCEPT ![k] = v])

KvErase(k)  == k \in Entries(Loaded) /\ Change(k, None, [Loaded EXCEPT ![k] = None])

(***************************************************************************)
(* The user file: read, changed in RAM and rewritten.                      *)
(***************************************************************************)
\* userdata_save_locked truncates the file before it writes the new one: d is
\* what is written, asked what the caller asked for.
Rewrite(d, asked) ==
    /\ file' = [key |-> mk, plain |-> d]
    /\ ackedUser' = asked
    /\ leftUser' = IF keyLost THEN <<>> ELSE asked

\* It answers by what fwrite returns.  What fclose returns, which writes the rest of
\* the buffer, is ignored, so that a file cut short may be answered with ok.
CutShort ==
    /\ FlashFails
    /\ file' = Torn
    /\ ackedUser' = <<>> /\ leftUser' = <<>>

\* Power is cut while userdata_save_locked writes.
CutInRewrite ==
    /\ pc \in {"up", "reset_user"}
    /\ file' = Torn /\ leftUser' = <<>>
    /\ Off

Pad(d, n) == [i \in 1..n |-> IF i <= Len(d) THEN d[i] ELSE 0]

\* What a slice s at offset at should make of d.
Sliced(d, at, s) ==
    [i \in 1..(IF Len(d) > at + Len(s) THEN Len(d) ELSE at + Len(s)) |->
        IF i - at \in DOMAIN s THEN s[i - at] ELSE IF i \in DOMAIN d THEN d[i] ELSE 0]

\* Mutant of Grown: the gap is not zeroed.
GrownJunk(d, at, need, junk) ==
    IF need <= Len(d) THEN d
    ELSE [i \in 1..need |-> IF i <= Len(d) THEN d[i] ELSE junk]

\* realloc, when it must: what lies beyond the old end is junk, and the gap up to
\* the slice is zeroed.
Grown(d, at, need, junk) ==
    IF need <= Len(d) THEN d
    ELSE [i \in 1..need |-> IF i <= Len(d) THEN d[i] ELSE IF i <= at THEN 0 ELSE junk]

Overwrite(d, at, s, junk) ==
    LET grown == Grown(d, at, at + Len(s), junk)
    IN [i \in DOMAIN grown |-> IF i > at /\ i <= at + Len(s) THEN s[i - at] ELSE grown[i]]

\* A change that fails without touching the file is no step.
ChangeUser(d, asked) ==
    /\ pc = "up"
    /\ Rewrite(d, asked) \/ CutShort
    /\ UNCHANGED <<pc, ram, nvsMk, nvsKv, ackedKv, leftKv, keyLost>>

UserWrite == \E at \in 0..UserCap, s \in Contents, junk \in Bytes :
                /\ at + Len(s) <= UserCap
                /\ ChangeUser(Overwrite(User, at, s, junk), Sliced(User, at, s))
UserTruncate == \E n \in 0..UserCap : ChangeUser(Pad(User, n), Pad(User, n))
UserClear    == ChangeUser(<<>>, <<>>)

(***************************************************************************)
(* on_factory_reset, write by write.  It looks at no result: whatever was  *)
(* not written, it goes on, with an empty map and a new key in RAM.        *)
(***************************************************************************)
ResetKv ==
    /\ pc = "up"
    /\ kv' = EmptyMap /\ ackedKv' = NoEntry
    /\ \/ nvsKv' = None /\ leftKv' = NoEntry
       \/ FlashFails /\ UNCHANGED <<nvsKv, leftKv>>
    /\ pc' = "reset_mk"
    /\ UNCHANGED <<mk, nvsMk, file, ackedUser, leftUser, keyLost>>

ResetEraseKey ==
    /\ pc = "reset_mk"
    /\ \/ nvsMk' = None /\ leftKv' = NoEntry /\ leftUser' = <<>>
       \/ FlashFails /\ UNCHANGED <<nvsMk, leftKv, leftUser>>
    /\ pc' = "reset_fresh"
    /\ UNCHANGED <<ram, nvsKv, file, acked, keyLost>>

\* Mutant of ResetFreshKey: the old key is saved again.
ResetSameKey ==
    /\ pc = "reset_fresh"
    /\ ackedUser' = <<>>
    /\ nvsMk' = mk
    /\ leftKv' = NoEntry /\ leftUser' = <<>> /\ keyLost' = FALSE
    /\ pc' = "reset_user"
    /\ UNCHANGED <<ram, nvsKv, file, ackedKv>>

ResetFreshKey ==
    /\ pc = "reset_fresh"
    /\ \E k \in MasterKeys :
          /\ Fresh(k) /\ mk' = k
          /\ ackedUser' = <<>>
          /\ \/ /\ nvsMk' = k
                /\ leftKv' = NoEntry /\ leftUser' = <<>> /\ keyLost' = FALSE
             \/ /\ FlashFails
                /\ keyLost' = TRUE
                /\ UNCHANGED <<nvsMk, leftKv, leftUser>>
    /\ pc' = "reset_user"
    /\ UNCHANGED <<kv, nvsKv, file, ackedKv>>

ResetUser ==
    /\ pc = "reset_user"
    /\ \/ Rewrite(<<>>, <<>>) \/ CutShort
       \/ FlashFails /\ UNCHANGED <<file, ackedUser, leftUser>>
    /\ pc' = "up"
    /\ UNCHANGED <<ram, nvsMk, nvsKv, ackedKv, leftKv, keyLost>>

FactoryReset == ResetKv \/ ResetEraseKey \/ ResetFreshKey \/ ResetUser

Next == \/ Boot \/ BootFresh \/ PowerCut
        \/ KvRead
        \/ \E k \in Keys : KvErase(k) \/ \E v \in Values : KvSet(k, v)
        \/ UserWrite \/ UserTruncate \/ UserClear \/ CutInRewrite
        \/ FactoryReset

Spec == Init /\ [][Next]_vars

(***************************************************************************)
(* Properties.                                                             *)
(***************************************************************************)
\* The key in RAM was saved, as far as what failed tells.
KeySaved == pc \notin {"reset_mk", "reset_fresh"} /\ ~ keyLost

\* What is in RAM, and what would be read after a power cut at this point, agree
\* with the answers the callers were given, although cache, blob, file and key are
\* saved one by one and a reset ignores what fails.  An accepted set or erase is
\* there, a refused one took effect or not, and nothing from before a factory reset
\* is read again.  A power cut leaves nothing else, unless the reset failed to save
\* the key: then what was accepted since is gone, and what the failed writes should
\* have wiped may be back, but nothing is mixed.  KvKept says so of the map.
KvKept   == \A k \in Keys : /\ ReadKv(nvsKv, nvsMk)[k] \in leftKv[k]
                            /\ pc # "off" => Loaded[k] \in ackedKv[k]
                            /\ KeySaved => leftKv[k] \subseteq ackedKv[k]

\* The same of the user file.  A write cut short leaves it empty, never mixed, and
\* a slice behind the end is preceded by zeros, never by what was in memory.
UserKept == /\ ReadUser(file, nvsMk) = leftUser
            /\ pc # "off" => User = ackedUser
            /\ KeySaved => leftUser = ackedUser
=============================================================================
