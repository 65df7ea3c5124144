------------------------------ MODULE FlashProofs ------------------------------
(***************************************************************************)
(* Proofs about what a power cut leaves in flash: the secure store and the *)
(* firmware slots.                                                         *)
(*                                                                         *)
(* The secure store, for all keys, values and weights, every size of the   *)
(* map and of the user file, any power cuts and any failing writes.  Unless*)
(* a reset failed to save it, the master key in RAM is the one in NVS, so  *)
(* that what is saved can be read after a power cut; if it failed, the two *)
(* differ, so that what is saved cannot be read.  A fresh key is that of   *)
(* no blob, so that nothing from before a reset can be read with it.       *)
(*                                                                         *)
(* The firmware slots, for every number of checks and downloads at a time  *)
(* and every set of images.  Downloads write to the slot that is not       *)
(* running, and the running slot changes only in a restart, when no        *)
(* download is alive; a download that was alone since its first write has  *)
(* no other writer beside it, so that the slot stays as it was when the    *)
(* hash was compared.                                                      *)
(***************************************************************************)
EXTENDS SecureStore, OtaRefinement, TLAPS

(***************************************************************************)
(* The secure store.                                                       *)
(***************************************************************************)
Resetting == {"reset_mk", "reset_fresh", "reset_user"}

TypeOK ==
    /\ pc \in {"off", "up"} \cup Resetting
    /\ mk \in MasterKeys \cup {None} /\ nvsMk \in MasterKeys \cup {None}
    /\ kv \in Maps \cup {None}
    /\ nvsKv \in Blobs(Maps) \cup {None}
    /\ file \in Blobs(Contents) \cup {Torn, None}
    /\ ackedKv \in [Keys -> SUBSET (Values \cup {None})]
    /\ leftKv \in [Keys -> SUBSET (Values \cup {None})]
    /\ keyLost \in BOOLEAN

\* The key in RAM, by where the store is and what a reset has failed to save.
KeyInRam ==
    /\ pc = "off" => mk = None /\ kv = None /\ ~ keyLost
    /\ pc # "off" => mk # None
    /\ pc \in {"up", "reset_user"} /\ ~ keyLost => mk = nvsMk
    /\ keyLost => mk # nvsMk

\* The map during a reset.
MapInReset == pc \in Resetting => kv = EmptyMap

StoreInv == TypeOK /\ KeyInRam /\ MapInReset /\ KvKept /\ UserKept

(***************************************************************************)
(* Data.                                                                   *)
(***************************************************************************)
LEMMA MapFacts == EmptyMap \in Maps /\ \A m \in Maps : m # None
BY NoneAssumption DEF EmptyMap, Maps

LEMMA ReadKvFacts ==
    /\ \A key : ReadKv(None, key) = EmptyMap
    /\ \A b \in Blobs(Maps) \cup {None} : ReadKv(b, None) = EmptyMap
    /\ \A b \in Blobs(Maps) : \A key : b.key # key => ReadKv(b, key) = EmptyMap
    /\ \A b \in Blobs(Maps) \cup {None} : \A key : ReadKv(b, key) \in Maps
    /\ \A key \in MasterKeys, m \in Maps :
          /\ [key |-> key, plain |-> m] \in Blobs(Maps)
          /\ ReadKv([key |-> key, plain |-> m], key) = m
<1>1. \A b \in Blobs(Maps) \cup {None} : \A key : ReadKv(b, key) \in Maps
  BY MapFacts DEF ReadKv, Blobs
<1>2. \A key \in MasterKeys, m \in Maps :
          /\ [key |-> key, plain |-> m] \in Blobs(Maps)
          /\ ReadKv([key |-> key, plain |-> m], key) = m
  BY NoneAssumption DEF ReadKv, Blobs
<1>3. \A b \in Blobs(Maps) \cup {None} : ReadKv(b, None) = EmptyMap
  BY NoneAssumption DEF ReadKv, Blobs
<1> QED BY <1>1, <1>2, <1>3 DEF ReadKv

LEMMA ReadUserFacts ==
    /\ \A key : ReadUser(None, key) = <<>> /\ ReadUser(Torn, key) = <<>>
    /\ \A b \in Blobs(Contents) \cup {Torn, None} : ReadUser(b, None) = <<>>
    /\ \A b \in Blobs(Contents) : \A key : b.key # key => ReadUser(b, key) = <<>>
    /\ \A b \in Blobs(Contents) \cup {Torn, None} : \A key : ReadUser(b, key) \in Contents
    /\ \A key \in MasterKeys, d \in Contents :
          /\ [key |-> key, plain |-> d] \in Blobs(Contents)
          /\ ReadUser([key |-> key, plain |-> d], key) = d
<1>1. \A key : ReadUser(None, key) = <<>> /\ ReadUser(Torn, key) = <<>>
  BY DEF ReadUser, Torn
<1>2. <<>> \in Contents
  BY UserAssumption DEF Contents
<1>3. \A b \in Blobs(Contents) \cup {Torn, None} : \A key : ReadUser(b, key) \in Contents
  BY <1>1, <1>2 DEF ReadUser, Blobs
<1>4. \A key \in MasterKeys, d \in Contents :
          /\ [key |-> key, plain |-> d] \in Blobs(Contents)
          /\ ReadUser([key |-> key, plain |-> d], key) = d
  BY NoneAssumption DEF ReadUser, Blobs
<1>5. \A b \in Blobs(Contents) \cup {Torn, None} : ReadUser(b, None) = <<>>
  BY <1>1, NoneAssumption DEF ReadUser, Blobs
<1> QED BY <1>1, <1>3, <1>4, <1>5 DEF ReadUser

\* A fresh key reads nothing that is there.
LEMMA FreshReadsNothing ==
    ASSUME TypeOK, NEW k, Fresh(k)
    PROVE  /\ k \in MasterKeys /\ k # None
           /\ ReadKv(nvsKv, k) = EmptyMap /\ ReadUser(file, k) = <<>>
<1>1. k \in MasterKeys /\ k \notin {b.key : b \in {nvsKv, file} \ {None}}
  BY DEF Fresh
<1>2. nvsKv # None => nvsKv.key # k
  BY <1>1
<1>3. file # None => file.key # k
  BY <1>1
<1> QED BY <1>1, <1>2, <1>3, NoneAssumption DEF ReadKv, ReadUser

LEMMA PadFacts ==
    ASSUME NEW d \in Contents, NEW n \in 0 .. UserCap
    PROVE  Pad(d, n) \in [1..n -> Bytes] /\ Pad(d, n) \in Contents /\ Len(d) \in 0 .. UserCap
<1>1. PICK l \in 0 .. UserCap : d \in [1..l -> Bytes]
  BY DEF Contents
<1>2. Len(d) = l
  BY <1>1
<1>3. Pad(d, n) \in [1..n -> Bytes]
  BY <1>1, <1>2, UserAssumption DEF Pad
<1> QED BY <1>1, <1>2, <1>3 DEF Contents

\* Whatever realloc returned, the written file is the slice over the old one, with
\* zeros between them.
LEMMA OverwriteFacts ==
    ASSUME NEW d \in Contents, NEW s \in Contents, NEW at \in 0 .. UserCap, NEW junk \in Bytes,
           at + Len(s) <= UserCap
    PROVE  Overwrite(d, at, s, junk) = Sliced(d, at, s) /\ Sliced(d, at, s) \in Contents
<1>1. PICK l \in 0 .. UserCap : d \in [1..l -> Bytes]
  BY DEF Contents
<1>2. PICK m \in 0 .. UserCap : s \in [1..m -> Bytes]
  BY DEF Contents
<1>3. Len(d) = l /\ Len(s) = m /\ DOMAIN d = 1..l /\ DOMAIN s = 1..m
  BY <1>1, <1>2
<1>4. PICK n : n = IF l > at + m THEN l ELSE at + m
  OBVIOUS
<1>5. n \in 0 .. UserCap /\ n >= l /\ n >= at + m
  BY <1>3, <1>4, UserAssumption
<1>6. PICK f : f = [i \in 1..n |-> IF i - at \in 1..m THEN s[i - at] ELSE IF i \in 1..l THEN d[i] ELSE 0]
  OBVIOUS
<1>7. Sliced(d, at, s) = f
  BY <1>3, <1>4, <1>6 DEF Sliced
<1>8. f \in [1..n -> Bytes]
  BY <1>1, <1>2, <1>5, <1>6, UserAssumption
<1>9. CASE l >= at + m
  <2>1. Grown(d, at, at + Len(s), junk) = d /\ n = l
    BY <1>3, <1>4, <1>5, <1>9 DEF Grown
  <2>2. Overwrite(d, at, s, junk) = [i \in 1..n |-> IF i > at /\ i <= at + m THEN s[i - at] ELSE d[i]]
    BY <1>3, <2>1 DEF Overwrite
  <2>3. Overwrite(d, at, s, junk) = f
    BY <1>2, <1>5, <1>6, <2>1, <2>2
  <2> QED BY <1>5, <1>7, <1>8, <2>3 DEF Contents
<1>10. CASE ~ (l >= at + m)
  <2> DEFINE g == [i \in 1..n |-> IF i <= l THEN d[i] ELSE IF i <= at THEN 0 ELSE junk]
  <2>1. Grown(d, at, at + Len(s), junk) = g /\ n = at + m
    BY <1>3, <1>4, <1>5, <1>10 DEF Grown
  <2>2. Overwrite(d, at, s, junk) = [i \in 1..n |-> IF i > at /\ i <= at + m THEN s[i - at] ELSE g[i]]
    BY <1>3, <2>1 DEF Overwrite
  <2>3. ASSUME NEW i \in 1..n
        PROVE (IF i > at /\ i <= at + m THEN s[i - at] ELSE g[i]) = f[i]
    BY <1>2, <1>5, <1>6, <2>1, UserAssumption
  <2>4. Overwrite(d, at, s, junk) = f
    BY <1>6, <2>2, <2>3
  <2> QED BY <1>5, <1>7, <1>8, <2>4 DEF Contents
<1> QED BY <1>9, <1>10, <1>3, <1>5

(***************************************************************************)
(* Power and the init.                                                     *)
(***************************************************************************)
LEMMA OffKeeps ==
    ASSUME StoreInv, Off, file' \in Blobs(Contents) \cup {Torn, None},
           ReadUser(file', nvsMk) = leftUser'
    PROVE  StoreInv'
<1> USE DEF StoreInv, Off
<1>1. TypeOK' /\ MapInReset'
  BY DEF TypeOK, MapInReset, Resetting
<1>2. KeyInRam'
  BY DEF KeyInRam
<1>3. KvKept' /\ UserKept'
  BY DEF KvKept, UserKept, KeySaved
<1> QED BY <1>1, <1>2, <1>3

LEMMA PowerCutKeeps == StoreInv /\ (PowerCut \/ CutInRewrite) => StoreInv'
<1>1. StoreInv /\ PowerCut => StoreInv'
  BY OffKeeps DEF PowerCut, Off, StoreInv, TypeOK, UserKept
<1>2. StoreInv /\ CutInRewrite => StoreInv'
  BY OffKeeps, ReadUserFacts DEF CutInRewrite, Off
<1> QED BY <1>1, <1>2

LEMMA BootKeeps == StoreInv /\ Boot => StoreInv'
<1> SUFFICES ASSUME StoreInv, Boot PROVE StoreInv'
  OBVIOUS
<1> USE DEF StoreInv, Boot, flash, acked, left
<1>1. kv = None /\ ~ keyLost
  BY DEF KeyInRam
<1>2. TypeOK' /\ KeyInRam' /\ MapInReset'
  BY <1>1 DEF TypeOK, KeyInRam, MapInReset, Resetting
<1>3. \A k \in Keys : leftKv[k] \subseteq ackedKv[k]
  BY <1>1 DEF KvKept, KeySaved
<1>4. KvKept' /\ UserKept'
  BY <1>1, <1>3 DEF KvKept, UserKept, Loaded, User, KeySaved
<1> QED BY <1>2, <1>4

LEMMA BootFreshKeeps == StoreInv /\ BootFresh => StoreInv'
<1> SUFFICES ASSUME StoreInv, BootFresh PROVE StoreInv'
  OBVIOUS
<1> USE DEF StoreInv, BootFresh, acked, left
<1>1. PICK k \in MasterKeys : Fresh(k) /\ mk' = k /\ nvsMk' = k
  OBVIOUS
<1>2. k # None /\ ReadKv(nvsKv, k) = EmptyMap /\ ReadUser(file, k) = <<>>
  BY <1>1, FreshReadsNothing
<1>3. kv' = None /\ nvsKv' = nvsKv /\ file' = file /\ ~ keyLost /\ keyLost' = keyLost /\ pc' = "up"
  BY DEF KeyInRam
<1>4. \/ leftKv' = leftKv /\ ackedKv' = ackedKv /\ leftUser' = leftUser /\ ackedUser' = ackedUser /\ nvsMk = None
      \/ leftKv' = NoEntry /\ ackedKv' = NoEntry /\ leftUser' = <<>> /\ ackedUser' = <<>>
  OBVIOUS
<1>5. TypeOK' /\ KeyInRam' /\ MapInReset'
  BY <1>1, <1>2, <1>3, <1>4 DEF TypeOK, KeyInRam, MapInReset, Resetting, NoEntry
<1>6. \A x \in Keys : EmptyMap[x] \in leftKv'[x] /\ leftKv'[x] \subseteq ackedKv'[x]
  <2>1. CASE leftKv' = leftKv /\ ackedKv' = ackedKv /\ nvsMk = None
    <3>1. ReadKv(nvsKv, nvsMk) = EmptyMap
      BY <2>1, ReadKvFacts DEF TypeOK
    <3> QED BY <1>3, <2>1, <3>1 DEF KvKept, KeySaved
  <2>2. CASE leftKv' = NoEntry /\ ackedKv' = NoEntry
    BY <2>2 DEF NoEntry, EmptyMap
  <2> QED BY <1>4, <2>1, <2>2
<1>7. KvKept'
  <2>1. Loaded' = EmptyMap /\ ReadKv(nvsKv', nvsMk') = EmptyMap
    BY <1>1, <1>2, <1>3 DEF Loaded
  <2> QED BY <1>6, <2>1 DEF KvKept
<1>8. leftUser' = <<>> /\ ackedUser' = <<>>
  <2>1. CASE leftUser' = leftUser /\ ackedUser' = ackedUser /\ nvsMk = None
    <3>1. ReadUser(file, nvsMk) = <<>>
      BY <2>1, ReadUserFacts DEF TypeOK
    <3> QED BY <1>3, <2>1, <3>1 DEF UserKept, KeySaved
  <2> QED BY <1>4, <2>1
<1>9. UserKept'
  BY <1>1, <1>2, <1>3, <1>8 DEF UserKept, User
<1> QED BY <1>5, <1>7, <1>9

(***************************************************************************)
(* The key/value map.                                                      *)
(***************************************************************************)
LEMMA LoadedIsMap == TypeOK => Loaded \in Maps
BY ReadKvFacts DEF TypeOK, Loaded

LEMMA KvReadKeeps == StoreInv /\ KvRead => StoreInv'
<1> SUFFICES ASSUME StoreInv, KvRead PROVE StoreInv'
  OBVIOUS
<1> USE DEF StoreInv, KvRead, flash, acked, left
<1>1. Loaded \in Maps /\ Loaded # None
  BY LoadedIsMap, MapFacts
<1>2. TypeOK' /\ KeyInRam' /\ MapInReset'
  BY <1>1 DEF TypeOK, KeyInRam, MapInReset, Resetting
<1>3. Loaded' = Loaded
  BY <1>1 DEF Loaded
<1>4. KvKept' /\ UserKept'
  BY <1>3 DEF KvKept, UserKept, User, KeySaved
<1> QED BY <1>2, <1>4

LEMMA ChangeKeeps ==
    ASSUME StoreInv, NEW k \in Keys, NEW v \in Values \cup {None},
           Change(k, v, [Loaded EXCEPT ![k] = v])
    PROVE  StoreInv'
<1> USE DEF StoreInv
<1>1. PICK m : m = [Loaded EXCEPT ![k] = v]
  OBVIOUS
<1>2. /\ m \in Maps /\ m # None /\ m[k] = v
      /\ \A x \in Keys : x # k => m[x] = Loaded[x]
  BY <1>1, LoadedIsMap, MapFacts DEF Maps
<1>3. /\ pc = "up" /\ UNCHANGED <<pc, mk, nvsMk, file, ackedUser, leftUser, keyLost>> /\ kv' = m
      /\ \/ /\ nvsKv' = [key |-> mk, plain |-> m] /\ ackedKv' = [ackedKv EXCEPT ![k] = {v}]
            /\ leftKv' = IF keyLost THEN NoEntry ELSE ackedKv'
         \/ /\ nvsKv' = nvsKv /\ ackedKv' = [ackedKv EXCEPT ![k] = @ \cup {v}]
            /\ leftKv' = leftKv
  BY <1>1 DEF Change, Save, SaveRefused
<1>4. mk \in MasterKeys /\ mk # None /\ (~ keyLost => mk = nvsMk) /\ (keyLost => mk # nvsMk)
  BY <1>3 DEF TypeOK, KeyInRam
<1>5. /\ ackedKv \in [Keys -> SUBSET (Values \cup {None})]
      /\ leftKv \in [Keys -> SUBSET (Values \cup {None})]
  BY DEF TypeOK
<1>6. /\ ackedKv' \in [Keys -> SUBSET (Values \cup {None})]
      /\ v \in ackedKv'[k]
      /\ \A x \in Keys : x # k => ackedKv'[x] = ackedKv[x]
  BY <1>3, <1>5
<1>7. leftKv' \in [Keys -> SUBSET (Values \cup {None})]
  BY <1>3, <1>5, <1>6 DEF NoEntry
<1>8. nvsKv' \in Blobs(Maps) \cup {None}
  BY <1>2, <1>3, <1>4, ReadKvFacts DEF TypeOK
<1>9. TypeOK' /\ KeyInRam' /\ MapInReset'
  BY <1>2, <1>3, <1>6, <1>7, <1>8 DEF TypeOK, KeyInRam, MapInReset, Resetting
<1>10. Loaded' = m /\ \A x \in Keys : m[x] \in ackedKv'[x]
  BY <1>2, <1>3, <1>6 DEF Loaded, KvKept
<1>11. \A x \in Keys : /\ ReadKv(nvsKv', nvsMk)[x] \in leftKv'[x]
                       /\ ~ keyLost => leftKv'[x] \subseteq ackedKv'[x]
  <2>1. CASE /\ nvsKv' = [key |-> mk, plain |-> m] /\ keyLost /\ leftKv' = NoEntry
    <3>1. ReadKv(nvsKv', nvsMk) = EmptyMap
      BY <1>2, <1>4, <2>1, ReadKvFacts DEF ReadKv
    <3>2. \A x \in Keys : EmptyMap[x] \in leftKv'[x]
      BY <2>1 DEF NoEntry, EmptyMap
    <3> QED BY <2>1, <3>1, <3>2
  <2>2. CASE /\ nvsKv' = [key |-> mk, plain |-> m] /\ ~ keyLost /\ leftKv' = ackedKv'
    <3>1. ReadKv(nvsKv', nvsMk) = m
      BY <1>2, <1>4, <2>2, ReadKvFacts
    <3> QED BY <1>10, <2>2, <3>1
  <2>3. CASE /\ nvsKv' = nvsKv /\ ackedKv' = [ackedKv EXCEPT ![k] = @ \cup {v}]
             /\ leftKv' = leftKv
    <3>1. \A x \in Keys : ackedKv[x] \subseteq ackedKv'[x]
      BY <1>5, <2>3
    <3> QED BY <1>3, <2>3, <3>1 DEF KvKept, KeySaved
  <2> QED BY <1>3, <2>1, <2>2, <2>3
<1>12. KvKept'
  <2>1. nvsMk' = nvsMk /\ keyLost' = keyLost
    BY <1>3
  <2> QED BY <1>10, <1>11, <2>1 DEF KvKept, KeySaved
<1>13. UserKept'
  BY <1>3 DEF UserKept, User, KeySaved
<1> QED BY <1>9, <1>12, <1>13

LEMMA KvKeeps ==
    ASSUME StoreInv, NEW k \in Keys, KvErase(k) \/ \E v \in Values : KvSet(k, v)
    PROVE  StoreInv'
BY ChangeKeeps DEF KvErase, KvSet

(***************************************************************************)
(* The user file.                                                          *)
(***************************************************************************)
LEMMA RewriteKeeps ==
    ASSUME StoreInv, NEW d \in Contents, pc \in {"up", "reset_user"}, pc' \in {pc, "up"},
           \/ Rewrite(d, d) \/ CutShort
           \/ UNCHANGED <<file, ackedUser, leftUser>>,
           UNCHANGED <<ram, nvsMk, nvsKv, ackedKv, leftKv, keyLost>>
    PROVE  StoreInv'
<1> USE DEF StoreInv, ram
<1>1. mk \in MasterKeys /\ mk # None /\ (~ keyLost => mk = nvsMk) /\ (keyLost => mk # nvsMk)
  BY DEF TypeOK, KeyInRam
<1>2. /\ file' \in Blobs(Contents) \cup {Torn, None}
      /\ ReadUser(file', mk) = ackedUser' /\ ReadUser(file', nvsMk) = leftUser'
      /\ ~ keyLost => leftUser' = ackedUser'
  <2>1. CASE Rewrite(d, d)
    <3>1. file' \in Blobs(Contents) /\ file'.key = mk /\ ReadUser(file', mk) = d
      BY <1>1, <2>1, ReadUserFacts DEF Rewrite
    <3>2. keyLost => ReadUser(file', nvsMk) = <<>>
      BY <1>1, <3>1, ReadUserFacts
    <3> QED BY <1>1, <2>1, <3>1, <3>2 DEF Rewrite
  <2>2. CASE CutShort
    BY <2>2, ReadUserFacts DEF CutShort
  <2>3. CASE UNCHANGED <<file, ackedUser, leftUser>>
    BY <2>3 DEF TypeOK, UserKept, User, KeySaved
  <2> QED BY <2>1, <2>2, <2>3
<1>3. TypeOK' /\ KeyInRam' /\ MapInReset'
  BY <1>1, <1>2 DEF TypeOK, KeyInRam, MapInReset, Resetting
<1>4. KvKept'
  BY DEF KvKept, Loaded, KeySaved
<1>5. UserKept'
  BY <1>1, <1>2 DEF UserKept, User, KeySaved
<1> QED BY <1>3, <1>4, <1>5

LEMMA UserKeeps == StoreInv /\ (UserWrite \/ UserTruncate \/ UserClear) => StoreInv'
<1> SUFFICES ASSUME StoreInv, UserWrite \/ UserTruncate \/ UserClear PROVE StoreInv'
  OBVIOUS
<1>1. User \in Contents
  BY ReadUserFacts DEF StoreInv, TypeOK, User
<1>2. ASSUME NEW d \in Contents, ChangeUser(d, d) PROVE StoreInv'
  BY <1>2, RewriteKeeps DEF ChangeUser
<1>3. CASE UserWrite
  <2>1. PICK at \in 0 .. UserCap, s \in Contents, junk \in Bytes :
          /\ at + Len(s) <= UserCap
          /\ ChangeUser(Overwrite(User, at, s, junk), Sliced(User, at, s))
    BY <1>3 DEF UserWrite
  <2>2. /\ Overwrite(User, at, s, junk) = Sliced(User, at, s)
        /\ Sliced(User, at, s) \in Contents
    BY <1>1, <2>1, OverwriteFacts
  <2> QED BY <1>2, <2>1, <2>2
<1>4. CASE UserTruncate
  BY <1>1, <1>2, <1>4, PadFacts DEF UserTruncate
<1>5. CASE UserClear
  <2>1. <<>> \in Contents
    BY UserAssumption DEF Contents
  <2> QED BY <1>2, <1>5, <2>1 DEF UserClear
<1> QED BY <1>3, <1>4, <1>5

(***************************************************************************)
(* The factory reset.                                                      *)
(***************************************************************************)
LEMMA EmptyFacts ==
    /\ \A x \in Keys : EmptyMap[x] \in NoEntry[x] /\ NoEntry[x] \subseteq NoEntry[x]
    /\ NoEntry \in [Keys -> SUBSET (Values \cup {None})]
BY DEF EmptyMap, NoEntry

LEMMA ResetKvKeeps == StoreInv /\ ResetKv => StoreInv'
<1> SUFFICES ASSUME StoreInv, ResetKv PROVE StoreInv'
  OBVIOUS
<1> USE DEF StoreInv, ResetKv
<1>1. TypeOK' /\ KeyInRam' /\ MapInReset'
  BY MapFacts, EmptyFacts DEF TypeOK, KeyInRam, MapInReset, Resetting
<1>2. Loaded' = EmptyMap
  BY MapFacts DEF Loaded
<1>3. \A x \in Keys : ReadKv(nvsKv', nvsMk)[x] \in leftKv'[x]
  <2>1. CASE nvsKv' = None /\ leftKv' = NoEntry
    BY <2>1, ReadKvFacts, EmptyFacts
  <2>2. CASE UNCHANGED <<nvsKv, leftKv>>
    BY <2>2 DEF KvKept
  <2> QED BY <2>1, <2>2
<1>4. KvKept'
  BY <1>2, <1>3, EmptyFacts DEF KvKept, KeySaved
<1>5. UserKept'
  BY DEF UserKept, User, KeySaved
<1> QED BY <1>1, <1>4, <1>5

LEMMA ResetEraseKeyKeeps == StoreInv /\ ResetEraseKey => StoreInv'
<1> SUFFICES ASSUME StoreInv, ResetEraseKey PROVE StoreInv'
  OBVIOUS
<1> USE DEF StoreInv, ResetEraseKey, ram, acked
<1>1. \/ nvsMk' = None /\ leftKv' = NoEntry /\ leftUser' = <<>>
      \/ UNCHANGED <<nvsMk, leftKv, leftUser>>
  OBVIOUS
<1>2. TypeOK' /\ KeyInRam' /\ MapInReset'
  BY <1>1, EmptyFacts DEF TypeOK, KeyInRam, MapInReset, Resetting
<1>3. Loaded' = Loaded
  BY DEF Loaded
<1>4. \A x \in Keys : ReadKv(nvsKv', nvsMk')[x] \in leftKv'[x]
  BY <1>1, ReadKvFacts, EmptyFacts DEF KvKept, TypeOK
<1>5. KvKept'
  BY <1>3, <1>4 DEF KvKept, KeySaved
<1>6. ReadUser(file', nvsMk') = leftUser'
  BY <1>1, ReadUserFacts DEF UserKept, TypeOK
<1>7. UserKept'
  BY <1>6 DEF UserKept, User, KeySaved
<1> QED BY <1>2, <1>5, <1>7

LEMMA ResetFreshKeyKeeps == StoreInv /\ ResetFreshKey => StoreInv'
<1> SUFFICES ASSUME StoreInv, ResetFreshKey PROVE StoreInv'
  OBVIOUS
<1> USE DEF StoreInv, ResetFreshKey
<1>1. PICK k \in MasterKeys :
          /\ Fresh(k) /\ mk' = k /\ ackedUser' = <<>>
          /\ \/ /\ nvsMk' = k /\ leftKv' = NoEntry /\ leftUser' = <<>> /\ keyLost' = FALSE
             \/ keyLost' = TRUE /\ UNCHANGED <<nvsMk, leftKv, leftUser>>
  OBVIOUS
<1>2. k # None /\ k # nvsMk /\ ReadKv(nvsKv, k) = EmptyMap /\ ReadUser(file, k) = <<>>
  BY <1>1, FreshReadsNothing DEF Fresh
<1>3. TypeOK' /\ KeyInRam' /\ MapInReset'
  BY <1>1, <1>2, EmptyFacts DEF TypeOK, KeyInRam, MapInReset, Resetting
<1>4. Loaded' = EmptyMap /\ Loaded = EmptyMap
  BY MapFacts DEF Loaded, MapInReset, Resetting
<1>5. \A x \in Keys : EmptyMap[x] \in ackedKv[x]
  BY <1>4 DEF KvKept
<1>6. \A x \in Keys : NoEntry[x] \subseteq ackedKv[x]
  BY <1>5 DEF EmptyMap, NoEntry
<1>7. \A x \in Keys : ReadKv(nvsKv', nvsMk')[x] \in leftKv'[x]
  <2>1. CASE nvsMk' = k /\ leftKv' = NoEntry
    BY <1>2, <2>1, EmptyFacts
  <2>2. CASE UNCHANGED <<nvsMk, leftKv>>
    BY <2>2 DEF KvKept
  <2> QED BY <1>1, <2>1, <2>2
<1>8. KvKept'
  BY <1>1, <1>4, <1>5, <1>6, <1>7 DEF KvKept, KeySaved
<1>9. UserKept'
  BY <1>1, <1>2 DEF UserKept, User, KeySaved
<1> QED BY <1>3, <1>8, <1>9

LEMMA ResetUserKeeps == StoreInv /\ ResetUser => StoreInv'
<1> SUFFICES ASSUME StoreInv, ResetUser PROVE StoreInv'
  OBVIOUS
<1>1. <<>> \in Contents
  BY UserAssumption DEF Contents
<1> QED BY <1>1, RewriteKeeps DEF ResetUser

(***************************************************************************)
(* The theorems.                                                           *)
(***************************************************************************)
LEMMA StoreInit == Init => StoreInv
<1> SUFFICES ASSUME Init PROVE StoreInv
  OBVIOUS
<1> USE DEF Init
<1>1. TypeOK /\ KeyInRam /\ MapInReset
  BY EmptyFacts DEF TypeOK, KeyInRam, MapInReset, Resetting
<1>2. KvKept
  BY ReadKvFacts, EmptyFacts DEF KvKept
<1>3. UserKept
  BY ReadUserFacts DEF UserKept
<1> QED BY <1>1, <1>2, <1>3 DEF StoreInv

LEMMA StoreNext == StoreInv /\ [Next]_vars => StoreInv'
<1> SUFFICES ASSUME StoreInv, [Next]_vars PROVE StoreInv'
  OBVIOUS
<1>1. CASE Boot \/ BootFresh \/ PowerCut
  BY <1>1, BootKeeps, BootFreshKeeps, PowerCutKeeps
<1>2. CASE KvRead
  BY <1>2, KvReadKeeps
<1>3. ASSUME NEW k \in Keys, KvErase(k) \/ \E v \in Values : KvSet(k, v) PROVE StoreInv'
  BY <1>3, KvKeeps
<1>4. CASE UserWrite \/ UserTruncate \/ UserClear \/ CutInRewrite
  BY <1>4, UserKeeps, PowerCutKeeps
<1>5. CASE FactoryReset
  BY <1>5, ResetKvKeeps, ResetEraseKeyKeeps, ResetFreshKeyKeeps, ResetUserKeeps
     DEF FactoryReset
<1>6. CASE UNCHANGED vars
  BY <1>6 DEF vars, ram, flash, acked, left, StoreInv, TypeOK, KeyInRam, MapInReset,
              KvKept, UserKept, Loaded, User, KeySaved
<1> QED BY <1>1, <1>2, <1>3, <1>4, <1>5, <1>6 DEF Next

\* The types, and how the master keys in RAM and in NVS are related: the same unless
\* a reset failed to save the new one, and different then.
THEOREM StoreCorrect == Spec => []StoreInv
<1> QED BY StoreInit, StoreNext, PTL DEF Spec

\* An accepted set or erase is there, and nothing from before a factory reset is
\* read, whatever fails; a power cut leaves nothing else unless the reset could not
\* save its key (kv_save_locked, on_factory_reset).
THEOREM MapAsAnswered == Spec => []KvKept
<1>1. StoreInv => KvKept
  BY DEF StoreInv
<1> QED BY <1>1, StoreCorrect, PTL

\* The user file holds what was asked for last, with zeros in a gap, or is empty
\* after a write that was cut short (userdata_save_locked).
THEOREM FileAsAnswered == Spec => []UserKept
<1>1. StoreInv => UserKept
  BY DEF StoreInv
<1> QED BY <1>1, StoreCorrect, PTL

(***************************************************************************)
(* The firmware slots.                                                     *)
(***************************************************************************)
Places == {"none", "created", "connecting", "writing", "written", "verified", "done"}
Tasks  == [pc : Places, sha : Images \cup {NoHash}, alone : BOOLEAN]

OtaTypeOK ==
    /\ run \in Slots /\ boot \in Slots
    /\ slot \in [Slots -> Images \cup {Incomplete}]
    /\ cached \in Images \cup {NoHash}
    /\ dl \in [Downloads -> Tasks]

\* An activated slot stays activated until the restart.
DoneBoots == \A d \in Downloads : dl[d].pc = "done" => boot = Other

\* A download that is alone has no other writer beside it.
AloneWrites == \A d, e \in Downloads : dl[d].alone /\ dl[e].pc = "writing" => e = d

\* What was compared is still what the slot holds.
Compared ==
    \A d \in Downloads :
       dl[d].pc \in {"verified", "done"} /\ dl[d].alone /\ dl[d].sha # NoHash
          => slot[Other] = dl[d].sha

OtaInv == OtaTypeOK /\ RunsComplete /\ DoneBoots /\ AloneWrites /\ Compared

LEMMA OtherSlot == run \in Slots => Other \in Slots /\ Other # run /\ 1 - Other = run
BY DEF Slots, Other

LEMMA NoTaskIsOne == NoTask \in Tasks /\ NoTask.pc = "none" /\ ~ NoTask.alone
BY DEF NoTask, Tasks, Places

(***************************************************************************)
(* Steps of one task that leave the slots alone.                           *)
(***************************************************************************)
\* Download d goes on to r, which is none that writes anew.
Becomes(d, r) ==
    /\ UNCHANGED parts
    /\ dl' = [dl EXCEPT ![d] = r]
    /\ r \in Tasks /\ r.pc \notin {"writing", "done"}
    /\ r.alone => dl[d].alone
    /\ r.pc = "verified" /\ r.alone /\ r.sha # NoHash => slot[Other] = r.sha

LEMMA BecomesKeeps ==
    ASSUME OtaInv, NEW d \in Downloads, NEW r, Becomes(d, r), cached' \in Images \cup {NoHash}
    PROVE  OtaInv'
<1> USE DEF OtaInv, Becomes, parts
<1>1. dl' \in [Downloads -> Tasks] /\ dl'[d] = r /\ \A e \in Downloads : e # d => dl'[e] = dl[e]
  BY DEF OtaTypeOK
<1>2. OtaTypeOK' /\ RunsComplete'
  BY <1>1 DEF OtaTypeOK, RunsComplete
<1>3. DoneBoots'
  BY <1>1 DEF DoneBoots, Other
<1>4. AloneWrites'
  BY <1>1 DEF AloneWrites
<1>5. Compared'
  BY <1>1 DEF Compared, Other
<1> QED BY <1>2, <1>3, <1>4, <1>5

LEMMA EndsKeeps ==
    ASSUME OtaInv, NEW d \in Downloads, dl' = [dl EXCEPT ![d] = NoTask], UNCHANGED <<parts, cached>>
    PROVE  OtaInv'
<1>1. Becomes(d, NoTask)
  BY NoTaskIsOne DEF Becomes
<1> QED BY <1>1, BecomesKeeps DEF OtaInv, OtaTypeOK

LEMMA StartKeeps ==
    ASSUME OtaInv, NEW d \in Downloads, Start(d)
    PROVE  OtaInv'
<1>1. \A h \in Images \cup {NoHash} :
        LET r == [NoTask EXCEPT !.pc = "created", !.sha = h]
            q == [NoTask EXCEPT !.pc = "created"]
        IN  r \in Tasks /\ r.pc = "created" /\ ~ r.alone /\ q \in Tasks /\ q.pc = "created" /\ ~ q.alone
  BY DEF NoTask, Tasks, Places
<1>2. PICK r \in Tasks : r.pc = "created" /\ ~ r.alone /\ dl' = [dl EXCEPT ![d] = r]
  BY <1>1 DEF Start, OtaInv, OtaTypeOK
<1>3. Becomes(d, r)
  BY <1>2 DEF Becomes, Start
<1> QED BY <1>3, BecomesKeeps DEF Start, OtaInv, OtaTypeOK

LEMMA MovesKeeps ==
    ASSUME OtaInv, NEW d \in Downloads, Connect(d) \/ Verified(d)
    PROVE  OtaInv'
<1>1. PICK at \in {"connecting", "verified"} :
        /\ dl' = [dl EXCEPT ![d].pc = at]
        /\ at = "verified" => dl[d].sha \in {NoHash, slot[Other]}
        /\ UNCHANGED <<parts, cached>>
  BY DEF Connect, Verified, Moves, parts
<1> DEFINE r == [dl[d] EXCEPT !.pc = at]
<1>2. dl' = [dl EXCEPT ![d] = r]
  BY <1>1 DEF OtaInv, OtaTypeOK
<1>3. r \in Tasks /\ r.pc = at /\ r.alone = dl[d].alone /\ r.sha = dl[d].sha
  BY DEF OtaInv, OtaTypeOK, Tasks, Places
<1> HIDE DEF r
<1>4. Becomes(d, r)
  BY <1>1, <1>2, <1>3 DEF Becomes
<1> QED BY <1>1, <1>4, BecomesKeeps DEF OtaInv, OtaTypeOK

(***************************************************************************)
(* Steps that change a slot, or which one runs.                            *)
(***************************************************************************)
LEMMA WriteKeeps ==
    ASSUME OtaInv, NEW d \in Downloads, Write(d)
    PROVE  OtaInv'
<1> USE DEF OtaInv
<1>0. run \in Slots /\ Other \in Slots /\ Other # run /\ Other' = Other
  BY OtherSlot DEF OtaTypeOK, Write, Other
<1>1. /\ slot' = [slot EXCEPT ![Other] = Incomplete] /\ UNCHANGED <<run, boot, cached>>
      /\ dl' = [e \in Downloads |->
                  IF e = d THEN [dl[d] EXCEPT !.pc = "writing", !.alone = (Writing = {})]
                  ELSE [dl[e] EXCEPT !.alone = FALSE]]
  BY DEF Write
<1>2. /\ [dl[d] EXCEPT !.pc = "writing", !.alone = (Writing = {})] \in Tasks
      /\ \A e \in Downloads : /\ [dl[e] EXCEPT !.alone = FALSE] \in Tasks
                              /\ [dl[e] EXCEPT !.alone = FALSE].pc = dl[e].pc
                              /\ ~ [dl[e] EXCEPT !.alone = FALSE].alone
  <2>1. (Writing = {}) \in BOOLEAN
    OBVIOUS
  <2> QED BY <2>1 DEF OtaTypeOK, Tasks, Places
<1>3. dl' \in [Downloads -> Tasks]
  BY <1>1, <1>2
<1>4. /\ dl'[d].pc = "writing"
      /\ dl'[d].alone => Writing = {}
      /\ \A e \in Downloads : e # d => dl'[e].pc = dl[e].pc /\ ~ dl'[e].alone
  BY <1>1, <1>2 DEF OtaTypeOK, Tasks
<1>5. OtaTypeOK' /\ RunsComplete'
  BY <1>0, <1>1, <1>3 DEF OtaTypeOK, RunsComplete
<1>6. DoneBoots'
  BY <1>0, <1>1, <1>4 DEF DoneBoots
<1>7. AloneWrites'
  BY <1>4 DEF AloneWrites, Writing
<1>8. Compared'
  BY <1>4 DEF Compared
<1> QED BY <1>5, <1>6, <1>7, <1>8

LEMMA WrittenKeeps ==
    ASSUME OtaInv, NEW d \in Downloads, Written(d)
    PROVE  OtaInv'
<1> USE DEF OtaInv
<1>0. run \in Slots /\ Other \in Slots /\ Other # run /\ Other' = Other
  BY OtherSlot DEF OtaTypeOK, Written, Other
<1>1. /\ dl[d].pc = "writing" /\ dl' = [dl EXCEPT ![d].pc = "written"]
      /\ UNCHANGED <<run, boot, cached>>
      /\ \E image \in Images : slot' \in {slot, [slot EXCEPT ![Other] = image]}
  BY DEF Written, Moves
<1>2. [dl[d] EXCEPT !.pc = "written"] \in Tasks
  BY DEF OtaTypeOK, Tasks, Places
<1>3. /\ dl' \in [Downloads -> Tasks]
      /\ dl'[d].pc = "written" /\ dl'[d].alone = dl[d].alone
      /\ \A e \in Downloads : e # d => dl'[e] = dl[e]
  BY <1>1, <1>2 DEF OtaTypeOK, Tasks
<1>4. OtaTypeOK' /\ RunsComplete'
  BY <1>0, <1>1, <1>3 DEF OtaTypeOK, RunsComplete
<1>5. DoneBoots'
  BY <1>0, <1>1, <1>3 DEF DoneBoots
<1>6. AloneWrites'
  BY <1>3 DEF AloneWrites
<1>7. Compared'
  <2> SUFFICES ASSUME NEW e \in Downloads, dl'[e].pc \in {"verified", "done"}, dl'[e].alone
               PROVE  FALSE
    BY DEF Compared
  <2>1. e # d /\ dl[e].alone
    BY <1>3
  <2> QED BY <1>1, <2>1 DEF AloneWrites
<1> QED BY <1>4, <1>5, <1>6, <1>7

LEMMA FinishKeeps ==
    ASSUME OtaInv, NEW d \in Downloads, Finish(d)
    PROVE  OtaInv'
<1> USE DEF OtaInv
<1>0. run \in Slots /\ Other \in Slots /\ Other' = Other
  BY OtherSlot DEF OtaTypeOK, Finish, Other
<1>1. /\ dl[d].pc = "verified" /\ dl' = [dl EXCEPT ![d].pc = "done"]
      /\ UNCHANGED <<run, slot, cached>> /\ boot' = Other
  BY DEF Finish, Moves
<1>2. [dl[d] EXCEPT !.pc = "done"] \in Tasks
  BY DEF OtaTypeOK, Tasks, Places
<1>3. /\ dl' \in [Downloads -> Tasks]
      /\ dl'[d].pc = "done" /\ dl'[d].alone = dl[d].alone /\ dl'[d].sha = dl[d].sha
      /\ \A e \in Downloads : e # d => dl'[e] = dl[e]
  BY <1>1, <1>2 DEF OtaTypeOK, Tasks
<1>4. OtaTypeOK' /\ RunsComplete'
  BY <1>0, <1>1, <1>3 DEF OtaTypeOK, RunsComplete
<1>5. DoneBoots'
  BY <1>0, <1>1 DEF DoneBoots
<1>6. AloneWrites'
  BY <1>3 DEF AloneWrites
<1>7. Compared'
  BY <1>0, <1>1, <1>3 DEF Compared
<1> QED BY <1>4, <1>5, <1>6, <1>7

LEMMA RollbackKeeps == OtaInv /\ Rollback => OtaInv'
<1> SUFFICES ASSUME OtaInv, Rollback PROVE OtaInv'
  OBVIOUS
<1> USE DEF OtaInv, Rollback, tasks
<1>1. Other \in Slots /\ Other' = Other
  BY OtherSlot DEF OtaTypeOK, Other
<1>2. OtaTypeOK' /\ RunsComplete' /\ AloneWrites'
  BY <1>1 DEF OtaTypeOK, RunsComplete, AloneWrites
<1>3. DoneBoots' /\ Compared'
  BY <1>1 DEF DoneBoots, Compared
<1> QED BY <1>2, <1>3

\* A slot that holds no image is not the running one, so the other one is.
LEMMA RestartKeeps == OtaInv /\ Restart => OtaInv'
<1> SUFFICES ASSUME OtaInv, Restart PROVE OtaInv'
  OBVIOUS
<1> USE DEF OtaInv
<1>1. /\ run' = IF slot[boot] \in Images THEN boot ELSE 1 - boot
      /\ cached' = NoHash /\ dl' = [d \in Downloads |-> NoTask] /\ UNCHANGED <<slot, boot>>
  BY DEF Restart
<1>2. dl' \in [Downloads -> Tasks]
      /\ \A d \in Downloads : dl'[d].pc = "none" /\ ~ dl'[d].alone
  BY <1>1, NoTaskIsOne
<1>3. run' \in Slots /\ slot[run'] \in Images
  BY <1>1 DEF OtaTypeOK, RunsComplete, Slots
<1>4. OtaTypeOK' /\ RunsComplete'
  BY <1>1, <1>2, <1>3 DEF OtaTypeOK, RunsComplete
<1>5. DoneBoots' /\ AloneWrites' /\ Compared'
  BY <1>2 DEF DoneBoots, AloneWrites, Compared
<1> QED BY <1>4, <1>5

(***************************************************************************)
(* The theorems.                                                           *)
(***************************************************************************)
LEMMA OtaInvInit == OtaInit => OtaInv
<1> SUFFICES ASSUME OtaInit PROVE OtaInv
  OBVIOUS
<1>1. dl \in [Downloads -> Tasks] /\ \A d \in Downloads : dl[d].pc = "none" /\ ~ dl[d].alone
  BY NoTaskIsOne DEF OtaInit
<1>2. OtaTypeOK /\ RunsComplete
  BY <1>1, ImagesAssumption DEF OtaInit, OtaTypeOK, RunsComplete, Slots
<1>3. DoneBoots /\ AloneWrites /\ Compared
  BY <1>1 DEF DoneBoots, AloneWrites, Compared
<1> QED BY <1>2, <1>3 DEF OtaInv

LEMMA OtaInvNext == OtaInv /\ [OtaNext]_otaVars => OtaInv'
<1> SUFFICES ASSUME OtaInv, [OtaNext]_otaVars PROVE OtaInv'
  OBVIOUS
<1>1. ASSUME UNCHANGED <<dl, parts>>, cached' \in Images \cup {NoHash} PROVE OtaInv'
  BY <1>1 DEF OtaInv, OtaTypeOK, RunsComplete, DoneBoots, AloneWrites, Compared, parts, Other
<1>2. ASSUME NEW c \in Checks, CheckStarts(c) \/ CheckTask(c) PROVE OtaInv'
  BY <1>1, <1>2 DEF CheckStarts, CheckTask, CheckFetches, CheckFails, CheckEnds, OtaInv, OtaTypeOK
<1>3. CASE UNCHANGED otaVars
  BY <1>1, <1>3 DEF otaVars, tasks, OtaInv, OtaTypeOK
<1>4. ASSUME NEW d \in Downloads, Start(d) \/ DownloadTask(d) PROVE OtaInv'
  <2>1. CASE ConnectFails(d) \/ WriteFails(d) \/ Mismatch(d) \/ FinishFails(d)
    BY <2>1, EndsKeeps DEF ConnectFails, WriteFails, Mismatch, FinishFails, Ends
  <2> QED BY <1>4, <2>1, StartKeeps, MovesKeeps, WriteKeeps, WrittenKeeps, FinishKeeps
          DEF DownloadTask
<1>5. CASE Rollback \/ EspRestart \/ PowerLost
  BY <1>5, RollbackKeeps, RestartKeeps DEF EspRestart, PowerLost
<1> QED BY <1>2, <1>3, <1>4, <1>5 DEF OtaNext

\* The types and the inductive invariant of the downloads and slots.
THEOREM OtaCorrect == OtaSpec => []OtaInv
<1> QED BY OtaInvInit, OtaInvNext, PTL DEF OtaSpec

\* The running slot holds a complete image, whatever downloads overlap, fail or
\* are cut off (download_task writes to esp_ota_get_next_update_partition).
THEOREM AlwaysBootable == OtaSpec => []RunsComplete
<1>1. OtaInv => RunsComplete
  BY DEF OtaInv
<1> QED BY <1>1, OtaCorrect, PTL

\* An image that a download with a hash activated, alone, has that hash until the
\* restart (the comparison in download_task).
THEOREM ActivatedAsAnnounced == OtaSpec => []HashHolds
<1>1. OtaInv => HashHolds
  BY DEF OtaInv, HashHolds, DoneBoots, Compared
<1> QED BY <1>1, OtaCorrect, PTL

(***************************************************************************)
(* The promise of SlotUpdate.                                              *)
(***************************************************************************)
LEMMA SlotFacts ==
    ASSUME OtaInv
    PROVE  /\ run \in Slots /\ boot \in Slots /\ standbySlot \in Slots
           /\ standbySlot # run /\ Other = standbySlot /\ 1 - standbySlot = run
           /\ slot \in [Slots -> Images \cup {Incomplete}]
           /\ slot[run] \in Images /\ Incomplete \notin Images
BY ImagesAssumption DEF OtaInv, OtaTypeOK, RunsComplete, standbySlot, Other, Slots

\* A step that leaves the slots and the choice between them alone.
LEMMA UpdateSame == UNCHANGED parts => UNCHANGED Update!vars
BY DEF parts, Update!vars, standbySlot

\* Every write goes to the standby.
LEMMA StagesStandby ==
    ASSUME OtaInv, UNCHANGED <<run, boot>>, NEW c \in Images \cup {Incomplete},
           slot' = [slot EXCEPT ![Other] = c]
    PROVE  Update!Stage
<1>1. slot'[standbySlot] = c /\ slot'[run] = slot[run]
  BY SlotFacts
<1> QED BY <1>1 DEF Update!Stage, standbySlot

LEMMA DownloadMaps ==
    ASSUME OtaInv, NEW d \in Downloads, DownloadTask(d)
    PROVE  Update!Stage \/ Update!Select \/ UNCHANGED Update!vars
<1>1. CASE Write(d)
  BY <1>1, StagesStandby DEF Write
<1>2. CASE Written(d)
  <2>1. CASE UNCHANGED slot
    BY <1>2, <2>1, UpdateSame DEF Written, parts
  <2>2. CASE \E image \in Images : slot' = [slot EXCEPT ![Other] = image]
    BY <1>2, <2>2, StagesStandby DEF Written
  <2> QED BY <1>2, <2>1, <2>2 DEF Written
<1>3. CASE Finish(d)
  BY <1>3, SlotFacts DEF Finish, Update!Select, standbySlot
<1>4. CASE \/ Connect(d) \/ ConnectFails(d) \/ WriteFails(d)
           \/ Mismatch(d) \/ Verified(d) \/ FinishFails(d)
  BY <1>4, UpdateSame DEF Connect, ConnectFails, WriteFails, Mismatch, Verified, FinishFails
<1> QED BY <1>1, <1>2, <1>3, <1>4 DEF DownloadTask

\* The two images change places, or the boot loader falls back to what ran.
LEMMA RestartMaps ==
    ASSUME OtaInv, Restart
    PROVE  Update!Restart \/ UNCHANGED Update!vars
<1>1. UNCHANGED <<slot, boot>> /\ run' = IF slot[boot] \in Images THEN boot ELSE 1 - boot
  BY DEF Restart
<1>2. boot \in {run, standbySlot}
  BY SlotFacts DEF Slots
<1>3. CASE boot = run
  BY <1>1, <1>3, SlotFacts, UpdateSame DEF parts
<1>4. CASE boot = standbySlot /\ slot[boot] \in Images
  <2>1. run' = standbySlot /\ standbySlot' = run
    BY <1>1, <1>4, SlotFacts DEF standbySlot
  <2>2. boot' = standbySlot /\ boot' # standbySlot'
    BY <1>1, <1>4, <2>1, SlotFacts
  <2> QED BY <1>1, <1>4, <2>1, <2>2 DEF Update!Restart
<1>5. CASE boot = standbySlot /\ slot[boot] \notin Images
  BY <1>1, <1>5, SlotFacts, UpdateSame DEF parts
<1> QED BY <1>2, <1>3, <1>4, <1>5

LEMMA UpdateNext ==
    ASSUME OtaInv, [OtaNext]_otaVars
    PROVE  [Update!Next]_(Update!vars)
<1> USE DEF Update!Next
<1>1. ASSUME NEW c \in Checks, CheckStarts(c) \/ CheckTask(c) PROVE UNCHANGED Update!vars
  BY <1>1, UpdateSame DEF CheckStarts, CheckTask, CheckFetches, CheckFails, CheckEnds
<1>2. ASSUME NEW d \in Downloads, Start(d) PROVE UNCHANGED Update!vars
  BY <1>2, UpdateSame DEF Start
<1>3. CASE Rollback
  BY <1>3, SlotFacts DEF Rollback, Update!Select, standbySlot
<1>4. CASE EspRestart \/ PowerLost
  BY <1>4, RestartMaps DEF EspRestart, PowerLost
<1>5. CASE UNCHANGED otaVars
  BY <1>5, UpdateSame DEF otaVars
<1> QED BY <1>1, <1>2, <1>3, <1>4, <1>5, DownloadMaps DEF OtaNext

\* Every step of the update is a step of the promised one or a stutter (the whole
\* of sk_ota.c).
THEOREM OtaIsSlotUpdate == OtaSpec => ImplementsSlotUpdate
<1>1. OtaInit => Update!Init
  BY ImagesAssumption DEF OtaInit, Update!Init, standbySlot, Slots
<1>2. OtaInv /\ [OtaNext]_otaVars => [Update!Next]_(Update!vars)
  BY UpdateNext
<1> QED BY <1>1, <1>2, OtaCorrect, PTL DEF OtaSpec, ImplementsSlotUpdate, Update!Spec
================================================================================
