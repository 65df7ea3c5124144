----------------------------- MODULE AccessProofs -----------------------------
(***************************************************************************)
(* Proofs about the bonds and sessions, for every set of phones and        *)
(* connections, every number of slots and of keys.                         *)
(*                                                                         *)
(* The argument: a key is drawn once, so it never has more than one slot,  *)
(* its home, where a bond in RAM, the one in NVS, the active key and the   *)
(* sessions that matched it all point; and a key that still waits for its  *)
(* slot is in none of them.                                                *)
(***************************************************************************)
EXTENDS Access, TLAPS

\* Key k has its home in slot s.
Lives(k, s) == \/ bonds[s] # None /\ bonds[s].key = k
               \/ nvs[s] # None /\ nvs[s].key = k
               \/ active # None /\ active.slot = s /\ active.key = k
               \/ \E c \in Conns : /\ conn[c].step \in {"matched", "authed"}
                                   /\ conn[c].slot = s /\ conn[c].key = k

\* Key k was drawn in an exchange that is not over.
Waiting(k) == \/ pending # None /\ pending.key = k
              \/ \E c \in Conns : conn[c].step = "deriving" /\ conn[c].key = k

OneHome == \A s, t \in Slots, k \in Keys : Lives(k, s) /\ Lives(k, t) => s = t

WaitingUnused ==
    /\ \A k \in Keys : Waiting(k) => k \notin revoked /\ \A s \in Slots : ~ Lives(k, s)
    /\ \A c, d \in Conns :
          (c # d /\ conn[c].step = "deriving" /\ conn[d].step = "deriving")
              => conn[c].key # conn[d].key
    /\ \A c \in Conns :
          conn[c].step = "deriving" /\ pending # None => conn[c].key # pending.key

NoneErased ==
    /\ \A s \in Slots : /\ bonds[s] # None => bonds[s].key \notin revoked
                        /\ nvs[s] # None => nvs[s].key \notin revoked
    /\ active # None => active.key \notin revoked \/ active.key = replaced

AllDrawn == \A k \in Keys : Waiting(k) \/ (\E s \in Slots : Lives(k, s)) => k <= drawn

\* The sessions and exchanges have the fields that their step needs.
StepsOK ==
    \A c \in Conns :
        /\ conn[c].step \in {"matched", "authed"} => conn[c].slot \in Slots /\ conn[c].key \in Keys
        /\ conn[c].step = "deriving" => conn[c].key \in Keys
        /\ conn[c].step # "closed" => conn[c].phone \in Phones

KeyInv == OneHome /\ WaitingUnused /\ NoneErased /\ AllDrawn /\ StepsOK

\* RAM and NVS know the same phone in a slot, unless a slot could not be erased.
SlotInv ==
    ~ leftover =>
        /\ \A s, t \in Slots : (s # t /\ bonds[s] # None /\ bonds[t] # None)
                                  => bonds[s].phone # bonds[t].phone
        /\ \A s \in Slots : nvs[s] # None => bonds[s] # None /\ nvs[s].phone = bonds[s].phone

ServedInv ==
    \A c \in Conns :
        (last = c /\ conn[c].step = "authed" /\ conn[c].key \in KeysIn(bonds))
            => active # None /\ active.key = conn[c].key

StandsInv ==
    \A p \in Phones : (stands[p] # None /\ ~ overtaken) =>
        \E s \in Slots : /\ bonds[s] = [phone |-> p, key |-> stands[p]]
                         /\ nvs[s] = bonds[s]

AccessInv == AccessTypeOK /\ KeyInv /\ SlotInv /\ StandsInv /\ ServedInv

(***************************************************************************)
(* Types.                                                                  *)
(***************************************************************************)
LEMMA LinkTypes ==
    /\ Closed \in Links
    /\ \A p \in Phones, st \in Steps, b \in BOOLEAN :
          /\ Link(p, st, b) \in Links
          /\ Link(p, st, b).phone = p /\ Link(p, st, b).step = st
<1>1. Closed \in Links
  BY DEF Closed, Links, Steps
<1> QED BY <1>1 DEF Link, Closed, Links, Steps

\* The handler of one connection moves on.
LEMMA ConnTypes ==
    ASSUME AccessTypeOK, NEW c \in Conns, NEW l \in Links, conn' = [conn EXCEPT ![c] = l]
    PROVE  /\ conn' \in [Conns -> Links] /\ conn'[c] = l
           /\ \A d \in Conns : d # c => conn'[d] = conn[d]
BY DEF AccessTypeOK

\* A change of one or more fields of a connection.
LEMMA FieldTypes ==
    ASSUME AccessTypeOK, NEW c \in Conns,
           NEW st \in Steps, NEW k \in Keys \cup {None}, NEW sl \in Slots \cup {None},
           NEW pr \in BOOLEAN, NEW op \in BOOLEAN
    PROVE  /\ conn[c] \in Links
           /\ [conn[c] EXCEPT !.step = st] \in Links
           /\ [conn[c] EXCEPT !.open = op] \in Links
           /\ [conn[c] EXCEPT !.step = st, !.open = op] \in Links
           /\ [conn[c] EXCEPT !.step = st, !.slot = sl, !.key = k] \in Links
           /\ [conn[c] EXCEPT !.step = st, !.key = k, !.pairs = pr] \in Links
BY DEF AccessTypeOK, Links

(***************************************************************************)
(* What a step does to the connections.                                    *)
(***************************************************************************)
Moves(c) ==
    /\ conn'[c].step \in {"matched", "authed"} =>
          \/ /\ conn[c].step \in {"matched", "authed"}
             /\ conn'[c].slot = conn[c].slot /\ conn'[c].key = conn[c].key
          \/ /\ conn'[c].slot \in Slots /\ bonds[conn'[c].slot] # None
             /\ conn'[c].key = bonds[conn'[c].slot].key
    /\ conn'[c].step = "deriving" => conn[c].step = "deriving" /\ conn'[c].key = conn[c].key
    /\ conn'[c].step # "closed" => conn'[c].phone \in Phones

ConnCalm == conn' \in [Conns -> Links] /\ \A c \in Conns : Moves(c)

Exchanges == \E c \in Conns : Exchange(c)

LEMMA SameConn == AccessTypeOK /\ StepsOK /\ UNCHANGED conn => ConnCalm
BY DEF AccessTypeOK, StepsOK, ConnCalm, Moves

LEMMA OneConn ==
    ASSUME AccessTypeOK, StepsOK, NEW c \in Conns, NEW l \in Links,
           conn' = [conn EXCEPT ![c] = l], Moves(c)
    PROVE  ConnCalm
<1>1. conn' \in [Conns -> Links] /\ \A d \in Conns : d # c => conn'[d] = conn[d]
  BY ConnTypes
<1>2. \A d \in Conns : d # c => Moves(d)
  BY <1>1 DEF Moves, StepsOK
<1> QED BY <1>1, <1>2 DEF ConnCalm

LEMMA ClosesConn ==
    ASSUME AccessTypeOK, StepsOK, NEW c \in Conns, Close(c)
    PROVE  /\ ConnCalm /\ conn'[c] = Closed
           /\ \A d \in Conns : d # c => conn'[d] = conn[d]
<1>1. conn' = [conn EXCEPT ![c] = Closed] /\ Closed \in Links
  BY LinkTypes DEF Close
<1>2. conn'[c] = Closed /\ \A d \in Conns : d # c => conn'[d] = conn[d]
  BY <1>1, ConnTypes
<1>3. Moves(c)
  BY <1>2 DEF Moves, Closed
<1> QED BY <1>1, <1>2, <1>3, OneConn

LEMMA LinksConn ==
    ASSUME AccessTypeOK, StepsOK, NEW c \in Conns, NEW p \in Phones,
           NEW st \in {"fresh", "awaiting"}, NEW b \in BOOLEAN,
           conn' = [conn EXCEPT ![c] = Link(p, st, b)]
    PROVE  /\ ConnCalm /\ conn'[c].step = st
           /\ \A d \in Conns : d # c => conn'[d] = conn[d]
<1>1. Link(p, st, b) \in Links /\ Link(p, st, b).phone = p /\ Link(p, st, b).step = st
  BY LinkTypes DEF Steps
<1>2. conn'[c] = Link(p, st, b) /\ \A d \in Conns : d # c => conn'[d] = conn[d]
  BY <1>1, ConnTypes
<1>3. Moves(c)
  BY <1>1, <1>2 DEF Moves
<1> QED BY <1>1, <1>2, <1>3, OneConn

LEMMA BleConn == Ble \in Conns /\ Clients \subseteq Conns
BY DEF Conns

LEMMA MatchConn ==
    ASSUME AccessTypeOK, StepsOK, NEW c \in Conns, NEW s \in Slots, Match(c, s)
    PROVE  /\ ConnCalm /\ conn'[c].step = "matched"
           /\ \A d \in Conns : d # c => conn'[d] = conn[d]
<1> DEFINE l == [conn[c] EXCEPT !.step = "matched", !.slot = s, !.key = bonds[s].key]
<1>1. bonds[s] # None /\ bonds[s].key \in Keys
  BY DEF Match, AccessTypeOK, Bond
<1>2. l \in Links
  BY <1>1, FieldTypes DEF Steps
<1>3. /\ l.step = "matched" /\ l.slot = s /\ l.key = bonds[s].key /\ l.phone = conn[c].phone
  BY DEF AccessTypeOK, Links
<1>4. conn' = [conn EXCEPT ![c] = l]
  BY DEF Match, AccessTypeOK
<1>5. conn'[c] = l /\ \A d \in Conns : d # c => conn'[d] = conn[d]
  BY <1>2, <1>4, ConnTypes
<1>6. conn[c].phone \in Phones
  BY DEF Match, StepsOK
<1> HIDE DEF l
<1>7. Moves(c)
  BY <1>1, <1>3, <1>5, <1>6 DEF Moves
<1> QED BY <1>2, <1>3, <1>4, <1>5, <1>7, OneConn

LEMMA ActivateConn ==
    ASSUME AccessTypeOK, StepsOK, NEW c \in Conns, Activate(c)
    PROVE  /\ ConnCalm
           /\ conn'[c].step # "closed" => /\ conn'[c].step = "authed" /\ active' # None
                                          /\ conn'[c].slot = conn[c].slot
                                          /\ conn'[c].key = conn[c].key
           /\ \A d \in Conns : d # c => conn'[d] = conn[d]
<1> DEFINE l == [conn[c] EXCEPT !.step = "authed", !.open = (mode # "always")]
<1>1. CASE active' = None
  <2>1. Close(c)
    BY <1>1 DEF Activate
  <2> QED BY <2>1, ClosesConn DEF Closed
<1>2. CASE active' # None
  <2>1. l \in Links
    BY FieldTypes DEF Steps
  <2>2. /\ l.step = "authed" /\ l.slot = conn[c].slot /\ l.key = conn[c].key
        /\ l.phone = conn[c].phone
    BY DEF AccessTypeOK, Links
  <2>3. conn' = [conn EXCEPT ![c] = l]
    BY <1>2 DEF Activate, AccessTypeOK
  <2>4. conn'[c] = l /\ \A d \in Conns : d # c => conn'[d] = conn[d]
    BY <2>1, <2>3, ConnTypes
  <2>5. conn[c].step = "matched" /\ conn[c].phone \in Phones
    BY DEF Activate, StepsOK
  <2> HIDE DEF l
  <2>6. Moves(c)
    BY <2>2, <2>4, <2>5 DEF Moves
  <2> QED BY <1>2, <2>1, <2>2, <2>3, <2>4, <2>6, OneConn
<1> QED BY <1>1, <1>2

LEMMA VerifyConn ==
    ASSUME AccessTypeOK, StepsOK, NEW c \in Conns, Verify(c)
    PROVE  /\ ConnCalm /\ conn'[c].step = "verifying"
           /\ \A d \in Conns : d # c => conn'[d] = conn[d]
<1> DEFINE l == [conn[c] EXCEPT !.step = "verifying"]
<1>1. l \in Links
  BY FieldTypes DEF Steps
<1>2. l.step = "verifying" /\ l.phone = conn[c].phone
  BY DEF AccessTypeOK, Links
<1>3. conn' = [conn EXCEPT ![c] = l]
  BY DEF Verify, Goto, AccessTypeOK
<1>4. conn'[c] = l /\ \A d \in Conns : d # c => conn'[d] = conn[d]
  BY <1>1, <1>3, ConnTypes
<1>5. conn[c].phone \in Phones
  BY DEF Verify, StepsOK
<1> HIDE DEF l
<1>6. Moves(c)
  BY <1>2, <1>4, <1>5 DEF Moves
<1> QED BY <1>1, <1>2, <1>3, <1>4, <1>6, OneConn

LEMMA UnlockConn ==
    ASSUME AccessTypeOK, StepsOK, NEW c \in Conns, Unlock(c)
    PROVE  /\ ConnCalm
           /\ conn'[c].step = conn[c].step /\ conn'[c].key = conn[c].key
           /\ \A d \in Conns : d # c => conn'[d] = conn[d]
<1> DEFINE l == [conn[c] EXCEPT !.open = TRUE]
<1>1. l \in Links
  BY FieldTypes DEF Steps
<1>2. l.step = conn[c].step /\ l.phone = conn[c].phone /\ l.slot = conn[c].slot /\ l.key = conn[c].key
  BY DEF AccessTypeOK, Links
<1>3. conn' = [conn EXCEPT ![c] = l]
  BY DEF Unlock, AccessTypeOK
<1>4. conn'[c] = l /\ \A d \in Conns : d # c => conn'[d] = conn[d]
  BY <1>1, <1>3, ConnTypes
<1>5. conn[c].phone \in Phones /\ conn[c].step = "authed"
  BY DEF Unlock, StepsOK
<1> HIDE DEF l
<1>6. Moves(c)
  BY <1>2, <1>4, <1>5 DEF Moves
<1> QED BY <1>1, <1>2, <1>3, <1>4, <1>6, OneConn

LEMMA ExchangeConn ==
    ASSUME AccessTypeOK, StepsOK, NEW c \in Conns, Exchange(c)
    PROVE  /\ conn' \in [Conns -> Links]
           /\ drawn' = drawn + 1 /\ drawn' \in Keys
           /\ conn'[c].step = "deriving" /\ conn'[c].key = drawn' /\ conn'[c].phone \in Phones
           /\ \A d \in Conns : d # c => conn'[d] = conn[d]
<1> DEFINE l == [conn[c] EXCEPT !.step = "deriving", !.key = drawn', !.pairs = TRUE]
<1>1. drawn' = drawn + 1 /\ drawn' \in Keys
  BY SizeAssumption DEF Exchange, AccessTypeOK, Keys
<1>2. l \in Links
  BY <1>1, FieldTypes DEF Steps
<1>3. l.step = "deriving" /\ l.key = drawn' /\ l.phone = conn[c].phone
  BY DEF AccessTypeOK, Links
<1>4. conn' = [conn EXCEPT ![c] = l]
  BY DEF Exchange, AccessTypeOK
<1>5. conn[c].phone \in Phones
  BY DEF Exchange, StepsOK
<1> HIDE DEF l
<1> QED BY <1>1, <1>2, <1>3, <1>4, <1>5, ConnTypes

(***************************************************************************)
(* Steps that leave the slots alone.                                       *)
(***************************************************************************)
TellsOK == {stored, asked, stands} \subseteq [Phones -> Keys \cup {None}]

\* No phone is told of a bond, and none is overtaken.
TellsNone == /\ TellsOK' /\ overtaken' = overtaken
             /\ \A p \in Phones : stands'[p] # None => stands'[p] = stands[p]

\* The latest session to authenticate was that before.
ServedCalm ==
    \A c \in Conns : last' = c /\ conn'[c].step = "authed" =>
        /\ last = c /\ conn[c].step = "authed" /\ conn'[c].key = conn[c].key
        /\ active' = active

Calm == /\ UNCHANGED <<bonds, nvs, revoked, leftover, drawn>>
        /\ \/ UNCHANGED <<active, replaced>>
           \/ /\ replaced' = None
              /\ \/ active' = None
                 \/ \E s \in Slots : /\ bonds[s] # None
                                     /\ active' = [slot |-> s, key |-> bonds[s].key]
        /\ pending' \in {pending, None}
        /\ window' \in BOOLEAN /\ mode' \in Modes
        /\ ConnCalm /\ TellsNone

LEMMA TellsSame == AccessTypeOK /\ UNCHANGED <<told, overtaken>> => TellsNone
BY DEF told, TellsNone, TellsOK, AccessTypeOK

LEMMA CalmLinks ==
    ASSUME AccessTypeOK, StepsOK, NEW c \in Conns, NEW p \in Phones,
           Begin(c, p) \/ LetIn(c, p) \/ (c = Ble /\ LinkUp(p))
    PROVE  Calm /\ ServedCalm
<1> USE DEF auth, told
<1>1. TellsNone
  BY TellsSame DEF Begin, LetIn, LinkUp
<1>2. PICK st \in {"fresh", "awaiting"}, b \in BOOLEAN :
         conn' = [conn EXCEPT ![c] = Link(p, st, b)]
  BY DEF Begin, LetIn, LinkUp
<1>3. /\ ConnCalm /\ conn'[c].step = st
      /\ \A d \in Conns : d # c => conn'[d] = conn[d]
  BY <1>2, LinksConn
<1>4. /\ UNCHANGED <<bonds, nvs, revoked, leftover, drawn, window, mode, pending>>
      /\ UNCHANGED <<active, replaced>> \/ (active' = None /\ replaced' = None)
      /\ last' = c \/ (last' = last /\ active' = active)
  BY DEF Begin, LetIn, LinkUp, gone
<1>5. Calm
  BY <1>1, <1>3, <1>4 DEF Calm, AccessTypeOK
<1>6. ServedCalm
  BY <1>3, <1>4 DEF ServedCalm
<1> QED BY <1>5, <1>6

LEMMA CalmCloses ==
    ASSUME AccessTypeOK, StepsOK, NEW c \in Conns,
           Drop(c) \/ DeriveFails(c) \/ Wrong(c) \/ Late(c)
    PROVE  Calm /\ ServedCalm
<1> USE DEF auth, told
<1>1. Close(c)
  BY DEF Drop, DeriveFails, Wrong, Late
<1>2. /\ ConnCalm /\ conn'[c] = Closed
      /\ \A d \in Conns : d # c => conn'[d] = conn[d]
  BY <1>1, ClosesConn
<1>3. TellsNone
  BY TellsSame DEF Drop, DeriveFails, Wrong, Late
<1>4. /\ UNCHANGED <<bonds, nvs, gone, drawn, window, mode, active, last>>
      /\ pending' \in {pending, None}
  BY DEF Drop, DeriveFails, Wrong, Late
<1>5. Calm
  BY <1>2, <1>3, <1>4 DEF Calm, AccessTypeOK, gone
<1>6. ServedCalm
  BY <1>2, <1>4 DEF ServedCalm, Closed
<1> QED BY <1>5, <1>6

LEMMA CalmHandlers ==
    ASSUME AccessTypeOK, StepsOK, NEW c \in Conns,
           Verify(c) \/ Unlock(c) \/ (\E s \in Slots : Match(c, s))
    PROVE  Calm /\ ServedCalm
<1> USE DEF auth, told
<1>1. TellsNone
  BY TellsSame DEF Verify, Unlock, Match
<1>2. /\ UNCHANGED <<bonds, nvs, gone, drawn, window, mode, active, last, pending>>
  BY DEF Verify, Unlock, Match
<1>3. /\ ConnCalm /\ \A d \in Conns : d # c => conn'[d] = conn[d]
      /\ conn'[c].step = "authed" => conn[c].step = "authed" /\ conn'[c].key = conn[c].key
  BY VerifyConn, UnlockConn, MatchConn
<1>4. Calm
  BY <1>1, <1>2, <1>3 DEF Calm, AccessTypeOK, gone
<1>5. ServedCalm
  BY <1>2, <1>3 DEF ServedCalm
<1> QED BY <1>4, <1>5

LEMMA CalmRest ==
    ASSUME AccessTypeOK, StepsOK,
           \/ OpenWindow \/ WindowEnds \/ (\E m \in Modes : SetMode(m))
           \/ (\E p \in Phones : Forget(p)) \/ UNCHANGED vars
    PROVE  Calm /\ ServedCalm
<1> USE DEF auth, told, vars
<1>1. /\ UNCHANGED <<bonds, nvs, gone, drawn, active, last, conn>>
      /\ pending' \in {pending, None}
  BY DEF OpenWindow, WindowEnds, CloseWindow, SetMode, Forget
<1>2. window' \in BOOLEAN /\ mode' \in Modes
  BY DEF OpenWindow, WindowEnds, CloseWindow, SetMode, Forget, AccessTypeOK
<1>3. ConnCalm
  BY <1>1, SameConn
<1>4. TellsNone
  <2>1. CASE UNCHANGED <<told, overtaken>>
    BY <2>1, TellsSame
  <2>2. ASSUME NEW p \in Phones, Forget(p) PROVE TellsNone
    BY <2>2 DEF Forget, TellsNone, TellsOK, AccessTypeOK
  <2> QED BY <2>1, <2>2 DEF OpenWindow, WindowEnds, SetMode
<1>5. Calm
  BY <1>1, <1>2, <1>3, <1>4 DEF Calm, gone
<1>6. ServedCalm
  BY <1>1 DEF ServedCalm
<1> QED BY <1>5, <1>6

LEMMA CalmActivate ==
    ASSUME AccessTypeOK, StepsOK, NEW c \in Conns, Activate(c)
    PROVE  Calm
<1> USE DEF auth, told
<1>1. UNCHANGED <<bonds, nvs, revoked, leftover, drawn, window, mode, pending>> /\ TellsNone
  BY DEF Activate, TellsNone, TellsOK, AccessTypeOK
<1>2. conn[c].slot \in Slots
  BY DEF Activate, StepsOK
<1>3. \/ UNCHANGED <<active, replaced>>
      \/ /\ bonds[conn[c].slot] # None /\ replaced' = None
         /\ active' = [slot |-> conn[c].slot, key |-> bonds[conn[c].slot].key]
  BY DEF Activate
<1> QED BY <1>1, <1>2, <1>3, ActivateConn DEF Calm, AccessTypeOK

\* A calm step gives no key a new home.
LEMMA CalmLives ==
    ASSUME AccessTypeOK, StepsOK, Calm, NEW k \in Keys, NEW s \in Slots, Lives(k, s)'
    PROVE  Lives(k, s)
<1>1. CASE (bonds[s] # None /\ bonds[s].key = k)' \/ (nvs[s] # None /\ nvs[s].key = k)'
  BY <1>1 DEF Calm, Lives
<1>2. CASE (active # None /\ active.slot = s /\ active.key = k)'
  BY <1>2 DEF Calm, Lives
<1>3. ASSUME NEW c \in Conns, conn'[c].step \in {"matched", "authed"},
             conn'[c].slot = s, conn'[c].key = k
      PROVE  Lives(k, s)
  BY <1>3 DEF Calm, ConnCalm, Moves, Lives
<1> QED BY <1>1, <1>2, <1>3 DEF Lives

LEMMA CalmWaits ==
    ASSUME Calm, NEW k, Waiting(k)'
    PROVE  Waiting(k)
BY DEF Calm, ConnCalm, Moves, Waiting

LEMMA MovesSteps == ASSUME AccessTypeOK, StepsOK, ConnCalm PROVE StepsOK'
<1> SUFFICES ASSUME NEW c \in Conns
             PROVE  /\ conn'[c].step \in {"matched", "authed"}
                          => conn'[c].slot \in Slots /\ conn'[c].key \in Keys
                    /\ conn'[c].step = "deriving" => conn'[c].key \in Keys
                    /\ conn'[c].step # "closed" => conn'[c].phone \in Phones
  BY DEF StepsOK
<1>1. Moves(c)
  BY DEF ConnCalm
<1>2. \A s \in Slots : bonds[s] # None => bonds[s].key \in Keys
  BY DEF AccessTypeOK, Bond
<1> QED BY <1>1, <1>2 DEF Moves, StepsOK

LEMMA CalmKeepsKeys ==
    ASSUME AccessTypeOK, KeyInv, Calm
    PROVE  AccessTypeOK' /\ KeyInv'
<1> USE DEF KeyInv
<1>1. AccessTypeOK'
  <2>1. active' \in Active \cup {None} /\ (active' # None => bonds[active'.slot] # None)
    BY DEF Calm, AccessTypeOK, Active, Bond
  <2>2. pending' \in Bond \cup {None}
    BY DEF Calm, AccessTypeOK
  <2> QED BY <2>1, <2>2 DEF Calm, ConnCalm, TellsNone, TellsOK, AccessTypeOK
<1>2. StepsOK'
  BY MovesSteps DEF Calm
<1>3. OneHome'
  BY CalmLives DEF OneHome
<1>4. WaitingUnused'
  <2>1. \A k \in Keys : Waiting(k)' => k \notin revoked' /\ \A s \in Slots : ~ Lives(k, s)'
    BY CalmLives, CalmWaits DEF WaitingUnused, Calm
  <2>2. \A c, d \in Conns :
          (c # d /\ conn'[c].step = "deriving" /\ conn'[d].step = "deriving")
              => conn'[c].key # conn'[d].key
    BY DEF WaitingUnused, Calm, ConnCalm, Moves
  <2>3. \A c \in Conns :
          conn'[c].step = "deriving" /\ pending' # None => conn'[c].key # pending'.key
    BY DEF WaitingUnused, Calm, ConnCalm, Moves
  <2> QED BY <2>1, <2>2, <2>3 DEF WaitingUnused
<1>5. NoneErased'
  BY DEF NoneErased, Calm
<1>6. AllDrawn'
  BY CalmLives, CalmWaits DEF AllDrawn, Calm
<1> QED BY <1>1, <1>2, <1>3, <1>4, <1>5, <1>6

LEMMA ServedKeeps ==
    ASSUME ServedInv, ServedCalm, bonds' = bonds
    PROVE  ServedInv'
BY DEF ServedInv, ServedCalm, KeysIn

LEMMA CalmKeeps ==
    ASSUME AccessInv, Calm
    PROVE  AccessTypeOK' /\ KeyInv' /\ SlotInv' /\ StandsInv'
<1> USE DEF AccessInv
<1>1. UNCHANGED <<bonds, nvs, leftover, overtaken>>
      /\ \A p \in Phones : stands'[p] # None => stands'[p] = stands[p]
  BY DEF Calm, TellsNone
<1>2. SlotInv'
  BY <1>1 DEF SlotInv
<1>3. StandsInv'
  BY <1>1 DEF StandsInv
<1> QED BY <1>2, <1>3, CalmKeepsKeys

LEMMA ActivateKeeps ==
    ASSUME AccessInv, NEW c \in Conns, Activate(c)
    PROVE  AccessInv'
<1> USE DEF AccessInv
<1>0. AccessTypeOK /\ StepsOK
  BY DEF KeyInv
<1>1. Calm
  BY <1>0, CalmActivate
<1>2. /\ last' = c /\ bonds' = bonds /\ conn[c].step = "matched"
      /\ conn'[c].step # "closed" => /\ conn'[c].step = "authed" /\ active' # None
                                     /\ conn'[c].slot = conn[c].slot
                                     /\ conn'[c].key = conn[c].key
  BY <1>0, <1>1, ActivateConn DEF Activate, Calm
<1>3. ServedInv'
  <2> SUFFICES ASSUME conn'[c].step = "authed", conn'[c].key \in KeysIn(bonds)
               PROVE  active' # None /\ active'.key = conn'[c].key
    BY <1>2 DEF ServedInv, KeysIn
  <2>1. PICK t \in Slots : bonds[t] # None /\ bonds[t].key = conn'[c].key
    BY DEF KeysIn
  <2>2. conn[c].slot \in Slots /\ conn[c].key \in Keys /\ conn'[c].key = conn[c].key
    BY <1>0, <1>2 DEF StepsOK
  <2>3. Lives(conn[c].key, t) /\ Lives(conn[c].key, conn[c].slot)
    BY <1>2, <2>1, <2>2 DEF Lives
  <2>4. t = conn[c].slot
    BY <2>2, <2>3 DEF KeyInv, OneHome
  <2>5. active' = [slot |-> conn[c].slot, key |-> bonds[conn[c].slot].key]
    BY <2>1, <2>4 DEF Activate
  <2> QED BY <1>2, <2>1, <2>2, <2>4, <2>5
<1> QED BY <1>1, <1>3, CalmKeeps

(***************************************************************************)
(* Exchanges.                                                              *)
(***************************************************************************)
LEMMA NewKey ==
    ASSUME AccessTypeOK, KeyInv, drawn + 1 \in Keys
    PROVE  /\ ~ Waiting(drawn + 1) /\ drawn + 1 \notin revoked
           /\ \A s \in Slots : ~ Lives(drawn + 1, s)
<1>1. drawn \in Nat /\ revoked \subseteq 1 .. drawn
  BY SizeAssumption DEF AccessTypeOK
<1> QED BY <1>1 DEF KeyInv, AllDrawn

LEMMA ExchangeKeeps ==
    ASSUME AccessInv, NEW c \in Conns, Exchange(c)
    PROVE  AccessInv'
<1> USE DEF AccessInv, KeyInv, auth, told
<1>0. drawn \in Nat /\ drawn + 1 \in Keys
  BY ExchangeConn DEF AccessTypeOK
<1>1. /\ UNCHANGED <<bonds, nvs, active, window, pending, mode, stored, asked, stands,
                     revoked, replaced, leftover, last, overtaken>>
      /\ drawn' = drawn + 1 /\ conn' \in [Conns -> Links]
      /\ conn'[c].step = "deriving" /\ conn'[c].key = drawn + 1 /\ conn'[c].phone \in Phones
      /\ \A d \in Conns : d # c => conn'[d] = conn[d]
  BY ExchangeConn DEF Exchange, gone
<1>2. /\ ~ Waiting(drawn + 1) /\ drawn + 1 \notin revoked
      /\ \A s \in Slots : ~ Lives(drawn + 1, s)
  BY <1>0, NewKey
<1>3. AccessTypeOK'
  <2>1. drawn' \in 0 .. MaxKeys /\ revoked' \subseteq 1 .. drawn'
    BY <1>0, <1>1, SizeAssumption DEF AccessTypeOK, Keys
  <2> QED BY <1>1, <2>1 DEF AccessTypeOK
<1>4. StepsOK'
  BY <1>0, <1>1 DEF StepsOK
<1>5. \A k \in Keys, s \in Slots : Lives(k, s)' => Lives(k, s)
  BY <1>1 DEF Lives
<1>6. \A k \in Keys : Waiting(k)' => Waiting(k) \/ k = drawn + 1
  BY <1>1 DEF Waiting
<1>7. OneHome'
  BY <1>5 DEF OneHome
<1>8. WaitingUnused'
  <2>1. \A k \in Keys : Waiting(k)' => k \notin revoked' /\ \A s \in Slots : ~ Lives(k, s)'
    BY <1>1, <1>2, <1>5, <1>6 DEF WaitingUnused
  <2>2. \A d \in Conns : d # c /\ conn[d].step = "deriving" => conn[d].key # drawn + 1
    BY <1>2 DEF Waiting
  <2>3. \A d, e \in Conns :
          (d # e /\ conn'[d].step = "deriving" /\ conn'[e].step = "deriving")
              => conn'[d].key # conn'[e].key
    BY <1>1, <2>2 DEF WaitingUnused
  <2>4. pending # None => pending.key # drawn + 1
    BY <1>2 DEF Waiting
  <2>5. \A d \in Conns :
          conn'[d].step = "deriving" /\ pending' # None => conn'[d].key # pending'.key
    BY <1>1, <2>4 DEF WaitingUnused
  <2> QED BY <2>1, <2>3, <2>5 DEF WaitingUnused
<1>9. NoneErased'
  BY <1>1 DEF NoneErased
<1>10. AllDrawn'
  <2> SUFFICES ASSUME NEW k \in Keys, Waiting(k)' \/ (\E s \in Slots : Lives(k, s)')
               PROVE  k <= drawn + 1
    BY <1>1 DEF AllDrawn
  <2>1. k = drawn + 1 \/ k <= drawn
    BY <1>5, <1>6 DEF AllDrawn
  <2> QED BY <1>0, <2>1 DEF Keys
<1>11. SlotInv' /\ StandsInv'
  BY <1>1 DEF SlotInv, StandsInv
<1>12. ServedInv'
  BY <1>1 DEF ServedInv, KeysIn
<1> QED BY <1>3, <1>4, <1>7, <1>8, <1>9, <1>10, <1>11, <1>12

LEMMA AskKeeps ==
    ASSUME AccessInv, NEW c \in Conns, Ask(c)
    PROVE  AccessInv'
<1> USE DEF AccessInv, KeyInv
<1> DEFINE b == [phone |-> conn[c].phone, key |-> conn[c].key]
<1>1. /\ UNCHANGED <<bonds, nvs, active, mode, drawn, stored, stands, revoked, replaced, leftover,
                     last, overtaken>>
      /\ conn[c].step = "deriving" /\ pending' \in {None, b}
      /\ asked' = [asked EXCEPT ![conn[c].phone] = conn[c].key]
      /\ window' = (window /\ c # Ble)
  BY DEF Ask, gone
<1>2. ConnCalm /\ conn'[c] = Closed /\ \A d \in Conns : d # c => conn'[d] = conn[d]
  BY ClosesConn DEF Ask
<1>3. conn[c].phone \in Phones /\ conn[c].key \in Keys /\ b \in Bond /\ b.key = conn[c].key
  BY <1>1 DEF StepsOK, Bond
<1>4. AccessTypeOK'
  <2>1. window' \in BOOLEAN /\ pending' \in Bond \cup {None}
    BY <1>1, <1>3 DEF AccessTypeOK
  <2>2. asked' \in [Phones -> Keys \cup {None}]
    BY <1>1, <1>3 DEF AccessTypeOK
  <2> QED BY <1>1, <1>2, <2>1, <2>2 DEF AccessTypeOK, ConnCalm
<1> HIDE DEF b
<1>5. StepsOK'
  BY <1>2, MovesSteps
<1>6. \A k \in Keys, s \in Slots : Lives(k, s)' => Lives(k, s)
  BY <1>1, <1>2 DEF Lives, Closed
<1>7. \A k \in Keys : Waiting(k)' => Waiting(k)
  BY <1>1, <1>2, <1>3 DEF Waiting, Closed
<1>8. WaitingUnused'
  <2>1. \A k \in Keys : Waiting(k)' => k \notin revoked' /\ \A s \in Slots : ~ Lives(k, s)'
    BY <1>1, <1>6, <1>7 DEF WaitingUnused
  <2>2. \A d, e \in Conns :
          (d # e /\ conn'[d].step = "deriving" /\ conn'[e].step = "deriving")
              => conn'[d].key # conn'[e].key
    BY <1>2 DEF WaitingUnused, Closed
  <2>3. \A d \in Conns :
          conn'[d].step = "deriving" /\ pending' # None => conn'[d].key # pending'.key
    BY <1>1, <1>2, <1>3 DEF WaitingUnused, Closed
  <2> QED BY <2>1, <2>2, <2>3 DEF WaitingUnused
<1>9. NoneErased' /\ OneHome' /\ AllDrawn'
  BY <1>1, <1>6, <1>7 DEF NoneErased, OneHome, AllDrawn
<1>10. SlotInv' /\ StandsInv'
  BY <1>1 DEF SlotInv, StandsInv
<1>11. ServedInv'
  BY <1>1, <1>2 DEF ServedInv, KeysIn, Closed
<1> QED BY <1>4, <1>5, <1>8, <1>9, <1>10, <1>11

\* The keys of a slot live there, and nowhere else.
LEMMA SlotKeys ==
    ASSUME AccessTypeOK, KeyInv, NEW s \in Slots, NEW k \in KeysAt(s)
    PROVE  /\ k \in Keys /\ k <= drawn /\ ~ Waiting(k) /\ Lives(k, s)
           /\ \A t \in Slots : Lives(k, t) => t = s
<1>1. k \in Keys /\ Lives(k, s)
  BY DEF KeysAt, Lives, AccessTypeOK, Bond
<1> QED BY <1>1 DEF KeyInv, AllDrawn, WaitingUnused, OneHome

(***************************************************************************)
(* A bond is added.                                                        *)
(***************************************************************************)
\* The slot of a phone is its own one, or an empty one if it has none.
LEMMA SlotOfFacts ==
    ASSUME NEW p, NEW s \in SlotOf(p)
    PROVE  /\ s \in Slots
           /\ \/ bonds[s] # None /\ bonds[s].phone = p
              \/ bonds[s] = None /\ \A t \in Slots : bonds[t] # None => bonds[t].phone # p
BY DEF SlotOf, FirstOf, OwnSlots, FreeSlots

Adds(b, s) ==
    /\ bonds' = [bonds EXCEPT ![s] = b]
    /\ nvs' \in {nvs, [nvs EXCEPT ![s] = b]}
    /\ Overwrites(s)
    /\ UNCHANGED <<active, drawn, last>> /\ pending' \in {pending, None}
    /\ ConnCalm /\ ServedCalm

LEMMA AddFacts ==
    ASSUME AccessTypeOK, NEW b \in Bond, NEW s \in Slots, Adds(b, s)
    PROVE  /\ bonds' \in [Slots -> Bond \cup {None}] /\ nvs' \in [Slots -> Bond \cup {None}]
           /\ bonds'[s] = b /\ nvs'[s] \in {nvs[s], b}
           /\ \A t \in Slots : t # s => bonds'[t] = bonds[t] /\ nvs'[t] = nvs[t]
           /\ b # None /\ b.key \in Keys /\ b.phone \in Phones
BY NoneAssumption DEF Adds, AccessTypeOK, Bond

LEMMA AddKeepsKeys ==
    ASSUME AccessTypeOK, KeyInv, NEW b \in Bond, NEW s \in Slots, Adds(b, s),
           Waiting(b.key), ~ Waiting(b.key)'
    PROVE  KeyInv'
<1> USE DEF KeyInv
<1>1. /\ bonds'[s] = b /\ nvs'[s] \in {nvs[s], b}
      /\ \A t \in Slots : t # s => bonds'[t] = bonds[t] /\ nvs'[t] = nvs[t]
      /\ b # None /\ b.key \in Keys
  BY AddFacts
<1>2. /\ UNCHANGED <<active, drawn>> /\ pending' \in {pending, None} /\ ConnCalm
      /\ revoked' = revoked \cup (KeysAt(s) \ KeysIn(nvs'))
      /\ replaced' = IF active # None /\ active.slot = s THEN active.key ELSE replaced
  BY DEF Adds, Overwrites
<1>3. b.key \notin revoked /\ \A t \in Slots : ~ Lives(b.key, t)
  BY <1>1 DEF WaitingUnused
<1>4. \A k \in Keys, t \in Slots : Lives(k, t)' => Lives(k, t) \/ (k = b.key /\ t = s)
  <2> SUFFICES ASSUME NEW k \in Keys, NEW t \in Slots, Lives(k, t)', ~ (k = b.key /\ t = s)
               PROVE  Lives(k, t)
    OBVIOUS
  <2>1. CASE bonds'[t] # None /\ bonds'[t].key = k
    BY <1>1, <2>1 DEF Lives
  <2>2. CASE nvs'[t] # None /\ nvs'[t].key = k
    BY <1>1, <2>2 DEF Lives
  <2>3. CASE active' # None /\ active'.slot = t /\ active'.key = k
    BY <1>2, <2>3 DEF Lives
  <2>4. ASSUME NEW c \in Conns, conn'[c].step \in {"matched", "authed"},
               conn'[c].slot = t, conn'[c].key = k
        PROVE  Lives(k, t)
    BY <1>2, <2>4 DEF ConnCalm, Moves, Lives
  <2> QED BY <2>1, <2>2, <2>3, <2>4 DEF Lives
<1>5. \A k : Waiting(k)' => Waiting(k) /\ k # b.key
  BY <1>2 DEF Waiting, ConnCalm, Moves
<1>11. \A k \in KeysAt(s) : /\ k # b.key /\ ~ Waiting(k)
                           /\ \A t \in Slots : Lives(k, t) => t = s
  BY SlotKeys
<1>6. OneHome'
  BY <1>3, <1>4 DEF OneHome
<1>7. WaitingUnused'
  <2>1. \A k \in Keys : Waiting(k)' => k \notin revoked' /\ \A t \in Slots : ~ Lives(k, t)'
    BY <1>2, <1>4, <1>5, <1>11 DEF WaitingUnused
  <2>2. \A c, d \in Conns :
          (c # d /\ conn'[c].step = "deriving" /\ conn'[d].step = "deriving")
              => conn'[c].key # conn'[d].key
    BY <1>2 DEF WaitingUnused, ConnCalm, Moves
  <2>3. \A c \in Conns :
          conn'[c].step = "deriving" /\ pending' # None => conn'[c].key # pending'.key
    BY <1>2 DEF WaitingUnused, ConnCalm, Moves
  <2> QED BY <2>1, <2>2, <2>3 DEF WaitingUnused
<1>8. NoneErased'
  <2>1. ASSUME NEW t \in Slots, bonds'[t] # None PROVE bonds'[t].key \notin revoked'
    <3>1. CASE t = s
      BY <1>1, <1>2, <1>3, <1>11, <3>1
    <3>2. CASE t # s
      <4>1. bonds[t] # None /\ bonds'[t] = bonds[t]
        BY <1>1, <2>1, <3>2
      <4>2. Lives(bonds[t].key, t)
        BY <4>1 DEF Lives
      <4> QED BY <1>2, <1>11, <3>2, <4>1, <4>2 DEF NoneErased
    <3> QED BY <3>1, <3>2
  <2>2. ASSUME NEW t \in Slots, nvs'[t] # None PROVE nvs'[t].key \notin revoked'
    <3>1. nvs'[t].key \in KeysIn(nvs')
      BY <2>2 DEF KeysIn
    <3>2. nvs'[t].key \notin revoked
      BY <1>1, <1>3, <2>2 DEF NoneErased
    <3> QED BY <1>2, <3>1, <3>2
  <2>3. ASSUME active # None PROVE active.key \notin revoked' \/ active.key = replaced'
    <3>1. CASE active.slot = s
      BY <1>2, <2>3, <3>1
    <3>2. CASE active.slot # s
      <4>1. active.slot \in Slots /\ Lives(active.key, active.slot)
        BY <2>3 DEF AccessTypeOK, Active, Lives
      <4> QED BY <1>2, <1>11, <2>3, <3>2, <4>1 DEF NoneErased
    <3> QED BY <3>1, <3>2
  <2> QED BY <1>2, <2>1, <2>2, <2>3 DEF NoneErased
<1>9. AllDrawn'
  <2>1. b.key <= drawn
    BY <1>1 DEF AllDrawn
  <2> QED BY <1>2, <1>4, <1>5, <2>1 DEF AllDrawn
<1>10. StepsOK'
  BY <1>2, MovesSteps
<1> QED BY <1>6, <1>7, <1>8, <1>9, <1>10

LEMMA AddKeepsSlots ==
    ASSUME AccessTypeOK, SlotInv, NEW b \in Bond, NEW s \in SlotOf(b.phone), Adds(b, s)
    PROVE  SlotInv'
<1>1. /\ s \in Slots
      /\ \/ bonds[s] # None /\ bonds[s].phone = b.phone
         \/ bonds[s] = None /\ \A t \in Slots : bonds[t] # None => bonds[t].phone # b.phone
  BY SlotOfFacts
<1>2. /\ bonds'[s] = b /\ nvs'[s] \in {nvs[s], b} /\ b # None
      /\ \A t \in Slots : t # s => bonds'[t] = bonds[t] /\ nvs'[t] = nvs[t]
  BY <1>1, AddFacts
<1>3. leftover' = leftover
  BY DEF Adds, Overwrites
<1> SUFFICES ASSUME ~ leftover
             PROVE  /\ \A t, u \in Slots : (t # u /\ bonds'[t] # None /\ bonds'[u] # None)
                                             => bonds'[t].phone # bonds'[u].phone
                    /\ \A t \in Slots : nvs'[t] # None =>
                                          bonds'[t] # None /\ nvs'[t].phone = bonds'[t].phone
  BY <1>3 DEF SlotInv
<1>4. /\ \A t, u \in Slots : (t # u /\ bonds[t] # None /\ bonds[u] # None)
                                => bonds[t].phone # bonds[u].phone
      /\ \A t \in Slots : nvs[t] # None => bonds[t] # None /\ nvs[t].phone = bonds[t].phone
  BY DEF SlotInv
<1>5. \A t \in Slots : t # s /\ bonds[t] # None => bonds[t].phone # b.phone
  BY <1>1, <1>4
<1>6. \A t, u \in Slots : (t # u /\ bonds'[t] # None /\ bonds'[u] # None)
                             => bonds'[t].phone # bonds'[u].phone
  BY <1>2, <1>4, <1>5
<1>7. \A t \in Slots : nvs'[t] # None => bonds'[t] # None /\ nvs'[t].phone = bonds'[t].phone
  BY <1>1, <1>2, <1>4
<1> QED BY <1>6, <1>7

LEMMA AddKeepsServed ==
    ASSUME AccessTypeOK, KeyInv, ServedInv, NEW b \in Bond, NEW s \in Slots, Adds(b, s),
           Waiting(b.key)
    PROVE  ServedInv'
<1> SUFFICES ASSUME NEW c \in Conns, last' = c, conn'[c].step = "authed",
                    conn'[c].key \in KeysIn(bonds')
             PROVE  active' # None /\ active'.key = conn'[c].key
  BY DEF ServedInv, KeysIn
<1>1. /\ last = c /\ conn[c].step = "authed" /\ conn'[c].key = conn[c].key
      /\ active' = active
  BY DEF Adds, ServedCalm
<1>2. conn[c].key \in Keys /\ conn[c].slot \in Slots
  BY <1>1 DEF KeyInv, StepsOK
<1>3. conn[c].key # b.key
  BY <1>1, <1>2 DEF KeyInv, WaitingUnused, Lives
<1>4. PICK t \in Slots : bonds'[t] # None /\ bonds'[t].key = conn[c].key
  BY <1>1 DEF KeysIn
<1>5. bonds[t] # None /\ bonds[t].key = conn[c].key
  BY <1>3, <1>4, AddFacts
<1> QED BY <1>1, <1>5 DEF ServedInv, KeysIn

\* Who was told of a bond still has it, and who is told now got it.
LEMMA AddKeepsStands ==
    ASSUME AccessTypeOK, StandsInv, NEW b \in Bond, NEW s \in SlotOf(b.phone), Adds(b, s),
           NEW p \in Phones, NEW k \in Keys, NEW ok \in BOOLEAN, BondAdd(b, s, ok),
           Told(p, k, b, ok), ~ overtaken, b = [phone |-> p, key |-> k]
    PROVE  StandsInv'
<1>1. /\ s \in Slots
      /\ \/ bonds[s] # None /\ bonds[s].phone = b.phone
         \/ bonds[s] = None /\ \A t \in Slots : bonds[t] # None => bonds[t].phone # b.phone
  BY SlotOfFacts
<1>2. /\ bonds'[s] = b /\ b # None
      /\ \A t \in Slots : t # s => bonds'[t] = bonds[t] /\ nvs'[t] = nvs[t]
      /\ ok => nvs'[s] = b
  BY <1>1, AddFacts DEF BondAdd, Save, AccessTypeOK
<1> SUFFICES ASSUME NEW q \in Phones, stands'[q] # None
             PROVE  \E t \in Slots : /\ bonds'[t] = [phone |-> q, key |-> stands'[q]]
                                     /\ nvs'[t] = bonds'[t]
  BY DEF StandsInv
<1>3. b = [phone |-> p, key |-> k] /\ b.phone = p /\ ~ overtaken
  OBVIOUS
<1>4. PICK heard \in {FALSE, ok} :
        stands' = [[stands EXCEPT ![b.phone] = None] EXCEPT ![p] =
                     IF heard THEN k ELSE IF p = b.phone THEN None ELSE @]
  BY DEF Told
<1>5. stands \in [Phones -> Keys \cup {None}]
  BY DEF AccessTypeOK
<1>6. CASE q = p
  <2>1. heard /\ stands'[p] = k
    BY <1>3, <1>4, <1>5, <1>6
  <2>2. ok
    BY <1>4, <2>1
  <2> QED BY <1>1, <1>2, <1>3, <1>6, <2>1, <2>2
<1>7. CASE q # p
  <2>1. stands'[q] = stands[q]
    BY <1>3, <1>4, <1>5, <1>7
  <2>2. PICK t \in Slots : bonds[t] = [phone |-> q, key |-> stands[q]] /\ nvs[t] = bonds[t]
    BY <1>3, <2>1 DEF StandsInv
  <2>3. bonds[t].phone = q /\ bonds[t] \in Bond
    BY <2>1, <2>2 DEF AccessTypeOK, Bond
  <2>4. t # s
    BY <1>1, <1>3, <1>7, <2>3, NoneAssumption
  <2> QED BY <1>2, <2>1, <2>2, <2>4
<1> QED BY <1>6, <1>7

LEMMA AddTypes ==
    ASSUME AccessTypeOK, KeyInv, NEW b \in Bond, NEW s \in Slots, Adds(b, s)
    PROVE  /\ revoked' \subseteq 1 .. drawn /\ replaced' \in Keys \cup {None}
           /\ leftover' \in BOOLEAN
<1>1. /\ revoked' = revoked \cup (KeysAt(s) \ KeysIn(nvs')) /\ leftover' = leftover
      /\ replaced' = IF active # None /\ active.slot = s THEN active.key ELSE replaced
  BY DEF Adds, Overwrites
<1>2. drawn \in Nat /\ revoked \subseteq 1 .. drawn
  BY SizeAssumption DEF AccessTypeOK
<1>3. \A k \in KeysAt(s) : k \in 1 .. drawn
  <2> SUFFICES ASSUME NEW k \in KeysAt(s) PROVE k \in 1 .. drawn
    OBVIOUS
  <2>1. k \in Keys /\ k <= drawn
    BY SlotKeys
  <2> QED BY <1>2, <2>1 DEF Keys
<1>4. replaced' \in Keys \cup {None}
  BY <1>1 DEF AccessTypeOK, Active
<1> QED BY <1>1, <1>2, <1>3, <1>4 DEF AccessTypeOK

LEMMA ToldTypes ==
    ASSUME AccessTypeOK, NEW p \in Phones, NEW k \in Keys \cup {None}, NEW b \in Bond,
           NEW ok \in BOOLEAN, Told(p, k, b, ok)
    PROVE  {stored', stands'} \subseteq [Phones -> Keys \cup {None}]
<1>1. PICK heard \in {FALSE, ok} :
        /\ stored' = [stored EXCEPT ![p] = IF heard THEN k ELSE @]
        /\ stands' = [[stands EXCEPT ![b.phone] = None] EXCEPT ![p] =
                        IF heard THEN k ELSE IF p = b.phone THEN None ELSE @]
  BY DEF Told
<1>2. {stored, stands} \subseteq [Phones -> Keys \cup {None}]
  BY DEF AccessTypeOK
<1>3. stored' \in [Phones -> Keys \cup {None}]
  BY <1>1, <1>2
<1>4. stands' \in [Phones -> Keys \cup {None}]
  BY <1>1, <1>2
<1> QED BY <1>3, <1>4

LEMMA CommitKeeps ==
    ASSUME AccessInv, NEW c \in Conns, Commit(c)
    PROVE  AccessInv'
<1> USE DEF AccessInv
<1>0. [phone |-> conn[c].phone, key |-> conn[c].key] \in Bond /\ conn[c].step = "deriving"
  BY DEF Commit, KeyInv, StepsOK, Bond
<1>b. PICK b \in Bond : b = [phone |-> conn[c].phone, key |-> conn[c].key]
  BY <1>0
<1>1. PICK s \in SlotOf(b.phone), ok \in BOOLEAN :
        /\ BondAdd(b, s, ok) /\ Overwrites(s)
        /\ Told(b.phone, b.key, b, ok)
        /\ IF ok THEN CloseWindow ELSE UNCHANGED <<window, pending, waits>>
  BY <1>b DEF Commit
<1>2. /\ UNCHANGED <<active, mode, drawn, asked, last, overtaken>>
      /\ conn[c].step = "deriving"
  BY DEF Commit
<1>3. ConnCalm /\ conn'[c] = Closed /\ \A d \in Conns : d # c => conn'[d] = conn[d]
  BY ClosesConn DEF Commit, KeyInv
<1>4. /\ b.key = conn[c].key /\ b.phone = conn[c].phone
      /\ b.key \in Keys /\ b.phone \in Phones
  BY <1>b DEF Bond
<1>5. pending' \in {pending, None} /\ window' \in BOOLEAN
  BY <1>1 DEF CloseWindow, AccessTypeOK
<1>6. ServedCalm
  BY <1>2, <1>3 DEF ServedCalm, Closed
<1>7. Adds(b, s) /\ s \in SlotOf(b.phone) /\ s \in Slots
  <2>1. bonds' = [bonds EXCEPT ![s] = b] /\ s \in Slots
    BY <1>1, SlotOfFacts DEF BondAdd
  <2>2. nvs' \in {nvs, [nvs EXCEPT ![s] = b]}
    BY <1>1, <2>1 DEF BondAdd, Save, SaveFails, AccessTypeOK
  <2> QED BY <1>1, <1>2, <1>3, <1>4, <1>5, <1>6, <2>1, <2>2 DEF Adds
<1>8. Waiting(b.key) /\ ~ Waiting(b.key)'
  BY <1>2, <1>3, <1>4, <1>5 DEF Waiting, KeyInv, WaitingUnused, Closed
<1>9. KeyInv' /\ SlotInv' /\ ServedInv'
  BY <1>4, <1>7, <1>8, AddKeepsKeys, AddKeepsSlots, AddKeepsServed
<1>10. AccessTypeOK'
  <2>1. bonds' \in [Slots -> Bond \cup {None}] /\ nvs' \in [Slots -> Bond \cup {None}]
    BY <1>4, <1>7, AddFacts
  <2>2. active # None => bonds'[active.slot] # None
    BY <1>4, <1>7, AddFacts DEF AccessTypeOK, Active
  <2>3. {stored', stands'} \subseteq [Phones -> Keys \cup {None}]
    BY <1>1, <1>4, ToldTypes
  <2>4. pending' \in Bond \cup {None} /\ conn' \in [Conns -> Links]
    BY <1>3, <1>5 DEF AccessTypeOK, ConnCalm
  <2>5. revoked' \subseteq 1 .. drawn /\ replaced' \in Keys \cup {None} /\ leftover' \in BOOLEAN
    BY <1>7, AddTypes DEF KeyInv
  <2> QED BY <1>2, <1>5, <2>1, <2>2, <2>3, <2>4, <2>5 DEF AccessTypeOK
<1>11. StandsInv'
  <2>1. CASE overtaken
    BY <1>2, <2>1 DEF StandsInv
  <2>2. CASE ~ overtaken
    <3>1. b = [phone |-> b.phone, key |-> b.key]
      BY <1>b
    <3> QED BY <1>1, <1>2, <1>4, <1>7, <2>2, <3>1, AddKeepsStands
  <2> QED BY <2>1, <2>2
<1> QED BY <1>9, <1>10, <1>11

LEMMA VerifiedKeeps ==
    ASSUME AccessInv, NEW c \in Conns, Verified(c)
    PROVE  AccessInv'
<1> USE DEF AccessInv
<1> DEFINE p == conn[c].phone
<1>1. PICK s \in SlotOf(pending.phone), ok \in BOOLEAN :
        /\ BondAdd(pending, s, ok) /\ Overwrites(s)
        /\ Told(p, asked[p], pending, ok)
        /\ overtaken' = (overtaken \/ pending # [phone |-> p, key |-> asked[p]])
        /\ asked' = [asked EXCEPT ![p] = None]
        /\ window' = (window /\ ~ ok) /\ pending' = None /\ waits' = None
  BY DEF Verified
<1>2. /\ UNCHANGED <<active, mode, drawn, last>>
      /\ conn[c].step = "verifying" /\ pending # None
  BY DEF Verified
<1>3. ConnCalm /\ conn'[c] = Closed /\ \A d \in Conns : d # c => conn'[d] = conn[d]
  BY ClosesConn DEF Verified, KeyInv
<1>4. p \in Phones /\ pending \in Bond /\ pending.key \in Keys /\ pending.phone \in Phones
      /\ asked[p] \in Keys \cup {None}
  BY <1>2 DEF KeyInv, StepsOK, Bond, AccessTypeOK
<1> HIDE DEF p
<1>6. ServedCalm
  BY <1>2, <1>3 DEF ServedCalm, Closed
<1>7. Adds(pending, s) /\ s \in Slots
  <2>1. bonds' = [bonds EXCEPT ![s] = pending] /\ s \in Slots
    BY <1>1, SlotOfFacts DEF BondAdd
  <2>2. nvs' \in {nvs, [nvs EXCEPT ![s] = pending]}
    BY <1>1, <2>1 DEF BondAdd, Save, SaveFails, AccessTypeOK
  <2> QED BY <1>1, <1>2, <1>3, <1>6, <2>1, <2>2 DEF Adds
<1>8. Waiting(pending.key) /\ ~ \E k : k = pending.key /\ Waiting(k)'
  <2>1. Waiting(pending.key)
    BY <1>2 DEF Waiting
  <2>2. \A d \in Conns : conn'[d].step = "deriving" => conn'[d].key # pending.key
    BY <1>2, <1>3 DEF KeyInv, WaitingUnused, Closed
  <2> QED BY <1>1, <2>1, <2>2 DEF Waiting
<1>9. KeyInv' /\ SlotInv' /\ ServedInv'
  <2>1. PICK b \in Bond : b = pending
    BY <1>4
  <2>2. Adds(b, s) /\ Waiting(b.key) /\ s \in SlotOf(b.phone)
    BY <1>1, <1>7, <1>8, <2>1
  <2>3. ~ Waiting(b.key)'
    BY <1>8, <2>1
  <2> QED BY <1>7, <2>2, <2>3, AddKeepsKeys, AddKeepsSlots, AddKeepsServed
<1>10. AccessTypeOK'
  <2>1. bonds' \in [Slots -> Bond \cup {None}] /\ nvs' \in [Slots -> Bond \cup {None}]
    BY <1>4, <1>7, AddFacts
  <2>2. active # None => bonds'[active.slot] # None
    BY <1>4, <1>7, AddFacts DEF AccessTypeOK, Active
  <2>3. {stored', stands'} \subseteq [Phones -> Keys \cup {None}]
    BY <1>1, <1>4, ToldTypes
  <2>4. conn' \in [Conns -> Links] /\ window' \in BOOLEAN /\ pending' = None
    BY <1>1, <1>3 DEF AccessTypeOK, ConnCalm
  <2>5. asked' \in [Phones -> Keys \cup {None}]
    BY <1>1, <1>4 DEF AccessTypeOK
  <2>6. revoked' \subseteq 1 .. drawn /\ replaced' \in Keys \cup {None} /\ leftover' \in BOOLEAN
    BY <1>4, <1>7, AddTypes DEF KeyInv
  <2> QED BY <1>2, <2>1, <2>2, <2>3, <2>4, <2>5, <2>6 DEF AccessTypeOK
<1>11. StandsInv'
  <2>1. CASE overtaken'
    BY <2>1 DEF StandsInv
  <2>2. CASE ~ overtaken'
    <3>1. ~ overtaken /\ pending = [phone |-> p, key |-> asked[p]]
      BY <1>1, <2>2
    <3>2. asked[p] \in Keys
      BY <1>4, <3>1
    <3> QED BY <1>1, <1>4, <1>7, <3>1, <3>2, AddKeepsStands
  <2> QED BY <2>1, <2>2
<1> QED BY <1>9, <1>10, <1>11

(***************************************************************************)
(* Bonds are taken away.                                                   *)
(***************************************************************************)
\* The keys old leave RAM, and NVS or not.
TakesAway(old) ==
    /\ bonds' \in [Slots -> Bond \cup {None}] /\ nvs' \in [Slots -> Bond \cup {None}]
    /\ \A s \in Slots : /\ bonds'[s] \in {bonds[s], None} /\ nvs'[s] \in {nvs[s], bonds'[s]}
                        /\ bonds'[s] # None => bonds'[s].key \notin old
    /\ active' \in {active, None}
    /\ active' # None => bonds'[active'.slot] # None /\ active'.key \notin old
    /\ active # None /\ active.key \in KeysIn(bonds') => active' = active
    /\ old \subseteq Keys /\ \A k \in old : \E s \in Slots : Lives(k, s)
    /\ Revoke(old)
    /\ UNCHANGED <<window, pending, mode, conn, drawn, stored, asked, last, overtaken>>

LEMMA WithdrawTypes ==
    ASSUME AccessTypeOK, NEW ss, Withdraw(ss)
    PROVE  /\ stands' \in [Phones -> Keys \cup {None}]
           /\ \A p \in Phones : stands'[p] # None =>
                 /\ stands'[p] = stands[p]
                 /\ ~ \E s \in ss : bonds[s] # None /\ bonds[s].phone = p
<1>1. stands \in [Phones -> Keys \cup {None}]
  BY DEF AccessTypeOK
<1> QED BY <1>1 DEF Withdraw

LEMMA TakesAwayKeeps ==
    ASSUME AccessInv, NEW old, TakesAway(old), NEW ss, Withdraw(ss)
    PROVE  AccessTypeOK' /\ KeyInv' /\ SlotInv' /\ ServedInv'
<1> USE DEF AccessInv, TakesAway
<1>1. /\ revoked' = revoked \cup (old \ KeysIn(nvs'))
      /\ replaced' = IF active' = active THEN replaced ELSE None
      /\ leftover' = (leftover \/ \E s \in Slots : bonds'[s] = None /\ nvs'[s] # None)
  BY DEF Revoke
<1>2. \A k \in Keys, s \in Slots : Lives(k, s)' => Lives(k, s)
  BY DEF Lives
<1>3. \A k : Waiting(k)' <=> Waiting(k)
  BY DEF Waiting
<1>4. \A k \in old : k <= drawn /\ ~ Waiting(k)
  BY DEF KeyInv, AllDrawn, WaitingUnused
<1>5. AccessTypeOK'
  <2>1. revoked' \subseteq 1 .. drawn
    <3>1. drawn \in Nat /\ revoked \subseteq 1 .. drawn
      BY SizeAssumption DEF AccessTypeOK
    <3>2. \A k \in old : k \in Nat /\ 1 <= k /\ k <= drawn
      BY <1>4 DEF Keys
    <3>3. \A k \in revoked' : k \in revoked \/ k \in old
      BY <1>1
    <3>4. ASSUME NEW k \in revoked' PROVE k \in 1 .. drawn
      <4>1. CASE k \in revoked
        BY <3>1, <4>1
      <4>2. CASE k \in old
        <5>1. k \in Nat /\ 1 <= k /\ k <= drawn
          BY <3>2, <4>2
        <5> QED BY <3>1, <5>1
      <4> QED BY <3>3, <4>1, <4>2
    <3> QED BY <3>4
  <2>2. /\ leftover' \in BOOLEAN /\ active' \in Active \cup {None}
        /\ replaced' \in Keys \cup {None}
    BY <1>1 DEF AccessTypeOK
  <2>3. stands' \in [Phones -> Keys \cup {None}]
    BY WithdrawTypes
  <2> QED BY <2>1, <2>2, <2>3 DEF AccessTypeOK
<1>6. OneHome' /\ AllDrawn' /\ StepsOK'
  BY <1>2, <1>3 DEF KeyInv, OneHome, AllDrawn, StepsOK
<1>7. WaitingUnused'
  <2>1. \A k \in Keys : Waiting(k)' => k \notin revoked' /\ \A s \in Slots : ~ Lives(k, s)'
    BY <1>1, <1>2, <1>3, <1>4 DEF KeyInv, WaitingUnused
  <2> QED BY <2>1 DEF KeyInv, WaitingUnused
<1>8. NoneErased'
  <2>1. \A s \in Slots : bonds'[s] # None => bonds'[s].key \notin revoked'
    BY <1>1 DEF KeyInv, NoneErased
  <2>2. \A s \in Slots : nvs'[s] # None => nvs'[s].key \notin revoked'
    <3> SUFFICES ASSUME NEW s \in Slots, nvs'[s] # None PROVE nvs'[s].key \notin revoked'
      OBVIOUS
    <3>1. nvs'[s].key \in KeysIn(nvs')
      BY DEF KeysIn
    <3>2. nvs'[s].key \notin revoked
      BY DEF KeyInv, NoneErased
    <3> QED BY <1>1, <3>1, <3>2
  <2>3. active' # None => active'.key \notin revoked' \/ active'.key = replaced'
    BY <1>1 DEF KeyInv, NoneErased
  <2> QED BY <2>1, <2>2, <2>3 DEF NoneErased
<1>9. SlotInv'
  <2> SUFFICES ASSUME ~ leftover'
               PROVE  /\ \A s, t \in Slots : (s # t /\ bonds'[s] # None /\ bonds'[t] # None)
                                               => bonds'[s].phone # bonds'[t].phone
                      /\ \A s \in Slots : nvs'[s] # None =>
                                            bonds'[s] # None /\ nvs'[s].phone = bonds'[s].phone
    BY DEF SlotInv
  <2>1. ~ leftover /\ \A s \in Slots : nvs'[s] # None => bonds'[s] # None
    BY <1>1
  <2> QED BY <2>1 DEF SlotInv
<1>10. ServedInv'
  <2> SUFFICES ASSUME NEW c \in Conns, last = c, conn[c].step = "authed",
                      conn[c].key \in KeysIn(bonds')
               PROVE  active' # None /\ active'.key = conn[c].key
    BY DEF ServedInv, KeysIn
  <2>1. PICK t \in Slots : bonds'[t] # None /\ bonds'[t].key = conn[c].key
    BY DEF KeysIn
  <2>2. conn[c].key \in KeysIn(bonds) /\ conn[c].key \notin old
    BY <2>1 DEF KeysIn
  <2>3. active # None /\ active.key = conn[c].key
    BY <2>2 DEF ServedInv
  <2>4. active.key \in KeysIn(bonds')
    BY <2>1, <2>3 DEF KeysIn
  <2> QED BY <2>3, <2>4
<1> QED BY <1>5, <1>6, <1>7, <1>8, <1>9, <1>10 DEF KeyInv

\* A phone that keeps what it was told has its slot untouched.
LEMMA TakesAwayStands ==
    ASSUME AccessInv, NEW ss \in SUBSET Slots, Withdraw(ss), overtaken' = overtaken,
           \A t \in Slots \ ss : bonds'[t] = bonds[t] /\ nvs'[t] \in {nvs[t], bonds'[t]}
    PROVE  StandsInv'
<1> USE DEF AccessInv
<1> SUFFICES ASSUME NEW p \in Phones, stands'[p] # None, ~ overtaken
             PROVE  \E t \in Slots : /\ bonds'[t] = [phone |-> p, key |-> stands'[p]]
                                     /\ nvs'[t] = bonds'[t]
  BY DEF StandsInv
<1>1. /\ stands'[p] = stands[p]
      /\ ~ \E s \in ss : bonds[s] # None /\ bonds[s].phone = p
  BY WithdrawTypes
<1>2. PICK t \in Slots : bonds[t] = [phone |-> p, key |-> stands[p]] /\ nvs[t] = bonds[t]
  BY <1>1 DEF StandsInv
<1>3. bonds[t] # None /\ bonds[t].phone = p
  <2>1. stands[p] \in Keys
    BY <1>1 DEF AccessTypeOK
  <2> QED BY <1>2, <2>1, NoneAssumption DEF Bond
<1>4. t \notin ss
  BY <1>1, <1>3
<1> QED BY <1>1, <1>2, <1>4

LEMMA RemoveKeeps ==
    ASSUME AccessInv, NEW s \in Slots, Remove(s)
    PROVE  AccessInv'
<1> USE DEF AccessInv
<1>1. /\ bonds[s] # None /\ bonds' = [bonds EXCEPT ![s] = None]
      /\ Save(bonds', s) \/ SaveFails
      /\ active' = Deactivated(s)
      /\ Withdraw({s}) /\ Revoke(KeysAt(s))
      /\ UNCHANGED <<window, pending, mode, conn, drawn, stored, asked, last, overtaken>>
  BY DEF Remove
<1>2. /\ bonds'[s] = None /\ \A t \in Slots : t # s => bonds'[t] = bonds[t]
      /\ bonds' \in [Slots -> Bond \cup {None}]
  BY <1>1 DEF AccessTypeOK
<1>3. /\ nvs' \in [Slots -> Bond \cup {None}] /\ nvs'[s] \in {nvs[s], None}
      /\ \A t \in Slots : t # s => nvs'[t] = nvs[t]
  BY <1>1, <1>2 DEF AccessTypeOK, Save, SaveFails
<1>5. \A k \in KeysAt(s) : k \in Keys /\ Lives(k, s) /\ \A t \in Slots : Lives(k, t) => t = s
  BY SlotKeys
<1>6. active' = (IF active # None /\ active.slot = s THEN None ELSE active)
  BY <1>1 DEF Deactivated
<1>7. active # None => /\ active.slot \in Slots /\ active.key \in Keys
                       /\ Lives(active.key, active.slot) /\ bonds[active.slot] # None
  BY DEF AccessTypeOK, Active, Lives
<1>8. active' # None => bonds'[active'.slot] # None /\ active'.key \notin KeysAt(s)
  BY <1>2, <1>5, <1>6, <1>7
<1>9. active # None /\ active.key \in KeysIn(bonds') => active' = active
  <2> SUFFICES ASSUME active # None, active.key \in KeysIn(bonds') PROVE active.slot # s
    BY <1>6
  <2>1. PICK t \in Slots : bonds'[t] # None /\ bonds'[t].key = active.key
    BY DEF KeysIn
  <2>2. t # s /\ Lives(active.key, t)
    BY <1>2, <2>1 DEF Lives
  <2> QED BY <1>7, <2>2 DEF KeyInv, OneHome
<1>10. \A t \in Slots : bonds'[t] # None => bonds'[t].key \notin KeysAt(s)
  <2> SUFFICES ASSUME NEW t \in Slots, bonds'[t] # None PROVE bonds'[t].key \notin KeysAt(s)
    OBVIOUS
  <2>1. t # s /\ bonds[t] # None /\ bonds'[t] = bonds[t]
    BY <1>2
  <2>2. Lives(bonds[t].key, t)
    BY <2>1 DEF Lives
  <2> QED BY <1>5, <2>1, <2>2
<1>11. TakesAway(KeysAt(s))
  <2>1. \A t \in Slots : bonds'[t] \in {bonds[t], None} /\ nvs'[t] \in {nvs[t], bonds'[t]}
    BY <1>2, <1>3
  <2>2. active' \in {active, None}
    BY <1>6
  <2> QED BY <1>1, <1>2, <1>3, <1>5, <1>8, <1>9, <1>10, <2>1, <2>2 DEF TakesAway
<1>12. AccessTypeOK' /\ KeyInv' /\ SlotInv' /\ ServedInv'
  BY <1>1, <1>11, TakesAwayKeeps
<1>13. StandsInv'
  BY <1>1, <1>2, <1>3, TakesAwayStands
<1> QED BY <1>12, <1>13

LEMMA ClearAllKeeps ==
    ASSUME AccessInv, ClearAll
    PROVE  AccessInv'
<1> USE DEF AccessInv
<1>1. /\ bonds' = [s \in Slots |-> None] /\ nvs' \in {nvs, bonds'} /\ active' = None
      /\ Withdraw(Slots) /\ Revoke(KeysIn(bonds) \cup KeysIn(nvs))
      /\ UNCHANGED <<window, pending, mode, conn, drawn, stored, asked, last, overtaken>>
  BY DEF ClearAll, SaveFails
<1>2. KeysIn(bonds') = {}
  BY <1>1 DEF KeysIn
<1>3. /\ KeysIn(bonds) \cup KeysIn(nvs) \subseteq Keys
      /\ \A k \in KeysIn(bonds) \cup KeysIn(nvs) : \E s \in Slots : Lives(k, s)
  BY DEF AccessTypeOK, Bond, KeysIn, Lives
<1>4. TakesAway(KeysIn(bonds) \cup KeysIn(nvs))
  <2>1. bonds' \in [Slots -> Bond \cup {None}] /\ nvs' \in [Slots -> Bond \cup {None}]
    BY <1>1 DEF AccessTypeOK
  <2>2. \A s \in Slots : bonds'[s] = None /\ nvs'[s] \in {nvs[s], bonds'[s]}
    BY <1>1
  <2> QED BY <1>1, <1>2, <1>3, <2>1, <2>2 DEF TakesAway
<1>5. AccessTypeOK' /\ KeyInv' /\ SlotInv' /\ ServedInv'
  BY <1>1, <1>4, TakesAwayKeeps
<1>6. StandsInv'
  BY <1>1, TakesAwayStands
<1> QED BY <1>5, <1>6

LEMMA RotateKeeps ==
    ASSUME AccessInv, Rotate
    PROVE  AccessInv'
<1> USE DEF AccessInv, KeyInv
<1>1. PICK s : s = IF active # None THEN active.slot ELSE 0
  OBVIOUS
<1>2. s \in Slots
  BY <1>1, SizeAssumption DEF AccessTypeOK, Active, Slots
<1>3. /\ bonds[s] # None /\ drawn < MaxKeys /\ drawn' = drawn + 1
      /\ bonds' = [bonds EXCEPT ![s].key = drawn + 1]
      /\ Save(bonds', s) \/ SaveFails
      /\ active' = IF active # None THEN [active EXCEPT !.key = drawn + 1] ELSE None
      /\ Withdraw({s}) /\ Revoke(KeysAt(s))
      /\ UNCHANGED <<window, pending, mode, conn, stored, asked, last, overtaken>>
  BY <1>1 DEF Rotate
<1>4. drawn \in Nat /\ drawn + 1 \in Keys /\ drawn + 1 \in 0 .. MaxKeys
  BY <1>3, SizeAssumption DEF AccessTypeOK, Keys
<1>5. bonds[s] \in Bond
  BY <1>2, <1>3 DEF AccessTypeOK
<1>6. /\ bonds'[s] = [bonds[s] EXCEPT !.key = drawn + 1]
      /\ \A t \in Slots : t # s => bonds'[t] = bonds[t]
      /\ bonds \in [Slots -> Bond \cup {None}] /\ bonds' \in [Slots -> Bond \cup {None}]
  BY <1>2, <1>3, <1>4, <1>5 DEF AccessTypeOK, Bond
<1>7. /\ bonds'[s] # None /\ bonds'[s].key = drawn + 1 /\ bonds'[s].phone = bonds[s].phone
  BY <1>4, <1>5, <1>6, NoneAssumption DEF Bond
<1>8. /\ nvs' \in [Slots -> Bond \cup {None}] /\ nvs'[s] \in {nvs[s], bonds'[s]}
      /\ \A t \in Slots : t # s => nvs'[t] = nvs[t]
  BY <1>2, <1>3, <1>6 DEF AccessTypeOK, Save, SaveFails
<1>9. /\ active' \in Active \cup {None} /\ (active' # None) = (active # None)
      /\ active # None => active'.slot = s /\ active'.key = drawn + 1
                          /\ active.slot = s /\ active.key \in Keys /\ Lives(active.key, s)
  BY <1>1, <1>3, <1>4, NoneAssumption DEF AccessTypeOK, Active, Lives
<1>10. /\ ~ Waiting(drawn + 1) /\ drawn + 1 \notin revoked
       /\ \A t \in Slots : ~ Lives(drawn + 1, t)
  BY <1>4, NewKey
<1>11. /\ revoked' = revoked \cup (KeysAt(s) \ KeysIn(nvs'))
       /\ replaced' = IF active' = active THEN replaced ELSE None
       /\ leftover' = (leftover \/ \E t \in Slots : bonds'[t] = None /\ nvs'[t] # None)
  BY <1>3 DEF Revoke
<1>12. \A k \in KeysAt(s) : /\ k \in Keys /\ k # drawn + 1 /\ k <= drawn /\ ~ Waiting(k)
                            /\ \A t \in Slots : Lives(k, t) => t = s
  BY <1>2, <1>10, SlotKeys
<1>13. \A k : Waiting(k)' <=> Waiting(k)
  BY <1>3 DEF Waiting
<1>14. \A k \in Keys, t \in Slots : Lives(k, t)' => Lives(k, t) \/ (k = drawn + 1 /\ t = s)
  <2> SUFFICES ASSUME NEW k \in Keys, NEW t \in Slots, Lives(k, t)', ~ (k = drawn + 1 /\ t = s)
               PROVE  Lives(k, t)
    OBVIOUS
  <2>1. CASE bonds'[t] # None /\ bonds'[t].key = k
    BY <1>6, <1>7, <2>1 DEF Lives
  <2>2. CASE nvs'[t] # None /\ nvs'[t].key = k
    BY <1>7, <1>8, <2>2 DEF Lives
  <2>3. CASE active' # None /\ active'.slot = t /\ active'.key = k
    BY <1>9, <2>3
  <2>4. ASSUME NEW c \in Conns, conn'[c].step \in {"matched", "authed"},
               conn'[c].slot = t, conn'[c].key = k
        PROVE  Lives(k, t)
    BY <1>3, <2>4 DEF Lives
  <2> QED BY <2>1, <2>2, <2>3, <2>4 DEF Lives
<1>15. AccessTypeOK'
  <2>1. revoked' \subseteq 1 .. drawn'
    <3>1. \A k \in KeysAt(s) : k \in 1 .. drawn + 1
      BY <1>4, <1>12 DEF Keys
    <3> QED BY <1>3, <1>4, <1>11, <3>1 DEF AccessTypeOK
  <2>2. /\ leftover' \in BOOLEAN /\ (active' # None => bonds'[active'.slot] # None)
        /\ replaced' \in Keys \cup {None}
    BY <1>7, <1>9, <1>11 DEF AccessTypeOK
  <2>3. stands' \in [Phones -> Keys \cup {None}]
    BY <1>3, WithdrawTypes
  <2> QED BY <1>3, <1>4, <1>6, <1>8, <1>9, <2>1, <2>2, <2>3 DEF AccessTypeOK
<1>16. OneHome'
  BY <1>10, <1>14 DEF OneHome
<1>17. WaitingUnused'
  <2>1. \A k \in Keys : Waiting(k)' => k \notin revoked' /\ \A t \in Slots : ~ Lives(k, t)'
    BY <1>10, <1>11, <1>12, <1>13, <1>14 DEF WaitingUnused
  <2> QED BY <1>3, <2>1 DEF WaitingUnused
<1>18. NoneErased'
  <2>1. \A t \in Slots : bonds'[t] # None => bonds'[t].key \notin revoked'
    <3> SUFFICES ASSUME NEW t \in Slots, bonds'[t] # None PROVE bonds'[t].key \notin revoked'
      OBVIOUS
    <3>1. CASE t = s
      BY <1>7, <1>10, <1>11, <1>12, <3>1
    <3>2. CASE t # s
      <4>1. bonds[t] # None /\ bonds'[t] = bonds[t] /\ bonds[t].key \notin revoked
        BY <1>6, <3>2 DEF NoneErased
      <4>2. Lives(bonds[t].key, t)
        BY <4>1 DEF Lives
      <4> QED BY <1>11, <1>12, <3>2, <4>1, <4>2
    <3> QED BY <3>1, <3>2
  <2>2. \A t \in Slots : nvs'[t] # None => nvs'[t].key \notin revoked'
    <3> SUFFICES ASSUME NEW t \in Slots, nvs'[t] # None PROVE nvs'[t].key \notin revoked'
      OBVIOUS
    <3>1. nvs'[t].key \in KeysIn(nvs')
      BY DEF KeysIn
    <3>2. nvs'[t].key \notin revoked
      BY <1>7, <1>8, <1>10 DEF NoneErased
    <3> QED BY <1>11, <3>1, <3>2
  <2>3. active' # None => active'.key \notin revoked'
    BY <1>9, <1>10, <1>11, <1>12
  <2> QED BY <2>1, <2>2, <2>3 DEF NoneErased
<1>19. AllDrawn'
  <2> SUFFICES ASSUME NEW k \in Keys, Waiting(k)' \/ (\E t \in Slots : Lives(k, t)')
               PROVE  k <= drawn + 1
    BY <1>3 DEF AllDrawn
  <2>1. k = drawn + 1 \/ k <= drawn
    BY <1>13, <1>14 DEF AllDrawn
  <2> QED BY <1>4, <2>1 DEF Keys
<1>20. StepsOK'
  BY <1>3 DEF StepsOK
<1>21. SlotInv'
  <2> SUFFICES ASSUME ~ leftover'
               PROVE  /\ \A t, u \in Slots : (t # u /\ bonds'[t] # None /\ bonds'[u] # None)
                                               => bonds'[t].phone # bonds'[u].phone
                      /\ \A t \in Slots : nvs'[t] # None =>
                                            bonds'[t] # None /\ nvs'[t].phone = bonds'[t].phone
    BY DEF SlotInv
  <2>1. ~ leftover
    BY <1>11
  <2>2. \A t \in Slots : bonds'[t] # None => bonds[t] # None /\ bonds'[t].phone = bonds[t].phone
    BY <1>3, <1>6, <1>7
  <2>3. \A t, u \in Slots : (t # u /\ bonds'[t] # None /\ bonds'[u] # None)
                               => bonds'[t].phone # bonds'[u].phone
    BY <2>1, <2>2 DEF SlotInv
  <2>4. \A t \in Slots : nvs'[t] # None => bonds'[t] # None /\ nvs'[t].phone = bonds'[t].phone
    <3> SUFFICES ASSUME NEW t \in Slots, nvs'[t] # None
                 PROVE  bonds'[t] # None /\ nvs'[t].phone = bonds'[t].phone
      OBVIOUS
    <3>1. CASE nvs'[t] = bonds'[t]
      BY <3>1
    <3>2. CASE nvs'[t] = nvs[t]
      <4>1. bonds[t] # None /\ nvs[t].phone = bonds[t].phone
        BY <2>1, <3>2 DEF SlotInv
      <4> QED BY <1>6, <1>7, <3>2, <4>1
    <3> QED BY <1>8, <3>1, <3>2
  <2> QED BY <2>3, <2>4
<1>22. ServedInv'
  <2> SUFFICES ASSUME NEW c \in Conns, last = c, conn[c].step = "authed",
                      conn[c].key \in KeysIn(bonds')
               PROVE  FALSE
    BY <1>3 DEF ServedInv, KeysIn
  <2>1. PICK t \in Slots : bonds'[t] # None /\ bonds'[t].key = conn[c].key
    BY DEF KeysIn
  <2>2. conn[c].slot \in Slots /\ conn[c].key \in Keys /\ Lives(conn[c].key, conn[c].slot)
    BY DEF StepsOK, Lives
  <2>3. conn[c].key # drawn + 1
    BY <1>10, <2>2
  <2>4. t # s /\ bonds[t] # None /\ bonds[t].key = conn[c].key
    BY <1>6, <1>7, <2>1, <2>3
  <2>5. conn[c].key \in KeysIn(bonds)
    BY <2>4 DEF KeysIn
  <2>6. active # None /\ active.key = conn[c].key
    BY <2>5 DEF ServedInv
  <2>7. Lives(conn[c].key, t) /\ Lives(conn[c].key, s)
    BY <1>9, <2>4, <2>6 DEF Lives
  <2> QED BY <1>2, <2>2, <2>4, <2>7 DEF OneHome
<1>23. StandsInv'
  BY <1>2, <1>3, <1>6, <1>8, TakesAwayStands
<1> QED BY <1>15, <1>16, <1>17, <1>18, <1>19, <1>20, <1>21, <1>22, <1>23

LEMMA PowerCycleKeeps ==
    ASSUME AccessInv, PowerCycle
    PROVE  AccessInv'
<1> USE DEF AccessInv, KeyInv
<1>1. /\ bonds' = nvs /\ active' = None /\ pending' = None /\ window' \in BOOLEAN
      /\ conn' = [c \in Conns |-> Closed]
      /\ replaced' = None
      /\ UNCHANGED <<nvs, mode, drawn, stored, asked, stands, revoked, leftover, overtaken>>
  BY DEF PowerCycle, Booted, told, gone
<1>2. \A c \in Conns : conn'[c].step = "closed"
  BY <1>1 DEF Closed
<1>3. conn' \in [Conns -> Links]
  BY <1>1, LinkTypes
<1>4. AccessTypeOK'
  BY <1>1, <1>3 DEF AccessTypeOK
<1>5. \A k \in Keys, s \in Slots : Lives(k, s)' => Lives(k, s)
  BY <1>1, <1>2 DEF Lives
<1>6. \A k : ~ Waiting(k)'
  BY <1>1, <1>2 DEF Waiting
<1>7. OneHome' /\ AllDrawn' /\ StepsOK'
  BY <1>1, <1>2, <1>5, <1>6 DEF OneHome, AllDrawn, StepsOK
<1>8. WaitingUnused' /\ NoneErased'
  BY <1>1, <1>2, <1>6 DEF WaitingUnused, NoneErased
<1>9. SlotInv'
  BY <1>1 DEF SlotInv
<1>10. StandsInv'
  BY <1>1 DEF StandsInv
<1>11. ServedInv'
  BY <1>2 DEF ServedInv
<1> QED BY <1>4, <1>7, <1>8, <1>9, <1>10, <1>11

(***************************************************************************)
(* The theorems.                                                           *)
(***************************************************************************)
LEMMA AccessInit == Init => AccessInv
<1> SUFFICES ASSUME Init PROVE AccessInv
  OBVIOUS
<1>1. /\ bonds = [s \in Slots |-> None] /\ nvs = bonds /\ active = None /\ pending = None
      /\ window = TRUE /\ mode = "unset" /\ conn = [c \in Conns |-> Closed] /\ drawn = 0
      /\ stored = [p \in Phones |-> None] /\ asked = stored /\ stands = stored
      /\ revoked = {} /\ replaced = None /\ leftover = FALSE
  BY DEF Init
<1>2. conn \in [Conns -> Links] /\ \A c \in Conns : conn[c].step = "closed"
  BY <1>1, LinkTypes DEF Closed
<1>3. AccessTypeOK
  <2>1. bonds \in [Slots -> Bond \cup {None}] /\ stored \in [Phones -> Keys \cup {None}]
    BY <1>1
  <2>2. drawn \in 0 .. MaxKeys /\ revoked \subseteq 1 .. drawn
    BY <1>1, SizeAssumption
  <2> QED BY <1>1, <1>2, <2>1, <2>2 DEF AccessTypeOK, Modes
<1>4. \A k : ~ Waiting(k) /\ \A s \in Slots : ~ Lives(k, s)
  BY <1>1, <1>2 DEF Waiting, Lives
<1>5. KeyInv
  BY <1>1, <1>2, <1>4 DEF KeyInv, OneHome, WaitingUnused, NoneErased, AllDrawn, StepsOK
<1>6. SlotInv /\ StandsInv /\ ServedInv
  BY <1>1, <1>2 DEF SlotInv, StandsInv, ServedInv
<1> QED BY <1>3, <1>5, <1>6 DEF AccessInv

LEMMA AccessNext == AccessInv /\ [Next]_vars => AccessInv'
<1> SUFFICES ASSUME AccessInv, [Next]_vars PROVE AccessInv'
  OBVIOUS
<1>0. AccessTypeOK /\ StepsOK
  BY DEF AccessInv, KeyInv
<1>1. ASSUME Calm, ServedCalm PROVE AccessInv'
  <2>1. bonds' = bonds
    BY <1>1 DEF Calm
  <2> QED BY <1>1, <2>1, CalmKeeps, ServedKeeps DEF AccessInv
<1>2. ASSUME NEW c \in Clients, NEW p \in Phones, Accept(c, p) PROVE AccessInv'
  BY <1>0, <1>1, <1>2, BleConn, CalmLinks DEF Accept
<1>3. ASSUME NEW p \in Phones, ConnectBle(p) PROVE AccessInv'
  BY <1>0, <1>1, <1>3, BleConn, CalmLinks DEF ConnectBle
<1>4. CASE Subscribe
  <2>1. conn[Ble].phone \in Phones /\ Begin(Ble, conn[Ble].phone)
    BY <1>0, <1>4, BleConn DEF Subscribe, StepsOK
  <2> QED BY <1>0, <1>1, <2>1, BleConn, CalmLinks
<1>5. ASSUME NEW c \in Conns, Drop(c) \/ DeriveFails(c) \/ Wrong(c) \/ Late(c) PROVE AccessInv'
  BY <1>0, <1>1, <1>5, CalmCloses
<1>6. ASSUME NEW c \in Conns, Verify(c) \/ Unlock(c) \/ (\E s \in Slots : Match(c, s))
      PROVE  AccessInv'
  BY <1>0, <1>1, <1>6, CalmHandlers
<1>7. ASSUME NEW c \in Conns, Activate(c) \/ Exchange(c) \/ Ask(c) \/ Commit(c) \/ Verified(c)
      PROVE  AccessInv'
  BY <1>7, ActivateKeeps, ExchangeKeeps, AskKeeps, CommitKeeps, VerifiedKeeps
<1>8. CASE \/ OpenWindow \/ WindowEnds \/ (\E m \in Modes : SetMode(m))
           \/ (\E p \in Phones : Forget(p)) \/ UNCHANGED vars
  BY <1>0, <1>1, <1>8, CalmRest
<1>9. CASE Command
  BY <1>9, RemoveKeeps, ClearAllKeeps, RotateKeeps DEF Command
<1>10. CASE PowerCycle
  BY <1>10, PowerCycleKeeps
<1> QED BY <1>2, <1>3, <1>4, <1>5, <1>6, <1>7, <1>8, <1>9, <1>10
        DEF Next, Handshake, Pairing, Passphrase

\* The types, and the home of every key: what the bonds, NVS, the active key and
\* the sessions say of a key agrees, for every interleaving of the handlers.
THEOREM AccessCorrect == Spec => []AccessInv
<1> QED BY AccessInit, AccessNext, PTL DEF Spec

\* What a phone was told of its bond stays true, through power cycles, failing
\* writes and the exchanges of others (sk_auth_bond_add).
THEOREM BondStays == Spec => []BondDurable
<1>1. AccessInv => BondDurable
  <2> SUFFICES ASSUME AccessInv PROVE BondDurable
    OBVIOUS
  <2>1. OneBondEach
    BY DEF OneBondEach, AccessInv, SlotInv
  <2> QED BY <2>1 DEF BondDurable, AccessInv, StandsInv
<1> QED BY <1>1, AccessCorrect, PTL

\* The latest session to authenticate is served while its bond is there
\* (sk_auth__activate_slot, sk_auth_bond_remove).
THEOREM LatestServed == Spec => []LastSessionServed
<1>1. AccessInv => LastSessionServed
  BY DEF LastSessionServed, AccessInv, ServedInv, Token
<1> QED BY <1>1, AccessCorrect, PTL

\* No command passes with a key that was removed, cleared, rotated or overwritten
\* (sk_auth_bond_remove, sk_auth_clear_all, sk_auth_rotate_token,
\* sk_auth_bond_add), but for the key that was active when its own phone paired
\* anew.
THEOREM RevokedStaysRefused == Spec => []RevokedRefused
<1>1. AccessInv => RevokedRefused
  <2> SUFFICES ASSUME AccessInv, Token \in revoked PROVE active # None /\ Token = replaced
    BY DEF RevokedRefused
  <2>1. 0 \in Slots
    BY SizeAssumption DEF Slots
  <2>2. None \notin revoked
    <3>1. revoked \subseteq Keys
      BY SizeAssumption DEF AccessInv, AccessTypeOK, Keys
    <3> QED BY <3>1, NoneAssumption
  <2> QED BY <2>1, <2>2 DEF AccessInv, KeyInv, NoneErased, Token
<1> QED BY <1>1, AccessCorrect, PTL
=============================================================================
