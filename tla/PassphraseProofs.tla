---------------------------- MODULE PassphraseProofs ----------------------------
(***************************************************************************)
(* Proofs about the passphrase, for every number of tasks, words and       *)
(* salts, every lockout limit and any number of power cycles.              *)
(*                                                                         *)
(* The argument: only the task that holds the mutex changes the two        *)
(* copies, which agree except between the salt and the counter of a set or *)
(* change; the word behind each copy is among the chosen ones; and the     *)
(* counter is ahead of the answers by the one that is about to be given.   *)
(***************************************************************************)
EXTENDS PassphraseRefinement, TLAPS

States == [salt : Salts \cup {None}, hash : Hashes \cup {None}, mode : Modes, fails : 0 .. Max8]
Labels == UnderWay \cup {"idle", "publish", "wiping", "later", "restart"}

TypeOK ==
    /\ nvs \in States /\ ram \in States
    /\ holder \in Tasks \cup {None}
    /\ pc \in [Actors -> Labels] /\ job \in [Actors -> Jobs \cup {Idle}]
    /\ told \in Nat /\ lost \in BOOLEAN

\* A command under way has the mutex; the publisher of a lockout keeps it.
Mutex ==
    \A a \in Actors : /\ pc[a] \in UnderWay => holder = a
                      /\ holder = a => pc[a] \in UnderWay \cup {"publish", "wiping"}

\* A set or change has a word, and where it got to in NVS.
Stages ==
    \A a \in Actors :
        /\ pc[a] \in {"salt", "hash", "count"} => job[a].new \in Words
        /\ pc[a] \in {"hash", "count"} => nvs.salt # None
        /\ pc[a] = "count" => nvs.hash # None /\ nvs.hash[1] = job[a].new

WordsChosen ==
    /\ nvs.hash # None => nvs.hash[1] \in chosen
    /\ ram.hash # None => ram.hash[1] \in chosen

Counted ==
    ~ lost => /\ ram.fails = nvs.fails /\ told <= ram.fails /\ told < Lockout
              /\ \A a \in Actors : pc[a] = "wrong" => told < ram.fails /\ ram.fails < Lockout

Halfway == \E a \in Actors : pc[a] \in {"hash", "count"}

CopiesAgree == ~ lost => IF Halfway THEN ram.mode = nvs.mode ELSE ram = Load(nvs)

PassInv == TypeOK /\ Mutex /\ Stages /\ WordsChosen /\ Counted /\ CopiesAgree

(***************************************************************************)
(* Data.                                                                   *)
(***************************************************************************)
LEMMA Sizes == Lockout \in Nat /\ 1 <= Lockout /\ Lockout <= 254
BY LockoutAssumption

LEMMA EmptyFacts ==
    /\ Empty \in States /\ Empty.hash = None /\ Empty.fails = 0 /\ Empty.mode = 0
    /\ Load(Empty) = Empty
<1>1. /\ Empty \in States /\ Empty.hash = None /\ Empty.salt = None
      /\ Empty.fails = 0 /\ Empty.mode = 0
  BY DEF Empty, States, Modes, Max8
<1>2. Load(Empty) = Empty
  BY DEF Load, Empty
<1> QED BY <1>1, <1>2

LEMMA LoadFacts ==
    ASSUME NEW n \in States
    PROVE  /\ Load(n) \in States /\ Load(n).mode = n.mode /\ Load(n).fails = n.fails
           /\ Load(n).hash \in {n.hash, None}
           /\ Load(n).hash # None => Load(n) = n
BY DEF Load, States

\* The fields that a step may write, and what power would load then.
LEMMA FailsFacts ==
    ASSUME NEW n \in States, NEW f \in 0 .. Max8
    PROVE  LET q == [n EXCEPT !.fails = f] IN
           /\ q \in States /\ q.fails = f /\ q.hash = n.hash /\ q.salt = n.salt /\ q.mode = n.mode
           /\ Load(q) = [Load(n) EXCEPT !.fails = f]
<1>1. Load([n EXCEPT !.fails = f]) = [Load(n) EXCEPT !.fails = f]
  BY DEF Load, States
<1> QED BY <1>1 DEF States

LEMMA ModeFacts ==
    ASSUME NEW n \in States, NEW m \in Modes
    PROVE  LET q == [n EXCEPT !.mode = m] IN
           /\ q \in States /\ q.mode = m /\ q.hash = n.hash /\ q.salt = n.salt /\ q.fails = n.fails
           /\ Load(q) = [Load(n) EXCEPT !.mode = m]
<1>1. Load([n EXCEPT !.mode = m]) = [Load(n) EXCEPT !.mode = m]
  BY DEF Load, States
<1> QED BY <1>1 DEF States

LEMMA SaltFresh ==
    ASSUME NEW s \in FreshSalts
    PROVE  s \in Salts /\ s # None /\ s # SaltOf(nvs.hash)
BY WordsAssumption DEF FreshSalts

LEMMA NoHolder == None \notin Actors
BY ActorsAssumption DEF Actors

(***************************************************************************)
(* Control.                                                                *)
(***************************************************************************)
LEMMA Goes ==
    ASSUME TypeOK, NEW a \in Actors, NEW l \in Labels, Goto(a, l)
    PROVE  /\ pc' \in [Actors -> Labels] /\ pc'[a] = l
           /\ \A b \in Actors : b # a => pc'[b] = pc[b]
BY DEF TypeOK, Goto

\* The task that works holds the mutex, and no other works.
LEMMA WorksAlone ==
    ASSUME Mutex, NEW t \in Actors, pc[t] \in UnderWay
    PROVE  holder = t /\ \A b \in Actors : b # t => pc[b] \notin UnderWay
BY DEF Mutex

\* A step of the working task that keeps the mutex.
LEMMA KeepsMutex ==
    ASSUME TypeOK, Mutex, NEW t \in Actors, pc[t] \in UnderWay,
           NEW l \in UnderWay \cup {"publish"}, Goto(t, l), holder' = holder
    PROVE  Mutex'
<1>1. l \in Labels
  BY DEF Labels
<1> QED BY <1>1, Goes, WorksAlone DEF Mutex

\* Nobody works while the mutex is free.
LEMMA FreeIsIdle ==
    ASSUME Mutex, holder = None
    PROVE  \A b \in Actors : pc[b] \notin UnderWay
BY NoHolder DEF Mutex

LEMMA WorkStep ==
    ASSUME PassInv, NEW t \in Actors, pc[t] \in UnderWay,
           NEW l \in UnderWay \cup {"publish"}, Goto(t, l), holder' = holder
    PROVE  /\ Mutex' /\ pc' \in [Actors -> Labels] /\ pc'[t] = l
           /\ \A b \in Actors : b # t => pc'[b] \notin UnderWay
           /\ Halfway <=> pc[t] \in {"hash", "count"}
           /\ Halfway' <=> l \in {"hash", "count"}
<1> USE DEF PassInv
<1>1. l \in Labels
  BY DEF Labels
<1>2. /\ pc' \in [Actors -> Labels] /\ pc'[t] = l
      /\ \A b \in Actors : b # t => pc'[b] \notin UnderWay /\ pc[b] \notin UnderWay
  BY <1>1, Goes, WorksAlone
<1>3. (Halfway <=> pc[t] \in {"hash", "count"}) /\ (Halfway' <=> l \in {"hash", "count"})
  BY <1>2 DEF Halfway, UnderWay
<1> QED BY <1>2, <1>3, KeepsMutex

(***************************************************************************)
(* The steps of a command.                                                 *)
(***************************************************************************)
LEMMA EnterKeeps ==
    ASSUME PassInv, NEW t \in Tasks, NEW j \in Jobs, Enter(t, j)
    PROVE  PassInv'
<1> USE DEF PassInv
<1>1. t \in Actors /\ t # None
  BY ActorsAssumption DEF Actors
<1>2. PICK l \in {"mode", "salt", "refused", "verify"} :
        /\ Goto(t, l)
        /\ l = "salt" => j.op = "set"
  BY DEF Enter
<1>3. /\ UNCHANGED <<nvs, ram, chosen, told, lost>> /\ pc[t] = "idle"
      /\ holder = None /\ holder' = t /\ job' = [job EXCEPT ![t] = j]
  BY DEF Enter, CanLock
<1>4. l \in Labels /\ l \in UnderWay
  BY DEF Labels, UnderWay
<1>5. /\ pc' \in [Actors -> Labels] /\ pc'[t] = l
      /\ \A b \in Actors : b # t => pc'[b] = pc[b]
  BY <1>1, <1>2, <1>4, Goes
<1>6. \A b \in Actors : pc[b] \notin UnderWay
  BY <1>3, FreeIsIdle
<1>7. TypeOK'
  BY <1>1, <1>3, <1>5 DEF TypeOK
<1>8. Mutex'
  BY <1>3, <1>4, <1>5, <1>6 DEF Mutex
<1>9. l = "salt" => job'[t].new \in Words
  <2>1. j.op = "set" => j.new \in Words
    BY DEF Jobs
  <2> QED BY <1>1, <1>2, <1>3, <2>1 DEF TypeOK
<1>10. Stages'
  BY <1>2, <1>5, <1>6, <1>9 DEF Stages, UnderWay
<1>11. WordsChosen'
  BY <1>3 DEF WordsChosen
<1>12. Counted'
  BY <1>2, <1>3, <1>5, <1>6 DEF Counted, UnderWay
<1>13. ~ Halfway /\ ~ Halfway'
  BY <1>2, <1>5, <1>6 DEF Halfway, UnderWay
<1>14. CopiesAgree'
  BY <1>3, <1>13 DEF CopiesAgree
<1> QED BY <1>7, <1>8, <1>10, <1>11, <1>12, <1>14

LEMMA MatchKeeps ==
    ASSUME PassInv, NEW t \in Actors, Match(t)
    PROVE  PassInv'
<1> USE DEF PassInv
<1>1. /\ pc[t] = "verify" /\ Goto(t, AfterMatch(job[t].op)) /\ told' = 0
      /\ ram' = [ram EXCEPT !.fails = 0]
      /\ UNCHANGED <<holder, job, chosen>>
      /\ \/ nvs' = [nvs EXCEPT !.fails = 0] /\ lost' = lost
         \/ nvs' = nvs /\ lost' = TRUE
         \/ nvs' = nvs /\ lost' = lost /\ ram.fails = 0
  BY DEF Match, Write, WriteLost
<1>2. pc[t] \in UnderWay
  BY <1>1 DEF UnderWay
<1>3. PICK l \in {"salt", "wipe", "accepted"} : Goto(t, l) /\ (l = "salt" => job[t].op = "change")
  BY <1>1 DEF AfterMatch
<1>4. l \in UnderWay /\ l \notin {"hash", "count", "wrong"}
  BY DEF UnderWay
<1>5. /\ Mutex' /\ pc' \in [Actors -> Labels] /\ pc'[t] = l
      /\ \A b \in Actors : b # t => pc'[b] \notin UnderWay
      /\ ~ Halfway /\ ~ Halfway'
  BY <1>1, <1>2, <1>3, <1>4, WorkStep
<1>6. nvs \in States /\ ram \in States /\ 0 \in 0 .. Max8 /\ 0 \in Modes
  BY DEF TypeOK, Max8, Modes
<1>7. /\ ram' \in States /\ nvs' \in States /\ ram'.fails = 0
      /\ ram'.hash = ram.hash /\ nvs'.hash = nvs.hash /\ nvs'.salt = nvs.salt
  <2>1. ram' \in States /\ ram'.fails = 0 /\ ram'.hash = ram.hash
    BY <1>1, <1>6, FailsFacts
  <2>2. nvs' \in States /\ nvs'.hash = nvs.hash /\ nvs'.salt = nvs.salt
    <3>1. CASE nvs' = nvs
      BY <1>6, <3>1
    <3>2. CASE nvs' = [nvs EXCEPT !.fails = 0]
      BY <1>6, <3>2, FailsFacts
    <3> QED BY <1>1, <3>1, <3>2
  <2> QED BY <2>1, <2>2
<1>8. TypeOK'
  BY <1>1, <1>5, <1>7 DEF TypeOK
<1>9. l = "salt" => job[t].new \in Words
  <2>1. job[t] \in Jobs \cup {Idle}
    BY DEF TypeOK
  <2>2. job[t].op = "change" => job[t].new \in Words
    BY <2>1 DEF Jobs, Idle
  <2> QED BY <1>3, <2>2
<1>10. Stages'
  BY <1>1, <1>4, <1>5, <1>9 DEF Stages, UnderWay
<1>11. WordsChosen'
  BY <1>1, <1>7 DEF WordsChosen
<1>12. Counted'
  <2>1. ~ lost' => nvs'.fails = 0
    BY <1>1, <1>6 DEF Counted, States
  <2> QED BY <1>1, <1>4, <1>5, <1>7, <2>1, Sizes DEF Counted, UnderWay
<1>13. CopiesAgree'
  <2> SUFFICES ASSUME ~ lost' PROVE ram' = Load(nvs')
    BY <1>5 DEF CopiesAgree
  <2>1. ram = Load(nvs) /\ ram.fails = nvs.fails
    BY <1>1, <1>5 DEF CopiesAgree, Counted
  <2>2. CASE nvs' = [nvs EXCEPT !.fails = 0]
    BY <1>1, <1>6, <2>1, <2>2, FailsFacts
  <2>3. CASE nvs' = nvs /\ ram.fails = 0
    <3>1. [ram EXCEPT !.fails = 0] = ram
      BY <1>6, <2>3 DEF States
    <3> QED BY <1>1, <2>1, <2>3, <3>1
  <2> QED BY <1>1, <2>2, <2>3
<1> QED BY <1>5, <1>8, <1>10, <1>11, <1>12, <1>13

LEMMA MismatchKeeps ==
    ASSUME PassInv, NEW t \in Actors, Mismatch(t)
    PROVE  PassInv'
<1> USE DEF PassInv
<1>1. PICK f : f = IF ram.fails < Max8 THEN ram.fails + 1 ELSE ram.fails
  OBVIOUS
<1>2. /\ pc[t] = "verify" /\ Goto(t, IF f >= Lockout THEN "publish" ELSE "wrong")
      /\ ram' = [ram EXCEPT !.fails = f]
      /\ \/ nvs' = [nvs EXCEPT !.fails = f] /\ lost' = lost
         \/ nvs' = nvs /\ lost' = TRUE
      /\ UNCHANGED <<holder, job, chosen, told>>
  BY <1>1 DEF Mismatch, Write, WriteLost
<1>3. nvs \in States /\ ram \in States /\ 0 \in Modes /\ ram.fails \in 0 .. Max8
  BY DEF TypeOK, Modes, States
<1>4. /\ f \in 0 .. Max8 /\ ram.fails <= f
      /\ f < Lockout => ram.fails < f
  BY <1>1, <1>3, Sizes DEF Max8
<1>5. PICK l \in {"publish", "wrong"} : Goto(t, l) /\ (l = "wrong" => f < Lockout)
  BY <1>2, <1>4, Sizes DEF Max8
<1>6. pc[t] \in UnderWay /\ l \in UnderWay \cup {"publish"} /\ l \notin {"salt", "hash", "count"}
  BY <1>2 DEF UnderWay
<1>7. /\ Mutex' /\ pc' \in [Actors -> Labels] /\ pc'[t] = l
      /\ \A b \in Actors : b # t => pc'[b] \notin UnderWay
      /\ ~ Halfway /\ ~ Halfway'
  BY <1>2, <1>5, <1>6, WorkStep
<1>8. /\ ram' \in States /\ nvs' \in States /\ ram'.fails = f
      /\ ram'.hash = ram.hash /\ nvs'.hash = nvs.hash /\ nvs'.salt = nvs.salt
  <2>1. ram' \in States /\ ram'.fails = f /\ ram'.hash = ram.hash
    BY <1>2, <1>3, <1>4, FailsFacts
  <2>2. nvs' \in States /\ nvs'.hash = nvs.hash /\ nvs'.salt = nvs.salt
    <3>1. CASE nvs' = nvs
      BY <1>3, <3>1
    <3>2. CASE nvs' = [nvs EXCEPT !.fails = f]
      BY <1>3, <1>4, <3>2, FailsFacts
    <3> QED BY <1>2, <3>1, <3>2
  <2> QED BY <2>1, <2>2
<1>9. TypeOK'
  BY <1>2, <1>7, <1>8 DEF TypeOK
<1>10. Stages'
  BY <1>6, <1>7 DEF Stages, UnderWay
<1>11. WordsChosen'
  BY <1>2, <1>8 DEF WordsChosen
<1>12. Counted'
  <2> SUFFICES ASSUME ~ lost'
               PROVE  /\ ram'.fails = nvs'.fails /\ told <= ram'.fails /\ told < Lockout
                      /\ \A b \in Actors : pc'[b] = "wrong" =>
                            told < ram'.fails /\ ram'.fails < Lockout
    BY <1>2 DEF Counted
  <2>1. nvs'.fails = f
    BY <1>2, <1>3 DEF States
  <2>2. told <= ram.fails /\ told < Lockout /\ told \in Nat /\ f \in Nat /\ ram.fails \in Nat
    BY <1>2, <1>3, <1>4 DEF Counted, TypeOK, Max8
  <2>3. \A b \in Actors : pc'[b] = "wrong" => b = t /\ l = "wrong"
    BY <1>7 DEF UnderWay
  <2>4. l = "wrong" => told < f /\ f < Lockout
    BY <1>4, <1>5, <2>2
  <2> QED BY <1>4, <1>8, <2>1, <2>2, <2>3, <2>4
<1>13. CopiesAgree'
  <2> SUFFICES ASSUME ~ lost' PROVE ram' = Load(nvs')
    BY <1>7 DEF CopiesAgree
  <2> QED BY <1>2, <1>3, <1>4, <1>7, FailsFacts DEF CopiesAgree
<1> QED BY <1>7, <1>9, <1>10, <1>11, <1>12, <1>13

LEMMA SaveSaltKeeps ==
    ASSUME PassInv, NEW t \in Actors, SaveSalt(t)
    PROVE  PassInv'
<1> USE DEF PassInv
<1>1. PICK l \in {"hash", "refused"} :
        /\ pc[t] = "salt" /\ Goto(t, l)
        /\ \/ /\ l = "hash" /\ lost' = lost
              /\ \E s \in FreshSalts : nvs' = [nvs EXCEPT !.salt = s]
           \/ l = "refused" /\ nvs' = nvs /\ lost' = TRUE
        /\ UNCHANGED <<ram, holder, job, chosen, told>>
  BY DEF SaveSalt, Write, WriteLost
<1>2. pc[t] \in UnderWay /\ l \in UnderWay \cup {"publish"} /\ l \notin {"wrong", "count"}
  BY <1>1 DEF UnderWay
<1>3. /\ Mutex' /\ pc' \in [Actors -> Labels] /\ pc'[t] = l
      /\ \A b \in Actors : b # t => pc'[b] \notin UnderWay
      /\ ~ Halfway /\ (Halfway' <=> l = "hash")
  BY <1>1, <1>2, WorkStep
<1>4. nvs \in States /\ ram \in States /\ \A s \in FreshSalts : s \in Salts /\ s # None
  BY SaltFresh DEF TypeOK
<1>5. /\ nvs' \in States /\ nvs'.hash = nvs.hash /\ nvs'.fails = nvs.fails /\ nvs'.mode = nvs.mode
      /\ l = "hash" => nvs'.salt # None
  BY <1>1, <1>4 DEF States
<1>6. TypeOK'
  BY <1>1, <1>3, <1>5 DEF TypeOK
<1>7. Stages'
  BY <1>1, <1>2, <1>3, <1>5 DEF Stages, UnderWay
<1>8. WordsChosen'
  BY <1>1, <1>5 DEF WordsChosen
<1>9. Counted'
  BY <1>1, <1>2, <1>3, <1>5 DEF Counted, UnderWay
<1>10. CopiesAgree'
  <2> SUFFICES ASSUME ~ lost' PROVE ram'.mode = nvs'.mode
    BY <1>1, <1>3 DEF CopiesAgree
  <2>1. ram = Load(nvs)
    BY <1>1, <1>3 DEF CopiesAgree
  <2> QED BY <1>1, <1>4, <1>5, <2>1, LoadFacts
<1> QED BY <1>3, <1>6, <1>7, <1>8, <1>9, <1>10

LEMMA SaveHashKeeps ==
    ASSUME PassInv, NEW t \in Actors, SaveHash(t)
    PROVE  PassInv'
<1> USE DEF PassInv
<1>0. PICK h : h = <<job[t].new, nvs.salt>>
  OBVIOUS
<1>1. PICK l \in {"count", "refused"} :
        /\ pc[t] = "hash" /\ Goto(t, l)
        /\ \/ /\ l = "count" /\ nvs' = [nvs EXCEPT !.hash = h] /\ lost' = lost
              /\ chosen' = chosen \cup {job[t].new}
           \/ l = "refused" /\ nvs' = nvs /\ lost' = TRUE /\ chosen' = chosen
        /\ UNCHANGED <<ram, holder, job, told>>
  BY <1>0 DEF SaveHash, Write, WriteLost
<1>2. pc[t] \in UnderWay /\ l \in UnderWay \cup {"publish"} /\ l \notin {"wrong", "salt", "hash"}
  BY <1>1 DEF UnderWay
<1>3. /\ Mutex' /\ pc' \in [Actors -> Labels] /\ pc'[t] = l
      /\ \A b \in Actors : b # t => pc'[b] \notin UnderWay
      /\ Halfway /\ (Halfway' <=> l = "count")
  BY <1>1, <1>2, WorkStep
<1>4. nvs \in States /\ job[t].new \in Words /\ nvs.salt # None
  BY <1>1 DEF TypeOK, Stages
<1>5. h \in Hashes /\ h # None /\ h[1] = job[t].new
  BY <1>0, <1>4, WordsAssumption DEF States, Hashes
<1>6. nvs' \in States /\ nvs'.salt = nvs.salt /\ nvs'.fails = nvs.fails /\ nvs'.mode = nvs.mode
  BY <1>1, <1>4, <1>5 DEF States
<1>7. IF l = "count" THEN nvs'.hash = h ELSE nvs'.hash = nvs.hash
  BY <1>1, <1>4 DEF States
<1>8. TypeOK'
  BY <1>1, <1>3, <1>6 DEF TypeOK
<1>9. Stages'
  BY <1>1, <1>2, <1>3, <1>4, <1>5, <1>6, <1>7 DEF Stages, UnderWay
<1>10. WordsChosen'
  BY <1>1, <1>5, <1>7 DEF WordsChosen
<1>11. Counted'
  BY <1>1, <1>2, <1>3, <1>6 DEF Counted, UnderWay
<1>12. CopiesAgree'
  BY <1>1, <1>3, <1>6 DEF CopiesAgree
<1> QED BY <1>3, <1>8, <1>9, <1>10, <1>11, <1>12

LEMMA SaveCountKeeps ==
    ASSUME PassInv, NEW t \in Actors, SaveCount(t)
    PROVE  PassInv'
<1> USE DEF PassInv
<1>1. PICK l \in {"accepted", "refused"} :
        /\ pc[t] = "count" /\ Goto(t, l)
        /\ \/ /\ l = "accepted" /\ nvs' = [nvs EXCEPT !.fails = 0] /\ lost' = lost
              /\ ram' = [nvs EXCEPT !.fails = 0, !.mode = ram.mode]
              /\ chosen' = {job[t].new} /\ told' = 0
           \/ l = "refused" /\ lost' = TRUE /\ UNCHANGED <<nvs, ram, chosen, told>>
        /\ UNCHANGED <<holder, job>>
  BY DEF SaveCount, Write, WriteLost
<1>2. pc[t] \in UnderWay /\ l \in UnderWay \cup {"publish"}
      /\ l \notin {"wrong", "salt", "hash", "count"}
  BY <1>1 DEF UnderWay
<1>3. /\ Mutex' /\ pc' \in [Actors -> Labels] /\ pc'[t] = l
      /\ \A b \in Actors : b # t => pc'[b] \notin UnderWay
      /\ Halfway /\ ~ Halfway'
  BY <1>1, <1>2, WorkStep
<1>4. /\ nvs \in States /\ ram \in States /\ 0 \in 0 .. Max8 /\ ram.mode \in Modes
      /\ nvs.salt # None /\ nvs.hash # None /\ nvs.hash[1] = job[t].new
  BY <1>1 DEF TypeOK, Stages, States, Max8
<1>5. CASE l = "refused"
  <2>1. UNCHANGED <<nvs, ram, chosen, told, holder, job>> /\ lost' = TRUE
    BY <1>1, <1>5
  <2> QED BY <1>2, <1>3, <1>5, <2>1
          DEF TypeOK, Stages, UnderWay, WordsChosen, Counted, CopiesAgree
<1>6. CASE l = "accepted"
  <2>1. /\ nvs' = [nvs EXCEPT !.fails = 0] /\ lost' = lost
        /\ ram' = [nvs EXCEPT !.fails = 0, !.mode = ram.mode]
        /\ chosen' = {job[t].new} /\ told' = 0
    BY <1>1, <1>6
  <2>2. nvs' \in States /\ nvs'.fails = 0 /\ nvs'.hash = nvs.hash /\ nvs'.salt = nvs.salt
    BY <1>4, <2>1, FailsFacts
  <2>3. ram' \in States /\ ram'.fails = 0 /\ ram'.hash = nvs.hash
    BY <1>4, <2>1 DEF States
  <2>4. TypeOK'
    BY <1>1, <1>3, <2>1, <2>2, <2>3 DEF TypeOK
  <2>5. Stages' /\ Counted'
    BY <1>2, <1>3, <2>1, <2>2, <2>3, Sizes DEF Stages, Counted, UnderWay
  <2>6. WordsChosen'
    BY <1>4, <2>1, <2>2, <2>3 DEF WordsChosen
  <2>7. CopiesAgree'
    <3> SUFFICES ASSUME ~ lost' PROVE ram' = Load(nvs')
      BY <1>3 DEF CopiesAgree
    <3>1. ram.mode = nvs.mode
      BY <1>3, <2>1 DEF CopiesAgree
    <3>2. ram' = nvs'
      BY <1>4, <2>1, <3>1 DEF States
    <3>3. Load(nvs') = nvs'
      BY <1>4, <2>2 DEF Load
    <3> QED BY <3>2, <3>3
  <2> QED BY <1>3, <2>4, <2>5, <2>6, <2>7
<1> QED BY <1>5, <1>6

\* An erasure clears both copies, or is lost and known to be.
LEMMA WipeFacts ==
    ASSUME PassInv, WipeBoth
    PROVE  /\ nvs' \in States /\ ram' \in States /\ told' = 0 /\ lost' \in BOOLEAN
           /\ ~ lost' => ram' = Load(nvs') /\ ram'.fails = nvs'.fails /\ ram'.fails = 0
           /\ WordsChosen'
<1> USE DEF PassInv
<1>1. CASE nvs' = Empty /\ chosen' = {} /\ lost' = FALSE
  BY <1>1, EmptyFacts DEF WipeBoth, WordsChosen
<1>2. CASE nvs' = nvs /\ chosen' = chosen /\ lost' = TRUE
  BY <1>2, EmptyFacts DEF WipeBoth, WordsChosen, TypeOK
<1> QED BY <1>1, <1>2 DEF WipeBoth, WriteLost

LEMMA WipeKeeps ==
    ASSUME PassInv, NEW t \in Actors, Wipe(t)
    PROVE  PassInv'
<1> USE DEF PassInv
<1>1. /\ pc[t] = "wipe" /\ Goto(t, "accepted") /\ WipeBoth /\ UNCHANGED <<holder, job>>
  BY DEF Wipe
<1>2. pc[t] \in UnderWay /\ "accepted" \in UnderWay \cup {"publish"}
  BY <1>1 DEF UnderWay
<1>3. /\ Mutex' /\ pc' \in [Actors -> Labels] /\ pc'[t] = "accepted"
      /\ \A b \in Actors : b # t => pc'[b] \notin UnderWay
      /\ ~ Halfway'
  BY <1>1, <1>2, WorkStep
<1>4. TypeOK'
  BY <1>1, <1>3, WipeFacts DEF TypeOK
<1>5. Stages'
  BY <1>3 DEF Stages, UnderWay
<1>6. Counted' /\ CopiesAgree'
  BY <1>1, <1>3, WipeFacts, Sizes DEF Counted, CopiesAgree, UnderWay
<1> QED BY <1>1, <1>3, <1>4, <1>5, <1>6, WipeFacts

LEMMA SetModeKeeps ==
    ASSUME PassInv, NEW t \in Actors, SetMode(t)
    PROVE  PassInv'
<1> USE DEF PassInv
<1>1. PICK l \in {"accepted", "refused"} : Goto(t, l)
  BY DEF SetMode
<1>2. PICK m : m = IF ram.hash = None THEN 0 ELSE job[t].mode
  OBVIOUS
<1>3. /\ pc[t] = "mode" /\ ram' = [ram EXCEPT !.mode = m]
      /\ \/ nvs' = [nvs EXCEPT !.mode = m] /\ lost' = lost
         \/ nvs' = nvs /\ lost' = TRUE
      /\ UNCHANGED <<holder, job, chosen, told>>
  BY <1>2 DEF SetMode, Write, WriteLost
<1>4. pc[t] \in UnderWay /\ l \in UnderWay \cup {"publish"}
      /\ l \notin {"wrong", "salt", "hash", "count"}
  BY <1>3 DEF UnderWay
<1>5. /\ Mutex' /\ pc' \in [Actors -> Labels] /\ pc'[t] = l
      /\ \A b \in Actors : b # t => pc'[b] \notin UnderWay
      /\ ~ Halfway /\ ~ Halfway'
  BY <1>1, <1>3, <1>4, WorkStep
<1>6. nvs \in States /\ ram \in States
  BY DEF TypeOK
<1>7. m \in Modes
  <2>1. job[t] \in Jobs \cup {Idle}
    BY DEF TypeOK
  <2>2. job[t].mode \in Modes
    <3>1. job[t].mode \in {0} \cup Toggles
      BY <2>1 DEF Jobs, Idle
    <3>2. 0 \in Modes /\ Toggles \subseteq Modes
      BY TogglesAssumption DEF Modes
    <3> QED BY <3>1, <3>2
  <2> QED BY <1>2, <2>2 DEF Modes
<1>8. /\ ram' \in States /\ ram'.hash = ram.hash /\ ram'.fails = ram.fails
  BY <1>3, <1>6, <1>7, ModeFacts
<1>9. /\ nvs' \in States /\ nvs'.hash = nvs.hash /\ nvs'.fails = nvs.fails
  <2>1. CASE nvs' = nvs
    BY <1>6, <2>1
  <2>2. CASE nvs' = [nvs EXCEPT !.mode = m]
    BY <1>6, <1>7, <2>2, ModeFacts
  <2> QED BY <1>3, <2>1, <2>2
<1>10. TypeOK'
  BY <1>3, <1>5, <1>8, <1>9 DEF TypeOK
<1>11. Stages'
  BY <1>4, <1>5 DEF Stages, UnderWay
<1>12. WordsChosen'
  BY <1>3, <1>8, <1>9 DEF WordsChosen
<1>13. Counted'
  BY <1>3, <1>4, <1>5, <1>8, <1>9 DEF Counted, UnderWay
<1>14. CopiesAgree'
  <2> SUFFICES ASSUME ~ lost' PROVE ram' = Load(nvs')
    BY <1>5 DEF CopiesAgree
  <2>1. ram = Load(nvs) /\ nvs' = [nvs EXCEPT !.mode = m]
    BY <1>3, <1>5 DEF CopiesAgree
  <2> QED BY <1>3, <1>6, <1>7, <2>1, ModeFacts
<1> QED BY <1>5, <1>10, <1>11, <1>12, <1>13, <1>14

LEMMA DeriveFailsKeeps ==
    ASSUME PassInv, NEW t \in Actors, DeriveFails(t)
    PROVE  PassInv'
<1> USE DEF PassInv
<1>1. /\ pc[t] \in {"verify", "salt"} /\ Goto(t, "refused")
      /\ UNCHANGED <<nvs, ram, holder, job, chosen, told, lost>>
  BY DEF DeriveFails
<1>2. pc[t] \in UnderWay /\ "refused" \in UnderWay \cup {"publish"}
  BY <1>1 DEF UnderWay
<1>3. /\ Mutex' /\ pc' \in [Actors -> Labels] /\ pc'[t] = "refused"
      /\ \A b \in Actors : b # t => pc'[b] \notin UnderWay
      /\ ~ Halfway /\ ~ Halfway'
  BY <1>1, <1>2, WorkStep
<1>4. TypeOK' /\ WordsChosen' /\ CopiesAgree'
  BY <1>1, <1>3 DEF TypeOK, WordsChosen, CopiesAgree
<1>5. Stages' /\ Counted'
  BY <1>1, <1>3 DEF Stages, Counted, UnderWay
<1> QED BY <1>3, <1>4, <1>5

LEMMA ReturnKeeps ==
    ASSUME PassInv, NEW t \in Actors, Return(t)
    PROVE  PassInv'
<1> USE DEF PassInv
<1>1. /\ pc[t] \in {"accepted", "wrong", "refused"} /\ Goto(t, "idle")
      /\ told' = (IF pc[t] = "wrong" THEN told + 1 ELSE told) /\ holder' = None
      /\ job' = [job EXCEPT ![t] = Idle]
      /\ UNCHANGED <<nvs, ram, chosen, lost>>
  BY DEF Return
<1>2. pc[t] \in UnderWay /\ "idle" \in Labels /\ "idle" \notin UnderWay
  BY <1>1 DEF UnderWay, Labels
<1>3. /\ pc' \in [Actors -> Labels] /\ pc'[t] = "idle"
      /\ \A b \in Actors : b # t => pc'[b] = pc[b] /\ pc[b] \notin UnderWay
  BY <1>1, <1>2, Goes, WorksAlone
<1>4. \A b \in Actors : pc'[b] \notin UnderWay
  BY <1>2, <1>3
<1>5. TypeOK'
  <2>1. told' \in Nat
    BY <1>1 DEF TypeOK
  <2>2. job' \in [Actors -> Jobs \cup {Idle}]
    BY <1>1 DEF TypeOK
  <2> QED BY <1>1, <1>3, <2>1, <2>2 DEF TypeOK
<1>6. Mutex'
  BY <1>1, <1>4, NoHolder DEF Mutex
<1>7. Stages'
  BY <1>4 DEF Stages, UnderWay
<1>8. WordsChosen'
  BY <1>1 DEF WordsChosen
<1>9. Counted'
  <2> SUFFICES ASSUME ~ lost
               PROVE  ram.fails = nvs.fails /\ told' <= ram.fails /\ told' < Lockout
    BY <1>1, <1>4 DEF Counted, UnderWay
  <2>1. told \in Nat /\ ram.fails \in Nat /\ Lockout \in Nat
    BY Sizes DEF TypeOK, States, Max8
  <2> QED BY <1>1, <2>1 DEF Counted
<1>10. ~ Halfway /\ ~ Halfway'
  BY <1>1, <1>3, <1>4 DEF Halfway, UnderWay
<1>11. CopiesAgree'
  BY <1>1, <1>10 DEF CopiesAgree
<1> QED BY <1>5, <1>6, <1>7, <1>8, <1>9, <1>11

(***************************************************************************)
(* The factory reset and the power.                                        *)
(***************************************************************************)
\* A publisher goes on, and the passphrase is not touched.
LEMMA QuietKeeps ==
    ASSUME PassInv, NEW a \in Actors, NEW l \in Labels \ UnderWay, Goto(a, l),
           pc[a] \notin UnderWay, holder = a => l \in {"publish", "wiping"},
           UNCHANGED <<nvs, ram, holder, job, chosen, told, lost>>
    PROVE  PassInv'
<1> USE DEF PassInv
<1>1. /\ pc' \in [Actors -> Labels] /\ pc'[a] = l
      /\ \A b \in Actors : b # a => pc'[b] = pc[b]
  BY Goes
<1>2. TypeOK' /\ Mutex'
  BY <1>1 DEF TypeOK, Mutex
<1>3. Stages' /\ WordsChosen'
  BY <1>1 DEF Stages, WordsChosen, UnderWay
<1>4. Counted'
  BY <1>1 DEF Counted, UnderWay
<1>5. Halfway' <=> Halfway
  BY <1>1 DEF Halfway, UnderWay
<1>6. CopiesAgree'
  BY <1>5 DEF CopiesAgree
<1> QED BY <1>2, <1>3, <1>4, <1>6

LEMMA PublishKeeps ==
    ASSUME PassInv, NEW a \in Actors, RequestReset(a) \/ WipeEarlier(a) \/ WipeLater(a)
    PROVE  PassInv'
<1>1. CASE RequestReset(a)
  <2>1. pc[a] \notin UnderWay /\ holder # a
    BY <1>1 DEF RequestReset, UnderWay, PassInv, Mutex
  <2> QED BY <1>1, <2>1, QuietKeeps DEF RequestReset, UnderWay, Labels
<1>2. CASE WipeEarlier(a)
  BY <1>2, QuietKeeps DEF WipeEarlier, UnderWay, Labels
<1>3. CASE WipeLater(a)
  <2>1. pc[a] \notin UnderWay /\ holder # a
    BY <1>3 DEF WipeLater, UnderWay, PassInv, Mutex
  <2> QED BY <1>3, <2>1, QuietKeeps DEF WipeLater, UnderWay, Labels
<1> QED BY <1>1, <1>2, <1>3

LEMMA WipePassphraseKeeps ==
    ASSUME PassInv, NEW a \in Actors, WipePassphrase(a)
    PROVE  PassInv'
<1> USE DEF PassInv
<1>1. /\ pc[a] = "wiping" /\ holder = None /\ WipeBoth /\ Goto(a, "later")
      /\ UNCHANGED <<holder, job>>
  BY DEF WipePassphrase, CanLock
<1>2. "later" \in Labels /\ "later" \notin UnderWay
  BY DEF Labels, UnderWay
<1>3. /\ pc' \in [Actors -> Labels] /\ pc'[a] = "later"
      /\ \A b \in Actors : b # a => pc'[b] = pc[b]
  BY <1>1, <1>2, Goes
<1>4. \A b \in Actors : pc'[b] \notin UnderWay
  BY <1>1, <1>2, <1>3, FreeIsIdle
<1>5. TypeOK'
  BY <1>1, <1>3, WipeFacts DEF TypeOK
<1>6. Mutex' /\ Stages'
  BY <1>1, <1>4, NoHolder DEF Mutex, Stages, UnderWay
<1>7. Counted' /\ CopiesAgree'
  BY <1>1, <1>4, WipeFacts, Sizes DEF Counted, CopiesAgree, Halfway, UnderWay
<1> QED BY <1>1, <1>5, <1>6, <1>7, WipeFacts

\* What NVS holds is loaded, a set or change half done included.
LEMMA BootKeeps ==
    ASSUME PassInv, Boot
    PROVE  PassInv'
<1> USE DEF PassInv
<1>1. /\ ram' = Load(nvs) /\ holder' = None /\ UNCHANGED <<nvs, chosen, told, lost>>
      /\ pc' = [a \in Actors |-> "idle"] /\ job' = [a \in Actors |-> Idle]
  BY DEF Boot
<1>2. nvs \in States
  BY DEF TypeOK
<1>3. ram' \in States /\ ram'.fails = nvs.fails /\ ram'.hash \in {nvs.hash, None}
  BY <1>1, <1>2, LoadFacts
<1>4. \A a \in Actors : pc'[a] = "idle"
  BY <1>1
<1>5. TypeOK'
  BY <1>1, <1>3 DEF TypeOK, Labels
<1>6. Mutex' /\ Stages'
  BY <1>1, <1>4, NoHolder DEF Mutex, Stages, UnderWay
<1>7. WordsChosen'
  BY <1>1, <1>3 DEF WordsChosen
<1>8. Counted'
  BY <1>1, <1>3, <1>4 DEF Counted
<1>9. CopiesAgree'
  BY <1>1, <1>4 DEF CopiesAgree, Halfway
<1> QED BY <1>5, <1>6, <1>7, <1>8, <1>9

(***************************************************************************)
(* The theorems.                                                           *)
(***************************************************************************)
LEMMA PassInit == Init => PassInv
<1> SUFFICES ASSUME Init PROVE PassInv
  OBVIOUS
<1>1. /\ nvs = Empty /\ ram = Empty /\ holder = None /\ told = 0 /\ lost = FALSE
      /\ pc = [a \in Actors |-> "idle"] /\ job = [a \in Actors |-> Idle]
  BY DEF Init
<1>2. \A a \in Actors : pc[a] = "idle"
  BY <1>1
<1>3. TypeOK
  BY <1>1, EmptyFacts DEF TypeOK, Labels
<1>4. Mutex /\ Stages /\ WordsChosen
  BY <1>1, <1>2, NoHolder, EmptyFacts DEF Mutex, Stages, UnderWay, WordsChosen
<1>5. Counted /\ CopiesAgree
  BY <1>1, <1>2, EmptyFacts, Sizes DEF Counted, CopiesAgree, Halfway
<1> QED BY <1>3, <1>4, <1>5 DEF PassInv

LEMMA PassNext == PassInv /\ [Next]_vars => PassInv'
<1> SUFFICES ASSUME PassInv, [Next]_vars PROVE PassInv'
  OBVIOUS
<1>0. Tasks \subseteq Actors
  BY DEF Actors
<1>1. ASSUME NEW t \in Tasks, Command(t) PROVE PassInv'
  BY <1>0, <1>1, MatchKeeps, MismatchKeeps, DeriveFailsKeeps, SaveSaltKeeps, SaveHashKeeps, SaveCountKeeps,
     WipeKeeps, SetModeKeeps, ReturnKeeps DEF Command
<1>2. ASSUME NEW t \in Tasks, NEW j \in Jobs, Enter(t, j) PROVE PassInv'
  BY <1>2, EnterKeeps
<1>3. ASSUME NEW a \in Actors, RequestReset(a) \/ FactoryReset(a) PROVE PassInv'
  BY <1>3, PublishKeeps, WipePassphraseKeeps, BootKeeps DEF FactoryReset, Restart
<1>4. CASE PowerCycle
  BY <1>4, BootKeeps DEF PowerCycle
<1>5. CASE UNCHANGED vars
  BY <1>5 DEF vars, PassInv, TypeOK, Mutex, Stages, WordsChosen, Counted, CopiesAgree, Halfway
<1> QED BY <1>1, <1>2, <1>3, <1>4, <1>5 DEF Next

\* The types and the inductive invariant of the two copies.
THEOREM PassphraseCorrect == Spec => []PassInv
<1> QED BY PassInit, PassNext, PTL DEF Spec

\* No word opens the device, now or after a power cycle, that was not chosen
\* (sk_passphrase_set, sk_passphrase_change, nvs_load_state).
THEOREM NoOtherWordOpens == Spec => []OnlyChosenOpens
<1>1. PassInv => OnlyChosenOpens
  <2> SUFFICES ASSUME PassInv, NEW w \in Words, Opens(ram, w) \/ Opens(Load(nvs), w)
               PROVE  w \in chosen
    BY DEF OnlyChosenOpens
  <2>1. nvs \in States
    BY DEF PassInv, TypeOK
  <2>2. CASE Opens(ram, w)
    BY <2>2 DEF Opens, PassInv, WordsChosen
  <2>3. CASE Opens(Load(nvs), w)
    <3>1. nvs.hash # None /\ nvs.hash = <<w, Load(nvs).salt>>
      BY <2>1, <2>3, LoadFacts DEF Opens
    <3> QED BY <3>1 DEF PassInv, WordsChosen
  <2> QED BY <2>2, <2>3
<1> QED BY <1>1, PassphraseCorrect, PTL

\* Every wrong answer is in the counter that survives (verify_internal saves the
\* counter before it answers).
THEOREM WrongAnswersCounted == Spec => []WrongIsCounted
<1>1. PassInv => WrongIsCounted
  BY DEF PassInv, Counted, WrongIsCounted
<1> QED BY <1>1, PassphraseCorrect, PTL

\* No operation, cut short or complete, leaves RAM and NVS apart.
THEOREM CopiesStayEqual == Spec => []RamIsDurable
<1>1. PassInv => RamIsDurable
  BY FreeIsIdle DEF PassInv, CopiesAgree, Halfway, RamIsDurable, UnderWay
<1> QED BY <1>1, PassphraseCorrect, PTL

\* A reset waits only for a command that is on its way, or for a lockout.
THEOREM ResetWaitsForCommand == Spec => []ResetNotBlocked
<1>1. PassInv => ResetNotBlocked
  <2> SUFFICES ASSUME PassInv, holder # None
               PROVE  pc[holder] \in UnderWay \/ LockedOut
    BY DEF ResetNotBlocked, CanLock
  <2>1. holder \in Tasks /\ holder \in Actors
    BY DEF PassInv, TypeOK, Actors
  <2>2. pc[holder] \in UnderWay \cup {"publish", "wiping"}
    BY <2>1 DEF PassInv, Mutex
  <2> QED BY <2>1, <2>2 DEF LockedOut
<1> QED BY <1>1, PassphraseCorrect, PTL

(***************************************************************************)
(* The promise of PassphraseGuard.  Beside the invariant above it takes    *)
(* that a request keeps the mutex, and that the word it was checked        *)
(* against opens the device until it has changed that.                     *)
(***************************************************************************)
Served == \A a \in Actors : job[a] # Idle => holder = a

Rightful ==
    \A a \in Actors :
        /\ pc[a] \in {"salt", "hash", "count"} =>
              job[a].op \in {"set", "change"} /\ nowBar = job[a].old
        /\ pc[a] = "wipe" => job[a].op = "clear" /\ nowBar = job[a].old

SaltFirst == nvs.hash # None => nvs.salt # None

HashFits == \A a \in Actors : pc[a] = "count" => nvs.hash[2] = nvs.salt

GuardInv == PassInv /\ Served /\ Rightful /\ SaltFirst /\ HashFits

LEMMA JobFacts ==
    ASSUME NEW j \in Jobs \cup {Idle}
    PROVE  /\ Request(j) \in Guard!Requests
           /\ j.op \in Changes => Request(j) # Guard!Nothing
                                  /\ Request(j).old = j.old /\ Request(j).new = j.new
           /\ j.op \in {"set", "change"} => j.new \in Words
           /\ j.op = "clear" => j.new = None
           /\ j.op = "set" => j.old = None
           /\ j.op # "none" => j # Idle
           /\ Request(Idle) = Guard!Nothing
<1>1. Request(j) \in Guard!Requests
  BY DEF Request, Guard!Requests, Jobs, Idle, Changes
<1>2. j.op \in {"clear", "change"} => j.old \in Words
  BY DEF Jobs, Idle
<1>3. j.op \in {"set", "change"} => j.new \in Words
  BY DEF Jobs, Idle
<1>4. j.op \in Changes => Request(j) # Guard!Nothing
                          /\ Request(j).old = j.old /\ Request(j).new = j.new
  BY <1>2, <1>3, WordsAssumption DEF Request, Guard!Nothing, Changes
<1>5. (j.op = "clear" => j.new = None) /\ (j.op = "set" => j.old = None)
  BY DEF Jobs, Idle
<1>6. Request(Idle) = Guard!Nothing /\ (j.op # "none" => j # Idle)
  BY DEF Request, Idle, Changes, Guard!Nothing
<1> QED BY <1>1, <1>3, <1>4, <1>5, <1>6

\* What a copy accepts.
LEMMA AcceptsFacts ==
    ASSUME NEW m \in States
    PROVE  /\ m.hash = None <=> Accepts(m) = None
           /\ m.hash # None /\ m.hash[2] = m.salt => Accepts(m) = m.hash[1]
           /\ m.hash # None /\ m.hash[2] # m.salt => Accepts(m) = Shut
           /\ \A w \in Words : Opens(m, w) => Accepts(m) = w
<1>1. m.hash # None => m.hash \in Words \X Salts
  BY DEF States, Hashes
<1>2. m.hash # None => m.hash[1] \in Words /\ m.hash[1] # None /\ Shut # None
  BY <1>1, WordsAssumption, ShutAssumption
<1> QED BY <1>1, <1>2 DEF Accepts, Opens

\* What is kept is what NVS accepts, since the salt is there before the hash.
LEMMA KeptFacts == PassInv /\ SaltFirst => keptBar = Accepts(nvs)
<1> SUFFICES ASSUME PassInv, SaltFirst PROVE Accepts(Load(nvs)) = Accepts(nvs)
  BY DEF keptBar
<1>1. nvs \in States
  BY DEF PassInv, TypeOK
<1>2. CASE nvs.hash = None
  <2>1. Load(nvs) \in States /\ Load(nvs).hash = None
    BY <1>1, <1>2, LoadFacts
  <2> QED BY <1>1, <1>2, <2>1, AcceptsFacts
<1>3. CASE nvs.hash # None
  BY <1>1, <1>3 DEF Load, SaltFirst
<1> QED BY <1>2, <1>3

\* Only salt and hash count.
LEMMA AcceptsSame ==
    ASSUME NEW m \in States, NEW n \in States, m.hash = n.hash, m.salt = n.salt
    PROVE  Accepts(m) = Accepts(n)
BY DEF Accepts

Same == UNCHANGED <<nowBar, keptBar, asksBar>>

\* A step that leaves salt and hash of both copies alone.
LEMMA CopiesSame ==
    ASSUME PassInv, PassInv', SaltFirst,
           ram'.hash = ram.hash, ram'.salt = ram.salt,
           nvs'.hash = nvs.hash, nvs'.salt = nvs.salt
    PROVE  SaltFirst' /\ nowBar' = nowBar /\ keptBar' = keptBar
<1>1. nvs \in States /\ nvs' \in States /\ ram \in States /\ ram' \in States
  BY DEF PassInv, TypeOK
<1>2. SaltFirst'
  BY DEF SaltFirst
<1>3. Accepts(nvs') = Accepts(nvs) /\ Accepts(ram') = Accepts(ram)
  BY <1>1, AcceptsSame
<1>4. keptBar = Accepts(nvs) /\ keptBar' = Accepts(nvs')
  <2>1. keptBar = Accepts(nvs)
    BY KeptFacts
  <2>2. (PassInv /\ SaltFirst => keptBar = Accepts(nvs))'
    BY KeptFacts, PTL
  <2> QED BY <1>2, <2>1, <2>2
<1> QED BY <1>2, <1>3, <1>4 DEF nowBar

\* The working task goes on to a place where it changes nothing, and the copies
\* stay as they are.
LEMMA QuietWork ==
    ASSUME GuardInv, PassInv', NEW t \in Actors, pc[t] \in UnderWay,
           NEW l \in Labels \ {"salt", "hash", "count", "wipe"}, Goto(t, l),
           UNCHANGED <<holder, job>>,
           ram'.hash = ram.hash, ram'.salt = ram.salt,
           nvs'.hash = nvs.hash, nvs'.salt = nvs.salt
    PROVE  GuardInv' /\ Same
<1> USE DEF GuardInv
<1>1. /\ pc'[t] = l /\ \A b \in Actors : b # t => pc'[b] = pc[b]
      /\ \A b \in Actors : b # t => pc[b] \notin UnderWay
  <2>1. TypeOK /\ Mutex
    BY DEF PassInv
  <2> QED BY <2>1, Goes, WorksAlone
<1>2. SaltFirst' /\ nowBar' = nowBar /\ keptBar' = keptBar
  BY CopiesSame
<1>3. Served' /\ asksBar' = asksBar
  BY DEF Served, asksBar
<1>4. Rightful' /\ HashFits'
  BY <1>1 DEF Rightful, HashFits, UnderWay
<1> QED BY <1>2, <1>3, <1>4 DEF Same

\* A task that works changes neither its request nor whose turn it is.
LEMMA Turn ==
    ASSUME GuardInv, PassInv', NEW t \in Tasks, pc[t] \in UnderWay,
           NEW l \in Labels, Goto(t, l), UNCHANGED <<holder, job>>
    PROVE  /\ t \in Actors /\ Served' /\ asksBar' = asksBar
           /\ pc'[t] = l /\ \A b \in Actors : b # t => pc'[b] \notin UnderWay
           /\ asksBar[t] = Request(job[t]) /\ job[t] \in Jobs \cup {Idle}
           /\ nvs \in States /\ ram \in States /\ nvs' \in States /\ ram' \in States
<1> USE DEF GuardInv
<1>1. t \in Actors /\ TypeOK /\ Mutex /\ TypeOK'
  BY DEF Actors, PassInv
<1>2. pc'[t] = l /\ \A b \in Actors : b # t => pc'[b] \notin UnderWay
  BY <1>1, Goes, WorksAlone
<1>3. Served' /\ asksBar' = asksBar /\ asksBar[t] = Request(job[t])
  BY DEF Served, asksBar
<1>4. job[t] \in Jobs \cup {Idle}
  BY <1>1 DEF TypeOK
<1> QED BY <1>1, <1>2, <1>3, <1>4 DEF TypeOK

\* The client of a change or removal is entitled to it.
LEMMA IsEntitled ==
    ASSUME GuardInv, NEW t \in Tasks, pc[t] \in {"salt", "hash", "count", "wipe"}
    PROVE  /\ Guard!Entitled(t)
           /\ asksBar[t].new = job[t].new
           /\ pc[t] = "wipe" => job[t].new = None
           /\ pc[t] # "wipe" => job[t].new \in Words /\ job[t].new # None
<1> USE DEF GuardInv
<1>1. t \in Actors /\ job[t] \in Jobs \cup {Idle}
  BY DEF Actors, PassInv, TypeOK
<1>2. /\ job[t].op \in Changes /\ nowBar = job[t].old
      /\ pc[t] = "wipe" => job[t].op = "clear"
      /\ pc[t] # "wipe" => job[t].op \in {"set", "change"}
  BY <1>1 DEF Rightful, Changes
<1>3. asksBar[t] = Request(job[t])
  BY DEF asksBar
<1>4. /\ Request(job[t]) # Guard!Nothing
      /\ Request(job[t]).old = job[t].old /\ Request(job[t]).new = job[t].new
      /\ job[t].op \in {"set", "change"} => job[t].new \in Words
      /\ job[t].op = "clear" => job[t].new = None
  BY <1>1, <1>2, JobFacts
<1> QED BY <1>2, <1>3, <1>4, WordsAssumption DEF Guard!Entitled

LEMMA MatchGuards ==
    ASSUME GuardInv, PassInv', NEW t \in Tasks, Match(t)
    PROVE  GuardInv' /\ Same
<1> USE DEF GuardInv
<1>1. /\ pc[t] = "verify" /\ Opens(ram, job[t].old)
      /\ Goto(t, AfterMatch(job[t].op)) /\ UNCHANGED <<holder, job>>
      /\ ram' = [ram EXCEPT !.fails = 0] /\ nvs' \in {nvs, [nvs EXCEPT !.fails = 0]}
  BY DEF Match, Write, WriteLost
<1>2. pc[t] \in UnderWay /\ AfterMatch(job[t].op) \in {"salt", "wipe", "accepted"}
      /\ AfterMatch(job[t].op) \in Labels
  BY <1>1 DEF UnderWay, AfterMatch, Labels
<1>3. /\ t \in Actors /\ Served' /\ asksBar' = asksBar
      /\ pc'[t] = AfterMatch(job[t].op) /\ \A b \in Actors : b # t => pc'[b] \notin UnderWay
      /\ job[t] \in Jobs \cup {Idle}
      /\ nvs \in States /\ ram \in States /\ nvs' \in States /\ ram' \in States
  BY <1>1, <1>2, Turn
<1>4. /\ ram'.hash = ram.hash /\ ram'.salt = ram.salt
      /\ nvs'.hash = nvs.hash /\ nvs'.salt = nvs.salt
  BY <1>1, <1>3 DEF States
<1>5. SaltFirst' /\ nowBar' = nowBar /\ keptBar' = keptBar
  BY <1>4, CopiesSame
<1>6. nowBar = job[t].old
  <2>1. job[t].old \in Words
    <3>1. ram.hash \in Words \X Salts /\ ram.hash = <<job[t].old, ram.salt>>
      BY <1>1, <1>3 DEF Opens, States, Hashes
    <3> QED BY <3>1
  <2> QED BY <1>1, <1>3, <2>1, AcceptsFacts DEF nowBar
<1>7. /\ pc'[t] = "salt" => job[t].op \in {"set", "change"}
      /\ pc'[t] = "wipe" => job[t].op = "clear"
      /\ pc'[t] \notin {"hash", "count"}
  BY <1>2, <1>3 DEF AfterMatch
<1>8. Rightful' /\ HashFits'
  BY <1>1, <1>3, <1>5, <1>6, <1>7 DEF Rightful, HashFits, UnderWay
<1> QED BY <1>3, <1>5, <1>8 DEF Same

LEMMA QuietGuards ==
    ASSUME GuardInv, PassInv', NEW t \in Tasks, Mismatch(t) \/ SetMode(t)
    PROVE  GuardInv' /\ Same
<1> USE DEF GuardInv
<1>1. t \in Actors /\ nvs \in States /\ ram \in States
  BY DEF Actors, PassInv, TypeOK
<1>2. PICK l \in {"publish", "wrong", "refused", "accepted"} :
        /\ Goto(t, l) /\ pc[t] \in {"verify", "mode"} /\ UNCHANGED <<holder, job>>
        /\ nvs'.hash = nvs.hash /\ nvs'.salt = nvs.salt
        /\ ram'.hash = ram.hash /\ ram'.salt = ram.salt
  <2>1. CASE Mismatch(t)
    BY <1>1, <2>1 DEF Mismatch, Write, WriteLost, States
  <2>2. CASE SetMode(t)
    BY <1>1, <2>2 DEF SetMode, Write, WriteLost, States
  <2> QED BY <2>1, <2>2
<1>3. l \in Labels \ {"salt", "hash", "count", "wipe"} /\ pc[t] \in UnderWay
  BY <1>2 DEF Labels, UnderWay
<1> QED BY <1>1, <1>2, <1>3, QuietWork

\* A derivation or a write that fails ends the command.
LEMMA RefusedGuards ==
    ASSUME GuardInv, PassInv', NEW t \in Tasks, pc[t] \in UnderWay, Goto(t, "refused"),
           UNCHANGED <<nvs, ram, holder, job>>
    PROVE  GuardInv' /\ Same
<1>1. t \in Actors /\ "refused" \in Labels \ {"salt", "hash", "count", "wipe"}
  BY DEF Actors, Labels, UnderWay
<1> QED BY <1>1, QuietWork

LEMMA DeriveFailsGuards ==
    ASSUME GuardInv, PassInv', NEW t \in Tasks, DeriveFails(t)
    PROVE  GuardInv' /\ Same
BY RefusedGuards DEF DeriveFails, UnderWay

LEMMA SaveSaltGuards ==
    ASSUME GuardInv, PassInv', NEW t \in Tasks, SaveSalt(t)
    PROVE  GuardInv' /\ (Guard!Spoil(t) \/ Same)
<1> USE DEF GuardInv
<1>1. pc[t] = "salt" /\ pc[t] \in UnderWay /\ UNCHANGED <<ram, holder, job>>
  BY DEF SaveSalt, UnderWay
<1>2. CASE WriteLost /\ Goto(t, "refused")
  BY <1>1, <1>2, RefusedGuards DEF WriteLost
<1>3. CASE Goto(t, "hash") /\ \E s \in FreshSalts : nvs' = [nvs EXCEPT !.salt = s]
  <2>1. /\ t \in Actors /\ Served' /\ asksBar' = asksBar
        /\ pc'[t] = "hash" /\ \A b \in Actors : b # t => pc'[b] \notin UnderWay
        /\ nvs \in States /\ nvs' \in States /\ "hash" \in Labels
    BY <1>1, <1>3, Turn DEF Labels, UnderWay
  <2>2. /\ nvs'.hash = nvs.hash /\ nvs'.salt # None
        /\ nvs'.hash # None => nvs'.hash[2] # nvs'.salt
    BY <1>3, <2>1, SaltFresh DEF States, SaltOf
  <2>3. SaltFirst' /\ nowBar' = nowBar
    BY <1>1, <2>2 DEF SaltFirst, nowBar
  <2>4. Rightful' /\ HashFits'
    BY <1>1, <2>1, <2>3 DEF Rightful, HashFits, UnderWay
  <2>5. keptBar = Accepts(nvs) /\ keptBar' = Accepts(nvs')
    <3>1. keptBar = Accepts(nvs)
      BY KeptFacts
    <3>2. (PassInv /\ SaltFirst => keptBar = Accepts(nvs))'
      BY KeptFacts, PTL
    <3> QED BY <2>3, <3>1, <3>2
  <2>6. CASE nvs.hash = None
    <3>1. keptBar' = keptBar
      BY <2>1, <2>2, <2>5, <2>6, AcceptsFacts
    <3> QED BY <2>1, <2>3, <2>4, <3>1 DEF Same
  <2>7. CASE nvs.hash # None
    <3>1. keptBar # None /\ keptBar' = Shut
      BY <2>1, <2>2, <2>5, <2>7, AcceptsFacts
    <3>2. Guard!Spoil(t)
      BY <1>1, <2>1, <2>3, <3>1, IsEntitled DEF Guard!Spoil
    <3> QED BY <2>1, <2>3, <2>4, <3>2
  <2> QED BY <2>6, <2>7
<1> QED BY <1>2, <1>3 DEF SaveSalt, Write

LEMMA SaveHashGuards ==
    ASSUME GuardInv, PassInv', NEW t \in Tasks, SaveHash(t)
    PROVE  GuardInv' /\ (Guard!Keep(t) \/ Same)
<1> USE DEF GuardInv
<1>1. pc[t] = "hash" /\ pc[t] \in UnderWay /\ UNCHANGED <<ram, holder, job>>
  BY DEF SaveHash, UnderWay
<1>2. CASE WriteLost /\ Goto(t, "refused")
  BY <1>1, <1>2, RefusedGuards DEF WriteLost
<1>3. CASE Goto(t, "count") /\ nvs' = [nvs EXCEPT !.hash = <<job[t].new, nvs.salt>>]
  <2>1. /\ t \in Actors /\ Served' /\ asksBar' = asksBar
        /\ pc'[t] = "count" /\ \A b \in Actors : b # t => pc'[b] \notin UnderWay
        /\ nvs \in States /\ nvs' \in States /\ "count" \in Labels
    BY <1>1, <1>3, Turn DEF Labels, UnderWay
  <2>2. nvs.salt # None
    BY <1>1, <2>1 DEF PassInv, Stages
  <2>3. nvs'.hash = <<job[t].new, nvs.salt>> /\ nvs'.salt = nvs.salt
    BY <1>3, <2>1 DEF States
  <2>4. SaltFirst' /\ nowBar' = nowBar
    BY <1>1, <2>2, <2>3 DEF SaltFirst, nowBar
  <2>5. Rightful' /\ HashFits'
    BY <1>1, <2>1, <2>3, <2>4 DEF Rightful, HashFits, UnderWay
  <2>6. keptBar' = Accepts(nvs')
    <3>1. (PassInv /\ SaltFirst => keptBar = Accepts(nvs))'
      BY KeptFacts, PTL
    <3> QED BY <2>4, <3>1
  <2>7. nvs'.hash # None
    <3>1. job'[t].new \in Words /\ nvs'.hash \in (Words \X Salts) \cup {None}
      BY <1>1, <2>1, IsEntitled DEF States, Hashes
    <3>2. PassInv' /\ pc'[t] = "count" => nvs'.hash # None
      BY <2>1 DEF PassInv, Stages
    <3> QED BY <2>1, <3>2
  <2>8. keptBar' = job[t].new
    <3>1. nvs'.hash[2] = nvs'.salt /\ nvs'.hash[1] = job[t].new
      BY <2>3
    <3> QED BY <2>1, <2>6, <2>7, <3>1, AcceptsFacts
  <2>9. Guard!Keep(t)
    BY <1>1, <2>1, <2>4, <2>8, IsEntitled DEF Guard!Keep
  <2> QED BY <2>1, <2>4, <2>5, <2>9
<1> QED BY <1>2, <1>3 DEF SaveHash, Write

LEMMA SaveCountGuards ==
    ASSUME GuardInv, PassInv', NEW t \in Tasks, SaveCount(t)
    PROVE  GuardInv' /\ (Guard!Follow(t) \/ Same)
<1> USE DEF GuardInv
<1>1. pc[t] = "count" /\ pc[t] \in UnderWay /\ UNCHANGED <<holder, job>>
  BY DEF SaveCount, UnderWay
<1>2. CASE WriteLost /\ Goto(t, "refused") /\ UNCHANGED ram
  BY <1>1, <1>2, RefusedGuards DEF WriteLost
<1>3. CASE /\ Goto(t, "accepted") /\ nvs' = [nvs EXCEPT !.fails = 0]
           /\ ram' = [nvs EXCEPT !.fails = 0, !.mode = ram.mode]
  <2>1. /\ t \in Actors /\ Served' /\ asksBar' = asksBar
        /\ pc'[t] = "accepted" /\ \A b \in Actors : b # t => pc'[b] \notin UnderWay
        /\ nvs \in States /\ nvs' \in States /\ ram' \in States /\ "accepted" \in Labels
    BY <1>1, <1>3, Turn DEF Labels, UnderWay
  <2>2. /\ nvs'.hash = nvs.hash /\ nvs'.salt = nvs.salt
        /\ ram'.hash = nvs.hash /\ ram'.salt = nvs.salt
    BY <1>3, <2>1 DEF States
  <2>3. /\ nvs.hash # None /\ nvs.hash[1] = job[t].new /\ nvs.hash[2] = nvs.salt
    BY <1>1, <2>1 DEF PassInv, Stages, HashFits
  <2>4. SaltFirst'
    BY <2>2 DEF SaltFirst
  <2>5. keptBar = Accepts(nvs) /\ keptBar' = Accepts(nvs')
    <3>1. keptBar = Accepts(nvs)
      BY KeptFacts
    <3>2. (PassInv /\ SaltFirst => keptBar = Accepts(nvs))'
      BY KeptFacts, PTL
    <3> QED BY <2>4, <3>1, <3>2
  <2>6. keptBar = job[t].new /\ keptBar' = job[t].new
    BY <2>1, <2>2, <2>3, <2>5, AcceptsFacts
  <2>7. nowBar' = job[t].new
    BY <2>1, <2>2, <2>3, AcceptsFacts DEF nowBar
  <2>8. Rightful' /\ HashFits'
    BY <2>1 DEF Rightful, HashFits, UnderWay
  <2>9. Guard!Follow(t)
    BY <1>1, <2>1, <2>6, <2>7, IsEntitled DEF Guard!Follow
  <2> QED BY <2>1, <2>4, <2>8, <2>9
<1> QED BY <1>2, <1>3 DEF SaveCount, Write

\* An erasure that is lost leaves what is kept.
LEMMA WipeRemoves ==
    ASSUME GuardInv, PassInv', WipeBoth
    PROVE  SaltFirst' /\ Guard!Remove
<1> USE DEF GuardInv
<1>1. ram' = Empty /\ nvs' \in {nvs, Empty}
  BY DEF WipeBoth, WriteLost
<1>2. SaltFirst'
  BY <1>1, EmptyFacts DEF SaltFirst
<1>3. Accepts(Empty) = None /\ Load(Empty) = Empty
  BY EmptyFacts, AcceptsFacts
<1>4. nowBar' = None /\ keptBar' \in {None, keptBar}
  BY <1>1, <1>3 DEF nowBar, keptBar
<1> QED BY <1>2, <1>4 DEF Guard!Remove

LEMMA WipeGuards ==
    ASSUME GuardInv, PassInv', NEW t \in Tasks, Wipe(t)
    PROVE  GuardInv' /\ Guard!Clear(t)
<1> USE DEF GuardInv
<1>1. /\ pc[t] = "wipe" /\ pc[t] \in UnderWay /\ UNCHANGED <<holder, job>>
      /\ Goto(t, "accepted") /\ "accepted" \in Labels /\ WipeBoth
  BY DEF Wipe, UnderWay, Labels
<1>2. /\ t \in Actors /\ Served' /\ asksBar' = asksBar
      /\ pc'[t] = "accepted" /\ \A b \in Actors : b # t => pc'[b] \notin UnderWay
  BY <1>1, Turn
<1>3. SaltFirst' /\ Guard!Remove
  BY <1>1, WipeRemoves
<1>4. Rightful' /\ HashFits'
  BY <1>2 DEF Rightful, HashFits, UnderWay
<1>5. Guard!Clear(t)
  BY <1>1, <1>2, <1>3, IsEntitled DEF Guard!Clear
<1> QED BY <1>2, <1>3, <1>4, <1>5

\* Nobody asks for anything while the mutex is free.
LEMMA FreeIsQuiet ==
    ASSUME GuardInv, holder = None
    PROVE  /\ \A a \in Actors : job[a] = Idle
           /\ Guard!AllQuiet
<1>1. \A a \in Actors : job[a] = Idle
  BY NoHolder DEF GuardInv, Served
<1>2. Request(Idle) = Guard!Nothing
  BY JobFacts
<1> QED BY <1>1, <1>2 DEF Guard!AllQuiet, asksBar, Actors

LEMMA EnterGuards ==
    ASSUME GuardInv, PassInv', NEW t \in Tasks, NEW j \in Jobs, Enter(t, j)
    PROVE  GuardInv' /\ (Guard!Ask(t) \/ Same)
<1> USE DEF GuardInv
<1>1. /\ UNCHANGED <<nvs, ram>> /\ holder = None /\ holder' = t
      /\ job' = [job EXCEPT ![t] = j] /\ t \in Actors /\ t # None
  BY ActorsAssumption DEF Enter, CanLock, Actors
<1>2. PICK l \in {"mode", "salt", "refused", "verify"} :
        /\ Goto(t, l)
        /\ l = "salt" => j.op = "set" /\ ram.hash = None
  BY DEF Enter
<1>3. /\ pc'[t] = l /\ \A b \in Actors : b # t => pc'[b] = pc[b]
      /\ \A b \in Actors : pc[b] \notin UnderWay
  <2>1. l \in Labels /\ TypeOK /\ Mutex
    BY DEF Labels, UnderWay, PassInv
  <2> QED BY <1>1, <1>2, <2>1, Goes, FreeIsIdle
<1>4. /\ job \in [Actors -> Jobs \cup {Idle}] /\ ram \in States
      /\ \A a \in Actors : job[a] = Idle
  BY <1>1, FreeIsQuiet DEF PassInv, TypeOK
<1>5. job'[t] = j /\ \A b \in Actors : b # t => job'[b] = Idle
  BY <1>1, <1>4
<1>6. Served' /\ SaltFirst' /\ nowBar' = nowBar /\ keptBar' = keptBar
  BY <1>1, <1>5 DEF Served, SaltFirst, nowBar, keptBar
<1>7. Rightful' /\ HashFits'
  <2>1. l = "salt" => nowBar = None /\ j.old = None
    BY <1>2, <1>4, AcceptsFacts, JobFacts DEF nowBar
  <2> QED BY <1>2, <1>3, <1>5, <1>6, <2>1 DEF Rightful, HashFits, UnderWay
<1>8. asksBar' = [asksBar EXCEPT ![t] = Request(j)]
  <2>1. Tasks \subseteq Actors
    BY DEF Actors
  <2> QED BY <1>1, <1>4, <2>1 DEF asksBar
<1>9. Guard!Ask(t)
  <2>1. Guard!AllQuiet
    BY <1>1, FreeIsQuiet
  <2>2. Request(j) \in Guard!Requests
    BY JobFacts
  <2> QED BY <1>6, <1>8, <2>1, <2>2 DEF Guard!Ask
<1> QED BY <1>6, <1>7, <1>9

LEMMA ReturnGuards ==
    ASSUME GuardInv, PassInv', NEW t \in Tasks, Return(t)
    PROVE  GuardInv' /\ Guard!Leave(t)
<1> USE DEF GuardInv
<1>1. /\ UNCHANGED <<nvs, ram>> /\ pc[t] \in UnderWay /\ Goto(t, "idle")
      /\ job' = [job EXCEPT ![t] = Idle] /\ t \in Actors /\ "idle" \in Labels
  BY DEF Return, UnderWay, Actors, Labels
<1>2. TypeOK /\ Mutex /\ job \in [Actors -> Jobs \cup {Idle}]
  BY DEF PassInv, TypeOK
<1>3. /\ pc'[t] = "idle" /\ holder = t
      /\ \A b \in Actors : b # t => pc'[b] = pc[b] /\ pc[b] \notin UnderWay
  BY <1>1, <1>2, Goes, WorksAlone
<1>4. \A b \in Actors : job'[b] = Idle
  BY <1>1, <1>2, <1>3 DEF Served
<1>5. Served' /\ SaltFirst' /\ nowBar' = nowBar /\ keptBar' = keptBar
  BY <1>1, <1>4 DEF Served, SaltFirst, nowBar, keptBar
<1>6. Rightful' /\ HashFits'
  BY <1>3 DEF Rightful, HashFits, UnderWay
<1>7. asksBar' = [asksBar EXCEPT ![t] = Guard!Nothing]
  <2>1. Tasks \subseteq Actors /\ Request(Idle) = Guard!Nothing
    BY JobFacts DEF Actors
  <2> QED BY <1>1, <1>2, <2>1 DEF asksBar
<1>8. Guard!Leave(t)
  BY <1>5, <1>7 DEF Guard!Leave
<1> QED BY <1>5, <1>6, <1>8

\* A publisher that goes on without touching the passphrase.
LEMMA PublishGuards ==
    ASSUME GuardInv, PassInv', NEW a \in Actors, RequestReset(a) \/ WipeEarlier(a) \/ WipeLater(a)
    PROVE  GuardInv' /\ Same
<1> USE DEF GuardInv
<1>1. PICK l \in {"publish", "wiping", "restart"} : Goto(a, l)
  BY DEF RequestReset, WipeEarlier, WipeLater
<1>2. UNCHANGED <<nvs, ram, holder, job>>
  BY DEF RequestReset, WipeEarlier, WipeLater
<1>3. pc'[a] = l /\ \A b \in Actors : b # a => pc'[b] = pc[b]
  BY <1>1, Goes DEF Labels, PassInv
<1>4. Served' /\ SaltFirst' /\ Same
  BY <1>2 DEF Served, SaltFirst, Same, nowBar, keptBar, asksBar
<1>5. Rightful' /\ HashFits'
  BY <1>2, <1>3 DEF Rightful, HashFits, nowBar
<1> QED BY <1>4, <1>5

LEMMA ResetGuards ==
    ASSUME GuardInv, PassInv', NEW a \in Actors, WipePassphrase(a)
    PROVE  GuardInv' /\ Guard!Reset
<1> USE DEF GuardInv
<1>1. /\ holder = None /\ WipeBoth /\ Goto(a, "later") /\ UNCHANGED <<holder, job>>
  BY DEF WipePassphrase, CanLock
<1>2. SaltFirst' /\ Guard!Remove /\ Guard!AllQuiet
  BY <1>1, WipeRemoves, FreeIsQuiet
<1>3. pc'[a] = "later" /\ \A b \in Actors : pc'[b] \notin UnderWay
  <2>1. "later" \in Labels /\ "later" \notin UnderWay /\ TypeOK /\ Mutex
    BY DEF Labels, UnderWay, PassInv
  <2> QED BY <1>1, <2>1, Goes, FreeIsIdle
<1>4. Served' /\ Rightful' /\ HashFits' /\ asksBar' = asksBar
  BY <1>1, <1>3 DEF Served, Rightful, HashFits, UnderWay, asksBar
<1> QED BY <1>2, <1>4 DEF Guard!Reset

LEMMA BootGuards ==
    ASSUME GuardInv, PassInv', Boot
    PROVE  GuardInv' /\ Guard!Restart
<1> USE DEF GuardInv
<1>1. /\ ram' = Load(nvs) /\ nvs' = nvs
      /\ pc' = [a \in Actors |-> "idle"] /\ job' = [a \in Actors |-> Idle]
  BY DEF Boot
<1>2. Served' /\ Rightful' /\ HashFits' /\ SaltFirst'
  BY <1>1 DEF Served, Rightful, HashFits, SaltFirst
<1>3. nowBar' = keptBar /\ keptBar' = keptBar
  BY <1>1 DEF nowBar, keptBar
<1>4. asksBar' = [t \in Tasks |-> Guard!Nothing]
  <2>1. Tasks \subseteq Actors /\ Request(Idle) = Guard!Nothing
    BY JobFacts DEF Actors
  <2> QED BY <1>1, <2>1 DEF asksBar
<1> QED BY <1>2, <1>3, <1>4 DEF Guard!Restart

LEMMA GuardInit == Init => GuardInv /\ Guard!Init
<1> SUFFICES ASSUME Init PROVE GuardInv /\ Guard!Init
  OBVIOUS
<1>1. /\ nvs = Empty /\ ram = Empty /\ PassInv
      /\ pc = [a \in Actors |-> "idle"] /\ job = [a \in Actors |-> Idle]
  BY PassInit DEF Init
<1>2. Served /\ Rightful /\ HashFits /\ SaltFirst
  BY <1>1, EmptyFacts DEF Served, Rightful, HashFits, SaltFirst
<1>3. nowBar = None /\ keptBar = None
  BY <1>1, EmptyFacts, AcceptsFacts DEF nowBar, keptBar
<1>4. asksBar = [t \in Tasks |-> Guard!Nothing]
  <2>1. Tasks \subseteq Actors /\ Request(Idle) = Guard!Nothing
    BY JobFacts DEF Actors
  <2> QED BY <1>1, <2>1 DEF asksBar
<1> QED BY <1>1, <1>2, <1>3, <1>4 DEF GuardInv, Guard!Init

LEMMA GuardNext ==
    ASSUME GuardInv, [Next]_vars
    PROVE  GuardInv' /\ [Guard!Next]_(Guard!vars)
<1> USE DEF Guard!Next, Guard!vars
<1>0. PassInv'
  BY PassNext DEF GuardInv
<1>1. ASSUME NEW t \in Tasks, Command(t) PROVE GuardInv' /\ [Guard!Next]_(Guard!vars)
  <2>1. CASE Match(t) \/ Mismatch(t) \/ SetMode(t) \/ DeriveFails(t)
    BY <1>0, <2>1, MatchGuards, QuietGuards, DeriveFailsGuards DEF Same
  <2>2. CASE SaveSalt(t) \/ SaveHash(t) \/ SaveCount(t)
    BY <1>0, <2>2, SaveSaltGuards, SaveHashGuards, SaveCountGuards DEF Same
  <2>3. CASE Wipe(t) \/ Return(t)
    BY <1>0, <2>3, WipeGuards, ReturnGuards
  <2> QED BY <1>1, <2>1, <2>2, <2>3 DEF Command
<1>2. ASSUME NEW t \in Tasks, NEW j \in Jobs, Enter(t, j)
      PROVE  GuardInv' /\ [Guard!Next]_(Guard!vars)
  BY <1>0, <1>2, EnterGuards DEF Same
<1>3. ASSUME NEW a \in Actors, RequestReset(a) \/ FactoryReset(a)
      PROVE  GuardInv' /\ [Guard!Next]_(Guard!vars)
  BY <1>0, <1>3, PublishGuards, ResetGuards, BootGuards DEF FactoryReset, Restart, Same
<1>4. CASE PowerCycle
  BY <1>0, <1>4, BootGuards DEF PowerCycle
<1>5. CASE UNCHANGED vars
  BY <1>0, <1>5 DEF vars, GuardInv, Served, Rightful, SaltFirst, HashFits,
                    nowBar, keptBar, asksBar
<1> QED BY <1>1, <1>2, <1>3, <1>4, <1>5 DEF Next

\* The inductive invariant of the refinement: who is served, on whose word, and
\* how far salt and hash have come.
THEOREM GuardCorrect == Spec => []GuardInv
<1>1. GuardInv /\ [Next]_vars => GuardInv'
  BY GuardNext
<1> QED BY <1>1, GuardInit, PTL DEF Spec

\* Every step of the passphrase is a step of the promised guard or a stutter
\* (the whole of sk_passphrase.c).
THEOREM PassphraseIsGuard == Spec => ImplementsPassphraseGuard
<1>1. Init => Guard!Init
  BY GuardInit
<1>2. GuardInv /\ [Next]_vars => [Guard!Next]_(Guard!vars)
  BY GuardNext
<1> QED BY <1>1, <1>2, GuardCorrect, PTL DEF Spec, ImplementsPassphraseGuard, Guard!Spec
=============================================================================
