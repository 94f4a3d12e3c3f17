---------------------------- MODULE TxSchedProofs ----------------------------
(***************************************************************************)
(* Proofs about TxSched: no frame waits for a station that is on no list,  *)
(* and a removed station is on none, for any number of stations and frames.*)
(***************************************************************************)
EXTENDS TxSched, Integers, SequenceTheorems, TLAPS

-----------------------------------------------------------------------------
(* The inductive invariant.                                                 *)

Once(l) == \A i, j \in 1..Len(l) : l[i] = l[j] => i = j
On(r) == ToSet(round[r].local)

Rounds == [pc : {"idle", "pick", "off", "pend", "readd"}, local : Seq(Stas),
           cur : Stas \cup {NoSta}, gaveUp : BOOLEAN, hand : BOOLEAN]
RoundTyped == round \in [Runners -> Rounds]

(* A station is on one list, once: phy->tx_list or that of a round.         *)
ListsOk ==
  /\ txList \in Seq(Stas) /\ Once(txList)
  /\ \A r \in Runners : Once(round[r].local) /\ On(r) \cap ToSet(txList) = {}
  /\ On("worker") \cap On("caller") = {}

(* A round has a station while it serves it, and a frame in its hands only  *)
(* then; at rest it has nothing.                                            *)
RoundsOk ==
  \A r \in Runners :
    /\ round[r].pc = "idle" => round[r].local = <<>>
    /\ round[r].pc \in {"idle", "pick"} <=> round[r].cur = NoSta
    /\ round[r].hand => round[r].pc \in {"off", "pend"}

(* Each round with a frame in its hands found room for it.                  *)
Hand(r) == IF round[r].hand THEN 1 ELSE 0
QueueOk ==
  /\ queued \in Nat
  /\ queued + Hand("worker") + Hand("caller") <= Room + 1

(* The frames on a station's lists are among those mac80211 has given.      *)
FramesOk ==
  /\ pending \in [Stas -> Nat] /\ offch \in [Stas -> Nat]
  /\ created \in 0..MaxFrames
  /\ \A s \in Stas : pending[s] + offch[s] <= created

FlagsTyped == sched \in BOOLEAN /\ away \in BOOLEAN /\ resetBit \in BOOLEAN

StepsTyped ==
  /\ chan \in {"idle", "switch"} /\ resets \in 0..MaxResets
  /\ reset \in {"no", "set", "flush", "parking", "parked"}
  /\ adding \subseteq Stas /\ skipped \subseteq Stas
  /\ sta \in [Stas -> {"up", "leaving", "synced", "gone"}]

(* Nobody in mt76_tx has a station whose grace period is over.              *)
LeaversOk ==
  \A s \in Stas :
    /\ sta[s] \in {"synced", "gone"} => s \notin adding
    /\ sta[s] = "gone" => ~HasFrames(s) /\ s \notin Listed

KeptListed ==
  \A s \in Stas : HasFrames(s) =>
    \/ s \in Listed \cup adding \cup skipped
    \/ \E r \in Runners : round[r].cur = s

IInv ==
  /\ RoundTyped /\ FlagsTyped /\ StepsTyped
  /\ ListsOk /\ RoundsOk /\ QueueOk /\ FramesOk /\ LeaversOk /\ KeptListed

-----------------------------------------------------------------------------
(* A list without repetitions: what adding, taking and removing do to it.   *)

LEMMA OnceAppend ==
  ASSUME NEW S, NEW l \in Seq(S), Once(l), NEW s \in S, s \notin ToSet(l)
  PROVE  /\ Append(l, s) \in Seq(S) /\ Once(Append(l, s))
         /\ ToSet(Append(l, s)) = ToSet(l) \cup {s}
<1> DEFINE m == Append(l, s)
           n == Len(l)
<1>1. /\ m \in Seq(S) /\ Len(m) = n + 1 /\ n \in Nat
      /\ \A i \in 1..n : m[i] = l[i]
      /\ m[n + 1] = s
  BY AppendProperties
<1>2. DOMAIN l = 1..n /\ DOMAIN m = 1..(n + 1)
  BY <1>1, LenProperties
<1> HIDE DEF m, n
<1>3. \A i \in 1..n : l[i] # s
  BY <1>2 DEF ToSet
<1>4. Once(m)
  <2> SUFFICES ASSUME NEW i \in 1..(n + 1), NEW j \in 1..(n + 1), m[i] = m[j]
               PROVE  i = j
    BY <1>1 DEF Once
  <2>1. CASE i = n + 1 \/ j = n + 1
    BY <2>1, <1>1, <1>3
  <2>2. CASE i # n + 1 /\ j # n + 1
    <3>1. i \in 1..n /\ j \in 1..n
      BY <2>2, <1>1
    <3> QED BY <3>1, <1>1 DEF Once, n
  <2> QED BY <2>1, <2>2
<1>5. ToSet(m) = ToSet(l) \cup {s}
  <2>1. 1..(n + 1) = 1..n \cup {n + 1}
    BY <1>1
  <2> QED BY <2>1, <1>1, <1>2 DEF ToSet
<1> QED BY <1>1, <1>4, <1>5 DEF m

LEMMA OnceTail ==
  ASSUME NEW S, NEW l \in Seq(S), Once(l), l # <<>>
  PROVE  /\ Head(l) \in S /\ Head(l) \in ToSet(l)
         /\ Tail(l) \in Seq(S) /\ Once(Tail(l))
         /\ ToSet(Tail(l)) = ToSet(l) \ {Head(l)}
<1> DEFINE m == Tail(l)
           n == Len(l)
<1>1. /\ m \in Seq(S) /\ Len(m) = n - 1 /\ n \in Nat /\ n >= 1
      /\ \A i \in 1..(n - 1) : m[i] = l[i + 1]
      /\ Head(l) \in S /\ Head(l) = l[1]
  BY HeadTailProperties, EmptySeq
<1>2. DOMAIN l = 1..n /\ DOMAIN m = 1..(n - 1)
  BY <1>1, LenProperties
<1>3. \A i, j \in 1..n : l[i] = l[j] => i = j
  BY DEF Once
<1> HIDE DEF m, n
<1>4. Once(m)
  BY <1>1, <1>3 DEF Once
<1>5. ToSet(m) \subseteq ToSet(l) \ {Head(l)}
  BY <1>1, <1>2, <1>3 DEF ToSet
<1>6. ASSUME NEW x \in ToSet(l), x # Head(l) PROVE x \in ToSet(m)
  <2>1. PICK i \in 1..n : x = l[i]
    BY <1>2 DEF ToSet
  <2>2. i # 1
    BY <2>1, <1>6, <1>1
  <2>3. i - 1 \in 1..(n - 1) /\ m[i - 1] = x
    BY <2>1, <2>2, <1>1
  <2> QED BY <2>3, <1>2 DEF ToSet
<1>7. Head(l) \in ToSet(l)
  BY <1>1, <1>2 DEF ToSet
<1> QED BY <1>1, <1>4, <1>5, <1>6, <1>7 DEF m

LEMMA OnceRemove ==
  ASSUME NEW S, NEW l \in Seq(S), Once(l), NEW s
  PROVE  /\ RemoveFirst(l, s) \in Seq(S) /\ Once(RemoveFirst(l, s))
         /\ ToSet(RemoveFirst(l, s)) = ToSet(l) \ {s}
<1> DEFINE n == Len(l)
<1>1. n \in Nat /\ DOMAIN l = 1..n /\ \A i \in 1..n : l[i] \in S
  BY LenProperties, ElementOfSeq
<1>2. CASE ~\E i \in 1..n : l[i] = s
  <2>1. RemoveFirst(l, s) = l
    BY <1>2 DEF RemoveFirst
  <2> QED BY <2>1, <1>1, <1>2 DEF ToSet
<1>3. ASSUME NEW k \in 1..n, l[k] = s
      PROVE  /\ RemoveFirst(l, s) \in Seq(S) /\ Once(RemoveFirst(l, s))
             /\ ToSet(RemoveFirst(l, s)) = ToSet(l) \ {s}
  <2>1. RemoveFirst(l, s) = RemoveAt(l, SelectInSeq(l, LAMBDA v : v = s))
    BY <1>3 DEF RemoveFirst
  <2>2. SelectInSeq(l, LAMBDA v : v = s) = k
    <3>1. {i \in 1..n : l[i] = s} = {k}
      BY <1>3, <1>1 DEF Once
    <3> QED BY <3>1, <1>3 DEF SelectInSeq, Min
  <2> DEFINE m == RemoveAt(l, k)
  <2>3. m = SubSeq(l, 1, k - 1) \o SubSeq(l, k + 1, n)
    BY DEF RemoveAt
  <2> DEFINE a == SubSeq(l, 1, k - 1)
             b == SubSeq(l, k + 1, n)
  <2>4. /\ a \in Seq(S) /\ Len(a) = k - 1
        /\ \A i \in 1..(k - 1) : a[i] = l[i]
    <3>1. /\ a \in Seq(S) /\ Len(a) = IF 1 <= k - 1 THEN k - 1 - 1 + 1 ELSE 0
          /\ \A i \in 1..(k - 1 - 1 + 1) : a[i] = l[1 + i - 1]
      <4>1. 1 \in Int /\ k - 1 \in Int /\ \A i \in 1..(k - 1) : l[i] \in S
        BY <1>1
      <4> HIDE DEF n
      <4> QED BY <4>1, SubSeqProperties
    <3> HIDE DEF a
    <3> QED BY <3>1, <1>1
  <2>5. /\ b \in Seq(S) /\ Len(b) = n - k
        /\ \A i \in 1..(n - k) : b[i] = l[k + i]
    <3>1. /\ b \in Seq(S) /\ Len(b) = IF k + 1 <= n THEN n - (k + 1) + 1 ELSE 0
          /\ \A i \in 1..(n - (k + 1) + 1) : b[i] = l[k + 1 + i - 1]
      <4>1. k + 1 \in Int /\ n \in Int /\ \A i \in (k + 1)..n : l[i] \in S
        BY <1>1
      <4> HIDE DEF n
      <4> QED BY <4>1, SubSeqProperties
    <3> HIDE DEF b, n
    <3>2. n - (k + 1) + 1 = n - k /\ \A i \in 1..(n - k) : k + 1 + i - 1 = k + i
      BY <1>1
    <3>3. Len(b) = n - k
      BY <3>1, <1>1
    <3> QED BY <3>1, <3>2, <3>3
  <2>6. m \in Seq(S) /\ Len(m) = Len(a) + Len(b) /\ m = a \o b
        /\ \A i \in 1..(Len(a) + Len(b)) :
             m[i] = IF i <= Len(a) THEN a[i] ELSE b[i - Len(a)]
    <3>1. m = a \o b
      BY <2>3
    <3> HIDE DEF a, b, m
    <3> QED BY <3>1, <2>4, <2>5, ConcatProperties
  <2> HIDE DEF a, b, m
  <2> DEFINE at(i) == IF i < k THEN i ELSE i + 1
  <2>7. /\ Len(m) = n - 1 /\ DOMAIN m = 1..(n - 1)
        /\ \A i \in 1..(n - 1) : m[i] = l[at(i)]
    <3>1. Len(m) = n - 1 /\ DOMAIN m = 1..(n - 1)
      BY <2>4, <2>5, <2>6, <1>1, LenProperties
    <3>2. ASSUME NEW i \in 1..(n - 1), i < k PROVE m[i] = l[i]
      BY <2>4, <2>5, <2>6, <1>1, <3>2
    <3>3. ASSUME NEW i \in 1..(n - 1), ~(i < k) PROVE m[i] = l[i + 1]
      <4>1. i - (k - 1) \in 1..(n - k) /\ k + (i - (k - 1)) = i + 1
        BY <1>1, <3>3
      <4>2. i \in 1..(Len(a) + Len(b)) /\ ~(i <= Len(a)) /\ i - Len(a) = i - (k - 1)
        BY <1>1, <2>4, <2>5, <3>3
      <4>3. m[i] = b[i - (k - 1)]
        BY <2>6, <4>2
      <4> QED BY <2>5, <4>1, <4>3
    <3> QED BY <3>1, <3>2, <3>3
  <2>8. /\ \A i, j \in 1..n : l[i] = l[j] => i = j
        /\ \A i \in 1..(n - 1) : at(i) \in 1..n /\ at(i) # k
        /\ \A i, j \in 1..(n - 1) : at(i) = at(j) => i = j
    BY <1>1 DEF Once
  <2> HIDE DEF n, at
  <2>9. Once(m)
    BY <2>7, <2>8 DEF Once
  <2>10. ToSet(m) \subseteq ToSet(l) \ {s}
    BY <2>7, <2>8, <1>1, <1>3 DEF ToSet
  <2>11. ASSUME NEW x \in ToSet(l), x # s PROVE x \in ToSet(m)
    <3>1. PICK i \in 1..n : x = l[i]
      BY <1>1 DEF ToSet
    <3>2. i # k
      BY <3>1, <2>11, <1>3
    <3> DEFINE j == IF i < k THEN i ELSE i - 1
    <3>3. j \in 1..(n - 1) /\ at(j) = i
      BY <3>1, <3>2, <1>1 DEF at
    <3> HIDE DEF j
    <3>4. m[j] = x
      BY <3>1, <3>3, <2>7
    <3> QED BY <3>3, <3>4, <2>7 DEF ToSet
  <2>12. RemoveFirst(l, s) = m
    BY <2>1, <2>2 DEF m
  <2> QED BY <2>6, <2>9, <2>10, <2>11, <2>12
<1> QED BY <1>2, <1>3

LEMMA OnceConcat ==
  ASSUME NEW S, NEW a \in Seq(S), NEW b \in Seq(S), Once(a), Once(b),
         ToSet(a) \cap ToSet(b) = {}
  PROVE  /\ a \o b \in Seq(S) /\ Once(a \o b) /\ IsInjective(a \o b)
         /\ ToSet(a \o b) = ToSet(a) \cup ToSet(b)
<1> DEFINE m == a \o b
           p == Len(a)
           q == Len(b)
<1>1. /\ m \in Seq(S) /\ Len(m) = p + q /\ p \in Nat /\ q \in Nat
      /\ \A i \in 1..(p + q) : m[i] = IF i <= p THEN a[i] ELSE b[i - p]
  BY ConcatProperties
<1>2. DOMAIN a = 1..p /\ DOMAIN b = 1..q /\ DOMAIN m = 1..(p + q)
  BY <1>1, LenProperties
<1>3. /\ \A i, j \in 1..p : a[i] = a[j] => i = j
      /\ \A i, j \in 1..q : b[i] = b[j] => i = j
  BY DEF Once
<1> HIDE DEF m, p, q
<1>4. \A i \in 1..p, j \in 1..q : a[i] # b[j]
  BY <1>2 DEF ToSet
<1>5. \A i, j \in 1..(p + q) : m[i] = m[j] => i = j
  BY <1>1, <1>3, <1>4
<1>6. ToSet(m) \subseteq ToSet(a) \cup ToSet(b)
  <2>0. ToSet(m) = {m[i] : i \in 1..(p + q)}
    BY <1>2 DEF ToSet
  <2> SUFFICES ASSUME NEW i \in 1..(p + q) PROVE m[i] \in ToSet(a) \cup ToSet(b)
    BY <2>0
  <2>1. CASE i <= p
    <3>1. i \in 1..p /\ m[i] = a[i]
      BY <2>1, <1>1
    <3> QED BY <3>1, <1>2 DEF ToSet
  <2>2. CASE ~(i <= p)
    <3>1. i - p \in 1..q /\ m[i] = b[i - p]
      BY <2>2, <1>1
    <3> QED BY <3>1, <1>2 DEF ToSet
  <2> QED BY <2>1, <2>2
<1>7. ToSet(a) \subseteq ToSet(m)
  <2> SUFFICES ASSUME NEW i \in 1..p PROVE a[i] \in ToSet(m)
    BY <1>2 DEF ToSet
  <2>1. i \in 1..(p + q) /\ m[i] = a[i]
    BY <1>1
  <2> QED BY <2>1, <1>2 DEF ToSet
<1>8. ToSet(b) \subseteq ToSet(m)
  <2> SUFFICES ASSUME NEW j \in 1..q PROVE b[j] \in ToSet(m)
    BY <1>2 DEF ToSet
  <2>1. j + p \in 1..(p + q) /\ m[j + p] = b[j]
    BY <1>1
  <2> QED BY <2>1, <1>2 DEF ToSet
<1>9. Once(m) /\ IsInjective(m)
  BY <1>1, <1>2, <1>5 DEF Once, IsInjective
<1> QED BY <1>1, <1>6, <1>7, <1>8, <1>9 DEF m

-----------------------------------------------------------------------------
(* Steps that leave the lists and the rounds alone.                         *)

LEMMA EnvStep ==
  ASSUME IInv,
         WakeTxQueue \/ ChanSwitch \/ ResetBegin \/ ResetPark \/ ResetEnd \/ UNCHANGED vars
  PROVE  IInv'
<1>1. UNCHANGED <<listVars, sta, round, queued, created>>
  BY DEF WakeTxQueue, ChanSwitch, ResetBegin, ResetPark, ResetEnd, vars, roundVars
<1>2. FlagsTyped'
  BY Zenon DEF IInv, FlagsTyped, WakeTxQueue, ChanSwitch, ResetBegin, ResetPark, ResetEnd,
               vars, roundVars, envVars
<1>3. StepsTyped'
  BY TxSchedConstants DEF IInv, StepsTyped, WakeTxQueue, ChanSwitch, ResetBegin,
     ResetPark, ResetEnd, vars, roundVars, envVars, listVars
<1>4. RoundTyped' /\ ListsOk' /\ RoundsOk' /\ QueueOk'
  BY <1>1 DEF IInv, RoundTyped, ListsOk, RoundsOk, QueueOk, Hand, On, listVars
<1>5. FramesOk' /\ LeaversOk' /\ KeptListed'
  BY <1>1 DEF IInv, FramesOk, LeaversOk, KeptListed, Listed, HasFrames, listVars
<1> QED BY <1>2, <1>3, <1>4, <1>5 DEF IInv

LEMMA CompleteStep == ASSUME IInv, Complete PROVE IInv'
<1>1. UNCHANGED <<listVars, sta, round, envVars, created>>
  BY DEF Complete
<1>2. FlagsTyped' /\ StepsTyped'
  BY DEF IInv, FlagsTyped, StepsTyped, Complete, listVars, envVars
<1>3. RoundTyped' /\ ListsOk' /\ RoundsOk'
  BY <1>1 DEF IInv, RoundTyped, ListsOk, RoundsOk, On, listVars
<1>4. QueueOk'
  BY TxSchedConstants DEF IInv, QueueOk, Hand, Complete
<1>5. FramesOk' /\ LeaversOk' /\ KeptListed'
  BY <1>1 DEF IInv, FramesOk, LeaversOk, KeptListed, Listed, HasFrames, listVars
<1> QED BY <1>2, <1>3, <1>4, <1>5 DEF IInv

(* mt76_tx has the frame on the list before the station is listed.          *)
LEMMA TxAppendStep == ASSUME IInv, TxAppend PROVE IInv'
<1>1. PICK s \in Stas \ adding :
        /\ sta[s] = "up" /\ created < MaxFrames /\ created' = created + 1
        /\ \/ pending' = [pending EXCEPT ![s] = @ + 1] /\ offch' = offch
           \/ offch' = [offch EXCEPT ![s] = @ + 1] /\ pending' = pending
        /\ adding' = adding \cup {s}
        /\ UNCHANGED <<txList, skipped, sta, roundVars, envVars, queued>>
  BY DEF TxAppend
<1>2. FlagsTyped' /\ StepsTyped'
  BY <1>1 DEF IInv, FlagsTyped, StepsTyped, roundVars, envVars
<1>3. RoundTyped' /\ ListsOk' /\ RoundsOk' /\ QueueOk'
  BY <1>1 DEF IInv, RoundTyped, ListsOk, RoundsOk, QueueOk, Hand, On, roundVars
<1>4. FramesOk'
  BY <1>1, TxSchedConstants DEF IInv, FramesOk
<1>5. \A t \in Stas : t # s => HasFrames(t)' = HasFrames(t)
  BY <1>1 DEF IInv, FramesOk, HasFrames
<1>6. Listed' = Listed
  BY <1>1 DEF Listed, roundVars
<1>7. LeaversOk'
  BY <1>1, <1>5, <1>6 DEF IInv, LeaversOk
<1>8. KeptListed'
  BY <1>1, <1>5, <1>6 DEF IInv, KeptListed, roundVars
<1> QED BY <1>2, <1>3, <1>4, <1>7, <1>8 DEF IInv

(* Only a station that is on no list is added to one.                       *)
LEMMA ListedIsUnion == Listed = ToSet(txList) \cup On("worker") \cup On("caller")
BY DEF Listed, On, Runners

LEMMA TxListedStep == ASSUME IInv, TxListed PROVE IInv'
<1>1. PICK s \in adding :
        /\ txList' = IF s \in Listed THEN txList ELSE Append(txList, s)
        /\ adding' = adding \ {s} /\ skipped' = skipped \ {s}
        /\ sched' = TRUE
        /\ UNCHANGED <<pending, offch, sta, round, envVars, queued, created>>
  BY DEF TxListed
<1>2. FlagsTyped' /\ StepsTyped' /\ s \in Stas
  BY <1>1 DEF IInv, FlagsTyped, StepsTyped, envVars
<1>3. RoundTyped' /\ RoundsOk' /\ QueueOk' /\ FramesOk'
  BY <1>1 DEF IInv, RoundTyped, RoundsOk, QueueOk, Hand, FramesOk
<1>4. \A r \in Runners : On(r)' = On(r)
  BY <1>1 DEF On
<1>5. /\ txList' \in Seq(Stas) /\ Once(txList)'
      /\ s \notin Listed => ToSet(txList)' = ToSet(txList) \cup {s}
      /\ s \in Listed => txList' = txList
  <2>1. CASE s \in Listed
    BY <2>1, <1>1 DEF IInv, ListsOk
  <2>2. CASE s \notin Listed
    <3>1. s \notin ToSet(txList) /\ txList' = Append(txList, s)
      BY <2>2, <1>1 DEF Listed
    <3>2. txList \in Seq(Stas) /\ Once(txList)
      BY DEF IInv, ListsOk
    <3> QED BY <3>1, <3>2, <2>2, <1>2, OnceAppend
  <2> QED BY <2>1, <2>2
<1>6. ListsOk'
  <2>1. \A r \in Runners : On(r)' \cap ToSet(txList)' = {}
    BY <1>4, <1>5, ListedIsUnion DEF IInv, ListsOk, Runners
  <2>2. On("worker")' \cap On("caller")' = {}
    BY <1>4 DEF IInv, ListsOk, Runners
  <2> QED BY <2>1, <2>2, <1>1, <1>5 DEF IInv, ListsOk
<1>7. Listed' = Listed \cup {s}
  BY <1>4, <1>5, ListedIsUnion DEF Listed, On
<1>8. LeaversOk'
  BY <1>1, <1>2, <1>7 DEF IInv, LeaversOk, HasFrames
<1>9. KeptListed'
  BY <1>1, <1>7 DEF IInv, KeptListed, HasFrames
<1> QED BY <1>2, <1>3, <1>6, <1>8, <1>9 DEF IInv

(* A station's life.                                                        *)
LEMMA StaStep == ASSUME IInv, StaLeave \/ StaSync PROVE IInv'
<1>1. PICK s \in Leavers :
        /\ \/ sta' = [sta EXCEPT ![s] = "leaving"]
           \/ s \notin adding /\ sta' = [sta EXCEPT ![s] = "synced"]
        /\ UNCHANGED <<listVars, roundVars, envVars, queued, created>>
  BY DEF StaLeave, StaSync, OnlySta
<1>2. FlagsTyped' /\ StepsTyped'
  BY <1>1, TxSchedConstants DEF IInv, FlagsTyped, StepsTyped, listVars, roundVars, envVars
<1>3. RoundTyped' /\ ListsOk' /\ RoundsOk' /\ QueueOk'
  BY <1>1 DEF IInv, RoundTyped, ListsOk, RoundsOk, QueueOk, Hand, On, listVars, roundVars
<1>4. FramesOk' /\ KeptListed'
  BY <1>1 DEF IInv, FramesOk, KeptListed, Listed, HasFrames, listVars, roundVars
<1>5. LeaversOk'
  <2>1. Listed' = Listed /\ adding' = adding /\ \A t \in Stas : HasFrames(t)' = HasFrames(t)
    BY <1>1 DEF Listed, HasFrames, listVars, roundVars
  <2>2. \A t \in Stas : t # s => sta'[t] = sta[t]
    BY <1>1 DEF IInv, StepsTyped
  <2>3. sta'[s] = "leaving" \/ (sta'[s] = "synced" /\ s \notin adding)
    BY <1>1, TxSchedConstants DEF IInv, StepsTyped
  <2> QED BY <2>1, <2>2, <2>3 DEF IInv, LeaversOk
<1> QED BY <1>2, <1>3, <1>4, <1>5 DEF IInv

(* mt76_wcid_cleanup takes the station from every list.                     *)
LEMMA CleanupStep == ASSUME IInv, Cleanup PROVE IInv'
<1>1. PICK s \in Leavers :
        /\ sta[s] = "synced" /\ sta' = [sta EXCEPT ![s] = "gone"]
        /\ pending' = [pending EXCEPT ![s] = 0] /\ offch' = [offch EXCEPT ![s] = 0]
        /\ txList' = RemoveFirst(txList, s)
        /\ round' = [r \in Runners |-> [round[r] EXCEPT !.local = RemoveFirst(@, s)]]
        /\ skipped' = skipped \ {s}
        /\ UNCHANGED <<adding, sched, envVars, queued, created>>
  BY DEF Cleanup
<1>2. FlagsTyped' /\ StepsTyped' /\ s \in Stas
  BY <1>1, TxSchedConstants DEF IInv, FlagsTyped, StepsTyped, envVars
<1>3. \A r \in Runners : round[r] \in Rounds
  BY DEF IInv, RoundTyped
<1>4. \A r \in Runners :
        /\ round'[r].pc = round[r].pc /\ round'[r].cur = round[r].cur
        /\ round'[r].gaveUp = round[r].gaveUp /\ round'[r].hand = round[r].hand
        /\ round'[r].local = RemoveFirst(round[r].local, s)
  BY <1>1, <1>3 DEF Rounds
<1>5. \A r \in Runners :
        /\ round'[r].local \in Seq(Stas) /\ Once(round'[r].local)
        /\ On(r)' = On(r) \ {s}
  <2> SUFFICES ASSUME NEW r \in Runners
               PROVE  /\ round'[r].local \in Seq(Stas) /\ Once(round'[r].local)
                      /\ ToSet(round'[r].local) = ToSet(round[r].local) \ {s}
    BY DEF On
  <2>1. round[r].local \in Seq(Stas) /\ Once(round[r].local)
    BY <1>3 DEF Rounds, IInv, ListsOk
  <2> QED BY <2>1, <1>4, OnceRemove
<1>6. txList' \in Seq(Stas) /\ Once(txList)' /\ ToSet(txList)' = ToSet(txList) \ {s}
  BY <1>1, OnceRemove DEF IInv, ListsOk
<1>7. RoundTyped'
  <2>1. \A r \in Runners : [round[r] EXCEPT !.local = RemoveFirst(@, s)] \in Rounds
    BY <1>1, <1>3, <1>4, <1>5 DEF Rounds
  <2> QED BY <2>1, <1>1 DEF RoundTyped
<1>8. ListsOk'
  BY <1>5, <1>6 DEF IInv, ListsOk, Runners
<1>9. Listed' = Listed \ {s}
  BY <1>5, <1>6, ListedIsUnion DEF Listed, On, Runners
<1>10. RoundsOk'
  <2> SUFFICES ASSUME NEW r \in Runners, round[r].pc = "idle"
               PROVE  RemoveFirst(round[r].local, s) = <<>>
    BY <1>4 DEF IInv, RoundsOk
  <2>1. round[r].local = <<>>
    BY DEF IInv, RoundsOk
  <2> QED BY <2>1 DEF RemoveFirst
<1>11. QueueOk'
  BY <1>1, <1>4 DEF IInv, QueueOk, Hand, Runners
<1>12. FramesOk' /\ ~HasFrames(s)' /\ \A t \in Stas : t # s => HasFrames(t)' = HasFrames(t)
  BY <1>1, <1>2 DEF IInv, FramesOk, HasFrames
<1>13. LeaversOk'
  BY <1>1, <1>2, <1>9, <1>12 DEF IInv, LeaversOk, StepsTyped
<1>14. KeptListed'
  BY <1>1, <1>4, <1>9, <1>12 DEF IInv, KeptListed
<1> QED BY <1>2, <1>7, <1>8, <1>10, <1>11, <1>12, <1>13, <1>14 DEF IInv

-----------------------------------------------------------------------------
(* The steps of a round.                                                    *)

LEMMA StepSets ==
  ASSUME RoundTyped, NEW r \in Runners, NEW new \in Rounds, Step(r, new)
  PROVE  /\ RoundTyped' /\ round'[r] = new
         /\ \A o \in Runners : o # r => round'[o] = round[o] /\ On(o)' = On(o)
BY DEF RoundTyped, Step, On

(* The parts of the invariant that speak of one round at a time.            *)
LEMMA StepRounds ==
  ASSUME RoundTyped, RoundsOk, NEW r \in Runners, NEW new \in Rounds, Step(r, new),
         new.pc = "idle" => new.local = <<>>,
         new.pc \in {"idle", "pick"} <=> new.cur = NoSta,
         new.hand => new.pc \in {"off", "pend"}
  PROVE  RoundsOk'
BY StepSets DEF RoundsOk

(* A step of a round that leaves the lists alone and keeps its station.     *)
LEMMA StepKeeps ==
  ASSUME RoundTyped, NEW r \in Runners, NEW new \in Rounds, Step(r, new),
         new.local = round[r].local, txList' = txList
  PROVE  /\ Listed' = Listed
         /\ ListsOk => ListsOk'
<1>1. \A o \in Runners : round'[o].local = round[o].local /\ On(o)' = On(o)
  BY StepSets DEF On
<1>2. Listed' = Listed
  BY <1>1 DEF Listed
<1>3. ListsOk => ListsOk'
  BY <1>1 DEF ListsOk, Runners
<1> QED BY <1>2, <1>3

LEMMA StartStep == ASSUME IInv, NEW r \in Runners, RoundStart(r) PROVE IInv'
<1> DEFINE new == [Idle EXCEPT !.pc = "pick", !.local = txList]
<1>1. /\ round[r].pc = "idle" /\ Step(r, new) /\ txList' = <<>>
      /\ UNCHANGED <<pending, offch, adding, skipped, sta, away, resetBit, resets,
                     queued, created>>
      /\ sched' \in {sched, FALSE} /\ chan' \in {chan, "switch"}
      /\ reset' \in {reset, "flush"}
  BY DEF RoundStart
<1>2. /\ new.pc = "pick" /\ new.local = txList /\ new.cur = NoSta
      /\ ~new.hand
  BY DEF Idle
<1>3. new \in Rounds
  BY DEF Idle, Rounds, IInv, ListsOk
<1> HIDE DEF new
<1>4. RoundTyped' /\ RoundsOk'
  BY <1>1, <1>2, <1>3, StepSets, StepRounds DEF IInv
<1>5. FlagsTyped' /\ StepsTyped'
  <2>1. FlagsTyped'
    BY <1>1, Zenon DEF IInv, FlagsTyped
  <2>2. StepsTyped'
    BY <1>1 DEF IInv, StepsTyped
  <2> QED BY <2>1, <2>2
<1>6. round[r].local = <<>> /\ round[r].cur = NoSta /\ ~round[r].hand
  BY <1>1 DEF IInv, RoundsOk
<1>7. /\ round'[r] = new
      /\ \A o \in Runners : o # r => round'[o] = round[o] /\ On(o)' = On(o)
  BY <1>1, <1>3, StepSets DEF IInv
<1>8. On(r) = {} /\ On(r)' = ToSet(txList) /\ ToSet(txList)' = {}
  BY <1>1, <1>2, <1>6, <1>7 DEF On, ToSet
<1>9. ListsOk'
  <2>1. txList' \in Seq(Stas) /\ Once(txList)'
    BY <1>1 DEF Once
  <2>2. \A o \in Runners : Once(round[o].local)' /\ On(o)' \cap ToSet(txList)' = {}
    BY <1>2, <1>7, <1>8 DEF IInv, ListsOk
  <2>3. On("worker")' \cap On("caller")' = {}
    BY <1>7, <1>8 DEF IInv, ListsOk, Runners
  <2> QED BY <2>1, <2>2, <2>3 DEF ListsOk
<1>10. Listed' = Listed
  <2>1. Listed' = ToSet(txList)' \cup On("worker")' \cup On("caller")'
    BY ListedIsUnion DEF Listed, On, Runners
  <2> QED BY <2>1, <1>7, <1>8, ListedIsUnion DEF Runners
<1>11. QueueOk'
  <2>1. \A o \in Runners : Hand(o)' = Hand(o)
    BY <1>2, <1>6, <1>7 DEF Hand
  <2> QED BY <2>1, <1>1 DEF IInv, QueueOk, Runners
<1>12. FramesOk' /\ LeaversOk'
  BY <1>1, <1>10 DEF IInv, FramesOk, LeaversOk, HasFrames
<1>13. KeptListed'
  <2>1. \A o \in Runners : round'[o].cur = round[o].cur
    BY <1>2, <1>6, <1>7
  <2> QED BY <2>1, <1>1, <1>10 DEF IInv, KeptListed, HasFrames
<1> QED BY <1>4, <1>5, <1>9, <1>11, <1>12, <1>13 DEF IInv

LEMMA PickStep == ASSUME IInv, NEW r \in Runners, RoundPick(r) PROVE IInv'
<1> DEFINE l == round[r].local
           new == [round[r] EXCEPT !.pc = "off", !.cur = Head(l), !.local = Tail(l)]
<1>1. /\ round[r].pc = "pick" /\ l # <<>> /\ Step(r, new)
      /\ UNCHANGED <<listVars, sta, sched, envVars, queued, created>>
  BY DEF RoundPick
<1>2. round[r] \in Rounds /\ l \in Seq(Stas) /\ Once(l)
  BY DEF IInv, RoundTyped, Rounds, ListsOk
<1>3. /\ Head(l) \in Stas /\ Head(l) \in ToSet(l)
      /\ Tail(l) \in Seq(Stas) /\ Once(Tail(l)) /\ ToSet(Tail(l)) = ToSet(l) \ {Head(l)}
  <2> HIDE DEF l
  <2> QED BY <1>1, <1>2, OnceTail
<1>4. /\ new \in Rounds /\ new.pc = "off" /\ new.cur = Head(l) /\ new.local = Tail(l)
      /\ new.hand = round[r].hand
  BY <1>2, <1>3 DEF Rounds
<1>5. Head(l) # NoSta /\ ~round[r].hand /\ round[r].cur = NoSta
  BY <1>1, <1>3, TxSchedConstants DEF IInv, RoundsOk
<1> HIDE DEF new
<1>6. RoundTyped' /\ RoundsOk'
  BY <1>1, <1>4, <1>5, StepSets, StepRounds DEF IInv
<1>7. /\ round'[r] = new
      /\ \A o \in Runners : o # r => round'[o] = round[o] /\ On(o)' = On(o)
  BY <1>1, <1>4, StepSets DEF IInv
<1>8. FlagsTyped' /\ StepsTyped' /\ FramesOk'
  BY <1>1 DEF IInv, FlagsTyped, StepsTyped, FramesOk, listVars, envVars
<1>9. On(r)' = On(r) \ {Head(l)} /\ Head(l) \in On(r) /\ txList' = txList
  BY <1>1, <1>3, <1>4, <1>7 DEF On, listVars
<1>10. ListsOk'
  <2>1. \A o \in Runners : Once(round[o].local)' /\ On(o)' \subseteq On(o)
    BY <1>3, <1>4, <1>7, <1>9 DEF IInv, ListsOk
  <2> HIDE DEF l
  <2> QED BY <2>1, <1>9 DEF IInv, ListsOk, Runners
<1>11. Listed' \subseteq Listed /\ Listed \subseteq Listed' \cup {Head(l)}
  <2>1. Listed' = ToSet(txList)' \cup On("worker")' \cup On("caller")'
    BY ListedIsUnion DEF Listed, On, Runners
  <2> HIDE DEF l
  <2> QED BY <2>1, <1>7, <1>9, ListedIsUnion DEF Runners
<1>12. QueueOk'
  BY <1>1, <1>4, <1>7 DEF IInv, QueueOk, Hand, Runners
<1>13. LeaversOk'
  BY <1>1, <1>11 DEF IInv, LeaversOk, HasFrames, listVars
<1>14. KeptListed'
  <2> SUFFICES ASSUME NEW s \in Stas, HasFrames(s)'
               PROVE  \/ s \in Listed' \cup adding' \cup skipped'
                      \/ \E o \in Runners : round'[o].cur = s
    BY DEF KeptListed
  <2>1. HasFrames(s) /\ adding' = adding /\ skipped' = skipped
    BY <1>1 DEF HasFrames, listVars
  <2>2. CASE s = Head(l)
    BY <2>2, <1>4, <1>7
  <2>3. CASE s # Head(l) /\ s \in Listed \cup adding \cup skipped
    BY <2>3, <2>1, <1>11
  <2>4. ASSUME NEW o \in Runners, round[o].cur = s PROVE round'[o].cur = s
    BY <2>4, <1>5, <1>7, TxSchedConstants
  <2> QED BY <2>1, <2>2, <2>3, <2>4 DEF IInv, KeptListed
<1> QED BY <1>6, <1>8, <1>10, <1>12, <1>13, <1>14 DEF IInv

(* Room was left when the frame was taken.                                  *)
LEMMA TakeStep == ASSUME IInv, NEW r \in Runners, ServeTake(r) PROVE IInv'
<1> DEFINE new == [round[r] EXCEPT !.hand = TRUE]
<1>1. round[r] \in Rounds /\ round[r].pc \in {"off", "pend"} /\ round[r].cur # NoSta
  BY DEF IInv, RoundTyped, RoundsOk, ServeTake
<1>2. PICK s \in Stas : s = round[r].cur
  BY <1>1 DEF Rounds
<1>3. /\ Step(r, new) /\ ~round[r].hand /\ queued < Room
      /\ \/ offch[s] > 0 /\ offch' = [offch EXCEPT ![s] = @ - 1] /\ pending' = pending
         \/ pending[s] > 0 /\ pending' = [pending EXCEPT ![s] = @ - 1] /\ offch' = offch
      /\ UNCHANGED <<txList, adding, skipped, sta, sched, envVars, queued, created>>
  <2>1. ~(queued >= Room) /\ Step(r, new) /\ ~round[r].hand
    BY DEF ServeTake, Stopped
  <2>2. queued < Room
    BY <2>1, TxSchedConstants DEF IInv, QueueOk
  <2> QED BY <1>2, <2>1, <2>2 DEF ServeTake, Left
<1>4. /\ new \in Rounds /\ new.pc = round[r].pc /\ new.cur = round[r].cur
      /\ new.local = round[r].local /\ new.hand
  BY <1>1 DEF Rounds
<1> HIDE DEF new
<1>5. RoundTyped' /\ RoundsOk'
  <2>1. new.pc \in {"off", "pend"} /\ new.cur # NoSta
    BY <1>1, <1>4
  <2> QED BY <1>3, <1>4, <2>1, StepSets, StepRounds DEF IInv
<1>6. /\ round'[r] = new
      /\ \A o \in Runners : o # r => round'[o] = round[o]
  BY <1>3, <1>4, StepSets DEF IInv
<1>7. Listed' = Listed /\ ListsOk'
  BY <1>3, <1>4, StepKeeps DEF IInv
<1>8. FlagsTyped' /\ StepsTyped'
  BY <1>3 DEF IInv, FlagsTyped, StepsTyped, envVars
<1>9. QueueOk'
  BY <1>3, <1>4, <1>6, TxSchedConstants DEF IInv, QueueOk, Hand, Runners
<1>10. /\ FramesOk'
       /\ \A t \in Stas : HasFrames(t)' => HasFrames(t)
  BY <1>3 DEF IInv, FramesOk, HasFrames
<1>11. LeaversOk'
  BY <1>3, <1>7, <1>10 DEF IInv, LeaversOk
<1>12. \A o \in Runners : round'[o].cur = round[o].cur
  BY <1>4, <1>6
<1>13. KeptListed'
  BY <1>3, <1>7, <1>10, <1>12 DEF IInv, KeptListed
<1> QED BY <1>5, <1>7, <1>8, <1>9, <1>10, <1>11, <1>13 DEF IInv

(* What the other steps that keep the station have in common.               *)
LEMMA ServeRest ==
  ASSUME IInv, NEW r \in Runners, NEW new \in Rounds, Step(r, new),
         new.local = round[r].local, new.cur = round[r].cur,
         UNCHANGED <<listVars, sta, sched, envVars, created>>,
         RoundsOk', QueueOk'
  PROVE  IInv'
<1>1. RoundTyped' /\ Listed' = Listed /\ ListsOk'
  BY StepSets, StepKeeps DEF IInv, listVars
<1>2. \A o \in Runners : round'[o].cur = round[o].cur
  BY StepSets DEF IInv
<1>3. FlagsTyped' /\ StepsTyped' /\ FramesOk'
  BY DEF IInv, FlagsTyped, StepsTyped, FramesOk, listVars, envVars
<1>4. \A t \in Stas : HasFrames(t)' = HasFrames(t)
  BY DEF HasFrames, listVars
<1>5. LeaversOk'
  BY <1>1, <1>4 DEF IInv, LeaversOk, listVars
<1>6. KeptListed'
  BY <1>1, <1>2, <1>4 DEF IInv, KeptListed, listVars
<1> QED BY <1>1, <1>3, <1>5, <1>6 DEF IInv

LEMMA QueueStep == ASSUME IInv, NEW r \in Runners, ServeQueue(r) PROVE IInv'
<1> DEFINE new == [round[r] EXCEPT !.hand = FALSE]
<1>1. /\ round[r].hand /\ Step(r, new) /\ queued' \in {queued, queued + 1}
      /\ UNCHANGED <<listVars, sta, sched, envVars, created>>
  BY DEF ServeQueue
<1>2. round[r] \in Rounds /\ round[r].cur # NoSta /\ round[r].pc \in {"off", "pend"}
  BY <1>1 DEF IInv, RoundTyped, RoundsOk
<1>3. /\ new \in Rounds /\ new.pc = round[r].pc /\ new.cur = round[r].cur
      /\ new.local = round[r].local /\ ~new.hand
  BY <1>2 DEF Rounds
<1> HIDE DEF new
<1>4. RoundsOk'
  <2>1. new.pc \in {"off", "pend"} /\ new.cur # NoSta
    BY <1>2, <1>3
  <2> QED BY <1>1, <1>3, <2>1, StepRounds DEF IInv
<1>5. /\ round'[r] = new
      /\ \A o \in Runners : o # r => round'[o] = round[o]
  BY <1>1, <1>3, StepSets DEF IInv
<1>6. QueueOk'
  <2>1. Hand(r) = 1 /\ Hand(r)' = 0 /\ \A o \in Runners : o # r => Hand(o)' = Hand(o)
    BY <1>1, <1>3, <1>5 DEF Hand
  <2>2. Hand("worker") \in {0, 1} /\ Hand("caller") \in {0, 1}
    BY DEF Hand
  <2> QED BY <2>1, <2>2, <1>1, TxSchedConstants DEF IInv, QueueOk, Runners
<1> QED BY <1>1, <1>3, <1>4, <1>6, ServeRest

LEMMA EndStep == ASSUME IInv, NEW r \in Runners, ServeEnd(r) PROVE IInv'
<1> DEFINE new == [round[r] EXCEPT !.pc = IF @ = "off" THEN "pend" ELSE "readd",
                                   !.gaveUp = @ \/ (~Barred(r) /\ Left(r) > 0)]
<1>1. /\ round[r].pc \in {"off", "pend"} /\ ~round[r].hand /\ Step(r, new)
      /\ UNCHANGED <<listVars, sta, sched, envVars, queued, created>>
  BY DEF ServeEnd
<1>2. round[r] \in Rounds /\ round[r].cur # NoSta
  BY <1>1 DEF IInv, RoundTyped, RoundsOk
<1>3. /\ new \in Rounds /\ new.pc \in {"pend", "readd"} /\ new.cur = round[r].cur
      /\ new.local = round[r].local /\ new.hand = round[r].hand
  <2> DEFINE g == round[r].gaveUp \/ (~Barred(r) /\ Left(r) > 0)
  <2>1. g \in BOOLEAN
    BY Zenon
  <2>2. new = [round[r] EXCEPT !.pc = IF @ = "off" THEN "pend" ELSE "readd", !.gaveUp = g]
    OBVIOUS
  <2> HIDE DEF g, new
  <2> QED BY <1>2, <2>1, <2>2 DEF Rounds
<1> HIDE DEF new
<1>4. RoundsOk'
  <2>1. new.pc # "idle" /\ new.pc # "pick" /\ new.cur # NoSta /\ ~new.hand
    BY <1>1, <1>2, <1>3
  <2> QED BY <1>1, <1>3, <2>1, StepRounds DEF IInv
<1>5. \A o \in Runners : Hand(o)' = Hand(o)
  BY <1>1, <1>3, StepSets DEF IInv, Hand
<1>6. QueueOk'
  BY <1>1, <1>5 DEF IInv, QueueOk, Runners
<1> QED BY <1>1, <1>3, <1>4, <1>6, ServeRest

(* The station goes back on the list, or it is remembered as left out.      *)
LEMMA ReaddStep == ASSUME IInv, NEW r \in Runners, RoundReadd(r) PROVE IInv'
<1> DEFINE new == [round[r] EXCEPT !.pc = "pick", !.cur = NoSta]
<1>1. round[r] \in Rounds /\ round[r].pc = "readd" /\ round[r].cur # NoSta /\ ~round[r].hand
  BY DEF IInv, RoundTyped, RoundsOk, RoundReadd
<1>2. PICK s \in Stas : s = round[r].cur
  BY <1>1 DEF Rounds
<1> DEFINE back == pending[s] > 0 /\ offch[s] > 0 /\ s \notin Listed
<1>3. /\ Step(r, new)
      /\ txList' = IF back THEN Append(txList, s) ELSE txList
      /\ skipped' = IF HasFrames(s) /\ ~back /\ s \notin Listed
                    THEN skipped \cup {s} ELSE skipped
      /\ UNCHANGED <<pending, offch, adding, sta, sched, envVars, queued, created>>
  BY <1>2 DEF RoundReadd
<1>4. /\ new \in Rounds /\ new.pc = "pick" /\ new.cur = NoSta
      /\ new.local = round[r].local /\ new.hand = round[r].hand
  BY <1>1 DEF Rounds
<1> HIDE DEF new
<1>5. RoundTyped' /\ RoundsOk'
  BY <1>1, <1>3, <1>4, StepSets, StepRounds DEF IInv
<1>6. /\ round'[r] = new
      /\ \A o \in Runners : o # r => round'[o] = round[o]
      /\ \A o \in Runners : On(o)' = On(o) /\ round'[o].local = round[o].local
  BY <1>3, <1>4, StepSets DEF IInv, On
<1>7. /\ txList' \in Seq(Stas) /\ Once(txList)'
      /\ back => ToSet(txList)' = ToSet(txList) \cup {s}
      /\ ~back => txList' = txList
  <2>1. CASE ~back
    BY <2>1, <1>3 DEF IInv, ListsOk
  <2>2. CASE back
    <3>1. s \notin ToSet(txList) /\ txList' = Append(txList, s)
      BY <2>2, <1>3 DEF Listed
    <3>2. txList \in Seq(Stas) /\ Once(txList)
      BY DEF IInv, ListsOk
    <3> HIDE DEF back
    <3> QED BY <2>2, <3>1, <3>2, OnceAppend
  <2> QED BY <2>1, <2>2
<1>8. ListsOk'
  <2>1. ToSet(txList)' \subseteq ToSet(txList) \cup {s} /\ (s \in Listed => txList' = txList)
    BY <1>7
  <2>2. \A o \in Runners : On(o)' \cap ToSet(txList)' = {}
    BY <1>6, <2>1, ListedIsUnion DEF IInv, ListsOk, Runners
  <2>3. On("worker")' \cap On("caller")' = {}
    BY <1>6 DEF IInv, ListsOk, Runners
  <2> QED BY <2>2, <2>3, <1>6, <1>7 DEF IInv, ListsOk
<1>9. Listed' = IF back THEN Listed \cup {s} ELSE Listed
  <2>1. Listed' = ToSet(txList)' \cup On("worker")' \cup On("caller")'
    BY ListedIsUnion DEF Listed, On, Runners
  <2> HIDE DEF back
  <2> QED BY <2>1, <1>6, <1>7, ListedIsUnion DEF Runners
<1>10. FlagsTyped' /\ StepsTyped' /\ FramesOk'
  BY <1>3 DEF IInv, FlagsTyped, StepsTyped, FramesOk, envVars
<1>11. QueueOk'
  <2>1. \A o \in Runners : Hand(o)' = Hand(o)
    BY <1>4, <1>6 DEF Hand
  <2> QED BY <2>1, <1>3 DEF IInv, QueueOk, Runners
<1>12. back => HasFrames(s)
  BY DEF IInv, FramesOk, HasFrames
<1>13. \A t \in Stas : HasFrames(t)' = HasFrames(t)
  BY <1>3 DEF HasFrames
<1> HIDE DEF back
<1>14. LeaversOk'
  BY <1>3, <1>9, <1>12, <1>13 DEF IInv, LeaversOk
<1>15. KeptListed'
  <2> SUFFICES ASSUME NEW t \in Stas, HasFrames(t)
               PROVE  \/ t \in Listed' \cup adding' \cup skipped'
                      \/ \E o \in Runners : round'[o].cur = t
    BY <1>13 DEF KeptListed
  <2>1. Listed \subseteq Listed' /\ skipped \subseteq skipped' /\ adding' = adding
    BY <1>3, <1>9
  <2>2. CASE t = s
    BY <2>2, <1>3, <1>9
  <2>3. CASE t \in Listed \cup adding \cup skipped
    BY <2>1, <2>3
  <2>4. ASSUME NEW o \in Runners, round[o].cur = t, t # s PROVE round'[o].cur = t
    BY <2>4, <1>2, <1>6
  <2> QED BY <2>2, <2>3, <2>4 DEF IInv, KeptListed
<1> QED BY <1>5, <1>8, <1>10, <1>11, <1>14, <1>15 DEF IInv

LEMMA RoundEndStep == ASSUME IInv, NEW r \in Runners, RoundEnd(r) PROVE IInv'
<1>1. /\ round[r].pc = "pick" /\ round[r].local = <<>> /\ Step(r, Idle)
      /\ reset' \in {reset, "parking"}
      /\ \/ queued' = queued /\ created' = created
         \/ \E n \in 1..Room :
              /\ queued + n <= Room /\ queued' = queued + n
              /\ created + n <= MaxFrames /\ created' = created + n
      /\ UNCHANGED <<listVars, sta, sched, chan, away, resetBit, resets>>
  <2>1. reset' \in {reset, "parking"}
    BY DEF RoundEnd
  <2> QED BY <2>1 DEF RoundEnd
<1>2. /\ Idle \in Rounds /\ Idle.local = round[r].local /\ Idle.pc = "idle"
      /\ Idle.cur = NoSta /\ ~Idle.hand
  BY <1>1 DEF Idle, Rounds
<1>3. round[r].cur = NoSta /\ ~round[r].hand
  BY <1>1 DEF IInv, RoundsOk
<1>4. RoundTyped' /\ RoundsOk'
  BY <1>1, <1>2, StepSets, StepRounds DEF IInv
<1>5. Listed' = Listed /\ ListsOk'
  BY <1>1, <1>2, StepKeeps DEF IInv, listVars
<1>6. /\ round'[r] = Idle
      /\ \A o \in Runners : o # r => round'[o] = round[o]
  BY <1>1, <1>2, StepSets DEF IInv
<1>7. \A o \in Runners : Hand(o)' = Hand(o) /\ round'[o].cur = round[o].cur
  BY <1>2, <1>3, <1>6 DEF Hand
<1>8. FlagsTyped' /\ StepsTyped'
  BY <1>1 DEF IInv, FlagsTyped, StepsTyped, listVars
<1>9. QueueOk'
  <2>1. Hand("worker") + Hand("caller") <= 1
    BY <1>3 DEF Hand, Runners
  <2>2. Hand("worker") \in {0, 1} /\ Hand("caller") \in {0, 1}
    BY DEF Hand
  <2> QED BY <2>1, <2>2, <1>1, <1>7, TxSchedConstants DEF IInv, QueueOk, Runners
<1>10. FramesOk'
  BY <1>1, TxSchedConstants DEF IInv, FramesOk, listVars
<1>11. LeaversOk'
  BY <1>1, <1>5 DEF IInv, LeaversOk, HasFrames, listVars
<1>12. KeptListed'
  BY <1>1, <1>5, <1>7 DEF IInv, KeptListed, HasFrames, listVars
<1> QED BY <1>4, <1>5, <1>8, <1>9, <1>10, <1>11, <1>12 DEF IInv

-----------------------------------------------------------------------------
LEMMA InitInv == Init => IInv
<1> SUFFICES ASSUME Init PROVE IInv
  OBVIOUS
<1>1. /\ txList = <<>> /\ round = [r \in Runners |-> Idle] /\ queued = 0
      /\ pending = [s \in Stas |-> 0] /\ offch = [s \in Stas |-> 0]
  BY DEF Init
<1>2. /\ Idle \in Rounds /\ Idle.local = <<>> /\ Idle.pc = "idle"
      /\ Idle.cur = NoSta /\ ~Idle.hand
  BY DEF Idle, Rounds
<1>3. \A r \in Runners : round[r] = Idle /\ On(r) = {}
  BY <1>1, <1>2 DEF On, ToSet
<1>4. RoundTyped /\ RoundsOk
  BY <1>1, <1>2, <1>3 DEF RoundTyped, RoundsOk
<1>5. FlagsTyped /\ StepsTyped
  <2>1. FlagsTyped
    BY Zenon DEF Init, FlagsTyped
  <2>2. StepsTyped
    BY TxSchedConstants DEF Init, StepsTyped
  <2> QED BY <2>1, <2>2
<1>6. ListsOk
  BY <1>1, <1>2, <1>3 DEF ListsOk, Once, Runners
<1>7. QueueOk
  BY <1>1, <1>2, <1>3, TxSchedConstants DEF QueueOk, Hand, Runners
<1>8. FramesOk /\ \A s \in Stas : ~HasFrames(s)
  BY <1>1, TxSchedConstants DEF Init, FramesOk, HasFrames
<1>9. LeaversOk /\ KeptListed
  BY <1>8 DEF Init, LeaversOk, KeptListed
<1> QED BY <1>4, <1>5, <1>6, <1>7, <1>8, <1>9 DEF IInv

LEMMA RoundStepInv == ASSUME IInv, NEW r \in Runners, RoundStep(r) PROVE IInv'
BY StartStep, PickStep, TakeStep, QueueStep, EndStep, ReaddStep, RoundEndStep DEF RoundStep

LEMMA NextInv == IInv /\ [Next]_vars => IInv'
<1> SUFFICES ASSUME IInv, [Next]_vars PROVE IInv'
  OBVIOUS
<1>1. CASE WakeTxQueue \/ ChanSwitch \/ ResetBegin \/ ResetPark \/ ResetEnd \/ UNCHANGED vars
  BY <1>1, EnvStep
<1>2. CASE TxAppend \/ TxListed
  BY <1>2, TxAppendStep, TxListedStep
<1>3. CASE Complete
  BY <1>3, CompleteStep
<1>4. CASE StaLeave \/ StaSync \/ Cleanup
  BY <1>4, StaStep, CleanupStep
<1>5. ASSUME NEW r \in Runners, RoundStep(r) PROVE IInv'
  BY <1>5, RoundStepInv
<1> QED BY <1>1, <1>2, <1>3, <1>4, <1>5 DEF Next

LEMMA Invariant == Spec => []IInv
BY InitInv, NextInv, PTL DEF Spec

(* The lists and the rounds' lists have each station once, and the queue    *)
(* holds at most one frame above its threshold per round.                   *)
LEMMA Typing == IInv => TypeOK
<1> SUFFICES ASSUME IInv PROVE TypeOK
  OBVIOUS
<1>1. "worker" \in Runners /\ "caller" \in Runners
  BY DEF Runners
<1>2. \A r \in Runners : round[r].local \in Seq(Stas)
  BY DEF IInv, RoundTyped, Rounds
<1>3. IsInjective(txList \o round["worker"].local \o round["caller"].local)
  <2> DEFINE a == txList
             b == round["worker"].local
             c == round["caller"].local
  <2>1. /\ a \in Seq(Stas) /\ b \in Seq(Stas) /\ c \in Seq(Stas)
        /\ Once(a) /\ Once(b) /\ Once(c)
        /\ ToSet(a) \cap ToSet(b) = {} /\ ToSet(a) \cap ToSet(c) = {}
        /\ ToSet(b) \cap ToSet(c) = {}
    BY <1>1, <1>2 DEF IInv, ListsOk, On
  <2> HIDE DEF a, b, c
  <2>2. a \o b \in Seq(Stas) /\ Once(a \o b) /\ ToSet(a \o b) = ToSet(a) \cup ToSet(b)
    BY <2>1, OnceConcat
  <2>3. IsInjective((a \o b) \o c)
    <3>1. ToSet(a \o b) \cap ToSet(c) = {}
      BY <2>1, <2>2
    <3> QED BY <2>1, <2>2, <3>1, OnceConcat
  <2> QED BY <2>3 DEF a, b, c
<1>4. pending \in [Stas -> 0..MaxFrames] /\ offch \in [Stas -> 0..MaxFrames]
  <2>1. \A s \in Stas : pending[s] \in 0..MaxFrames /\ offch[s] \in 0..MaxFrames
    BY TxSchedConstants DEF IInv, FramesOk
  <2> QED BY <2>1 DEF IInv, FramesOk
<1>5. queued \in 0..(Room + 1)
  <2>1. Hand("worker") \in {0, 1} /\ Hand("caller") \in {0, 1}
    BY DEF Hand
  <2> QED BY <2>1, TxSchedConstants DEF IInv, QueueOk
<1>6. sched \in BOOLEAN /\ away \in BOOLEAN /\ resetBit \in BOOLEAN
  BY DEF IInv, FlagsTyped
<1> QED BY <1>3, <1>4, <1>5, <1>6
        DEF IInv, TypeOK, StepsTyped, RoundTyped, Rounds, ListsOk, FramesOk

-----------------------------------------------------------------------------
(* Type correctness.                                                        *)
THEOREM TypeCorrect == Spec => []TypeOK
BY Invariant, Typing, PTL

(* For any number of stations and frames, whatever round empties the lists  *)
(* beside mt76_tx, a removal or a reset: a station with frames is listed, in*)
(* the hands of a round or of mt76_tx, or was left out by a round that found*)
(* one of its two lists empty.                                              *)
THEOREM FramesAreListed == Spec => []FramesKeepStationListed
<1>1. IInv => FramesKeepStationListed
  BY Typing DEF IInv, KeptListed, FramesKeepStationListed
<1> QED BY <1>1, Invariant, PTL

(* A removed station is on no list, and none of its frames is.              *)
THEOREM RemovalIsComplete == Spec => []RemovedStationIsGone
<1>1. IInv => RemovedStationIsGone
  BY DEF IInv, LeaversOk, StepsTyped, RemovedStationIsGone
<1> QED BY <1>1, Invariant, PTL
=============================================================================
