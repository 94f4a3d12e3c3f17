---------------------------- MODULE UsbTxRingProofs ----------------------------
(***************************************************************************)
(* Proofs about UsbTxRing: the ring stays consistent, it implements the    *)
(* FIFO of TxFifo, and in a chip reset no freed frame is with the host     *)
(* controller, for rings of any size.                                      *)
(***************************************************************************)
EXTENDS UsbTxRing, Integers, SequenceTheorems, TLAPS

-----------------------------------------------------------------------------
(* Places in the ring: the j-th slot from slot t on.                        *)

Pos(t, j) == (t + j) % N

LEMMA PosValue ==
  ASSUME NEW t \in Slots, NEW j \in 0..N
  PROVE  /\ Pos(t, j) \in Slots
         /\ Pos(t, j) = IF t + j < N THEN t + j ELSE t + j - N
<1>1. N \in Nat \ {0} /\ t \in 0..(N - 1)
  BY RingConstants DEF Slots
<1>2. CASE t + j < N
  BY <1>1, <1>2 DEF Pos, Slots
<1>3. CASE t + j >= N
  BY <1>1, <1>3 DEF Pos, Slots
<1> QED BY <1>1, <1>2, <1>3

(* A ring of N slots has N different ones.                                  *)
LEMMA PosInjective ==
  ASSUME NEW t \in Slots, NEW i \in 0..(N - 1), NEW j \in 0..(N - 1),
         Pos(t, i) = Pos(t, j)
  PROVE  i = j
<1>1. N \in Nat \ {0} /\ t \in 0..(N - 1) /\ i \in 0..N /\ j \in 0..N
  BY RingConstants DEF Slots
<1>2. /\ Pos(t, i) = IF t + i < N THEN t + i ELSE t + i - N
      /\ Pos(t, j) = IF t + j < N THEN t + j ELSE t + j - N
  BY <1>1, PosValue
<1>3. (IF t + i < N THEN t + i ELSE t + i - N) = (IF t + j < N THEN t + j ELSE t + j - N)
  BY <1>2
<1> QED BY <1>1, <1>3

LEMMA PosSum ==
  ASSUME NEW t \in Slots, NEW a \in 0..N, NEW b \in 0..(N - a)
  PROVE  Pos(Pos(t, a), b) = Pos(t, a + b)
<1>1. N \in Nat \ {0} /\ t \in 0..(N - 1) /\ b \in 0..N /\ a + b \in 0..N
  BY RingConstants DEF Slots
<1>2. /\ Pos(t, a) \in Slots
      /\ Pos(t, a) = IF t + a < N THEN t + a ELSE t + a - N
  BY <1>1, PosValue
<1>3. /\ Pos(Pos(t, a), b) = IF Pos(t, a) + b < N THEN Pos(t, a) + b
                             ELSE Pos(t, a) + b - N
      /\ Pos(t, a + b) = IF t + (a + b) < N THEN t + (a + b) ELSE t + (a + b) - N
  BY <1>1, <1>2, PosValue
<1> QED BY <1>1, <1>2, <1>3

(* What the submission loop computes: the distance from first to head.      *)
LEMMA PosGap ==
  ASSUME NEW t \in Slots, NEW q \in 0..N, NEW k \in 0..q
  PROVE  (Pos(t, q) + N - Pos(t, k)) % N = IF q - k = N THEN 0 ELSE q - k
<1>1. N \in Nat \ {0} /\ t \in 0..(N - 1) /\ k \in 0..N
  BY RingConstants DEF Slots
<1>2. /\ Pos(t, q) = IF t + q < N THEN t + q ELSE t + q - N
      /\ Pos(t, k) = IF t + k < N THEN t + k ELSE t + k - N
  BY <1>1, PosValue
<1> DEFINE x == Pos(t, q) + N - Pos(t, k)
<1>3. \/ x = q - k /\ x < N
      \/ x = N + (q - k) /\ q - k < N
      \/ x = N /\ q - k = N
      \/ x = q - k /\ q - k = N
  BY <1>1, <1>2
<1> HIDE DEF x
<1>4. x % N = IF q - k = N THEN 0 ELSE q - k
  <2>1. CASE x < N /\ x = q - k
    BY <1>1, <2>1
  <2>2. CASE x = N + (q - k) /\ q - k < N
    BY <1>1, <2>2
  <2>3. CASE x = N /\ q - k = N
    BY <1>1, <2>3
  <2> QED BY <1>3, <2>1, <2>2, <2>3
<1> QED BY <1>4 DEF x

-----------------------------------------------------------------------------
(* The inductive invariant.                                                 *)

Freed == IF Freeing THEN 1 ELSE 0

(* The frames completed are 1, 2, 3, ...                                    *)
InOrder == \A m \in 1..Len(completed) : completed[m] = m

(* A parked worker is at rest; the caller of mt76u_stop_tx keeps the status *)
(* worker parked during the drain, and the chip reset tx_worker from before *)
(* the flush to the end of the drain.                                       *)
DrainPcs   == {"wait", "kill", "parkTxAgain", "complete", "advance", "unparkStatus"}
FlushedPcs == {"parkStatus", "wait", "kill", "parkTxAgain", "complete", "advance"}
KilledPcs  == {"parkTxAgain", "complete", "advance"}

Parking ==
  /\ txParked => txPc = "idle"
  /\ statusParked => statusPc = "idle"
  /\ stopPc \in DrainPcs => statusParked
  /\ caller = "reset" /\ stopPc \in FlushedPcs \cup {"cancel", "disarm", "flush"} => txParked

(* k entries from the tail on were submitted; only those, without the one   *)
(* being freed, can be with the controller or done.                         *)
Submitted(k) ==
  /\ first = Pos(tail, k)
  /\ \A i \in Slots : i \in inFlight \/ done[i] => \E j \in Freed..(k - 1) : i = Pos(tail, j)

OrderlyRing ==
  /\ \E k \in Freed..queued : Submitted(k)
  /\ \A i \in inFlight : ~done[i]
  /\ stopPc \in FlushedPcs => first = head
  /\ stopPc \in KilledPcs => inFlight = {}

(* The type invariant and the ring invariant in the parts that change       *)
(* together.                                                                *)
RingTypes ==
  /\ head \in Slots /\ first \in Slots /\ tail \in Slots /\ queued \in 0..N
  /\ skb \in [Slots -> 0..MaxFrames] /\ done \in [Slots -> BOOLEAN]
  /\ inFlight \subseteq Slots /\ accepted \in 0..MaxFrames
  /\ completed \in Seq(1..MaxFrames)

FlagTypes ==
  /\ armed \in BOOLEAN /\ txParked \in BOOLEAN
  /\ statusSched \in BOOLEAN /\ statusParked \in BOOLEAN
  /\ running \in BOOLEAN /\ resetBit \in BOOLEAN

PcTypes ==
  /\ timer \subseteq {"pending", "firing"}
  /\ txPc \in {"idle", "picked", "burst"} /\ statusPc \in {"idle", "loop", "advance"}
  /\ caller \in Stoppers /\ stopPc \in StopPcs

ControlTypes == FlagTypes /\ PcTypes

RingData ==
  /\ RingTypes /\ InOrder
  /\ head = Pos(tail, queued) /\ Len(completed) + queued = accepted + Freed
  /\ \A i \in 0..(queued - 1) : skb[Pos(tail, i)] = accepted - queued + i + 1
  /\ Freed <= queued

IInv ==
  /\ RingIsConsistent /\ (Freeing => queued > 0) /\ InOrder /\ Parking
  /\ Orderly => OrderlyRing

LEMMA InitEstablishes == Init => IInv
<1> SUFFICES ASSUME Init PROVE IInv
  OBVIOUS
<1> USE RingConstants DEF Init
<1>1. N \in Nat \ {0} /\ 0 \in Slots /\ 0 \in 0..N
  BY DEF Slots
<1>2. Pos(0, 0) = 0
  BY <1>1, PosValue
<1>3. <<>> \in Seq(1..MaxFrames) /\ Len(<<>>) = 0
  BY EmptySeq
<1>4. TypeOK
  BY <1>1, <1>3 DEF TypeOK, StopPcs
<1>5. RingIsConsistent
  BY <1>1, <1>2, <1>3, <1>4 DEF RingIsConsistent, Freeing, At, Pos
<1>6. Submitted(0) /\ Freed = 0
  BY <1>1, <1>2 DEF Submitted, Freed, Freeing, At
<1>7. OrderlyRing
  BY <1>6 DEF OrderlyRing, FlushedPcs, KilledPcs
<1> QED BY <1>3, <1>5, <1>7 DEF IInv, InOrder, Parking, DrainPcs, FlushedPcs, Freeing, At

-----------------------------------------------------------------------------
(* The parked flags, step by step.                                          *)

LEMMA ParkingStep ==
  ASSUME TypeOK, Parking, [Next]_vars
  PROVE  Parking'
<1> USE DEF Parking, DrainPcs, FlushedPcs, At, Go, txVars, statusVars, stateBits
<1>0. txParked \in BOOLEAN /\ statusParked \in BOOLEAN
  BY DEF TypeOK
<1>1. CASE TxWorker
  <2>1. CASE TxPick
    BY <1>0, <2>1 DEF TxPick
  <2>2. CASE TxQueue
    BY <1>0, <2>2 DEF TxQueue
  <2>3. CASE TxKick
    BY <1>0, <2>3 DEF TxKick
  <2> QED BY <1>1, <2>1, <2>2, <2>3 DEF TxWorker
<1>2. CASE HoldTimer \/ \E i \in Slots : UrbComplete(i)
  BY <1>2 DEF HoldTimer, TimerFire, TimerFlush, UrbComplete
<1>3. CASE StatusWorker
  BY <1>3 DEF StatusWorker, StatusStart, StatusTake, StatusAdvance, StatusEnd
<1>4. CASE StopBegin \/ StopParkTx \/ StopCancel \/ StopDisarm \/ StopFlush
  BY <1>4 DEF StopBegin, StopParkTx, StopCancel, StopDisarm, StopFlush
<1>5. CASE StopParkStatus \/ StopWait \/ StopKill \/ StopParkTxAgain
  BY <1>5 DEF StopParkStatus, StopWait, StopKill, StopParkTxAgain
<1>6. CASE StopTake \/ StopAdvance \/ StopUnparkTx
  BY <1>0, <1>6 DEF StopTake, StopAdvance, StopUnparkTx
<1>8. CASE StopUnparkStatus \/ StopFinish
  <2>1. CASE StopUnparkStatus
    BY <1>0, <2>1 DEF StopUnparkStatus
  <2>2. CASE StopFinish
    BY <1>0, <2>2 DEF StopFinish
  <2> QED BY <1>8, <2>1, <2>2
<1>7. CASE Restart \/ UNCHANGED vars
  BY <1>7 DEF Restart, vars
<1> QED BY <1>1, <1>2, <1>3, <1>4, <1>5, <1>6, <1>7, <1>8 DEF Next, StopTx

(* The status worker and the forced drain never free entries at once.       *)
LEMMA OneDrain ==
  ASSUME Parking
  PROVE  /\ statusPc # "idle" => ~At("complete") /\ ~At("advance")
         /\ At("complete") \/ At("advance") => statusPc = "idle"
BY DEF Parking, At, DrainPcs

LEMMA PartsOfIInv ==
  IInv <=> RingData /\ ControlTypes /\ Parking /\ (Orderly => OrderlyRing)
<1>1. Freed = IF Freeing THEN 1 ELSE 0
  BY DEF Freed
<1>2. ASSUME RingTypes, Len(completed) + queued = accepted + Freed, Freed <= queued
      PROVE  Len(completed) <= accepted
  <2>1. Len(completed) \in Nat /\ accepted \in Nat /\ queued \in Nat
    BY <1>2, LenProperties, RingConstants DEF RingTypes
  <2> QED BY <1>1, <1>2, <2>1
<1>3. TypeOK <=> RingTypes /\ ControlTypes /\ Len(completed) <= accepted
  BY DEF TypeOK, RingTypes, ControlTypes, FlagTypes, PcTypes
<1>4. ASSUME RingTypes PROVE (Freeing => queued > 0) <=> Freed <= queued
  <2>1. queued \in Nat
    BY <1>4, RingConstants DEF RingTypes
  <2> QED BY <1>1, <2>1
<1> QED BY <1>1, <1>2, <1>3, <1>4 DEF IInv, RingIsConsistent, RingData, Pos

-----------------------------------------------------------------------------
(* What the shared pieces of the actions do to the ring.                    *)

LEMMA TakeData ==
  ASSUME RingData, ~Freeing, TakeTail, Freeing',
         UNCHANGED <<idxVars, skb, inFlight, accepted>>
  PROVE  RingData' /\ completed' = Append(completed, Len(completed) + 1)
         /\ Len(completed) < accepted
<1> USE DEF idxVars
<1>1. Freed = 0 /\ Freed' = 1
  BY DEF Freed
<1>2. RingTypes /\ queued > 0 /\ N \in Nat \ {0} /\ tail \in Slots /\ Len(completed) \in Nat
      /\ accepted \in 0..MaxFrames /\ queued \in 0..N /\ MaxFrames \in Nat
      /\ completed \in Seq(1..MaxFrames)
  BY RingConstants, LenProperties DEF RingData, RingTypes, TakeTail
<1>3. Pos(tail, 0) = tail
  BY <1>2, PosValue DEF Slots
<1>4. skb[tail] = Len(completed) + 1 /\ skb[tail] \in 1..MaxFrames
  BY <1>1, <1>2, <1>3 DEF RingData
<1>5. /\ completed' \in Seq(1..MaxFrames) /\ Len(completed') = Len(completed) + 1
      /\ \A m \in 1..Len(completed) : completed'[m] = completed[m]
      /\ completed'[Len(completed) + 1] = Len(completed) + 1
  BY <1>2, <1>4, AppendProperties DEF TakeTail
<1>6. RingTypes'
  BY <1>2, <1>5 DEF RingTypes, TakeTail
<1>7. InOrder'
  <2>1. \A m \in 1..Len(completed) : completed[m] = m
    BY DEF RingData, InOrder
  <2>2. \A m \in 1..(Len(completed) + 1) : completed'[m] = m
    BY <1>2, <1>5, <2>1
  <2> QED BY <1>5, <2>2 DEF InOrder
<1>9. Len(completed) + queued = accepted
  BY <1>1, <1>2 DEF RingData
<1>8. Len(completed)' + queued' = accepted' + Freed' /\ Freed' <= queued'
  BY <1>1, <1>2, <1>5, <1>9
<1> QED BY <1>1, <1>2, <1>4, <1>9, <1>6, <1>7, <1>8 DEF RingData, TakeTail, Pos

LEMMA AdvanceData ==
  ASSUME RingData, Freeing, AdvanceTail, ~Freeing',
         UNCHANGED <<head, first, skb, done, inFlight, accepted, completed>>
  PROVE  RingData'
<1>1. Freed = 1 /\ Freed' = 0
  BY DEF Freed
<1>2. /\ N \in Nat \ {0} /\ tail \in Slots /\ queued \in 1..N /\ tail' = Pos(tail, 1)
      /\ queued' = queued - 1 /\ accepted \in Nat /\ Len(completed) \in Nat
  BY <1>1, RingConstants, LenProperties DEF RingData, RingTypes, AdvanceTail, Succ, Pos
<1>3. tail' \in Slots
  BY <1>2, PosValue
<1>4. \A i \in 0..(queued - 1) : Pos(tail', i) = Pos(tail, i + 1)
  BY <1>2, PosSum
<1>5. RingTypes'
  BY <1>2, <1>3 DEF RingData, RingTypes
<1>6. head' = Pos(tail', queued')
  BY <1>2, <1>4 DEF RingData
<1>7. \A i \in 0..(queued' - 1) : skb'[Pos(tail', i)] = accepted' - queued' + i + 1
  <2> TAKE i \in 0..(queued' - 1)
  <2>1. i + 1 \in 0..(queued - 1) /\ Pos(tail', i) = Pos(tail, i + 1)
    BY <1>2, <1>4
  <2>2. skb[Pos(tail, i + 1)] = accepted - queued + (i + 1) + 1
    BY <2>1 DEF RingData
  <2> QED BY <1>2, <2>1, <2>2
<1>8. Len(completed)' + queued' = accepted' + Freed' /\ Freed' <= queued'
  BY <1>1, <1>2 DEF RingData
<1> QED BY <1>5, <1>6, <1>7, <1>8 DEF RingData, InOrder, Pos

LEMMA QueueData ==
  ASSUME RingData, QueueSkb, accepted < MaxFrames,
         UNCHANGED <<first, tail, done, inFlight, completed, statusPc, stopPc>>
  PROVE  RingData'
<1>1. Freed' = Freed
  BY DEF Freed, Freeing, At
<1>2. /\ N \in Nat \ {0} /\ tail \in Slots /\ queued \in 0..(N - 1) /\ queued' = queued + 1
      /\ accepted \in Nat /\ MaxFrames \in Nat /\ accepted' = accepted + 1
      /\ head = Pos(tail, queued) /\ Len(completed) \in Nat /\ Freed \in 0..1
  BY RingConstants, LenProperties DEF RingData, RingTypes, QueueSkb, Freed
<1>3. head' = Pos(tail, queued + 1) /\ head' \in Slots /\ head \in Slots
  <2>1. head' = Pos(head, 1)
    BY DEF QueueSkb, Succ, Pos
  <2>2. Pos(Pos(tail, queued), 1) = Pos(tail, queued + 1)
    BY <1>2, PosSum
  <2> QED BY <1>2, <2>1, <2>2, PosValue
<1>4. RingTypes'
  BY <1>2, <1>3 DEF RingData, RingTypes, QueueSkb
<1>5. \A i \in 0..(queued' - 1) : skb'[Pos(tail', i)] = accepted' - queued' + i + 1
  <2> TAKE i \in 0..(queued' - 1)
  <2>1. CASE i = queued
    <3>1. skb'[head] = accepted + 1
      BY <1>3 DEF QueueSkb, RingData, RingTypes
    <3> QED BY <1>2, <2>1, <3>1
  <2>2. CASE i # queued
    <3>1. i \in 0..(queued - 1) /\ i \in 0..(N - 1)
      BY <1>2, <2>2
    <3>2. Pos(tail, i) # head
      BY <1>2, <2>2, <3>1, PosInjective
    <3>3. Pos(tail, i) \in Slots
      BY <1>2, <3>1, PosValue
    <3>4. skb'[Pos(tail, i)] = skb[Pos(tail, i)]
      BY <3>2, <3>3 DEF QueueSkb, RingData, RingTypes
    <3>5. skb[Pos(tail, i)] = accepted - queued + i + 1
      BY <3>1 DEF RingData
    <3> QED BY <1>2, <3>1, <3>4, <3>5
  <2> QED BY <2>1, <2>2
<1>6. Len(completed)' + queued' = accepted' + Freed' /\ Freed' <= queued'
  BY <1>1, <1>2 DEF RingData
<1> QED BY <1>2, <1>3, <1>4, <1>5, <1>6 DEF RingData, InOrder, Pos

(* A pass of the submission loop stays within the queued entries.           *)
LEMMA SubmitTypes ==
  ASSUME RingTypes, Submit
  PROVE  first' \in Slots /\ inFlight' \subseteq Slots
<1>1. N \in Nat \ {0} /\ first \in Slots /\ head \in Slots /\ inFlight \subseteq Slots
  BY RingConstants DEF RingTypes
<1>2. Pending \in 0..(N - 1)
  BY <1>1 DEF Pending, Slots
<1>3. PICK n \in 0..Pending : /\ inFlight' = inFlight \cup {Slot(i) : i \in 0..(n - 1)}
                              /\ first' = Pos(first, n)
  BY DEF Submit, Pos
<1>4. n \in 0..N /\ \A i \in 0..(n - 1) : i \in 0..N /\ Slot(i) = Pos(first, i)
  BY <1>1, <1>2 DEF Slot, Pos
<1> QED BY <1>1, <1>3, <1>4, PosValue

LEMMA SubmitOrderly ==
  ASSUME RingData, Orderly, OrderlyRing, Submit, UNCHANGED <<head, tail, queued, done>>,
         Freeing' <=> Freeing, stopPc' \in KilledPcs => stopPc \in KilledPcs
  PROVE  OrderlyRing' /\ first' = head
<1>1. PICK k \in Freed..queued : Submitted(k)
  BY DEF OrderlyRing
<1>2. /\ N \in Nat \ {0} /\ tail \in Slots /\ queued \in 0..N /\ Freed \in 0..1
      /\ head = Pos(tail, queued) /\ Freed' = Freed /\ inFlight \subseteq Slots
  BY RingConstants DEF RingData, RingTypes, Freed
<1>3. k \in 0..queued /\ k \in 0..N /\ first = Pos(tail, k)
  BY <1>1, <1>2 DEF Submitted
<1>4. Pending = IF queued - k = N THEN 0 ELSE queued - k
  BY <1>2, <1>3, PosGap DEF Pending
<1>5. PICK n \in 0..Pending :
        /\ n = Pending \/ Slot(n) \in inFlight
        /\ inFlight' = inFlight \cup {Slot(i) : i \in 0..(n - 1)}
        /\ first' = Pos(first, n)
  BY DEF Submit, Orderly, Pos
<1>6. n \in 0..(queued - k) /\ k + n \in Freed..queued /\ n \in 0..(N - k)
  BY <1>1, <1>2, <1>3, <1>4
<1>7. first' = Pos(tail, k + n)
  BY <1>2, <1>3, <1>5, <1>6, PosSum
<1>8. \A i \in 0..n : Slot(i) = Pos(tail, k + i)
  <2> TAKE i \in 0..n
  <2>1. i \in 0..(N - k) /\ Slot(i) = Pos(Pos(tail, k), i)
    BY <1>2, <1>3, <1>6 DEF Slot, Pos
  <2> QED BY <1>2, <1>3, <2>1, PosSum
<1>9. \A i \in 0..n : k + i < queued => Slot(i) \notin inFlight /\ ~done[Slot(i)]
  <2> TAKE i \in 0..n
  <2> HAVE k + i < queued
  <2>1. k + i \in 0..(N - 1) /\ k + i \in 0..N
    BY <1>2, <1>3, <1>6
  <2>2. Slot(i) = Pos(tail, k + i) /\ Slot(i) \in Slots
    BY <1>2, <1>8, <2>1, PosValue
  <2>3. ASSUME NEW j \in Freed..(k - 1), Pos(tail, k + i) = Pos(tail, j) PROVE FALSE
    <3>1. j \in 0..(N - 1) /\ j < k
      BY <1>2, <1>3
    <3>2. k + i = j
      BY <1>2, <2>1, <2>3, <3>1, PosInjective
    <3> QED BY <1>3, <1>6, <3>1, <3>2
  <2> QED BY <1>1, <2>2, <2>3 DEF Submitted
<1>10. first' = head
  <2>1. n = Pending
    <3>1. CASE n < Pending
      <4>1. k + n < queued /\ n \in 0..n
        BY <1>2, <1>3, <1>4, <1>6, <3>1
      <4> QED BY <1>5, <1>9, <4>1, <3>1
    <3> QED BY <1>2, <1>3, <1>4, <1>5, <3>1
  <2>2. CASE queued - k = N
    <3>1. k = 0 /\ queued = N /\ n = 0 /\ N \in 0..N /\ 0 \in 0..N
      BY <1>2, <1>3, <1>4, <2>1, <2>2
    <3>2. Pos(tail, 0) = tail /\ Pos(tail, N) = tail
      BY <1>2, <3>1, PosValue DEF Slots
    <3> QED BY <1>2, <1>7, <3>1, <3>2
  <2>3. CASE queued - k # N
    BY <1>2, <1>3, <1>4, <1>7, <2>1, <2>3
  <2> QED BY <2>2, <2>3
<1>11. Submitted(k + n)'
  <2>1. ASSUME NEW i \in Slots, i \in inFlight' \/ done[i]
        PROVE  \E j \in Freed..(k + n - 1) : i = Pos(tail, j)
    <3>1. CASE i \in inFlight \/ done[i]
      <4>1. PICK j \in Freed..(k - 1) : i = Pos(tail, j)
        BY <1>1, <3>1 DEF Submitted
      <4>2. j \in Freed..(k + n - 1)
        BY <1>2, <1>3, <1>6
      <4> QED BY <4>1, <4>2
    <3>2. CASE \E m \in 0..(n - 1) : i = Slot(m)
      <4>1. PICK m \in 0..(n - 1) : i = Slot(m)
        BY <3>2
      <4>2. k + m \in Freed..(k + n - 1) /\ m \in 0..n
        BY <1>1, <1>2, <1>3, <1>6
      <4> QED BY <1>8, <4>1, <4>2
    <3> QED BY <1>5, <2>1, <3>1, <3>2
  <2> QED BY <1>2, <1>7, <2>1 DEF Submitted, Pos
<1>12. \A i \in inFlight' : ~done'[i]
  <2> TAKE i \in inFlight'
  <2>1. CASE i \in inFlight
    BY <2>1 DEF OrderlyRing
  <2>2. CASE \E m \in 0..(n - 1) : i = Slot(m)
    <3>1. PICK m \in 0..(n - 1) : i = Slot(m)
      BY <2>2
    <3>2. m \in 0..n /\ k + m < queued
      BY <1>2, <1>3, <1>6
    <3> QED BY <1>9, <3>1, <3>2
  <2> QED BY <1>5, <2>1, <2>2
<1>13. stopPc' \in KilledPcs => inFlight' = {}
  <2>1. SUFFICES ASSUME stopPc' \in KilledPcs PROVE inFlight' = {}
    OBVIOUS
  <2>2. first = head /\ inFlight = {}
    BY <2>1 DEF OrderlyRing, KilledPcs, FlushedPcs
  <2>3. Pending = 0
    <3>1. head \in 0..(N - 1) /\ N \in Nat \ {0}
      BY <1>2 DEF RingData, RingTypes, Slots
    <3>2. head + N - first = N
      BY <2>2, <3>1
    <3> QED BY <3>1, <3>2 DEF Pending
  <2> QED BY <1>5, <2>2, <2>3
<1> QED BY <1>2, <1>6, <1>10, <1>11, <1>12, <1>13 DEF OrderlyRing

(* The entry at the tail is freed: it is one that was submitted and came    *)
(* back, or nothing is with the controller any more.                        *)
LEMMA TakeOrderly ==
  ASSUME RingData, ~Freeing, TakeTail, Freeing', tail \notin inFlight,
         NEW k \in 1..queued, Submitted(k), UNCHANGED <<idxVars, inFlight>>
  PROVE  \E m \in Freed'..queued' : Submitted(m)'
<1> USE DEF idxVars
<1>1. /\ N \in Nat \ {0} /\ tail \in Slots /\ queued \in 0..N /\ Freed = 0 /\ Freed' = 1
      /\ done \in [Slots -> BOOLEAN] /\ tail' = tail /\ first' = first /\ queued' = queued
  BY RingConstants DEF RingData, RingTypes, Freed
<1>2. Pos(tail, 0) = tail
  BY <1>1, PosValue DEF Slots
<1>3. ASSUME NEW i \in Slots, i \in inFlight \/ done'[i]
      PROVE  \E j \in 1..(k - 1) : i = Pos(tail, j)
  <2>1. i # tail /\ (i \in inFlight \/ done[i])
    BY <1>1, <1>3 DEF TakeTail
  <2>2. PICK j \in 0..(k - 1) : i = Pos(tail, j)
    BY <1>1, <2>1 DEF Submitted
  <2>3. j # 0
    BY <1>2, <2>1, <2>2
  <2> QED BY <2>2, <2>3
<1>4. Submitted(k)'
  BY <1>1, <1>3 DEF Submitted, Pos
<1> QED BY <1>1, <1>4

LEMMA AdvanceOrderly ==
  ASSUME RingData, OrderlyRing, Freeing, AdvanceTail, ~Freeing',
         UNCHANGED <<head, first, done, inFlight>>
  PROVE  \E m \in Freed'..queued' : Submitted(m)'
<1>1. PICK k \in Freed..queued : Submitted(k)
  BY DEF OrderlyRing
<1>2. /\ N \in Nat \ {0} /\ tail \in Slots /\ queued \in 1..N /\ Freed = 1 /\ Freed' = 0
      /\ tail' = Pos(tail, 1) /\ queued' = queued - 1 /\ k \in 1..N
  BY <1>1, RingConstants DEF RingData, RingTypes, Freed, AdvanceTail, Succ, Pos
<1>3. \A j \in 1..k : j - 1 \in 0..(k - 1) /\ Pos(tail, j) = Pos(tail', j - 1)
  <2> TAKE j \in 1..k
  <2>1. j - 1 \in 0..(N - 1) /\ 1 \in 0..N /\ 1 + (j - 1) = j /\ j - 1 \in 0..(k - 1)
    BY <1>2
  <2> QED BY <1>2, <2>1, PosSum
<1>4. first' = Pos(tail', k - 1)
  BY <1>1, <1>2, <1>3 DEF Submitted
<1>5. ASSUME NEW i \in Slots, i \in inFlight \/ done[i]
      PROVE  \E j \in 0..((k - 1) - 1) : i = Pos(tail', j)
  <2>1. PICK j \in 1..(k - 1) : i = Pos(tail, j)
    BY <1>1, <1>2, <1>5 DEF Submitted
  <2>2. j \in 1..k /\ j - 1 \in 0..((k - 1) - 1)
    BY <1>2, <2>1
  <2> QED BY <1>3, <2>1, <2>2
<1>6. Submitted(k - 1)'
  BY <1>2, <1>4, <1>5 DEF Submitted, Pos
<1>7. k - 1 \in Freed'..queued'
  BY <1>1, <1>2
<1> QED BY <1>6, <1>7

LEMMA QueueOrderly ==
  ASSUME RingData, OrderlyRing, QueueSkb, stopPc \notin FlushedPcs,
         UNCHANGED <<first, tail, done, inFlight, statusPc, stopPc>>
  PROVE  OrderlyRing'
<1>1. PICK k \in Freed..queued : Submitted(k)
  BY DEF OrderlyRing
<1>2. Freed' = Freed /\ queued' = queued + 1 /\ queued \in Nat /\ Freed \in 0..1
  BY RingConstants DEF RingData, RingTypes, QueueSkb, Freed, Freeing, At
<1>3. Submitted(k)' /\ k \in Freed'..queued'
  BY <1>1, <1>2 DEF Submitted, Pos
<1> QED BY <1>3 DEF OrderlyRing, FlushedPcs, KilledPcs

(* Completions and the kill hand entries from the controller to the host.   *)
LEMMA HandBackOrderly ==
  ASSUME OrderlyRing, NEW S \in SUBSET inFlight, done \in [Slots -> BOOLEAN],
         inFlight \subseteq Slots,
         inFlight' = inFlight \ S, done' = [i \in Slots |-> done[i] \/ i \in S],
         UNCHANGED <<head, first, tail, queued, statusPc>>,
         stopPc' = stopPc \/ (stopPc = "kill" /\ stopPc' = "parkTxAgain" /\ S = inFlight)
  PROVE  OrderlyRing'
<1>1. PICK k \in Freed..queued : Submitted(k)
  BY DEF OrderlyRing
<1>2. Freed' = Freed
  BY DEF Freed, Freeing, At
<1>3. \A i \in Slots : i \in inFlight' \/ done'[i] => i \in inFlight \/ done[i]
  OBVIOUS
<1>4. Submitted(k)' /\ k \in Freed'..queued'
  BY <1>1, <1>2, <1>3 DEF Submitted, Pos
<1>5. \A i \in inFlight' : ~done'[i]
  BY DEF OrderlyRing
<1>6. stopPc' \in FlushedPcs => first' = head'
  BY DEF OrderlyRing, FlushedPcs
<1>7. stopPc' \in KilledPcs => inFlight' = {}
  BY DEF OrderlyRing, KilledPcs
<1> QED BY <1>4, <1>5, <1>6, <1>7 DEF OrderlyRing

(* Steps that leave the ring alone and do not free.                         *)
LEMMA RestOrderly ==
  ASSUME OrderlyRing, UNCHANGED <<idxVars, done, inFlight>>, Freeing' <=> Freeing,
         stopPc' \in FlushedPcs => stopPc \in FlushedPcs,
         stopPc' \in KilledPcs => stopPc \in KilledPcs
  PROVE  OrderlyRing'
<1>1. PICK k \in Freed..queued : Submitted(k)
  BY DEF OrderlyRing
<1>2. Freed' = Freed
  BY DEF Freed
<1>3. Submitted(k)' /\ k \in Freed'..queued'
  BY <1>1, <1>2 DEF Submitted, Pos, idxVars
<1> QED BY <1>3 DEF OrderlyRing, idxVars

LEMMA RestData ==
  ASSUME RingData, UNCHANGED <<head, tail, queued, skb, accepted, completed>>,
         Freeing' <=> Freeing,
         first' \in Slots, done' \in [Slots -> BOOLEAN], inFlight' \subseteq Slots
  PROVE  RingData'
<1>1. Freed' = Freed
  BY DEF Freed
<1> QED BY <1>1 DEF RingData, RingTypes, InOrder, Pos

-----------------------------------------------------------------------------
(* Types of the control variables: the flags, then the others.              *)
LEMMA FlagStep ==
  ASSUME FlagTypes, [Next]_vars
  PROVE  FlagTypes'
<1> USE DEF FlagTypes, txVars, statusVars, stateBits, timerVars
<1>1. CASE TxPick \/ TxQueue \/ TxKick
  BY <1>1, Zenon DEF TxPick, TxQueue, TxKick
<1>2. CASE TimerFire \/ TimerFlush
  BY <1>2, Zenon DEF TimerFire, TimerFlush
<1>3. CASE \E i \in Slots : UrbComplete(i)
  BY <1>3, Zenon DEF UrbComplete
<1>4. CASE StatusStart \/ StatusTake
  BY <1>4, Zenon DEF StatusStart, StatusTake
<1>5. CASE StatusAdvance \/ StatusEnd
  BY <1>5, Zenon DEF StatusAdvance, StatusEnd
<1>6. CASE StopBegin \/ StopParkTx
  BY <1>6, Zenon DEF StopBegin, StopParkTx
<1>7. CASE StopCancel \/ StopDisarm \/ StopFlush
  BY <1>7, Zenon DEF StopCancel, StopDisarm, StopFlush
<1>8. CASE StopParkStatus \/ StopWait
  BY <1>8, Zenon DEF StopParkStatus, StopWait
<1>9. CASE StopKill \/ StopParkTxAgain
  BY <1>9, Zenon DEF StopKill, StopParkTxAgain
<1>10. CASE StopTake \/ StopAdvance
  BY <1>10, Zenon DEF StopTake, StopAdvance
<1>11. CASE StopUnparkTx \/ StopUnparkStatus
  BY <1>11, Zenon DEF StopUnparkTx, StopUnparkStatus
<1>12. CASE StopFinish \/ Restart
  BY <1>12, Zenon DEF StopFinish, Restart
<1>13. CASE UNCHANGED vars
  BY <1>13, Zenon DEF vars
<1> QED
  BY <1>1, <1>2, <1>3, <1>4, <1>5, <1>6, <1>7, <1>8, <1>9, <1>10, <1>11, <1>12, <1>13
     DEF Next, StopTx, TxWorker, HoldTimer, StatusWorker

LEMMA PcStep ==
  ASSUME PcTypes, [Next]_vars
  PROVE  PcTypes' /\ caller' = caller
<1> USE DEF PcTypes, At, Go, txVars, statusVars, timerVars, StopPcs
<1>1. CASE TxPick \/ TxQueue \/ TxKick
  BY <1>1 DEF TxPick, TxQueue, TxKick
<1>2. CASE TimerFire \/ TimerFlush
  BY <1>2 DEF TimerFire, TimerFlush
<1>3. CASE \E i \in Slots : UrbComplete(i)
  BY <1>3 DEF UrbComplete
<1>4. CASE StatusStart \/ StatusTake
  BY <1>4 DEF StatusStart, StatusTake
<1>5. CASE StatusAdvance \/ StatusEnd
  BY <1>5 DEF StatusAdvance, StatusEnd
<1>6. CASE StopBegin \/ StopParkTx
  BY <1>6 DEF StopBegin, StopParkTx
<1>7. CASE StopCancel \/ StopDisarm \/ StopFlush
  BY <1>7 DEF StopCancel, StopDisarm, StopFlush
<1>8. CASE StopParkStatus \/ StopWait
  BY <1>8 DEF StopParkStatus, StopWait
<1>9. CASE StopKill \/ StopParkTxAgain
  BY <1>9 DEF StopKill, StopParkTxAgain
<1>10. CASE StopTake \/ StopAdvance
  BY <1>10 DEF StopTake, StopAdvance
<1>11. CASE StopUnparkTx \/ StopUnparkStatus
  BY <1>11 DEF StopUnparkTx, StopUnparkStatus
<1>12. CASE StopFinish \/ Restart
  BY <1>12 DEF StopFinish, Restart
<1>13. CASE UNCHANGED vars
  BY <1>13 DEF vars
<1> QED
  BY <1>1, <1>2, <1>3, <1>4, <1>5, <1>6, <1>7, <1>8, <1>9, <1>10, <1>11, <1>12, <1>13
     DEF Next, StopTx, TxWorker, HoldTimer, StatusWorker

-----------------------------------------------------------------------------
(* Every step: the ring stays as it should, and the FIFO accepts, completes *)
(* or does nothing.                                                         *)

FifoStep == [Fifo!Accept \/ Fifo!Complete]_<<accepted, completed>>

LEMMA TxStep ==
  ASSUME RingData, Parking, Orderly => OrderlyRing, TxWorker
  PROVE  RingData' /\ (Orderly => OrderlyRing') /\ FifoStep
<1> USE DEF txVars, statusVars, stateBits, timerVars
<1>0. RingTypes
  BY DEF RingData
<1>1. CASE TxPick
  <2>1. UNCHANGED <<idxVars, skb, done, inFlight, accepted, completed, statusPc, stopPc>>
    BY <1>1 DEF TxPick
  <2>2. Freeing' <=> Freeing
    BY <2>1 DEF Freeing, At
  <2>3. RingData'
    BY <1>0, <2>1, <2>2, RestData DEF idxVars, RingTypes
  <2> QED BY <2>1, <2>2, <2>3, RestOrderly DEF FifoStep
<1>2. CASE TxQueue
  <2>1. QueueSkb /\ accepted < MaxFrames /\ txPc # "idle"
        /\ UNCHANGED <<first, tail, done, inFlight, completed, statusPc, stopPc>>
    BY <1>2 DEF TxQueue
  <2>2. RingData'
    BY <2>1, QueueData
  <2>3. Orderly => stopPc \notin FlushedPcs
    BY <2>1 DEF Parking, Orderly
  <2>4. FifoStep
    BY <2>1 DEF FifoStep, Fifo!Accept, QueueSkb
  <2> QED BY <2>1, <2>2, <2>3, <2>4, QueueOrderly
<1>3. CASE TxKick
  <2>1. UNCHANGED <<head, tail, queued, skb, done, accepted, completed, statusPc, stopPc>>
        /\ (Submit \/ UNCHANGED <<first, inFlight>>)
    BY <1>3 DEF TxKick
  <2>2. Freeing' <=> Freeing
    BY <2>1 DEF Freeing, At
  <2>3. first' \in Slots /\ inFlight' \subseteq Slots /\ done' \in [Slots -> BOOLEAN]
    BY <1>0, <2>1, SubmitTypes DEF RingTypes
  <2>4. RingData'
    BY <2>1, <2>2, <2>3, RestData
  <2>5. Orderly => OrderlyRing'
    BY <2>1, <2>2, SubmitOrderly, RestOrderly DEF idxVars
  <2> QED BY <2>1, <2>4, <2>5 DEF FifoStep
<1> QED BY <1>1, <1>2, <1>3 DEF TxWorker

LEMMA TimerStep ==
  ASSUME RingData, Orderly => OrderlyRing, HoldTimer
  PROVE  RingData' /\ (Orderly => OrderlyRing') /\ FifoStep
<1> USE DEF txVars, statusVars, stateBits, timerVars
<1>0. RingTypes
  BY DEF RingData
<1>1. UNCHANGED <<head, tail, queued, skb, done, accepted, completed, statusPc, stopPc>>
      /\ (Submit \/ UNCHANGED <<first, inFlight>>)
  BY DEF HoldTimer, TimerFire, TimerFlush, idxVars
<1>2. Freeing' <=> Freeing
  BY <1>1 DEF Freeing, At
<1>3. first' \in Slots /\ inFlight' \subseteq Slots /\ done' \in [Slots -> BOOLEAN]
  BY <1>0, <1>1, SubmitTypes DEF RingTypes
<1>4. RingData'
  BY <1>1, <1>2, <1>3, RestData
<1>5. Orderly => OrderlyRing'
  BY <1>1, <1>2, SubmitOrderly, RestOrderly DEF idxVars
<1> QED BY <1>1, <1>4, <1>5 DEF FifoStep

LEMMA CompletionStep ==
  ASSUME RingData, Orderly => OrderlyRing, NEW i \in Slots, UrbComplete(i)
  PROVE  RingData' /\ (Orderly => OrderlyRing') /\ FifoStep
<1>1. /\ UNCHANGED <<head, first, tail, queued, skb, accepted, completed, statusPc, stopPc>>
      /\ i \in inFlight /\ inFlight' = inFlight \ {i} /\ done' = [done EXCEPT ![i] = TRUE]
  BY DEF UrbComplete, idxVars
<1>2. done \in [Slots -> BOOLEAN] /\ inFlight \subseteq Slots /\ first \in Slots
  BY DEF RingData, RingTypes
<1>3. done' = [j \in Slots |-> done[j] \/ j \in {i}]
  BY <1>1, <1>2
<1>4. Freeing' <=> Freeing
  BY <1>1 DEF Freeing, At
<1>5. RingData'
  BY <1>1, <1>2, <1>4, RestData
<1>6. Orderly => OrderlyRing'
  BY <1>1, <1>2, <1>3, HandBackOrderly
<1> QED BY <1>1, <1>5, <1>6 DEF FifoStep

(* One entry is freed, by the status worker or by the forced drain.         *)
LEMMA TakeStep ==
  ASSUME RingData, Parking, Orderly => OrderlyRing, StatusTake \/ StopTake
  PROVE  RingData' /\ (Orderly => OrderlyRing') /\ FifoStep
<1>1. /\ TakeTail /\ UNCHANGED <<idxVars, skb, inFlight, accepted>>
      /\ ~Freeing /\ Freeing'
      /\ \/ done[tail] /\ stopPc' = stopPc
         \/ stopPc = "complete" /\ stopPc' = "advance"
  <2>1. CASE StatusTake
    BY <2>1, OneDrain DEF StatusTake, Freeing, At
  <2>2. CASE StopTake
    BY <2>2, OneDrain DEF StopTake, Freeing, At, Go
  <2> QED BY <2>1, <2>2
<1>2. RingData' /\ completed' = Append(completed, Len(completed) + 1) /\ Len(completed) < accepted
  BY <1>1, TakeData
<1>3. FifoStep
  BY <1>1, <1>2 DEF FifoStep, Fifo!Complete
<1>4. ASSUME Orderly PROVE OrderlyRing'
  <2>1. OrderlyRing
    BY <1>4
  <2>2. PICK k \in Freed..queued : Submitted(k)
    BY <2>1 DEF OrderlyRing
  <2>3. /\ Freed = 0 /\ queued \in 0..N /\ queued > 0 /\ N \in Nat /\ tail \in Slots
        /\ inFlight \subseteq Slots /\ done \in [Slots -> BOOLEAN] /\ head = Pos(tail, queued)
    BY <1>1, RingConstants DEF Freed, RingData, RingTypes, TakeTail
  <2>4. tail \notin inFlight /\ \E m \in 1..queued : Submitted(m)
    <3>1. CASE done[tail]
      <4>1. tail \notin inFlight
        BY <2>1, <3>1 DEF OrderlyRing
      <4>2. k >= 1
        BY <2>2, <2>3, <3>1 DEF Submitted
      <4> QED BY <2>2, <2>3, <4>1, <4>2
    <3>2. CASE stopPc = "complete"
      <4>1. inFlight = {} /\ first = head
        BY <2>1, <3>2 DEF OrderlyRing, KilledPcs, FlushedPcs
      <4>2. \A i \in Slots : i \in inFlight \/ done[i] => \E j \in Freed..(queued - 1) : i = Pos(tail, j)
        <5> TAKE i \in Slots
        <5> HAVE i \in inFlight \/ done[i]
        <5>1. PICK j \in Freed..(k - 1) : i = Pos(tail, j)
          BY <2>2 DEF Submitted
        <5>2. j \in Freed..(queued - 1)
          BY <2>2, <2>3
        <5> QED BY <5>1, <5>2
      <4>3. Submitted(queued) /\ queued \in 1..queued
        BY <2>3, <4>1, <4>2 DEF Submitted
      <4> QED BY <4>1, <4>3
    <3> QED BY <1>1, <3>1, <3>2
  <2>5. \E m \in Freed'..queued' : Submitted(m)'
    BY <1>1, <2>4, TakeOrderly
  <2>6. \A i \in inFlight' : ~done'[i]
    BY <1>1, <2>1, <2>3 DEF OrderlyRing, TakeTail
  <2>7. stopPc' \in FlushedPcs => first' = head'
    BY <1>1, <2>1 DEF OrderlyRing, FlushedPcs, idxVars
  <2>8. stopPc' \in KilledPcs => inFlight' = {}
    BY <1>1, <2>1 DEF OrderlyRing, KilledPcs
  <2> QED BY <2>5, <2>6, <2>7, <2>8 DEF OrderlyRing
<1> QED BY <1>2, <1>3, <1>4

LEMMA AdvanceStep ==
  ASSUME RingData, Parking, Orderly => OrderlyRing, StatusAdvance \/ StopAdvance
  PROVE  RingData' /\ (Orderly => OrderlyRing') /\ FifoStep
<1>1. /\ AdvanceTail /\ Freeing /\ ~Freeing'
      /\ UNCHANGED <<head, first, skb, done, inFlight, accepted, completed>>
      /\ stopPc' \in FlushedPcs => stopPc \in FlushedPcs
      /\ stopPc' \in KilledPcs => stopPc \in KilledPcs
  <2>1. CASE StatusAdvance
    BY <2>1, OneDrain DEF StatusAdvance, Freeing, At
  <2>2. CASE StopAdvance
    BY <2>2, OneDrain DEF StopAdvance, Freeing, At, Go, statusVars, FlushedPcs, KilledPcs
  <2> QED BY <2>1, <2>2
<1>2. RingData'
  BY <1>1, AdvanceData
<1>3. Orderly => OrderlyRing'
  BY <1>1, AdvanceOrderly DEF OrderlyRing
<1> QED BY <1>1, <1>2, <1>3 DEF FifoStep

(* Steps that only move a thread.                                           *)
LEMMA QuietStep ==
  ASSUME RingData, Orderly => OrderlyRing, Freeing' <=> Freeing,
         UNCHANGED <<idxVars, skb, done, inFlight, accepted, completed>>,
         stopPc' \in FlushedPcs => stopPc \in FlushedPcs,
         stopPc' \in KilledPcs => stopPc \in KilledPcs
  PROVE  RingData' /\ (Orderly => OrderlyRing') /\ FifoStep
<1>1. RingData'
  BY RestData DEF idxVars, RingData, RingTypes
<1> QED BY <1>1, RestOrderly DEF FifoStep

LEMMA StopFlushStep ==
  ASSUME RingData, Orderly => OrderlyRing, StopFlush
  PROVE  RingData' /\ (Orderly => OrderlyRing') /\ FifoStep
<1>1. /\ UNCHANGED <<head, tail, queued, skb, done, accepted, completed>> /\ Submit
      /\ (Freeing' <=> Freeing) /\ stopPc' \notin KilledPcs
  BY DEF StopFlush, Freeing, At, Go, KilledPcs, statusVars
<1>2. first' \in Slots /\ inFlight' \subseteq Slots /\ done' \in [Slots -> BOOLEAN]
  BY <1>1, SubmitTypes DEF RingData, RingTypes
<1>3. RingData'
  BY <1>1, <1>2, RestData
<1> QED BY <1>1, <1>3, SubmitOrderly DEF FifoStep

LEMMA StopKillStep ==
  ASSUME RingData, Orderly => OrderlyRing, StopKill
  PROVE  RingData' /\ (Orderly => OrderlyRing') /\ FifoStep
<1>1. /\ UNCHANGED <<head, first, tail, queued, skb, accepted, completed, statusPc>>
      /\ inFlight' = inFlight \ inFlight /\ stopPc = "kill" /\ stopPc' = "parkTxAgain"
      /\ done' = [i \in Slots |-> done[i] \/ i \in inFlight]
      /\ Freeing' <=> Freeing
  BY DEF StopKill, Freeing, At, Go, idxVars
<1>2. done \in [Slots -> BOOLEAN] /\ inFlight \subseteq Slots /\ first \in Slots
  BY DEF RingData, RingTypes
<1>3. RingData'
  BY <1>1, <1>2, RestData
<1>4. Orderly => OrderlyRing'
  BY <1>1, <1>2, HandBackOrderly
<1> QED BY <1>1, <1>3, <1>4 DEF FifoStep

LEMMA NextStep ==
  ASSUME RingData, Parking, Orderly => OrderlyRing, [Next]_vars
  PROVE  RingData' /\ (Orderly => OrderlyRing') /\ FifoStep
<1>1. CASE TxWorker
  BY <1>1, TxStep
<1>2. CASE HoldTimer
  BY <1>2, TimerStep
<1>3. CASE \E i \in Slots : UrbComplete(i)
  BY <1>3, CompletionStep
<1>4. CASE StatusTake \/ StopTake
  BY <1>4, TakeStep
<1>5. CASE StatusAdvance \/ StopAdvance
  BY <1>5, AdvanceStep
<1>6. CASE StopFlush
  BY <1>6, StopFlushStep
<1>7. CASE StopKill
  BY <1>7, StopKillStep
<1> USE DEF Freeing, At, Go, FlushedPcs, KilledPcs, statusVars
<1>8. CASE StatusStart \/ StatusEnd
  BY <1>8, QuietStep DEF StatusStart, StatusEnd
<1>9. CASE StopBegin \/ StopParkTx \/ StopCancel \/ StopDisarm
  BY <1>9, QuietStep DEF StopBegin, StopParkTx, StopCancel, StopDisarm
<1>10. CASE StopParkStatus \/ StopWait \/ StopParkTxAgain
  BY <1>10, QuietStep DEF StopParkStatus, StopWait, StopParkTxAgain
<1>11. CASE StopUnparkTx \/ StopUnparkStatus \/ StopFinish
  BY <1>11, QuietStep DEF StopUnparkTx, StopUnparkStatus, StopFinish
<1>12. CASE Restart \/ UNCHANGED vars
  BY <1>12, QuietStep DEF Restart, vars
<1> QED
  BY <1>1, <1>2, <1>3, <1>4, <1>5, <1>6, <1>7, <1>8, <1>9, <1>10, <1>11, <1>12
     DEF Next, StopTx, StatusWorker

LEMMA NextPreserves == IInv /\ [Next]_vars => IInv' /\ FifoStep
<1> SUFFICES ASSUME IInv, [Next]_vars PROVE IInv' /\ FifoStep
  OBVIOUS
<1>1. RingData /\ ControlTypes /\ Parking /\ (Orderly => OrderlyRing) /\ TypeOK
  BY PartsOfIInv DEF IInv, RingIsConsistent
<1>2. ControlTypes' /\ caller' = caller
  BY <1>1, FlagStep, PcStep DEF ControlTypes
<1>3. Parking'
  BY <1>1, ParkingStep
<1>4. RingData' /\ (Orderly => OrderlyRing') /\ FifoStep
  BY <1>1, NextStep
<1>5. Orderly' <=> Orderly
  BY <1>2 DEF Orderly
<1>6. (RingData /\ ControlTypes /\ Parking /\ (Orderly => OrderlyRing))' => IInv'
  BY PartsOfIInv, PTL
<1> QED BY <1>2, <1>3, <1>4, <1>5, <1>6

-----------------------------------------------------------------------------
(* A ring of any size and any number of frames: the indices agree, and what *)
(* is queued is what was accepted and not completed, in order, whichever of *)
(* the status worker and the forced drain empties it.                       *)
THEOREM RingAlwaysConsistent == Spec => []RingIsConsistent
<1>1. IInv => RingIsConsistent
  BY DEF IInv
<1>2. IInv /\ [Next]_vars => IInv'
  BY NextPreserves
<1> QED BY InitEstablishes, <1>1, <1>2, PTL DEF Spec

(* The chip reset, however often it comes and however much of the ring was  *)
(* never submitted: the skb of a URB the controller owns is not freed.      *)
THEOREM FreedIsNotInFlight == Spec => []FreedNotInFlight
<1>1. IInv => FreedNotInFlight
  <2> SUFFICES ASSUME IInv, Orderly, NEW i \in inFlight, NEW m \in DOMAIN completed
               PROVE  completed[m] # skb[i]
    BY DEF FreedNotInFlight
  <2>1. RingData /\ OrderlyRing
    BY PartsOfIInv
  <2>2. PICK k \in Freed..queued : Submitted(k)
    BY <2>1 DEF OrderlyRing
  <2>3. /\ queued \in 0..N /\ N \in Nat /\ accepted \in Nat /\ Freed \in 0..1 /\ i \in Slots
        /\ Len(completed) \in Nat /\ DOMAIN completed = 1..Len(completed)
    BY <2>1, RingConstants, LenProperties DEF RingData, RingTypes, Freed
  <2>4. PICK j \in Freed..(k - 1) : i = Pos(tail, j)
    BY <2>2, <2>3 DEF Submitted
  <2>5. skb[i] = accepted - queued + j + 1 /\ j >= Freed
    BY <2>1, <2>2, <2>3, <2>4 DEF RingData
  <2>6. completed[m] = m /\ m \in 1..Len(completed)
    BY <2>1, <2>3 DEF RingData, InOrder
  <2>7. Len(completed) + queued = accepted + Freed
    BY <2>1 DEF RingData
  <2> QED BY <2>3, <2>4, <2>5, <2>6, <2>7
<1>2. IInv /\ [Next]_vars => IInv'
  BY NextPreserves
<1> QED BY InitEstablishes, <1>1, <1>2, PTL DEF Spec

(* The frames completed so far are 1, 2, 3, ...: each once, none left out.  *)
THEOREM CompletedInOrder == Spec => []InOrder
<1>1. IInv => InOrder
  BY DEF IInv
<1>2. IInv /\ [Next]_vars => IInv'
  BY NextPreserves
<1> QED BY InitEstablishes, <1>1, <1>2, PTL DEF Spec

(* The ring of URBs implements the FIFO of TxFifo: every step of every      *)
(* thread accepts the next frame, completes the oldest, or neither.         *)
THEOREM RingImplementsFifo == Spec => ImplementsFifo
<1>1. Init => Fifo!Init
  BY DEF Init, Fifo!Init
<1>2. IInv /\ [Next]_vars => [Fifo!Accept \/ Fifo!Complete]_<<accepted, completed>>
  BY NextPreserves DEF FifoStep
<1>3. IInv /\ [Next]_vars => IInv'
  BY NextPreserves
<1> QED BY InitEstablishes, <1>1, <1>2, <1>3, PTL DEF Spec, ImplementsFifo, Fifo!Spec

-----------------------------------------------------------------------------
(* A burst leaves FreeThr slots of the ring unused, although the queue is   *)
(* looked at before the frame is dequeued and filled only after that        *)
(* (mt76_txq_stopped): mt76u_tx_queue_skb never meets the full ring, and    *)
(* with FreeThr > 0 first = head says that nothing is left to submit.       *)
FreeSlotsKept ==
  /\ queued + FreeThr <= N
  /\ txPc = "picked" => queued + FreeThr < N

LEMMA FreeSlotsStep ==
  ASSUME RingTypes, FreeSlotsKept, [Next]_vars
  PROVE  FreeSlotsKept'
<1>0. queued \in Nat /\ FreeThr \in Nat /\ N \in Nat
  BY RingConstants DEF RingTypes
<1> USE DEF idxVars, txVars
<1>1. CASE TxPick
  BY <1>0, <1>1 DEF TxPick, Stopped, FreeSlotsKept
<1>2. CASE TxQueue
  <2>1. queued' = queued + 1 /\ txPc' = "burst" /\ queued + FreeThr < N
    BY <1>0, <1>2 DEF TxQueue, QueueSkb, Stopped, FreeSlotsKept
  <2> QED BY <1>0, <2>1 DEF FreeSlotsKept
<1>3. CASE TxKick
  BY <1>3 DEF TxKick, FreeSlotsKept
<1>4. CASE StatusAdvance \/ StopAdvance
  <2>1. queued' = queued - 1 /\ txPc' = txPc
    BY <1>4 DEF StatusAdvance, StopAdvance, AdvanceTail
  <2> QED BY <1>0, <2>1 DEF FreeSlotsKept
<1>5. CASE HoldTimer \/ \E i \in Slots : UrbComplete(i)
  BY <1>5 DEF HoldTimer, TimerFire, TimerFlush, UrbComplete, FreeSlotsKept
<1>6. CASE StatusStart \/ StatusTake \/ StatusEnd
  BY <1>6 DEF StatusStart, StatusTake, StatusEnd, FreeSlotsKept
<1>7. CASE StopBegin \/ StopParkTx \/ StopCancel \/ StopDisarm \/ StopFlush
  BY <1>7 DEF StopBegin, StopParkTx, StopCancel, StopDisarm, StopFlush, FreeSlotsKept
<1>8. CASE StopParkStatus \/ StopWait \/ StopKill \/ StopParkTxAgain \/ StopTake
  BY <1>8 DEF StopParkStatus, StopWait, StopKill, StopParkTxAgain, StopTake, FreeSlotsKept
<1>9. CASE StopUnparkTx \/ StopUnparkStatus \/ StopFinish \/ Restart \/ UNCHANGED vars
  BY <1>9 DEF StopUnparkTx, StopUnparkStatus, StopFinish, Restart, vars, FreeSlotsKept
<1> QED
  BY <1>1, <1>2, <1>3, <1>4, <1>5, <1>6, <1>7, <1>8, <1>9
     DEF Next, TxWorker, StatusWorker, StopTx

(* tx_worker never fills the last FreeThr slots of the ring, for any size   *)
(* and threshold, whichever thread frees entries beside it.                 *)
THEOREM FreeSlotsAlwaysKept == Spec => []FreeSlotsKept
<1>1. Init => FreeSlotsKept
  BY RingConstants DEF Init, FreeSlotsKept
<1>2. IInv => RingTypes
  BY PartsOfIInv DEF RingData
<1>3. IInv /\ FreeSlotsKept /\ [Next]_vars => FreeSlotsKept'
  BY <1>2, FreeSlotsStep
<1> QED BY InitEstablishes, NextPreserves, <1>1, <1>3, PTL DEF Spec

-----------------------------------------------------------------------------
(* The safety half of EveryFrameCompletes for the hold window: entries that *)
(* are queued and not submitted have a burst that will end in a kick, the   *)
(* timer, or the flush of mt76u_tx_hold_cancel before them; and the flag    *)
(* that keeps a kick from arming the timer is never left set without it     *)
(* (usb.c, mt76u_tx_kick and mt76u_tx_hold_timer_fn).                       *)
HeldIsFlushed ==
  Orderly => /\ \/ first = head
                \/ txPc = "burst"
                \/ timer # {}
                \/ stopPc \in {"disarm", "flush"}
             /\ armed => "pending" \in timer \/ stopPc = "disarm"

LEMMA HeldStep ==
  ASSUME IInv, HeldIsFlushed, [Next]_vars
  PROVE  HeldIsFlushed'
<1>0. RingData /\ Parking /\ caller' = caller /\ (Orderly' <=> Orderly)
  <2>1. caller' = caller
    BY PcStep, PartsOfIInv DEF ControlTypes
  <2> QED BY <2>1, PartsOfIInv DEF Orderly
<1> SUFFICES ASSUME Orderly PROVE HeldIsFlushed'
  BY <1>0 DEF HeldIsFlushed
<1>1. OrderlyRing /\ caller = "reset"
  BY PartsOfIInv DEF Orderly
<1>2. ASSUME Submit, UNCHANGED <<head, tail, queued, done>>, Freeing' <=> Freeing,
             stopPc' \in KilledPcs => stopPc \in KilledPcs
      PROVE  first' = head'
  BY <1>0, <1>1, <1>2, SubmitOrderly
<1> USE DEF idxVars, txVars, timerVars, At, Go
<1>3. CASE TxPick
  <2>1. txPc = "idle" /\ UNCHANGED <<first, head, timer, armed, stopPc>>
    BY <1>3 DEF TxPick
  <2> QED BY <2>1 DEF HeldIsFlushed
<1>4. CASE TxQueue
  BY <1>4 DEF TxQueue, HeldIsFlushed
<1>5. CASE TxKick
  <2>1. CASE Submit /\ UNCHANGED timerVars
    <3>1. UNCHANGED <<head, tail, queued, done, statusPc, stopPc>>
      BY <1>5 DEF TxKick, statusVars
    <3>2. first' = head'
      BY <1>2, <2>1, <3>1 DEF Freeing
    <3> QED BY <2>1, <3>1, <3>2 DEF HeldIsFlushed
  <2>2. CASE armed' = TRUE /\ timer' = IF armed THEN timer ELSE timer \cup {"pending"}
    <3>1. stopPc' = stopPc
      BY <1>5 DEF TxKick
    <3>2. "pending" \in timer' \/ stopPc' = "disarm"
      BY <2>2, <3>1 DEF HeldIsFlushed
    <3> QED BY <3>2 DEF HeldIsFlushed
  <2> QED BY <1>5, <2>1, <2>2 DEF TxKick
<1>6. CASE TimerFire
  BY <1>6 DEF TimerFire, HeldIsFlushed
<1>7. CASE TimerFlush
  <2>1. /\ Submit /\ timer' = timer \ {"firing"}
        /\ UNCHANGED <<head, tail, queued, done, armed, statusPc, stopPc>>
    BY <1>7 DEF TimerFlush, statusVars
  <2>2. first' = head'
    BY <1>2, <2>1 DEF Freeing
  <2> QED BY <2>1, <2>2 DEF HeldIsFlushed
<1>8. CASE StopFlush
  <2>1. /\ Submit /\ stopPc = "flush" /\ stopPc' = "parkStatus"
        /\ UNCHANGED <<head, tail, queued, done, armed, timer, statusPc>>
    BY <1>8 DEF StopFlush, statusVars
  <2>2. first' = head'
    BY <1>2, <2>1 DEF Freeing, KilledPcs
  <2> QED BY <2>1, <2>2 DEF HeldIsFlushed
<1>9. CASE StopCancel
  BY <1>9 DEF StopCancel, HeldIsFlushed
<1>10. CASE StopDisarm
  BY <1>10 DEF StopDisarm, HeldIsFlushed
<1>11. CASE (\E i \in Slots : UrbComplete(i)) \/ StatusWorker
  <2>1. UNCHANGED <<first, head, timer, armed, txPc, stopPc>>
    BY <1>11 DEF UrbComplete, StatusWorker, StatusStart, StatusTake, StatusAdvance, StatusEnd
  <2> QED BY <2>1 DEF HeldIsFlushed
<1>12. CASE StopBegin \/ StopParkTx \/ StopParkStatus \/ StopWait \/ StopKill
  <2>1. /\ UNCHANGED <<first, head, timer, armed, txPc>>
        /\ stopPc \notin {"disarm", "flush"}
    BY <1>12 DEF StopBegin, StopParkTx, StopParkStatus, StopWait, StopKill
  <2> QED BY <2>1 DEF HeldIsFlushed
<1>13. CASE StopParkTxAgain \/ StopTake \/ StopAdvance
  <2>1. /\ UNCHANGED <<first, head, timer, armed, txPc>>
        /\ stopPc \notin {"disarm", "flush"}
    BY <1>13 DEF StopParkTxAgain, StopTake, StopAdvance
  <2> QED BY <2>1 DEF HeldIsFlushed
<1>14. CASE StopUnparkTx \/ StopUnparkStatus \/ StopFinish
  <2>1. /\ UNCHANGED <<first, head, timer, armed, txPc>>
        /\ stopPc \notin {"disarm", "flush"}
    BY <1>14 DEF StopUnparkTx, StopUnparkStatus, StopFinish
  <2> QED BY <2>1 DEF HeldIsFlushed
<1>15. CASE Restart \/ UNCHANGED vars
  <2>1. UNCHANGED <<first, head, timer, armed, txPc, stopPc>>
    BY <1>15 DEF Restart, vars
  <2> QED BY <2>1 DEF HeldIsFlushed
<1> QED
  BY <1>3, <1>4, <1>5, <1>6, <1>7, <1>8, <1>9, <1>10, <1>11, <1>12, <1>13, <1>14, <1>15
     DEF Next, TxWorker, HoldTimer, StopTx

(* A frame in the hold window is never stranded: whatever kicks, timer      *)
(* callbacks and chip resets do, something that submits it is still to come.*)
THEOREM HeldFramesAreFlushed == Spec => []HeldIsFlushed
<1>1. Init => HeldIsFlushed
  BY DEF Init, HeldIsFlushed
<1> QED BY InitEstablishes, NextPreserves, <1>1, HeldStep, PTL DEF Spec
=============================================================================
