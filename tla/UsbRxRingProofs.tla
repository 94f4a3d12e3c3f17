--------------------------- MODULE UsbRxRingProofs ---------------------------
(***************************************************************************)
(* Proofs about UsbRxRing: who owns a receive URB, in what order URBs and  *)
(* frames go round, and that a suspend keeps new chip resets off the rings,*)
(* for rings of any size.                                                  *)
(***************************************************************************)
EXTENDS UsbRxRing, Integers, SequenceTheorems, WellFoundedInduction, TLAPS

-----------------------------------------------------------------------------
(* The inductive invariant.  What concerns one queue is said of the values  *)
(* of its variables: head h, tail t, n completed entries, the URBs fl of    *)
(* the controller and the URB u in the worker's hand.                       *)

Pos(t, j) == (t + j) % NDesc

(* The place in the ring is one for each URB.                               *)
Owned(h, t, n, fl, u) ==
  /\ n \in 0..NDesc /\ h = Pos(t, n)
  /\ \A i \in 1..Len(fl), j \in 1..Len(fl) : fl[i] = fl[j] => i = j
  /\ \A i \in 1..Len(fl) : fl[i] # u /\ \A k \in 0..(n - 1) : fl[i] # Pos(t, k)
  /\ u # NoUrb => n < NDesc /\ t = Pos(u, 1)

(* No URB is missing: the controller has the ring from h on.                *)
Complete(h, n, fl, u) ==
  /\ Len(fl) = NDesc - n - (IF u # NoUrb THEN 1 ELSE 0)
  /\ \A k \in 1..Len(fl) : fl[k] = Pos(h, k - 1)

(* The frames that wait, fr, are later than the last one handed up, hi, and *)
(* than the last restart, si, and in order; s have been sent.               *)
Fresh(t, n, u, fr, hi, si, s) ==
  /\ hi <= s /\ si <= s
  /\ \A j \in 0..(n - 1) :
       LET f == fr[Pos(t, j)] IN f # 0 => f > hi /\ f > si /\ f <= s
  /\ \A j \in 0..(n - 1), k \in 0..(n - 1) :
       j < k /\ fr[Pos(t, j)] # 0 /\ fr[Pos(t, k)] # 0 => fr[Pos(t, j)] < fr[Pos(t, k)]
  /\ u # NoUrb /\ fr[u] # 0 =>
       /\ fr[u] > hi /\ fr[u] > si /\ fr[u] <= s
       /\ \A j \in 0..(n - 1) : fr[Pos(t, j)] # 0 => fr[u] < fr[Pos(t, j)]

HandOf(q) == IF wq = q THEN hand ELSE NoUrb

QueueOk(q) ==
  /\ Owned(head[q], tail[q], queued[q], flight[q], HandOf(q))
  /\ intact[q] => Complete(head[q], queued[q], flight[q], HandOf(q))
  /\ Fresh(tail[q], queued[q], HandOf(q), frame[q], up[q], since[q], sent)

(* A parked worker is at rest, and has a URB only between two of its steps. *)
WorkerOk ==
  /\ parked => wpc = "idle"
  /\ wpc = "process" <=> hand # NoUrb

(* An agent that has stopped the rings keeps the worker parked.             *)
StoppedPcs  == {"poison", "asleep", "resume", "enable"}
StopsWorker == \A a \in Agents : pc[a] \in StoppedPcs => parked

(* Every URB is poisoned as often as the agents still have to unpoison it.  *)
Owes(a, q) ==
  IF \/ pc[a] = "poison" /\ q < at[a]
     \/ pc[a] = "asleep"
     \/ pc[a] = "resume" /\ at[a] <= q
  THEN 1 ELSE 0
PoisonCounted == \A q \in Queues : reject[q] >= Owes("reset", q) + Owes("pm", q)

TriesLeft == pc["reset"] \notin {"idle", "finish"} => left >= 1

(* A suspend that found no reset outstanding keeps new ones out.            *)
SuspendAlone ==
  pc["pm"] # "idle" /\ ~late => suspended /\ ~resetQueued /\ pc["reset"] = "idle"

(* Only frames that were sent are seen.                                     *)
FramesSent ==
  /\ frame \in Each([Slots -> 0 .. sent])
  /\ up \in Each(0 .. sent) /\ since \in Each(0 .. sent)

IInv ==
  /\ TypeOK /\ FramesSent /\ WorkerOk /\ PoisonCounted /\ TriesLeft /\ SuspendAlone
  /\ ~overlapped => StopsWorker /\ \A q \in Queues : QueueOk(q)

-----------------------------------------------------------------------------
(* Places in the ring: the j-th URB from t on.                              *)

LEMMA PosValue ==
  ASSUME NEW t \in Slots, NEW j \in 0..NDesc
  PROVE  /\ Pos(t, j) \in Slots
         /\ Pos(t, j) = IF t + j < NDesc THEN t + j ELSE t + j - NDesc
<1>1. NDesc \in Nat \ {0} /\ t \in 0..(NDesc - 1)
  BY RxConstants DEF Slots
<1>2. CASE t + j < NDesc
  BY <1>1, <1>2 DEF Pos, Slots
<1>3. CASE t + j >= NDesc
  BY <1>1, <1>3 DEF Pos, Slots
<1> QED BY <1>1, <1>2, <1>3

LEMMA PosInjective ==
  ASSUME NEW t \in Slots, NEW i \in 0..(NDesc - 1), NEW j \in 0..(NDesc - 1),
         Pos(t, i) = Pos(t, j)
  PROVE  i = j
<1>1. NDesc \in Nat \ {0} /\ t \in 0..(NDesc - 1) /\ i \in 0..NDesc /\ j \in 0..NDesc
  BY RxConstants DEF Slots
<1>2. /\ Pos(t, i) = IF t + i < NDesc THEN t + i ELSE t + i - NDesc
      /\ Pos(t, j) = IF t + j < NDesc THEN t + j ELSE t + j - NDesc
  BY <1>1, PosValue
<1>3. (IF t + i < NDesc THEN t + i ELSE t + i - NDesc)
      = (IF t + j < NDesc THEN t + j ELSE t + j - NDesc)
  BY <1>2
<1> QED BY <1>1, <1>3

LEMMA PosSum ==
  ASSUME NEW t \in Slots, NEW a \in 0..NDesc, NEW b \in 0..(NDesc - a)
  PROVE  Pos(Pos(t, a), b) = Pos(t, a + b)
<1>1. /\ NDesc \in Nat \ {0} /\ t \in 0..(NDesc - 1)
      /\ b \in 0..NDesc /\ a + b \in 0..NDesc
  BY RxConstants DEF Slots
<1>2. /\ Pos(t, a) \in Slots
      /\ Pos(t, a) = IF t + a < NDesc THEN t + a ELSE t + a - NDesc
  BY <1>1, PosValue
<1>3. /\ Pos(Pos(t, a), b) = IF Pos(t, a) + b < NDesc THEN Pos(t, a) + b
                             ELSE Pos(t, a) + b - NDesc
      /\ Pos(t, a + b) = IF t + (a + b) < NDesc THEN t + (a + b)
                         ELSE t + (a + b) - NDesc
  BY <1>1, <1>2, PosValue
<1> QED BY <1>1, <1>2, <1>3

(* A full window is the whole ring.                                         *)
LEMMA PosCovers ==
  ASSUME NEW t \in Slots, NEW u \in Slots
  PROVE  \E k \in 0..(NDesc - 1) : u = Pos(t, k)
<1>1. NDesc \in Nat \ {0} /\ t \in 0..(NDesc - 1) /\ u \in 0..(NDesc - 1)
  BY RxConstants DEF Slots
<1> DEFINE k == IF u >= t THEN u - t ELSE u - t + NDesc
<1>2. k \in 0..(NDesc - 1) /\ k \in 0..NDesc /\ u = IF t + k < NDesc THEN t + k ELSE t + k - NDesc
  BY <1>1
<1> HIDE DEF k
<1>3. u = Pos(t, k)
  BY <1>2, PosValue
<1> QED BY <1>2, <1>3

LEMMA Ring ==
  /\ NDesc \in Nat /\ NDesc >= 1 /\ 0 \in Slots /\ NoUrb = NDesc /\ NoUrb \notin Slots
  /\ Slots = 0..(NDesc - 1)
  /\ \A t \in Slots : Pos(t, 0) = t /\ Pos(t, NDesc) = t /\ Next1(t) = Pos(t, 1)
                      /\ Pos(t, 1) \in Slots
<1>1. NDesc \in Nat \ {0}
  BY RxConstants
<1>2. \A t \in Slots : Pos(t, 0) = t /\ Pos(t, NDesc) = t /\ Pos(t, 1) \in Slots
  <2> TAKE t \in Slots
  <2>1. 0 \in 0..NDesc /\ 1 \in 0..NDesc /\ NDesc \in 0..NDesc /\ t \in 0..(NDesc - 1)
    BY <1>1 DEF Slots
  <2>2. /\ Pos(t, 0) = IF t + 0 < NDesc THEN t + 0 ELSE t + 0 - NDesc
        /\ Pos(t, NDesc) = IF t + NDesc < NDesc THEN t + NDesc ELSE t + NDesc - NDesc
        /\ Pos(t, 1) \in Slots
    BY <2>1, PosValue
  <2> QED BY <1>1, <2>1, <2>2
<1>3. \A t \in Slots : Next1(t) = Pos(t, 1)
  BY DEF Next1, Pos
<1> QED BY <1>1, <1>2, <1>3 DEF Slots, NoUrb

LEMMA NextSlot == \A t \in Slots : Next1(t) = Pos(t, 1) /\ Next1(t) \in Slots
<1> SUFFICES ASSUME NEW t \in Slots PROVE Next1(t) = Pos(t, 1) /\ Next1(t) \in Slots
  OBVIOUS
<1> QED BY Ring

-----------------------------------------------------------------------------
(* What the steps do to the owners of a queue's URBs.                       *)

(* A URB comes back: it leaves the controller, and if it is the one the     *)
(* head points to, it joins the completed ones.                             *)
LEMMA ComeBackOwned ==
  ASSUME NEW h \in Slots, NEW t \in Slots, NEW n \in Nat, NEW fl \in Seq(Slots),
         NEW u \in 0..NDesc, fl # <<>>, Owned(h, t, n, fl, u)
  PROVE  /\ Owned(h, t, n, Tail(fl), u)
         /\ Head(fl) = h => /\ Owned(Pos(h, 1), t, n + 1, Tail(fl), u)
                            /\ n < NDesc
                            /\ h # u /\ \A k \in 0..(n - 1) : h # Pos(t, k)
<1>1. /\ Tail(fl) \in Seq(Slots) /\ Len(Tail(fl)) = Len(fl) - 1 /\ Len(fl) \in Nat /\ Len(fl) >= 1
      /\ \A i \in 1..Len(Tail(fl)) : Tail(fl)[i] = fl[i + 1] /\ fl[i + 1] \in Slots
      /\ Head(fl) = fl[1] /\ fl[1] \in Slots
  BY HeadTailProperties, LenProperties
<1> DEFINE fm == Tail(fl)
<1>a. /\ Len(fm) \in Nat /\ Len(fl) = Len(fm) + 1
      /\ \A i \in 1..Len(fm) : fm[i] = fl[i + 1] /\ i + 1 \in 1..Len(fl)
  BY <1>1
<1> HIDE DEF fm
<1>2. Owned(h, t, n, fm, u)
  <2>1. ASSUME NEW i \in 1..Len(fm), NEW j \in 1..Len(fm), fm[i] = fm[j] PROVE i = j
    <3>1. i + 1 = j + 1
      BY <1>a, <2>1 DEF Owned
    <3> QED BY <3>1
  <2>2. ASSUME NEW i \in 1..Len(fm)
        PROVE  fm[i] # u /\ \A k \in 0..(n - 1) : fm[i] # Pos(t, k)
    BY <1>a DEF Owned
  <2> QED BY <2>1, <2>2 DEF Owned
<1>3. ASSUME Head(fl) = h
      PROVE  /\ Owned(Pos(h, 1), t, n + 1, fm, u) /\ n < NDesc
             /\ h # u /\ \A k \in 0..(n - 1) : h # Pos(t, k)
  <2>1. fl[1] = h /\ h # u /\ \A k \in 0..(n - 1) : h # Pos(t, k)
    BY <1>1, <1>3 DEF Owned
  <2>2. n < NDesc
    <3>1. PICK k \in 0..(NDesc - 1) : h = Pos(t, k)
      BY PosCovers
    <3> QED BY <2>1, <3>1, Ring DEF Owned
  <2>3. Pos(t, n + 1) = Pos(h, 1)
    <3>1. n \in 0..NDesc /\ 1 \in 0..(NDesc - n) /\ h = Pos(t, n)
      BY <2>2, Ring DEF Owned
    <3> QED BY <3>1, PosSum
  <2>4. u # NoUrb => n + 1 < NDesc
    <3>1. SUFFICES ASSUME u # NoUrb, n + 1 = NDesc PROVE FALSE
      BY <2>2, Ring
    <3>2. u \in Slots /\ t = Pos(u, 1) /\ 1 \in 0..NDesc /\ n \in 0..(NDesc - 1) /\ 1 + n = NDesc
      BY <3>1, Ring DEF Owned
    <3>3. Pos(Pos(u, 1), n) = Pos(u, 1 + n)
      BY <3>2, Ring, PosSum
    <3>4. h = u
      BY <3>2, <3>3, Ring DEF Owned
    <3> QED BY <2>1, <3>4
  <2>5. ASSUME NEW i \in 1..Len(fm) PROVE fm[i] # h
    <3>1. 1 \in 1..Len(fl) /\ i + 1 \in 1..Len(fl) /\ i + 1 # 1
      BY <1>a
    <3> QED BY <1>a, <2>1, <3>1 DEF Owned
  <2>6. ASSUME NEW i \in 1..Len(fm), NEW k \in 0..((n + 1) - 1) PROVE fm[i] # Pos(t, k)
    <3>1. CASE k = n
      BY <2>5, <3>1 DEF Owned
    <3>2. CASE k \in 0..(n - 1)
      BY <1>2, <3>2 DEF Owned
    <3> QED BY <3>1, <3>2
  <2>7. n + 1 \in 0..NDesc
    BY <2>2, Ring
  <2> QED BY <1>2, <2>1, <2>2, <2>3, <2>4, <2>6, <2>7 DEF Owned
<1> QED BY <1>2, <1>3 DEF fm

(* The oldest completed URB is taken in hand.                               *)
LEMMA TakeOwned ==
  ASSUME NEW h \in Slots, NEW t \in Slots, NEW n \in Nat, NEW fl \in Seq(Slots),
         n > 0, Owned(h, t, n, fl, NoUrb)
  PROVE  /\ Owned(h, Pos(t, 1), n - 1, fl, t)
         /\ \A k \in 0..(n - 2) : Pos(Pos(t, 1), k) = Pos(t, k + 1)
<1>1. n \in 0..NDesc /\ h = Pos(t, n) /\ Pos(t, 1) \in Slots /\ Pos(t, 0) = t
  BY Ring DEF Owned
<1>2. ASSUME NEW k \in 0..(n - 1) PROVE Pos(Pos(t, 1), k) = Pos(t, k + 1)
  <2>1. 1 \in 0..NDesc /\ k \in 0..(NDesc - 1)
    BY <1>1, Ring
  <2>2. Pos(Pos(t, 1), k) = Pos(t, 1 + k)
    BY <2>1, PosSum
  <2> QED BY <2>1, <2>2
<1>3. h = Pos(Pos(t, 1), n - 1)
  BY <1>1, <1>2
<1>4. \A i \in 1..Len(fl) : fl[i] # t /\ \A k \in 0..(n - 2) : fl[i] # Pos(Pos(t, 1), k)
  BY <1>1, <1>2 DEF Owned
<1> QED BY <1>1, <1>2, <1>3, <1>4, Ring DEF Owned

(* The URB in hand is submitted again, or is lost.                          *)
LEMMA SubmitOwned ==
  ASSUME NEW h \in Slots, NEW t \in Slots, NEW n \in Nat, NEW fl \in Seq(Slots),
         NEW u \in Slots, Owned(h, t, n, fl, u)
  PROVE  /\ Owned(h, t, n, fl, NoUrb)
         /\ Owned(h, t, n, Append(fl, u), NoUrb)
         /\ \A k \in 0..(n - 1) : u # Pos(t, k)
<1>1. /\ Append(fl, u) \in Seq(Slots) /\ Len(Append(fl, u)) = Len(fl) + 1 /\ Len(fl) \in Nat
      /\ \A i \in 1..Len(fl) : Append(fl, u)[i] = fl[i]
      /\ Append(fl, u)[Len(fl) + 1] = u
      /\ \A i \in 1..Len(fl) : fl[i] \in Slots
  BY AppendProperties, LenProperties
<1>2. ASSUME NEW k \in 0..(n - 1) PROVE u # Pos(t, k)
  <2>0. u # NoUrb /\ n < NDesc /\ t = Pos(u, 1)
    BY Ring DEF Owned
  <2>1. u # NoUrb /\ n < NDesc /\ t = Pos(u, 1) /\ k + 1 \in 1..(NDesc - 1) /\ k \in Nat
    BY <2>0, Ring
  <2>2. Pos(t, k) = Pos(u, k + 1)
    <3>1. 1 \in 0..NDesc /\ k \in 0..(NDesc - 1)
      BY <2>1, Ring
    <3>2. Pos(Pos(u, 1), k) = Pos(u, 1 + k)
      BY <3>1, PosSum
    <3> QED BY <2>1, <3>2
  <2>3. 0 \in 0..(NDesc - 1) /\ k + 1 \in 0..(NDesc - 1) /\ Pos(u, 0) = u
    BY <2>1, Ring
  <2>4. Pos(u, 0) = Pos(u, k + 1) => 0 = k + 1
    BY <2>3, PosInjective
  <2> QED BY <2>1, <2>2, <2>3, <2>4
<1>3. \A i \in 1..Len(fl) : fl[i] # NoUrb
  BY <1>1, Ring
<1>4. Owned(h, t, n, fl, NoUrb)
  BY <1>3 DEF Owned
<1>5. \A i \in 1..Len(fl) : fl[i] # u
  BY DEF Owned
<1> DEFINE fm == Append(fl, u)
<1>6. Len(fm) = Len(fl) + 1 /\ (\A i \in 1..Len(fl) : fm[i] = fl[i]) /\ fm[Len(fl) + 1] = u
  BY <1>1
<1> HIDE DEF fm
<1>7. \A i \in 1..Len(fm), j \in 1..Len(fm) : fm[i] = fm[j] => i = j
  BY <1>1, <1>5, <1>6 DEF Owned
<1>8. ASSUME NEW i \in 1..Len(fm)
      PROVE  fm[i] # NoUrb /\ \A k \in 0..(n - 1) : fm[i] # Pos(t, k)
  <2>1. CASE i \in 1..Len(fl)
    BY <1>4, <1>6, <2>1 DEF Owned
  <2>2. CASE i = Len(fl) + 1
    BY <1>2, <1>6, <2>2, Ring
  <2> QED BY <1>1, <1>6, <2>1, <2>2
<1>9. Owned(h, t, n, fm, NoUrb)
  BY <1>4, <1>7, <1>8 DEF Owned
<1> QED BY <1>2, <1>4, <1>9 DEF fm

(* The URBs of the controller are killed.                                   *)
LEMMA KillOwned ==
  ASSUME NEW h, NEW t, NEW n, NEW fl, NEW u, Owned(h, t, n, fl, u)
  PROVE  Owned(h, t, n, <<>>, u)
BY DEF Owned

(* m URBs that the controller does not have are submitted to an empty queue. *)
LEMMA StartOwned ==
  ASSUME NEW fl \in Seq(Slots), NEW m \in 0..NDesc,
         \A i \in 1..Len(fl), j \in 1..Len(fl) : fl[i] = fl[j] => i = j,
         \A i \in 1..Len(fl) : fl[i] \notin 0..(m - 1)
  PROVE  /\ fl \o RunOf(m) \in Seq(Slots)
         /\ Owned(0, 0, 0, fl \o RunOf(m), NoUrb)
         /\ m = NDesc => Complete(0, 0, fl \o RunOf(m), NoUrb)
<1>1. /\ RunOf(m) \in Seq(Slots) /\ Len(RunOf(m)) = m /\ m \in Nat
      /\ \A i \in 1..m : RunOf(m)[i] = i - 1
  BY Ring DEF RunOf
<1> DEFINE fm == fl \o RunOf(m)
<1>2. fm \in Seq(Slots) /\ Len(fm) = Len(fl) + m /\ Len(fl) \in Nat
  <2>1. RunOf(m) \in Seq(Slots)
    BY <1>1
  <2> HIDE DEF RunOf
  <2>2. fm \in Seq(Slots) /\ Len(fm) = Len(fl) + Len(RunOf(m))
    BY <2>1, ConcatProperties
  <2> QED BY <1>1, <2>2, LenProperties
<1>b. \A i \in 1..(Len(fl) + m) : fm[i] = IF i <= Len(fl) THEN fl[i] ELSE RunOf(m)[i - Len(fl)]
  BY <1>1, ConcatProperties
<1>c. \A i \in 1..Len(fl) : fl[i] \in Slots
  BY ElementOfSeq
<1> HIDE DEF fm
<1>a. ASSUME NEW i \in 1..Len(fm)
      PROVE  \/ i \in 1..Len(fl) /\ fm[i] = fl[i]
             \/ i > Len(fl) /\ fm[i] = i - Len(fl) - 1 /\ fm[i] \in 0..(m - 1)
  <2>1. CASE i <= Len(fl)
    BY <1>2, <1>b, <2>1
  <2>2. CASE i > Len(fl)
    <3>1. i - Len(fl) \in 1..m /\ i \in 1..(Len(fl) + m)
      BY <1>1, <1>2, <2>2
    <3>2. fm[i] = RunOf(m)[i - Len(fl)]
      BY <1>2, <1>b, <2>2, <3>1
    <3>3. RunOf(m)[i - Len(fl)] = (i - Len(fl)) - 1
      BY <1>1, <3>1
    <3> QED BY <1>1, <1>2, <2>2, <3>1, <3>2, <3>3
  <2>3. i \in Nat /\ Len(fl) \in Nat
    BY <1>2
  <2> QED BY <2>1, <2>2, <2>3
<1>3. ASSUME NEW i \in 1..Len(fm), NEW j \in 1..Len(fm), fm[i] = fm[j] PROVE i = j
  <2>1. CASE i \in 1..Len(fl) /\ fm[i] = fl[i] /\ j \in 1..Len(fl) /\ fm[j] = fl[j]
    BY <1>3, <2>1
  <2>2. CASE /\ i > Len(fl) /\ fm[i] = i - Len(fl) - 1
             /\ j > Len(fl) /\ fm[j] = j - Len(fl) - 1
    <3>1. i - Len(fl) - 1 = j - Len(fl) - 1
      BY <1>3, <2>2
    <3>2. i \in Nat /\ j \in Nat /\ Len(fl) \in Nat
      BY <1>2
    <3> QED BY <3>1, <3>2
  <2>3. ~(i \in 1..Len(fl) /\ fm[i] = fl[i] /\ fm[j] \in 0..(m - 1))
    BY <1>3
  <2>4. ~(j \in 1..Len(fl) /\ fm[j] = fl[j] /\ fm[i] \in 0..(m - 1))
    BY <1>3
  <2> QED BY <1>a, <2>1, <2>2, <2>3, <2>4
<1>4. ASSUME NEW i \in 1..Len(fm) PROVE fm[i] # NoUrb
  <2>1. fm[i] \in Slots
    BY <1>2, ElementOfSeq
  <2> QED BY <2>1, Ring
<1>5. Owned(0, 0, 0, fm, NoUrb)
  BY <1>3, <1>4, Ring DEF Owned
<1>6. ASSUME m = NDesc PROVE Complete(0, 0, fm, NoUrb)
  <2>1. Len(fl) = 0
    <3>1. SUFFICES ASSUME Len(fl) >= 1 PROVE FALSE
      BY <1>2
    <3>2. 1 \in 1..Len(fl) /\ fl[1] \in Slots
      BY <1>2, <1>c, <3>1
    <3> QED BY <1>6, <3>2, Ring
  <2>2. ASSUME NEW k \in 1..NDesc PROVE Pos(0, k - 1) = k - 1
    <3>1. k - 1 \in 0..NDesc /\ k - 1 < NDesc
      BY Ring
    <3>2. Pos(0, k - 1) = IF 0 + (k - 1) < NDesc THEN 0 + (k - 1) ELSE 0 + (k - 1) - NDesc
      BY <3>1, PosValue, Ring
    <3> QED BY <3>1, <3>2
  <2>3. Len(fm) = NDesc /\ \A k \in 1..NDesc : fm[k] = k - 1
    BY <1>2, <1>6, <1>a, <2>1, Ring
  <2> QED BY <2>2, <2>3, Ring DEF Complete
<1> QED BY <1>2, <1>5, <1>6 DEF fm

-----------------------------------------------------------------------------
(* The same steps, when no URB is missing.                                  *)

LEMMA ComeBackComplete ==
  ASSUME NEW h \in Slots, NEW t \in Slots, NEW n \in Nat, NEW fl \in Seq(Slots),
         NEW u \in 0..NDesc, fl # <<>>, Owned(h, t, n, fl, u), Complete(h, n, fl, u)
  PROVE  Head(fl) = h /\ Complete(Pos(h, 1), n + 1, Tail(fl), u)
<1>1. /\ Len(Tail(fl)) = Len(fl) - 1 /\ Len(fl) \in Nat /\ Len(fl) >= 1 /\ Head(fl) = fl[1]
      /\ \A i \in 1..Len(Tail(fl)) : Tail(fl)[i] = fl[i + 1]
  BY HeadTailProperties, LenProperties
<1>2. /\ Len(fl) = NDesc - n - (IF u # NoUrb THEN 1 ELSE 0)
      /\ \A k \in 1..Len(fl) : fl[k] = Pos(h, k - 1)
  BY DEF Complete
<1>3. Head(fl) = h
  <2>1. fl[1] = Pos(h, 1 - 1)
    BY <1>1, <1>2
  <2> QED BY <1>1, <2>1, Ring
<1>l. NDesc \in Nat /\ Len(fl) <= NDesc
  <2>1. NDesc \in Nat
    BY Ring
  <2> QED BY <1>2, <2>1
<1> DEFINE fm == Tail(fl)
<1>4. Len(fm) = Len(fl) - 1 /\ \A i \in 1..Len(fm) : fm[i] = fl[i + 1]
  BY <1>1
<1> HIDE DEF fm
<1>5. ASSUME NEW k \in 1..Len(fm) PROVE fm[k] = Pos(Pos(h, 1), k - 1)
  <2>0. Len(fm) = Len(fl) - 1 /\ Len(fl) \in Nat
    BY <1>1, <1>4
  <2>1. k + 1 \in 1..Len(fl) /\ k - 1 \in 0..(NDesc - 1) /\ 1 \in 0..NDesc /\ k \in Nat
    BY <1>l, <2>0
  <2>2. fm[k] = Pos(h, (k + 1) - 1)
    BY <1>2, <1>4, <2>1
  <2>3. Pos(Pos(h, 1), k - 1) = Pos(h, 1 + (k - 1))
    BY <2>1, PosSum
  <2>4. (k + 1) - 1 = 1 + (k - 1)
    BY <2>1
  <2> QED BY <2>2, <2>3, <2>4
<1>6. Len(fm) = NDesc - (n + 1) - (IF u # NoUrb THEN 1 ELSE 0)
  BY <1>1, <1>2, <1>4, Ring
<1> QED BY <1>3, <1>5, <1>6 DEF Complete, fm

LEMMA TakeComplete ==
  ASSUME NEW h, NEW n \in Nat, NEW fl, NEW u \in Slots, Complete(h, n, fl, NoUrb)
  PROVE  Complete(h, n - 1, fl, u)
<1>1. NDesc \in Nat /\ u # NoUrb
  BY Ring
<1> QED BY <1>1 DEF Complete

LEMMA SubmitComplete ==
  ASSUME NEW h \in Slots, NEW t \in Slots, NEW n \in Nat, NEW fl \in Seq(Slots),
         NEW u \in Slots, Owned(h, t, n, fl, u), Complete(h, n, fl, u)
  PROVE  Complete(h, n, Append(fl, u), NoUrb)
<1> DEFINE fm == Append(fl, u)
<1>1. /\ Len(fm) = Len(fl) + 1 /\ Len(fl) \in Nat /\ fm[Len(fl) + 1] = u
      /\ \A i \in 1..Len(fl) : fm[i] = fl[i]
  BY AppendProperties, LenProperties
<1> HIDE DEF fm
<1>2. /\ u # NoUrb /\ n < NDesc /\ t = Pos(u, 1) /\ h = Pos(t, n)
      /\ Len(fl) = NDesc - n - 1 /\ \A k \in 1..Len(fl) : fl[k] = Pos(h, k - 1)
  BY Ring DEF Owned, Complete
<1>3. u = Pos(h, NDesc - n - 1)
  <2>1. /\ 1 \in 0..NDesc /\ n \in 0..(NDesc - 1) /\ 1 + n \in 0..NDesc
        /\ NDesc - n - 1 \in 0..(NDesc - (1 + n)) /\ (1 + n) + (NDesc - n - 1) = NDesc
    BY <1>2, Ring
  <2>2. h = Pos(u, 1 + n)
    BY <1>2, <2>1, PosSum
  <2>3. Pos(h, NDesc - n - 1) = Pos(u, (1 + n) + (NDesc - n - 1))
    BY <2>1, <2>2, PosSum
  <2> QED BY <2>1, <2>3, Ring
<1>4. ASSUME NEW k \in 1..Len(fm) PROVE fm[k] = Pos(h, k - 1)
  <2>1. CASE k \in 1..Len(fl)
    BY <1>1, <1>2, <2>1
  <2>2. CASE k = Len(fl) + 1
    <3>1. k - 1 = NDesc - n - 1
      BY <1>1, <1>2, <2>2
    <3> QED BY <1>1, <1>3, <2>2, <3>1
  <2> QED BY <1>1, <2>1, <2>2
<1>5. Len(fm) = NDesc - n
  BY <1>1, <1>2, Ring
<1>6. Complete(h, n, fm, NoUrb)
  BY <1>4, <1>5, Ring DEF Complete
<1> QED BY <1>6 DEF fm

-----------------------------------------------------------------------------
(* And the frames in the buffers.                                           *)

LEMMA LaterFresh ==
  ASSUME NEW t, NEW n \in Nat, NEW u, NEW fr, NEW hi \in Nat, NEW si \in Nat, NEW s \in Nat,
         \A j \in 0..(n - 1) : fr[Pos(t, j)] \in Nat, u # NoUrb => fr[u] \in Nat,
         Fresh(t, n, u, fr, hi, si, s)
  PROVE  Fresh(t, n, u, fr, hi, si, s + 1)
BY DEF Fresh

(* A URB x that nobody waits for gets the next frame, or nothing.           *)
LEMMA ComeBackFresh ==
  ASSUME NEW t \in Slots, NEW n \in 0..NDesc, NEW u \in 0..NDesc, NEW fr \in [Slots -> Nat],
         NEW hi \in Nat, NEW si \in Nat, NEW s \in Nat, Fresh(t, n, u, fr, hi, si, s),
         NEW x \in Slots, x # u, \A k \in 0..(n - 1) : x # Pos(t, k),
         NEW fs, \A y \in Slots : y # x => fs[y] = fr[y], fs[x] = 0 \/ fs[x] = s + 1,
         NEW z, z = s \/ z = s + 1, fs[x] # 0 => z = fs[x]
  PROVE  /\ Fresh(t, n, u, fs, hi, si, z)
         /\ x = Pos(t, n) => Fresh(t, n + 1, u, fs, hi, si, z)
<1>1. NDesc \in Nat /\ Slots = 0..(NDesc - 1) /\ NoUrb = NDesc
  BY Ring
<1>2. \A k \in 0..(n - 1) : Pos(t, k) \in Slots
  <2>1. \A k \in 0..(n - 1) : k \in 0..NDesc
    BY <1>1
  <2> QED BY <2>1, PosValue
<1>3. /\ \A k \in 0..(n - 1) : fs[Pos(t, k)] = fr[Pos(t, k)] /\ fr[Pos(t, k)] \in Nat
      /\ u # NoUrb => fs[u] = fr[u] /\ fr[u] \in Nat
  BY <1>1, <1>2
<1>4. Fresh(t, n, u, fs, hi, si, z)
  BY <1>3 DEF Fresh
<1>5. ASSUME x = Pos(t, n) PROVE Fresh(t, n + 1, u, fs, hi, si, z)
  <2>1. hi <= s /\ si <= s /\ hi <= z /\ si <= z
    BY <1>4 DEF Fresh
  <2> DEFINE v == fs[x]
  <2>2. fs[Pos(t, n)] = v
    BY <1>5
  <2>3. v # 0 => v = z /\ v = s + 1
    OBVIOUS
  <2> HIDE DEF v
  <2>4. ASSUME NEW j \in 0..((n + 1) - 1)
        PROVE  fs[Pos(t, j)] # 0 => fs[Pos(t, j)] > hi /\ fs[Pos(t, j)] > si /\ fs[Pos(t, j)] <= z
    <3>1. CASE j = n
      BY <2>1, <2>2, <2>3, <3>1
    <3>2. CASE j \in 0..(n - 1)
      BY <1>4, <3>2 DEF Fresh
    <3> QED BY <3>1, <3>2
  <2>5. ASSUME NEW j \in 0..((n + 1) - 1), NEW k \in 0..((n + 1) - 1), j < k,
               fs[Pos(t, j)] # 0, fs[Pos(t, k)] # 0
        PROVE  fs[Pos(t, j)] < fs[Pos(t, k)]
    <3>1. CASE k = n
      <4>1. j \in 0..(n - 1)
        BY <2>5, <3>1
      <4>2. fs[Pos(t, j)] <= s /\ fs[Pos(t, j)] \in Nat
        BY <1>3, <2>5, <4>1 DEF Fresh
      <4> QED BY <2>2, <2>3, <2>5, <3>1, <4>2
    <3>2. CASE k \in 0..(n - 1)
      <4>1. j \in 0..(n - 1)
        BY <2>5, <3>2
      <4> QED BY <1>4, <2>5, <3>2, <4>1 DEF Fresh
    <3> QED BY <3>1, <3>2
  <2>6. ASSUME u # NoUrb, fs[u] # 0
        PROVE  /\ fs[u] > hi /\ fs[u] > si /\ fs[u] <= z
               /\ \A j \in 0..((n + 1) - 1) : fs[Pos(t, j)] # 0 => fs[u] < fs[Pos(t, j)]
    <3>1. fs[u] > hi /\ fs[u] > si /\ fs[u] <= z /\ fs[u] <= s /\ fs[u] \in Nat
      BY <1>3, <1>4, <2>6 DEF Fresh
    <3>2. ASSUME NEW j \in 0..((n + 1) - 1), fs[Pos(t, j)] # 0 PROVE fs[u] < fs[Pos(t, j)]
      <4>1. CASE j = n
        BY <2>2, <2>3, <3>1, <3>2, <4>1
      <4>2. CASE j \in 0..(n - 1)
        BY <1>4, <2>6, <3>2, <4>2 DEF Fresh
      <4> QED BY <4>1, <4>2
    <3> QED BY <3>1, <3>2
  <2> QED BY <2>1, <2>4, <2>5, <2>6 DEF Fresh
<1> QED BY <1>4, <1>5

(* The oldest waiting frame is taken in hand.                               *)
LEMMA TakeFresh ==
  ASSUME NEW t \in Slots, NEW n \in 0..NDesc, NEW fr \in [Slots -> Nat],
         NEW hi \in Nat, NEW si \in Nat, NEW s \in Nat, n > 0,
         Fresh(t, n, NoUrb, fr, hi, si, s),
         \A k \in 0..(n - 2) : Pos(Pos(t, 1), k) = Pos(t, k + 1)
  PROVE  Fresh(Pos(t, 1), n - 1, t, fr, hi, si, s)
<1>1. Pos(t, 0) = t
  BY Ring
<1>2. \A k \in 0..((n - 1) - 1) : Pos(Pos(t, 1), k) = Pos(t, k + 1) /\ k + 1 \in 0..(n - 1) /\ 0 < k + 1
  OBVIOUS
<1>3. 0 \in 0..(n - 1)
  OBVIOUS
<1>4. ASSUME NEW j \in 0..((n - 1) - 1), fr[Pos(Pos(t, 1), j)] # 0
      PROVE  /\ fr[Pos(Pos(t, 1), j)] > hi /\ fr[Pos(Pos(t, 1), j)] > si
             /\ fr[Pos(Pos(t, 1), j)] <= s
             /\ fr[t] # 0 => fr[t] < fr[Pos(Pos(t, 1), j)]
  BY <1>1, <1>2, <1>3, <1>4 DEF Fresh
<1>5. ASSUME NEW j \in 0..((n - 1) - 1), NEW k \in 0..((n - 1) - 1), j < k,
             fr[Pos(Pos(t, 1), j)] # 0, fr[Pos(Pos(t, 1), k)] # 0
      PROVE  fr[Pos(Pos(t, 1), j)] < fr[Pos(Pos(t, 1), k)]
  <2>1. j + 1 < k + 1
    BY <1>5
  <2> QED BY <1>2, <1>5, <2>1 DEF Fresh
<1>6. fr[t] # 0 => fr[t] > hi /\ fr[t] > si /\ fr[t] <= s
  BY <1>1, <1>3 DEF Fresh
<1>7. hi <= s /\ si <= s
  BY DEF Fresh
<1> QED BY <1>4, <1>5, <1>6, <1>7 DEF Fresh

(* The frame in hand goes up, and its buffer is empty.                      *)
LEMMA HandUpFresh ==
  ASSUME NEW t \in Slots, NEW n \in 0..NDesc, NEW u \in Slots, NEW fr \in [Slots -> Nat],
         NEW hi \in Nat, NEW si \in Nat, NEW s \in Nat, Fresh(t, n, u, fr, hi, si, s),
         \A k \in 0..(n - 1) : u # Pos(t, k),
         NEW fs, fs = [fr EXCEPT ![u] = 0],
         NEW up1, up1 = IF fr[u] = 0 THEN hi ELSE fr[u]
  PROVE  /\ Fresh(t, n, NoUrb, fs, up1, si, s)
         /\ fr[u] # 0 => fr[u] > hi /\ fr[u] > si /\ fr[u] <= s
<1>1. u # NoUrb /\ NDesc \in Nat
  BY Ring
<1>2. \A k \in 0..(n - 1) : Pos(t, k) \in Slots
  BY <1>1, PosValue
<1>3. \A k \in 0..(n - 1) : fs[Pos(t, k)] = fr[Pos(t, k)] /\ fr[Pos(t, k)] \in Nat
  BY <1>2
<1>4. fr[u] \in Nat /\ (fr[u] # 0 => fr[u] > hi /\ fr[u] > si /\ fr[u] <= s)
  BY <1>1 DEF Fresh
<1>5. up1 \in Nat /\ up1 <= s /\ si <= s
  BY <1>4 DEF Fresh
<1>6. \A j \in 0..(n - 1) : fr[Pos(t, j)] # 0 => fr[Pos(t, j)] > up1
  BY <1>1, <1>3, <1>4 DEF Fresh
<1>7. Fresh(t, n, NoUrb, fs, up1, si, s)
  BY <1>3, <1>5, <1>6 DEF Fresh
<1> QED BY <1>4, <1>7

-----------------------------------------------------------------------------
(* How many URBs an attempt submits: as many as the controller does not     *)
(* have yet, from the first on.                                             *)
LEMMA ReachFits ==
  ASSUME NEW q \in Queues, flight[q] \in Seq(Slots)
  PROVE  /\ Reach(q) \in 0..NDesc
         /\ \A i \in 1..Len(flight[q]) : flight[q][i] \notin 0..(Reach(q) - 1)
<1> DEFINE Taken == ToSet(flight[q])
           Ends(n) == n < NDesc => n \in Taken
           First(n) == (\A k \in 0..(n - 1) : k \notin Taken) /\ Ends(n)
           T == {n \in 0..NDesc : Ends(n)}
<1>0. NDesc \in Nat
  BY Ring
<1>1. NDesc \in Nat /\ NDesc \in T /\ T \subseteq Nat /\ T # {}
  <2>1. NDesc \in 0..NDesc /\ ~(NDesc < NDesc)
    BY <1>0
  <2> HIDE DEF Taken
  <2>2. NDesc \in T
    BY <2>1
  <2>3. T \subseteq Nat
    BY <1>0
  <2> QED BY <1>0, <2>2, <2>3
<1>2. PICK m \in T : \A n \in T : <<n, m>> \notin OpToRel(<, Nat)
  BY <1>1, NatLessThanWellFounded, WFMin
<1>3. \A n \in T : ~(n < m)
  BY <1>1, <1>2 DEF OpToRel
<1>4. m \in 0..NDesc /\ First(m)
  <2>1. ASSUME NEW k \in 0..(m - 1) PROVE k \notin Taken
    <3>1. k \in 0..NDesc /\ k < m /\ k < NDesc
      BY <1>1
    <3> QED BY <1>3, <3>1
  <2> QED BY <1>1, <2>1
<1>5. CASE reject[q] # 1
  BY <1>1, <1>5 DEF Reach
<1>6. CASE reject[q] = 1
  <2>1. Reach(q) = CHOOSE n \in 0..NDesc : First(n)
    BY <1>6 DEF Reach
  <2>2. Reach(q) \in 0..NDesc /\ First(Reach(q))
    BY <1>4, <2>1
  <2>3. \A i \in 1..Len(flight[q]) : flight[q][i] \in Taken
    BY DEF ToSet
  <2> QED BY <2>2, <2>3
<1> QED BY <1>5, <1>6

-----------------------------------------------------------------------------
(* The type invariant in the parts that change together.                    *)
RingTypes ==
  /\ head \in Each(Slots) /\ tail \in Each(Slots) /\ queued \in Each(Nat)
  /\ reject \in Each(Nat) /\ flight \in Each(Seq(Slots))
  /\ FramesSent /\ intact \in Each(BOOLEAN) /\ sent \in 0 .. MaxFrames

FlagTypes ==
  /\ scheduled \in BOOLEAN /\ parked \in BOOLEAN /\ resetQueued \in BOOLEAN
  /\ suspended \in BOOLEAN /\ assoc \in BOOLEAN /\ moved \in BOOLEAN
  /\ escalated \in BOOLEAN /\ overlapped \in BOOLEAN /\ late \in BOOLEAN
  /\ selfmade \in BOOLEAN

WorkerTypes == wpc \in {"idle", "take", "process"} /\ wq \in Queues /\ hand \in 0 .. NDesc

AgentTypes ==
  /\ pc \in [Agents -> ResetSteps \cup PmSteps]
  /\ pc["reset"] \in ResetSteps /\ pc["pm"] \in PmSteps
  /\ at \in [Agents -> Queues] /\ left \in 0 .. Tries

CountTypes ==
  stale \in 0 .. StaleTicks - 1 /\ faults \in 0 .. MaxFaults /\ suspends \in 0 .. MaxSuspends

LEMMA TypeParts ==
  TypeOK /\ FramesSent <=> RingTypes /\ FlagTypes /\ WorkerTypes /\ AgentTypes /\ CountTypes
<1>1. {scheduled, parked, resetQueued, suspended, assoc, moved, escalated, overlapped,
       late, selfmade} \subseteq BOOLEAN <=> FlagTypes
  BY Zenon DEF FlagTypes
<1>2. ASSUME sent \in 0..MaxFrames, FramesSent
      PROVE  /\ frame \in Each([Slots -> 0 .. MaxFrames])
             /\ up \in Each(0 .. MaxFrames) /\ since \in Each(0 .. MaxFrames)
  <2>1. 0..sent \subseteq 0..MaxFrames
    BY <1>2, RxConstants
  <2> QED BY <1>2, <2>1 DEF FramesSent, Each
<1> QED BY <1>1, <1>2 DEF TypeOK, RingTypes, WorkerTypes, AgentTypes, CountTypes

(* What the parts say of one queue.                                         *)
LEMMA QueueTypes ==
  ASSUME RingTypes, NEW q \in Queues
  PROVE  /\ head[q] \in Slots /\ tail[q] \in Slots /\ queued[q] \in Nat
         /\ flight[q] \in Seq(Slots) /\ frame[q] \in [Slots -> Nat]
         /\ up[q] \in Nat /\ since[q] \in Nat /\ sent \in Nat /\ MaxFrames \in Nat
         /\ reject[q] \in Nat /\ intact[q] \in BOOLEAN
<1>1. MaxFrames \in Nat
  BY RxConstants
<1>2. frame[q] \in [Slots -> 0..sent] /\ sent \in 0..MaxFrames
  BY DEF RingTypes, FramesSent, Each
<1>3. up[q] \in 0..sent /\ since[q] \in 0..sent
  BY DEF RingTypes, FramesSent, Each
<1>4. frame[q] \in [Slots -> Nat]
  BY <1>1, <1>2
<1> QED BY <1>1, <1>2, <1>3, <1>4 DEF RingTypes, Each

-----------------------------------------------------------------------------
(* The steps that leave the rings alone.                                    *)
LEMMA RestQueue ==
  ASSUME NEW q \in Queues, QueueOk(q),
         UNCHANGED <<head[q], tail[q], queued[q], flight[q], frame[q], up[q], since[q], sent>>,
         intact'[q] => intact[q], HandOf(q)' = HandOf(q)
  PROVE  QueueOk(q)'
BY DEF QueueOk

LEMMA RestRing ==
  ASSUME RingTypes, UNCHANGED <<ring, up, sent, hand>>, wq' = wq \/ hand = NoUrb
  PROVE  RingTypes' /\ \A q \in Queues : QueueOk(q) => QueueOk(q)'
<1>1. RingTypes'
  BY DEF RingTypes, FramesSent, ring
<1>2. \A q \in Queues : HandOf(q)' = HandOf(q)
  BY DEF HandOf
<1> QED BY <1>1, <1>2, RestQueue DEF ring

(* A URB comes back from the controller.                                    *)
LEMMA CompleteRxStep ==
  ASSUME RingTypes, WorkerTypes, NEW p \in Queues, NEW status \in {"data", "other", "proto"},
         CompleteRx(p, status)
  PROVE  RingTypes' /\ \A q \in Queues : QueueOk(q) => QueueOk(q)'
<1> DEFINE x == flight[p][1]
           v == IF status = "data" THEN sent + 1 ELSE 0
<1>1. /\ flight[p] # <<>> /\ flight[p] \in Seq(Slots) /\ x \in Slots /\ Head(flight[p]) = x
      /\ Tail(flight[p]) \in Seq(Slots)
  <2>1. flight[p] # <<>> /\ flight[p] \in Seq(Slots)
    BY QueueTypes DEF CompleteRx
  <2> QED BY <2>1, HeadTailProperties
<1>2. /\ flight' = [flight EXCEPT ![p] = Tail(@)]
      /\ frame' = [frame EXCEPT ![p][x] = v]
      /\ UNCHANGED <<tail, reject, since, hand, wq, up>>
  BY <1>1 DEF CompleteRx
<1>3. \/ /\ status # "proto" /\ head[p] = x
         /\ head' = [head EXCEPT ![p] = Next1(@)] /\ queued' = [queued EXCEPT ![p] = @ + 1]
      \/ ~(status # "proto" /\ head[p] = x) /\ UNCHANGED <<head, queued>>
  BY <1>1 DEF CompleteRx
<1>4. /\ status = "data" => sent < MaxFrames /\ sent' = sent + 1
      /\ status # "data" => sent' = sent
      /\ status # "proto" => intact' = intact
      /\ status = "proto" => intact' = [intact EXCEPT ![p] = FALSE]
  BY DEF CompleteRx, Fault
<1>5. /\ sent \in 0..MaxFrames /\ MaxFrames \in Nat /\ sent' \in 0..MaxFrames
      /\ v \in 0..sent' /\ 0..sent \subseteq 0..sent' /\ v \in {0, sent + 1} /\ sent' \in {sent, sent + 1}
      /\ v # 0 => sent' = v
  BY <1>4, RxConstants DEF RingTypes
<1> HIDE DEF x, v
<1>6. /\ flight' \in Each(Seq(Slots)) /\ FramesSent'
      /\ head' \in Each(Slots) /\ queued' \in Each(Nat) /\ intact' \in Each(BOOLEAN)
  <2>1. flight' \in Each(Seq(Slots))
    BY <1>1, <1>2 DEF RingTypes, Each
  <2>2. FramesSent'
    <3> DEFINE z == sent'
    <3>1. /\ frame \in Each([Slots -> 0..z]) /\ up \in Each(0..z) /\ since \in Each(0..z)
          /\ v \in 0..z
      <4>1. /\ frame \in Each([Slots -> 0..sent]) /\ up \in Each(0..sent)
            /\ since \in Each(0..sent)
        BY DEF RingTypes, FramesSent
      <4>2. 0..sent \subseteq 0..z /\ v \in 0..z
        BY <1>5
      <4> HIDE DEF z
      <4> QED BY <4>1, <4>2 DEF Each
    <3> HIDE DEF z
    <3>2. /\ frame' \in Each([Slots -> 0..z]) /\ up' \in Each(0..z) /\ since' \in Each(0..z)
      BY <1>1, <1>2, <3>1 DEF Each
    <3> QED BY <3>2 DEF z, FramesSent, Each
  <2>3. head' \in Each(Slots) /\ queued' \in Each(Nat)
    <3>0. head[p] \in Slots /\ queued[p] \in Nat
      BY QueueTypes
    <3>1. Next1(head[p]) \in Slots /\ queued[p] + 1 \in Nat
      <4>1. Next1(head[p]) \in Slots
        BY <3>0, NextSlot
      <4> QED BY <3>0, <4>1
    <3> QED BY <1>3, <3>1 DEF RingTypes, Each
  <2>4. intact' \in Each(BOOLEAN)
    BY <1>4 DEF RingTypes, Each
  <2> QED BY <2>1, <2>2, <2>3, <2>4
<1>7. RingTypes'
  BY <1>2, <1>5, <1>6 DEF RingTypes
<1>8. ASSUME NEW q \in Queues, QueueOk(q), q # p PROVE QueueOk(q)'
  <2>1. /\ UNCHANGED <<head[q], tail[q], queued[q], flight[q], frame[q], up[q], since[q], intact[q]>>
        /\ HandOf(q)' = HandOf(q)
    BY <1>2, <1>3, <1>4, <1>8 DEF RingTypes, Each, HandOf
  <2>2. Fresh(tail[q], queued[q], HandOf(q), frame[q], up[q], since[q], sent')
    <3>1. CASE sent' = sent
      BY <1>8, <3>1 DEF QueueOk
    <3>2. CASE sent' = sent + 1
      <4>1. /\ HandOf(q) # NoUrb => HandOf(q) \in Slots
            /\ \A j \in 0..(queued[q] - 1) : Pos(tail[q], j) \in Slots
        <5>1. queued[q] \in 0..NDesc
          BY <1>8 DEF QueueOk, Owned
        <5>2. \A j \in 0..(queued[q] - 1) : j \in 0..NDesc
          BY <5>1, Ring
        <5>3. HandOf(q) # NoUrb => HandOf(q) \in Slots
          BY Ring DEF HandOf, WorkerTypes
        <5> QED BY <5>2, <5>3, QueueTypes, PosValue
      <4>2. /\ HandOf(q) # NoUrb => frame[q][HandOf(q)] \in Nat
            /\ \A j \in 0..(queued[q] - 1) : frame[q][Pos(tail[q], j)] \in Nat
        BY <4>1, QueueTypes
      <4> QED BY <1>8, <3>2, <4>2, QueueTypes, LaterFresh DEF QueueOk
    <3> QED BY <1>5, <3>1, <3>2
  <2> QED BY <1>8, <2>1, <2>2 DEF QueueOk
<1>9. ASSUME QueueOk(p) PROVE QueueOk(p)'
  <2> DEFINE h == head[p]  t == tail[p]  n == queued[p]  fl == flight[p]  u == HandOf(p)
  <2>1. /\ h \in Slots /\ t \in Slots /\ n \in Nat /\ fl \in Seq(Slots) /\ fl # <<>>
        /\ u \in 0..NDesc /\ frame[p] \in [Slots -> Nat] /\ up[p] \in Nat /\ since[p] \in Nat
        /\ sent \in Nat /\ Head(fl) = x
    <3>1. u \in 0..NDesc
      BY Ring DEF HandOf, WorkerTypes, NoUrb
    <3> QED BY <1>1, <3>1, QueueTypes
  <2>2. /\ Owned(h, t, n, fl, u) /\ Fresh(t, n, u, frame[p], up[p], since[p], sent)
        /\ intact[p] => Complete(h, n, fl, u) /\ n \in 0..NDesc
    BY <1>9 DEF QueueOk, Owned
  <2>3. /\ tail'[p] = t /\ flight'[p] = Tail(fl) /\ frame'[p] = [frame[p] EXCEPT ![x] = v]
        /\ up'[p] = up[p] /\ since'[p] = since[p] /\ HandOf(p)' = u
    BY <1>2 DEF RingTypes, FramesSent, Each, HandOf
  <2>4. x # u /\ \A k \in 0..(n - 1) : x # Pos(t, k)
    <3>1. Len(fl) \in Nat /\ Len(fl) >= 1 /\ x = fl[1]
      BY <2>1, HeadTailProperties, LenProperties DEF x
    <3>2. 1 \in 1..Len(fl)
      BY <3>1
    <3> QED BY <2>2, <3>1, <3>2 DEF Owned
  <2>5. n \in 0..NDesc
    BY <2>2 DEF Owned
  <2>6. /\ Fresh(t, n, u, frame'[p], up[p], since[p], sent')
        /\ x = Pos(t, n) => Fresh(t, n + 1, u, frame'[p], up[p], since[p], sent')
    <3> DEFINE fr == frame[p]  hi == up[p]  si == since[p]  fs == frame'[p]
    <3>1. /\ fr \in [Slots -> Nat] /\ hi \in Nat /\ si \in Nat /\ fs = [fr EXCEPT ![x] = v]
          /\ (\A y \in Slots : y # x => fs[y] = fr[y]) /\ fs[x] = v
          /\ Fresh(t, n, u, fr, hi, si, sent) /\ t \in Slots /\ u \in 0..NDesc /\ sent \in Nat
      BY <1>1, <2>1, <2>2, <2>3
    <3> HIDE DEF h, t, n, fl, u, fr, hi, si, fs
    <3>2. /\ Fresh(t, n, u, fs, hi, si, sent')
          /\ x = Pos(t, n) => Fresh(t, n + 1, u, fs, hi, si, sent')
      <4> DEFINE z == sent'
      <4>1. t \in Slots /\ n \in 0..NDesc /\ u \in 0..NDesc
        BY <2>5, <3>1
      <4>2. x \in Slots /\ x # u /\ \A k \in 0..(n - 1) : x # Pos(t, k)
        BY <1>1, <2>4
      <4>3. fs[x] = 0 \/ fs[x] = sent + 1
        BY <1>5, <3>1
      <4>4. (z = sent \/ z = sent + 1) /\ (fs[x] # 0 => z = fs[x])
        BY <1>5, <3>1
      <4> HIDE DEF z
      <4>5. /\ Fresh(t, n, u, fs, hi, si, z)
            /\ x = Pos(t, n) => Fresh(t, n + 1, u, fs, hi, si, z)
        BY <3>1, <4>1, <4>2, <4>3, <4>4, ComeBackFresh
      <4> QED BY <4>5 DEF z
    <3> QED BY <3>2 DEF hi, si, fs
  <2>7. /\ Owned(h, t, n, Tail(fl), u)
        /\ x = h => Owned(Pos(h, 1), t, n + 1, Tail(fl), u) /\ x = Pos(t, n)
    <3>1. h = Pos(t, n)
      BY <2>2 DEF Owned
    <3> HIDE DEF h, t, n, fl, u
    <3> QED BY <2>1, <2>2, <3>1, ComeBackOwned
  <2>8. intact[p] => x = h /\ Complete(Pos(h, 1), n + 1, Tail(fl), u)
    <3> HIDE DEF h, t, n, fl, u
    <3> QED BY <2>1, <2>2, ComeBackComplete
  <2>9. CASE status # "proto" /\ x = h
    <3>1. head'[p] = Pos(h, 1) /\ queued'[p] = n + 1 /\ intact'[p] = intact[p]
      BY <1>3, <1>4, <2>1, <2>9, Ring DEF RingTypes, Each
    <3> HIDE DEF h, t, n, fl, u
    <3> QED BY <2>3, <2>6, <2>7, <2>8, <2>9, <3>1 DEF QueueOk
  <2>10. CASE ~(status # "proto" /\ x = h)
    <3>1. head'[p] = h /\ queued'[p] = n
      BY <1>3, <2>10
    <3>2. ~intact'[p]
      BY <1>4, <2>8, <2>10 DEF RingTypes, Each
    <3> HIDE DEF h, t, n, fl, u
    <3> QED BY <2>3, <2>6, <2>7, <3>1, <3>2 DEF QueueOk
  <2> QED BY <2>9, <2>10
<1> QED BY <1>7, <1>8, <1>9

(* rx_worker takes the oldest completed URB of its queue.                   *)
LEMMA WorkerTakeStep ==
  ASSUME RingTypes, WorkerTypes, WorkerOk, WorkerTake
  PROVE  RingTypes' /\ \A q \in Queues : QueueOk(q) => QueueOk(q)'
<1>1. wpc = "take" /\ hand = NoUrb /\ wq \in Queues
  BY DEF WorkerTake, WorkerOk, WorkerTypes
<1>2. CASE queued[wq] > 0
  <2>0. PICK p \in Queues : p = wq
    BY <1>1
  <2> DEFINE h == head[p]  t == tail[p]  n == queued[p]  fl == flight[p]
             fr == frame[p]  hi == up[p]  si == since[p]
  <2>1. /\ hand' = t /\ wq' = p
        /\ tail' = [tail EXCEPT ![p] = Next1(@)] /\ queued' = [queued EXCEPT ![p] = @ - 1]
        /\ UNCHANGED <<head, flight, reject, frame, since, intact, up, sent>>
    BY <1>2, <2>0 DEF WorkerTake, count
  <2>2. /\ h \in Slots /\ t \in Slots /\ n \in Nat /\ n > 0 /\ fl \in Seq(Slots)
        /\ fr \in [Slots -> Nat] /\ hi \in Nat /\ si \in Nat /\ sent \in Nat
        /\ Next1(t) = Pos(t, 1) /\ Next1(t) \in Slots /\ n - 1 \in Nat
    BY <1>2, <2>0, QueueTypes, NextSlot
  <2>3. /\ tail'[p] = Pos(t, 1) /\ queued'[p] = n - 1 /\ HandOf(p)' = t /\ HandOf(p) = NoUrb
        /\ head'[p] = h /\ flight'[p] = fl /\ frame'[p] = fr /\ up'[p] = hi /\ since'[p] = si
        /\ sent' = sent /\ intact'[p] = intact[p]
    BY <1>1, <2>0, <2>1, <2>2 DEF RingTypes, Each, HandOf
  <2>4. RingTypes'
    BY <1>1, <2>1, <2>2 DEF RingTypes, FramesSent, Each
  <2>5. ASSUME NEW q \in Queues, QueueOk(q), q # p PROVE QueueOk(q)'
    <3>1. /\ UNCHANGED <<head[q], tail[q], queued[q], flight[q], frame[q], up[q], since[q], sent>>
          /\ intact'[q] = intact[q] /\ HandOf(q)' = HandOf(q)
      BY <1>1, <2>0, <2>1, <2>5 DEF RingTypes, Each, HandOf
    <3> QED BY <2>5, <3>1, RestQueue
  <2>6. ASSUME QueueOk(p) PROVE QueueOk(p)'
    <3>1. /\ Owned(h, t, n, fl, NoUrb) /\ Fresh(t, n, NoUrb, fr, hi, si, sent)
          /\ intact[p] => Complete(h, n, fl, NoUrb)
      BY <2>3, <2>6 DEF QueueOk
    <3>2. n \in 0..NDesc
      BY <3>1 DEF Owned
    <3> HIDE DEF h, t, n, fl, fr, hi, si
    <3>3. /\ Owned(h, Pos(t, 1), n - 1, fl, t)
          /\ \A k \in 0..(n - 2) : Pos(Pos(t, 1), k) = Pos(t, k + 1)
      BY <2>2, <3>1, TakeOwned
    <3>4. Fresh(Pos(t, 1), n - 1, t, fr, hi, si, sent)
      BY <2>2, <3>1, <3>2, <3>3, TakeFresh
    <3>5. intact[p] => Complete(h, n - 1, fl, t)
      BY <2>2, <3>1, TakeComplete
    <3> QED BY <2>3, <3>3, <3>4, <3>5 DEF QueueOk
  <2> QED BY <2>4, <2>5, <2>6
<1>3. CASE ~(queued[wq] > 0)
  <2>1. UNCHANGED <<ring, up, sent, hand>>
    BY <1>3 DEF WorkerTake, ring, count
  <2> QED BY <1>1, <2>1, RestRing
<1> QED BY <1>2, <1>3

(* rx_worker is done with the URB in its hand, which is submitted or lost.  *)
LEMMA WorkedStep ==
  ASSUME RingTypes, WorkerTypes, WorkerOk, wpc = "process", HandUp, hand' = NoUrb,
         UNCHANGED <<head, tail, queued, reject, since, sent>>,
         \/ /\ flight' = [flight EXCEPT ![wq] = Append(@, hand)]
            /\ UNCHANGED intact
         \/ LoseHand
  PROVE  RingTypes' /\ \A q \in Queues : QueueOk(q) => QueueOk(q)'
<1>0. PICK p \in Queues : p = wq
  BY DEF WorkerTypes
<1> DEFINE h == head[p]  t == tail[p]  n == queued[p]  fl == flight[p]  u == hand
           fr == frame[p]  hi == up[p]  si == since[p]
           fs == frame'[p]  up1 == IF fr[u] = 0 THEN hi ELSE fr[u]
<1>1. /\ p = wq /\ u \in Slots /\ hand # NoUrb
  BY <1>0, Ring DEF WorkerOk, WorkerTypes, NoUrb
<1>2. /\ h \in Slots /\ t \in Slots /\ n \in Nat /\ fl \in Seq(Slots)
      /\ fr \in [Slots -> Nat] /\ hi \in Nat /\ si \in Nat /\ sent \in Nat
  BY <1>1, QueueTypes
<1>3. /\ head'[p] = h /\ tail'[p] = t /\ queued'[p] = n /\ since'[p] = si
      /\ fs = [fr EXCEPT ![u] = 0] /\ up'[p] = up1
      /\ HandOf(p)' = NoUrb /\ HandOf(p) = u
  BY <1>1, <1>2 DEF RingTypes, FramesSent, Each, HandUp, HandOf
<1>4. \/ flight'[p] = Append(fl, u) /\ intact'[p] = intact[p]
      \/ flight'[p] = fl /\ intact'[p] = FALSE
  BY <1>1 DEF RingTypes, Each, LoseHand
<1>5. RingTypes'
  <2>1. flight' \in Each(Seq(Slots))
    <3>1. Append(fl, u) \in Seq(Slots)
      BY <1>1, <1>2, AppendProperties
    <3> QED BY <1>1, <3>1 DEF RingTypes, Each, LoseHand
  <2>2. frame' \in Each([Slots -> 0 .. sent])
    <3>1. 0 \in 0..sent
      BY <1>2
    <3> QED BY <1>1, <3>1 DEF RingTypes, FramesSent, Each, HandUp
  <2>3. up' \in Each(0 .. sent)
    BY <1>1 DEF RingTypes, FramesSent, Each, HandUp
  <2>4. intact' \in Each(BOOLEAN)
    BY <1>1 DEF RingTypes, Each, LoseHand
  <2> QED BY <2>1, <2>2, <2>3, <2>4 DEF RingTypes, FramesSent
<1>6. ASSUME NEW q \in Queues, QueueOk(q), q # p PROVE QueueOk(q)'
  <2>1. /\ UNCHANGED <<head[q], tail[q], queued[q], since[q], sent>>
        /\ UNCHANGED <<flight[q], intact[q], frame[q], up[q]>>
        /\ HandOf(q)' = HandOf(q)
    BY <1>1, <1>6 DEF RingTypes, FramesSent, Each, HandUp, LoseHand, HandOf
  <2> QED BY <1>6, <2>1, RestQueue
<1>7. ASSUME QueueOk(p) PROVE QueueOk(p)'
  <2>1. /\ Owned(h, t, n, fl, u) /\ Fresh(t, n, u, fr, hi, si, sent)
        /\ intact[p] => Complete(h, n, fl, u)
    BY <1>3, <1>7 DEF QueueOk
  <2>2. n \in 0..NDesc
    BY <2>1 DEF Owned
  <2>3. up1 = IF fr[u] = 0 THEN hi ELSE fr[u]
    OBVIOUS
  <2> HIDE DEF h, t, n, fl, u, fr, hi, si, fs, up1
  <2>4. /\ Owned(h, t, n, fl, NoUrb) /\ Owned(h, t, n, Append(fl, u), NoUrb)
        /\ \A k \in 0..(n - 1) : u # Pos(t, k)
    BY <1>1, <1>2, <2>1, SubmitOwned
  <2>5. Fresh(t, n, NoUrb, fs, up1, si, sent)
    BY <1>1, <1>2, <1>3, <2>1, <2>2, <2>3, <2>4, HandUpFresh
  <2>6. intact[p] => Complete(h, n, Append(fl, u), NoUrb)
    BY <1>1, <1>2, <2>1, SubmitComplete
  <2>7. Fresh(tail'[p], queued'[p], HandOf(p)', frame'[p], up'[p], since'[p], sent')
    BY <1>3, <2>5 DEF fs
  <2> QED BY <1>3, <1>4, <2>4, <2>6, <2>7 DEF QueueOk
<1> QED BY <1>5, <1>6, <1>7

(* A queue is stopped: its URBs are killed.                                 *)
LEMMA StopPoisonStep ==
  ASSUME RingTypes, AgentTypes, NEW a \in Agents, StopPoison(a)
  PROVE  RingTypes' /\ \A q \in Queues : QueueOk(q) => QueueOk(q)'
<1>1. PICK p \in Queues : p = at[a]
  BY DEF AgentTypes
<1>2. /\ flight' = [flight EXCEPT ![p] = <<>>] /\ intact' = [intact EXCEPT ![p] = FALSE]
      /\ reject' = [reject EXCEPT ![p] = @ + 1]
      /\ UNCHANGED <<head, tail, queued, frame, since, wq, hand, up, sent>>
  BY <1>1 DEF StopPoison, worker
<1>3. reject[p] \in Nat /\ reject[p] + 1 \in Nat /\ <<>> \in Seq(Slots)
  BY QueueTypes
<1>4. RingTypes'
  BY <1>2, <1>3 DEF RingTypes, FramesSent, Each
<1>5. \A q \in Queues : HandOf(q)' = HandOf(q)
  BY <1>2 DEF HandOf
<1>6. ASSUME NEW q \in Queues, QueueOk(q), q # p PROVE QueueOk(q)'
  <2>1. /\ UNCHANGED <<head[q], tail[q], queued[q], flight[q], frame[q], up[q], since[q], sent>>
        /\ intact'[q] = intact[q]
    BY <1>2, <1>6 DEF RingTypes, Each
  <2> QED BY <1>5, <1>6, <2>1, RestQueue
<1>7. ASSUME QueueOk(p) PROVE QueueOk(p)'
  <2>1. flight'[p] = <<>> /\ intact'[p] = FALSE
    BY <1>2 DEF RingTypes, Each
  <2>2. Owned(head[p], tail[p], queued[p], <<>>, HandOf(p))
    BY <1>7, KillOwned DEF QueueOk
  <2> QED BY <1>2, <1>5, <1>7, <2>1, <2>2 DEF QueueOk
<1> QED BY <1>4, <1>6, <1>7

(* A queue is started: m of its URBs are submitted.                         *)
LEMMA SubmitStep ==
  ASSUME RingTypes, NEW p \in Queues, NEW m \in 0..NDesc, m <= Reach(p), reject[p] >= 1,
         SubmitBuffers(p, m), reject' = [reject EXCEPT ![p] = @ - 1],
         UNCHANGED <<frame, wq, hand, up, sent>>
  PROVE  RingTypes' /\ (hand = NoUrb => \A q \in Queues : QueueOk(q) => QueueOk(q)')
<1> DEFINE fl == flight[p]  fm == fl \o RunOf(m)
<1>1. /\ fl \in Seq(Slots) /\ reject[p] - 1 \in Nat /\ sent \in Nat /\ up[p] \in 0..sent
      /\ sent \in 0..sent
  BY QueueTypes DEF RingTypes, FramesSent, Each
<1>2. /\ flight' = [flight EXCEPT ![p] = fm]
      /\ head' = [head EXCEPT ![p] = 0] /\ tail' = [tail EXCEPT ![p] = 0]
      /\ queued' = [queued EXCEPT ![p] = 0] /\ since' = [since EXCEPT ![p] = sent]
      /\ intact' = [intact EXCEPT ![p] = (m = NDesc)]
  BY DEF SubmitBuffers
<1>3. \A i \in 1..Len(fl) : fl[i] \notin 0..(m - 1)
  <2>1. /\ Reach(p) \in 0..NDesc /\ \A i \in 1..Len(fl) : fl[i] \notin 0..(Reach(p) - 1)
    BY <1>1, ReachFits
  <2>2. 0..(m - 1) \subseteq 0..(Reach(p) - 1)
    BY <2>1
  <2> QED BY <2>1, <2>2
<1>4. fm \in Seq(Slots)
  <2>1. RunOf(m) \in Seq(Slots)
    BY Ring DEF RunOf
  <2> QED BY <1>1, <2>1, ConcatProperties
<1>5. RingTypes'
  <2> HIDE DEF fm
  <2>1. head' \in Each(Slots) /\ tail' \in Each(Slots) /\ queued' \in Each(Nat)
    BY <1>2, Ring DEF RingTypes, Each
  <2>2. flight' \in Each(Seq(Slots)) /\ intact' \in Each(BOOLEAN) /\ reject' \in Each(Nat)
    BY <1>1, <1>2, <1>4 DEF RingTypes, Each
  <2>3. FramesSent'
    BY <1>1, <1>2 DEF RingTypes, FramesSent, Each
  <2> QED BY <2>1, <2>2, <2>3 DEF RingTypes
<1>6. ASSUME NEW q \in Queues, QueueOk(q), q # p PROVE QueueOk(q)'
  <2>1. /\ UNCHANGED <<head[q], tail[q], queued[q], flight[q], frame[q], up[q], since[q], sent>>
        /\ intact'[q] = intact[q] /\ HandOf(q)' = HandOf(q)
    BY <1>2, <1>6 DEF RingTypes, Each, HandOf
  <2> QED BY <1>6, <2>1, RestQueue
<1>7. ASSUME QueueOk(p), hand = NoUrb PROVE QueueOk(p)'
  <2>1. /\ head'[p] = 0 /\ tail'[p] = 0 /\ queued'[p] = 0 /\ flight'[p] = fm
        /\ since'[p] = sent /\ intact'[p] = (m = NDesc) /\ HandOf(p)' = NoUrb
        /\ frame'[p] = frame[p] /\ up'[p] = up[p] /\ sent' = sent
    BY <1>2, <1>7 DEF RingTypes, FramesSent, Each, HandOf
  <2>2. \A i \in 1..Len(fl), j \in 1..Len(fl) : fl[i] = fl[j] => i = j
    BY <1>7 DEF QueueOk, Owned
  <2>3. /\ Owned(0, 0, 0, fm, NoUrb)
        /\ m = NDesc => Complete(0, 0, fm, NoUrb)
    <3> HIDE DEF fl
    <3> QED BY <1>1, <1>3, <2>2, StartOwned
  <2>4. Fresh(0, 0, NoUrb, frame[p], up[p], sent, sent)
    BY <1>1 DEF Fresh
  <2> HIDE DEF fm
  <2> QED BY <2>1, <2>3, <2>4 DEF QueueOk
<1> QED BY <1>5, <1>6, <1>7

LEMMA ResumeStep ==
  ASSUME RingTypes, AgentTypes, PoisonCounted, NEW a \in Agents, Resume(a)
  PROVE  RingTypes' /\ (hand = NoUrb => \A q \in Queues : QueueOk(q) => QueueOk(q)')
<1>1. PICK p \in Queues : p = at[a]
  BY DEF AgentTypes
<1>2. /\ pc[a] = "resume" /\ reject' = [reject EXCEPT ![p] = @ - 1]
      /\ UNCHANGED <<frame, wq, hand, up, sent>>
      /\ \/ SubmitBuffers(p, Reach(p))
         \/ \E n \in 0..(Reach(p) - 1) : SubmitBuffers(p, n)
  BY <1>1 DEF Resume, worker
<1>3. Reach(p) \in 0..NDesc /\ reject[p] \in Nat
  BY QueueTypes, ReachFits
<1>4. reject[p] >= 1
  <2>1. Owes(a, p) = 1
    BY <1>1, <1>2 DEF Owes, Queues
  <2>2. Owes("reset", p) \in 0..1 /\ Owes("pm", p) \in 0..1
    BY DEF Owes
  <2> QED BY <1>3, <2>1, <2>2 DEF PoisonCounted, Agents
<1>5. PICK m \in 0..NDesc : m <= Reach(p) /\ SubmitBuffers(p, m)
  <2>1. CASE SubmitBuffers(p, Reach(p))
    BY <1>3, <2>1
  <2>2. CASE \E n \in 0..(Reach(p) - 1) : SubmitBuffers(p, n)
    BY <1>3, <2>2, Ring
  <2> QED BY <1>2, <2>1, <2>2
<1> QED BY <1>2, <1>4, <1>5, SubmitStep

(* A new instance: everything is submitted, nothing completed.              *)
LEMMA AllStarted ==
  /\ RunOf(NDesc) \in Seq(Slots)
  /\ Owned(0, 0, 0, RunOf(NDesc), NoUrb) /\ Complete(0, 0, RunOf(NDesc), NoUrb)
<1> DEFINE fm == RunOf(NDesc)
<1>1. NDesc \in 0..NDesc
  BY Ring
<1>2. fm \in Seq(Slots) /\ Owned(0, 0, 0, fm, NoUrb) /\ Complete(0, 0, fm, NoUrb)
  <2> DEFINE none == <<>>
  <2>1. none \in Seq(Slots) /\ Len(none) = 0
    OBVIOUS
  <2>2. fm \in Seq(Slots)
    BY Ring DEF RunOf
  <2>3. none \o fm = fm
    <3> HIDE DEF fm
    <3> QED BY <2>2, ConcatEmptySeq
  <2>4. /\ \A i \in 1..Len(none), j \in 1..Len(none) : none[i] = none[j] => i = j
        /\ \A i \in 1..Len(none) : none[i] \notin 0..(NDesc - 1)
    BY <2>1
  <2> HIDE DEF none
  <2>5. /\ Owned(0, 0, 0, none \o RunOf(NDesc), NoUrb)
        /\ Complete(0, 0, none \o RunOf(NDesc), NoUrb)
    BY <1>1, <2>1, <2>4, StartOwned
  <2> QED BY <2>2, <2>3, <2>5
<1> QED BY <1>2

LEMMA NewQueues ==
  ASSUME head' = PerQueue(0), tail' = PerQueue(0), queued' = PerQueue(0),
         reject' = PerQueue(0), flight' = AllSubmitted, frame' = NoFrames,
         intact' = PerQueue(TRUE), since' = PerQueue(sent'), sent' \in 0..MaxFrames,
         up' \in Each(0..sent'), hand' = NoUrb
  PROVE  RingTypes' /\ \A q \in Queues : QueueOk(q)'
<1> DEFINE fm == RunOf(NDesc)
<1>1. NDesc \in 0..NDesc /\ 0 \in Slots /\ 0 \in Nat
  BY Ring
<1>2. fm \in Seq(Slots) /\ Owned(0, 0, 0, fm, NoUrb) /\ Complete(0, 0, fm, NoUrb)
  BY AllStarted
<1> DEFINE z == sent'
<1>3. z \in Nat /\ 0 \in 0..z /\ z \in 0..z
  BY RxConstants
<1>4. NoFrames \in Each([Slots -> 0..z]) /\ PerQueue(z) \in Each(0..z)
  BY <1>3 DEF NoFrames, PerQueue, Each
<1>5. RingTypes'
  <2>1. /\ PerQueue(0) \in Each(Slots) /\ PerQueue(0) \in Each(Nat) /\ PerQueue(TRUE) \in Each(BOOLEAN)
        /\ AllSubmitted \in Each(Seq(Slots))
    <3> HIDE DEF fm
    <3> QED BY <1>1, <1>2 DEF PerQueue, Each, AllSubmitted, fm
  <2> QED BY <1>4, <2>1 DEF RingTypes, FramesSent, Each
<1>6. ASSUME NEW q \in Queues PROVE QueueOk(q)'
  <2>1. /\ head'[q] = 0 /\ tail'[q] = 0 /\ queued'[q] = 0 /\ flight'[q] = fm
        /\ since'[q] = z /\ HandOf(q)' = NoUrb /\ up'[q] \in 0..z
    BY DEF PerQueue, AllSubmitted, Each, HandOf
  <2>2. Fresh(0, 0, NoUrb, frame'[q], up'[q], z, z)
    BY <1>3, <2>1 DEF Fresh
  <2> HIDE DEF fm
  <2> QED BY <1>2, <2>1, <2>2 DEF QueueOk
<1> QED BY <1>5, <1>6

-----------------------------------------------------------------------------
(* Types of the control variables: the flags, then the others.              *)
LEMMA FlagStep ==
  ASSUME FlagTypes, [Next]_vars
  PROVE  FlagTypes'
<1> USE DEF FlagTypes, Overlap, Asleep
<1>1. CASE \E q \in Queues, status \in {"data", "other", "proto"} : CompleteRx(q, status)
  <2>1. /\ scheduled' \in BOOLEAN /\ moved' \in BOOLEAN
        /\ UNCHANGED <<parked, agent, assoc, overlapped>>
    BY <1>1, Zenon DEF CompleteRx
  <2> QED BY <2>1, Zenon DEF agent
<1>2. CASE WorkerStart
  BY <1>2, Zenon DEF WorkerStart, agent, watch, count
<1>3. CASE WorkerTake
  BY <1>3, Zenon DEF WorkerTake, agent, watch, count
<1>4. CASE Resubmit
  BY <1>4, Zenon DEF Resubmit, agent, watch
<1>5. CASE RefillFails
  BY <1>5, Zenon DEF RefillFails, agent, watch
<1>6. CASE \E a \in Agents : StopDisable(a)
  BY <1>6, Zenon DEF StopDisable, watch
<1>7. CASE \E a \in Agents : StopPoison(a)
  <2>1. /\ moved' \in BOOLEAN /\ overlapped' \in BOOLEAN
        /\ UNCHANGED <<scheduled, parked, resetQueued, suspended, escalated, late, selfmade, assoc>>
    BY <1>7, Zenon DEF StopPoison, worker
  <2> QED BY <2>1, Zenon
<1>8. CASE \E a \in Agents : Resume(a)
  <2>1. /\ selfmade' \in BOOLEAN /\ overlapped' \in BOOLEAN
        /\ UNCHANGED <<scheduled, parked, resetQueued, suspended, escalated, late, assoc, moved>>
    BY <1>8, Zenon DEF Resume, worker, watch
  <2> QED BY <2>1, Zenon
<1>9. CASE \E a \in Agents : ResumeEnable(a)
  BY <1>9, Zenon DEF ResumeEnable, watch
<1>10. CASE ResetBegin
  BY <1>10, Zenon DEF ResetBegin, worker, watch, count
<1>11. CASE ResetBoot
  BY <1>11, Zenon DEF ResetBoot, worker, watch
<1>12. CASE ResetFailed
  BY <1>12, Zenon DEF ResetFailed, worker, watch, count
<1>13. CASE ResetFinish
  BY <1>13, Zenon DEF ResetFinish, worker, watch, count
<1>14. CASE SuspendBegin
  BY <1>14, Zenon DEF SuspendBegin, worker, watch
<1>15. CASE SuspendFlush
  BY <1>15, Zenon DEF SuspendFlush, worker, watch, count
<1>16. CASE SuspendHif
  BY <1>16, Zenon DEF SuspendHif, PmEnd, ResetRequest, worker, watch
<1>17. CASE ResumeBegin
  BY <1>17, Zenon DEF ResumeBegin, worker, watch
<1>18. CASE ResumeHif
  BY <1>18, Zenon DEF ResumeHif, PmEnd, ResetRequest, worker, watch
<1>19. CASE MacWork
  BY <1>19, Zenon DEF MacWork, ResetRequest, worker, count
<1>20. CASE Associate
  BY <1>20, Zenon DEF Associate, worker, agent, count
<1>21. CASE McuTimeout
  BY <1>21, Zenon DEF McuTimeout, ResetRequest, worker, watch
<1>22. CASE Reprobe
  BY <1>22, Zenon DEF Reprobe
<1>23. CASE ResetLost
  BY <1>23, Zenon DEF ResetLost, worker, watch, count
<1>24. CASE UNCHANGED vars
  BY <1>24, Zenon DEF vars, worker, agent, watch, count
<1> QED
  BY <1>1, <1>2, <1>3, <1>4, <1>5, <1>6, <1>7, <1>8, <1>9, <1>10, <1>11, <1>12, <1>13,
     <1>14, <1>15, <1>16, <1>17, <1>18, <1>19, <1>20, <1>21, <1>22, <1>23, <1>24
     DEF Next, WorkerStep, ResetStep, PmStep, Agents

(* The worker's steps.                                                      *)
LEMMA WorkerKept ==
  ASSUME WorkerTypes, WorkerOk, UNCHANGED <<parked, wpc, wq, hand>>
  PROVE  WorkerTypes' /\ WorkerOk'
BY DEF WorkerTypes, WorkerOk

LEMMA WorkerControl ==
  ASSUME RingTypes, FlagTypes, WorkerTypes, WorkerOk, [Next]_vars
  PROVE  WorkerTypes' /\ WorkerOk'
<1> USE DEF WorkerTypes, WorkerOk, Queues
<1>0. NDesc \in Nat /\ NoUrb = NDesc /\ NDesc \notin Slots /\ Slots \subseteq 0..NDesc
  BY Ring
<1>1. CASE WorkerStart
  BY <1>1 DEF WorkerStart
<1>2. CASE WorkerTake
  <2>1. CASE queued[wq] > 0
    <3>1. tail[wq] \in Slots
      BY QueueTypes
    <3> QED BY <1>0, <1>2, <2>1, <3>1 DEF WorkerTake
  <2>2. CASE ~(queued[wq] > 0)
    BY <1>0, <1>2, <2>2 DEF WorkerTake, NextQueue
  <2> QED BY <2>1, <2>2
<1>3. CASE Resubmit
  BY <1>0, <1>3 DEF Resubmit
<1>4. CASE RefillFails
  BY <1>0, <1>4 DEF RefillFails, NextQueue
<1>5. CASE \E a \in Agents : StopDisable(a)
  BY <1>5 DEF StopDisable
<1>6. CASE \E a \in Agents : ResumeEnable(a)
  BY <1>6 DEF ResumeEnable
<1>7. CASE Reprobe
  BY <1>7 DEF Reprobe
<1>8. CASE UNCHANGED <<parked, wpc, wq, hand>>
  BY <1>8, WorkerKept
<1>9. CASE \E q \in Queues, status \in {"data", "other", "proto"} : CompleteRx(q, status)
  BY <1>9, <1>8 DEF CompleteRx
<1>10. CASE \E a \in Agents : StopPoison(a) \/ Resume(a)
  BY <1>10, <1>8 DEF StopPoison, Resume, worker
<1>11. CASE ResetBegin \/ ResetBoot \/ ResetFailed \/ ResetFinish
  BY <1>11, <1>8 DEF ResetBegin, ResetBoot, ResetFailed, ResetFinish, worker
<1>12. CASE SuspendBegin \/ SuspendFlush \/ SuspendHif \/ ResumeBegin \/ ResumeHif
  BY <1>12, <1>8 DEF SuspendBegin, SuspendFlush, SuspendHif, ResumeBegin, ResumeHif, worker
<1>13. CASE MacWork \/ Associate \/ McuTimeout \/ ResetLost \/ UNCHANGED vars
  BY <1>13, <1>8 DEF MacWork, Associate, McuTimeout, ResetLost, worker, vars
<1> HIDE DEF WorkerTypes, WorkerOk, Queues
<1> QED
  BY <1>1, <1>2, <1>3, <1>4, <1>5, <1>6, <1>7, <1>9, <1>10, <1>11, <1>12, <1>13
     DEF Next, WorkerStep, ResetStep, PmStep, Agents

(* What is counted.                                                         *)
LEMMA CountStep ==
  ASSUME CountTypes, [Next]_vars
  PROVE  CountTypes'
<1>0. /\ StaleTicks \in Nat \ {0} /\ MaxFaults \in Nat /\ MaxSuspends \in Nat
      /\ stale \in 0..(StaleTicks - 1) /\ faults \in 0..MaxFaults /\ suspends \in 0..MaxSuspends
  BY RxConstants DEF CountTypes
<1>1. Fault => faults' \in 0..MaxFaults
  BY <1>0 DEF Fault
<1>2. CASE \E q \in Queues, status \in {"data", "other", "proto"} : CompleteRx(q, status)
  BY <1>0, <1>1, <1>2 DEF CompleteRx, CountTypes
<1>3. CASE WorkerStart \/ WorkerTake
  BY <1>0, <1>3 DEF WorkerStart, WorkerTake, watch, count, CountTypes
<1>4. CASE Resubmit \/ RefillFails
  BY <1>0, <1>1, <1>4 DEF Resubmit, RefillFails, watch, CountTypes
<1>5. CASE \E a \in Agents : StopDisable(a) \/ StopPoison(a) \/ ResumeEnable(a)
  BY <1>0, <1>5 DEF StopDisable, StopPoison, ResumeEnable, watch, CountTypes
<1>6. CASE \E a \in Agents : Resume(a)
  BY <1>0, <1>1, <1>6 DEF Resume, watch, CountTypes
<1>7. CASE ResetBegin \/ ResetFailed \/ ResetFinish \/ SuspendFlush \/ ResetLost
  BY <1>0, <1>7 DEF ResetBegin, ResetFailed, ResetFinish, SuspendFlush, ResetLost, watch, count, CountTypes
<1>8. CASE ResetBoot \/ SuspendHif \/ ResumeBegin \/ ResumeHif \/ McuTimeout
  BY <1>0, <1>1, <1>8 DEF ResetBoot, SuspendHif, ResumeBegin, ResumeHif, McuTimeout, watch, CountTypes
<1>9. CASE SuspendBegin
  BY <1>0, <1>9 DEF SuspendBegin, watch, CountTypes
<1>10. CASE MacWork
  BY <1>0, <1>10 DEF MacWork, count, CountTypes
<1>11. CASE Associate \/ UNCHANGED vars
  BY <1>0, <1>11 DEF Associate, count, watch, vars, CountTypes
<1>12. CASE Reprobe
  BY <1>0, <1>12 DEF Reprobe, CountTypes
<1> QED
  BY <1>2, <1>3, <1>4, <1>5, <1>6, <1>7, <1>8, <1>9, <1>10, <1>11, <1>12
     DEF Next, WorkerStep, ResetStep, PmStep, Agents

(* Where the agents are, and what that says of the attempts left.           *)
LEMMA AgentControl ==
  ASSUME AgentTypes, TriesLeft, [Next]_vars
  PROVE  AgentTypes' /\ TriesLeft'
<1> USE DEF AgentTypes, TriesLeft, Agents, RingSteps, ResetSteps, PmSteps, Queues
<1>0. Tries \in Nat /\ Tries >= 1 /\ left \in Nat
  BY RxConstants
<1>1. CASE \E a \in Agents : StopDisable(a)
  BY <1>1 DEF StopDisable
<1>2. CASE \E a \in Agents : StopPoison(a)
  <2> PICK a \in Agents : StopPoison(a)
    BY <1>2
  <2>1. /\ pc[a] = "poison" /\ left' = left
        /\ at[a] = 1 => pc' = pc /\ at' = [at EXCEPT ![a] = 2]
        /\ at[a] # 1 => /\ pc' = [pc EXCEPT ![a] = IF a = "pm" THEN "asleep" ELSE "resume"]
                        /\ at' = [at EXCEPT ![a] = 1]
    BY DEF StopPoison
  <2> QED BY <2>1
<1>3. CASE \E a \in Agents : Resume(a)
  <2> PICK a \in Agents : Resume(a)
    BY <1>3
  <2>1. /\ pc[a] = "resume" /\ left' = left
        /\ at' = [at EXCEPT ![a] = IF at[a] = 1 THEN 2 ELSE 1]
        /\ \E s \in {"resume", "enable", "failed"} : pc' = [pc EXCEPT ![a] = s]
    BY DEF Resume
  <2> QED BY <2>1
<1>4. CASE \E a \in Agents : ResumeEnable(a)
  BY <1>4 DEF ResumeEnable
<1>5. CASE ResetBegin
  BY <1>0, <1>5 DEF ResetBegin
<1>6. CASE ResetBoot
  BY <1>6 DEF ResetBoot
<1>7. CASE ResetFailed
  BY <1>0, <1>7 DEF ResetFailed
<1>8. CASE ResetFinish
  BY <1>0, <1>8 DEF ResetFinish
<1>9. CASE SuspendBegin \/ SuspendFlush \/ ResumeBegin
  BY <1>9 DEF SuspendBegin, SuspendFlush, ResumeBegin
<1>10. CASE SuspendHif
  BY <1>10 DEF SuspendHif, PmEnd
<1>11. CASE ResumeHif
  BY <1>11 DEF ResumeHif, PmEnd
<1>12. CASE Reprobe
  BY <1>12 DEF Reprobe, PerAgent
<1>13. CASE UNCHANGED <<pc, at, left>>
  BY <1>13
<1>14. CASE \E q \in Queues, status \in {"data", "other", "proto"} : CompleteRx(q, status)
  BY <1>13, <1>14 DEF CompleteRx, agent
<1>15. CASE WorkerStart \/ WorkerTake \/ Resubmit \/ RefillFails
  BY <1>13, <1>15 DEF WorkerStart, WorkerTake, Resubmit, RefillFails, agent
<1>16. CASE MacWork \/ Associate \/ McuTimeout \/ ResetLost \/ UNCHANGED vars
  BY <1>13, <1>16 DEF MacWork, Associate, McuTimeout, ResetLost, agent, vars
<1> HIDE DEF AgentTypes, TriesLeft, RingSteps, ResetSteps, PmSteps, Queues
<1> QED
  BY <1>1, <1>2, <1>3, <1>4, <1>5, <1>6, <1>7, <1>8, <1>9, <1>10, <1>11, <1>12, <1>14,
     <1>15, <1>16
     DEF Next, WorkerStep, ResetStep, PmStep

-----------------------------------------------------------------------------
(* How often a queue is still to be unpoisoned.                             *)
Settled(a) ==
  \/ pc'[a] = pc[a] /\ at'[a] = at[a]
  \/ pc[a] = "asleep"
  \/ pc'[a] \notin {"poison", "asleep", "resume"}
  \/ pc'[a] = "poison" /\ at'[a] = 1

LEMMA OwesLess ==
  ASSUME PoisonCounted, RingTypes, reject' = reject \/ reject' = PerQueue(0),
         reject' = reject => \A a \in Agents : Settled(a),
         reject' # reject => \A a \in Agents : pc'[a] = "idle"
  PROVE  PoisonCounted'
<1>1. \A a \in Agents, q \in Queues : Owes(a, q) \in 0..1
  BY DEF Owes
<1>2. CASE reject' = reject
  <2>1. ASSUME NEW a \in Agents, NEW q \in Queues PROVE Owes(a, q)' <= Owes(a, q)
    BY <1>2 DEF Settled, Owes, Queues
  <2>2. ASSUME NEW q \in Queues
        PROVE  reject'[q] >= Owes("reset", q)' + Owes("pm", q)'
    <3>1. reject[q] \in Nat /\ reject[q] >= Owes("reset", q) + Owes("pm", q)
      BY QueueTypes DEF PoisonCounted
    <3>2. Owes("reset", q)' <= Owes("reset", q) /\ Owes("pm", q)' <= Owes("pm", q)
      BY <2>1 DEF Agents
    <3>3. /\ Owes("reset", q)' \in 0..1 /\ Owes("pm", q)' \in 0..1
          /\ Owes("reset", q) \in 0..1 /\ Owes("pm", q) \in 0..1
      BY DEF Owes
    <3> QED BY <1>2, <3>1, <3>2, <3>3
  <2> QED BY <2>2 DEF PoisonCounted
<1>3. CASE reject' # reject
  <2>1. \A q \in Queues : reject'[q] = 0 /\ Owes("reset", q)' = 0 /\ Owes("pm", q)' = 0
    BY <1>3 DEF PerQueue, Owes, Agents
  <2> QED BY <2>1 DEF PoisonCounted
<1> QED BY <1>2, <1>3

LEMMA PoisonStep ==
  ASSUME RingTypes, AgentTypes, PoisonCounted, [Next]_vars
  PROVE  PoisonCounted'
<1> USE DEF AgentTypes, Agents, Settled
<1>1. ASSUME NEW b \in Agents, StopPoison(b) PROVE PoisonCounted'
  <2>1. PICK p \in Queues : p = at[b]
    OBVIOUS
  <2>2. /\ pc[b] = "poison" /\ reject' = [reject EXCEPT ![p] = @ + 1]
        /\ pc'[b] = IF p = 1 THEN "poison" ELSE IF b = "pm" THEN "asleep" ELSE "resume"
        /\ at'[b] = IF p = 1 THEN 2 ELSE 1
        /\ \A a \in Agents : a # b => pc'[a] = pc[a] /\ at'[a] = at[a]
    BY <1>1, <2>1 DEF StopPoison
  <2>3. ASSUME NEW q \in Queues
        PROVE  reject'[q] >= Owes("reset", q)' + Owes("pm", q)'
    <3>1. reject[q] \in Nat /\ reject[q] >= Owes("reset", q) + Owes("pm", q)
      BY QueueTypes DEF PoisonCounted
    <3>2. reject'[q] = IF q = p THEN reject[q] + 1 ELSE reject[q]
      BY <2>2 DEF RingTypes, Each
    <3>3. Owes(b, q)' <= Owes(b, q) + (IF q = p THEN 1 ELSE 0)
      BY <2>1, <2>2 DEF Owes, Queues
    <3>4. \A a \in Agents : a # b => Owes(a, q)' = Owes(a, q)
      BY <2>2 DEF Owes
    <3>5. \A a \in Agents : Owes(a, q)' \in 0..1 /\ Owes(a, q) \in 0..1
      BY DEF Owes
    <3> HIDE DEF AgentTypes
    <3> QED BY <3>1, <3>2, <3>3, <3>4, <3>5
  <2> QED BY <2>3 DEF PoisonCounted
<1>2. ASSUME NEW b \in Agents, Resume(b) PROVE PoisonCounted'
  <2>1. PICK p \in Queues : p = at[b]
    OBVIOUS
  <2>2. /\ pc[b] = "resume" /\ reject' = [reject EXCEPT ![p] = @ - 1]
        /\ pc'[b] \in (IF p = 1 THEN {"resume", "failed"} ELSE {"enable", "failed"})
        /\ at'[b] = IF p = 1 THEN 2 ELSE 1
        /\ \A a \in Agents : a # b => pc'[a] = pc[a] /\ at'[a] = at[a]
    BY <1>2, <2>1 DEF Resume
  <2>3. ASSUME NEW q \in Queues
        PROVE  reject'[q] >= Owes("reset", q)' + Owes("pm", q)'
    <3>1. reject[q] \in Nat /\ reject[q] >= Owes("reset", q) + Owes("pm", q)
      BY QueueTypes DEF PoisonCounted
    <3>2. reject'[q] = IF q = p THEN reject[q] - 1 ELSE reject[q]
      BY <2>2 DEF RingTypes, Each
    <3>3. Owes(b, q)' <= Owes(b, q) - (IF q = p THEN 1 ELSE 0)
      BY <2>1, <2>2 DEF Owes, Queues
    <3>4. \A a \in Agents : a # b => Owes(a, q)' = Owes(a, q)
      BY <2>2 DEF Owes
    <3>5. \A a \in Agents : Owes(a, q)' \in 0..1 /\ Owes(a, q) \in 0..1
      BY DEF Owes
    <3> HIDE DEF AgentTypes
    <3> QED BY <3>1, <3>2, <3>3, <3>4, <3>5
  <2> QED BY <2>3 DEF PoisonCounted
<1>3. CASE UNCHANGED <<reject, pc, at>>
  BY <1>3, OwesLess
<1>4. CASE \E q \in Queues, status \in {"data", "other", "proto"} : CompleteRx(q, status)
  BY <1>3, <1>4 DEF CompleteRx, agent
<1>5. CASE WorkerStart \/ WorkerTake \/ Resubmit \/ RefillFails
  BY <1>3, <1>5 DEF WorkerStart, WorkerTake, Resubmit, RefillFails, agent, ring
<1>6. CASE MacWork \/ Associate \/ McuTimeout \/ ResetLost \/ UNCHANGED vars
  BY <1>3, <1>6 DEF MacWork, Associate, McuTimeout, ResetLost, agent, vars, ring
<1>7. CASE \E b \in Agents : StopDisable(b) \/ ResumeEnable(b)
  BY <1>7, OwesLess DEF StopDisable, ResumeEnable, ring
<1>8. CASE ResetBegin \/ ResetBoot \/ ResetFailed \/ ResetFinish
  BY <1>8, OwesLess DEF ResetBegin, ResetBoot, ResetFailed, ResetFinish, ring
<1>9. CASE SuspendBegin \/ SuspendFlush \/ ResumeBegin
  BY <1>9, OwesLess DEF SuspendBegin, SuspendFlush, ResumeBegin, ring
<1>10. CASE SuspendHif \/ ResumeHif
  BY <1>10, OwesLess DEF SuspendHif, ResumeHif, PmEnd, ring
<1>11. CASE Reprobe
  <2>1. \A a \in Agents : pc'[a] = "idle" /\ Settled(a)
    BY <1>11 DEF Reprobe, PerAgent
  <2> QED BY <1>11, <2>1, OwesLess DEF Reprobe
<1> HIDE DEF AgentTypes, Settled
<1> QED
  BY <1>1, <1>2, <1>4, <1>5, <1>6, <1>7, <1>8, <1>9, <1>10, <1>11
     DEF Next, WorkerStep, ResetStep, PmStep

(* A suspend that began alone stays alone.                                  *)
LEMMA SuspendStep ==
  ASSUME FlagTypes, AgentTypes, SuspendAlone, [Next]_vars
  PROVE  SuspendAlone'
<1>0. /\ late \in BOOLEAN /\ suspended \in BOOLEAN /\ resetQueued \in BOOLEAN
      /\ pc \in [{"reset", "pm"} -> ResetSteps \cup PmSteps]
  BY DEF FlagTypes, AgentTypes, Agents
<1> USE <1>0 DEF SuspendAlone, Agents, ResetRequest
<1>1. CASE UNCHANGED <<pc, late, suspended, resetQueued>>
  BY <1>1
<1>2. CASE \E q \in Queues, status \in {"data", "other", "proto"} : CompleteRx(q, status)
  BY <1>1, <1>2 DEF CompleteRx, agent
<1>3. CASE WorkerStart \/ WorkerTake \/ Resubmit \/ RefillFails
  BY <1>1, <1>3 DEF WorkerStart, WorkerTake, Resubmit, RefillFails, agent
<1>4. CASE Associate \/ ResetLost \/ UNCHANGED vars
  BY <1>1, <1>4 DEF Associate, ResetLost, agent, vars
<1>5. CASE MacWork
  BY <1>5 DEF MacWork
<1>6. CASE McuTimeout
  BY <1>6 DEF McuTimeout
<1>7. ASSUME NEW a \in Agents, StopDisable(a) \/ StopPoison(a) \/ Resume(a) \/ ResumeEnable(a)
      PROVE  SuspendAlone'
  <2>1. /\ UNCHANGED <<late, suspended, resetQueued>>
        /\ pc[a] \in {"disable", "poison", "resume", "enable"}
        /\ \A b \in Agents : b # a => pc'[b] = pc[b]
    BY <1>7 DEF StopDisable, StopPoison, Resume, ResumeEnable
  <2> QED BY <2>1
<1>8. CASE ResetBegin
  BY <1>8 DEF ResetBegin
<1>9. CASE ResetBoot
  BY <1>9 DEF ResetBoot
<1>10. CASE ResetFailed
  BY <1>10 DEF ResetFailed
<1>11. CASE ResetFinish
  BY <1>11 DEF ResetFinish
<1>12. CASE SuspendBegin
  BY <1>12 DEF SuspendBegin
<1>13. CASE SuspendFlush
  BY <1>13 DEF SuspendFlush
<1>14. CASE SuspendHif
  BY <1>14 DEF SuspendHif, PmEnd
<1>15. CASE ResumeBegin
  BY <1>15 DEF ResumeBegin
<1>16. CASE ResumeHif
  BY <1>16 DEF ResumeHif, PmEnd
<1>17. CASE Reprobe
  BY <1>17 DEF Reprobe, PerAgent
<1> HIDE DEF SuspendAlone, ResetRequest
<1> QED
  BY <1>2, <1>3, <1>4, <1>5, <1>6, <1>7, <1>8, <1>9, <1>10, <1>11, <1>12, <1>13, <1>14,
     <1>15, <1>16, <1>17
     DEF Next, WorkerStep, ResetStep, PmStep

(* As long as resets and suspends keep apart, nobody enables a worker that  *)
(* another one has stopped.                                                 *)
LEMMA StopsStep ==
  ASSUME FlagTypes, AgentTypes, ~overlapped => StopsWorker, [Next]_vars
  PROVE  ~overlapped' => StopsWorker'
<1>0. /\ pc \in [Agents -> ResetSteps \cup PmSteps] /\ parked \in BOOLEAN
      /\ overlapped \in BOOLEAN
  BY DEF FlagTypes, AgentTypes
<1>k. ASSUME overlapped' = overlapped, parked' = parked,
             \A a \in Agents : pc'[a] = pc[a] \/ pc'[a] \notin StoppedPcs \/ pc[a] = "asleep"
      PROVE  ~overlapped' => StopsWorker'
  BY <1>k DEF StopsWorker, StoppedPcs
<1>1. CASE UNCHANGED <<overlapped, parked, pc>>
  BY <1>1, <1>k
<1>2. CASE \E q \in Queues, status \in {"data", "other", "proto"} : CompleteRx(q, status)
  BY <1>1, <1>2 DEF CompleteRx, agent
<1>3. CASE WorkerStart \/ WorkerTake \/ Resubmit \/ RefillFails
  BY <1>1, <1>3 DEF WorkerStart, WorkerTake, Resubmit, RefillFails, agent, count
<1>4. CASE MacWork \/ Associate \/ McuTimeout \/ ResetLost \/ UNCHANGED vars
  BY <1>1, <1>4 DEF MacWork, Associate, McuTimeout, ResetLost, agent, vars, worker, count
<1>5. CASE \E b \in Agents : StopDisable(b)
  BY <1>5, Zenon DEF StopDisable, StopsWorker
<1>6. ASSUME NEW b \in Agents, StopPoison(b) PROVE ~overlapped' => StopsWorker'
  <2>1. /\ pc[b] \in StoppedPcs /\ parked' = parked /\ (~overlapped' => ~overlapped)
        /\ \A a \in Agents : a # b => pc'[a] = pc[a]
    BY <1>0, <1>6 DEF StopPoison, worker, Overlap, StoppedPcs
  <2> QED BY <2>1 DEF StopsWorker
<1>7. ASSUME NEW b \in Agents, Resume(b) PROVE ~overlapped' => StopsWorker'
  <2>1. /\ pc[b] \in StoppedPcs /\ parked' = parked /\ (~overlapped' => ~overlapped)
        /\ \A a \in Agents : a # b => pc'[a] = pc[a]
    BY <1>0, <1>7 DEF Resume, worker, Overlap, StoppedPcs
  <2> QED BY <2>1 DEF StopsWorker
<1>8. ASSUME NEW b \in Agents, ResumeEnable(b) PROVE ~overlapped' => StopsWorker'
  <2>1. /\ pc[b] = "enable" /\ pc'[b] \notin StoppedPcs
        /\ \A a \in Agents : a # b => pc'[a] = pc[a]
    BY <1>0, <1>8 DEF ResumeEnable, StoppedPcs
  <2>2. ~overlapped' => ~(Asleep /\ pc["reset"] # "idle")
    BY <1>0, <1>8, Zenon DEF ResumeEnable, Overlap
  <2>3. ~overlapped' => \A a \in Agents : a # b => pc[a] \notin StoppedPcs
    BY <2>1, <2>2 DEF Asleep, StoppedPcs, Agents
  <2> QED BY <2>1, <2>3 DEF StopsWorker
<1>9. CASE ResetBegin \/ ResetBoot \/ ResetFailed \/ ResetFinish
  BY <1>0, <1>9, <1>k
     DEF ResetBegin, ResetBoot, ResetFailed, ResetFinish, worker, count, StoppedPcs, Agents
<1>10. CASE SuspendBegin \/ SuspendFlush \/ ResumeBegin
  BY <1>0, <1>10, <1>k DEF SuspendBegin, SuspendFlush, ResumeBegin, worker, count, StoppedPcs, Agents
<1>11. CASE SuspendHif \/ ResumeHif
  BY <1>0, <1>11, <1>k DEF SuspendHif, ResumeHif, PmEnd, worker, count, StoppedPcs, Agents
<1>12. CASE Reprobe
  BY <1>12 DEF Reprobe, PerAgent, StopsWorker, StoppedPcs
<1> QED
  BY <1>2, <1>3, <1>4, <1>5, <1>6, <1>7, <1>8, <1>9, <1>10, <1>11, <1>12
     DEF Next, WorkerStep, ResetStep, PmStep, Agents

-----------------------------------------------------------------------------
(* Every step keeps the queues.                                             *)
QueuesOk == \A q \in Queues : QueueOk(q)

LEMMA NeverForgotten == [Next]_vars /\ ~overlapped' /\ ~Reprobe => ~overlapped
BY Zenon DEF Next, WorkerStep, ResetStep, PmStep, CompleteRx, WorkerStart, WorkerTake, Resubmit,
   RefillFails, StopDisable, StopPoison, Resume, ResumeEnable, Overlap, ResetBegin, ResetBoot,
   ResetFailed, ResetFinish, SuspendBegin, SuspendFlush, SuspendHif, ResumeBegin, ResumeHif,
   MacWork, Associate, McuTimeout, ResetLost, vars, count

LEMMA RingStep ==
  ASSUME IInv, [Next]_vars
  PROVE  RingTypes' /\ (~overlapped' => QueuesOk')
<1>0. /\ RingTypes /\ FlagTypes /\ WorkerTypes /\ AgentTypes /\ WorkerOk /\ PoisonCounted
      /\ ~overlapped => StopsWorker /\ QueuesOk
  BY TypeParts DEF IInv, QueuesOk
<1>1. ASSUME ~Reprobe, RingTypes' /\ \A q \in Queues : QueueOk(q) => QueueOk(q)'
      PROVE  RingTypes' /\ (~overlapped' => QueuesOk')
  BY <1>0, <1>1, NeverForgotten DEF QueuesOk
<1>r. CASE Reprobe
  <2>1. /\ sent' \in 0..MaxFrames /\ up' \in Each(0..sent')
        /\ since' = PerQueue(sent')
    BY <1>0, <1>r DEF Reprobe, RingTypes, FramesSent
  <2>2. hand' = NoUrb
    BY <1>0, <1>r DEF Reprobe, WorkerOk
  <2>3. /\ head' = PerQueue(0) /\ tail' = PerQueue(0) /\ queued' = PerQueue(0)
        /\ reject' = PerQueue(0) /\ flight' = AllSubmitted /\ frame' = NoFrames
        /\ intact' = PerQueue(TRUE)
    BY <1>r DEF Reprobe
  <2> QED BY <2>1, <2>2, <2>3, NewQueues DEF QueuesOk
<1>n. CASE ~Reprobe
  <2>1. CASE \E q \in Queues, status \in {"data", "other", "proto"} : CompleteRx(q, status)
    BY <1>0, <1>1, <1>n, <2>1, CompleteRxStep
  <2>2. CASE WorkerStart
    <3>1. hand = NoUrb /\ UNCHANGED <<ring, up, sent, hand>>
      BY <1>0, <2>2 DEF WorkerStart, WorkerOk, count
    <3> QED BY <1>0, <1>1, <1>n, <3>1, RestRing
  <2>3. CASE WorkerTake
    BY <1>0, <1>1, <1>n, <2>3, WorkerTakeStep
  <2>4. CASE Resubmit
    <3>1. /\ wpc = "process" /\ HandUp /\ hand' = NoUrb
          /\ UNCHANGED <<head, tail, queued, reject, since, sent>>
          /\ \/ /\ flight' = [flight EXCEPT ![wq] = Append(@, hand)]
                /\ UNCHANGED intact
             \/ LoseHand
      BY <2>4 DEF Resubmit
    <3> QED BY <1>0, <1>1, <1>n, <3>1, WorkedStep
  <2>5. CASE RefillFails
    <3>1. /\ wpc = "process" /\ HandUp /\ hand' = NoUrb /\ LoseHand
          /\ UNCHANGED <<head, tail, queued, reject, since, sent>>
      BY <2>5 DEF RefillFails
    <3> QED BY <1>0, <1>1, <1>n, <3>1, WorkedStep
  <2>6. CASE \E a \in Agents : StopPoison(a)
    BY <1>0, <1>1, <1>n, <2>6, StopPoisonStep
  <2>7. ASSUME NEW a \in Agents, Resume(a) PROVE RingTypes' /\ (~overlapped' => QueuesOk')
    <3>1. RingTypes' /\ (hand = NoUrb => \A q \in Queues : QueueOk(q) => QueueOk(q)')
      BY <1>0, <2>7, ResumeStep
    <3>2. ~overlapped' => hand = NoUrb /\ QueuesOk
      <4>1. pc[a] = "resume" /\ (~overlapped' => ~overlapped)
        BY <1>n, <2>7, NeverForgotten DEF Resume
      <4>2. ~overlapped => parked
        BY <1>0, <4>1 DEF StopsWorker, StoppedPcs
      <4> QED BY <1>0, <4>1, <4>2 DEF WorkerOk
    <3> QED BY <3>1, <3>2 DEF QueuesOk
  <2>8. CASE UNCHANGED <<ring, up, sent, wq, hand>>
    BY <1>0, <1>1, <1>n, <2>8, RestRing
  <2>9. CASE \E a \in Agents : StopDisable(a) \/ ResumeEnable(a)
    BY <2>8, <2>9 DEF StopDisable, ResumeEnable
  <2>10. CASE ResetBegin \/ ResetBoot \/ ResetFailed \/ ResetFinish
    BY <2>8, <2>10 DEF ResetBegin, ResetBoot, ResetFailed, ResetFinish, worker, count
  <2>11. CASE SuspendBegin \/ SuspendFlush \/ SuspendHif \/ ResumeBegin \/ ResumeHif
    BY <2>8, <2>11 DEF SuspendBegin, SuspendFlush, SuspendHif, ResumeBegin, ResumeHif, worker, count
  <2>12. CASE MacWork \/ Associate \/ McuTimeout \/ ResetLost \/ UNCHANGED vars
    BY <2>8, <2>12 DEF MacWork, Associate, McuTimeout, ResetLost, worker, count, vars
  <2> QED
    BY <1>n, <2>1, <2>2, <2>3, <2>4, <2>5, <2>6, <2>7, <2>9, <2>10, <2>11, <2>12
       DEF Next, WorkerStep, ResetStep, PmStep, Agents
<1> QED BY <1>r, <1>n

LEMMA InitEstablishes == Init => IInv
<1> SUFFICES ASSUME Init PROVE IInv
  OBVIOUS
<1> USE DEF PerQueue, PerAgent
<1> DEFINE fm == RunOf(NDesc)
<1>1. fm \in Seq(Slots) /\ Owned(0, 0, 0, fm, NoUrb) /\ Complete(0, 0, fm, NoUrb)
  BY AllStarted
<1>2. /\ NDesc \in Nat /\ NoUrb = NDesc /\ 0 \in Slots /\ MaxFrames \in Nat /\ MaxFaults \in Nat
      /\ MaxSuspends \in Nat /\ StaleTicks \in Nat \ {0} /\ Tries \in Nat \ {0}
  BY Ring, RxConstants
<1>3. RingTypes
  <2>1. flight \in Each(Seq(Slots))
    <3> HIDE DEF fm
    <3> QED BY <1>1 DEF Init, AllSubmitted, Each, fm
  <2>2. FramesSent
    BY DEF Init, NoFrames, FramesSent, Each
  <2> QED BY <1>2, <2>1, <2>2 DEF Init, RingTypes, Each
<1>4. FlagTypes /\ WorkerTypes /\ WorkerOk
  <2>1. FlagTypes
    BY Zenon DEF Init, FlagTypes
  <2>2. WorkerTypes
    BY <1>2 DEF Init, WorkerTypes, Queues
  <2>3. WorkerOk
    BY DEF Init, WorkerOk
  <2> QED BY <2>1, <2>2, <2>3
<1>5. AgentTypes
  BY <1>2 DEF Init, AgentTypes, ResetSteps, PmSteps, Agents, Queues
<1>6. CountTypes
  BY <1>2 DEF Init, CountTypes
<1>7. PoisonCounted
  BY DEF Init, PoisonCounted, Owes, Agents
<1>8. TriesLeft /\ SuspendAlone /\ StopsWorker
  BY DEF Init, TriesLeft, SuspendAlone, StopsWorker, StoppedPcs, Agents
<1>9. ASSUME NEW q \in Queues PROVE QueueOk(q)
  <2>1. /\ head[q] = 0 /\ tail[q] = 0 /\ queued[q] = 0 /\ flight[q] = fm
        /\ since[q] = 0 /\ HandOf(q) = NoUrb /\ up[q] = 0 /\ sent = 0
    BY <1>9 DEF Init, AllSubmitted, HandOf
  <2>2. Fresh(0, 0, NoUrb, frame[q], 0, 0, 0)
    BY DEF Fresh
  <2> HIDE DEF fm
  <2> QED BY <1>1, <2>1, <2>2 DEF QueueOk
<1> QED BY <1>3, <1>4, <1>5, <1>6, <1>7, <1>8, <1>9, TypeParts DEF IInv

LEMMA NextPreserves == IInv /\ [Next]_vars => IInv'
<1> SUFFICES ASSUME IInv, [Next]_vars PROVE IInv'
  OBVIOUS
<1>1. /\ RingTypes /\ FlagTypes /\ WorkerTypes /\ AgentTypes /\ CountTypes
      /\ WorkerOk /\ PoisonCounted /\ TriesLeft /\ SuspendAlone
      /\ ~overlapped => StopsWorker
  BY TypeParts DEF IInv
<1>2. RingTypes' /\ (~overlapped' => QueuesOk')
  BY RingStep
<1>3. FlagTypes'
  BY <1>1, FlagStep
<1>4. WorkerTypes' /\ WorkerOk'
  BY <1>1, WorkerControl
<1>5. AgentTypes' /\ TriesLeft'
  BY <1>1, AgentControl
<1>6. CountTypes'
  BY <1>1, CountStep
<1>7. PoisonCounted'
  BY <1>1, PoisonStep
<1>8. SuspendAlone'
  BY <1>1, SuspendStep
<1>9. ~overlapped' => StopsWorker'
  BY <1>1, StopsStep
<1>10. (TypeOK /\ FramesSent)'
  BY <1>2, <1>3, <1>4, <1>5, <1>6, TypeParts, PTL
<1> QED BY <1>2, <1>4, <1>5, <1>7, <1>8, <1>9, <1>10 DEF IInv, QueuesOk

LEMMA RingInvariant == Spec => []IInv
BY InitEstablishes, NextPreserves, PTL DEF Spec

-----------------------------------------------------------------------------
(* A buffer has one owner: a URB is with the host controller once, or       *)
(* completed and waiting, or in the hand of rx_worker, or lost, and never   *)
(* two of these, through every stop and restart of mt76u_stop_rx and        *)
(* mt76u_resume_rx that do not overlap.                                     *)
THEOREM BufferHasOneOwner == Spec => []OneOwner
<1>1. IInv => OneOwner
  <2> SUFFICES ASSUME IInv PROVE OneOwner
    OBVIOUS
  <2>1. TypeOK /\ RingTypes /\ WorkerTypes
    BY TypeParts DEF IInv
  <2>2. ASSUME ~overlapped, NEW q \in Queues
        PROVE  /\ queued[q] <= NDesc /\ IsInjective(flight[q])
               /\ ToSet(flight[q]) \cap Held(q) = {}
               /\ head[q] = (tail[q] + queued[q]) % NDesc
               /\ InHand(q) => hand \notin Window(q)
    <3> DEFINE fl == flight[q]  t == tail[q]  n == queued[q]  u == HandOf(q)
    <3>1. /\ head[q] \in Slots /\ t \in Slots /\ n \in Nat /\ fl \in Seq(Slots)
      BY <2>1, QueueTypes
    <3>2. Owned(head[q], t, n, fl, u) /\ n \in 0..NDesc
      BY <2>2 DEF IInv, QueueOk, Owned
    <3>3. NDesc \in Nat /\ (InHand(q) => u = hand /\ u # NoUrb /\ u \in Slots)
      BY <2>1, Ring DEF InHand, HandOf, WorkerTypes, NoUrb
    <3>4. Window(q) = {Pos(t, k) : k \in 0..(n - 1)}
      BY DEF Window, Pos
    <3>5. DOMAIN fl = 1..Len(fl) /\ \A x \in ToSet(fl) : \E i \in 1..Len(fl) : x = fl[i]
      BY <3>1 DEF ToSet
    <3> HIDE DEF fl, t, n, u
    <3>6. n <= NDesc /\ head[q] = Pos(t, n)
      BY <3>2, <3>3 DEF Owned
    <3>7. IsInjective(fl)
      BY <3>2, <3>5 DEF IsInjective, Owned
    <3>8. \A x \in ToSet(fl) : x \notin Window(q) /\ x # u
      BY <3>2, <3>4, <3>5 DEF Owned
    <3>9. ToSet(fl) \cap Held(q) = {}
      BY <3>3, <3>8 DEF Held
    <3>10. InHand(q) => u \notin Window(q)
      <4> SUFFICES ASSUME InHand(q) PROVE \A k \in 0..(n - 1) : u # Pos(t, k)
        BY <3>4
      <4> QED BY <3>1, <3>2, <3>3, SubmitOwned
    <3> QED BY <3>3, <3>6, <3>7, <3>9, <3>10 DEF Pos, fl, t, n
  <2> QED BY <2>1, <2>2 DEF OneOwner
<1> QED BY <1>1, RingInvariant, PTL

(* The URBs of a queue that has lost none are with the controller in ring   *)
(* order from head on, so that mt76u_complete_rx never finds one that is    *)
(* not the entry the head points to.                                        *)
THEOREM IntactRingStaysInOrder == Spec => []IntactRingInOrder
<1>1. IInv => IntactRingInOrder
  <2> SUFFICES ASSUME IInv, ~overlapped, NEW q \in Queues, intact[q]
               PROVE  flight[q] = [k \in 1 .. NDesc - queued[q] - (IF InHand(q) THEN 1 ELSE 0)
                                     |-> (head[q] + k - 1) % NDesc]
    BY DEF IntactRingInOrder
  <2>1. RingTypes
    BY TypeParts DEF IInv
  <2> DEFINE fl == flight[q]  h == head[q]  n == queued[q]
             L == NDesc - n - (IF InHand(q) THEN 1 ELSE 0)
  <2>2. h \in Slots /\ n \in Nat /\ fl \in Seq(Slots) /\ NDesc \in Nat
    BY <2>1, QueueTypes, Ring
  <2>3. Complete(h, n, fl, HandOf(q))
    BY DEF IInv, QueueOk
  <2>4. HandOf(q) # NoUrb <=> InHand(q)
    BY DEF HandOf, InHand
  <2>5. Len(fl) = L /\ \A k \in 1..L : fl[k] = Pos(h, k - 1)
    BY <2>3, <2>4 DEF Complete
  <2>6. \A k \in 1..L : Pos(h, k - 1) = (h + k - 1) % NDesc
    <3>1. \A k \in 1..L : h + (k - 1) = h + k - 1
      BY <2>2 DEF Slots
    <3> QED BY <3>1 DEF Pos
  <2>7. fl = [k \in 1..L |-> fl[k]]
    BY <2>2, <2>5
  <2> HIDE DEF fl, h, n
  <2>8. fl = [k \in 1..L |-> (h + k - 1) % NDesc]
    BY <2>5, <2>6, <2>7
  <2> QED BY <2>8 DEF fl, h, n
<1> QED BY <1>1, RingInvariant, PTL

(* What rx_worker hands up is later than what it handed up before, and than *)
(* the last restart of the queue: no frame is delivered twice, out of order *)
(* or from before a reset or a suspend.                                     *)
THEOREM FramesGoUpFreshAndInOrder == Spec => FreshAndInOrder
<1> DEFINE Newer(q) == up'[q] # up[q] => up'[q] > up[q] /\ up'[q] > since[q]
<1>1. IInv /\ [Next]_vars => [~overlapped => \A q \in Queues : Newer(q)]_vars
  <2> SUFFICES ASSUME IInv, [Next]_vars, ~overlapped, NEW q \in Queues PROVE Newer(q)
    OBVIOUS
  <2>1. RingTypes /\ WorkerTypes /\ WorkerOk /\ QueueOk(q)
    BY TypeParts DEF IInv
  <2>2. CASE up' = up
    BY <2>2
  <2>3. CASE wpc = "process" /\ HandUp
    <3> DEFINE fr == frame[q]  t == tail[q]  n == queued[q]
    <3>1. CASE wq # q
      <4>1. up'[q] = up[q]
        BY <2>1, <2>3, <3>1 DEF HandUp, RingTypes, FramesSent, Each
      <4> QED BY <4>1
    <3>2. CASE wq = q
      <4>1. up'[q] = IF fr[hand] = 0 THEN up[q] ELSE fr[hand]
        BY <2>1, <2>3, <3>2 DEF HandUp, RingTypes, FramesSent, Each
      <4>2. hand # NoUrb /\ HandOf(q) = hand
        BY <2>1, <2>3, <3>2 DEF WorkerOk, HandOf
      <4>3. Fresh(t, n, hand, fr, up[q], since[q], sent)
        BY <2>1, <4>2 DEF QueueOk
      <4>4. fr[hand] # 0 => fr[hand] > up[q] /\ fr[hand] > since[q]
        BY <4>2, <4>3 DEF Fresh
      <4> QED BY <4>1, <4>4
    <3> QED BY <3>1, <3>2
  <2>4. up' = up \/ (wpc = "process" /\ HandUp)
    <3>1. CASE WorkerStep
      BY <3>1 DEF WorkerStep, WorkerStart, WorkerTake, Resubmit, RefillFails
    <3>2. CASE ~WorkerStep
      BY <3>2, Zenon DEF Next, ResetStep, PmStep, CompleteRx, StopDisable, StopPoison, Resume,
         ResumeEnable, ResetBegin, ResetBoot, ResetFailed, ResetFinish, SuspendBegin,
         SuspendFlush, SuspendHif, ResumeBegin, ResumeHif, MacWork, Associate, McuTimeout,
         Reprobe, ResetLost, vars, worker
    <3> QED BY <3>1, <3>2
  <2> QED BY <2>2, <2>3, <2>4
<1> QED BY <1>1, RingInvariant, PTL DEF Spec, FreshAndInOrder

(* While USB suspend has the rings, a chip reset stops or restarts a queue  *)
(* only if it was outstanding when the suspend began: the flush and         *)
(* pm->suspended keep every other one out.                                  *)
THEOREM SuspendIsAlone == Spec => SuspendKeepsResetsOut
<1>1. IInv => ((StopPoison("reset") \/ Resume("reset")) /\ Asleep => late)
  <2>1. StopPoison("reset") \/ Resume("reset") => pc["reset"] # "idle"
    BY DEF StopPoison, Resume
  <2>2. Asleep => pc["pm"] # "idle"
    BY DEF Asleep
  <2>3. IInv => SuspendAlone
    BY DEF IInv
  <2> QED BY <2>1, <2>2, <2>3 DEF SuspendAlone
<1> QED BY <1>1, RingInvariant, PTL DEF SuspendKeepsResetsOut
=============================================================================
