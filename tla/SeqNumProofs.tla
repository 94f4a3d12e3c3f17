---------------------------- MODULE SeqNumProofs ----------------------------
(***************************************************************************)
(* Proofs about the two components that live on sequence numbers which     *)
(* come round again.  McuMsg: whatever the firmware answers and when, a    *)
(* command takes a foreign answer only after the numbers came full circle, *)
(* and never that of a command sent after it.  RxReorder, for any sequence *)
(* number space and any set of buffer sizes: no frame is lost that did not *)
(* find another one in its slot, and while the frames of a window have     *)
(* slots of their own none does, frames go up in order and once but for    *)
(* those overtaken in somebody's list, and the window holds.               *)
(* Both rest on the same lemmas.                                           *)
(***************************************************************************)
EXTENDS McuMsg, RxReorder, Integers, SequenceTheorems, WellFoundedInduction, TLAPS

-----------------------------------------------------------------------------
(* Arithmetic of remainders.                                                *)

LEMMA ModDivides ==
  ASSUME NEW k \in Nat \ {0}, NEW a \in Int
  PROVE  /\ a = (k * (a \div k)) + (a % k)
         /\ a \div k \in Int /\ a % k \in 0..(k - 1)
OBVIOUS

LEMMA ModRange ==
  ASSUME NEW k \in Nat \ {0}, NEW a \in Nat
  PROVE  a % k \in 0..(k - 1)
OBVIOUS

LEMMA ModOfMultiple ==
  ASSUME NEW k \in Nat \ {0}, NEW q \in Int
  PROVE  (k * q) % k = 0
OBVIOUS

LEMMA ModUnique ==
  ASSUME NEW k \in Nat \ {0}, NEW q \in Int, NEW r \in 0..(k - 1)
  PROVE  ((k * q) + r) % k = r
OBVIOUS

(* Numbers with one remainder differ by a multiple.                         *)
LEMMA SameRemainder ==
  ASSUME NEW k \in Nat \ {0}, NEW a \in Nat, NEW b \in Nat, a % k = b % k
  PROVE  (a - b) % k = 0
<1> DEFINE q == (a \div k) - (b \div k)
<1>1. a = (k * (a \div k)) + (a % k) /\ b = (k * (b \div k)) + (b % k)
  BY ModDivides
<1>2. a \div k \in Int /\ b \div k \in Int
  BY ModDivides
<1>3. a - b = k * q /\ q \in Int
  BY <1>1, <1>2
<1> HIDE DEF q
<1> QED BY <1>3, ModOfMultiple

LEMMA SmallRemainder ==
  ASSUME NEW k \in Nat \ {0}, NEW a \in 0..(k - 1)
  PROVE  a % k = a
OBVIOUS

(* Within one circle a remainder says which number it is.                   *)
LEMMA RemainderDecides ==
  ASSUME NEW k \in Nat \ {0}, NEW a \in Nat, NEW b \in Nat,
         a % k = b % k, a <= b, b < a + k
  PROVE  a = b
<1>1. (b - a) % k = 0
  BY SameRemainder
<1>2. b - a \in 0..(k - 1)
  OBVIOUS
<1>3. (b - a) % k = b - a
  BY <1>2, SmallRemainder
<1> QED BY <1>1, <1>3

LEMMA SumRemainder ==
  ASSUME NEW k \in Nat \ {0}, NEW a \in Nat, NEW c \in Nat
  PROVE  ((a % k) + c) % k = (a + c) % k
<1> DEFINE q == a \div k
           r == a % k
           u == (r + c) \div k
           v == (r + c) % k
<1>1. a = (k * q) + r /\ q \in Int /\ r \in 0..(k - 1)
  BY ModDivides
<1> HIDE DEF q, r
<1> DEFINE e == r + c
<1>2. e = (k * u) + v /\ u \in Int /\ v \in 0..(k - 1)
  <2>1. e \in Int
    BY <1>1
  <2> HIDE DEF e
  <2>2. e = (k * (e \div k)) + (e % k) /\ e \div k \in Int /\ e % k \in 0..(k - 1)
    BY <2>1, ModDivides
  <2> QED BY <2>2 DEF e
<1> HIDE DEF u, v
<1>3. a + c = (k * (q + u)) + v /\ q + u \in Int
  BY <1>1, <1>2
<1>4. (a + c) % k = v
  BY <1>2, <1>3, ModUnique
<1> QED BY <1>4 DEF v, r, e

LEMMA NestedRemainder ==
  ASSUME NEW k \in Nat \ {0}, NEW m \in Nat \ {0}, k % m = 0, NEW a \in Nat
  PROVE  (a % k) % m = a % m
<1> DEFINE q == a \div k
           r == a % k
           p == k \div m
           u == r \div m
           v == r % m
<1>1. a = (k * q) + r /\ q \in Int /\ r \in 0..(k - 1)
  BY ModDivides
<1>2. k = (m * p) + (k % m) /\ p \in Int
  BY ModDivides
<1>3. r = (m * u) + v /\ u \in Int /\ v \in 0..(m - 1)
  BY <1>1, ModDivides
<1> HIDE DEF q, r, p, u, v
<1>4. k = m * p
  BY <1>2
<1>5. k * q = m * (p * q) /\ p * q \in Int
  BY <1>1, <1>2, <1>4
<1> DEFINE z == p * q
<1>6. a = (m * (z + u)) + v /\ z + u \in Int
  <2>1. k * q = m * z /\ z \in Int
    BY <1>5
  <2> HIDE DEF z
  <2> QED BY <2>1, <1>1, <1>3
<1> HIDE DEF z
<1>7. a % m = v
  BY <1>3, <1>6, ModUnique
<1> QED BY <1>7 DEF v, r

(* The remainder of the next number.                                        *)
LEMMA NextRemainder ==
  ASSUME NEW k \in Nat \ {0}, NEW a \in Nat
  PROVE  (a + 1) % k = IF a % k = k - 1 THEN 0 ELSE (a % k) + 1
<1> DEFINE q == a \div k
           r == a % k
<1>1. a = (k * q) + r /\ q \in Int /\ r \in 0..(k - 1)
  BY ModDivides
<1> HIDE DEF q, r
<1>2. CASE r = k - 1
  <2>1. a + 1 = k * (q + 1) /\ q + 1 \in Int
    BY <1>1, <1>2
  <2>2. (a + 1) % k = 0
    BY <2>1, ModOfMultiple
  <2> QED BY <2>2, <1>2 DEF r
<1>3. CASE r # k - 1
  <2>1. a + 1 = (k * q) + (r + 1) /\ r + 1 \in 0..(k - 1)
    BY <1>1, <1>3
  <2>2. (a + 1) % k = r + 1
    BY <2>1, <1>1, ModUnique
  <2> QED BY <2>2, <1>3 DEF r
<1> QED BY <1>2, <1>3

-----------------------------------------------------------------------------
(* MCU messages: the inductive invariant.                                   *)

(* The sequence number of the n-th command: 0 is skipped.                   *)
SeqOfTurn(n) == ((n - 1) % (SeqSpace - 1)) + 1

(* One of the first n commands, with the sequence number of its turn.       *)
Numbered(c, n) == c.id \in 1..n /\ c.seq = SeqOfTurn(c.id)

CounterFollows == msgSeq = IF sent = 0 THEN 0 ELSE SeqOfTurn(sent)

(* Who waits is at the newest command: nothing is sent beside it.           *)
WaitersAreNewest ==
  \A s \in Senders : pc[s] = "wait" => Numbered(cmd[s], sent) /\ cmd[s].id = sent

AnswersNumbered ==
  /\ \A m \in fw : Numbered(m, sent)
  /\ \A i \in 1..Len(resQ) : Numbered(resQ[i], sent)

(* Who reads the queue gets answers to commands that went out before its    *)
(* own or to its own, never to one that comes after it.                     *)
NoAnswerAhead == last.how = "answer" => last.by.id <= last.of.id

McuIInv ==
  /\ AnswersOwnCommand /\ CounterFollows /\ WaitersAreNewest
  /\ AnswersNumbered /\ NoAnswerAhead


(* The counter of the driver counts the commands.                           *)
LEMMA SeqOfNext ==
  ASSUME NEW n \in Nat
  PROVE  /\ SeqOfTurn(n + 1) \in 1..(SeqSpace - 1)
         /\ NextSeq(IF n = 0 THEN 0 ELSE SeqOfTurn(n)) = SeqOfTurn(n + 1)
<1> DEFINE K == SeqSpace - 1
<1>1. K \in Nat \ {0} /\ K + 1 = SeqSpace /\ K = SeqSpace - 1
  BY McuConstants
<1> HIDE DEF K
<1>2. n % K \in 0..(K - 1)
  BY <1>1, ModRange
<1>3. \A s \in 0..K : NextSeq(s) = IF s = K THEN 1 ELSE s + 1
  BY <1>1 DEF NextSeq
<1>4. SeqOfTurn(n + 1) = (n % K) + 1
  BY <1>1 DEF SeqOfTurn
<1>5. CASE n = 0
  <2>1. n % K = 0
    BY <1>1, <1>5
  <2> QED BY <1>1, <1>3, <1>4, <1>5, <2>1
<1>6. CASE n # 0
  <2> DEFINE m == n - 1
  <2>1. m \in Nat /\ m + 1 = n
    BY <1>6
  <2>2. SeqOfTurn(n) = (m % K) + 1
    BY <1>1 DEF SeqOfTurn
  <2> HIDE DEF m
  <2>3. m % K \in 0..(K - 1)
    BY <1>1, <2>1, ModRange
  <2>4. n % K = IF m % K = K - 1 THEN 0 ELSE (m % K) + 1
    BY <1>1, <2>1, NextRemainder
  <2> QED BY <1>1, <1>2, <1>3, <1>4, <1>6, <2>2, <2>3, <2>4
<1> QED BY <1>1, <1>5, <1>6

(* One number for two commands: they are full circles apart.                *)
LEMMA SameSeqFullCircle ==
  ASSUME NEW a \in Nat \ {0}, NEW b \in Nat \ {0}, SeqOfTurn(a) = SeqOfTurn(b)
  PROVE  (a - b) % (SeqSpace - 1) = 0
<1> DEFINE K == SeqSpace - 1
           c == a - 1
           d == b - 1
<1>1. K \in Nat \ {0} /\ K = SeqSpace - 1 /\ c \in Nat /\ d \in Nat /\ c - d = a - b
  BY McuConstants
<1>2. (c % K) + 1 = (d % K) + 1
  BY DEF SeqOfTurn
<1> HIDE DEF K, c, d
<1>3. c % K \in 0..(K - 1)
  BY <1>1, ModRange
<1>6. d % K \in 0..(K - 1)
  BY <1>1, ModRange
<1>4. c % K = d % K
  <2> DEFINE x == c % K
             y == d % K
  <2>1. x + 1 = y + 1 /\ x \in 0..(K - 1) /\ y \in 0..(K - 1)
    BY <1>2, <1>3, <1>6
  <2> HIDE DEF x, y
  <2>2. x = y
    BY <1>1, <2>1
  <2> QED BY <2>2 DEF x, y
<1>5. (c - d) % K = 0
  BY <1>1, <1>4, SameRemainder
<1> QED BY <1>1, <1>5

LEMMA NoCommandTyped == NoCommand \in Commands
<1>1. (CHOOSE c \in Cids : TRUE) \in Cids
  BY McuConstants
<1> QED BY <1>1, McuConstants DEF NoCommand, Commands, Kinds

LEMMA RenumberedTyped ==
  ASSUME NEW c \in Commands, NEW i \in 0..MaxCmds, NEW q \in 0..(SeqSpace - 1)
  PROVE  [c EXCEPT !.id = i, !.seq = q] \in Commands
BY DEF Commands

LEMMA InitEstablishes == McuInit => McuIInv
<1> SUFFICES ASSUME McuInit PROVE McuIInv
  OBVIOUS
<1>1. McuTypeOK
  <2>1. resQ \in Seq(Commands)
    BY EmptySeq DEF McuInit
  <2>2. last \in Ends /\ fw \subseteq Commands
    BY DEF McuInit, Ends
  <2>3. cmd \in [Senders -> Commands] /\ pc \in [Senders -> {"idle", "lock", "wait"}]
    BY NoCommandTyped DEF McuInit
  <2>4. msgSeq \in 0..(SeqSpace - 1) /\ sent \in 0..MaxCmds
    BY McuConstants DEF McuInit
  <2> QED BY <2>1, <2>2, <2>3, <2>4 DEF McuInit, McuTypeOK
<1> QED BY <1>1 DEF McuInit, McuIInv, AnswersOwnCommand, CounterFollows,
                    WaitersAreNewest, AnswersNumbered, NoAnswerAhead, NoEnd

-----------------------------------------------------------------------------
(* One lemma per action.                                                    *)

LEMMA CallStep ==
  ASSUME McuIInv, NEW s \in Senders, NEW kind \in Kinds, NEW cid \in Cids,
         Call(s, kind, cid)
  PROVE  McuIInv'
<1> USE DEF McuIInv, Call
<1>1. Prepared(kind, cid) \in Commands
  BY McuConstants DEF Prepared, Commands
<1>2. McuTypeOK'
  BY <1>1 DEF AnswersOwnCommand, McuTypeOK
<1>3. WaitersAreNewest'
  BY DEF AnswersOwnCommand, McuTypeOK, WaitersAreNewest
<1>4. AnswersOwnCommand'
  BY <1>2 DEF AnswersOwnCommand
<1> QED BY <1>3, <1>4 DEF CounterFollows, AnswersNumbered, NoAnswerAhead

LEMMA SendStep ==
  ASSUME McuIInv, NEW s \in Senders, Send(s)
  PROVE  McuIInv'
<1> DEFINE c == [cmd[s] EXCEPT !.id = sent + 1, !.seq = NextSeq(msgSeq)]
<1>0. McuTypeOK
  BY DEF McuIInv, AnswersOwnCommand
<1>1. sent \in 0..MaxCmds /\ sent < MaxCmds /\ sent' = sent + 1 /\ msgSeq' = c.seq
      /\ pc[s] = "lock" /\ mutex = {}
  BY <1>0 DEF Send, McuTypeOK
<1>2. cmd[s] \in Commands
  BY <1>0 DEF McuTypeOK
<1>3. c.seq = NextSeq(msgSeq) /\ c.id = sent + 1
  BY <1>2 DEF Commands
<1>4. c.seq = SeqOfTurn(sent + 1) /\ c.seq \in 1..(SeqSpace - 1)
  BY <1>1, <1>3, SeqOfNext DEF McuIInv, CounterFollows
<1>5. c \in Commands
  <2>1. sent + 1 \in 0..MaxCmds /\ NextSeq(msgSeq) \in 0..(SeqSpace - 1)
    BY <1>1, <1>3, <1>4, McuConstants
  <2> QED BY <1>2, <2>1, RenumberedTyped
<1>6. Numbered(c, sent + 1) /\ c.id = sent + 1
  BY <1>1, <1>3, <1>4 DEF Numbered
<1>7. \A m \in Commands : Numbered(m, sent) => Numbered(m, sent + 1)
  BY <1>1 DEF Numbered
<1>8. UNCHANGED <<resQ, mcuReset, reset>>
  BY DEF Send
<1>9. fw' \subseteq fw \cup {c}
  BY DEF Send, Deliver
<1>10. \/ c.kind # "nowait" /\ pc' = [pc EXCEPT ![s] = "wait"] /\ mutex' = {s}
          /\ cmd' = [cmd EXCEPT ![s] = c] /\ UNCHANGED last
       \/ \E how \in {"sent", "error"} :
            /\ pc' = [pc EXCEPT ![s] = "idle"] /\ last' = [how |-> how]
            /\ cmd' = [cmd EXCEPT ![s] = NoCommand] /\ UNCHANGED mutex
  BY DEF Send, SendDone
<1>11. \A t \in Senders : pc[t] # "wait"
  BY <1>0, <1>1 DEF McuTypeOK
<1> HIDE DEF c
<1>12. last' \in Ends /\ (last'.how = "answer" => last' = last)
  BY <1>0, <1>10 DEF McuTypeOK, Ends
<1>13. McuTypeOK'
  <2>1. msgSeq' \in 0..(SeqSpace - 1) /\ sent' \in 0..MaxCmds /\ fw' \subseteq Commands
    BY <1>0, <1>1, <1>4, <1>5, <1>9, McuConstants DEF McuTypeOK
  <2>2. resQ' \in Seq(Commands) /\ mcuReset' \in BOOLEAN /\ reset' \in {"no", "purged", "chip"}
    BY <1>0, <1>8 DEF McuTypeOK
  <2>3. /\ mutex' \subseteq Senders /\ cmd' \in [Senders -> Commands]
        /\ pc' \in [Senders -> {"idle", "lock", "wait"}]
    BY <1>0, <1>5, <1>10, NoCommandTyped DEF McuTypeOK
  <2>4. \A t \in Senders : pc'[t] = "wait" => mutex' = {t} /\ cmd'[t].seq # 0
    BY <1>0, <1>4, <1>10, <1>11 DEF McuTypeOK
  <2> QED BY <1>12, <2>1, <2>2, <2>3, <2>4 DEF McuTypeOK
<1>14. WaitersAreNewest'
  <2>1. \A t \in Senders : pc'[t] = "wait" => cmd'[t] = c
    BY <1>0, <1>10, <1>11 DEF McuTypeOK
  <2> QED BY <1>1, <1>6, <2>1 DEF WaitersAreNewest
<1>15. AnswersNumbered'
  <2>1. \A m \in fw' : Numbered(m, sent + 1)
    BY <1>0, <1>6, <1>7, <1>9 DEF McuIInv, AnswersNumbered, McuTypeOK
  <2>2. \A i \in 1..Len(resQ) : Numbered(resQ[i], sent + 1)
    BY <1>0, <1>7 DEF McuIInv, AnswersNumbered, McuTypeOK
  <2> QED BY <1>1, <1>8, <2>1, <2>2 DEF AnswersNumbered
<1>16. CounterFollows'
  BY <1>1, <1>3, <1>4 DEF CounterFollows
<1>17. AnswersOwnCommand' /\ NoAnswerAhead'
  BY <1>12, <1>13 DEF McuIInv, AnswersOwnCommand, NoAnswerAhead
<1> QED BY <1>14, <1>15, <1>16, <1>17 DEF McuIInv

(* The head of the queue is taken: an own answer, a foreign one that came   *)
(* full circle, or nothing.                                                 *)
LEMMA TakeStep ==
  ASSUME McuIInv, NEW s \in Senders, Take(s)
  PROVE  McuIInv'
<1>0. McuTypeOK /\ pc[s] = "wait" /\ resQ # <<>> /\ resQ' = Tail(resQ)
  BY DEF McuIInv, AnswersOwnCommand, Take
<1>1. resQ \in Seq(Commands) /\ Len(resQ) \in Nat \ {0}
  BY <1>0, EmptySeq DEF McuTypeOK
<1>2. /\ Tail(resQ) \in Seq(Commands) /\ Len(Tail(resQ)) = Len(resQ) - 1
      /\ \A i \in 1..Len(Tail(resQ)) : Tail(resQ)[i] = resQ[i + 1]
      /\ Head(resQ) \in Commands
  BY <1>0, <1>1, HeadTailProperties
<1>3. Head(resQ) = resQ[1]
  BY <1>0, <1>1
<1>4. cmd[s] \in Commands
  BY <1>0 DEF McuTypeOK
<1>5. AnswersNumbered' \/ fw' # fw \/ sent' # sent
  BY <1>0, <1>1, <1>2 DEF McuIInv, AnswersNumbered
<1>6. CASE Accepts(cmd[s], Head(resQ))
  <2> DEFINE end == [how |-> "answer", of |-> cmd[s], by |-> Head(resQ)]
  <2>1. Return(s, end)
    BY <1>6 DEF Take
  <2>2. end \in Ends
    BY <1>2, <1>4 DEF Ends
  <2>3. McuTypeOK'
    BY <1>0, <1>2, <2>1, <2>2, NoCommandTyped DEF Return, McuTypeOK
  <2>4. /\ Head(resQ).id \in 1..sent /\ Head(resQ).seq = SeqOfTurn(Head(resQ).id)
        /\ cmd[s].id \in 1..sent /\ cmd[s].seq = SeqOfTurn(cmd[s].id) /\ cmd[s].id = sent
    BY <1>0, <1>1, <1>3 DEF McuIInv, AnswersNumbered, WaitersAreNewest, Numbered
  <2>5. (cmd[s].id - Head(resQ).id) % (SeqSpace - 1) = 0
    <3>1. sent \in Nat
      BY <1>0, McuConstants DEF McuTypeOK
    <3>2. cmd[s].seq = Head(resQ).seq
      BY <1>6 DEF Accepts
    <3> QED BY <2>4, <3>1, <3>2, SameSeqFullCircle
  <2>6. AnswersOwnCommand'
    BY <1>6, <2>1, <2>3, <2>5 DEF AnswersOwnCommand, Return, Accepts
  <2>7. NoAnswerAhead'
    BY <1>0, <2>1, <2>4, McuConstants DEF NoAnswerAhead, Return, McuTypeOK
  <2>8. WaitersAreNewest'
    BY <1>0, <2>1 DEF McuIInv, McuTypeOK, WaitersAreNewest, Return
  <2>9. AnswersNumbered' /\ CounterFollows'
    BY <1>5, <2>1 DEF McuIInv, CounterFollows, Return
  <2> QED BY <2>6, <2>7, <2>8, <2>9 DEF McuIInv
<1>7. CASE ~Accepts(cmd[s], Head(resQ))
  <2>1. UNCHANGED <<msgSeq, sent, mutex, pc, cmd, fw, mcuReset, reset, last>>
    BY <1>7 DEF Take
  <2>2. McuTypeOK'
    BY <1>0, <1>2, <2>1 DEF McuTypeOK
  <2>3. AnswersOwnCommand' /\ NoAnswerAhead'
    BY <2>1, <2>2 DEF McuIInv, AnswersOwnCommand, NoAnswerAhead
  <2> QED BY <1>5, <2>1, <2>3 DEF McuIInv, CounterFollows, WaitersAreNewest
<1> QED BY <1>6, <1>7

LEMMA GiveUpStep ==
  ASSUME McuIInv, NEW s \in Senders, GiveUp(s)
  PROVE  McuIInv'
<1> USE DEF GiveUp, Return
<1>1. McuTypeOK /\ last' \in Ends /\ last'.how = "timeout"
  BY DEF McuIInv, AnswersOwnCommand, Ends
<1>2. McuTypeOK'
  BY <1>1, NoCommandTyped DEF McuTypeOK
<1>3. AnswersOwnCommand' /\ NoAnswerAhead'
  BY <1>1, <1>2 DEF AnswersOwnCommand, NoAnswerAhead
<1>4. WaitersAreNewest'
  BY <1>1 DEF McuIInv, McuTypeOK, WaitersAreNewest
<1> QED BY <1>3, <1>4 DEF McuIInv, CounterFollows, AnswersNumbered

LEMMA AnswerStep ==
  ASSUME McuIInv, NEW m \in fw, Answer(m)
  PROVE  McuIInv'
<1> USE DEF Answer
<1>1. McuTypeOK /\ m \in Commands /\ resQ \in Seq(Commands)
  BY DEF McuIInv, AnswersOwnCommand, McuTypeOK
<1>2. resQ' = Append(resQ, m) \/ resQ' = resQ
  OBVIOUS
<1>3. /\ Append(resQ, m) \in Seq(Commands) /\ Len(Append(resQ, m)) = Len(resQ) + 1
      /\ \A i \in 1..Len(resQ) : Append(resQ, m)[i] = resQ[i]
      /\ Append(resQ, m)[Len(resQ) + 1] = m /\ Len(resQ) \in Nat
  BY <1>1, AppendProperties, LenProperties
<1>4. McuTypeOK'
  BY <1>1, <1>2, <1>3 DEF McuTypeOK
<1>5. AnswersNumbered'
  <2>1. \A n \in fw' : Numbered(n, sent)
    BY DEF McuIInv, AnswersNumbered
  <2>2. \A i \in 1..Len(resQ') : Numbered(resQ'[i], sent)
    BY <1>2, <1>3 DEF McuIInv, AnswersNumbered
  <2> QED BY <2>1, <2>2 DEF AnswersNumbered
<1> QED BY <1>4, <1>5 DEF McuIInv, AnswersOwnCommand, NoAnswerAhead, CounterFollows,
                          WaitersAreNewest

LEMMA ResetStep ==
  ASSUME McuIInv, ResetPurge \/ ResetChip \/ ResetEnd
  PROVE  McuIInv'
<1> USE DEF ResetPurge, ResetChip, ResetEnd
<1>1. McuTypeOK /\ <<>> \in Seq(Commands) /\ Len(<<>>) = 0
  BY EmptySeq DEF McuIInv, AnswersOwnCommand
<1>2. fw' \subseteq fw /\ (resQ' = resQ \/ resQ' = <<>>)
      /\ UNCHANGED <<msgSeq, sent, mutex, pc, cmd, last>>
  OBVIOUS
<1>3. McuTypeOK'
  BY <1>1, <1>2 DEF McuTypeOK
<1>4. AnswersNumbered'
  BY <1>1, <1>2 DEF McuIInv, AnswersNumbered
<1> QED BY <1>2, <1>3, <1>4 DEF McuIInv, AnswersOwnCommand, NoAnswerAhead,
                                CounterFollows, WaitersAreNewest

LEMMA NextPreserves == McuIInv /\ [McuNext]_mcuVars => McuIInv'
<1> SUFFICES ASSUME McuIInv, [McuNext]_mcuVars PROVE McuIInv'
  OBVIOUS
<1>1. ASSUME NEW s \in Senders, NEW kind \in Kinds, NEW cid \in Cids, Call(s, kind, cid)
      PROVE  McuIInv'
  BY <1>1, CallStep
<1>2. ASSUME NEW s \in Senders, Send(s) PROVE McuIInv'
  BY <1>2, SendStep
<1>3. ASSUME NEW s \in Senders, Take(s) PROVE McuIInv'
  BY <1>3, TakeStep
<1>4. ASSUME NEW s \in Senders, GiveUp(s) PROVE McuIInv'
  BY <1>4, GiveUpStep
<1>5. ASSUME NEW m \in fw, Answer(m) PROVE McuIInv'
  BY <1>5, AnswerStep
<1>6. CASE ResetPurge \/ ResetChip \/ ResetEnd
  BY <1>6, ResetStep
<1>7. CASE UNCHANGED mcuVars
  BY <1>7 DEF mcuVars, McuIInv, AnswersOwnCommand, McuTypeOK, NoAnswerAhead, CounterFollows,
              WaitersAreNewest, AnswersNumbered
<1> QED BY <1>1, <1>2, <1>3, <1>4, <1>5, <1>6, <1>7 DEF McuNext

-----------------------------------------------------------------------------
(* For any number of senders, commands and sequence numbers, and whatever   *)
(* the firmware answers late, never or around a reset: an accepted answer   *)
(* is one's own, or one a whole circle of sequence numbers old.             *)
THEOREM AnswerIsOwnOrFullCircle == McuSpec => []AnswersOwnCommand
<1>1. McuIInv => AnswersOwnCommand
  BY DEF McuIInv
<1> QED BY InitEstablishes, NextPreserves, <1>1, PTL DEF McuSpec

(* An accepted answer is never that of a command sent later: whoever reads  *)
(* mcu.res_q holds mcu.mutex, and its command is the newest.                *)
THEOREM AnswerIsNotAhead == McuSpec => []NoAnswerAhead
<1>1. McuIInv => NoAnswerAhead
  BY DEF McuIInv
<1> QED BY InitEstablishes, NextPreserves, <1>1, PTL DEF McuSpec

(* Every sent command carries the number of its turn, in whatever hands its *)
(* answer is: at the firmware, in mcu.res_q or with the waiting sender.     *)
THEOREM NumbersFollowTurns == McuSpec => [](AnswersNumbered /\ WaitersAreNewest)
<1>1. McuIInv => AnswersNumbered /\ WaitersAreNewest
  BY DEF McuIInv
<1> QED BY InitEstablishes, NextPreserves, <1>1, PTL DEF McuSpec

-----------------------------------------------------------------------------
(* Reordering: the inductive invariant.  It speaks of the head before it is *)
(* taken modulo SN: a number h that the window w starts at.                 *)

Rising(s) == \A i, j \in 1..Len(s) : i < j => s[i] < s[j]

(* A frame sits in the slot of its number: of any window, whatever its size.*)
Typed(w) ==
  /\ w = [head |-> w.head, buf |-> w.buf, out |-> w.out, size |-> w.size]
  /\ w.head \in 0..(SN - 1) /\ w.size \in Sizes /\ w.out \in Seq(Frames)
  /\ w.buf \in [0..(w.size - 1) -> Frames \cup {Empty}]
  /\ \A i \in 0..(w.size - 1) : w.buf[i] # Empty => Slot(w, w.buf[i] % SN) = i

(* Frames in the buffer of a window, and all it has not dropped.            *)
Buf(w) == {w.buf[i] : i \in 0..(w.size - 1)} \ {Empty}
Content(w) == ToSet(w.out) \cup Buf(w)

(* Slots of size n are apart for the numbers from a on as far as b.         *)
Apart(n, a, b) == SN % n = 0 \/ b \div SN <= a \div SN

(* What goes up through w goes up in order, if its slots are apart.         *)
Good(w, h) ==
  /\ w.head = h % SN
  /\ \A b \in Buf(w) : h <= b /\ b < h + w.size /\ Apart(w.size, h, b)
  /\ Rising(w.out)
  /\ \A i \in 1..Len(w.out) : w.out[i] < h

(* The first frame the window waits for is missing.                         *)
HoleAtHead(w) == w.buf[Slot(w, w.head)] = Empty

(* The window is not far from what the peer sends: heard is the newest.     *)
InStep(h) ==
  Ssn <= h /\ first <= h /\ heard < h + size /\ h <= heard + 1

-----------------------------------------------------------------------------
(* Sequence numbers: what the comparison of two remainders says of numbers  *)
(* that are close to each other, and whom a slot belongs to.                *)

LEMMA Numbers ==
  /\ SN \in Nat \ {0}
  /\ \A n \in Sizes : n \in Nat \ {0} /\ 2 * (n + MaxSkip) <= SN /\ n < SN
  /\ MaxSkip \in Nat \ {0}
  /\ Ssn \in Nat \ {0, 1} /\ LastFrame \in Nat /\ Ssn < LastFrame
<1>1. PICK n \in Sizes : TRUE
  BY ReorderConstants
<1>2. \A m \in Sizes : m \in Nat \ {0} /\ 2 * (m + MaxSkip) <= SN
  BY ReorderConstants
<1>3. SN \in Nat /\ MaxSkip \in Nat \ {0} /\ n \in Nat \ {0} /\ 2 * (n + MaxSkip) <= SN
  BY <1>1, <1>2, ReorderConstants
<1>4. SN \in Nat \ {0}
  BY <1>3
<1>5. \A m \in Sizes : m < SN
  BY <1>2, <1>3
<1> QED BY <1>2, <1>3, <1>4, <1>5, ReorderConstants

LEMMA DistanceUp ==
  ASSUME NEW a \in Nat, NEW d \in 0..(SN - 1)
  PROVE  Distance(a % SN, (a + d) % SN) = d
<1> DEFINE q == a \div SN
           r == a % SN
<1>0. SN \in Nat \ {0}
  BY Numbers
<1>1. a = (SN * q) + r /\ q \in Int /\ r \in 0..(SN - 1)
  BY <1>0, ModDivides
<1> HIDE DEF q, r
<1>2. CASE r + d < SN
  <2>1. a + d = (SN * q) + (r + d) /\ r + d \in 0..(SN - 1)
    BY <1>0, <1>1, <1>2
  <2>2. (a + d) % SN = r + d
    BY <1>0, <1>1, <2>1, ModUnique
  <2>3. (r + d) + SN - r = (SN * 1) + d
    BY <1>0, <1>1
  <2>4. ((SN * 1) + d) % SN = d
    BY <1>0, ModUnique
  <2>5. Distance(r, r + d) = d
    BY <2>3, <2>4 DEF Distance
  <2> QED BY <2>2, <2>5 DEF r
<1>3. CASE ~(r + d < SN)
  <2>1. a + d = (SN * (q + 1)) + (r + d - SN) /\ r + d - SN \in 0..(SN - 1) /\ q + 1 \in Int
    BY <1>0, <1>1, <1>3
  <2>2. (a + d) % SN = r + d - SN
    BY <1>0, <2>1, ModUnique
  <2>3. (r + d - SN) + SN - r = d
    BY <1>0, <1>1
  <2>4. d % SN = d
    BY <1>0, SmallRemainder
  <2>5. Distance(r, r + d - SN) = d
    BY <2>3, <2>4 DEF Distance
  <2> QED BY <2>2, <2>5 DEF r
<1> QED BY <1>2, <1>3

LEMMA DistanceDown ==
  ASSUME NEW a \in Nat, NEW d \in 1..(SN - 1)
  PROVE  Distance((a + d) % SN, a % SN) = SN - d
<1>0. SN \in Nat \ {0}
  BY Numbers
<1> DEFINE b == a + d
           e == SN - d
<1>1. b \in Nat /\ e \in 0..(SN - 1) /\ b + e = a + SN
  BY <1>0
<1>2. Distance(b % SN, (b + e) % SN) = e
  <2> HIDE DEF b, e
  <2> QED BY <1>1, DistanceUp
<1>3. (a + SN) % SN = a % SN
  <2>1. SN % SN = 0
    <3>1. SN = SN * 1
      BY <1>0
    <3> QED BY <1>0, <3>1, ModOfMultiple
  <2> DEFINE q == a \div SN
             r == a % SN
  <2>2. a = (SN * q) + r /\ q \in Int /\ r \in 0..(SN - 1)
    BY <1>0, ModDivides
  <2> HIDE DEF q, r
  <2>3. a + SN = (SN * (q + 1)) + r /\ q + 1 \in Int
    BY <1>0, <2>2
  <2>4. (a + SN) % SN = r
    BY <1>0, <2>2, <2>3, ModUnique
  <2> QED BY <2>4 DEF r
<1>4. (b + e) % SN = a % SN
  BY <1>1, <1>3
<1> QED BY <1>2, <1>4

LEMMA SnLessDecides ==
  ASSUME NEW a \in Nat, NEW b \in Nat, 2 * (a - b) < SN, 2 * (b - a) < SN
  PROVE  /\ SnLess(a % SN, b % SN) <=> a < b
         /\ a <= b => Distance(a % SN, b % SN) = b - a
<1>0. SN \in Nat \ {0}
  BY Numbers
<1>1. CASE a < b
  <2> DEFINE d == b - a
  <2>1. d \in 1..(SN - 1) /\ d \in 0..(SN - 1) /\ b = a + d /\ 2 * d < SN
    BY <1>0, <1>1
  <2> HIDE DEF d
  <2>2. Distance(b % SN, a % SN) = SN - d /\ Distance(a % SN, b % SN) = d
    BY <2>1, DistanceUp, DistanceDown
  <2>3. SN - d > SN \div 2
    BY <1>0, <2>1
  <2> QED BY <1>1, <2>2, <2>3 DEF SnLess, d
<1>2. CASE b <= a
  <2> DEFINE d == a - b
  <2>1. d \in 0..(SN - 1) /\ a = b + d /\ 2 * d < SN
    BY <1>0, <1>2
  <2> HIDE DEF d
  <2>2. Distance(b % SN, a % SN) = d
    BY <2>1, DistanceUp
  <2>3. ~(d > SN \div 2)
    BY <1>0, <2>1
  <2>4. a <= b => Distance(a % SN, b % SN) = b - a
    <3>1. ASSUME a <= b PROVE Distance(a % SN, b % SN) = b - a
      <4>1. a = b /\ d = 0
        BY <3>1, <1>2, <2>1
      <4> QED BY <4>1, <2>2
    <3> QED BY <3>1
  <2> QED BY <1>2, <2>2, <2>3, <2>4 DEF SnLess
<1> QED BY <1>1, <1>2

LEMMA Divided ==
  ASSUME NEW a \in Nat
  PROVE  /\ a = (SN * (a \div SN)) + (a % SN)
         /\ a \div SN \in Int /\ a % SN \in 0..(SN - 1)
<1>1. SN \in Nat \ {0} /\ a \in Int
  BY Numbers
<1> QED BY <1>1, ModDivides

LEMMA TurnsGrow ==
  ASSUME NEW a \in Nat, NEW b \in Nat, a <= b
  PROVE  a \div SN \in Int /\ b \div SN \in Int /\ a \div SN <= b \div SN
<1> DEFINE p == a \div SN
           q == b \div SN
           r == a % SN
           t == b % SN
<1>0. SN \in Nat \ {0}
  BY Numbers
<1>1. a = (SN * p) + r /\ p \in Int /\ r \in 0..(SN - 1)
  BY <1>0, ModDivides
<1>2. b = (SN * q) + t /\ q \in Int /\ t \in 0..(SN - 1)
  BY <1>0, ModDivides
<1> HIDE DEF p, q, r, t
<1>3. SUFFICES ASSUME q + 1 <= p PROVE FALSE
  BY <1>1, <1>2 DEF p, q
<1> DEFINE d == p - (q + 1)
<1>4. d \in Nat /\ p = (q + 1) + d
  BY <1>1, <1>2, <1>3
<1> HIDE DEF d
<1>5. SN * p = (SN * q) + SN + (SN * d) /\ SN * d >= 0
  BY <1>0, <1>2, <1>4
<1> DEFINE x == SN * p
           y == SN * q
           z == SN * d
<1>6. x \in Int /\ y \in Int /\ z \in Int /\ x = y + SN + z /\ z >= 0
  BY <1>0, <1>1, <1>2, <1>4, <1>5
<1>7. a = x + r /\ b = y + t
  BY <1>1, <1>2
<1> HIDE DEF x, y, z
<1> QED BY <1>0, <1>1, <1>2, <1>6, <1>7

LEMMA ApartFrom ==
  ASSUME NEW n, NEW a \in Nat, NEW b \in Nat, NEW c \in Nat,
         Apart(n, a, c), a <= b
  PROVE  Apart(n, b, c)
<1>1. a \div SN \in Int /\ b \div SN \in Int /\ a \div SN <= b \div SN
  BY TurnsGrow
<1>2. c \div SN \in Int
  BY TurnsGrow
<1> QED BY <1>1, <1>2 DEF Apart

(* Two numbers near to each other in slots that are apart: the same number. *)
LEMMA SlotDecides ==
  ASSUME NEW n \in Sizes, NEW a \in Nat, NEW b \in Nat, (a % SN) % n = (b % SN) % n,
         a <= b, b < a + n, Apart(n, a, b)
  PROVE  a = b
<1>0. SN \in Nat \ {0} /\ n \in Nat \ {0}
  BY Numbers
<1>1. CASE SN % n = 0
  <2>1. a % n = b % n
    BY <1>0, <1>1, NestedRemainder
  <2> QED BY <1>0, <2>1, RemainderDecides
<1>2. CASE b \div SN <= a \div SN
  <2> DEFINE p == a \div SN
             r == a % SN
             t == b % SN
  <2> DEFINE q == b \div SN
  <2>1. q = p
    <3>1. p \in Int /\ q \in Int /\ p <= q /\ q <= p
      BY <1>2, TurnsGrow
    <3> HIDE DEF p, q
    <3> QED BY <3>1
  <2>2. a = (SN * p) + r /\ p \in Int /\ r \in 0..(SN - 1)
    BY Divided
  <2>3. b = (SN * p) + t /\ t \in 0..(SN - 1)
    <3>1. b = (SN * q) + t /\ t \in 0..(SN - 1)
      BY Divided
    <3> HIDE DEF p, q, t
    <3> QED BY <2>1, <3>1
  <2>4. r % n = t % n
    OBVIOUS
  <2> HIDE DEF p, q, r, t
  <2> DEFINE x == SN * p
  <2>5. x \in Int /\ a = x + r /\ b = x + t
    BY <1>0, <2>2, <2>3
  <2> HIDE DEF x
  <2>6. r \in Nat /\ t \in Nat /\ r <= t /\ t < r + n
    BY <1>0, <2>2, <2>3, <2>5
  <2>7. r = t
    BY <1>0, <2>4, <2>6, RemainderDecides
  <2> QED BY <2>5, <2>7
<1> QED BY <1>1, <1>2 DEF Apart

(* All frames that can be in one slot of one window are the same frame.     *)
LEMMA SlotHoldsOne ==
  ASSUME NEW n \in Sizes, NEW k \in Nat, NEW a \in Nat, NEW b \in Nat,
         (a % SN) % n = (b % SN) % n, k <= a, a < k + n, k <= b, b < k + n,
         Apart(n, k, a), Apart(n, k, b)
  PROVE  a = b
<1>0. n \in Nat \ {0}
  BY Numbers
<1>1. Apart(n, a, b) /\ Apart(n, b, a)
  BY ApartFrom
<1>2. CASE a <= b
  <2>1. b < a + n
    BY <1>0
  <2> QED BY <1>1, <1>2, <2>1, SlotDecides
<1>3. CASE b <= a
  <2>1. a < b + n
    BY <1>0
  <2> QED BY <1>1, <1>3, <2>1, SlotDecides
<1> QED BY <1>2, <1>3

-----------------------------------------------------------------------------
(* One round of a release loop: the window moves on by one, and a frame     *)
(* that leaves the buffer is handed up.                                     *)

From(w, v) ==
  /\ v.size = w.size /\ Content(v) = Content(w)
  /\ \A i \in 0..(w.size - 1) : v.buf[i] \in {w.buf[i], Empty}

LEMMA FramesAreNumbers == Frames \subseteq Nat \ {0} /\ Frames \subseteq Nat /\ Empty \notin Frames
BY Numbers DEF Frames, Empty

LEMMA SlotIn ==
  ASSUME NEW w, w.size \in Sizes, NEW a \in Nat
  PROVE  Slot(w, a) \in 0..(w.size - 1)
BY Numbers, ModRange DEF Slot

LEMMA NumberInSpace ==
  ASSUME NEW a \in Nat
  PROVE  a % SN \in 0..(SN - 1) /\ a % SN \in Nat
<1>1. a % SN \in 0..(SN - 1)
  BY Numbers, ModRange
<1> QED BY <1>1, Numbers

LEMMA HeadMoves ==
  ASSUME NEW h \in Nat, NEW c \in Nat
  PROVE  ((h % SN) + c) % SN = (h + c) % SN
BY Numbers, SumRemainder

LEMMA OutNumbers ==
  ASSUME NEW o \in Seq(Frames)
  PROVE  \A i \in 1..Len(o) : o[i] \in Frames /\ o[i] \in Nat
<1> SUFFICES ASSUME NEW i \in 1..Len(o) PROVE o[i] \in Frames /\ o[i] \in Nat
  OBVIOUS
<1>1. o[i] \in Frames
  BY ElementOfSeq
<1> QED BY <1>1, FramesAreNumbers

LEMMA BufNumbers ==
  ASSUME NEW w, Typed(w)
  PROVE  /\ Buf(w) \subseteq Frames /\ Buf(w) \subseteq Nat /\ Empty \notin Buf(w)
         /\ w.size \in Nat \ {0}
         /\ \A i \in 0..(w.size - 1) : w.buf[i] # Empty => w.buf[i] \in Buf(w)
<1>1. w.size \in Nat \ {0}
  BY Numbers DEF Typed
<1>2. Buf(w) \subseteq Frames
  BY DEF Typed, Buf
<1> QED BY <1>1, <1>2, FramesAreNumbers DEF Buf

(* The only frame that can be in the slot under the head is the head's.     *)
LEMMA FrameUnderHead ==
  ASSUME NEW w, Typed(w), NEW h \in Nat, Good(w, h), ~HoleAtHead(w)
  PROVE  w.buf[Slot(w, w.head)] = h
<1> DEFINE s == Slot(w, w.head)
           f == w.buf[s]
<1>1. s \in 0..(w.size - 1)
  BY SlotIn DEF Typed
<1>2. f # Empty /\ f \in Buf(w) /\ f \in Nat
  BY <1>1, BufNumbers DEF HoleAtHead
<1>3. Slot(w, f % SN) = s
  BY <1>1, <1>2 DEF Typed
<1>4. (h % SN) % w.size = (f % SN) % w.size
  BY <1>3 DEF Slot, Good
<1>5. h <= f /\ f < h + w.size /\ Apart(w.size, h, f) /\ w.size \in Sizes
  BY <1>2 DEF Good, Typed
<1> HIDE DEF f
<1>6. h = f
  BY <1>2, <1>4, <1>5, SlotDecides
<1> QED BY <1>6 DEF f

LEMMA OneStep ==
  ASSUME NEW w, Typed(w)
  PROVE  /\ Typed(ReleaseOne(w)) /\ From(w, ReleaseOne(w))
         /\ ReleaseOne(w).buf[Slot(w, w.head)] = Empty
         /\ ReleaseOne(w).head = (w.head + 1) % SN
         /\ \A h \in Nat : Good(w, h) => Good(ReleaseOne(w), h + 1)
<1> DEFINE s == Slot(w, w.head)
           f == w.buf[s]
           v == ReleaseOne(w)
           n == w.size
<1>0. /\ w.head \in 0..(SN - 1) /\ w.head \in Nat /\ n \in Sizes
      /\ w.buf \in [0..(n - 1) -> Frames \cup {Empty}] /\ w.out \in Seq(Frames)
      /\ \A i \in 0..(n - 1) : w.buf[i] # Empty => (w.buf[i] % SN) % n = i
  BY Numbers DEF Typed, Slot
<1>1. s \in 0..(n - 1)
  BY <1>0, SlotIn
<1>2. /\ v = [head |-> v.head, buf |-> v.buf, out |-> v.out, size |-> v.size]
      /\ v.head = (w.head + 1) % SN /\ v.size = n
      /\ v.buf = [w.buf EXCEPT ![s] = Empty]
      /\ v.out = IF f = Empty THEN w.out ELSE Append(w.out, f)
  BY DEF ReleaseOne
<1>3. f # Empty => f \in Frames
  BY <1>0, <1>1
<1> HIDE DEF v, n, s
<1>4. v.buf \in [0..(n - 1) -> Frames \cup {Empty}]
  BY <1>0, <1>1, <1>2
<1>5. v.buf[s] = Empty /\ \A i \in (0..(n - 1)) \ {s} : v.buf[i] = w.buf[i]
  BY <1>0, <1>1, <1>2
<1>6. v.head \in 0..(SN - 1)
  BY <1>0, <1>2, NumberInSpace
<1>7. /\ v.out \in Seq(Frames)
      /\ ToSet(v.out) = IF f = Empty THEN ToSet(w.out) ELSE ToSet(w.out) \cup {f}
  <2>1. CASE f = Empty
    BY <1>0, <1>2, <2>1
  <2>2. CASE f # Empty
    <3> DEFINE o == w.out
    <3>1. f \in Frames /\ v.out = Append(o, f) /\ o \in Seq(Frames)
      BY <1>0, <1>2, <1>3, <2>2
    <3> HIDE DEF o, f
    <3>2. /\ Append(o, f) \in Seq(Frames) /\ Len(Append(o, f)) = Len(o) + 1
          /\ Append(o, f)[Len(o) + 1] = f
          /\ \A i \in 1..Len(o) : Append(o, f)[i] = o[i]
      BY <3>1
    <3>3. ToSet(Append(o, f)) = ToSet(o) \cup {f}
      BY <3>1, <3>2 DEF ToSet
    <3> QED BY <2>2, <3>1, <3>2, <3>3 DEF o
  <2> QED BY <2>1, <2>2
<1>8. Typed(v)
  <2>1. \A i \in 0..(n - 1) : v.buf[i] # Empty => (v.buf[i] % SN) % n = i
    BY <1>0, <1>5
  <2> QED BY <1>0, <1>2, <1>4, <1>6, <1>7, <2>1 DEF Typed, Slot
<1>9. From(w, v)
  <2>1. Buf(v) \cup {f, Empty} = Buf(w) \cup {f, Empty}
    BY <1>1, <1>2, <1>5 DEF Buf, n
  <2>2. f # Empty => f \in Buf(w)
    BY <1>1 DEF Buf, n
  <2>3. Empty \notin Buf(v) /\ Empty \notin Buf(w)
    BY DEF Buf
  <2>4. \A i \in 0..(n - 1) : v.buf[i] \in {w.buf[i], Empty}
    BY <1>5
  <2>5. v.size = w.size
    BY <1>2 DEF n
  <2> HIDE DEF f
  <2>6. Content(v) = Content(w)
    BY <1>7, <2>1, <2>2, <2>3 DEF Content
  <2> QED BY <2>4, <2>5, <2>6 DEF From, n
<1>10. ASSUME NEW h \in Nat, Good(w, h) PROVE Good(v, h + 1)
  <2>1. v.head = (h + 1) % SN
    BY <1>2, <1>10, HeadMoves DEF Good
  <2>2. f # Empty => f = h
    BY <1>10, FrameUnderHead DEF HoleAtHead, s
  <2>3. ASSUME NEW b \in Buf(v)
        PROVE  h + 1 <= b /\ b < (h + 1) + v.size /\ Apart(v.size, h + 1, b)
    <3>1. PICK i \in (0..(n - 1)) \ {s} : b = w.buf[i] /\ b # Empty
      BY <1>2, <1>5, <2>3 DEF Buf
    <3>2. b \in Buf(w) /\ b \in Nat /\ n \in Nat
      BY <3>1, BufNumbers DEF n
    <3>3. h <= b /\ b < h + n /\ Apart(n, h, b)
      BY <1>10, <3>2 DEF Good, n
    <3>4. b # h
      BY <1>0, <1>10, <3>1 DEF Good, Slot, s, n
    <3>5. Apart(n, h + 1, b)
      BY <3>2, <3>3, ApartFrom
    <3> QED BY <1>2, <3>2, <3>3, <3>4, <3>5
  <2>4. Rising(v.out) /\ \A i \in 1..Len(v.out) : v.out[i] < h + 1
    <3> DEFINE o == w.out
    <3>1. /\ \A i \in 1..Len(o) : o[i] \in Nat /\ o[i] < h
          /\ o \in Seq(Frames) /\ Rising(o)
      BY <1>0, <1>10, OutNumbers DEF Good
    <3>2. CASE f = Empty
      <4>1. v.out = o
        BY <1>2, <3>2
      <4> HIDE DEF o, f
      <4> QED BY <3>1, <4>1
    <3>3. CASE f # Empty
      <4>1. f = h /\ f \in Frames /\ v.out = Append(o, f)
        BY <1>2, <1>3, <2>2, <3>3
      <4> HIDE DEF o, f
      <4>2. /\ Len(Append(o, f)) = Len(o) + 1 /\ Append(o, f)[Len(o) + 1] = f
            /\ \A i \in 1..Len(o) : Append(o, f)[i] = o[i]
        BY <3>1, <4>1
      <4>3. Rising(Append(o, f))
        BY <3>1, <4>1, <4>2 DEF Rising
      <4>4. \A i \in 1..Len(Append(o, f)) : Append(o, f)[i] < h + 1
        BY <3>1, <4>1, <4>2
      <4> QED BY <4>1, <4>3, <4>4
    <3> QED BY <3>2, <3>3
  <2> QED BY <2>1, <2>3, <2>4 DEF Good
<1> QED BY <1>2, <1>5, <1>8, <1>9, <1>10 DEF v, s

-----------------------------------------------------------------------------
(* Several rounds.  Advance and CheckRelease are recursive functions on an  *)
(* interval: that such a function exists is shown by the least number for   *)
(* which it would not.                                                      *)

LEMMA LeastNumber ==
  ASSUME NEW T, T \subseteq Nat, T # {}
  PROVE  \E m \in T : \A n \in T : m <= n
<1>1. PICK m \in T : \A n \in T : <<n, m>> \notin OpToRel(<, Nat)
  BY NatLessThanWellFounded, WFMin
<1>2. \A n \in T : ~(n < m)
  BY <1>1 DEF OpToRel
<1>3. \A n \in T : m <= n
  BY <1>2
<1> QED BY <1>3

LEMMA RoundsExist ==
  ASSUME NEW w, NEW n \in Nat
  PROVE  \E g : g = [i \in 0..n |-> IF i = 0 THEN w ELSE ReleaseOne(g[i - 1])]
<1> DEFINE Is(g, k) == g = [i \in 0..k |-> IF i = 0 THEN w ELSE ReleaseOne(g[i - 1])]
           T == {k \in Nat : ~\E g : Is(g, k)}
<1>1. SUFFICES ASSUME T # {} PROVE FALSE
  <2>1. n \notin T => \E g : Is(g, n)
    OBVIOUS
  <2> QED BY <1>1, <2>1
<1>2. PICK m \in T : \A k \in T : m <= k
  <2> HIDE DEF Is
  <2> QED BY <1>1, LeastNumber
<1>3. CASE m = 0
  <2> DEFINE g == [i \in 0..0 |-> w]
  <2>1. g = [i \in 0..0 |-> IF i = 0 THEN w ELSE ReleaseOne(g[i - 1])]
    OBVIOUS
  <2>2. Is(g, m)
    BY <1>3, <2>1
  <2> QED BY <1>2, <2>2
<1>4. CASE m # 0
  <2>1. m - 1 \in Nat /\ m \in Nat /\ m - 1 \notin T
    BY <1>2, <1>4
  <2>2. PICK a : Is(a, m - 1)
    BY <2>1
  <2> DEFINE g == [i \in 0..m |-> IF i = 0 THEN w ELSE ReleaseOne(a[i - 1])]
  <2>3. ASSUME NEW i \in 0..(m - 1) PROVE g[i] = a[i]
    BY <2>1, <2>2
  <2>4. ASSUME NEW i \in 0..m
        PROVE  g[i] = IF i = 0 THEN w ELSE ReleaseOne(g[i - 1])
    <3>1. CASE i = 0
      BY <3>1
    <3>2. CASE i # 0
      <4>1. i - 1 \in 0..(m - 1)
        BY <2>1, <3>2
      <4>2. g[i] = ReleaseOne(a[i - 1])
        BY <3>2
      <4>3. g[i - 1] = a[i - 1]
        BY <2>3, <4>1
      <4> QED BY <3>2, <4>2, <4>3
    <3> QED BY <3>1, <3>2
  <2>5. Is(g, m)
    <3>1. g = [i \in 0..m |-> g[i]]
      OBVIOUS
    <3> HIDE DEF g
    <3> QED BY <2>4, <3>1
  <2> QED BY <1>2, <2>5
<1> QED BY <1>3, <1>4

LEMMA FromItself == ASSUME NEW w PROVE From(w, w)
BY DEF From

LEMMA FromFrom ==
  ASSUME NEW u, NEW v, NEW w, From(u, v), From(v, w)
  PROVE  From(u, w)
<1>1. v.size = u.size /\ w.size = u.size
  BY DEF From
<1>2. ASSUME NEW i \in 0..(u.size - 1) PROVE w.buf[i] \in {u.buf[i], Empty}
  <2>1. v.buf[i] \in {u.buf[i], Empty} /\ w.buf[i] \in {v.buf[i], Empty}
    BY <1>1 DEF From
  <2> QED BY <2>1
<1>3. Content(w) = Content(u)
  BY DEF From
<1> QED BY <1>1, <1>2, <1>3 DEF From

LEMMA BufShrinks ==
  ASSUME NEW w, NEW v, From(w, v)
  PROVE  Buf(v) \subseteq Buf(w)
<1>1. ASSUME NEW i \in 0..(w.size - 1), v.buf[i] # Empty PROVE v.buf[i] \in Buf(w)
  BY <1>1 DEF From, Buf
<1> QED BY <1>1 DEF Buf, From

LEMMA AdvanceGood ==
  ASSUME NEW w, Typed(w), NEW n \in Nat
  PROVE  /\ Typed(Advance(w, n)) /\ From(w, Advance(w, n))
         /\ Advance(w, n).head = (w.head + n) % SN
         /\ \A j \in 0..(n - 1) : Advance(w, n).buf[Slot(w, (w.head + j) % SN)] = Empty
         /\ \A h \in Nat : Good(w, h) => Good(Advance(w, n), h + n)
<1> DEFINE Is(g) == g = [i \in 0..n |-> IF i = 0 THEN w ELSE ReleaseOne(g[i - 1])]
           g == CHOOSE a : Is(a)
<1>1. Advance(w, n) = g[n]
  BY DEF Advance
<1>2. Is(g)
  <2>1. \E a : Is(a)
    BY RoundsExist
  <2> HIDE DEF Is
  <2> QED BY <2>1
<1> HIDE DEF g
<1>3. g[0] = w
  BY <1>2
<1>4. ASSUME NEW i \in 1..n PROVE g[i] = ReleaseOne(g[i - 1])
  BY <1>2
<1> HIDE DEF Is
<1> DEFINE slot(j) == Slot(w, (w.head + j) % SN)
           Ok(i) == /\ Typed(g[i]) /\ From(w, g[i]) /\ g[i].head = (w.head + i) % SN
                    /\ \A j \in 0..(i - 1) : g[i].buf[slot(j)] = Empty
                    /\ \A h \in Nat : Good(w, h) => Good(g[i], h + i)
           T == {i \in 0..n : ~Ok(i)}
<1>0. w.head \in Nat /\ w.head \in 0..(SN - 1) /\ w.size \in Sizes
  BY Numbers DEF Typed
<1>5. Ok(0)
  <2>1. (w.head + 0) % SN = w.head
    BY <1>0, Numbers, SmallRemainder
  <2>2. \A h \in Nat : h + 0 = h
    OBVIOUS
  <2>3. 0..(0 - 1) = {}
    OBVIOUS
  <2> HIDE DEF slot
  <2> QED BY <1>3, <2>1, <2>2, <2>3, FromItself
<1>6. ASSUME NEW i \in 1..n, Ok(i - 1) PROVE Ok(i)
  <2> DEFINE v == g[i - 1]
             u == ReleaseOne(v)
             k == i - 1
  <2>1. /\ Typed(v) /\ From(w, v) /\ v.head = (w.head + k) % SN
        /\ \A j \in 0..(k - 1) : v.buf[slot(j)] = Empty
        /\ \A h \in Nat : Good(w, h) => Good(v, h + k)
        /\ k \in Nat /\ k + 1 = i
    BY <1>6
  <2>2. g[i] = u
    BY <1>4
  <2> HIDE DEF v, k, slot
  <2>3. /\ Typed(u) /\ From(v, u) /\ u.buf[Slot(v, v.head)] = Empty
        /\ u.head = (v.head + 1) % SN
        /\ \A h \in Nat : Good(v, h) => Good(u, h + 1)
    BY <2>1, OneStep
  <2> HIDE DEF u
  <2>4. From(w, u)
    BY <2>1, <2>3, FromFrom
  <2>5. u.head = (w.head + i) % SN
    <3> DEFINE a == w.head + k
    <3>1. a \in Nat /\ a + 1 = w.head + i
      BY <1>0, <2>1
    <3> HIDE DEF a
    <3>2. ((a % SN) + 1) % SN = (a + 1) % SN
      BY <3>1, HeadMoves
    <3>3. v.head = a % SN
      BY <2>1 DEF a
    <3> QED BY <2>3, <3>1, <3>2, <3>3
  <2>6. ASSUME NEW j \in 0..(i - 1) PROVE u.buf[slot(j)] = Empty
    <3>1. CASE j = k
      <4>1. slot(j) = Slot(v, v.head)
        BY <2>1, <3>1 DEF slot, Slot, From
      <4> QED BY <2>3, <4>1
    <3>2. CASE j # k
      <4>1. j \in 0..(k - 1)
        BY <2>1, <2>6, <3>2
      <4>2. v.buf[slot(j)] = Empty
        BY <2>1, <4>1
      <4>3. slot(j) \in 0..(w.size - 1)
        <5>1. (w.head + j) % SN \in Nat
          BY <1>0, <4>1, NumberInSpace
        <5> QED BY <1>0, <5>1, SlotIn DEF slot
      <4>4. slot(j) \in 0..(v.size - 1)
        BY <2>1, <4>3 DEF From
      <4> QED BY <2>3, <4>2, <4>4 DEF From
    <3> QED BY <3>1, <3>2
  <2>7. ASSUME NEW h \in Nat, Good(w, h) PROVE Good(u, h + i)
    <3>1. Good(v, h + k) /\ h + k \in Nat /\ (h + k) + 1 = h + i
      BY <2>1, <2>7
    <3>2. Good(u, (h + k) + 1)
      BY <2>3, <3>1
    <3> QED BY <3>1, <3>2
  <2> QED BY <2>2, <2>3, <2>4, <2>5, <2>6, <2>7
<1> HIDE DEF Ok
<1>7. T = {}
  <2>1. SUFFICES ASSUME T # {} PROVE FALSE
    OBVIOUS
  <2>2. T \subseteq Nat
    OBVIOUS
  <2>3. PICK m \in T : \A i \in T : m <= i
    BY <2>1, <2>2, LeastNumber
  <2>4. m # 0 /\ m \in 1..n
    BY <1>5
  <2>5. m - 1 \in 0..n /\ m - 1 \notin T
    BY <2>3, <2>4
  <2> QED BY <1>6, <2>4, <2>5
<1>8. Ok(n)
  BY <1>7
<1> QED BY <1>1, <1>8 DEF Ok

-----------------------------------------------------------------------------
(* The three releases: up to a number, up to the first hole, and behind     *)
(* holes that timed out.  What they have in common: the window stays one,   *)
(* keeps all frames, and if they go up in order moves no further than       *)
(* behind a frame it held.                                                  *)

Reached(w, h, v, k) ==
  h <= k /\ Good(v, k) /\ (k = h \/ \E b \in Buf(w) : k <= b + 1)

Leads(w, v) ==
  /\ Typed(v) /\ From(w, v)
  /\ \A h \in Nat : Good(w, h) => \E k \in Nat : Reached(w, h, v, k)

LEMMA LeadsNowhere ==
  ASSUME NEW w, Typed(w)
  PROVE  Leads(w, w)
<1>1. ASSUME NEW h \in Nat, Good(w, h) PROVE Reached(w, h, w, h)
  BY <1>1 DEF Reached
<1> QED BY <1>1, FromItself DEF Leads

LEMMA LeadsOn ==
  ASSUME NEW u, NEW v, NEW w, Leads(u, v), Leads(v, w)
  PROVE  Leads(u, w)
<1>1. Typed(w) /\ From(u, w) /\ Buf(v) \subseteq Buf(u)
  BY FromFrom, BufShrinks DEF Leads
<1>2. ASSUME NEW h \in Nat, Good(u, h) PROVE \E l \in Nat : Reached(u, h, w, l)
  <2>1. PICK k \in Nat : Reached(u, h, v, k)
    BY <1>2 DEF Leads
  <2>2. Good(v, k)
    BY <2>1 DEF Reached
  <2>3. PICK l \in Nat : Reached(v, k, w, l)
    BY <2>2 DEF Leads
  <2>4. h <= k /\ k <= l /\ h <= l /\ Good(w, l)
    BY <2>1, <2>3 DEF Reached
  <2>5. l = k \/ \E b \in Buf(u) : l <= b + 1
    BY <1>1, <2>3 DEF Reached
  <2>6. l = h \/ \E b \in Buf(u) : l <= b + 1
    BY <2>1, <2>5 DEF Reached
  <2> QED BY <2>4, <2>6 DEF Reached
<1> QED BY <1>1, <1>2 DEF Leads

LEMMA ReleaseToTyped ==
  ASSUME NEW w, Typed(w), NEW f \in Nat
  PROVE  Typed(ReleaseTo(w, f % SN)) /\ From(w, ReleaseTo(w, f % SN))
<1> DEFINE t == f % SN
           n == Distance(w.head, t)
<1>1. n \in Nat
  <2>1. w.head \in 0..(SN - 1) /\ t \in 0..(SN - 1)
    BY NumberInSpace DEF Typed
  <2> DEFINE x == t + SN - w.head
  <2>2. x \in Nat /\ n = x % SN
    BY <2>1, Numbers DEF Distance
  <2> HIDE DEF x
  <2> QED BY <2>2, NumberInSpace
<1> HIDE DEF n
<1>2. CASE SnLess(w.head, t)
  <2>1. ReleaseTo(w, t) = Advance(w, n)
    BY <1>2 DEF ReleaseTo, n
  <2> QED BY <1>1, <2>1, AdvanceGood
<1>3. CASE ~SnLess(w.head, t)
  <2>1. ReleaseTo(w, t) = w
    BY <1>3 DEF ReleaseTo
  <2> QED BY <2>1, FromItself
<1> QED BY <1>2, <1>3

LEMMA ReleaseToGood ==
  ASSUME NEW w, Typed(w), NEW h \in Nat, Good(w, h), NEW f \in Nat,
         2 * (h - f) < SN, 2 * (f - h) < SN
  PROVE  /\ f <= h => ReleaseTo(w, f % SN) = w
         /\ h < f => Good(ReleaseTo(w, f % SN), f)
<1>1. w.head = h % SN
  BY DEF Good
<1>2. /\ SnLess(h % SN, f % SN) <=> h < f
      /\ h <= f => Distance(h % SN, f % SN) = f - h
  BY SnLessDecides
<1>3. ASSUME f <= h PROVE ReleaseTo(w, f % SN) = w
  <2>1. ~(h < f)
    BY <1>3
  <2> QED BY <1>1, <1>2, <2>1 DEF ReleaseTo
<1>4. ASSUME h < f PROVE Good(ReleaseTo(w, f % SN), f)
  <2> DEFINE n == f - h
  <2>1. n \in Nat /\ h + n = f
    BY <1>4
  <2>2. ReleaseTo(w, f % SN) = Advance(w, n)
    BY <1>1, <1>2, <1>4 DEF ReleaseTo
  <2> HIDE DEF n
  <2>3. Good(Advance(w, n), h + n)
    BY <2>1, AdvanceGood
  <2> QED BY <2>1, <2>2, <2>3
<1> QED BY <1>3, <1>4

LEMMA ReleaseHeadLeads ==
  ASSUME NEW w, Typed(w)
  PROVE  Leads(w, ReleaseHead(w)) /\ HoleAtHead(ReleaseHead(w))
<1> DEFINE slot(i) == Slot(w, (w.head + i) % SN)
           hole(i) == w.buf[slot(i)] = Empty \/ \E j \in 0..(i - 1) : slot(j) = slot(i)
           T == {i \in 0..SN : hole(i)}
           m == Min(T)
           v == Advance(w, m)
<1>0. /\ SN \in Nat \ {0} /\ w.size \in Nat \ {0} /\ w.size \in Sizes
      /\ w.head \in 0..(SN - 1) /\ w.head \in Nat
  BY Numbers DEF Typed
<1>1. ReleaseHead(w) = v
  BY DEF ReleaseHead
<1>2. ASSUME NEW i \in Nat PROVE slot(i) \in 0..(w.size - 1)
  BY <1>0, NumberInSpace, SlotIn
<1>3. hole(SN)
  <2>1. (w.head + SN) % SN = w.head /\ (w.head + 0) % SN = w.head
    <3> DEFINE r == w.head
    <3>1. r + SN = (SN * 1) + r /\ r \in 0..(SN - 1)
      BY <1>0
    <3> HIDE DEF r
    <3>2. (r + SN) % SN = r
      BY <1>0, <3>1, ModUnique
    <3>3. r + 0 = r /\ r % SN = r
      BY <1>0, <3>1, SmallRemainder
    <3> QED BY <3>2, <3>3 DEF r
  <2>2. slot(0) = slot(SN) /\ 0 \in 0..(SN - 1)
    BY <1>0, <2>1
  <2> HIDE DEF slot
  <2> QED BY <2>2
<1> HIDE DEF hole
<1>4. m \in T /\ \A i \in T : m <= i
  <2>1. SN \in T /\ T \subseteq Nat
    BY <1>0, <1>3
  <2>2. \E x \in T : \A y \in T : x <= y
    <3> HIDE DEF T
    <3> QED BY <2>1, LeastNumber
  <2> HIDE DEF T
  <2> QED BY <2>2 DEF Min
<1>5. m \in 0..SN /\ m \in Nat /\ hole(m)
  BY <1>0, <1>4
<1>6. \A i \in 0..(m - 1) : ~hole(i)
  <2>1. ASSUME NEW i \in 0..(m - 1), hole(i) PROVE FALSE
    <3>1. i \in 0..SN
      BY <1>0, <1>5, <2>1
    <3>2. m <= i
      BY <1>4, <2>1, <3>1
    <3> QED BY <1>0, <1>5, <2>1, <3>2
  <2> QED BY <2>1
<1> HIDE DEF m, v, slot
<1>7. /\ Typed(v) /\ From(w, v) /\ v.head = (w.head + m) % SN
      /\ \A j \in 0..(m - 1) : v.buf[slot(j)] = Empty
      /\ \A h \in Nat : Good(w, h) => Good(v, h + m)
  BY <1>5, AdvanceGood DEF v, slot
<1>8. HoleAtHead(v)
  <2>1. Slot(v, v.head) = slot(m)
    BY <1>7 DEF From, Slot, slot
  <2>2. v.buf[slot(m)] \in {w.buf[slot(m)], Empty}
    BY <1>2, <1>5, <1>7 DEF From
  <2>3. v.buf[slot(m)] = Empty
    <3>1. CASE w.buf[slot(m)] = Empty
      BY <2>2, <3>1
    <3>2. CASE \E j \in 0..(m - 1) : slot(j) = slot(m)
      BY <1>7, <3>2
    <3> QED BY <1>5, <3>1, <3>2 DEF hole
  <2> QED BY <2>1, <2>3 DEF HoleAtHead
<1>9. ASSUME NEW h \in Nat, Good(w, h) PROVE Reached(w, h, v, h + m)
  <2>1. h <= h + m /\ Good(v, h + m)
    BY <1>5, <1>7, <1>9
  <2>2. CASE m = 0
    <3>1. h + m = h
      BY <2>2
    <3> QED BY <2>1, <3>1 DEF Reached
  <2>3. CASE m # 0
    <3> DEFINE p == m - 1
               b == w.buf[slot(p)]
    <3>1. p \in Nat /\ p \in 0..(m - 1) /\ m = p + 1
      BY <1>5, <2>3
    <3>2. b # Empty /\ ~\E j \in 0..(p - 1) : slot(j) = slot(p)
      BY <1>6, <3>1 DEF hole
    <3>3. b \in Buf(w) /\ b \in Nat /\ slot(p) \in 0..(w.size - 1)
      BY <1>2, <3>1, <3>2, BufNumbers
    <3>4. Slot(w, b % SN) = slot(p)
      BY <3>2, <3>3 DEF Typed
    <3>5. h <= b
      BY <1>9, <3>3 DEF Good
    <3> DEFINE d == b - h
    <3>6. d \in Nat /\ b = h + d
      BY <3>3, <3>5
    <3> HIDE DEF b, d
    <3>7. slot(d) = slot(p)
      <4>1. w.head = h % SN
        BY <1>9 DEF Good
      <4>2. (w.head + d) % SN = b % SN
        BY <3>6, <4>1, HeadMoves
      <4> QED BY <3>4, <4>2 DEF slot
    <3>8. p <= d
      BY <3>1, <3>2, <3>6, <3>7
    <3>9. h + m <= b + 1
      BY <3>1, <3>6, <3>8
    <3> QED BY <2>1, <3>3, <3>9 DEF Reached
  <2> QED BY <2>2, <2>3
<1>10. Leads(w, v)
  <2>1. \A h \in Nat : h + m \in Nat
    BY <1>5
  <2> QED BY <1>7, <1>9, <2>1 DEF Leads
<1> QED BY <1>1, <1>8, <1>10

LEMMA VisitLeads ==
  ASSUME NEW w, Typed(w), NEW s \in 0..(w.size - 1), NEW expired
  PROVE  Leads(w, Visit(w, s, expired))
<1> DEFINE f == w.buf[s]
<1>1. CASE f # Empty /\ f \in expired
  <2>1. f \in Nat /\ f \in Buf(w)
    BY <1>1, BufNumbers
  <2>2. Visit(w, s, expired) = ReleaseTo(w, f % SN)
    BY <1>1 DEF Visit
  <2> HIDE DEF f
  <2>3. Typed(ReleaseTo(w, f % SN)) /\ From(w, ReleaseTo(w, f % SN))
    BY <2>1, ReleaseToTyped
  <2>4. ASSUME NEW h \in Nat, Good(w, h)
        PROVE  \E k \in Nat : Reached(w, h, ReleaseTo(w, f % SN), k)
    <3>1. h <= f /\ f < h + w.size /\ f <= f + 1
      BY <2>1, <2>4 DEF Good
    <3> DEFINE n == w.size
    <3>5. n \in Nat /\ 2 * (n + MaxSkip) <= SN /\ SN \in Nat /\ MaxSkip \in Nat
      BY Numbers DEF Typed
    <3> HIDE DEF n
    <3>2. 2 * (h - f) < SN /\ 2 * (f - h) < SN
      BY <2>1, <3>1, <3>5 DEF n
    <3>3. CASE h < f
      <4>1. Good(ReleaseTo(w, f % SN), f)
        BY <2>1, <2>4, <3>2, <3>3, ReleaseToGood
      <4> QED BY <2>1, <3>1, <4>1 DEF Reached
    <3>4. CASE f <= h
      <4>1. ReleaseTo(w, f % SN) = w
        BY <2>1, <2>4, <3>2, <3>4, ReleaseToGood
      <4> QED BY <2>4, <4>1, LeadsNowhere DEF Leads
    <3> QED BY <2>1, <3>3, <3>4
  <2> QED BY <2>2, <2>3, <2>4 DEF Leads
<1>2. CASE ~(f # Empty /\ f \in expired)
  <2>1. Visit(w, s, expired) = w
    BY <1>2 DEF Visit
  <2> QED BY <2>1, LeadsNowhere
<1> QED BY <1>1, <1>2

(* The recursive function of CheckRelease.                                  *)
Visits(u, expired, n, g) ==
  g = [i \in 0..n |-> IF i = 0 THEN u ELSE Visit(g[i - 1], Slot(u, u.head + i), expired)]

LEMMA VisitsExist ==
  ASSUME NEW u, NEW expired, NEW n \in Nat
  PROVE  \E g : Visits(u, expired, n, g)
<1> DEFINE Next1(x, i) == Visit(x, Slot(u, u.head + i), expired)
           Is(g, k) == g = [i \in 0..k |-> IF i = 0 THEN u ELSE Next1(g[i - 1], i)]
           T == {k \in Nat : ~\E g : Is(g, k)}
<1>1. SUFFICES ASSUME T # {} PROVE FALSE
  <2>1. n \notin T => \E g : Is(g, n)
    OBVIOUS
  <2>2. \A g : Is(g, n) => Visits(u, expired, n, g)
    BY DEF Visits
  <2> HIDE DEF Is
  <2> QED BY <1>1, <2>1, <2>2
<1> HIDE DEF Next1
<1>2. PICK m \in T : \A k \in T : m <= k
  <2> HIDE DEF Is
  <2> QED BY <1>1, LeastNumber
<1>3. CASE m = 0
  <2> DEFINE g == [i \in 0..0 |-> u]
  <2>1. g = [i \in 0..0 |-> IF i = 0 THEN u ELSE Next1(g[i - 1], i)]
    OBVIOUS
  <2>2. Is(g, m)
    BY <1>3, <2>1
  <2> QED BY <1>2, <2>2
<1>4. CASE m # 0
  <2>1. m - 1 \in Nat /\ m \in Nat /\ m - 1 \notin T
    BY <1>2, <1>4
  <2>2. PICK a : Is(a, m - 1)
    BY <2>1
  <2> DEFINE g == [i \in 0..m |-> IF i = 0 THEN u ELSE Next1(a[i - 1], i)]
  <2>3. ASSUME NEW i \in 0..(m - 1) PROVE g[i] = a[i]
    BY <2>1, <2>2
  <2>4. ASSUME NEW i \in 0..m
        PROVE  g[i] = IF i = 0 THEN u ELSE Next1(g[i - 1], i)
    <3>1. CASE i = 0
      BY <3>1
    <3>2. CASE i # 0
      <4>1. i - 1 \in 0..(m - 1)
        BY <2>1, <3>2
      <4>2. g[i] = Next1(a[i - 1], i)
        BY <3>2
      <4>3. g[i - 1] = a[i - 1]
        BY <2>3, <4>1
      <4> QED BY <3>2, <4>2, <4>3
    <3> QED BY <3>1, <3>2
  <2>5. Is(g, m)
    <3>1. g = [i \in 0..m |-> g[i]]
      OBVIOUS
    <3> HIDE DEF g
    <3> QED BY <2>4, <3>1
  <2> QED BY <1>2, <2>5
<1> QED BY <1>3, <1>4

LEMMA CheckReleaseLeads ==
  ASSUME NEW w, Typed(w), NEW expired
  PROVE  Leads(w, CheckRelease(w, expired)) /\ HoleAtHead(CheckRelease(w, expired))
<1> DEFINE u == ReleaseHead(w)
           n == w.size - 1
           g == CHOOSE a : Visits(u, expired, n, a)
<1>0. n \in Nat
  BY BufNumbers
<1>1. Leads(w, u)
  BY ReleaseHeadLeads
<1>2. CheckRelease(w, expired) = ReleaseHead(g[n])
  BY DEF CheckRelease, Visits
<1> HIDE DEF u, n
<1>3. Visits(u, expired, n, g)
  BY <1>0, VisitsExist
<1> HIDE DEF g
<1>4. g[0] = u
  BY <1>0, <1>3 DEF Visits
<1>5. ASSUME NEW i \in 1..n PROVE g[i] = Visit(g[i - 1], Slot(u, u.head + i), expired)
  BY <1>0, <1>3 DEF Visits
<1>6. Typed(u)
  BY <1>1 DEF Leads
<1>7. ASSUME NEW i \in 1..n PROVE Slot(u, u.head + i) \in 0..(u.size - 1)
  <2>1. u.head \in 0..(SN - 1) /\ SN \in Nat /\ u.size \in Sizes
    BY <1>6, Numbers DEF Typed
  <2>2. u.head + i \in Nat
    BY <1>0, <2>1
  <2> QED BY <2>1, <2>2, SlotIn
<1> DEFINE Ok(i) == Leads(u, g[i])
           T == {i \in 0..n : ~Ok(i)}
<1>8. Ok(0)
  BY <1>4, <1>6, LeadsNowhere
<1>9. ASSUME NEW i \in 1..n, Ok(i - 1) PROVE Ok(i)
  <2> DEFINE v == g[i - 1]
             s == Slot(u, u.head + i)
  <2>1. Leads(u, v) /\ g[i] = Visit(v, s, expired) /\ s \in 0..(u.size - 1)
    BY <1>5, <1>7, <1>9
  <2> HIDE DEF v, s
  <2>2. Typed(v) /\ s \in 0..(v.size - 1)
    BY <2>1 DEF Leads, From
  <2>3. Leads(v, Visit(v, s, expired))
    BY <2>2, VisitLeads
  <2> QED BY <2>1, <2>3, LeadsOn
<1> HIDE DEF Ok
<1>10. T = {}
  <2>1. SUFFICES ASSUME T # {} PROVE FALSE
    OBVIOUS
  <2>2. T \subseteq Nat
    OBVIOUS
  <2>3. PICK m \in T : \A i \in T : m <= i
    BY <2>1, <2>2, LeastNumber
  <2>4. m # 0 /\ m \in 1..n
    BY <1>0, <1>8
  <2>5. m - 1 \in 0..n /\ m - 1 \notin T
    BY <1>0, <2>3, <2>4
  <2> QED BY <1>9, <2>4, <2>5
<1> DEFINE v == g[n]
<1>11. Leads(u, v)
  BY <1>0, <1>10 DEF Ok
<1> HIDE DEF v
<1>12. Leads(v, ReleaseHead(v)) /\ HoleAtHead(ReleaseHead(v))
  BY <1>11, ReleaseHeadLeads DEF Leads
<1>13. CheckRelease(w, expired) = ReleaseHead(v)
  BY <1>2 DEF v
<1> QED BY <1>1, <1>11, <1>12, <1>13, LeadsOn

-----------------------------------------------------------------------------
(* The order in which frames go up: r and w are the lists of the two        *)
(* contexts, d what went up, o what was overtaken.                          *)

Follows(s, d, o) ==
  \A f \in ToSet(d), g \in ToSet(s) : f < g \/ (f # g /\ g \in o)

Ordered(r, w, d, o) ==
  /\ Rising(r) /\ Rising(w) /\ ToSet(r) \cap ToSet(w) = {}
  /\ Follows(r, d, o) /\ Follows(w, d, o)
  /\ \A i, j \in 1..Len(d) : i < j => d[i] < d[j] \/ (d[i] # d[j] /\ d[j] \in o)

LEMMA OrderTurns ==
  ASSUME NEW r, NEW w, NEW d, NEW o, Ordered(r, w, d, o)
  PROVE  Ordered(w, r, d, o)
BY DEF Ordered

LEMMA SeqMembers ==
  ASSUME NEW s \in Seq(Frames)
  PROVE  /\ ToSet(s) \subseteq Frames /\ ToSet(s) \subseteq Nat
         /\ \A i \in 1..Len(s) : s[i] \in ToSet(s)
         /\ \A f \in ToSet(s) : \E i \in 1..Len(s) : f = s[i]
<1>1. DOMAIN s = 1..Len(s)
  OBVIOUS
<1>2. \A i \in 1..Len(s) : s[i] \in Frames /\ s[i] \in Nat
  BY OutNumbers
<1> QED BY <1>1, <1>2 DEF ToSet

LEMMA AppendMembers ==
  ASSUME NEW s \in Seq(Frames), NEW f \in Frames
  PROVE  Append(s, f) \in Seq(Frames) /\ ToSet(Append(s, f)) = ToSet(s) \cup {f}
<1>1. /\ Append(s, f) \in Seq(Frames) /\ Len(Append(s, f)) = Len(s) + 1
      /\ Append(s, f)[Len(s) + 1] = f
      /\ \A i \in 1..Len(s) : Append(s, f)[i] = s[i]
  OBVIOUS
<1> QED BY <1>1 DEF ToSet

LEMMA JoinedMembers ==
  ASSUME NEW d \in Seq(Frames), NEW s \in Seq(Frames)
  PROVE  /\ d \o s \in Seq(Frames) /\ Len(d \o s) = Len(d) + Len(s)
         /\ \A i \in 1..Len(d) : (d \o s)[i] = d[i]
         /\ \A i \in 1..Len(s) : (d \o s)[Len(d) + i] = s[i]
         /\ ToSet(d \o s) = ToSet(d) \cup ToSet(s)
<1>1. /\ d \o s \in Seq(Frames) /\ Len(d \o s) = Len(d) + Len(s)
      /\ \A i \in 1..(Len(d) + Len(s)) :
           (d \o s)[i] = IF i <= Len(d) THEN d[i] ELSE s[i - Len(d)]
      /\ Len(d) \in Nat /\ Len(s) \in Nat
  BY ConcatProperties
<1>2. \A i \in 1..Len(d) : (d \o s)[i] = d[i]
  BY <1>1
<1>3. \A i \in 1..Len(s) : (d \o s)[Len(d) + i] = s[i]
  BY <1>1
<1>4. ToSet(d \o s) \subseteq ToSet(d) \cup ToSet(s)
  <2>1. ASSUME NEW i \in 1..(Len(d) + Len(s))
        PROVE  (d \o s)[i] \in ToSet(d) \cup ToSet(s)
    <3>1. CASE i <= Len(d)
      BY <1>1, <3>1, SeqMembers
    <3>2. CASE ~(i <= Len(d))
      <4>1. i - Len(d) \in 1..Len(s)
        BY <1>1, <3>2
      <4> QED BY <1>1, <3>2, <4>1, SeqMembers
    <3> QED BY <3>1, <3>2
  <2>2. ASSUME NEW f \in ToSet(d \o s) PROVE f \in ToSet(d) \cup ToSet(s)
    <3>1. PICK i \in 1..Len(d \o s) : f = (d \o s)[i]
      BY <1>1, SeqMembers
    <3>2. i \in 1..(Len(d) + Len(s))
      BY <1>1, <3>1
    <3> QED BY <2>1, <3>1, <3>2
  <2> QED BY <2>2
<1>5. ToSet(d) \cup ToSet(s) \subseteq ToSet(d \o s)
  <2>1. ASSUME NEW i \in 1..Len(d) PROVE d[i] \in ToSet(d \o s)
    <3>1. i \in 1..Len(d \o s)
      BY <1>1
    <3> QED BY <1>1, <1>2, <3>1, SeqMembers
  <2>2. ASSUME NEW i \in 1..Len(s) PROVE s[i] \in ToSet(d \o s)
    <3>1. Len(d) + i \in 1..Len(d \o s)
      BY <1>1
    <3> QED BY <1>1, <1>3, <3>1, SeqMembers
  <2> QED BY <2>1, <2>2, SeqMembers
<1> QED BY <1>1, <1>2, <1>3, <1>4, <1>5

(* A list grows by frames newer than whatever else went up or is held.      *)
LEMMA OrderGrows ==
  ASSUME NEW r \in Seq(Frames), NEW w \in Seq(Frames), NEW d \in Seq(Frames), NEW o,
         NEW v \in Seq(Frames), Ordered(r, w, d, o), Rising(v),
         \A g \in ToSet(v) : g \in ToSet(r) \/ \A e \in ToSet(d) \cup ToSet(w) : e < g
  PROVE  Ordered(v, w, d, o)
<1>1. Follows(v, d, o)
  BY DEF Ordered, Follows
<1>2. ToSet(v) \cap ToSet(w) = {}
  BY SeqMembers DEF Ordered
<1> QED BY <1>1, <1>2 DEF Ordered

(* A list goes up as a whole, over frames the other context holds.          *)
LEMMA OrderHandsUp ==
  ASSUME NEW r \in Seq(Frames), NEW w \in Seq(Frames), NEW d \in Seq(Frames),
         NEW o, Ordered(r, w, d, o)
  PROVE  Ordered(<<>>, w, d \o r,
                 o \cup {g \in ToSet(w) : \E f \in ToSet(r) : g < f})
<1> DEFINE e == d \o r
           p == o \cup {g \in ToSet(w) : \E f \in ToSet(r) : g < f}
           m == Len(d)
           n == Len(r)
<1>1. /\ e \in Seq(Frames) /\ Len(e) = m + n /\ m \in Nat /\ n \in Nat
      /\ \A i \in 1..m : e[i] = d[i]
      /\ \A i \in 1..n : e[m + i] = r[i]
      /\ ToSet(e) = ToSet(d) \cup ToSet(r)
  BY JoinedMembers
<1>2. ToSet(<<>>) = {} /\ Rising(<<>>)
  BY DEF ToSet, Rising
<1>3. ASSUME NEW f \in ToSet(e), NEW g \in ToSet(w) PROVE f < g \/ (f # g /\ g \in p)
  <2>1. CASE f \in ToSet(d)
    BY <2>1 DEF Ordered, Follows
  <2>2. CASE f \in ToSet(r)
    <3>1. f # g /\ f \in Nat /\ g \in Nat
      BY <2>2, SeqMembers DEF Ordered
    <3>2. CASE f < g
      BY <3>2
    <3>3. CASE g < f
      BY <2>2, <3>1, <3>3
    <3> QED BY <3>1, <3>2, <3>3
  <2> QED BY <1>1, <2>1, <2>2
<1>4. ASSUME NEW i \in 1..Len(e), NEW j \in 1..Len(e), i < j
      PROVE  e[i] < e[j] \/ (e[i] # e[j] /\ e[j] \in p)
  <2>1. CASE j <= m
    <3>1. i \in 1..m /\ j \in 1..m
      BY <1>1, <1>4, <2>1
    <3>2. e[i] = d[i] /\ e[j] = d[j]
      BY <1>1, <3>1
    <3>3. d[i] < d[j] \/ (d[i] # d[j] /\ d[j] \in o)
      BY <1>4, <3>1 DEF Ordered
    <3> QED BY <3>2, <3>3
  <2>2. CASE i <= m /\ ~(j <= m)
    <3>1. i \in 1..m /\ j - m \in 1..n /\ m + (j - m) = j
      BY <1>1, <1>4, <2>2
    <3>2. e[i] = d[i] /\ e[j] = r[j - m]
      BY <1>1, <3>1
    <3>3. d[i] \in ToSet(d) /\ r[j - m] \in ToSet(r)
      BY <3>1, SeqMembers
    <3>4. e[i] < e[j] \/ (e[i] # e[j] /\ e[j] \in o)
      BY <3>2, <3>3 DEF Ordered, Follows
    <3> QED BY <3>4
  <2>3. CASE ~(i <= m)
    <3>1. i - m \in 1..n /\ j - m \in 1..n /\ m + (i - m) = i /\ m + (j - m) = j
          /\ i - m < j - m
      BY <1>1, <1>4, <2>3
    <3>2. e[i] = r[i - m] /\ e[j] = r[j - m]
      BY <1>1, <3>1
    <3>3. r[i - m] < r[j - m]
      BY <3>1 DEF Ordered, Rising
    <3> QED BY <3>2, <3>3
  <2> QED BY <1>1, <2>1, <2>2, <2>3
<1> HIDE DEF e, p
<1>5. Follows(<<>>, e, p) /\ Follows(w, e, p)
  BY <1>2, <1>3 DEF Follows
<1>6. Ordered(<<>>, w, e, p)
  BY <1>2, <1>4, <1>5 DEF Ordered
<1> QED BY <1>6 DEF e, p

-----------------------------------------------------------------------------
(* The invariant of the session.                                            *)

SlotMatch == \A i \in Slots : buf[i] # Empty => Slot(RxWindow, buf[i] % SN) = i

OrderKept == SlotsApart => Ordered(rxList, workList, delivered, overtaken)

(* The session starts at h: what went up is older, what it holds is newer.  *)
At(h) ==
  /\ h \in Nat /\ Good(RxWindow, h) /\ Good(WorkWindow, h)
  /\ HoleAtHead(RxWindow) /\ InStep(h)
  /\ \A b \in Buffered : b <= heard
  /\ \A d \in ToSet(delivered) : d < h

NoneMissing == got \subseteq Kept \cup robbed

SessionOk ==
  IF session = "active"
  THEN NoneMissing /\ (SlotsApart => robbed = {} /\ \E h \in Nat : At(h))
  ELSE buf = NoFrames(size)

WorkOk == NoWorkWithoutSession /\ (workList # <<>> => "running" \in work)

IInv == TypeOK /\ SlotMatch /\ OrderKept /\ SessionOk /\ WorkOk

LEMMA WindowsTyped ==
  ASSUME TypeOK, SlotMatch
  PROVE  /\ Typed(RxWindow) /\ Typed(WorkWindow)
         /\ RxWindow.head = head /\ RxWindow.buf = buf /\ RxWindow.out = rxList
         /\ WorkWindow.head = head /\ WorkWindow.buf = buf /\ WorkWindow.out = workList
         /\ RxWindow.size = size /\ WorkWindow.size = size
         /\ Buf(RxWindow) = Buffered /\ Buf(WorkWindow) = Buffered
<1>1. /\ RxWindow.head = head /\ RxWindow.buf = buf /\ RxWindow.out = rxList
      /\ WorkWindow.head = head /\ WorkWindow.buf = buf /\ WorkWindow.out = workList
      /\ RxWindow.size = size /\ WorkWindow.size = size
  BY DEF RxWindow, WorkWindow
<1>2. Buf(RxWindow) = Buffered /\ Buf(WorkWindow) = Buffered
  BY <1>1 DEF Buf, Buffered, Slots
<1>3. /\ RxWindow = [head |-> RxWindow.head, buf |-> RxWindow.buf,
                     out |-> RxWindow.out, size |-> RxWindow.size]
      /\ WorkWindow = [head |-> WorkWindow.head, buf |-> WorkWindow.buf,
                       out |-> WorkWindow.out, size |-> WorkWindow.size]
  BY DEF RxWindow, WorkWindow
<1>4. \A i \in 0..(size - 1) : buf[i] # Empty => (buf[i] % SN) % size = i
  BY <1>1 DEF SlotMatch, Slot, Slots
<1> QED BY <1>1, <1>2, <1>3, <1>4 DEF Typed, TypeOK, Slot, Slots

(* A section that leaves the window v behind, typed as it is.               *)
WindowNext == head' \in 0..(SN - 1) /\ buf' \in [Slots -> Frames \cup {Empty}]' /\ SlotMatch'

LEMMA WindowLeft ==
  ASSUME NEW v, Typed(v), v.size = size, size' = size, SetWindow(v)
  PROVE  WindowNext /\ Buffered' = Buf(v)
<1>1. head' = v.head /\ buf' = v.buf /\ Slots' = 0..(v.size - 1)
  BY DEF SetWindow, Slots
<1>2. Buffered' = Buf(v)
  BY <1>1 DEF Buffered, Buf
<1>3. SlotMatch'
  <2>1. RxWindow'.size = v.size
    BY DEF RxWindow
  <2> QED BY <1>1, <2>1 DEF SlotMatch, Typed, Slot
<1> QED BY <1>1, <1>2, <1>3 DEF WindowNext, Typed

(* What was apart before the peer went on is apart if it is still.          *)
LEMMA ApartBefore ==
  ASSUME SlotsApart', size' = size, first' = first, heard \in Nat, heard' \in Nat,
         heard <= heard', first \in Nat
  PROVE  SlotsApart
<1>1. /\ heard \div SN <= heard' \div SN /\ heard \div SN \in Int
      /\ heard' \div SN \in Int /\ first \div SN \in Int
  BY TurnsGrow
<1>2. SN % size = 0 \/ heard' \div SN <= first \div SN
  BY DEF SlotsApart
<1> QED BY <1>1, <1>2 DEF SlotsApart

LEMMA ApartFrame ==
  ASSUME SlotsApart', size' = size, first' = first, heard' \in Nat, first \in Nat,
         NEW f \in Nat, f <= heard', NEW h \in Nat, first <= h
  PROVE  Apart(size, h, f)
<1>1. /\ f \div SN <= heard' \div SN /\ first \div SN <= h \div SN
      /\ f \div SN \in Int /\ heard' \div SN \in Int
      /\ first \div SN \in Int /\ h \div SN \in Int
  BY TurnsGrow
<1>2. SN % size = 0 \/ heard' \div SN <= first \div SN
  BY DEF SlotsApart
<1> QED BY <1>1, <1>2 DEF Apart

(* The newest frame moves from b to c, on account of the frame f.           *)
LEMMA NewestNear ==
  ASSUME NEW b \in Nat, NEW c \in Nat, NEW f \in Nat, NEW h \in Nat, NEW n \in Nat \ {0},
         b <= c, f <= c, c = b \/ c = f, h <= b + 1, b < h + n
  PROVE  /\ h <= c + 1 /\ (f < h + n => c < h + n)
         /\ f = h => h + 1 <= c + 1 /\ c < (h + 1) + n
         /\ h < f => f <= c + 1 /\ c < f + n
         /\ f <= h => f < h + n
OBVIOUS

(* Where the window ends up that a section moves on from k.                 *)
LEMMA Settles ==
  ASSUME NEW w, Typed(w), NEW k \in Nat, Good(w, k), NEW v, Leads(w, v),
         NEW c \in Nat, k <= c + 1, c < k + w.size, \A b \in Buf(w) : b <= c
  PROVE  \E l \in Nat : /\ Good(v, l) /\ k <= l /\ l <= c + 1 /\ c < l + v.size
                        /\ \A b \in Buf(v) : b <= c
<1>1. PICK l \in Nat : Reached(w, k, v, l)
  BY DEF Leads
<1>2. Good(v, l) /\ k <= l /\ v.size = w.size /\ w.size \in Nat
      /\ Buf(v) \subseteq Buf(w) /\ Buf(w) \subseteq Nat
  BY <1>1, BufShrinks, BufNumbers DEF Reached, Leads, From
<1>3. l <= c + 1
  <2>1. CASE l = k
    BY <2>1
  <2>2. CASE \E b \in Buf(w) : l <= b + 1
    BY <1>2, <2>2
  <2> QED BY <1>1, <2>1, <2>2 DEF Reached
<1>4. c < l + v.size
  BY <1>2
<1> QED BY <1>2, <1>3, <1>4

-----------------------------------------------------------------------------
(* The peer and the window: whatever the peer may send next is so near the  *)
(* head that the comparison of sequence numbers is right.                   *)

LEMMA HearsNext ==
  ASSUME heard \in Frames, NEW f \in Frames, Hear(f)
  PROVE  /\ f \in Nat /\ heard \in Nat /\ heard' \in Nat /\ heard' \in Frames
         /\ heard <= heard' /\ f <= heard' /\ (heard' = heard \/ heard' = f)
<1>1. f \in Nat /\ heard \in Nat
  BY FramesAreNumbers
<1>2. heard' = IF f > heard THEN f ELSE heard
  BY DEF Hear
<1> QED BY <1>1, <1>2

LEMMA HearsNear ==
  ASSUME TypeOK, NEW h \in Nat, InStep(h), NEW f \in Frames, Hear(f)
  PROVE  /\ f < h + size + MaxSkip /\ h <= f + size
         /\ 2 * (h - f) < SN /\ 2 * (f - h) < SN
<1>1. f \in Nat /\ heard \in Nat /\ heard <= f + size - 1 /\ f <= heard + MaxSkip
  BY FramesAreNumbers DEF Hear, TypeOK
<1>2. /\ size \in Nat \ {0} /\ 2 * (size + MaxSkip) <= SN
      /\ SN \in Nat \ {0} /\ MaxSkip \in Nat \ {0}
  BY Numbers DEF TypeOK
<1>3. heard < h + size /\ h <= heard + 1
  BY DEF InStep
<1>4. f < h + size + MaxSkip /\ h <= f + size
  BY <1>1, <1>2, <1>3
<1>5. 2 * (h - f) < SN /\ 2 * (f - h) < SN
  BY <1>1, <1>2, <1>4
<1> QED BY <1>4, <1>5

(* Where a section of the receive path leaves a window whose slots are      *)
(* apart.                                                                   *)
RxRests(v) ==
  /\ HoleAtHead(v)
  /\ \E l \in Nat : /\ Good(v, l) /\ InStep(l)' /\ \A b \in Buf(v) : b <= heard'
                    /\ \A d \in ToSet(delivered) \cup ToSet(workList) : d < l
  /\ \A g \in ToSet(v.out) :
       g \in ToSet(rxList) \/ \A e \in ToSet(delivered) \cup ToSet(workList) : e < g

LEMMA AtOlder ==
  ASSUME TypeOK, NEW h, At(h)
  PROVE  \A e \in ToSet(delivered) \cup ToSet(workList) : e \in Nat /\ e < h
<1>1. delivered \in Seq(Frames) /\ workList \in Seq(Frames) /\ WorkWindow.out = workList
  BY DEF TypeOK, WorkWindow
<1>2. \A i \in 1..Len(workList) : workList[i] < h
  BY <1>1 DEF At, Good
<1>3. \A e \in ToSet(workList) : e < h
  BY <1>1, <1>2, SeqMembers
<1> QED BY <1>1, <1>3, SeqMembers DEF At

LEMMA RxSettles ==
  ASSUME TypeOK, SlotMatch, NEW h, At(h), NEW w, Typed(w), w.size = size,
         NEW k \in Nat, h <= k, Good(w, k), NEW v, Leads(w, v), HoleAtHead(v),
         first' = first, size' = size, heard' \in Nat,
         k <= heard' + 1, heard' < k + size, \A b \in Buf(w) : b <= heard',
         \A g \in Content(w) : g \in Content(RxWindow) \/ (g \in Nat /\ h <= g)
  PROVE  RxRests(v)
<1> DEFINE c == heard'
           olds == ToSet(delivered) \cup ToSet(workList)
<1>1. c \in Nat /\ k <= c + 1 /\ c < k + w.size /\ \A b \in Buf(w) : b <= c
  OBVIOUS
<1> HIDE DEF c
<1>2. PICK l \in Nat : /\ Good(v, l) /\ k <= l /\ l <= c + 1 /\ c < l + v.size
                       /\ \A b \in Buf(v) : b <= c
  BY <1>1, Settles
<1>3. v.size = size /\ Content(v) = Content(w)
  BY DEF Leads, From
<1>4. h \in Nat /\ Ssn <= h /\ first <= h /\ Ssn \in Nat /\ first \in Nat
  BY Numbers, FramesAreNumbers DEF At, InStep, TypeOK
<1>5. Ssn <= l /\ first <= l /\ h <= l
  BY <1>2, <1>4
<1>6. InStep(l)'
  BY <1>2, <1>3, <1>5 DEF InStep, c
<1>7. \A e \in olds : e \in Nat /\ e < h
  BY AtOlder
<1>8. \A e \in olds : e < l
  BY <1>4, <1>5, <1>7
<1>9. ASSUME NEW g \in ToSet(v.out), g \notin ToSet(rxList)
      PROVE  \A e \in olds : e < g
  <2>1. g \in Content(w)
    BY <1>3, <1>9 DEF Content
  <2>2. g \in Nat /\ h <= g
    <3>1. CASE g \in Buf(RxWindow)
      BY <3>1, WindowsTyped, BufNumbers DEF At, Good
    <3>2. CASE g \notin Buf(RxWindow)
      BY <1>9, <2>1, <3>2, WindowsTyped DEF Content
    <3> QED BY <3>1, <3>2
  <2> QED BY <1>4, <1>7, <2>2
<1> QED BY <1>2, <1>6, <1>8, <1>9 DEF RxRests, c

(* A section of the receive path keeps the invariant.                       *)
LEMMA RxSection ==
  ASSUME IInv, session = "active", session' = "active", size' = size, first' = first,
         NEW v, Typed(v), v.size = size, SetRxWindow(v),
         heard \in Nat, heard' \in Frames, heard' \in Nat, heard <= heard',
         started' \in BOOLEAN, again' = again, work \subseteq work',
         work' \subseteq {"queued", "running"},
         got' \subseteq Frames, robbed' \subseteq Frames,
         got' \subseteq ToSet(delivered) \cup ToSet(workList) \cup Content(v) \cup robbed',
         SlotsApart' => robbed' = {} /\ RxRests(v)
  PROVE  IInv'
<1>0. /\ SetWindow(v) /\ rxList' = v.out /\ workList' = workList
      /\ delivered' = delivered /\ overtaken' = overtaken
  BY DEF SetRxWindow
<1>1. WindowNext /\ Buffered' = Buf(v)
  BY <1>0, WindowLeft
<1>2. rxList \in Seq(Frames) /\ workList \in Seq(Frames) /\ delivered \in Seq(Frames)
      /\ v.out \in Seq(Frames)
  BY DEF IInv, TypeOK, Typed
<1>3. TypeOK' /\ SlotMatch'
  <2>1. size' \in Sizes /\ first' \in Frames /\ again' \in BOOLEAN
        /\ overtaken' \subseteq Frames
    BY <1>0 DEF IInv, TypeOK
  <2> QED BY <1>0, <1>1, <1>2, <2>1 DEF TypeOK, WindowNext
<1>4. NoneMissing'
  BY <1>0, <1>1 DEF NoneMissing, Kept, Content
<1>5. /\ RxWindow' = v
      /\ WorkWindow' = [head |-> v.head, buf |-> v.buf, out |-> workList, size |-> v.size]
  <2>1. v = [head |-> v.head, buf |-> v.buf, out |-> v.out, size |-> v.size]
    BY DEF Typed
  <2> QED BY <1>0, <2>1 DEF SetWindow, RxWindow, WorkWindow
<1>6. ASSUME SlotsApart'
      PROVE  /\ robbed' = {} /\ \E l \in Nat : At(l)'
             /\ Ordered(rxList, workList, delivered, overtaken)'
  <2>1. SlotsApart
    BY <1>6, ApartBefore, FramesAreNumbers DEF IInv, TypeOK
  <2>2. robbed' = {} /\ RxRests(v) /\ Ordered(rxList, workList, delivered, overtaken)
    BY <1>6, <2>1 DEF IInv, OrderKept
  <2>3. PICK l \in Nat : /\ Good(v, l) /\ InStep(l)' /\ \A b \in Buf(v) : b <= heard'
                         /\ \A d \in ToSet(delivered) \cup ToSet(workList) : d < l
    BY <2>2 DEF RxRests
  <2>4. Ordered(v.out, workList, delivered, overtaken)
    <3>1. Rising(v.out)
      BY <2>3 DEF Good
    <3> QED BY <1>2, <2>2, <3>1, OrderGrows DEF RxRests
  <2>5. Good(WorkWindow', l)
    <3> DEFINE u == WorkWindow'
    <3>1. u.head = v.head /\ u.buf = v.buf /\ u.out = workList /\ u.size = v.size
      BY <1>5
    <3> HIDE DEF u
    <3>2. Buf(u) = Buf(v)
      BY <3>1 DEF Buf
    <3>3. Rising(workList)
      BY <2>2 DEF Ordered
    <3>4. \A i \in 1..Len(workList) : workList[i] < l
      BY <1>2, <2>3, SeqMembers
    <3>5. Good(u, l)
      BY <2>3, <3>1, <3>2, <3>3, <3>4 DEF Good
    <3> QED BY <3>5 DEF u
  <2>6. HoleAtHead(v)
    BY <2>2 DEF RxRests
  <2>7. At(l)'
    BY <1>0, <1>1, <1>5, <2>3, <2>5, <2>6 DEF At
  <2> QED BY <1>0, <2>2, <2>4, <2>7
<1>7. SessionOk' /\ OrderKept'
  BY <1>4, <1>6 DEF SessionOk, OrderKept
<1>8. WorkOk'
  BY <1>0 DEF IInv, WorkOk, NoWorkWithoutSession
<1> QED BY <1>3, <1>7, <1>8 DEF IInv

LEMMA ActiveAt ==
  ASSUME IInv, session = "active", SlotsApart
  PROVE  robbed = {} /\ \E h \in Nat : At(h)
BY DEF IInv, SessionOk

-----------------------------------------------------------------------------
(* What mt76_rx_aggr_reorder does with a frame.                             *)

LEMMA Sizing == TypeOK => size \in Nat \ {0} /\ 2 * (size + MaxSkip) <= SN /\ size < SN
BY Numbers DEF TypeOK

LEMMA KeptContent ==
  ASSUME IInv, session = "active"
  PROVE  /\ got \subseteq ToSet(delivered) \cup ToSet(workList) \cup Content(RxWindow) \cup robbed
         /\ got \subseteq ToSet(delivered) \cup ToSet(rxList) \cup Content(WorkWindow) \cup robbed
<1>1. /\ Content(RxWindow) = ToSet(rxList) \cup Buffered
      /\ Content(WorkWindow) = ToSet(workList) \cup Buffered
  BY WindowsTyped DEF IInv, Content
<1> QED BY <1>1 DEF IInv, SessionOk, NoneMissing, Kept

(* What all branches of Receive and of BlockAckReq have in common.          *)
RxFrame(f) ==
  /\ IInv /\ session = "active" /\ session' = "active" /\ size' = size /\ first' = first
  /\ again' = again /\ Hear(f)

LEMMA RxOldFrame ==
  ASSUME NEW f \in Frames, RxFrame(f), SetRxWindow(RxWindow), SnLess(f % SN, head),
         started' = started, work' = work, robbed' = robbed, got' = got
  PROVE  IInv'
<1>0. /\ IInv /\ session = "active" /\ session' = "active" /\ size' = size /\ first' = first
      /\ again' = again /\ Hear(f) /\ TypeOK /\ SlotMatch /\ heard \in Frames
      /\ first \in Nat
  BY FramesAreNumbers DEF RxFrame, IInv, TypeOK
<1>1. /\ f \in Nat /\ heard \in Nat /\ heard' \in Nat /\ heard' \in Frames
      /\ heard <= heard' /\ f <= heard' /\ (heard' = heard \/ heard' = f)
  BY <1>0, HearsNext
<1>2. Typed(RxWindow) /\ RxWindow.size = size /\ Buf(RxWindow) = Buffered
  BY <1>0, WindowsTyped
<1>3. ASSUME SlotsApart' PROVE robbed' = {} /\ RxRests(RxWindow)
  <2>1. SlotsApart
    BY <1>0, <1>1, <1>3, ApartBefore
  <2>2. PICK h \in Nat : At(h)
    BY <1>0, <2>1, ActiveAt
  <2>3. robbed = {} /\ Good(RxWindow, h) /\ HoleAtHead(RxWindow) /\ InStep(h)
        /\ \A b \in Buffered : b <= heard
    BY <1>0, <2>1, <2>2, ActiveAt DEF At
  <2>4. f < h
    <3>1. 2 * (h - f) < SN /\ 2 * (f - h) < SN
      BY <1>0, <2>3, HearsNear
    <3>2. head = h % SN
      BY <1>0, <2>3, WindowsTyped DEF Good
    <3> QED BY <1>1, <3>1, <3>2, SnLessDecides
  <2>5. h <= heard' + 1 /\ heard' < h + size
    <3>1. h <= heard + 1 /\ heard < h + size
      BY <2>3 DEF InStep
    <3>2. size \in Nat \ {0} /\ SN \in Nat
      BY <1>0, Sizing, Numbers
    <3>3. f < h + size
      BY <1>1, <2>4, <3>2
    <3> QED BY <1>1, <3>1, <3>2, <3>3, NewestNear
  <2>6. \A b \in Buf(RxWindow) : b <= heard'
    BY <1>1, <1>2, <2>3, BufNumbers
  <2>7. Leads(RxWindow, RxWindow)
    BY <1>2, LeadsNowhere
  <2> DEFINE w == RxWindow
  <2>8. \A g \in Content(w) : g \in Content(RxWindow) \/ (g \in Nat /\ h <= g)
    OBVIOUS
  <2>9. h <= h
    OBVIOUS
  <2> QED BY <1>0, <1>1, <1>2, <2>2, <2>3, <2>5, <2>6, <2>7, <2>8, <2>9, RxSettles
<1>4. /\ started' \in BOOLEAN /\ got' \subseteq Frames /\ robbed' \subseteq Frames
      /\ work \subseteq work' /\ work' \subseteq {"queued", "running"}
  BY <1>0 DEF TypeOK
<1>5. got' \subseteq ToSet(delivered) \cup ToSet(workList) \cup Content(RxWindow) \cup robbed'
  BY <1>0, KeptContent
<1> QED BY <1>0, <1>1, <1>2, <1>3, <1>4, <1>5, RxSection

LEMMA RxNextFrame ==
  ASSUME NEW f \in Frames, RxFrame(f), ~SnLess(f % SN, head), f % SN = head,
         NEW v, v = [head |-> (head + 1) % SN, buf |-> buf, out |-> Append(rxList, f),
                     size |-> size],
         SetRxWindow(IF Buffered = {} THEN v ELSE ReleaseHead(v)),
         started' = TRUE, work' = work, robbed' = robbed, got' = got \cup {f}
  PROVE  IInv'
<1> DEFINE u == IF Buffered = {} THEN v ELSE ReleaseHead(v)
<1>0. /\ IInv /\ session = "active" /\ session' = "active" /\ size' = size /\ first' = first
      /\ again' = again /\ Hear(f) /\ TypeOK /\ SlotMatch /\ heard \in Frames
      /\ first \in Nat /\ size \in Sizes /\ head \in Nat
  <2>1. /\ IInv /\ session = "active" /\ session' = "active" /\ size' = size /\ first' = first
        /\ again' = again /\ Hear(f) /\ TypeOK /\ SlotMatch
    BY DEF RxFrame, IInv
  <2>2. heard \in Frames /\ first \in Frames /\ size \in Sizes /\ head \in 0..(SN - 1)
    BY <2>1 DEF TypeOK
  <2>3. first \in Nat
    BY <2>2, FramesAreNumbers
  <2>4. head \in Nat
    BY <2>2, Numbers
  <2> QED BY <2>1, <2>2, <2>3, <2>4
<1>1. /\ f \in Nat /\ heard \in Nat /\ heard' \in Nat /\ heard' \in Frames
      /\ heard <= heard' /\ f <= heard' /\ (heard' = heard \/ heard' = f)
  BY <1>0, HearsNext
<1>2. /\ Typed(RxWindow) /\ RxWindow.size = size /\ Buf(RxWindow) = Buffered
      /\ RxWindow.out = rxList /\ RxWindow.buf = buf /\ RxWindow.head = head
  BY <1>0, WindowsTyped
<1>3. /\ v.head = (head + 1) % SN /\ v.buf = buf /\ v.out = Append(rxList, f)
      /\ v.size = size /\ v = [head |-> v.head, buf |-> v.buf, out |-> v.out, size |-> v.size]
  OBVIOUS
<1>4. Typed(v) /\ Buf(v) = Buffered /\ Content(v) = Content(RxWindow) \cup {f}
  <2>1. v.head \in 0..(SN - 1)
    BY <1>0, <1>3, NumberInSpace
  <2>2. rxList \in Seq(Frames) /\ Append(rxList, f) \in Seq(Frames)
        /\ ToSet(Append(rxList, f)) = ToSet(rxList) \cup {f}
    BY <1>0, AppendMembers DEF TypeOK
  <2>3. Typed(v)
    BY <1>2, <1>3, <2>1, <2>2 DEF Typed, Slot
  <2>4. Buf(v) = Buf(RxWindow)
    BY <1>2, <1>3 DEF Buf
  <2> QED BY <1>2, <1>3, <2>2, <2>3, <2>4 DEF Content
<1>5. Leads(v, u) /\ HoleAtHead(u)
  <2>1. CASE Buffered = {}
    <3>1. Slot(v, v.head) \in 0..(v.size - 1)
      <4>1. v.head \in Nat /\ v.size \in Sizes
        BY <1>4, Numbers DEF Typed
      <4> QED BY <4>1, SlotIn
    <3>2. HoleAtHead(v)
      BY <1>4, <2>1, <3>1 DEF HoleAtHead, Buf
    <3> QED BY <1>4, <2>1, <3>2, LeadsNowhere
  <2>2. CASE Buffered # {}
    BY <1>4, <2>2, ReleaseHeadLeads
  <2> QED BY <2>1, <2>2
<1>6. SetRxWindow(u)
  OBVIOUS
<1> HIDE DEF u
<1>7. ASSUME SlotsApart' PROVE robbed' = {} /\ RxRests(u)
  <2>1. SlotsApart
    BY <1>0, <1>1, <1>7, ApartBefore
  <2>2. PICK h \in Nat : At(h)
    BY <1>0, <2>1, ActiveAt
  <2>3. robbed = {} /\ Good(RxWindow, h) /\ HoleAtHead(RxWindow) /\ InStep(h)
        /\ \A b \in Buffered : b <= heard
    BY <1>0, <2>1, <2>2, ActiveAt DEF At
  <2>4. head = h % SN
    BY <1>2, <2>3 DEF Good
  <2>5. f = h
    <3>1. 2 * (h - f) < SN /\ 2 * (f - h) < SN
      BY <1>0, <2>3, HearsNear
    <3>2. ~(f < h)
      BY <1>1, <2>4, <3>1, SnLessDecides
    <3>3. h <= f /\ f < h + SN /\ SN \in Nat \ {0}
      BY <1>1, <3>1, <3>2, Numbers
    <3> QED BY <1>1, <2>4, <3>3, RemainderDecides
  <2> DEFINE k == h + 1
  <2>6. k \in Nat /\ h <= k /\ k <= heard' + 1 /\ heard' < k + size
    <3>1. heard < h + size /\ h \in Nat
      BY <2>2, <2>3 DEF InStep
    <3>2. size \in Nat \ {0}
      BY <1>0, Sizing
    <3>3. h <= heard + 1
      BY <2>3 DEF InStep
    <3>4. h + 1 <= heard' + 1 /\ heard' < (h + 1) + size
      BY <1>1, <2>5, <3>1, <3>2, <3>3, NewestNear
    <3> QED BY <3>1, <3>4
  <2>7. Good(v, k)
    <3>1. v.head = k % SN
      BY <1>3, <2>4, HeadMoves
    <3>2. ASSUME NEW b \in Buf(v) PROVE k <= b /\ b < k + size /\ Apart(size, k, b)
      <4>1. b \in Nat /\ h <= b /\ b < h + size /\ Apart(size, h, b) /\ size \in Nat
        BY <1>0, <1>2, <1>4, <2>3, <3>2, BufNumbers, Sizing DEF Good
      <4>2. b # h
        <5>1. PICK i \in 0..(size - 1) : buf[i] = b /\ b # Empty
          BY <1>3, <3>2 DEF Buf
        <5>2. Slot(RxWindow, b % SN) = i
          BY <1>2, <5>1 DEF Typed
        <5>3. buf[Slot(RxWindow, h % SN)] = Empty
          BY <1>2, <2>3, <2>4 DEF HoleAtHead
        <5> QED BY <5>1, <5>2, <5>3
      <4>3. Apart(size, k, b)
        BY <4>1, <2>6, ApartFrom
      <4> QED BY <4>1, <4>2, <4>3
    <3>3. Rising(v.out) /\ \A i \in 1..Len(v.out) : v.out[i] < k
      <4> DEFINE o == rxList
      <4>1. /\ \A i \in 1..Len(o) : o[i] \in Nat /\ o[i] < h
            /\ o \in Seq(Frames) /\ Rising(o)
        BY <1>0, <1>2, <2>3, OutNumbers DEF Good, TypeOK
      <4>2. v.out = Append(o, f)
        BY <1>3
      <4> HIDE DEF o
      <4>3. /\ Len(Append(o, f)) = Len(o) + 1 /\ Append(o, f)[Len(o) + 1] = f
            /\ \A i \in 1..Len(o) : Append(o, f)[i] = o[i]
        BY <4>1
      <4>4. Rising(Append(o, f))
        <5> DEFINE e == Append(o, f)
                   m == Len(o)
        <5>1. /\ Len(e) = m + 1 /\ e[m + 1] = h /\ m \in Nat
              /\ \A i \in 1..m : e[i] = o[i] /\ o[i] < h
              /\ \A i, j \in 1..m : i < j => o[i] < o[j]
          BY <2>5, <4>1, <4>3 DEF Rising
        <5> HIDE DEF e, m
        <5>2. ASSUME NEW i \in 1..Len(e), NEW j \in 1..Len(e), i < j PROVE e[i] < e[j]
          <6>1. i \in 1..m
            BY <5>1, <5>2
          <6>2. CASE j \in 1..m
            BY <5>1, <5>2, <6>1, <6>2
          <6>3. CASE j = m + 1
            BY <5>1, <6>1, <6>3
          <6> QED BY <5>1, <6>2, <6>3
        <5>3. Rising(e)
          BY <5>2 DEF Rising
        <5> QED BY <5>3 DEF e
      <4>5. \A i \in 1..Len(Append(o, f)) : Append(o, f)[i] < k
        BY <2>5, <4>1, <4>3
      <4> QED BY <4>2, <4>4, <4>5
    <3> QED BY <1>3, <3>1, <3>2, <3>3 DEF Good
  <2>8. \A b \in Buf(v) : b <= heard'
    BY <1>1, <1>2, <1>4, <2>3, BufNumbers
  <2>9. \A g \in Content(v) : g \in Content(RxWindow) \/ (g \in Nat /\ h <= g)
    <3>1. f \in Nat /\ h <= f
      BY <1>1, <2>5
    <3> QED BY <1>4, <3>1
  <2> HIDE DEF k
  <2> QED BY <1>0, <1>1, <1>3, <1>4, <1>5, <2>2, <2>3, <2>6, <2>7, <2>8, <2>9, RxSettles
<1>8. /\ started' \in BOOLEAN /\ got' \subseteq Frames /\ robbed' \subseteq Frames
      /\ work \subseteq work' /\ work' \subseteq {"queued", "running"}
  BY <1>0 DEF TypeOK
<1>9. Typed(u) /\ u.size = size /\ Content(u) = Content(v)
  BY <1>3, <1>5 DEF Leads, From
<1>10. got' \subseteq ToSet(delivered) \cup ToSet(workList) \cup Content(u) \cup robbed'
  BY <1>0, <1>4, <1>9, KeptContent
<1> QED BY <1>0, <1>1, <1>6, <1>7, <1>8, <1>9, <1>10, RxSection

(* The window after room was made for a frame beyond it.                    *)
LEMMA RoomTyped ==
  ASSUME TypeOK, SlotMatch, NEW f \in Frames
  PROVE  Typed(Room(f)) /\ From(RxWindow, Room(f)) /\ Room(f).size = size
<1> DEFINE w == RxWindow
           g == (f % SN) + SN - size + 1
<1>1. Typed(w) /\ w.size = size
  BY WindowsTyped
<1>2. g \in Nat
  <2>1. f % SN \in 0..(SN - 1) /\ size \in Nat /\ size < SN /\ SN \in Nat
    BY FramesAreNumbers, NumberInSpace, Sizing, Numbers
  <2> QED BY <2>1
<1>3. Room(f) = w \/ Room(f) = ReleaseTo(w, g % SN)
  BY DEF Room
<1> HIDE DEF w, g
<1>4. Typed(Room(f)) /\ From(w, Room(f))
  BY <1>1, <1>2, <1>3, ReleaseToTyped, FromItself
<1> QED BY <1>1, <1>4 DEF w, From

LEMMA RoomGood ==
  ASSUME TypeOK, SlotMatch, NEW h, At(h), NEW f \in Frames, Hear(f), h < f
  PROVE  \E k \in Nat : /\ Good(Room(f), k) /\ h <= k /\ k <= f /\ f < k + size
                        /\ f < h + size => k = h /\ Room(f) = RxWindow
<1>0. /\ SN \in Nat \ {0} /\ size \in Nat \ {0} /\ MaxSkip \in Nat \ {0}
      /\ 2 * (size + MaxSkip) <= SN
  BY Sizing, Numbers
<1>1. /\ h \in Nat /\ Good(RxWindow, h) /\ InStep(h) /\ Typed(RxWindow)
      /\ RxWindow.head = head
  BY WindowsTyped DEF At
<1>2. f \in Nat /\ f < h + size + MaxSkip
  BY <1>1, HearsNear, FramesAreNumbers
<1> DEFINE e == h + size
           t == f % SN
<1>3. (head + size) % SN = e % SN
  <2>1. head = h % SN
    BY <1>1 DEF Good
  <2> QED BY <1>0, <1>1, <2>1, HeadMoves
<1>4. e \in Nat /\ 2 * (f - e) < SN /\ 2 * (e - f) < SN
  BY <1>0, <1>1, <1>2
<1>5. SnLess(t, (head + size) % SN) <=> f < e
  <2> HIDE DEF e
  <2>1. SnLess(f % SN, e % SN) <=> f < e
    BY <1>2, <1>4, SnLessDecides
  <2> QED BY <1>3, <2>1
<1>6. CASE f < e
  <2>1. Room(f) = RxWindow
    BY <1>5, <1>6 DEF Room
  <2>2. h <= f /\ h <= h
    BY <1>1, <1>2
  <2> QED BY <1>1, <1>6, <2>1, <2>2
<1>7. CASE ~(f < e)
  <2> DEFINE k == f + 1 - size
             c == SN - size + 1
             r == ReleaseTo(RxWindow, k % SN)
  <2>1. /\ k \in Nat /\ h < k /\ h <= k /\ k <= f /\ f < k + size /\ c \in Nat
        /\ k + SN = f + c /\ 2 * (k - h) < SN /\ 2 * (h - k) < SN
    BY <1>0, <1>1, <1>2, <1>7
  <2>2. (t + SN - size + 1) % SN = k % SN
    <3>1. t \in 0..(SN - 1)
      BY <1>2, NumberInSpace
    <3>2. t + SN - size + 1 = t + c
      BY <1>0, <3>1
    <3> HIDE DEF c, k
    <3>3. (t + c) % SN = (f + c) % SN
      BY <1>2, <2>1, HeadMoves
    <3>4. (k + SN) % SN = k % SN
      <4>1. ((k % SN) + SN) % SN = (k + SN) % SN
        BY <1>0, <2>1, HeadMoves
      <4> DEFINE q == k % SN
      <4>2. q \in 0..(SN - 1)
        BY <2>1, NumberInSpace
      <4> HIDE DEF q
      <4>3. q + SN = (SN * 1) + q
        BY <1>0, <4>2
      <4>4. (q + SN) % SN = q
        BY <1>0, <4>2, <4>3, ModUnique
      <4> QED BY <4>1, <4>4 DEF q
    <3> QED BY <2>1, <3>2, <3>3, <3>4
  <2>3. Room(f) = r
    BY <1>5, <1>7, <2>2 DEF Room
  <2> HIDE DEF k, c
  <2>4. Good(r, k)
    BY <1>1, <2>1, ReleaseToGood
  <2> HIDE DEF r
  <2> QED BY <1>7, <2>1, <2>3, <2>4
<1> QED BY <1>6, <1>7

(* A frame is put into its slot.                                            *)
Stored(w, f) == [w EXCEPT !.buf[Slot(w, f % SN)] = f]

LEMMA StoredTyped ==
  ASSUME NEW w, Typed(w), NEW f \in Frames, w.buf[Slot(w, f % SN)] = Empty
  PROVE  /\ Typed(Stored(w, f)) /\ Stored(w, f).head = w.head
         /\ Stored(w, f).out = w.out /\ Stored(w, f).size = w.size
         /\ Buf(Stored(w, f)) = Buf(w) \cup {f}
         /\ Content(Stored(w, f)) = Content(w) \cup {f}
<1> DEFINE v == Stored(w, f)
           s == Slot(w, f % SN)
           n == w.size
<1>1. f \in Nat /\ f # Empty /\ f % SN \in Nat /\ n \in Sizes
  BY FramesAreNumbers, NumberInSpace DEF Typed
<1>2. s \in 0..(n - 1)
  BY <1>1, SlotIn
<1>3. /\ v = [head |-> v.head, buf |-> v.buf, out |-> v.out, size |-> v.size]
      /\ v.head = w.head /\ v.out = w.out /\ v.size = n
      /\ v.buf = [w.buf EXCEPT ![s] = f]
  <2> DEFINE a == w.head
             b == w.buf
             c == w.out
  <2>1. w = [head |-> a, buf |-> b, out |-> c, size |-> n]
    BY DEF Typed
  <2> HIDE DEF a, b, c, n, s
  <2>2. v = [head |-> a, buf |-> [b EXCEPT ![s] = f], out |-> c, size |-> n]
    BY <2>1 DEF Stored, s
  <2> HIDE DEF v
  <2>3. v = [head |-> v.head, buf |-> v.buf, out |-> v.out, size |-> v.size]
    BY <2>2
  <2>4. v.head = a /\ v.out = c /\ v.buf = [b EXCEPT ![s] = f] /\ v.size = n
    BY <2>2
  <2> QED BY <2>3, <2>4 DEF a, b, c
<1>4. w.buf \in [0..(n - 1) -> Frames \cup {Empty}]
  BY DEF Typed
<1>5. v.buf \in [0..(n - 1) -> Frames \cup {Empty}]
  BY <1>3, <1>4
<1>6. v.buf[s] = f /\ \A i \in (0..(n - 1)) \ {s} : v.buf[i] = w.buf[i]
  BY <1>2, <1>3, <1>4
<1> HIDE DEF v
<1>7. Typed(v)
  <2>1. ASSUME NEW i \in 0..(n - 1), v.buf[i] # Empty PROVE Slot(v, v.buf[i] % SN) = i
    <3>1. CASE i = s
      BY <1>3, <1>6, <3>1 DEF Slot
    <3>2. CASE i # s
      <4>1. v.buf[i] = w.buf[i]
        BY <1>6, <3>2
      <4> QED BY <1>3, <2>1, <4>1 DEF Typed, Slot
    <3> QED BY <3>1, <3>2
  <2> QED BY <1>3, <1>5, <2>1 DEF Typed
<1>8. Buf(v) = Buf(w) \cup {f}
  <2> HIDE DEF s, n
  <2>1. Buf(v) \subseteq Buf(w) \cup {f}
    BY <1>3, <1>6 DEF Buf, n
  <2>2. f \in Buf(v)
    BY <1>1, <1>2, <1>3, <1>6 DEF Buf, n
  <2>3. ASSUME NEW i \in 0..(n - 1), w.buf[i] # Empty PROVE w.buf[i] \in Buf(v)
    <3>1. i # s
      BY <2>3 DEF s
    <3> QED BY <1>3, <1>6, <2>3, <3>1 DEF Buf, n
  <2> QED BY <2>1, <2>2, <2>3 DEF Buf, n
<1>9. Content(v) = Content(w) \cup {f}
  BY <1>3, <1>8 DEF Content
<1> QED BY <1>3, <1>7, <1>8, <1>9 DEF v

LEMMA StoredGood ==
  ASSUME NEW w, Typed(w), NEW f \in Frames, w.buf[Slot(w, f % SN)] = Empty,
         NEW k \in Nat, Good(w, k), k <= f, f < k + w.size, Apart(w.size, k, f)
  PROVE  Good(Stored(w, f), k)
<1> DEFINE v == Stored(w, f)
<1>1. /\ v.head = w.head /\ v.out = w.out /\ v.size = w.size
      /\ Buf(v) = Buf(w) \cup {f}
  BY StoredTyped
<1> HIDE DEF v
<1>2. Good(v, k)
  BY <1>1 DEF Good
<1> QED BY <1>2 DEF v

LEMMA RxStoreFrame ==
  ASSUME NEW f \in Frames, RxFrame(f), ~SnLess(f % SN, head), f % SN # head,
         Store(f), started' = TRUE, got' = got \cup {f}
  PROVE  IInv'
<1> DEFINE w == Room(f)
           s == Slot(w, f % SN)
<1>0. /\ IInv /\ session = "active" /\ session' = "active" /\ size' = size /\ first' = first
      /\ again' = again /\ Hear(f) /\ TypeOK /\ SlotMatch
      /\ heard \in Frames /\ first \in Nat /\ size \in Nat \ {0} /\ size \in Sizes
  <2>1. /\ IInv /\ session = "active" /\ session' = "active" /\ size' = size /\ first' = first
        /\ again' = again /\ Hear(f) /\ TypeOK /\ SlotMatch
    BY DEF RxFrame, IInv
  <2> QED BY <2>1, FramesAreNumbers, Sizing DEF TypeOK
<1>1. /\ f \in Nat /\ heard \in Nat /\ heard' \in Nat /\ heard' \in Frames
      /\ heard <= heard' /\ f <= heard' /\ (heard' = heard \/ heard' = f)
  BY <1>0, HearsNext
<1>2. /\ Typed(RxWindow) /\ RxWindow.size = size /\ Buf(RxWindow) = Buffered
      /\ Typed(w) /\ w.size = size /\ From(RxWindow, w)
      /\ Buf(w) \subseteq Buffered /\ Content(w) = Content(RxWindow)
  <2>1. Typed(RxWindow) /\ RxWindow.size = size /\ Buf(RxWindow) = Buffered
    BY <1>0, WindowsTyped
  <2>2. Typed(w) /\ w.size = size /\ From(RxWindow, w)
    BY <1>0, RoomTyped
  <2> QED BY <2>1, <2>2, BufShrinks DEF From
<1>3. s \in 0..(size - 1)
  BY <1>0, <1>1, <1>2, NumberInSpace, SlotIn
<1>4. /\ started' \in BOOLEAN /\ got' \subseteq Frames /\ robbed \subseteq Frames
      /\ work \subseteq {"queued", "running"}
  BY <1>0 DEF TypeOK
<1>5. got \subseteq ToSet(delivered) \cup ToSet(workList) \cup Content(w) \cup robbed
  BY <1>0, <1>2, KeptContent
(* Where the window is, while slots are apart.                              *)
<1>6. ASSUME SlotsApart'
      PROVE  \E h, k \in Nat :
               /\ At(h) /\ h < f /\ robbed = {}
               /\ Good(w, k) /\ h <= k /\ k <= f /\ f < k + size /\ Apart(size, k, f)
               /\ f < h + size => k = h /\ w = RxWindow
               /\ k <= heard' + 1 /\ heard' < k + size
               /\ (f < h + size => heard' < h + size) /\ h <= heard' + 1
  <2>1. SlotsApart
    BY <1>0, <1>1, <1>6, ApartBefore
  <2>2. PICK h \in Nat : At(h)
    BY <1>0, <2>1, ActiveAt
  <2>3. robbed = {} /\ Good(RxWindow, h) /\ InStep(h)
    BY <1>0, <2>1, <2>2, ActiveAt DEF At
  <2>4. h < f
    <3>1. 2 * (h - f) < SN /\ 2 * (f - h) < SN
      BY <1>0, <2>3, HearsNear
    <3>2. head = h % SN
      BY <1>0, <2>3, WindowsTyped DEF Good
    <3>3. ~(f < h) /\ f # h
      BY <1>1, <3>1, <3>2, SnLessDecides
    <3> QED BY <1>1, <3>3
  <2>5. PICK k \in Nat : /\ Good(w, k) /\ h <= k /\ k <= f /\ f < k + size
                         /\ f < h + size => k = h /\ w = RxWindow
    BY <1>0, <2>2, <2>4, RoomGood
  <2>6. first <= h /\ heard < h + size /\ h <= heard + 1
    BY <2>3 DEF InStep
  <2>7. first <= k /\ heard < k + size /\ k <= heard' + 1
    <3> DEFINE n == size
               a == heard
               c == heard'
    <3>1. /\ n \in Nat /\ a \in Nat /\ c \in Nat /\ f \in Nat /\ first \in Nat
          /\ h <= k /\ k <= f /\ f <= c /\ first <= h /\ a < h + n
      BY <1>0, <1>1, <2>5, <2>6
    <3> HIDE DEF n, a, c
    <3>2. first <= k /\ a < k + n /\ k <= c + 1
      BY <3>1
    <3> QED BY <3>2 DEF n, a, c
  <2>8. Apart(size, k, f)
    BY <1>0, <1>1, <1>6, <2>7, ApartFrame
  <2>9. heard' < k + size
    BY <1>1, <2>5, <2>7
  <2>10. (f < h + size => heard' < h + size) /\ h <= heard' + 1
    BY <1>0, <1>1, <2>6, NewestNear
  <2> HIDE DEF w
  <2> QED BY <2>2, <2>3, <2>4, <2>5, <2>7, <2>8, <2>9, <2>10
<1>7. CASE w.buf[s] # Empty
  <2> DEFINE b == w.buf[s]
  <2>1. SetRxWindow(w) /\ work' = work /\ robbed' = IF b = f THEN robbed ELSE robbed \cup {f}
    BY <1>7 DEF Store, StoreAfter
  <2>2. b \in Buf(w) /\ b \in Nat /\ Slot(w, b % SN) = s
    BY <1>2, <1>3, <1>7, BufNumbers DEF Typed
  <2>3. robbed' \subseteq Frames /\ robbed \subseteq robbed'
    BY <1>4, <2>1
  <2>4. got' \subseteq ToSet(delivered) \cup ToSet(workList) \cup Content(w) \cup robbed'
    <3>1. f \in Content(w) \cup robbed'
      BY <2>1, <2>2 DEF Content
    <3> QED BY <1>5, <2>3, <3>1
  <2>5. ASSUME SlotsApart' PROVE robbed' = {} /\ RxRests(w)
    <3>1. PICK h \in Nat, k \in Nat :
               /\ At(h) /\ h < f /\ robbed = {}
               /\ Good(w, k) /\ h <= k /\ k <= f /\ f < k + size /\ Apart(size, k, f)
               /\ f < h + size => k = h /\ w = RxWindow
               /\ (f < h + size => heard' < h + size) /\ h <= heard' + 1
      BY <1>6, <2>5
    <3>2. b = f
      <4>1. k <= b /\ b < k + size /\ Apart(size, k, b)
        BY <1>2, <2>2, <3>1 DEF Good
      <4>2. (b % SN) % size = (f % SN) % size
        BY <1>2, <2>2 DEF Slot
      <4> HIDE DEF b, w, s
      <4> QED BY <1>0, <1>1, <2>2, <3>1, <4>1, <4>2, SlotHoldsOne
    <3>3. Good(RxWindow, h) /\ HoleAtHead(RxWindow) /\ InStep(h)
          /\ \A c \in Buffered : c <= heard
      BY <3>1 DEF At
    <3>4. f <= heard /\ heard < h + size
      BY <1>2, <2>2, <3>2, <3>3 DEF InStep
    <3>5. f < h + size
      BY <1>0, <1>1, <3>4
    <3>6. w = RxWindow /\ heard' < h + size /\ h <= heard' + 1 /\ h <= h
      BY <3>1, <3>5
    <3>7. \A c \in Buf(RxWindow) : c <= heard'
      BY <1>1, <1>2, <3>3, BufNumbers
    <3>8. Leads(RxWindow, RxWindow)
      BY <1>2, LeadsNowhere
    <3> HIDE DEF w
    <3>9. \A g \in Content(RxWindow) : g \in Content(RxWindow) \/ (g \in Nat /\ h <= g)
      OBVIOUS
    <3>10. RxRests(RxWindow)
      BY <1>0, <1>1, <1>2, <3>1, <3>3, <3>6, <3>7, <3>8, <3>9, RxSettles
    <3> QED BY <2>1, <3>1, <3>2, <3>6, <3>10
  <2>6. work \subseteq work' /\ work' \subseteq {"queued", "running"}
    BY <1>4, <2>1
  <2> HIDE DEF w, b
  <2> QED BY <1>0, <1>1, <1>2, <1>4, <2>1, <2>3, <2>4, <2>5, <2>6, RxSection
<1>8. CASE w.buf[s] = Empty
  <2> DEFINE u == Stored(w, f)
             v == ReleaseHead(u)
  <2>1. SetRxWindow(v) /\ work' = work \cup {"queued"} /\ robbed' = robbed
    BY <1>8 DEF Store, StoreAfter, Stored
  <2>2. /\ Typed(u) /\ u.size = size /\ Buf(u) = Buf(w) \cup {f}
        /\ Content(u) = Content(RxWindow) \cup {f}
    BY <1>2, <1>8, StoredTyped
  <2> HIDE DEF u
  <2>3. Leads(u, v) /\ HoleAtHead(v)
    BY <2>2, ReleaseHeadLeads
  <2> HIDE DEF v
  <2>4. Typed(v) /\ v.size = size /\ Content(v) = Content(u)
    BY <2>2, <2>3 DEF Leads, From
  <2>5. got' \subseteq ToSet(delivered) \cup ToSet(workList) \cup Content(v) \cup robbed'
    BY <1>2, <1>5, <2>1, <2>2, <2>4
  <2>6. ASSUME SlotsApart' PROVE robbed' = {} /\ RxRests(v)
    <3>1. PICK h \in Nat, k \in Nat :
               /\ At(h) /\ h < f /\ robbed = {}
               /\ Good(w, k) /\ h <= k /\ k <= f /\ f < k + size /\ Apart(size, k, f)
               /\ k <= heard' + 1 /\ heard' < k + size
      BY <1>6, <2>6
    <3>2. Good(u, k)
      BY <1>2, <1>8, <3>1, StoredGood DEF u
    <3>3. \A c \in Buffered : c <= heard
      BY <3>1 DEF At
    <3>4. \A c \in Buf(u) : c <= heard'
      <4>1. \A c \in Buf(w) : c \in Nat /\ c <= heard
        BY <1>2, <3>3, BufNumbers
      <4>2. \A c \in Buf(w) : c <= heard'
        BY <1>1, <4>1
      <4> QED BY <1>1, <2>2, <4>2
    <3>5. h <= f
      BY <1>1, <3>1
    <3>6. \A g \in Content(u) : g \in Content(RxWindow) \/ (g \in Nat /\ h <= g)
      BY <1>1, <2>2, <3>5
    <3> HIDE DEF w
    <3>7. RxRests(v)
      BY <1>0, <1>1, <2>2, <2>3, <3>1, <3>2, <3>4, <3>6, RxSettles
    <3> QED BY <2>1, <3>1, <3>7
  <2>7. work \subseteq work' /\ work' \subseteq {"queued", "running"} /\ robbed' \subseteq Frames
    BY <1>4, <2>1
  <2> HIDE DEF w
  <2> QED BY <1>0, <1>1, <1>4, <2>1, <2>4, <2>5, <2>6, <2>7, RxSection
<1> QED BY <1>7, <1>8

LEMMA ReceiveStep ==
  ASSUME IInv, NEW f \in Frames, Receive(f)
  PROVE  IInv'
<1>1. RxFrame(f)
  BY DEF Receive, RxFrame
<1>2. CASE SnLess(f % SN, head)
  <2>1. /\ started' = started /\ work' = work /\ robbed' = robbed /\ got' = got
        /\ head' = head /\ buf' = buf /\ rxList' = rxList
        /\ UNCHANGED <<workList, delivered, overtaken>>
    BY <1>2 DEF Receive, lists
  <2>2. SetRxWindow(RxWindow)
    BY <2>1 DEF SetRxWindow, SetWindow, RxWindow
  <2> QED BY <1>1, <1>2, <2>1, <2>2, RxOldFrame
<1>3. CASE ~SnLess(f % SN, head) /\ f % SN = head
  <2> DEFINE v == [head |-> (head + 1) % SN, buf |-> buf, out |-> Append(rxList, f),
                   size |-> size]
  <2>1. /\ started' = TRUE /\ work' = work /\ robbed' = robbed /\ got' = got \cup {f}
        /\ SetRxWindow(IF Buffered = {} THEN v ELSE ReleaseHead(v))
    BY <1>3 DEF Receive
  <2> QED BY <1>1, <1>3, <2>1, RxNextFrame
<1>4. CASE ~SnLess(f % SN, head) /\ f % SN # head
  <2>1. started' = TRUE /\ got' = got \cup {f} /\ Store(f)
    BY <1>4 DEF Receive
  <2> QED BY <1>1, <1>4, <2>1, RxStoreFrame
<1> QED BY <1>2, <1>3, <1>4

LEMMA BlockAckReqStep ==
  ASSUME IInv, NEW f \in Frames, BlockAckReq(f)
  PROVE  IInv'
<1> DEFINE w == ReleaseTo(RxWindow, f % SN)
           v == ReleaseHead(w)
<1>0. /\ session = "active" /\ session' = "active" /\ size' = size /\ first' = first
      /\ started' = started /\ work' = work /\ robbed' = robbed /\ got' = got
      /\ again' = again /\ Hear(f) /\ TypeOK /\ SlotMatch /\ SetRxWindow(v)
      /\ heard \in Frames /\ first \in Nat /\ size \in Nat \ {0}
  <2>1. /\ session = "active" /\ session' = "active" /\ size' = size /\ first' = first
        /\ started' = started /\ work' = work /\ robbed' = robbed /\ got' = got
        /\ again' = again /\ Hear(f) /\ TypeOK /\ SlotMatch /\ SetRxWindow(v)
    BY DEF BlockAckReq, IInv
  <2> QED BY <2>1, FramesAreNumbers, Sizing DEF TypeOK
<1>1. /\ f \in Nat /\ heard \in Nat /\ heard' \in Nat /\ heard' \in Frames
      /\ heard <= heard' /\ f <= heard' /\ (heard' = heard \/ heard' = f)
  BY <1>0, HearsNext
<1>2. /\ Typed(RxWindow) /\ RxWindow.size = size /\ Buf(RxWindow) = Buffered
      /\ Typed(w) /\ From(RxWindow, w)
  <2>1. Typed(RxWindow) /\ RxWindow.size = size /\ Buf(RxWindow) = Buffered
    BY <1>0, WindowsTyped
  <2> QED BY <1>1, <2>1, ReleaseToTyped
<1>3. w.size = size /\ Buf(w) \subseteq Buffered /\ Content(w) = Content(RxWindow)
  BY <1>2, BufShrinks DEF From
<1>4. Leads(w, v) /\ HoleAtHead(v)
  BY <1>2, ReleaseHeadLeads
<1>5. Typed(v) /\ v.size = size /\ Content(v) = Content(RxWindow)
  BY <1>3, <1>4 DEF Leads, From
<1> HIDE DEF v
<1>6. ASSUME SlotsApart' PROVE robbed' = {} /\ RxRests(v)
  <2>1. SlotsApart
    BY <1>0, <1>1, <1>6, ApartBefore
  <2>2. PICK h \in Nat : At(h)
    BY <1>0, <2>1, ActiveAt
  <2>3. robbed = {} /\ Good(RxWindow, h) /\ InStep(h) /\ \A b \in Buffered : b <= heard
    BY <1>0, <2>1, <2>2, ActiveAt DEF At
  <2>4. 2 * (h - f) < SN /\ 2 * (f - h) < SN
    BY <1>0, <2>3, HearsNear
  <2>5. heard < h + size /\ h <= heard + 1
    BY <2>3 DEF InStep
  <2>6. \E k \in Nat : Good(w, k) /\ h <= k /\ k <= heard' + 1 /\ heard' < k + size
    <3>1. CASE f <= h
      <4>1. w = RxWindow
        BY <1>1, <1>2, <2>3, <2>4, <3>1, ReleaseToGood
      <4>2. f < h + size
        BY <1>0, <1>1, <2>5, <3>1, NewestNear
      <4>3. h <= heard' + 1 /\ heard' < h + size
        BY <1>0, <1>1, <2>5, <4>2, NewestNear
      <4>4. h <= h
        OBVIOUS
      <4> HIDE DEF w
      <4> QED BY <2>3, <4>1, <4>3, <4>4
    <3>2. CASE h < f
      <4>1. Good(w, f)
        BY <1>1, <1>2, <2>3, <2>4, <3>2, ReleaseToGood
      <4>2. f <= heard' + 1 /\ heard' < f + size
        BY <1>0, <1>1, <2>5, <3>2, NewestNear
      <4>3. h <= f
        BY <1>1, <3>2
      <4> HIDE DEF w
      <4> QED BY <1>1, <4>1, <4>2, <4>3
    <3>3. f <= h \/ h < f
      BY <1>1
    <3> HIDE DEF w
    <3> QED BY <3>1, <3>2, <3>3
  <2>7. PICK k \in Nat : Good(w, k) /\ h <= k /\ k <= heard' + 1 /\ heard' < k + size
    BY <2>6
  <2>8. \A b \in Buf(w) : b <= heard'
    BY <1>1, <1>2, <1>3, <2>3, BufNumbers
  <2>9. \A g \in Content(w) : g \in Content(RxWindow) \/ (g \in Nat /\ h <= g)
    BY <1>3
  <2> HIDE DEF w
  <2>10. RxRests(v)
    BY <1>0, <1>1, <1>2, <1>3, <1>4, <2>2, <2>7, <2>8, <2>9, RxSettles
  <2> QED BY <1>0, <2>3, <2>10
<1>7. /\ started' \in BOOLEAN /\ got' \subseteq Frames /\ robbed' \subseteq Frames
      /\ work \subseteq work' /\ work' \subseteq {"queued", "running"}
  BY <1>0 DEF TypeOK
<1>8. got' \subseteq ToSet(delivered) \cup ToSet(workList) \cup Content(v) \cup robbed'
  BY <1>0, <1>5, KeptContent
<1> QED BY <1>0, <1>1, <1>5, <1>6, <1>7, <1>8, RxSection

-----------------------------------------------------------------------------
(* The steps that leave the window alone: the lists may go up.              *)
LEMMA ListsMove ==
  ASSUME IInv, session' = session, size' = size, head' = head, buf' = buf,
         heard' = heard, first' = first, robbed' = robbed, got' = got,
         delivered' \in Seq(Frames),
         ToSet(delivered') \cup ToSet(rxList') \cup ToSet(workList')
           = ToSet(delivered) \cup ToSet(rxList) \cup ToSet(workList),
         rxList' \in {rxList, <<>>}, workList' \in {workList, <<>>},
         SlotsApart => Ordered(rxList', workList', delivered', overtaken')
  PROVE  SlotMatch' /\ OrderKept' /\ SessionOk'
<1>0. TypeOK /\ SlotMatch /\ SessionOk
  BY DEF IInv
<1>1. /\ Slots' = Slots /\ Buffered' = Buffered /\ (SlotsApart' <=> SlotsApart)
      /\ Kept' = Kept
  BY DEF Slots, Buffered, SlotsApart, Kept
<1>2. SlotMatch' /\ OrderKept'
  BY <1>0, <1>1 DEF SlotMatch, OrderKept, Slot, RxWindow
<1>3. /\ RxWindow.head = head /\ RxWindow.buf = buf /\ RxWindow.out = rxList
      /\ WorkWindow.head = head /\ WorkWindow.buf = buf /\ WorkWindow.out = workList
      /\ RxWindow.size = size /\ WorkWindow.size = size
      /\ Buf(RxWindow) = Buffered /\ Buf(WorkWindow) = Buffered
  BY <1>0, WindowsTyped
<1> DEFINE x == RxWindow'
           y == WorkWindow'
<1>4. /\ x.head = head /\ x.buf = buf /\ x.out = rxList' /\ x.size = size
      /\ y.head = head /\ y.buf = buf /\ y.out = workList' /\ y.size = size
  BY DEF RxWindow, WorkWindow
<1> HIDE DEF x, y
<1>5. Buf(x) = Buffered /\ Buf(y) = Buffered
  BY <1>4 DEF Buf, Buffered, Slots
<1>6. Rising(<<>>) /\ \A h \in Nat : \A i \in 1..Len(<<>>) : <<>>[i] < h
  BY DEF Rising
<1>7. ASSUME NEW h \in Nat, At(h) PROVE At(h)'
  <2>1. Good(RxWindow, h) /\ Good(WorkWindow, h) /\ HoleAtHead(RxWindow) /\ InStep(h)
    BY <1>7 DEF At
  <2>2. Good(x, h)
    BY <1>3, <1>4, <1>5, <1>6, <2>1 DEF Good
  <2>3. Good(y, h)
    BY <1>3, <1>4, <1>5, <1>6, <2>1 DEF Good
  <2>4. HoleAtHead(x)
    BY <1>3, <1>4, <2>1 DEF HoleAtHead, Slot
  <2>5. InStep(h)'
    BY <2>1 DEF InStep
  <2>6. \A d \in ToSet(delivered') : d < h
    <3>1. \A d \in ToSet(delivered) \cup ToSet(workList) : d < h
      BY <1>0, <1>7, AtOlder
    <3>2. \A d \in ToSet(rxList) : d < h
      <4>1. \A i \in 1..Len(rxList) : rxList[i] < h
        BY <1>3, <2>1 DEF Good
      <4> QED BY <1>0, <4>1, SeqMembers DEF TypeOK
    <3> QED BY <3>1, <3>2
  <2>7. \A b \in Buffered' : b <= heard'
    BY <1>1, <1>7 DEF At
  <2> QED BY <2>2, <2>3, <2>4, <2>5, <2>6, <2>7 DEF At, x, y
<1>8. SessionOk'
  <2>1. CASE session = "active"
    <3>1. NoneMissing'
      BY <1>0, <1>1, <2>1 DEF SessionOk, NoneMissing
    <3>2. SlotsApart' => robbed' = {} /\ \E h \in Nat : At(h)'
      BY <1>0, <1>1, <1>7, <2>1 DEF SessionOk
    <3> QED BY <2>1, <3>1, <3>2 DEF SessionOk
  <2>2. CASE session # "active"
    BY <1>0, <2>2 DEF SessionOk, NoFrames
  <2> QED BY <2>1, <2>2
<1> QED BY <1>2, <1>8

(* The types of what a step of the work or of a hand-over touches.          *)
LEMMA ListsTyped ==
  ASSUME TypeOK, session' = session, size' = size, head' = head, buf' = buf,
         heard' = heard, first' = first, robbed' = robbed, got' = got,
         started' = started, delivered' \in Seq(Frames), rxList' \in {rxList, <<>>},
         workList' \in {workList, <<>>}, overtaken' \subseteq Frames,
         work' \subseteq {"queued", "running"}, again' \in BOOLEAN
  PROVE  TypeOK'
<1>1. Slots' = Slots /\ <<>> \in Seq(Frames)
  BY DEF Slots
<1> QED BY <1>1 DEF TypeOK

LEMMA HandUpMembers ==
  ASSUME TypeOK, NEW list \in {rxList, workList}, NEW other \in {rxList, workList},
         HandUp(list, other)
  PROVE  /\ delivered' \in Seq(Frames) /\ overtaken' \subseteq Frames
         /\ ToSet(delivered') = ToSet(delivered) \cup ToSet(list)
<1>1. list \in Seq(Frames) /\ other \in Seq(Frames) /\ delivered \in Seq(Frames)
      /\ overtaken \subseteq Frames
  BY DEF TypeOK
<1>2. delivered' = delivered \o list
  BY DEF HandUp
<1>3. overtaken' \subseteq Frames
  BY <1>1, SeqMembers DEF HandUp
<1> QED BY <1>1, <1>2, <1>3, JoinedMembers

LEMMA RxDeliverStep == ASSUME IInv, RxDeliver PROVE IInv'
<1>0. /\ rxList' = <<>> /\ HandUp(rxList, workList)
      /\ UNCHANGED <<session, size, first, head, buf, started, work, again, heard,
                     workList, robbed, got>>
      /\ TypeOK /\ OrderKept /\ WorkOk
  BY DEF RxDeliver, IInv
<1>1. /\ rxList \in Seq(Frames) /\ workList \in Seq(Frames) /\ delivered \in Seq(Frames)
      /\ work \subseteq {"queued", "running"} /\ again \in BOOLEAN
  BY <1>0 DEF TypeOK
<1>2. /\ delivered' \in Seq(Frames) /\ overtaken' \subseteq Frames
      /\ ToSet(delivered') = ToSet(delivered) \cup ToSet(rxList)
  BY <1>0, HandUpMembers
<1>3. ToSet(<<>>) = {}
  BY DEF ToSet
<1>4. SlotsApart => Ordered(rxList', workList', delivered', overtaken')
  <2>1. SUFFICES ASSUME SlotsApart
                 PROVE  Ordered(rxList', workList', delivered', overtaken')
    OBVIOUS
  <2>2. Ordered(rxList, workList, delivered, overtaken)
    BY <1>0, <2>1 DEF OrderKept
  <2>3. Ordered(<<>>, workList, delivered \o rxList,
                overtaken \cup {g \in ToSet(workList) : \E f \in ToSet(rxList) : g < f})
    BY <1>1, <2>2, OrderHandsUp
  <2> QED BY <1>0, <2>3 DEF HandUp
<1>5. SlotMatch' /\ OrderKept' /\ SessionOk'
  <2>1. ToSet(delivered') \cup ToSet(rxList') \cup ToSet(workList')
          = ToSet(delivered) \cup ToSet(rxList) \cup ToSet(workList)
    BY <1>0, <1>2, <1>3
  <2> QED BY <1>0, <1>2, <1>4, <2>1, ListsMove
<1>6. TypeOK'
  BY <1>0, <1>1, <1>2, ListsTyped
<1>7. WorkOk'
  BY <1>0 DEF WorkOk, NoWorkWithoutSession
<1> QED BY <1>5, <1>6, <1>7 DEF IInv

LEMMA WorkEndStep == ASSUME IInv, WorkEnd PROVE IInv'
<1>0. /\ workList' = <<>> /\ HandUp(workList, rxList) /\ work' = work \ {"running"}
      /\ UNCHANGED <<session, size, first, head, buf, started, again, heard, rxList,
                     robbed, got>>
      /\ TypeOK /\ OrderKept /\ WorkOk
  BY DEF WorkEnd, IInv
<1>1. /\ rxList \in Seq(Frames) /\ workList \in Seq(Frames) /\ delivered \in Seq(Frames)
      /\ work' \subseteq {"queued", "running"} /\ again \in BOOLEAN
  BY <1>0 DEF TypeOK
<1>2. /\ delivered' \in Seq(Frames) /\ overtaken' \subseteq Frames
      /\ ToSet(delivered') = ToSet(delivered) \cup ToSet(workList)
  BY <1>0, HandUpMembers
<1>3. ToSet(<<>>) = {}
  BY DEF ToSet
<1>4. SlotsApart => Ordered(rxList', workList', delivered', overtaken')
  <2>1. SUFFICES ASSUME SlotsApart
                 PROVE  Ordered(rxList', workList', delivered', overtaken')
    OBVIOUS
  <2>2. Ordered(workList, rxList, delivered, overtaken)
    BY <1>0, <2>1, OrderTurns DEF OrderKept
  <2>3. Ordered(<<>>, rxList, delivered \o workList,
                overtaken \cup {g \in ToSet(rxList) : \E f \in ToSet(workList) : g < f})
    BY <1>1, <2>2, OrderHandsUp
  <2>4. Ordered(<<>>, rxList, delivered', overtaken')
    BY <1>0, <2>3 DEF HandUp
  <2> QED BY <1>0, <2>4, OrderTurns
<1>5. SlotMatch' /\ OrderKept' /\ SessionOk'
  <2>1. ToSet(delivered') \cup ToSet(rxList') \cup ToSet(workList')
          = ToSet(delivered) \cup ToSet(rxList) \cup ToSet(workList)
    BY <1>0, <1>2, <1>3
  <2> QED BY <1>0, <1>2, <1>4, <2>1, ListsMove
<1>6. TypeOK'
  BY <1>0, <1>1, <1>2, ListsTyped
<1>7. WorkOk'
  BY <1>0 DEF WorkOk, NoWorkWithoutSession
<1> QED BY <1>5, <1>6, <1>7 DEF IInv

(* Nothing moves but the work and its flag.                                 *)
LEMMA OnlyWorkMoves ==
  ASSUME IInv, UNCHANGED <<session, size, first, head, buf, started, heard, robbed, got, lists>>,
         work' \subseteq {"queued", "running"}, again' \in BOOLEAN, WorkOk'
  PROVE  IInv'
<1>0. /\ UNCHANGED <<session, size, first, head, buf, started, heard, robbed, got>>
      /\ UNCHANGED <<rxList, workList, delivered, overtaken>>
      /\ TypeOK /\ OrderKept
  BY DEF lists, IInv
<1>1. delivered' \in Seq(Frames) /\ overtaken' \subseteq Frames
  BY <1>0 DEF TypeOK
<1>2. SlotsApart => Ordered(rxList', workList', delivered', overtaken')
  BY <1>0 DEF OrderKept
<1>3. SlotMatch' /\ OrderKept' /\ SessionOk'
  BY <1>0, <1>1, <1>2, ListsMove
<1>4. TypeOK'
  BY <1>0, <1>1, ListsTyped
<1> QED BY <1>3, <1>4 DEF IInv

LEMMA WorkRequeueStep == ASSUME IInv, WorkRequeue PROVE IInv'
<1>1. /\ "running" \in work /\ work' = work \cup {"queued"} /\ again' = FALSE
      /\ UNCHANGED <<session, size, first, head, buf, started, heard, robbed, got, lists>>
      /\ WorkOk /\ TypeOK
  BY DEF WorkRequeue, IInv
<1>2. work' \subseteq {"queued", "running"} /\ again' \in BOOLEAN
  BY <1>1 DEF TypeOK
<1>3. WorkOk'
  BY <1>1 DEF WorkOk, NoWorkWithoutSession, lists
<1> QED BY <1>1, <1>2, <1>3, OnlyWorkMoves

(* The locked part of the work.                                             *)
LEMMA WorkRunStep ==
  ASSUME IInv, NEW expired \in SUBSET Buffered, WorkRun(expired)
  PROVE  IInv'
<1> DEFINE w == IF Buffered = {} THEN WorkWindow ELSE CheckRelease(WorkWindow, expired)
<1>0. /\ session # "none" /\ work' = {"running"} /\ again' \in BOOLEAN
      /\ SetWindow(w) /\ workList' = w.out
      /\ UNCHANGED <<session, size, first, started, heard, rxList, delivered,
                     overtaken, robbed, got>>
      /\ TypeOK /\ SlotMatch /\ OrderKept /\ SessionOk
  BY DEF WorkRun, IInv
<1>1. WorkOk'
  BY <1>0 DEF WorkOk, NoWorkWithoutSession
<1>2. /\ Typed(WorkWindow) /\ WorkWindow.size = size /\ Buf(WorkWindow) = Buffered
      /\ WorkWindow.head = head /\ WorkWindow.buf = buf /\ WorkWindow.out = workList
      /\ RxWindow.out = rxList
  BY <1>0, WindowsTyped
<1>3. CASE Buffered = {}
  <2>1. head' = head /\ buf' = buf /\ workList' = workList
    BY <1>0, <1>2, <1>3 DEF SetWindow
  <2> HIDE DEF w
  <2>2. UNCHANGED <<session, size, first, head, buf, started, heard, robbed, got, lists>>
    BY <1>0, <2>1 DEF lists
  <2>3. work' \subseteq {"queued", "running"}
    BY <1>0
  <2> QED BY <1>0, <1>1, <2>2, <2>3, OnlyWorkMoves
<1>4. CASE Buffered # {}
  <2>1. session = "active"
    <3>1. \A i \in Slots : NoFrames(size)[i] = Empty
      BY DEF NoFrames, Slots
    <3>2. buf # NoFrames(size)
      BY <1>4, <3>1 DEF Buffered
    <3> QED BY <1>0, <3>2 DEF SessionOk
  <2>2. Leads(WorkWindow, w) /\ HoleAtHead(w)
    BY <1>2, <1>4, CheckReleaseLeads
  <2> HIDE DEF w
  <2>3. Typed(w) /\ w.size = size /\ Content(w) = Content(WorkWindow)
        /\ Buf(w) \subseteq Buffered
    BY <1>2, <2>2, BufShrinks DEF Leads, From
  <2>4. WindowNext /\ Buffered' = Buf(w)
    BY <1>0, <2>3, WindowLeft
  <2>5. /\ rxList \in Seq(Frames) /\ workList \in Seq(Frames) /\ delivered \in Seq(Frames)
        /\ w.out \in Seq(Frames)
    BY <1>0, <2>3 DEF TypeOK, Typed
  <2>6. TypeOK' /\ SlotMatch'
    BY <1>0, <2>4, <2>5 DEF TypeOK, WindowNext
  <2>7. NoneMissing'
    <3>1. got \subseteq ToSet(delivered) \cup ToSet(rxList) \cup Content(w) \cup robbed
      BY <2>1, <2>3, KeptContent
    <3> QED BY <1>0, <2>4, <3>1 DEF NoneMissing, Kept, Content
  <2>8. SlotsApart' => SlotsApart
    BY <1>0 DEF SlotsApart
  <2>9. ASSUME SlotsApart
        PROVE  /\ robbed' = {} /\ \E k \in Nat : At(k)'
               /\ Ordered(rxList, workList, delivered, overtaken)'
    <3>1. PICK h \in Nat : At(h)
      BY <2>1, <2>9, ActiveAt
    <3>2. /\ robbed = {} /\ Good(RxWindow, h) /\ Good(WorkWindow, h) /\ InStep(h)
          /\ \A b \in Buffered : b <= heard
          /\ \A d \in ToSet(delivered) : d < h
      BY <2>1, <2>9, <3>1, ActiveAt DEF At
    <3>3. heard \in Nat /\ heard < h + size /\ h <= heard + 1
          /\ Ssn <= h /\ first <= h /\ first \in Nat /\ Ssn \in Nat /\ size \in Nat \ {0}
      BY <1>0, <3>2, FramesAreNumbers, Numbers, Sizing DEF TypeOK, InStep
    <3>4. PICK k \in Nat : /\ Good(w, k) /\ h <= k /\ k <= heard + 1 /\ heard < k + w.size
                           /\ \A b \in Buf(w) : b <= heard
      BY <1>2, <2>2, <3>2, <3>3, Settles
    <3>5. InStep(k)'
      <4>1. Ssn <= k /\ first <= k
        BY <3>3, <3>4
      <4> QED BY <1>0, <2>3, <3>4, <4>1 DEF InStep
    <3>6. \A e \in ToSet(delivered) \cup ToSet(rxList) : e \in Nat /\ e < h
      <4>1. \A i \in 1..Len(rxList) : rxList[i] < h
        BY <1>2, <3>2 DEF Good
      <4>2. \A e \in ToSet(rxList) : e < h
        BY <2>5, <4>1, SeqMembers
      <4> QED BY <2>5, <3>2, <4>2, SeqMembers
    <3>7. \A e \in ToSet(delivered) \cup ToSet(rxList) : e < k
      BY <3>4, <3>6
    <3>8. Ordered(w.out, rxList, delivered, overtaken)
      <4>1. Rising(w.out)
        BY <3>4 DEF Good
      <4>2. ASSUME NEW g \in ToSet(w.out), g \notin ToSet(workList)
            PROVE  \A e \in ToSet(delivered) \cup ToSet(rxList) : e < g
        <5>1. g \in Buffered
          BY <1>2, <2>3, <4>2 DEF Content
        <5>2. g \in Nat /\ h <= g
          BY <1>2, <3>2, <5>1, BufNumbers DEF Good
        <5> QED BY <3>6, <5>2
      <4>3. Ordered(workList, rxList, delivered, overtaken)
        BY <1>0, <2>9, OrderTurns DEF OrderKept
      <4> QED BY <2>5, <4>1, <4>2, <4>3, OrderGrows
    <3>9. Ordered(rxList, workList, delivered, overtaken)'
      BY <1>0, <3>8, OrderTurns
    <3> DEFINE x == RxWindow'
               y == WorkWindow'
    <3>10. /\ x.head = w.head /\ x.buf = w.buf /\ x.out = rxList /\ x.size = w.size
           /\ y = w
      <4>1. w = [head |-> w.head, buf |-> w.buf, out |-> w.out, size |-> w.size]
        BY <2>3 DEF Typed
      <4> QED BY <1>0, <2>3, <4>1 DEF SetWindow, RxWindow, WorkWindow
    <3> HIDE DEF x, y
    <3>11. Good(x, k)
      <4>1. Buf(x) = Buf(w)
        BY <3>10 DEF Buf
      <4>2. Rising(rxList)
        BY <3>9, <1>0 DEF Ordered
      <4>3. \A i \in 1..Len(rxList) : rxList[i] < k
        BY <2>5, <3>7, SeqMembers
      <4> QED BY <3>4, <3>10, <4>1, <4>2, <4>3 DEF Good
    <3>12. HoleAtHead(x)
      BY <2>2, <3>10 DEF HoleAtHead, Slot
    <3>13. Good(y, k)
      BY <3>4, <3>10
    <3>14. At(k)'
      BY <1>0, <2>4, <3>4, <3>5, <3>7, <3>11, <3>12, <3>13 DEF At, x, y
    <3> QED BY <1>0, <3>2, <3>9, <3>14
  <2>10. SessionOk' /\ OrderKept'
    BY <1>0, <2>1, <2>7, <2>8, <2>9 DEF SessionOk, OrderKept
  <2> QED BY <1>1, <2>6, <2>10 DEF IInv
<1> QED BY <1>3, <1>4

-----------------------------------------------------------------------------
(* Start and stop of the session.                                           *)

LEMMA EmptyBuffer ==
  ASSUME NEW n \in Sizes
  PROVE  /\ NoFrames(n) \in [0..(n - 1) -> Frames \cup {Empty}]
         /\ \A i \in 0..(n - 1) : NoFrames(n)[i] = Empty
BY DEF NoFrames

LEMMA StartStep ==
  ASSUME IInv, NEW ssn \in Frames \ {Ssn - 1}, NEW n \in Sizes, Start(ssn, n)
  PROVE  IInv'
<1>0. /\ session = "none" /\ session' = "active" /\ size' = n /\ head' = ssn % SN
      /\ buf' = NoFrames(n) /\ started' = FALSE /\ heard' = ssn - 1 /\ first' = ssn
      /\ rxList' = <<>> /\ delivered' = <<>> /\ overtaken' = {}
      /\ robbed' = {} /\ got' = {} /\ work' = work /\ again' = again
      /\ workList' = workList /\ TypeOK /\ WorkOk
  BY DEF Start, IInv
<1>1. /\ ssn \in Nat /\ ssn \in Frames /\ ssn - 1 \in Frames /\ Ssn <= ssn /\ ssn - 1 \in Nat
      /\ n \in Nat \ {0} /\ SN \in Nat
  BY Numbers DEF Frames
<1>2. workList' = <<>>
  BY <1>0 DEF WorkOk, NoWorkWithoutSession
<1>3. ToSet(<<>>) = {} /\ <<>> \in Seq(Frames) /\ Len(<<>>) = 0
  BY DEF ToSet
<1>4. Slots' = 0..(n - 1) /\ \A i \in 0..(n - 1) : buf'[i] = Empty
  BY <1>0, EmptyBuffer DEF Slots
<1>5. TypeOK'
  <2>1. head' \in 0..(SN - 1)
    BY <1>0, <1>1, NumberInSpace
  <2>2. buf' \in [0..(n - 1) -> Frames \cup {Empty}]
    BY <1>0, EmptyBuffer
  <2>3. work' \subseteq {"queued", "running"} /\ again' \in BOOLEAN
    BY <1>0 DEF TypeOK
  <2> QED BY <1>0, <1>1, <1>2, <1>3, <1>4, <2>1, <2>2, <2>3 DEF TypeOK
<1>6. SlotMatch' /\ Buffered' = {}
  BY <1>4 DEF SlotMatch, Buffered
<1>7. Ordered(<<>>, <<>>, <<>>, {})
  BY <1>3 DEF Ordered, Rising, Follows
<1>8. OrderKept'
  BY <1>0, <1>2, <1>7 DEF OrderKept
<1> DEFINE w == [head |-> ssn % SN, buf |-> NoFrames(n), out |-> <<>>, size |-> n]
<1>9. RxWindow' = w /\ WorkWindow' = w
  BY <1>0, <1>2 DEF RxWindow, WorkWindow
<1>10. /\ w.head = ssn % SN /\ w.buf = NoFrames(n) /\ w.out = <<>> /\ w.size = n
  OBVIOUS
<1> HIDE DEF w
<1>11. Buf(w) = {}
  BY <1>10, EmptyBuffer DEF Buf
<1>12. Good(w, ssn)
  BY <1>3, <1>10, <1>11 DEF Good, Rising
<1>13. HoleAtHead(w)
  <2>1. w.head \in Nat
    BY <1>1, <1>10, NumberInSpace
  <2>2. Slot(w, w.head) \in 0..(n - 1)
    BY <1>10, <2>1, SlotIn
  <2> QED BY <1>10, <2>2, EmptyBuffer DEF HoleAtHead
<1>14. InStep(ssn)'
  <2>1. ssn - 1 < ssn + n /\ ssn <= (ssn - 1) + 1 /\ ssn <= ssn
    BY <1>1
  <2> QED BY <1>0, <1>1, <2>1 DEF InStep
<1>15. At(ssn)'
  BY <1>0, <1>1, <1>3, <1>6, <1>9, <1>12, <1>13, <1>14 DEF At
<1>16. SessionOk'
  BY <1>0, <1>1, <1>15 DEF SessionOk, NoneMissing
<1>17. WorkOk'
  BY <1>0, <1>2 DEF WorkOk, NoWorkWithoutSession
<1> QED BY <1>5, <1>6, <1>8, <1>16, <1>17 DEF IInv

LEMMA StopStep == ASSUME IInv, Stop PROVE IInv'
<1>0. /\ session = "active" /\ session' = "stopped" /\ buf' = NoFrames(size)
      /\ UNCHANGED <<size, first, head, started, work, again, heard, robbed, got>>
      /\ UNCHANGED <<rxList, workList, delivered, overtaken>>
      /\ TypeOK /\ OrderKept /\ WorkOk
  BY DEF Stop, IInv, lists
<1>1. size \in Sizes /\ Slots' = 0..(size - 1)
  BY <1>0 DEF TypeOK, Slots
<1>2. /\ buf' \in [0..(size - 1) -> Frames \cup {Empty}]
      /\ \A i \in 0..(size - 1) : buf'[i] = Empty
  BY <1>0, <1>1, EmptyBuffer
<1>3. TypeOK'
  BY <1>0, <1>1, <1>2 DEF TypeOK
<1>4. SlotMatch'
  BY <1>1, <1>2 DEF SlotMatch
<1>5. OrderKept' /\ SessionOk' /\ WorkOk'
  BY <1>0 DEF OrderKept, SlotsApart, SessionOk, WorkOk, NoWorkWithoutSession
<1> QED BY <1>3, <1>4, <1>5 DEF IInv

LEMMA StopCancelStep == ASSUME IInv, StopCancel PROVE IInv'
<1>0. /\ session = "stopped" /\ session' = "none" /\ "running" \notin work /\ work' = {}
      /\ UNCHANGED <<size, first, head, buf, started, again, heard, robbed, got>>
      /\ UNCHANGED <<rxList, workList, delivered, overtaken>>
      /\ TypeOK /\ SlotMatch /\ OrderKept /\ SessionOk /\ WorkOk
  BY DEF StopCancel, IInv, lists
<1>1. TypeOK'
  BY <1>0 DEF TypeOK, Slots
<1>2. SlotMatch'
  BY <1>0 DEF SlotMatch, Slots, RxWindow, Slot
<1>3. OrderKept' /\ SessionOk'
  BY <1>0 DEF OrderKept, SlotsApart, SessionOk
<1>4. WorkOk'
  BY <1>0 DEF WorkOk, NoWorkWithoutSession
<1> QED BY <1>1, <1>2, <1>3, <1>4 DEF IInv

-----------------------------------------------------------------------------
LEMMA InitKeeps == Init => IInv
<1> SUFFICES ASSUME Init PROVE IInv
  OBVIOUS
<1>0. /\ session = "none" /\ size \in Sizes /\ head = 0 /\ buf = NoFrames(size)
      /\ started = FALSE /\ work = {} /\ again = FALSE /\ heard = Ssn - 1 /\ first = Ssn
      /\ rxList = <<>> /\ workList = <<>> /\ delivered = <<>> /\ overtaken = {}
      /\ robbed = {} /\ got = {}
  BY DEF Init
<1>1. Ssn - 1 \in Frames /\ Ssn \in Frames /\ 0 \in 0..(SN - 1)
  BY Numbers DEF Frames
<1>2. /\ buf \in [0..(size - 1) -> Frames \cup {Empty}]
      /\ \A i \in 0..(size - 1) : buf[i] = Empty
  BY <1>0, EmptyBuffer
<1>3. ToSet(<<>>) = {} /\ <<>> \in Seq(Frames) /\ Len(<<>>) = 0
  BY DEF ToSet
<1>4. TypeOK /\ SlotMatch
  BY <1>0, <1>1, <1>2, <1>3 DEF TypeOK, SlotMatch, Slots
<1>5. Ordered(<<>>, <<>>, <<>>, {})
  BY <1>3 DEF Ordered, Rising, Follows
<1>6. OrderKept
  BY <1>0, <1>5 DEF OrderKept
<1>7. SessionOk /\ WorkOk
  BY <1>0 DEF SessionOk, WorkOk, NoWorkWithoutSession
<1> QED BY <1>4, <1>6, <1>7 DEF IInv

LEMMA NextKeeps ==
  ASSUME IInv, [Next]_vars
  PROVE  IInv'
<1>1. CASE \E f \in Frames : Receive(f) \/ BlockAckReq(f)
  BY <1>1, ReceiveStep, BlockAckReqStep
<1>2. CASE \E expired \in SUBSET Buffered : WorkRun(expired)
  BY <1>2, WorkRunStep
<1>3. CASE \E ssn \in Frames \ {Ssn - 1}, n \in Sizes : Start(ssn, n)
  BY <1>3, StartStep
<1>4. CASE RxDeliver \/ WorkRequeue \/ WorkEnd \/ Stop \/ StopCancel
  BY <1>4, RxDeliverStep, WorkRequeueStep, WorkEndStep, StopStep, StopCancelStep
<1>5. CASE UNCHANGED vars
  <2>1. /\ UNCHANGED <<session, size, first, head, buf, started, heard, robbed, got, lists>>
        /\ work' = work /\ again' = again /\ WorkOk /\ TypeOK
    BY <1>5 DEF vars, IInv
  <2>2. work' \subseteq {"queued", "running"} /\ again' \in BOOLEAN
    BY <2>1 DEF TypeOK
  <2>3. WorkOk'
    BY <2>1 DEF WorkOk, NoWorkWithoutSession, lists
  <2> QED BY <2>1, <2>2, <2>3, OnlyWorkMoves
<1> QED BY <1>1, <1>2, <1>3, <1>4, <1>5 DEF Next

LEMMA IInvAlways == Spec => []IInv
BY InitKeeps, NextKeeps, PTL DEF Spec

-----------------------------------------------------------------------------
(* The theorems.  They hold for every sequence number space and every set   *)
(* of buffer sizes, whether the sizes divide the space or not.              *)

(* As long as no two frames of a window share a slot (the size divides the  *)
(* space, or the session's numbers have not come round), frames go up to    *)
(* mac80211 in sequence order and at most once, over repeats, block-ack     *)
(* requests and timeouts, except those overtaken while the other context    *)
(* held them: rx_worker and reorder_work hand over what they collected      *)
(* after they dropped tid->lock (agg-rx.c:105-112).                         *)
THEOREM InOrder == Spec => []DeliveredInOrder
<1>1. ASSUME IInv PROVE DeliveredInOrder
  <2>1. SUFFICES ASSUME SlotsApart,
                        NEW i \in DOMAIN delivered, NEW j \in DOMAIN delivered, i < j
                 PROVE  \/ delivered[i] < delivered[j]
                        \/ delivered[i] # delivered[j] /\ delivered[j] \in overtaken
    BY DEF DeliveredInOrder
  <2>2. DOMAIN delivered = 1..Len(delivered)
    BY <1>1 DEF IInv, TypeOK
  <2>3. Ordered(rxList, workList, delivered, overtaken)
    BY <1>1, <2>1 DEF IInv, OrderKept
  <2> QED BY <2>1, <2>2, <2>3 DEF Ordered
<1> QED BY <1>1, IInvAlways, PTL

(* Between locked sections every variable keeps its range and a buffered    *)
(* frame sits in the slot of its number, for any size; while slots are      *)
(* apart it is also ahead of the head and within the window.                *)
THEOREM WindowAlways == Spec => []WindowHolds
<1>1. ASSUME IInv PROVE WindowHolds
  <2>0. TypeOK /\ SlotMatch /\ SessionOk
    BY <1>1 DEF IInv
  <2>1. ASSUME NEW i \in Slots, buf[i] # Empty, SlotsApart
        PROVE  Distance(head, buf[i] % SN) \in 1..(size - 1)
    <3>1. session = "active"
      BY <2>0, <2>1 DEF SessionOk, NoFrames, Slots
    <3>2. PICK h \in Nat : At(h)
      BY <1>1, <2>1, <3>1, ActiveAt
    <3>3. /\ Good(RxWindow, h) /\ HoleAtHead(RxWindow) /\ Typed(RxWindow)
          /\ RxWindow.head = head /\ RxWindow.buf = buf /\ RxWindow.size = size
          /\ Buf(RxWindow) = Buffered
      BY <2>0, <3>2, WindowsTyped DEF At
    <3> DEFINE f == buf[i]
               d == f - h
    <3>4. f \in Buf(RxWindow) /\ f \in Nat
      BY <2>1, <3>3, BufNumbers DEF Buffered
    <3>5. h <= f /\ f < h + size /\ head = h % SN
      BY <3>3, <3>4 DEF Good
    <3>6. f # h
      <4>1. Slot(RxWindow, f % SN) = i
        BY <2>0, <2>1 DEF SlotMatch
      <4>2. buf[Slot(RxWindow, h % SN)] = Empty
        BY <3>3, <3>5 DEF HoleAtHead
      <4> QED BY <2>1, <4>1, <4>2
    <3> HIDE DEF f
    <3>7. d \in 1..(size - 1) /\ d \in 0..(SN - 1) /\ f = h + d
      BY <2>0, <3>4, <3>5, <3>6, Sizing, Numbers
    <3> HIDE DEF d
    <3>8. Distance(h % SN, f % SN) = d
      BY <3>7, DistanceUp
    <3> QED BY <3>5, <3>7, <3>8 DEF f
  <2> QED BY <2>0, <2>1 DEF WindowHolds, SlotMatch
<1> QED BY <1>1, IInvAlways, PTL

(* A frame received in an active session, not behind its window, went up,   *)
(* is held by rx_worker or reorder_work, or is buffered, unless it found    *)
(* another frame in its slot (agg-rx.c:226-229); and that happens only      *)
(* where two frames of a window can share a slot.                           *)
THEOREM NothingIsLost == Spec => []NothingLost
<1>1. IInv => NothingLost
  BY DEF IInv, SessionOk, NoneMissing, NothingLost
<1> QED BY <1>1, IInvAlways, PTL

(* A session that was freed leaves no work behind that would touch it.      *)
THEOREM FreedSessionHasNoWork == Spec => []NoWorkWithoutSession
<1>1. IInv => NoWorkWithoutSession
  BY DEF IInv, WorkOk
<1> QED BY <1>1, IInvAlways, PTL

-----------------------------------------------------------------------------
(* No wake-up is lost: while a frame is held, the work that releases frames *)
(* behind a hole is queued, or has seen it and is about to queue itself     *)
(* (agg-rx.c:109).  This is the safety half of HeldFrameIsReleased, and     *)
(* holds for any size.                                                      *)
HeldFrameIsAwaited ==
  Buffered # {} => "queued" \in work \/ ("running" \in work /\ again)

(* A window from which frames were only taken: what is left was awaited.    *)
LEMMA NothingHeldStays ==
  ASSUME IInv, HeldFrameIsAwaited, size' = size, again' = again, work' = work,
         NEW v, From(RxWindow, v), SetWindow(v)
  PROVE  HeldFrameIsAwaited'
<1>1. Buf(RxWindow) = Buffered /\ RxWindow.size = size
  BY WindowsTyped DEF IInv
<1>2. Buf(v) \subseteq Buffered /\ v.size = size
  BY <1>1, BufShrinks DEF From
<1>3. Buffered' = Buf(v)
  BY <1>2 DEF Buf, Buffered, Slots, SetWindow
<1> QED BY <1>2, <1>3 DEF HeldFrameIsAwaited

LEMMA ReceiveAwaited ==
  ASSUME IInv, HeldFrameIsAwaited, NEW f \in Frames, Receive(f)
  PROVE  HeldFrameIsAwaited'
<1>0. size' = size /\ again' = again
  BY DEF Receive
<1>1. CASE SnLess(f % SN, head)
  <2>1. buf' = buf /\ work' = work
    BY <1>1 DEF Receive
  <2> QED BY <1>0, <2>1 DEF HeldFrameIsAwaited, Buffered, Slots
<1>2. CASE ~SnLess(f % SN, head) /\ f % SN = head
  <2>1. work' = work /\ (Buffered = {} => buf' = buf)
    BY <1>2 DEF Receive, SetRxWindow, SetWindow
  <2> QED BY <1>0, <2>1 DEF HeldFrameIsAwaited, Buffered, Slots
<1>3. CASE ~SnLess(f % SN, head) /\ f % SN # head
  <2> DEFINE w == Room(f)
  <2>1. Store(f)
    BY <1>3 DEF Receive
  <2>2. CASE w.buf[Slot(w, f % SN)] # Empty
    <3>1. SetWindow(w) /\ work' = work
      BY <2>1, <2>2 DEF Store, StoreAfter, SetRxWindow
    <3>2. From(RxWindow, w)
      BY RoomTyped DEF IInv
    <3> QED BY <1>0, <3>1, <3>2, NothingHeldStays
  <2>3. CASE w.buf[Slot(w, f % SN)] = Empty
    <3>1. work' = work \cup {"queued"}
      BY <2>1, <2>3 DEF Store, StoreAfter
    <3> QED BY <3>1 DEF HeldFrameIsAwaited
  <2> QED BY <2>2, <2>3
<1> QED BY <1>1, <1>2, <1>3

LEMMA BlockAckReqAwaited ==
  ASSUME IInv, HeldFrameIsAwaited, NEW f \in Frames, BlockAckReq(f)
  PROVE  HeldFrameIsAwaited'
<1> DEFINE w == ReleaseTo(RxWindow, f % SN)
           v == ReleaseHead(w)
<1>0. size' = size /\ again' = again /\ work' = work /\ SetWindow(v)
  BY DEF BlockAckReq, SetRxWindow
<1>1. Typed(w) /\ From(RxWindow, w)
  <2>1. Typed(RxWindow) /\ f \in Nat
    BY WindowsTyped, FramesAreNumbers DEF IInv
  <2> QED BY <2>1, ReleaseToTyped
<1> HIDE DEF w
<1>2. From(w, v)
  BY <1>1, ReleaseHeadLeads DEF Leads
<1> HIDE DEF v
<1>3. From(RxWindow, v)
  BY <1>1, <1>2, FromFrom
<1> QED BY <1>0, <1>3, NothingHeldStays

LEMMA NextAwaited ==
  ASSUME IInv, HeldFrameIsAwaited, [Next]_vars
  PROVE  HeldFrameIsAwaited'
<1>1. ASSUME NEW f \in Frames, Receive(f) PROVE HeldFrameIsAwaited'
  BY <1>1, ReceiveAwaited
<1>2. ASSUME NEW f \in Frames, BlockAckReq(f) PROVE HeldFrameIsAwaited'
  BY <1>2, BlockAckReqAwaited
<1>3. ASSUME NEW expired \in SUBSET Buffered, WorkRun(expired) PROVE HeldFrameIsAwaited'
  <2> DEFINE w == IF Buffered = {} THEN WorkWindow ELSE CheckRelease(WorkWindow, expired)
  <2>1. /\ work' = {"running"} /\ size' = size /\ buf' = w.buf
        /\ again' = (\E i \in Slots : w.buf[i] # Empty)
    BY <1>3 DEF WorkRun, SetWindow
  <2> HIDE DEF w
  <2>2. Buffered' # {} => again'
    BY <2>1 DEF Buffered, Slots
  <2> QED BY <2>1, <2>2 DEF HeldFrameIsAwaited
<1>4. CASE RxDeliver
  BY <1>4 DEF RxDeliver, HeldFrameIsAwaited, Buffered, Slots
<1>5. CASE WorkRequeue
  BY <1>5 DEF WorkRequeue, HeldFrameIsAwaited, Buffered, Slots
<1>6. CASE WorkEnd
  BY <1>6 DEF WorkEnd, HeldFrameIsAwaited, Buffered, Slots
<1>7. ASSUME NEW ssn \in Frames \ {Ssn - 1}, NEW n \in Sizes, Start(ssn, n)
      PROVE HeldFrameIsAwaited'
  BY <1>7 DEF Start, HeldFrameIsAwaited, Buffered, Slots, NoFrames
<1>8. CASE Stop
  BY <1>8 DEF Stop, HeldFrameIsAwaited, Buffered, Slots, NoFrames
<1>9. CASE StopCancel
  <2>1. buf' = NoFrames(size) /\ size' = size
    BY <1>9 DEF StopCancel, IInv, SessionOk
  <2> QED BY <2>1 DEF HeldFrameIsAwaited, Buffered, Slots, NoFrames
<1>10. CASE UNCHANGED vars
  BY <1>10 DEF vars, HeldFrameIsAwaited, Buffered, Slots
<1> QED BY <1>1, <1>2, <1>3, <1>4, <1>5, <1>6, <1>7, <1>8, <1>9, <1>10 DEF Next

(* A frame held behind a hole always has the work coming for it: no order   *)
(* of frames, block-ack requests, work and restarts leaves one stranded,    *)
(* whatever the size of the buffer.                                         *)
THEOREM HeldFrameHasWork == Spec => []HeldFrameIsAwaited
<1>1. Init => HeldFrameIsAwaited
  BY DEF Init, HeldFrameIsAwaited, Buffered, Slots, NoFrames
<1> QED BY <1>1, NextAwaited, IInvAlways, PTL DEF Spec
=============================================================================
