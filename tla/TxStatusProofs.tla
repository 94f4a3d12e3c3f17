--------------------------- MODULE TxStatusProofs ---------------------------
(***************************************************************************)
(* Proofs about packet ids and TX status (TxStatus.tla), for any number of *)
(* frames, hardware queues, packet ids and stations: each frame is handed  *)
(* over once, ids stand for live frames of the station that has the entry, *)
(* and no status is taken for another frame's before that frame lost its   *)
(* id.                                                                     *)
(***************************************************************************)
EXTENDS TxStatus, TLAPS

-----------------------------------------------------------------------------
(* The inductive invariant, in parts.                                       *)

(* A queue's lock holder has a frame of the station that has the entry, on  *)
(* its way into the ring, and nobody else has that frame.                   *)
HoldersOk ==
  \A q \in Queues : hold[q] # NoFrame =>
    /\ stage[hold[q]] \in {"checked", "added", "freed"}
    /\ of[hold[q]] = now /\ sta \in {"up", "leaving"}
    /\ \A r \in Queues : hold[r] = hold[q] => r = q

(* A frame that has not asked for an id has none, and no status.            *)
FreshOk ==
  \A f \in Frames : stage[f] \in {"new", "checked"} => pid[f] = 0 /\ f \notin txs

(* idr and cb->pktid agree, and an entry waits for its status.              *)
IdsOk ==
  \A p \in Pids : ids[p] # NoFrame => pid[ids[p]] = p /\ ids[p] \notin txs

(* A TXS can come only for a frame that reached the ring with an id.        *)
AirOk ==
  \A f \in air : stage[f] \in {"queued", "done"} /\ pid[f] # 0

(* Before its TXS came a frame has its id, or lost it another way.          *)
LostKnown ==
  \A f \in Frames : pid[f] # 0 /\ (stage[f] = "added" \/ f \in air) =>
    ids[pid[f]] = f \/ f \in expired \cup robbed

(* That a waiting frame has its id, from the moment it got one.             *)
WaitingOk ==
  \A f \in Frames :
    stage[f] \in {"added", "queued", "done"} /\ pid[f] # 0
      /\ f \notin txs \cup robbed => ids[pid[f]] = f

(* A freed frame with an id is still in the hands of who freed it.          *)
FreedOk ==
  \A p \in Pids : ids[p] # NoFrame /\ stage[ids[p]] = "freed" =>
    \E q \in Queues : hold[q] = ids[p]

IInv ==
  /\ TypeOK /\ HoldersOk /\ FreshOk /\ IdsOk /\ AirOk
  /\ LostKnown /\ WaitingOk /\ FreedOk
  /\ HandedOverOnce /\ StatusFitsItsFrame /\ RemovedStationIsGone

(* The invariant says that ids and frames agree.                            *)
LEMMA LiveFrames == IInv => IdsAndFramesAgree
<1> SUFFICES ASSUME IInv PROVE IdsAndFramesAgree
  OBVIOUS
<1>1. ASSUME NEW p \in Pids, ids[p] # NoFrame PROVE reports[ids[p]] = 0
  <2>1. ids[p] \in Frames /\ pid[ids[p]] # 0 /\ ids[p] \notin txs
    BY <1>1, TxStatusConstants DEF IInv, TypeOK, IdsOk, Pids
  <2> QED BY <2>1 DEF IInv, HandedOverOnce
<1> QED BY <1>1 DEF IInv, FreedOk, WaitingOk, IdsAndFramesAgree

LEMMA InitInv == Init => IInv
<1> SUFFICES ASSUME Init PROVE IInv
  OBVIOUS
<1> USE TxStatusConstants DEF Init
<1>1. TypeOK
  <2>1. /\ stage \in [Frames -> Stages] /\ hold \in [Queues -> Frames \cup {NoFrame}]
        /\ ids \in [Pids -> Frames \cup {NoFrame}]
    BY DEF Stages
  <2>2. /\ pid \in [Frames -> 0..NPid] /\ of \in [Frames -> Nat]
        /\ reports \in [Frames -> Nat] /\ now \in Nat
    OBVIOUS
  <2> QED BY <2>1, <2>2 DEF TypeOK
<1>2. HoldersOk /\ FreshOk /\ IdsOk /\ AirOk /\ FreedOk
  BY DEF HoldersOk, FreshOk, IdsOk, AirOk, FreedOk
<1>3. LostKnown /\ WaitingOk
  BY DEF LostKnown, WaitingOk
<1>4. HandedOverOnce /\ StatusFitsItsFrame /\ RemovedStationIsGone
  BY DEF HandedOverOnce, StatusFitsItsFrame, RemovedStationIsGone
<1> QED BY <1>1, <1>2, <1>3, <1>4 DEF IInv

-----------------------------------------------------------------------------
(* mt76_tx_status_skb_get takes entries out and their status is in, be it   *)
(* by a TXS or for want of one.                                             *)
LEMMA TakeOut ==
  ASSUME IInv, NEW fs \in SUBSET InUse, Release(fs), StatusIn(fs),
         UNCHANGED <<stage, hold, pid, of, now, robbed>>,
         air' \subseteq air, expired \subseteq expired', expired' \subseteq Frames,
         \A g \in fs : g \in expired' \/ (g \notin air' /\ stage[g] # "added")
  PROVE  /\ ids' \in [Pids -> Frames \cup {NoFrame}] /\ listed' \in BOOLEAN
         /\ txs' \subseteq Frames /\ reports' \in [Frames -> Nat]
         /\ FreshOk' /\ IdsOk' /\ AirOk' /\ LostKnown' /\ WaitingOk' /\ FreedOk'
         /\ HandedOverOnce'
         /\ \A p \in Pids : ids'[p] # NoFrame => ids'[p] = ids[p]
<1> USE TxStatusConstants
<1>1. fs \subseteq Frames /\ \A g \in fs : \E p \in Pids : ids[p] = g
  BY DEF InUse
<1>2. \A g \in fs : g # NoFrame /\ pid[g] \in Pids /\ ids[pid[g]] = g
  BY <1>1 DEF IInv, IdsOk
<1>3. /\ ids' \in [Pids -> Frames \cup {NoFrame}]
      /\ \A p \in Pids : ids'[p] = IF ids[p] \in fs THEN NoFrame ELSE ids[p]
  BY DEF Release, IInv, TypeOK
<1>4. listed' \in BOOLEAN
  BY DEF Release
<1>5. txs' \subseteq Frames /\ txs' = txs \cup fs
  BY <1>1 DEF StatusIn, IInv, TypeOK
<1>6. /\ reports' \in [Frames -> Nat]
      /\ \A f \in Frames : reports'[f] =
           reports[f] + IF f \in fs /\ stage[f] = "done" THEN 1 ELSE 0
  BY DEF StatusIn, IInv, TypeOK
<1>7. FreshOk'
  BY <1>2, <1>5 DEF IInv, FreshOk, Pids
<1>8. IdsOk'
  BY <1>3, <1>5 DEF IInv, IdsOk
<1>9. AirOk'
  BY DEF IInv, AirOk
<1>10. LostKnown'
  <2> SUFFICES ASSUME NEW f \in Frames, pid[f] # 0, stage[f] = "added" \/ f \in air'
               PROVE  ids'[pid[f]] = f \/ f \in expired' \cup robbed
    BY DEF LostKnown
  <2>1. ids[pid[f]] = f \/ f \in expired' \cup robbed
    BY DEF IInv, LostKnown
  <2>2. pid[f] \in Pids
    BY DEF IInv, TypeOK, Pids
  <2> QED BY <1>3, <2>1, <2>2
<1>11. WaitingOk'
  <2> SUFFICES ASSUME NEW f \in Frames, stage[f] \in {"added", "queued", "done"},
                      pid[f] # 0, f \notin txs' \cup robbed
               PROVE  ids'[pid[f]] = f
    BY DEF WaitingOk
  <2>1. ids[pid[f]] = f /\ f \notin fs
    BY <1>5 DEF IInv, WaitingOk
  <2>2. pid[f] \in Pids
    BY DEF IInv, TypeOK, Pids
  <2> QED BY <1>3, <2>1, <2>2
<1>12. FreedOk'
  BY <1>3 DEF IInv, FreedOk
<1>13. HandedOverOnce'
  <2> SUFFICES ASSUME NEW f \in Frames
               PROVE  reports'[f] = IF stage[f] = "done" /\ (pid[f] = 0 \/ f \in txs')
                                    THEN 1 ELSE 0
    BY DEF HandedOverOnce
  <2>1. f \in fs => f \notin txs /\ pid[f] # 0
    BY <1>2 DEF IInv, IdsOk, Pids
  <2> QED BY <1>5, <1>6, <2>1 DEF IInv, HandedOverOnce
<1>14. \A p \in Pids : ids'[p] # NoFrame => ids'[p] = ids[p]
  BY <1>3
<1> QED BY <1>3, <1>4, <1>5, <1>6, <1>7, <1>8, <1>9, <1>10, <1>11, <1>12, <1>13, <1>14

-----------------------------------------------------------------------------
(* One lemma per action, or per group of actions that change the same.      *)

LEMMA StartInv == ASSUME IInv, NEW q \in Queues, Start(q) PROVE IInv'
<1> USE TxStatusConstants
<1>1. PICK f \in Frames :
        /\ hold[q] = NoFrame /\ stage[f] = "new" /\ sta \in {"up", "leaving"}
        /\ Moves(f, IF sta = "up" THEN "checked" ELSE "added")
        /\ hold' = [hold EXCEPT ![q] = f] /\ of' = [of EXCEPT ![f] = now]
        /\ UNCHANGED <<pid, air, idVars, doneVars, staVars, histVars>>
  BY DEF Start
<1> USE <1>1 DEF idVars, doneVars, staVars, histVars
<1>2. /\ pid[f] = 0 /\ \A p \in Pids : ids[p] # f
      /\ \A r \in Queues : hold[r] # f
  BY DEF IInv, TypeOK, FreshOk, IdsOk, HoldersOk, Pids
<1>3. stage' \in [Frames -> Stages]
      /\ \A g \in Frames : stage'[g] = IF g = f
           THEN (IF sta = "up" THEN "checked" ELSE "added") ELSE stage[g]
  BY DEF Moves, IInv, TypeOK, Stages
<1>4. TypeOK'
  BY <1>3 DEF IInv, TypeOK
<1>5. HoldersOk'
  BY <1>2, <1>3 DEF IInv, TypeOK, HoldersOk
<1>6. FreshOk' /\ IdsOk'
  BY <1>2, <1>3 DEF IInv, FreshOk, IdsOk
<1>7. AirOk'
  BY <1>3 DEF IInv, TypeOK, AirOk
<1>8. LostKnown' /\ WaitingOk'
  BY <1>2, <1>3 DEF IInv, LostKnown, WaitingOk
<1>9. FreedOk'
  <2> SUFFICES ASSUME NEW p \in Pids, ids[p] # NoFrame, stage'[ids[p]] = "freed"
               PROVE  \E r \in Queues : hold'[r] = ids[p]
    BY DEF FreedOk
  <2>1. stage[ids[p]] = "freed"
    BY <1>2, <1>3 DEF IInv, TypeOK
  <2>2. PICK r \in Queues : hold[r] = ids[p]
    BY <2>1 DEF IInv, FreedOk
  <2>3. r # q /\ hold'[r] = hold[r]
    BY <2>2 DEF IInv, TypeOK
  <2> QED BY <2>2, <2>3
<1>10. HandedOverOnce'
  BY <1>2, <1>3 DEF IInv, HandedOverOnce
<1>11. StatusFitsItsFrame'
  BY DEF IInv, StatusFitsItsFrame
<1>12. RemovedStationIsGone'
  BY <1>2 DEF IInv, TypeOK, RemovedStationIsGone
<1> QED BY <1>4, <1>5, <1>6, <1>7, <1>8, <1>9, <1>10, <1>11, <1>12 DEF IInv

LEMMA StatusAddInv == ASSUME IInv, NEW q \in Queues, StatusAdd(q) PROVE IInv'
<1> USE TxStatusConstants
<1> DEFINE f == hold[q]
<1> USE DEF idVars, doneVars, staVars, histVars
<1>1. /\ f \in Frames /\ f # NoFrame /\ stage[f] = "checked" /\ pid[f] = 0
      /\ of[f] = now /\ sta \in {"up", "leaving"}
      /\ UNCHANGED <<hold, of, air, doneVars, staVars, histVars>>
  BY DEF StatusAdd, IInv, TypeOK, FreshOk, HoldersOk
<1> HIDE DEF f
<1>2. /\ stage' \in [Frames -> Stages]
      /\ \A g \in Frames : stage'[g] = IF g = f THEN "added" ELSE stage[g]
  BY DEF f, StatusAdd, Moves, IInv, TypeOK, Stages
<1>3. \A p \in Pids : ids[p] # f
  BY <1>1 DEF IInv, IdsOk, Pids
<1>4. f \notin air
  BY <1>1 DEF IInv, AirOk
<1>5. HoldersOk'
  BY <1>1, <1>2 DEF f, IInv, TypeOK, HoldersOk
<1>6. AirOk' /\ StatusFitsItsFrame'
  <2>1. \A g \in air : g # f
    BY <1>4
  <2>2. \A g \in Frames : g # f => pid'[g] = pid[g]
    BY <1>1 DEF f, StatusAdd, IInv, TypeOK
  <2> QED BY <1>1, <1>2, <2>1, <2>2 DEF IInv, TypeOK, AirOk, StatusFitsItsFrame
<1>7. CASE UNCHANGED <<pid, idVars>>
  <2>1. TypeOK'
    BY <1>1, <1>2, <1>7 DEF IInv, TypeOK
  <2>2. FreshOk' /\ IdsOk' /\ LostKnown' /\ WaitingOk'
    BY <1>1, <1>2, <1>7 DEF IInv, FreshOk, IdsOk, LostKnown, WaitingOk
  <2>3. FreedOk' /\ HandedOverOnce' /\ RemovedStationIsGone'
    BY <1>1, <1>2, <1>7 DEF IInv, TypeOK, FreedOk, HandedOverOnce, RemovedStationIsGone
  <2> QED BY <1>5, <1>6, <2>1, <2>2, <2>3 DEF IInv
<1>8. ASSUME NEW p \in Pids, LowestFree(p), ids' = [ids EXCEPT ![p] = f],
             pid' = [pid EXCEPT ![f] = p], listed' = TRUE
      PROVE  IInv'
  <2>1. /\ ids[p] = NoFrame /\ p \in 0..NPid /\ p # 0
        /\ ids' \in [Pids -> Frames \cup {NoFrame}]
        /\ \A r \in Pids : ids'[r] = IF r = p THEN f ELSE ids[r]
    BY <1>1, <1>8 DEF LowestFree, IInv, TypeOK, Pids
  <2>2. /\ pid' \in [Frames -> 0..NPid]
        /\ \A g \in Frames : pid'[g] = IF g = f THEN p ELSE pid[g]
    BY <1>1, <1>8, <2>1 DEF IInv, TypeOK
  <2>3. f \notin txs
    BY <1>1 DEF IInv, FreshOk
  <2>4. TypeOK'
    BY <1>1, <1>2, <1>8, <2>1, <2>2 DEF IInv, TypeOK
  <2>5. FreshOk' /\ IdsOk'
    <3>1. FreshOk'
      BY <1>1, <1>2, <2>2 DEF IInv, FreshOk
    <3>2. \A r \in Pids : ids'[r] # NoFrame =>
            IF r = p THEN ids'[r] = f
            ELSE ids'[r] = ids[r] /\ ids[r] \in Frames \ {f}
      BY <1>3, <2>1 DEF IInv, TypeOK
    <3>3. IdsOk'
      BY <1>1, <2>2, <2>3, <3>2 DEF IInv, IdsOk
    <3> QED BY <3>1, <3>3
  <2>6. ASSUME NEW g \in Frames, pid'[g] # 0, ids[pid[g]] = g, g # f
        PROVE  ids'[pid'[g]] = g
    BY <2>1, <2>2, <2>6 DEF IInv, TypeOK, Pids
  <2>7. LostKnown' /\ WaitingOk'
    BY <1>1, <1>2, <1>4, <2>1, <2>2, <2>6 DEF IInv, LostKnown, WaitingOk
  <2>8. FreedOk'
    <3> SUFFICES ASSUME NEW r \in Pids, ids'[r] # NoFrame, stage'[ids'[r]] = "freed"
                 PROVE  \E k \in Queues : hold'[k] = ids'[r]
      BY DEF FreedOk
    <3>1. r # p /\ ids'[r] = ids[r] /\ stage[ids[r]] = "freed"
      BY <1>1, <1>2, <1>3, <2>1 DEF IInv, TypeOK
    <3> QED BY <1>1, <3>1 DEF IInv, FreedOk
  <2>9. HandedOverOnce'
    BY <1>1, <1>2, <2>2 DEF IInv, HandedOverOnce
  <2>10. RemovedStationIsGone'
    BY <1>1, <2>1 DEF IInv, RemovedStationIsGone
  <2> QED BY <1>5, <1>6, <2>4, <2>5, <2>7, <2>8, <2>9, <2>10 DEF IInv
<1> QED BY <1>7, <1>8 DEF f, StatusAdd

(* The lock holder passes the frame on or drops it: Queue, SetupFails and   *)
(* PadFails leave the ids alone.                                            *)
LEMMA MoveInv ==
  ASSUME IInv, NEW q \in Queues, hold[q] # NoFrame, stage[hold[q]] = "added",
         NEW to \in {"queued", "lost", "freed"}, Moves(hold[q], to),
         IF to = "freed" THEN hold' = hold ELSE Frees(q),
         air' = IF to = "queued" /\ pid[hold[q]] # 0 THEN air \cup {hold[q]} ELSE air,
         UNCHANGED <<pid, of, idVars, doneVars, staVars, histVars>>
  PROVE  IInv'
<1> USE TxStatusConstants DEF idVars, doneVars, staVars, histVars
<1> DEFINE f == hold[q]
<1>1. f \in Frames /\ stage[f] = "added"
  BY DEF IInv, TypeOK
<1>2. \A r \in Queues : r # q => hold[r] # f
  BY DEF IInv, HoldersOk
<1>3. /\ hold' \in [Queues -> Frames \cup {NoFrame}]
      /\ \A r \in Queues : hold'[r] = IF r = q /\ to # "freed" THEN NoFrame ELSE hold[r]
  BY DEF Frees, IInv, TypeOK
<1> HIDE DEF f
<1>4. /\ stage' \in [Frames -> Stages]
      /\ \A g \in Frames : stage'[g] = IF g = f THEN to ELSE stage[g]
  BY <1>1 DEF f, Moves, IInv, TypeOK, Stages
<1>5. air' = IF to = "queued" /\ pid[f] # 0 THEN air \cup {f} ELSE air
  BY DEF f
<1>6. TypeOK'
  BY <1>1, <1>3, <1>4, <1>5 DEF IInv, TypeOK
<1>7. HoldersOk'
  <2> SUFFICES ASSUME NEW k \in Queues, hold'[k] # NoFrame
               PROVE  /\ stage'[hold'[k]] \in {"checked", "added", "freed"}
                      /\ of'[hold'[k]] = now' /\ sta' \in {"up", "leaving"}
                      /\ \A r \in Queues : hold'[r] = hold'[k] => r = k
    BY DEF HoldersOk
  <2>1. hold'[k] = hold[k] /\ hold[k] \in Frames /\ (k # q \/ to = "freed")
    BY <1>3 DEF IInv, TypeOK
  <2>2. stage'[hold[k]] \in {"checked", "added", "freed"}
    BY <1>2, <1>4, <2>1 DEF f, IInv, HoldersOk
  <2>3. of[hold[k]] = now /\ sta \in {"up", "leaving"}
    BY <2>1 DEF IInv, HoldersOk
  <2>4. \A r \in Queues : hold'[r] = hold[k] => r = k
    BY <1>3, <2>1 DEF IInv, HoldersOk
  <2> QED BY <2>1, <2>2, <2>3, <2>4
<1>8. FreshOk' /\ IdsOk'
  BY <1>4 DEF IInv, FreshOk, IdsOk
<1>9. AirOk'
  BY <1>1, <1>4, <1>5 DEF IInv, TypeOK, AirOk
<1>10. LostKnown'
  BY <1>1, <1>4, <1>5 DEF IInv, LostKnown
<1>11. WaitingOk'
  BY <1>1, <1>4 DEF IInv, WaitingOk
<1>12. FreedOk'
  <2> SUFFICES ASSUME NEW p \in Pids, ids[p] # NoFrame, stage'[ids[p]] = "freed"
               PROVE  \E r \in Queues : hold'[r] = ids[p]
    BY DEF FreedOk
  <2>1. CASE ids[p] = f
    BY <1>1, <1>3, <1>4, <2>1 DEF f
  <2>2. CASE ids[p] # f
    <3>1. stage[ids[p]] = "freed"
      BY <1>4, <2>2 DEF IInv, TypeOK
    <3>2. PICK r \in Queues : hold[r] = ids[p]
      BY <3>1 DEF IInv, FreedOk
    <3>3. hold'[r] = hold[r]
      BY <1>3, <2>2, <3>2 DEF f
    <3> QED BY <3>2, <3>3
  <2> QED BY <2>1, <2>2
<1>13. HandedOverOnce'
  BY <1>1, <1>4 DEF IInv, HandedOverOnce
<1>14. StatusFitsItsFrame' /\ RemovedStationIsGone'
  BY DEF IInv, StatusFitsItsFrame, RemovedStationIsGone
<1> QED BY <1>6, <1>7, <1>8, <1>9, <1>10, <1>11, <1>12, <1>13, <1>14 DEF IInv

LEMMA PadReleaseInv == ASSUME IInv, NEW q \in Queues, PadRelease(q) PROVE IInv'
<1> USE TxStatusConstants DEF doneVars, staVars
<1> DEFINE f == hold[q]
<1>1. /\ f \in Frames /\ stage[f] = "freed" /\ hold' = [hold EXCEPT ![q] = NoFrame]
      /\ ids' = [p \in Pids |-> IF p = pid[f] THEN NoFrame ELSE ids[p]]
      /\ robbed' = robbed \cup {g \in Frames \ {f} : pid[f] # 0 /\ ids[pid[f]] = g}
      /\ UNCHANGED <<stage, pid, of, air, listed, doneVars, staVars, expired, mixed>>
  BY DEF PadRelease, Frees, IInv, TypeOK
<1>2. \A r \in Queues : r # q => hold[r] # f
  BY <1>1 DEF IInv, HoldersOk
<1>3. /\ hold' \in [Queues -> Frames \cup {NoFrame}]
      /\ \A r \in Queues : hold'[r] = IF r = q THEN NoFrame ELSE hold[r]
  BY <1>1 DEF IInv, TypeOK
<1> HIDE DEF f
<1>4. /\ ids' \in [Pids -> Frames \cup {NoFrame}]
      /\ \A p \in Pids : ids'[p] = IF p = pid[f] THEN NoFrame ELSE ids[p]
  BY <1>1 DEF IInv, TypeOK
<1>5. \A p \in Pids : ids'[p] # f
  BY <1>1, <1>4 DEF IInv, IdsOk
<1>6. /\ robbed' \subseteq Frames /\ robbed \subseteq robbed'
      /\ \A g \in Frames : g # f /\ pid[g] # 0 /\ ids[pid[g]] = g =>
           ids'[pid[g]] = g \/ g \in robbed'
  <2>1. robbed' \subseteq Frames /\ robbed \subseteq robbed'
    BY <1>1 DEF IInv, TypeOK
  <2>2. ASSUME NEW g \in Frames, g # f, pid[g] # 0, ids[pid[g]] = g
        PROVE  ids'[pid[g]] = g \/ g \in robbed'
    <3>1. pid[g] \in Pids
      BY <2>2 DEF IInv, TypeOK, Pids
    <3>2. CASE pid[g] = pid[f]
      BY <1>1, <2>2, <3>2
    <3>3. CASE pid[g] # pid[f]
      BY <1>4, <2>2, <3>1, <3>3
    <3> QED BY <3>2, <3>3
  <2> QED BY <2>1, <2>2
<1>7. TypeOK'
  BY <1>1, <1>3, <1>4, <1>6 DEF IInv, TypeOK
<1>8. HoldersOk'
  BY <1>1, <1>3 DEF IInv, HoldersOk
<1>9. FreshOk' /\ IdsOk' /\ AirOk'
  BY <1>1, <1>4 DEF IInv, FreshOk, IdsOk, AirOk
<1>10. LostKnown'
  <2>1. f \notin air
    BY <1>1 DEF IInv, AirOk
  <2> QED BY <1>1, <1>6, <2>1 DEF IInv, LostKnown
<1>11. WaitingOk'
  BY <1>1, <1>6 DEF IInv, WaitingOk
<1>12. FreedOk'
  <2> SUFFICES ASSUME NEW p \in Pids, ids'[p] # NoFrame, stage[ids'[p]] = "freed"
               PROVE  \E r \in Queues : hold'[r] = ids'[p]
    BY <1>1 DEF FreedOk
  <2>1. ids'[p] = ids[p] /\ ids[p] # f
    BY <1>4, <1>5
  <2>2. PICK r \in Queues : hold[r] = ids[p]
    BY <2>1 DEF IInv, FreedOk
  <2>3. r # q
    BY <2>1, <2>2 DEF f
  <2> QED BY <1>3, <2>1, <2>2, <2>3
<1>13. HandedOverOnce'
  BY <1>1 DEF IInv, HandedOverOnce
<1>14. StatusFitsItsFrame' /\ RemovedStationIsGone'
  BY <1>1, <1>4, <1>6 DEF IInv, StatusFitsItsFrame, RemovedStationIsGone
<1> QED BY <1>7, <1>8, <1>9, <1>10, <1>11, <1>12, <1>13, <1>14 DEF IInv

LEMMA QueueStepInv == ASSUME IInv, NEW q \in Queues, QueueStep(q) PROVE IInv'
<1>1. CASE Start(q)
  BY <1>1, StartInv
<1>2. CASE StatusAdd(q)
  BY <1>2, StatusAddInv
<1>3. CASE Queue(q)
  <2>1. hold[q] \in Frames
    BY <1>3 DEF Queue, IInv, TypeOK
  <2> QED BY <1>3, <2>1, MoveInv DEF Queue
<1>4. CASE SetupFails(q)
  BY <1>4, MoveInv DEF SetupFails
<1>5. CASE PadFails(q)
  BY <1>5, MoveInv DEF PadFails
<1>6. CASE PadRelease(q)
  BY <1>6, PadReleaseInv
<1> QED BY <1>1, <1>2, <1>3, <1>4, <1>5, <1>6 DEF QueueStep

LEMMA CompleteInv == ASSUME IInv, Complete PROVE IInv'
<1> USE TxStatusConstants DEF idVars, staVars, histVars
<1>1. PICK f \in Frames :
        /\ stage[f] = "queued" /\ Moves(f, "done")
        /\ reports' = [reports EXCEPT ![f] = @ + IF pid[f] = 0 \/ f \in txs THEN 1 ELSE 0]
        /\ UNCHANGED <<hold, pid, of, air, idVars, txs, staVars, histVars>>
  BY DEF Complete
<1> USE <1>1
<1>2. /\ stage' \in [Frames -> Stages]
      /\ \A g \in Frames : stage'[g] = IF g = f THEN "done" ELSE stage[g]
  BY DEF Moves, IInv, TypeOK, Stages
<1>3. /\ reports' \in [Frames -> Nat]
      /\ \A g \in Frames : reports'[g] =
           IF g = f THEN reports[f] + (IF pid[f] = 0 \/ f \in txs THEN 1 ELSE 0)
           ELSE reports[g]
  BY DEF IInv, TypeOK
<1>4. \A q \in Queues : hold[q] # f
  BY DEF IInv, TypeOK, HoldersOk
<1>5. TypeOK'
  BY <1>2, <1>3 DEF IInv, TypeOK
<1>6. HoldersOk'
  BY <1>2, <1>4 DEF IInv, TypeOK, HoldersOk
<1>7. FreshOk' /\ IdsOk'
  BY <1>2 DEF IInv, FreshOk, IdsOk
<1>8. AirOk'
  BY <1>2 DEF IInv, TypeOK, AirOk
<1>9. LostKnown' /\ WaitingOk'
  BY <1>2 DEF IInv, LostKnown, WaitingOk
<1>10. FreedOk'
  BY <1>2 DEF IInv, TypeOK, FreedOk
<1>11. HandedOverOnce'
  BY <1>2, <1>3 DEF IInv, HandedOverOnce
<1>12. StatusFitsItsFrame' /\ RemovedStationIsGone'
  BY DEF IInv, StatusFitsItsFrame, RemovedStationIsGone
<1> QED BY <1>5, <1>6, <1>7, <1>8, <1>9, <1>10, <1>11, <1>12 DEF IInv

(* What a step that takes entries out leaves of the invariant.              *)
LEMMA TakeOutRest ==
  ASSUME IInv, NEW fs \in SUBSET InUse, Release(fs), StatusIn(fs),
         UNCHANGED <<stage, hold, pid, of, robbed, staVars>>,
         air' \subseteq air, expired \subseteq expired', expired' \subseteq Frames,
         \A g \in fs : g \in expired' \/ (g \notin air' /\ stage[g] # "added"),
         mixed' \subseteq Frames, mixed' \subseteq expired' \cup robbed
  PROVE  IInv'
<1> USE DEF staVars
<1>1. /\ ids' \in [Pids -> Frames \cup {NoFrame}] /\ listed' \in BOOLEAN
      /\ txs' \subseteq Frames /\ reports' \in [Frames -> Nat]
      /\ FreshOk' /\ IdsOk' /\ AirOk' /\ LostKnown' /\ WaitingOk' /\ FreedOk'
      /\ HandedOverOnce'
      /\ \A p \in Pids : ids'[p] # NoFrame => ids'[p] = ids[p]
  BY TakeOut
<1>2. TypeOK'
  BY <1>1 DEF IInv, TypeOK
<1>3. HoldersOk'
  BY DEF IInv, HoldersOk
<1>4. StatusFitsItsFrame'
  BY DEF StatusFitsItsFrame
<1>5. RemovedStationIsGone'
  <2>1. sta = "gone" => ~listed'
    BY DEF Release, IInv, RemovedStationIsGone
  <2> QED BY <1>1, <2>1 DEF IInv, RemovedStationIsGone
<1> QED BY <1>1, <1>2, <1>3, <1>4, <1>5 DEF IInv

LEMMA TxsInv == ASSUME IInv, TxsTaken \/ TxsStale \/ TxsIgnored PROVE IInv'
<1> USE TxStatusConstants
<1>1. CASE TxsTaken
  <2>1. PICK f \in air :
          /\ sta = "up" /\ ids[pid[f]] # NoFrame
          /\ air' = air \ {f}
          /\ Release({ids[pid[f]]}) /\ StatusIn({ids[pid[f]]})
          /\ mixed' = IF ids[pid[f]] = f THEN mixed ELSE mixed \cup {f}
          /\ expired' = IF ids[pid[f]] = f THEN expired ELSE expired \cup {ids[pid[f]]}
          /\ UNCHANGED <<stage, hold, pid, of, staVars, robbed>>
    BY <1>1 DEF TxsTaken
  <2> DEFINE g == ids[pid[f]]
  <2>2. f \in Frames /\ pid[f] \in Pids /\ stage[f] # "added"
    BY <2>1 DEF IInv, TypeOK, AirOk, Pids
  <2>3. g \in Frames /\ {g} \in SUBSET InUse
    BY <2>1, <2>2 DEF IInv, TypeOK, InUse
  <2>4. g # f => f \in expired \cup robbed
    BY <2>1, <2>2 DEF IInv, LostKnown, AirOk
  <2>5. /\ expired \subseteq expired' /\ expired' \subseteq Frames
        /\ mixed' \subseteq Frames /\ mixed' \subseteq expired' \cup robbed
    BY <2>1, <2>2, <2>3, <2>4 DEF IInv, TypeOK, StatusFitsItsFrame
  <2>6. g \in expired' \/ (g \notin air' /\ stage[g] # "added")
    BY <2>1, <2>2
  <2> HIDE DEF g
  <2>7. Release({g}) /\ StatusIn({g}) /\ air' \subseteq air
    BY <2>1 DEF g
  <2> QED BY <2>1, <2>3, <2>5, <2>6, <2>7, TakeOutRest
<1>2. CASE TxsStale
  <2>1. PICK fs \in SUBSET Overdue :
          /\ Release(fs) /\ StatusIn(fs) /\ expired' = expired \cup fs
          /\ air' \subseteq air
          /\ UNCHANGED <<stage, hold, pid, of, staVars, robbed, mixed>>
    BY <1>2 DEF TxsStale
  <2>2. fs \in SUBSET InUse /\ fs \subseteq Frames
    BY DEF Overdue, InUse
  <2>3. /\ expired \subseteq expired' /\ expired' \subseteq Frames
        /\ mixed' \subseteq Frames /\ mixed' \subseteq expired' \cup robbed
        /\ \A g \in fs : g \in expired'
    BY <2>1, <2>2 DEF IInv, TypeOK, StatusFitsItsFrame
  <2> QED BY <2>1, <2>2, <2>3, TakeOutRest
<1>3. CASE TxsIgnored
  <2> USE <1>3 DEF TxsIgnored, idVars, doneVars, staVars, histVars
  <2>1. TypeOK' /\ HoldersOk' /\ FreshOk' /\ IdsOk'
    BY DEF IInv, TypeOK, HoldersOk, FreshOk, IdsOk
  <2>2. AirOk' /\ LostKnown' /\ WaitingOk' /\ FreedOk'
    BY DEF IInv, AirOk, LostKnown, WaitingOk, FreedOk
  <2>3. HandedOverOnce' /\ StatusFitsItsFrame' /\ RemovedStationIsGone'
    BY DEF IInv, HandedOverOnce, StatusFitsItsFrame, RemovedStationIsGone
  <2> QED BY <2>1, <2>2, <2>3 DEF IInv
<1> QED BY <1>1, <1>2, <1>3

LEMMA CheckInv == ASSUME IInv, StatusCheck \/ StatusFlush PROVE IInv'
<1>1. PICK fs \in SUBSET InUse : GiveUp(fs) /\ sta' = sta
  BY DEF StatusCheck, StatusFlush, Overdue, InUse
<1>2. /\ Release(fs) /\ StatusIn(fs) /\ expired' = expired \cup fs
      /\ UNCHANGED <<stage, hold, pid, of, air, robbed, mixed, staVars>>
  BY <1>1 DEF GiveUp, staVars
<1>3. fs \subseteq Frames
  BY DEF InUse
<1>4. /\ expired \subseteq expired' /\ expired' \subseteq Frames
      /\ mixed' \subseteq Frames /\ mixed' \subseteq expired' \cup robbed
      /\ (\A g \in fs : g \in expired') /\ air' \subseteq air
  BY <1>2, <1>3 DEF IInv, TypeOK, StatusFitsItsFrame
<1> QED BY <1>2, <1>4, TakeOutRest

(* At the time of mt76_wcid_cleanup no lock holder has a frame of the       *)
(* station, and all its ids are given up.                                   *)
LEMMA CleanupInv == ASSUME IInv, Cleanup PROVE IInv'
<1> USE TxStatusConstants
<1>1. /\ Release(InUse) /\ StatusIn(InUse) /\ expired' = expired \cup InUse
      /\ UNCHANGED <<stage, hold, pid, of, air, now, robbed, mixed>>
      /\ sta = "synced" /\ sta' = "gone"
  BY DEF Cleanup, GiveUp
<1>2. InUse \in SUBSET InUse /\ InUse \subseteq Frames
  BY DEF InUse
<1>3. /\ expired \subseteq expired' /\ expired' \subseteq Frames
      /\ (\A g \in InUse : g \in expired') /\ air' \subseteq air
  BY <1>1, <1>2 DEF IInv, TypeOK
<1>4. /\ ids' \in [Pids -> Frames \cup {NoFrame}] /\ listed' \in BOOLEAN
      /\ txs' \subseteq Frames /\ reports' \in [Frames -> Nat]
      /\ FreshOk' /\ IdsOk' /\ AirOk' /\ LostKnown' /\ WaitingOk' /\ FreedOk'
      /\ HandedOverOnce'
  BY <1>1, <1>2, <1>3, TakeOut
<1>5. TypeOK'
  BY <1>1, <1>3, <1>4 DEF IInv, TypeOK
<1>6. \A q \in Queues : hold[q] = NoFrame
  BY <1>1 DEF IInv, HoldersOk
<1>7. HoldersOk'
  BY <1>1, <1>6 DEF HoldersOk
<1>8. StatusFitsItsFrame'
  BY <1>1, <1>3 DEF IInv, StatusFitsItsFrame
<1>9. RemovedStationIsGone'
  <2>1. \A p \in Pids : ids'[p] = NoFrame
    <3> SUFFICES ASSUME NEW p \in Pids PROVE ids'[p] = NoFrame
      OBVIOUS
    <3>1. ids'[p] = IF ids[p] \in InUse THEN NoFrame ELSE ids[p]
      BY <1>1 DEF Release
    <3>2. ids[p] # NoFrame => ids[p] \in InUse
      BY DEF IInv, TypeOK, InUse
    <3> QED BY <3>1, <3>2
  <2>2. ~listed'
    BY <1>1 DEF Release
  <2> QED BY <2>1, <2>2 DEF RemovedStationIsGone
<1> QED BY <1>4, <1>5, <1>7, <1>8, <1>9 DEF IInv

LEMMA StaInv == ASSUME IInv, StaLeave \/ StaSync \/ StaAdd PROVE IInv'
<1> USE TxStatusConstants DEF idVars, doneVars, staVars, histVars
<1>1. CASE StaLeave \/ StaSync
  <2>1. /\ UNCHANGED <<stage, hold, pid, of, air, idVars, doneVars, now, histVars>>
        /\ sta \in {"up", "leaving"} /\ sta' \in {"leaving", "synced"}
        /\ sta' = "leaving" \/ \A q \in Queues : hold[q] = NoFrame
    BY <1>1 DEF StaLeave, StaSync, OnlySta
  <2>2. TypeOK' /\ HoldersOk' /\ FreshOk' /\ IdsOk'
    BY <2>1 DEF IInv, TypeOK, HoldersOk, FreshOk, IdsOk
  <2>3. AirOk' /\ LostKnown' /\ WaitingOk' /\ FreedOk'
    BY <2>1 DEF IInv, AirOk, LostKnown, WaitingOk, FreedOk
  <2>4. HandedOverOnce' /\ StatusFitsItsFrame' /\ RemovedStationIsGone'
    BY <2>1 DEF IInv, HandedOverOnce, StatusFitsItsFrame, RemovedStationIsGone
  <2> QED BY <2>2, <2>3, <2>4 DEF IInv
<1>2. CASE StaAdd
  <2>1. /\ UNCHANGED <<stage, hold, pid, of, air, doneVars, histVars>>
        /\ sta = "gone" /\ sta' = "up" /\ now' = now + 1 /\ listed' = FALSE
        /\ ids' = [p \in Pids |-> NoFrame]
    BY <1>2 DEF StaAdd
  <2>2. \A p \in Pids : ids[p] = NoFrame
    BY <2>1 DEF IInv, RemovedStationIsGone
  <2>3. ids' = ids
    BY <2>1, <2>2 DEF IInv, TypeOK
  <2>4. \A q \in Queues : hold[q] = NoFrame
    BY <2>1 DEF IInv, HoldersOk
  <2>5. TypeOK' /\ HoldersOk' /\ FreshOk' /\ IdsOk'
    <3>1. TypeOK'
      <4>1. listed' \in BOOLEAN /\ sta' \in {"up", "leaving", "synced", "gone"}
        BY <2>1
      <4>2. now' \in Nat
        BY <2>1 DEF IInv, TypeOK
      <4>3. ids' \in [Pids -> Frames \cup {NoFrame}]
        BY <2>3 DEF IInv, TypeOK
      <4> QED BY <2>1, <4>1, <4>2, <4>3 DEF IInv, TypeOK
    <3>2. HoldersOk'
      BY <2>1, <2>4 DEF HoldersOk
    <3>3. FreshOk' /\ IdsOk'
      BY <2>1, <2>3 DEF IInv, FreshOk, IdsOk
    <3> QED BY <3>1, <3>2, <3>3
  <2>6. AirOk' /\ LostKnown' /\ WaitingOk' /\ FreedOk'
    BY <2>1, <2>3 DEF IInv, AirOk, LostKnown, WaitingOk, FreedOk
  <2>7. HandedOverOnce' /\ StatusFitsItsFrame' /\ RemovedStationIsGone'
    BY <2>1, <2>2, <2>3 DEF IInv, HandedOverOnce, StatusFitsItsFrame, RemovedStationIsGone
  <2> QED BY <2>5, <2>6, <2>7 DEF IInv
<1> QED BY <1>1, <1>2

LEMMA NextInv == IInv /\ [Next]_vars => IInv'
<1> SUFFICES ASSUME IInv, [Next]_vars PROVE IInv'
  OBVIOUS
<1>1. CASE \E q \in Queues : QueueStep(q)
  BY <1>1, QueueStepInv
<1>2. CASE Complete
  BY <1>2, CompleteInv
<1>3. CASE TxsTaken \/ TxsStale \/ TxsIgnored
  BY <1>3, TxsInv
<1>4. CASE StatusCheck \/ StatusFlush
  BY <1>4, CheckInv
<1>5. CASE StaLeave \/ StaSync \/ StaAdd
  BY <1>5, StaInv
<1>6. CASE Cleanup
  BY <1>6, CleanupInv
<1>7. CASE UNCHANGED vars
  <2> USE <1>7 DEF vars, idVars, doneVars, staVars, histVars
  <2>1. TypeOK'
    BY DEF IInv, TypeOK
  <2>4. HoldersOk' /\ FreshOk' /\ IdsOk'
    BY DEF IInv, HoldersOk, FreshOk, IdsOk
  <2>2. AirOk' /\ LostKnown' /\ WaitingOk' /\ FreedOk'
    BY DEF IInv, AirOk, LostKnown, WaitingOk, FreedOk
  <2>3. HandedOverOnce' /\ StatusFitsItsFrame' /\ RemovedStationIsGone'
    BY DEF IInv, HandedOverOnce, StatusFitsItsFrame, RemovedStationIsGone
  <2> QED BY <2>1, <2>2, <2>3, <2>4 DEF IInv
<1> QED BY <1>1, <1>2, <1>3, <1>4, <1>5, <1>6, <1>7 DEF Next

-----------------------------------------------------------------------------
(* The theorems.                                                            *)

LEMMA Invariant == Spec => []IInv
<1> QED BY InitInv, NextInv, PTL DEF Spec

(* Every variable of TxStatus keeps its range.                              *)
THEOREM TypeCorrect == Spec => []TypeOK
<1>1. IInv => TypeOK
  BY DEF IInv
<1> QED BY <1>1, Invariant, PTL

(* mac80211 gets each frame back once, when URB and status are both in.     *)
THEOREM FramesHandedOverOnce == Spec => []HandedOverOnce
<1>1. IInv => HandedOverOnce
  BY DEF IInv
<1> QED BY <1>1, Invariant, PTL

(* A frame that waits for its status has its id, and an id stands for a     *)
(* frame that still waits.                                                  *)
THEOREM IdsStandForFrames == Spec => []IdsAndFramesAgree
<1> QED BY LiveFrames, Invariant, PTL

(* A status is taken for another frame's only if its own had lost its id.   *)
THEOREM StatusFits == Spec => []StatusFitsItsFrame
<1>1. IInv => StatusFitsItsFrame
  BY DEF IInv
<1> QED BY <1>1, Invariant, PTL

(* The ids are those of the station that has the entry of dev->wcid[].      *)
THEOREM RemovalLeavesNothing == Spec => []RemovedStationIsGone
<1>1. IInv => RemovedStationIsGone
  BY DEF IInv
<1> QED BY <1>1, Invariant, PTL

-----------------------------------------------------------------------------
(* The safety half of FrameIsHandedOver.  A station with ids is on          *)
(* dev->wcid_list, by which mac_work finds it: mt76_tx_status_skb_add puts  *)
(* it there, mt76_tx_status_skb_done takes it off with the last id only.    *)
StationIsListed == InUse # {} => listed

(* A frame whose URB is done and that was not handed over is one the status *)
(* check finds and may give up, unless another frame's release took its id. *)
OverdueIsFound ==
  \A f \in Frames : stage[f] = "done" /\ reports[f] = 0 /\ f \notin robbed =>
    listed /\ f \in Overdue

LEMMA ReleaseKeepsListed ==
  ASSUME StationIsListed, NEW fs, Release(fs)
  PROVE  StationIsListed'
<1>1. ASSUME NEW f \in InUse' PROVE f \in InUse \ fs
  BY TxStatusConstants DEF InUse, Release
<1> QED BY <1>1 DEF StationIsListed, Release

LEMMA ListedStep ==
  ASSUME StationIsListed, [Next]_vars
  PROVE  StationIsListed'
<1> USE TxStatusConstants DEF idVars
<1>1. ASSUME NEW q \in Queues, QueueStep(q) PROVE StationIsListed'
  <2>1. CASE Start(q) \/ Queue(q) \/ SetupFails(q) \/ PadFails(q)
    BY <2>1 DEF Start, Queue, SetupFails, PadFails, StationIsListed, InUse
  <2>2. CASE StatusAdd(q)
    <3>1. listed' = TRUE \/ UNCHANGED <<ids, listed>>
      BY <2>2 DEF StatusAdd
    <3> QED BY <3>1 DEF StationIsListed, InUse
  <2>3. CASE PadRelease(q)
    <3>1. /\ listed' = listed
          /\ \A p \in Pids : ids'[p] \in {NoFrame, ids[p]}
      BY <2>3 DEF PadRelease
    <3> QED BY <3>1 DEF StationIsListed, InUse
  <2> QED BY <1>1, <2>1, <2>2, <2>3 DEF QueueStep
<1>2. CASE Complete
  BY <1>2 DEF Complete, StationIsListed, InUse
<1>3. CASE TxsTaken
  <2>1. \E g : Release({g})
    BY <1>3 DEF TxsTaken
  <2> QED BY <2>1, ReleaseKeepsListed
<1>4. CASE TxsStale
  <2>1. \E fs : Release(fs)
    BY <1>4 DEF TxsStale
  <2> QED BY <2>1, ReleaseKeepsListed
<1>5. CASE TxsIgnored
  BY <1>5 DEF TxsIgnored, StationIsListed, InUse
<1>6. CASE StatusCheck \/ StatusFlush \/ Cleanup
  <2>1. \E fs : Release(fs)
    BY <1>6 DEF StatusCheck, StatusFlush, Cleanup, GiveUp
  <2> QED BY <2>1, ReleaseKeepsListed
<1>7. CASE StaLeave \/ StaSync
  BY <1>7 DEF StaLeave, StaSync, OnlySta, StationIsListed, InUse
<1>8. CASE StaAdd
  BY <1>8 DEF StaAdd, StationIsListed, InUse
<1>9. CASE UNCHANGED vars
  BY <1>9 DEF vars, StationIsListed, InUse
<1> QED BY <1>1, <1>2, <1>3, <1>4, <1>5, <1>6, <1>7, <1>8, <1>9 DEF Next

(* A frame that waits only for its status is never out of reach of the      *)
(* status check, in whichever order ids come, expire and are released.      *)
THEOREM WaitingFrameIsFound == Spec => []OverdueIsFound
<1>1. Init => StationIsListed
  BY TxStatusConstants DEF Init, StationIsListed, InUse
<1>2. IInv /\ StationIsListed => OverdueIsFound
  <2> SUFFICES ASSUME IInv, StationIsListed, NEW f \in Frames,
                      stage[f] = "done", reports[f] = 0, f \notin robbed
               PROVE  listed /\ f \in Overdue
    BY DEF OverdueIsFound
  <2>1. pid[f] # 0 /\ f \notin txs
    BY DEF IInv, HandedOverOnce
  <2>2. ids[pid[f]] = f /\ pid[f] \in Pids
    BY <2>1, TxStatusConstants DEF IInv, WaitingOk, TypeOK, Pids
  <2>3. f \in InUse
    BY <2>2 DEF InUse
  <2> QED BY <2>3 DEF StationIsListed, Overdue
<1> QED BY Invariant, <1>1, <1>2, ListedStep, PTL DEF Spec
=============================================================================
