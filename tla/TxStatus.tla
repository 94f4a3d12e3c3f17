------------------------------ MODULE TxStatus ------------------------------
(***************************************************************************)
(* TX status (tx.c): the packet ids a station has, the frames they stand   *)
(* for, the firmware's TXS events that name them, the timeout of those     *)
(* that got lost, and the completion of the URB. A frame with an id is     *)
(* handed to mac80211 when both its URB is done and its status is in.      *)
(* One entry of dev->wcid[] is modelled with the stations that have it one *)
(* after the other. Sections under status_lock are single actions.         *)
(***************************************************************************)
EXTENDS Naturals

CONSTANTS
  Frames,    \* frames that ask for a status, numbered in the order they come
  NoFrame,
  Queues,    \* hardware queues; each queues one frame at a time (q->lock)
  NPid,      \* packet ids of a station (MT_PACKET_ID_FIRST..MASK: 125)
  MaxSta     \* bound: stations that get the entry one after the other

ASSUME TxStatusConstants ==
  /\ Frames \subseteq Nat /\ NoFrame \notin Frames
  /\ NPid \in Nat /\ MaxSta \in Nat

VARIABLES
  stage,    \* where a frame is: "new", "checked", "added", "freed", "queued",
            \* "done" (its URB completed) or "lost"
  hold,     \* the frame a queue's lock holder works on
  pid,      \* cb->pktid, 0 for none
  txs,      \* frames with MT_TX_CB_TXS_DONE
  ids,      \* wcid->pktid
  listed,   \* the station is on dev->wcid_list
  sta,      \* its life: "up", "leaving" (dev->wcid[] cleared), "synced" (the
            \* RCU grace period is over), "gone"
  now, of,  \* the station that has the entry, and the one a frame was for
  air,      \* frames whose TXS may still come
  reports,  \* how often a frame was handed to mac80211
  expired,  \* frames that lost their id before their TXS (history)
  robbed,   \* frames whose id was released for another frame's (history)
  mixed     \* frames whose TXS was taken for another's (history)

idVars   == <<ids, listed>>
doneVars == <<txs, reports>>
staVars  == <<sta, now>>
histVars == <<expired, robbed, mixed>>
vars == <<stage, hold, pid, of, air, idVars, doneVars, staVars, histVars>>

Pids == 1..NPid
Stages == {"new", "checked", "added", "freed", "queued", "done", "lost"}

(* Every variable keeps its range.                                          *)
TypeOK ==
  /\ stage \in [Frames -> Stages]
  /\ hold \in [Queues -> Frames \cup {NoFrame}]
  /\ pid \in [Frames -> 0..NPid]
  /\ txs \subseteq Frames /\ air \subseteq Frames
  /\ ids \in [Pids -> Frames \cup {NoFrame}] /\ listed \in BOOLEAN
  /\ sta \in {"up", "leaving", "synced", "gone"}
  /\ now \in Nat /\ of \in [Frames -> Nat]
  /\ reports \in [Frames -> Nat]
  /\ expired \subseteq Frames /\ robbed \subseteq Frames /\ mixed \subseteq Frames

Init ==
  /\ stage = [f \in Frames |-> "new"] /\ hold = [q \in Queues |-> NoFrame]
  /\ pid = [f \in Frames |-> 0] /\ txs = {} /\ air = {}
  /\ ids = [p \in Pids |-> NoFrame] /\ listed = FALSE
  /\ sta = "up" /\ now = 0 /\ of = [f \in Frames |-> 0]
  /\ reports = [f \in Frames |-> 0]
  /\ expired = {} /\ robbed = {} /\ mixed = {}

-----------------------------------------------------------------------------
(* mt76u_tx_queue_skb with mt7921_usb_sdio_tx_prepare_skb, for frame f of   *)
(* the station on queue q.                                                  *)

Moves(f, s) == stage' = [stage EXCEPT ![f] = s]
Frees(q) == hold' = [hold EXCEPT ![q] = NoFrame]

(* mt76_tx_status_skb_add looks at dev->wcid[] before it takes the lock.    *)
(* Frames of a station on its way out go without an id.                     *)
Start(q) ==
  \E f \in Frames :
    /\ hold[q] = NoFrame /\ stage[f] = "new"
    /\ \A g \in Frames : g < f => stage[g] # "new"
    /\ sta \in {"up", "leaving"}
    /\ Moves(f, IF sta = "up" THEN "checked" ELSE "added")
    /\ hold' = [hold EXCEPT ![q] = f] /\ of' = [of EXCEPT ![f] = now]
    /\ UNCHANGED <<pid, air, idVars, doneVars, staVars, histVars>>

(* idr_alloc takes the lowest free id. *)
LowestFree(p) == ids[p] = NoFrame /\ \A r \in 1..(p - 1) : ids[r] # NoFrame

StatusAdd(q) ==
  /\ hold[q] # NoFrame /\ stage[hold[q]] = "checked"
  /\ Moves(hold[q], "added")
  /\ \/ \E p \in Pids : /\ LowestFree(p)
                        /\ ids' = [ids EXCEPT ![p] = hold[q]]
                        /\ pid' = [pid EXCEPT ![hold[q]] = p]
                        /\ listed' = TRUE
     \/ (\A p \in Pids : ids[p] # NoFrame) /\ UNCHANGED <<pid, idVars>>
  /\ UNCHANGED <<hold, of, air, doneVars, staVars, histVars>>

(* The frame is in the ring; from the kick on its TXS may come.             *)
Queue(q) ==
  LET f == hold[q] IN
  /\ f # NoFrame /\ stage[f] = "added"
  /\ Moves(f, "queued") /\ Frees(q)
  /\ air' = IF pid[f] = 0 THEN air ELSE air \cup {f}
  /\ UNCHANGED <<pid, of, idVars, doneVars, staVars, histVars>>

(* mt76u_tx_setup_buffers fails: the frame is dropped and keeps its id.     *)
SetupFails(q) ==
  /\ hold[q] # NoFrame /\ stage[hold[q]] = "added"
  /\ Moves(hold[q], "lost") /\ Frees(q)
  /\ UNCHANGED <<pid, of, air, idVars, doneVars, staVars, histVars>>

(* mt76_skb_adjust_pad fails: skb_pad has freed the frame, its id is        *)
(* released afterwards and without status_lock.                             *)
PadFails(q) ==
  /\ hold[q] # NoFrame /\ stage[hold[q]] = "added"
  /\ Moves(hold[q], "freed")
  /\ UNCHANGED <<hold, pid, of, air, idVars, doneVars, staVars, histVars>>

(* Mutant: the id is not released. *)
PadReleaseNot(q) ==
  /\ hold[q] # NoFrame /\ stage[hold[q]] = "freed"
  /\ Frees(q)
  /\ UNCHANGED <<stage, pid, of, air, idVars, doneVars, staVars, histVars>>

PadRelease(q) ==
  LET f == hold[q] IN
  /\ f # NoFrame /\ stage[f] = "freed" /\ Frees(q)
  /\ ids' = [p \in Pids |-> IF p = pid[f] THEN NoFrame ELSE ids[p]]
  /\ robbed' = robbed \cup {g \in Frames \ {f} : pid[f] # 0 /\ ids[pid[f]] = g}
  /\ UNCHANGED <<stage, pid, of, air, listed, doneVars, staVars, expired, mixed>>

-----------------------------------------------------------------------------
(* __mt76_tx_status_skb_done.                                               *)

InUse == {f \in Frames : \E p \in Pids : ids[p] = f}

(* Mutant: a frame is handed over without waiting for its URB. *)
StatusInEager(fs) ==
  /\ txs' = txs \cup fs
  /\ reports' = [f \in Frames |-> reports[f] + IF f \in fs THEN 1 ELSE 0]

(* The status of frames fs is in. *)
StatusIn(fs) ==
  /\ txs' = txs \cup fs
  /\ reports' = [f \in Frames |->
       reports[f] + IF f \in fs /\ stage[f] = "done" THEN 1 ELSE 0]

(* Frames fs lose their ids; a station that has none left is off the list.  *)
Release(fs) ==
  /\ ids' = [p \in Pids |-> IF ids[p] \in fs THEN NoFrame ELSE ids[p]]
  /\ listed' = (listed /\ InUse \ fs # {})

(* mt76_tx_status_skb_get gives entries up without a status.                *)
GiveUp(fs) ==
  /\ Release(fs) /\ StatusIn(fs)
  /\ expired' = expired \cup fs
  /\ UNCHANGED <<stage, hold, pid, of, air, now, robbed, mixed>>

(* Entries whose URB completed may by now be MT_TX_STATUS_SKB_TIMEOUT old.  *)
Overdue == {f \in InUse : stage[f] = "done"}

(* Mutant: the end of the URB releases the id. *)
CompleteReleases ==
  \E f \in Frames :
    /\ stage[f] = "queued" /\ Moves(f, "done") /\ Release({f})
    /\ reports' = [reports EXCEPT ![f] =
                     @ + IF pid[f] = 0 \/ f \in txs THEN 1 ELSE 0]
    /\ UNCHANGED <<hold, pid, of, air, txs, staVars, histVars>>

(* Mutant: a TXS that came before the end of the URB is forgotten. *)
CompleteForgets ==
  \E f \in Frames :
    /\ stage[f] = "queued" /\ Moves(f, "done")
    /\ reports' = [reports EXCEPT ![f] = @ + IF pid[f] = 0 THEN 1 ELSE 0]
    /\ UNCHANGED <<hold, pid, of, air, idVars, txs, staVars, histVars>>

(* mt76_queue_tx_complete. *)
Complete ==
  \E f \in Frames :
    /\ stage[f] = "queued" /\ Moves(f, "done")
    /\ reports' = [reports EXCEPT ![f] =
                     @ + IF pid[f] = 0 \/ f \in txs THEN 1 ELSE 0]
    /\ UNCHANGED <<hold, pid, of, air, idVars, txs, staVars, histVars>>

(* mt7921_mac_add_txs: a TXS names an entry of dev->wcid[] and an id. The   *)
(* frame that has the id gets the status.                                   *)
TxsTaken ==
  \E f \in air :
    LET g == ids[pid[f]] IN
    /\ sta = "up" /\ g # NoFrame
    /\ air' = air \ {f}
    /\ Release({g}) /\ StatusIn({g})
    /\ mixed' = IF g = f THEN mixed ELSE mixed \cup {f}
    /\ expired' = IF g = f THEN expired ELSE expired \cup {g}
    /\ UNCHANGED <<stage, hold, pid, of, staVars, robbed>>

(* The id is free: old entries are given up instead. *)
TxsStale ==
  \E f \in air :
    /\ sta = "up" /\ ids[pid[f]] = NoFrame
    /\ air' = air \ {f}
    /\ \E fs \in SUBSET Overdue :
         Release(fs) /\ StatusIn(fs) /\ expired' = expired \cup fs
    /\ UNCHANGED <<stage, hold, pid, of, staVars, robbed, mixed>>

(* No station has the entry, or the event is lost. *)
TxsIgnored ==
  \E f \in air :
    /\ air' = air \ {f}
    /\ UNCHANGED <<stage, hold, pid, of, idVars, doneVars, staVars, histVars>>

(* mt76_tx_status_check: from mac_work for what is overdue, and from        *)
(* mt76u_stop_tx for everything. Both go by dev->wcid_list.                 *)
StatusCheck ==
  /\ listed /\ \E fs \in SUBSET Overdue : fs # {} /\ GiveUp(fs)
  /\ UNCHANGED sta

StatusFlush ==
  /\ listed /\ GiveUp(InUse)
  /\ UNCHANGED sta

-----------------------------------------------------------------------------
(* The entry of dev->wcid[] changes hands.                                  *)

OnlySta(s) ==
  /\ sta' = s
  /\ UNCHANGED <<stage, hold, pid, of, air, idVars, doneVars, now, histVars>>

(* mt76_sta_pre_rcu_remove. *)
StaLeave == sta = "up" /\ OnlySta("leaving")

(* Mutant: nobody waits for the grace period. *)
StaSyncAtOnce == sta = "leaving" /\ OnlySta("synced")

(* mac80211 waits for everyone who may have looked the station up.          *)
StaSync == sta = "leaving" /\ (\A q \in Queues : hold[q] = NoFrame) /\ OnlySta("synced")

(* mt76_wcid_cleanup gives all its ids up. *)
Cleanup == sta = "synced" /\ sta' = "gone" /\ GiveUp(InUse)

(* The next station gets the entry. *)
StaAdd ==
  /\ sta = "gone" /\ now + 1 < MaxSta
  /\ sta' = "up" /\ now' = now + 1
  /\ ids' = [p \in Pids |-> NoFrame] /\ listed' = FALSE
  /\ UNCHANGED <<stage, hold, pid, of, air, doneVars, histVars>>

-----------------------------------------------------------------------------
QueueStep(q) ==
  \/ Start(q) \/ StatusAdd(q) \/ Queue(q) \/ SetupFails(q) \/ PadFails(q)
  \/ PadRelease(q)

Next ==
  \/ \E q \in Queues : QueueStep(q)
  \/ Complete \/ TxsTaken \/ TxsStale \/ TxsIgnored
  \/ StatusCheck \/ StatusFlush
  \/ StaLeave \/ StaSync \/ Cleanup \/ StaAdd

Spec == Init /\ [][Next]_vars

(* A lock holder goes on and mac_work runs. Nothing makes a URB complete or *)
(* a TXS come.                                                              *)
FairSpec ==
  /\ Spec
  /\ \A q \in Queues : WF_vars(QueueStep(q) /\ hold[q] # NoFrame)
  /\ WF_vars(StatusCheck)

-----------------------------------------------------------------------------
(* A frame is handed to mac80211, which frees it, once and not before its   *)
(* URB is done and its status is in, unless it has no id.                   *)
HandedOverOnce ==
  \A f \in Frames :
    reports[f] = IF stage[f] = "done" /\ (pid[f] = 0 \/ f \in txs) THEN 1 ELSE 0

(* Ids and frames belong together. A frame the driver still has, and that   *)
(* waits for its status, can still be found by its id; only the release of  *)
(* a frame whose padding failed can have taken the id of another one. And   *)
(* an id stands for a frame the driver owns; one that was freed has its id  *)
(* only until the failed pad that freed it has released it.                 *)
IdsAndFramesAgree ==
  /\ TypeOK
  /\ \A f \in Frames :
       stage[f] \in {"queued", "done"} /\ pid[f] # 0 /\ f \notin txs \cup robbed
         => ids[pid[f]] = f
  /\ \A p \in Pids : ids[p] # NoFrame =>
       /\ reports[ids[p]] = 0
       /\ stage[ids[p]] = "freed" => \E q \in Queues : hold[q] = ids[p]

(* The status of one frame is taken for another's only when it came after   *)
(* the first had lost its id, by the timeout or a failed pad.               *)
StatusFitsItsFrame == mixed \subseteq expired \cup robbed

(* The station that has the entry has only ids of its own frames; once its  *)
(* removal is through there are none, and the status check no longer sees   *)
(* it.                                                                      *)
RemovedStationIsGone ==
  /\ \A p \in Pids : ids[p] # NoFrame => of[ids[p]] = now /\ sta # "gone"
  /\ sta = "gone" => ~listed

(* A frame whose URB is done (or drained) is handed to mac80211, which also *)
(* brings its id back, whether or not its TXS ever comes.                   *)
FrameIsHandedOver ==
  \A f \in Frames : stage[f] = "done" ~> (reports[f] = 1 \/ f \in robbed)
=============================================================================
