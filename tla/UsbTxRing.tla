------------------------------ MODULE UsbTxRing ------------------------------
(***************************************************************************)
(* One AC queue: the ring of URBs between mt76u_tx_queue_skb and the       *)
(* status worker, the sl0030 hold timer that batches submissions, URB      *)
(* completions, and mt76u_stop_tx with its graceful and its forced drain.  *)
(*                                                                         *)
(* tail..head are the queued entries, first..head those not submitted yet. *)
(* The threads are tx_worker, the hold timer, the status worker, URB       *)
(* completions and the caller of mt76u_stop_tx, one in a behaviour:        *)
(* mt7921u_mac_reset ("reset"), which parks tx_worker first, or            *)
(* mt792xu_stop ("stop"), which does not. q->lock sections are single      *)
(* actions.                                                                *)
(***************************************************************************)
EXTENDS Naturals, Sequences

CONSTANTS
  N,            \* q->ndesc (256)
  FreeThr,      \* MT_TXQ_FREE_THR (32)
  HoldSettings, \* values sl30_tx_hold_us > 0 takes (writable at run time)
  Stoppers,     \* which callers of mt76u_stop_tx to look at
  Lossy,        \* those beside which usb_submit_urb may fail
  MaxFrames     \* bound: frames queued in one behaviour

ASSUME RingConstants ==
  /\ N \in Nat \ {0} /\ FreeThr \in 0..(N - 1)
  /\ HoldSettings \subseteq BOOLEAN
  /\ Lossy \subseteq Stoppers /\ Stoppers \subseteq {"reset", "stop"}
  /\ MaxFrames \in Nat

VARIABLES
  head, first, tail, queued,  \* struct mt76_queue
  skb,        \* entry[i].skb: the frame last put into slot i (0: none yet)
  done,       \* entry[i].done
  inFlight,   \* the slots whose URB the host controller owns
  armed,      \* usb.tx_hold_armed
  timer,      \* tx_hold_timer: queued ("pending"), in its callback ("firing")
  txPc,       \* tx_worker: "idle", "picked" (a txq was chosen) or "burst"
  txParked,   \* its KTHREAD_SHOULD_PARK
  statusPc,   \* status worker: "idle", "loop" or "advance" (skb done, tail not)
  statusSched,\* its MT76_WORKER_SCHEDULED
  statusParked, \* its KTHREAD_SHOULD_PARK
  running,    \* MT76_STATE_RUNNING
  resetBit,   \* MT76_RESET
  caller,     \* who calls mt76u_stop_tx in this behaviour
  stopPc,     \* where the caller of mt76u_stop_tx is
  accepted,   \* frames queued so far
  completed   \* frames completed so far, in order (history)

idxVars    == <<head, first, tail, queued>>
timerVars  == <<armed, timer>>
statusVars == <<statusPc, statusSched, statusParked>>
txVars     == <<txPc, txParked>>
stateBits  == <<running, resetBit>>
vars == <<idxVars, skb, done, inFlight, timerVars, txVars, statusVars,
          stateBits, caller, stopPc, accepted, completed>>

Slots == 0..(N - 1)
Succ(i) == (i + 1) % N

StopPcs == {"idle", "parkTx", "cancel", "disarm", "flush", "parkStatus", "wait", "kill",
              "parkTxAgain", "complete", "advance", "unparkTx", "unparkStatus",
              "finish"}

(* Every variable keeps its range; in particular queued never passes ndesc. *)
TypeOK ==
  /\ head \in Slots /\ first \in Slots /\ tail \in Slots /\ queued \in 0..N
  /\ skb \in [Slots -> 0..MaxFrames] /\ done \in [Slots -> BOOLEAN]
  /\ inFlight \subseteq Slots
  /\ armed \in BOOLEAN /\ timer \subseteq {"pending", "firing"}
  /\ txPc \in {"idle", "picked", "burst"} /\ txParked \in BOOLEAN
  /\ statusPc \in {"idle", "loop", "advance"}
  /\ statusSched \in BOOLEAN /\ statusParked \in BOOLEAN
  /\ running \in BOOLEAN /\ resetBit \in BOOLEAN
  /\ caller \in Stoppers /\ stopPc \in StopPcs
  /\ accepted \in 0..MaxFrames
  /\ completed \in Seq(1..MaxFrames) /\ Len(completed) <= accepted

Init ==
  /\ head = 0 /\ first = 0 /\ tail = 0 /\ queued = 0
  /\ skb = [i \in Slots |-> 0] /\ done = [i \in Slots |-> FALSE]
  /\ inFlight = {}
  /\ armed = FALSE /\ timer = {}
  /\ txPc = "idle" /\ txParked = FALSE
  /\ statusPc = "idle" /\ statusSched = FALSE /\ statusParked = FALSE
  /\ running = TRUE /\ resetBit = FALSE
  /\ caller \in Stoppers /\ stopPc = "idle"
  /\ accepted = 0 /\ completed = <<>>

-----------------------------------------------------------------------------
(* mt76u_tx_submit: URBs go out from first to head until one submission     *)
(* fails; one still owned by the controller always does (-EBUSY).           *)
Pending == (head + N - first) % N     \* URBs the loop has to submit
Slot(i) == (first + i) % N

Submit ==
  \E n \in 0..Pending :
    /\ \A i \in 0..(n - 1) : Slot(i) \notin inFlight
    /\ n = Pending \/ caller \in Lossy \/ Slot(n) \in inFlight
    /\ inFlight' = inFlight \cup {Slot(i) : i \in 0..(n - 1)}
    /\ first' = (first + n) % N

-----------------------------------------------------------------------------
(* tx_worker: mt76_txq_schedule_list and mt76_txq_send_burst.               *)

Stopped == queued + FreeThr >= N      \* mt76_txq_stopped

TxPick ==
  /\ txPc = "idle" /\ ~txParked /\ accepted < MaxFrames
  /\ ~resetBit /\ ~Stopped
  /\ txPc' = "picked"
  /\ UNCHANGED <<idxVars, skb, done, inFlight, timerVars, txParked, statusVars,
                 stateBits, caller, stopPc, accepted, completed>>

(* mt76u_tx_queue_skb: ENOSPC when the ring is full (nothing changes). *)
QueueSkb ==
  /\ queued < N
  /\ skb' = [skb EXCEPT ![head] = accepted + 1]
  /\ head' = Succ(head) /\ queued' = queued + 1
  /\ accepted' = accepted + 1

(* Mutant: the burst goes on without looking at the free threshold. *)
TxQueueUnchecked ==
  /\ \/ txPc = "picked"
     \/ txPc = "burst" /\ ~resetBit
  /\ accepted < MaxFrames /\ QueueSkb
  /\ txPc' = "burst"
  /\ UNCHANGED <<first, tail, done, inFlight, timerVars, txParked, statusVars,
                 stateBits, caller, stopPc, completed>>

(* The first frame of a burst is queued unconditionally, the next ones only *)
(* while there is no reset and the queue is not about to fill up.           *)
TxQueue ==
  /\ \/ txPc = "picked"
     \/ txPc = "burst" /\ ~resetBit /\ ~Stopped
  /\ accepted < MaxFrames /\ QueueSkb
  /\ txPc' = "burst"
  /\ UNCHANGED <<first, tail, done, inFlight, timerVars, txParked, statusVars,
                 stateBits, caller, stopPc, completed>>

(* mt76u_tx_kick at the end of a burst. *)
TxKick ==
  /\ txPc = "burst" /\ txPc' = "idle"
  /\ \/ /\ TRUE \in HoldSettings
        /\ armed' = TRUE
        /\ timer' = IF armed THEN timer ELSE timer \cup {"pending"}
        /\ UNCHANGED <<inFlight, first>>
     \/ /\ FALSE \in HoldSettings
        /\ Submit
        /\ UNCHANGED timerVars
  /\ UNCHANGED <<head, tail, queued, skb, done, txParked, statusVars, stateBits,
                 caller, stopPc, accepted, completed>>

-----------------------------------------------------------------------------
(* mt76u_tx_hold_timer_fn: the flag is cleared first, so that a kick during *)
(* the flush arms the timer anew.                                           *)

TimerFire ==
  /\ "pending" \in timer /\ "firing" \notin timer
  /\ timer' = {"firing"} /\ armed' = FALSE
  /\ UNCHANGED <<idxVars, skb, done, inFlight, txVars, statusVars, stateBits,
                 caller, stopPc, accepted, completed>>

TimerFlush ==
  /\ "firing" \in timer
  /\ timer' = timer \ {"firing"}
  /\ Submit
  /\ UNCHANGED <<head, tail, queued, skb, done, armed, txVars, statusVars,
                 stateBits, caller, stopPc, accepted, completed>>

-----------------------------------------------------------------------------
(* mt76u_complete_tx, for a URB the controller gives back with any status.  *)

UrbComplete(i) ==
  /\ i \in inFlight
  /\ inFlight' = inFlight \ {i}
  /\ done' = [done EXCEPT ![i] = TRUE]
  /\ statusSched' = TRUE
  /\ UNCHANGED <<idxVars, skb, timerVars, txVars, statusPc, statusParked,
                 stateBits, caller, stopPc, accepted, completed>>

-----------------------------------------------------------------------------
(* mt76u_status_worker. *)

StatusStart ==
  /\ statusPc = "idle" /\ statusSched /\ ~statusParked
  /\ statusSched' = FALSE
  /\ statusPc' = IF running THEN "loop" ELSE "idle"
  /\ UNCHANGED <<idxVars, skb, done, inFlight, timerVars, txVars, statusParked,
                 stateBits, caller, stopPc, accepted, completed>>

(* First half of mt76_queue_tx_complete: the skb of the tail entry is       *)
(* reported and freed.                                                      *)
TakeTail ==
  /\ queued > 0
  /\ done' = [done EXCEPT ![tail] = FALSE]
  /\ completed' = Append(completed, skb[tail])

(* Mutant: the entry is given back but the tail stays. *)
AdvanceCountOnly == queued' = queued - 1 /\ UNCHANGED tail

(* Second half, under q->lock. *)
AdvanceTail == tail' = Succ(tail) /\ queued' = queued - 1

StatusTake ==
  /\ statusPc = "loop" /\ done[tail]
  /\ TakeTail
  /\ statusPc' = "advance"
  /\ UNCHANGED <<idxVars, skb, inFlight, timerVars, txVars, statusSched,
                 statusParked, stateBits, caller, stopPc, accepted>>

StatusAdvance ==
  /\ statusPc = "advance" /\ AdvanceTail
  /\ statusPc' = "loop"
  /\ UNCHANGED <<head, first, skb, done, inFlight, timerVars, txVars, statusSched,
                 statusParked, stateBits, caller, stopPc, accepted, completed>>

StatusEnd ==
  /\ statusPc = "loop" /\ (queued = 0 \/ ~done[tail])
  /\ statusPc' = "idle"
  /\ UNCHANGED <<idxVars, skb, done, inFlight, timerVars, txVars, statusSched,
                 statusParked, stateBits, caller, stopPc, accepted, completed>>

-----------------------------------------------------------------------------
(* mt76u_stop_tx and its callers. *)

At(pc) == stopPc = pc
Go(pc) == stopPc' = pc

(* mt7921_mac_reset_work has set MT76_RESET before mt7921u_mac_reset parks  *)
(* tx_worker; mt792xu_stop starts with mt76u_stop_tx itself.                *)
StopBegin ==
  /\ At("idle")
  /\ \/ caller = "reset" /\ Go("parkTx") /\ resetBit' = TRUE
     \/ caller = "stop" /\ running /\ Go("cancel") /\ UNCHANGED resetBit
  /\ UNCHANGED <<idxVars, skb, done, inFlight, timerVars, txVars, statusVars,
                 running, caller, accepted, completed>>

(* Mutant: the reset does not park tx_worker. *)
StopParkTxSkipped ==
  /\ At("parkTx") /\ Go("cancel")
  /\ UNCHANGED <<idxVars, skb, done, inFlight, timerVars, txVars, statusVars,
                 stateBits, caller, accepted, completed>>

(* kthread_park: at once if already asked to park, else after the current   *)
(* run of the worker.                                                       *)
StopParkTx ==
  /\ At("parkTx") /\ Go("cancel")
  /\ txPc = "idle" \/ txParked
  /\ txParked' = TRUE
  /\ UNCHANGED <<idxVars, skb, done, inFlight, timerVars, txPc, statusVars,
                 stateBits, caller, accepted, completed>>

(* mt76u_tx_hold_cancel: hrtimer_cancel waits for a running callback. *)
StopCancel ==
  /\ At("cancel") /\ Go("disarm")
  /\ "firing" \notin timer /\ timer' = {}
  /\ UNCHANGED <<idxVars, skb, done, inFlight, armed, txVars, statusVars,
                 stateBits, caller, accepted, completed>>

StopDisarm ==
  /\ At("disarm") /\ Go("flush")
  /\ armed' = FALSE
  /\ UNCHANGED <<idxVars, skb, done, inFlight, timer, txVars, statusVars,
                 stateBits, caller, accepted, completed>>

StopFlush ==
  /\ At("flush") /\ Go("parkStatus")
  /\ Submit
  /\ UNCHANGED <<head, tail, queued, skb, done, timerVars, txVars, statusVars,
                 stateBits, caller, accepted, completed>>

(* Mutant: the status worker keeps running during the forced drain. *)
StopParkStatusSkipped ==
  /\ At("parkStatus") /\ Go("wait")
  /\ UNCHANGED <<idxVars, skb, done, inFlight, timerVars, txVars, statusVars,
                 stateBits, caller, accepted, completed>>

StopParkStatus ==
  /\ At("parkStatus") /\ Go("wait")
  /\ statusPc = "idle" \/ statusParked
  /\ statusParked' = TRUE /\ statusSched' = FALSE
  /\ UNCHANGED <<idxVars, skb, done, inFlight, timerVars, txVars, statusPc,
                 stateBits, caller, accepted, completed>>

(* wait_event_timeout on mt76_has_tx_pending, which looks at all queues:    *)
(* it may time out even when this one is empty.                             *)
StopWait ==
  /\ At("wait")
  /\ Go("kill") \/ (queued = 0 /\ Go("unparkStatus"))
  /\ UNCHANGED <<idxVars, skb, done, inFlight, timerVars, txVars, statusVars,
                 stateBits, caller, accepted, completed>>

(* usb_kill_urb on every entry; the completions run. *)
StopKill ==
  /\ At("kill") /\ Go("parkTxAgain")
  /\ inFlight' = {}
  /\ done' = [i \in Slots |-> done[i] \/ i \in inFlight]
  /\ statusSched' = (statusSched \/ inFlight # {})
  /\ UNCHANGED <<idxVars, skb, timerVars, txVars, statusPc, statusParked,
                 stateBits, caller, accepted, completed>>

StopParkTxAgain ==
  /\ At("parkTxAgain") /\ Go("complete")
  /\ txPc = "idle" \/ txParked
  /\ txParked' = TRUE
  /\ UNCHANGED <<idxVars, skb, done, inFlight, timerVars, txPc, statusVars,
                 stateBits, caller, accepted, completed>>

StopTake ==
  /\ At("complete") /\ Go("advance")
  /\ TakeTail
  /\ UNCHANGED <<idxVars, skb, inFlight, timerVars, txVars, statusVars,
                 stateBits, caller, accepted>>

StopAdvance ==
  /\ At("advance") /\ Go("complete")
  /\ AdvanceTail
  /\ UNCHANGED <<head, first, skb, done, inFlight, timerVars, txVars, statusVars,
                 stateBits, caller, accepted, completed>>

StopUnparkTx ==
  /\ At("complete") /\ queued = 0 /\ Go("unparkStatus")
  /\ txParked' = FALSE
  /\ UNCHANGED <<idxVars, skb, done, inFlight, timerVars, txPc, statusVars,
                 stateBits, caller, accepted, completed>>

StopUnparkStatus ==
  /\ At("unparkStatus") /\ Go("finish")
  /\ statusParked' = FALSE /\ statusSched' = TRUE
  /\ UNCHANGED <<idxVars, skb, done, inFlight, timerVars, txVars, statusPc,
                 stateBits, caller, accepted, completed>>

(* The rest of the caller: the reset reopens the queues, having set RUNNING *)
(* if it succeeded; the interface stop clears RUNNING.                      *)
StopFinish ==
  /\ At("finish") /\ Go("idle")
  /\ IF caller = "reset"
     THEN resetBit' = FALSE /\ txParked' = FALSE /\ running' \in {running, TRUE}
     ELSE running' = FALSE /\ UNCHANGED <<resetBit, txParked>>
  /\ UNCHANGED <<idxVars, skb, done, inFlight, timerVars, txPc, statusVars,
                 caller, accepted, completed>>

(* mt7921_start. *)
Restart ==
  /\ ~running /\ At("idle")
  /\ running' = TRUE
  /\ UNCHANGED <<idxVars, skb, done, inFlight, timerVars, txVars, statusVars,
                 resetBit, caller, stopPc, accepted, completed>>

-----------------------------------------------------------------------------
TxWorker == TxPick \/ TxQueue \/ TxKick
HoldTimer == TimerFire \/ TimerFlush
StatusWorker == StatusStart \/ StatusTake \/ StatusAdvance \/ StatusEnd

StopTx ==
  \/ StopParkTx \/ StopCancel \/ StopDisarm \/ StopFlush
  \/ StopParkStatus \/ StopWait \/ StopKill \/ StopParkTxAgain
  \/ StopTake \/ StopAdvance \/ StopUnparkTx \/ StopUnparkStatus
  \/ StopFinish

Next ==
  \/ TxWorker \/ HoldTimer \/ StatusWorker
  \/ \E i \in Slots : UrbComplete(i)
  \/ StopBegin \/ StopTx
  \/ Restart

Spec == Init /\ [][Next]_vars

(* Kernel threads and timers run when they can. A worker asked to park      *)
(* starts no new run, so a caller waiting for it gets SF. Nothing is        *)
(* assumed of the dongle: a URB may stay with the controller for ever.      *)
Fairness ==
  /\ WF_vars(TxQueue \/ TxKick) /\ WF_vars(HoldTimer) /\ WF_vars(StatusWorker)
  /\ SF_vars(StopTx)

FairSpec == Spec /\ Fairness

-----------------------------------------------------------------------------
(* Properties. *)

(* Every variable keeps its range and the ring indices agree: queued        *)
(* entries are exactly tail..head, and the frames in them are the ones      *)
(* accepted and not completed, in order; the entry whose skb a drain has    *)
(* just freed is the only one in both.                                      *)
Freeing == statusPc = "advance" \/ At("advance")

RingIsConsistent ==
  /\ TypeOK
  /\ head = (tail + queued) % N
  /\ Len(completed) + queued = accepted + (IF Freeing THEN 1 ELSE 0)
  /\ \A i \in 0..(queued - 1) :
       skb[(tail + i) % N] = accepted - queued + i + 1

(* Frames are completed once each, in the order they were queued, however   *)
(* the hold timer, failing submissions, late completions and a stop         *)
(* interleave.                                                              *)
Fifo == INSTANCE TxFifo
ImplementsFifo == Fifo!Spec

(* The chip reset works with tx_worker parked; and a URB whose submission   *)
(* failed is left to the next kick, which may never come.                   *)
Orderly == caller = "reset" /\ caller \notin Lossy

(* The controller never owns a URB whose skb has been freed, through any    *)
(* number of chip resets that drain the ring by force.                      *)
FreedNotInFlight ==
  Orderly => \A i \in inFlight : \A k \in DOMAIN completed : completed[k] # skb[i]

(* A frame in the hold window is never forgotten, also when a chip reset    *)
(* cancels the timer it waits for: while URBs keep coming back, from the    *)
(* dongle or killed by resets, every accepted frame is completed; and a     *)
(* chip reset completes those that it finds, whatever the dongle does.      *)
UrbsComeBack == \A i \in Slots : []<>(i \notin inFlight)

EveryFrameCompletes ==
  Orderly => \A k \in 1..MaxFrames :
    /\ UrbsComeBack => (accepted >= k ~> Len(completed) >= k)
    /\ (accepted >= k /\ ~At("idle")) ~> Len(completed) >= k

(* The code does not have this one (README, section 4, with the instance    *)
(* that shows it): "synchronous drain used from the stop/deinit path so no  *)
(* held frame is left parked in [first, head) while queues are torn down".  *)
NothingParkedAfterDrain == At("unparkStatus") /\ queued = 0 => first = head
=============================================================================
