----------------------------- MODULE UsbRxRing -----------------------------
(***************************************************************************)
(* The two USB receive queues of mt76 (usb.c 340-920): rings of URBs which *)
(* the host controller fills, which mt76u_complete_rx counts in order and  *)
(* which rx_worker empties, refills and submits again; the two parties     *)
(* that stop and resume them, the chip reset (mt7921/usb.c 160-223) and    *)
(* USB suspend (mt7921/usb.c 392-458); and the watchdog of mac_work that   *)
(* looks at the completions (mt792x_mac.c 134-164).                        *)
(*                                                                         *)
(* A URB is the slot it lives in.  What is spent on failures is bounded by *)
(* MaxFaults, the frames of the air by MaxFrames.                          *)
(***************************************************************************)
EXTENDS Integers, Sequences, SequencesExt

CONSTANTS NDesc,        \* URBs of a ring, MT_NUM_RX_ENTRIES
          MaxFrames,    \* frames the dongle sends
          MaxFaults,    \* failures of the bus, the memory or the firmware
          MaxSuspends,  \* suspends
          Tries,        \* attempts of one reset_work (10 in the code)
          StaleTicks    \* MT792x_RX_STALE_TICKS

ASSUME RxConstants == /\ NDesc \in Nat \ {0}      /\ Tries \in Nat \ {0}
                      /\ StaleTicks \in Nat \ {0} /\ {MaxFrames, MaxFaults, MaxSuspends} \subseteq Nat

Queues == {1, 2}               \* MT_RXQ_MAIN and MT_RXQ_MCU, in the order of mt76_for_each_q_rx
Slots  == 0 .. NDesc - 1
NoUrb  == NDesc                \* the worker has no URB in hand
Agents == {"reset", "pm"}      \* reset_work, and mt7921u_suspend and resume

VARIABLES
  \* the rings
  head, tail, queued,   \* per queue, as in struct mt76_queue
  flight,               \* per queue: the URBs with the host controller, oldest first
  reject,               \* per queue: urb->reject of its URBs, counted by (un)poison
  frame,                \* per queue and slot: the frame in the buffer, 0 for none
  \* rx_worker
  scheduled, parked,    \* its request bit, and whether mt76_worker_disable holds it
  wpc, wq, hand,        \* where it is, the queue it empties, the URB it works on
  \* the agents
  pc, at,               \* per agent: its step, and the queue the step is for
  left,                 \* attempts left to reset_work
  resetQueued,          \* reset_work is on the workqueue
  suspended,            \* pm->suspended
  \* mac_work and the interface
  assoc,                \* MT76_STATE_ASSOC
  moved, stale,         \* rx_urb_completions # last_rx_urb_count; rx_stale_ticks
  \* history
  escalated,            \* usb_queue_reset_device was called
  sent, up, since,      \* frames sent; per queue the last one handed up; sent at the last restart
  intact,               \* per queue: no URB was lost since it was started
  overlapped,           \* a chip reset touched the rings of a suspended device
  late,                 \* a reset was outstanding when the suspend began
  selfmade,             \* an attempt failed though nothing failed it
  faults, suspends

ring   == <<head, tail, queued, flight, reject, frame, since, intact>>
worker == <<scheduled, parked, wpc, wq, hand, up>>
agent  == <<pc, at, left, resetQueued, suspended, escalated, late, selfmade>>
watch  == <<assoc, moved, stale>>
count  == <<sent, faults, suspends, overlapped>>
vars   == <<ring, worker, agent, watch, count>>

Next1(s) == (s + 1) % NDesc
InHand(q) == hand # NoUrb /\ wq = q
(* USB suspend has begun to take the rings down, and resume is not over. *)
Asleep  == pc["pm"] \notin {"idle", "flush", "hif"}
Overlap == overlapped' = (overlapped \/ (Asleep /\ pc["reset"] # "idle"))

-----------------------------------------------------------------------------
(* Failures are spent from one budget. *)
Fault == /\ faults < MaxFaults
         /\ faults' = faults + 1

(* usb_submit_urb refuses a poisoned URB and one the controller has.        *)
Submittable(q) == IF reject[q] # 0 THEN {} ELSE Slots \ ToSet(flight[q])
RunOf(n)       == [k \in 1 .. n |-> k - 1]

-----------------------------------------------------------------------------
(* A station whose data queue has come to a standstill, every URB of it     *)
(* lost.  The events which the other queue brings it in that state are as   *)
(* many as they like: everywhere else they are counted with the failures.   *)
Deaf == assoc /\ flight[1] = <<>> /\ wpc = "idle" /\ ~scheduled
Free(q) == q = 2 /\ Deaf /\ pc["pm"] = "idle" /\ pc["reset"] = "idle"

(* mt76u_complete_rx: the oldest URB of q comes back, with a frame of the   *)
(* air ("data") or without one ("other": an event of the firmware, an       *)
(* error).  -EPROTO is treated as a cancelled URB and leaves the ring; every *)
(* other URB moves the head, provided it is the one the head points to.     *)
CompleteRx(q, status) ==
  /\ flight[q] # <<>>
  /\ LET u == Head(flight[q])
     IN /\ flight' = [flight EXCEPT ![q] = Tail(@)]
        /\ frame' = [frame EXCEPT ![q][u] = IF status = "data" THEN sent + 1 ELSE 0]
        /\ IF status # "proto" /\ head[q] = u
           THEN /\ head' = [head EXCEPT ![q] = Next1(@)]
                /\ queued' = [queued EXCEPT ![q] = @ + 1]
                /\ scheduled' = TRUE
           ELSE UNCHANGED <<head, queued, scheduled>>
  /\ moved' = TRUE
  /\ CASE status = "data"  -> sent < MaxFrames /\ sent' = sent + 1 /\ UNCHANGED <<faults, intact>>
       [] status = "other" -> (IF Free(q) THEN UNCHANGED faults ELSE Fault) /\ UNCHANGED <<sent, intact>>
       [] status = "proto" -> Fault /\ intact' = [intact EXCEPT ![q] = FALSE] /\ UNCHANGED sent
  /\ UNCHANGED <<tail, reject, since, parked, wpc, wq, hand, up, agent, assoc, stale,
                 suspends, overlapped>>

(* rx_worker starts: the request bit is taken, the queues are visited in    *)
(* order.                                                                   *)
WorkerStart ==
  /\ scheduled /\ ~parked /\ wpc = "idle"
  /\ scheduled' = FALSE /\ wpc' = "take" /\ wq' = 1
  /\ UNCHANGED <<ring, parked, hand, up, agent, watch, count>>

(* The next queue, or the end of the function. *)
NextQueue == IF wq = 1 THEN wpc' = "take" /\ wq' = 2 ELSE wpc' = "idle" /\ wq' = 1

(* mt76u_get_next_rx_entry. *)
WorkerTake ==
  /\ wpc = "take"
  /\ IF queued[wq] > 0
     THEN /\ hand' = tail[wq] /\ wpc' = "process"
          /\ tail' = [tail EXCEPT ![wq] = Next1(@)]
          /\ queued' = [queued EXCEPT ![wq] = @ - 1]
          /\ UNCHANGED wq
     ELSE NextQueue /\ UNCHANGED <<hand, tail, queued>>
  /\ UNCHANGED <<head, flight, reject, frame, since, intact, scheduled, parked, up,
                 agent, watch, count>>

(* mt76u_process_rx_entry: a frame goes up, with its buffer; anything else  *)
(* is dropped.                                                              *)
HandUp == /\ up' = IF frame[wq][hand] = 0 THEN up ELSE [up EXCEPT ![wq] = frame[wq][hand]]
          /\ frame' = [frame EXCEPT ![wq][hand] = 0]

(* The URB in hand is lost: nobody will submit it again. *)
LoseHand == /\ intact' = [intact EXCEPT ![wq] = FALSE]
            /\ UNCHANGED flight

(* mt76u_process_rx_queue, what came went up but its buffer cannot be       *)
(* replaced: the loop is left and the rest of the queue waits.              *)
RefillFails ==
  /\ wpc = "process"
  /\ Fault
  /\ HandUp /\ LoseHand /\ NextQueue
  /\ hand' = NoUrb
  /\ UNCHANGED <<head, tail, queued, reject, since, scheduled, parked,
                 agent, watch, sent, suspends, overlapped>>

(* The URB is refilled and submitted; the result of the submission is not   *)
(* looked at.                                                               *)
Resubmit ==
  /\ wpc = "process"
  /\ HandUp
  /\ \/ hand \in Submittable(wq) /\ flight' = [flight EXCEPT ![wq] = Append(@, hand)]
        /\ UNCHANGED <<faults, intact>>
     \/ hand \in Submittable(wq) /\ Fault /\ LoseHand
     \/ hand \notin Submittable(wq) /\ LoseHand /\ UNCHANGED faults
  /\ wpc' = "take" /\ hand' = NoUrb
  /\ UNCHANGED <<head, tail, queued, reject, since, scheduled, parked, wq,
                 agent, watch, sent, suspends, overlapped>>

-----------------------------------------------------------------------------
(* Mutant: the worker is not waited for. *)
StopDisableNoWait(a) ==
  /\ pc[a] = "disable"
  /\ parked' = TRUE
  /\ pc' = [pc EXCEPT ![a] = "poison"] /\ at' = [at EXCEPT ![a] = 1]
  /\ Overlap
  /\ UNCHANGED <<ring, scheduled, wpc, wq, hand, up, left, resetQueued, suspended,
                 escalated, late, selfmade, watch, sent, faults, suspends>>

(* mt76u_stop_rx, first half: mt76_worker_disable waits until the function  *)
(* has returned, or finds the worker parked by somebody else.               *)
StopDisable(a) ==
  /\ pc[a] = "disable"
  /\ parked \/ wpc = "idle"
  /\ parked' = TRUE
  /\ pc' = [pc EXCEPT ![a] = "poison"] /\ at' = [at EXCEPT ![a] = 1]
  /\ Overlap
  /\ UNCHANGED <<ring, scheduled, wpc, wq, hand, up, left, resetQueued, suspended,
                 escalated, late, selfmade, watch, sent, faults, suspends>>

(* Second half: the URBs of a queue are killed and refused from now on.     *)
(* Each killed one completes with -ENOENT and moves no index.               *)
StopPoison(a) ==
  /\ pc[a] = "poison"
  /\ LET q == at[a]
     IN /\ reject' = [reject EXCEPT ![q] = @ + 1]
        /\ flight' = [flight EXCEPT ![q] = <<>>]
        /\ intact' = [intact EXCEPT ![q] = FALSE]
        /\ moved' = (moved \/ flight[q] # <<>>)
        /\ pc' = [pc EXCEPT ![a] = IF q = 1 THEN @ ELSE IF a = "pm" THEN "asleep" ELSE "resume"]
        /\ at' = [at EXCEPT ![a] = IF q = 1 THEN 2 ELSE 1]
  /\ Overlap
  /\ UNCHANGED <<head, tail, queued, frame, since, worker, left, resetQueued, suspended,
                 escalated, late, selfmade, assoc, stale, sent, faults, suspends>>

(* Mutant: the completed entries stay queued. *)
SubmitBuffersKeepQueued(q, n) ==
  /\ flight' = [flight EXCEPT ![q] = @ \o RunOf(n)]
  /\ UNCHANGED <<head, tail, queued>>
  /\ since' = [since EXCEPT ![q] = sent]
  /\ intact' = [intact EXCEPT ![q] = n = NDesc]

(* Mutant: head keeps its place. *)
SubmitBuffersKeepHead(q, n) ==
  /\ flight' = [flight EXCEPT ![q] = @ \o RunOf(n)]
  /\ tail' = [tail EXCEPT ![q] = head[q]] /\ queued' = [queued EXCEPT ![q] = 0]
  /\ since' = [since EXCEPT ![q] = sent]
  /\ intact' = [intact EXCEPT ![q] = n = NDesc]
  /\ UNCHANGED head

(* A queue is started: its URBs are submitted and its indices zeroed under  *)
(* q->lock, the indices whether or not the submissions succeeded.           *)
SubmitBuffers(q, n) ==
  /\ flight' = [flight EXCEPT ![q] = @ \o RunOf(n)]
  /\ head' = [head EXCEPT ![q] = 0] /\ tail' = [tail EXCEPT ![q] = 0]
  /\ queued' = [queued EXCEPT ![q] = 0]
  /\ since' = [since EXCEPT ![q] = sent]
  /\ intact' = [intact EXCEPT ![q] = n = NDesc]

(* How far an attempt gets with q once its URBs are unpoisoned: up to the   *)
(* first one that is still rejected or already submitted.                   *)
Reach(q) == IF reject[q] # 1 THEN 0
            ELSE CHOOSE n \in 0 .. NDesc : /\ \A k \in 0 .. n - 1 : k \notin ToSet(flight[q])
                                           /\ n < NDesc => n \in ToSet(flight[q])

(* mt76u_resume_rx for one queue: unpoison, submit.  A failed submission    *)
(* returns at once, and the queues behind it stay poisoned.                 *)
Resume(a) ==
  /\ pc[a] = "resume"
  /\ LET q == at[a]
         Done == IF q = 1 THEN "resume" ELSE "enable"
     IN /\ reject' = [reject EXCEPT ![q] = @ - 1]
        /\ \/ /\ SubmitBuffers(q, Reach(q))
              /\ pc' = [pc EXCEPT ![a] = IF Reach(q) = NDesc THEN Done ELSE "failed"]
              /\ selfmade' = (selfmade \/ (a = "reset" /\ Reach(q) < NDesc))
              /\ UNCHANGED faults
           \/ \E n \in 0 .. Reach(q) - 1 :
              /\ Fault
              /\ SubmitBuffers(q, n)
              /\ pc' = [pc EXCEPT ![a] = "failed"]
              /\ UNCHANGED selfmade
        /\ at' = [at EXCEPT ![a] = IF q = 1 THEN 2 ELSE 1]
  /\ Overlap
  /\ UNCHANGED <<frame, worker, left, resetQueued, suspended, escalated, late, watch,
                 sent, suspends>>

(* The end of mt76u_resume_rx: mt76_worker_enable, which also schedules.    *)
ResumeEnable(a) ==
  /\ pc[a] = "enable"
  /\ parked' = FALSE /\ scheduled' = TRUE
  /\ pc' = [pc EXCEPT ![a] = IF a = "pm" THEN "wake" ELSE "boot"]
  /\ Overlap
  /\ UNCHANGED <<ring, wpc, wq, hand, up, at, left, resetQueued, suspended, escalated,
                 late, selfmade, watch, sent, faults, suspends>>

-----------------------------------------------------------------------------
(* Mutant: pm->suspended is not looked at. *)
ResetRequestAlways(susp) == resetQueued' = (resetQueued \/ pc["reset"] = "idle")

(* mt792x_reset: ignored during a reset and while suspended. *)
ResetRequest(susp) == resetQueued' = (resetQueued \/ (pc["reset"] = "idle" /\ ~susp))

(* mt7921_mac_reset_work begins.  Once the device reset is asked for, the   *)
(* instance is on its way out: chip resets in that time are left out, but   *)
(* for those a suspend waits for.                                           *)
ResetBegin ==
  /\ resetQueued /\ pc["reset"] = "idle"
  /\ escalated => pc["pm"] # "idle"
  /\ resetQueued' = FALSE
  /\ left' = Tries /\ selfmade' = FALSE
  /\ pc' = [pc EXCEPT !["reset"] = "disable"]
  /\ UNCHANGED <<ring, worker, at, suspended, escalated, late, watch, count>>

(* The rest of an attempt, from the power-on to __mt7921_start: it works or *)
(* it does not.                                                             *)
ResetBoot ==
  /\ pc["reset"] = "boot"
  /\ \/ pc' = [pc EXCEPT !["reset"] = "finish"] /\ UNCHANGED faults
     \/ Fault /\ pc' = [pc EXCEPT !["reset"] = "failed"]
  /\ UNCHANGED <<ring, worker, at, left, resetQueued, suspended, escalated, late,
                 selfmade, watch, sent, suspends, overlapped>>

(* A failed attempt is repeated; when all are used up the device reset is   *)
(* asked for.                                                               *)
ResetFailed ==
  /\ pc["reset"] = "failed"
  /\ left' = left - 1
  /\ pc' = [pc EXCEPT !["reset"] = IF left > 1 THEN "disable" ELSE "finish"]
  /\ at' = [at EXCEPT !["reset"] = 1]
  /\ escalated' = (escalated \/ left = 1)
  /\ UNCHANGED <<ring, worker, resetQueued, suspended, late, selfmade, watch, count>>

(* The last lines of reset_work, which clear pm->suspended. *)
ResetFinish ==
  /\ pc["reset"] = "finish"
  /\ pc' = [pc EXCEPT !["reset"] = "idle"]
  /\ left' = 0 /\ suspended' = FALSE
  /\ selfmade' = (selfmade /\ escalated)
  /\ UNCHANGED <<ring, worker, at, resetQueued, escalated, late, watch, count>>

-----------------------------------------------------------------------------
(* mt7921u_suspend: mark, flush reset_work, tell the firmware, stop.        *)
SuspendBegin ==
  /\ pc["pm"] = "idle"
  /\ suspends < MaxSuspends /\ suspends' = suspends + 1
  /\ pc' = [pc EXCEPT !["pm"] = "flush"]
  /\ suspended' = TRUE
  /\ late' = (resetQueued \/ pc["reset"] # "idle")
  /\ UNCHANGED <<ring, worker, at, left, resetQueued, escalated, selfmade, watch,
                 sent, faults, overlapped>>

SuspendFlush ==
  /\ pc["pm"] = "flush"
  /\ ~resetQueued /\ pc["reset"] = "idle"
  /\ pc' = [pc EXCEPT !["pm"] = "hif"]
  /\ UNCHANGED <<ring, worker, at, left, resetQueued, suspended, escalated, late,
                 selfmade, watch, count>>

(* Leave suspend or resume for good: the flag is cleared first, so that a   *)
(* failure may ask for a reset.                                             *)
PmEnd(fail) ==
  /\ pc' = [pc EXCEPT !["pm"] = "idle"] /\ at' = [at EXCEPT !["pm"] = 1]
  /\ suspended' = FALSE
  /\ IF fail THEN ResetRequest(FALSE) ELSE UNCHANGED resetQueued
  /\ late' = FALSE
  /\ UNCHANGED <<left, escalated, selfmade>>

(* mt76_connac_mcu_set_hif_suspend(true). *)
SuspendHif ==
  /\ pc["pm"] = "hif"
  /\ \/ pc' = [pc EXCEPT !["pm"] = "disable"]
        /\ UNCHANGED <<at, left, resetQueued, suspended, escalated, late, selfmade, faults>>
     \/ Fault /\ PmEnd(TRUE)
  /\ UNCHANGED <<ring, worker, watch, sent, suspends, overlapped>>

(* mt7921u_resume up to mt76u_resume_rx: the DMA set-up may fail. *)
ResumeBegin ==
  /\ pc["pm"] = "asleep"
  /\ \/ pc' = [pc EXCEPT !["pm"] = "resume"] /\ UNCHANGED faults
     \/ Fault /\ pc' = [pc EXCEPT !["pm"] = "failed"]
  /\ UNCHANGED <<ring, worker, at, left, resetQueued, suspended, escalated, late,
                 selfmade, watch, sent, suspends, overlapped>>

(* mt76_connac_mcu_set_hif_suspend(false), and the end of a failed resume. *)
ResumeHif ==
  /\ \/ pc["pm"] = "wake" /\ PmEnd(FALSE) /\ UNCHANGED faults
     \/ pc["pm"] = "wake" /\ Fault /\ PmEnd(TRUE)
     \/ pc["pm"] = "failed" /\ PmEnd(TRUE) /\ UNCHANGED faults
  /\ UNCHANGED <<ring, worker, watch, sent, suspends, overlapped>>

-----------------------------------------------------------------------------
(* Mutant: the ticks are forgotten at every look. *)
MacWorkForgets ==
  /\ pc["pm"] = "idle" /\ pc["reset"] = "idle"
  /\ assoc
  /\ moved' = FALSE /\ stale' = 0
  /\ UNCHANGED <<ring, worker, pc, at, left, resetQueued, suspended, escalated, late, selfmade,
                 assoc, count>>

(* The watchdog of mt792x_mac_work; reset_work and suspend cancel the work. *)
MacWork ==
  /\ pc["pm"] = "idle" /\ pc["reset"] = "idle"
  /\ assoc
  /\ IF moved
     THEN moved' = FALSE /\ stale' = 0 /\ UNCHANGED resetQueued
     ELSE IF stale + 1 >= StaleTicks
          THEN stale' = 0 /\ ResetRequest(suspended) /\ UNCHANGED moved
          ELSE stale' = stale + 1 /\ UNCHANGED <<moved, resetQueued>>
  /\ UNCHANGED <<ring, worker, pc, at, left, suspended, escalated, late, selfmade,
                 assoc, count>>

(* The station joins or leaves its access point. *)
Associate ==
  /\ pc["pm"] = "idle"
  /\ assoc' = ~assoc
  /\ UNCHANGED <<ring, worker, agent, moved, stale, count>>

(* A command of some work item times out, mt7921_mcu_parse_response. *)
McuTimeout ==
  /\ Fault
  /\ ResetRequest(suspended)
  /\ UNCHANGED <<ring, worker, pc, at, left, suspended, escalated, late, selfmade,
                 watch, sent, suspends, overlapped>>

(* mt76u_alloc_rx_queue of both queues, and the state of a new instance. *)
PerQueue(x)  == [q \in Queues |-> x]
PerAgent(x)  == [a \in Agents |-> x]
AllSubmitted == PerQueue(RunOf(NDesc))
NoFrames     == PerQueue([s \in Slots |-> 0])

Init ==
  /\ head = PerQueue(0) /\ tail = PerQueue(0) /\ queued = PerQueue(0) /\ reject = PerQueue(0)
  /\ flight = AllSubmitted /\ frame = NoFrames
  /\ scheduled = FALSE /\ parked = FALSE /\ wpc = "idle" /\ wq = 1 /\ hand = NoUrb
  /\ pc = PerAgent("idle") /\ at = PerAgent(1) /\ left = 0
  /\ resetQueued = FALSE /\ suspended = FALSE
  /\ assoc = FALSE /\ moved = FALSE /\ stale = 0
  /\ escalated = FALSE /\ late = FALSE /\ selfmade = FALSE /\ overlapped = FALSE
  /\ sent = 0 /\ faults = 0 /\ suspends = 0 /\ up = PerQueue(0) /\ since = PerQueue(0) /\ intact = PerQueue(TRUE)

(* The USB core answers an escalation: unbind, and a new probe, whose       *)
(* instance starts as above.                                                *)
Reprobe ==
  /\ escalated /\ pc = PerAgent("idle") /\ wpc = "idle"
  /\ head' = PerQueue(0) /\ tail' = PerQueue(0) /\ queued' = PerQueue(0) /\ reject' = PerQueue(0)
  /\ flight' = AllSubmitted /\ frame' = NoFrames
  /\ scheduled' = FALSE /\ parked' = FALSE /\ at' = PerAgent(1)
  /\ resetQueued' = FALSE /\ suspended' = FALSE
  /\ assoc' = FALSE /\ moved' = FALSE /\ stale' = 0
  /\ escalated' = FALSE /\ late' = FALSE /\ selfmade' = FALSE /\ overlapped' = FALSE
  /\ since' = PerQueue(sent) /\ intact' = PerQueue(TRUE)
  /\ UNCHANGED <<pc, left, wpc, wq, hand, up, sent, faults, suspends>>

(* A suspended device is not reset: the request is dropped. *)
ResetLost ==
  /\ escalated /\ pc["pm"] = "asleep"
  /\ escalated' = FALSE
  /\ UNCHANGED <<ring, worker, pc, at, left, resetQueued, suspended, late, selfmade,
                 watch, count>>

WorkerStep == WorkerStart \/ WorkerTake \/ Resubmit \/ RefillFails
ResetStep  == \/ ResetBegin \/ ResetBoot \/ ResetFailed \/ ResetFinish
              \/ StopDisable("reset") \/ StopPoison("reset")
              \/ Resume("reset") \/ ResumeEnable("reset")
PmStep     == \/ SuspendFlush \/ SuspendHif \/ ResumeBegin \/ ResumeHif
              \/ StopDisable("pm") \/ StopPoison("pm")
              \/ Resume("pm") \/ ResumeEnable("pm")

Next == \/ \E q \in Queues, status \in {"data", "other", "proto"} : CompleteRx(q, status)
        \/ WorkerStep \/ ResetStep \/ PmStep \/ SuspendBegin
        \/ MacWork \/ Associate \/ McuTimeout \/ Reprobe \/ ResetLost

Spec == Init /\ [][Next]_vars

(* The worker, the work items and the USB core's suspend and resume calls   *)
(* run; a reset or a suspend that waits for the worker gets it parked, since *)
(* a worker asked to park starts no new run.                                *)
FairSpec == /\ Spec
            /\ WF_vars(WorkerStep) /\ WF_vars(ResetStep) /\ WF_vars(PmStep)
            /\ \A a \in Agents : SF_vars(StopDisable(a))
            /\ SF_vars(MacWork) /\ WF_vars(Reprobe)

-----------------------------------------------------------------------------
Each(S)    == [Queues -> S]
RingSteps  == {"disable", "poison", "resume", "enable"}
ResetSteps == {"idle", "boot", "failed", "finish"} \cup RingSteps
PmSteps    == {"idle", "flush", "hif", "asleep", "wake", "failed"} \cup RingSteps

TypeOK ==
  /\ head \in Each(Slots) /\ tail \in Each(Slots) /\ queued \in Each(Nat)
  /\ reject \in Each(Nat) /\ flight \in Each(Seq(Slots))
  /\ frame \in Each([Slots -> 0 .. MaxFrames])
  /\ up \in Each(0 .. MaxFrames) /\ since \in Each(0 .. MaxFrames) /\ intact \in Each(BOOLEAN)
  /\ {scheduled, parked, resetQueued, suspended, assoc, moved, escalated, overlapped,
      late, selfmade} \subseteq BOOLEAN
  /\ wpc \in {"idle", "take", "process"} /\ wq \in Queues /\ hand \in 0 .. NDesc
  /\ pc \in [Agents -> ResetSteps \cup PmSteps]
  /\ pc["reset"] \in ResetSteps /\ pc["pm"] \in PmSteps
  /\ at \in [Agents -> Queues] /\ left \in 0 .. Tries
  /\ stale \in 0 .. StaleTicks - 1 /\ sent \in 0 .. MaxFrames /\ faults \in 0 .. MaxFaults
  /\ suspends \in 0 .. MaxSuspends

(* The completed entries of a queue, oldest first, and the URB in hand. *)
Window(q) == {(tail[q] + k) % NDesc : k \in 0 .. queued[q] - 1}
Held(q)   == Window(q) \cup (IF InHand(q) THEN {hand} ELSE {})

(* A buffer has one owner: no URB that was completed and is not yet         *)
(* processed, nor the one the worker reads, is with the host controller,    *)
(* and the controller has no URB twice.  It holds through every stop and    *)
(* restart, lost URBs included, as long as a chip reset and a suspend do    *)
(* not work on the rings at the same time.                                  *)
OneOwner ==
  /\ TypeOK
  /\ ~overlapped => \A q \in Queues : /\ queued[q] <= NDesc /\ IsInjective(flight[q])
                                      /\ ToSet(flight[q]) \cap Held(q) = {}
                                      /\ head[q] = (tail[q] + queued[q]) % NDesc
                                      /\ InHand(q) => hand \notin Window(q)

(* While no URB of it was lost, the URBs of a queue with the controller are *)
(* exactly the rest of the ring, in ring order from head: no completion of  *)
(* such a queue is ever the mismatch that mt76u_complete_rx drops.          *)
IntactRingInOrder ==
  ~overlapped => \A q \in Queues : intact[q] =>
    flight[q] = [k \in 1 .. NDesc - queued[q] - (IF InHand(q) THEN 1 ELSE 0)
                   |-> (head[q] + k - 1) % NDesc]

(* Frames go up in the order in which they came, once, and none goes up     *)
(* after a restart of its queue that came before it.                        *)
FreshAndInOrder ==
  [][~overlapped => \A q \in Queues : up'[q] # up[q] => up'[q] > up[q] /\ up'[q] > since[q]]_vars

(* While USB suspend has the rings, the chip reset keeps off them, unless   *)
(* it was outstanding when the suspend began (then its last lines clear     *)
(* pm->suspended, and new requests are taken).                              *)
SuspendKeepsResetsOut ==
  [][(StopPoison("reset") \/ Resume("reset")) /\ Asleep => late]_vars

(* From some time on no URB of the event queue comes back but a killed one. *)
OnlyKilled  == Len(flight[2]') < Len(flight[2]) => reject[2]' > reject[2]
QuietAtLast == <>[][OnlyKilled]_vars

(* A station whose data queue has come to a standstill, every URB of it     *)
(* lost, gets its URBs back or a new probe, unless it leaves its access     *)
(* point or the device is suspended, provided that the dongle does not go   *)
(* on completing URBs of the other queue: the watchdog counts those too.    *)
DeafStationComesBack ==
  QuietAtLast => (Deaf ~> (flight[1] # <<>> \/ ~assoc \/ pc["pm"] # "idle"))

(* The code does not have this one (README, section 4): the same without    *)
(* the proviso.                                                             *)
DeafStationNoticed ==
  Deaf ~> (flight[1] # <<>> \/ ~assoc \/ pc["pm"] # "idle")

(* The code does not have this one (README, section 4, with the instance    *)
(* that shows it). mt7921/mac.c: ten failed resets in a row "mean the       *)
(* device is hard-wedged beyond in-driver recovery": no attempt fails that  *)
(* nothing made fail.                                                       *)
ExhaustedMeansWedged == escalated => ~selfmade
=============================================================================
