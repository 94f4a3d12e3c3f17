------------------------------ MODULE RxReorder ------------------------------
(***************************************************************************)
(* Reordering of received A-MPDU frames (agg-rx.c): one block-ack session  *)
(* of one peer and TID, the rx_worker that feeds it, the reorder_work that *)
(* releases frames behind holes that timed out, block-ack requests, and    *)
(* start and stop of the session by ampdu_action or the chip reset.        *)
(*                                                                         *)
(* A frame is its unwrapped sequence number; the code sees it modulo SN.   *)
(* Sections under tid->lock are single actions.  Frames that leave the     *)
(* window wait in the list of the context that took them out, and go up to *)
(* mac80211 from there, later, without the lock.                           *)
(***************************************************************************)
EXTENDS Naturals, Sequences, SequencesExt, FiniteSetsExt

CONSTANTS
  SN,       \* sequence number space (4096)
  Sizes,    \* buffer sizes the peer may negotiate (any up to 256)
  Ssn,      \* starting sequence number of the first session
  MaxSkip,  \* bound: frames the peer sends beyond the newest one we heard
  LastFrame \* bound: last frame of the peer

ASSUME ReorderConstants ==
  /\ SN \in Nat /\ Sizes # {} /\ Sizes \subseteq Nat \ {0}
  /\ MaxSkip \in Nat \ {0} /\ \A n \in Sizes : 2 * (n + MaxSkip) <= SN
  /\ Ssn \in Nat \ {0, 1} /\ LastFrame \in Nat /\ Ssn < LastFrame

VARIABLES
  session,  \* wcid->aggr[tid] and what became of it: "none", "active", "stopped"
  size,     \* tid->size
  head,     \* tid->head
  buf,      \* tid->reorder_buf: a frame, or Empty
  started,  \* tid->started
  work,     \* reorder_work: "queued" and/or "running" (past its locked part)
  again,    \* frames were left when it looked: it will queue itself again
  rxList,   \* the frames mt76_rx_poll_complete has collected
  workList, \* the frames mt76_rx_aggr_reorder_work has collected
  heard,    \* the peer's transmit window is right behind this frame
  first,    \* the session's starting sequence number, unwrapped (history)
  delivered,\* frames of this session handed to mac80211, in order (history)
  overtaken,\* frames one context held while the other handed up newer ones
  robbed,   \* frames dropped because another frame sat in their slot (history)
  got       \* frames received in this session, none behind its window (history)

lists == <<rxList, workList, delivered, overtaken>>
vars == <<session, size, head, buf, started, work, again, heard, first,
          robbed, got, lists>>

Slots == 0..(size - 1)
Frames == (Ssn - 1)..LastFrame
Empty == 0            \* frames are positive
Buffered == {buf[i] : i \in Slots} \ {Empty}
NoFrames(n) == [i \in 0..(n - 1) |-> Empty]

TypeOK ==
  /\ session \in {"none", "active", "stopped"} /\ size \in Sizes
  /\ head \in 0..(SN - 1)
  /\ buf \in [Slots -> Frames \cup {Empty}]
  /\ started \in BOOLEAN
  /\ work \subseteq {"queued", "running"} /\ again \in BOOLEAN
  /\ heard \in Frames /\ first \in Frames
  /\ rxList \in Seq(Frames) /\ workList \in Seq(Frames)
  /\ delivered \in Seq(Frames) /\ overtaken \subseteq Frames
  /\ robbed \subseteq Frames /\ got \subseteq Frames

Init ==
  /\ session = "none" /\ size \in Sizes
  /\ head = 0 /\ buf = NoFrames(size) /\ started = FALSE
  /\ work = {} /\ again = FALSE
  /\ heard = Ssn - 1 /\ first = Ssn
  /\ rxList = <<>> /\ workList = <<>> /\ delivered = <<>> /\ overtaken = {}
  /\ robbed = {} /\ got = {}

-----------------------------------------------------------------------------
(* Sequence numbers and the release of frames, on w = [head, buf, out,      *)
(* size]: the window and the list of frames the caller collects.            *)

Distance(a, b) == (b + SN - a) % SN              \* ieee80211_sn_sub(b, a)

(* Mutant: sequence numbers are compared as plain numbers. *)
SnLessPlain(a, b) == a < b

SnLess(a, b) == Distance(b, a) > SN \div 2
Slot(w, sn) == sn % w.size

(* The numbers come round at SN, the slots at the size: two frames of one   *)
(* window have slots of their own if the size divides SN, or while the      *)
(* session's numbers have not come round yet.  Other sizes are negotiated   *)
(* as well (agg-rx.c:244-258), and then frames may meet in a slot.          *)
SlotsApart == SN % size = 0 \/ heard \div SN <= first \div SN

(* One round of the loops that release: the slot under the head goes up if  *)
(* it holds a frame (mt76_aggr_release), and the head moves on.             *)
ReleaseOne(w) ==
  LET slot == Slot(w, w.head)
      f == w.buf[slot]
  IN [head |-> (w.head + 1) % SN,
      buf  |-> [w.buf EXCEPT ![slot] = Empty],
      out  |-> IF f = Empty THEN w.out ELSE Append(w.out, f),
      size |-> w.size]

Advance(w, n) ==
  LET after[i \in 0..n] == IF i = 0 THEN w ELSE ReleaseOne(after[i - 1])
  IN after[n]

(* Mutant: frames that fall out of the window are freed. *)
ReleaseToDrops(w, sn) ==
  IF SnLess(w.head, sn)
  THEN [Advance(w, Distance(w.head, sn)) EXCEPT !.out = w.out] ELSE w

(* mt76_rx_aggr_release_frames *)
ReleaseTo(w, sn) ==
  IF SnLess(w.head, sn) THEN Advance(w, Distance(w.head, sn)) ELSE w

(* mt76_rx_aggr_release_head: up to the first hole. *)
ReleaseHead(w) ==
  LET slot(i) == Slot(w, (w.head + i) % SN)
      hole(i) == w.buf[slot(i)] = Empty \/ \E j \in 0..(i - 1) : slot(j) = slot(i)
  IN Advance(w, Min({i \in 0..SN : hole(i)}))

(* mt76_rx_aggr_check_release; expired are the frames whose reorder_time is *)
(* too long ago. Slots are visited in ring order from the head on entry.    *)
Visit(w, s, expired) ==
  IF w.buf[s] # Empty /\ w.buf[s] \in expired
  THEN ReleaseTo(w, w.buf[s] % SN) ELSE w

CheckRelease(w, expired) ==
  LET h == ReleaseHead(w)
      seen[i \in 0..(w.size - 1)] ==
        IF i = 0 THEN h ELSE Visit(seen[i - 1], Slot(h, h.head + i), expired)
  IN ReleaseHead(seen[w.size - 1])

(* The window as the receive path sees it, and as the work does.            *)
RxWindow == [head |-> head, buf |-> buf, out |-> rxList, size |-> size]
WorkWindow == [head |-> head, buf |-> buf, out |-> workList, size |-> size]

SetWindow(w) == head' = w.head /\ buf' = w.buf
SetRxWindow(w) ==
  SetWindow(w) /\ rxList' = w.out /\ UNCHANGED <<workList, delivered, overtaken>>

-----------------------------------------------------------------------------
(* The peer transmits new frames in order and repeats those of its window.  *)

Hear(f) ==
  /\ f \in Frames /\ heard <= f + size - 1 /\ f <= heard + MaxSkip
  /\ heard' = IF f > heard THEN f ELSE heard

(* Beyond the head: make room by releasing what falls out of the window,    *)
(* discard a frame whose slot is taken, else store it.                      *)
StoreAfter(w, f) ==
  LET slot == Slot(w, f % SN)
  IN IF w.buf[slot] # Empty
     THEN /\ SetRxWindow(w)
          /\ robbed' = IF w.buf[slot] = f THEN robbed ELSE robbed \cup {f}
          /\ UNCHANGED work
     ELSE /\ SetRxWindow(ReleaseHead([w EXCEPT !.buf[slot] = f]))
          /\ work' = work \cup {"queued"}
          /\ UNCHANGED robbed

(* Mutant: room is made for one frame too few. *)
RoomShort(f) ==
  IF SnLess(f % SN, (head + size) % SN) THEN RxWindow
  ELSE ReleaseTo(RxWindow, ((f % SN) + SN - size) % SN)

Room(f) ==
  IF SnLess(f % SN, (head + size) % SN) THEN RxWindow
  ELSE ReleaseTo(RxWindow, ((f % SN) + SN - size + 1) % SN)

Store(f) == StoreAfter(Room(f), f)

(* mt76_rx_aggr_reorder of a frame of the session. *)
Receive(f) ==
  /\ session = "active" /\ Hear(f)
  /\ LET sn == f % SN
         old == SnLess(sn, head)
     IN \/ /\ old    \* before the session starts passed up, later dropped
           /\ UNCHANGED <<head, buf, started, work, robbed, got, lists>>
        \/ /\ ~old /\ sn = head
           /\ started' = TRUE
           /\ got' = got \cup {f}
           /\ LET next == [head |-> (head + 1) % SN, buf |-> buf,
                           out |-> Append(rxList, f), size |-> size]
              IN SetRxWindow(IF Buffered = {} THEN next ELSE ReleaseHead(next))
           /\ UNCHANGED <<work, robbed>>
        \/ /\ ~old /\ sn # head
           /\ started' = TRUE
           /\ got' = got \cup {f}
           /\ Store(f)
  /\ UNCHANGED <<session, size, first, again>>

(* mt76_rx_aggr_check_ctl: a block-ack request moves the window start. *)
BlockAckReq(f) ==
  /\ session = "active" /\ Hear(f)
  /\ SetRxWindow(ReleaseHead(ReleaseTo(RxWindow, f % SN)))
  /\ UNCHANGED <<session, size, first, started, work, again, robbed, got>>

(* mt76_rx_complete: a list goes up as a whole, under dev->rx_lock; other   *)
(* is what the other context holds meanwhile.                               *)
HandUp(list, other) ==
  /\ delivered' = delivered \o list
  /\ overtaken' = overtaken \cup
       {g \in ToSet(other) : \E f \in ToSet(list) : g < f}

(* The end of mt76_rx_poll_complete. *)
RxDeliver ==
  /\ rxList # <<>> /\ rxList' = <<>>
  /\ HandUp(rxList, workList)
  /\ UNCHANGED <<session, size, first, head, buf, started, work, again, heard,
                 workList, robbed, got>>

-----------------------------------------------------------------------------
(* mt76_rx_aggr_reorder_work: the part under the lock, the requeue, and the *)
(* hand-over of what was released.                                          *)

WorkRun(expired) ==
  /\ "queued" \in work /\ "running" \notin work /\ session # "none"
  /\ work' = {"running"}
  /\ LET w == IF Buffered = {} THEN WorkWindow ELSE CheckRelease(WorkWindow, expired)
     IN /\ SetWindow(w) /\ workList' = w.out
        /\ again' = (\E i \in Slots : w.buf[i] # Empty)
  /\ UNCHANGED <<session, size, first, started, heard, rxList, delivered,
                 overtaken, robbed, got>>

(* Mutant: the work does not queue itself again. *)
WorkRequeueNot ==
  /\ "running" \in work /\ again /\ again' = FALSE
  /\ UNCHANGED <<session, size, first, head, buf, started, work, heard,
                 robbed, got, lists>>

WorkRequeue ==
  /\ "running" \in work /\ again /\ again' = FALSE
  /\ work' = work \cup {"queued"}
  /\ UNCHANGED <<session, size, first, head, buf, started, heard, robbed,
                 got, lists>>

WorkEnd ==
  /\ "running" \in work /\ ~again
  /\ work' = work \ {"running"} /\ workList' = <<>>
  /\ HandUp(workList, rxList)
  /\ UNCHANGED <<session, size, first, head, buf, started, again, heard, rxList,
                 robbed, got>>

-----------------------------------------------------------------------------
(* mt76_rx_aggr_start and mt76_rx_aggr_stop (under dev->mutex). *)

(* What the receive path still holds of the session before is not followed. *)
Start(ssn, n) ==
  /\ session = "none" /\ session' = "active"
  /\ size' = n /\ head' = ssn % SN /\ buf' = NoFrames(n) /\ started' = FALSE
  /\ heard' = ssn - 1 /\ first' = ssn
  /\ rxList' = <<>> /\ delivered' = <<>> /\ overtaken' = {}
  /\ robbed' = {} /\ got' = {}
  /\ UNCHANGED <<work, again, workList>>

(* Unpublished, marked stopped and emptied under the lock. *)
Stop ==
  /\ session = "active" /\ session' = "stopped"
  /\ buf' = NoFrames(size)
  /\ UNCHANGED <<size, first, head, started, work, again, heard, robbed,
                 got, lists>>

(* Mutant: the delayed work is cancelled without waiting for it. *)
StopCancelNoSync ==
  /\ session = "stopped" /\ session' = "none"
  /\ work' = work \ {"queued"}
  /\ UNCHANGED <<size, first, head, buf, started, again, heard, robbed,
                 got, lists>>

(* cancel_delayed_work_sync, then the session is freed. *)
StopCancel ==
  /\ session = "stopped" /\ session' = "none"
  /\ "running" \notin work /\ work' = {}
  /\ UNCHANGED <<size, first, head, buf, started, again, heard, robbed,
                 got, lists>>

Next ==
  \/ \E f \in Frames : Receive(f) \/ BlockAckReq(f)
  \/ RxDeliver
  \/ \E expired \in SUBSET Buffered : WorkRun(expired)
  \/ WorkRequeue \/ WorkEnd
  \/ \E ssn \in Frames \ {Ssn - 1}, n \in Sizes : Start(ssn, n)
  \/ Stop \/ StopCancel

Spec == Init /\ [][Next]_vars

(* The work runs when its delay is over, and frames do get old: sooner or   *)
(* later it runs with all of them expired, which empties a buffer whose     *)
(* slots are apart.  (This is fairness of WorkRun(Buffered) in that case,   *)
(* in a form TLC is quick to evaluate; nothing is assumed of other cases.)  *)
WorkDrains ==
  /\ "queued" \in work /\ "running" \notin work /\ session # "none"
  /\ SlotsApart
  /\ work' = {"running"} /\ buf' = NoFrames(size)

Fairness ==
  /\ SF_work(WorkDrains) /\ WF_vars(WorkRequeue \/ WorkEnd)
  /\ WF_vars(StopCancel) /\ WF_vars(RxDeliver)

FairSpec == Spec /\ Fairness

-----------------------------------------------------------------------------
(* Properties. *)

(* Frames go up to mac80211 in sequence order and at most once, over wraps, *)
(* repeats, block-ack requests and timeouts, except that newer ones of one  *)
(* context (rx_worker, reorder_work) may overtake those the other holds:    *)
(* both collect under tid->lock and hand over after it (agg-rx.c:105-112).  *)
DeliveredInOrder ==
  SlotsApart => \A i, j \in DOMAIN delivered :
    i < j => \/ delivered[i] < delivered[j]
             \/ delivered[i] # delivered[j] /\ delivered[j] \in overtaken

(* Between locked sections every variable keeps its range and every         *)
(* buffered frame sits in its own slot and, while slots are apart, ahead of *)
(* the head and within the window.                                          *)
WindowHolds ==
  /\ TypeOK
  /\ \A i \in Slots : buf[i] # Empty =>
       /\ Slot(RxWindow, buf[i] % SN) = i
       /\ SlotsApart => Distance(head, buf[i] % SN) \in 1..(size - 1)

(* No frame disappears: one received in an active session, not behind the   *)
(* window, went up, is in somebody's list, or is buffered, or it found its  *)
(* slot taken by another frame, which slots that are apart rule out.        *)
Kept == ToSet(delivered) \cup ToSet(rxList) \cup ToSet(workList) \cup Buffered

NothingLost ==
  session = "active" =>
    /\ got \subseteq Kept \cup robbed
    /\ SlotsApart => robbed = {}

(* A session that was freed leaves no work behind that would touch it.      *)
NoWorkWithoutSession == session = "none" => work = {}

(* A frame waiting behind a hole leaves the buffer, however long the hole   *)
(* stays, unless slots get mixed up while it waits.                         *)
HeldFrameIsReleased ==
  \A f \in Frames : f \in Buffered ~> f \notin Buffered \/ ~SlotsApart
=============================================================================
