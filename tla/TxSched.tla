------------------------------ MODULE TxSched ------------------------------
(***************************************************************************)
(* TX scheduling (tx.c): frames mt76_tx leaves on a station's two pending  *)
(* lists, the list of stations that have some, and the rounds of           *)
(* mt76_txq_schedule_pending that empty them: tx_worker's, a channel       *)
(* switch's with tx_worker parked, and mt7921u_mac_reset's beside it.      *)
(* With them go the removal of a station and a chip reset, as far as they  *)
(* touch the lists.                                                        *)
(*                                                                         *)
(* One hardware queue stands for all of them. Sections under tx_lock or a  *)
(* list's lock are single actions; a list is the number of its frames.     *)
(***************************************************************************)
EXTENDS Naturals, Sequences, SequencesExt

CONSTANTS
  Stas,      \* stations
  Leavers,   \* those that may be removed
  NoSta,
  Room,      \* frames a queue takes before it counts as stopped
  MaxFrames, \* bound: frames of mac80211
  MaxResets  \* bound: chip resets

ASSUME TxSchedConstants ==
  /\ Leavers \subseteq Stas /\ NoSta \notin Stas
  /\ Room \in Nat \ {0} /\ MaxFrames \in Nat /\ MaxResets \in Nat

VARIABLES
  pending, offch, \* wcid->tx_pending and wcid->tx_offchannel of every station
  txList,   \* phy->tx_list
  adding,   \* stations mt76_tx has appended to and not listed yet
  sta,      \* a station's life: "up", "leaving" (dev->wcid[] cleared),
            \* "synced" (the RCU grace period is over), "gone"
  round,    \* where each run of mt76_txq_schedule_pending is
  sched,    \* tx_worker's MT76_WORKER_SCHEDULED
  chan,     \* __mt76_set_channel: "idle" or "switch" (tx_worker is parked)
  away,     \* phy->offchannel
  reset,    \* chip reset: "no", "set", "flush", "parking" or "parked"
  resetBit, \* MT76_RESET
  queued,   \* frames in the hardware queue
  created,  \* frames mac80211 has given so far
  skipped,  \* stations a round left unlisted with frames (history)
  resets    \* chip resets so far

listVars  == <<pending, offch, txList, adding, skipped>>
roundVars == <<round, sched>>
envVars   == <<chan, away, reset, resetBit, resets>>
vars == <<listVars, sta, roundVars, envVars, queued, created>>

Runners == {"worker", "caller"}  \* tx_worker; a channel switch or a reset
Idle == [pc |-> "idle", local |-> <<>>, cur |-> NoSta, gaveUp |-> FALSE,
         hand |-> FALSE]

(* Every variable keeps its range; a station is on one list, once, and the  *)
(* queue never holds more than one frame above its threshold per runner.    *)
TypeOK ==
  /\ pending \in [Stas -> 0..MaxFrames] /\ offch \in [Stas -> 0..MaxFrames]
  /\ txList \in Seq(Stas) /\ adding \subseteq Stas /\ skipped \subseteq Stas
  /\ IsInjective(txList \o round["worker"].local \o round["caller"].local)
  /\ sta \in [Stas -> {"up", "leaving", "synced", "gone"}]
  /\ round \in [Runners -> [pc : {"idle", "pick", "off", "pend", "readd"},
                            local : Seq(Stas), cur : Stas \cup {NoSta},
                            gaveUp : BOOLEAN, hand : BOOLEAN]]
  /\ sched \in BOOLEAN /\ chan \in {"idle", "switch"}
  /\ away \in BOOLEAN /\ resetBit \in BOOLEAN
  /\ reset \in {"no", "set", "flush", "parking", "parked"}
  /\ queued \in 0..(Room + 1)
  /\ created \in 0..MaxFrames /\ resets \in 0..MaxResets

Init ==
  /\ pending = [s \in Stas |-> 0] /\ offch = [s \in Stas |-> 0]
  /\ txList = <<>> /\ adding = {} /\ skipped = {}
  /\ sta = [s \in Stas |-> "up"]
  /\ round = [r \in Runners |-> Idle] /\ sched = FALSE
  /\ chan = "idle" /\ away = FALSE
  /\ reset = "no" /\ resetBit = FALSE /\ resets = 0
  /\ queued = 0 /\ created = 0

-----------------------------------------------------------------------------
(* mt76_tx: append the frame, then list the station unless it is listed.    *)
(* A station a round has not reached yet is still on the round's list.      *)

Listed == ToSet(txList) \cup UNION {ToSet(round[r].local) : r \in Runners}
HasFrames(s) == pending[s] + offch[s] > 0

TxAppend ==
  \E s \in Stas \ adding :
    /\ sta[s] = "up" /\ created < MaxFrames /\ created' = created + 1
    /\ \/ pending' = [pending EXCEPT ![s] = @ + 1] /\ UNCHANGED offch
       \/ offch' = [offch EXCEPT ![s] = @ + 1] /\ UNCHANGED pending
    /\ adding' = adding \cup {s}
    /\ UNCHANGED <<txList, skipped, sta, roundVars, envVars, queued>>

(* Mutant: a station with frames is taken to be listed. *)
TxListedFirst ==
  \E s \in adding :
    /\ txList' = IF s \in Listed \/ pending[s] + offch[s] > 1 THEN txList
                 ELSE Append(txList, s)
    /\ adding' = adding \ {s} /\ skipped' = skipped \ {s}
    /\ sched' = TRUE
    /\ UNCHANGED <<pending, offch, sta, round, envVars, queued, created>>

TxListed ==
  \E s \in adding :
    /\ txList' = IF s \in Listed THEN txList ELSE Append(txList, s)
    /\ adding' = adding \ {s} /\ skipped' = skipped \ {s}
    /\ sched' = TRUE
    /\ UNCHANGED <<pending, offch, sta, round, envVars, queued, created>>

(* mt76_wake_tx_queue: a mac80211 txq has data. *)
WakeTxQueue ==
  /\ ~sched /\ sched' = TRUE
  /\ UNCHANGED <<listVars, sta, round, envVars, queued, created>>

-----------------------------------------------------------------------------
(* mt76_txq_schedule_pending. local is what was spliced off tx_list, hand a *)
(* frame between its list and the queue, gaveUp the code's ret < 0.         *)

Stopped == queued >= Room        \* mt76_txq_stopped
Parked == chan # "idle" \/ reset \in {"parking", "parked"}

Step(r, new) == round' = [round EXCEPT ![r] = new]

(* tx_worker runs what it was asked for. A channel switch parks it and      *)
(* empties the lists itself; mt7921u_mac_reset does so beside it. Both hold *)
(* dev->mutex.                                                              *)
RoundStart(r) ==
  /\ round[r].pc = "idle"
  /\ \/ /\ r = "worker" /\ sched /\ ~Parked /\ sched' = FALSE
        /\ UNCHANGED <<chan, reset>>
     \/ /\ r = "caller" /\ chan = "idle" /\ chan' = "switch"
        /\ reset \in {"no", "set"} /\ round["worker"].pc = "idle"
        /\ sched' = FALSE /\ UNCHANGED reset
     \/ /\ r = "caller" /\ chan = "idle" /\ reset = "set" /\ reset' = "flush"
        /\ UNCHANGED <<chan, sched>>
  /\ Step(r, [Idle EXCEPT !.pc = "pick", !.local = txList])
  /\ txList' = <<>>
  /\ UNCHANGED <<pending, offch, adding, skipped, sta, away, resetBit, resets,
                 queued, created>>

(* The next station leaves the list before it is served. *)
RoundPick(r) ==
  /\ round[r].pc = "pick" /\ round[r].local # <<>>
  /\ LET l == round[r].local
     IN  Step(r, [round[r] EXCEPT !.pc = "off", !.cur = Head(l), !.local = Tail(l)])
  /\ UNCHANGED <<listVars, sta, sched, envVars, queued, created>>

(* mt76_txq_schedule_pending_wcid: take the next frame of a list, unless    *)
(* the round has given up, and give up when the queue is stopped.           *)
Left(r) == IF round[r].pc = "off" THEN offch[round[r].cur] ELSE pending[round[r].cur]
Barred(r) == round[r].gaveUp \/ (round[r].pc = "pend" /\ away)

ServeTake(r) ==
  /\ round[r].pc \in {"off", "pend"} /\ ~round[r].hand /\ ~Barred(r)
  /\ Left(r) > 0 /\ ~Stopped /\ ~resetBit
  /\ Step(r, [round[r] EXCEPT !.hand = TRUE])
  /\ IF round[r].pc = "off"
     THEN offch' = [offch EXCEPT ![round[r].cur] = @ - 1] /\ UNCHANGED pending
     ELSE pending' = [pending EXCEPT ![round[r].cur] = @ - 1] /\ UNCHANGED offch
  /\ UNCHANGED <<txList, adding, skipped, sta, sched, envVars, queued, created>>

(* A frame that cannot be queued is dropped: nobody looks at the result.    *)
ServeQueue(r) ==
  /\ round[r].hand /\ Step(r, [round[r] EXCEPT !.hand = FALSE])
  /\ queued' \in {queued, queued + 1}
  /\ UNCHANGED <<listVars, sta, sched, envVars, created>>

(* The list is empty or barred, or its first frame finds the queue stopped. *)
ServeEnd(r) ==
  /\ round[r].pc \in {"off", "pend"} /\ ~round[r].hand
  /\ Barred(r) \/ Left(r) = 0 \/ Stopped \/ resetBit
  /\ Step(r, [round[r] EXCEPT !.pc = IF @ = "off" THEN "pend" ELSE "readd",
                              !.gaveUp = @ \/ (~Barred(r) /\ Left(r) > 0)])
  /\ UNCHANGED <<listVars, sta, sched, envVars, queued, created>>

(* The station goes back on the list if frames are left on both its lists.  *)
(* With frames left on one of them it is no longer listed.                  *)
RoundReadd(r) ==
  LET s == round[r].cur
      back == pending[s] > 0 /\ offch[s] > 0 /\ s \notin Listed
  IN  /\ round[r].pc = "readd"
      /\ Step(r, [round[r] EXCEPT !.pc = "pick", !.cur = NoSta])
      /\ txList' = IF back THEN Append(txList, s) ELSE txList
      /\ skipped' = IF HasFrames(s) /\ ~back /\ s \notin Listed
                    THEN skipped \cup {s} ELSE skipped
      /\ UNCHANGED <<pending, offch, adding, sta, sched, envVars, queued,
                     created>>

(* The end of a round. tx_worker and the reset go on with the mac80211      *)
(* txqs, whose frames fill the queue up to the threshold.                   *)
RoundEnd(r) ==
  /\ round[r].pc = "pick" /\ round[r].local = <<>>
  /\ Step(r, Idle)
  /\ reset' = IF r = "caller" /\ reset = "flush" THEN "parking" ELSE reset
  /\ \/ UNCHANGED <<queued, created>>
     \/ /\ chan # "switch" /\ ~resetBit /\ ~away
        /\ \E n \in 1..Room :
             /\ queued + n <= Room /\ queued' = queued + n
             /\ created + n <= MaxFrames /\ created' = created + n
  /\ UNCHANGED <<listVars, sta, sched, chan, away, resetBit, resets>>

(* mt76u_status_worker: the entry at the tail is done. *)
Complete ==
  /\ queued > 0 /\ queued' = queued - 1 /\ sched' = TRUE
  /\ UNCHANGED <<listVars, sta, round, envVars, created>>

-----------------------------------------------------------------------------
(* Removal of a station.                                                    *)

OnlySta(s, life) ==
  /\ sta' = [sta EXCEPT ![s] = life]
  /\ UNCHANGED <<listVars, roundVars, envVars, queued, created>>

(* mt76_sta_pre_rcu_remove. *)
StaLeave == \E s \in Leavers : sta[s] = "up" /\ OnlySta(s, "leaving")

(* Mutant: nobody waits for the grace period. *)
StaSyncAtOnce == \E s \in Leavers : sta[s] = "leaving" /\ OnlySta(s, "synced")

(* mac80211 takes the station out of its tables and waits for every round   *)
(* and every mt76_tx that may have found it there.                          *)
StaSync ==
  \E s \in Leavers :
    /\ sta[s] = "leaving" /\ s \notin adding
    /\ \A r \in Runners : round[r].pc = "idle"
    /\ OnlySta(s, "synced")

(* mt76_wcid_cleanup. The station may by now be in the hands of a round     *)
(* that started after the grace period.                                     *)
Cleanup ==
  \E s \in Leavers :
    /\ sta[s] = "synced" /\ sta' = [sta EXCEPT ![s] = "gone"]
    /\ pending' = [pending EXCEPT ![s] = 0] /\ offch' = [offch EXCEPT ![s] = 0]
    /\ txList' = RemoveFirst(txList, s)
    /\ round' = [r \in Runners |->
         [round[r] EXCEPT !.local = RemoveFirst(@, s)]]
    /\ skipped' = skipped \ {s}
    /\ UNCHANGED <<adding, sched, envVars, queued, created>>

-----------------------------------------------------------------------------
(* The rest of the channel switch, and the chip reset.                      *)

ChanSwitch ==
  /\ chan = "switch" /\ round["caller"].pc = "idle"
  /\ away' \in BOOLEAN /\ resetBit' = FALSE
  /\ chan' = "idle" /\ sched' = TRUE
  /\ UNCHANGED <<listVars, sta, round, reset, resets, queued, created>>

ResetBegin ==
  /\ reset = "no" /\ resets < MaxResets
  /\ reset' = "set" /\ resetBit' = TRUE /\ resets' = resets + 1
  /\ UNCHANGED <<listVars, sta, roundVars, chan, away, queued, created>>

ResetPark ==
  /\ reset = "parking" /\ round["worker"].pc = "idle"
  /\ reset' = "parked" /\ resetBit' = TRUE /\ sched' = FALSE
  /\ UNCHANGED <<listVars, sta, round, chan, away, resets, queued, created>>

(* Mutant: tx_worker is unparked and not scheduled. *)
ResetEndQuiet ==
  /\ reset = "parked" /\ queued = 0 /\ reset' = "no"
  /\ resetBit' = FALSE
  /\ UNCHANGED <<listVars, sta, roundVars, chan, away, resets, queued, created>>

(* mt76u_stop_tx has drained the queue; tx_worker is unparked and scheduled. *)
ResetEnd ==
  /\ reset = "parked" /\ queued = 0 /\ reset' = "no"
  /\ resetBit' = FALSE /\ sched' = TRUE
  /\ UNCHANGED <<listVars, sta, round, chan, away, resets, queued, created>>

-----------------------------------------------------------------------------
RoundStep(r) ==
  \/ RoundStart(r) \/ RoundPick(r) \/ ServeTake(r) \/ ServeQueue(r)
  \/ ServeEnd(r) \/ RoundReadd(r) \/ RoundEnd(r)

Next ==
  \/ TxAppend \/ TxListed \/ WakeTxQueue
  \/ \E r \in Runners : RoundStep(r)
  \/ Complete
  \/ StaLeave \/ StaSync \/ Cleanup
  \/ ChanSwitch \/ ResetBegin \/ ResetPark \/ ResetEnd

Spec == Init /\ [][Next]_vars

(* The rounds run once asked for, and a reset or a channel switch that has  *)
(* begun ends. No channel switch has to begin, and no URB to complete.      *)
FairSpec ==
  /\ Spec
  /\ WF_vars(RoundStep("worker"))
  /\ WF_vars(RoundStep("caller") /\ (round["caller"].pc # "idle" \/ reset = "set"))
  /\ WF_vars(TxListed)
  /\ WF_vars(ChanSwitch) /\ WF_vars(ResetPark) /\ WF_vars(ResetEnd)

-----------------------------------------------------------------------------
(* A station with frames on its pending lists is on the list of stations,   *)
(* in a round's hands or about to be listed by mt76_tx. Only a round that   *)
(* found one of its two lists empty may have left it out.                   *)
FramesKeepStationListed ==
  /\ TypeOK
  /\ \A s \in Stas : HasFrames(s) =>
       \/ s \in Listed \cup adding \cup skipped
       \/ \E r \in Runners : round[r].cur = s

(* Once its removal is through, no list refers to a station any more.       *)
RemovedStationIsGone ==
  \A s \in Stas : sta[s] = "gone" => ~HasFrames(s) /\ s \notin Listed \cup adding

(* A station that is listed with frames is served while its frames may go:  *)
(* they leave, or a round gives the station up, as long as the frames ahead *)
(* of them in the queue complete.                                           *)
FramesComplete == []<>(queued = 0)

FramesLeave ==
  FramesComplete =>
    \A s \in Stas : HasFrames(s) ~> (~HasFrames(s) \/ s \in skipped)
============================================================================
