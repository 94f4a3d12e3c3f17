-------------------------------- MODULE Roc ---------------------------------
(***************************************************************************)
(* Remain on channel of mt7921 (main.c, mcu.c): the firmware is asked for  *)
(* the channel and grants it, roc_timer and roc_work give it back, and     *)
(* mac80211, the removal of a station and the disconnect abort it, and a   *)
(* chip reset makes the firmware forget it.                                *)
(*                                                                         *)
(* mac80211 callbacks are serialised by its wiphy lock; roc_work, the      *)
(* timer and the RX path run beside them.                                  *)
(***************************************************************************)
EXTENDS Naturals, Sequences

CONSTANT MaxRocs   \* bound: requests to the firmware of one device instance

ASSUME RocConstants == MaxRocs \in Nat

VARIABLES
  rocBit,  \* MT76_STATE_ROC
  grant,   \* phy->roc_grant
  token,   \* phy->roc_token_id
  timer,   \* roc_timer is armed
  queued,  \* roc_work is queued
  work,    \* where roc_work is: "idle" or "lock"
  cb,      \* where the mac80211 callback is
  mutex,   \* dev->mutex: "free", or "cb" where a callback sleeps with it
  asked,   \* token of the request the firmware still considers, or 0
  rx,      \* grant events on their way
  rxpc,    \* the RX path: "idle", or "arm" between wake_up and mod_timer
  disc     \* disconnect: "no", "timer", "work", "freed"

rocVars == <<rocBit, grant, token, timer, queued, work, cb, mutex, asked, rx,
             rxpc, disc>>
timing == <<timer, queued, work>>
firmware == <<asked, rx, rxpc>>

RocTypeOK ==
  /\ rocBit \in BOOLEAN /\ grant \in BOOLEAN /\ token \in 0..MaxRocs
  /\ timer \in BOOLEAN /\ queued \in BOOLEAN /\ work \in {"idle", "lock"}
  /\ cb \in {"idle", "set", "setWait", "abortCancel", "abortLock",
             "remove", "removeCancel"}
  /\ mutex \in {"free", "cb"}
  /\ mutex = "cb" <=> cb \in {"setWait", "removeCancel"}
  /\ asked \in 0..MaxRocs /\ rx \in Seq(1..MaxRocs)
  /\ rxpc \in {"idle", "arm"} /\ disc \in {"no", "timer", "work", "freed"}

RocInit ==
  /\ rocBit = FALSE /\ grant = FALSE /\ token = 0
  /\ timer = FALSE /\ queued = FALSE /\ work = "idle"
  /\ cb = "idle" /\ mutex = "free"
  /\ asked = 0 /\ rx = <<>> /\ rxpc = "idle" /\ disc = "no"

-----------------------------------------------------------------------------
(* mt7921_mcu_set_roc: the firmware has the request under the next token.   *)
RequestCommand == asked' = token + 1

(* mt7921_mcu_abort_roc; lost or not, the driver goes on.                   *)
AbortCommand == asked' \in {0, asked}

(* mt7921_set_roc, from remain_on_channel and mgd_prepare_tx. *)

SetRoc ==
  /\ disc = "no" /\ cb = "idle" /\ token < MaxRocs /\ cb' = "set"
  /\ UNCHANGED <<rocBit, grant, token, timing, mutex, firmware, disc>>

SetRocBusy ==
  /\ cb = "set" /\ mutex = "free" /\ rocBit /\ cb' = "idle"
  /\ UNCHANGED <<rocBit, grant, token, timing, mutex, firmware, disc>>

SetRocSend ==
  /\ cb = "set" /\ mutex = "free" /\ ~rocBit
  /\ grant' = FALSE /\ token' = token + 1
  /\ \/ /\ rocBit' = TRUE /\ cb' = "setWait" /\ mutex' = "cb"
        /\ RequestCommand
     \/ /\ cb' = "idle" /\ UNCHANGED <<rocBit, mutex>>  \* lost, or its answer
        /\ RequestCommand \/ UNCHANGED asked
  /\ UNCHANGED <<timing, rx, rxpc, disc>>

SetRocGranted ==
  /\ cb = "setWait" /\ grant /\ cb' = "idle" /\ mutex' = "free"
  /\ UNCHANGED <<rocBit, grant, token, timing, firmware, disc>>

(* Mutant: the bit is left set. *)
SetRocTimeoutKeepsBit ==
  /\ cb = "setWait" /\ ~grant /\ cb' = "idle" /\ mutex' = "free"
  /\ asked' = 0
  /\ UNCHANGED <<rocBit, grant, token, timing, rx, rxpc, disc>>

(* Mutant: the wait has no timeout. *)
SetRocNoTimeout ==
  /\ cb = "setWait" /\ grant /\ cb' = "idle" /\ mutex' = "free"
  /\ asked' = 0
  /\ UNCHANGED <<rocBit, grant, token, timing, rx, rxpc, disc>>

SetRocTimeout ==
  /\ cb = "setWait" /\ ~grant /\ cb' = "idle" /\ mutex' = "free"
  /\ AbortCommand /\ rocBit' = FALSE
  /\ UNCHANGED <<grant, token, timing, rx, rxpc, disc>>

-----------------------------------------------------------------------------
(* mt7921_abort_roc, from cancel_remain_on_channel and mgd_complete_tx. *)

AbortTimer ==
  /\ disc = "no" /\ cb = "idle" /\ cb' = "abortCancel" /\ timer' = FALSE
  /\ UNCHANGED <<rocBit, grant, token, queued, work, mutex, firmware, disc>>

(* cancel_work_sync waits for a roc_work that runs. *)
AbortCancel ==
  /\ cb = "abortCancel" /\ work = "idle" /\ cb' = "abortLock"
  /\ queued' = FALSE
  /\ UNCHANGED <<rocBit, grant, token, timer, work, mutex, firmware, disc>>

AbortSend ==
  /\ cb = "abortLock" /\ mutex = "free" /\ cb' = "idle"
  /\ rocBit' = FALSE /\ (IF rocBit THEN AbortCommand ELSE asked' = asked)
  /\ UNCHANGED <<grant, token, timing, mutex, rx, rxpc, disc>>

(* mt7921_roc_abort_sync under the mutex mt76_sta_remove holds. *)
StaRemove ==
  /\ disc = "no" /\ cb = "idle" /\ cb' = "remove"
  /\ UNCHANGED <<rocBit, grant, token, timing, mutex, firmware, disc>>

StaRemoveAbort ==
  /\ cb = "remove" /\ mutex = "free"
  /\ IF rocBit
     THEN /\ cb' = "removeCancel" /\ mutex' = "cb"
          /\ rocBit' = FALSE /\ timer' = FALSE
     ELSE cb' = "idle" /\ UNCHANGED <<mutex, rocBit, timer>>
  /\ UNCHANGED <<grant, token, queued, work, firmware, disc>>

StaRemoveCancel ==
  /\ cb = "removeCancel" /\ work = "idle" /\ queued' = FALSE
  /\ AbortCommand /\ cb' = "idle" /\ mutex' = "free"
  /\ UNCHANGED <<rocBit, grant, token, timer, work, rx, rxpc, disc>>

-----------------------------------------------------------------------------
(* mt792x_roc_timer and mt7921_roc_work. *)

TimerFire ==
  /\ timer /\ disc # "freed" /\ timer' = FALSE /\ queued' = TRUE
  /\ UNCHANGED <<rocBit, grant, token, work, cb, mutex, firmware, disc>>

WorkStart ==
  /\ queued /\ work = "idle" /\ disc # "freed"
  /\ queued' = FALSE /\ work' = "lock"
  /\ UNCHANGED <<rocBit, grant, token, timer, cb, mutex, firmware, disc>>

(* Clears the bit and aborts if it was set. *)
WorkLock ==
  /\ work = "lock" /\ mutex = "free" /\ work' = "idle"
  /\ rocBit' = FALSE /\ (IF rocBit THEN AbortCommand ELSE asked' = asked)
  /\ UNCHANGED <<grant, token, timer, queued, cb, mutex, rx, rxpc, disc>>

-----------------------------------------------------------------------------
(* The firmware grants; mt7921_mcu_uni_roc_event does not look at the token.*)

FwGrant ==
  /\ asked # 0 /\ disc # "freed" /\ asked' = 0 /\ rx' = Append(rx, asked)
  /\ UNCHANGED <<rocBit, grant, token, timing, cb, mutex, rxpc, disc>>

RxGrant ==
  /\ rxpc = "idle" /\ rx # <<>> /\ disc # "freed"
  /\ rx' = Tail(rx) /\ grant' = TRUE /\ rxpc' = "arm"
  /\ UNCHANGED <<rocBit, token, timing, cb, mutex, asked, disc>>

RxArm ==
  /\ rxpc = "arm" /\ timer' = TRUE /\ rxpc' = "idle"
  /\ UNCHANGED <<rocBit, grant, token, queued, work, cb, mutex, asked, rx, disc>>

-----------------------------------------------------------------------------
(* mt7921u_mac_reset, under dev->mutex: the firmware starts anew and what   *)
(* the RX queues held is dropped, with rx_worker parked. What the driver    *)
(* has on record of the request stays.                                      *)
ChipReset ==
  /\ disc = "no" /\ mutex = "free" /\ rxpc = "idle"
  /\ asked' = 0 /\ rx' = <<>>
  /\ UNCHANGED <<rocBit, grant, token, timing, cb, mutex, rxpc, disc>>

-----------------------------------------------------------------------------
(* mt792xu_cleanup after mac80211 is gone: timer, work, and at last the RX  *)
(* queues; then the device is freed and another one may be probed.          *)

CleanupTimer ==
  /\ disc = "no" /\ cb = "idle" /\ disc' = "timer" /\ timer' = FALSE
  /\ UNCHANGED <<rocBit, grant, token, queued, work, cb, mutex, firmware>>

CleanupWork ==
  /\ disc = "timer" /\ work = "idle" /\ disc' = "work" /\ queued' = FALSE
  /\ UNCHANGED <<rocBit, grant, token, timer, work, cb, mutex, firmware>>

CleanupFree ==
  /\ disc = "work" /\ rxpc = "idle" /\ work = "idle" /\ disc' = "freed"
  /\ UNCHANGED <<rocBit, grant, token, timing, cb, mutex, firmware>>

Probe ==
  /\ disc = "freed" /\ disc' = "no"
  /\ rocBit' = FALSE /\ grant' = FALSE /\ token' = 0
  /\ timer' = FALSE /\ queued' = FALSE /\ work' = "idle"
  /\ asked' = 0 /\ rx' = <<>>
  /\ UNCHANGED <<cb, mutex, rxpc>>

Callback ==
  \/ SetRocBusy \/ SetRocSend \/ SetRocGranted \/ SetRocTimeout
  \/ AbortCancel \/ AbortSend \/ StaRemoveAbort \/ StaRemoveCancel

RocNext ==
  \/ SetRoc \/ AbortTimer \/ StaRemove \/ Callback
  \/ TimerFire \/ WorkStart \/ WorkLock
  \/ FwGrant \/ RxGrant \/ RxArm \/ ChipReset
  \/ CleanupTimer \/ CleanupWork \/ CleanupFree \/ Probe

RocSpec == RocInit /\ [][RocNext]_rocVars

(* Timers fire, queued work and callbacks that began are run, and a mutex   *)
(* that becomes free again and again is got. The firmware owes nothing.     *)
RocFairness ==
  /\ SF_rocVars(Callback) /\ WF_rocVars(TimerFire) /\ WF_rocVars(WorkStart)
  /\ SF_rocVars(WorkLock) /\ WF_rocVars(RxArm)

RocFairSpec == RocSpec /\ RocFairness

-----------------------------------------------------------------------------
(* Properties. *)

(* Unless a callback is about to end it, a remain-on-channel always has     *)
(* something left that gives the channel back, also where a late grant of   *)
(* an earlier request, its timer or its work gets in the way, or a chip     *)
(* reset takes the firmware's part of it.                                   *)
RocNeverForgotten ==
  rocBit /\ cb = "idle" /\ disc = "no" =>
    timer \/ queued \/ work = "lock" \/ rxpc = "arm"

(* So the channel is given back: nobody is refused with EBUSY for ever.     *)
RocEnds == rocBit ~> ~rocBit \/ disc # "no"

(* Removing a station returns (the comment in mt7921_mac_sta_remove takes   *)
(* the deadlock on dev->mutex for solved).                                  *)
StaRemoveReturns == cb = "removeCancel" ~> cb # "removeCancel"
=============================================================================
