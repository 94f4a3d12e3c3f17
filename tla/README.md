# A TLA+ model of the mt7921u driver

The repository is an out-of-tree fork of the mt76 Wi-Fi driver for USB dongles
with the MT7921 (MT7961) chip. Two dongles, one access point and one station,
serve a gateway that nobody can walk up to, so the fork's own work is mostly
about *recovery*: noticing that a dongle is wedged, resetting the chip, and, if
that does not help, having the USB core reset the device. This directory models
that driver in TLA+, checks the models with TLC, and proves the central
properties with TLAPS. Paths below are relative to
`src/drivers/net/wireless/mediatek/mt76/`.

## 1. The system

| Part | Source | State | Operations | Model |
|---|---|---|---|---|
| USB wedge recovery | `usb.c` 30-260, `mt792x_usb.c`, `mt792x_mac.c` 61-170 and 450, `mt7921/usb.c`, `mt7921/mac.c` 788-906, `mt7921/mcu.c` 40-100, `mt7921/init.c` 227 | `bus_hung`, `usb_reset_pending`, `usb_reset_work`, `reset_work`, `mac_work`, two escalation counters, `MT76_RESET/RUNNING/INITIALIZED/REMOVED`, `hw_full_reset` | vendor request, escalation, chip reset, probe, init, start/stop, disconnect | `UsbRecovery`, `BusLife`, `UsbRecoveryProofs` |
| USB TX queues and hold window | `usb.c` 920-1390, `tx.c` 890 | ring of URBs (`head`, `first`, `tail`, `queued`), `tx_hold_armed`, hrtimer, `done` flags | queue, kick, hold timer, URB completion, status worker, `mt76u_stop_tx` | `UsbTxRing`, `TxFifo`, `UsbTxRingProofs` |
| RX reordering | `agg-rx.c` | per TID: `head`, slots, `nframes`, `stopped`, `reorder_work` | frame, BAR, timeout, start, stop | `RxReorder`, `SeqNumProofs` |
| Worker threads | `util.h`, `util.c` | `SCHEDULED` and `RUNNING` bits, a kthread | schedule, disable, enable, setup, teardown | `Mt76Worker`, `WorkerRocProofs` |
| MCU messages | `mcu.c`, `mt76_connac_mcu.c` 3268-3341, `mt7921/mcu.c` | `mcu.mutex`, `res_q`, 4-bit sequence number | send, answer, timeout, purge by a reset | `McuMsg`, `SeqNumProofs` |
| Remain on channel | `mt7921/main.c` 440-620, `mt7921/mcu.c` 222-243 and 957-1051 | `MT76_STATE_ROC`, token, grant, timer, work | set, grant, expire, abort, station removal | `Roc`, `WorkerRocProofs` |
| USB RX queues, suspend and resume | `usb.c` 340-920, `mt7921/usb.c` 160-223 and 392-458, `mt792x_mac.c` 134-164 | per queue a ring of RX URBs, `rx_worker`; `pm->suspended`; `rx_stale_ticks` | complete, process, refill, stop, resume, suspend, watchdog | `UsbRxRing`, `UsbRxRingProofs` |
| TX scheduling | `tx.c` 640-790, `mac80211.c` 1055-1070 and 1680-1750 | per station `tx_pending`, `tx_offchannel`; `phy->tx_list` | queue, schedule, channel switch, station removal | `TxSched`, `TxSchedProofs` |
| TX status | `tx.c` 110-340, `mt7921/mac.c` 1000-1016 | per station a table of packet ids; `wcid_list` | status add, TXS event, timeout, flush, completion | `TxStatus`, `TxStatusProofs` |
| TWT and radar detection | `mt7921/twt.c`, `mt7921/main.c` 1775-2036, `mt7921/mac.c` 797-903 | agreement table and count, per station flow mask; `dfs_state` | setup, teardown, CAC, evaluate, radar event, chip reset | `FwState`, `FwStateProofs` |
| CSI capture | `mt7921/csi.c`, `csi_nl80211.c` | ring of records, reader | event, dump, enable | none (section 6) |

How they interact: mac80211 calls the driver under its wiphy lock; most
callbacks take `dev->mutex`, and many send an MCU command under it, which takes
`mcu.mutex` and waits for an answer the RX path puts into `res_q`. Register
access is a vendor request on the control endpoint under `usb_ctrl_mtx`. A
vendor request that exhausts its retries latches `bus_hung` and schedules
`usb_reset_work`, which asks the USB core to reset the device; the driver has no
`pre_reset`/`post_reset`, so the core unbinds and re-probes it. MCU timeouts and
`mac_work` schedule `reset_work`, the chip reset, and climb a ladder to the same
device reset. The chip reset and the stop of an interface park the workers and
drain the TX ring; disconnect cancels all of this in a fixed order, and what it
forgets to cancel runs on freed memory.

Frames of mac80211 wait on a station's pending lists until a round of
`mt76_txq_schedule_pending` finds the station on `phy->tx_list`; those that ask
for a status get a packet id on their way into the ring and are handed back when
both the URB is done and the firmware's TXS event, a timeout or a flush has
released the id. What the driver has the firmware do for longer (TWT agreements,
the radar detector) it keeps on record under `dev->mutex`, and `reset_work`
clears that record before it takes the mutex for the chip reset.

What is hard here: five work items, two timers, three worker threads, URB
completions, the RX path and mac80211 callbacks that cancel, park and wait for
one another; failures of the dongle at any step of a recovery; firmware that
answers late or never; and teardown while all of it runs. The hazards are listed
with their lines in `PROJECT.json`.

For each modelled component, what makes it correct:

* Recovery: a hung bus is always on its way to a new probe; `reset_work` parks
  the device only then; the watchdog of a running interface is armed, but for the time
  of a stop, a reset, a channel switch or the machine's sleep, each of which ends by
  arming it again; the pending flag never outlives its work; no thread waits for ever.
* TX: every accepted frame is completed exactly once and in order, whatever the
  hold timer, the drain and a stop do, and the controller never owns a freed
  buffer.
* Reordering: frames go up once and in order, but for those that one context overtakes
  in the other's list; none disappears and none waits for ever behind a hole, as long as
  the frames of a window have slots of their own.
* Workers: no wake-up is lost; until two disablers overlap, a disabled worker does not
  run and disable returns.
* MCU: an answer goes to the command that asked; every sender returns.
* ROC: the channel is always given back.
* RX ring: one owner per buffer, frames in order, none from before a restart
  after it, and a receiver that has gone deaf comes back.
* TX scheduling: a station with frames is found again; a removed one is on no
  list.
* TX status: mac80211 gets each frame once; an id stands for one live frame.
* TWT and radar: the driver's record agrees with itself and with the firmware
  through lost answers and chip resets.

## 2. The modules

Each thread of the driver is a set of actions guarded by a program counter of
its own; a section under a spinlock is one action; a mutex that is slept under
is a variable or is derived from the counters of its holders. The comments in
the modules name the functions; `PROJECT.json` maps each definition to its lines.
A definition introduced as *Mutant* in a module is a plausible bug of that
operation: substituting it for the real operation breaks the property it
is paired with, which shows that the property depends on the operation.

**UsbRecovery.** One driver instance on its interface. `hw` is the dongle
(`wedged` answers nothing, `gone` is unplugged). `VendorRequest(t)` is
`__mt76u_vendor_request`: it succeeds, fails at once on a removed or hung device,
or enters `ctrl_timeout` with `usb_ctrl_mtx` held (`ctrl = t`). `Rung` is the
escalation ladder, shared by `McuTimeout` and `MacAccess`. The `Reset*`, `Mac*`,
`Init*`, `Stop*`, `Disc*` and `Probe*` actions follow `mt7921_mac_reset_work`,
`mt792x_mac_work`, `mt7921_init_work`, `mt792xu_stop`, `mt792xu_disconnect` and
`mt7921u_probe`. `CoreReset` is `usb_reset_device`. `leaked` records the works
and instances that outlive `mt76_free_device`. `callPc` is what else takes `mac_work` away:
`mt76_set_channel`, which cancels it (`mac80211.c:1074`) before it waits for `dev->mutex`
and arms it again after its MCU command (`mt7921/main.c:585`), on whichever path that
command ends (`SwitchBegin` to `SwitchDone`); and the machine's sleep
(`mt7921/main.c:1392-1423`, `SleepBegin` to `WakeUp`). The driver has its own
`hw_scan`, `remain_on_channel` and chanctx operations, so the cancels of `channel.c` and
`scan.c` are not reached, and those of the power saving works are not on USB.
`BusLife` is the promise in four lines: none, alive, hung, none; a
hung bus never turns alive again.

**UsbTxRing.** One access-category queue. `tail..head` are queued, `first..head` not yet
submitted. `TxWorker`, `HoldTimer`, `StatusWorker`, `UrbComplete` and one `StopTx` for
the caller of `mt76u_stop_tx`, which is fixed per behaviour: the chip reset, which parks
`tx_worker` first, or the stop of the interface, which does not; `StopParkTxAgain` and
`StopUnparkTx` are the nested disable and enable of `mt76u_stop_tx` itself
(`usb.c:1359`). A URB that the controller has may stay there for ever; only
`usb_kill_urb` takes it back. `Lossy` names the callers beside which `usb_submit_urb`
may fail. `skb` numbers the frames; `completed` is the history that `TxFifo`, the
abstract queue, sees.

**UsbRxRing.** Both RX queues. A URB is the slot it lives in; `flight` is what the
controller has, oldest first, and every completion, with data, an error or `-EPROTO`,
takes its head. `WorkerTake`, `Resubmit` and `RefillFails` are the parts of
`mt76u_process_rx_queue`. The two `Agents` that stop and restart the rings share the
steps `StopDisable`, `StopPoison`, `Resume` and `ResumeEnable`: `reset_work`
(`ResetBegin` to `ResetFinish`) and USB suspend and resume (`Suspend*`, `ResumeHif`).
`reject` is the poison count the USB core keeps. `MacWork` is the watchdog: completions
of either queue reset its count (`usb.c:723`, `mt792x_mac.c:152-163`), so a station
whose data queue has lost every URB (`Deaf`) is noticed only when the event queue has
fallen silent as well, which is a premise of `DeafStationComesBack` (`QuietAtLast`) and
assumed nowhere. `Free(q)` lets a deaf station's event queue complete without end.
`intact`, `overlapped`, `late`, `selfmade`, `since` are history.

**TxSched.** The frames on a station's two lists are numbers. `TxAppend` and
`TxListed` are the two halves of `mt76_tx`; `RoundStep(r)` is a round of
`mt76_txq_schedule_pending` by `tx_worker` or by the caller (a channel switch, or
`mt7921u_mac_reset`), split where `tx_lock` is dropped; `skipped` is the history of
the stations such a round did not put back. `StaLeave`, `StaSync` (the RCU grace
period, external) and `Cleanup` remove a station.

**TxStatus.** One entry of `dev->wcid[]` with the stations that have it one after the
other. `StatusAdd` is `mt76_tx_status_skb_add`, `SetupFails` and `PadFails`/`PadRelease`
are the failures after it, `TxsTaken`, `TxsStale` and `TxsIgnored` what a TXS event can
meet, `StatusCheck` and `StatusFlush` the two other callers of
`mt76_tx_status_skb_get`. `expired`, `robbed` and `mixed` are history: which frame
lost its id early, and whose status was taken for another's.

**FwState.** A callback that waits for its MCU answer with `dev->mutex` held is
`call`; its `...Answered` action has the two outcomes apart: what the driver is told
(`ok`) and what the firmware did (`did`), where an answered command was carried out
and an unanswered one may have been. `ResetClear` is the part of `reset_work`
before the mutex: it may run beside a callback, and either zero may then be
overwritten by the callback's read-modify-write. `Eval` is
`__mt7921_dfs_rdd_eval`, shared by its four callers. TWT and radar detection meet only
at the mutex and in `reset_work`, so a behaviour has one of them (`part`). `stale`,
`unsure`, `leaked`, `crossed`, `early` are history and name the exceptions of the
properties. The radar event runs in the RX worker without `dev->mutex` and is three steps
(`RadarSeen`, `RadarReport`, `RadarClear`, `mt7921/main.c:2031-2033`), between which the
interface may be removed (`main.c:804-807`), the record cleared (`mac.c:820`) or filled
again. `VifFreed` is mac80211's release of the interface's memory: after a grace period,
which the handler holds up (`waits`), as `rx_worker` is in an RCU read section
(`usb.c:796`). One access point interface is a bound.

**RxReorder.** One session of one TID. Frames are unwrapped numbers; the code sees
them modulo `SN`. `Receive`, `BlockAckReq`, `WorkRun`/`WorkRequeue`/`WorkEnd`, `Start`,
`Stop`/`StopCancel`. What leaves the window under `tid->lock` is in the list of the context
that took it out (`rxList`, `workList`) and goes up later, without that lock, as a whole
(`RxDeliver`, `WorkEnd`: `mt76_rx_complete` takes `rx_lock`), so the two contexts may
overtake each other; `delivered` is what mac80211 got, `overtaken` what was passed on the
way. `size` is any member of `Sizes`, as `mt76_rx_aggr_start` takes whatever was
negotiated (up to 256, `mt792x_core.c:707-711`). Slots go by `seqno % size` and numbers come
round at `SN`, so with a size that does not divide it two frames of one window may meet
in a slot; `SlotsApart` says when they cannot, and `robbed` records the frames dropped
because they did. The loops of `agg-rx.c` are recursive functions on an interval
(`Advance`, `CheckRelease`), one value per round, so that they can be proved about.
Not followed: frames of the session before that the RX path still holds when a new one
starts, and frames it passes up before the first one of the window.

**Mt76Worker.** One action per access to a bit, to a kthread flag or to the task
state; `kthread_park`, `kthread_unpark` and `kthread_stop` are external and follow
the kernel's definitions.

**McuMsg.** Senders at "idle", "lock" and "wait"; `fw` is what the firmware may
still answer, `resQ` what it has answered. A command's number is its place in
the order of sending, its sequence number what `NextSeq` makes of the counter.

**Roc.** Callbacks (`cb`), `roc_timer`, `roc_work`, the RX path between `wake_up`
and `mod_timer` (`rxpc`), the firmware (`asked`, `rx`), and the cleanup. `ChipReset`
takes away what the firmware owes and the events it already sent, and leaves the
driver's record of the request, whose timer or work must still end it.

`McuMsg` and `UsbRecovery` meet in `McuTimeout`: the first shows that a command
returns, the second what its timeout does to the ladder. `Mt76Worker` justifies
the parked flags that `UsbTxRing` uses as if parking were one step:
`DisabledMeansParked` is what those guards assume, and `WaitersReturn` why
`UsbRxRing` may assume that a caller waiting for the worker gets it parked; both hold
until two disable sections overlap. The nested disable of the chip reset is such an
overlap, of one thread with itself, and `UsbTxRing` models it: between its enable and
the outer one `tx_worker` may run, after the ring has been drained. What two threads make of
each other is section 4's.
`UsbRxRing` and `FwState` take a chip reset as something that succeeds or fails;
`UsbRecovery` shows what happens around it.

The proofs of a component are in a module of their own, except that `SeqNumProofs`
extends both `McuMsg` and `RxReorder`, which share the lemmas on numbers that come
round again, and `WorkerRocProofs` both `Mt76Worker` and `Roc`. For that reason the
definitions of `McuMsg` and `Roc` that every module has carry a prefix (`McuSpec`,
`RocSpec`, ...).

## 3. The runs

| Run | Question | Result | Distinct states |
|---|---|---|---|
| `recovery_safety` | Do the recovery invariants, and the inductive invariant of the proof, hold with wedges, heals, unplugs, replugs, channel switches and sleeps at every step, over two probes? | hold | 1,071,927 |
| `recovery_live` | Does each life follow `BusLife` with its liveness; do `reset_work` and disconnect end? | hold | 140,702 |
| `tx_ring` | Is the ring a FIFO with an interface stop and failing submissions; and in a chip reset, is no freed frame in flight and does every frame complete that can? | hold | 187,877 |
| `rx_ring` | Owners, order and freshness of the RX rings through lost URBs, chip resets and suspends; does the watchdog bring a deaf station back once nothing else completes? | hold | 451,996 |
| `tx_sched` | Are a station's frames found again, and does a removed station leave the lists? | hold | 134,678 |
| `tx_status` | Is each frame handed over once, and do ids and frames agree, with lost and late TXS events? | hold | 174,567 |
| `fw_state` | Do the TWT table and the radar state agree with themselves and the firmware, with the radar event beside removal and reset? | hold | 2,899,705 |
| `reorder` | Order of delivery, window, losses and liveness across the wrap, for a size that divides the numbers and one that does not? | hold | 158,580 |
| `worker` | Wake-ups, parking and teardown with two disablers that may overlap? | hold | 48,205 |
| `mcu` | Own answers and returning senders, with late answers and resets? | hold | 464,058 |
| `roc` | Is the channel always given back? | hold | 1,752 |
| `roc_remove` | Does the removal of a station return? | violated | |

The type invariants are conjuncts of a run's first invariant (`IInv`,
`RingIsConsistent`, `OneOwner`, `FramesKeepStationListed`, ...), so that each property
listed says something of its own.

### Bounds

* `UsbRecovery`: `MaxProbes` 2 gives an instance that inherits nothing but the
  core's pending request from its predecessor, the case behind `coreReset` and
  `rebinding`. `ChipResetTries` 1 instead of 10 and `McuTimeoutMax`,
  `EscalateTicks` 1 instead of 3 and 8 keep the ladders short; `RescueThreshold`
  is 2 in the safety run so that both a chip reset and an escalation occur. The
  proofs cover all values. The liveness run has one probe, no unplugging and
  thresholds of 1: it asks whether threads wait in a circle, which does not
  depend on how far they have counted.
* `UsbTxRing`: 3 slots and 5 frames (256 slots in the code) wrap the ring and
  empty it; `FreeThr` 1 leaves the stop queue threshold reachable, which keeps the ring
  from ever being full. Both
  settings of the hold are allowed at each kick since the parameter is writable
  at run time. `FreedNotInFlight` and `EveryFrameCompletes` are claimed for the chip
  reset without failing submissions (`Orderly`); section 4 says why not for more.
* `UsbRxRing`: 2 URBs per ring (128 in the code) are the least with an order to
  lose; 2 frames, 1 failure, 1 suspend, 2 attempts of a reset (10). With 1 failure
  the second attempt can still succeed, and the ring can lose one URB or a resume
  can fail half way; more of each repeats these cases. While a station is deaf the
  completions of its event queue count against no bound (`Free`).
* `TxSched`: two stations, one that may leave; 2 frames let a station have one on
  each list; `Room` 1 makes the queue stop, and 1 chip reset.
* `TxStatus`: one id for three frames on two queues, so that the pool runs dry and
  an id is taken over; two stations have the entry one after the other.
* `FwState`: two stations, two flows, two table entries: a full table, two flows of
  one station, and an entry that passes from one station to the other. The
  stations are symmetric (no station is named in a definition or a property, and
  there is no liveness property).
* `RxReorder`: 16 numbers, of which the first session starts at 13 and the last frame is
  19, so that the wrap falls into the session; sizes 4, which divides 16, and 3, which
  does not; `MaxSkip` 4 lets the peer jump over a full window. The constraint `2 * (n +
  MaxSkip) <= SN` for each size `n` is what makes numbers modulo `SN` comparable: with
  256 slots and 4096 numbers it allows a peer that is 1792 frames ahead. `MaxSkip` is at
  least 1 since a peer may send its next frame; then a frame a full window back is still
  recognised as old. `Ssn` is above 1 only because frames are positive numbers.
* `McuMsg`: 3 numbers (of which 0 is skipped, as in the code), 2 senders, 3
  commands. `Late` bounds how many newer commands a late answer can see.
* `Roc`: 3 requests: one, its late grant, and the one the late grant meets.
* `Mt76Worker` has no bound; two schedulers and two disablers.

Deadlock is checked in all runs except the two of `Roc`, where the driver
really stops (the finding of `roc_remove`), and `tx_status`, whose frames and
stations are used up.

### Fairness

Work items, timers and kernel threads run when they can (weak fairness of their steps).
A thread waiting for a mutex or for `cancel_work_sync` gets strong fairness: mutexes are
handed over to waiters, and a cancel in progress stops the work from being queued again.
In `UsbTxRing` a worker asked to park starts no new run, and `usb_kill_urb` returns,
which is the USB core's contract. In `UsbRecovery` a sleeping machine is woken again,
and mac80211's calls (stop, channel switch, sleep) come one at a time and go on. In
`RxReorder` the delayed work sooner or later runs when all held frames have expired
(`WorkDrains`), which is claimed only while slots are apart. In `UsbRxRing` the USB
core's suspend and resume calls go on once begun, and `mac_work`, which only waits for
its delay and `dev->mutex`, gets strong fairness. In `TxSched` a round runs once it is
asked for, and a channel switch or reset that has begun ends; in `TxStatus` a lock
holder goes on and `mac_work` runs; no URB has to complete and no TXS to come. `FwState`
has no liveness. Nothing is assumed of the dongle, the users, the firmware's answers or
the peer. In particular no property relies on a wedge healing, and no fairness makes a
URB come back or stop coming back.

Where a property needs more, the formula says so: `EverySenderReturns` the bound on
commands, `RocEnds` a device that goes away, `EveryRequestRuns` and `WaitersReturn` a
worker that is torn down, stays disabled or is disabled by two, `DeafStationComesBack`
an event queue that falls silent, `FramesLeave` of `TxSched` a hardware queue that moves
(`FramesComplete`), and `EveryFrameCompletes` of `UsbTxRing` (`UrbsComeBack`) that the
controller, or a reset's `usb_kill_urb`, gives the URBs back; that a chip reset completes
what it finds needs nothing of the kind.

## 4. Where the code and its own words disagree

One run ends in a violation of a sentence the repository itself states:

* `roc_remove`: `mt7921_roc_abort_sync` waits for `roc_work` under the mutex that
  `roc_work` needs; the comment at `mt7921/main.c:1085-1090` takes this deadlock
  for solved.

Six more can be reproduced by giving a module the instance named and checking the
definition named, which the module keeps for this purpose:

* `NoResetWorkAfterFree` of `UsbRecovery` (all four dongle events, `MaxProbes` 1,
  `ChipResetTries` 1, `McuTimeoutMax` 1, `RescueThreshold` 2, `EscalateTicks` 1):
  disconnect cancels `usb_reset_work` (`mt792x_usb.c:527`) and then still resets the
  chip over the control endpoint; a timeout there schedules the work on an instance
  that is freed next. `mt7921/usb.c:375-379` explains for the probe path why this must
  not happen.
* `NothingParkedAfterDrain` of `UsbTxRing` (`Stoppers` "stop", `Lossy` empty, `N` 3,
  `MaxFrames` 3): the forced drain moves `tail` and `queued` but not `first`
  (`usb.c:1369-1373`), so freed entries stay in the hold window, against the comment
  at `usb.c:1171-1173`.
* `DisableReturns` of `Mt76Worker` (the instance of its run): `mt792xu_stop` parks the
  workers without `dev->mutex` (`mt792x_usb.c:499`), beside `reset_work`;
  `docs/install.md:58-60` calls the park warning cosmetic, but with an enable in between,
  the first `kthread_park` never returns. `WaitersReturn` is the same up to the overlap.
* `ExhaustedMeansWedged` of `UsbRxRing` (`NDesc` 2, `MaxFrames` 1, `MaxFaults` 2,
  `MaxSuspends` 0, `Tries` 2, `StaleTicks` 1): a resume that fails after unpoisoning
  (`usb.c:910-914`) leaves the other queue's poison, the next stop poisons again, and
  each later attempt fails for that alone, against `mt7921/mac.c:858-859`.
* `DeafStationNoticed` of `UsbRxRing` (the instance of its run): `rx_urb_completions`
  counts both queues (`usb.c:723`), so a station that has lost the URBs of its data
  queue is never noticed as long as the event queue completes something between two runs of
  `mac_work` (`mt792x_mac.c:152-163`).
* `ReportFindsVif` of `FwState` (the instance of its run): the radar event reads
  `cac_vif` twice (`mt7921/main.c:2031` and 2032), and a removal or a reset in between
  leaves nothing for the second.

The properties that hold are worded around what the code really does in these
places. Met while modelling, by module:

* Recovery and TX ring: a chip reset attempt clears `MT76_RESET` on a hung bus
  (`mt7921/usb.c:213` against `mt7921/mac.c:842-846`); `mac_work` requeues itself
  whatever the state bits say (`mt792x_mac.c:167` against `mt792x_usb.c:512-514`); the
  hold timer is armed again during a stop (`usb.c:1332-1334`); with an interface stop,
  `tx_worker` still runs when the URBs are killed (`usb.c:1356`) and a freed frame can
  be in flight; a URB whose submission failed waits for a next kick that need not come.
* Reordering: with a size that does not divide 4096, while the numbers come round, a
  frame may find its slot taken by another frame of the window and be dropped as a repeat
  of it (`agg-rx.c:224-227`), may go up early and then once more, and may stay in a
  slot behind the head until the head comes to that slot again: `NothingLost`,
  `DeliveredInOrder` and `HeldFrameIsReleased` without their premise `SlotsApart`
  fail, and the second of them also without `overtaken`, since work and RX
  path hand up after they have dropped the lock (`agg-rx.c:105-112`).
* RX ring: suspend sets `pm->suspended` and flushes `reset_work`, whose last lines
  clear the flag (`mt7921/mac.c:884`), so a chip reset and a suspended device can
  both work on the rings (`overlapped`). Then the worker that one has parked may be
  enabled by the other: a URB in its hand is submitted anew with the ring and
  completes, the worker submits it once more, it is counted twice, and `queued` can
  exceed the size of the ring (`usb.c:743-744` has no bound). An access point, not being
  associated, has no RX watchdog (`mt792x_mac.c:134`): a deaf one stays deaf until
  something else fails.
* TX scheduling: the `&&` at `tx.c:758` puts a station back only if *both* its lists
  have frames. Frames queued for the channel while off channel, or behind a stopped
  queue or a reset, leave the station unlisted until `mt76_tx` has another frame for it,
  and one stopped queue strands every station behind it in the round.
  `mt7921u_mac_reset` runs a round with `MT76_RESET` set, which strands every station
  that has frames. `__mt76_set_channel` clears the `MT76_RESET` that `reset_work` set
  (`mac80211.c:1061`).
* TX status: a TXS that comes after the timeout is credited to the next frame with
  the id. `mt76_txq_schedule_pending_wcid` ignores the result of
  `__mt76_tx_queue_skb` (`tx.c:700`); a frame refused there is lost. A failed
  `setup_buffers` (`usb.c:1061`) leaves the id taken until the flush. A frame that
  cannot be padded is freed before its id is released, and without the status lock
  (`mt7921/mac.c:1011-1014`). A scheduling round that starts after the grace period
  may still hold a station while `mt76_wcid_cleanup` runs.
* TWT: the reset zeroes the table and its count but not the flow masks
  (`mt7921/mac.c:806-807`), so a later DELETE of a flow from before, or one in flight
  across the clearing, frees another's entry and wraps the count
  (`mt7921/twt.c:173-175`); being outside `dev->mutex`, the zeroing may itself be undone.
  What is accepted between it and the chip reset stays on record although the
  firmware forgot it. A station that leaves with an unanswered DELETE takes its table
  entry along.
* Radar: the clear of `cac_vif` at the end of the event (`mt7921/main.c:2033`) may wipe out
  an interface recorded since it was read; the next radar is then not reported.
  `rdd_enabled` set in that same window keeps the evaluation at the end of
  the reset from arming again. `mt7921_add_chanctx` evaluates without an interface
  (`mt7921/main.c:1671`), so during a CAC, and after a switch to a radar channel, there
  is nobody to report to; evaluating the target of a switch disarms while the AP is
  still on its radar channel. The comment at `mt7921/main.c:1897` names "vif removal" as
  a disarm, which `mt7921_remove_interface` does not do, and 1873 names `.config` as a
  trigger, which `mt7921_config` does not evaluate.
* Elsewhere: a grant event after the cleanup re-arms `roc_timer`
  (`mt792x_usb.c:246-252`, with the RX queues stopped only at 267); the retry of MCU
  commands is unreachable on USB (`docs/patch-series.md:11`); 0 in `mcu_fail_last`
  means "never" although `jiffies` passes through 0 (`mt7921/mcu.c:56`).

## 5. The proofs

TLAPS proves the following for every value of the constants. The only assumptions are
the named ones in the modules (`RecoveryConstants`, `WorkerActors`, `RocConstants`,
`TxSchedConstants`, `TxStatusConstants`, `FwConstants`, `McuConstants`,
`ReorderConstants`, `RingConstants`, `RxConstants`). Every safety invariant that a run
checks is stated by a theorem.

**UsbRecoveryProofs.** `IInvAlways`: `IInv` is an invariant, and from it
`TypeCorrect`, `HungBusAlwaysBeingReset`, `ParkedAlwaysHung`,
`WatchdogAlwaysArmed` and `PendingFlagAlwaysMatches`. None of these is inductive
alone:

* `ResetInv`. That `reset_work` parks only for a hung bus depends on where it is:
  in its loop it has tries left, and past the last branch `hw_full_reset` is clear.
* `RequestInv`. A hung bus is being reset because the work is queued, or because
  it has run and the request lies with the core; so the request of a *running*
  work must be accounted for, and the pending flag must tell exactly whether the
  work is outstanding, since otherwise `schedule_work` may be skipped.
* `LifeInv`. Threads exist only for a bound instance, and disconnect retires them
  one at a time: a thread that survived would set `bus_hung`, or arm `mac_work`,
  in the next life.

`WatchdogAlwaysArmed` holds up to the calls that take the watchdog away and arm it again
(`callPc`); `LifeInv` has that such a call is of a registered interface and over before
disconnect goes on.

There is one lemma per group of actions (probe, init, user, `mac_work`,
`reset_work`, core, disconnect), one step per action. `RecoveryImplementsBusLife`
shows that each step is a step of `BusLife` or a stutter under
`status <- BusStatus`; what it needs from `IInv` is that `bus_hung` is clear
whenever a probe starts and never cleared while bound.

**WorkerRocProofs, Mt76Worker.** `RequestsWake` (no request is left with a sleeping worker)
holds for any number of contexts, disablers included. `DisabledWorkerIsParked` also, until
two disable sections have overlapped, which the driver does not rule out (section 4). Its
invariant follows the park protocol flag by flag.

**WorkerRocProofs, Roc.** `RocAlwaysEnding`: an idle remain-on-channel has its timer,
its work or a grant in hand that ends it, for any number of requests, late grants and
chip resets between them. The strengthening says that a step hands on what ends the
request, and that while a station is being removed the bit is clear, so nobody can lose
it.

**TxStatusProofs.** All five invariants of `tx_status` (`TypeCorrect`,
`FramesHandedOverOnce`, `IdsStandForFrames`, `StatusFits`, `RemovalLeavesNothing`) for any
number of frames, queues, ids and stations. They need each other and what they
leave out: what a queue's lock holder has in hand is where its stage says
(`HoldersOk`), frames not begun have nothing (`FreshOk`), two ids never stand for
one frame and a frame's `pktid` is the id it was given (`IdsOk`), a frame that lost
its id is on record (`LostKnown`), and a TXS is on its way only for a frame that had
an id (`AirOk`). Each place that releases an id does the same to the same frames
(`TakeOut`), so the TXS event, the timeout, the flush and the cleanup share a lemma.
`WaitingFrameIsFound` adds the safety half of `FrameIsHandedOver`: a station with ids is
on `dev->wcid_list` (`StationIsListed`), so a frame that waits only for its status is one
the status check finds.

**FwStateProofs.** `TableMatches`, `FirmwareDoes` and `ReportedVif`, for any number of
stations, flows and entries up to 255. `ReportedVif` covers the radar event outside the
mutex: what it has found is there, or was removed since and is not freed under it.
`RddInv` is small: between the clearing and the chip reset whatever is armed is on
record as early. `TwtInv` ties the command in flight to the table: an ADD holds a free
flow and a free entry and a DELETE a taken one (`CallOk`), and while the clearing is
under way the fresh flows are those accepted since (`ClearedOk`). That the count is the
cardinality of the table needs the table finite and the `u8` not to wrap, hence 255; the
lemmas `AddKeeps`, `DeleteKeeps` and `LeaveKeeps` state what an accepted setup, a
teardown and the last step of a removal do to table, flows and leaks together.

**UsbTxRingProofs.** `RingAlwaysConsistent`, `FreedIsNotInFlight`, `CompletedInOrder`
and the refinement `RingImplementsFifo`, for rings of any size, any number of frames and
any setting of the hold window. The invariant is in two parts. `RingData` says where
each accepted frame is: the entry `j` places from `tail` holds frame
`accepted - queued + j + 1`, and what is completed and what is queued add up to what was
accepted, with the entry at `tail` counted twice while the status worker or the drain
has completed its frame and not yet moved `tail`; from that the FIFO step, the order of
completion and the indices follow. `OrderlyRing` concerns the chip reset and is needed
only for `FreedNotInFlight`: what the controller has is a contiguous run of submitted
entries behind the freed one, which a stop empties before it drains. Whatever
the thread, the ring changes in one of five ways (a frame enters, is submitted, comes
back, is completed, leaves with `tail`), each with its lemmas on positions modulo `N`.

`HeldFramesAreFlushed` is the safety half of `EveryFrameCompletes` for the hold window,
with the scope of that property: while `first` is not `head`, a burst before its kick,
the timer, or the flush of the drain is still to come, and `tx_hold_armed` is never left
set without a timer, except between the two steps of `mt76u_tx_hold_cancel`.
`FreeSlotsAlwaysKept` says that `mt76_txq_stopped`, tested before the frame is dequeued,
still keeps `FreeThr` slots free; the ring is never full, where `first = head` would
not tell an empty hold window from a full one.

**UsbRxRingProofs.** `BufferHasOneOwner`, `IntactRingStaysInOrder`,
`FramesGoUpFreshAndInOrder` and `SuspendIsAlone`, for rings of any size and any number of
frames, failures, attempts and suspends. The four needed one invariant:

* `Owned`: completed entries, URBs in flight and the URB in hand are different places
  of the ring, and the URB in hand is the one before `tail`. That a completion with the
  index of `head` never overfills the ring follows from it: a full window leaves no
  place for a URB in flight (`PosCovers`).
* `Complete`, while no URB was lost: the URBs in flight are the rest of the ring.
* `Fresh`: the frames waiting are ordered and newer than the last one handed up and
  the last restart. It must speak of every waiting entry, since a restart drops them
  unseen.
* `StopsWorker`, `PoisonCounted`: an agent between stop and enable keeps the worker
  parked, hence at rest with no URB in hand, and a poisoned queue is unpoisoned no more
  often than it was poisoned; so the restart finds nobody else at the ring.
* `SuspendAlone`: a suspend that found no reset outstanding keeps the flag set and new
  requests out, so that two agents meet at the rings (`overlapped`) only if a reset was
  outstanding when the suspend began.

What the proof needs of `mt76u_resume_rx` is only that it never submits a URB the
controller has (`ReachFits`). The proof attempt also showed that `queued <= NDesc`, once
part of the type invariant, is true only under `~overlapped`, where it now stands.

**SeqNumProofs, McuMsg.** `AnswerIsOwnOrFullCircle`, for any number of senders, commands and
sequence numbers and any delay of the answers. Alone it is not inductive, because
whether a wrong answer will match is decided by what the firmware and `mcu.res_q` still
hold. `NumbersFollowTurns` says that each answer carries the number of its command's
turn and that the one waiting sender has the newest command, since it holds
`mcu.mutex`; `AnswerIsNotAhead` that no answer belongs to a later command. Two commands with
the same sequence number are then whole circles of numbers apart (`SameSeqFullCircle`).

**SeqNumProofs, RxReorder.** `InOrder`, `WindowAlways`, `NothingIsLost` and
`FreedSessionHasNoWork`, for any sequence number space, any set of buffer sizes,
dividing it or not, and any number of frames. What holds whatever the size is that every
frame buffered is in the slot of its number (`SlotMatch`) and that none goes missing but
those `robbed` (`NoneMissing`). Order, window and the absence of robbed frames need
`SlotsApart`, and an invariant that speaks of what the code does not store, since it
only ever sees remainders: there is a number `h`, the head before it was reduced modulo
`SN` (`At`), such that everything buffered is in `h .. h + size - 1` and what the two
lists hold is below it, each rising (`Good`); the slot of `h` is empty (`HoleAtHead`);
and the peer's newest frame is less than a window ahead of `h` and at most one frame
behind it (`InStep`). `InStep` is what makes the modular comparisons right (`HearsNear`,
`SnLessDecides`); it survives every release because no release moves the head further
than behind a frame that was buffered, sent or announced. Hence the argument:

* in a window whose slots are apart, a slot belongs to one number (`SlotDecides`,
  `SlotHoldsOne`); so one round of a release loop takes `Good` at `h` to `Good` at `h +
  1` and loses nothing (`OneStep`): the only frame that can be in the slot under the
  head is `h`;
* `Advance` and `CheckRelease` are recursive functions on an interval. That such a
  function exists, and that all its values are good, is shown by the least number for
  which it would not be (`LeastNumber`, from the well-foundedness of `<` on `Nat`), since
  the induction theorems cannot be used here;
* each of the three releases keeps all frames, and a good window good (`Leads`);
  `ReleaseHead` ends at a hole (`ReleaseHeadLeads`);
* making room for a frame beyond the window leaves the frame inside it (`RoomGood`), and
  a taken slot means a repeat of the very frame in it, so discarding it loses nothing;
* each locked section ends with the invariant at some `h` (`Settles`, `RxSettles`);
* the two lists and what went up are in order up to `overtaken` (`Ordered`): a list grows
  only by frames newer than all that left the window before (`OrderGrows`), and one that
  goes up leaves on record what it passed (`OrderHandsUp`).

`HeldFrameHasWork` is the safety half of `HeldFrameIsReleased`, for any size: while a frame
is buffered, `reorder_work` is queued, or runs and has seen a frame left (`again`). The one
path that neither stores a frame nor queues the work, a repeat whose slot is taken, leaves
no frame in a buffer that was empty (`NothingHeldStays`).

**TxSchedProofs.** `TypeCorrect`, `FramesAreListed` and `RemovalIsComplete`, for any number
of stations, frames and resets. Both properties rest on what the code relies on
when it tests `list_empty(&wcid->tx_list)`: a station is on at most one of `phy->tx_list`
and the lists of the two rounds, and there once (`ListsOk`), so that taking it from one list
takes it from all (`OnceRemove`, `OnceTail`). A round has a station exactly while it serves
it (`RoundsOk`), and a frame in its hands only if it found room (`QueueOk`). That a removed
station has no frame and is on no list needs that nobody in `mt76_tx` has a station
whose grace period is over (`LeaversOk`). `KeptListed` is the property itself, with
the exceptions of section 4 on record in `skipped`.

Checked by TLC only: all liveness, that of `BusLife` and of the FIFO too, which needs
fairness and ENABLED (what the theorems above call the safety half of such a property is
that something is always there to make it happen, not that it runs); and what the
`Mutant` definitions break.

## 6. What is not modelled

Data: frame contents, command payloads, firmware images, rates, capabilities, EEPROM,
diagnostics. Jiffies: whether a ladder counter is stale is a free choice, and a timeout
may always strike. Memory orders weaker than the kernel's bit operations give. Within
the modelled parts: the non-atomic reset of the ladder counters; several queues sharing
one hold timer, and two simultaneous stops of one ring; page fragments and length checks
of received frames; airtime fairness and bursts (`mt76_txq_send_burst`, frames mac80211
keeps until asked); the TSF arithmetic of a TWT service period; a second interface of
one dongle; the moment in `mt792x_reset` between its test of `pm->suspended` and its
`queue_work`; `csa_timer` and `csa_work` beyond the switch they perform; kernels with
`.start_radar_detection` (6.13 to 6.17); the firmware's side of suspend;
`mt76_rx_aggr_flush`; what code does on memory already freed (that it gets there is
recorded).

CSI capture is off unless a user asks for it and touches no other part; its races
are among the hazards. Automatic channel selection is sequential under `dev->mutex`.
Scanning is the firmware's. Power saving returns at once on USB. The PCIe, SDIO and
WED transports and the other chips are not part of the build, and the vendor driver is
reference material.

## 7. Plan

Done, in this order: `UsbRecovery` with `BusLife` and its proofs; `UsbTxRing` with
`TxFifo`; `RxReorder`; `Mt76Worker` and proofs; `McuMsg`; `Roc` and proofs;
`UsbRxRing`; `TxSched`; `TxStatus` and proofs; `FwState` and proofs; the proofs of
`McuMsg`, `UsbTxRing` with its refinement, `UsbRxRing`, `TxSched` and `RxReorder`.

Left, models: the cleanup order of `mt792xu_cleanup` with late grants (`Roc`), the CSI
ring against its reader, and a composition of `Mt76Worker` with `reset_work` and the stop
of an interface, under the locks each of them takes.
