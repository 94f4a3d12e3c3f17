----------------------------- MODULE UsbRecovery -----------------------------
(***************************************************************************)
(* Life of one mt7921u driver instance on its USB interface, and the wedge *)
(* recovery built around it: the control endpoint that is declared hung    *)
(* (bus_hung) after a vendor request exhausts its retries, the usb_reset   *)
(* work that asks the USB core for a device reset, the core's unbind and   *)
(* re-probe, the chip reset work, the mac_work watchdog with its escalation*)
(* ladder, interface up/down, probe, init_work and disconnect.             *)
(*                                                                         *)
(* Every thread of the driver is a set of actions guarded by its own pc.   *)
(* dev->mt76.mutex is held exactly while mac_work surveys, the chip reset  *)
(* checks/operates or mac80211 switches the channel, so it is derived      *)
(* (MutexFree) and not a variable. mac80211 makes one call at a time       *)
(* (wiphy lock): stopPc and callPc are never both in the middle of one.    *)
(* usb_ctrl_mtx is `ctrl': the thread whose exhausted vendor request is    *)
(* inside ctrl_timeout; no other request can be on the wire meanwhile.     *)
(* Jiffies are abstracted: whether a ladder counter has gone stale is a    *)
(* nondeterministic choice at each failure.                                *)
(***************************************************************************)
EXTENDS Naturals

CONSTANTS
  DongleEvents,    \* which of "wedge", "heal", "unplug", "replug" may happen
  MaxProbes,       \* bound: probes of the interface in one behaviour
  ChipResetTries,  \* chip reset attempts per run of reset_work (10 in the code)
  McuTimeoutMax,   \* MCU timeouts per recovery cycle (mcu_timeout_retries, 3)
  RescueThreshold, \* recovery cycles before a USB reset (3)
  EscalateTicks    \* wedged mac_work ticks per recovery cycle (8)

ASSUME RecoveryConstants ==
  /\ DongleEvents \subseteq {"wedge", "heal", "unplug", "replug"}
  /\ MaxProbes \in Nat \ {0}
  /\ ChipResetTries \in Nat \ {0}
  /\ McuTimeoutMax \in Nat \ {0}
  /\ RescueThreshold \in Nat \ {0}
  /\ EscalateTicks \in Nat \ {0}

VARIABLES
  hw,           \* the dongle's control endpoint: "ok", "wedged" or "gone"
  phase,        \* USB core's view: "absent", "probing", "bound", "unbinding"
  probes,       \* probes so far
  coreReset,    \* usb_queue_reset_device request pending on the interface
  rebinding,    \* the core's reset handler is between its unbind and its re-probe
  busHung,      \* dev->mt76.bus_hung (and the no-op bus ops)
  removed,      \* MT76_REMOVED
  ctrl,         \* thread inside ctrl_timeout, or "free"
  usbWork,      \* usb_reset_work: "idle", "queued", "running"
  usbResetPending, \* dev->usb_reset_pending
  initWork,     \* init_work: "off", "queued", "running"
  initialized,  \* MT76_STATE_INITIALIZED
  registered,   \* MT76_STATE_REGISTERED: mac80211 may call the driver
  hwInitDone,   \* dev->hw_init_done
  ifUp,         \* mac80211 has started the hardware
  stopPc,       \* mt792xu_stop: "idle" or the step it is at
  callPc,       \* a channel switch or the machine's sleep: "idle" or its step
  running,      \* MT76_STATE_RUNNING
  macWork,      \* mac_work: "off", "armed", "survey", "ladder"
  wedgeTicks,   \* mphy->ctl_wedge_ticks
  resetQueued,  \* reset_work is on its workqueue
  resetPc,      \* reset_work: "idle" or the step it is at
  tries,        \* its loop counter (0 outside the loop)
  hwFullReset,  \* dev->hw_full_reset, and the stopped mac80211 queues
  mcuTimeouts,  \* dev->mcu_timeout_count
  rescue,       \* dev->usb_rescue_count
  discPc,       \* mt792xu_disconnect: "none" or the step it is at
  leaked        \* what the last freed instance left behind (history)

coreVars  == <<phase, probes, rebinding>>
ctrlVars  == <<busHung, removed, ctrl>>
usbVars   == <<usbWork, usbResetPending>>
initVars  == <<initWork, initialized, registered, hwInitDone>>
ifVars    == <<ifUp, stopPc, callPc, running>>
macVars   == <<macWork, wedgeTicks>>
resetVars == <<resetPc, tries, hwFullReset>>
ladderVars == <<mcuTimeouts, rescue>>
discVars  == <<discPc, leaked>>

vars == <<hw, coreVars, coreReset, ctrlVars, usbVars, initVars, ifVars,
          macVars, resetQueued, resetVars, ladderVars, discVars>>

Threads == {"probe", "init", "reset", "mac", "disc", "user", "call"}
Leaks   == {"usb_reset_work", "mac_work", "instance"}

DongleType ==
  /\ hw \in {"ok", "wedged", "gone"}
  /\ phase \in {"absent", "probing", "bound", "unbinding"}
  /\ probes \in 0..MaxProbes
  /\ coreReset \in BOOLEAN /\ rebinding \in BOOLEAN

CtrlType ==
  /\ busHung \in BOOLEAN /\ removed \in BOOLEAN
  /\ ctrl \in Threads \cup {"free"}
  /\ usbWork \in {"idle", "queued", "running"}
  /\ usbResetPending \in BOOLEAN

DriverType ==
  /\ initWork \in {"off", "queued", "running"}
  /\ initialized \in BOOLEAN /\ registered \in BOOLEAN /\ hwInitDone \in BOOLEAN
  /\ ifUp \in BOOLEAN /\ running \in BOOLEAN
  /\ stopPc \in {"idle", "cancelMac", "cancelReset", "mcu", "clear"}
  /\ callPc \in {"idle", "switchMutex", "switch", "sleepMutex", "asleep"}
  /\ discPc \in {"none", "cancelInit", "cancelReset", "cancelUsb", "clearPending",
                 "unregister", "stopping", "cleanup", "removed", "drain"}
  /\ leaked \in SUBSET Leaks

WorkType ==
  /\ macWork \in {"off", "armed", "survey", "ladder"}
  /\ wedgeTicks \in 0..(EscalateTicks - 1)
  /\ resetQueued \in BOOLEAN
  /\ resetPc \in {"idle", "quiesce", "loop", "check", "checkFailed",
                  "surgery", "leave", "finish"}
  /\ tries \in 0..ChipResetTries
  /\ hwFullReset \in BOOLEAN
  /\ mcuTimeouts \in 0..(McuTimeoutMax - 1)
  /\ rescue \in 0..(RescueThreshold - 1)

TypeOK == DongleType /\ CtrlType /\ DriverType /\ WorkType

(* State of a freshly allocated instance (mt76_alloc_device zeroes it). *)
Init ==
  /\ hw = "ok" /\ phase = "absent" /\ probes = 0
  /\ coreReset = FALSE /\ rebinding = FALSE
  /\ busHung = FALSE /\ removed = FALSE /\ ctrl = "free"
  /\ usbWork = "idle" /\ usbResetPending = FALSE
  /\ initWork = "off" /\ initialized = FALSE
  /\ registered = FALSE /\ hwInitDone = FALSE
  /\ ifUp = FALSE /\ stopPc = "idle" /\ callPc = "idle" /\ running = FALSE
  /\ macWork = "off" /\ wedgeTicks = 0
  /\ resetQueued = FALSE /\ resetPc = "idle" /\ tries = 0
  /\ hwFullReset = FALSE
  /\ mcuTimeouts = 0 /\ rescue = 0
  /\ discPc = "none" /\ leaked = {}

MutexFree == /\ macWork # "survey" /\ callPc # "switch"
             /\ resetPc \notin {"check", "checkFailed", "surgery"}

-----------------------------------------------------------------------------
(* Shared operations. *)

FailFast == removed \/ busHung

(* __mt76u_vendor_request by thread t. REMOVED and a hung bus answer at     *)
(* once; a vanished device sets REMOVED; exhausted retries set bus_hung and *)
(* enter ctrl_timeout with usb_ctrl_mtx held.                               *)
VendorRequest(t) ==
  /\ ctrl = "free"
  /\ \/ /\ FailFast \/ hw = "ok"
        /\ UNCHANGED ctrlVars
     \/ /\ ~FailFast /\ hw = "gone"
        /\ removed' = TRUE
        /\ UNCHANGED <<busHung, ctrl>>
     \/ /\ ~FailFast /\ hw = "wedged"
        /\ busHung' = TRUE /\ ctrl' = t
        /\ UNCHANGED removed

(* mt792xu_queue_usb_reset: atomic_xchg on the pending flag. *)
QueueUsbReset ==
  /\ usbResetPending' = TRUE
  /\ usbWork' = IF usbResetPending THEN usbWork ELSE "queued"

(* The queue_work of mt792x_reset; wanted says whether the caller calls it. *)
QueueChipReset(wanted) ==
  resetQueued' = (resetQueued \/ (wanted /\ hwInitDone /\ ~hwFullReset))

(* One rung of the rescue ladder, whose count starts from 0 when stale.     *)
(* counted says whether this failure is added (MCU failures before          *)
(* hw_init_done are not).                                                    *)
Rung(stale, counted) ==
  LET count == (IF stale THEN 0 ELSE rescue) + (IF counted THEN 1 ELSE 0)
  IN IF counted /\ count >= RescueThreshold
     THEN /\ rescue' = 0 /\ coreReset' = TRUE
          /\ UNCHANGED resetQueued
     ELSE /\ rescue' = count
          /\ QueueChipReset(TRUE)
          /\ UNCHANGED coreReset

(* ieee80211_queue_delayed_work of mac_work: no effect if already queued. *)
Armed(w) == IF w = "off" THEN "armed" ELSE w

-----------------------------------------------------------------------------
(* The dongle. *)

Wedge  == "wedge" \in DongleEvents /\ hw = "ok" /\ hw' = "wedged"
Heal   == "heal" \in DongleEvents /\ hw = "wedged" /\ hw' = "ok"
Unplug == "unplug" \in DongleEvents /\ hw # "gone" /\ hw' = "gone"
Replug == /\ "replug" \in DongleEvents
          /\ hw = "gone" /\ phase = "absent" /\ hw' = "ok"

Dongle ==
  /\ Wedge \/ Heal \/ Unplug \/ Replug
  /\ UNCHANGED <<coreVars, coreReset, ctrlVars, usbVars, initVars, ifVars,
                 macVars, resetQueued, resetVars, ladderVars, discVars>>

-----------------------------------------------------------------------------

(* Mutant: the USB reset is queued only while the interface is RUNNING. *)
CtrlTimeoutOnlyRunning ==
  /\ ctrl # "free" /\ ctrl' = "free"
  /\ IF running THEN QueueUsbReset ELSE UNCHANGED usbVars
  /\ UNCHANGED <<hw, coreVars, coreReset, busHung, removed, initVars, ifVars,
                 macVars, resetQueued, resetVars, ladderVars, discVars>>

(* ctrl_timeout and usb_reset_work. *)

CtrlTimeout ==
  /\ ctrl # "free"
  /\ ctrl' = "free"
  /\ QueueUsbReset
  /\ UNCHANGED <<hw, coreVars, coreReset, busHung, removed, initVars, ifVars,
                 macVars, resetQueued, resetVars, ladderVars, discVars>>

(* The interface still carries this instance until disconnect has cleared   *)
(* its intfdata (discPc = "drain").                                         *)
UsbWorkRequest ==
  /\ usbWork = "queued" /\ phase # "absent"
  /\ usbWork' = "running"
  /\ coreReset' = (coreReset \/ discPc # "drain")
  /\ UNCHANGED <<hw, coreVars, ctrlVars, usbResetPending, initVars, ifVars,
                 macVars, resetQueued, resetVars, ladderVars, discVars>>

UsbWorkEnd ==
  /\ usbWork = "running" /\ phase # "absent"
  /\ usbWork' = "idle" /\ usbResetPending' = FALSE
  /\ UNCHANGED <<hw, coreVars, coreReset, ctrlVars, initVars, ifVars,
                 macVars, resetQueued, resetVars, ladderVars, discVars>>

-----------------------------------------------------------------------------
(* Probe and init_work. *)

(* probe allocates a zeroed instance, clears bus_hung, resets the port.     *)
ProbeStart ==
  /\ phase = "absent" /\ hw # "gone" /\ probes < MaxProbes
  /\ phase' = "probing" /\ probes' = probes + 1
  /\ hw' \in {"ok", "wedged"}
  /\ busHung' = FALSE /\ removed' = FALSE /\ ctrl' = "free"
  /\ usbWork' = "idle" /\ usbResetPending' = FALSE
  /\ initialized' = FALSE /\ hwInitDone' = FALSE
  /\ running' = FALSE
  /\ macWork' = "off" /\ wedgeTicks' = 0
  /\ resetQueued' = FALSE /\ tries' = 0
  /\ hwFullReset' = FALSE
  /\ mcuTimeouts' = 0 /\ rescue' = 0
  /\ leaked' = {}
  /\ UNCHANGED <<coreReset, rebinding, initWork, registered, ifUp, stopPc, callPc,
                 resetPc, discPc>>

ProbeAccess ==
  /\ phase = "probing"
  /\ VendorRequest("probe")
  /\ UNCHANGED <<hw, coreVars, coreReset, usbVars, initVars, ifVars,
                 macVars, resetQueued, resetVars, ladderVars, discVars>>

(* Probe may succeed over a hung bus: the no-op register reads satisfy the  *)
(* polls of mt792xu_dma_init.                                               *)
ProbeOk ==
  /\ phase = "probing" /\ ctrl # "probe"
  /\ phase' = "bound" /\ initWork' = "queued" /\ rebinding' = FALSE
  /\ UNCHANGED <<hw, probes, coreReset, ctrlVars, usbVars, initialized,
                 registered, hwInitDone, ifVars, macVars, resetQueued,
                 resetVars, ladderVars, discVars>>

(* Error path: mt792xu_reset_work_cleanup waits for a running usb_reset     *)
(* work and cancels a queued one before the instance is freed.              *)
ProbeFail ==
  /\ phase = "probing" /\ ctrl # "probe"
  /\ usbWork # "running"
  /\ usbWork' = "idle" /\ usbResetPending' = FALSE
  /\ phase' = "absent" /\ rebinding' = FALSE
  /\ UNCHANGED <<hw, probes, coreReset, ctrlVars, initVars, ifVars, macVars,
                 resetQueued, resetVars, ladderVars, discVars>>

InitStart ==
  /\ initWork = "queued"
  /\ initWork' = "running" /\ initialized' = TRUE
  /\ UNCHANGED <<hw, coreVars, coreReset, ctrlVars, usbVars, registered,
                 hwInitDone, ifVars, macVars, resetQueued, resetVars,
                 ladderVars, discVars>>

InitAccess ==
  /\ initWork = "running"
  /\ VendorRequest("init")
  /\ UNCHANGED <<hw, coreVars, coreReset, usbVars, initVars, ifVars,
                 macVars, resetQueued, resetVars, ladderVars, discVars>>

(* mt76_register_device: mac80211 may use the device from here on, before   *)
(* hw_init_done allows chip resets.                                         *)
InitRegister ==
  /\ initWork = "running" /\ ~registered /\ ctrl # "init"
  /\ registered' = TRUE
  /\ UNCHANGED <<hw, coreVars, coreReset, ctrlVars, usbVars, initWork,
                 initialized, hwInitDone, ifVars, macVars, resetQueued,
                 resetVars, ladderVars, discVars>>

(* init_work ends: with hw_init_done, or early on one of its failures. *)
InitEnd ==
  /\ initWork = "running" /\ ctrl # "init"
  /\ initWork' = "off"
  /\ hwInitDone' \in {FALSE, registered}
  /\ UNCHANGED <<hw, coreVars, coreReset, ctrlVars, usbVars, initialized,
                 registered, ifVars, macVars, resetQueued, resetVars,
                 ladderVars, discVars>>

-----------------------------------------------------------------------------
(* Register accesses and MCU commands of mac80211 callbacks, debugfs, ...   *)

UserAccess ==
  /\ registered
  /\ VendorRequest("user")
  /\ UNCHANGED <<hw, coreVars, coreReset, usbVars, initVars, ifVars,
                 macVars, resetQueued, resetVars, ladderVars, discVars>>

(* A thread that may be waiting for an MCU response. *)
McuSender ==
  \/ initWork = "running" \/ registered
  \/ resetPc \in {"surgery", "finish"}
  \/ discPc = "cleanup"

(* The response never comes (or MCU_RESET makes the wait bail out):         *)
(* mt7921_mcu_parse_response(skb = NULL).                                   *)
McuTimeout ==
  /\ McuSender /\ ~removed
  /\ \E staleFail, staleRescue \in BOOLEAN :
       LET count == (IF staleFail THEN 0 ELSE mcuTimeouts) + 1
       IN IF count < McuTimeoutMax
          THEN /\ mcuTimeouts' = count
               /\ UNCHANGED <<rescue, coreReset, resetQueued>>
          ELSE /\ mcuTimeouts' = 0
               /\ Rung(staleRescue, hwInitDone)
  /\ UNCHANGED <<hw, coreVars, ctrlVars, usbVars, initVars, ifVars, macVars,
                 resetVars, discVars>>

-----------------------------------------------------------------------------
(* Interface up and down. *)

(* mt7921_start -> __mt7921_start, under the mutex. *)
IfStart ==
  /\ registered /\ ~ifUp /\ discPc # "stopping" /\ ~removed /\ MutexFree /\ callPc = "idle"
  /\ ifUp' = TRUE /\ running' = TRUE
  /\ macWork' = Armed(macWork)
  /\ UNCHANGED <<hw, coreVars, coreReset, ctrlVars, usbVars, initVars, stopPc, callPc,
                 wedgeTicks, resetQueued, resetVars, ladderVars, discVars>>

StopBegin ==
  /\ registered /\ ifUp /\ stopPc = "idle" /\ callPc = "idle"
  /\ stopPc' = "cancelMac"
  /\ UNCHANGED <<hw, coreVars, coreReset, ctrlVars, usbVars, initVars, ifUp, callPc,
                 running, macVars, resetQueued, resetVars, ladderVars, discVars>>

(* cancel_delayed_work_sync(mac_work): waits for a run in progress. *)
StopCancelMac ==
  /\ stopPc = "cancelMac" /\ macWork \in {"off", "armed"}
  /\ macWork' = "off" /\ stopPc' = "cancelReset"
  /\ UNCHANGED <<hw, coreVars, coreReset, ctrlVars, usbVars, initVars, ifUp, callPc,
                 running, wedgeTicks, resetQueued, resetVars, ladderVars, discVars>>

StopCancelReset ==
  /\ stopPc = "cancelReset" /\ resetPc = "idle"
  /\ resetQueued' = FALSE /\ stopPc' = "mcu"
  /\ UNCHANGED <<hw, coreVars, coreReset, ctrlVars, usbVars, initVars, ifUp, callPc,
                 running, macVars, resetVars, ladderVars, discVars>>

(* set_mac_enable(0) under the mutex; its timeout is a McuTimeout step. *)
StopMcu ==
  /\ stopPc = "mcu" /\ MutexFree
  /\ stopPc' = "clear"
  /\ UNCHANGED <<hw, coreVars, coreReset, ctrlVars, usbVars, initVars, ifUp, callPc,
                 running, macVars, resetQueued, resetVars, ladderVars, discVars>>

StopClear ==
  /\ stopPc = "clear"
  /\ running' = FALSE /\ ifUp' = FALSE /\ stopPc' = "idle"
  /\ UNCHANGED <<hw, coreVars, coreReset, ctrlVars, usbVars, initVars, callPc,
                 macVars, resetQueued, resetVars, ladderVars, discVars>>

-----------------------------------------------------------------------------
(* Channel switch (mt76_set_channel) and the machine's sleep (mt7921_suspend *)
(* and mt7921_resume), which cancel mac_work before they wait for the mutex. *)

CancelsMac(next) ==
  /\ registered /\ ifUp /\ stopPc = "idle" /\ callPc = "idle"
  /\ discPc # "stopping" /\ ~removed /\ macWork \in {"off", "armed"}
  /\ macWork' = "off" /\ callPc' = next
  /\ UNCHANGED <<hw, coreVars, coreReset, ctrlVars, usbVars, initVars, ifUp, stopPc,
                 running, wedgeTicks, resetQueued, resetVars, ladderVars, discVars>>

SwitchBegin == CancelsMac("switchMutex")
SleepBegin  == CancelsMac("sleepMutex")

(* __mt76_set_channel, which sets MT76_RESET for its time; its command's    *)
(* timeout is a McuTimeout step.                                            *)
SwitchMutex ==
  /\ callPc = "switchMutex" /\ MutexFree
  /\ callPc' = "switch"
  /\ UNCHANGED <<hw, coreVars, coreReset, ctrlVars, usbVars, initVars, ifUp, stopPc,
                 running, macVars, resetQueued, resetPc, tries, hwFullReset,
                 ladderVars, discVars>>

SwitchAccess ==
  /\ callPc = "switch"
  /\ VendorRequest("call")
  /\ UNCHANGED <<hw, coreVars, coreReset, usbVars, initVars, ifVars,
                 macVars, resetQueued, resetVars, ladderVars, discVars>>

(* mt7921_set_channel queues mac_work again, failed or not. *)
SwitchDone ==
  /\ callPc = "switch" /\ ctrl # "call"
  /\ callPc' = "idle"
  /\ macWork' = Armed(macWork)
  /\ UNCHANGED <<hw, coreVars, coreReset, ctrlVars, usbVars, initVars, ifUp, stopPc,
                 running, wedgeTicks, resetQueued, resetPc, tries, hwFullReset,
                 ladderVars, discVars>>

Sleep ==
  /\ callPc = "sleepMutex" /\ MutexFree
  /\ callPc' = "asleep" /\ running' = FALSE
  /\ UNCHANGED <<hw, coreVars, coreReset, ctrlVars, usbVars, initVars, ifUp, stopPc,
                 macVars, resetQueued, resetVars, ladderVars, discVars>>

WakeUp ==
  /\ callPc = "asleep" /\ MutexFree
  /\ callPc' = "idle" /\ running' = TRUE
  /\ macWork' = Armed(macWork)
  /\ UNCHANGED <<hw, coreVars, coreReset, ctrlVars, usbVars, initVars, ifUp, stopPc,
                 wedgeTicks, resetQueued, resetVars, ladderVars, discVars>>

-----------------------------------------------------------------------------
(* mt792x_mac_work. *)

(* It runs on mac80211's workqueue, gone once the hardware is unregistered. *)
MacBegin ==
  /\ macWork = "armed" /\ registered /\ MutexFree
  /\ macWork' = "survey"
  /\ UNCHANGED <<hw, coreVars, coreReset, ctrlVars, usbVars, initVars, ifVars,
                 wedgeTicks, resetQueued, resetVars, ladderVars, discVars>>

MacAccess ==
  /\ macWork = "survey" /\ ~busHung
  /\ VendorRequest("mac")
  /\ UNCHANGED <<hw, coreVars, coreReset, usbVars, initVars, ifVars,
                 macVars, resetQueued, resetVars, ladderVars, discVars>>

(* Mutant (the defect of patch 0021): mac_work acquires the mutex again     *)
(* while it holds it.                                                       *)
MacReacquire ==
  /\ macWork = "survey" /\ ctrl # "mac" /\ MutexFree
  /\ macWork' = "ladder"
  /\ UNCHANGED <<hw, coreVars, coreReset, ctrlVars, usbVars, initVars, ifVars,
                 wedgeTicks, resetQueued, resetVars, ladderVars, discVars>>

MacRelease ==
  /\ macWork = "survey" /\ ctrl # "mac"
  /\ macWork' = "ladder"
  /\ UNCHANGED <<hw, coreVars, coreReset, ctrlVars, usbVars, initVars, ifVars,
                 wedgeTicks, resetQueued, resetVars, ladderVars, discVars>>

(* The wedge ladder, the RX-stale watchdog (rxStale: no RX URB completed    *)
(* for MT792x_RX_STALE_TICKS while associated) and the unconditional        *)
(* requeue.                                                                  *)
MacEnd ==
  /\ macWork = "ladder"
  /\ macWork' = "armed"
  /\ \E rxStale \in {FALSE, running} :
       \/ /\ running /\ busHung /\ wedgeTicks + 1 >= EscalateTicks
          /\ wedgeTicks' = 0
          /\ \E stale \in BOOLEAN : Rung(stale, TRUE)
       \/ /\ ~(running /\ busHung /\ wedgeTicks + 1 >= EscalateTicks)
          /\ wedgeTicks' = IF running /\ busHung THEN wedgeTicks + 1 ELSE 0
          /\ QueueChipReset(rxStale)
          /\ UNCHANGED <<rescue, coreReset>>
  /\ UNCHANGED <<hw, coreVars, ctrlVars, usbVars, initVars, ifVars,
                 resetVars, mcuTimeouts, discVars>>

-----------------------------------------------------------------------------
(* mt7921_mac_reset_work, with mt7921u_mac_reset under the mutex. *)

ResetStart ==
  /\ resetQueued /\ resetPc = "idle"
  /\ resetQueued' = FALSE
  /\ resetPc' = "quiesce" /\ hwFullReset' = TRUE
  /\ UNCHANGED <<hw, coreVars, coreReset, ctrlVars, usbVars, initVars, ifVars,
                 macVars, tries, ladderVars, discVars>>

ResetQuiesce ==
  /\ resetPc = "quiesce" /\ macWork \in {"off", "armed"}
  /\ macWork' = "off"
  /\ resetPc' = "loop"
  /\ UNCHANGED <<hw, coreVars, coreReset, ctrlVars, usbVars, initVars, ifVars,
                 wedgeTicks, resetQueued, tries, hwFullReset, ladderVars,
                 discVars>>

(* The bus_hung bail-outs at the top of the loop and after it: everything   *)
(* is left stopped for the USB reset that is on its way.                    *)
ResetBail ==
  /\ resetPc \in {"loop", "leave"} /\ busHung
  /\ resetPc' = "idle" /\ tries' = 0
  /\ UNCHANGED <<hw, coreVars, coreReset, ctrlVars, usbVars, initVars, ifVars,
                 macVars, resetQueued, hwFullReset, ladderVars,
                 discVars>>

ResetTry ==
  /\ resetPc = "loop" /\ ~busHung /\ tries < ChipResetTries /\ MutexFree
  /\ resetPc' = "check"
  /\ UNCHANGED <<hw, coreVars, coreReset, ctrlVars, usbVars, initVars, ifVars,
                 macVars, resetQueued, tries, hwFullReset, ladderVars,
                 discVars>>

(* Mutant: a bus that answers the chip-id read again is declared healthy.   *)
ResetCheckClears ==
  /\ resetPc = "check" /\ ctrl = "free"
  /\ IF hw = "ok" /\ ~removed
     THEN busHung' = FALSE /\ resetPc' = "surgery" /\ UNCHANGED usbVars
     ELSE busHung' = TRUE /\ resetPc' = "leave" /\ QueueUsbReset
  /\ UNCHANGED <<hw, coreVars, coreReset, removed, ctrl, initVars, ifVars, macVars,
                 resetQueued, tries, hwFullReset, ladderVars, discVars>>

(* mt792xu_reset_on_bus_error. A hung bus ends the attempt with 0 (the loop *)
(* breaks); a failed chip-id read hangs the bus; otherwise surgery starts.  *)
ResetCheck ==
  /\ resetPc = "check"
  /\ \/ /\ busHung
        /\ resetPc' = "leave"
        /\ UNCHANGED ctrlVars
     \/ /\ ~busHung /\ ctrl = "free" /\ (removed \/ hw # "ok")
        /\ busHung' = TRUE
        /\ removed' = (removed \/ hw = "gone")
        /\ ctrl' = IF removed \/ hw = "gone" THEN "free" ELSE "reset"
        /\ resetPc' = "checkFailed"
     \/ /\ ~busHung /\ ctrl = "free" /\ ~removed /\ hw = "ok"
        /\ resetPc' = "surgery"
        /\ UNCHANGED ctrlVars
  /\ UNCHANGED <<hw, coreVars, coreReset, usbVars, initVars, ifVars, macVars,
                 resetQueued, tries, hwFullReset, ladderVars, discVars>>

(* The caller's own queueing after mt792xu_check_bus returned an error. *)
ResetCheckFailed ==
  /\ resetPc = "checkFailed" /\ ctrl # "reset"
  /\ QueueUsbReset
  /\ resetPc' = "leave"
  /\ UNCHANGED <<hw, coreVars, coreReset, ctrlVars, initVars, ifVars, macVars,
                 resetQueued, tries, hwFullReset, ladderVars, discVars>>

ResetAccess ==
  /\ resetPc = "surgery"
  /\ VendorRequest("reset")
  /\ UNCHANGED <<hw, coreVars, coreReset, usbVars, initVars, ifVars,
                 macVars, resetQueued, resetVars, ladderVars, discVars>>

(* Mutant: a failed attempt is not counted. *)
ResetFailedUncounted ==
  /\ resetPc = "surgery" /\ ctrl # "reset"
  /\ resetPc' = "loop"
  /\ UNCHANGED <<hw, coreVars, coreReset, ctrlVars, usbVars, initVars, ifVars,
                 macVars, resetQueued, tries, hwFullReset, ladderVars, discVars>>

(* The attempt fails at one of its `goto out': RESET is cleared all the     *)
(* same and the loop goes round.                                            *)
ResetFailed ==
  /\ resetPc = "surgery" /\ ctrl # "reset"
  /\ resetPc' = "loop" /\ tries' = tries + 1
  /\ UNCHANGED <<hw, coreVars, coreReset, ctrlVars, usbVars, initVars, ifVars,
                 macVars, resetQueued, hwFullReset, ladderVars, discVars>>

(* The attempt succeeds: __mt7921_start sets RUNNING and arms mac_work,     *)
(* whether or not the interface is up.                                      *)
ResetDone ==
  /\ resetPc = "surgery" /\ ctrl # "reset"
  /\ resetPc' = "leave"
  /\ running' = TRUE /\ macWork' = Armed(macWork)
  /\ UNCHANGED <<hw, coreVars, coreReset, ctrlVars, usbVars, initVars, ifUp,
                 stopPc, callPc, wedgeTicks, resetQueued, tries, hwFullReset,
                 ladderVars, discVars>>

(* Mutant: giving up after the last try leaves hw_full_reset set. *)
ResetLeaveParked ==
  /\ ~busHung
  /\ \/ /\ resetPc = "leave" /\ hwFullReset' = FALSE
        /\ UNCHANGED <<rescue, coreReset>>
     \/ /\ resetPc = "loop" /\ tries = ChipResetTries
        /\ rescue' = 0 /\ coreReset' = TRUE /\ UNCHANGED hwFullReset
  /\ resetPc' = "finish" /\ tries' = 0
  /\ UNCHANGED <<hw, coreVars, ctrlVars, usbVars, initVars, ifVars, macVars,
                 resetQueued, mcuTimeouts, discVars>>

(* Out of the loop on a live bus, by success or with all tries spent, which *)
(* escalates to a USB device reset; the driver is opened for traffic again. *)
ResetLeave ==
  /\ ~busHung
  /\ \/ /\ resetPc = "leave"
        /\ UNCHANGED <<rescue, coreReset>>
     \/ /\ resetPc = "loop" /\ tries = ChipResetTries
        /\ rescue' = 0 /\ coreReset' = TRUE
  /\ resetPc' = "finish" /\ tries' = 0 /\ hwFullReset' = FALSE
  /\ UNCHANGED <<hw, coreVars, ctrlVars, usbVars, initVars, ifVars, macVars,
                 resetQueued, mcuTimeouts, discVars>>

(* Mutant (BUG-13): nothing re-arms mac_work after the reset. *)
ResetFinishDisarmed ==
  /\ resetPc = "finish"
  /\ resetPc' = "idle"
  /\ UNCHANGED <<hw, coreVars, coreReset, ctrlVars, usbVars, initVars, ifVars,
                 macVars, resetQueued, tries, hwFullReset, ladderVars,
                 discVars>>

(* After the interfaces are reconnected: the mac_work chain is re-armed. *)
ResetFinish ==
  /\ resetPc = "finish"
  /\ resetPc' = "idle"
  /\ macWork' = IF running THEN Armed(macWork) ELSE macWork
  /\ UNCHANGED <<hw, coreVars, coreReset, ctrlVars, usbVars, initVars, ifVars,
                 wedgeTicks, resetQueued, tries, hwFullReset,
                 ladderVars, discVars>>

-----------------------------------------------------------------------------
(* USB core and mt792xu_disconnect. *)

(* Entry of disconnect: state bits, wake-ups. *)
DisconnectEntry ==
  /\ phase = "bound"
  /\ phase' = "unbinding" /\ discPc' = "cancelInit"
  /\ running' = FALSE
  /\ UNCHANGED <<hw, probes, ctrlVars, usbVars, initVars, ifUp, stopPc, callPc,
                 macVars, resetQueued, resetPc, tries, hwFullReset, ladderVars,
                 leaked>>

(* usb_reset_device from the queued request: no pre_reset/post_reset, so    *)
(* the core unbinds the driver first and re-probes it afterwards.           *)
CoreReset ==
  /\ coreReset /\ hw # "gone"
  /\ DisconnectEntry
  /\ coreReset' = FALSE /\ rebinding' = TRUE

(* rmmod, sysfs unbind or unplug. *)
Unbind == DisconnectEntry /\ UNCHANGED <<coreReset, rebinding>>

(* The request cannot lock the device: unbound, being unbound by somebody   *)
(* else, or detached.                                                       *)
CoreResetDropped ==
  /\ coreReset /\ ~rebinding
  /\ phase \in {"absent", "unbinding"} \/ hw = "gone"
  /\ coreReset' = FALSE
  /\ UNCHANGED <<hw, coreVars, ctrlVars, usbVars, initVars, ifVars, macVars,
                 resetQueued, resetVars, ladderVars, discVars>>

(* The re-probe finds no device. *)
RebindAbandoned ==
  /\ phase = "absent" /\ rebinding /\ hw = "gone"
  /\ rebinding' = FALSE
  /\ UNCHANGED <<hw, phase, probes, coreReset, ctrlVars, usbVars, initVars,
                 ifVars, macVars, resetQueued, resetVars, ladderVars, discVars>>

(* Mutant: init_work is cancelled without waiting for a run in progress. *)
DiscForgetInit ==
  /\ discPc = "cancelInit" /\ discPc' = "cancelReset"
  /\ initWork' = IF initWork = "queued" THEN "off" ELSE initWork
  /\ UNCHANGED <<hw, coreVars, coreReset, ctrlVars, usbVars, initialized,
                 registered, hwInitDone, ifVars, macVars, resetQueued, resetVars,
                 ladderVars, leaked>>

(* cancel_work_sync(init_work): waits for a run in progress. *)
DiscCancelInit ==
  /\ discPc = "cancelInit" /\ initWork # "running"
  /\ initWork' = "off" /\ discPc' = "cancelReset"
  /\ UNCHANGED <<hw, coreVars, coreReset, ctrlVars, usbVars, initialized,
                 registered, hwInitDone, ifVars, macVars, resetQueued, resetVars,
                 ladderVars, leaked>>

DiscCancelReset ==
  /\ discPc = "cancelReset" /\ resetPc = "idle"
  /\ resetQueued' = FALSE /\ discPc' = "cancelUsb"
  /\ UNCHANGED <<hw, coreVars, coreReset, ctrlVars, usbVars, initVars, ifVars,
                 macVars, resetVars, ladderVars, leaked>>

(* mt792xu_reset_work_cleanup, in its two steps. *)
DiscCancelUsb ==
  /\ discPc = "cancelUsb" /\ usbWork # "running"
  /\ usbWork' = "idle" /\ discPc' = "clearPending"
  /\ UNCHANGED <<hw, coreVars, coreReset, ctrlVars, usbResetPending, initVars,
                 ifVars, macVars, resetQueued, resetVars, ladderVars, leaked>>

(* An instance whose init_work never ran is not torn down: disconnect       *)
(* returns early and its memory is never freed.                             *)
DiscClearPending ==
  /\ discPc = "clearPending"
  /\ usbResetPending' = FALSE
  /\ IF initialized
     THEN /\ discPc' = "unregister"
          /\ UNCHANGED <<phase, removed, leaked>>
     ELSE /\ discPc' = "none" /\ phase' = "absent" /\ removed' = TRUE
          /\ leaked' = {"instance"}
  /\ UNCHANGED <<hw, probes, rebinding, coreReset, busHung, ctrl, usbWork,
                 initVars, ifVars, macVars, resetQueued, resetVars, ladderVars>>

(* mt76_unregister_device takes mac80211's locks, stopping a started        *)
(* interface first (the Stop steps), and drains mac80211's workqueue.       *)
DiscStopInterface ==
  /\ discPc = "unregister" /\ stopPc = "idle" /\ callPc = "idle"
  /\ discPc' = "stopping"
  /\ stopPc' = IF registered /\ ifUp THEN "cancelMac" ELSE "idle"
  /\ UNCHANGED <<hw, coreVars, coreReset, ctrlVars, usbVars, initVars, ifUp, callPc,
                 running, macVars, resetQueued, resetVars, ladderVars, leaked>>

DiscUnregister ==
  /\ discPc = "stopping" /\ stopPc = "idle"
  /\ macWork \notin {"survey", "ladder"}
  /\ registered' = FALSE /\ discPc' = "cleanup"
  /\ UNCHANGED <<hw, coreVars, coreReset, ctrlVars, usbVars, initWork,
                 initialized, hwInitDone, ifVars, macVars, resetQueued, resetVars,
                 ladderVars, leaked>>

(* mt792xu_cleanup: chip cleanup under the mutex (its MCU timeouts are      *)
(* McuTimeout steps), then the wfsys reset over the control endpoint.       *)
DiscCleanup ==
  /\ discPc = "cleanup" /\ MutexFree
  /\ VendorRequest("disc")
  /\ initialized' = FALSE /\ discPc' = "removed"
  /\ UNCHANGED <<hw, coreVars, coreReset, usbVars, initWork, registered,
                 hwInitDone, ifVars, macVars, resetQueued, resetVars, ladderVars,
                 leaked>>

DiscRemoved ==
  /\ discPc = "removed" /\ ctrl # "disc"
  /\ removed' = TRUE /\ discPc' = "drain"
  /\ UNCHANGED <<hw, coreVars, coreReset, busHung, ctrl, usbVars, initVars,
                 ifVars, macVars, resetQueued, resetVars, ladderVars, leaked>>

(* mt76_free_device: destroy_workqueue drains reset_work; usb_reset_work    *)
(* and mac_work live on other workqueues and outlive the instance. What     *)
(* they then do to freed memory is not followed: `leaked' records them.     *)
DiscFree ==
  /\ discPc = "drain" /\ ~resetQueued /\ resetPc = "idle"
  /\ discPc' = "none" /\ phase' = "absent"
  /\ leaked' = (IF usbWork # "idle" THEN {"usb_reset_work"} ELSE {})
                 \cup (IF macWork # "off" THEN {"mac_work"} ELSE {})
  /\ usbWork' = "idle" /\ usbResetPending' = FALSE /\ macWork' = "off"
  /\ UNCHANGED <<hw, probes, rebinding, coreReset, ctrlVars, initVars, ifVars,
                 wedgeTicks, resetQueued, resetVars, ladderVars>>

-----------------------------------------------------------------------------
CoreSteps == CoreReset \/ CoreResetDropped \/ RebindAbandoned

ProbeSteps == ProbeStart \/ ProbeAccess \/ ProbeOk \/ ProbeFail

InitSteps == InitStart \/ InitAccess \/ InitRegister \/ InitEnd

StopSteps == StopCancelMac \/ StopCancelReset \/ StopMcu \/ StopClear

CallSteps == SwitchMutex \/ SwitchDone \/ Sleep \/ WakeUp

MacSteps == MacBegin \/ MacAccess \/ MacRelease \/ MacEnd

ResetSteps ==
  \/ ResetStart \/ ResetQuiesce \/ ResetBail \/ ResetTry \/ ResetCheck
  \/ ResetCheckFailed \/ ResetAccess \/ ResetFailed \/ ResetDone
  \/ ResetLeave \/ ResetFinish

DiscSteps ==
  \/ DiscCancelInit \/ DiscCancelReset \/ DiscCancelUsb \/ DiscClearPending
  \/ DiscStopInterface \/ DiscUnregister \/ DiscCleanup \/ DiscRemoved
  \/ DiscFree

Next ==
  \/ Dongle \/ CtrlTimeout \/ UsbWorkRequest \/ UsbWorkEnd
  \/ ProbeSteps \/ InitSteps \/ UserAccess \/ McuTimeout
  \/ IfStart \/ StopBegin \/ StopSteps
  \/ SwitchBegin \/ SleepBegin \/ SwitchAccess \/ CallSteps \/ MacSteps \/ ResetSteps
  \/ CoreSteps \/ Unbind \/ DiscSteps

Spec == Init /\ [][Next]_vars

(* Scheduling. Work items and kernel threads run when they can (WF). A      *)
(* cancel_work_sync blocks re-queueing while it waits and mutexes are handed*)
(* over to waiters, so threads that wait for either get SF. Each thread is  *)
(* at one pc, so fairness of its steps is fairness of the step it is at.    *)
(* Nothing is assumed of the dongle, of users, or of MCU responses.         *)
ResetProgress == ResetSteps /\ resetPc' # resetPc

Fairness ==
  /\ WF_vars(CtrlTimeout) /\ WF_vars(UsbWorkRequest \/ UsbWorkEnd)
  /\ WF_vars(ProbeOk \/ ProbeFail) /\ WF_vars(InitStart \/ InitEnd)
  /\ WF_vars(CoreSteps) /\ WF_vars(hw = "gone" /\ Unbind)
  /\ WF_vars(MacBegin \/ MacRelease \/ MacEnd)
  /\ SF_vars(StopSteps \/ CallSteps)
  /\ SF_vars(ResetProgress) /\ SF_vars(DiscSteps)

FairSpec == Spec /\ Fairness

-----------------------------------------------------------------------------
(* Properties. *)

(* A bound driver whose control path is hung always has its way out in      *)
(* flight: a thread about to queue usb_reset_work, the work itself, the     *)
(* core's pending reset request, or the unplug the core is about to handle. *)
(* Losing it leaves a dead interface nobody will ever re-probe.             *)
HungBusIsBeingReset ==
  busHung /\ phase = "bound" =>
    \/ ctrl # "free" \/ resetPc = "checkFailed"
    \/ usbWork = "queued" \/ coreReset \/ hw = "gone"

(* reset_work gives up with the queues stopped and hw_full_reset set (which *)
(* makes every later mt792x_reset a no-op) only for a hung bus.             *)
ParkedOnlyWhenHung ==
  hwFullReset /\ resetPc = "idle" => busHung

(* BUG-13: while the interface is RUNNING on a live bus and nobody is       *)
(* stopping or resetting it, the mac_work watchdog chain is armed, except   *)
(* from the cancel of a channel switch (mac80211.c:1074) or of the machine's*)
(* sleep (main.c:1392) to the end of that call, which arms it again         *)
(* (main.c:585, 1423). So the cancel of one of the three never undoes, for  *)
(* good, the arming of another, whatever fails or hangs on the way.         *)
WatchdogArmed ==
  phase = "bound" /\ running /\ ~busHung /\ resetPc = "idle" /\ stopPc = "idle"
    => macWork # "off" \/ callPc # "idle"

(* At most one usb_reset_work is outstanding, and the pending flag never    *)
(* outlives it: a flag left set would swallow every later reset request.    *)
PendingFlagMatchesWork ==
  phase \in {"probing", "bound"} => (usbResetPending <=> usbWork # "idle")

(* What the four invariants above rest on, an inductive invariant. A reset  *)
(* attempt is always within its tries; the driver's threads exist only for  *)
(* a bound or unbinding instance and disconnect retires them one by one;    *)
(* the request of a running usb_reset_work is still with the core.          *)
ResetInv ==
  /\ resetPc \in {"check", "checkFailed", "surgery"} => tries < ChipResetTries
  /\ resetPc = "finish" => ~hwFullReset
  /\ ParkedOnlyWhenHung

RequestInv ==
  /\ PendingFlagMatchesWork
  /\ phase \in {"probing", "bound"} =>
       /\ usbWork = "running" => coreReset \/ hw = "gone"
       /\ busHung => \/ ctrl # "free" \/ resetPc = "checkFailed"
                     \/ usbWork = "queued" \/ coreReset \/ hw = "gone"

LifeInv ==
  /\ phase # "unbinding" => discPc = "none"
  /\ phase \in {"absent", "probing"} =>
       /\ ~registered /\ initWork = "off"
       /\ resetPc = "idle" /\ ~resetQueued
  /\ phase = "probing" => ~running /\ ~hwInitDone
  /\ discPc \notin {"none", "cancelInit"} => initWork = "off"
  /\ discPc \in {"cleanup", "removed", "drain"} => ~registered
  /\ phase \in {"bound", "unbinding"} /\ ~initialized
       /\ discPc \notin {"removed", "drain"} =>
         /\ ~registered /\ ~hwInitDone /\ initWork # "running"
         /\ resetPc = "idle" /\ ~resetQueued
  /\ macWork \in {"survey", "ladder"} => registered
  /\ callPc # "idle" => registered /\ discPc # "stopping"

IInv == TypeOK /\ ResetInv /\ RequestInv /\ LifeInv /\ WatchdogArmed

(* The life of an instance as seen from its bus_hung flag. *)
BusStatus ==
  IF phase = "absent" THEN "none" ELSE IF busHung THEN "hung" ELSE "alive"

(* The recovery implements the abstract life cycle: a hung bus is never     *)
(* declared healthy again within the same instance, and the instance of a   *)
(* hung bus is eventually torn down.                                        *)
Life == INSTANCE BusLife WITH status <- BusStatus
ImplementsBusLife == Life!FairSpec

(* Every run of reset_work ends, however often attempts fail. *)
ResetWorkEnds == resetPc # "idle" ~> resetPc = "idle"

(* disconnect returns: its cancels, the interface stop, the mutex and the   *)
(* workqueue drain never wait for one another in a circle.                  *)
DisconnectReturns == phase = "unbinding" ~> phase = "absent"

(* The code does not have this one (README, section 4, with the instance    *)
(* that shows it): no usb_reset_work is pending for an instance that has    *)
(* been freed.                                                              *)
NoResetWorkAfterFree == "usb_reset_work" \notin leaked
=============================================================================
