-------------------------- MODULE UsbRecoveryProofs --------------------------
(***************************************************************************)
(* IInv is an invariant of the wedge recovery for every value of the       *)
(* constants; the invariants of UsbRecovery follow from it.                *)
(***************************************************************************)
EXTENDS UsbRecovery, TLAPS

USE DEF coreVars, ctrlVars, usbVars, initVars, ifVars, macVars, resetVars,
        ladderVars, discVars

(* A vendor request keeps the types of the control state, whoever sends it. *)
LEMMA VendorRequestTypes ==
  ASSUME CtrlType, NEW t \in Threads, VendorRequest(t)
  PROVE  /\ busHung' \in BOOLEAN /\ removed' \in BOOLEAN
         /\ ctrl' \in Threads \cup {"free"}
  BY DEF VendorRequest, CtrlType

(* A rung of the ladder keeps the rescue count below its threshold. *)
LEMMA RungTypes ==
  ASSUME TypeOK, NEW stale \in BOOLEAN, NEW counted \in BOOLEAN,
         Rung(stale, counted)
  PROVE  /\ rescue' \in 0..(RescueThreshold - 1)
         /\ resetQueued' \in BOOLEAN /\ coreReset' \in BOOLEAN
<1>1. rescue' \in 0..(RescueThreshold - 1)
  BY RecoveryConstants DEF TypeOK, WorkType, Rung, QueueChipReset
<1>2. coreReset' \in BOOLEAN
  BY DEF TypeOK, DongleType, Rung
<1>3. resetQueued' \in BOOLEAN
  BY DEF TypeOK, WorkType, Rung, QueueChipReset
<1> QED BY <1>1, <1>2, <1>3

(* Zero is in the range of every counter. *)
LEMMA CounterRanges ==
  /\ 0 \in 0..ChipResetTries /\ 0 \in 0..(EscalateTicks - 1)
  /\ 0 \in 0..(McuTimeoutMax - 1) /\ 0 \in 0..(RescueThreshold - 1)
BY RecoveryConstants

(* The dongle moves on its own: only hw changes, and it vanishing is itself a way out for a hung bus. *)
LEMMA DongleKeep ==
  ASSUME IInv, Dongle
  PROVE  IInv'
<1>1. DongleType'
    BY DEF IInv, TypeOK, DongleType, Dongle, Wedge, Heal, Unplug,
      Replug
<1>2. CtrlType'
    BY DEF IInv, TypeOK, CtrlType, Dongle, Wedge, Heal, Unplug, Replug
<1>3. DriverType'
    BY DEF IInv, TypeOK, DriverType, Dongle, Wedge, Heal, Unplug,
      Replug
<1>4. WorkType'
    BY DEF IInv, TypeOK, WorkType, Dongle, Wedge, Heal, Unplug, Replug
<1>5. ResetInv' /\ RequestInv' /\ LifeInv' /\ WatchdogArmed'
    BY DEF IInv, ResetInv, RequestInv, LifeInv, WatchdogArmed,
      ParkedOnlyWhenHung, PendingFlagMatchesWork, Dongle, Wedge, Heal,
      Unplug, Replug
<1> QED BY <1>1, <1>2, <1>3, <1>4, <1>5 DEF IInv, TypeOK

(* The end of ctrl_timeout and the two steps of usb_reset_work hand the reset request on. *)
LEMMA CtrlWorksKeep ==
  ASSUME IInv, CtrlTimeout \/ UsbWorkRequest \/ UsbWorkEnd
  PROVE  IInv'
<1>1. ASSUME CtrlTimeout PROVE IInv'
  <2>1. DongleType'
    BY <1>1 DEF IInv, TypeOK, DongleType, CtrlTimeout, QueueUsbReset
  <2>2. CtrlType'
    BY <1>1 DEF IInv, TypeOK, CtrlType, CtrlTimeout, QueueUsbReset
  <2>3. DriverType'
    BY <1>1 DEF IInv, TypeOK, DriverType, CtrlTimeout, QueueUsbReset
  <2>4. WorkType'
    BY <1>1 DEF IInv, TypeOK, WorkType, CtrlTimeout, QueueUsbReset
  <2>5. ResetInv' /\ RequestInv' /\ LifeInv' /\ WatchdogArmed'
    BY <1>1 DEF IInv, ResetInv, RequestInv, LifeInv, WatchdogArmed,
      ParkedOnlyWhenHung, PendingFlagMatchesWork, TypeOK, CtrlType,
      CtrlTimeout, QueueUsbReset
  <2> QED BY <2>1, <2>2, <2>3, <2>4, <2>5 DEF IInv, TypeOK
<1>2. ASSUME UsbWorkRequest PROVE IInv'
  <2>1. DongleType'
    BY <1>2 DEF IInv, TypeOK, DongleType, UsbWorkRequest
  <2>2. CtrlType'
    BY <1>2 DEF IInv, TypeOK, CtrlType, UsbWorkRequest
  <2>3. DriverType'
    BY <1>2 DEF IInv, TypeOK, DriverType, UsbWorkRequest
  <2>4. WorkType'
    BY <1>2 DEF IInv, TypeOK, WorkType, UsbWorkRequest
  <2>5. ResetInv' /\ RequestInv' /\ LifeInv' /\ WatchdogArmed'
    BY <1>2 DEF IInv, ResetInv, RequestInv, LifeInv, WatchdogArmed,
      ParkedOnlyWhenHung, PendingFlagMatchesWork, UsbWorkRequest
  <2> QED BY <2>1, <2>2, <2>3, <2>4, <2>5 DEF IInv, TypeOK
<1>3. ASSUME UsbWorkEnd PROVE IInv'
  <2>1. DongleType'
    BY <1>3 DEF IInv, TypeOK, DongleType, UsbWorkEnd
  <2>2. CtrlType'
    BY <1>3 DEF IInv, TypeOK, CtrlType, UsbWorkEnd
  <2>3. DriverType'
    BY <1>3 DEF IInv, TypeOK, DriverType, UsbWorkEnd
  <2>4. WorkType'
    BY <1>3 DEF IInv, TypeOK, WorkType, UsbWorkEnd
  <2>5. ResetInv' /\ RequestInv' /\ LifeInv' /\ WatchdogArmed'
    BY <1>3 DEF IInv, ResetInv, RequestInv, LifeInv, WatchdogArmed,
      ParkedOnlyWhenHung, PendingFlagMatchesWork, UsbWorkEnd
  <2> QED BY <2>1, <2>2, <2>3, <2>4, <2>5 DEF IInv, TypeOK
<1> QED BY <1>1, <1>2, <1>3

(* Probe starts from a fresh instance and undoes itself on failure.         *)
LEMMA ProbeStepsKeep ==
  ASSUME IInv, ProbeSteps
  PROVE  IInv'
<1>1. ASSUME ProbeStart PROVE IInv'
  <2>1. DongleType'
    BY <1>1, RecoveryConstants DEF IInv, TypeOK, DongleType, ProbeStart
  <2>2. CtrlType'
    BY <1>1 DEF IInv, TypeOK, CtrlType, ProbeStart
  <2>3. DriverType'
    BY <1>1 DEF IInv, TypeOK, DriverType, ProbeStart
  <2>4. WorkType'
    BY <1>1, CounterRanges DEF IInv, TypeOK, WorkType, ProbeStart
  <2>5. ResetInv' /\ RequestInv' /\ LifeInv' /\ WatchdogArmed'
    BY <1>1 DEF IInv, ResetInv, RequestInv, LifeInv, WatchdogArmed,
      ParkedOnlyWhenHung, PendingFlagMatchesWork, ProbeStart
  <2> QED BY <2>1, <2>2, <2>3, <2>4, <2>5 DEF IInv, TypeOK
<1>2. ASSUME ProbeAccess PROVE IInv'
  <2>1. DongleType'
    BY <1>2 DEF IInv, TypeOK, DongleType, ProbeAccess
  <2>2. CtrlType'
    BY <1>2, VendorRequestTypes DEF IInv, TypeOK, CtrlType, Threads,
      ProbeAccess
  <2>3. DriverType'
    BY <1>2 DEF IInv, TypeOK, DriverType, ProbeAccess
  <2>4. WorkType'
    BY <1>2 DEF IInv, TypeOK, WorkType, ProbeAccess
  <2>5. ResetInv' /\ RequestInv' /\ LifeInv' /\ WatchdogArmed'
    BY <1>2 DEF IInv, ResetInv, RequestInv, LifeInv, WatchdogArmed,
      ParkedOnlyWhenHung, PendingFlagMatchesWork, VendorRequest, ProbeAccess
  <2> QED BY <2>1, <2>2, <2>3, <2>4, <2>5 DEF IInv, TypeOK
<1>3. ASSUME ProbeOk PROVE IInv'
  <2>1. DongleType'
    BY <1>3 DEF IInv, TypeOK, DongleType, ProbeOk
  <2>2. CtrlType'
    BY <1>3 DEF IInv, TypeOK, CtrlType, ProbeOk
  <2>3. DriverType'
    BY <1>3 DEF IInv, TypeOK, DriverType, ProbeOk
  <2>4. WorkType'
    BY <1>3 DEF IInv, TypeOK, WorkType, ProbeOk
  <2>5. ResetInv' /\ RequestInv' /\ LifeInv' /\ WatchdogArmed'
    BY <1>3 DEF IInv, ResetInv, RequestInv, LifeInv, WatchdogArmed,
      ParkedOnlyWhenHung, PendingFlagMatchesWork, ProbeOk
  <2> QED BY <2>1, <2>2, <2>3, <2>4, <2>5 DEF IInv, TypeOK
<1>4. ASSUME ProbeFail PROVE IInv'
  <2>1. DongleType'
    BY <1>4 DEF IInv, TypeOK, DongleType, ProbeFail
  <2>2. CtrlType'
    BY <1>4 DEF IInv, TypeOK, CtrlType, ProbeFail
  <2>3. DriverType'
    BY <1>4 DEF IInv, TypeOK, DriverType, ProbeFail
  <2>4. WorkType'
    BY <1>4 DEF IInv, TypeOK, WorkType, ProbeFail
  <2>5. ResetInv' /\ RequestInv' /\ LifeInv' /\ WatchdogArmed'
    BY <1>4 DEF IInv, ResetInv, RequestInv, LifeInv, WatchdogArmed,
      ParkedOnlyWhenHung, PendingFlagMatchesWork, ProbeFail
  <2> QED BY <2>1, <2>2, <2>3, <2>4, <2>5 DEF IInv, TypeOK
<1> QED BY <1>1, <1>2, <1>3, <1>4 DEF ProbeSteps

(* init_work runs only for a bound instance.                                *)
LEMMA InitStepsKeep ==
  ASSUME IInv, InitSteps
  PROVE  IInv'
<1>1. ASSUME InitStart PROVE IInv'
  <2>1. DongleType'
    BY <1>1 DEF IInv, TypeOK, DongleType, InitStart
  <2>2. CtrlType'
    BY <1>1 DEF IInv, TypeOK, CtrlType, InitStart
  <2>3. DriverType'
    BY <1>1 DEF IInv, TypeOK, DriverType, InitStart
  <2>4. WorkType'
    BY <1>1 DEF IInv, TypeOK, WorkType, InitStart
  <2>5. ResetInv' /\ RequestInv' /\ LifeInv' /\ WatchdogArmed'
    BY <1>1 DEF IInv, ResetInv, RequestInv, LifeInv, WatchdogArmed,
      ParkedOnlyWhenHung, PendingFlagMatchesWork, InitStart
  <2> QED BY <2>1, <2>2, <2>3, <2>4, <2>5 DEF IInv, TypeOK
<1>2. ASSUME InitAccess PROVE IInv'
  <2>1. DongleType'
    BY <1>2 DEF IInv, TypeOK, DongleType, InitAccess
  <2>2. CtrlType'
    BY <1>2, VendorRequestTypes DEF IInv, TypeOK, CtrlType, Threads,
      InitAccess
  <2>3. DriverType'
    BY <1>2 DEF IInv, TypeOK, DriverType, InitAccess
  <2>4. WorkType'
    BY <1>2 DEF IInv, TypeOK, WorkType, InitAccess
  <2>5. ResetInv' /\ RequestInv' /\ LifeInv' /\ WatchdogArmed'
    BY <1>2 DEF IInv, ResetInv, RequestInv, LifeInv, WatchdogArmed,
      ParkedOnlyWhenHung, PendingFlagMatchesWork, VendorRequest, InitAccess
  <2> QED BY <2>1, <2>2, <2>3, <2>4, <2>5 DEF IInv, TypeOK
<1>3. ASSUME InitRegister PROVE IInv'
  <2>1. DongleType'
    BY <1>3 DEF IInv, TypeOK, DongleType, InitRegister
  <2>2. CtrlType'
    BY <1>3 DEF IInv, TypeOK, CtrlType, InitRegister
  <2>3. DriverType'
    BY <1>3 DEF IInv, TypeOK, DriverType, InitRegister
  <2>4. WorkType'
    BY <1>3 DEF IInv, TypeOK, WorkType, InitRegister
  <2>5. ResetInv' /\ RequestInv' /\ LifeInv' /\ WatchdogArmed'
    BY <1>3 DEF IInv, ResetInv, RequestInv, LifeInv, WatchdogArmed,
      ParkedOnlyWhenHung, PendingFlagMatchesWork, InitRegister
  <2> QED BY <2>1, <2>2, <2>3, <2>4, <2>5 DEF IInv, TypeOK
<1>4. ASSUME InitEnd PROVE IInv'
  <2>1. DongleType'
    BY <1>4 DEF IInv, TypeOK, DongleType, InitEnd
  <2>2. CtrlType'
    BY <1>4 DEF IInv, TypeOK, CtrlType, InitEnd
  <2>3. DriverType'
    <3>1. hwInitDone' \in BOOLEAN
      BY <1>4 DEF IInv, TypeOK, DriverType, InitEnd
    <3> QED BY <1>4, <3>1 DEF IInv, TypeOK, DriverType, InitEnd
  <2>4. WorkType'
    BY <1>4 DEF IInv, TypeOK, WorkType, InitEnd
  <2>5. ResetInv' /\ RequestInv' /\ LifeInv' /\ WatchdogArmed'
    <3>1. ResetInv' /\ RequestInv' /\ WatchdogArmed'
      BY <1>4 DEF IInv, ResetInv, RequestInv, WatchdogArmed,
        ParkedOnlyWhenHung, PendingFlagMatchesWork, InitEnd
    <3>2. LifeInv'
      BY <1>4 DEF IInv, LifeInv, InitEnd
    <3> QED BY <3>1, <3>2
  <2> QED BY <2>1, <2>2, <2>3, <2>4, <2>5 DEF IInv, TypeOK
<1> QED BY <1>1, <1>2, <1>3, <1>4 DEF InitSteps

(* Register accesses, MCU timeouts and interface start/stop of mac80211 callbacks. *)
LEMMA UserStepsKeep ==
  ASSUME IInv, UserAccess \/ McuTimeout \/ IfStart \/ StopBegin \/ StopSteps
  PROVE  IInv'
<1>1. ASSUME UserAccess PROVE IInv'
  <2>1. DongleType'
    BY <1>1 DEF IInv, TypeOK, DongleType, UserAccess
  <2>2. CtrlType'
    BY <1>1, VendorRequestTypes DEF IInv, TypeOK, CtrlType, Threads,
      UserAccess
  <2>3. DriverType'
    BY <1>1 DEF IInv, TypeOK, DriverType, UserAccess
  <2>4. WorkType'
    BY <1>1 DEF IInv, TypeOK, WorkType, UserAccess
  <2>5. ResetInv' /\ RequestInv' /\ LifeInv' /\ WatchdogArmed'
    BY <1>1 DEF IInv, ResetInv, RequestInv, LifeInv, WatchdogArmed,
      ParkedOnlyWhenHung, PendingFlagMatchesWork, VendorRequest, UserAccess
  <2> QED BY <2>1, <2>2, <2>3, <2>4, <2>5 DEF IInv, TypeOK
<1>2. ASSUME McuTimeout PROVE IInv'
  <2> PICK staleFail \in BOOLEAN, staleRescue \in BOOLEAN :
        LET count == (IF staleFail THEN 0 ELSE mcuTimeouts) + 1
        IN IF count < McuTimeoutMax
           THEN /\ mcuTimeouts' = count
                /\ UNCHANGED <<rescue, coreReset, resetQueued>>
           ELSE /\ mcuTimeouts' = 0
                /\ Rung(staleRescue, hwInitDone)
    BY <1>2 DEF McuTimeout
  <2> DEFINE count == (IF staleFail THEN 0 ELSE mcuTimeouts) + 1
  <2>1. mcuTimeouts' \in 0..(McuTimeoutMax - 1)
    <3>1. CASE count < McuTimeoutMax
      BY <3>1, RecoveryConstants DEF IInv, TypeOK, WorkType
    <3>2. CASE ~(count < McuTimeoutMax)
      BY <3>2, CounterRanges
    <3> QED BY <3>1, <3>2
  <2>2. /\ rescue' \in 0..(RescueThreshold - 1)
        /\ resetQueued' \in BOOLEAN /\ coreReset' \in BOOLEAN
    <3>1. CASE count < McuTimeoutMax
      BY <3>1 DEF IInv, TypeOK, WorkType, DongleType
    <3>2. CASE ~(count < McuTimeoutMax)
      BY <3>2, RungTypes DEF IInv, TypeOK, DriverType
    <3> QED BY <3>1, <3>2
  <2>3. DongleType'
    BY <1>2, <2>2 DEF IInv, TypeOK, DongleType, McuTimeout
  <2>4. CtrlType' /\ DriverType'
    BY <1>2 DEF IInv, TypeOK, CtrlType, DriverType, McuTimeout
  <2>5. WorkType'
    BY <1>2, <2>1, <2>2 DEF IInv, TypeOK, WorkType, McuTimeout
  <2>6. /\ coreReset => coreReset'
        /\ resetQueued' => resetQueued \/ hwInitDone
    <3>1. CASE count < McuTimeoutMax
      BY <3>1
    <3>2. CASE ~(count < McuTimeoutMax)
      BY <3>2 DEF Rung, QueueChipReset
    <3> QED BY <3>1, <3>2
  <2>7. ResetInv' /\ RequestInv' /\ LifeInv' /\ WatchdogArmed'
    <3>1. ResetInv' /\ WatchdogArmed'
      BY <1>2 DEF IInv, ResetInv, WatchdogArmed, ParkedOnlyWhenHung, McuTimeout
    <3>2. RequestInv'
      BY <1>2, <2>6 DEF IInv, RequestInv, PendingFlagMatchesWork, McuTimeout
    <3>3. LifeInv'
      BY <1>2, <2>6 DEF IInv, LifeInv, McuTimeout, McuSender
    <3> QED BY <3>1, <3>2, <3>3
  <2> QED BY <2>3, <2>4, <2>5, <2>7 DEF IInv, TypeOK
<1>3. ASSUME IfStart PROVE IInv'
  <2>1. DongleType'
    BY <1>3 DEF IInv, TypeOK, DongleType, IfStart
  <2>2. CtrlType'
    BY <1>3 DEF IInv, TypeOK, CtrlType, IfStart
  <2>3. DriverType'
    BY <1>3 DEF IInv, TypeOK, DriverType, IfStart
  <2>4. WorkType'
    BY <1>3 DEF IInv, TypeOK, WorkType, Armed, IfStart
  <2>5. ResetInv' /\ RequestInv' /\ LifeInv' /\ WatchdogArmed'
    BY <1>3 DEF IInv, ResetInv, RequestInv, LifeInv, WatchdogArmed,
      ParkedOnlyWhenHung, PendingFlagMatchesWork, Armed, IfStart
  <2> QED BY <2>1, <2>2, <2>3, <2>4, <2>5 DEF IInv, TypeOK
<1>4. ASSUME StopBegin PROVE IInv'
  <2>1. DongleType'
    BY <1>4 DEF IInv, TypeOK, DongleType, StopBegin
  <2>2. CtrlType'
    BY <1>4 DEF IInv, TypeOK, CtrlType, StopBegin
  <2>3. DriverType'
    BY <1>4 DEF IInv, TypeOK, DriverType, StopBegin
  <2>4. WorkType'
    BY <1>4 DEF IInv, TypeOK, WorkType, StopBegin
  <2>5. ResetInv' /\ RequestInv' /\ LifeInv' /\ WatchdogArmed'
    BY <1>4 DEF IInv, ResetInv, RequestInv, LifeInv, WatchdogArmed,
      ParkedOnlyWhenHung, PendingFlagMatchesWork, StopBegin
  <2> QED BY <2>1, <2>2, <2>3, <2>4, <2>5 DEF IInv, TypeOK
<1>5. ASSUME StopCancelMac PROVE IInv'
  <2>1. DongleType'
    BY <1>5 DEF IInv, TypeOK, DongleType, StopCancelMac
  <2>2. CtrlType'
    BY <1>5 DEF IInv, TypeOK, CtrlType, StopCancelMac
  <2>3. DriverType'
    BY <1>5 DEF IInv, TypeOK, DriverType, StopCancelMac
  <2>4. WorkType'
    BY <1>5 DEF IInv, TypeOK, WorkType, StopCancelMac
  <2>5. ResetInv' /\ RequestInv' /\ LifeInv' /\ WatchdogArmed'
    BY <1>5 DEF IInv, ResetInv, RequestInv, LifeInv, WatchdogArmed,
      ParkedOnlyWhenHung, PendingFlagMatchesWork, StopCancelMac
  <2> QED BY <2>1, <2>2, <2>3, <2>4, <2>5 DEF IInv, TypeOK
<1>6. ASSUME StopCancelReset PROVE IInv'
  <2>1. DongleType'
    BY <1>6 DEF IInv, TypeOK, DongleType, StopCancelReset
  <2>2. CtrlType'
    BY <1>6 DEF IInv, TypeOK, CtrlType, StopCancelReset
  <2>3. DriverType'
    BY <1>6 DEF IInv, TypeOK, DriverType, StopCancelReset
  <2>4. WorkType'
    BY <1>6 DEF IInv, TypeOK, WorkType, StopCancelReset
  <2>5. ResetInv' /\ RequestInv' /\ LifeInv' /\ WatchdogArmed'
    BY <1>6 DEF IInv, ResetInv, RequestInv, LifeInv, WatchdogArmed,
      ParkedOnlyWhenHung, PendingFlagMatchesWork, StopCancelReset
  <2> QED BY <2>1, <2>2, <2>3, <2>4, <2>5 DEF IInv, TypeOK
<1>7. ASSUME StopMcu PROVE IInv'
  <2>1. DongleType'
    BY <1>7 DEF IInv, TypeOK, DongleType, StopMcu
  <2>2. CtrlType'
    BY <1>7 DEF IInv, TypeOK, CtrlType, StopMcu
  <2>3. DriverType'
    BY <1>7 DEF IInv, TypeOK, DriverType, StopMcu
  <2>4. WorkType'
    BY <1>7 DEF IInv, TypeOK, WorkType, StopMcu
  <2>5. ResetInv' /\ RequestInv' /\ LifeInv' /\ WatchdogArmed'
    BY <1>7 DEF IInv, ResetInv, RequestInv, LifeInv, WatchdogArmed,
      ParkedOnlyWhenHung, PendingFlagMatchesWork, StopMcu
  <2> QED BY <2>1, <2>2, <2>3, <2>4, <2>5 DEF IInv, TypeOK
<1>8. ASSUME StopClear PROVE IInv'
  <2>1. DongleType'
    BY <1>8 DEF IInv, TypeOK, DongleType, StopClear
  <2>2. CtrlType'
    BY <1>8 DEF IInv, TypeOK, CtrlType, StopClear
  <2>3. DriverType'
    BY <1>8 DEF IInv, TypeOK, DriverType, StopClear
  <2>4. WorkType'
    BY <1>8 DEF IInv, TypeOK, WorkType, StopClear
  <2>5. ResetInv' /\ RequestInv' /\ LifeInv' /\ WatchdogArmed'
    BY <1>8 DEF IInv, ResetInv, RequestInv, LifeInv, WatchdogArmed,
      ParkedOnlyWhenHung, PendingFlagMatchesWork, StopClear
  <2> QED BY <2>1, <2>2, <2>3, <2>4, <2>5 DEF IInv, TypeOK
<1> QED BY <1>1, <1>2, <1>3, <1>4, <1>5, <1>6, <1>7, <1>8 DEF StopSteps

(* A channel switch and the machine's sleep: the watchdog they cancel is armed again when they end. *)
LEMMA CallStepsKeep ==
  ASSUME IInv, SwitchBegin \/ SleepBegin \/ SwitchAccess \/ CallSteps
  PROVE  IInv'
<1>1. ASSUME SwitchBegin \/ SleepBegin PROVE IInv'
  <2>1. DongleType' /\ CtrlType'
    BY <1>1 DEF IInv, TypeOK, DongleType, CtrlType, SwitchBegin, SleepBegin, CancelsMac
  <2>2. DriverType'
    BY <1>1 DEF IInv, TypeOK, DriverType, SwitchBegin, SleepBegin, CancelsMac
  <2>4. WorkType'
    BY <1>1 DEF IInv, TypeOK, WorkType, SwitchBegin, SleepBegin, CancelsMac
  <2>3. ResetInv' /\ RequestInv' /\ LifeInv' /\ WatchdogArmed'
    BY <1>1 DEF IInv, ResetInv, RequestInv, LifeInv, WatchdogArmed,
      ParkedOnlyWhenHung, PendingFlagMatchesWork, SwitchBegin, SleepBegin, CancelsMac
  <2> QED BY <2>1, <2>2, <2>3, <2>4 DEF IInv, TypeOK
<1>2. ASSUME SwitchMutex PROVE IInv'
  <2>1. DongleType' /\ CtrlType'
    BY <1>2 DEF IInv, TypeOK, DongleType, CtrlType, SwitchMutex
  <2>2. DriverType'
    BY <1>2 DEF IInv, TypeOK, DriverType, SwitchMutex
  <2>4. WorkType'
    BY <1>2 DEF IInv, TypeOK, WorkType, SwitchMutex
  <2>3. ResetInv' /\ RequestInv' /\ LifeInv' /\ WatchdogArmed'
    BY <1>2 DEF IInv, ResetInv, RequestInv, LifeInv, WatchdogArmed,
      ParkedOnlyWhenHung, PendingFlagMatchesWork, SwitchMutex
  <2> QED BY <2>1, <2>2, <2>3, <2>4 DEF IInv, TypeOK
<1>3. ASSUME SwitchAccess PROVE IInv'
  <2>1. DongleType' /\ DriverType' /\ WorkType'
    BY <1>3 DEF IInv, TypeOK, DongleType, DriverType, WorkType, SwitchAccess
  <2>2. CtrlType'
    BY <1>3, VendorRequestTypes DEF IInv, TypeOK, CtrlType, Threads, SwitchAccess
  <2>3. ResetInv' /\ RequestInv' /\ LifeInv' /\ WatchdogArmed'
    BY <1>3 DEF IInv, ResetInv, RequestInv, LifeInv, WatchdogArmed,
      ParkedOnlyWhenHung, PendingFlagMatchesWork, VendorRequest, SwitchAccess
  <2> QED BY <2>1, <2>2, <2>3 DEF IInv, TypeOK
<1>4. ASSUME SwitchDone PROVE IInv'
  <2>1. DongleType' /\ CtrlType'
    BY <1>4 DEF IInv, TypeOK, DongleType, CtrlType, SwitchDone
  <2>2. DriverType'
    BY <1>4 DEF IInv, TypeOK, DriverType, SwitchDone
  <2>4. WorkType'
    BY <1>4 DEF IInv, TypeOK, WorkType, Armed, SwitchDone
  <2>3. ResetInv' /\ RequestInv' /\ LifeInv' /\ WatchdogArmed'
    BY <1>4 DEF IInv, ResetInv, RequestInv, LifeInv, WatchdogArmed,
      ParkedOnlyWhenHung, PendingFlagMatchesWork, Armed, SwitchDone
  <2> QED BY <2>1, <2>2, <2>3, <2>4 DEF IInv, TypeOK
<1>5. ASSUME Sleep PROVE IInv'
  <2>1. DongleType' /\ CtrlType'
    BY <1>5 DEF IInv, TypeOK, DongleType, CtrlType, Sleep
  <2>2. DriverType'
    BY <1>5 DEF IInv, TypeOK, DriverType, Sleep
  <2>4. WorkType'
    BY <1>5 DEF IInv, TypeOK, WorkType, Sleep
  <2>3. ResetInv' /\ RequestInv' /\ LifeInv' /\ WatchdogArmed'
    BY <1>5 DEF IInv, ResetInv, RequestInv, LifeInv, WatchdogArmed,
      ParkedOnlyWhenHung, PendingFlagMatchesWork, Sleep
  <2> QED BY <2>1, <2>2, <2>3, <2>4 DEF IInv, TypeOK
<1>6. ASSUME WakeUp PROVE IInv'
  <2>1. DongleType' /\ CtrlType'
    BY <1>6 DEF IInv, TypeOK, DongleType, CtrlType, WakeUp
  <2>2. DriverType'
    BY <1>6 DEF IInv, TypeOK, DriverType, WakeUp
  <2>4. WorkType'
    BY <1>6 DEF IInv, TypeOK, WorkType, Armed, WakeUp
  <2>3. ResetInv' /\ RequestInv' /\ LifeInv' /\ WatchdogArmed'
    <3>1. ResetInv' /\ RequestInv'
      BY <1>6 DEF IInv, ResetInv, RequestInv, ParkedOnlyWhenHung,
        PendingFlagMatchesWork, WakeUp
    <3>2. LifeInv'
      BY <1>6 DEF IInv, LifeInv, Armed, WakeUp
    <3>3. WatchdogArmed'
      BY <1>6 DEF WatchdogArmed, Armed, WakeUp
    <3> QED BY <3>1, <3>2, <3>3
  <2> QED BY <2>1, <2>2, <2>3, <2>4 DEF IInv, TypeOK
<1> QED BY <1>1, <1>2, <1>3, <1>4, <1>5, <1>6 DEF CallSteps

(* The watchdog chain: its ladder stays within its counters and re-arms it. *)
LEMMA MacStepsKeep ==
  ASSUME IInv, MacSteps
  PROVE  IInv'
<1>1. ASSUME MacBegin PROVE IInv'
  <2>1. DongleType'
    BY <1>1 DEF IInv, TypeOK, DongleType, MacBegin
  <2>2. CtrlType'
    BY <1>1 DEF IInv, TypeOK, CtrlType, MacBegin
  <2>3. DriverType'
    BY <1>1 DEF IInv, TypeOK, DriverType, MacBegin
  <2>4. WorkType'
    BY <1>1 DEF IInv, TypeOK, WorkType, MacBegin
  <2>5. ResetInv' /\ RequestInv' /\ LifeInv' /\ WatchdogArmed'
    BY <1>1 DEF IInv, ResetInv, RequestInv, LifeInv, WatchdogArmed,
      ParkedOnlyWhenHung, PendingFlagMatchesWork, MacBegin
  <2> QED BY <2>1, <2>2, <2>3, <2>4, <2>5 DEF IInv, TypeOK
<1>2. ASSUME MacAccess PROVE IInv'
  <2>1. DongleType'
    BY <1>2 DEF IInv, TypeOK, DongleType, MacAccess
  <2>2. CtrlType'
    BY <1>2, VendorRequestTypes DEF IInv, TypeOK, CtrlType, Threads,
      MacAccess
  <2>3. DriverType'
    BY <1>2 DEF IInv, TypeOK, DriverType, MacAccess
  <2>4. WorkType'
    BY <1>2 DEF IInv, TypeOK, WorkType, MacAccess
  <2>5. ResetInv' /\ RequestInv' /\ LifeInv' /\ WatchdogArmed'
    BY <1>2 DEF IInv, ResetInv, RequestInv, LifeInv, WatchdogArmed,
      ParkedOnlyWhenHung, PendingFlagMatchesWork, VendorRequest, MacAccess
  <2> QED BY <2>1, <2>2, <2>3, <2>4, <2>5 DEF IInv, TypeOK
<1>3. ASSUME MacRelease PROVE IInv'
  <2>1. DongleType'
    BY <1>3 DEF IInv, TypeOK, DongleType, MacRelease
  <2>2. CtrlType'
    BY <1>3 DEF IInv, TypeOK, CtrlType, MacRelease
  <2>3. DriverType'
    BY <1>3 DEF IInv, TypeOK, DriverType, MacRelease
  <2>4. WorkType'
    BY <1>3 DEF IInv, TypeOK, WorkType, MacRelease
  <2>5. ResetInv' /\ RequestInv' /\ LifeInv' /\ WatchdogArmed'
    BY <1>3 DEF IInv, ResetInv, RequestInv, LifeInv, WatchdogArmed,
      ParkedOnlyWhenHung, PendingFlagMatchesWork, MacRelease
  <2> QED BY <2>1, <2>2, <2>3, <2>4, <2>5 DEF IInv, TypeOK
<1>4. ASSUME MacEnd PROVE IInv'
  <2> PICK rxStale \in {FALSE, running} :
        \/ /\ running /\ busHung /\ wedgeTicks + 1 >= EscalateTicks
           /\ wedgeTicks' = 0
           /\ \E stale \in BOOLEAN : Rung(stale, TRUE)
        \/ /\ ~(running /\ busHung /\ wedgeTicks + 1 >= EscalateTicks)
           /\ wedgeTicks' = IF running /\ busHung THEN wedgeTicks + 1 ELSE 0
           /\ QueueChipReset(rxStale)
           /\ UNCHANGED <<rescue, coreReset>>
    BY <1>4 DEF MacEnd
  <2> DEFINE escalates == running /\ busHung /\ wedgeTicks + 1 >= EscalateTicks
  <2>1. wedgeTicks' \in 0..(EscalateTicks - 1)
    <3>1. CASE escalates
      BY <3>1, CounterRanges
    <3>2. CASE ~escalates /\ running /\ busHung
      <4>1. wedgeTicks' = wedgeTicks + 1 /\ ~(wedgeTicks + 1 >= EscalateTicks)
        BY <3>2
      <4>2. wedgeTicks \in Nat /\ EscalateTicks \in Nat
        BY RecoveryConstants DEF IInv, TypeOK, WorkType
      <4> HIDE DEF escalates
      <4> QED BY <4>1, <4>2
    <3>3. CASE ~(running /\ busHung)
      BY <3>3, CounterRanges
    <3> QED BY <3>1, <3>2, <3>3
  <2>2. /\ rescue' \in 0..(RescueThreshold - 1)
        /\ resetQueued' \in BOOLEAN /\ coreReset' \in BOOLEAN
    <3>1. CASE escalates
      BY <3>1, RungTypes DEF IInv
    <3>2. CASE ~escalates
      BY <3>2 DEF IInv, TypeOK, WorkType, DongleType, QueueChipReset
    <3> QED BY <3>1, <3>2
  <2>3. DongleType'
    BY <1>4, <2>2 DEF IInv, TypeOK, DongleType, MacEnd
  <2>4. CtrlType' /\ DriverType'
    BY <1>4 DEF IInv, TypeOK, CtrlType, DriverType, MacEnd
  <2>5. WorkType'
    BY <1>4, <2>1, <2>2 DEF IInv, TypeOK, WorkType, MacEnd
  <2>6. ResetInv' /\ RequestInv' /\ LifeInv' /\ WatchdogArmed'
    BY <1>4 DEF IInv, ResetInv, RequestInv, LifeInv, WatchdogArmed,
      ParkedOnlyWhenHung, PendingFlagMatchesWork, Rung, QueueChipReset, MacEnd
  <2> QED BY <2>3, <2>4, <2>5, <2>6 DEF IInv, TypeOK
<1> QED BY <1>1, <1>2, <1>3, <1>4 DEF MacSteps

(* reset_work: tries, MT76_RESET and hw_full_reset through one run of it.   *)
LEMMA ResetStepsKeep ==
  ASSUME IInv, ResetSteps
  PROVE  IInv'
<1>1. ASSUME ResetStart PROVE IInv'
  <2>1. DongleType'
    BY <1>1 DEF IInv, TypeOK, DongleType, ResetStart
  <2>2. CtrlType'
    BY <1>1 DEF IInv, TypeOK, CtrlType, ResetStart
  <2>3. DriverType'
    BY <1>1 DEF IInv, TypeOK, DriverType, ResetStart
  <2>4. WorkType'
    BY <1>1 DEF IInv, TypeOK, WorkType, ResetStart
  <2>5. ResetInv' /\ RequestInv' /\ LifeInv' /\ WatchdogArmed'
    BY <1>1 DEF IInv, ResetInv, RequestInv, LifeInv, WatchdogArmed,
      ParkedOnlyWhenHung, PendingFlagMatchesWork, ResetStart
  <2> QED BY <2>1, <2>2, <2>3, <2>4, <2>5 DEF IInv, TypeOK
<1>2. ASSUME ResetQuiesce PROVE IInv'
  <2>1. DongleType'
    BY <1>2 DEF IInv, TypeOK, DongleType, ResetQuiesce
  <2>2. CtrlType'
    BY <1>2 DEF IInv, TypeOK, CtrlType, ResetQuiesce
  <2>3. DriverType'
    BY <1>2 DEF IInv, TypeOK, DriverType, ResetQuiesce
  <2>4. WorkType'
    BY <1>2 DEF IInv, TypeOK, WorkType, ResetQuiesce
  <2>5. ResetInv' /\ RequestInv' /\ LifeInv' /\ WatchdogArmed'
    BY <1>2 DEF IInv, ResetInv, RequestInv, LifeInv, WatchdogArmed,
      ParkedOnlyWhenHung, PendingFlagMatchesWork, ResetQuiesce
  <2> QED BY <2>1, <2>2, <2>3, <2>4, <2>5 DEF IInv, TypeOK
<1>3. ASSUME ResetBail PROVE IInv'
  <2>1. DongleType'
    BY <1>3 DEF IInv, TypeOK, DongleType, ResetBail
  <2>2. CtrlType'
    BY <1>3 DEF IInv, TypeOK, CtrlType, ResetBail
  <2>3. DriverType'
    BY <1>3 DEF IInv, TypeOK, DriverType, ResetBail
  <2>4. WorkType'
    BY <1>3, CounterRanges DEF IInv, TypeOK, WorkType, ResetBail
  <2>5. ResetInv' /\ RequestInv' /\ LifeInv' /\ WatchdogArmed'
    BY <1>3 DEF IInv, ResetInv, RequestInv, LifeInv, WatchdogArmed,
      ParkedOnlyWhenHung, PendingFlagMatchesWork, ResetBail
  <2> QED BY <2>1, <2>2, <2>3, <2>4, <2>5 DEF IInv, TypeOK
<1>4. ASSUME ResetTry PROVE IInv'
  <2>1. DongleType'
    BY <1>4 DEF IInv, TypeOK, DongleType, ResetTry
  <2>2. CtrlType'
    BY <1>4 DEF IInv, TypeOK, CtrlType, ResetTry
  <2>3. DriverType'
    BY <1>4 DEF IInv, TypeOK, DriverType, ResetTry
  <2>4. WorkType'
    BY <1>4 DEF IInv, TypeOK, WorkType, ResetTry
  <2>5. ResetInv' /\ RequestInv' /\ LifeInv' /\ WatchdogArmed'
    BY <1>4 DEF IInv, ResetInv, RequestInv, LifeInv, WatchdogArmed,
      ParkedOnlyWhenHung, PendingFlagMatchesWork, TypeOK, WorkType, ResetTry
  <2> QED BY <2>1, <2>2, <2>3, <2>4, <2>5 DEF IInv, TypeOK
<1>5. ASSUME ResetCheck PROVE IInv'
  <2>1. DongleType'
    BY <1>5 DEF IInv, TypeOK, DongleType, ResetCheck
  <2>2. CtrlType'
    BY <1>5 DEF IInv, TypeOK, CtrlType, Threads, ResetCheck
  <2>3. DriverType'
    BY <1>5 DEF IInv, TypeOK, DriverType, ResetCheck
  <2>4. WorkType'
    BY <1>5 DEF IInv, TypeOK, WorkType, ResetCheck
  <2>5. ResetInv' /\ RequestInv' /\ LifeInv' /\ WatchdogArmed'
    BY <1>5 DEF IInv, ResetInv, RequestInv, LifeInv, WatchdogArmed,
      ParkedOnlyWhenHung, PendingFlagMatchesWork, ResetCheck
  <2> QED BY <2>1, <2>2, <2>3, <2>4, <2>5 DEF IInv, TypeOK
<1>6. ASSUME ResetCheckFailed PROVE IInv'
  <2>1. DongleType'
    BY <1>6 DEF IInv, TypeOK, DongleType, ResetCheckFailed, QueueUsbReset
  <2>2. CtrlType'
    BY <1>6 DEF IInv, TypeOK, CtrlType, ResetCheckFailed, QueueUsbReset
  <2>3. DriverType'
    BY <1>6 DEF IInv, TypeOK, DriverType, ResetCheckFailed, QueueUsbReset
  <2>4. WorkType'
    BY <1>6 DEF IInv, TypeOK, WorkType, ResetCheckFailed, QueueUsbReset
  <2>5. ResetInv' /\ RequestInv' /\ LifeInv' /\ WatchdogArmed'
    BY <1>6 DEF IInv, ResetInv, RequestInv, LifeInv, WatchdogArmed,
      ParkedOnlyWhenHung, PendingFlagMatchesWork, TypeOK, CtrlType,
      ResetCheckFailed, QueueUsbReset
  <2> QED BY <2>1, <2>2, <2>3, <2>4, <2>5 DEF IInv, TypeOK
<1>7. ASSUME ResetAccess PROVE IInv'
  <2>1. DongleType'
    BY <1>7 DEF IInv, TypeOK, DongleType, ResetAccess
  <2>2. CtrlType'
    BY <1>7, VendorRequestTypes DEF IInv, TypeOK, CtrlType, Threads,
      ResetAccess
  <2>3. DriverType'
    BY <1>7 DEF IInv, TypeOK, DriverType, ResetAccess
  <2>4. WorkType'
    BY <1>7 DEF IInv, TypeOK, WorkType, ResetAccess
  <2>5. ResetInv' /\ RequestInv' /\ LifeInv' /\ WatchdogArmed'
    BY <1>7 DEF IInv, ResetInv, RequestInv, LifeInv, WatchdogArmed,
      ParkedOnlyWhenHung, PendingFlagMatchesWork, VendorRequest, ResetAccess
  <2> QED BY <2>1, <2>2, <2>3, <2>4, <2>5 DEF IInv, TypeOK
<1>8. ASSUME ResetFailed PROVE IInv'
  <2>1. DongleType' /\ CtrlType' /\ DriverType'
    BY <1>8 DEF IInv, TypeOK, DongleType, CtrlType, DriverType, ResetFailed
  <2>2. tries' \in 0..ChipResetTries
    BY <1>8, RecoveryConstants DEF IInv, TypeOK, WorkType, ResetInv, ResetFailed
  <2>3. WorkType'
    BY <1>8, <2>2 DEF IInv, TypeOK, WorkType, ResetFailed
  <2>4. ResetInv' /\ RequestInv' /\ LifeInv' /\ WatchdogArmed'
    BY <1>8 DEF IInv, ResetInv, RequestInv, LifeInv, WatchdogArmed,
      ParkedOnlyWhenHung, PendingFlagMatchesWork, ResetFailed
  <2> QED BY <2>1, <2>3, <2>4 DEF IInv, TypeOK
<1>9. ASSUME ResetDone PROVE IInv'
  <2>1. DongleType'
    BY <1>9 DEF IInv, TypeOK, DongleType, ResetDone
  <2>2. CtrlType'
    BY <1>9 DEF IInv, TypeOK, CtrlType, ResetDone
  <2>3. DriverType'
    BY <1>9 DEF IInv, TypeOK, DriverType, ResetDone
  <2>4. WorkType'
    BY <1>9 DEF IInv, TypeOK, WorkType, Armed, ResetDone
  <2>5. ResetInv' /\ RequestInv' /\ LifeInv' /\ WatchdogArmed'
    BY <1>9 DEF IInv, ResetInv, RequestInv, LifeInv, WatchdogArmed,
      ParkedOnlyWhenHung, PendingFlagMatchesWork, Armed, ResetDone
  <2> QED BY <2>1, <2>2, <2>3, <2>4, <2>5 DEF IInv, TypeOK
<1>10. ASSUME ResetLeave PROVE IInv'
  <2>1. DongleType'
    BY <1>10 DEF IInv, TypeOK, DongleType, ResetLeave
  <2>2. CtrlType'
    BY <1>10 DEF IInv, TypeOK, CtrlType, ResetLeave
  <2>3. DriverType'
    BY <1>10 DEF IInv, TypeOK, DriverType, ResetLeave
  <2>4. WorkType'
    BY <1>10, CounterRanges DEF IInv, TypeOK, WorkType, ResetLeave
  <2>5. ResetInv' /\ RequestInv' /\ LifeInv' /\ WatchdogArmed'
    BY <1>10 DEF IInv, ResetInv, RequestInv, LifeInv, WatchdogArmed,
      ParkedOnlyWhenHung, PendingFlagMatchesWork, ResetLeave
  <2> QED BY <2>1, <2>2, <2>3, <2>4, <2>5 DEF IInv, TypeOK
<1>11. ASSUME ResetFinish PROVE IInv'
  <2>1. DongleType'
    BY <1>11 DEF IInv, TypeOK, DongleType, ResetFinish
  <2>2. CtrlType'
    BY <1>11 DEF IInv, TypeOK, CtrlType, ResetFinish
  <2>3. DriverType'
    BY <1>11 DEF IInv, TypeOK, DriverType, ResetFinish
  <2>4. WorkType'
    BY <1>11 DEF IInv, TypeOK, WorkType, Armed, ResetFinish
  <2>5. ResetInv' /\ RequestInv' /\ LifeInv' /\ WatchdogArmed'
    BY <1>11 DEF IInv, ResetInv, RequestInv, LifeInv, WatchdogArmed,
      ParkedOnlyWhenHung, PendingFlagMatchesWork, Armed, ResetFinish
  <2> QED BY <2>1, <2>2, <2>3, <2>4, <2>5 DEF IInv, TypeOK
<1> QED BY <1>1, <1>2, <1>3, <1>4, <1>5, <1>6, <1>7, <1>8, <1>9, <1>10,
    <1>11 DEF ResetSteps

(* The USB core's reset requests and unbinds enter or skip disconnect.      *)
LEMMA CoreStepsKeep ==
  ASSUME IInv, CoreSteps \/ Unbind
  PROVE  IInv'
<1>1. ASSUME CoreReset PROVE IInv'
  <2>1. DongleType'
    BY <1>1 DEF IInv, TypeOK, DongleType, CoreReset, DisconnectEntry
  <2>2. CtrlType'
    BY <1>1 DEF IInv, TypeOK, CtrlType, CoreReset, DisconnectEntry
  <2>3. DriverType'
    BY <1>1 DEF IInv, TypeOK, DriverType, CoreReset, DisconnectEntry
  <2>4. WorkType'
    BY <1>1 DEF IInv, TypeOK, WorkType, CoreReset, DisconnectEntry
  <2>5. ResetInv' /\ RequestInv' /\ LifeInv' /\ WatchdogArmed'
    BY <1>1 DEF IInv, ResetInv, RequestInv, LifeInv, WatchdogArmed,
      ParkedOnlyWhenHung, PendingFlagMatchesWork, CoreReset, DisconnectEntry
  <2> QED BY <2>1, <2>2, <2>3, <2>4, <2>5 DEF IInv, TypeOK
<1>2. ASSUME CoreResetDropped PROVE IInv'
  <2>1. DongleType'
    BY <1>2 DEF IInv, TypeOK, DongleType, CoreResetDropped
  <2>2. CtrlType'
    BY <1>2 DEF IInv, TypeOK, CtrlType, CoreResetDropped
  <2>3. DriverType'
    BY <1>2 DEF IInv, TypeOK, DriverType, CoreResetDropped
  <2>4. WorkType'
    BY <1>2 DEF IInv, TypeOK, WorkType, CoreResetDropped
  <2>5. ResetInv' /\ RequestInv' /\ LifeInv' /\ WatchdogArmed'
    BY <1>2 DEF IInv, ResetInv, RequestInv, LifeInv, WatchdogArmed,
      ParkedOnlyWhenHung, PendingFlagMatchesWork, CoreResetDropped
  <2> QED BY <2>1, <2>2, <2>3, <2>4, <2>5 DEF IInv, TypeOK
<1>3. ASSUME RebindAbandoned PROVE IInv'
  <2>1. DongleType'
    BY <1>3 DEF IInv, TypeOK, DongleType, RebindAbandoned
  <2>2. CtrlType'
    BY <1>3 DEF IInv, TypeOK, CtrlType, RebindAbandoned
  <2>3. DriverType'
    BY <1>3 DEF IInv, TypeOK, DriverType, RebindAbandoned
  <2>4. WorkType'
    BY <1>3 DEF IInv, TypeOK, WorkType, RebindAbandoned
  <2>5. ResetInv' /\ RequestInv' /\ LifeInv' /\ WatchdogArmed'
    BY <1>3 DEF IInv, ResetInv, RequestInv, LifeInv, WatchdogArmed,
      ParkedOnlyWhenHung, PendingFlagMatchesWork, RebindAbandoned
  <2> QED BY <2>1, <2>2, <2>3, <2>4, <2>5 DEF IInv, TypeOK
<1>4. ASSUME Unbind PROVE IInv'
  <2>1. DongleType'
    BY <1>4 DEF IInv, TypeOK, DongleType, Unbind, DisconnectEntry
  <2>2. CtrlType'
    BY <1>4 DEF IInv, TypeOK, CtrlType, Unbind, DisconnectEntry
  <2>3. DriverType'
    BY <1>4 DEF IInv, TypeOK, DriverType, Unbind, DisconnectEntry
  <2>4. WorkType'
    BY <1>4 DEF IInv, TypeOK, WorkType, Unbind, DisconnectEntry
  <2>5. ResetInv' /\ RequestInv' /\ LifeInv' /\ WatchdogArmed'
    BY <1>4 DEF IInv, ResetInv, RequestInv, LifeInv, WatchdogArmed,
      ParkedOnlyWhenHung, PendingFlagMatchesWork, Unbind, DisconnectEntry
  <2> QED BY <2>1, <2>2, <2>3, <2>4, <2>5 DEF IInv, TypeOK
<1> QED BY <1>1, <1>2, <1>3, <1>4 DEF CoreSteps

(* Disconnect retires the threads of the instance one by one.               *)
LEMMA DiscStepsKeep ==
  ASSUME IInv, DiscSteps
  PROVE  IInv'
<1>1. ASSUME DiscCancelInit PROVE IInv'
  <2>1. DongleType'
    BY <1>1 DEF IInv, TypeOK, DongleType, DiscCancelInit
  <2>2. CtrlType'
    BY <1>1 DEF IInv, TypeOK, CtrlType, DiscCancelInit
  <2>3. DriverType'
    BY <1>1 DEF IInv, TypeOK, DriverType, DiscCancelInit
  <2>4. WorkType'
    BY <1>1 DEF IInv, TypeOK, WorkType, DiscCancelInit
  <2>5. ResetInv' /\ RequestInv' /\ LifeInv' /\ WatchdogArmed'
    BY <1>1 DEF IInv, ResetInv, RequestInv, LifeInv, WatchdogArmed,
      ParkedOnlyWhenHung, PendingFlagMatchesWork, DiscCancelInit
  <2> QED BY <2>1, <2>2, <2>3, <2>4, <2>5 DEF IInv, TypeOK
<1>2. ASSUME DiscCancelReset PROVE IInv'
  <2>1. DongleType'
    BY <1>2 DEF IInv, TypeOK, DongleType, DiscCancelReset
  <2>2. CtrlType'
    BY <1>2 DEF IInv, TypeOK, CtrlType, DiscCancelReset
  <2>3. DriverType'
    BY <1>2 DEF IInv, TypeOK, DriverType, DiscCancelReset
  <2>4. WorkType'
    BY <1>2 DEF IInv, TypeOK, WorkType, DiscCancelReset
  <2>5. ResetInv' /\ RequestInv' /\ LifeInv' /\ WatchdogArmed'
    BY <1>2 DEF IInv, ResetInv, RequestInv, LifeInv, WatchdogArmed,
      ParkedOnlyWhenHung, PendingFlagMatchesWork, DiscCancelReset
  <2> QED BY <2>1, <2>2, <2>3, <2>4, <2>5 DEF IInv, TypeOK
<1>3. ASSUME DiscCancelUsb PROVE IInv'
  <2>1. DongleType'
    BY <1>3 DEF IInv, TypeOK, DongleType, DiscCancelUsb
  <2>2. CtrlType'
    BY <1>3 DEF IInv, TypeOK, CtrlType, DiscCancelUsb
  <2>3. DriverType'
    BY <1>3 DEF IInv, TypeOK, DriverType, DiscCancelUsb
  <2>4. WorkType'
    BY <1>3 DEF IInv, TypeOK, WorkType, DiscCancelUsb
  <2>5. ResetInv' /\ RequestInv' /\ LifeInv' /\ WatchdogArmed'
    BY <1>3 DEF IInv, ResetInv, RequestInv, LifeInv, WatchdogArmed,
      ParkedOnlyWhenHung, PendingFlagMatchesWork, DiscCancelUsb
  <2> QED BY <2>1, <2>2, <2>3, <2>4, <2>5 DEF IInv, TypeOK
<1>4. ASSUME DiscClearPending PROVE IInv'
  <2>1. DongleType'
    BY <1>4 DEF IInv, TypeOK, DongleType, DiscClearPending
  <2>2. CtrlType'
    BY <1>4 DEF IInv, TypeOK, CtrlType, DiscClearPending
  <2>3. DriverType'
    BY <1>4 DEF IInv, TypeOK, DriverType, Leaks, DiscClearPending
  <2>4. WorkType'
    BY <1>4 DEF IInv, TypeOK, WorkType, DiscClearPending
  <2>5. ResetInv' /\ RequestInv' /\ LifeInv' /\ WatchdogArmed'
    BY <1>4 DEF IInv, ResetInv, RequestInv, LifeInv, WatchdogArmed,
      ParkedOnlyWhenHung, PendingFlagMatchesWork, DiscClearPending
  <2> QED BY <2>1, <2>2, <2>3, <2>4, <2>5 DEF IInv, TypeOK
<1>5. ASSUME DiscStopInterface PROVE IInv'
  <2>1. DongleType'
    BY <1>5 DEF IInv, TypeOK, DongleType, DiscStopInterface
  <2>2. CtrlType'
    BY <1>5 DEF IInv, TypeOK, CtrlType, DiscStopInterface
  <2>3. DriverType'
    BY <1>5 DEF IInv, TypeOK, DriverType, DiscStopInterface
  <2>4. WorkType'
    BY <1>5 DEF IInv, TypeOK, WorkType, DiscStopInterface
  <2>5. ResetInv' /\ RequestInv' /\ LifeInv' /\ WatchdogArmed'
    BY <1>5 DEF IInv, ResetInv, RequestInv, LifeInv, WatchdogArmed,
      ParkedOnlyWhenHung, PendingFlagMatchesWork, DiscStopInterface
  <2> QED BY <2>1, <2>2, <2>3, <2>4, <2>5 DEF IInv, TypeOK
<1>6. ASSUME DiscUnregister PROVE IInv'
  <2>1. DongleType'
    BY <1>6 DEF IInv, TypeOK, DongleType, DiscUnregister
  <2>2. CtrlType'
    BY <1>6 DEF IInv, TypeOK, CtrlType, DiscUnregister
  <2>3. DriverType'
    BY <1>6 DEF IInv, TypeOK, DriverType, DiscUnregister
  <2>4. WorkType'
    BY <1>6 DEF IInv, TypeOK, WorkType, DiscUnregister
  <2>5. ResetInv' /\ RequestInv' /\ LifeInv' /\ WatchdogArmed'
    BY <1>6 DEF IInv, ResetInv, RequestInv, LifeInv, WatchdogArmed,
      ParkedOnlyWhenHung, PendingFlagMatchesWork, DiscUnregister
  <2> QED BY <2>1, <2>2, <2>3, <2>4, <2>5 DEF IInv, TypeOK
<1>7. ASSUME DiscCleanup PROVE IInv'
  <2>1. DongleType'
    BY <1>7 DEF IInv, TypeOK, DongleType, DiscCleanup
  <2>2. CtrlType'
    BY <1>7, VendorRequestTypes DEF IInv, TypeOK, CtrlType, Threads,
      DiscCleanup
  <2>3. DriverType'
    BY <1>7 DEF IInv, TypeOK, DriverType, DiscCleanup
  <2>4. WorkType'
    BY <1>7 DEF IInv, TypeOK, WorkType, DiscCleanup
  <2>5. ResetInv' /\ RequestInv' /\ LifeInv' /\ WatchdogArmed'
    BY <1>7 DEF IInv, ResetInv, RequestInv, LifeInv, WatchdogArmed,
      ParkedOnlyWhenHung, PendingFlagMatchesWork, VendorRequest, DiscCleanup
  <2> QED BY <2>1, <2>2, <2>3, <2>4, <2>5 DEF IInv, TypeOK
<1>8. ASSUME DiscRemoved PROVE IInv'
  <2>1. DongleType'
    BY <1>8 DEF IInv, TypeOK, DongleType, DiscRemoved
  <2>2. CtrlType'
    BY <1>8 DEF IInv, TypeOK, CtrlType, DiscRemoved
  <2>3. DriverType'
    BY <1>8 DEF IInv, TypeOK, DriverType, DiscRemoved
  <2>4. WorkType'
    BY <1>8 DEF IInv, TypeOK, WorkType, DiscRemoved
  <2>5. ResetInv' /\ RequestInv' /\ LifeInv' /\ WatchdogArmed'
    BY <1>8 DEF IInv, ResetInv, RequestInv, LifeInv, WatchdogArmed,
      ParkedOnlyWhenHung, PendingFlagMatchesWork, DiscRemoved
  <2> QED BY <2>1, <2>2, <2>3, <2>4, <2>5 DEF IInv, TypeOK
<1>9. ASSUME DiscFree PROVE IInv'
  <2>1. DongleType'
    BY <1>9 DEF IInv, TypeOK, DongleType, DiscFree
  <2>2. CtrlType'
    BY <1>9 DEF IInv, TypeOK, CtrlType, DiscFree
  <2>3. DriverType'
    BY <1>9 DEF IInv, TypeOK, DriverType, Leaks, DiscFree
  <2>4. WorkType'
    BY <1>9 DEF IInv, TypeOK, WorkType, DiscFree
  <2>5. ResetInv' /\ RequestInv' /\ LifeInv' /\ WatchdogArmed'
    BY <1>9 DEF IInv, ResetInv, RequestInv, LifeInv, WatchdogArmed,
      ParkedOnlyWhenHung, PendingFlagMatchesWork, DiscFree
  <2> QED BY <2>1, <2>2, <2>3, <2>4, <2>5 DEF IInv, TypeOK
<1> QED BY <1>1, <1>2, <1>3, <1>4, <1>5, <1>6, <1>7, <1>8, <1>9 DEF
    DiscSteps

(* Every step of the driver, the dongle and the USB core keeps IInv. *)
LEMMA NextKeepsIInv ==
  ASSUME IInv, [Next]_vars
  PROVE  IInv'
<1>1. CASE UNCHANGED vars
  BY <1>1 DEF IInv, TypeOK, DongleType, CtrlType, DriverType, WorkType, vars,
     ResetInv, RequestInv, LifeInv, WatchdogArmed, ParkedOnlyWhenHung,
     PendingFlagMatchesWork
<1>2. CASE Next
  BY <1>2, DongleKeep, CtrlWorksKeep, ProbeStepsKeep, InitStepsKeep,
     UserStepsKeep, CallStepsKeep, MacStepsKeep, ResetStepsKeep, CoreStepsKeep, DiscStepsKeep
     DEF Next
<1> QED BY <1>1, <1>2

(* A freshly allocated instance satisfies IInv. *)
LEMMA InitIInv == Init => IInv
<1> SUFFICES ASSUME Init PROVE IInv
  OBVIOUS
<1>1. TypeOK
  <2>1. DongleType /\ CtrlType
    <3>1. 0 \in 0..MaxProbes
      BY RecoveryConstants
    <3>2. DongleType
      BY <3>1 DEF Init, DongleType
    <3>3. CtrlType
      BY DEF Init, CtrlType
    <3> QED BY <3>2, <3>3
  <2>2. DriverType
    BY DEF Init, DriverType, Leaks
  <2>3. WorkType
    BY CounterRanges DEF Init, WorkType
  <2> QED BY <2>1, <2>2, <2>3 DEF TypeOK
<1>2. ResetInv /\ RequestInv /\ LifeInv /\ WatchdogArmed
  BY DEF Init, ResetInv, RequestInv, LifeInv, WatchdogArmed,
     ParkedOnlyWhenHung, PendingFlagMatchesWork
<1> QED BY <1>1, <1>2 DEF IInv

(* The inductive invariant holds in every reachable state. *)
THEOREM IInvAlways == Spec => []IInv
<1> QED BY InitIInv, NextKeepsIInv, PTL DEF Spec

(* Every variable of the recovery keeps its range, the counters of the      *)
(* ladder and of the reset loop included.                                   *)
THEOREM TypeCorrect == Spec => []TypeOK
<1>1. IInv => TypeOK BY DEF IInv
<1> QED BY IInvAlways, <1>1, PTL

(* A bound driver with a hung control path always has its USB reset under   *)
(* way: the hand-over ctrl_timeout -> usb_reset_work -> USB core never      *)
(* drops the request.                                                       *)
THEOREM HungBusAlwaysBeingReset == Spec => []HungBusIsBeingReset
<1>1. IInv => HungBusIsBeingReset
  BY DEF IInv, RequestInv, HungBusIsBeingReset
<1> QED BY IInvAlways, <1>1, PTL

(* reset_work leaves the driver parked (hw_full_reset, queues stopped) only *)
(* for a bus that is hung.                                                  *)
THEOREM ParkedAlwaysHung == Spec => []ParkedOnlyWhenHung
<1>1. IInv => ParkedOnlyWhenHung BY DEF IInv, ResetInv
<1> QED BY IInvAlways, <1>1, PTL

(* The mac_work watchdog of a running interface on a live bus is armed      *)
(* whenever nobody is stopping or resetting it, nor switching its channel   *)
(* or asleep.                                                               *)
THEOREM WatchdogAlwaysArmed == Spec => []WatchdogArmed
<1>1. IInv => WatchdogArmed BY DEF IInv
<1> QED BY IInvAlways, <1>1, PTL

(* The usb_reset pending flag is set exactly while the work is outstanding. *)
THEOREM PendingFlagAlwaysMatches == Spec => []PendingFlagMatchesWork
<1>1. IInv => PendingFlagMatchesWork BY DEF IInv, RequestInv
<1> QED BY IInvAlways, <1>1, PTL

(* One step as BusLife sees it: an absent interface only starts a fresh,    *)
(* healthy instance, and a hung bus stays hung until the instance is gone.  *)
BusLifeStep ==
  /\ phase = "absent" => phase' = "absent" \/ (phase' = "probing" /\ ~busHung')
  /\ phase # "absent" /\ busHung => phase' = "absent" \/ busHung'

(* Every step of the driver is such a step. *)
LEMMA NextIsBusLifeStep ==
  ASSUME IInv, Next
  PROVE  BusLifeStep
<1>1. CASE Dongle
  BY <1>1 DEF Dongle, BusLifeStep
<1>2. CASE CtrlTimeout
  BY <1>2 DEF CtrlTimeout, BusLifeStep
<1>3. CASE UsbWorkRequest
  BY <1>3 DEF UsbWorkRequest, BusLifeStep
<1>4. CASE UsbWorkEnd
  BY <1>4 DEF UsbWorkEnd, BusLifeStep
<1>5. CASE ProbeSteps
  <2>1. CASE ProbeStart
    BY <2>1 DEF ProbeStart, BusLifeStep
  <2>2. CASE ProbeAccess
    BY <2>2 DEF ProbeAccess, VendorRequest, BusLifeStep
  <2>3. CASE ProbeOk
    BY <2>3 DEF ProbeOk, BusLifeStep
  <2>4. CASE ProbeFail
    BY <2>4 DEF ProbeFail, BusLifeStep
  <2> QED BY <1>5, <2>1, <2>2, <2>3, <2>4 DEF ProbeSteps
<1>6. CASE InitSteps
  <2>1. CASE InitStart
    BY <2>1 DEF InitStart, BusLifeStep
  <2>2. CASE InitAccess
    BY <2>2 DEF InitAccess, VendorRequest, BusLifeStep
  <2>3. CASE InitRegister
    BY <2>3 DEF InitRegister, BusLifeStep
  <2>4. CASE InitEnd
    BY <2>4 DEF InitEnd, BusLifeStep
  <2> QED BY <1>6, <2>1, <2>2, <2>3, <2>4 DEF InitSteps
<1>7. CASE UserAccess
  BY <1>7 DEF UserAccess, VendorRequest, BusLifeStep
<1>8. CASE McuTimeout
  BY <1>8 DEF McuTimeout, BusLifeStep
<1>9. CASE IfStart
  BY <1>9 DEF IfStart, BusLifeStep
<1>10. CASE StopBegin
  BY <1>10 DEF StopBegin, BusLifeStep
<1>11. CASE StopSteps
  <2>1. CASE StopCancelMac
    BY <2>1 DEF StopCancelMac, BusLifeStep
  <2>2. CASE StopCancelReset
    BY <2>2 DEF StopCancelReset, BusLifeStep
  <2>3. CASE StopMcu
    BY <2>3 DEF StopMcu, BusLifeStep
  <2>4. CASE StopClear
    BY <2>4 DEF StopClear, BusLifeStep
  <2> QED BY <1>11, <2>1, <2>2, <2>3, <2>4 DEF StopSteps
<1>17. CASE SwitchBegin \/ SleepBegin \/ SwitchAccess \/ CallSteps
  <2>1. CASE SwitchBegin \/ SleepBegin
    BY <2>1 DEF SwitchBegin, SleepBegin, CancelsMac, BusLifeStep
  <2>2. CASE SwitchAccess
    BY <2>2 DEF SwitchAccess, VendorRequest, BusLifeStep
  <2>3. CASE SwitchMutex \/ SwitchDone
    BY <2>3 DEF SwitchMutex, SwitchDone, BusLifeStep
  <2>4. CASE Sleep \/ WakeUp
    BY <2>4 DEF Sleep, WakeUp, BusLifeStep
  <2> QED BY <1>17, <2>1, <2>2, <2>3, <2>4 DEF CallSteps
<1>12. CASE MacSteps
  <2>1. CASE MacBegin
    BY <2>1 DEF MacBegin, BusLifeStep
  <2>2. CASE MacAccess
    BY <2>2 DEF MacAccess, VendorRequest, BusLifeStep
  <2>3. CASE MacRelease
    BY <2>3 DEF MacRelease, BusLifeStep
  <2>4. CASE MacEnd
    BY <2>4 DEF MacEnd, BusLifeStep
  <2> QED BY <1>12, <2>1, <2>2, <2>3, <2>4 DEF MacSteps
<1>13. CASE ResetSteps
  <2>1. CASE ResetStart
    BY <2>1 DEF ResetStart, BusLifeStep
  <2>2. CASE ResetQuiesce
    BY <2>2 DEF ResetQuiesce, BusLifeStep
  <2>3. CASE ResetBail
    BY <2>3 DEF ResetBail, BusLifeStep
  <2>4. CASE ResetTry
    BY <2>4 DEF ResetTry, BusLifeStep
  <2>5. CASE ResetCheck
    BY <2>5 DEF ResetCheck, BusLifeStep
  <2>6. CASE ResetCheckFailed
    BY <2>6 DEF ResetCheckFailed, BusLifeStep
  <2>7. CASE ResetAccess
    BY <2>7 DEF ResetAccess, VendorRequest, BusLifeStep
  <2>8. CASE ResetFailed
    BY <2>8 DEF ResetFailed, BusLifeStep
  <2>9. CASE ResetDone
    BY <2>9 DEF ResetDone, BusLifeStep
  <2>10. CASE ResetLeave
    BY <2>10 DEF ResetLeave, BusLifeStep
  <2>11. CASE ResetFinish
    BY <2>11 DEF ResetFinish, BusLifeStep
  <2> QED BY <1>13, <2>1, <2>2, <2>3, <2>4, <2>5, <2>6, <2>7, <2>8, <2>9,
       <2>10, <2>11 DEF ResetSteps
<1>14. CASE CoreSteps
  <2>1. CASE CoreReset
    BY <2>1 DEF CoreReset, DisconnectEntry, BusLifeStep
  <2>2. CASE CoreResetDropped
    BY <2>2 DEF CoreResetDropped, BusLifeStep
  <2>3. CASE RebindAbandoned
    BY <2>3 DEF RebindAbandoned, BusLifeStep
  <2> QED BY <1>14, <2>1, <2>2, <2>3 DEF CoreSteps
<1>15. CASE Unbind
  BY <1>15 DEF Unbind, DisconnectEntry, BusLifeStep
<1>16. CASE DiscSteps
  <2>1. CASE DiscCancelInit
    BY <2>1 DEF DiscCancelInit, BusLifeStep
  <2>2. CASE DiscCancelReset
    BY <2>2 DEF DiscCancelReset, BusLifeStep
  <2>3. CASE DiscCancelUsb
    BY <2>3 DEF DiscCancelUsb, BusLifeStep
  <2>4. CASE DiscClearPending
    BY <2>4 DEF DiscClearPending, BusLifeStep
  <2>5. CASE DiscStopInterface
    BY <2>5 DEF DiscStopInterface, BusLifeStep
  <2>6. CASE DiscUnregister
    BY <2>6 DEF DiscUnregister, BusLifeStep
  <2>7. CASE DiscCleanup
    BY <2>7 DEF DiscCleanup, VendorRequest, BusLifeStep
  <2>8. CASE DiscRemoved
    BY <2>8 DEF DiscRemoved, BusLifeStep
  <2>9. CASE DiscFree
    BY <2>9 DEF DiscFree, BusLifeStep
  <2> QED BY <1>16, <2>1, <2>2, <2>3, <2>4, <2>5, <2>6, <2>7, <2>8, <2>9 DEF
       DiscSteps
<1> QED BY <1>1, <1>2, <1>3, <1>4, <1>5, <1>6, <1>7, <1>8, <1>9, <1>10,
     <1>11, <1>12, <1>13, <1>14, <1>15, <1>16, <1>17 DEF Next

(* The recovery implements the life cycle of BusLife: no step revives a     *)
(* hung bus within one instance, and each life starts healthy.              *)
THEOREM RecoveryImplementsBusLife == Spec => Life!Spec
<1>1. Init => Life!Init
  BY DEF Init, Life!Init, BusStatus
<1>2. ASSUME IInv, [Next]_vars
      PROVE  [Life!Next]_BusStatus
  <2>1. CASE UNCHANGED vars
    BY <2>1 DEF vars, BusStatus
  <2>2. CASE Next
    <3>1. BusLifeStep
      BY <1>2, <2>2, NextIsBusLifeStep
    <3>2. CASE phase = "absent"
      BY <3>1, <3>2 DEF BusLifeStep, BusStatus, Life!Next, Life!Probe
    <3>3. CASE phase # "absent" /\ busHung
      BY <3>1, <3>3 DEF BusLifeStep, BusStatus, Life!Next, Life!Teardown
    <3>4. CASE phase # "absent" /\ ~busHung
      BY <3>4 DEF BusStatus, Life!Next, Life!Teardown, Life!Hang
    <3> QED BY <3>2, <3>3, <3>4
  <2> QED BY <1>2, <2>1, <2>2
<1> QED BY IInvAlways, <1>1, <1>2, PTL DEF Spec, Life!Spec
=============================================================================
