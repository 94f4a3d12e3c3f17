-------------------------- MODULE WorkerRocProofs --------------------------
(***************************************************************************)
(* Proofs about the two components built from one thread of work that      *)
(* others start, stop and wait for.  Mt76Worker, for every set of contexts *)
(* that wake the worker: no request is lost to a worker that goes to sleep *)
(* (whoever parks it), and until two contexts that disable it overlap, a   *)
(* disabled worker does not run.  Roc, for any number of requests:         *)
(* a remain-on-channel that was granted always has something left that gives *)
(* the channel back.                                                       *)
(***************************************************************************)
EXTENDS Mt76Worker, Roc, TLAPS

-----------------------------------------------------------------------------
(* Worker threads.                                                          *)

PcValues == {"idle", "test", "wake", "parkWake", "parkWait",
             "zero", "disabled", "unpark", "schedule"}

(* What the bits say of the thread, without the exact state of its task.    *)
BitsInv ==
  /\ pc \in [Actors -> PcValues]
  /\ scheduled \in BOOLEAN /\ running \in BOOLEAN
  /\ running => wpc \in {"run", "clear"}

(* Nobody runs between the steps of these two groups: a step of one actor,  *)
(* and the rest. The disjuncts of Next, flat.                               *)
LEMMA NextSplit ==
  ASSUME Next
  PROVE  \/ WhileTest \/ SetInterruptible \/ ParkTest \/ TestAndClear \/ Sleep
         \/ Mark \/ RunFn \/ ClearRunning \/ ParkMe \/ ParkedWakes
         \/ TeardownStop \/ TeardownUnpark \/ TeardownWake \/ TeardownDone
         \/ Setup
         \/ \E a \in Actors :
              \/ ScheduleSet(a) \/ ScheduleTest(a) \/ ScheduleWake(a)
              \/ DisablePark(a) \/ DisableWake(a) \/ DisableWait(a)
              \/ DisableZero(a) \/ EnableClear(a) \/ EnableWake(a)
BY DEF Next, Worker, Teardown, Act, Actors

(* The bits are typed and RUNNING is set only around the function, also when *)
(* several contexts disable the worker at a time.                            *)
LEMMA BitsInductive ==
  ASSUME BitsInv, [Next]_vars
  PROVE  BitsInv'
<1>1. CASE Next
  <2>1. CASE WhileTest
    BY <2>1 DEF BitsInv, WhileTest, At, To, bits, kthread
  <2>2. CASE SetInterruptible
    BY <2>2 DEF BitsInv, SetInterruptible, At, To, bits, kthread
  <2>3. CASE ParkTest
    BY <2>3 DEF BitsInv, ParkTest, At, To, bits, kthread
  <2>4. CASE TestAndClear
    BY <2>4 DEF BitsInv, TestAndClear, At, To, bits, kthread
  <2>5. CASE Sleep
    BY <2>5 DEF BitsInv, Sleep, At, To, bits, kthread
  <2>6. CASE Mark
    BY <2>6 DEF BitsInv, Mark, At, To, bits, kthread
  <2>7. CASE RunFn
    BY <2>7 DEF BitsInv, RunFn, At, To, bits, kthread
  <2>8. CASE ClearRunning
    BY <2>8 DEF BitsInv, ClearRunning, At, To, bits, kthread
  <2>9. CASE ParkMe
    BY <2>9 DEF BitsInv, ParkMe, At, To, bits, kthread
  <2>10. CASE ParkedWakes
    BY <2>10 DEF BitsInv, ParkedWakes, At, To, bits, kthread
  <2>11. CASE TeardownStop
    BY <2>11 DEF BitsInv, TeardownStop, bits, kthread
  <2>12. CASE TeardownUnpark
    BY <2>12 DEF BitsInv, TeardownUnpark, bits, kthread
  <2>13. CASE TeardownWake
    BY <2>13 DEF BitsInv, TeardownWake, bits, kthread
  <2>14. CASE TeardownDone
    BY <2>14 DEF BitsInv, TeardownDone, bits, kthread
  <2>15. CASE Setup
    BY <2>15 DEF BitsInv, Setup, bits, kthread
  <2>16. ASSUME NEW a \in Actors
        PROVE  (\/ ScheduleSet(a) \/ ScheduleTest(a) \/ ScheduleWake(a)
                \/ DisablePark(a) \/ DisableWake(a) \/ DisableWait(a)
                \/ DisableZero(a) \/ EnableClear(a) \/ EnableWake(a))
               => BitsInv'
    <3>1. CASE ScheduleSet(a)
      BY <3>1 DEF BitsInv, PcValues, ScheduleSet, bits, kthread
    <3>2. CASE ScheduleTest(a)
      BY <3>2 DEF BitsInv, PcValues, ScheduleTest, Go, bits, kthread
    <3>3. CASE ScheduleWake(a)
      BY <3>3 DEF BitsInv, PcValues, ScheduleWake, Go, bits, kthread
    <3>4. CASE DisablePark(a)
      BY <3>4 DEF BitsInv, PcValues, DisablePark, Go, bits, kthread
    <3>5. CASE DisableWake(a)
      BY <3>5 DEF BitsInv, PcValues, DisableWake, Go, bits, kthread
    <3>6. CASE DisableWait(a)
      BY <3>6 DEF BitsInv, PcValues, DisableWait, Go, bits, kthread
    <3>7. CASE DisableZero(a)
      BY <3>7 DEF BitsInv, PcValues, DisableZero, Go, bits, kthread
    <3>8. CASE EnableClear(a)
      BY <3>8 DEF BitsInv, PcValues, EnableClear, Go, bits, kthread
    <3>9. CASE EnableWake(a)
      BY <3>9 DEF BitsInv, PcValues, EnableWake, Go, bits, kthread
    <3> QED BY <3>1, <3>2, <3>3, <3>4, <3>5, <3>6, <3>7, <3>8, <3>9
  <2> QED BY <1>1, <2>1, <2>2, <2>3, <2>4, <2>5, <2>6, <2>7, <2>8, <2>9, <2>10, <2>11, <2>12, <2>13, <2>14, <2>15, <2>16, NextSplit
<1>2. CASE UNCHANGED vars
  BY <1>2 DEF BitsInv, vars
<1> QED BY <1>1, <1>2

-----------------------------------------------------------------------------
(* A set bit and a sleeping worker: whoever set it is about to wake it.     *)

LEMMA WakeupInductive ==
  ASSUME BitsInv, NoLostWakeup, [Next]_vars
  PROVE  NoLostWakeup'
<1>1. CASE Next
  <2>1. CASE \/ WhileTest \/ SetInterruptible \/ ParkTest \/ TestAndClear
             \/ Sleep \/ Mark \/ RunFn \/ ClearRunning \/ ParkMe \/ ParkedWakes
    BY <2>1 DEF NoLostWakeup, WhileTest, SetInterruptible, ParkTest,
       TestAndClear, Sleep, Mark, RunFn, ClearRunning, ParkMe, ParkedWakes,
       At, To, bits, kthread
  <2>2. CASE \/ TeardownStop \/ TeardownUnpark \/ TeardownWake
             \/ TeardownDone \/ Setup
    BY <2>2 DEF NoLostWakeup, TeardownStop, TeardownUnpark, TeardownWake,
       TeardownDone, Setup, WakeIf, bits, kthread
  <2>3. ASSUME NEW a \in Actors,
               \/ ScheduleSet(a) \/ ScheduleTest(a) \/ ScheduleWake(a)
               \/ DisablePark(a) \/ DisableWake(a) \/ DisableWait(a)
               \/ DisableZero(a) \/ EnableClear(a) \/ EnableWake(a)
        PROVE  NoLostWakeup'
    <3> SUFFICES ASSUME scheduled', wpc' = "sleep", task' = "interruptible"
                 PROVE  \E b \in Actors :
                          pc'[b] \in {"test", "wake", "parkWake"}
      BY DEF NoLostWakeup
    <3>1. CASE ScheduleSet(a)
      <4>1. CASE scheduled
        BY <3>1, <4>1 DEF NoLostWakeup, BitsInv, ScheduleSet, kthread
      <4>2. CASE ~scheduled
        BY <3>1, <4>2 DEF BitsInv, ScheduleSet, kthread
      <4> QED BY <4>1, <4>2
    <3>2. CASE ScheduleTest(a)
      BY <3>2 DEF NoLostWakeup, BitsInv, ScheduleTest, Go, bits, kthread
    <3>3. CASE ScheduleWake(a) \/ DisableWake(a)
      BY <3>3 DEF ScheduleWake, DisableWake, WakeIf
    <3>4. CASE DisableZero(a)
      BY <3>4 DEF DisableZero
    <3>5. CASE DisablePark(a) \/ DisableWait(a) \/ EnableClear(a)
      BY <3>5 DEF NoLostWakeup, BitsInv, DisablePark, DisableWait,
         EnableClear, Go, bits, kthread
    <3>6. CASE EnableWake(a)
      BY <3>6 DEF NoLostWakeup, BitsInv, EnableWake, WakeIf, Go, bits, kthread
    <3> QED BY <2>3, <3>1, <3>2, <3>3, <3>4, <3>5, <3>6
  <2> QED BY <1>1, <2>1, <2>2, <2>3, NextSplit
<1>2. CASE UNCHANGED vars
  BY <1>2 DEF NoLostWakeup, vars
<1> QED BY <1>1, <1>2

(* A request for a run is never left with a sleeping worker, for any number *)
(* of contexts that schedule, disable and tear down the worker.             *)
THEOREM RequestsWake == Spec => []NoLostWakeup
<1>1. Init => BitsInv /\ NoLostWakeup
  BY DEF Init, BitsInv, NoLostWakeup, PcValues
<1>2. BitsInv /\ NoLostWakeup /\ [Next]_vars => (BitsInv /\ NoLostWakeup)'
  BY BitsInductive, WakeupInductive
<1> QED BY <1>1, <1>2, PTL DEF Spec

-----------------------------------------------------------------------------
(* As long as no two pairs of disable and enable have overlapped, at most   *)
(* one context is between its disable and the end of its enable.            *)

Alone == \A d, e \in Disablers : pc[d] # "idle" /\ pc[e] # "idle" => d = e

Asks(d) == pc[d] \in {"parkWake", "parkWait"}
Holds(d) == pc[d] \in {"zero", "disabled"}

(* The handshake of kthread_park and kthread_unpark: who holds the worker   *)
(* finds it parked, and the completion is there only for who waits.         *)
ParkInv ==
  /\ BitsInv
  /\ \A s \in Schedulers : pc[s] \in {"idle", "test", "wake"}
  /\ shouldPark <=> \E d \in Disablers : Asks(d) \/ Holds(d)
  /\ parked => task = "parked" /\ \E d \in Disablers : Asks(d)
  /\ \A d \in Disablers :
       /\ Asks(d) /\ wpc = "parked" /\ task = "parked" => parked
       /\ Holds(d) => wpc = "parked" /\ task = "parked" /\ ~parked
       /\ pc[d] = "unpark" => ~parked
  /\ shouldPark \in BOOLEAN /\ parked \in BOOLEAN
  /\ task = "parked" =>
       /\ wpc = "parked"
       /\ \E d \in Disablers : Asks(d) \/ Holds(d) \/ pc[d] = "unpark"
  /\ tpc # "none" => \A d \in Disablers : ~Asks(d) /\ ~Holds(d)

LEMMA AloneInductive ==
  ASSUME BitsInv, Alone, ~overlapped', [Next]_vars
  PROVE  Alone'
<1>1. CASE \E a \in Actors : DisablePark(a)
  <2>1. PICK a \in Actors : DisablePark(a)
    BY <1>1
  <2>2. /\ \A d \in Disablers \ {a} : pc[d] = "idle"
        /\ \A d \in Actors \ {a} : pc'[d] = pc[d]
    BY <2>1 DEF DisablePark, Go, BitsInv
  <2> QED BY <2>2 DEF Alone, Actors
<1>2. CASE ~\E a \in Actors : DisablePark(a)
  <2>1. \A d \in Disablers : pc'[d] # "idle" => pc[d] # "idle"
    <3>1. CASE Next
      <4>1. CASE \E a \in Actors :
                   \/ ScheduleSet(a) \/ ScheduleTest(a) \/ ScheduleWake(a)
                   \/ DisableWake(a) \/ DisableWait(a) \/ DisableZero(a)
                   \/ EnableClear(a) \/ EnableWake(a)
        BY <4>1, WorkerActors DEF BitsInv, Actors, ScheduleSet, ScheduleTest,
           ScheduleWake, DisableWake, DisableWait, DisableZero, EnableClear,
           EnableWake, Go
      <4>2. CASE pc' = pc
        BY <4>2
      <4>3. \/ pc' = pc
            \/ \E a \in Actors :
                   \/ ScheduleSet(a) \/ ScheduleTest(a) \/ ScheduleWake(a)
                   \/ DisableWake(a) \/ DisableWait(a) \/ DisableZero(a)
                   \/ EnableClear(a) \/ EnableWake(a)
        BY <1>2, <3>1, NextSplit DEF WhileTest, SetInterruptible, ParkTest,
           TestAndClear, Sleep, Mark, RunFn, ClearRunning, ParkMe,
           ParkedWakes, TeardownStop, TeardownUnpark, TeardownWake,
           TeardownDone, Setup
      <4> QED BY <4>1, <4>2, <4>3
    <3>2. CASE UNCHANGED vars
      BY <3>2 DEF vars
    <3> QED BY <3>1, <3>2
  <2> QED BY <2>1 DEF Alone
<1> QED BY <1>1, <1>2

(* Every step by which nobody overlaps with another keeps the handshake.     *)
LEMMA ParkInductive ==
  ASSUME Alone, ParkInv, ~overlapped', [Next]_vars
  PROVE  ParkInv'
<1>0. BitsInv'
  BY BitsInductive DEF ParkInv
<1>1. CASE Next
  <2>1. CASE WhileTest
    BY <1>0, <2>1 DEF ParkInv, Asks, Holds, WhileTest, At, To, bits, kthread
  <2>2. CASE SetInterruptible
    BY <1>0, <2>2 DEF ParkInv, Asks, Holds, SetInterruptible, At, To, bits, kthread
  <2>3. CASE ParkTest
    BY <1>0, <2>3 DEF ParkInv, Asks, Holds, ParkTest, At, To, bits, kthread
  <2>4. CASE TestAndClear
    BY <1>0, <2>4 DEF ParkInv, Asks, Holds, TestAndClear, At, To, bits, kthread
  <2>5. CASE Sleep
    BY <1>0, <2>5 DEF ParkInv, Asks, Holds, Sleep, At, To, bits, kthread
  <2>6. CASE Mark
    BY <1>0, <2>6 DEF ParkInv, Asks, Holds, Mark, At, To, bits, kthread
  <2>7. CASE RunFn
    BY <1>0, <2>7 DEF ParkInv, Asks, Holds, RunFn, At, To, bits, kthread
  <2>8. CASE ClearRunning
    BY <1>0, <2>8 DEF ParkInv, Asks, Holds, ClearRunning, At, To, bits, kthread
  <2>9. CASE ParkMe
    BY <1>0, <2>9 DEF Alone, ParkInv, Asks, Holds, ParkMe, At, To, bits, kthread
  <2>10. CASE ParkedWakes
    BY <1>0, <2>10 DEF ParkInv, Asks, Holds, ParkedWakes, At, To, bits, kthread
  <2>11. CASE TeardownStop
    BY <1>0, <2>11 DEF ParkInv, Asks, Holds, TeardownStop, bits, kthread
  <2>12. CASE TeardownUnpark
    BY <1>0, <2>12 DEF ParkInv, Asks, Holds, TeardownUnpark, WakeIf, bits, kthread
  <2>13. CASE TeardownWake
    BY <1>0, <2>13 DEF ParkInv, Asks, Holds, TeardownWake, WakeIf, bits, kthread
  <2>14. CASE TeardownDone
    BY <1>0, <2>14 DEF ParkInv, Asks, Holds, TeardownDone, bits, kthread
  <2>15. CASE Setup
    BY <1>0, <2>15 DEF ParkInv, Asks, Holds, Setup, bits, kthread
  <2>16. ASSUME NEW a \in Actors
        PROVE  (\/ ScheduleSet(a) \/ ScheduleTest(a) \/ ScheduleWake(a)
                \/ DisablePark(a) \/ DisableWake(a) \/ DisableWait(a)
                \/ DisableZero(a) \/ EnableClear(a) \/ EnableWake(a))
               => ParkInv'
    <3>1. CASE ScheduleSet(a)
      BY <1>0, <3>1, WorkerActors
         DEF Alone, ParkInv, BitsInv, PcValues, Actors, Asks, Holds,
             ScheduleSet, bits, kthread
    <3>2. CASE ScheduleTest(a)
      BY <1>0, <3>2, WorkerActors
         DEF Alone, ParkInv, BitsInv, PcValues, Actors, Asks, Holds,
             ScheduleTest, Go, bits, kthread
    <3>3. CASE ScheduleWake(a)
      BY <1>0, <3>3, WorkerActors
         DEF Alone, ParkInv, BitsInv, PcValues, Actors, Asks, Holds,
             ScheduleWake, Go, WakeIf, bits, kthread
    <3>4. CASE DisablePark(a)
      <4>1. /\ a \in Disablers /\ pc[a] = "idle" /\ tpc = "none"
            /\ pc' = [pc EXCEPT ![a] = IF shouldPark THEN "zero" ELSE "parkWake"]
            /\ shouldPark' = TRUE
            /\ UNCHANGED <<wpc, task, parked, tpc>>
        BY <3>4 DEF DisablePark, Go
      <4>2. \A d \in Disablers : pc[d] = "idle"
        BY <3>4, <4>1 DEF DisablePark
      <4>3. ~shouldPark /\ ~parked /\ task # "parked"
        BY <4>2 DEF ParkInv, Asks, Holds
      <4>4. pc \in [Actors -> PcValues] /\ a \in Actors
        BY DEF ParkInv, BitsInv
      <4>5. /\ pc'[a] = "parkWake"
            /\ \A d \in Disablers \ {a} : pc'[d] = "idle"
            /\ \A s \in Schedulers : pc'[s] = pc[s]
        BY <4>1, <4>2, <4>3, <4>4, WorkerActors DEF Actors
      <4> QED
        BY <1>0, <4>1, <4>3, <4>5 DEF ParkInv, Asks, Holds
    <3>5. CASE DisableWake(a)
      <4>1. /\ pc[a] = "parkWake" /\ pc' = [pc EXCEPT ![a] = "parkWait"]
            /\ UNCHANGED <<wpc, shouldPark, parked, tpc>>
            /\ task' = "parked" <=> task = "parked"
        BY <3>5 DEF DisableWake, Go, WakeIf, kthread
      <4>2. a \in Disablers /\ pc \in [Actors -> PcValues]
        BY <4>1 DEF ParkInv, BitsInv, Actors
      <4>3. \A d \in Disablers \ {a} : pc[d] = "idle"
        BY <4>1, <4>2 DEF Alone
      <4>4. /\ pc'[a] = "parkWait"
            /\ \A d \in Disablers \ {a} : pc'[d] = "idle"
            /\ \A s \in Schedulers : pc'[s] = pc[s]
        BY <4>1, <4>2, <4>3, WorkerActors DEF Actors
      <4> QED BY <1>0, <4>1, <4>2, <4>3, <4>4 DEF ParkInv, Asks, Holds
    <3>6. CASE DisableWait(a)
      BY <1>0, <3>6, WorkerActors
         DEF Alone, ParkInv, BitsInv, PcValues, Actors, Asks, Holds,
             DisableWait, Go, bits, kthread
    <3>7. CASE DisableZero(a)
      BY <1>0, <3>7, WorkerActors
         DEF Alone, ParkInv, BitsInv, PcValues, Actors, Asks, Holds,
             DisableZero, Go, bits, kthread
    <3>8. CASE EnableClear(a)
      <4>1. pc[a] = "disabled" /\ a \in Disablers /\ shouldPark /\ tpc = "none"
        BY <3>8, WorkerActors
           DEF ParkInv, Actors, Asks, Holds, EnableClear, Go
      <4>2. /\ pc' = [pc EXCEPT ![a] = "unpark"] /\ shouldPark' = FALSE
            /\ UNCHANGED <<wpc, task, parked, tpc>>
        BY <3>8, <4>1 DEF EnableClear, Go
      <4>3. pc'[a] = "unpark" /\ \A d \in Disablers \ {a} : pc'[d] = "idle"
        BY <4>1, <4>2 DEF Alone, ParkInv, BitsInv, Actors
      <4>4. \A t \in Schedulers : pc'[t] = pc[t]
        BY <4>1, <4>2, WorkerActors DEF ParkInv, BitsInv, Actors
      <4>5. ~parked /\ task = "parked" /\ wpc = "parked"
        BY <4>1 DEF ParkInv, Holds
      <4> QED
        BY <1>0, <4>1, <4>2, <4>3, <4>4, <4>5 DEF ParkInv, Asks, Holds
    <3>9. CASE EnableWake(a)
      BY <1>0, <3>9, WorkerActors
         DEF Alone, ParkInv, BitsInv, PcValues, Actors, Asks, Holds,
             EnableWake, Go, WakeIf, bits, kthread
    <3> QED BY <3>1, <3>2, <3>3, <3>4, <3>5, <3>6, <3>7, <3>8, <3>9
  <2> QED BY <1>1, <2>1, <2>2, <2>3, <2>4, <2>5, <2>6, <2>7, <2>8, <2>9, <2>10, <2>11, <2>12, <2>13, <2>14, <2>15, <2>16, NextSplit
<1>2. CASE UNCHANGED vars
  BY <1>0, <1>2 DEF ParkInv, Asks, Holds, vars
<1> QED BY <1>1, <1>2

(* As long as no two pairs of disable and enable have overlapped, the        *)
(* function of the worker does not run between mt76_worker_disable and       *)
(* mt76_worker_enable, for any number of contexts that disable or wake it.   *)
THEOREM DisabledWorkerIsParked == Spec => []DisabledMeansParked
<1> DEFINE PInv == BitsInv /\ (~overlapped => Alone /\ ParkInv)
<1>1. Init => PInv
  BY DEF Init, Alone, ParkInv, BitsInv, PcValues, Actors, Asks, Holds
<1>2. PInv /\ [Next]_vars => PInv'
  <2> SUFFICES ASSUME PInv, [Next]_vars, ~overlapped' PROVE Alone' /\ ParkInv'
    BY BitsInductive
  <2>1. CASE Setup
    <3>1. \A a \in Actors : pc'[a] = "idle"
      BY <2>1 DEF Setup
    <3>2. /\ shouldPark' = FALSE /\ parked' = FALSE
          /\ task' = "running" /\ tpc' = "none" /\ wpc' = "while"
      BY <2>1 DEF Setup
    <3> QED
      BY <3>1, <3>2, BitsInductive DEF Alone, ParkInv, Actors, Asks, Holds
  <2>2. CASE ~Setup
    <3>1. ~overlapped
      BY <2>2, NextSplit DEF WhileTest, SetInterruptible, ParkTest,
         TestAndClear, Sleep, Mark, RunFn, ClearRunning, ParkMe, ParkedWakes,
         TeardownStop, TeardownUnpark, TeardownWake, TeardownDone,
         ScheduleSet, ScheduleTest, ScheduleWake, DisablePark, DisableWake,
         DisableWait, DisableZero, EnableClear, EnableWake, history, vars
    <3> QED BY <3>1, AloneInductive, ParkInductive
  <2> QED BY <2>1, <2>2
<1>3. PInv => DisabledMeansParked
  BY DEF ParkInv, Holds, DisabledMeansParked, InFn
<1> QED BY <1>1, <1>2, <1>3, PTL DEF Spec

-----------------------------------------------------------------------------
(* Remain on channel.                                                       *)

(* What can still give the channel back. *)
Ending == timer \/ queued \/ work = "lock" \/ rxpc = "arm"

(* The inductive invariant: where RocNeverForgotten speaks of the times no  *)
(* callback runs, this speaks of all of them. Waiting for the grant is the  *)
(* one state in which nothing else ends the request, and an abort is the    *)
(* one callback that takes the others away before it clears the bit.        *)
EndsUnlessAwaited ==
  rocBit /\ disc = "no" /\ cb \notin {"abortCancel", "abortLock"}
  /\ (cb = "setWait" => grant)
    => Ending

(* The removal of a station sleeps only after it cleared the bit.           *)
RemovalClears == cb = "removeCancel" => ~rocBit

-----------------------------------------------------------------------------
(* The type invariant in parts, each for the prover that does it best.      *)
RxTyped == rx \in Seq(1..MaxRocs)

BitsTyped ==
  rocBit \in BOOLEAN /\ grant \in BOOLEAN /\ timer \in BOOLEAN /\ queued \in BOOLEAN

Typed ==
  /\ token \in 0..MaxRocs /\ (cb = "set" => token < MaxRocs)
  /\ work \in {"idle", "lock"}
  /\ cb \in {"idle", "set", "setWait", "abortCancel", "abortLock",
             "remove", "removeCancel"}
  /\ mutex \in {"free", "cb"}
  /\ mutex = "cb" <=> cb \in {"setWait", "removeCancel"}
  /\ asked \in 0..MaxRocs
  /\ rxpc \in {"idle", "arm"} /\ disc \in {"no", "timer", "work", "freed"}

RocIInv == Typed /\ BitsTyped /\ RxTyped /\ RemovalClears /\ EndsUnlessAwaited

(* Grants on their way carry tokens of requests that were made.             *)
LEMMA RxInductive == RxTyped /\ asked \in 0..MaxRocs /\ [RocNext]_rocVars => RxTyped'
<1> SUFFICES ASSUME RxTyped, asked \in 0..MaxRocs, [RocNext]_rocVars PROVE RxTyped'
  OBVIOUS
<1>1. CASE rx' = rx
  BY <1>1 DEF RxTyped
<1>2. CASE FwGrant
  <2>1. asked \in 1..MaxRocs
    BY <1>2, RocConstants DEF FwGrant
  <2> QED BY <1>2, <2>1 DEF FwGrant, RxTyped
<1>3. CASE RxGrant
  BY <1>3 DEF RxGrant, RxTyped
<1>4. CASE Probe
  BY <1>4 DEF Probe, RxTyped
<1>6. CASE ChipReset
  BY <1>6 DEF ChipReset, RxTyped
<1>5. FwGrant \/ RxGrant \/ Probe \/ ChipReset \/ rx' = rx
  BY DEF RocNext, Callback, SetRoc, SetRocBusy, SetRocSend, SetRocGranted,
     SetRocTimeout, AbortTimer, AbortCancel, AbortSend, StaRemove,
     StaRemoveAbort, StaRemoveCancel, TimerFire, WorkStart, WorkLock, RxArm,
     CleanupTimer, CleanupWork, CleanupFree, rocVars, firmware
<1> QED BY <1>1, <1>2, <1>3, <1>4, <1>5, <1>6

LEMMA RocBitsInductive == BitsTyped /\ [RocNext]_rocVars => BitsTyped'
<1> SUFFICES ASSUME BitsTyped, [RocNext]_rocVars PROVE BitsTyped'
  OBVIOUS
<1> USE DEF BitsTyped, timing, firmware
<1>1. CASE SetRoc \/ AbortTimer \/ StaRemove
  BY <1>1, Zenon DEF SetRoc, AbortTimer, StaRemove
<1>2. CASE SetRocBusy \/ SetRocGranted \/ SetRocTimeout \/ SetRocSend
  BY <1>2, Zenon DEF SetRocBusy, SetRocGranted, SetRocTimeout, SetRocSend
<1>3. CASE AbortCancel \/ AbortSend
  BY <1>3, Zenon DEF AbortCancel, AbortSend
<1>4. CASE StaRemoveAbort \/ StaRemoveCancel
  BY <1>4, Zenon DEF StaRemoveAbort, StaRemoveCancel
<1>5. CASE TimerFire \/ WorkStart \/ WorkLock
  BY <1>5, Zenon DEF TimerFire, WorkStart, WorkLock
<1>6. CASE FwGrant \/ RxGrant \/ RxArm \/ ChipReset
  BY <1>6, Zenon DEF FwGrant, RxGrant, RxArm, ChipReset
<1>7. CASE CleanupTimer \/ CleanupWork \/ CleanupFree \/ Probe
  BY <1>7, Zenon DEF CleanupTimer, CleanupWork, CleanupFree, Probe
<1>8. CASE UNCHANGED rocVars
  BY <1>8, Zenon DEF rocVars
<1> QED
  BY <1>1, <1>2, <1>3, <1>4, <1>5, <1>6, <1>7, <1>8 DEF RocNext, Callback

(* Every state has the declared types, the mutex among them: it is held     *)
(* exactly while a callback sleeps with it.                                 *)
LEMMA TypedInductive == Typed /\ [RocNext]_rocVars => Typed'
<1> SUFFICES ASSUME Typed, [RocNext]_rocVars PROVE Typed'
  OBVIOUS
<1> USE RocConstants DEF Typed, timing, firmware, AbortCommand,
    RequestCommand
<1>1. CASE SetRoc \/ AbortTimer \/ StaRemove
  BY <1>1 DEF SetRoc, AbortTimer, StaRemove
<1>2. CASE SetRocBusy \/ SetRocGranted \/ SetRocTimeout
  BY <1>2 DEF SetRocBusy, SetRocGranted, SetRocTimeout
<1>3. CASE SetRocSend
  <2>1. token' \in 0..MaxRocs
    BY <1>3 DEF SetRocSend
  <2>2. CASE cb' = "setWait"
    BY <1>3, <2>1, <2>2 DEF SetRocSend
  <2>3. CASE cb' = "idle"
    BY <1>3, <2>1, <2>3 DEF SetRocSend
  <2> QED BY <1>3, <2>2, <2>3 DEF SetRocSend
<1>4. CASE AbortCancel \/ AbortSend \/ StaRemoveAbort \/ StaRemoveCancel
  BY <1>4 DEF AbortCancel, AbortSend, StaRemoveAbort, StaRemoveCancel
<1>5. CASE TimerFire \/ WorkStart \/ WorkLock
  BY <1>5 DEF TimerFire, WorkStart, WorkLock
<1>6. CASE FwGrant \/ RxGrant \/ RxArm \/ ChipReset
  BY <1>6 DEF FwGrant, RxGrant, RxArm, ChipReset
<1>7. CASE CleanupTimer \/ CleanupWork \/ CleanupFree
  BY <1>7 DEF CleanupTimer, CleanupWork, CleanupFree
<1>8. CASE Probe
  BY <1>8 DEF Probe
<1>9. CASE UNCHANGED rocVars
  BY <1>9 DEF rocVars
<1> QED
  BY <1>1, <1>2, <1>3, <1>4, <1>5, <1>6, <1>7, <1>8, <1>9 DEF RocNext, Callback

(* A step takes away what ends a request only by passing it on to the next  *)
(* in line, by clearing the bit, or at the start of an abort.               *)
LEMMA EndsInductive ==
  Typed /\ RemovalClears /\ EndsUnlessAwaited /\ [RocNext]_rocVars
    => RemovalClears' /\ EndsUnlessAwaited'
<1> SUFFICES ASSUME Typed, RemovalClears, EndsUnlessAwaited, [RocNext]_rocVars
             PROVE  RemovalClears' /\ EndsUnlessAwaited'
  OBVIOUS
<1> USE DEF Typed, RemovalClears, EndsUnlessAwaited, Ending, timing, firmware
<1>1. CASE SetRoc \/ StaRemove
  BY <1>1 DEF SetRoc, StaRemove
<1>2. CASE AbortTimer \/ AbortCancel \/ AbortSend
  BY <1>2 DEF AbortTimer, AbortCancel, AbortSend
<1>3. CASE SetRocBusy \/ SetRocSend \/ SetRocTimeout
  BY <1>3 DEF SetRocBusy, SetRocSend, SetRocTimeout
<1>4. CASE SetRocGranted
  (* The grant that ended the wait also started the timer. *)
  BY <1>4 DEF SetRocGranted
<1>5. CASE StaRemoveAbort \/ StaRemoveCancel
  (* The bit is clear since StaRemoveAbort: nobody can set it. *)
  BY <1>5 DEF StaRemoveAbort, StaRemoveCancel
<1>6. CASE TimerFire \/ WorkStart \/ WorkLock
  BY <1>6 DEF TimerFire, WorkStart, WorkLock
<1>7. CASE FwGrant \/ RxGrant \/ RxArm \/ ChipReset
  BY <1>7 DEF FwGrant, RxGrant, RxArm, ChipReset
<1>8. CASE CleanupTimer \/ CleanupWork \/ CleanupFree \/ Probe
  BY <1>8 DEF CleanupTimer, CleanupWork, CleanupFree, Probe
<1>9. CASE UNCHANGED rocVars
  BY <1>9 DEF rocVars
<1> QED
  BY <1>1, <1>2, <1>3, <1>4, <1>5, <1>6, <1>7, <1>8, <1>9 DEF RocNext, Callback

-----------------------------------------------------------------------------
LEMMA RocIInvInductive == RocIInv /\ [RocNext]_rocVars => RocIInv'
BY RxInductive, RocBitsInductive, TypedInductive, EndsInductive DEF RocIInv, Typed

(* The inductive invariant holds in every state.                            *)
THEOREM RocIInvAlways == RocSpec => []RocIInv
<1>1. RocInit => RocIInv
  <2>1. RocInit => Typed /\ RxTyped
    BY RocConstants DEF RocInit, Typed, RxTyped
  <2>2. RocInit => BitsTyped
    BY Zenon DEF RocInit, BitsTyped
  <2> QED BY <2>1, <2>2 DEF RocInit, RocIInv, RemovalClears, EndsUnlessAwaited
<1> QED BY <1>1, RocIInvInductive, PTL DEF RocSpec

(* Type correctness: dev->mutex is held exactly while a callback sleeps.    *)
THEOREM RocTypeCorrect == RocSpec => []RocTypeOK
<1>1. RocIInv => RocTypeOK
  BY DEF RocIInv, Typed, BitsTyped, RxTyped, RocTypeOK
<1> QED BY <1>1, RocIInvAlways, PTL

(* A remain-on-channel no callback is about to end always has its timer,    *)
(* its work or the grant event left to end it, for any number of requests.  *)
THEOREM RocAlwaysEnding == RocSpec => []RocNeverForgotten
<1>1. RocIInv => RocNeverForgotten
  BY DEF RocIInv, EndsUnlessAwaited, Ending, RocNeverForgotten
<1> QED BY <1>1, RocIInvAlways, PTL
============================================================================
