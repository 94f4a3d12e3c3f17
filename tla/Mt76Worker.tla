----------------------------- MODULE Mt76Worker -----------------------------
(***************************************************************************)
(* The worker threads of mt76 (tx_worker, rx_worker, status_worker):       *)
(* a kthread with two state bits, woken without a lock from URB            *)
(* completions, timers and mac80211, parked and unparked around resets,    *)
(* channel changes and interface stops, and stopped when the device goes.  *)
(*                                                                         *)
(* A step is one access to the state bits, to the flags of the kthread or  *)
(* to the run state of its task. What the kthread API does is external.    *)
(***************************************************************************)
EXTENDS Naturals

CONSTANTS
  Schedulers,  \* contexts that call mt76_worker_schedule
  Disablers    \* pairs of mt76_worker_disable and _enable that may overlap

ASSUME WorkerActors == Schedulers \cap Disablers = {}

Actors == Schedulers \cup Disablers

VARIABLES
  scheduled,   \* MT76_WORKER_SCHEDULED in w->state
  running,     \* MT76_WORKER_RUNNING in w->state
  wpc,         \* where __mt76_worker_fn is
  task,        \* state of its task: "running", "interruptible", "parked"
  shouldPark,  \* KTHREAD_SHOULD_PARK
  parked,      \* the completion kthread_park waits for
  shouldStop,  \* KTHREAD_SHOULD_STOP
  tpc,         \* where mt76_worker_teardown is
  pc,          \* where each actor is
  wanted,      \* a request nobody has run the function for yet (history)
  overlapped   \* two pairs of disable and enable have overlapped (history)

vars == <<scheduled, running, wpc, task, shouldPark, parked, shouldStop,
          tpc, pc, wanted, overlapped>>
history == <<wanted, overlapped>>
bits == <<scheduled, running>>
kthread == <<shouldPark, parked, shouldStop>>

TypeOK ==
  /\ scheduled \in BOOLEAN /\ running \in BOOLEAN
  /\ wpc \in {"while", "set", "park", "test", "sleep", "mark", "run", "clear",
              "parkme", "parked", "exited"}
  /\ task \in {"running", "interruptible", "parked"}
  /\ shouldPark \in BOOLEAN /\ parked \in BOOLEAN /\ shouldStop \in BOOLEAN
  /\ tpc \in {"none", "unpark", "wake", "wait", "done"}
  /\ pc \in [Actors -> {"idle", "test", "wake", "parkWake", "parkWait",
                        "zero", "disabled", "unpark", "schedule"}]
  /\ wanted \in BOOLEAN /\ overlapped \in BOOLEAN
  /\ running => wpc \in {"run", "clear"}

Init ==
  /\ scheduled = FALSE /\ running = FALSE
  /\ wpc = "while" /\ task = "running"
  /\ shouldPark = FALSE /\ parked = FALSE /\ shouldStop = FALSE
  /\ tpc = "none" /\ pc = [a \in Actors |-> "idle"]
  /\ wanted = FALSE /\ overlapped = FALSE

(* wake_up_process and wake_up_state. *)
WakeIf(state) == task' = IF task = state THEN "running" ELSE task

-----------------------------------------------------------------------------
(* __mt76_worker_fn *)

At(l) == wpc = l
To(l) == wpc' = l

WhileTest ==
  /\ At("while") /\ To(IF shouldStop THEN "exited" ELSE "set")
  /\ UNCHANGED <<bits, task, kthread, tpc, pc, history>>

SetInterruptible ==
  /\ At("set") /\ To("park") /\ task' = "interruptible"
  /\ UNCHANGED <<bits, kthread, tpc, pc, history>>

(* Mutant: the park request is looked at only when there is no work. *)
ParkTestIdle ==
  /\ At("park") /\ To(IF shouldPark /\ ~scheduled THEN "parkme" ELSE "test")
  /\ UNCHANGED <<bits, task, kthread, tpc, pc, history>>

ParkTest ==
  /\ At("park") /\ To(IF shouldPark THEN "parkme" ELSE "test")
  /\ UNCHANGED <<bits, task, kthread, tpc, pc, history>>

TestAndClear ==
  /\ At("test") /\ To(IF scheduled THEN "mark" ELSE "sleep")
  /\ scheduled' = FALSE
  /\ UNCHANGED <<running, task, kthread, tpc, pc, history>>

(* schedule() returns when the task was woken; kthread_stop also raises     *)
(* TIF_NOTIFY_SIGNAL, with which an interruptible task does not sleep.      *)
Sleep ==
  /\ At("sleep") /\ To("while")
  /\ task = "running" \/ tpc = "wait"
  /\ UNCHANGED <<bits, task, kthread, tpc, pc, history>>

Mark ==
  /\ At("mark") /\ To("run")
  /\ running' = TRUE /\ task' = "running"
  /\ UNCHANGED <<scheduled, kthread, tpc, pc, history>>

(* w->fn starts; whatever was asked for until now, it sees. *)
RunFn ==
  /\ At("run") /\ To("clear") /\ wanted' = FALSE
  /\ UNCHANGED <<bits, task, kthread, tpc, pc, overlapped>>

(* Mutant: the whole word is zeroed. *)
ClearBoth ==
  /\ At("clear") /\ To("while") /\ running' = FALSE /\ scheduled' = FALSE
  /\ UNCHANGED <<task, kthread, tpc, pc, history>>

ClearRunning ==
  /\ At("clear") /\ To("while") /\ running' = FALSE
  /\ UNCHANGED <<scheduled, task, kthread, tpc, pc, history>>

(* kthread_parkme *)
ParkMe ==
  /\ At("parkme")
  /\ IF shouldPark
     THEN To("parked") /\ task' = "parked" /\ parked' = TRUE
     ELSE To("while") /\ task' = "running" /\ UNCHANGED parked
  /\ UNCHANGED <<bits, shouldPark, shouldStop, tpc, pc, history>>

ParkedWakes ==
  /\ At("parked") /\ task = "running" /\ To("parkme")
  /\ UNCHANGED <<bits, task, kthread, tpc, pc, history>>

Worker ==
  \/ WhileTest \/ SetInterruptible \/ ParkTest \/ TestAndClear \/ Sleep
  \/ Mark \/ RunFn \/ ClearRunning \/ ParkMe \/ ParkedWakes

-----------------------------------------------------------------------------
(* mt76_worker_schedule *)

Go(a, from, to) == pc[a] = from /\ pc' = [pc EXCEPT ![a] = to]

(* test_and_set_bit; only the one that sets it may wake the worker. *)
ScheduleSet(a) ==
  /\ \/ a \in Schedulers /\ pc[a] = "idle"
     \/ pc[a] = "schedule"
  /\ tpc # "done"              \* w->task
  /\ pc' = [pc EXCEPT ![a] = IF scheduled THEN "idle" ELSE "test"]
  /\ scheduled' = TRUE /\ wanted' = TRUE
  /\ UNCHANGED <<running, wpc, task, kthread, tpc, overlapped>>

(* Mutant: the test of the running bit is the wrong way round. *)
ScheduleTestInverted(a) ==
  /\ Go(a, "test", IF running THEN "wake" ELSE "idle")
  /\ UNCHANGED <<bits, wpc, task, kthread, tpc, history>>

ScheduleTest(a) ==
  /\ Go(a, "test", IF running THEN "idle" ELSE "wake")
  /\ UNCHANGED <<bits, wpc, task, kthread, tpc, history>>

ScheduleWake(a) ==
  /\ Go(a, "wake", "idle") /\ WakeIf("interruptible")
  /\ UNCHANGED <<bits, wpc, kthread, tpc, history>>

-----------------------------------------------------------------------------
(* mt76_worker_disable: kthread_park, then the bits are zeroed. A second    *)
(* kthread_park warns and returns at once.                                  *)

DisablePark(a) ==
  /\ a \in Disablers /\ tpc = "none"
  /\ Go(a, "idle", IF shouldPark THEN "zero" ELSE "parkWake")
  /\ shouldPark' = TRUE
  /\ overlapped' = (overlapped \/ \E d \in Disablers \ {a} : pc[d] # "idle")
  /\ UNCHANGED <<bits, wpc, task, parked, shouldStop, tpc, wanted>>

DisableWake(a) ==
  /\ Go(a, "parkWake", "parkWait") /\ WakeIf("interruptible")
  /\ UNCHANGED <<bits, wpc, kthread, tpc, history>>

(* Mutant: the worker is asked to park and not waited for. *)
DisableNoWait(a) ==
  /\ Go(a, "parkWait", "zero") /\ parked' = FALSE
  /\ UNCHANGED <<bits, wpc, task, shouldPark, shouldStop, tpc, history>>

DisableWait(a) ==
  /\ Go(a, "parkWait", "zero") /\ parked /\ parked' = FALSE
  /\ UNCHANGED <<bits, wpc, task, shouldPark, shouldStop, tpc, history>>

DisableZero(a) ==
  /\ Go(a, "zero", "disabled")
  /\ scheduled' = FALSE /\ running' = FALSE
  /\ UNCHANGED <<wpc, task, kthread, tpc, history>>

(* mt76_worker_enable: kthread_unpark, then mt76_worker_schedule. *)
EnableClear(a) ==
  /\ Go(a, "disabled", IF shouldPark THEN "unpark" ELSE "schedule")
  /\ shouldPark' = FALSE
  /\ UNCHANGED <<bits, wpc, task, parked, shouldStop, tpc, history>>

EnableWake(a) ==
  /\ Go(a, "unpark", "schedule") /\ WakeIf("parked")
  /\ UNCHANGED <<bits, wpc, kthread, tpc, history>>

Act(a) ==
  \/ ScheduleTest(a) \/ ScheduleWake(a)
  \/ DisableWake(a) \/ DisableWait(a) \/ DisableZero(a)
  \/ EnableClear(a) \/ EnableWake(a)
  \/ (pc[a] = "schedule" /\ ScheduleSet(a))

-----------------------------------------------------------------------------
(* mt76_worker_teardown: kthread_stop, after everyone who disables the      *)
(* worker is done. mt76_worker_setup starts the worker of the next device.  *)

TeardownStop ==
  /\ tpc = "none" /\ tpc' = "unpark" /\ shouldStop' = TRUE
  /\ \A d \in Disablers : pc[d] = "idle"
  /\ shouldPark' = FALSE
  /\ UNCHANGED <<bits, wpc, task, parked, pc, history>>

TeardownUnpark ==
  /\ tpc = "unpark" /\ tpc' = "wake" /\ WakeIf("parked")
  /\ UNCHANGED <<bits, wpc, kthread, pc, history>>

TeardownWake ==
  /\ tpc = "wake" /\ tpc' = "wait" /\ WakeIf("interruptible")
  /\ UNCHANGED <<bits, wpc, kthread, pc, history>>

TeardownDone ==
  /\ tpc = "wait" /\ wpc = "exited" /\ tpc' = "done"
  /\ UNCHANGED <<bits, wpc, task, kthread, pc, history>>

Teardown == TeardownStop \/ TeardownUnpark \/ TeardownWake \/ TeardownDone

Setup ==
  /\ tpc = "done" /\ tpc' = "none" /\ \A a \in Actors : pc[a] = "idle"
  /\ scheduled' = FALSE /\ running' = FALSE /\ wpc' = "while"
  /\ task' = "running" /\ shouldStop' = FALSE /\ shouldPark' = FALSE
  /\ parked' = FALSE /\ wanted' = FALSE /\ overlapped' = FALSE
  /\ UNCHANGED pc

Next ==
  \/ Worker \/ Teardown \/ Setup
  \/ \E a \in Actors : Act(a)
  \/ \E s \in Schedulers : pc[s] = "idle" /\ ScheduleSet(s)
  \/ \E d \in Disablers : DisablePark(d)

Spec == Init /\ [][Next]_vars

(* Threads that run are scheduled; a section that disabled the worker is    *)
(* straight-line code that enables it again. Nobody has to ask for work.    *)
Fairness ==
  /\ WF_vars(Worker)
  /\ WF_vars(TeardownUnpark \/ TeardownWake \/ TeardownDone)
  /\ \A a \in Actors : WF_vars(Act(a))

FairSpec == Spec /\ Fairness

-----------------------------------------------------------------------------
(* Properties. *)

(* Between the return of mt76_worker_disable and mt76_worker_enable the     *)
(* function of the worker does not run, as long as no two of these sections *)
(* have overlapped: a second disable does not wait, and an enable unparks   *)
(* whoever else has disabled the worker.                                    *)
InFn == wpc \in {"mark", "run", "clear"}
DisabledMeansParked ==
  ~overlapped => \A d \in Disablers : pc[d] = "disabled" => ~InFn

(* A request is never left with a worker that sleeps, unless whoever set    *)
(* the bit is about to wake it.                                             *)
NoLostWakeup ==
  scheduled /\ wpc = "sleep" /\ task = "interruptible" =>
    \E a \in Actors : pc[a] \in {"test", "wake", "parkWake"}

(* Every request is followed by a run of the function, also one whose bit a *)
(* disabler zeroed, unless the worker is torn down or disabled for ever.    *)
EveryRequestRuns ==
  (\A d \in Disablers : <>[](pc[d] \notin {"parkWake", "disabled"}))
    => (wanted ~> (~wanted \/ shouldStop))

(* Whoever disables the worker gets on, unless two of them have overlapped, *)
(* and removing the device ends the worker: neither waits for ever for a    *)
(* thread that runs, sleeps or parks.                                       *)
WaitersReturn ==
  /\ \A d \in Disablers :
       pc[d] = "parkWait" ~> (pc[d] # "parkWait" \/ overlapped)
  /\ tpc = "wait" ~> tpc # "wait"

(* The code does not have this one (README, section 4, with the instance    *)
(* that shows it): whoever disables the worker gets on, also beside another *)
(* who does. docs/install.md calls the warning that goes with it cosmetic.  *)
DisableReturns ==
  \A d \in Disablers : pc[d] = "parkWait" ~> pc[d] # "parkWait"
=============================================================================
