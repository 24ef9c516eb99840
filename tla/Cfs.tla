-------------------------------- MODULE Cfs --------------------------------
(***************************************************************************)
(* The Normal class in detail: Sched with the vruntime that orders         *)
(* CFS_QUEUE and the runtime accounting that feeds it (scheduler.rs,       *)
(* Task::update_vruntime, nice_to_weight).                                 *)
(*                                                                         *)
(* Time is measured in units of which a tick lasts TickRuntime (4_000_000  *)
(* ns in idt.rs).  Tasks outside Cooperative never call schedule()         *)
(* themselves: only ticks take the CPU from them.  MaxQuantum and MaxRan   *)
(* bound what is explored, far below the u64 at which vruntime saturates.  *)
(***************************************************************************)
EXTENDS Sched

CONSTANTS Weight,       \* Task::weight, by id (nice_to_weight)
          TickRuntime,  \* runtime recorded by one timer interrupt
          Cooperative,  \* tasks that may yield or block
          MaxQuantum,   \* bound: runtime recorded between two schedule() calls
          MaxRan        \* bound: runtime of one task

BASE_WEIGHT == 1024

ASSUME CfsAssumption ==
  /\ Weight \in [Tasks -> Nat]
  /\ TickRuntime \in Nat \ {0}
  /\ Cooperative \subseteq Tasks
  /\ MaxQuantum \in Nat
  /\ MaxRan \in Nat

VARIABLES vruntime,             \* Task::vruntime, by id
          ACCUMULATED_RUNTIME,
          NEED_RESCHED,         \* set inside a tick, until its exit path schedules
          ran,                  \* history: ticks taken while each task was current
          overrun               \* history: a tick struck before the schedule() of another

cfsVars == <<vruntime, ACCUMULATED_RUNTIME, NEED_RESCHED, ran, overrun>>
vars == <<schedVars, cfsVars>>

Normal(t) == SchedClass[t] = "Normal"

Init ==
  /\ SchedInit
  /\ vruntime = [t \in Tasks |-> 0]
  /\ ACCUMULATED_RUNTIME = 0
  /\ NEED_RESCHED = FALSE
  /\ ran = [t \in Tasks |-> 0]
  /\ overrun = FALSE

\* Task::update_vruntime's increment.
Increment(t, delta) ==
  IF Weight[t] = 0 THEN 0 ELSE (delta * BASE_WEIGHT) \div Weight[t]

\* The runtime schedule() charges: what the ticks recorded, at least 1.
Delta == IF ACCUMULATED_RUNTIME > 0 THEN ACCUMULATED_RUNTIME ELSE 1

\* Mutant: the counter is read but not reset.
Charge_KeepAccumulated ==
  /\ vruntime' = [u \in Tasks |->
       vruntime[u] + (IF u \in OldTasks /\ Normal(u) THEN Increment(u, Delta) ELSE 0)]
  /\ UNCHANGED ACCUMULATED_RUNTIME

\* schedule(), phase 2: the recorded runtime is taken off the counter and
\* charged to the outgoing task, if it is Normal.
Charge ==
  /\ vruntime' = [u \in Tasks |->
       vruntime[u] + (IF u \in OldTasks /\ Normal(u) THEN Increment(u, Delta) ELSE 0)]
  /\ ACCUMULATED_RUNTIME' = IF OldTasks = {} THEN ACCUMULATED_RUNTIME ELSE 0

\* Mutant: CFS_QUEUE is keyed by id alone.
FirstByVruntime_ById(t) == \A u \in CFS_QUEUE \ {t} : t < u

\* pop_first of CFS_QUEUE: least (vruntime, id).
FirstByVruntime(t) ==
  \A u \in CFS_QUEUE \ {t} :
    vruntime[t] < vruntime[u] \/ (vruntime[t] = vruntime[u] /\ t < u)

CfsPick(t) == FirstOfQueues(t) /\ (t \in CFS_QUEUE => FirstByVruntime(t))

CfsSchedule ==
  \/ \E t \in Tasks : CfsPick(t) /\ SwitchTo(t) /\ Charge
  \/ NothingQueued /\ UNCHANGED <<schedVars, vruntime, ACCUMULATED_RUNTIME>>

-----------------------------------------------------------------------------
\* kernel_main_inner runs with interrupts disabled until its first schedule();
\* it is the only current task that is ever Ready.
InterruptsOn == CURRENT_TASK # NoTask /\ state[CURRENT_TASK] # "Ready"

\* The current task executes its own code, outside the timer interrupt.
InTask == CURRENT_TASK \in Cooperative /\ ~NEED_RESCHED

Boot ==
  /\ CURRENT_TASK = NoTask
  /\ IF NEXT_ID = NumTasks - 1 THEN SetCurrentTask ELSE AddTask
  /\ UNCHANGED cfsVars

\* The timer interrupt handler: update_current_task_vruntime, set_need_resched.
\* More ticks may follow before schedule() runs, while a softirq is handled.
Tick ==
  /\ InterruptsOn
  /\ ACCUMULATED_RUNTIME + TickRuntime <= MaxQuantum
  /\ ran[CURRENT_TASK] + TickRuntime <= MaxRan
  /\ ACCUMULATED_RUNTIME' = ACCUMULATED_RUNTIME + TickRuntime
  /\ NEED_RESCHED' = TRUE
  /\ ran' = [ran EXCEPT ![CURRENT_TASK] = @ + TickRuntime]
  /\ overrun' = (overrun \/ NEED_RESCHED)
  /\ UNCHANGED <<schedVars, vruntime>>

\* check_resched_on_interrupt_exit, after the softirq.
IrqExit ==
  /\ NEED_RESCHED
  /\ NEED_RESCHED' = FALSE
  /\ CfsSchedule
  /\ UNCHANGED <<ran, overrun>>

\* yield_now, the first schedule() of kernel_main_inner, or the schedule()
\* that ends block_current_task.
Yield ==
  /\ InTask
  /\ CfsSchedule
  /\ \A t \in OldTasks : vruntime'[t] <= MaxRan
  /\ UNCHANGED <<NEED_RESCHED, ran, overrun>>

Block ==
  /\ InTask
  /\ state[CURRENT_TASK] = "Running"
  /\ BlockCurrentTask
  /\ UNCHANGED cfsVars

\* A timer callback or an unlocking task wakes t, parked or not.
Unblock(t) ==
  /\ InterruptsOn
  /\ t \in Cooperative
  /\ UnblockTask(t)
  /\ UNCHANGED cfsVars

\* The horizon MaxRan is reached: the exploration, not the system, ends here.
Horizon ==
  /\ CURRENT_TASK # NoTask
  /\ ran[CURRENT_TASK] + TickRuntime > MaxRan
  /\ UNCHANGED vars

Next ==
  \/ Boot
  \/ Tick
  \/ IrqExit
  \/ Yield
  \/ Block
  \/ \E t \in Tasks : Unblock(t)
  \/ Horizon

Spec == Init /\ [][Next]_vars

-----------------------------------------------------------------------------
(* Properties *)

NeverYields(t) == Normal(t) /\ t \notin Cooperative

Unaccounted(t) == IF t = CURRENT_TASK THEN ACCUMULATED_RUNTIME ELSE 0

\* Every tick is charged once, to the task that was running when it struck:
\* for a task of nice 0 that never yields, vruntime plus what is still in
\* ACCUMULATED_RUNTIME is exactly the time it ran; a task that yields is charged
\* at least that.  (The counter is global and is emptied by whichever
\* schedule() comes next.)
RuntimeCharged ==
  \A t \in Tasks :
    Normal(t) /\ Weight[t] = BASE_WEIGHT =>
      /\ vruntime[t] + Unaccounted(t) >= ran[t]
      /\ NeverYields(t) => vruntime[t] + Unaccounted(t) = ran[t]

\* Two Normal tasks of the same weight that stay runnable get the same CPU time,
\* up to one tick, whatever tasks of other classes and weights do, as long as
\* each tick is followed by its schedule() before the next one strikes.  (After
\* an overrun nothing bounds the difference: schedule() pops the next task
\* before it puts the outgoing one back, so two tasks alternate however long
\* either's turns are.)  A tick must count at the weight, as it does at every
\* weight of nice_to_weight.
EqualShare ==
  \A t, u \in Tasks :
    /\ NeverYields(t) /\ NeverYields(u)
    /\ Weight[t] = Weight[u] /\ Increment(t, TickRuntime) > 0
    /\ ~overrun
    => ran[t] <= ran[u] + TickRuntime

\* task.rs:74 promises more CPU time for a lower nice value: of two tasks that
\* stay runnable, the one with at least twice the weight, once the other has run
\* for half the horizon, is ahead by more than a quantum, MaxQuantum.
LowerNiceGetsMore ==
  \A t, u \in Tasks :
    /\ NeverYields(t) /\ NeverYields(u)
    /\ Weight[t] >= 2 * Weight[u]
    /\ 2 * ran[u] >= MaxRan
    => ran[t] > ran[u] + MaxQuantum

=============================================================================
