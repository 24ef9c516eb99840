------------------------------- MODULE Sched -------------------------------
(***************************************************************************)
(* The multi-level run queues of kernel/src/sched/scheduler.rs and the     *)
(* block / unblock protocol of kernel/src/sched/blocking.rs.               *)
(*                                                                         *)
(* Every operation runs with interrupts disabled on a single core, so each *)
(* one is a single atomic action.  The callers are left open: any          *)
(* operation may be called at any time.  Module Kernel composes these      *)
(* operations with the interrupt handler, the timers and the mutex, and    *)
(* module Cfs adds the vruntime order of the Normal class, which is        *)
(* abstracted here to "some task of CFS_QUEUE".                            *)
(*                                                                         *)
(* A Box<Task> is modelled by its TaskId.  TaskState::Terminated is never  *)
(* assigned by the kernel, so schedule()'s arm for it is left out.         *)
(***************************************************************************)
EXTENDS Naturals, Sequences

CONSTANTS NumTasks,    \* ids handed out by TaskId::new are 0 .. NumTasks - 1
          SchedClass,  \* Task::sched_class, by id
          RtPriority,  \* Task::rt_priority, by id
          NoTask       \* None in Option<Box<Task>>

Tasks == 0 .. NumTasks - 1

ASSUME SchedAssumption ==
  /\ NumTasks \in Nat
  /\ SchedClass \in [Tasks -> {"Realtime", "Normal", "Idle"}]
  /\ RtPriority \in [Tasks -> 0 .. 99]
  /\ NoTask \notin Tasks

VARIABLES
  NEXT_ID,         \* TaskId::new's counter: ids below it are in use
  CURRENT_TASK,
  RT_QUEUE,        \* BTreeMap keyed (99 - rt_priority, id)
  CFS_QUEUE,       \* BTreeMap keyed (vruntime, id)
  IDLE_QUEUE,      \* VecDeque
  BLOCKED_TASKS,
  WAKEUP_PENDING,
  state            \* Task::state, by id

schedVars == <<NEXT_ID, CURRENT_TASK, RT_QUEUE, CFS_QUEUE, IDLE_QUEUE,
               BLOCKED_TASKS, WAKEUP_PENDING, state>>

TaskState == {"Running", "Ready", "Blocked"}

Elements(q) == {q[i] : i \in DOMAIN q}
Distinct(q) == \A i, j \in DOMAIN q : q[i] = q[j] => i = j

-----------------------------------------------------------------------------
SchedInit ==
  /\ NEXT_ID = 0
  /\ CURRENT_TASK = NoTask
  /\ RT_QUEUE = {}
  /\ CFS_QUEUE = {}
  /\ IDLE_QUEUE = <<>>
  /\ BLOCKED_TASKS = {}
  /\ WAKEUP_PENDING = {}
  /\ state = [t \in Tasks |-> "Ready"]

(***************************************************************************)
(* enqueue_task_impl: push the tasks of S (at most one) on the queue of    *)
(* their class.  rt, cfs and idle are the queues it is applied to.         *)
(***************************************************************************)
OfClass(S, c) == {t \in S : SchedClass[t] = c}

Enqueue(S, rt, cfs, idle) ==
  /\ RT_QUEUE' = rt \cup OfClass(S, "Realtime")
  /\ CFS_QUEUE' = cfs \cup OfClass(S, "Normal")
  /\ IDLE_QUEUE' = IF \E t \in S : SchedClass[t] = "Idle"
                   THEN Append(idle, CHOOSE t \in S : SchedClass[t] = "Idle")
                   ELSE idle

\* Task::new / new_realtime / new_idle followed by add_task.
AddTask ==
  /\ NEXT_ID \in Tasks
  /\ NEXT_ID' = NEXT_ID + 1
  /\ Enqueue({NEXT_ID}, RT_QUEUE, CFS_QUEUE, IDLE_QUEUE)
  /\ UNCHANGED <<CURRENT_TASK, BLOCKED_TASKS, WAKEUP_PENDING, state>>

\* Task::new followed by set_current_task: kernel_main_inner adopts itself as
\* a task; its state stays Ready.  Called once, when there is no current task.
SetCurrentTask ==
  /\ NEXT_ID \in Tasks
  /\ CURRENT_TASK = NoTask
  /\ NEXT_ID' = NEXT_ID + 1
  /\ CURRENT_TASK' = NEXT_ID
  /\ UNCHANGED <<RT_QUEUE, CFS_QUEUE, IDLE_QUEUE, BLOCKED_TASKS,
                 WAKEUP_PENDING, state>>

(***************************************************************************)
(* schedule(), phase 1: the task popped from the queues, highest class     *)
(* first.  Any task of CFS_QUEUE may be its first (module Cfs refines it). *)
(***************************************************************************)
RtBefore(t, u) ==
  RtPriority[t] > RtPriority[u] \/ (RtPriority[t] = RtPriority[u] /\ t < u)

\* Mutant: the CFS queue is popped without checking that RT_QUEUE is empty.
FirstOfQueues_AnyClass(t) ==
  \/ t \in RT_QUEUE /\ \A u \in RT_QUEUE \ {t} : RtBefore(t, u)
  \/ t \in CFS_QUEUE
  \/ /\ RT_QUEUE = {} /\ CFS_QUEUE = {}
     /\ IDLE_QUEUE # <<>> /\ t = Head(IDLE_QUEUE)

FirstOfQueues(t) ==
  \/ /\ t \in RT_QUEUE
     /\ \A u \in RT_QUEUE \ {t} : RtBefore(t, u)
  \/ /\ RT_QUEUE = {}
     /\ t \in CFS_QUEUE
  \/ /\ RT_QUEUE = {}
     /\ CFS_QUEUE = {}
     /\ IDLE_QUEUE # <<>>
     /\ t = Head(IDLE_QUEUE)

NothingQueued == RT_QUEUE = {} /\ CFS_QUEUE = {} /\ IDLE_QUEUE = <<>>

\* Mutant: schedule() parks a Blocked task without looking at WAKEUP_PENDING.
Parks_IgnorePending(t) == state[t] = "Blocked"

\* Phase 3: the old current task goes to BLOCKED_TASKS only if it is Blocked
\* and no wakeup is pending for it; otherwise it goes back to its queue.
Parks(t) == state[t] = "Blocked" /\ t \notin WAKEUP_PENDING

OldTasks == {CURRENT_TASK} \ {NoTask}

\* Phases 2 and 3 and the context switch, for the task t chosen in phase 1.
SwitchTo(t) ==
  LET parked == {u \in OldTasks : Parks(u)}
      requeued == OldTasks \ parked
      idle == IF SchedClass[t] = "Idle" THEN Tail(IDLE_QUEUE) ELSE IDLE_QUEUE
  IN  /\ CURRENT_TASK' = t
      /\ Enqueue(requeued, RT_QUEUE \ {t}, CFS_QUEUE \ {t}, idle)
      /\ BLOCKED_TASKS' = BLOCKED_TASKS \cup parked
      /\ WAKEUP_PENDING' = WAKEUP_PENDING
                             \ {u \in requeued : state[u] = "Blocked"}
      /\ state' = [u \in Tasks |-> IF u = t THEN "Running"
                                   ELSE IF u \in requeued THEN "Ready"
                                   ELSE state[u]]
      /\ UNCHANGED NEXT_ID

\* schedule(): switch to the first task, or return early when none is queued.
Schedule ==
  \/ \E t \in Tasks : FirstOfQueues(t) /\ SwitchTo(t)
  \/ NothingQueued /\ UNCHANGED schedVars

\* block_current_task(), its critical section: a pending wakeup is consumed
\* and the caller does not block; otherwise it is marked Blocked and calls
\* schedule() afterwards, with interrupts enabled in between.
BlockCurrentTask ==
  /\ CURRENT_TASK # NoTask
  /\ WAKEUP_PENDING' = WAKEUP_PENDING \ {CURRENT_TASK}
  /\ state' = IF CURRENT_TASK \in WAKEUP_PENDING THEN state
              ELSE [state EXCEPT ![CURRENT_TASK] = "Blocked"]
  /\ UNCHANGED <<NEXT_ID, CURRENT_TASK, RT_QUEUE, CFS_QUEUE, IDLE_QUEUE,
                 BLOCKED_TASKS>>

\* Mutant: the parked task is dropped instead of enqueued.
UnblockTask_Dropped(t) ==
  /\ BLOCKED_TASKS' = BLOCKED_TASKS \ {t}
  /\ WAKEUP_PENDING' = IF t \in BLOCKED_TASKS THEN WAKEUP_PENDING
                       ELSE WAKEUP_PENDING \cup {t}
  /\ UNCHANGED <<NEXT_ID, CURRENT_TASK, RT_QUEUE, CFS_QUEUE, IDLE_QUEUE, state>>

\* Mutant: the parked task is enqueued without set_state(Ready).
UnblockTask_StaysBlocked(t) ==
  /\ BLOCKED_TASKS' = BLOCKED_TASKS \ {t}
  /\ Enqueue({t} \cap BLOCKED_TASKS, RT_QUEUE, CFS_QUEUE, IDLE_QUEUE)
  /\ WAKEUP_PENDING' = WAKEUP_PENDING \cup ({t} \ BLOCKED_TASKS)
  /\ UNCHANGED <<NEXT_ID, CURRENT_TASK, state>>

\* unblock_task(): a parked task goes back to its queue; a wakeup for a task
\* that is not parked is remembered in WAKEUP_PENDING.
UnblockTask(t) ==
  /\ IF t \in BLOCKED_TASKS
     THEN /\ BLOCKED_TASKS' = BLOCKED_TASKS \ {t}
          /\ state' = [state EXCEPT ![t] = "Ready"]
          /\ Enqueue({t}, RT_QUEUE, CFS_QUEUE, IDLE_QUEUE)
          /\ UNCHANGED WAKEUP_PENDING
     ELSE /\ WAKEUP_PENDING' = WAKEUP_PENDING \cup {t}
          /\ UNCHANGED <<BLOCKED_TASKS, state, RT_QUEUE, CFS_QUEUE, IDLE_QUEUE>>
  /\ UNCHANGED <<NEXT_ID, CURRENT_TASK>>

SchedNext ==
  \/ AddTask
  \/ SetCurrentTask
  \/ Schedule
  \/ BlockCurrentTask
  \/ \E t \in Tasks : UnblockTask(t)

SchedSpec == SchedInit /\ [][SchedNext]_schedVars

-----------------------------------------------------------------------------
(* Properties *)

\* Every variable has the type its Rust declaration gives it.
SchedTypeOK ==
  /\ NEXT_ID \in 0 .. NumTasks
  /\ CURRENT_TASK \in Tasks \cup {NoTask}
  /\ RT_QUEUE \subseteq Tasks
  /\ CFS_QUEUE \subseteq Tasks
  /\ IDLE_QUEUE \in Seq(Tasks)
  /\ BLOCKED_TASKS \subseteq Tasks
  /\ WAKEUP_PENDING \subseteq Tasks
  /\ state \in [Tasks -> TaskState]

Queued == RT_QUEUE \cup CFS_QUEUE \cup Elements(IDLE_QUEUE)

\* Every task that exists is in exactly one place (current, one queue, or
\* BLOCKED_TASKS), once, and on the queue of its own class: the moves of
\* Box<Task> in schedule() and unblock_task() neither lose nor copy a task.
OneHome ==
  /\ \A t \in Tasks : t < NEXT_ID <=> \/ t = CURRENT_TASK
                                      \/ t \in Queued
                                      \/ t \in BLOCKED_TASKS
  /\ CURRENT_TASK \notin Queued \cup BLOCKED_TASKS
  /\ Queued \cap BLOCKED_TASKS = {}
  /\ \A t \in RT_QUEUE : SchedClass[t] = "Realtime"
  /\ \A t \in CFS_QUEUE : SchedClass[t] = "Normal"
  /\ \A t \in Elements(IDLE_QUEUE) : SchedClass[t] = "Idle"
  /\ Distinct(IDLE_QUEUE)

\* The state field agrees with the place: queued tasks are Ready, tasks in
\* BLOCKED_TASKS are Blocked, and only the current task can be Running.
StateMatchesHome ==
  /\ \A t \in Queued : state[t] = "Ready"
  /\ \A t \in BLOCKED_TASKS : state[t] = "Blocked"
  /\ \A t \in Tasks : state[t] = "Running" => t = CURRENT_TASK
  /\ \A t \in Tasks : t >= NEXT_ID => state[t] = "Ready"

\* A task is never parked in BLOCKED_TASKS with a wakeup still pending for it,
\* whichever of block_current_task, schedule and unblock_task came first: the
\* purpose of WAKEUP_PENDING (blocking.rs:21-27).
NoWakeupOverlooked == BLOCKED_TASKS \cap WAKEUP_PENDING = {}

SchedInv == SchedTypeOK /\ OneHome /\ StateMatchesHome /\ NoWakeupOverlooked

\* Whatever schedule() dispatches, no task of a higher class is left queued by
\* that step ("the queue of a higher class must be empty", scheduler.rs:276),
\* the outgoing task excepted: it is put back after the choice is made.
ClassRank(t) ==
  CASE SchedClass[t] = "Realtime" -> 2
    [] SchedClass[t] = "Normal" -> 1
    [] SchedClass[t] = "Idle" -> 0

DispatchByClass ==
  [][CURRENT_TASK' \notin {CURRENT_TASK, NoTask} /\ NEXT_ID' = NEXT_ID =>
       \A u \in Queued : ClassRank(u) <= ClassRank(CURRENT_TASK')]_schedVars

=============================================================================
