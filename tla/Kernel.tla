------------------------------- MODULE Kernel -------------------------------
(***************************************************************************)
(* The single-core kernel: tasks calling yield_now, sleep_ms and           *)
(* BlockingMutex, preempted by the APIC timer interrupt, whose exit path   *)
(* runs the softirq (timer callbacks) and the scheduler.                   *)
(*                                                                         *)
(* Code that runs with interrupts disabled is one atomic action; an        *)
(* interrupt can strike between any two actions, because interrupts are    *)
(* enabled at every control point named here.  pc[t] is the place of task  *)
(* t in its own code; irq[t] is the stack of interrupt frames on top of it *)
(* (the top is last).  Only the top of CURRENT_TASK's stack executes.      *)
(*                                                                         *)
(* Time is relative: a deadline is kept as the number of ticks left until  *)
(* it (expires_at - TICK_COUNT, 0 once expired), so that TICK_COUNT need   *)
(* not be bounded.                                                         *)
(***************************************************************************)
EXTENDS Sched

CONSTANTS Ops,          \* Ops[t]: the calls task t's loop makes
          Delays,       \* ticks passed to register_timer by sleep_ms
          MaxIrqDepth   \* bound on nested interrupt frames

Main == NumTasks - 1    \* kernel_main_inner, created last

ASSUME KernelAssumption ==
  /\ NumTasks > 0
  /\ Ops \in [Tasks -> SUBSET {"yield", "sleep", "lock", "trylock", "block"}]
  /\ Delays \subseteq Nat \ {0}
  /\ MaxIrqDepth \in Nat
  /\ \E t \in Tasks : t # Main /\ SchedClass[t] = "Idle" /\ Ops[t] = {}

VARIABLES
  TIMER_QUEUE,      \* BinaryHeap<Timer>: sleeping task and ticks left
  PENDING_QUEUE,    \* VecDeque<Timer>: whom the expired callbacks unblock
  SOFTIRQ_PENDING,
  IN_SOFTIRQ,
  NEED_RESCHED,
  locked,           \* BlockingMutex::locked
  waiters,          \* WaitQueue::waiters
  pc,
  irq

timerVars == <<TIMER_QUEUE, PENDING_QUEUE, SOFTIRQ_PENDING>>
mutexVars == <<locked, waiters>>
vars == <<schedVars, timerVars, IN_SOFTIRQ, NEED_RESCHED, mutexVars, pc, irq>>

(***************************************************************************)
(* A task's place: where it is, where block_current_task returns to, whom  *)
(* an unblock_task call names, and the ticks left of the sleep it is in.   *)
(***************************************************************************)
TaskPlaces == {"boot", "run", "arm", "block", "switch", "parked",
               "lock", "wait", "crit", "wake", "unblock"}
IrqPlaces == {"enter", "loop", "pop", "callback", "clear", "cli", "ret"}

At(t) == pc[t].at
Goto(t, place) == pc' = [pc EXCEPT ![t].at = place]

\* Task t executes its own code: it is current and in no interrupt frame.
Executes(t) == CURRENT_TASK = t /\ irq[t] = <<>>

Calls(t, op) == Executes(t) /\ At(t) = "run" /\ op \in Ops[t]

Init ==
  /\ SchedInit
  /\ TIMER_QUEUE = {}
  /\ PENDING_QUEUE = <<>>
  /\ SOFTIRQ_PENDING = FALSE
  /\ IN_SOFTIRQ = FALSE
  /\ NEED_RESCHED = FALSE
  /\ locked = FALSE
  /\ waiters = <<>>
  /\ pc = [t \in Tasks |-> [at |-> IF t = Main THEN "boot" ELSE "run",
                            ret |-> "run", who |-> NoTask, left |-> 0]]
  /\ irq = [t \in Tasks |-> <<>>]

-----------------------------------------------------------------------------
(* kernel_main_inner, with interrupts disabled *)

\* Create the tasks, adopt kernel_main_inner as the current one, then give up
\* the CPU for the first time; interrupts are on once it is resumed.
Boot ==
  /\ At(Main) = "boot"
  /\ \/ /\ NEXT_ID # Main
        /\ CURRENT_TASK = NoTask
        /\ AddTask
        /\ UNCHANGED pc
     \/ /\ NEXT_ID = Main
        /\ SetCurrentTask
        /\ UNCHANGED pc
     \/ /\ CURRENT_TASK = Main
        /\ Schedule
        /\ Goto(Main, "run")
  /\ UNCHANGED <<timerVars, IN_SOFTIRQ, NEED_RESCHED, mutexVars, irq>>

-----------------------------------------------------------------------------
(* sched/blocking.rs and yield_now *)

\* yield_now(), also sleep_ms(0).
YieldNow(t) ==
  /\ Calls(t, "yield")
  /\ Schedule
  /\ UNCHANGED <<timerVars, IN_SOFTIRQ, NEED_RESCHED, mutexVars, pc, irq>>

\* sleep_ms(): Timer::new reads current_tick() ...
SleepMs(t) ==
  /\ Calls(t, "sleep")
  /\ \E d \in Delays :
       pc' = [pc EXCEPT ![t].at = "arm", ![t].ret = "run", ![t].left = d]
  /\ UNCHANGED <<schedVars, timerVars, IN_SOFTIRQ, NEED_RESCHED, mutexVars, irq>>

\* ... and register_timer pushes the timer later, with interrupts disabled.
RegisterTimer(t) ==
  /\ Executes(t) /\ At(t) = "arm"
  /\ TIMER_QUEUE' = TIMER_QUEUE \cup {[task |-> t, left |-> pc[t].left]}
  /\ Goto(t, "block")
  /\ UNCHANGED <<schedVars, PENDING_QUEUE, SOFTIRQ_PENDING, IN_SOFTIRQ,
                 NEED_RESCHED, mutexVars, irq>>

\* KernelMain's final loop: block_current_task() with nobody to wake it.
BlockForever(t) ==
  /\ Calls(t, "block")
  /\ pc' = [pc EXCEPT ![t].at = "block", ![t].ret = "run"]
  /\ UNCHANGED <<schedVars, timerVars, IN_SOFTIRQ, NEED_RESCHED, mutexVars, irq>>

\* Mutant: the task is marked Blocked but goes on without calling schedule().
Block_NoSchedule(t) ==
  /\ Executes(t) /\ At(t) = "block"
  /\ BlockCurrentTask
  /\ Goto(t, pc[t].ret)
  /\ UNCHANGED <<timerVars, IN_SOFTIRQ, NEED_RESCHED, mutexVars, irq>>

\* The critical section of block_current_task().
Block(t) ==
  /\ Executes(t) /\ At(t) = "block"
  /\ BlockCurrentTask
  /\ Goto(t, IF t \in WAKEUP_PENDING THEN pc[t].ret ELSE "switch")
  /\ UNCHANGED <<timerVars, IN_SOFTIRQ, NEED_RESCHED, mutexVars, irq>>

\* should_block: schedule().  The task stays inside switch_context ("parked")
\* until it is dispatched again.
SwitchOut(t) ==
  /\ Executes(t) /\ At(t) = "switch"
  /\ Schedule
  /\ Goto(t, "parked")
  /\ UNCHANGED <<timerVars, IN_SOFTIRQ, NEED_RESCHED, mutexVars, irq>>

Resume(t) ==
  /\ Executes(t) /\ At(t) = "parked"
  /\ Goto(t, pc[t].ret)
  /\ UNCHANGED <<schedVars, timerVars, IN_SOFTIRQ, NEED_RESCHED, mutexVars, irq>>

-----------------------------------------------------------------------------
(* sync/blocking_mutex.rs and sync/wait_queue.rs *)

\* Mutant: a woken waiter takes the lock to be handed over to it.
LockCas_Handoff(t) ==
  /\ Calls(t, "lock") \/ (Executes(t) /\ At(t) = "lock")
  /\ locked' = TRUE
  /\ Goto(t, IF locked /\ At(t) = "run" THEN "wait" ELSE "crit")
  /\ UNCHANGED <<schedVars, timerVars, IN_SOFTIRQ, NEED_RESCHED, waiters, irq>>

\* lock(): the compare_exchange, on entry and again after each wait.
LockCas(t) ==
  /\ Calls(t, "lock") \/ (Executes(t) /\ At(t) = "lock")
  /\ locked' = TRUE
  /\ Goto(t, IF locked THEN "wait" ELSE "crit")
  /\ UNCHANGED <<schedVars, timerVars, IN_SOFTIRQ, NEED_RESCHED, waiters, irq>>

\* Mutant: try_lock() does not look at the result of its compare_exchange.
TryLock_Unchecked(t) ==
  /\ Calls(t, "trylock")
  /\ locked' = TRUE
  /\ Goto(t, "crit")
  /\ UNCHANGED <<schedVars, timerVars, IN_SOFTIRQ, NEED_RESCHED, waiters, irq>>

\* try_lock(), successful; a failed one changes nothing.
TryLock(t) ==
  /\ Calls(t, "trylock")
  /\ ~locked
  /\ locked' = TRUE
  /\ Goto(t, "crit")
  /\ UNCHANGED <<schedVars, timerVars, IN_SOFTIRQ, NEED_RESCHED, waiters, irq>>

\* WaitQueue::wait(): push the caller, then block_current_task().
WaitPush(t) ==
  /\ Executes(t) /\ At(t) = "wait"
  /\ waiters' = Append(waiters, t)
  /\ pc' = [pc EXCEPT ![t].at = "block", ![t].ret = "lock"]
  /\ UNCHANGED <<schedVars, timerVars, IN_SOFTIRQ, NEED_RESCHED, locked, irq>>

\* MutexGuard::drop: locked.store(false) ...
Unlock(t) ==
  /\ Executes(t) /\ At(t) = "crit"
  /\ locked' = FALSE
  /\ Goto(t, "wake")
  /\ UNCHANGED <<schedVars, timerVars, IN_SOFTIRQ, NEED_RESCHED, waiters, irq>>

\* Mutant: wake_one() looks at the front of the queue without removing it.
WakePop_Peek(t) ==
  /\ Executes(t) /\ At(t) = "wake"
  /\ IF waiters = <<>>
     THEN Goto(t, "run")
     ELSE pc' = [pc EXCEPT ![t].at = "unblock", ![t].who = Head(waiters)]
  /\ UNCHANGED <<schedVars, timerVars, IN_SOFTIRQ, NEED_RESCHED, mutexVars, irq>>

\* ... then WaitQueue::wake_one(): pop_front ...
WakePop(t) ==
  /\ Executes(t) /\ At(t) = "wake"
  /\ IF waiters = <<>>
     THEN Goto(t, "run") /\ UNCHANGED waiters
     ELSE /\ pc' = [pc EXCEPT ![t].at = "unblock", ![t].who = Head(waiters)]
          /\ waiters' = Tail(waiters)
  /\ UNCHANGED <<schedVars, timerVars, IN_SOFTIRQ, NEED_RESCHED, locked, irq>>

\* Mutant: the task is put on its queue by hand and stays in BLOCKED_TASKS.
WakeUnblock_Raw(t) ==
  /\ Executes(t) /\ At(t) = "unblock"
  /\ CFS_QUEUE' = CFS_QUEUE \cup {pc[t].who}
  /\ pc' = [pc EXCEPT ![t].at = "run", ![t].who = NoTask]
  /\ UNCHANGED <<NEXT_ID, CURRENT_TASK, RT_QUEUE, IDLE_QUEUE, BLOCKED_TASKS,
                 WAKEUP_PENDING, state, timerVars, IN_SOFTIRQ, NEED_RESCHED,
                 mutexVars, irq>>

\* ... and unblock_task() once the queue's lock is released.
WakeUnblock(t) ==
  /\ Executes(t) /\ At(t) = "unblock"
  /\ UnblockTask(pc[t].who)
  /\ pc' = [pc EXCEPT ![t].at = "run", ![t].who = NoTask]
  /\ UNCHANGED <<timerVars, IN_SOFTIRQ, NEED_RESCHED, mutexVars, irq>>

-----------------------------------------------------------------------------
(* idt.rs and the interrupt exit path *)

Push(frame) == irq' = [irq EXCEPT ![CURRENT_TASK] = Append(@, frame)]
Depth == Len(irq[CURRENT_TASK])
Top == irq[CURRENT_TASK][Depth]
InIrq(place) == CURRENT_TASK # NoTask /\ Depth > 0 /\ Top.at = place
SetTop(frame) == irq' = [irq EXCEPT ![CURRENT_TASK][Depth] = frame]
Iretq == irq' = [irq EXCEPT ![CURRENT_TASK] = SubSeq(@, 1, Depth - 1)]

Frame(place) == [at |-> place, who |-> NoTask]

OneTickLess(n) == IF n = 0 THEN 0 ELSE n - 1

Aged == {[tm EXCEPT !.left = OneTickLess(@)] : tm \in TIMER_QUEUE}
\* Mutant: a timer is taken to be due one tick early.
Expired_Early == {tm \in Aged : tm.left <= 1}
Expired == {tm \in Aged : tm.left = 0}

\* The orders in which check_timers may pop the timers of S: the heap does not
\* order timers of equal expires_at.
Orders(S) ==
  UNION {{q \in [1 .. k -> S] :
            /\ \A tm \in S : \E i \in 1 .. k : q[i] = tm
            /\ \A i, j \in 1 .. k : q[i] = q[j] => i = j} : k \in 0 .. NumTasks}

\* Mutant: check_timers does not raise the softirq while one is being processed.
TimerHandler_NoRaiseInSoftirq ==
  /\ \E q \in Orders(Expired) :
       PENDING_QUEUE' = PENDING_QUEUE \o [i \in DOMAIN q |-> q[i].task]
  /\ TIMER_QUEUE' = Aged \ Expired
  /\ SOFTIRQ_PENDING' = (SOFTIRQ_PENDING \/ (Expired # {} /\ ~IN_SOFTIRQ))
  /\ pc' = [t \in Tasks |-> [pc[t] EXCEPT !.left = OneTickLess(@)]]

\* timer_handler_inner: increment_tick and check_timers (the runtime charge is
\* in module Cfs, set_need_resched in TimerInterrupt).
TimerHandler ==
  /\ \E q \in Orders(Expired) :
       PENDING_QUEUE' = PENDING_QUEUE \o [i \in DOMAIN q |-> q[i].task]
  /\ TIMER_QUEUE' = Aged \ Expired
  /\ SOFTIRQ_PENDING' = (SOFTIRQ_PENDING \/ Expired # {})
  /\ pc' = [t \in Tasks |-> [pc[t] EXCEPT !.left = OneTickLess(@)]]

\* Mutant: the scheduler also runs in the middle of a softirq.
Reschedule_InSoftirq ==
  /\ NEED_RESCHED' = FALSE
  /\ Schedule

\* check_resched_on_interrupt_exit, its scheduling half: skipped inside a
\* softirq.  The task resumes in its interrupt frame, with interrupts enabled.
Reschedule ==
  /\ ~IN_SOFTIRQ
  /\ NEED_RESCHED' = FALSE
  /\ Schedule

\* The timer interrupt strikes the current task: the handler, then the first
\* half of check_resched_on_interrupt_exit up to the sti.
TimerInterrupt ==
  /\ CURRENT_TASK # NoTask /\ At(Main) # "boot"
  /\ Depth < MaxIrqDepth
  /\ TimerHandler
  /\ \/ /\ SOFTIRQ_PENDING'
        /\ NEED_RESCHED' = TRUE
        /\ Push(Frame("enter"))
        /\ UNCHANGED schedVars
     \/ /\ ~SOFTIRQ_PENDING' /\ IN_SOFTIRQ
        /\ NEED_RESCHED' = TRUE
        /\ UNCHANGED <<schedVars, irq>>
     \/ /\ ~SOFTIRQ_PENDING'
        /\ Reschedule
        /\ Push(Frame("ret"))
  /\ UNCHANGED <<IN_SOFTIRQ, mutexVars>>

\* do_softirq(): IN_SOFTIRQ.swap(true) keeps a nested call out.
SoftirqEnter ==
  /\ InIrq("enter")
  /\ IN_SOFTIRQ' = TRUE
  /\ SetTop(Frame(IF IN_SOFTIRQ THEN "cli" ELSE "loop"))
  /\ UNCHANGED <<schedVars, timerVars, NEED_RESCHED, mutexVars, pc>>

\* while SOFTIRQ_PENDING.swap(false)
SoftirqLoop ==
  /\ InIrq("loop")
  /\ SOFTIRQ_PENDING' = FALSE
  /\ SetTop(Frame(IF SOFTIRQ_PENDING THEN "pop" ELSE "clear"))
  /\ UNCHANGED <<schedVars, TIMER_QUEUE, PENDING_QUEUE, IN_SOFTIRQ,
                 NEED_RESCHED, mutexVars, pc>>

\* process_pending_timers(): pop one timer with interrupts disabled ...
SoftirqPop ==
  /\ InIrq("pop")
  /\ IF PENDING_QUEUE = <<>>
     THEN SetTop(Frame("loop")) /\ UNCHANGED PENDING_QUEUE
     ELSE /\ SetTop([at |-> "callback", who |-> Head(PENDING_QUEUE)])
          /\ PENDING_QUEUE' = Tail(PENDING_QUEUE)
  /\ UNCHANGED <<schedVars, TIMER_QUEUE, SOFTIRQ_PENDING, IN_SOFTIRQ,
                 NEED_RESCHED, mutexVars, pc>>

\* ... and run its callback (sleep_ms's closure) with interrupts enabled.
SoftirqCallback ==
  /\ InIrq("callback")
  /\ UnblockTask(Top.who)
  /\ SetTop(Frame("pop"))
  /\ UNCHANGED <<timerVars, IN_SOFTIRQ, NEED_RESCHED, mutexVars, pc>>

\* Mutant: do_softirq() returns with the re-entry flag still set.
SoftirqClear_Forgets ==
  /\ InIrq("clear")
  /\ SetTop(Frame("cli"))
  /\ UNCHANGED <<schedVars, timerVars, IN_SOFTIRQ, NEED_RESCHED, mutexVars, pc>>

\* The end of do_softirq(): IN_SOFTIRQ.store(false).
SoftirqClear ==
  /\ InIrq("clear")
  /\ IN_SOFTIRQ' = FALSE
  /\ SetTop(Frame("cli"))
  /\ UNCHANGED <<schedVars, timerVars, NEED_RESCHED, mutexVars, pc>>

\* Back in check_resched_on_interrupt_exit: cli, then NEED_RESCHED.swap(false)
\* unless in a softirq.
IrqExit ==
  /\ InIrq("cli")
  /\ \/ NEED_RESCHED /\ Reschedule /\ SetTop(Frame("ret"))
     \/ /\ IN_SOFTIRQ \/ ~NEED_RESCHED
        /\ Iretq
        /\ UNCHANGED <<schedVars, NEED_RESCHED>>
  /\ UNCHANGED <<timerVars, IN_SOFTIRQ, mutexVars, pc>>

\* The preempted task is dispatched again and leaves its interrupt frame.
IrqReturn ==
  /\ InIrq("ret")
  /\ Iretq
  /\ UNCHANGED <<schedVars, timerVars, IN_SOFTIRQ, NEED_RESCHED, mutexVars, pc>>

-----------------------------------------------------------------------------
BlockingStep(t) ==
  \/ YieldNow(t) \/ SleepMs(t) \/ RegisterTimer(t) \/ BlockForever(t)
  \/ Block(t) \/ SwitchOut(t) \/ Resume(t)

MutexStep(t) ==
  \/ LockCas(t) \/ TryLock(t) \/ WaitPush(t)
  \/ Unlock(t) \/ WakePop(t) \/ WakeUnblock(t)

IrqStep ==
  \/ SoftirqEnter \/ SoftirqLoop \/ SoftirqPop \/ SoftirqCallback
  \/ SoftirqClear \/ IrqExit \/ IrqReturn

Next ==
  \/ Boot
  \/ \E t \in Tasks : BlockingStep(t) \/ MutexStep(t)
  \/ TimerInterrupt
  \/ IrqStep

Spec == Init /\ [][Next]_vars

(***************************************************************************)
(* The timer keeps interrupting, and code that is on the CPU again and     *)
(* again gets to execute, be it an interrupt frame under nested ticks or a *)
(* task: the ticks are 4 ms apart, far longer than any one step takes.     *)
(***************************************************************************)
Fairness ==
  /\ WF_vars(Boot)
  /\ WF_vars(TimerInterrupt)
  /\ \A d \in 1 .. MaxIrqDepth : SF_vars(IrqStep /\ Depth = d)
  /\ \A t \in Tasks : SF_vars(BlockingStep(t) \/ MutexStep(t))

FairSpec == Spec /\ Fairness

-----------------------------------------------------------------------------
(* Properties *)

\* The lock flag is set exactly while one task holds the guard, however lock,
\* try_lock and drop interleave with preemption and wakeups.
MutualExclusion ==
  /\ \A t, u \in Tasks : At(t) = "crit" /\ At(u) = "crit" => t = u
  /\ locked <=> \E t \in Tasks : At(t) = "crit"

\* No task runs on while marked Blocked: it is on its way into schedule() or
\* switched out.  block_current_task relies on schedule() finding a successor
\* (the idle task), since schedule()'s early return would break this.
NeverRunsBlocked ==
  \A t \in Tasks : state[t] = "Blocked" =>
    /\ At(t) \in {"switch", "parked"}
    /\ t = CURRENT_TASK => At(t) = "switch"

\* Task t has gone to sleep or to wait and no wakeup has reached it yet.
Waiting(t) ==
  \/ At(t) = "block"
  \/ At(t) \in {"switch", "parked"} /\ state[t] = "Blocked"

\* Every place a wakeup for task t can be on its way.
Wakes(t) ==
  {<<"timer", tm.left>> : tm \in {x \in TIMER_QUEUE : x.task = t}}
    \cup {<<"pending", i>> : i \in {j \in DOMAIN PENDING_QUEUE : PENDING_QUEUE[j] = t}}
    \cup {<<"waiter", i>> : i \in {j \in DOMAIN waiters : waiters[j] = t}}
    \cup {<<"unblock", u>> : u \in {v \in Tasks : At(v) = "unblock" /\ pc[v].who = t}}
    \cup (UNION {{<<"callback", u, i>> :
                    i \in {j \in DOMAIN irq[u] : irq[u][j] = [at |-> "callback", who |-> t]}} :
                 u \in Tasks})
    \cup {<<"remembered">> : u \in {t} \cap WAKEUP_PENDING}

\* A wait is answered by exactly one wakeup: while a task waits, one wakeup for
\* it is in a timer, a queue, a callback or WAKEUP_PENDING, and no wakeup is
\* left over once it runs.  So no sleeper or waiter is forgotten, none is woken
\* by an earlier wait's signal, and no id is twice in a wait queue.
OneWakePerWait ==
  \A t \in Tasks :
    /\ \A v, w \in Wakes(t) : v = w
    /\ Wakes(t) # {} => Waiting(t)
    /\ Waiting(t) /\ "block" \notin Ops[t] => Wakes(t) # {}

\* sleep_ms(n) does not return before the n-th tick after it read the clock.
SleepNeverEarly ==
  [][\A t \in Tasks : At(t) \in {"block", "parked"} /\ pc[t].ret = "run"
                        /\ At(t)' = "run" => pc[t].left = 0]_vars

Handles(t, i) == irq[t][i].at \in {"loop", "pop", "callback", "clear"}

\* IN_SOFTIRQ is set exactly while one frame of the current task is inside
\* do_softirq: no context switch happens in the middle of a softirq, which
\* would leave the flag set and silence every later softirq (timer.rs:198-200).
SoftirqStaysOnCpu ==
  /\ IN_SOFTIRQ <=> \E t \in Tasks : \E i \in DOMAIN irq[t] : Handles(t, i)
  /\ \A t, u \in Tasks : \A i \in DOMAIN irq[t], j \in DOMAIN irq[u] :
       Handles(t, i) /\ Handles(u, j) => t = CURRENT_TASK /\ t = u /\ i = j

\* An expired timer is never left in PENDING_QUEUE with nobody due to run it:
\* the softirq flag is up or a frame is draining the queue.
NoStrandedTimer ==
  PENDING_QUEUE # <<>> =>
    \/ SOFTIRQ_PENDING
    \/ \E t \in Tasks : \E i \in DOMAIN irq[t] : irq[t][i].at \in {"pop", "callback"}

\* The guard's holder, for the refinement of MutexSpec.
Holder == IF \E t \in Tasks : At(t) = "crit"
          THEN CHOOSE t \in Tasks : At(t) = "crit" ELSE NoTask

AbstractMutex == INSTANCE MutexSpec WITH holder <- Holder, running <- CURRENT_TASK

\* The CAS, wait queue and wakeups implement the abstract mutex: a guard is taken
\* and dropped by the task on the CPU only, never handed to a task that is woken,
\* and passes from one task to another only through a release.
ImplementsMutex == AbstractMutex!Spec

\* Every sleeper is made runnable again: its timer expires, the softirq runs
\* its callback and unblock_task reaches it, wherever ticks strike.
SleepersWake ==
  \A t \in Tasks : "block" \notin Ops[t] =>
    (state[t] = "Blocked" /\ pc[t].ret = "run" ~> state[t] = "Ready")

-----------------------------------------------------------------------------
(* What a comment promises and the code does not do (see README) *)

\* blocking.rs:54-57: no race between wait() and wake_one() loses a wakeup: a
\* task parked in the wait queue finds the mutex held or a wake_one on its way.
NoLostMutexWakeup ==
  \A i \in DOMAIN waiters :
    waiters[i] \in BLOCKED_TASKS =>
      locked \/ \E u \in Tasks : At(u) \in {"wake", "unblock"}

=============================================================================
