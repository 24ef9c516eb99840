---------------------------- MODULE KernelProofs ----------------------------
(***************************************************************************)
(* For every set of tasks, delays, calls and interrupt depth: the kernel   *)
(* uses the scheduler only through its operations (so every theorem of     *)
(* SchedProofs holds of the kernel), the mutex is one, a softirq is never  *)
(* switched out, an expired timer is never stranded, no task runs on while *)
(* it is marked Blocked, every wait is answered by exactly one wakeup, and *)
(* no sleeper returns early.                                               *)
(***************************************************************************)
EXTENDS Kernel, SchedProofs

-----------------------------------------------------------------------------
(* Types *)

Place == [at : TaskPlaces, ret : {"run", "lock"}, who : Tasks \cup {NoTask},
          left : Nat]
IrqFrame == [at : IrqPlaces, who : Tasks \cup {NoTask}]

\* Every variable of the kernel has its type, and the task that unblock_task
\* is about to be called for is a task.
KernelTypeOK ==
  /\ TIMER_QUEUE \subseteq [task : Tasks, left : Nat]
  /\ PENDING_QUEUE \in Seq(Tasks)
  /\ SOFTIRQ_PENDING \in BOOLEAN
  /\ IN_SOFTIRQ \in BOOLEAN
  /\ NEED_RESCHED \in BOOLEAN
  /\ locked \in BOOLEAN
  /\ waiters \in Seq(Tasks)
  /\ pc \in [Tasks -> Place]
  /\ irq \in [Tasks -> Seq(IrqFrame)]
  /\ \A t \in Tasks : At(t) = "unblock" => pc[t].who \in Tasks
  /\ \A t \in Tasks : \A i \in DOMAIN irq[t] :
       irq[t][i].at = "callback" => irq[t][i].who \in Tasks

\* What an interrupt's entry does to the stacks of frames.
LEMMA PushEffect ==
  ASSUME irq \in [Tasks -> Seq(IrqFrame)], CURRENT_TASK \in Tasks,
         NEW f \in IrqFrame, Push(f)
  PROVE  /\ irq' \in [Tasks -> Seq(IrqFrame)]
         /\ \A u \in Tasks \ {CURRENT_TASK} : irq'[u] = irq[u]
         /\ Depth \in Nat /\ DOMAIN irq[CURRENT_TASK] = 1 .. Depth
         /\ DOMAIN irq'[CURRENT_TASK] = 1 .. Depth + 1
         /\ \A i \in 1 .. Depth : irq'[CURRENT_TASK][i] = irq[CURRENT_TASK][i]
         /\ irq'[CURRENT_TASK][Depth + 1] = f
<1>1. irq[CURRENT_TASK] \in Seq(IrqFrame)
  OBVIOUS
<1>2. irq'[CURRENT_TASK] = Append(irq[CURRENT_TASK], f)
  BY DEF Push
<1>3. irq' \in [Tasks -> Seq(IrqFrame)] /\ \A u \in Tasks \ {CURRENT_TASK} : irq'[u] = irq[u]
  BY <1>1 DEF Push
<1>4. QED
  BY <1>1, <1>2, <1>3 DEF Depth

\* What moving the top frame on does to the stacks.
LEMMA SetTopEffect ==
  ASSUME irq \in [Tasks -> Seq(IrqFrame)], CURRENT_TASK \in Tasks, Depth > 0,
         NEW f \in IrqFrame, SetTop(f)
  PROVE  /\ irq' \in [Tasks -> Seq(IrqFrame)]
         /\ \A u \in Tasks \ {CURRENT_TASK} : irq'[u] = irq[u]
         /\ Depth \in Nat \ {0} /\ DOMAIN irq[CURRENT_TASK] = 1 .. Depth
         /\ DOMAIN irq'[CURRENT_TASK] = 1 .. Depth
         /\ \A i \in 1 .. Depth - 1 : irq'[CURRENT_TASK][i] = irq[CURRENT_TASK][i]
         /\ irq'[CURRENT_TASK][Depth] = f
         /\ Top = irq[CURRENT_TASK][Depth]
<1>1. irq[CURRENT_TASK] \in Seq(IrqFrame)
  OBVIOUS
<1>2. Depth \in Nat \ {0} /\ DOMAIN irq[CURRENT_TASK] = 1 .. Depth
  BY <1>1 DEF Depth
<1>3. irq'[CURRENT_TASK] = [irq[CURRENT_TASK] EXCEPT ![Depth] = f]
  BY DEF SetTop
<1>4. irq'[CURRENT_TASK] \in Seq(IrqFrame)
  BY <1>1, <1>2, <1>3
<1>5. irq' \in [Tasks -> Seq(IrqFrame)] /\ \A u \in Tasks \ {CURRENT_TASK} : irq'[u] = irq[u]
  BY <1>3, <1>4 DEF SetTop
<1>6. QED
  BY <1>1, <1>2, <1>3, <1>5 DEF Top

\* What leaving the top frame does to the stacks.
LEMMA IretqEffect ==
  ASSUME irq \in [Tasks -> Seq(IrqFrame)], CURRENT_TASK \in Tasks, Depth > 0,
         Iretq
  PROVE  /\ irq' \in [Tasks -> Seq(IrqFrame)]
         /\ \A u \in Tasks \ {CURRENT_TASK} : irq'[u] = irq[u]
         /\ Depth \in Nat \ {0} /\ DOMAIN irq[CURRENT_TASK] = 1 .. Depth
         /\ DOMAIN irq'[CURRENT_TASK] = 1 .. Depth - 1
         /\ \A i \in 1 .. Depth - 1 : irq'[CURRENT_TASK][i] = irq[CURRENT_TASK][i]
         /\ Top = irq[CURRENT_TASK][Depth]
<1>1. irq[CURRENT_TASK] \in Seq(IrqFrame)
  OBVIOUS
<1>2. Depth \in Nat \ {0} /\ DOMAIN irq[CURRENT_TASK] = 1 .. Depth
  BY <1>1 DEF Depth
<1>3. irq'[CURRENT_TASK] = SubSeq(irq[CURRENT_TASK], 1, Depth - 1)
  BY DEF Iretq
<1>4. /\ irq'[CURRENT_TASK] \in Seq(IrqFrame)
      /\ DOMAIN irq'[CURRENT_TASK] = 1 .. Depth - 1
      /\ \A i \in 1 .. Depth - 1 : irq'[CURRENT_TASK][i] = irq[CURRENT_TASK][i]
  BY <1>1, <1>2, <1>3 DEF Depth
<1>5. irq' \in [Tasks -> Seq(IrqFrame)] /\ \A u \in Tasks \ {CURRENT_TASK} : irq'[u] = irq[u]
  BY <1>3, <1>4 DEF Iretq
<1>6. QED
  BY <1>2, <1>4, <1>5 DEF Top

\* What a jump of task t does to the tasks' places.
LEMMA GotoEffect ==
  ASSUME pc \in [Tasks -> Place], NEW t \in Tasks, NEW p \in TaskPlaces,
         Goto(t, p)
  PROVE  /\ pc' \in [Tasks -> Place]
         /\ \A u \in Tasks \ {t} : pc'[u] = pc[u]
         /\ pc'[t].at = p /\ pc'[t].ret = pc[t].ret
         /\ pc'[t].who = pc[t].who /\ pc'[t].left = pc[t].left
BY DEF Goto, Place

\* Any change of task t's place that keeps the type.
LEMMA PlaceType ==
  ASSUME KernelTypeOK, NEW t \in Tasks, pc' \in [Tasks -> Place],
         \A u \in Tasks \ {t} : pc'[u] = pc[u],
         pc'[t].at = "unblock" => pc'[t].who \in Tasks,
         TIMER_QUEUE' \subseteq [task : Tasks, left : Nat], locked' \in BOOLEAN,
         waiters' \in Seq(Tasks),
         UNCHANGED <<PENDING_QUEUE, SOFTIRQ_PENDING, IN_SOFTIRQ, NEED_RESCHED, irq>>
  PROVE  KernelTypeOK'
<1>1. ASSUME NEW u \in Tasks, pc'[u].at = "unblock" PROVE pc'[u].who \in Tasks
  <2>1. CASE u = t
    BY <1>1, <2>1
  <2>2. CASE u # t
    BY <1>1, <2>2 DEF KernelTypeOK, At
  <2>3. QED
    BY <2>1, <2>2
<1>2. QED
  BY <1>1 DEF KernelTypeOK, At

\* Types, for the steps of sleep_ms, block_current_task and unblock_task.
LEMMA BlockingType ==
  ASSUME KernelTypeOK, NEW t \in Tasks, BlockingStep(t)
  PROVE  KernelTypeOK'
<1> USE DEF timerVars, mutexVars
<1>0. pc \in [Tasks -> Place]
  BY DEF KernelTypeOK
<1>1. CASE YieldNow(t)
  BY <1>1 DEF YieldNow, KernelTypeOK, At
<1>2. CASE SleepMs(t)
  <2>1. PICK d \in Delays :
          pc' = [pc EXCEPT ![t].at = "arm", ![t].ret = "run", ![t].left = d]
    BY <1>2 DEF SleepMs
  <2>2. d \in Nat
    BY KernelAssumption
  <2>3. /\ pc' \in [Tasks -> Place]
        /\ \A u \in Tasks \ {t} : pc'[u] = pc[u]
        /\ pc'[t].at = "arm"
    BY <1>0, <2>1, <2>2, ZenonT(60) DEF Place, TaskPlaces
  <2>4. QED
    BY <1>2, <2>3, PlaceType DEF SleepMs, KernelTypeOK
<1>3. CASE RegisterTimer(t)
  <2>1. /\ pc' \in [Tasks -> Place]
        /\ \A u \in Tasks \ {t} : pc'[u] = pc[u]
        /\ pc'[t].at = "block"
    BY <1>0, <1>3, GotoEffect DEF RegisterTimer, TaskPlaces
  <2>2. pc[t].left \in Nat
    BY <1>0 DEF Place
  <2>3. [task |-> t, left |-> pc[t].left] \in [task : Tasks, left : Nat]
    BY <2>2
  <2>4. TIMER_QUEUE' \subseteq [task : Tasks, left : Nat]
    BY <1>3, <2>3 DEF RegisterTimer, KernelTypeOK
  <2>5. QED
    BY <1>3, <2>1, <2>4, PlaceType DEF RegisterTimer, KernelTypeOK
<1>4. CASE BlockForever(t)
  <2>1. /\ pc' \in [Tasks -> Place]
        /\ \A u \in Tasks \ {t} : pc'[u] = pc[u]
        /\ pc'[t].at = "block"
    BY <1>0, <1>4, ZenonT(60) DEF BlockForever, Place, TaskPlaces
  <2>2. QED
    BY <1>4, <2>1, PlaceType DEF BlockForever, KernelTypeOK
<1>5. CASE Block(t) \/ SwitchOut(t) \/ Resume(t)
  <2>1. pc[t].ret \in {"run", "lock"}
    BY <1>0 DEF Place
  <2>2. PICK p \in TaskPlaces : p # "unblock" /\ Goto(t, p)
    BY <1>5, <2>1 DEF Block, SwitchOut, Resume, TaskPlaces
  <2>3. /\ pc' \in [Tasks -> Place]
        /\ \A u \in Tasks \ {t} : pc'[u] = pc[u]
        /\ pc'[t].at = p
    BY <1>0, <2>2, GotoEffect
  <2>4. QED
    BY <1>5, <2>2, <2>3, PlaceType, ZenonT(60) DEF Block, SwitchOut, Resume, KernelTypeOK
<1>6. QED
  BY <1>1, <1>2, <1>3, <1>4, <1>5 DEF BlockingStep

\* Types, for the steps of the mutex.
LEMMA MutexType ==
  ASSUME KernelTypeOK, NEW t \in Tasks, MutexStep(t)
  PROVE  KernelTypeOK'
<1> USE DEF timerVars, mutexVars
<1>0. pc \in [Tasks -> Place] /\ waiters \in Seq(Tasks)
  BY DEF KernelTypeOK
<1>1. CASE LockCas(t) \/ TryLock(t) \/ Unlock(t)
  <2>1. PICK p \in TaskPlaces : p # "unblock" /\ Goto(t, p)
    BY <1>1 DEF LockCas, TryLock, Unlock, TaskPlaces
  <2>2. /\ pc' \in [Tasks -> Place]
        /\ \A u \in Tasks \ {t} : pc'[u] = pc[u]
        /\ pc'[t].at = p
    BY <1>0, <2>1, GotoEffect
  <2>3. QED
    BY <1>1, <2>1, <2>2, PlaceType, ZenonT(60) DEF LockCas, TryLock, Unlock, KernelTypeOK
<1>2. CASE WaitPush(t)
  <2>1. /\ pc' \in [Tasks -> Place]
        /\ \A u \in Tasks \ {t} : pc'[u] = pc[u]
        /\ pc'[t].at = "block"
    BY <1>0, <1>2, ZenonT(60) DEF WaitPush, Place, TaskPlaces
  <2>2. waiters' \in Seq(Tasks)
    BY <1>0, <1>2 DEF WaitPush
  <2>3. QED
    BY <1>2, <2>1, <2>2, PlaceType DEF WaitPush, KernelTypeOK
<1>3. CASE WakePop(t) /\ waiters = <<>>
  <2>1. Goto(t, "run") /\ UNCHANGED waiters
    BY <1>3 DEF WakePop
  <2>2. /\ pc' \in [Tasks -> Place]
        /\ \A u \in Tasks \ {t} : pc'[u] = pc[u]
        /\ pc'[t].at = "run"
    BY <1>0, <2>1, GotoEffect DEF TaskPlaces
  <2>3. QED
    BY <1>3, <2>1, <2>2, PlaceType DEF WakePop, KernelTypeOK
<1>4. CASE WakePop(t) /\ waiters # <<>>
  <2>1. /\ pc' = [pc EXCEPT ![t].at = "unblock", ![t].who = Head(waiters)]
        /\ waiters' = Tail(waiters)
    BY <1>4 DEF WakePop
  <2>2. Head(waiters) \in Tasks /\ Tail(waiters) \in Seq(Tasks)
    BY <1>0, <1>4
  <2>3. /\ pc' \in [Tasks -> Place]
        /\ \A u \in Tasks \ {t} : pc'[u] = pc[u]
        /\ pc'[t].who = Head(waiters)
    BY <1>0, <2>1, <2>2, ZenonT(60) DEF Place, TaskPlaces
  <2>4. UNCHANGED <<timerVars, IN_SOFTIRQ, NEED_RESCHED, locked, irq>>
    BY <1>4 DEF WakePop
  <2>5. waiters' \in Seq(Tasks) /\ pc'[t].who \in Tasks
    BY <2>1, <2>2, <2>3
  <2>6. QED
    BY <2>3, <2>4, <2>5, PlaceType DEF KernelTypeOK
<1>5. CASE WakeUnblock(t)
  <2>1. /\ pc' \in [Tasks -> Place]
        /\ \A u \in Tasks \ {t} : pc'[u] = pc[u]
        /\ pc'[t].at = "run"
    BY <1>0, <1>5, ZenonT(60) DEF WakeUnblock, Place, TaskPlaces
  <2>2. QED
    BY <1>5, <2>1, PlaceType DEF WakeUnblock, KernelTypeOK
<1>6. QED
  BY <1>1, <1>2, <1>3, <1>4, <1>5 DEF MutexStep

\* Types, for a new frame.
LEMMA FrameType == \A p \in IrqPlaces : Frame(p) \in IrqFrame
  BY DEF Frame, IrqFrame

\* What the timer interrupt's handler does to the queues and to the time left.
LEMMA HandlerType ==
  ASSUME KernelTypeOK, TimerHandler
  PROVE  /\ TIMER_QUEUE' \subseteq [task : Tasks, left : Nat]
         /\ PENDING_QUEUE' \in Seq(Tasks)
         /\ SOFTIRQ_PENDING' \in BOOLEAN
         /\ pc' \in [Tasks -> Place]
         /\ \A t \in Tasks : /\ pc'[t].at = pc[t].at /\ pc'[t].ret = pc[t].ret
                             /\ pc'[t].who = pc[t].who
                             /\ pc'[t].left = OneTickLess(pc[t].left)
<1>1. \A n \in Nat : OneTickLess(n) \in Nat
  BY DEF OneTickLess
<1>2. Aged \subseteq [task : Tasks, left : Nat]
  BY <1>1, ZenonT(60) DEF Aged, KernelTypeOK
<1>3. PENDING_QUEUE' \in Seq(Tasks)
  <2>1. PICK q \in Orders(Expired) :
          PENDING_QUEUE' = PENDING_QUEUE \o [i \in DOMAIN q |-> q[i].task]
    BY DEF TimerHandler
  <2>2. PICK k \in 0 .. NumTasks : q \in [1 .. k -> Expired]
    BY <2>1 DEF Orders
  <2>3. k \in Nat
    BY <2>2
  <2>4. \A i \in 1 .. k : q[i].task \in Tasks
    BY <1>2, <2>2 DEF Expired
  <2>5. DOMAIN q = 1 .. k
    BY <2>2
  <2>6. [i \in DOMAIN q |-> q[i].task] \in Seq(Tasks)
    BY <2>3, <2>4, <2>5
  <2>7. QED
    BY <2>1, <2>6 DEF KernelTypeOK
<1>4. TIMER_QUEUE' \subseteq [task : Tasks, left : Nat] /\ SOFTIRQ_PENDING' \in BOOLEAN
  BY <1>2 DEF TimerHandler, KernelTypeOK
<1>5. pc \in [Tasks -> Place]
  BY DEF KernelTypeOK
<1>6. pc' = [t \in Tasks |-> [pc[t] EXCEPT !.left = OneTickLess(@)]]
  BY DEF TimerHandler
<1>7. QED
  BY <1>1, <1>3, <1>4, <1>5, <1>6, ZenonT(60) DEF Place

\* The current task exists once interrupts strike.
LEMMA InIrqCurrent ==
  ASSUME SchedTypeOK, NEW p, InIrq(p)
  PROVE  CURRENT_TASK \in Tasks /\ Depth > 0 /\ Top.at = p
BY DEF SchedTypeOK, InIrq

\* Any change of the current task's stack that keeps the type.
LEMMA StackType ==
  ASSUME KernelTypeOK, CURRENT_TASK \in Tasks,
         irq' \in [Tasks -> Seq(IrqFrame)],
         \A u \in Tasks \ {CURRENT_TASK} : irq'[u] = irq[u],
         \A i \in DOMAIN irq'[CURRENT_TASK] :
           irq'[CURRENT_TASK][i].at = "callback" =>
             irq'[CURRENT_TASK][i].who \in Tasks,
         pc' \in [Tasks -> Place],
         \A t \in Tasks : pc'[t].at = pc[t].at /\ pc'[t].who = pc[t].who,
         TIMER_QUEUE' \subseteq [task : Tasks, left : Nat],
         PENDING_QUEUE' \in Seq(Tasks), SOFTIRQ_PENDING' \in BOOLEAN,
         IN_SOFTIRQ' \in BOOLEAN, NEED_RESCHED' \in BOOLEAN, UNCHANGED mutexVars
  PROVE  KernelTypeOK'
<1>1. ASSUME NEW u \in Tasks, NEW i \in DOMAIN irq'[u], irq'[u][i].at = "callback"
      PROVE  irq'[u][i].who \in Tasks
  <2>1. CASE u = CURRENT_TASK
    BY <1>1, <2>1
  <2>2. CASE u # CURRENT_TASK
    BY <1>1, <2>2 DEF KernelTypeOK
  <2>3. QED
    BY <2>1, <2>2
<1>2. QED
  BY <1>1 DEF KernelTypeOK, At, mutexVars

\* Types, for the timer interrupt.
LEMMA InterruptType ==
  ASSUME KernelTypeOK, SchedTypeOK, TimerInterrupt
  PROVE  KernelTypeOK'
<1>1. CURRENT_TASK \in Tasks /\ TimerHandler /\ UNCHANGED <<IN_SOFTIRQ, mutexVars>>
  BY DEF TimerInterrupt, SchedTypeOK
<1>2. irq \in [Tasks -> Seq(IrqFrame)]
  BY DEF KernelTypeOK
<1>3. NEED_RESCHED' \in BOOLEAN
  BY DEF TimerInterrupt, Reschedule
<1>4. CASE UNCHANGED irq
  <2>1. \A i \in DOMAIN irq'[CURRENT_TASK] : irq'[CURRENT_TASK][i].at = "callback" =>
             irq'[CURRENT_TASK][i].who \in Tasks
    BY <1>1, <1>4 DEF KernelTypeOK
  <2>2. QED
    BY <1>1, <1>2, <1>3, <1>4, <2>1, HandlerType, StackType DEF KernelTypeOK
<1>5. CASE ~ UNCHANGED irq
  <2>1. PICK p \in {"enter", "ret"} : Push(Frame(p))
    BY <1>5 DEF TimerInterrupt
  <2>2. Frame(p) \in IrqFrame /\ Frame(p).at # "callback"
    BY FrameType DEF IrqPlaces, Frame
  <2>3. /\ irq' \in [Tasks -> Seq(IrqFrame)]
        /\ \A u \in Tasks \ {CURRENT_TASK} : irq'[u] = irq[u]
        /\ Depth \in Nat /\ DOMAIN irq[CURRENT_TASK] = 1 .. Depth
        /\ DOMAIN irq'[CURRENT_TASK] = 1 .. Depth + 1
        /\ \A i \in 1 .. Depth : irq'[CURRENT_TASK][i] = irq[CURRENT_TASK][i]
        /\ irq'[CURRENT_TASK][Depth + 1] = Frame(p)
    BY <1>1, <1>2, <2>1, <2>2, PushEffect
  <2>4. \A i \in DOMAIN irq'[CURRENT_TASK] : irq'[CURRENT_TASK][i].at = "callback" =>
             irq'[CURRENT_TASK][i].who \in Tasks
    <3>1. ASSUME NEW i \in 1 .. Depth + 1, irq'[CURRENT_TASK][i].at = "callback"
          PROVE  i \in 1 .. Depth
      BY <2>2, <2>3, <3>1
    <3>2. QED
      BY <1>1, <2>3, <3>1 DEF KernelTypeOK
  <2>5. QED
    BY <1>1, <1>3, <2>3, <2>4, HandlerType, StackType DEF KernelTypeOK
<1>6. QED
  BY <1>4, <1>5

\* Moving the top frame on, or leaving it, keeps the type.
LEMMA TopType ==
  ASSUME KernelTypeOK, SchedTypeOK, NEW p, InIrq(p),
         \/ Iretq
         \/ \E f \in IrqFrame : SetTop(f) /\ (f.at = "callback" => f.who \in Tasks),
         PENDING_QUEUE' \in Seq(Tasks), SOFTIRQ_PENDING' \in BOOLEAN,
         IN_SOFTIRQ' \in BOOLEAN, NEED_RESCHED' \in BOOLEAN,
         UNCHANGED <<TIMER_QUEUE, mutexVars, pc>>
  PROVE  KernelTypeOK'
<1>1. CURRENT_TASK \in Tasks /\ Depth > 0
  BY InIrqCurrent
<1>2. irq \in [Tasks -> Seq(IrqFrame)] /\ pc \in [Tasks -> Place]
      /\ TIMER_QUEUE \subseteq [task : Tasks, left : Nat]
  BY DEF KernelTypeOK
<1>3. \A i \in DOMAIN irq[CURRENT_TASK] : irq[CURRENT_TASK][i].at = "callback" =>
             irq[CURRENT_TASK][i].who \in Tasks
  BY <1>1 DEF KernelTypeOK
<1>4. CASE Iretq
  <2>1. /\ irq' \in [Tasks -> Seq(IrqFrame)]
        /\ \A u \in Tasks \ {CURRENT_TASK} : irq'[u] = irq[u]
        /\ Depth \in Nat \ {0} /\ DOMAIN irq[CURRENT_TASK] = 1 .. Depth
        /\ DOMAIN irq'[CURRENT_TASK] = 1 .. Depth - 1
        /\ \A i \in 1 .. Depth - 1 : irq'[CURRENT_TASK][i] = irq[CURRENT_TASK][i]
    BY <1>1, <1>2, <1>4, IretqEffect
  <2>2. \A i \in DOMAIN irq'[CURRENT_TASK] : irq'[CURRENT_TASK][i].at = "callback" =>
             irq'[CURRENT_TASK][i].who \in Tasks
    BY <1>3, <2>1, SMTT(60)
  <2>3. QED
    BY <1>1, <1>2, <2>1, <2>2, StackType
<1>5. CASE ~ Iretq
  <2>1. PICK f \in IrqFrame : SetTop(f) /\ (f.at = "callback" => f.who \in Tasks)
    BY <1>5
  <2>2. /\ irq' \in [Tasks -> Seq(IrqFrame)]
        /\ \A u \in Tasks \ {CURRENT_TASK} : irq'[u] = irq[u]
        /\ Depth \in Nat \ {0} /\ DOMAIN irq[CURRENT_TASK] = 1 .. Depth
        /\ DOMAIN irq'[CURRENT_TASK] = 1 .. Depth
        /\ \A i \in 1 .. Depth - 1 : irq'[CURRENT_TASK][i] = irq[CURRENT_TASK][i]
        /\ irq'[CURRENT_TASK][Depth] = f
    BY <1>1, <1>2, <2>1, SetTopEffect
  <2>3. ASSUME NEW i \in DOMAIN irq'[CURRENT_TASK],
               irq'[CURRENT_TASK][i].at = "callback"
        PROVE  irq'[CURRENT_TASK][i].who \in Tasks
    <3>1. CASE i = Depth
      BY <2>1, <2>2, <2>3, <3>1
    <3>2. CASE i # Depth
      <4>1. i \in 1 .. Depth - 1 /\ i \in DOMAIN irq[CURRENT_TASK]
        BY <2>2, <3>2
      <4>2. QED
        BY <1>3, <2>2, <2>3, <4>1
    <3>3. QED
      BY <3>1, <3>2
  <2>4. QED
    BY <1>1, <1>2, <2>2, <2>3, StackType
<1>6. QED
  BY <1>4, <1>5

\* Types, for the rest of the handler.
LEMMA IrqType ==
  ASSUME KernelTypeOK, SchedTypeOK, IrqStep
  PROVE  KernelTypeOK'
<1> USE DEF timerVars
<1>0. /\ PENDING_QUEUE \in Seq(Tasks) /\ SOFTIRQ_PENDING \in BOOLEAN
      /\ IN_SOFTIRQ \in BOOLEAN /\ NEED_RESCHED \in BOOLEAN
  BY DEF KernelTypeOK
<1>1. \A p \in IrqPlaces \ {"callback"} : SetTop(Frame(p)) =>
        \E f \in IrqFrame : SetTop(f) /\ (f.at = "callback" => f.who \in Tasks)
  BY FrameType DEF Frame
<1>2. CASE SoftirqEnter
  BY <1>0, <1>1, <1>2, TopType DEF SoftirqEnter, IrqPlaces
<1>3. CASE SoftirqLoop
  BY <1>0, <1>1, <1>3, TopType DEF SoftirqLoop, IrqPlaces
<1>4. CASE SoftirqPop /\ PENDING_QUEUE = <<>>
  BY <1>0, <1>1, <1>4, TopType DEF SoftirqPop, IrqPlaces
<1>5. CASE SoftirqPop /\ PENDING_QUEUE # <<>>
  <2> DEFINE f == [at |-> "callback", who |-> Head(PENDING_QUEUE)]
  <2>1. Head(PENDING_QUEUE) \in Tasks /\ Tail(PENDING_QUEUE) \in Seq(Tasks)
    BY <1>0, <1>5
  <2>2. f \in IrqFrame /\ f.who \in Tasks
    BY <2>1 DEF IrqFrame, IrqPlaces
  <2>3. SetTop(f) /\ InIrq("pop") /\ PENDING_QUEUE' = Tail(PENDING_QUEUE)
        /\ UNCHANGED <<TIMER_QUEUE, SOFTIRQ_PENDING, IN_SOFTIRQ, NEED_RESCHED, mutexVars, pc>>
    BY <1>5 DEF SoftirqPop
  <2> HIDE DEF f
  <2>4. QED
    BY <1>0, <2>1, <2>2, <2>3, TopType
<1>6. CASE SoftirqCallback
  BY <1>0, <1>1, <1>6, TopType DEF SoftirqCallback, IrqPlaces
<1>7. CASE SoftirqClear
  BY <1>0, <1>1, <1>7, TopType DEF SoftirqClear, IrqPlaces
<1>8. CASE IrqExit
  BY <1>0, <1>1, <1>8, TopType DEF IrqExit, Reschedule, IrqPlaces
<1>9. CASE IrqReturn
  BY <1>0, <1>9, TopType DEF IrqReturn
<1>10. QED
  BY <1>2, <1>3, <1>4, <1>5, <1>6, <1>7, <1>8, <1>9 DEF IrqStep

\* The task that boots is a task.
LEMMA MainIsTask == Main \in Tasks
<1>1. NumTasks \in Nat /\ NumTasks > 0
  BY SchedAssumption, KernelAssumption
<1>2. QED
  BY <1>1 DEF Main, Tasks

\* Types, for the boot sequence.
LEMMA BootType ==
  ASSUME KernelTypeOK, Boot
  PROVE  KernelTypeOK'
<1> USE DEF timerVars, mutexVars
<1>0. pc \in [Tasks -> Place]
  BY DEF KernelTypeOK
<1>1. CASE UNCHANGED pc
  BY <1>1 DEF Boot, KernelTypeOK, At
<1>2. CASE Goto(Main, "run")
  <2>1. /\ pc' \in [Tasks -> Place]
        /\ \A u \in Tasks \ {Main} : pc'[u] = pc[u]
        /\ pc'[Main].at = "run"
    BY <1>0, <1>2, GotoEffect, MainIsTask DEF TaskPlaces
  <2>2. QED
    BY <2>1, MainIsTask, PlaceType DEF Boot, KernelTypeOK
<1>3. QED
  BY <1>1, <1>2 DEF Boot

\* Types hold initially.
LEMMA InitKernelType == Init => KernelTypeOK
<1> SUFFICES ASSUME Init PROVE KernelTypeOK
  OBVIOUS
<1>1. pc \in [Tasks -> Place] /\ \A t \in Tasks : At(t) # "unblock"
  BY DEF Init, Place, TaskPlaces, At
<1>2. irq \in [Tasks -> Seq(IrqFrame)]
  BY DEF Init
<1>3. \A t \in Tasks : \A i \in DOMAIN irq[t] : irq[t][i].at # "callback"
  BY DEF Init
<1>4. /\ TIMER_QUEUE \subseteq [task : Tasks, left : Nat]
      /\ PENDING_QUEUE \in Seq(Tasks) /\ waiters \in Seq(Tasks)
  BY DEF Init
<1>5. /\ SOFTIRQ_PENDING \in BOOLEAN /\ IN_SOFTIRQ \in BOOLEAN
      /\ NEED_RESCHED \in BOOLEAN /\ locked \in BOOLEAN
  BY DEF Init
<1>6. QED
  BY <1>1, <1>2, <1>3, <1>4, <1>5 DEF KernelTypeOK

\* Types, for every step.
LEMMA KernelTypeStep == KernelTypeOK /\ SchedTypeOK /\ [Next]_vars => KernelTypeOK'
<1> SUFFICES ASSUME KernelTypeOK, SchedTypeOK, [Next]_vars PROVE KernelTypeOK'
  OBVIOUS
<1>1. CASE UNCHANGED vars
  BY <1>1 DEF vars, timerVars, mutexVars, KernelTypeOK, At
<1>2. QED
  BY <1>1, BootType, BlockingType, MutexType, InterruptType, IrqType DEF Next

-----------------------------------------------------------------------------
(* The kernel uses the scheduler through its operations only *)

\* Every step of Kernel is one of Sched, or leaves its state alone.
LEMMA KernelSchedStep == KernelTypeOK /\ SchedTypeOK /\ [Next]_vars => [SchedNext]_schedVars
<1> SUFFICES ASSUME KernelTypeOK, SchedTypeOK, Next PROVE SchedNext \/ UNCHANGED schedVars
  BY DEF vars
<1>1. CASE Boot
  BY <1>1 DEF Boot, SchedNext
<1>2. ASSUME NEW t \in Tasks, BlockingStep(t) PROVE SchedNext \/ UNCHANGED schedVars
  BY <1>2 DEF BlockingStep, YieldNow, SleepMs, RegisterTimer, BlockForever, Block,
     SwitchOut, Resume, SchedNext
<1>3. ASSUME NEW t \in Tasks, MutexStep(t) PROVE SchedNext \/ UNCHANGED schedVars
  <2>1. CASE WakeUnblock(t)
    BY <2>1 DEF WakeUnblock, SchedNext, KernelTypeOK
  <2>2. CASE ~ WakeUnblock(t)
    BY <1>3, <2>2 DEF MutexStep, LockCas, TryLock, WaitPush, Unlock, WakePop
  <2>3. QED
    BY <2>1, <2>2
<1>4. CASE TimerInterrupt
  BY <1>4 DEF TimerInterrupt, Reschedule, SchedNext
<1>5. CASE IrqStep
  <2>1. CASE SoftirqCallback
    <3>1. InIrq("callback") /\ UnblockTask(Top.who)
      BY <2>1 DEF SoftirqCallback
    <3>2. CURRENT_TASK \in Tasks /\ Depth > 0 /\ Top.at = "callback"
      BY <3>1, InIrqCurrent
    <3>3. irq[CURRENT_TASK] \in Seq(IrqFrame)
      BY <3>2 DEF KernelTypeOK
    <3>4. Depth \in DOMAIN irq[CURRENT_TASK]
      BY <3>2, <3>3 DEF Depth
    <3>5. Top.who \in Tasks
      BY <3>2, <3>4 DEF KernelTypeOK, Top
    <3>6. QED
      BY <3>1, <3>5 DEF SchedNext
  <2>2. CASE ~ SoftirqCallback
    BY <1>5, <2>2 DEF IrqStep, SoftirqEnter, SoftirqLoop, SoftirqPop, SoftirqClear,
       IrqExit, IrqReturn, Reschedule, SchedNext
  <2>3. QED
    BY <2>1, <2>2
<1>6. QED
  BY <1>1, <1>2, <1>3, <1>4, <1>5 DEF Next

KernelInv == KernelTypeOK /\ SchedInv

\* KernelInv is inductive.
LEMMA KernelInvariant == Spec => []KernelInv
<1>1. Init => KernelInv
  BY InitKernelType, InitSchedInv DEF Init, KernelInv
<1>2. KernelInv /\ [Next]_vars => KernelInv'
  BY KernelTypeStep, KernelSchedStep, SchedStep DEF KernelInv, SchedInv
<1>3. QED
  BY <1>1, <1>2, PTL DEF Spec

\* The kernel's every step, interrupt and softirq steps included, is a step of
\* the scheduler or leaves it alone, so what SchedProofs shows of the scheduler
\* under arbitrary callers it shows of the kernel.
THEOREM KernelImplementsSched == Spec => SchedSpec
<1>1. Init => SchedInit
  BY DEF Init
<1>2. KernelInv /\ [Next]_vars => [SchedNext]_schedVars
  BY KernelSchedStep DEF KernelInv, SchedInv
<1>3. QED
  BY <1>1, <1>2, KernelInvariant, PTL DEF Spec, SchedSpec

-----------------------------------------------------------------------------
(* The mutex *)

\* A step that neither touches the flag nor moves a task into or out of its
\* critical section keeps mutual exclusion.
LEMMA MutexAside ==
  ASSUME MutualExclusion, UNCHANGED locked,
         \A t \in Tasks : pc'[t].at = "crit" <=> pc[t].at = "crit"
  PROVE  MutualExclusion'
BY DEF MutualExclusion, At

\* The steps that leave the mutex flag and the critical section alone.
LEMMA MutexStays ==
  ASSUME KernelTypeOK, [Next]_vars,
         \A t \in Tasks : ~ (LockCas(t) \/ TryLock(t) \/ Unlock(t))
  PROVE  UNCHANGED locked /\ \A t \in Tasks : pc'[t].at = "crit" <=> pc[t].at = "crit"
<1> USE DEF mutexVars
<1>0. pc \in [Tasks -> Place]
  BY DEF KernelTypeOK
<1>1. CASE UNCHANGED vars
  BY <1>1 DEF vars
<1>2. CASE Boot
  <2>1. UNCHANGED pc \/ (At(Main) = "boot" /\ Goto(Main, "run"))
    BY <1>2 DEF Boot
  <2>2. QED
    BY <1>0, <1>2, <2>1, MainIsTask, GotoEffect DEF Boot, At, TaskPlaces
<1>3. ASSUME NEW t \in Tasks, BlockingStep(t)
      PROVE  UNCHANGED locked /\ \A u \in Tasks : pc'[u].at = "crit" <=> pc[u].at = "crit"
  <2>1. UNCHANGED locked
    BY <1>3 DEF BlockingStep, YieldNow, SleepMs, RegisterTimer, BlockForever, Block,
       SwitchOut, Resume
  <2>2. CASE YieldNow(t)
    BY <2>1, <2>2 DEF YieldNow
  <2>3. CASE SleepMs(t)
    BY <1>0, <2>1, <2>3 DEF SleepMs, Calls, At, Place
  <2>4. CASE BlockForever(t)
    BY <1>0, <2>1, <2>4 DEF BlockForever, Calls, At, Place
  <2>5. CASE RegisterTimer(t) \/ Block(t) \/ SwitchOut(t) \/ Resume(t)
    <3>1. pc[t].ret \in {"run", "lock"}
      BY <1>0 DEF Place
    <3>2. PICK p \in TaskPlaces : p # "crit" /\ Goto(t, p)
      BY <2>5, <3>1 DEF RegisterTimer, Block, SwitchOut, Resume, TaskPlaces
    <3>3. pc[t].at # "crit"
      BY <2>5 DEF RegisterTimer, Block, SwitchOut, Resume, At
    <3>4. QED
      BY <1>0, <2>1, <3>2, <3>3, GotoEffect
  <2>6. QED
    BY <1>3, <2>2, <2>3, <2>4, <2>5 DEF BlockingStep
<1>4. ASSUME NEW t \in Tasks, MutexStep(t)
      PROVE  UNCHANGED locked /\ \A u \in Tasks : pc'[u].at = "crit" <=> pc[u].at = "crit"
  <2>1. CASE WaitPush(t)
    BY <1>0, <2>1 DEF WaitPush, At, Place
  <2>2. CASE WakePop(t) /\ waiters = <<>>
    <3>1. Goto(t, "run") /\ pc[t].at = "wake" /\ UNCHANGED locked
      BY <2>2 DEF WakePop, At
    <3>2. QED
      BY <1>0, <3>1, GotoEffect DEF TaskPlaces
  <2>3. CASE WakePop(t) /\ waiters # <<>>
    BY <1>0, <2>3 DEF WakePop, At, Place
  <2>4. CASE WakeUnblock(t)
    BY <1>0, <2>4 DEF WakeUnblock, At, Place
  <2>5. QED
    BY <1>4, <2>1, <2>2, <2>3, <2>4 DEF MutexStep
<1>5. CASE TimerInterrupt
  BY <1>5, HandlerType DEF TimerInterrupt
<1>6. CASE IrqStep
  BY <1>6 DEF IrqStep, SoftirqEnter, SoftirqLoop, SoftirqPop, SoftirqCallback,
     SoftirqClear, IrqExit, IrqReturn
<1>7. QED
  BY <1>1, <1>2, <1>3, <1>4, <1>5, <1>6 DEF Next

\* Only the winner of the compare-and-swap enters, and only while the lock is free.
LEMMA MutexStepInv == KernelTypeOK /\ MutualExclusion /\ [Next]_vars => MutualExclusion'
<1> SUFFICES ASSUME KernelTypeOK, MutualExclusion, [Next]_vars PROVE MutualExclusion'
  OBVIOUS
<1>0. pc \in [Tasks -> Place]
  BY DEF KernelTypeOK
<1>1. ASSUME NEW t \in Tasks, LockCas(t) \/ TryLock(t) PROVE MutualExclusion'
  <2>1. pc[t].at # "crit" /\ locked' = TRUE /\ Goto(t, IF locked THEN "wait" ELSE "crit")
    BY <1>1 DEF LockCas, TryLock, Calls, At
  <2>2. CASE locked
    <3>1. /\ \A u \in Tasks \ {t} : pc'[u] = pc[u]
          /\ pc'[t].at = "wait"
      BY <1>0, <2>1, <2>2, GotoEffect DEF TaskPlaces
    <3>2. QED
      BY <2>1, <2>2, <3>1 DEF MutualExclusion, At
  <2>3. CASE ~ locked
    <3>1. /\ \A u \in Tasks \ {t} : pc'[u] = pc[u]
          /\ pc'[t].at = "crit"
      BY <1>0, <2>1, <2>3, GotoEffect DEF TaskPlaces
    <3>2. QED
      BY <2>1, <2>3, <3>1 DEF MutualExclusion, At
  <2>4. QED
    BY <2>2, <2>3
<1>2. ASSUME NEW t \in Tasks, Unlock(t) PROVE MutualExclusion'
  <2>1. pc[t].at = "crit" /\ locked' = FALSE /\ Goto(t, "wake")
    BY <1>2 DEF Unlock, At
  <2>2. /\ \A u \in Tasks \ {t} : pc'[u] = pc[u]
        /\ pc'[t].at = "wake"
    BY <1>0, <2>1, GotoEffect DEF TaskPlaces
  <2>3. QED
    BY <2>1, <2>2 DEF MutualExclusion, At
<1>3. CASE \A t \in Tasks : ~ (LockCas(t) \/ TryLock(t) \/ Unlock(t))
  BY <1>3, MutexStays, MutexAside
<1>4. QED
  BY <1>1, <1>2, <1>3

\* MutualExclusion holds in every state.
LEMMA MutexInvariant == Spec => []MutualExclusion
<1>1. Init => MutualExclusion
  <2>1. Init => ~ locked /\ \A t \in Tasks : At(t) # "crit"
    BY DEF Init, At
  <2>2. QED
    BY <2>1 DEF MutualExclusion
<1>2. KernelInv => KernelTypeOK
  BY DEF KernelInv
<1>3. QED
  BY <1>1, <1>2, MutexStepInv, KernelInvariant, PTL DEF Spec

\* However many tasks contend, however lock, try_lock and drop are preempted:
\* at most one guard exists, and the flag is set exactly while it does.
THEOREM KernelMutualExclusion == Spec => []MutualExclusion
  BY MutexInvariant

\* The guard's holder, before and after a step.
LEMMA HolderIs ==
  ASSUME MutualExclusion
  PROVE  /\ \A t \in Tasks : At(t) = "crit" => Holder = t
         /\ (\A t \in Tasks : At(t) # "crit") => Holder = NoTask
BY DEF MutualExclusion, Holder

\* The holder after a step is the task in the critical section.
LEMMA HolderIsNext ==
  ASSUME MutualExclusion'
  PROVE  /\ \A t \in Tasks : At(t)' = "crit" => Holder' = t
         /\ (\A t \in Tasks : At(t)' # "crit") => Holder' = NoTask
BY DEF MutualExclusion, Holder

\* Every step acquires, releases, or leaves the holder alone.
LEMMA MutexRefines ==
  ASSUME KernelTypeOK, MutualExclusion, [Next]_vars
  PROVE  AbstractMutex!Next \/ UNCHANGED Holder
<1>0. pc \in [Tasks -> Place] /\ MutualExclusion'
  BY MutexStepInv DEF KernelTypeOK
<1>1. ASSUME NEW t \in Tasks, LockCas(t) \/ TryLock(t)
      PROVE  AbstractMutex!Next \/ UNCHANGED Holder
  <2>1. pc[t].at # "crit" /\ Goto(t, IF locked THEN "wait" ELSE "crit")
    BY <1>1 DEF LockCas, TryLock, Calls, At
  <2>2. CASE locked
    <3>1. /\ \A u \in Tasks \ {t} : pc'[u] = pc[u]
          /\ pc'[t].at = "wait"
      BY <1>0, <2>1, <2>2, GotoEffect DEF TaskPlaces
    <3>2. PICK u \in Tasks : At(u) = "crit"
      BY <2>2 DEF MutualExclusion
    <3>3. Holder = u /\ Holder' = u
      BY <1>0, <2>1, <3>1, <3>2, HolderIs, HolderIsNext DEF At
    <3>4. QED
      BY <3>3
  <2>3. CASE ~ locked
    <3>1. pc'[t].at = "crit"
      BY <1>0, <2>1, <2>3, GotoEffect DEF TaskPlaces
    <3>2. \A u \in Tasks : At(u) # "crit"
      BY <2>3 DEF MutualExclusion
    <3>3. Holder = NoTask /\ Holder' = t
      BY <1>0, <3>1, <3>2, HolderIs, HolderIsNext DEF At
    <3>4. CURRENT_TASK = t
      BY <1>1 DEF LockCas, TryLock, Calls, Executes
    <3>5. QED
      BY <3>3, <3>4 DEF AbstractMutex!Next, AbstractMutex!Acquire
  <2>4. QED
    BY <2>2, <2>3
<1>2. ASSUME NEW t \in Tasks, Unlock(t)
      PROVE  AbstractMutex!Next \/ UNCHANGED Holder
  <2>1. pc[t].at = "crit" /\ locked' = FALSE
    BY <1>2 DEF Unlock, At
  <2>2. Holder = t
    BY <2>1, HolderIs DEF At
  <2>3. \A u \in Tasks : At(u)' # "crit"
    BY <1>0, <2>1 DEF MutualExclusion
  <2>4. Holder' = NoTask
    BY <1>0, <2>3, HolderIsNext
  <2>5. CURRENT_TASK = t
    BY <1>2 DEF Unlock, Executes
  <2>6. QED
    BY <2>2, <2>4, <2>5 DEF AbstractMutex!Next, AbstractMutex!Release
<1>3. CASE \A t \in Tasks : ~ (LockCas(t) \/ TryLock(t) \/ Unlock(t))
  <2>1. \A t \in Tasks : At(t)' = "crit" <=> At(t) = "crit"
    BY <1>3, MutexStays DEF At
  <2>2. CASE \E t \in Tasks : At(t) = "crit"
    BY <1>0, <2>1, <2>2, HolderIs, HolderIsNext
  <2>3. CASE \A t \in Tasks : At(t) # "crit"
    BY <1>0, <2>1, <2>3, HolderIs, HolderIsNext
  <2>4. QED
    BY <2>2, <2>3
<1>4. QED
  BY <1>1, <1>2, <1>3

\* The compare_exchange, the wait queue and the wakeups implement the abstract
\* mutex: the guard is taken and dropped by the task on the CPU, and passes on
\* only through a release.
THEOREM KernelImplementsMutex == Spec => ImplementsMutex
<1>1. Init => AbstractMutex!Init
  BY DEF Init, Holder, At, AbstractMutex!Init
<1>2. KernelInv /\ MutualExclusion /\ [Next]_vars => [AbstractMutex!Next]_Holder
  BY MutexRefines DEF KernelInv
<1>3. QED
  BY <1>1, <1>2, KernelInvariant, MutexInvariant, PTL
  DEF Spec, ImplementsMutex, AbstractMutex!Spec

-----------------------------------------------------------------------------
(* The softirq *)

\* Frame i of task u's stack exists and is at one of the places of S.
FrameIn(u, i, S) == i \in DOMAIN irq[u] /\ irq[u][i].at \in S

SoftirqPlaces == {"loop", "pop", "callback", "clear"}

\* No interrupt strikes before kernel_main_inner enables them.
BootQuiet == At(Main) = "boot" => \A u \in Tasks : irq[u] = <<>>

\* A step that does not change which frames are inside do_softirq may switch
\* tasks only when none is.
LEMMA SoftirqKept ==
  ASSUME SoftirqStaysOnCpu, UNCHANGED IN_SOFTIRQ,
         \A u \in Tasks : \A i : FrameIn(u, i, SoftirqPlaces)' <=> FrameIn(u, i, SoftirqPlaces),
         IN_SOFTIRQ => UNCHANGED CURRENT_TASK
  PROVE  SoftirqStaysOnCpu'
<1>1. \A u \in Tasks : \A i :
        FrameIn(u, i, SoftirqPlaces) <=> i \in DOMAIN irq[u] /\ Handles(u, i)
  BY DEF FrameIn, SoftirqPlaces, Handles
<1>2. \A u \in Tasks : \A i :
        FrameIn(u, i, SoftirqPlaces)' <=> i \in DOMAIN irq'[u] /\ Handles(u, i)'
  BY DEF FrameIn, SoftirqPlaces, Handles
<1>3. \A u \in Tasks : \A i :
        (i \in DOMAIN irq'[u] /\ Handles(u, i)') <=> (i \in DOMAIN irq[u] /\ Handles(u, i))
  BY <1>1, <1>2
<1>4. (\E u \in Tasks : \E i \in DOMAIN irq'[u] : Handles(u, i)')
        <=> \E u \in Tasks : \E i \in DOMAIN irq[u] : Handles(u, i)
  BY <1>3
<1>5. ASSUME NEW t \in Tasks, NEW u \in Tasks,
             NEW i \in DOMAIN irq'[t], NEW j \in DOMAIN irq'[u],
             Handles(t, i)', Handles(u, j)'
      PROVE  t = CURRENT_TASK' /\ t = u /\ i = j
  <2>1. /\ i \in DOMAIN irq[t] /\ Handles(t, i)
        /\ j \in DOMAIN irq[u] /\ Handles(u, j)
    BY <1>3, <1>5
  <2>2. IN_SOFTIRQ /\ t = CURRENT_TASK /\ t = u /\ i = j
    BY <2>1 DEF SoftirqStaysOnCpu
  <2>3. QED
    BY <2>2
<1>6. QED
  BY <1>4, <1>5 DEF SoftirqStaysOnCpu

\* No task's place returns to "boot".
LEMMA BootOnce ==
  ASSUME KernelTypeOK, [Next]_vars, pc'[Main].at = "boot"
  PROVE  pc[Main].at = "boot"
<1>0. pc \in [Tasks -> Place] /\ Main \in Tasks
  BY MainIsTask DEF KernelTypeOK
<1>1. CASE UNCHANGED vars
  BY <1>1 DEF vars
<1>2. CASE Boot
  BY <1>2 DEF Boot, At
<1>3. ASSUME NEW t \in Tasks, BlockingStep(t) PROVE pc[Main].at = "boot"
  <2>1. CASE YieldNow(t)
    BY <2>1 DEF YieldNow
  <2>2. CASE SleepMs(t)
    BY <1>0, <2>2 DEF SleepMs, Place
  <2>3. CASE BlockForever(t)
    BY <1>0, <2>3 DEF BlockForever, Place
  <2>4. CASE RegisterTimer(t) \/ Block(t) \/ SwitchOut(t) \/ Resume(t)
    <3>1. pc[t].ret \in {"run", "lock"}
      BY <1>0 DEF Place
    <3>2. PICK p \in TaskPlaces : p # "boot" /\ Goto(t, p)
      BY <2>4, <3>1 DEF RegisterTimer, Block, SwitchOut, Resume, TaskPlaces
    <3>3. QED
      BY <1>0, <3>2, GotoEffect
  <2>5. QED
    BY <1>3, <2>1, <2>2, <2>3, <2>4 DEF BlockingStep
<1>4. ASSUME NEW t \in Tasks, MutexStep(t) PROVE pc[Main].at = "boot"
  <2>1. CASE WaitPush(t)
    BY <1>0, <2>1 DEF WaitPush, Place
  <2>2. CASE WakePop(t) /\ waiters # <<>>
    BY <1>0, <2>2 DEF WakePop, Place
  <2>3. CASE WakeUnblock(t)
    BY <1>0, <2>3 DEF WakeUnblock, Place
  <2>4. CASE LockCas(t) \/ TryLock(t) \/ Unlock(t) \/ (WakePop(t) /\ waiters = <<>>)
    <3>1. PICK p \in TaskPlaces : p # "boot" /\ Goto(t, p)
      BY <2>4 DEF LockCas, TryLock, Unlock, WakePop, TaskPlaces
    <3>2. QED
      BY <1>0, <3>1, GotoEffect
  <2>5. QED
    BY <1>4, <2>1, <2>2, <2>3, <2>4 DEF MutexStep
<1>5. CASE TimerInterrupt
  BY <1>0, <1>5, HandlerType DEF TimerInterrupt
<1>6. CASE IrqStep
  BY <1>6 DEF IrqStep, SoftirqEnter, SoftirqLoop, SoftirqPop, SoftirqCallback,
     SoftirqClear, IrqExit, IrqReturn
<1>7. QED
  BY <1>1, <1>2, <1>3, <1>4, <1>5, <1>6 DEF Next

\* Task code and boot code leave the interrupt frames and the flags alone, and
\* switch tasks only when the outgoing task has no frame.
LEMMA TaskCodeAside ==
  ASSUME KernelInv, BootQuiet,
         UNCHANGED vars \/ Boot \/ \E t \in Tasks : BlockingStep(t) \/ MutexStep(t)
  PROVE  /\ UNCHANGED <<irq, IN_SOFTIRQ, SOFTIRQ_PENDING, PENDING_QUEUE>>
         /\ UNCHANGED CURRENT_TASK \/ CURRENT_TASK = NoTask \/ irq[CURRENT_TASK] = <<>>
<1> USE DEF timerVars, schedVars
<1>1. CASE UNCHANGED vars
  BY <1>1 DEF vars
<1>2. CASE Boot
  BY <1>2, SMTT(60) DEF Boot, AddTask, BootQuiet, KernelInv, SchedInv, SchedTypeOK
<1>3. ASSUME NEW t \in Tasks, BlockingStep(t)
      PROVE  /\ UNCHANGED <<irq, IN_SOFTIRQ, SOFTIRQ_PENDING, PENDING_QUEUE>>
             /\ CURRENT_TASK = t /\ irq[CURRENT_TASK] = <<>>
  BY <1>3 DEF BlockingStep, YieldNow, SleepMs, RegisterTimer, BlockForever, Block,
     SwitchOut, Resume, Calls, Executes
<1>4. ASSUME NEW t \in Tasks, MutexStep(t)
      PROVE  /\ UNCHANGED <<irq, IN_SOFTIRQ, SOFTIRQ_PENDING, PENDING_QUEUE>>
             /\ CURRENT_TASK = t /\ irq[CURRENT_TASK] = <<>>
  BY <1>4 DEF MutexStep, LockCas, TryLock, WaitPush, Unlock, WakePop, WakeUnblock,
     Calls, Executes
<1>5. QED
  BY <1>1, <1>2, <1>3, <1>4

\* The frames at places of S, when an interrupt frame of another place comes on
\* top, ...
LEMMA PushFrames ==
  ASSUME KernelTypeOK, CURRENT_TASK \in Tasks, NEW f \in IrqFrame, Push(f),
         NEW S, f.at \notin S
  PROVE  \A u \in Tasks : \A i : FrameIn(u, i, S)' <=> FrameIn(u, i, S)
<1>1. irq \in [Tasks -> Seq(IrqFrame)]
  BY DEF KernelTypeOK
<1>2. /\ \A u \in Tasks \ {CURRENT_TASK} : irq'[u] = irq[u]
      /\ Depth \in Nat /\ DOMAIN irq[CURRENT_TASK] = 1 .. Depth
      /\ DOMAIN irq'[CURRENT_TASK] = 1 .. Depth + 1
      /\ \A i \in 1 .. Depth : irq'[CURRENT_TASK][i] = irq[CURRENT_TASK][i]
      /\ irq'[CURRENT_TASK][Depth + 1] = f
  BY <1>1, PushEffect
<1>3. ASSUME NEW u \in Tasks, NEW i PROVE FrameIn(u, i, S)' <=> FrameIn(u, i, S)
  <2>1. CASE u # CURRENT_TASK
    BY <1>2, <2>1 DEF FrameIn
  <2>2. CASE u = CURRENT_TASK
    BY <1>2, <2>2 DEF FrameIn
  <2>3. QED
    BY <2>1, <2>2
<1>4. QED
  BY <1>3

\* ... when the top frame moves on, ...
LEMMA TopFrames ==
  ASSUME KernelTypeOK, CURRENT_TASK \in Tasks, Depth > 0,
         NEW f \in IrqFrame, SetTop(f), NEW S
  PROVE  /\ Depth \in DOMAIN irq[CURRENT_TASK]
         /\ \A u \in Tasks : \A i :
              IF u = CURRENT_TASK /\ i = Depth
              THEN /\ FrameIn(u, i, S)' <=> f.at \in S
                   /\ FrameIn(u, i, S) <=> Top.at \in S
              ELSE FrameIn(u, i, S)' <=> FrameIn(u, i, S)
<1>1. irq \in [Tasks -> Seq(IrqFrame)]
  BY DEF KernelTypeOK
<1>2. /\ \A u \in Tasks \ {CURRENT_TASK} : irq'[u] = irq[u]
      /\ Depth \in Nat \ {0} /\ DOMAIN irq[CURRENT_TASK] = 1 .. Depth
      /\ DOMAIN irq'[CURRENT_TASK] = 1 .. Depth
      /\ \A i \in 1 .. Depth - 1 : irq'[CURRENT_TASK][i] = irq[CURRENT_TASK][i]
      /\ irq'[CURRENT_TASK][Depth] = f
      /\ Top = irq[CURRENT_TASK][Depth]
  BY <1>1, SetTopEffect
<1>3. ASSUME NEW u \in Tasks, NEW i
      PROVE  IF u = CURRENT_TASK /\ i = Depth
             THEN /\ FrameIn(u, i, S)' <=> f.at \in S
                  /\ FrameIn(u, i, S) <=> Top.at \in S
             ELSE FrameIn(u, i, S)' <=> FrameIn(u, i, S)
  <2>1. CASE u # CURRENT_TASK
    BY <1>2, <2>1 DEF FrameIn
  <2>2. CASE u = CURRENT_TASK /\ i = Depth
    BY <1>2, <2>2 DEF FrameIn
  <2>3. CASE u = CURRENT_TASK /\ i # Depth
    BY <1>2, <2>3 DEF FrameIn
  <2>4. QED
    BY <2>1, <2>2, <2>3
<1>4. QED
  BY <1>2, <1>3

\* ... and when a top frame of another place is left.
LEMMA LeaveFrames ==
  ASSUME KernelTypeOK, CURRENT_TASK \in Tasks, Depth > 0, Iretq,
         NEW S, Top.at \notin S
  PROVE  \A u \in Tasks : \A i : FrameIn(u, i, S)' <=> FrameIn(u, i, S)
<1>1. irq \in [Tasks -> Seq(IrqFrame)]
  BY DEF KernelTypeOK
<1>2. /\ \A u \in Tasks \ {CURRENT_TASK} : irq'[u] = irq[u]
      /\ Depth \in Nat \ {0} /\ DOMAIN irq[CURRENT_TASK] = 1 .. Depth
      /\ DOMAIN irq'[CURRENT_TASK] = 1 .. Depth - 1
      /\ \A i \in 1 .. Depth - 1 : irq'[CURRENT_TASK][i] = irq[CURRENT_TASK][i]
      /\ Top = irq[CURRENT_TASK][Depth]
  BY <1>1, IretqEffect
<1>3. ASSUME NEW u \in Tasks, NEW i PROVE FrameIn(u, i, S)' <=> FrameIn(u, i, S)
  <2>1. CASE u # CURRENT_TASK
    BY <1>2, <2>1 DEF FrameIn
  <2>2. CASE u = CURRENT_TASK
    BY <1>2, <2>2 DEF FrameIn
  <2>3. QED
    BY <2>1, <2>2
<1>4. QED
  BY <1>3

\* What the timer interrupt does to the frames.
LEMMA InterruptFrames ==
  ASSUME KernelInv, TimerInterrupt, NEW S, S \cap {"enter", "ret"} = {}
  PROVE  \A u \in Tasks : \A i : FrameIn(u, i, S)' <=> FrameIn(u, i, S)
<1>1. CURRENT_TASK \in Tasks /\ KernelTypeOK
  BY DEF TimerInterrupt, KernelInv, SchedInv, SchedTypeOK
<1>2. CASE UNCHANGED irq
  BY <1>2 DEF FrameIn
<1>3. CASE ~ UNCHANGED irq
  <2>1. PICK p \in {"enter", "ret"} : Push(Frame(p))
    BY <1>3 DEF TimerInterrupt
  <2>2. Frame(p) \in IrqFrame /\ Frame(p).at \notin S
    BY FrameType DEF IrqPlaces, Frame
  <2>3. QED
    BY <1>1, <2>1, <2>2, PushFrames
<1>4. QED
  BY <1>2, <1>3

\* A softirq that is switched away from would have to pass IrqExit first.
LEMMA SoftirqStep ==
  KernelInv /\ BootQuiet /\ SoftirqStaysOnCpu /\ [Next]_vars => SoftirqStaysOnCpu'
<1> SUFFICES ASSUME KernelInv, BootQuiet, SoftirqStaysOnCpu, [Next]_vars
             PROVE  SoftirqStaysOnCpu'
  OBVIOUS
<1> USE DEF schedVars
<1>0. KernelTypeOK /\ SchedTypeOK /\ CURRENT_TASK \in Tasks \cup {NoTask}
  BY DEF KernelInv, SchedInv, SchedTypeOK
<1>1. CASE UNCHANGED vars \/ Boot \/ \E t \in Tasks : BlockingStep(t) \/ MutexStep(t)
  <2>1. /\ UNCHANGED <<irq, IN_SOFTIRQ>>
        /\ UNCHANGED CURRENT_TASK \/ CURRENT_TASK = NoTask \/ irq[CURRENT_TASK] = <<>>
    BY <1>1, TaskCodeAside
  <2>2. ASSUME CURRENT_TASK = NoTask \/ irq[CURRENT_TASK] = <<>> PROVE ~ IN_SOFTIRQ
    <3>1. ASSUME IN_SOFTIRQ PROVE FALSE
      <4>1. PICK u \in Tasks : \E i \in DOMAIN irq[u] : Handles(u, i)
        BY <3>1 DEF SoftirqStaysOnCpu
      <4>2. u = CURRENT_TASK
        BY <4>1 DEF SoftirqStaysOnCpu
      <4>3. irq[u] # <<>>
        BY <4>1
      <4>4. QED
        BY <2>2, <4>2, <4>3, SchedAssumption
    <3>2. QED
      BY <3>1
  <2>3. \A u \in Tasks : \A i : FrameIn(u, i, SoftirqPlaces)' <=> FrameIn(u, i, SoftirqPlaces)
    BY <2>1 DEF FrameIn
  <2>4. QED
    BY <2>1, <2>2, <2>3, SoftirqKept
<1>2. CASE TimerInterrupt
  <2>1. SoftirqPlaces \cap {"enter", "ret"} = {}
    BY DEF SoftirqPlaces
  <2>2. IN_SOFTIRQ => UNCHANGED CURRENT_TASK
    BY <1>2 DEF TimerInterrupt, Reschedule
  <2>3. UNCHANGED IN_SOFTIRQ
    BY <1>2 DEF TimerInterrupt
  <2>4. QED
    BY <1>2, <2>1, <2>2, <2>3, InterruptFrames, SoftirqKept
<1>3. ASSUME NEW p, NEW f \in IrqFrame, InIrq(p), SetTop(f), UNCHANGED IN_SOFTIRQ,
             p \in SoftirqPlaces <=> f.at \in SoftirqPlaces,
             IN_SOFTIRQ => UNCHANGED CURRENT_TASK
      PROVE  SoftirqStaysOnCpu'
  <2>1. CURRENT_TASK \in Tasks /\ Depth > 0 /\ Top.at = p
    BY <1>0, <1>3, InIrqCurrent
  <2>2. \A u \in Tasks : \A i : FrameIn(u, i, SoftirqPlaces)' <=> FrameIn(u, i, SoftirqPlaces)
    BY <1>0, <1>3, <2>1, TopFrames
  <2>3. QED
    BY <1>3, <2>2, SoftirqKept
<1>4. \A q \in IrqPlaces : Frame(q) \in IrqFrame /\ Frame(q).at = q
  BY FrameType DEF Frame
<1>5. CASE SoftirqEnter /\ IN_SOFTIRQ
  <2>1. InIrq("enter") /\ SetTop(Frame("cli")) /\ UNCHANGED <<IN_SOFTIRQ, CURRENT_TASK>>
    BY <1>0, <1>5 DEF SoftirqEnter, KernelTypeOK
  <2>2. QED
    BY <1>3, <1>4, <2>1 DEF IrqPlaces, SoftirqPlaces
<1>6. CASE SoftirqEnter /\ ~ IN_SOFTIRQ
  <2>1. InIrq("enter") /\ SetTop(Frame("loop")) /\ IN_SOFTIRQ' /\ UNCHANGED CURRENT_TASK
    BY <1>6 DEF SoftirqEnter
  <2>2. CURRENT_TASK \in Tasks /\ Depth > 0
    BY <1>0, <2>1, InIrqCurrent
  <2>3. Frame("loop") \in IrqFrame /\ Frame("loop").at \in SoftirqPlaces
    BY <1>4 DEF IrqPlaces, SoftirqPlaces
  <2>4. \A u \in Tasks : \A i : FrameIn(u, i, SoftirqPlaces)' <=>
               FrameIn(u, i, SoftirqPlaces) \/ (u = CURRENT_TASK /\ i = Depth)
    BY <1>0, <2>1, <2>2, <2>3, TopFrames
  <2>5. \A u \in Tasks : \A i : ~ FrameIn(u, i, SoftirqPlaces)
    BY <1>6 DEF SoftirqStaysOnCpu, FrameIn, SoftirqPlaces, Handles
  <2>6. \A u \in Tasks : \A i :
          (i \in DOMAIN irq'[u] /\ Handles(u, i)') <=> u = CURRENT_TASK /\ i = Depth
    BY <2>4, <2>5 DEF FrameIn, SoftirqPlaces, Handles
  <2>7. QED
    BY <2>1, <2>2, <2>6 DEF SoftirqStaysOnCpu
<1>7. CASE SoftirqLoop
  <2>1. PICK q \in {"pop", "clear"} : SetTop(Frame(q))
    BY <1>7 DEF SoftirqLoop
  <2>2. InIrq("loop") /\ UNCHANGED <<IN_SOFTIRQ, CURRENT_TASK>>
    BY <1>7 DEF SoftirqLoop
  <2>3. QED
    BY <1>3, <1>4, <2>1, <2>2 DEF IrqPlaces, SoftirqPlaces
<1>8. CASE SoftirqPop
  <2>1. InIrq("pop") /\ UNCHANGED <<IN_SOFTIRQ, CURRENT_TASK>>
    BY <1>8 DEF SoftirqPop
  <2>2. CASE PENDING_QUEUE = <<>>
    <3>1. SetTop(Frame("loop"))
      BY <1>8, <2>2 DEF SoftirqPop
    <3>2. QED
      BY <1>3, <1>4, <2>1, <3>1 DEF IrqPlaces, SoftirqPlaces
  <2>3. CASE PENDING_QUEUE # <<>>
    <3> DEFINE f == [at |-> "callback", who |-> Head(PENDING_QUEUE)]
    <3>1. SetTop(f)
      BY <1>8, <2>3 DEF SoftirqPop
    <3>2. Head(PENDING_QUEUE) \in Tasks
      BY <1>0, <2>3 DEF KernelTypeOK
    <3>3. f \in IrqFrame /\ f.at = "callback"
      BY <3>2 DEF IrqFrame, IrqPlaces
    <3> HIDE DEF f
    <3>4. QED
      BY <1>3, <2>1, <3>1, <3>3 DEF SoftirqPlaces
  <2>4. QED
    BY <2>2, <2>3
<1>9. CASE SoftirqCallback
  <2>1. InIrq("callback") /\ SetTop(Frame("pop")) /\ UNCHANGED <<IN_SOFTIRQ, CURRENT_TASK>>
    BY <1>9 DEF SoftirqCallback, UnblockTask
  <2>2. QED
    BY <1>3, <1>4, <2>1 DEF IrqPlaces, SoftirqPlaces
<1>10. CASE SoftirqClear
  <2>1. InIrq("clear") /\ SetTop(Frame("cli")) /\ ~ IN_SOFTIRQ' /\ UNCHANGED CURRENT_TASK
    BY <1>10 DEF SoftirqClear
  <2>2. CURRENT_TASK \in Tasks /\ Depth > 0 /\ Top.at = "clear"
    BY <1>0, <2>1, InIrqCurrent
  <2>3. Frame("cli") \in IrqFrame /\ Frame("cli").at \notin SoftirqPlaces
    BY <1>4 DEF IrqPlaces, SoftirqPlaces
  <2>4. /\ FrameIn(CURRENT_TASK, Depth, SoftirqPlaces)
        /\ \A u \in Tasks : \A i : FrameIn(u, i, SoftirqPlaces)' <=>
               FrameIn(u, i, SoftirqPlaces) /\ ~(u = CURRENT_TASK /\ i = Depth)
    BY <1>0, <2>1, <2>2, <2>3, TopFrames DEF SoftirqPlaces
  <2>5. \A u \in Tasks : \A i : FrameIn(u, i, SoftirqPlaces) => u = CURRENT_TASK /\ i = Depth
    BY <2>2, <2>4 DEF SoftirqStaysOnCpu, FrameIn, SoftirqPlaces, Handles
  <2>6. \A u \in Tasks : \A i : ~ FrameIn(u, i, SoftirqPlaces)'
    BY <2>4, <2>5
  <2>7. \A u \in Tasks : \A i \in DOMAIN irq'[u] : ~ Handles(u, i)'
    BY <2>6 DEF FrameIn, SoftirqPlaces, Handles
  <2>8. QED
    BY <2>1, <2>7 DEF SoftirqStaysOnCpu
<1>11. CASE IrqExit
  <2>1. InIrq("cli") /\ UNCHANGED IN_SOFTIRQ
    BY <1>11 DEF IrqExit
  <2>2. CASE NEED_RESCHED /\ Reschedule /\ SetTop(Frame("ret"))
    <3>1. ~ IN_SOFTIRQ
      BY <2>2 DEF Reschedule
    <3>2. QED
      BY <1>3, <1>4, <2>1, <2>2, <3>1 DEF IrqPlaces, SoftirqPlaces
  <2>3. CASE Iretq /\ UNCHANGED schedVars
    <3>1. CURRENT_TASK \in Tasks /\ Depth > 0 /\ Top.at = "cli"
      BY <1>0, <2>1, InIrqCurrent
    <3>2. \A u \in Tasks : \A i : FrameIn(u, i, SoftirqPlaces)' <=> FrameIn(u, i, SoftirqPlaces)
      BY <1>0, <2>3, <3>1, LeaveFrames DEF SoftirqPlaces
    <3>3. QED
      BY <2>1, <2>3, <3>2, SoftirqKept
  <2>4. QED
    BY <1>11, <2>2, <2>3 DEF IrqExit
<1>12. CASE IrqReturn
  <2>1. InIrq("ret") /\ Iretq /\ UNCHANGED <<IN_SOFTIRQ, CURRENT_TASK>>
    BY <1>12 DEF IrqReturn
  <2>2. CURRENT_TASK \in Tasks /\ Depth > 0 /\ Top.at = "ret"
    BY <1>0, <2>1, InIrqCurrent
  <2>3. \A u \in Tasks : \A i : FrameIn(u, i, SoftirqPlaces)' <=> FrameIn(u, i, SoftirqPlaces)
    BY <1>0, <2>1, <2>2, LeaveFrames DEF SoftirqPlaces
  <2>4. QED
    BY <2>1, <2>3, SoftirqKept
<1>13. QED
  BY <1>1, <1>2, <1>5, <1>6, <1>7, <1>8, <1>9, <1>10, <1>11, <1>12 DEF Next, IrqStep

\* An interrupt step runs on a frame.
LEMMA IrqStepInIrq ==
  ASSUME IrqStep
  PROVE  \E p \in IrqPlaces : InIrq(p)
BY DEF IrqStep, SoftirqEnter, SoftirqLoop, SoftirqPop, SoftirqCallback, SoftirqClear,
   IrqExit, IrqReturn, IrqPlaces

\* No interrupt frame exists before the boot sequence is done.
LEMMA BootQuietStep == KernelInv /\ BootQuiet /\ [Next]_vars => BootQuiet'
<1> SUFFICES ASSUME KernelInv, BootQuiet, [Next]_vars, pc'[Main].at = "boot"
             PROVE  \A u \in Tasks : irq'[u] = <<>>
  BY DEF BootQuiet, At
<1>0. KernelTypeOK /\ SchedTypeOK
  BY DEF KernelInv, SchedInv
<1>1. At(Main) = "boot" /\ \A u \in Tasks : irq[u] = <<>>
  BY <1>0, BootOnce DEF BootQuiet, At
<1>2. ~ TimerInterrupt
  BY <1>1 DEF TimerInterrupt
<1>3. ~ IrqStep
  <2>1. ASSUME NEW p \in IrqPlaces, InIrq(p) PROVE FALSE
    <3>1. CURRENT_TASK \in Tasks /\ Depth > 0
      BY <1>0, <2>1, InIrqCurrent
    <3>2. Depth = 0
      BY <1>1, <3>1 DEF Depth
    <3>3. QED
      BY <3>1, <3>2
  <2>2. QED
    BY <2>1, IrqStepInIrq
<1>4. UNCHANGED irq
  BY <1>2, <1>3, TaskCodeAside DEF Next
<1>5. QED
  BY <1>1, <1>4

SoftirqInv == BootQuiet /\ SoftirqStaysOnCpu

\* The two together are inductive.
LEMMA SoftirqInvariant == Spec => []SoftirqInv
<1>1. Init => SoftirqInv
  <2> SUFFICES ASSUME Init PROVE SoftirqInv
    OBVIOUS
  <2>1. ~ IN_SOFTIRQ /\ \A u \in Tasks : irq[u] = <<>>
    BY DEF Init
  <2>2. QED
    BY <2>1 DEF SoftirqInv, BootQuiet, SoftirqStaysOnCpu
<1>2. KernelInv /\ SoftirqInv /\ [Next]_vars => SoftirqInv'
  BY SoftirqStep, BootQuietStep DEF SoftirqInv
<1>3. QED
  BY <1>1, <1>2, KernelInvariant, PTL DEF Spec

\* For any interrupt depth: the scheduler never switches tasks in the middle of
\* do_softirq, and IN_SOFTIRQ is set exactly while one frame is inside it.
THEOREM KernelSoftirqStaysOnCpu == Spec => []SoftirqStaysOnCpu
<1>1. SoftirqInv => SoftirqStaysOnCpu
  BY DEF SoftirqInv
<1>2. QED
  BY <1>1, SoftirqInvariant, PTL

-----------------------------------------------------------------------------
(* Expired timers *)

Drains == {"pop", "callback"}

\* A step that adds nothing to PENDING_QUEUE, keeps the draining frames and
\* keeps the flag up.
LEMMA StrandedKept ==
  ASSUME NoStrandedTimer, PENDING_QUEUE = <<>> => PENDING_QUEUE' = <<>>,
         SOFTIRQ_PENDING => SOFTIRQ_PENDING',
         \A u \in Tasks : \A i : FrameIn(u, i, Drains) => FrameIn(u, i, Drains)'
  PROVE  NoStrandedTimer'
BY DEF NoStrandedTimer, FrameIn, Drains

\* With no timer expired the interrupt leaves PENDING_QUEUE as it is.
LEMMA NoneExpired ==
  ASSUME KernelTypeOK, TimerHandler, Expired = {}
  PROVE  PENDING_QUEUE' = PENDING_QUEUE
<1>1. PICK q \in Orders(Expired) :
        PENDING_QUEUE' = PENDING_QUEUE \o [i \in DOMAIN q |-> q[i].task]
  BY DEF TimerHandler
<1>2. PICK k \in 0 .. NumTasks : q \in [1 .. k -> {}]
  BY <1>1 DEF Orders
<1>3. k \in Nat /\ k = 0
  <2>1. k \in Nat
    BY <1>2
  <2>2. ASSUME k # 0 PROVE FALSE
    <3>1. 1 \in 1 .. k
      BY <2>1, <2>2
    <3>2. q[1] \in {}
      BY <1>2, <3>1
    <3>3. QED
      BY <3>2
  <2>3. QED
    BY <2>1, <2>2
<1>4. [i \in DOMAIN q |-> q[i].task] = <<>>
  BY <1>2, <1>3
<1>5. QED
  BY <1>1, <1>4 DEF KernelTypeOK

\* A popped timer has a softirq coming for it.
LEMMA StrandedStep ==
  KernelInv /\ BootQuiet /\ NoStrandedTimer /\ [Next]_vars => NoStrandedTimer'
<1> SUFFICES ASSUME KernelInv, BootQuiet, NoStrandedTimer, [Next]_vars
             PROVE  NoStrandedTimer'
  OBVIOUS
<1> USE DEF timerVars
<1>0. KernelTypeOK /\ SchedTypeOK
  BY DEF KernelInv, SchedInv
<1>1. CASE UNCHANGED vars \/ Boot \/ \E t \in Tasks : BlockingStep(t) \/ MutexStep(t)
  <2>1. UNCHANGED <<irq, SOFTIRQ_PENDING, PENDING_QUEUE>>
    BY <1>1, TaskCodeAside
  <2>2. QED
    BY <2>1, StrandedKept DEF FrameIn
<1>2. CASE TimerInterrupt
  <2>1. TimerHandler
    BY <1>2 DEF TimerInterrupt
  <2>2. CASE Expired = {}
    <3>1. Drains \cap {"enter", "ret"} = {}
      BY DEF Drains
    <3>2. \A u \in Tasks : \A i : FrameIn(u, i, Drains) => FrameIn(u, i, Drains)'
      BY <1>2, <3>1, InterruptFrames
    <3>3. PENDING_QUEUE' = PENDING_QUEUE /\ (SOFTIRQ_PENDING => SOFTIRQ_PENDING')
      BY <1>0, <2>1, <2>2, NoneExpired DEF TimerHandler
    <3>4. QED
      BY <3>2, <3>3, StrandedKept
  <2>3. CASE Expired # {}
    <3>1. SOFTIRQ_PENDING'
      BY <2>1, <2>3 DEF TimerHandler
    <3>2. QED
      BY <3>1 DEF NoStrandedTimer
  <2>4. QED
    BY <2>2, <2>3
<1>3. ASSUME NEW p, NEW f \in IrqFrame, InIrq(p), SetTop(f),
             p \in Drains => f.at \in Drains
      PROVE  \A u \in Tasks : \A i : FrameIn(u, i, Drains) => FrameIn(u, i, Drains)'
  <2>1. CURRENT_TASK \in Tasks /\ Depth > 0 /\ Top.at = p
    BY <1>0, <1>3, InIrqCurrent
  <2>2. QED
    BY <1>0, <1>3, <2>1, TopFrames
<1>4. \A q \in IrqPlaces : Frame(q) \in IrqFrame /\ Frame(q).at = q
  BY FrameType DEF Frame
<1>5. CASE SoftirqEnter
  <2>1. PICK q \in {"cli", "loop"} : SetTop(Frame(q))
    BY <1>5 DEF SoftirqEnter
  <2>2. InIrq("enter") /\ UNCHANGED timerVars
    BY <1>5 DEF SoftirqEnter
  <2>3. \A u \in Tasks : \A i : FrameIn(u, i, Drains) => FrameIn(u, i, Drains)'
    BY <1>3, <1>4, <2>1, <2>2 DEF IrqPlaces, Drains
  <2>4. QED
    BY <2>2, <2>3, StrandedKept
<1>6. CASE SoftirqLoop /\ SOFTIRQ_PENDING
  <2>1. InIrq("loop") /\ SetTop(Frame("pop"))
    BY <1>6 DEF SoftirqLoop
  <2>2. CURRENT_TASK \in Tasks /\ Depth > 0
    BY <1>0, <2>1, InIrqCurrent
  <2>3. Frame("pop") \in IrqFrame /\ Frame("pop").at \in Drains
    BY <1>4 DEF IrqPlaces, Drains
  <2>4. \A u \in Tasks : \A i : u = CURRENT_TASK /\ i = Depth => FrameIn(u, i, Drains)'
    BY <1>0, <2>1, <2>2, <2>3, TopFrames
  <2>5. \E u \in Tasks : \E i : FrameIn(u, i, Drains)'
    BY <2>2, <2>4
  <2>6. QED
    BY <2>5 DEF NoStrandedTimer, FrameIn, Drains
<1>7. CASE SoftirqLoop /\ ~ SOFTIRQ_PENDING
  <2>1. InIrq("loop") /\ SetTop(Frame("clear")) /\ UNCHANGED PENDING_QUEUE
    BY <1>7 DEF SoftirqLoop
  <2>2. \A u \in Tasks : \A i : FrameIn(u, i, Drains) => FrameIn(u, i, Drains)'
    BY <1>3, <1>4, <2>1 DEF IrqPlaces, Drains
  <2>3. QED
    BY <1>7, <2>1, <2>2, StrandedKept
<1>8. CASE SoftirqPop /\ PENDING_QUEUE = <<>>
  BY <1>8 DEF SoftirqPop, NoStrandedTimer
<1>9. CASE SoftirqPop /\ PENDING_QUEUE # <<>>
  <2> DEFINE f == [at |-> "callback", who |-> Head(PENDING_QUEUE)]
  <2>1. InIrq("pop") /\ SetTop(f) /\ UNCHANGED SOFTIRQ_PENDING
    BY <1>9 DEF SoftirqPop
  <2>2. Head(PENDING_QUEUE) \in Tasks
    BY <1>0, <1>9 DEF KernelTypeOK
  <2>3. f \in IrqFrame /\ f.at = "callback"
    BY <2>2 DEF IrqFrame, IrqPlaces
  <2> HIDE DEF f
  <2>4. \A u \in Tasks : \A i : FrameIn(u, i, Drains) => FrameIn(u, i, Drains)'
    BY <1>3, <2>1, <2>3 DEF Drains
  <2>5. QED
    BY <1>9, <2>1, <2>4, StrandedKept
<1>10. CASE SoftirqCallback
  <2>1. InIrq("callback") /\ SetTop(Frame("pop")) /\ UNCHANGED timerVars
    BY <1>10 DEF SoftirqCallback
  <2>2. \A u \in Tasks : \A i : FrameIn(u, i, Drains) => FrameIn(u, i, Drains)'
    BY <1>3, <1>4, <2>1 DEF IrqPlaces, Drains
  <2>3. QED
    BY <2>1, <2>2, StrandedKept
<1>11. CASE SoftirqClear
  <2>1. InIrq("clear") /\ SetTop(Frame("cli")) /\ UNCHANGED timerVars
    BY <1>11 DEF SoftirqClear
  <2>2. \A u \in Tasks : \A i : FrameIn(u, i, Drains) => FrameIn(u, i, Drains)'
    BY <1>3, <1>4, <2>1 DEF IrqPlaces, Drains
  <2>3. QED
    BY <2>1, <2>2, StrandedKept
<1>12. CASE IrqExit \/ IrqReturn
  <2>1. PICK p \in {"cli", "ret"} : InIrq(p)
    BY <1>12 DEF IrqExit, IrqReturn
  <2>2. UNCHANGED timerVars /\ (Iretq \/ SetTop(Frame("ret")))
    BY <1>12 DEF IrqExit, IrqReturn
  <2>3. CURRENT_TASK \in Tasks /\ Depth > 0 /\ Top.at = p
    BY <1>0, <2>1, InIrqCurrent
  <2>4. p \notin Drains
    BY DEF Drains
  <2>5. \A u \in Tasks : \A i : FrameIn(u, i, Drains) => FrameIn(u, i, Drains)'
    <3>1. CASE Iretq
      BY <1>0, <2>3, <2>4, <3>1, LeaveFrames
    <3>2. CASE SetTop(Frame("ret"))
      BY <1>3, <1>4, <2>1, <2>4, <3>2 DEF IrqPlaces
    <3>3. QED
      BY <2>2, <3>1, <3>2
  <2>6. QED
    BY <2>2, <2>5, StrandedKept
<1>13. QED
  BY <1>1, <1>2, <1>5, <1>6, <1>7, <1>8, <1>9, <1>10, <1>11, <1>12 DEF Next, IrqStep

\* Wherever ticks strike the softirq, an expired timer in PENDING_QUEUE has the
\* flag up or a frame draining the queue: its sleeper is not forgotten.
THEOREM KernelNoStrandedTimer == Spec => []NoStrandedTimer
<1>1. Init => NoStrandedTimer
  BY DEF Init, NoStrandedTimer
<1>2. KernelInv /\ SoftirqInv /\ NoStrandedTimer /\ [Next]_vars => NoStrandedTimer'
  BY StrandedStep DEF SoftirqInv
<1>3. QED
  BY <1>1, <1>2, KernelInvariant, SoftirqInvariant, PTL DEF Spec

-----------------------------------------------------------------------------
(***************************************************************************)
(* Wakeups.  A wakeup travels: from the timer queue to PENDING_QUEUE to a  *)
(* callback frame, or from the wait queue to the waker, and then into      *)
(* BLOCKED_TASKS or WAKEUP_PENDING.  Token(t, k, x, y) says that one for   *)
(* task t is at place k, x, y; the invariant is that a task has at most    *)
(* one, and one exactly while it waits.                                    *)
(***************************************************************************)
\* All tasks exist once one runs.
Booted == CURRENT_TASK # NoTask => NEXT_ID = NumTasks

\* A task whose loop makes no call (the idle task's hlt loop) stays in it.
IdleRuns == \A z \in Tasks : z # Main /\ Ops[z] = {} => At(z) = "run"

BlockInvariant == Booted /\ IdleRuns /\ NeverRunsBlocked

\* A wakeup for task t is on its way at the place named by k, x and y.
Token(t, k, x, y) ==
  \/ k = "timer" /\ y = 0 /\ [task |-> t, left |-> x] \in TIMER_QUEUE
  \/ k = "pending" /\ y = 0 /\ x \in DOMAIN PENDING_QUEUE /\ PENDING_QUEUE[x] = t
  \/ k = "waiter" /\ y = 0 /\ x \in DOMAIN waiters /\ waiters[x] = t
  \/ k = "unblock" /\ y = 0 /\ x \in Tasks /\ At(x) = "unblock" /\ pc[x].who = t
  \/ /\ k = "callback" /\ x \in Tasks /\ y \in DOMAIN irq[x]
     /\ irq[x][y] = [at |-> "callback", who |-> t]
  \/ k = "remembered" /\ x = 0 /\ y = 0 /\ t \in WAKEUP_PENDING

Unique(t) ==
  \A k1, x1, y1, k2, x2, y2 :
    Token(t, k1, x1, y1) /\ Token(t, k2, x2, y2) => k1 = k2 /\ x1 = x2 /\ y1 = y2

Expected(t) == \E k, x, y : Token(t, k, x, y)

WakeOK(t) ==
  /\ Unique(t)
  /\ Expected(t) => Waiting(t)
  /\ Waiting(t) /\ "block" \notin Ops[t] => Expected(t)

WakeInv == \A t \in Tasks : WakeOK(t)

\* While a sleep has time left, its timer is in the queue with just that time,
\* or about to be put there.
TimerKeepsTime ==
  \A t \in Tasks : pc[t].left > 0 =>
    At(t) = "arm" \/ [task |-> t, left |-> pc[t].left] \in TIMER_QUEUE

-----------------------------------------------------------------------------
(* What the scheduler's operations do to states and remembered wakeups *)

\* What schedule() does to the states, seen from its callers.
LEMMA ScheduleEffect ==
  ASSUME SchedInv, Schedule, CURRENT_TASK \in Tasks
  PROVE  /\ UNCHANGED NEXT_ID
         /\ \/ NothingQueued /\ UNCHANGED schedVars
            \/ /\ CURRENT_TASK' \in Tasks
               /\ CURRENT_TASK' # CURRENT_TASK
               /\ state[CURRENT_TASK'] = "Ready"
               /\ state'[CURRENT_TASK'] = "Running"
               /\ \A u \in Tasks : u # CURRENT_TASK /\ u # CURRENT_TASK' =>
                    state'[u] = state[u]
               /\ state'[CURRENT_TASK] =
                    IF Parks(CURRENT_TASK) THEN "Blocked" ELSE "Ready"
               /\ WAKEUP_PENDING' = IF state[CURRENT_TASK] = "Blocked"
                                    THEN WAKEUP_PENDING \ {CURRENT_TASK}
                                    ELSE WAKEUP_PENDING
<1>1. CASE NothingQueued /\ UNCHANGED schedVars
  BY <1>1 DEF schedVars
<1>2. ASSUME NEW t \in Tasks, FirstOfQueues(t), SwitchTo(t)
      PROVE  /\ UNCHANGED NEXT_ID
             /\ CURRENT_TASK' = t
             /\ t # CURRENT_TASK
             /\ state[t] = "Ready"
             /\ state'[t] = "Running"
             /\ \A u \in Tasks : u # CURRENT_TASK /\ u # t => state'[u] = state[u]
             /\ state'[CURRENT_TASK] =
                  IF Parks(CURRENT_TASK) THEN "Blocked" ELSE "Ready"
             /\ WAKEUP_PENDING' = IF state[CURRENT_TASK] = "Blocked"
                                  THEN WAKEUP_PENDING \ {CURRENT_TASK}
                                  ELSE WAKEUP_PENDING
  <2> DEFINE requeued == OldTasks \ {u \in OldTasks : Parks(u)}
  <2>1. t \in Queued
    BY <1>2, PopFirst
  <2>2. t # CURRENT_TASK /\ state[t] = "Ready"
    BY <2>1 DEF SchedInv, OneHome, StateMatchesHome
  <2>3. OldTasks = {CURRENT_TASK}
    BY SchedAssumption DEF OldTasks
  <2>4. \A u : u \in requeued <=> u = CURRENT_TASK /\ ~ Parks(CURRENT_TASK)
    BY <2>3
  <2>5. /\ CURRENT_TASK' = t /\ UNCHANGED NEXT_ID
        /\ WAKEUP_PENDING' = WAKEUP_PENDING \ {u \in requeued : state[u] = "Blocked"}
        /\ state' = [u \in Tasks |-> IF u = t THEN "Running"
                                     ELSE IF u \in requeued THEN "Ready"
                                     ELSE state[u]]
    BY <1>2 DEF SwitchTo
  <2> HIDE DEF requeued
  <2>6. /\ state'[t] = "Running"
        /\ \A u \in Tasks : u # CURRENT_TASK /\ u # t => state'[u] = state[u]
    BY <2>4, <2>5
  <2>7. state'[CURRENT_TASK] = IF Parks(CURRENT_TASK) THEN "Blocked" ELSE "Ready"
    BY <2>2, <2>4, <2>5 DEF Parks
  <2>8. WAKEUP_PENDING' = IF state[CURRENT_TASK] = "Blocked"
                          THEN WAKEUP_PENDING \ {CURRENT_TASK}
                          ELSE WAKEUP_PENDING
    BY <2>4, <2>5 DEF Parks
  <2>9. QED
    BY <2>2, <2>5, <2>6, <2>7, <2>8
<1>3. QED
  BY <1>1, <1>2 DEF Schedule

\* What unblock_task does: a parked task becomes Ready, for any other one the
\* wakeup is remembered.
LEMMA UnblockEffect ==
  ASSUME SchedInv, NEW t \in Tasks, UnblockTask(t)
  PROVE  /\ UNCHANGED <<CURRENT_TASK, NEXT_ID>>
         /\ \A u \in Tasks \ {t} : state'[u] = state[u]
         /\ \/ /\ state[t] = "Blocked" /\ state'[t] = "Ready"
               /\ t \notin WAKEUP_PENDING /\ UNCHANGED WAKEUP_PENDING
            \/ state'[t] = state[t] /\ WAKEUP_PENDING' = WAKEUP_PENDING \cup {t}
<1>1. state \in [Tasks -> TaskState]
  BY DEF SchedInv, SchedTypeOK
<1>2. CASE t \in BLOCKED_TASKS
  <2>1. /\ state' = [state EXCEPT ![t] = "Ready"]
        /\ UNCHANGED <<WAKEUP_PENDING, CURRENT_TASK, NEXT_ID>>
    BY <1>2 DEF UnblockTask
  <2>2. state[t] = "Blocked" /\ t \notin WAKEUP_PENDING
    BY <1>2 DEF SchedInv, StateMatchesHome, NoWakeupOverlooked
  <2>3. QED
    BY <1>1, <2>1, <2>2
<1>3. CASE t \notin BLOCKED_TASKS
  BY <1>3 DEF UnblockTask
<1>4. QED
  BY <1>2, <1>3

\* What block_current_task's critical section does.
LEMMA BlockEffect ==
  ASSUME SchedInv, BlockCurrentTask
  PROVE  /\ UNCHANGED <<CURRENT_TASK, NEXT_ID>>
         /\ CURRENT_TASK \in Tasks
         /\ \A u \in Tasks \ {CURRENT_TASK} : state'[u] = state[u]
         /\ state'[CURRENT_TASK] = IF CURRENT_TASK \in WAKEUP_PENDING
                                   THEN state[CURRENT_TASK] ELSE "Blocked"
         /\ WAKEUP_PENDING' = WAKEUP_PENDING \ {CURRENT_TASK}
<1>1. state \in [Tasks -> TaskState] /\ CURRENT_TASK \in Tasks
  BY DEF SchedInv, SchedTypeOK, BlockCurrentTask
<1>2. QED
  BY <1>1 DEF BlockCurrentTask

-----------------------------------------------------------------------------
(* The idle task is always there to switch to *)

\* Whose places a step of task t's code changes, and how.
LEMMA TaskStepEffect ==
  ASSUME KernelInv, NEW t \in Tasks, BlockingStep(t) \/ MutexStep(t)
  PROVE  /\ CURRENT_TASK = t
         /\ irq[t] = <<>> /\ UNCHANGED <<irq, PENDING_QUEUE>>
         /\ \A u \in Tasks \ {t} : pc'[u] = pc[u]
         /\ At(t) # "run" \/ Ops[t] # {}
<1>0. pc \in [Tasks -> Place]
  BY DEF KernelInv, KernelTypeOK
<1> USE DEF timerVars
<1>1. CASE BlockingStep(t)
  <2>1. /\ CURRENT_TASK = t
        /\ irq[t] = <<>> /\ UNCHANGED <<irq, PENDING_QUEUE>>
        /\ At(t) # "run" \/ Ops[t] # {}
    BY <1>1 DEF BlockingStep, YieldNow, SleepMs, RegisterTimer, BlockForever, Block,
       SwitchOut, Resume, Calls, Executes
  <2>2. \A u \in Tasks \ {t} : pc'[u] = pc[u]
    BY <1>0, <1>1 DEF BlockingStep, YieldNow, SleepMs, RegisterTimer, BlockForever, Block,
       SwitchOut, Resume, Goto
  <2>3. QED
    BY <2>1, <2>2
<1>2. CASE MutexStep(t)
  <2>1. /\ CURRENT_TASK = t
        /\ irq[t] = <<>> /\ UNCHANGED <<irq, PENDING_QUEUE>>
        /\ At(t) # "run" \/ Ops[t] # {}
    BY <1>2 DEF MutexStep, LockCas, TryLock, WaitPush, Unlock, WakePop, WakeUnblock,
       Calls, Executes
  <2>2. \A u \in Tasks \ {t} : pc'[u] = pc[u]
    BY <1>0, <1>2 DEF MutexStep, LockCas, TryLock, WaitPush, Unlock, WakePop, WakeUnblock,
       Goto
  <2>3. QED
    BY <2>1, <2>2
<1>3. QED
  BY <1>1, <1>2

\* The handler moves neither tasks' own places, the timer queue nor the wait queue.
LEMMA IrqLeavesPlaces ==
  ASSUME IrqStep
  PROVE  UNCHANGED <<pc, TIMER_QUEUE, waiters>>
BY DEF IrqStep, SoftirqEnter, SoftirqLoop, SoftirqPop, SoftirqCallback, SoftirqClear,
   IrqExit, IrqReturn, timerVars, mutexVars

\* A task that makes no calls is always in its own code.
LEMMA IdleRunsStep == KernelInv /\ IdleRuns /\ [Next]_vars => IdleRuns'
<1> SUFFICES ASSUME KernelInv, IdleRuns, [Next]_vars,
                    NEW z \in Tasks, z # Main, Ops[z] = {}
             PROVE  pc'[z].at = "run"
  BY DEF IdleRuns, At
<1>0. pc \in [Tasks -> Place] /\ pc[z].at = "run" /\ KernelTypeOK
  BY DEF KernelInv, KernelTypeOK, IdleRuns, At
<1>1. CASE UNCHANGED vars
  BY <1>0, <1>1 DEF vars
<1>2. CASE Boot
  <2>1. UNCHANGED pc \/ Goto(Main, "run")
    BY <1>2 DEF Boot
  <2>2. QED
    BY <1>0, <2>1, MainIsTask, GotoEffect DEF TaskPlaces
<1>3. ASSUME NEW t \in Tasks, BlockingStep(t) \/ MutexStep(t) PROVE pc'[z].at = "run"
  BY <1>0, <1>3, TaskStepEffect DEF At
<1>4. CASE TimerInterrupt
  BY <1>0, <1>4, HandlerType DEF TimerInterrupt
<1>5. CASE IrqStep
  BY <1>0, <1>5, IrqLeavesPlaces
<1>6. QED
  BY <1>1, <1>2, <1>3, <1>4, <1>5 DEF Next

\* After boot, schedule() called by another task always finds a successor.
LEMMA SuccessorQueued ==
  ASSUME KernelInv, Booted, IdleRuns, NeverRunsBlocked,
         CURRENT_TASK \in Tasks, At(CURRENT_TASK) # "run"
  PROVE  ~ NothingQueued
<1>1. PICK z \in Tasks : z # Main /\ Ops[z] = {}
  BY KernelAssumption
<1>2. At(z) = "run" /\ z # CURRENT_TASK
  BY <1>1 DEF IdleRuns
<1>3. state[z] # "Blocked"
  BY <1>2 DEF NeverRunsBlocked
<1>4. z \notin BLOCKED_TASKS
  BY <1>3 DEF KernelInv, SchedInv, StateMatchesHome
<1>5. z < NEXT_ID
  <2>1. NEXT_ID = NumTasks
    BY SchedAssumption DEF Booted
  <2>2. QED
    BY <2>1, SchedAssumption DEF Tasks
<1>6. z \in Queued
  BY <1>2, <1>4, <1>5 DEF KernelInv, SchedInv, OneHome
<1>7. QED
  BY <1>6 DEF NothingQueued, Queued, Elements

\* Only kernel_main_inner creates tasks.
LEMMA BootedStep == KernelInv /\ Booted /\ [Next]_vars => Booted'
<1> SUFFICES ASSUME KernelInv, Booted, [Next]_vars PROVE Booted'
  OBVIOUS
<1>0. SchedInv /\ SchedTypeOK /\ CURRENT_TASK \in Tasks \cup {NoTask}
  BY DEF KernelInv, SchedInv, SchedTypeOK
<1>1. ASSUME UNCHANGED schedVars PROVE Booted'
  BY <1>1 DEF schedVars, Booted
<1>2. ASSUME CURRENT_TASK \in Tasks, Schedule PROVE Booted'
  BY <1>0, <1>2, ScheduleEffect, SchedAssumption DEF Booted
<1>3. CASE UNCHANGED vars
  BY <1>1, <1>3 DEF vars
<1>4. CASE Boot
  <2>1. CASE CURRENT_TASK = NoTask /\ AddTask
    BY <2>1 DEF AddTask, Booted
  <2>2. CASE NEXT_ID = Main /\ SetCurrentTask
    BY <2>2, SchedAssumption DEF SetCurrentTask, Booted, Main
  <2>3. CASE CURRENT_TASK = Main /\ Schedule
    BY <1>2, <2>3, MainIsTask
  <2>4. QED
    BY <1>4, <2>1, <2>2, <2>3 DEF Boot
<1>5. ASSUME NEW t \in Tasks, BlockingStep(t) \/ MutexStep(t) PROVE Booted'
  <2>1. CURRENT_TASK = t
    BY <1>5, TaskStepEffect
  <2>2. \/ UNCHANGED schedVars \/ Schedule
        \/ UNCHANGED <<NEXT_ID, CURRENT_TASK>>
    BY <1>5 DEF BlockingStep, MutexStep, YieldNow, SleepMs, RegisterTimer, BlockForever,
       Block, SwitchOut, Resume, LockCas, TryLock, WaitPush, Unlock, WakePop, WakeUnblock,
       BlockCurrentTask, UnblockTask
  <2>3. QED
    BY <1>1, <1>2, <2>1, <2>2 DEF Booted
<1>6. CASE TimerInterrupt
  <2>1. CURRENT_TASK \in Tasks /\ (UNCHANGED schedVars \/ Schedule)
    BY <1>0, <1>6 DEF TimerInterrupt, Reschedule
  <2>2. QED
    BY <1>1, <1>2, <2>1
<1>7. CASE IrqStep
  <2>1. CURRENT_TASK \in Tasks
    BY <1>0, <1>7, IrqStepInIrq, InIrqCurrent
  <2>2. UNCHANGED schedVars \/ Schedule \/ UNCHANGED <<NEXT_ID, CURRENT_TASK>>
    BY <1>7 DEF IrqStep, SoftirqEnter, SoftirqLoop, SoftirqPop, SoftirqCallback,
       SoftirqClear, IrqExit, IrqReturn, Reschedule, UnblockTask
  <2>3. QED
    BY <1>1, <1>2, <2>1, <2>2 DEF Booted
<1>8. QED
  BY <1>3, <1>4, <1>5, <1>6, <1>7 DEF Next

\* schedule() marks nobody Blocked, and the task it dispatches is not.
LEMMA ScheduleBlocks ==
  ASSUME SchedInv, Schedule, CURRENT_TASK \in Tasks
  PROVE  \A u \in Tasks : state'[u] = "Blocked" =>
           /\ state[u] = "Blocked"
           /\ u = CURRENT_TASK' => u = CURRENT_TASK /\ NothingQueued
<1>1. CASE NothingQueued /\ UNCHANGED schedVars
  BY <1>1 DEF schedVars
<1>2. CASE ~ (NothingQueued /\ UNCHANGED schedVars)
  <2>1. /\ CURRENT_TASK' \in Tasks
        /\ CURRENT_TASK' # CURRENT_TASK
        /\ state'[CURRENT_TASK'] = "Running"
        /\ \A u \in Tasks : u # CURRENT_TASK /\ u # CURRENT_TASK' => state'[u] = state[u]
        /\ state'[CURRENT_TASK] = IF Parks(CURRENT_TASK) THEN "Blocked" ELSE "Ready"
    BY <1>2, ScheduleEffect
  <2>2. QED
    BY <2>1 DEF Parks
<1>3. QED
  BY <1>1, <1>2

\* A step that marks nobody Blocked, dispatches no Blocked task and moves no
\* Blocked task's place keeps the property.
LEMMA BlockedAside ==
  ASSUME NeverRunsBlocked,
         \A u \in Tasks : state'[u] = "Blocked" =>
           /\ state[u] = "Blocked"
           /\ pc'[u].at = pc[u].at
           /\ u = CURRENT_TASK' => u = CURRENT_TASK
  PROVE  NeverRunsBlocked'
BY DEF NeverRunsBlocked, At

\* A task on the CPU is Blocked only inside its own call to block.
LEMMA NeverRunsBlockedStep ==
  KernelInv /\ Booted /\ IdleRuns /\ NeverRunsBlocked /\ [Next]_vars => NeverRunsBlocked'
<1> SUFFICES ASSUME KernelInv, Booted, IdleRuns, NeverRunsBlocked, [Next]_vars
             PROVE  NeverRunsBlocked'
  OBVIOUS
<1> USE DEF schedVars
<1>0. /\ SchedInv /\ SchedTypeOK /\ KernelTypeOK /\ pc \in [Tasks -> Place]
      /\ CURRENT_TASK \in Tasks \cup {NoTask} /\ state \in [Tasks -> TaskState]
  BY DEF KernelInv, KernelTypeOK, SchedInv, SchedTypeOK
<1>1. CASE UNCHANGED vars
  BY <1>1, BlockedAside DEF vars
<1>2. CASE Boot
  <2>1. CASE UNCHANGED pc /\ (AddTask \/ (SetCurrentTask /\ NEXT_ID = Main))
    <3>1. UNCHANGED state
      BY <2>1 DEF AddTask, SetCurrentTask
    <3>2. \A u \in Tasks : state[u] = "Blocked" => At(u) \in {"switch", "parked"}
      BY DEF NeverRunsBlocked
    <3>3. \A u \in Tasks : u = CURRENT_TASK' => u = CURRENT_TASK \/ u = Main
      BY <2>1 DEF AddTask, SetCurrentTask
    <3>4. At(Main) = "boot"
      BY <1>2 DEF Boot
    <3>5. QED
      BY <2>1, <3>1, <3>2, <3>3, <3>4, BlockedAside
  <2>2. CASE CURRENT_TASK = Main /\ Schedule /\ Goto(Main, "run")
    <3>1. At(Main) = "boot"
      BY <1>2 DEF Boot
    <3>2. state[Main] # "Blocked"
      BY <3>1, MainIsTask DEF NeverRunsBlocked
    <3>3. \A u \in Tasks \ {Main} : pc'[u] = pc[u]
      BY <1>0, <2>2, GotoEffect, MainIsTask DEF TaskPlaces
    <3>4. QED
      BY <1>0, <2>2, <3>2, <3>3, ScheduleBlocks, MainIsTask, BlockedAside
  <2>3. QED
    BY <1>2, <2>1, <2>2 DEF Boot
<1>3. ASSUME NEW t \in Tasks, BlockingStep(t) \/ MutexStep(t) PROVE NeverRunsBlocked'
  <2>0. CURRENT_TASK = t /\ \A u \in Tasks \ {t} : pc'[u] = pc[u]
    BY <1>3, TaskStepEffect
  <2>1. CASE YieldNow(t)
    <3>1. Schedule /\ UNCHANGED pc
      BY <2>1 DEF YieldNow
    <3>2. QED
      BY <1>0, <2>0, <3>1, ScheduleBlocks, BlockedAside
  <2>2. CASE Block(t)
    <3>1. At(t) = "block" /\ state[t] # "Blocked"
      BY <2>2 DEF Block, NeverRunsBlocked
    <3>2. Goto(t, IF t \in WAKEUP_PENDING THEN pc[t].ret ELSE "switch") /\ BlockCurrentTask
      BY <2>2 DEF Block
    <3>3. pc[t].ret \in {"run", "lock"}
      BY <1>0 DEF Place
    <3>4. pc'[t].at = IF t \in WAKEUP_PENDING THEN pc[t].ret ELSE "switch"
      BY <1>0, <3>2, <3>3, GotoEffect DEF TaskPlaces
    <3>5. /\ UNCHANGED CURRENT_TASK
          /\ \A u \in Tasks \ {t} : state'[u] = state[u]
          /\ state'[t] = IF t \in WAKEUP_PENDING THEN state[t] ELSE "Blocked"
      BY <1>0, <2>0, <3>2, BlockEffect
    <3>6. QED
      BY <2>0, <3>1, <3>4, <3>5 DEF NeverRunsBlocked, At
  <2>3. CASE SwitchOut(t)
    <3>1. At(t) = "switch" /\ Schedule /\ Goto(t, "parked")
      BY <2>3 DEF SwitchOut
    <3>2. pc'[t].at = "parked"
      BY <1>0, <3>1, GotoEffect DEF TaskPlaces
    <3>3. ~ NothingQueued
      BY <2>0, <3>1, SuccessorQueued
    <3>4. \A u \in Tasks : state'[u] = "Blocked" => state[u] = "Blocked" /\ u # CURRENT_TASK'
      BY <1>0, <2>0, <3>1, <3>3, ScheduleBlocks
    <3>5. QED
      BY <2>0, <3>2, <3>4 DEF NeverRunsBlocked, At
  <2>4. CASE Resume(t)
    <3>1. At(t) = "parked" /\ UNCHANGED schedVars
      BY <2>4 DEF Resume
    <3>2. state[t] # "Blocked"
      BY <2>0, <3>1 DEF NeverRunsBlocked
    <3>3. QED
      BY <2>0, <3>1, <3>2, BlockedAside
  <2>5. CASE WakeUnblock(t)
    <3>1. At(t) = "unblock" /\ UnblockTask(pc[t].who) /\ pc[t].who \in Tasks
      BY <1>0, <2>5 DEF WakeUnblock, KernelTypeOK
    <3>2. state[t] # "Blocked"
      BY <3>1 DEF NeverRunsBlocked
    <3>3. UNCHANGED CURRENT_TASK /\ \A u \in Tasks : state'[u] = "Blocked" => state[u] = "Blocked"
      BY <1>0, <3>1, UnblockEffect
    <3>4. QED
      BY <2>0, <3>2, <3>3, BlockedAside
  <2>6. CASE /\ UNCHANGED schedVars
             /\ At(t) \notin {"switch", "parked"}
    <3>1. state[t] # "Blocked"
      BY <2>6 DEF NeverRunsBlocked
    <3>2. QED
      BY <2>0, <2>6, <3>1, BlockedAside
  <2>7. QED
    BY <1>3, <2>1, <2>2, <2>3, <2>4, <2>5, <2>6 DEF BlockingStep, MutexStep, SleepMs,
       RegisterTimer, BlockForever, LockCas, TryLock, WaitPush, Unlock, WakePop, Calls
<1>4. CASE TimerInterrupt
  <2>1. CURRENT_TASK \in Tasks /\ (UNCHANGED schedVars \/ Schedule)
    BY <1>0, <1>4 DEF TimerInterrupt, Reschedule
  <2>2. \A u \in Tasks : pc'[u].at = pc[u].at
    BY <1>0, <1>4, HandlerType DEF TimerInterrupt
  <2>3. CASE UNCHANGED schedVars
    BY <2>2, <2>3, BlockedAside
  <2>4. CASE Schedule
    BY <1>0, <2>1, <2>2, <2>4, ScheduleBlocks, BlockedAside
  <2>5. QED
    BY <2>1, <2>3, <2>4
<1>5. CASE IrqStep
  <2>1. CURRENT_TASK \in Tasks /\ UNCHANGED pc
    BY <1>0, <1>5, IrqStepInIrq, InIrqCurrent, IrqLeavesPlaces
  <2>2. CASE SoftirqCallback
    <3>1. InIrq("callback") /\ UnblockTask(Top.who)
      BY <2>2 DEF SoftirqCallback
    <3>2. irq[CURRENT_TASK] \in Seq(IrqFrame) /\ Depth > 0 /\ Top.at = "callback"
      BY <1>0, <2>1, <3>1, InIrqCurrent DEF KernelTypeOK
    <3>3. Depth \in DOMAIN irq[CURRENT_TASK]
      BY <3>2 DEF Depth
    <3>4. Top.who \in Tasks
      BY <1>0, <2>1, <3>2, <3>3 DEF KernelTypeOK, Top
    <3>5. UNCHANGED CURRENT_TASK /\ \A u \in Tasks : state'[u] = "Blocked" => state[u] = "Blocked"
      BY <1>0, <3>1, <3>4, UnblockEffect
    <3>6. QED
      BY <2>1, <3>5, BlockedAside
  <2>3. CASE UNCHANGED schedVars
    BY <2>1, <2>3, BlockedAside
  <2>4. CASE Schedule
    BY <1>0, <2>1, <2>4, ScheduleBlocks, BlockedAside
  <2>5. QED
    BY <1>5, <2>2, <2>3, <2>4 DEF IrqStep, SoftirqEnter, SoftirqLoop, SoftirqPop,
       SoftirqClear, IrqExit, IrqReturn, Reschedule
<1>6. QED
  BY <1>1, <1>2, <1>3, <1>4, <1>5 DEF Next

\* BlockInvariant is inductive.
LEMMA BlockInvariantHolds == Spec => []BlockInvariant
<1>1. Init => BlockInvariant
  <2> SUFFICES ASSUME Init PROVE BlockInvariant
    OBVIOUS
  <2>1. CURRENT_TASK = NoTask /\ \A u \in Tasks : state[u] = "Ready"
    BY DEF Init, SchedInit
  <2>2. \A u \in Tasks : u # Main => At(u) = "run"
    BY DEF Init, At
  <2>3. QED
    BY <2>1, <2>2 DEF BlockInvariant, Booted, IdleRuns, NeverRunsBlocked
<1>2. KernelInv /\ BlockInvariant /\ [Next]_vars => BlockInvariant'
  BY BootedStep, IdleRunsStep, NeverRunsBlockedStep DEF BlockInvariant
<1>3. QED
  BY <1>1, <1>2, KernelInvariant, PTL DEF Spec

\* A task marked Blocked is on its way into schedule() or switched out: the
\* idle task never blocks, so schedule() called after block_current_task always
\* finds a successor and its early return is never taken there.
THEOREM KernelNeverRunsBlocked == Spec => []NeverRunsBlocked
<1>1. BlockInvariant => NeverRunsBlocked
  BY DEF BlockInvariant
<1>2. QED
  BY <1>1, BlockInvariantHolds, PTL

-----------------------------------------------------------------------------
(* How wakeups travel *)

\* Task t's wakeups after a step that leaves them and its waiting alone, ...
LEMMA WakeSame ==
  ASSUME NEW t \in Tasks, WakeOK(t), Waiting(t)' <=> Waiting(t),
         \A k, x, y : Token(t, k, x, y)' <=> Token(t, k, x, y)
  PROVE  WakeOK(t)'
BY DEF WakeOK, Unique, Expected

\* ... that leaves exactly one while the task waits, ...
LEMMA WakeOne ==
  ASSUME NEW t \in Tasks, Waiting(t)', NEW k, NEW x, NEW y,
         \A k2, x2, y2 : Token(t, k2, x2, y2)' <=> k2 = k /\ x2 = x /\ y2 = y
  PROVE  WakeOK(t)'
BY DEF WakeOK, Unique, Expected

\* ... and that leaves none when it does not, or waits for nobody.
LEMMA WakeNone ==
  ASSUME NEW t \in Tasks, Waiting(t)' => "block" \in Ops[t],
         \A k, x, y : ~ Token(t, k, x, y)'
  PROVE  WakeOK(t)'
BY DEF WakeOK, Unique, Expected

\* A wakeup moves along a queue: index x + 1 becomes x.
LEMMA WakeShift ==
  ASSUME NEW t \in Tasks, WakeOK(t), Waiting(t)' <=> Waiting(t), NEW q,
         \A k, x, y : k # q => (Token(t, k, x, y)' <=> Token(t, k, x, y)),
         \A x, y : Token(t, q, x, y)' => x \in Nat /\ Token(t, q, x + 1, y),
         \A x, y : Token(t, q, x, y) => x - 1 \in Nat /\ Token(t, q, x - 1, y)'
  PROVE  WakeOK(t)'
<1>1. Unique(t)'
  <2> SUFFICES ASSUME NEW k1, NEW x1, NEW y1, NEW k2, NEW x2, NEW y2,
                      Token(t, k1, x1, y1)', Token(t, k2, x2, y2)'
               PROVE  k1 = k2 /\ x1 = x2 /\ y1 = y2
    BY DEF Unique
  <2>1. CASE k1 = q /\ k2 = q
    <3>1. x1 \in Nat /\ x2 \in Nat /\ x1 + 1 = x2 + 1 /\ y1 = y2
      BY <2>1 DEF WakeOK, Unique
    <3>2. QED
      BY <2>1, <3>1
  <2>2. CASE k1 # q /\ k2 # q
    BY <2>2 DEF WakeOK, Unique
  <2>3. CASE k1 = q /\ k2 # q
    BY <2>3 DEF WakeOK, Unique
  <2>4. CASE k1 # q /\ k2 = q
    BY <2>4 DEF WakeOK, Unique
  <2>5. QED
    BY <2>1, <2>2, <2>3, <2>4
<1>2. Expected(t)' <=> Expected(t)
  BY DEF Expected
<1>3. QED
  BY <1>1, <1>2 DEF WakeOK

\* When a token for t is at a place, it is at no other.
LEMMA WakeOnly ==
  ASSUME NEW t \in Tasks, WakeOK(t), NEW k, NEW x, NEW y, Token(t, k, x, y)
  PROVE  /\ Waiting(t)
         /\ \A k2, x2, y2 : Token(t, k2, x2, y2) <=> k2 = k /\ x2 = x /\ y2 = y
BY DEF WakeOK, Unique, Expected

TokenKinds == {"timer", "pending", "waiter", "unblock", "callback", "remembered"}

\* A token is of one of the kinds.
LEMMA TokenKind ==
  ASSUME NEW t, NEW k, NEW x, NEW y
  PROVE  Token(t, k, x, y) => k \in TokenKinds
BY DEF Token, TokenKinds

\* Also after a step.
LEMMA TokenKindNext ==
  ASSUME NEW t, NEW k, NEW x, NEW y
  PROVE  Token(t, k, x, y)' => k \in TokenKinds
BY DEF Token, TokenKinds

\* Who waits, when place and state stay.
LEMMA WaitingSame ==
  ASSUME NEW t \in Tasks, pc'[t].at = pc[t].at,
         state'[t] = "Blocked" <=> state[t] = "Blocked"
  PROVE  Waiting(t)' <=> Waiting(t)
BY DEF Waiting, At

\* schedule() leaves a task's wakeups alone or lets it go on with the one that
\* was remembered for it.
LEMMA ScheduleWakes ==
  ASSUME SchedInv, Schedule, CURRENT_TASK \in Tasks, NEW u \in Tasks
  PROVE  \/ /\ u \in WAKEUP_PENDING' <=> u \in WAKEUP_PENDING
            /\ state'[u] = "Blocked" <=> state[u] = "Blocked"
         \/ /\ u \in WAKEUP_PENDING /\ u \notin WAKEUP_PENDING'
            /\ state[u] = "Blocked" /\ state'[u] # "Blocked"
            /\ u = CURRENT_TASK
<1>1. CASE UNCHANGED schedVars
  BY <1>1 DEF schedVars
<1>2. CASE ~ UNCHANGED schedVars
  <2>1. /\ CURRENT_TASK' \in Tasks
        /\ CURRENT_TASK' # CURRENT_TASK
        /\ state[CURRENT_TASK'] = "Ready"
        /\ state'[CURRENT_TASK'] = "Running"
        /\ \A v \in Tasks : v # CURRENT_TASK /\ v # CURRENT_TASK' => state'[v] = state[v]
        /\ state'[CURRENT_TASK] = IF Parks(CURRENT_TASK) THEN "Blocked" ELSE "Ready"
        /\ WAKEUP_PENDING' = IF state[CURRENT_TASK] = "Blocked"
                             THEN WAKEUP_PENDING \ {CURRENT_TASK} ELSE WAKEUP_PENDING
    BY <1>2, ScheduleEffect
  <2>2. CASE u = CURRENT_TASK
    BY <2>1, <2>2 DEF Parks
  <2>3. CASE u = CURRENT_TASK'
    BY <2>1, <2>3
  <2>4. CASE u # CURRENT_TASK /\ u # CURRENT_TASK'
    BY <2>1, <2>4
  <2>5. QED
    BY <2>2, <2>3, <2>4
<1>3. QED
  BY <1>1, <1>2

\* A step that calls schedule() and moves no token of u but the remembered one.
LEMMA ScheduleKeepsWake ==
  ASSUME SchedInv, NeverRunsBlocked, Schedule, CURRENT_TASK \in Tasks,
         NEW u \in Tasks, WakeOK(u),
         \/ pc'[u].at = pc[u].at
         \/ pc[u].at \notin {"block", "switch", "parked"}
              /\ pc'[u].at \notin {"block", "switch", "parked"}
         \/ pc[u].at = "switch" /\ pc'[u].at = "parked",
         \A k, x, y : k # "remembered" => (Token(u, k, x, y)' <=> Token(u, k, x, y))
  PROVE  WakeOK(u)'
<1>1. CASE /\ u \in WAKEUP_PENDING' <=> u \in WAKEUP_PENDING
           /\ state'[u] = "Blocked" <=> state[u] = "Blocked"
  <2>1. \A k, x, y : Token(u, k, x, y)' <=> Token(u, k, x, y)
    <3>1. \A x, y : Token(u, "remembered", x, y)' <=> Token(u, "remembered", x, y)
      BY <1>1 DEF Token
    <3>2. QED
      BY <3>1
  <2>2. Waiting(u)' <=> Waiting(u)
    BY <1>1 DEF Waiting, At
  <2>3. QED
    BY <2>1, <2>2, WakeSame
<1>2. CASE /\ u \in WAKEUP_PENDING /\ u \notin WAKEUP_PENDING'
           /\ state[u] = "Blocked" /\ state'[u] # "Blocked"
           /\ u = CURRENT_TASK
  <2>1. Token(u, "remembered", 0, 0)
    BY <1>2 DEF Token
  <2>2. \A k, x, y : Token(u, k, x, y) => k = "remembered"
    BY <2>1, WakeOnly
  <2>3. \A x, y : ~ Token(u, "remembered", x, y)'
    BY <1>2 DEF Token
  <2>4. \A k, x, y : ~ Token(u, k, x, y)'
    BY <2>2, <2>3
  <2>5. pc[u].at = "switch"
    BY <1>2 DEF NeverRunsBlocked, At
  <2>6. ~ Waiting(u)'
    BY <1>2, <2>5 DEF Waiting, At
  <2>7. QED
    BY <2>4, <2>6, WakeNone
<1>3. QED
  BY <1>1, <1>2, ScheduleWakes

\* The callback frames when a frame that is none comes on top, ...
LEMMA PushCallbacks ==
  ASSUME KernelTypeOK, CURRENT_TASK \in Tasks, NEW f \in IrqFrame, Push(f),
         f.at # "callback", NEW t
  PROVE  \A x, y : Token(t, "callback", x, y)' <=> Token(t, "callback", x, y)
<1>1. irq \in [Tasks -> Seq(IrqFrame)]
  BY DEF KernelTypeOK
<1>2. /\ \A u \in Tasks \ {CURRENT_TASK} : irq'[u] = irq[u]
      /\ Depth \in Nat /\ DOMAIN irq[CURRENT_TASK] = 1 .. Depth
      /\ DOMAIN irq'[CURRENT_TASK] = 1 .. Depth + 1
      /\ \A i \in 1 .. Depth : irq'[CURRENT_TASK][i] = irq[CURRENT_TASK][i]
      /\ irq'[CURRENT_TASK][Depth + 1] = f
  BY <1>1, PushEffect
<1>3. f # [at |-> "callback", who |-> t]
  OBVIOUS
<1>4. ASSUME NEW x \in Tasks, NEW y
      PROVE  Token(t, "callback", x, y)' <=> Token(t, "callback", x, y)
  <2>1. CASE x # CURRENT_TASK
    BY <1>2, <2>1 DEF Token
  <2>2. CASE x = CURRENT_TASK
    BY <1>2, <1>3, <2>2 DEF Token
  <2>3. QED
    BY <2>1, <2>2
<1>5. QED
  BY <1>4 DEF Token

\* ... when the top frame moves on, ...
LEMMA TopCallbacks ==
  ASSUME KernelTypeOK, CURRENT_TASK \in Tasks, Depth > 0,
         NEW f \in IrqFrame, SetTop(f), NEW t
  PROVE  \A x, y :
           IF x = CURRENT_TASK /\ y = Depth
           THEN /\ Token(t, "callback", x, y)' <=> f = [at |-> "callback", who |-> t]
                /\ Token(t, "callback", x, y) <=> Top = [at |-> "callback", who |-> t]
           ELSE Token(t, "callback", x, y)' <=> Token(t, "callback", x, y)
<1>1. irq \in [Tasks -> Seq(IrqFrame)]
  BY DEF KernelTypeOK
<1>2. /\ \A u \in Tasks \ {CURRENT_TASK} : irq'[u] = irq[u]
      /\ Depth \in Nat \ {0} /\ DOMAIN irq[CURRENT_TASK] = 1 .. Depth
      /\ DOMAIN irq'[CURRENT_TASK] = 1 .. Depth
      /\ \A i \in 1 .. Depth - 1 : irq'[CURRENT_TASK][i] = irq[CURRENT_TASK][i]
      /\ irq'[CURRENT_TASK][Depth] = f
      /\ Top = irq[CURRENT_TASK][Depth]
  BY <1>1, SetTopEffect
<1>3. ASSUME NEW x, NEW y, x = CURRENT_TASK /\ y = Depth
      PROVE  /\ Token(t, "callback", x, y)' <=> f = [at |-> "callback", who |-> t]
             /\ Token(t, "callback", x, y) <=> Top = [at |-> "callback", who |-> t]
  BY <1>2, <1>3 DEF Token
<1>4. ASSUME NEW x, NEW y, ~(x = CURRENT_TASK /\ y = Depth)
      PROVE  Token(t, "callback", x, y)' <=> Token(t, "callback", x, y)
  <2>1. CASE x # CURRENT_TASK
    BY <1>2, <2>1 DEF Token
  <2>2. CASE x = CURRENT_TASK /\ y # Depth
    BY <1>2, <2>2 DEF Token
  <2>3. QED
    BY <1>4, <2>1, <2>2
<1>5. QED
  BY <1>3, <1>4

\* ... and when a top frame that is none is left.
LEMMA LeaveCallbacks ==
  ASSUME KernelTypeOK, CURRENT_TASK \in Tasks, Depth > 0, Iretq,
         Top.at # "callback", NEW t
  PROVE  \A x, y : Token(t, "callback", x, y)' <=> Token(t, "callback", x, y)
<1>1. irq \in [Tasks -> Seq(IrqFrame)]
  BY DEF KernelTypeOK
<1>2. /\ \A u \in Tasks \ {CURRENT_TASK} : irq'[u] = irq[u]
      /\ Depth \in Nat \ {0} /\ DOMAIN irq[CURRENT_TASK] = 1 .. Depth
      /\ DOMAIN irq'[CURRENT_TASK] = 1 .. Depth - 1
      /\ \A i \in 1 .. Depth - 1 : irq'[CURRENT_TASK][i] = irq[CURRENT_TASK][i]
      /\ Top = irq[CURRENT_TASK][Depth]
  BY <1>1, IretqEffect
<1>3. Top # [at |-> "callback", who |-> t]
  OBVIOUS
<1>4. ASSUME NEW x \in Tasks, NEW y
      PROVE  Token(t, "callback", x, y)' <=> Token(t, "callback", x, y)
  <2>1. CASE x # CURRENT_TASK
    BY <1>2, <2>1 DEF Token
  <2>2. CASE x = CURRENT_TASK
    BY <1>2, <1>3, <2>2 DEF Token
  <2>3. QED
    BY <2>1, <2>2
<1>5. QED
  BY <1>4 DEF Token

\* unblock_task for u takes its token, at k, x, y, away: to BLOCKED_TASKS, and
\* u is Ready, or to WAKEUP_PENDING.
LEMMA UnblockDelivers ==
  ASSUME SchedInv, NeverRunsBlocked, NEW u \in Tasks, UnblockTask(u), WakeOK(u),
         NEW k, NEW x, NEW y, k # "remembered", Token(u, k, x, y),
         pc'[u].at = pc[u].at,
         \A k2, x2, y2 : k2 # "remembered" =>
           (Token(u, k2, x2, y2)' <=>
              Token(u, k2, x2, y2) /\ ~(k2 = k /\ x2 = x /\ y2 = y))
  PROVE  WakeOK(u)'
<1>1. /\ Waiting(u)
      /\ \A k2, x2, y2 : Token(u, k2, x2, y2) <=> k2 = k /\ x2 = x /\ y2 = y
  BY WakeOnly
<1>2. \A k2, x2, y2 : k2 # "remembered" => ~ Token(u, k2, x2, y2)'
  BY <1>1
<1>3. u \notin WAKEUP_PENDING
  <2>1. ~ Token(u, "remembered", 0, 0)
    BY <1>1
  <2>2. QED
    BY <2>1 DEF Token
<1>4. CASE /\ state[u] = "Blocked" /\ state'[u] = "Ready"
           /\ UNCHANGED WAKEUP_PENDING
  <2>1. \A x2, y2 : ~ Token(u, "remembered", x2, y2)'
    BY <1>3, <1>4 DEF Token
  <2>2. pc[u].at \in {"switch", "parked"}
    BY <1>4 DEF NeverRunsBlocked, At
  <2>3. ~ Waiting(u)'
    BY <1>4, <2>2 DEF Waiting, At
  <2>4. QED
    BY <1>2, <2>1, <2>3, WakeNone
<1>5. CASE state'[u] = state[u] /\ WAKEUP_PENDING' = WAKEUP_PENDING \cup {u}
  <2>1. \A x2, y2 : Token(u, "remembered", x2, y2)' <=> x2 = 0 /\ y2 = 0
    BY <1>5 DEF Token
  <2>2. \A k2, x2, y2 : Token(u, k2, x2, y2)' <=> k2 = "remembered" /\ x2 = 0 /\ y2 = 0
    BY <1>2, <2>1
  <2>3. Waiting(u)'
    BY <1>1, <1>5, WaitingSame
  <2>4. QED
    BY <2>2, <2>3, WakeOne
<1>6. QED
  BY <1>4, <1>5, UnblockEffect

\* ... and leaves the wakeups of every other task alone.
LEMMA UnblockAside ==
  ASSUME SchedInv, NEW w \in Tasks, UnblockTask(w), NEW u \in Tasks, u # w, WakeOK(u),
         pc'[u].at = pc[u].at \/ (pc[u].at \notin {"block", "switch", "parked"}
                                  /\ pc'[u].at \notin {"block", "switch", "parked"}),
         \A k, x, y : k # "remembered" => (Token(u, k, x, y)' <=> Token(u, k, x, y))
  PROVE  WakeOK(u)'
<1>1. state'[u] = state[u] /\ (u \in WAKEUP_PENDING' <=> u \in WAKEUP_PENDING)
  BY UnblockEffect
<1>2. \A x, y : Token(u, "remembered", x, y)' <=> Token(u, "remembered", x, y)
  BY <1>1 DEF Token
<1>3. \A k, x, y : Token(u, k, x, y)' <=> Token(u, k, x, y)
  BY <1>2
<1>4. Waiting(u)' <=> Waiting(u)
  BY <1>1 DEF Waiting, At
<1>5. QED
  BY <1>3, <1>4, WakeSame

\* The blocking calls move no token in a queue, a waker or a callback.
LEMMA BlockingTokens ==
  ASSUME KernelInv, NEW t \in Tasks, BlockingStep(t), NEW u
  PROVE  /\ \A k, x, y : k \notin {"timer", "remembered"} =>
              (Token(u, k, x, y)' <=> Token(u, k, x, y))
         /\ UNCHANGED TIMER_QUEUE => \A x, y : Token(u, "timer", x, y)' <=> Token(u, "timer", x, y)
         /\ UNCHANGED WAKEUP_PENDING =>
              \A x, y : Token(u, "remembered", x, y)' <=> Token(u, "remembered", x, y)
<1>0. pc \in [Tasks -> Place] /\ KernelTypeOK
  BY DEF KernelInv, KernelTypeOK
<1>1. UNCHANGED <<irq, PENDING_QUEUE>> /\ \A v \in Tasks \ {t} : pc'[v] = pc[v]
  BY TaskStepEffect
<1>2. UNCHANGED waiters /\ At(t) # "unblock"
  BY DEF BlockingStep, YieldNow, SleepMs, RegisterTimer, BlockForever, Block,
     SwitchOut, Resume, Calls, mutexVars
<1>3. pc'[t].at # "unblock"
  <2>1. pc[t].ret \in {"run", "lock"}
    BY <1>0 DEF Place
  <2>2. CASE YieldNow(t)
    BY <1>2, <2>2 DEF YieldNow, At
  <2>3. CASE SleepMs(t)
    BY <1>0, <2>3 DEF SleepMs, Place
  <2>4. CASE BlockForever(t)
    BY <1>0, <2>4 DEF BlockForever, Place
  <2>5. CASE RegisterTimer(t) \/ Block(t) \/ SwitchOut(t) \/ Resume(t)
    <3>1. PICK p \in TaskPlaces : p # "unblock" /\ Goto(t, p)
      BY <2>1, <2>5 DEF RegisterTimer, Block, SwitchOut, Resume, TaskPlaces
    <3>2. QED
      BY <1>0, <3>1, GotoEffect
  <2>6. QED
    BY <2>2, <2>3, <2>4, <2>5 DEF BlockingStep
<1>4. \A x \in Tasks : (pc'[x].at = "unblock" /\ pc'[x].who = u) <=>
                         (pc[x].at = "unblock" /\ pc[x].who = u)
  BY <1>1, <1>2, <1>3 DEF At
<1>5. QED
  BY <1>1, <1>2, <1>4 DEF Token, At

\* Sleeping, blocking and unblocking move a token, or make one for a wait that has none.
LEMMA BlockingWake ==
  ASSUME KernelInv, NeverRunsBlocked, WakeInv, NEW t \in Tasks, BlockingStep(t),
         NEW u \in Tasks
  PROVE  WakeOK(u)'
<1>0. /\ KernelTypeOK /\ SchedInv /\ pc \in [Tasks -> Place] /\ WakeOK(u)
      /\ CURRENT_TASK = t /\ \A v \in Tasks \ {t} : pc'[v] = pc[v]
      /\ pc[t].ret \in {"run", "lock"}
  BY TaskStepEffect DEF KernelInv, KernelTypeOK, WakeInv, Place
<1> USE DEF timerVars, schedVars
<1>1. ASSUME UNCHANGED <<TIMER_QUEUE, schedVars>>, ~ Waiting(t), ~ Waiting(t)'
      PROVE  WakeOK(u)'
  <2>1. \A k, x, y : Token(u, k, x, y)' <=> Token(u, k, x, y)
    BY <1>1, BlockingTokens
  <2>2. Waiting(u)' <=> Waiting(u)
    BY <1>0, <1>1, WaitingSame
  <2>3. QED
    BY <1>0, <2>1, <2>2, WakeSame
<1>2. CASE YieldNow(t)
  <2>1. Schedule /\ UNCHANGED <<pc, TIMER_QUEUE>>
    BY <1>2 DEF YieldNow
  <2>2. \A k, x, y : k # "remembered" => (Token(u, k, x, y)' <=> Token(u, k, x, y))
    BY <2>1, BlockingTokens
  <2>3. QED
    BY <1>0, <2>1, <2>2, ScheduleKeepsWake
<1>3. CASE SleepMs(t)
  <2>1. At(t) = "run" /\ UNCHANGED <<TIMER_QUEUE, schedVars>>
    BY <1>3 DEF SleepMs, Calls
  <2>2. pc'[t].at = "arm"
    BY <1>0, <1>3 DEF SleepMs, Place
  <2>3. QED
    BY <1>1, <2>1, <2>2 DEF Waiting, At
<1>4. CASE RegisterTimer(t)
  <2>1. /\ At(t) = "arm" /\ Goto(t, "block") /\ UNCHANGED schedVars
        /\ TIMER_QUEUE' = TIMER_QUEUE \cup {[task |-> t, left |-> pc[t].left]}
    BY <1>4 DEF RegisterTimer
  <2>2. pc'[t].at = "block"
    BY <1>0, <2>1, GotoEffect DEF TaskPlaces
  <2>3. CASE u = t
    <3>1. \A k, x, y : ~ Token(t, k, x, y)
      BY <1>0, <2>1, <2>3 DEF WakeOK, Expected, Waiting
    <3>2. \A k, x, y : k # "timer" => ~ Token(t, k, x, y)'
      BY <2>1, <3>1, BlockingTokens
    <3>3. \A x, y : Token(t, "timer", x, y)' <=> x = pc[t].left /\ y = 0
      <4>1. \A x : [task |-> t, left |-> x] \notin TIMER_QUEUE
        <5>1. \A x : ~ Token(t, "timer", x, 0)
          BY <3>1
        <5>2. QED
          BY <5>1 DEF Token
      <4>2. \A x : [task |-> t, left |-> x] \in TIMER_QUEUE' <=> x = pc[t].left
        BY <2>1, <4>1
      <4>3. QED
        BY <4>2 DEF Token
    <3>4. \A k, x, y : Token(t, k, x, y)' <=> k = "timer" /\ x = pc[t].left /\ y = 0
      BY <3>2, <3>3
    <3>5. Waiting(t)'
      BY <2>2 DEF Waiting, At
    <3> DEFINE l == pc[t].left
    <3>6. \A k, x, y : Token(t, k, x, y)' <=> k = "timer" /\ x = l /\ y = 0
      BY <3>4
    <3> HIDE DEF l
    <3>7. QED
      BY <2>3, <3>5, <3>6 DEF WakeOK, Unique, Expected
  <2>4. CASE u # t
    <3>1. \A x : [task |-> u, left |-> x] \in TIMER_QUEUE' <=>
                   [task |-> u, left |-> x] \in TIMER_QUEUE
      BY <2>1, <2>4
    <3>2. \A x, y : Token(u, "timer", x, y)' <=> Token(u, "timer", x, y)
      BY <3>1 DEF Token
    <3>3. \A k, x, y : Token(u, k, x, y)' <=> Token(u, k, x, y)
      BY <2>1, <3>2, BlockingTokens
    <3>4. QED
      BY <1>0, <2>1, <2>4, <3>3, WakeSame, WaitingSame
  <2>5. QED
    BY <2>3, <2>4
<1>5. CASE BlockForever(t)
  <2>1. At(t) = "run" /\ "block" \in Ops[t] /\ UNCHANGED <<TIMER_QUEUE, schedVars>>
    BY <1>5 DEF BlockForever, Calls
  <2>2. \A k, x, y : Token(u, k, x, y)' <=> Token(u, k, x, y)
    BY <2>1, BlockingTokens
  <2>3. CASE u = t
    <3>1. \A k, x, y : ~ Token(t, k, x, y)
      BY <1>0, <2>1, <2>3 DEF WakeOK, Expected, Waiting
    <3>2. QED
      BY <2>1, <2>2, <2>3, <3>1, WakeNone
  <2>4. CASE u # t
    BY <1>0, <2>1, <2>2, <2>4, WakeSame, WaitingSame
  <2>5. QED
    BY <2>3, <2>4
<1>6. CASE Block(t)
  <2>1. /\ At(t) = "block" /\ BlockCurrentTask /\ UNCHANGED TIMER_QUEUE
        /\ Goto(t, IF t \in WAKEUP_PENDING THEN pc[t].ret ELSE "switch")
    BY <1>6 DEF Block
  <2>2. pc'[t].at = IF t \in WAKEUP_PENDING THEN pc[t].ret ELSE "switch"
    BY <1>0, <2>1, GotoEffect DEF TaskPlaces
  <2>3. /\ \A v \in Tasks \ {t} : state'[v] = state[v]
        /\ state'[t] = IF t \in WAKEUP_PENDING THEN state[t] ELSE "Blocked"
        /\ WAKEUP_PENDING' = WAKEUP_PENDING \ {t}
    BY <1>0, <2>1, BlockEffect
  <2>4. \A k, x, y : k # "remembered" => (Token(u, k, x, y)' <=> Token(u, k, x, y))
    BY <2>1, BlockingTokens
  <2>5. CASE u = t /\ t \in WAKEUP_PENDING
    <3>1. Token(t, "remembered", 0, 0)
      BY <2>5 DEF Token
    <3>2. \A k, x, y : Token(t, k, x, y) => k = "remembered"
      BY <1>0, <2>5, <3>1, WakeOnly
    <3>3. \A x, y : ~ Token(t, "remembered", x, y)'
      BY <2>3 DEF Token
    <3>4. ~ Waiting(t)'
      BY <1>0, <2>2, <2>5 DEF Waiting, At
    <3>5. \A k, x, y : ~ Token(t, k, x, y)'
      BY <2>4, <2>5, <3>2, <3>3
    <3>6. QED
      BY <2>5, <3>4, <3>5, WakeNone
  <2>6. CASE ~ (u = t /\ t \in WAKEUP_PENDING)
    <3>1. u \in WAKEUP_PENDING' <=> u \in WAKEUP_PENDING
      BY <2>3, <2>6
    <3>2. \A x, y : Token(u, "remembered", x, y)' <=> Token(u, "remembered", x, y)
      BY <3>1 DEF Token
    <3>3. \A k, x, y : Token(u, k, x, y)' <=> Token(u, k, x, y)
      BY <2>4, <3>2
    <3>4. Waiting(u)' <=> Waiting(u)
      BY <1>0, <2>1, <2>2, <2>3, <2>6 DEF Waiting, At
    <3>5. QED
      BY <1>0, <3>3, <3>4, WakeSame
  <2>7. QED
    BY <2>5, <2>6
<1>7. CASE SwitchOut(t)
  <2>1. At(t) = "switch" /\ Schedule /\ Goto(t, "parked") /\ UNCHANGED TIMER_QUEUE
    BY <1>7 DEF SwitchOut
  <2>2. pc'[t].at = "parked"
    BY <1>0, <2>1, GotoEffect DEF TaskPlaces
  <2>3. \A k, x, y : k # "remembered" => (Token(u, k, x, y)' <=> Token(u, k, x, y))
    BY <2>1, BlockingTokens
  <2>4. QED
    BY <1>0, <2>1, <2>2, <2>3, ScheduleKeepsWake DEF At
<1>8. CASE Resume(t)
  <2>1. /\ At(t) = "parked" /\ Goto(t, pc[t].ret)
        /\ UNCHANGED <<TIMER_QUEUE, schedVars>>
    BY <1>8 DEF Resume
  <2>2. pc'[t].at = pc[t].ret
    BY <1>0, <2>1, GotoEffect DEF TaskPlaces
  <2>3. state[t] # "Blocked"
    BY <1>0, <2>1 DEF NeverRunsBlocked
  <2>4. QED
    BY <1>0, <1>1, <2>1, <2>2, <2>3 DEF Waiting, At
<1>9. QED
  BY <1>2, <1>3, <1>4, <1>5, <1>6, <1>7, <1>8 DEF BlockingStep

\* The places of the tokens that mutex code never touches, and of the others as
\* long as their variables stay.
LEMMA MutexTokens ==
  ASSUME KernelInv, NEW t \in Tasks, MutexStep(t), NEW u
  PROVE  /\ \A k, x, y : k \notin {"waiter", "unblock", "remembered"} =>
              (Token(u, k, x, y)' <=> Token(u, k, x, y))
         /\ UNCHANGED waiters => \A x, y : Token(u, "waiter", x, y)' <=> Token(u, "waiter", x, y)
         /\ UNCHANGED WAKEUP_PENDING =>
              \A x, y : Token(u, "remembered", x, y)' <=> Token(u, "remembered", x, y)
         /\ \A x, y : x # t => (Token(u, "unblock", x, y)' <=> Token(u, "unblock", x, y))
<1>1. UNCHANGED <<irq, PENDING_QUEUE>> /\ \A v \in Tasks \ {t} : pc'[v] = pc[v]
  BY TaskStepEffect
<1>2. UNCHANGED TIMER_QUEUE
  BY DEF MutexStep, LockCas, TryLock, WaitPush, Unlock, WakePop, WakeUnblock, timerVars
<1>3. QED
  BY <1>1, <1>2 DEF Token, At

\* The mutex turns a place in the wait queue into a wakeup.
LEMMA MutexWake ==
  ASSUME KernelInv, NeverRunsBlocked, WakeInv, NEW t \in Tasks, MutexStep(t),
         NEW u \in Tasks
  PROVE  WakeOK(u)'
<1>0. /\ KernelTypeOK /\ SchedInv /\ pc \in [Tasks -> Place] /\ WakeOK(u)
      /\ CURRENT_TASK = t /\ \A v \in Tasks \ {t} : pc'[v] = pc[v]
      /\ waiters \in Seq(Tasks)
  BY TaskStepEffect DEF KernelInv, KernelTypeOK, WakeInv
<1>a. \A k, x, y : k \notin {"waiter", "unblock", "remembered"} =>
        (Token(u, k, x, y)' <=> Token(u, k, x, y))
  BY MutexTokens
<1> USE DEF schedVars, mutexVars
<1>1. ASSUME At(t) \notin {"block", "switch", "parked"},
             pc'[t].at \notin {"block", "switch", "parked"}, UNCHANGED schedVars
      PROVE  Waiting(u)' <=> Waiting(u)
  <2>1. CASE u = t
    BY <1>1, <2>1 DEF Waiting, At
  <2>2. CASE u # t
    BY <1>0, <1>1, <2>2, WaitingSame
  <2>3. QED
    BY <2>1, <2>2
<1>2. ASSUME NEW p \in TaskPlaces, p \notin {"block", "switch", "parked", "unblock"},
             Goto(t, p), UNCHANGED <<waiters, schedVars>>,
             At(t) \notin {"block", "switch", "parked", "unblock"}
      PROVE  WakeOK(u)'
  <2>1. pc'[t].at = p
    BY <1>0, <1>2, GotoEffect
  <2>2. \A y : Token(u, "unblock", t, y)' <=> Token(u, "unblock", t, y)
    BY <1>2, <2>1 DEF Token, At
  <2>3. \A k, x, y : k \in TokenKinds => (Token(u, k, x, y)' <=> Token(u, k, x, y))
    BY <1>2, <2>2, MutexTokens DEF TokenKinds
  <2>4. \A k, x, y : Token(u, k, x, y)' <=> Token(u, k, x, y)
    BY <2>3, TokenKind, TokenKindNext
  <2>5. QED
    BY <1>0, <1>1, <1>2, <2>1, <2>4, WakeSame
<1>3. CASE LockCas(t) \/ TryLock(t) \/ Unlock(t)
  <2>1. PICK p \in {"wait", "crit", "wake"} : Goto(t, p)
    BY <1>3 DEF LockCas, TryLock, Unlock
  <2>2. UNCHANGED <<waiters, schedVars>> /\ At(t) \in {"run", "lock", "crit"}
    BY <1>3 DEF LockCas, TryLock, Unlock, Calls
  <2>3. QED
    BY <1>2, <2>1, <2>2 DEF TaskPlaces
<1>4. CASE WaitPush(t)
  <2>1. At(t) = "wait" /\ waiters' = Append(waiters, t) /\ UNCHANGED schedVars
    BY <1>4 DEF WaitPush
  <2>2. pc'[t].at = "block"
    BY <1>0, <1>4 DEF WaitPush, Place
  <2> DEFINE n == Len(waiters) + 1
  <2>3. /\ n \in Nat /\ DOMAIN waiters = 1 .. n - 1 /\ DOMAIN waiters' = 1 .. n
        /\ waiters'[n] = t
        /\ \A i \in 1 .. n - 1 : waiters'[i] = waiters[i]
    BY <1>0, <2>1
  <2> HIDE DEF n
  <2>4. \A x, y : Token(u, "unblock", x, y)' <=> Token(u, "unblock", x, y)
    <3>1. \A y : ~ Token(u, "unblock", t, y)' /\ ~ Token(u, "unblock", t, y)
      BY <2>1, <2>2 DEF Token, At
    <3>2. QED
      BY <3>1, MutexTokens
  <2>5. \A k, x, y : k # "waiter" => (Token(u, k, x, y)' <=> Token(u, k, x, y))
    <3>1. UNCHANGED WAKEUP_PENDING
      BY <2>1
    <3>2. \A x, y : Token(u, "remembered", x, y)' <=> Token(u, "remembered", x, y)
      BY <3>1, MutexTokens
    <3>3. \A k, x, y : k \in TokenKinds \ {"waiter"} =>
                         (Token(u, k, x, y)' <=> Token(u, k, x, y))
      BY <1>a, <2>4, <3>2 DEF TokenKinds
    <3>4. QED
      BY <3>3, TokenKind, TokenKindNext
  <2>6. CASE u = t
    <3>1. \A k, x, y : ~ Token(t, k, x, y)
      BY <1>0, <2>1, <2>6 DEF WakeOK, Expected, Waiting
    <3>2. \A i \in 1 .. n - 1 : waiters[i] # t
      <4>1. \A i : ~ Token(t, "waiter", i, 0)
        BY <3>1
      <4>2. QED
        BY <2>3, <4>1 DEF Token
    <3>3. \A x, y : Token(t, "waiter", x, y)' <=> x = n /\ y = 0
      <4>1. \A x : x \in 1 .. n => x = n \/ x \in 1 .. n - 1
        BY <2>3
      <4>2. n \in 1 .. n
        BY <2>3 DEF n
      <4>3. QED
        BY <2>3, <3>2, <4>1, <4>2 DEF Token
    <3>4. \A k, x, y : Token(t, k, x, y)' <=> k = "waiter" /\ x = n /\ y = 0
      BY <2>5, <2>6, <3>1, <3>3
    <3>5. Waiting(t)'
      BY <2>2 DEF Waiting, At
    <3>6. QED
      BY <2>6, <3>4, <3>5 DEF WakeOK, Unique, Expected
  <2>7. CASE u # t
    <3>1. \A x, y : Token(u, "waiter", x, y)' <=> Token(u, "waiter", x, y)
      BY <2>3, <2>7 DEF Token
    <3>2. \A k, x, y : Token(u, k, x, y)' <=> Token(u, k, x, y)
      BY <2>5, <3>1
    <3>3. QED
      BY <1>0, <2>1, <2>7, <3>2, WakeSame, WaitingSame
  <2>8. QED
    BY <2>6, <2>7
<1>5. CASE WakePop(t) /\ waiters = <<>>
  <2>1. /\ Goto(t, "run") /\ UNCHANGED <<waiters, schedVars>> /\ At(t) = "wake"
    BY <1>5 DEF WakePop
  <2>2. QED
    BY <1>2, <2>1 DEF TaskPlaces
<1>6. CASE WakePop(t) /\ waiters # <<>>
  <2>1. /\ At(t) = "wake" /\ UNCHANGED schedVars /\ waiters' = Tail(waiters)
        /\ pc' = [pc EXCEPT ![t].at = "unblock", ![t].who = Head(waiters)]
    BY <1>6 DEF WakePop
  <2>2. pc'[t].at = "unblock" /\ pc'[t].who = Head(waiters)
    BY <1>0, <2>1 DEF Place
  <2> DEFINE n == Len(waiters)
             w == Head(waiters)
  <2>3. /\ n \in Nat \ {0} /\ DOMAIN waiters = 1 .. n /\ DOMAIN waiters' = 1 .. n - 1
        /\ w = waiters[1] /\ w \in Tasks
        /\ \A i \in 1 .. n - 1 : waiters'[i] = waiters[i + 1]
    BY <1>0, <1>6, <2>1
  <2>4. pc'[t].who = w
    BY <2>2
  <2> HIDE DEF n, w
  <2>5. \A y : ~ Token(u, "unblock", t, y)
    BY <2>1 DEF Token
  <2>6. \A y : Token(u, "unblock", t, y)' <=> y = 0 /\ u = w
    BY <2>2, <2>4 DEF Token, At
  <2>7. \A k, x, y : k \in TokenKinds \ {"waiter", "unblock"} =>
                       (Token(u, k, x, y)' <=> Token(u, k, x, y))
    BY <2>1, MutexTokens DEF TokenKinds
  <2>8. \A x, y : x # t => (Token(u, "unblock", x, y)' <=> Token(u, "unblock", x, y))
    BY MutexTokens
  <2>9. Waiting(u)' <=> Waiting(u)
    BY <1>1, <2>1, <2>2
  <2>10. \A x, y : Token(u, "waiter", x, y)' <=>
                     y = 0 /\ x \in 1 .. n - 1 /\ waiters[x + 1] = u
    BY <2>3 DEF Token
  <2>11. \A x, y : Token(u, "waiter", x, y) <=>
                     y = 0 /\ x \in 1 .. n /\ waiters[x] = u
    BY <2>3 DEF Token
  <2>12. CASE u = w
    <3>1. Token(u, "waiter", 1, 0)
      BY <2>3, <2>11, <2>12
    <3>2. /\ Waiting(u)
          /\ \A k, x, y : Token(u, k, x, y) <=> k = "waiter" /\ x = 1 /\ y = 0
      BY <1>0, <3>1, WakeOnly
    <3>3. \A x, y : ~ Token(u, "waiter", x, y)'
      <4>1. ASSUME NEW x \in 1 .. n - 1, waiters[x + 1] = u PROVE FALSE
        <5>1. x + 1 \in 1 .. n /\ x + 1 # 1
          BY <2>3
        <5>2. Token(u, "waiter", x + 1, 0)
          BY <2>11, <4>1, <5>1
        <5>3. QED
          BY <3>2, <5>1, <5>2
      <4>2. QED
        BY <2>10, <4>1
    <3>4. \A k, x, y : k \in TokenKinds =>
            (Token(u, k, x, y)' <=> k = "unblock" /\ x = t /\ y = 0)
      BY <2>6, <2>7, <2>8, <2>12, <3>2, <3>3 DEF TokenKinds
    <3>5. \A k, x, y : Token(u, k, x, y)' <=> k = "unblock" /\ x = t /\ y = 0
      BY <3>4, TokenKindNext DEF TokenKinds
    <3>6. QED
      BY <2>9, <3>2, <3>5 DEF WakeOK, Unique, Expected
  <2>13. CASE u # w
    <3>1. \A k, x, y : k \in TokenKinds \ {"waiter"} =>
                         (Token(u, k, x, y)' <=> Token(u, k, x, y))
      BY <2>5, <2>6, <2>7, <2>8, <2>13 DEF TokenKinds
    <3>2. \A k, x, y : k # "waiter" => (Token(u, k, x, y)' <=> Token(u, k, x, y))
      BY <3>1, TokenKind, TokenKindNext
    <3>3. \A x, y : Token(u, "waiter", x, y)' => x \in Nat /\ Token(u, "waiter", x + 1, y)
      BY <2>3, <2>10, <2>11
    <3>4. ASSUME NEW x, NEW y, Token(u, "waiter", x, y)
          PROVE  x - 1 \in Nat /\ Token(u, "waiter", x - 1, y)'
      <4>1. y = 0 /\ x \in 1 .. n /\ waiters[x] = u /\ x # 1
        BY <2>3, <2>11, <2>13, <3>4
      <4>2. x - 1 \in 1 .. n - 1 /\ (x - 1) + 1 = x
        BY <2>3, <4>1
      <4>3. QED
        BY <2>10, <4>1, <4>2
    <3>5. QED
      BY <1>0, <2>9, <3>2, <3>3, <3>4, WakeShift
  <2>14. QED
    BY <2>12, <2>13
<1>7. CASE WakeUnblock(t)
  <2> DEFINE w == pc[t].who
  <2>1. /\ At(t) = "unblock" /\ UnblockTask(w) /\ UNCHANGED waiters /\ w \in Tasks
        /\ pc' = [pc EXCEPT ![t].at = "run", ![t].who = NoTask]
    BY <1>0, <1>7 DEF WakeUnblock, KernelTypeOK
  <2>2. pc'[t].at = "run"
    BY <1>0, <2>1 DEF Place
  <2>3. \A y : ~ Token(u, "unblock", t, y)'
    BY <2>2 DEF Token, At
  <2>4. \A y : Token(u, "unblock", t, y) <=> y = 0 /\ u = w
    BY <2>1 DEF Token
  <2>5. \A k, x, y : k # "remembered" =>
          (Token(u, k, x, y)' <=> Token(u, k, x, y) /\ ~(k = "unblock" /\ x = t /\ y = 0))
    <3>1. \A k, x, y : k \in TokenKinds \ {"remembered"} =>
          (Token(u, k, x, y)' <=> Token(u, k, x, y) /\ ~(k = "unblock" /\ x = t /\ y = 0))
      BY <2>1, <2>3, <2>4, MutexTokens DEF TokenKinds
    <3>2. QED
      BY <3>1, TokenKind, TokenKindNext
  <2>6. UnblockTask(w) /\ w \in Tasks
    BY <2>1
  <2> HIDE DEF w
  <2>7. CASE u = w
    <3>1. Token(u, "unblock", t, 0)
      BY <2>4, <2>7
    <3>2. Waiting(u)
      BY <1>0, <3>1, WakeOnly
    <3>3. u # t
      BY <2>1, <3>2 DEF Waiting
    <3>4. pc'[u].at = pc[u].at
      BY <1>0, <3>3
    <3>5. UnblockTask(u)
      BY <2>6, <2>7
    <3>6. QED
      BY <1>0, <2>5, <3>1, <3>4, <3>5, UnblockDelivers
  <2>8. CASE u # w
    <3>1. \A k, x, y : k # "remembered" => (Token(u, k, x, y)' <=> Token(u, k, x, y))
      BY <2>4, <2>5, <2>8
    <3>2. pc'[u].at = pc[u].at \/ (pc[u].at \notin {"block", "switch", "parked"}
                                  /\ pc'[u].at \notin {"block", "switch", "parked"})
      BY <1>0, <2>1, <2>2 DEF At
    <3>3. QED
      BY <1>0, <2>6, <2>8, <3>1, <3>2, UnblockAside
  <2>9. QED
    BY <2>7, <2>8
<1>8. QED
  BY <1>3, <1>4, <1>5, <1>6, <1>7 DEF MutexStep

\* The timers one tick later.
LEMMA AgedTimers ==
  ASSUME KernelTypeOK, NEW u \in Tasks, NEW x
  PROVE  [task |-> u, left |-> x] \in Aged <=>
           \E l \in Nat : [task |-> u, left |-> l] \in TIMER_QUEUE /\ x = OneTickLess(l)
<1>1. \A tm \in TIMER_QUEUE : /\ tm.left \in Nat /\ tm.task \in Tasks
                              /\ tm = [task |-> tm.task, left |-> tm.left]
  BY DEF KernelTypeOK
<1>2. ASSUME NEW tm \in TIMER_QUEUE
      PROVE  [tm EXCEPT !.left = OneTickLess(@)] =
               [task |-> tm.task, left |-> OneTickLess(tm.left)]
  BY <1>1
<1>3. ASSUME [task |-> u, left |-> x] \in Aged
      PROVE  \E l \in Nat : [task |-> u, left |-> l] \in TIMER_QUEUE /\ x = OneTickLess(l)
  <2>1. PICK tm \in TIMER_QUEUE :
          [task |-> u, left |-> x] = [tm EXCEPT !.left = OneTickLess(@)]
    BY <1>3 DEF Aged
  <2>2. [task |-> u, left |-> x] = [task |-> tm.task, left |-> OneTickLess(tm.left)]
    BY <1>2, <2>1
  <2>3. u = tm.task /\ x = OneTickLess(tm.left)
    BY <2>2
  <2>4. QED
    BY <1>1, <2>3
<1>4. ASSUME NEW l \in Nat, [task |-> u, left |-> l] \in TIMER_QUEUE, x = OneTickLess(l)
      PROVE  [task |-> u, left |-> x] \in Aged
  <2> DEFINE tm == [task |-> u, left |-> l]
  <2>1. tm \in TIMER_QUEUE /\ tm.task = u /\ tm.left = l
    BY <1>4
  <2>2. [tm EXCEPT !.left = OneTickLess(@)] = [task |-> u, left |-> x]
    BY <1>2, <1>4, <2>1
  <2> HIDE DEF tm
  <2>3. [tm EXCEPT !.left = OneTickLess(@)] \in Aged
    BY <2>1 DEF Aged
  <2>4. QED
    BY <2>2, <2>3
<1>5. QED
  BY <1>3, <1>4

\* Two queues one behind the other.
LEMMA ConcatEffect ==
  ASSUME NEW S, NEW a \in Seq(S), NEW b \in Seq(S)
  PROVE  /\ DOMAIN (a \o b) = 1 .. Len(a) + Len(b)
         /\ \A x \in 1 .. Len(a) : (a \o b)[x] = a[x]
         /\ \A x \in 1 .. Len(a) + Len(b) : x > Len(a) => (a \o b)[x] = b[x - Len(a)]
<1>1. Len(a) \in Nat /\ Len(b) \in Nat
  OBVIOUS
<1>2. a \o b \in Seq(S) /\ Len(a \o b) = Len(a) + Len(b)
  OBVIOUS
<1>3. DOMAIN (a \o b) = 1 .. Len(a) + Len(b)
  BY <1>2
<1>4. \A x \in 1 .. Len(a) : (a \o b)[x] = a[x]
  BY <1>1
<1>5. \A x \in 1 .. Len(a) + Len(b) : x > Len(a) => (a \o b)[x] = b[x - Len(a)]
  BY <1>1
<1>6. QED
  BY <1>3, <1>4, <1>5

\* The pending timers of task u after check_timers: one more if its timer
\* expired.
LEMMA HandlerPending ==
  ASSUME KernelTypeOK, TimerHandler, NEW u \in Tasks
  PROVE  /\ [task |-> u, left |-> 0] \in Expired =>
              \E j : /\ j \notin DOMAIN PENDING_QUEUE
                     /\ \A x : x \in DOMAIN PENDING_QUEUE' /\ PENDING_QUEUE'[x] = u <=>
                          (x \in DOMAIN PENDING_QUEUE /\ PENDING_QUEUE[x] = u) \/ x = j
         /\ [task |-> u, left |-> 0] \notin Expired =>
              \A x : x \in DOMAIN PENDING_QUEUE' /\ PENDING_QUEUE'[x] = u <=>
                       x \in DOMAIN PENDING_QUEUE /\ PENDING_QUEUE[x] = u
<1>1. PICK q \in Orders(Expired) :
        PENDING_QUEUE' = PENDING_QUEUE \o [i \in DOMAIN q |-> q[i].task]
  BY DEF TimerHandler
<1>2. PICK k \in 0 .. NumTasks :
        /\ q \in [1 .. k -> Expired]
        /\ \A tm \in Expired : \E i \in 1 .. k : q[i] = tm
        /\ \A i, j \in 1 .. k : q[i] = q[j] => i = j
  BY <1>1 DEF Orders
<1>3. k \in Nat
  BY <1>2
<1>4. \A tm \in Expired : tm.task \in Tasks /\ tm = [task |-> tm.task, left |-> 0]
  <2>1. \A tm \in TIMER_QUEUE : tm \in [task : Tasks, left : Nat]
    BY DEF KernelTypeOK
  <2>2. \A n \in Nat : OneTickLess(n) \in Nat
    BY DEF OneTickLess
  <2>3. Aged \subseteq [task : Tasks, left : Nat]
    BY <2>1, <2>2 DEF Aged
  <2>4. QED
    BY <2>3 DEF Expired
<1> DEFINE r == [i \in DOMAIN q |-> q[i].task]
           n == Len(PENDING_QUEUE)
<1>5. PENDING_QUEUE \in Seq(Tasks) /\ n \in Nat /\ DOMAIN PENDING_QUEUE = 1 .. n
  BY DEF KernelTypeOK
<1>6. DOMAIN q = 1 .. k /\ \A i \in 1 .. k : q[i].task \in Tasks
  BY <1>2, <1>4
<1>7. r \in Seq(Tasks) /\ Len(r) = k /\ \A i \in 1 .. k : r[i] = q[i].task
  BY <1>3, <1>6
<1>8. PENDING_QUEUE' = PENDING_QUEUE \o r
  BY <1>1
<1> HIDE DEF r, n
<1>9. /\ DOMAIN PENDING_QUEUE' = 1 .. n + k
      /\ \A x \in 1 .. n : PENDING_QUEUE'[x] = PENDING_QUEUE[x]
      /\ \A x \in 1 .. n + k : x > n => PENDING_QUEUE'[x] = r[x - n]
  BY <1>5, <1>7, <1>8, ConcatEffect, ZenonT(60) DEF n
<1>10. \A i \in 1 .. k : r[i] = u <=> q[i] = [task |-> u, left |-> 0]
  <2> SUFFICES ASSUME NEW i \in 1 .. k
               PROVE  r[i] = u <=> q[i] = [task |-> u, left |-> 0]
    OBVIOUS
  <2>1. q[i] \in Expired /\ r[i] = q[i].task
    BY <1>2, <1>7
  <2>2. q[i] = [task |-> q[i].task, left |-> 0]
    BY <1>4, <2>1
  <2>3. ASSUME q[i] = [task |-> u, left |-> 0] PROVE q[i].task = u
    BY <2>3
  <2>4. QED
    BY <2>1, <2>2, <2>3
<1>11. CASE [task |-> u, left |-> 0] \in Expired
  <2>1. PICK i \in 1 .. k : q[i] = [task |-> u, left |-> 0]
    BY <1>2, <1>11
  <2>2. \A j \in 1 .. k : r[j] = u <=> j = i
    BY <1>2, <1>10, <2>1
  <2>3. n + i \notin DOMAIN PENDING_QUEUE
    BY <1>5, <2>1
  <2>4. ASSUME NEW x
        PROVE  x \in DOMAIN PENDING_QUEUE' /\ PENDING_QUEUE'[x] = u <=>
                 (x \in DOMAIN PENDING_QUEUE /\ PENDING_QUEUE[x] = u) \/ x = n + i
    <3>1. CASE x \in 1 .. n
      BY <1>3, <1>5, <1>9, <2>1, <3>1
    <3>2. CASE x \in 1 .. n + k /\ x \notin 1 .. n
      <4>1. x > n /\ x - n \in 1 .. k /\ (x = n + i <=> x - n = i)
        BY <1>3, <1>5, <2>1, <3>2
      <4>2. QED
        BY <1>5, <1>9, <2>2, <3>2, <4>1
    <3>3. CASE x \notin 1 .. n + k
      <4>1. n + i \in 1 .. n + k
        BY <1>3, <1>5, <2>1
      <4>2. x \notin 1 .. n
        BY <1>3, <1>5, <3>3
      <4>3. QED
        BY <1>5, <1>9, <3>3, <4>1, <4>2
    <3>4. QED
      BY <3>1, <3>2, <3>3
  <2>5. QED
    BY <1>11, <2>3, <2>4
<1>12. CASE [task |-> u, left |-> 0] \notin Expired
  <2>1. \A j \in 1 .. k : r[j] # u
    BY <1>2, <1>10, <1>12
  <2>2. ASSUME NEW x
        PROVE  x \in DOMAIN PENDING_QUEUE' /\ PENDING_QUEUE'[x] = u <=>
                 x \in DOMAIN PENDING_QUEUE /\ PENDING_QUEUE[x] = u
    <3>1. CASE x \in 1 .. n
      BY <1>3, <1>5, <1>9, <3>1
    <3>2. CASE x \in 1 .. n + k /\ x \notin 1 .. n
      <4>1. x > n /\ x - n \in 1 .. k
        BY <1>3, <1>5, <3>2
      <4>2. QED
        BY <1>5, <1>9, <2>1, <3>2, <4>1
    <3>3. CASE x \notin 1 .. n + k
      <4>1. x \notin 1 .. n
        BY <1>3, <1>5, <3>3
      <4>2. QED
        BY <1>5, <1>9, <3>3, <4>1
    <3>4. QED
      BY <3>1, <3>2, <3>3
  <2>3. QED
    BY <1>12, <2>2
<1>13. QED
  BY <1>11, <1>12

\* What the tick does to the tokens of task u in the timer and pending queues.
LEMMA HandlerTokens ==
  ASSUME KernelTypeOK, TimerHandler, UNCHANGED waiters, NEW u \in Tasks
  PROVE  /\ \A x, y : Token(u, "timer", x, y)' <=>
              /\ y = 0 /\ x # 0
              /\ \E l \in Nat : Token(u, "timer", l, 0) /\ x = OneTickLess(l)
         /\ \A x, y : Token(u, "waiter", x, y)' <=> Token(u, "waiter", x, y)
         /\ \A x, y : Token(u, "unblock", x, y)' <=> Token(u, "unblock", x, y)
         /\ (\A l \in Nat : Token(u, "timer", l, 0) => OneTickLess(l) # 0) =>
              \A x, y : Token(u, "pending", x, y)' <=> Token(u, "pending", x, y)
         /\ (\E l \in Nat : Token(u, "timer", l, 0) /\ OneTickLess(l) = 0) =>
              \E j : \A x, y : Token(u, "pending", x, y)' <=>
                                 Token(u, "pending", x, y) \/ (x = j /\ y = 0)
<1>1. \A x : [task |-> u, left |-> x] \in TIMER_QUEUE' <=>
               /\ x # 0
               /\ \E l \in Nat : [task |-> u, left |-> l] \in TIMER_QUEUE
                                 /\ x = OneTickLess(l)
  <2>1. TIMER_QUEUE' = Aged \ Expired
    BY DEF TimerHandler
  <2>2. \A x : [task |-> u, left |-> x] \in Expired <=>
                 [task |-> u, left |-> x] \in Aged /\ x = 0
    BY DEF Expired
  <2>3. QED
    BY <2>1, <2>2, AgedTimers
<1>2. [task |-> u, left |-> 0] \in Expired <=>
        \E l \in Nat : [task |-> u, left |-> l] \in TIMER_QUEUE /\ OneTickLess(l) = 0
  <2>1. [task |-> u, left |-> 0] \in Expired <=> [task |-> u, left |-> 0] \in Aged
    BY DEF Expired
  <2>2. QED
    BY <2>1, AgedTimers
<1>3. \A l : Token(u, "timer", l, 0) <=> [task |-> u, left |-> l] \in TIMER_QUEUE
  BY DEF Token
<1>4. \A x, y : Token(u, "timer", x, y)' <=>
                  y = 0 /\ [task |-> u, left |-> x] \in TIMER_QUEUE'
  BY DEF Token
<1>5. \A x, y : Token(u, "timer", x, y)' <=>
              /\ y = 0 /\ x # 0
              /\ \E l \in Nat : Token(u, "timer", l, 0) /\ x = OneTickLess(l)
  BY <1>1, <1>3, <1>4
<1>6. \A x, y : Token(u, "waiter", x, y)' <=> Token(u, "waiter", x, y)
  BY DEF Token
<1>7. \A x, y : Token(u, "unblock", x, y)' <=> Token(u, "unblock", x, y)
  BY HandlerType DEF Token, At
<1>8. ASSUME \A l \in Nat : Token(u, "timer", l, 0) => OneTickLess(l) # 0
      PROVE  \A x, y : Token(u, "pending", x, y)' <=> Token(u, "pending", x, y)
  <2>1. [task |-> u, left |-> 0] \notin Expired
    BY <1>2, <1>3, <1>8
  <2>2. \A x : x \in DOMAIN PENDING_QUEUE' /\ PENDING_QUEUE'[x] = u <=>
                 x \in DOMAIN PENDING_QUEUE /\ PENDING_QUEUE[x] = u
    BY <2>1, HandlerPending
  <2>3. QED
    BY <2>2 DEF Token
<1>9. ASSUME \E l \in Nat : Token(u, "timer", l, 0) /\ OneTickLess(l) = 0
      PROVE  \E j : \A x, y : Token(u, "pending", x, y)' <=>
                                Token(u, "pending", x, y) \/ (x = j /\ y = 0)
  <2>1. [task |-> u, left |-> 0] \in Expired
    BY <1>2, <1>3, <1>9
  <2>2. PICK j : \A x : x \in DOMAIN PENDING_QUEUE' /\ PENDING_QUEUE'[x] = u <=>
                          (x \in DOMAIN PENDING_QUEUE /\ PENDING_QUEUE[x] = u) \/ x = j
    BY <2>1, HandlerPending
  <2>3. \A x, y : Token(u, "pending", x, y)' <=>
                    Token(u, "pending", x, y) \/ (x = j /\ y = 0)
    BY <2>2 DEF Token
  <2>4. QED
    BY <2>3
<1>10. QED
  BY <1>5, <1>6, <1>7, <1>8, <1>9

\* A tick moves a sleeper's token along, to PENDING_QUEUE when its time is up.
LEMMA HandlerWake ==
  ASSUME KernelTypeOK, TimerHandler, UNCHANGED waiters, NEW u \in Tasks, WakeOK(u),
         u \in WAKEUP_PENDING' <=> u \in WAKEUP_PENDING,
         Waiting(u)' <=> Waiting(u),
         \A x, y : Token(u, "callback", x, y)' <=> Token(u, "callback", x, y)
  PROVE  WakeOK(u)'
<1>1. \A x, y : Token(u, "remembered", x, y)' <=> Token(u, "remembered", x, y)
  BY DEF Token
<1>2. \A k, x, y : k \notin {"timer", "pending"} =>
        (Token(u, k, x, y)' <=> Token(u, k, x, y))
  <2>1. \A k, x, y : k \in TokenKinds \ {"timer", "pending"} =>
          (Token(u, k, x, y)' <=> Token(u, k, x, y))
    BY <1>1, HandlerTokens DEF TokenKinds
  <2>2. QED
    BY <2>1, TokenKind, TokenKindNext
<1>3. ASSUME NEW l \in Nat, Token(u, "timer", l, 0) PROVE WakeOK(u)'
  <2>1. /\ Waiting(u)
        /\ \A k, x, y : Token(u, k, x, y) <=> k = "timer" /\ x = l /\ y = 0
    BY <1>3, WakeOnly
  <2> DEFINE m == OneTickLess(l)
  <2>2. \A x, y : Token(u, "timer", x, y)' <=> y = 0 /\ x # 0 /\ x = m
    BY <1>3, <2>1, HandlerTokens
  <2>3. \A k, x, y : k \notin {"timer", "pending"} => ~ Token(u, k, x, y)'
    BY <1>2, <2>1
  <2>4. CASE m = 0
    <3>1. PICK j : \A x, y : Token(u, "pending", x, y)' <=>
                               Token(u, "pending", x, y) \/ (x = j /\ y = 0)
      BY <1>3, <2>4, HandlerTokens
    <3>2. \A x, y : Token(u, "pending", x, y)' <=> x = j /\ y = 0
      BY <2>1, <3>1
    <3>3. \A k, x, y : Token(u, k, x, y)' <=> k = "pending" /\ x = j /\ y = 0
      BY <2>2, <2>3, <2>4, <3>2
    <3>4. QED
      BY <2>1, <3>3 DEF WakeOK, Unique, Expected
  <2>5. CASE m # 0
    <3>1. \A x, y : ~ Token(u, "pending", x, y)'
      <4>1. \A x \in Nat : Token(u, "timer", x, 0) => OneTickLess(x) # 0
        BY <2>1, <2>5
      <4>2. \A x, y : Token(u, "pending", x, y)' <=> Token(u, "pending", x, y)
        BY <4>1, HandlerTokens
      <4>3. QED
        BY <2>1, <4>2
    <3> HIDE DEF m
    <3>2. \A k, x, y : Token(u, k, x, y)' <=> k = "timer" /\ x = m /\ y = 0
      BY <2>2, <2>3, <2>5, <3>1
    <3>3. QED
      BY <2>1, <3>2 DEF WakeOK, Unique, Expected
  <2>6. QED
    BY <2>4, <2>5
<1>4. CASE \A l \in Nat : ~ Token(u, "timer", l, 0)
  <2>1. \A x, y : Token(u, "timer", x, y) => y = 0 /\ x \in Nat
    <3>1. \A x : [task |-> u, left |-> x] \in TIMER_QUEUE => x \in Nat
      BY DEF KernelTypeOK
    <3>2. QED
      BY <3>1 DEF Token
  <2>2. \A x, y : ~ Token(u, "timer", x, y) /\ ~ Token(u, "timer", x, y)'
    BY <1>4, <2>1, HandlerTokens
  <2>3. \A x, y : Token(u, "pending", x, y)' <=> Token(u, "pending", x, y)
    BY <1>4, HandlerTokens
  <2>4. \A k, x, y : Token(u, k, x, y)' <=> Token(u, k, x, y)
    BY <1>2, <2>2, <2>3
  <2>5. QED
    BY <2>4, WakeSame
<1>5. QED
  BY <1>3, <1>4

\* check_timers turns a timer's token into a popped callback.
LEMMA InterruptWake ==
  ASSUME KernelInv, NeverRunsBlocked, WakeInv, TimerInterrupt, NEW u \in Tasks
  PROVE  WakeOK(u)'
<1>0. /\ KernelTypeOK /\ SchedInv /\ WakeOK(u) /\ CURRENT_TASK \in Tasks
      /\ TimerHandler /\ UNCHANGED waiters
  BY DEF KernelInv, SchedInv, SchedTypeOK, WakeInv, TimerInterrupt, mutexVars
<1> USE DEF schedVars
<1>1. \A x, y : Token(u, "callback", x, y)' <=> Token(u, "callback", x, y)
  <2>1. CASE UNCHANGED irq
    BY <2>1 DEF Token
  <2>2. CASE ~ UNCHANGED irq
    <3>1. PICK p \in {"enter", "ret"} : Push(Frame(p))
      BY <2>2 DEF TimerInterrupt
    <3>2. Frame(p) \in IrqFrame /\ Frame(p).at # "callback"
      BY FrameType DEF IrqPlaces, Frame
    <3>3. QED
      BY <1>0, <3>1, <3>2, PushCallbacks
  <2>3. QED
    BY <2>1, <2>2
<1>2. pc'[u].at = pc[u].at
  BY <1>0, HandlerType
<1>3. CASE UNCHANGED schedVars
  BY <1>0, <1>1, <1>2, <1>3, HandlerWake, WaitingSame
<1>4. CASE Schedule
  <2>1. CASE /\ u \in WAKEUP_PENDING' <=> u \in WAKEUP_PENDING
             /\ state'[u] = "Blocked" <=> state[u] = "Blocked"
    BY <1>0, <1>1, <1>2, <2>1, HandlerWake, WaitingSame
  <2>2. CASE /\ u \in WAKEUP_PENDING /\ u \notin WAKEUP_PENDING'
             /\ state[u] = "Blocked" /\ state'[u] # "Blocked"
             /\ u = CURRENT_TASK
    <3>1. Token(u, "remembered", 0, 0)
      BY <2>2 DEF Token
    <3>2. \A k, x, y : k # "remembered" => ~ Token(u, k, x, y)
      BY <1>0, <3>1, WakeOnly
    <3>3. \A x, y : ~ Token(u, "timer", x, y)'
      BY <1>0, <3>2, HandlerTokens
    <3>4. \A x, y : ~ Token(u, "pending", x, y)'
      BY <1>0, <3>2, HandlerTokens
    <3>5. \A x, y : ~ Token(u, "waiter", x, y)' /\ ~ Token(u, "unblock", x, y)'
      BY <1>0, <3>2, HandlerTokens
    <3>6. \A x, y : ~ Token(u, "callback", x, y)'
      BY <1>1, <3>2
    <3>7. \A k, x, y : k \in TokenKinds \ {"remembered"} =>
            (Token(u, k, x, y)' <=> Token(u, k, x, y))
      BY <3>2, <3>3, <3>4, <3>5, <3>6 DEF TokenKinds
    <3>8. \A k, x, y : k # "remembered" => (Token(u, k, x, y)' <=> Token(u, k, x, y))
      BY <3>7, TokenKind, TokenKindNext
    <3>9. QED
      BY <1>0, <1>2, <1>4, <3>8, ScheduleKeepsWake
  <2>3. QED
    BY <1>0, <1>4, <2>1, <2>2, ScheduleWakes
<1>5. QED
  BY <1>3, <1>4 DEF TimerInterrupt, Reschedule

\* A softirq step on a frame that is not at a callback: only the tokens of
\* PENDING_QUEUE and of the top frame move.
LEMMA IrqTokens ==
  ASSUME IrqStep, NEW u
  PROVE  /\ \A k, x, y : k \notin {"pending", "callback", "remembered"} =>
              (Token(u, k, x, y)' <=> Token(u, k, x, y))
         /\ UNCHANGED PENDING_QUEUE =>
              \A x, y : Token(u, "pending", x, y)' <=> Token(u, "pending", x, y)
         /\ UNCHANGED WAKEUP_PENDING =>
              \A x, y : Token(u, "remembered", x, y)' <=> Token(u, "remembered", x, y)
BY IrqLeavesPlaces DEF Token, At

\* The softirq turns a callback into a wakeup.
LEMMA IrqWake ==
  ASSUME KernelInv, NeverRunsBlocked, WakeInv, IrqStep, NEW u \in Tasks
  PROVE  WakeOK(u)'
<1>0. /\ KernelTypeOK /\ SchedInv /\ SchedTypeOK /\ WakeOK(u) /\ UNCHANGED pc
      /\ irq \in [Tasks -> Seq(IrqFrame)] /\ PENDING_QUEUE \in Seq(Tasks)
  BY IrqLeavesPlaces DEF KernelInv, SchedInv, WakeInv, KernelTypeOK
<1>1. CURRENT_TASK \in Tasks /\ Depth > 0
  BY <1>0, IrqStepInIrq, InIrqCurrent
<1> USE DEF schedVars, timerVars
<1>2. \A q \in IrqPlaces : Frame(q) \in IrqFrame /\ Frame(q).at = q
  BY FrameType DEF Frame
<1>3. ASSUME UNCHANGED PENDING_QUEUE, UNCHANGED schedVars \/ Schedule,
             \A x, y : Token(u, "callback", x, y)' <=> Token(u, "callback", x, y)
      PROVE  WakeOK(u)'
  <2>1. \A k, x, y : k # "remembered" => (Token(u, k, x, y)' <=> Token(u, k, x, y))
    BY <1>3, IrqTokens
  <2>2. CASE UNCHANGED schedVars
    <3>1. \A x, y : Token(u, "remembered", x, y)' <=> Token(u, "remembered", x, y)
      BY <2>2, IrqTokens
    <3>2. QED
      BY <1>0, <2>1, <2>2, <3>1, WakeSame, WaitingSame
  <2>3. CASE Schedule
    BY <1>0, <1>1, <2>1, <2>3, ScheduleKeepsWake
  <2>4. QED
    BY <1>3, <2>2, <2>3
<1>4. ASSUME NEW f \in IrqFrame, SetTop(f), f.at # "callback", Top.at # "callback"
      PROVE  \A x, y : Token(u, "callback", x, y)' <=> Token(u, "callback", x, y)
  <2>1. f # [at |-> "callback", who |-> u] /\ Top # [at |-> "callback", who |-> u]
    BY <1>4
  <2>2. QED
    BY <1>0, <1>1, <1>4, <2>1, TopCallbacks
<1>5. CASE SoftirqEnter \/ SoftirqLoop \/ SoftirqClear \/ (SoftirqPop /\ PENDING_QUEUE = <<>>)
  <2>1. PICK q \in {"cli", "loop", "pop", "clear"} : SetTop(Frame(q))
    BY <1>5 DEF SoftirqEnter, SoftirqLoop, SoftirqClear, SoftirqPop
  <2>2. Top.at # "callback" /\ UNCHANGED <<PENDING_QUEUE, schedVars>>
    BY <1>5 DEF SoftirqEnter, SoftirqLoop, SoftirqClear, SoftirqPop, InIrq
  <2>3. Frame(q) \in IrqFrame /\ Frame(q).at # "callback"
    BY <1>2 DEF IrqPlaces
  <2>4. QED
    BY <1>3, <1>4, <2>1, <2>2, <2>3
<1>6. CASE IrqExit \/ IrqReturn
  <2>1. /\ Top.at # "callback" /\ UNCHANGED PENDING_QUEUE
        /\ UNCHANGED schedVars \/ Schedule
        /\ Iretq \/ SetTop(Frame("ret"))
    BY <1>6 DEF IrqExit, IrqReturn, InIrq, Reschedule
  <2>2. CASE Iretq
    <3>1. \A x, y : Token(u, "callback", x, y)' <=> Token(u, "callback", x, y)
      BY <1>0, <1>1, <2>1, <2>2, LeaveCallbacks
    <3>2. QED
      BY <1>3, <2>1, <3>1
  <2>3. CASE SetTop(Frame("ret"))
    <3>1. Frame("ret") \in IrqFrame /\ Frame("ret").at # "callback"
      BY <1>2 DEF IrqPlaces
    <3>2. QED
      BY <1>3, <1>4, <2>1, <2>3, <3>1
  <2>4. QED
    BY <2>1, <2>2, <2>3
<1>7. CASE SoftirqPop /\ PENDING_QUEUE # <<>>
  <2> DEFINE w == Head(PENDING_QUEUE)
             n == Len(PENDING_QUEUE)
             f == [at |-> "callback", who |-> w]
  <2>1. /\ InIrq("pop") /\ SetTop(f) /\ PENDING_QUEUE' = Tail(PENDING_QUEUE)
        /\ UNCHANGED schedVars
    BY <1>7 DEF SoftirqPop
  <2>2. /\ n \in Nat \ {0} /\ DOMAIN PENDING_QUEUE = 1 .. n
        /\ DOMAIN PENDING_QUEUE' = 1 .. n - 1
        /\ w = PENDING_QUEUE[1] /\ w \in Tasks
        /\ \A i \in 1 .. n - 1 : PENDING_QUEUE'[i] = PENDING_QUEUE[i + 1]
    BY <1>0, <1>7, <2>1
  <2>3. /\ f \in IrqFrame /\ Top # [at |-> "callback", who |-> u]
        /\ (f = [at |-> "callback", who |-> u] <=> u = w)
    BY <2>1, <2>2 DEF IrqFrame, IrqPlaces, InIrq
  <2>4. SetTop(f)
    BY <2>1
  <2> HIDE DEF w, n, f
  <2>5. \A x, y : IF x = CURRENT_TASK /\ y = Depth
                  THEN /\ Token(u, "callback", x, y)' <=> u = w
                       /\ ~ Token(u, "callback", x, y)
                  ELSE Token(u, "callback", x, y)' <=> Token(u, "callback", x, y)
    BY <1>0, <1>1, <2>3, <2>4, TopCallbacks
  <2>6. \A k, x, y : k \notin {"pending", "callback"} =>
          (Token(u, k, x, y)' <=> Token(u, k, x, y))
    <3>1. UNCHANGED WAKEUP_PENDING
      BY <2>1
    <3>2. \A x, y : Token(u, "remembered", x, y)' <=> Token(u, "remembered", x, y)
      BY <3>1, IrqTokens
    <3>3. QED
      BY <3>2, IrqTokens
  <2>7. Waiting(u)' <=> Waiting(u)
    BY <1>0, <2>1, WaitingSame
  <2>8. \A x, y : Token(u, "pending", x, y)' <=>
                    y = 0 /\ x \in 1 .. n - 1 /\ PENDING_QUEUE[x + 1] = u
    BY <2>2 DEF Token
  <2>9. \A x, y : Token(u, "pending", x, y) <=>
                    y = 0 /\ x \in 1 .. n /\ PENDING_QUEUE[x] = u
    BY <2>2 DEF Token
  <2>10. CASE u = w
    <3>1. Token(u, "pending", 1, 0)
      BY <2>2, <2>9, <2>10
    <3>2. /\ Waiting(u)
          /\ \A k, x, y : Token(u, k, x, y) <=> k = "pending" /\ x = 1 /\ y = 0
      BY <1>0, <3>1, WakeOnly
    <3>3. \A x, y : ~ Token(u, "pending", x, y)'
      <4>1. ASSUME NEW x \in 1 .. n - 1, PENDING_QUEUE[x + 1] = u PROVE FALSE
        <5>1. x + 1 \in 1 .. n /\ x + 1 # 1
          BY <2>2
        <5>2. Token(u, "pending", x + 1, 0)
          BY <2>9, <4>1, <5>1
        <5>3. QED
          BY <3>2, <5>1, <5>2
      <4>2. QED
        BY <2>8, <4>1
    <3>4. \A x, y : Token(u, "callback", x, y)' <=> x = CURRENT_TASK /\ y = Depth
      BY <2>5, <2>10, <3>2
    <3> DEFINE c == CURRENT_TASK
               d == Depth
    <3>5. \A k, x, y : Token(u, k, x, y)' <=> k = "callback" /\ x = c /\ y = d
      BY <2>6, <3>2, <3>3, <3>4
    <3> HIDE DEF c, d
    <3>6. QED
      BY <2>7, <3>2, <3>5 DEF WakeOK, Unique, Expected
  <2>11. CASE u # w
    <3>1. \A x, y : Token(u, "callback", x, y)' <=> Token(u, "callback", x, y)
      BY <2>5, <2>11
    <3>2. \A k, x, y : k # "pending" => (Token(u, k, x, y)' <=> Token(u, k, x, y))
      BY <2>6, <3>1
    <3>3. \A x, y : Token(u, "pending", x, y)' => x \in Nat /\ Token(u, "pending", x + 1, y)
      BY <2>2, <2>8, <2>9
    <3>4. ASSUME NEW x, NEW y, Token(u, "pending", x, y)
          PROVE  x - 1 \in Nat /\ Token(u, "pending", x - 1, y)'
      <4>1. y = 0 /\ x \in 1 .. n /\ PENDING_QUEUE[x] = u /\ x # 1
        BY <2>2, <2>9, <2>11, <3>4
      <4>2. x - 1 \in 1 .. n - 1 /\ (x - 1) + 1 = x
        BY <2>2, <4>1
      <4>3. QED
        BY <2>8, <4>1, <4>2
    <3>5. QED
      BY <1>0, <2>7, <3>2, <3>3, <3>4, WakeShift
  <2>12. QED
    BY <2>10, <2>11
<1>8. CASE SoftirqCallback
  <2> DEFINE w == Top.who
  <2>1. InIrq("callback") /\ UnblockTask(w) /\ SetTop(Frame("pop")) /\ UNCHANGED PENDING_QUEUE
    BY <1>8 DEF SoftirqCallback
  <2>2. irq[CURRENT_TASK] \in Seq(IrqFrame) /\ Top.at = "callback"
    BY <1>0, <1>1, <2>1, InIrqCurrent
  <2>3. Depth \in DOMAIN irq[CURRENT_TASK]
    BY <1>1, <2>2 DEF Depth
  <2>4. Top \in IrqFrame /\ w \in Tasks
    BY <1>0, <1>1, <2>2, <2>3 DEF KernelTypeOK, Top
  <2>5. Top = [at |-> "callback", who |-> u] <=> u = w
    BY <2>2, <2>4 DEF IrqFrame
  <2>6. Frame("pop") \in IrqFrame /\ Frame("pop") # [at |-> "callback", who |-> u]
    BY <1>2 DEF IrqPlaces
  <2>7. UnblockTask(w) /\ w \in Tasks
    BY <2>1, <2>4
  <2> HIDE DEF w
  <2> DEFINE c == CURRENT_TASK
             d == Depth
  <2>8. \A x, y : IF x = c /\ y = d
                  THEN /\ ~ Token(u, "callback", x, y)'
                       /\ Token(u, "callback", x, y) <=> u = w
                  ELSE Token(u, "callback", x, y)' <=> Token(u, "callback", x, y)
    BY <1>0, <1>1, <2>1, <2>5, <2>6, TopCallbacks
  <2> HIDE DEF c, d
  <2>9. \A k, x, y : k # "remembered" =>
          (Token(u, k, x, y)' <=> Token(u, k, x, y) /\ ~(k = "callback" /\ x = c /\ y = d))
    BY <2>1, <2>8, IrqTokens
  <2>10. CASE u = w
    <3>1. Token(u, "callback", c, d) /\ UnblockTask(u)
      BY <2>7, <2>8, <2>10
    <3>2. QED
      BY <1>0, <2>9, <3>1, UnblockDelivers
  <2>11. CASE u # w
    <3>1. \A k, x, y : k # "remembered" => (Token(u, k, x, y)' <=> Token(u, k, x, y))
      BY <2>8, <2>9, <2>11
    <3>2. QED
      BY <1>0, <2>7, <2>11, <3>1, UnblockAside
  <2>12. QED
    BY <2>10, <2>11
<1>9. QED
  BY <1>5, <1>6, <1>7, <1>8 DEF IrqStep

\* At boot nobody waits.
LEMMA BootWake ==
  ASSUME KernelInv, NeverRunsBlocked, WakeInv, Boot, NEW u \in Tasks
  PROVE  WakeOK(u)'
<1>0. /\ KernelTypeOK /\ SchedInv /\ pc \in [Tasks -> Place] /\ WakeOK(u)
      /\ At(Main) = "boot" /\ UNCHANGED <<TIMER_QUEUE, PENDING_QUEUE, waiters, irq>>
  BY DEF KernelInv, KernelTypeOK, WakeInv, Boot, timerVars, mutexVars
<1>1. CASE UNCHANGED pc /\ (AddTask \/ SetCurrentTask)
  <2>1. UNCHANGED <<WAKEUP_PENDING, state>>
    BY <1>1 DEF AddTask, SetCurrentTask
  <2>2. \A k, x, y : Token(u, k, x, y)' <=> Token(u, k, x, y)
    BY <1>0, <1>1, <2>1 DEF Token, At
  <2>3. QED
    BY <1>0, <1>1, <2>1, <2>2, WakeSame, WaitingSame
<1>2. CASE CURRENT_TASK = Main /\ Schedule /\ Goto(Main, "run")
  <2>1. /\ \A v \in Tasks \ {Main} : pc'[v] = pc[v]
        /\ pc'[Main].at = "run" /\ pc[Main].at = "boot"
    BY <1>0, <1>2, MainIsTask, GotoEffect DEF TaskPlaces, At
  <2>2. \A x, y : Token(u, "unblock", x, y)' <=> Token(u, "unblock", x, y)
    BY <2>1 DEF Token, At
  <2>3. \A k, x, y : k \notin {"unblock", "remembered"} =>
          (Token(u, k, x, y)' <=> Token(u, k, x, y))
    BY <1>0 DEF Token
  <2>4. \A k, x, y : k # "remembered" => (Token(u, k, x, y)' <=> Token(u, k, x, y))
    BY <2>2, <2>3
  <2>5. \/ pc'[u].at = pc[u].at
        \/ /\ pc[u].at \notin {"block", "switch", "parked"}
           /\ pc'[u].at \notin {"block", "switch", "parked"}
    BY <2>1
  <2>6. QED
    BY <1>0, <1>2, <2>4, <2>5, MainIsTask, ScheduleKeepsWake
<1>3. QED
  BY <1>1, <1>2 DEF Boot

\* Each step keeps one token per wait.
LEMMA WakeStep == KernelInv /\ NeverRunsBlocked /\ WakeInv /\ [Next]_vars => WakeInv'
<1> SUFFICES ASSUME KernelInv, NeverRunsBlocked, WakeInv, [Next]_vars, NEW u \in Tasks
             PROVE  WakeOK(u)'
  BY DEF WakeInv
<1>1. CASE UNCHANGED vars
  <2>1. UNCHANGED <<TIMER_QUEUE, PENDING_QUEUE, waiters, pc, irq, WAKEUP_PENDING, state>>
    BY <1>1 DEF vars, schedVars, timerVars, mutexVars
  <2>2. \A k, x, y : Token(u, k, x, y)' <=> Token(u, k, x, y)
    BY <2>1 DEF Token, At
  <2>3. QED
    BY <2>1, <2>2, WakeSame, WaitingSame DEF WakeInv
<1>2. QED
  BY <1>1, BootWake, BlockingWake, MutexWake, InterruptWake, IrqWake DEF Next

\* WakeInv is inductive.
LEMMA WakeInvariant == Spec => []WakeInv
<1>1. Init => WakeInv
  <2> SUFFICES ASSUME Init, NEW t \in Tasks PROVE WakeOK(t)
    BY DEF WakeInv
  <2>1. \A u \in Tasks : At(u) \in {"boot", "run"} /\ irq[u] = <<>>
    BY DEF Init, At
  <2>2. TIMER_QUEUE = {} /\ PENDING_QUEUE = <<>> /\ waiters = <<>> /\ WAKEUP_PENDING = {}
    BY DEF Init, SchedInit
  <2>3. ~ Waiting(t)
    BY <2>1 DEF Waiting
  <2>4. \A k, x, y : ~ Token(t, k, x, y)
    BY <2>1, <2>2 DEF Token
  <2>5. QED
    BY <2>3, <2>4 DEF WakeOK, Unique, Expected
<1>2. KernelInv /\ BlockInvariant /\ WakeInv /\ [Next]_vars => WakeInv'
  BY WakeStep DEF BlockInvariant
<1>3. QED
  BY <1>1, <1>2, KernelInvariant, BlockInvariantHolds, PTL DEF Spec

\* How Wakes names a token.
TokenName(k, x, y) ==
  IF k = "callback" THEN <<k, x, y>> ELSE IF k = "remembered" THEN <<k>> ELSE <<k, x>>

\* Wakes counts tokens.
LEMMA WakesAreTokens ==
  ASSUME KernelTypeOK, NEW t \in Tasks
  PROVE  /\ \A v \in Wakes(t) : \E k, x, y : Token(t, k, x, y) /\ v = TokenName(k, x, y)
         /\ Expected(t) => Wakes(t) # {}
<1>1. \A tm \in TIMER_QUEUE : tm = [task |-> tm.task, left |-> tm.left]
  BY DEF KernelTypeOK
<1>2. ASSUME NEW v \in Wakes(t)
      PROVE  \E k, x, y : Token(t, k, x, y) /\ v = TokenName(k, x, y)
  <2>1. CASE v \in {<<"timer", tm.left>> : tm \in {x \in TIMER_QUEUE : x.task = t}}
    <3>1. PICK tm \in TIMER_QUEUE : tm.task = t /\ v = <<"timer", tm.left>>
      BY <2>1
    <3>2. Token(t, "timer", tm.left, 0)
      BY <1>1, <3>1 DEF Token
    <3>3. QED
      BY <3>1, <3>2 DEF TokenName
  <2>2. CASE v \in {<<"pending", i>> :
                      i \in {j \in DOMAIN PENDING_QUEUE : PENDING_QUEUE[j] = t}}
    <3>1. PICK i \in DOMAIN PENDING_QUEUE : PENDING_QUEUE[i] = t /\ v = <<"pending", i>>
      BY <2>2
    <3>2. Token(t, "pending", i, 0)
      BY <3>1 DEF Token
    <3>3. QED
      BY <3>1, <3>2 DEF TokenName
  <2>3. CASE v \in {<<"waiter", i>> : i \in {j \in DOMAIN waiters : waiters[j] = t}}
    <3>1. PICK i \in DOMAIN waiters : waiters[i] = t /\ v = <<"waiter", i>>
      BY <2>3
    <3>2. Token(t, "waiter", i, 0)
      BY <3>1 DEF Token
    <3>3. QED
      BY <3>1, <3>2 DEF TokenName
  <2>4. CASE v \in {<<"unblock", u>> : u \in {w \in Tasks : At(w) = "unblock" /\ pc[w].who = t}}
    <3>1. PICK u \in Tasks : At(u) = "unblock" /\ pc[u].who = t /\ v = <<"unblock", u>>
      BY <2>4
    <3>2. Token(t, "unblock", u, 0)
      BY <3>1 DEF Token
    <3>3. QED
      BY <3>1, <3>2 DEF TokenName
  <2>5. CASE \E u \in Tasks :
               v \in {<<"callback", u, i>> :
                        i \in {j \in DOMAIN irq[u] :
                                 irq[u][j] = [at |-> "callback", who |-> t]}}
    <3>1. PICK u \in Tasks : \E i \in DOMAIN irq[u] :
            irq[u][i] = [at |-> "callback", who |-> t] /\ v = <<"callback", u, i>>
      BY <2>5
    <3>2. PICK i \in DOMAIN irq[u] :
            irq[u][i] = [at |-> "callback", who |-> t] /\ v = <<"callback", u, i>>
      BY <3>1
    <3>3. Token(t, "callback", u, i)
      BY <3>2 DEF Token
    <3>4. QED
      BY <3>2, <3>3 DEF TokenName
  <2>6. CASE v \in {<<"remembered">> : u \in {t} \cap WAKEUP_PENDING}
    <3>1. t \in WAKEUP_PENDING /\ v = <<"remembered">>
      BY <2>6
    <3>2. Token(t, "remembered", 0, 0)
      BY <3>1 DEF Token
    <3>3. QED
      BY <3>1, <3>2 DEF TokenName
  <2>7. QED
    BY <1>2, <2>1, <2>2, <2>3, <2>4, <2>5, <2>6 DEF Wakes
<1>3. ASSUME NEW k, NEW x, NEW y, Token(t, k, x, y) PROVE Wakes(t) # {}
  <2>1. CASE [task |-> t, left |-> x] \in TIMER_QUEUE
    <3>1. [task |-> t, left |-> x].task = t
      OBVIOUS
    <3>2. QED
      BY <2>1, <3>1, ZenonT(60) DEF Wakes
  <2>2. CASE x \in DOMAIN PENDING_QUEUE /\ PENDING_QUEUE[x] = t
    <3>1. <<"pending", x>> \in {<<"pending", i>> :
                               i \in {j \in DOMAIN PENDING_QUEUE : PENDING_QUEUE[j] = t}}
      BY <2>2
    <3>2. QED
      BY <3>1 DEF Wakes
  <2>3. CASE x \in DOMAIN waiters /\ waiters[x] = t
    <3>1. <<"waiter", x>> \in {<<"waiter", i>> : i \in {j \in DOMAIN waiters : waiters[j] = t}}
      BY <2>3
    <3>2. QED
      BY <3>1 DEF Wakes
  <2>4. CASE x \in Tasks /\ At(x) = "unblock" /\ pc[x].who = t
    BY <2>4, ZenonT(60) DEF Wakes
  <2>5. CASE /\ x \in Tasks /\ y \in DOMAIN irq[x]
             /\ irq[x][y] = [at |-> "callback", who |-> t]
    <3> DEFINE C(u) == {<<"callback", u, i>> :
                          i \in {j \in DOMAIN irq[u] :
                                   irq[u][j] = [at |-> "callback", who |-> t]}}
    <3>1. <<"callback", x, y>> \in C(x)
      BY <2>5
    <3>2. <<"callback", x, y>> \in UNION {C(u) : u \in Tasks}
      BY <2>5, <3>1
    <3>3. QED
      BY <3>2 DEF Wakes
  <2>6. CASE t \in WAKEUP_PENDING
    BY <2>6 DEF Wakes
  <2>7. QED
    BY <1>3, <2>1, <2>2, <2>3, <2>4, <2>5, <2>6 DEF Token
<1>4. QED
  BY <1>2, <1>3 DEF Expected

\* Every wait is answered by exactly one wakeup, wherever it is on its way
\* (timer heap, PENDING_QUEUE, callback, wait queue, unblock_task's caller or
\* WAKEUP_PENDING), and none is left over for a later wait.
THEOREM KernelOneWakePerWait == Spec => []OneWakePerWait
<1>1. KernelInv /\ WakeInv => OneWakePerWait
  <2> SUFFICES ASSUME KernelInv, WakeInv, NEW t \in Tasks
               PROVE  /\ \A v, w \in Wakes(t) : v = w
                      /\ Wakes(t) # {} => Waiting(t)
                      /\ Waiting(t) /\ "block" \notin Ops[t] => Wakes(t) # {}
    BY DEF OneWakePerWait
  <2>1. WakeOK(t) /\ KernelTypeOK
    BY DEF WakeInv, KernelInv
  <2>2. ASSUME NEW v \in Wakes(t), NEW w \in Wakes(t) PROVE v = w
    <3>1. PICK k, x, y : Token(t, k, x, y) /\ v = TokenName(k, x, y)
      BY <2>1, WakesAreTokens
    <3>2. PICK k2, x2, y2 : Token(t, k2, x2, y2) /\ w = TokenName(k2, x2, y2)
      BY <2>1, WakesAreTokens
    <3>3. k2 = k /\ x2 = x /\ y2 = y
      BY <2>1, <3>1, <3>2, WakeOnly
    <3>4. QED
      BY <3>1, <3>2, <3>3
  <2>3. Wakes(t) # {} <=> Expected(t)
    BY <2>1, WakesAreTokens DEF Expected
  <2>4. QED
    BY <2>1, <2>2, <2>3 DEF WakeOK
<1>2. QED
  BY <1>1, KernelInvariant, WakeInvariant, PTL

-----------------------------------------------------------------------------
(* Sleepers *)

\* Only sleep_ms, register_timer and the tick touch timers and sleeps.
LEMMA TimersAside ==
  ASSUME KernelInv, [Next]_vars, ~ TimerInterrupt,
         \A t \in Tasks : ~ SleepMs(t) /\ ~ RegisterTimer(t)
  PROVE  /\ UNCHANGED TIMER_QUEUE
         /\ \A t \in Tasks : /\ pc'[t].left = pc[t].left
                             /\ At(t) = "arm" => pc'[t].at = "arm"
<1>0. pc \in [Tasks -> Place] /\ KernelTypeOK
  BY DEF KernelInv, KernelTypeOK
<1> USE DEF timerVars
<1>1. CASE UNCHANGED vars
  BY <1>1 DEF vars, At
<1>2. CASE Boot
  <2>1. /\ UNCHANGED TIMER_QUEUE /\ At(Main) = "boot"
        /\ UNCHANGED pc \/ Goto(Main, "run")
    BY <1>2 DEF Boot
  <2>2. QED
    BY <1>0, <2>1, MainIsTask, GotoEffect DEF TaskPlaces, At
<1>3. CASE IrqStep
  BY <1>3, IrqLeavesPlaces DEF At
<1>4. ASSUME NEW t \in Tasks, BlockingStep(t) \/ MutexStep(t)
      PROVE  /\ UNCHANGED TIMER_QUEUE
             /\ pc'[t].left = pc[t].left
             /\ At(t) # "arm"
  <2>1. CASE BlockingStep(t)
    <3>1. UNCHANGED TIMER_QUEUE /\ At(t) # "arm"
      BY <2>1 DEF BlockingStep, YieldNow, BlockForever, Block, SwitchOut, Resume, Calls
    <3>2. pc'[t].left = pc[t].left
      BY <1>0, <2>1 DEF BlockingStep, YieldNow, BlockForever, Block, SwitchOut, Resume,
         Goto, Place
    <3>3. QED
      BY <3>1, <3>2
  <2>2. CASE MutexStep(t)
    <3>1. UNCHANGED TIMER_QUEUE /\ At(t) # "arm"
      BY <2>2 DEF MutexStep, LockCas, TryLock, WaitPush, Unlock, WakePop, WakeUnblock, Calls
    <3>2. pc'[t].left = pc[t].left
      BY <1>0, <2>2 DEF MutexStep, LockCas, TryLock, WaitPush, Unlock, WakePop, WakeUnblock,
         Goto, Place
    <3>3. QED
      BY <3>1, <3>2
  <2>3. QED
    BY <1>4, <2>1, <2>2
<1>5. ASSUME NEW t \in Tasks, BlockingStep(t) \/ MutexStep(t)
      PROVE  \A u \in Tasks : pc'[u].left = pc[u].left /\ (At(u) = "arm" => pc'[u].at = "arm")
  BY <1>4, <1>5, TaskStepEffect DEF At
<1>6. QED
  BY <1>1, <1>2, <1>3, <1>4, <1>5 DEF Next

\* A timer in the queue has as many ticks left as its sleeper.
LEMMA TimerKeepsTimeStep ==
  KernelInv /\ TimerKeepsTime /\ [Next]_vars => TimerKeepsTime'
<1> SUFFICES ASSUME KernelInv, TimerKeepsTime, [Next]_vars,
                    NEW u \in Tasks, pc'[u].left > 0
             PROVE  pc'[u].at = "arm" \/ [task |-> u, left |-> pc'[u].left] \in TIMER_QUEUE'
  BY DEF TimerKeepsTime, At
<1>0. pc \in [Tasks -> Place] /\ KernelTypeOK
  BY DEF KernelInv, KernelTypeOK
<1>a. pc[u].left > 0 => pc[u].at = "arm" \/ [task |-> u, left |-> pc[u].left] \in TIMER_QUEUE
  BY DEF TimerKeepsTime, At
<1>1. ASSUME NEW t \in Tasks, SleepMs(t)
      PROVE  pc'[u].at = "arm" \/ [task |-> u, left |-> pc'[u].left] \in TIMER_QUEUE'
  <2>1. UNCHANGED TIMER_QUEUE /\ pc'[t].at = "arm"
    BY <1>0, <1>1 DEF SleepMs, timerVars, Place
  <2>2. \A v \in Tasks \ {t} : pc'[v] = pc[v]
    BY <1>1, TaskStepEffect DEF BlockingStep
  <2>3. QED
    BY <1>a, <2>1, <2>2
<1>2. ASSUME NEW t \in Tasks, RegisterTimer(t)
      PROVE  pc'[u].at = "arm" \/ [task |-> u, left |-> pc'[u].left] \in TIMER_QUEUE'
  <2>1. TIMER_QUEUE' = TIMER_QUEUE \cup {[task |-> t, left |-> pc[t].left]} /\ Goto(t, "block")
    BY <1>2 DEF RegisterTimer
  <2>2. pc'[t].left = pc[t].left /\ \A v \in Tasks \ {t} : pc'[v] = pc[v]
    BY <1>0, <2>1, GotoEffect DEF TaskPlaces
  <2>3. QED
    BY <1>a, <2>1, <2>2
<1>3. CASE TimerInterrupt
  <2>1. TimerHandler
    BY <1>3 DEF TimerInterrupt
  <2>2. pc'[u].at = pc[u].at /\ pc'[u].left = OneTickLess(pc[u].left) /\ pc[u].left \in Nat
    BY <1>0, <2>1, HandlerType DEF Place
  <2>3. pc[u].left > 0
    BY <2>2 DEF OneTickLess
  <2>4. CASE pc[u].at = "arm"
    BY <2>2, <2>4
  <2>5. CASE [task |-> u, left |-> pc[u].left] \in TIMER_QUEUE
    <3>1. [task |-> u, left |-> pc'[u].left] \in Aged
      BY <1>0, <2>2, <2>5, AgedTimers
    <3>2. [task |-> u, left |-> pc'[u].left] \notin Expired
      BY DEF Expired
    <3>3. QED
      BY <2>1, <3>1, <3>2 DEF TimerHandler
  <2>6. QED
    BY <1>a, <2>3, <2>4, <2>5
<1>4. CASE ~ TimerInterrupt /\ \A t \in Tasks : ~ SleepMs(t) /\ ~ RegisterTimer(t)
  BY <1>a, <1>4, TimersAside DEF At
<1>5. QED
  BY <1>1, <1>2, <1>3, <1>4

\* TimerKeepsTime is inductive.
LEMMA TimerInvariant == Spec => []TimerKeepsTime
<1>1. Init => TimerKeepsTime
  BY DEF Init, TimerKeepsTime
<1>2. KernelInv /\ TimerKeepsTime /\ [Next]_vars => TimerKeepsTime'
  BY TimerKeepsTimeStep
<1>3. QED
  BY <1>1, <1>2, KernelInvariant, PTL DEF Spec

\* A task goes on from block_current_task only when no wakeup is on its way to
\* it any more: the one it waited for has arrived.
LEMMA WakesFirst ==
  ASSUME KernelInv, NeverRunsBlocked, WakeInv, [Next]_vars, NEW t \in Tasks,
         At(t) \in {"block", "parked"}, pc'[t].at = "run"
  PROVE  \A x : [task |-> t, left |-> x] \notin TIMER_QUEUE
<1>0. pc \in [Tasks -> Place] /\ KernelTypeOK /\ WakeOK(t)
  BY DEF KernelInv, KernelTypeOK, WakeInv
<1>1. CASE Block(t)
  <2>1. Goto(t, IF t \in WAKEUP_PENDING THEN pc[t].ret ELSE "switch")
    BY <1>1 DEF Block
  <2>2. t \notin WAKEUP_PENDING => pc'[t].at = "switch"
    BY <1>0, <2>1, GotoEffect DEF TaskPlaces
  <2>3. Token(t, "remembered", 0, 0)
    BY <2>2 DEF Token
  <2>4. \A x : ~ Token(t, "timer", x, 0)
    BY <1>0, <2>3, WakeOnly
  <2>5. QED
    BY <2>4 DEF Token
<1>2. CASE Resume(t)
  <2>1. CURRENT_TASK = t /\ At(t) = "parked"
    BY <1>2 DEF Resume, Executes
  <2>2. ~ Waiting(t)
    BY <2>1 DEF NeverRunsBlocked, Waiting
  <2>3. \A x : ~ Token(t, "timer", x, 0)
    BY <1>0, <2>2, WakeOnly
  <2>4. QED
    BY <2>3 DEF Token
<1>3. CASE ~ Block(t) /\ ~ Resume(t)
  <2>1. pc'[t].at = pc[t].at
    <3>1. CASE UNCHANGED vars
      BY <3>1 DEF vars
    <3>2. CASE Boot
      <4>1. At(Main) = "boot" /\ (UNCHANGED pc \/ Goto(Main, "run"))
        BY <3>2 DEF Boot
      <4>2. QED
        BY <1>0, <4>1, MainIsTask, GotoEffect DEF TaskPlaces, At
    <3>3. ASSUME NEW u \in Tasks, BlockingStep(u) \/ MutexStep(u) PROVE pc'[t].at = pc[t].at
      <4>1. CASE u # t
        BY <3>3, <4>1, TaskStepEffect
      <4>2. CASE u = t
        BY <1>3, <3>3, <4>2 DEF BlockingStep, MutexStep, YieldNow, SleepMs, RegisterTimer,
           BlockForever, SwitchOut, LockCas, TryLock, WaitPush, Unlock, WakePop,
           WakeUnblock, Calls
      <4>3. QED
        BY <4>1, <4>2
    <3>4. CASE TimerInterrupt
      BY <1>0, <3>4, HandlerType DEF TimerInterrupt
    <3>5. CASE IrqStep
      BY <3>5, IrqLeavesPlaces
    <3>6. QED
      BY <3>1, <3>2, <3>3, <3>4, <3>5 DEF Next
  <2>2. QED
    BY <2>1 DEF At
<1>4. QED
  BY <1>1, <1>2, <1>3

\* sleep_ms(n) does not return before the n-th tick after it read the clock,
\* whatever is preempted between Timer::new, register_timer and the block.
THEOREM KernelSleepNeverEarly == Spec => SleepNeverEarly
<1> DEFINE OnTime == \A t \in Tasks : At(t) \in {"block", "parked"} /\ pc[t].ret = "run"
                                        /\ At(t)' = "run" => pc[t].left = 0
<1>1. KernelInv /\ BlockInvariant /\ WakeInv /\ TimerKeepsTime /\ [Next]_vars => [OnTime]_vars
  <2> SUFFICES ASSUME KernelInv, BlockInvariant, WakeInv, TimerKeepsTime, [Next]_vars,
                      NEW t \in Tasks, At(t) \in {"block", "parked"}, pc'[t].at = "run"
               PROVE  pc[t].left = 0
    BY DEF At
  <2>1. \A x : [task |-> t, left |-> x] \notin TIMER_QUEUE
    BY WakesFirst DEF BlockInvariant
  <2>2. ~ (pc[t].left > 0)
    BY <2>1 DEF TimerKeepsTime
  <2>3. pc[t].left \in Nat
    BY DEF KernelInv, KernelTypeOK, Place
  <2>4. QED
    BY <2>2, <2>3
<1>2. QED
  BY <1>1, KernelInvariant, BlockInvariantHolds, WakeInvariant, TimerInvariant, PTL
  DEF Spec, SleepNeverEarly

=============================================================================
