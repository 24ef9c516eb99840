---------------------------- MODULE SchedProofs ----------------------------
(***************************************************************************)
(* For every set of tasks, classes and priorities: the scheduler never     *)
(* loses or duplicates a task, keeps each task's state in step with its    *)
(* place, and never parks a task whose wakeup is pending.  SchedInv is     *)
(* inductive; each action's proof first says how it changes the queues.    *)
(***************************************************************************)
EXTENDS Sched, TLAPS

USE SchedAssumption

\* What Enqueue does to the queues when it is given at most one task: every
\* element is an old one or a new one, on the queue of its class.
LEMMA EnqueueOne ==
  ASSUME NEW S \in SUBSET Tasks,
         \A t, u \in S : t = u,
         NEW rt \in SUBSET Tasks, NEW cfs \in SUBSET Tasks,
         NEW idle \in Seq(Tasks),
         Enqueue(S, rt, cfs, idle)
  PROVE  /\ RT_QUEUE' \subseteq Tasks
         /\ CFS_QUEUE' \subseteq Tasks
         /\ IDLE_QUEUE' \in Seq(Tasks)
         /\ RT_QUEUE' = rt \cup OfClass(S, "Realtime")
         /\ CFS_QUEUE' = cfs \cup OfClass(S, "Normal")
         /\ Elements(IDLE_QUEUE') = Elements(idle) \cup OfClass(S, "Idle")
         /\ Distinct(idle) /\ Elements(idle) \cap S = {} => Distinct(IDLE_QUEUE')
<1>1. CASE \E t \in S : SchedClass[t] = "Idle"
  <2>1. PICK t \in S : SchedClass[t] = "Idle"
    BY <1>1
  <2>2. S = {t}
    BY <2>1
  <2>3. IDLE_QUEUE' = Append(idle, t)
    <3>1. (CHOOSE u \in S : SchedClass[u] = "Idle") = t
      BY <2>1, <2>2
    <3>2. QED
      BY <1>1, <3>1 DEF Enqueue
  <2>4. OfClass(S, "Idle") = {t}
    BY <2>1, <2>2 DEF OfClass
  <2>5. /\ IDLE_QUEUE' \in Seq(Tasks)
        /\ DOMAIN IDLE_QUEUE' = 1 .. Len(idle) + 1
        /\ DOMAIN idle = 1 .. Len(idle)
        /\ Len(idle) \in Nat
        /\ IDLE_QUEUE'[Len(idle) + 1] = t
        /\ \A i \in 1 .. Len(idle) : IDLE_QUEUE'[i] = idle[i]
    BY <2>3
  <2>6. Elements(IDLE_QUEUE') = Elements(idle) \cup {t}
    BY <2>5 DEF Elements
  <2>7. ASSUME Distinct(idle),
               Elements(idle) \cap S = {},
               NEW i \in DOMAIN IDLE_QUEUE', NEW j \in DOMAIN IDLE_QUEUE',
               IDLE_QUEUE'[i] = IDLE_QUEUE'[j]
        PROVE  i = j
    BY <2>2, <2>5, <2>7 DEF Elements, Distinct
  <2>8. QED
    BY <2>4, <2>5, <2>6, <2>7 DEF Enqueue, OfClass, Distinct
<1>2. CASE ~ \E t \in S : SchedClass[t] = "Idle"
  BY <1>2 DEF Enqueue, OfClass
<1>3. QED
  BY <1>1, <1>2

\* What popping the front of the idle queue leaves.
LEMMA PopIdle ==
  ASSUME NEW q \in Seq(Tasks), q # <<>>, Distinct(q)
  PROVE  /\ Tail(q) \in Seq(Tasks)
         /\ Head(q) \in Elements(q)
         /\ Elements(Tail(q)) = Elements(q) \ {Head(q)}
         /\ Distinct(Tail(q))
<1>1. /\ Len(q) \in Nat \ {0}
      /\ DOMAIN q = 1 .. Len(q)
      /\ Tail(q) \in Seq(Tasks)
      /\ DOMAIN Tail(q) = 1 .. Len(q) - 1
      /\ Head(q) = q[1]
      /\ \A i \in 1 .. Len(q) - 1 : Tail(q)[i] = q[i + 1]
  OBVIOUS
<1>2. ASSUME NEW x
      PROVE  x \in Elements(Tail(q)) <=> x \in Elements(q) /\ x # q[1]
  <2>1. ASSUME NEW i \in 1 .. Len(q) - 1, x = Tail(q)[i]
        PROVE  x \in Elements(q) /\ x # q[1]
    <3>1. i + 1 \in DOMAIN q /\ 1 \in DOMAIN q /\ i + 1 # 1 /\ x = q[i + 1]
      BY <1>1, <2>1
    <3>2. QED
      BY <3>1 DEF Elements, Distinct
  <2>2. ASSUME NEW i \in DOMAIN q, x = q[i], x # q[1]
        PROVE  x \in Elements(Tail(q))
    <3>1. i - 1 \in DOMAIN Tail(q) /\ x = Tail(q)[i - 1]
      BY <1>1, <2>2
    <3>2. QED
      BY <3>1 DEF Elements
  <2>3. QED
    BY <1>1, <2>1, <2>2 DEF Elements
<1>3. Head(q) \in Elements(q)
  <2>1. 1 \in DOMAIN q
    BY <1>1
  <2>2. QED
    BY <1>1, <2>1 DEF Elements
<1>4. ASSUME NEW i \in DOMAIN Tail(q), NEW j \in DOMAIN Tail(q),
             Tail(q)[i] = Tail(q)[j]
      PROVE  i = j
  <2>1. i + 1 \in DOMAIN q /\ j + 1 \in DOMAIN q /\ q[i + 1] = q[j + 1]
    BY <1>1, <1>4
  <2>2. i + 1 = j + 1
    BY <2>1 DEF Distinct
  <2>3. QED
    BY <1>1, <2>2
<1>5. Elements(Tail(q)) = Elements(q) \ {Head(q)}
  BY <1>1, <1>2
<1>6. QED
  BY <1>1, <1>3, <1>4, <1>5 DEF Distinct

\* The empty queue.
LEMMA EmptyIdle == Elements(<< >>) = {} /\ Distinct(<< >>)
  BY DEF Elements, Distinct

\* Queues hold tasks.
LEMMA QueuedTasks == SchedTypeOK => Queued \subseteq Tasks
  BY DEF SchedTypeOK, Queued, Elements

\* EnqueueOne for a single task that is not yet queued.
LEMMA EnqueueFresh ==
  ASSUME SchedInv, NEW t \in Tasks, t \notin Queued,
         Enqueue({t}, RT_QUEUE, CFS_QUEUE, IDLE_QUEUE)
  PROVE  /\ RT_QUEUE' \subseteq Tasks /\ CFS_QUEUE' \subseteq Tasks
         /\ IDLE_QUEUE' \in Seq(Tasks)
         /\ RT_QUEUE' = RT_QUEUE \cup OfClass({t}, "Realtime")
         /\ CFS_QUEUE' = CFS_QUEUE \cup OfClass({t}, "Normal")
         /\ Elements(IDLE_QUEUE') = Elements(IDLE_QUEUE) \cup OfClass({t}, "Idle")
         /\ Distinct(IDLE_QUEUE')
         /\ Queued' = Queued \cup {t}
<1>1. /\ RT_QUEUE \in SUBSET Tasks /\ CFS_QUEUE \in SUBSET Tasks
      /\ IDLE_QUEUE \in Seq(Tasks)
      /\ Distinct(IDLE_QUEUE)
      /\ Elements(IDLE_QUEUE) \cap {t} = {}
  BY DEF SchedInv, SchedTypeOK, OneHome, Queued
<1>2. {t} \in SUBSET Tasks /\ \A u, v \in {t} : u = v
  OBVIOUS
<1>3. /\ RT_QUEUE' \subseteq Tasks /\ CFS_QUEUE' \subseteq Tasks
      /\ IDLE_QUEUE' \in Seq(Tasks)
      /\ RT_QUEUE' = RT_QUEUE \cup OfClass({t}, "Realtime")
      /\ CFS_QUEUE' = CFS_QUEUE \cup OfClass({t}, "Normal")
      /\ Elements(IDLE_QUEUE') = Elements(IDLE_QUEUE) \cup OfClass({t}, "Idle")
      /\ Distinct(IDLE_QUEUE')
  BY <1>1, <1>2, EnqueueOne
<1>4. Queued' = Queued \cup {t}
  BY <1>3 DEF Queued, OfClass
<1>5. QED
  BY <1>3, <1>4

\* Nothing is queued initially.
LEMMA InitSchedInv == SchedInit => SchedInv
<1>1. SchedInit => Queued = {}
  BY EmptyIdle DEF SchedInit, Queued
<1>2. QED
  BY <1>1, EmptyIdle DEF SchedInit, SchedInv, SchedTypeOK, OneHome,
     StateMatchesHome, NoWakeupOverlooked, TaskState, Tasks

\* A new task takes the next id and goes on the queue of its class.
LEMMA AddTaskInv ==
  ASSUME SchedInv, AddTask
  PROVE  SchedInv'
<1> DEFINE n == NEXT_ID
<1>1. n \in Tasks /\ n \notin Queued \cup BLOCKED_TASKS /\ n # CURRENT_TASK
  BY DEF AddTask, SchedInv, SchedTypeOK, OneHome, Tasks
<1>2. Enqueue({n}, RT_QUEUE, CFS_QUEUE, IDLE_QUEUE)
  BY DEF AddTask
<1>3. /\ RT_QUEUE' \subseteq Tasks /\ CFS_QUEUE' \subseteq Tasks
      /\ IDLE_QUEUE' \in Seq(Tasks)
      /\ RT_QUEUE' = RT_QUEUE \cup OfClass({n}, "Realtime")
      /\ CFS_QUEUE' = CFS_QUEUE \cup OfClass({n}, "Normal")
      /\ Elements(IDLE_QUEUE') = Elements(IDLE_QUEUE) \cup OfClass({n}, "Idle")
      /\ Distinct(IDLE_QUEUE')
      /\ Queued' = Queued \cup {n}
  BY <1>1, <1>2, EnqueueFresh
<1>4. NEXT_ID' \in 0 .. NumTasks
  BY <1>1 DEF AddTask, Tasks
<1>5. SchedTypeOK'
  BY <1>3, <1>4 DEF AddTask, SchedInv, SchedTypeOK
<1>6. OneHome'
  <2>1. \A t \in Tasks : t < NEXT_ID' <=> t < n \/ t = n
    BY <1>1 DEF AddTask, SchedInv, SchedTypeOK, Tasks
  <2>2. QED
    BY <1>1, <1>3, <2>1 DEF AddTask, SchedInv, OneHome, OfClass
<1>7. StateMatchesHome'
  <2>1. \A t \in Tasks : t >= NEXT_ID' => t >= n
    BY <1>1 DEF AddTask, SchedInv, SchedTypeOK, Tasks
  <2>2. state[n] = "Ready"
    BY <1>1 DEF SchedInv, StateMatchesHome, Tasks
  <2>3. QED
    BY <1>3, <2>1, <2>2 DEF AddTask, SchedInv, StateMatchesHome
<1>8. QED
  BY <1>5, <1>6, <1>7 DEF AddTask, SchedInv, NoWakeupOverlooked

\* set_current_task puts the boot task on the CPU; it was never queued.
LEMMA SetCurrentTaskInv ==
  ASSUME SchedInv, SetCurrentTask
  PROVE  SchedInv'
<1>1. Queued' = Queued
  BY DEF SetCurrentTask, Queued
<1>2. /\ NEXT_ID \in Tasks /\ NEXT_ID \notin Queued \cup BLOCKED_TASKS
      /\ \A t \in Tasks : t < NEXT_ID' <=> t < NEXT_ID \/ t = NEXT_ID
      /\ \A t \in Tasks : t >= NEXT_ID' => t >= NEXT_ID
  BY DEF SetCurrentTask, SchedInv, SchedTypeOK, OneHome, Tasks
<1>3. SchedTypeOK'
  BY <1>2 DEF SetCurrentTask, SchedInv, SchedTypeOK, Tasks
<1>4. OneHome'
  BY <1>1, <1>2 DEF SetCurrentTask, SchedInv, OneHome, SchedTypeOK
<1>5. StateMatchesHome'
  BY <1>1, <1>2 DEF SetCurrentTask, SchedInv, StateMatchesHome, SchedTypeOK
<1>6. QED
  BY <1>3, <1>4, <1>5 DEF SetCurrentTask, SchedInv, NoWakeupOverlooked

\* block_current_task parks the task on the CPU, or consumes the wakeup.
LEMMA BlockInv ==
  ASSUME SchedInv, BlockCurrentTask
  PROVE  SchedInv'
<1>1. Queued' = Queued
  BY DEF BlockCurrentTask, Queued
<1>2. CURRENT_TASK \in Tasks
  BY DEF BlockCurrentTask, SchedInv, SchedTypeOK
<1>3. \A t \in Tasks \ {CURRENT_TASK} : state'[t] = state[t]
  BY DEF BlockCurrentTask, SchedInv, SchedTypeOK
<1>4. SchedTypeOK'
  BY <1>2 DEF BlockCurrentTask, SchedInv, SchedTypeOK, TaskState
<1>5. OneHome'
  BY <1>1 DEF BlockCurrentTask, SchedInv, OneHome
<1>6. StateMatchesHome'
  <2>1. CURRENT_TASK < NEXT_ID /\ CURRENT_TASK \notin Queued \cup BLOCKED_TASKS
    BY <1>2 DEF SchedInv, OneHome
  <2>2. Queued \subseteq Tasks /\ BLOCKED_TASKS \subseteq Tasks
    BY QueuedTasks DEF SchedInv, SchedTypeOK
  <2>3. ~(CURRENT_TASK >= NEXT_ID)
    BY <1>2, <2>1 DEF SchedInv, SchedTypeOK, Tasks
  <2>4. state'[CURRENT_TASK] \in {state[CURRENT_TASK], "Blocked"}
    BY <1>2 DEF BlockCurrentTask, SchedInv, SchedTypeOK
  <2>5. QED
    BY <1>1, <1>2, <1>3, <2>1, <2>2, <2>3, <2>4
       DEF BlockCurrentTask, SchedInv, StateMatchesHome
<1>7. QED
  BY <1>4, <1>5, <1>6 DEF BlockCurrentTask, SchedInv, NoWakeupOverlooked

\* unblock_task queues a parked task, or records the wakeup.
LEMMA UnblockInv ==
  ASSUME SchedInv, NEW t \in Tasks, UnblockTask(t)
  PROVE  SchedInv'
<1>1. CASE t \in BLOCKED_TASKS
  <2>1. Enqueue({t}, RT_QUEUE, CFS_QUEUE, IDLE_QUEUE)
    BY <1>1 DEF UnblockTask
  <2>2. t \notin Queued /\ t # CURRENT_TASK
    BY <1>1 DEF SchedInv, OneHome
  <2>3. /\ RT_QUEUE' \subseteq Tasks /\ CFS_QUEUE' \subseteq Tasks
        /\ IDLE_QUEUE' \in Seq(Tasks)
        /\ RT_QUEUE' = RT_QUEUE \cup OfClass({t}, "Realtime")
        /\ CFS_QUEUE' = CFS_QUEUE \cup OfClass({t}, "Normal")
        /\ Elements(IDLE_QUEUE') = Elements(IDLE_QUEUE) \cup OfClass({t}, "Idle")
        /\ Distinct(IDLE_QUEUE')
        /\ Queued' = Queued \cup {t}
    BY <2>1, <2>2, EnqueueFresh
  <2>4. Queued \subseteq Tasks /\ BLOCKED_TASKS \subseteq Tasks
    BY QueuedTasks DEF SchedInv, SchedTypeOK
  <2>5. SchedTypeOK'
    BY <1>1, <2>3 DEF UnblockTask, SchedInv, SchedTypeOK, TaskState
  <2>6. OneHome'
    BY <1>1, <2>2, <2>3 DEF UnblockTask, SchedInv, OneHome, OfClass
  <2>7. StateMatchesHome'
    <3>1. \A u \in Tasks : state'[u] = IF u = t THEN "Ready" ELSE state[u]
      BY <1>1 DEF UnblockTask, SchedInv, SchedTypeOK
    <3>2. QED
      BY <1>1, <2>2, <2>3, <2>4, <3>1 DEF UnblockTask, SchedInv, StateMatchesHome
  <2>8. QED
    BY <1>1, <2>5, <2>6, <2>7 DEF UnblockTask, SchedInv, NoWakeupOverlooked
<1>2. CASE t \notin BLOCKED_TASKS
  <2>1. Queued' = Queued
    BY <1>2 DEF UnblockTask, Queued
  <2>2. QED
    BY <1>2, <2>1 DEF UnblockTask, SchedInv, SchedTypeOK, OneHome,
       StateMatchesHome, NoWakeupOverlooked
<1>3. QED
  BY <1>1, <1>2

\* The task schedule() picks is queued, and popping it removes it and nothing
\* else from the queues.
LEMMA PopFirst ==
  ASSUME SchedInv, NEW t \in Tasks, FirstOfQueues(t)
  PROVE  LET idle == IF SchedClass[t] = "Idle" THEN Tail(IDLE_QUEUE) ELSE IDLE_QUEUE
         IN  /\ t \in Queued
             /\ idle \in Seq(Tasks)
             /\ Distinct(idle)
             /\ Elements(idle) = Elements(IDLE_QUEUE) \ {t}
<1>1. /\ IDLE_QUEUE \in Seq(Tasks) /\ Distinct(IDLE_QUEUE)
      /\ \A u \in RT_QUEUE : SchedClass[u] = "Realtime"
      /\ \A u \in CFS_QUEUE : SchedClass[u] = "Normal"
      /\ \A u \in Elements(IDLE_QUEUE) : SchedClass[u] = "Idle"
  BY DEF SchedInv, SchedTypeOK, OneHome
<1>2. CASE t \in RT_QUEUE \/ t \in CFS_QUEUE
  BY <1>1, <1>2 DEF Queued
<1>3. CASE IDLE_QUEUE # <<>> /\ t = Head(IDLE_QUEUE)
  <2>1. /\ Tail(IDLE_QUEUE) \in Seq(Tasks)
        /\ t \in Elements(IDLE_QUEUE)
        /\ Elements(Tail(IDLE_QUEUE)) = Elements(IDLE_QUEUE) \ {t}
        /\ Distinct(Tail(IDLE_QUEUE))
    BY <1>1, <1>3, PopIdle
  <2>2. SchedClass[t] = "Idle"
    BY <1>1, <2>1
  <2>3. QED
    BY <2>1, <2>2 DEF Queued
<1>4. QED
  BY <1>2, <1>3 DEF FirstOfQueues

\* schedule() takes a successor off the queues and puts the current task back.
LEMMA SwitchToInv ==
  ASSUME SchedInv, NEW t \in Tasks, FirstOfQueues(t), SwitchTo(t)
  PROVE  SchedInv'
<1> DEFINE parked == {u \in OldTasks : Parks(u)}
           requeued == OldTasks \ parked
           idle == IF SchedClass[t] = "Idle" THEN Tail(IDLE_QUEUE) ELSE IDLE_QUEUE
<1>1. t \in Queued /\ idle \in Seq(Tasks) /\ Distinct(idle)
      /\ Elements(idle) = Elements(IDLE_QUEUE) \ {t}
  BY PopFirst
<1>2. /\ OldTasks \subseteq Tasks /\ OldTasks \cap (Queued \cup BLOCKED_TASKS) = {}
      /\ \A u, v \in OldTasks : u = v
      /\ \A u \in Tasks : u \in OldTasks <=> u = CURRENT_TASK
  BY DEF SchedInv, SchedTypeOK, OneHome, OldTasks
<1>3. /\ CURRENT_TASK' = t
      /\ Enqueue(requeued, RT_QUEUE \ {t}, CFS_QUEUE \ {t}, idle)
      /\ BLOCKED_TASKS' = BLOCKED_TASKS \cup parked
      /\ WAKEUP_PENDING' = WAKEUP_PENDING \ {u \in requeued : state[u] = "Blocked"}
      /\ state' = [u \in Tasks |-> IF u = t THEN "Running"
                                   ELSE IF u \in requeued THEN "Ready"
                                   ELSE state[u]]
      /\ NEXT_ID' = NEXT_ID
  BY DEF SwitchTo
<1>4. /\ requeued \in SUBSET Tasks /\ \A u, v \in requeued : u = v
      /\ RT_QUEUE \ {t} \in SUBSET Tasks /\ CFS_QUEUE \ {t} \in SUBSET Tasks
      /\ Elements(idle) \cap requeued = {}
  BY <1>1, <1>2 DEF SchedInv, SchedTypeOK, Queued
<1>5. /\ RT_QUEUE' \subseteq Tasks /\ CFS_QUEUE' \subseteq Tasks
      /\ IDLE_QUEUE' \in Seq(Tasks)
      /\ RT_QUEUE' = (RT_QUEUE \ {t}) \cup OfClass(requeued, "Realtime")
      /\ CFS_QUEUE' = (CFS_QUEUE \ {t}) \cup OfClass(requeued, "Normal")
      /\ Elements(IDLE_QUEUE') = Elements(idle) \cup OfClass(requeued, "Idle")
      /\ Distinct(IDLE_QUEUE')
  <2> HIDE DEF idle, requeued
  <2>1. QED
    BY <1>1, <1>3, <1>4, EnqueueOne
<1>6. Queued' = (Queued \ {t}) \cup requeued
  <2>1. requeued = OfClass(requeued, "Realtime") \cup OfClass(requeued, "Normal")
                     \cup OfClass(requeued, "Idle")
    BY <1>2 DEF OfClass
  <2> HIDE DEF idle, requeued
  <2>2. QED
    BY <1>1, <1>5, <2>1 DEF Queued
<1>7. /\ Queued \subseteq Tasks /\ BLOCKED_TASKS \subseteq Tasks
      /\ Queued \cap BLOCKED_TASKS = {} /\ parked \subseteq OldTasks
      /\ parked \cap requeued = {} /\ OldTasks = parked \cup requeued
  BY QueuedTasks DEF SchedInv, SchedTypeOK, OneHome
<1>8. SchedTypeOK'
  BY <1>2, <1>3, <1>5 DEF SchedInv, SchedTypeOK, TaskState
<1>9. OneHome'
  <2>1. \A u \in Tasks : u < NEXT_ID' <=> u = CURRENT_TASK' \/ u \in Queued'
                                          \/ u \in BLOCKED_TASKS'
    <3> HIDE DEF idle, requeued, parked
    <3>1. QED
      BY <1>1, <1>2, <1>3, <1>6, <1>7 DEF SchedInv, OneHome
  <2>2. /\ CURRENT_TASK' \notin Queued' \cup BLOCKED_TASKS'
        /\ Queued' \cap BLOCKED_TASKS' = {}
    <3> HIDE DEF idle, requeued, parked
    <3>1. QED
      BY <1>1, <1>2, <1>3, <1>6, <1>7
  <2>3. /\ \A u \in RT_QUEUE' : SchedClass[u] = "Realtime"
        /\ \A u \in CFS_QUEUE' : SchedClass[u] = "Normal"
        /\ \A u \in Elements(IDLE_QUEUE') : SchedClass[u] = "Idle"
    <3> HIDE DEF idle, requeued, parked
    <3>1. QED
      BY <1>1, <1>5 DEF SchedInv, OneHome, OfClass
  <2>4. QED
    BY <1>5, <2>1, <2>2, <2>3 DEF OneHome
<1>10. StateMatchesHome'
  <2>1. \A u \in parked : state[u] = "Blocked"
    BY DEF Parks
  <2>2. t < NEXT_ID /\ \A u \in OldTasks : u < NEXT_ID
    BY <1>1, <1>2 DEF SchedInv, OneHome
  <2>3. \A u \in Tasks : u >= NEXT_ID => ~(u < NEXT_ID)
    BY DEF SchedInv, SchedTypeOK, Tasks
  <2> HIDE DEF idle, requeued, parked
  <2>4. QED
    BY <1>1, <1>2, <1>3, <1>6, <1>7, <2>1, <2>2, <2>3 DEF SchedInv, StateMatchesHome
<1>11. NoWakeupOverlooked'
  <2>1. parked \cap WAKEUP_PENDING = {}
    BY DEF Parks
  <2> HIDE DEF idle, requeued, parked
  <2>2. QED
    BY <1>3, <2>1 DEF SchedInv, NoWakeupOverlooked
<1>12. QED
  BY <1>8, <1>9, <1>10, <1>11 DEF SchedInv

\* Or finds no successor and changes nothing.
LEMMA ScheduleInv ==
  ASSUME SchedInv, Schedule
  PROVE  SchedInv'
<1>1. CASE \E t \in Tasks : FirstOfQueues(t) /\ SwitchTo(t)
  BY <1>1, SwitchToInv
<1>2. CASE UNCHANGED schedVars
  BY <1>2 DEF schedVars, SchedInv, SchedTypeOK, OneHome, StateMatchesHome,
     NoWakeupOverlooked, Queued
<1>3. QED
  BY <1>1, <1>2 DEF Schedule

\* Each step keeps the invariant.
LEMMA SchedStep == SchedInv /\ [SchedNext]_schedVars => SchedInv'
<1> SUFFICES ASSUME SchedInv, [SchedNext]_schedVars PROVE SchedInv'
  OBVIOUS
<1>1. CASE UNCHANGED schedVars
  BY <1>1 DEF schedVars, SchedInv, SchedTypeOK, OneHome, StateMatchesHome,
     NoWakeupOverlooked, Queued
<1>2. CASE AddTask
  BY <1>2, AddTaskInv
<1>3. CASE SetCurrentTask
  BY <1>3, SetCurrentTaskInv
<1>4. CASE Schedule
  BY <1>4, ScheduleInv
<1>5. CASE BlockCurrentTask
  BY <1>5, BlockInv
<1>6. CASE \E t \in Tasks : UnblockTask(t)
  BY <1>6, UnblockInv
<1>7. QED
  BY <1>1, <1>2, <1>3, <1>4, <1>5, <1>6 DEF SchedNext

\* SchedInv is inductive.
LEMMA SchedInvariant == SchedSpec => []SchedInv
  BY InitSchedInv, SchedStep, PTL DEF SchedSpec

\* However schedule, block_current_task, unblock_task and task creation follow
\* one another, every variable keeps its type.
THEOREM SchedTypeCorrect == SchedSpec => []SchedTypeOK
<1>1. SchedInv => SchedTypeOK
  BY DEF SchedInv
<1>2. QED
  BY <1>1, SchedInvariant, PTL

\* ... every task is in exactly one place: schedule() and unblock_task() never
\* lose or duplicate a Box<Task>.
THEOREM SchedOneHome == SchedSpec => []OneHome
<1>1. SchedInv => OneHome
  BY DEF SchedInv
<1>2. QED
  BY <1>1, SchedInvariant, PTL

\* ... and the state field agrees with that place.
THEOREM SchedStateMatchesHome == SchedSpec => []StateMatchesHome
<1>1. SchedInv => StateMatchesHome
  BY DEF SchedInv
<1>2. QED
  BY <1>1, SchedInvariant, PTL

\* ... and no task is ever parked with its wakeup pending (the protocol of
\* WAKEUP_PENDING between block_current_task, schedule and unblock_task).
THEOREM SchedNoWakeupOverlooked == SchedSpec => []NoWakeupOverlooked
<1>1. SchedInv => NoWakeupOverlooked
  BY DEF SchedInv
<1>2. QED
  BY <1>1, SchedInvariant, PTL

\* Only schedule() puts a task that already existed on the CPU.
LEMMA DispatchIsSwitch ==
  ASSUME SchedInv, SchedNext, CURRENT_TASK' \notin {CURRENT_TASK, NoTask},
         NEXT_ID' = NEXT_ID
  PROVE  CURRENT_TASK' \in Tasks /\ FirstOfQueues(CURRENT_TASK')
<1>1. NEXT_ID + 1 # NEXT_ID
  BY DEF SchedInv, SchedTypeOK
<1>2. CASE Schedule
  BY <1>2 DEF Schedule, SwitchTo, schedVars
<1>3. QED
  BY <1>1, <1>2 DEF SchedNext, AddTask, SetCurrentTask, BlockCurrentTask, UnblockTask

\* The task schedule() dispatches has at least the class of every task that was
\* queued, for any classes and priorities.
THEOREM SchedDispatchByClass == SchedSpec => DispatchByClass
<1> DEFINE A == CURRENT_TASK' \notin {CURRENT_TASK, NoTask} /\ NEXT_ID' = NEXT_ID =>
                  \A u \in Queued : ClassRank(u) <= ClassRank(CURRENT_TASK')
<1>1. ASSUME SchedInv, SchedNext PROVE A
  <2> SUFFICES ASSUME CURRENT_TASK' \notin {CURRENT_TASK, NoTask},
                      NEXT_ID' = NEXT_ID, NEW u \in Queued
               PROVE  ClassRank(u) <= ClassRank(CURRENT_TASK')
    OBVIOUS
  <2> DEFINE t == CURRENT_TASK'
  <2>1. t \in Tasks /\ FirstOfQueues(t)
    BY <1>1, DispatchIsSwitch
  <2>2. t \in Queued /\ u \in Tasks /\ t \in Tasks
    BY <1>1, <2>1, PopFirst, QueuedTasks DEF SchedInv
  <2>3. /\ \A v \in Tasks : ClassRank(v) \in {0, 1, 2}
        /\ \A v \in Tasks : SchedClass[v] = "Realtime" => ClassRank(v) = 2
        /\ \A v \in Tasks : SchedClass[v] = "Normal" => ClassRank(v) = 1
        /\ \A v \in Tasks : SchedClass[v] = "Idle" => ClassRank(v) = 0
    BY DEF ClassRank
  <2>4. /\ \A v \in RT_QUEUE : SchedClass[v] = "Realtime"
        /\ \A v \in CFS_QUEUE : SchedClass[v] = "Normal"
        /\ \A v \in Elements(IDLE_QUEUE) : SchedClass[v] = "Idle"
    BY <1>1 DEF SchedInv, OneHome
  <2> HIDE DEF t
  <2>5. CASE t \in RT_QUEUE
    <3>1. ClassRank(t) = 2 /\ ClassRank(u) \in {0, 1, 2}
      BY <2>2, <2>3, <2>4, <2>5
    <3>2. QED
      BY <3>1 DEF t
  <2>6. CASE RT_QUEUE = {} /\ t \in CFS_QUEUE
    <3>1. ClassRank(t) = 1 /\ ClassRank(u) \in {0, 1}
      BY <2>2, <2>3, <2>4, <2>6 DEF Queued
    <3>2. QED
      BY <3>1 DEF t
  <2>7. CASE RT_QUEUE = {} /\ CFS_QUEUE = {}
    <3>1. ClassRank(t) = 0 /\ ClassRank(u) = 0
      BY <2>2, <2>3, <2>4, <2>7 DEF Queued
    <3>2. QED
      BY <3>1 DEF t
  <2>8. QED
    BY <2>1, <2>5, <2>6, <2>7 DEF FirstOfQueues
<1>2. SchedInv /\ [SchedNext]_schedVars => [A]_schedVars
  BY <1>1
<1>3. QED
  BY <1>2, SchedInvariant, PTL DEF SchedSpec, DispatchByClass

=============================================================================
