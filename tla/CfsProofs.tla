------------------------------ MODULE CfsProofs ------------------------------
(***************************************************************************)
(* The runtime accounting and the vruntime order, for every set of tasks,  *)
(* weights and tick length: every tick is charged to the task it struck,   *)
(* and tasks of equal weight that stay runnable share the CPU.             *)
(***************************************************************************)
EXTENDS Cfs, SchedProofs, TLAPS

CfsTypeOK ==
  /\ vruntime \in [Tasks -> Nat]
  /\ ACCUMULATED_RUNTIME \in Nat
  /\ NEED_RESCHED \in BOOLEAN
  /\ ran \in [Tasks -> Nat]
  /\ overrun \in BOOLEAN

\* Before there is a current task no time passes; all tasks exist after.
Quiet ==
  /\ CURRENT_TASK = NoTask =>
       /\ ACCUMULATED_RUNTIME = 0 /\ ~NEED_RESCHED
       /\ \A t \in Tasks : vruntime[t] = 0 /\ ran[t] = 0
  /\ CURRENT_TASK # NoTask => NEXT_ID = NumTasks

\* What makes the exit path schedule has been recorded.
TickRecorded == NEED_RESCHED => ACCUMULATED_RUNTIME > 0

\* A task outside Cooperative never blocks.
StaysRunnable ==
  \A t \in Tasks : t \notin Cooperative => state[t] # "Blocked" /\ t \notin BLOCKED_TASKS

CfsInv == CfsTypeOK /\ SchedInv /\ Quiet /\ TickRecorded /\ StaysRunnable

\* The runtime of t that is in its vruntime.
Charged(t) == ran[t] - Unaccounted(t)

\* Two tasks of equal weight that never yield are level, or one is a tick ahead,
\* in vruntime as in charged runtime, and the current one is never the one ahead.
PairInv(t, u) ==
  ~overrun =>
    /\ ACCUMULATED_RUNTIME = IF NEED_RESCHED THEN TickRuntime ELSE 0
    /\ \/ vruntime[t] = vruntime[u] /\ Charged(t) = Charged(u)
       \/ /\ vruntime[t] = vruntime[u] + Increment(t, TickRuntime)
          /\ Charged(t) = Charged(u) + TickRuntime
       \/ /\ vruntime[u] = vruntime[t] + Increment(t, TickRuntime)
          /\ Charged(u) = Charged(t) + TickRuntime
    /\ CURRENT_TASK = t => vruntime[t] <= vruntime[u]
    /\ CURRENT_TASK = u => vruntime[u] <= vruntime[t]

Peers(t, u) ==
  /\ t # u /\ NeverYields(t) /\ NeverYields(u)
  /\ Weight[t] = Weight[u] /\ Increment(t, TickRuntime) > 0

ShareInv == \A t, u \in Tasks : Peers(t, u) => PairInv(t, u)

-----------------------------------------------------------------------------
(* The scheduler underneath *)

\* Cfs's schedule() is a schedule(), and what it charges.
LEMMA CfsScheduleEffect ==
  ASSUME SchedInv, CfsTypeOK, CfsSchedule
  PROVE  /\ Schedule
         /\ \/ /\ CURRENT_TASK' \in Tasks /\ CURRENT_TASK' # CURRENT_TASK
               /\ CURRENT_TASK' \in Queued
               /\ CURRENT_TASK' \in CFS_QUEUE => FirstByVruntime(CURRENT_TASK')
               /\ Charge /\ UNCHANGED NEXT_ID
            \/ NothingQueued /\ UNCHANGED <<schedVars, vruntime, ACCUMULATED_RUNTIME>>
<1>1. CASE NothingQueued /\ UNCHANGED <<schedVars, vruntime, ACCUMULATED_RUNTIME>>
  BY <1>1 DEF Schedule
<1>2. ASSUME NEW t \in Tasks, CfsPick(t), SwitchTo(t), Charge
      PROVE  /\ Schedule
             /\ CURRENT_TASK' \in Tasks /\ CURRENT_TASK' # CURRENT_TASK
             /\ CURRENT_TASK' \in Queued
             /\ CURRENT_TASK' \in CFS_QUEUE => FirstByVruntime(CURRENT_TASK')
             /\ UNCHANGED NEXT_ID
  <2>1. FirstOfQueues(t) /\ (t \in CFS_QUEUE => FirstByVruntime(t))
    BY <1>2 DEF CfsPick
  <2>2. CURRENT_TASK' = t /\ UNCHANGED NEXT_ID
    BY <1>2 DEF SwitchTo
  <2>3. t \in Queued
    BY <2>1, PopFirst
  <2>4. t # CURRENT_TASK
    BY <2>3 DEF SchedInv, OneHome
  <2>5. Schedule
    BY <1>2, <2>1 DEF Schedule
  <2>6. QED
    BY <2>1, <2>2, <2>3, <2>4, <2>5
<1>3. QED
  BY <1>1, <1>2 DEF CfsSchedule

\* Every step of Cfs is one of Sched, or leaves its state alone.
LEMMA CfsSchedStep == SchedInv /\ CfsTypeOK /\ [Next]_vars => [SchedNext]_schedVars
<1> SUFFICES ASSUME SchedInv, CfsTypeOK, [Next]_vars PROVE [SchedNext]_schedVars
  OBVIOUS
<1>1. CASE UNCHANGED vars
  BY <1>1 DEF vars
<1>2. CASE Boot
  BY <1>2 DEF Boot, SchedNext
<1>3. CASE Tick
  BY <1>3 DEF Tick
<1>4. CASE IrqExit \/ Yield
  BY <1>4, CfsScheduleEffect DEF IrqExit, Yield, SchedNext
<1>5. CASE Block
  BY <1>5 DEF Block, SchedNext
<1>6. ASSUME NEW t \in Tasks, Unblock(t) PROVE SchedNext
  BY <1>6 DEF Unblock, SchedNext
<1>7. CASE Horizon
  BY <1>7 DEF Horizon, vars
<1>8. QED
  BY <1>1, <1>2, <1>3, <1>4, <1>5, <1>6, <1>7 DEF Next

-----------------------------------------------------------------------------
(* What a charge adds *)

\* A charge is a natural number.
LEMMA IncrementType == \A t \in Tasks, d \in Nat : Increment(t, d) \in Nat
<1> SUFFICES ASSUME NEW t \in Tasks, NEW d \in Nat PROVE Increment(t, d) \in Nat
  OBVIOUS
<1>1. Weight[t] \in Nat
  BY CfsAssumption
<1>2. \A n \in Nat, w \in Nat \ {0} : n \div w \in Nat
  OBVIOUS
<1>3. d * 1024 \in Nat
  OBVIOUS
<1>4. QED
  BY <1>1, <1>2, <1>3 DEF Increment, BASE_WEIGHT

\* At nice 0 the increment is the runtime.
LEMMA IncrementBase ==
  ASSUME NEW t \in Tasks, Weight[t] = BASE_WEIGHT, NEW d \in Nat
  PROVE  Increment(t, d) = d
<1>1. (d * 1024) \div 1024 = d
  OBVIOUS
<1>2. QED
  BY <1>1 DEF Increment, BASE_WEIGHT

\* A charge, task by task.
LEMMA ChargeEffect ==
  ASSUME CfsTypeOK, Charge, CURRENT_TASK \in Tasks
  PROVE  /\ vruntime' \in [Tasks -> Nat] /\ ACCUMULATED_RUNTIME' = 0
         /\ \A u \in Tasks : vruntime'[u] =
              IF u = CURRENT_TASK /\ Normal(u) THEN vruntime[u] + Increment(u, Delta)
              ELSE vruntime[u]
<1>1. OldTasks = {CURRENT_TASK}
  BY SchedAssumption DEF OldTasks
<1>2. Delta \in Nat
  BY DEF Delta, CfsTypeOK
<1>3. \A u \in Tasks : Increment(u, Delta) \in Nat /\ vruntime[u] \in Nat
  BY <1>2, IncrementType DEF CfsTypeOK
<1>4. vruntime' = [u \in Tasks |-> vruntime[u] +
                     (IF u = CURRENT_TASK /\ Normal(u) THEN Increment(u, Delta) ELSE 0)]
  BY <1>1 DEF Charge
<1>5. ACCUMULATED_RUNTIME' = 0
  BY <1>1 DEF Charge
<1>6. QED
  BY <1>3, <1>4, <1>5

\* A charge that schedule() makes, whoever calls it.
LEMMA ScheduleCharges ==
  ASSUME CfsInv, CfsSchedule, CURRENT_TASK \in Tasks
  PROVE  /\ vruntime' \in [Tasks -> Nat] /\ ACCUMULATED_RUNTIME' \in Nat
         /\ \/ UNCHANGED <<CURRENT_TASK, vruntime, ACCUMULATED_RUNTIME>>
            \/ /\ CURRENT_TASK' \in Tasks /\ CURRENT_TASK' # CURRENT_TASK
               /\ ACCUMULATED_RUNTIME' = 0
               /\ \A u \in Tasks : vruntime'[u] =
                    IF u = CURRENT_TASK /\ Normal(u) THEN vruntime[u] + Increment(u, Delta)
                    ELSE vruntime[u]
<1>1. SchedInv /\ CfsTypeOK
  BY DEF CfsInv
<1>2. CASE UNCHANGED <<schedVars, vruntime, ACCUMULATED_RUNTIME>>
  BY <1>1, <1>2 DEF CfsTypeOK, schedVars
<1>3. CASE CURRENT_TASK' \in Tasks /\ CURRENT_TASK' # CURRENT_TASK /\ Charge
  BY <1>1, <1>3, ChargeEffect
<1>4. QED
  BY <1>1, <1>2, <1>3, CfsScheduleEffect

-----------------------------------------------------------------------------
(* The invariant the accounting rests on *)

\* Each step keeps the invariant.
LEMMA CfsInvStep == CfsInv /\ [Next]_vars => CfsInv'
<1> SUFFICES ASSUME CfsInv, [Next]_vars PROVE CfsInv'
  OBVIOUS
<1>0. /\ SchedInv /\ SchedTypeOK /\ CfsTypeOK /\ Quiet /\ TickRecorded /\ StaysRunnable
      /\ CURRENT_TASK \in Tasks \cup {NoTask} /\ state \in [Tasks -> TaskState]
      /\ TickRuntime \in Nat \ {0}
  BY CfsAssumption DEF CfsInv, SchedInv, SchedTypeOK
<1>1. SchedInv'
  BY <1>0, CfsSchedStep, SchedStep
<1> USE DEF cfsVars
<1>2. CASE UNCHANGED vars \/ Horizon
  <2>1. UNCHANGED schedVars /\ UNCHANGED cfsVars
    BY <1>2 DEF vars, Horizon
  <2>2. QED
    BY <1>0, <1>1, <2>1 DEF schedVars, CfsInv, CfsTypeOK, Quiet, TickRecorded, StaysRunnable
<1>3. CASE Boot
  <2>1. UNCHANGED cfsVars /\ UNCHANGED <<state, BLOCKED_TASKS>>
    BY <1>3 DEF Boot, AddTask, SetCurrentTask
  <2>2. CURRENT_TASK = NoTask
    BY <1>3 DEF Boot
  <2>3. CURRENT_TASK' # NoTask => NEXT_ID' = NumTasks
    BY <1>3, <2>2, SchedAssumption DEF Boot, AddTask, SetCurrentTask
  <2>4. Quiet'
    BY <1>0, <2>1, <2>2, <2>3 DEF Quiet
  <2>5. QED
    BY <1>0, <1>1, <2>1, <2>4 DEF CfsInv, CfsTypeOK, TickRecorded, StaysRunnable
<1>4. CASE Tick
  <2>1. CURRENT_TASK \in Tasks /\ UNCHANGED schedVars
    BY <1>0, <1>4 DEF Tick, InterruptsOn
  <2>2. CfsTypeOK'
    <3>1. ran' \in [Tasks -> Nat] /\ ACCUMULATED_RUNTIME' \in Nat /\ UNCHANGED vruntime
      BY <1>0, <1>4, <2>1 DEF Tick, CfsTypeOK
    <3>2. NEED_RESCHED' \in BOOLEAN /\ overrun' \in BOOLEAN
      BY <1>4 DEF Tick
    <3>3. QED
      BY <1>0, <3>1, <3>2 DEF CfsTypeOK
  <2>3. TickRecorded'
    BY <1>0, <1>4 DEF Tick, TickRecorded, CfsTypeOK
  <2>4. Quiet' /\ StaysRunnable'
    BY <1>0, <2>1, SchedAssumption DEF schedVars, Quiet, StaysRunnable
  <2>5. QED
    BY <1>1, <2>2, <2>3, <2>4 DEF CfsInv
<1>5. CASE IrqExit \/ Yield
  <2>1. CURRENT_TASK \in Tasks /\ CfsSchedule /\ UNCHANGED <<ran, overrun>> /\ NEED_RESCHED' = FALSE
    <3>1. CASE IrqExit
      BY <1>0, <3>1 DEF IrqExit, Quiet
    <3>2. CASE Yield
      BY <1>0, <3>2, CfsAssumption DEF Yield, InTask, CfsTypeOK
    <3>3. QED
      BY <1>5, <3>1, <3>2
  <2>2. CfsTypeOK'
    BY <1>0, <2>1, ScheduleCharges DEF CfsTypeOK
  <2>3. TickRecorded'
    BY <2>1 DEF TickRecorded
  <2>4. Quiet'
    BY <1>0, <2>1, CfsScheduleEffect, SchedAssumption DEF Quiet, schedVars
  <2>5. StaysRunnable'
    <3>1. CASE UNCHANGED schedVars
      BY <1>0, <3>1 DEF StaysRunnable, schedVars
    <3>2. ASSUME NEW t \in Tasks, SwitchTo(t) PROVE StaysRunnable'
      <4>1. OldTasks = {CURRENT_TASK}
        BY <2>1, SchedAssumption DEF OldTasks
      <4>2. \A u \in Tasks : u \in BLOCKED_TASKS' =>
              u \in BLOCKED_TASKS \/ (u = CURRENT_TASK /\ state[u] = "Blocked")
        BY <3>2, <4>1 DEF SwitchTo, Parks
      <4>3. \A u \in Tasks : state'[u] = "Blocked" => state[u] = "Blocked"
        BY <3>2 DEF SwitchTo
      <4>4. QED
        BY <1>0, <4>2, <4>3 DEF StaysRunnable
    <3>3. QED
      BY <2>1, <3>1, <3>2 DEF CfsSchedule
  <2>6. QED
    BY <1>1, <2>2, <2>3, <2>4, <2>5 DEF CfsInv
<1>6. CASE Block
  <2>1. /\ CURRENT_TASK \in Cooperative /\ BlockCurrentTask /\ UNCHANGED cfsVars
        /\ UNCHANGED <<CURRENT_TASK, NEXT_ID, BLOCKED_TASKS>>
    BY <1>6 DEF Block, InTask, BlockCurrentTask
  <2>2. \A u \in Tasks \ {CURRENT_TASK} : state'[u] = state[u]
    BY <1>0, <2>1 DEF BlockCurrentTask
  <2>3. QED
    BY <1>0, <1>1, <2>1, <2>2 DEF CfsInv, CfsTypeOK, Quiet, TickRecorded, StaysRunnable
<1>7. ASSUME NEW t \in Tasks, Unblock(t) PROVE CfsInv'
  <2>1. UnblockTask(t) /\ UNCHANGED cfsVars /\ UNCHANGED <<CURRENT_TASK, NEXT_ID>>
    BY <1>7 DEF Unblock, UnblockTask
  <2>2. BLOCKED_TASKS' \subseteq BLOCKED_TASKS /\ \A u \in Tasks : state'[u] \in {state[u], "Ready"}
    BY <1>0, <2>1 DEF UnblockTask
  <2>3. QED
    BY <1>0, <1>1, <2>1, <2>2 DEF CfsInv, CfsTypeOK, Quiet, TickRecorded, StaysRunnable
<1>8. QED
  BY <1>2, <1>3, <1>4, <1>5, <1>6, <1>7 DEF Next

\* CfsInv is inductive.
LEMMA CfsInvariant == Spec => []CfsInv
<1>1. Init => CfsInv
  <2> SUFFICES ASSUME Init PROVE CfsInv
    OBVIOUS
  <2>1. SchedInit /\ SchedInv
    BY InitSchedInv DEF Init
  <2>2. CfsTypeOK
    BY DEF Init, CfsTypeOK
  <2>3. Quiet /\ TickRecorded
    BY <2>1 DEF Init, SchedInit, Quiet, TickRecorded
  <2>4. StaysRunnable
    BY <2>1 DEF SchedInit, StaysRunnable
  <2>5. QED
    BY <2>1, <2>2, <2>3, <2>4 DEF CfsInv
<1>2. QED
  BY <1>1, CfsInvStep, PTL DEF Spec

-----------------------------------------------------------------------------
(* Every tick is charged *)

\* What a tick adds to the accumulated runtime, a switch moves to vruntime.
LEMMA ChargedStep == CfsInv /\ RuntimeCharged /\ [Next]_vars => RuntimeCharged'
<1> SUFFICES ASSUME CfsInv, RuntimeCharged, [Next]_vars,
                    NEW t \in Tasks, Normal(t), Weight[t] = BASE_WEIGHT
             PROVE  /\ vruntime'[t] + Unaccounted(t)' >= ran'[t]
                    /\ NeverYields(t) => vruntime'[t] + Unaccounted(t)' = ran'[t]
  BY DEF RuntimeCharged, NeverYields, Normal
<1>0. /\ SchedInv /\ SchedTypeOK /\ CfsTypeOK /\ Quiet /\ TickRecorded
      /\ CURRENT_TASK \in Tasks \cup {NoTask} /\ TickRuntime \in Nat \ {0}
      /\ vruntime[t] \in Nat /\ ran[t] \in Nat /\ ACCUMULATED_RUNTIME \in Nat
      /\ NoTask \notin Tasks
  BY CfsAssumption, SchedAssumption DEF CfsInv, CfsTypeOK, SchedInv, SchedTypeOK
<1>a. /\ vruntime[t] + Unaccounted(t) >= ran[t]
      /\ NeverYields(t) => vruntime[t] + Unaccounted(t) = ran[t]
  BY DEF RuntimeCharged
<1>1. ASSUME UNCHANGED CURRENT_TASK, UNCHANGED cfsVars
      PROVE  /\ vruntime'[t] + Unaccounted(t)' >= ran'[t]
             /\ NeverYields(t) => vruntime'[t] + Unaccounted(t)' = ran'[t]
  BY <1>a, <1>1 DEF cfsVars, Unaccounted
<1>2. CASE UNCHANGED vars \/ Horizon \/ Block \/ \E u \in Tasks : Unblock(u)
  <2>1. UNCHANGED CURRENT_TASK /\ UNCHANGED cfsVars
    BY <1>2 DEF vars, schedVars, Horizon, Block, Unblock, BlockCurrentTask, UnblockTask
  <2>2. QED
    BY <1>1, <2>1
<1>3. CASE Boot
  <2>1. CURRENT_TASK = NoTask /\ UNCHANGED cfsVars
    BY <1>3 DEF Boot
  <2>2. vruntime'[t] = 0 /\ ran'[t] = 0 /\ ACCUMULATED_RUNTIME' = 0
    BY <1>0, <2>1 DEF Quiet, cfsVars
  <2>3. QED
    BY <2>2 DEF Unaccounted
<1>4. CASE Tick
  <2>1. /\ CURRENT_TASK \in Tasks /\ UNCHANGED CURRENT_TASK /\ UNCHANGED vruntime
        /\ ACCUMULATED_RUNTIME' = ACCUMULATED_RUNTIME + TickRuntime
        /\ ran' = [ran EXCEPT ![CURRENT_TASK] = @ + TickRuntime]
    BY <1>0, <1>4 DEF Tick, InterruptsOn, schedVars
  <2>2. ran'[t] = IF t = CURRENT_TASK THEN ran[t] + TickRuntime ELSE ran[t]
    BY <1>0, <2>1 DEF CfsTypeOK
  <2>3. QED
    BY <1>0, <1>a, <2>1, <2>2 DEF Unaccounted
<1>5. CASE IrqExit \/ Yield
  <2>1. CURRENT_TASK \in Tasks /\ CfsSchedule /\ UNCHANGED ran
    BY <1>0, <1>5, CfsAssumption DEF IrqExit, Yield, InTask, Quiet
  <2>2. t = CURRENT_TASK /\ NeverYields(t) => ACCUMULATED_RUNTIME > 0
    BY <1>0, <1>5 DEF IrqExit, Yield, InTask, NeverYields, TickRecorded
  <2>3. CASE UNCHANGED <<CURRENT_TASK, vruntime, ACCUMULATED_RUNTIME>>
    BY <1>a, <2>1, <2>3 DEF Unaccounted
  <2>4. CASE /\ CURRENT_TASK' \in Tasks /\ CURRENT_TASK' # CURRENT_TASK
             /\ ACCUMULATED_RUNTIME' = 0
             /\ \A u \in Tasks : vruntime'[u] =
                  IF u = CURRENT_TASK /\ Normal(u) THEN vruntime[u] + Increment(u, Delta)
                  ELSE vruntime[u]
    <3>1. Unaccounted(t)' = 0
      BY <2>4 DEF Unaccounted
    <3>2. CASE t # CURRENT_TASK
      BY <1>0, <1>a, <2>1, <2>4, <3>1, <3>2 DEF Unaccounted
    <3>3. CASE t = CURRENT_TASK
      <4>1. Delta \in Nat /\ Delta >= ACCUMULATED_RUNTIME
            /\ (ACCUMULATED_RUNTIME > 0 => Delta = ACCUMULATED_RUNTIME)
        BY <1>0 DEF Delta
      <4>2. vruntime'[t] = vruntime[t] + Delta
        BY <2>4, <3>3, <4>1, IncrementBase
      <4>3. Unaccounted(t) = ACCUMULATED_RUNTIME
        BY <3>3 DEF Unaccounted
      <4>4. QED
        BY <1>0, <1>a, <2>1, <2>2, <3>1, <3>3, <4>1, <4>2, <4>3
    <3>4. QED
      BY <3>2, <3>3
  <2>5. QED
    BY <2>1, <2>3, <2>4, ScheduleCharges
<1>6. QED
  BY <1>2, <1>3, <1>4, <1>5 DEF Next

\* Every tick is charged once, to the task it struck, although the counter is
\* global and emptied by whichever schedule() comes next.
THEOREM CfsRuntimeCharged == Spec => []RuntimeCharged
<1>1. Init => RuntimeCharged
  BY DEF Init, RuntimeCharged, Unaccounted
<1>2. CfsInv /\ RuntimeCharged /\ [Next]_vars => RuntimeCharged'
  BY ChargedStep
<1>3. QED
  BY <1>1, <1>2, CfsInvariant, PTL DEF Spec

-----------------------------------------------------------------------------
(* Tasks of equal weight *)

\* After boot, a task that never yields runs or is in CFS_QUEUE.
LEMMA PeerQueued ==
  ASSUME CfsInv, CURRENT_TASK \in Tasks, NEW t \in Tasks, NeverYields(t), t # CURRENT_TASK
  PROVE  t \in CFS_QUEUE /\ ~ NothingQueued
<1>1. t < NEXT_ID
  BY SchedAssumption DEF CfsInv, Quiet, Tasks
<1>2. t \notin BLOCKED_TASKS
  BY DEF CfsInv, StaysRunnable, NeverYields
<1>3. t \in Queued
  BY <1>1, <1>2 DEF CfsInv, SchedInv, OneHome
<1>4. t \in CFS_QUEUE
  BY <1>3 DEF CfsInv, SchedInv, OneHome, Queued, NeverYields, Normal
<1>5. QED
  BY <1>4 DEF NothingQueued

\* One step of the pair: a switch charges the outgoing task one tick, and it was
\* not ahead; a third task hands over to the one that is behind.
LEMMA PairStep ==
  ASSUME CfsInv, NEW t \in Tasks, NEW u \in Tasks, Peers(t, u), PairInv(t, u), [Next]_vars
  PROVE  PairInv(t, u)'
<1> DEFINE I == Increment(t, TickRuntime)
<1>0. /\ SchedInv /\ SchedTypeOK /\ CfsTypeOK /\ Quiet /\ TickRecorded
      /\ CURRENT_TASK \in Tasks \cup {NoTask} /\ TickRuntime \in Nat \ {0}
      /\ vruntime[t] \in Nat /\ ran[t] \in Nat /\ ACCUMULATED_RUNTIME \in Nat
      /\ vruntime[u] \in Nat /\ ran[u] \in Nat
      /\ NoTask \notin Tasks
  BY CfsAssumption, SchedAssumption DEF CfsInv, CfsTypeOK, SchedInv, SchedTypeOK
<1>i. /\ I \in Nat /\ I > 0 /\ Increment(u, TickRuntime) = I
      /\ t # u /\ NeverYields(t) /\ NeverYields(u)
  BY <1>0, IncrementType DEF Peers, Increment
<1>1. ASSUME UNCHANGED CURRENT_TASK, UNCHANGED cfsVars PROVE PairInv(t, u)'
  BY <1>1 DEF cfsVars, PairInv, Charged, Unaccounted
<1>2. CASE UNCHANGED vars \/ Horizon \/ Block \/ \E v \in Tasks : Unblock(v)
  <2>1. UNCHANGED CURRENT_TASK /\ UNCHANGED cfsVars
    BY <1>2 DEF vars, schedVars, Horizon, Block, Unblock, BlockCurrentTask, UnblockTask
  <2>2. QED
    BY <1>1, <2>1
<1>3. CASE Boot
  <2>1. CURRENT_TASK = NoTask /\ UNCHANGED cfsVars
    BY <1>3 DEF Boot
  <2>2. /\ vruntime'[t] = 0 /\ ran'[t] = 0 /\ vruntime'[u] = 0 /\ ran'[u] = 0
        /\ ACCUMULATED_RUNTIME' = 0 /\ ~ NEED_RESCHED'
    BY <1>0, <2>1 DEF Quiet, cfsVars
  <2>3. QED
    BY <2>2 DEF PairInv, Charged, Unaccounted
<1>4. CASE Tick
  <2>1. /\ CURRENT_TASK \in Tasks /\ UNCHANGED CURRENT_TASK /\ UNCHANGED vruntime
        /\ ACCUMULATED_RUNTIME' = ACCUMULATED_RUNTIME + TickRuntime
        /\ ran' = [ran EXCEPT ![CURRENT_TASK] = @ + TickRuntime]
    BY <1>0, <1>4 DEF Tick, InterruptsOn, schedVars
  <2>2. NEED_RESCHED' = TRUE /\ overrun' = (overrun \/ NEED_RESCHED)
    BY <1>4 DEF Tick
  <2>3. \A v \in Tasks : ran'[v] = IF v = CURRENT_TASK THEN ran[v] + TickRuntime ELSE ran[v]
    BY <1>0, <2>1 DEF CfsTypeOK
  <2>4. Charged(t)' = Charged(t) /\ Charged(u)' = Charged(u)
    BY <1>0, <2>1, <2>3 DEF Charged, Unaccounted
  <2>5. SUFFICES ASSUME ~ overrun, ~ NEED_RESCHED PROVE PairInv(t, u)'
    BY <2>2 DEF PairInv
  <2>6. ACCUMULATED_RUNTIME = 0
    BY <2>5 DEF PairInv
  <2>7. ACCUMULATED_RUNTIME' = TickRuntime
    BY <1>0, <2>1, <2>6
  <2>8. QED
    BY <2>1, <2>2, <2>4, <2>5, <2>7 DEF PairInv
<1>5. CASE IrqExit \/ Yield
  <2>1. CURRENT_TASK \in Tasks /\ CfsSchedule /\ UNCHANGED ran /\ UNCHANGED overrun
    BY <1>0, <1>5, CfsAssumption DEF IrqExit, Yield, InTask, Quiet
  <2>2. NEED_RESCHED' = FALSE
    BY <1>0, <1>5 DEF IrqExit, Yield, InTask, CfsTypeOK
  <2>3. ~ NothingQueued
    BY <1>i, <2>1, PeerQueued
  <2>4. /\ CURRENT_TASK' \in Tasks /\ CURRENT_TASK' # CURRENT_TASK
        /\ CURRENT_TASK' \in CFS_QUEUE => FirstByVruntime(CURRENT_TASK')
        /\ Charge
    BY <1>0, <2>1, <2>3, CfsScheduleEffect
  <2>5. /\ ACCUMULATED_RUNTIME' = 0
        /\ \A v \in Tasks : vruntime'[v] =
             IF v = CURRENT_TASK /\ Normal(v) THEN vruntime[v] + Increment(v, Delta)
             ELSE vruntime[v]
    BY <1>0, <2>1, <2>4, ChargeEffect
  <2>6. Charged(t)' = ran[t] /\ Charged(u)' = ran[u]
    BY <1>0, <2>1, <2>5 DEF Charged, Unaccounted
  <2>7. SUFFICES ASSUME ~ overrun PROVE PairInv(t, u)'
    BY <2>1 DEF PairInv
  <2>a. /\ ACCUMULATED_RUNTIME = IF NEED_RESCHED THEN TickRuntime ELSE 0
        /\ \/ vruntime[t] = vruntime[u] /\ Charged(t) = Charged(u)
           \/ vruntime[t] = vruntime[u] + I /\ Charged(t) = Charged(u) + TickRuntime
           \/ vruntime[u] = vruntime[t] + I /\ Charged(u) = Charged(t) + TickRuntime
        /\ CURRENT_TASK = t => vruntime[t] <= vruntime[u]
        /\ CURRENT_TASK = u => vruntime[u] <= vruntime[t]
    BY <2>7 DEF PairInv
  <2>8. CURRENT_TASK \in {t, u} => ACCUMULATED_RUNTIME = TickRuntime /\ Delta = TickRuntime
    <3>1. CURRENT_TASK \in {t, u} => NEED_RESCHED
      BY <1>5, <1>i DEF IrqExit, Yield, InTask, NeverYields
    <3>2. QED
      BY <1>0, <2>a, <3>1 DEF Delta
  <2>9. Normal(t) /\ Normal(u)
    BY <1>i DEF NeverYields
  <2> HIDE DEF I
  <2> SUFFICES /\ \/ vruntime'[t] = vruntime'[u] /\ ran[t] = ran[u]
                  \/ vruntime'[t] = vruntime'[u] + I /\ ran[t] = ran[u] + TickRuntime
                  \/ vruntime'[u] = vruntime'[t] + I /\ ran[u] = ran[t] + TickRuntime
               /\ CURRENT_TASK' = t => vruntime'[t] <= vruntime'[u]
               /\ CURRENT_TASK' = u => vruntime'[u] <= vruntime'[t]
    BY <2>2, <2>5, <2>6 DEF PairInv, I
  <2>10. CASE CURRENT_TASK = t
    <3>1. Charged(t) = ran[t] - TickRuntime /\ Charged(u) = ran[u]
      BY <1>0, <1>i, <2>8, <2>10 DEF Charged, Unaccounted
    <3>2. vruntime'[t] = vruntime[t] + I /\ vruntime'[u] = vruntime[u]
      BY <1>i, <2>5, <2>8, <2>9, <2>10 DEF I
    <3>3. QED
      BY <1>0, <1>i, <2>4, <2>a, <2>10, <3>1, <3>2
  <2>11. CASE CURRENT_TASK = u
    <3>1. Charged(u) = ran[u] - TickRuntime /\ Charged(t) = ran[t]
      BY <1>0, <1>i, <2>8, <2>11 DEF Charged, Unaccounted
    <3>2. vruntime'[u] = vruntime[u] + I /\ vruntime'[t] = vruntime[t]
      BY <1>i, <2>5, <2>8, <2>9, <2>11
    <3>3. QED
      BY <1>0, <1>i, <2>4, <2>a, <2>11, <3>1, <3>2
  <2>12. CASE CURRENT_TASK \notin {t, u}
    <3>1. Charged(u) = ran[u] /\ Charged(t) = ran[t]
      BY <1>0, <2>12 DEF Charged, Unaccounted
    <3>2. vruntime'[u] = vruntime[u] /\ vruntime'[t] = vruntime[t]
      BY <2>5, <2>12
    <3>3. t \in CFS_QUEUE /\ u \in CFS_QUEUE
      BY <1>i, <2>1, <2>12, PeerQueued
    <3>4. /\ CURRENT_TASK' = t => vruntime[t] <= vruntime[u]
          /\ CURRENT_TASK' = u => vruntime[u] <= vruntime[t]
      BY <1>0, <1>i, <2>4, <3>3 DEF FirstByVruntime
    <3>5. QED
      BY <2>a, <3>1, <3>2, <3>4
  <2>13. QED
    BY <2>10, <2>11, <2>12
<1>6. QED
  BY <1>2, <1>3, <1>4, <1>5 DEF Next

\* Two Normal tasks of equal weight that stay runnable never differ by more than
\* a tick of CPU time, as long as no tick strikes before another's schedule().
THEOREM CfsEqualShare == Spec => []EqualShare
<1>1. Init => ShareInv
  BY DEF Init, ShareInv, PairInv, Charged, Unaccounted
<1>2. CfsInv /\ ShareInv /\ [Next]_vars => ShareInv'
  <2> SUFFICES ASSUME CfsInv, ShareInv, [Next]_vars, NEW t \in Tasks, NEW u \in Tasks,
                      Peers(t, u)
               PROVE  PairInv(t, u)'
    BY DEF ShareInv, Peers, NeverYields, Normal, Increment
  <2>1. PairInv(t, u)
    BY DEF ShareInv
  <2>2. QED
    BY <2>1, PairStep
<1>3. CfsInv /\ ShareInv => EqualShare
  <2> SUFFICES ASSUME CfsInv, ShareInv, NEW t \in Tasks, NEW u \in Tasks,
                      NeverYields(t), NeverYields(u), Weight[t] = Weight[u],
                      Increment(t, TickRuntime) > 0, ~ overrun
               PROVE  ran[t] <= ran[u] + TickRuntime
    BY DEF EqualShare
  <2>1. /\ ran[t] \in Nat /\ ran[u] \in Nat /\ TickRuntime \in Nat \ {0}
        /\ ACCUMULATED_RUNTIME \in Nat /\ Increment(t, TickRuntime) \in Nat
        /\ vruntime[t] \in Nat /\ vruntime[u] \in Nat
    BY CfsAssumption, IncrementType DEF CfsInv, CfsTypeOK
  <2>2. CASE t = u
    BY <2>1, <2>2
  <2>3. CASE t # u
    <3>1. PairInv(t, u)
      BY <2>3 DEF ShareInv, Peers
    <3> DEFINE I == Increment(t, TickRuntime)
    <3>2. /\ ACCUMULATED_RUNTIME = IF NEED_RESCHED THEN TickRuntime ELSE 0
          /\ \/ vruntime[t] = vruntime[u] /\ Charged(t) = Charged(u)
             \/ vruntime[t] = vruntime[u] + I /\ Charged(t) = Charged(u) + TickRuntime
             \/ vruntime[u] = vruntime[t] + I /\ Charged(u) = Charged(t) + TickRuntime
          /\ CURRENT_TASK = t => vruntime[t] <= vruntime[u]
      BY <3>1 DEF PairInv
    <3>3. /\ Charged(t) = IF t = CURRENT_TASK THEN ran[t] - ACCUMULATED_RUNTIME ELSE ran[t]
          /\ Charged(u) = IF u = CURRENT_TASK THEN ran[u] - ACCUMULATED_RUNTIME ELSE ran[u]
      BY <2>1 DEF Charged, Unaccounted
    <3>4. I \in Nat /\ I > 0
      BY <2>1
    <3> HIDE DEF I
    <3>5. CASE t = CURRENT_TASK
      BY <2>1, <2>3, <3>2, <3>3, <3>4, <3>5
    <3>6. CASE t # CURRENT_TASK
      BY <2>1, <3>2, <3>3, <3>4, <3>6
    <3>7. QED
      BY <3>5, <3>6
  <2>4. QED
    BY <2>2, <2>3
<1>4. QED
  BY <1>1, <1>2, <1>3, CfsInvariant, PTL DEF Spec

=============================================================================
