CONSTANTS
  NumTasks = 3
  NoTask = NoTask
  SchedClass <- SleepClass
  RtPriority <- MCRtPriority
  Ops <- SleepOps
  Delays = {1, 2}
  MaxIrqDepth = 2
SPECIFICATION FairSpec
INVARIANTS OneHome StateMatchesHome NoWakeupOverlooked NeverRunsBlocked SoftirqStaysOnCpu NoStrandedTimer
PROPERTIES DispatchByClass SleepNeverEarly SleepersWake
