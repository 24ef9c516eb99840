CONSTANTS
  NumTasks = 4
  NoTask = NoTask
  SchedClass <- MutexClass
  RtPriority <- MCRtPriority
  Ops <- MutexOps
  Delays = {1}
  MaxIrqDepth = 2
SPECIFICATION Spec
INVARIANTS MutualExclusion OneWakePerWait
PROPERTIES SchedSpec ImplementsMutex
