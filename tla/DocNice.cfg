SPECIFICATION Spec
CONSTANTS
  NumTasks = 4
  SchedClass <- NiceSchedClass
  RtPriority <- NiceRtPriority
  NoTask = NoTask
  Weight <- NiceWeight
  TickRuntime = 4
  Cooperative <- NiceCooperative
  MaxQuantum = 4
  MaxRan = 40
INVARIANTS LowerNiceGetsMore
