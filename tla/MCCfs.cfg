SPECIFICATION Spec
CONSTANTS
  NumTasks = 7
  SchedClass <- MCSchedClass
  RtPriority <- MCRtPriority
  NoTask = NoTask
  Weight <- MCWeight
  TickRuntime = 4
  Cooperative <- MCCooperative
  MaxQuantum = 8
  MaxRan = 24
INVARIANTS RuntimeCharged EqualShare
