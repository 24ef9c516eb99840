SPECIFICATION Spec
CONSTANTS
  Demos = {"demo1", "demo2"}
  MAX_TRACKED = 2
  AnimTicks = 1
  Rounds = 2
  MaxCommands <- MCMaxCommands
  MaxWaiters <- MCMaxWaiters
  NoAnim = NoAnim
INVARIANTS WholeFrames WaitedForRendering
PROPERTIES DemosWake
