SPECIFICATION FairSpec
CONSTANTS
  Writers = {"w1", "w2"}
  RegionOf <- MCRegionOf
  CommandsOf <- MCCommandsOf
  Width = 2
  Height = 2
  BootScreen <- MCBootScreen
  MaxLocal = 1
  MaxCommands = 2
  None = None
  WriterRegions <- MCWriterRegions
  WriterCalls <- MCWriterCalls
  MaxCalls = 5
INVARIANTS NothingLost DirtyCovers BatchingInvisible TextInRegion
PROPERTIES EventuallyShown
