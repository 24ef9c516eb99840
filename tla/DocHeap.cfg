CONSTANTS
  PAGE_SIZE = 2
  ENTRY_COUNT = 2
  MAX_GB = 4
  MAX_MMIO = 2
  TextStart = 2
  RodataStart = 3
  DataStart = 4
  BssEnd = 5
  StackEnd = 7
  Machines <- MCMachines
  MAX_MEMORY_REGIONS = 5
  BusSpan = 2
  NumBuses = 2
  DEFAULT_APIC_PHYS_BASE = 30
SPECIFICATION Spec
INVARIANTS HeapUnused
