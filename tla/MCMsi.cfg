SPECIFICATION Spec
CONSTANTS
  Devices <- MCDevices
  NumSlots = 3
  MaxWalk = 3
  MIN_MSI_VECTOR = 4
  MAX_MSI_VECTOR = 5
  Vectors = {3, 4, 5, 6}
  LAPIC_MSI_ADDRESS_BASE = 7
  Stale = 9
  AddressMax = 15
INVARIANTS CapabilityFound SentAsAsked FailureChangesNothing NeverMute
