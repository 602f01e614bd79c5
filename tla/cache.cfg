SPECIFICATION Spec
CONSTANTS
  Keys = {"a", "b", "c"}
  NsOf <- TwoNamespaces
  Contents = {"x", "y"}
  SizeOf <- SmallAndLarge
  DeadlineOf <- LargeExpires
  MaxBytes = 3
  GhostMax = 1
  MaxClock = 1
  MaxSlots = 4
  MaxGhosts = 2
INVARIANTS
  WithinLimit
  EveryEntryHasASlot
PROPERTIES
  ImplementsLossyCache
