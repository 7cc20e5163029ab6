SPECIFICATION FairSpec
CONSTANTS
  BlkMod = 3
  IntMod = 3
  MaxPuts = 5
  MaxFaults = 1
  MaxWaits = 3
  WireCap = 3
  Adverse = {}
CHECK_DEADLOCK FALSE
INVARIANTS NoMutualWait
PROPERTIES PutDelivered CallEnds ImplementsExactLink
