SPECIFICATION Spec
CONSTANTS
  BlkMod = 5
  IntMod = 5
  MaxPuts = 3
  MaxFaults = 1
  MaxWaits = 1
  WireCap = 2
  Adverse = {"busy","line"}
CHECK_DEADLOCK FALSE
INVARIANTS IInv InOrderOnce
PROPERTIES ResponseMatches ImplementsLossyLink
