\* the three cables, good or with a dead line, on slow machines and others
CONSTANTS
  CablesUsed = {"WATCOM", "LAPLINK", "DUTCHMAN"}
  DeadLines = {0, 1, 2, 3, 4, 5, 6, 7, 8}
  Slow = {TRUE, FALSE}
  Pulses = 4
  MaxAttempts = 2
SPECIFICATION FairSpec
INVARIANTS HandedOver LinesWork
PROPERTIES Connects
CHECK_DEADLOCK FALSE
