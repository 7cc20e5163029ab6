\* one thread opens and closes, one writes to stdout, one flushes everything
CONSTANTS
  Openers = {o1}
  Flushers = {f1}
  Writers = {w1}
  None = none
  IOB = iob
  NFiles = 3
  NHandles = 3
  MaxSemaphore = 2
  BufSize = 2
  MaxPuts = 3
SPECIFICATION Spec
INVARIANTS EachOnceInOrder EveryLockUnlocked OpenListed
PROPERTIES CallsReturn
