\* two threads open a stream at the same time
CONSTANTS
  Openers = {o1, o2}
  Flushers = {f1}
  Writers = {w1}
  None = none
  IOB = iob
  NFiles = 3
  NHandles = 3
  MaxSemaphore = 2
  BufSize = 2
  MaxPuts = 3
SPECIFICATION Spec
INVARIANTS OneOwner
