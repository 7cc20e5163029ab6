\* two threads, two semaphores neither of which exists at first, the second
\* taken under the first as well
CONSTANTS
  Threads = {t1, t2}
  None = none
  IOBSemaphore = iob
  FileSemaphore = file
  Locks <- MCLocks
  Under <- MCUnder
  InitSemaphore = init
  MaxDepth = 2
  MaxMutex = 4
SPECIFICATION Spec
INVARIANTS IInv OneHolder OneMutexEach
PROPERTIES ImplementsRecLock CallsReturn
