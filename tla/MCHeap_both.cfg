\* both ways of growing, two threads, other code that moves the break
CONSTANTS
  Resizers = {t1}
  Other = other
  Amounts = {1, 3}
  Top = 16
  Hdr = 1
  Frl = 2
  BlkSiz = 6
  Breaks = {8}
  Builds = {"slices", "pages"}
  ResizeUsed = 3
  ResizeBrk = 13
  MovedBrk = 14
  SmallAmount = 1
SPECIFICATION Spec
CONSTRAINT Bounded
INVARIANTS HeapOK JoinedAndCounted CachesBound FreeRoverLive Held
PROPERTIES FailsOnlyWhenFull
