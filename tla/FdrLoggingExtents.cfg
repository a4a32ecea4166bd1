SPECIFICATION LogSpec
CONSTANTS
  t1 = t1
  t2 = t2
  t3 = t3
  Threads <- ThreeThreads
  BufferCount = 2
  Capacity = 13
  RecordSizes = {3}
  FreshExtents = {0}
  MaxHooks = 4
INVARIANT FlushAssertHolds
CHECK_DEADLOCK FALSE
