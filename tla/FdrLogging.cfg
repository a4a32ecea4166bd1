SPECIFICATION FairLogSpec
CONSTANTS
  t1 = t1
  t2 = t2
  t3 = t3
  Threads <- ThreeThreads
  BufferCount = 2
  Capacity = 13
  RecordSizes = {3}
  FreshExtents = {14}
  MaxHooks = 4
INVARIANTS
  LogTypeOK
  EachBufferOnce
  NothingWrittenIsLost
  PreparedExtentsHold
  LateHooksLetGo
PROPERTIES
  IsPool
  BuffersComeBack
CHECK_DEADLOCK FALSE
