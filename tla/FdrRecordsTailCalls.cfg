SPECIFICATION Spec
CONSTANTS
  a = a
  b = b
  Functions = {"f"}
  CPUs = {0}
  Steps = {1, 2}
  Pauses = {4}
  Threshold = 4
  MaxDelta = 9
  CounterSize = 256
  Capacity = 40
  EventSizes = {}
  MaxHooks = 9
  MaxOdd = 1
CONSTRAINT NestedCalls
INVARIANT RewindsFindTheirRecords
CHECK_DEADLOCK FALSE
