SPECIFICATION Spec
CONSTANTS
  a = a
  b = b
  Functions = {"f"}
  CPUs = {0}
  Steps = {1, 2}
  Pauses = {}
  Threshold = 4
  MaxDelta = 5
  CounterSize = 256
  Capacity = 20
  EventSizes = {}
  MaxHooks = 6
  MaxOdd = 0
INVARIANT TimesDecode
CHECK_DEADLOCK FALSE
