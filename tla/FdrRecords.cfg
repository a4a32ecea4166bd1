SPECIFICATION Spec
CONSTANTS
  a = a
  b = b
  Functions <- TwoFunctions
  CPUs = {0, 1}
  Steps = {1, 2}
  Pauses = {4, 6}
  Threshold = 4
  MaxDelta = 5
  CounterSize = 4
  Capacity = 20
  EventSizes = {0}
  MaxHooks = 6
  MaxOdd = 1
SYMMETRY Swap
INVARIANTS
  TypeOK
  WithinBuffer
  LogMatchesCalls
  ErasedWereShort
  PlainRewinds
  FirstTimesDecode
CHECK_DEADLOCK FALSE
