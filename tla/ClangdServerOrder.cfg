SPECIFICATION Spec
CONSTANTS
  MaxRequests = 3
  MaxUnits = 2
  WorkerCount = 2
  None = None
INVARIANT NewestDiagnosticsLast
CHECK_DEADLOCK FALSE
