SPECIFICATION FairSpec
CONSTANTS
  MaxRequests = 3
  MaxUnits = 2
  WorkerCount = 2
  None = None
INVARIANTS
  TypeOK
  OneRebuild
  ReadyMeansNewest
  SetOnce
  GuardAsserts
  DiagnosticsCatchUp
PROPERTIES
  EveryJobEnds
  FuturesBecomeReady
CHECK_DEADLOCK FALSE
