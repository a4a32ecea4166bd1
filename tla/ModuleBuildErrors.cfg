SPECIFICATION BuildSpec
CONSTANTS
  p1 = p1
  p2 = p2
  p3 = p3
  NoFile = NoFile
  Stale = Stale
  Procs <- TwoProcs
  Host <- OneHost
  Pid <- OwnPids
  Config <- TwoConfigs
  Contents <- BuildContents
  MaxPolls = 2
  CanCrash <- TwoProcs
  IOErrors = TRUE
  BuildErrors = TRUE
INVARIANTS
  NoTempLeak
  StateIsCoherent
  WaiterNeverBlamed
PROPERTY Spec
CHECK_DEADLOCK FALSE
