SPECIFICATION FairBuildSpec
CONSTANTS
  p1 = p1
  p2 = p2
  p3 = p3
  NoFile = NoFile
  Stale = Stale
  Procs <- AllProcs
  Host <- OneHost
  Pid <- ReusedPids
  Config <- TwoConfigs
  Contents <- BuildContents
  MaxPolls = 1
  CanCrash <- TwoProcs
  IOErrors = FALSE
  BuildErrors = FALSE
INVARIANTS
  BuildTypeOK
  NoOrphanLock
  CommittedStays
  NoSpuriousFailure
PROPERTY EveryImportEnds
CHECK_DEADLOCK FALSE
