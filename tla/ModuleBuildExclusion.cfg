SPECIFICATION BuildSpec
CONSTANTS
  p1 = p1
  p2 = p2
  p3 = p3
  NoFile = NoFile
  Stale = Stale
  Procs <- TwoProcs
  Host <- OneHost
  Pid <- OwnPids
  Config <- SameConfig
  Contents <- BuildContents
  MaxPolls = 1
  CanCrash = {}
  IOErrors = FALSE
  BuildErrors = FALSE
INVARIANT AtMostOneOwner
CHECK_DEADLOCK FALSE
