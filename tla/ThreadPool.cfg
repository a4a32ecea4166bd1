SPECIFICATION FairSpec
CONSTANTS
  w1 = w1
  w2 = w2
  a = a
  b = b
  c = c
  Workers <- TwoWorkers
  Client = Client
  Nobody = Nobody
  Tasks <- ClientTasks
  Spawns <- OneSpawns
  MaxSpurious = 2
INVARIANTS
  TypeOK
  WaitMeansDone
  QueueIsQuiet
  EachTaskOnce
PROPERTIES
  CallsReturn
  EveryTaskRuns
CHECK_DEADLOCK FALSE
