SPECIFICATION FairSpec
CONSTANTS
  MaxTasks = 4
  WorkerSettings = {0, 1, 3}
  GoMaxProcs = 2
  Configs <- MCConfigs
INVARIANTS
  OneWriterPerSlot
  NoWorkerOutlivesRun
PROPERTIES
  ImplementsParallelMap
  RunReturns
