SPECIFICATION Spec
CONSTANTS
  Failures <- MCFailures
  LoadTicks <- MCLoadTicks
  TimerLag = 1
  MaxTries = 3
  Budget = 100
  Initial = 5
  Maximum = 25
  Multiplier = 2
  JitterDivisor = 5
INVARIANTS
  GivesUpOnlyAtALimit
PROPERTIES
  ImplementsLoader
  CancellationWins
  EveryAttemptSeesTheRequest
