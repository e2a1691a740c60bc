CONSTANTS
  w1 = w1
  w2 = w2
  c1 = c1
  c2 = c2
  f1 = f1
  f2 = f2
  f3 = f3
  m1 = m1
  Nothing = Nothing
  Workers <- MCWorkers
  Creators <- MCCreators
  Functions <- MCFunctions
  Callers <- MCCallers
  Mutexes <- MCMutexes
  MaxThread = 1
  MaxSem = 2
  MaxDepth = 2
SPECIFICATION DriverSpec
INVARIANTS DriverTypeOK RunsOnce KnowsItself LocksExclude OneSemaphoreEach
PROPERTIES CreatedRuns
