SPECIFICATION FairSpec
CONSTANTS
  e1 = e1  e2 = e2  e3 = e3  w1 = w1  w2 = w2
  Job = {j1}
  Exec = {e1, e2, e3}
  Worker = {w1, w2}
  WorkerOf <- SharedWorker
  MaxAttempts = 2
  RecoveryEnabled = TRUE
  MaxWaits = 1
  MaxReactivations = 1
  MaxCrashes = 2
  NoOwner = NoOwner
  NoJob = NoJob
INVARIANTS TypeOK OneCurrentHolder NeverRefused RetryBudget
PROPERTIES NoStaleEffect KeepsPromise EveryJobSettles
CHECK_DEADLOCK FALSE
