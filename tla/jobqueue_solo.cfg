SPECIFICATION FairSpec
CONSTANTS
  j1 = j1
  j2 = j2
  Jobs = {j1, j2}
  Workers = {w1}
  NoWorker = NoWorker
  NoJob = NoJob
  Priority <- DeleteFirst
  Unhandled = {j2}
  MaxAttempts = 2
  DrainLimit = 2
  MaxCrashes = 2
INVARIANTS
  AttemptsPaidByCrashes
  RunningIsLeased
PROPERTIES
  Contract
  EveryJobSettles
