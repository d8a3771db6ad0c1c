SPECIFICATION Spec
CONSTANTS
  j1 = j1
  j2 = j2
  Jobs = {j1}
  Workers = {w1, w2}
  NoWorker = NoWorker
  NoJob = NoJob
  Priority <- DeleteFirst
  Unhandled = {}
  MaxAttempts = 3
  DrainLimit = 1
  MaxCrashes = 1
SYMMETRY Symmetry
INVARIANT
  CrashedRunIsReclaimable
