\* One worker that may restart twice, two jobs of one document created and retried.
SPECIFICATION ActFairSpec
CONSTANTS
  w1 = w1  w2 = w2  d1 = d1  d2 = d2  r1 = r1  r2 = r2
  NoTarget = NoTarget
  MaxJobs = 2
  Target = {d1}
  MaxRetries = 1
  Worker = {w1}
  Client = {r1}
  Ops = {"analyze", "retry"}
  ConflictIsNull = FALSE
  Upsets = {"restart"}
  MaxUpsets = 2
  MaxLapses = 0
PROPERTY EveryJobEnds
CHECK_DEADLOCK FALSE
