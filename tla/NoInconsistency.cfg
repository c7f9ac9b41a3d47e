\* One worker, an analysis that is cancelled and another after it.
SPECIFICATION AnSpec
CONSTANTS
  w1 = w1  w2 = w2  d1 = d1  d2 = d2  r1 = r1  r2 = r2
  NoTarget = NoTarget
  MaxJobs = 2
  Target = {d1}
  MaxRetries = 1
  Worker = {w1}
  Client = {r1}
  Ops = {"analyze", "cancel"}
  ConflictIsNull = TRUE
  Upsets = {}
  MaxUpsets = 0
  Stages = {1, 3, 4}
  Batches = 0
  MaxVersion = 0
  MaxSlips = 0
INVARIANT NoInconsistency
CHECK_DEADLOCK FALSE
