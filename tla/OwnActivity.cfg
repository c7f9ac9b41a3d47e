\* One worker, two jobs of two documents, nothing goes wrong.
SPECIFICATION ActSpec
CONSTANTS
  w1 = w1  w2 = w2  d1 = d1  d2 = d2  r1 = r1  r2 = r2
  NoTarget = NoTarget
  MaxJobs = 2
  Target = {d1, d2}
  MaxRetries = 1
  Worker = {w1}
  Client = {r1}
  Ops = {"analyze"}
  ConflictIsNull = TRUE
  Upsets = {}
  MaxUpsets = 0
  MaxLapses = 0
INVARIANT OwnActivity
CHECK_DEADLOCK FALSE
