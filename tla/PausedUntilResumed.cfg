\* One worker, one job, one pause request.
SPECIFICATION Spec
CONSTANTS
  w1 = w1  w2 = w2  d1 = d1  d2 = d2  r1 = r1  r2 = r2
  NoTarget = NoTarget
  MaxJobs = 1
  Target = {d1}
  MaxRetries = 1
  Worker = {w1}
  Client = {r1}
  Ops = {"analyze", "pause"}
  ConflictIsNull = TRUE
  Upsets = {"steer"}
  MaxUpsets = 1
PROPERTY PausedUntilResumed
CHECK_DEADLOCK FALSE
