\* One worker, one job that is failed at its first stall, every request and every
\* kind of upset once, one failing write to the activities.
SPECIFICATION SyncFairSpec
CONSTANTS
  w1 = w1  w2 = w2  d1 = d1  d2 = d2  r1 = r1  r2 = r2
  NoTarget = NoTarget
  MaxJobs = 1
  Target = {d1}
  MaxRetries = 0
  Worker = {w1}
  Client = {r1}
  Ops = {"analyze", "retry", "pause", "resume", "cancel", "cancelActivity"}
  ConflictIsNull = TRUE
  Upsets = {"stall", "steer", "restart", "fault"}
  MaxUpsets = 1
  MaxLapses = 1
INVARIANT ActivitiesOK
PROPERTY ActivitySettles
CHECK_DEADLOCK FALSE
