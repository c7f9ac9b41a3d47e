\* One worker (three chains of awaits), two jobs of one document, one request
\* at a time, and any two upsets.
SPECIFICATION Spec
CONSTANTS
  w1 = w1  w2 = w2  d1 = d1  d2 = d2  r1 = r1  r2 = r2
  NoTarget = NoTarget
  MaxJobs = 2
  Target = {d1}
  MaxRetries = 1
  Worker = {w1}
  Client = {r1}
  Ops = {"analyze", "retry", "pause", "resume", "cancelActivity"}
  ConflictIsNull = TRUE
  Upsets = {"stall", "steer", "restart", "fault"}
  MaxUpsets = 2
INVARIANT TypeOK
INVARIANT OneActivePerTarget
INVARIANT RetriesAccounted
INVARIANT OverlapAccounted
PROPERTY LifeSpec
PROPERTY FinishedIsFinal
CHECK_DEADLOCK FALSE
