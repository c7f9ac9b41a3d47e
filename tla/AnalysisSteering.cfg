\* One analysis that is paused, resumed, cancelled and deleted while it runs.
SPECIFICATION AnSpec
CONSTANTS
  w1 = w1  w2 = w2  d1 = d1  d2 = d2  r1 = r1  r2 = r2
  NoTarget = NoTarget
  MaxJobs = 1
  Target = {d1}
  MaxRetries = 0
  Worker = {w1}
  Client = {r1}
  Ops = {"analyze", "pause", "resume", "cancel"}
  ConflictIsNull = TRUE
  Upsets = {"steer"}
  MaxUpsets = 2
  Stages = {3, 4}
  Batches = 0
  MaxVersion = 0
  MaxSlips = 0
INVARIANT CheckpointSound
PROPERTY AnalysisComplete
ACTION_CONSTRAINT RecoveryAtOnce
CHECK_DEADLOCK FALSE
