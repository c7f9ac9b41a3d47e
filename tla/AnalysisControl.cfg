\* Two analyses of one document; a crash, a shutdown or a failing query of the
\* worker; one edit, and one query of the analysis that fails.
SPECIFICATION AnSpec
CONSTANTS
  w1 = w1  w2 = w2  d1 = d1  d2 = d2  r1 = r1  r2 = r2
  NoTarget = NoTarget
  MaxJobs = 2
  Target = {d1}
  MaxRetries = 0
  Worker = {w1}
  Client = {r1}
  Ops = {"analyze"}
  ConflictIsNull = TRUE
  Upsets = {"restart", "fault"}
  MaxUpsets = 1
  Stages = {1, 3, 4}
  Batches = 1
  MaxVersion = 1
  MaxSlips = 1
INVARIANT AnalysisOK
INVARIANT CheckpointSound
PROPERTY AnalysisComplete
CHECK_DEADLOCK FALSE
