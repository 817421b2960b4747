\* One client, no failure: a parked call is approved and the run resumed.
SPECIFICATION Spec
CONSTANTS
  Runs = {r1}
  Workers = {w1}
  Resolvers = {v1}
  Tools = {send}
  Gated = {send}
  Forbidden = {}
  Pluggable = {}
  NoTool = NoTool
  NoRun = NoRun
  NoWorker = NoWorker
  MaxSteps = 2
  MaxToolCalls = 2
  MaxBatch = 1
  MaxAnnounced = 2
  MaxCalls = 2
  MaxCrashes = 0
  Disciplines = {"serial"}
INVARIANT
  TranscriptIsComplete
CHECK_DEADLOCK FALSE
