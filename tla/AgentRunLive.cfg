SPECIFICATION FairSpec
CONSTANTS
  Runs = {r1}
  Workers = {w1}
  Resolvers = {v1, v2}
  Tools = {read, send}
  Gated = {send}
  Forbidden = {}
  Pluggable = {send}
  NoTool = NoTool
  NoRun = NoRun
  NoWorker = NoWorker
  MaxSteps = 2
  MaxToolCalls = 1
  MaxBatch = 2
  MaxAnnounced = 2
  MaxCalls = 2
  MaxCrashes = 1
  Disciplines = {"serial"}
PROPERTIES
  RequestsEnd
  DecidedRunGoesOn
CHECK_DEADLOCK FALSE
