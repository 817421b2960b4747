\* Two resume requests of one client (a double click, a retry) overlap.
SPECIFICATION Spec
CONSTANTS
  Runs = {r1}
  Workers = {w1, w2}
  Resolvers = {v1}
  Tools = {send}
  Gated = {send}
  Forbidden = {}
  Pluggable = {}
  NoTool = NoTool
  NoRun = NoRun
  NoWorker = NoWorker
  MaxSteps = 2
  MaxToolCalls = 2
  MaxBatch = 1
  MaxAnnounced = 2
  MaxCalls = 2
  MaxCrashes = 0
  Disciplines = {"overlapping"}
INVARIANT
  OneEffectPerApproval
CHECK_DEADLOCK FALSE
