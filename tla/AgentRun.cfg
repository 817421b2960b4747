SPECIFICATION Spec
CONSTANTS
  Runs = {r1}
  Workers = {w1, w2}
  Resolvers = {v1}
  Tools = {read, send, admin}
  Gated = {send}
  Forbidden = {admin}
  Pluggable = {send}
  NoTool = NoTool
  NoRun = NoRun
  NoWorker = NoWorker
  MaxSteps = 2
  MaxToolCalls = 2
  MaxBatch = 2
  MaxAnnounced = 2
  MaxCalls = 2
  MaxCrashes = 1
  Disciplines = {"serial", "overlapping"}
INVARIANTS
  TypeOK
  OnlyAuthorisedEffects
  AtMostOneEffect
  RecordTellsEffect
  WaitingRunCanResume
  AbortReachesTheLoop
PROPERTY
  ImplementsGate
SYMMETRY Symmetry
CHECK_DEADLOCK FALSE
