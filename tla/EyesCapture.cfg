SPECIFICATION FairSpec
CONSTANTS
  Requests = {r1, r2}
  Engines = {e1, e2}
  None = None
  MaxPatches = 2
  MaxTroubles = 2
  MaxRetunes = 1
  MaxRestarts = 1
  Disciplines = {"serial", "overlapping"}
INVARIANTS
  TypeOK
  LockstepWithSettings
  NoStrayWatcher
  StoppedEngineForgets
  ActiveMeansStream
PROPERTY PatchEnds
CHECK_DEADLOCK FALSE

