SPECIFICATION Spec
CONSTANTS
  Requests = {r1}
  Engines = {e1}
  None = None
  MaxPatches = 2
  MaxTroubles = 1
  MaxRetunes = 1
  MaxRestarts = 0
  Disciplines = {"serial"}
INVARIANT StructuralOnlyIsBlind
CHECK_DEADLOCK FALSE
