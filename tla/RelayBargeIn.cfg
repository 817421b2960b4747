\* One user who may talk at any time, one streamed reply of a few sentences.
SPECIFICATION Spec
CONSTANTS
  Turns = {t1}
  NoTurn = NoTurn
  Modes = {"relay"}
  GateModes = {FALSE}
  MaxSentences = 2
  Disciplines = {"any"}
PROPERTY
  BargeInSilences
CHECK_DEADLOCK FALSE
