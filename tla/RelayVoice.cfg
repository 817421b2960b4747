SPECIFICATION FairSpec
CONSTANTS
  Turns = {t1, t2}
  NoTurn = NoTurn
  Modes = {"relay", "stt", "tts"}
  GateModes = {TRUE, FALSE}
  MaxSentences = 2
  Disciplines = {"patient", "any"}
INVARIANTS
  TypeOK
  OneVoice
  AbortedRunIsSuperseded
  ThinkingMeansWork
PROPERTIES
  SupersededStaysSilent
  TurnsEnd
CHECK_DEADLOCK FALSE
