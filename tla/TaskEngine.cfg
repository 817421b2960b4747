SPECIFICATION FairSpec
CONSTANTS
  Tasks = {t1}
  Schedules = {s1}
  Runners = {x1, x2}
  Requests = {x2, x3}
  NoTask = NoTask
  MaxCrashes = 1
  Disciplines = {"patient", "any"}
INVARIANTS
  TypeOK
  RunningTaskHasRunner
  TaskTellsOutcome
  ScheduleIsArmed
PROPERTIES
  LegalTransitions
  RunningTaskSettles
CHECK_DEADLOCK FALSE
