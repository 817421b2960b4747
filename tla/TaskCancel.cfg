\* One user starts a task and cancels it while its run is at work.
SPECIFICATION Spec
CONSTANTS
  Tasks = {t1}
  Schedules = {}
  Runners = {a1}
  Requests = {q1}
  NoTask = NoTask
  MaxCrashes = 0
  Disciplines = {"any"}
INVARIANT
  CancelStopsTheRun
CHECK_DEADLOCK FALSE
