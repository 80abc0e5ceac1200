SPECIFICATION Spec
CONSTANTS
  j1 = j1
  j2 = j2
  a = a
  b = b
  none = none
  None = none
  Jobs = {j1, j2}
  Services = {a}
  SchedulesOf <- OneShotAndRecurring
  Outcomes = {"ok", "error"}
  Deletable = {FALSE}
  Patches <- Changes
  Second = 2
  JobTimeout = 1
  StuckRun = 2
  MaxTimerDelay = 2
  Backoff <- OneBackoff
  MaxTime = 4
  MaxCrashes = 1
INVARIANTS
  TypeOK
  NoOverlap
  MarkerJustified
  TimerCovers
  Durable
PROPERTIES
  OneShotOnce
