SPECIFICATION Spec
CONSTANTS
  j1 = j1
  j2 = j2
  a = a
  b = b
  none = none
  None = none
  Jobs = {j1, j2}
  Services = {a}
  SchedulesOf <- Interval
  Outcomes = {"ok", "error"}
  Deletable = {FALSE}
  Patches <- NoPatches
  Second = 2
  JobTimeout = 1
  StuckRun = 2
  MaxTimerDelay = 2
  Backoff <- TwoBackoffs
  MaxTime = 5
  MaxCrashes = 0
PROPERTIES
  DueNotAdvanced
CHECK_DEADLOCK FALSE
