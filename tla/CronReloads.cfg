SPECIFICATION FairSpec
CONSTANTS
  j1 = j1
  j2 = j2
  a = a
  b = b
  none = none
  None = none
  Jobs = {j1}
  Services = {a, b}
  SchedulesOf <- OneShotOrInterval
  Outcomes = {"skipped"}
  Deletable = {TRUE}
  Patches <- Refused
  Second = 2
  JobTimeout = 1
  StuckRun = 2
  MaxTimerDelay = 2
  Backoff <- TwoBackoffs
  MaxTime = 4
  MaxCrashes = 0
PROPERTIES
  DueServed
