SPECIFICATION FairSpec
CONSTANTS
  r1 = r1
  r2 = r2
  None = None
  Runs = {r1, r2}
  CleanupOf <- KeepAndDelete
  Archived = {r1}
  Failing = {r1}
  Retrying = {r2}
  MaxCrashes = 1
INVARIANTS
  TypeOK
  OneFlow
  ToldOnce
  WholeOutput
  OutputKept
  Durable
  SweeperRuns
PROPERTIES
  Reported
CHECK_DEADLOCK FALSE
