SPECIFICATION Spec
CONSTANTS
  r1 = r1
  r2 = r2
  None = None
  Runs = {r1, r2}
  CleanupOf <- KeepAndDelete
  Archived = {r1}
  Failing = {r1, r2}
  Retrying = {r2}
  MaxCrashes = 1
INVARIANT
  RetryKeepsOutput
CHECK_DEADLOCK FALSE
