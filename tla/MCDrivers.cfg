SPECIFICATION Spec
CONSTANTS
  None = None
  f1 = f1
  f2 = f2
  s1 = s1
  s2 = s2
  Flows = {f1, f2}
  Sessions = {s1, s2}
  Workloads <- MCWorkloads
  MaxRetry = 1
  MaxFaults = 2
  MaxBody = 3
INVARIANT AllOrNothing TransientIsRetried
CHECK_DEADLOCK FALSE
