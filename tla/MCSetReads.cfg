SPECIFICATION Spec
CONSTANTS
  None = None
  r1 = r1
  r2 = r2
  Readers = {r1, r2}
  Replicas = 2
  Ids = {1, 2, 3, 4}
  Workloads <- MCWorkloads
  MaxSize = 1
  Size = 1
  Ttl = 1
  MaxTime = 3
  MaxMet = 5
INVARIANT EachRowOnce ListsAreTrue
CHECK_DEADLOCK FALSE
