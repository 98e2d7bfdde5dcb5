SPECIFICATION Spec
CONSTANTS
  None = None
  p1 = p1
  p2 = p2
  Deployers = {p1, p2}
  Workloads <- MCWorkloads
  MaxFaults = 1
INVARIANT RecordedIsThere SchemaIsDeclared ScaffoldsFit
CHECK_DEADLOCK FALSE
