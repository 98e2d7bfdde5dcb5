SPECIFICATION Spec
CONSTANTS
  u1 = u1
  u2 = u2
  o1 = o1
  o2 = o2
  o3 = o3
  a = a
  v1 = v1
  v2 = v2
  Contexts <- MCContexts
  Objects <- MCObjects
  New <- MCNew
  Owner <- MCOwner
  Row <- MCRow
  Values <- MCValues
  MaxVersion = 3
  Gone = Gone
  Never = Never
SYMMETRY Symmetry
CONSTRAINT AtMostTwoTracked
INVARIANTS
  TypeOK
  
PROPERTIES
  CommitsOverWhatItRead
  OneVersionAtATime
