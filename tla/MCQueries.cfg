SPECIFICATION Spec
CONSTANTS
  None = None
  Rows <- MCRows
  Columns <- MCColumns
  Wheres <- MCWheres
  Ctes <- MCCtes
  Writes <- MCWrites
  Formals <- MCFormals
  Calls <- MCCalls
  Tenant = 50
  Global <- MCGlobal
  Cursors <- MCCursors
  MaxSets = 3
INVARIANTS
  ReturnsWhatWasAsked
  BoundAsMeant
  AcceptedByDialect
