SPECIFICATION Spec
CONSTANTS
  None = None
  Rows <- MCRows
  Columns <- MCColumns
  Wheres <- MCOrless
  Ctes <- MCCtes
  Writes <- MCWrites
  Formals <- MCFormals
  Calls <- MCCalls
  Tenant = 50
  Global <- MCGlobal
  Cursors <- MCCursors
  MaxSets = 2
INVARIANTS
  TenantsAreApart
