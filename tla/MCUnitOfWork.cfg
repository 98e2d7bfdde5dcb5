SPECIFICATION Spec
CONSTANTS
  None = None
  c1 = c1
  c2 = c2
  t1 = t1
  w1 = w1
  Clients = {c1, c2}
  Tenants = {t1}
  Tenant <- MCTenant
  SeesDeleted = {c2}
  Ids = {1, 2, 3}
  KindOf <- MCKindOf
  OwnerOf <- MCOwnerOf
  HasMany <- MCHasMany
  BelongsTo <- MCBelongsTo
  Models <- MCModels
  Who = {w1}
  Aborts = TRUE
INVARIANT TrailIsTrue ListenersHear UnitIsWhole
PROPERTY NoLostUpdate CascadeIsWhole
CHECK_DEADLOCK FALSE
