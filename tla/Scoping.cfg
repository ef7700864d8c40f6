SPECIFICATION FairSpec
CONSTANTS
  Requests = {r1, r2, r3}
  Conns = {c1}
  Tenants = {acme, growpath}
  Platform = growpath
  None = None
INVARIANTS
  IInv
  OwnTenantOnly
  FailedLookupIsForgotten
PROPERTIES
  EveryRequestEnds
CHECK_DEADLOCK FALSE
