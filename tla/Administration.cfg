SPECIFICATION FairSpec
CONSTANTS
  read = read
  write = write
  other = other
  Items = {read, write}
  ReadOf <- MCReadOf
  Kinds = {"roles", "permissions", "modules"}
  Conns = {c1, c2}
INVARIANTS
  IInv
  PermissionsClosed
PROPERTIES
  ReplacementHolds
  EveryRequestEnds
