SPECIFICATION Spec
CONSTANTS
  None = None
  Clients = {k1, k2}
  Authorities = {commercial, china}
  Commercial = commercial
  Secrets = {s1, s2}
  Instances = {n1}
  Devices = {}
  Admins = {a1, a2}
SYMMETRY Symmetry
INVARIANTS
  PartsWereTested
PROPERTIES
  SavesUndoNothing
