SPECIFICATION Spec
CONSTANTS
  None = None
  Users = {u1}
  MfaUsers = {u1}
  Tokens = {t1, t2, t3}
  Links = {}
  Conns = {c1, c2}
  Events = {"status", "archive", "expiry"}
SYMMETRY Symmetry
INVARIANTS
  IInv
  OneUnspentPerFamily
  SingleUse
  RevokedToTheRoot
PROPERTIES
  ImplementsChain
