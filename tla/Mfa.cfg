SPECIFICATION MfaFairSpec
CONSTANTS
  None = None
  Secrets = {k1}
  Codes = {r1, r2}
  LastStep = 3
  Conns = {c1, c2}
INVARIANTS
  CodeOpensOneSession
PROPERTIES
  EveryRequestEnds
