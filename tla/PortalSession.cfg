SPECIFICATION Spec
CONSTANTS
  None = None
  Tabs = {b1, b2}
  Tokens = {t1, t2, t3}
  MaxCalls = 1
SYMMETRY Symmetry
INVARIANTS
  IInv
  TabsHoldTheCurrentToken
  ReplaysAreAccountedFor
  ShownIsCredentialed
