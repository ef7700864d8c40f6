SPECIFICATION FairSpec
CONSTANTS
  None = None
  Users = {u1}
  MfaUsers = {}
  Tokens = {t1, t2}
  Links = {l1, l2}
  Conns = {c1, c2}
  Events = {"link expiry"}
INVARIANTS
  RedemptionBurnsTheRest
PROPERTIES
  ResetLinkSingleUse
  EveryRequestEnds
