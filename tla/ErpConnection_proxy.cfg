SPECIFICATION FairSpec
CONSTANTS
  None = None
  Clients = {k1}
  Authorities = {commercial}
  Commercial = commercial
  Secrets = {s1, s2}
  Instances = {n1, n2}
  Devices = {d1, d2}
  Admins = {a1}
INVARIANTS
  SingleFlight
  TokensWereIssued
  ResolvedIsConfigured
PROPERTIES
  ReplacedSecretFades
  EveryRequestAnswered
