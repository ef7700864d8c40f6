SPECIFICATION FairSpec
CONSTANTS
  Redis = Redis
  Sources = {a1}
  Instances = {n1}
  Requests = {r1, r2}
  Limit = 2
  Threshold = 3
PROPERTIES
  RefusedIsAdmittedAgain
