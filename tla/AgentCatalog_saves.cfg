CONSTANTS
  e1 = e1
  e2 = e2
  k = k
  w1 = w1
  w2 = w2
  Client = {c1, c2}
  Agent = {a1, a2}
  Wiki = {w1}
  Skill = {k}
  Env = {e1, e2}
  Config <- MCConfigs
  PoolMax = 2
  MaxRequests = 4
SPECIFICATION CatalogFairSpec
INVARIANT SingleWriter
 
PROPERTY ClaimsFinish
CHECK_DEADLOCK FALSE
