SPECIFICATION FairSpec
CONSTANTS
  c1 = c1
  c2 = c2
  h1 = h1
  h2 = h2
  Nobody = Nobody
  NoRequest = NoRequest
  Callers <- Calls
  Watchers = {c1}
  Requests = {1, 2}
  RequestOf <- RequestOfCall
  InputOf <- InputOfCall
  Budgets = {2}
  Hosts = {h1, h2}
  LeaseTime = 1
  Batch = 1
  MaxLives = 1
  Horizon = 2
CHECK_DEADLOCK FALSE
INVARIANTS OneModelCall ToldTheTruth
PROPERTIES PriorChildGone RequestsEnd
