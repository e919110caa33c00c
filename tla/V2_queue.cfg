SPECIFICATION FairSpec
CONSTANTS
  d1 = d1
  d2 = d2
  e2 = e2
  b1 = b1
  p1 = p1
  p2 = p2
  NoJob = NoJob
  NoResult = NoResult
  Decisions = {d2, e2}
  Backtests = {b1}
  Processes = {p1, p2}
  DateOf <- OneDate
  Strategies = 1
  OpenQuantities = {1}
  MaxLots = 1
  Horizon = 3
  MaxErrors = 1
CHECK_DEADLOCK FALSE
INVARIANTS TypeOK OneWorkerPerJob ResultIsReal UnmonitoredShows
PROPERTIES JobsSettle
