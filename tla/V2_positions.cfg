SPECIFICATION Spec
CONSTANTS
  d1 = d1
  d2 = d2
  e2 = e2
  b1 = b1
  p1 = p1
  p2 = p2
  NoJob = NoJob
  NoResult = NoResult
  Decisions = {d1, d2, e2}
  Backtests = {}
  Processes = {p1}
  DateOf <- TwoDates
  Strategies = 2
  OpenQuantities = {2}
  MaxLots = 2
  Horizon = 5
  MaxErrors = 0
CHECK_DEADLOCK FALSE
INVARIANTS ExitsAreCovered
PROPERTIES CommitmentsHold
