SPECIFICATION Spec
CONSTANTS
  o1 = o1
  o2 = o2
  p1 = p1
  p2 = p2
  p3 = p3
  Nobody = Nobody
  Processes = {p1, p2}
  LeaseTime = 1
  RetryDelay = 1
  Orders = {o1, o2}
  Prior = {0, 1}
  MaxSequence = 2
  Baselines = {1}
  WorkerId <- OwnIds
  MaxAttempts = 1
  Skew = 0
  MaxPlace = 3
  Horizon = 1
INVARIANTS LeasedIsNext
CHECK_DEADLOCK FALSE
