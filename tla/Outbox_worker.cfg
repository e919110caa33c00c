SPECIFICATION FairSpec
CONSTANTS
  o1 = o1
  o2 = o2
  p1 = p1
  p2 = p2
  p3 = p3
  Nobody = Nobody
  Processes = {p1, p2}
  LeaseTime = 1
  RetryDelay = 1
  Orders = {o1}
  Prior = {0, 1}
  MaxSequence = 2
  Baselines = {1}
  WorkerId <- SharedId
  MaxAttempts = 2
  Skew = 1
  MaxPlace = 2
  Horizon = 3
INVARIANTS NothingOvertakes InboxIsHistory
CHECK_DEADLOCK FALSE
PROPERTIES OnlyTheLeaseSettles ImplementsInOrderDelivery EveryEventSettles
