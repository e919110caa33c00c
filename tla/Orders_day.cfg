SPECIFICATION FairSpec
CONSTANTS
  q1 = q1
  q2 = q2
  q3 = q3
  v1 = v1
  v2 = v2
  ExpiryEvent = ExpiryEvent
  NoReason = NoReason
  Reasons = {suspended}
  Precision = 3
  Requested = 5
  Approved = 3
  Earliest = 1
  Expires = 3
  Quotes = {q1, q2, q3}
  ObservedAt <- ThreeTimes
  Visible <- ThreeSizes
  PriceOf <- ThreePrices
  MaxAge = 1
  VenueEvents = {v1, v2}
  VenueFills = {1, 3}
  VenuePrices = {100}
  InFlight = 2
  Horizon = 4
CHECK_DEADLOCK FALSE
INVARIANTS TypeOK DecidedOnThisOrder FreshDecisionAccepted CanAlwaysEnd
PROPERTIES DayOrderEnds
