SPECIFICATION FairSpec
CONSTANTS
  b1 = b1
  b2 = b2
  s1 = s1
  s2 = s2
  l1 = l1
  l2 = l2
  n1 = n1
  n2 = n2
  r1 = r1
  r2 = r2
  tick1 = tick1
  tick2 = tick2
  desk = desk
  stock = stock
  NoRun = NoRun
  Desk = desk
  DayLength = 3
  Session <- Session2
  StockOf <- OneStock
  Orders = {b1, b2}
  Buys = {b1, b2}
  V3Orders = {b1, b2}
  RunOf <- DeskRun
  Quantity <- DeskQuantity
  Earliest <- DeskEarliest
  Expires <- DeskExpires
  QuoteAt <- DeskQuoteAt
  Volume <- DeskVolume
  PriceOf <- DeskPrice
  Quotes = {n1, n2}
  Snapshots = {n1, n2}
  QuoteMaxAge = 0
  SnapshotMaxAge = 0
  Ticks = {tick1}
  Deposit = 3
  SettlementDays = 1
  MaxCrashes = 1
  Horizon = 6
CHECK_DEADLOCK FALSE
PROPERTIES EndsAreFinal BuyPlansSettle
INVARIANTS OneDecisionBuys PlansAreTrue LiquidityOnce
