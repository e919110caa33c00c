SPECIFICATION Spec
CONSTANTS
  b1 = b1
  b2 = b2
  s1 = s1
  s2 = s2
  l1 = l1
  l2 = l2
  n1 = n1
  n2 = n2
  r1 = r1
  r2 = r2
  tick1 = tick1
  tick2 = tick2
  desk = desk
  stock = stock
  NoRun = NoRun
  Desk = desk
  DayLength = 3
  Session <- Session2
  StockOf <- OneStock
  Orders = {b1, s1, s2}
  Buys = {b1}
  V3Orders = {}
  RunOf <- DeskRun
  Quantity <- BookQuantity
  Earliest <- BookEarliest
  Expires <- BookExpires
  QuoteAt <- BookQuoteAt
  Volume <- BookVolume
  PriceOf <- BookPrice
  Quotes = {l1, n1, n2}
  Snapshots = {n1, n2}
  QuoteMaxAge = 0
  SnapshotMaxAge = 1
  Ticks = {tick1, tick2}
  Deposit = 3
  SettlementDays = 1
  MaxCrashes = 0
  Horizon = 6
SYMMETRY BothTicks
CHECK_DEADLOCK FALSE
INVARIANTS TypeOK BooksAgree
PROPERTIES ImplementsLedgerBook
