SPECIFICATION FairSpec
CONSTANTS
  c1 = c1
  c2 = c2
  c3 = c3
  key = key
  own = own
  NoCall = NoCall
  Calls = {c1, c2, c3}
  Ids = {key, own}
  IdOf <- SharedKey
  Keyed = {key}
  Priority <- Urgent
  MaxFaults = 1
CHECK_DEADLOCK FALSE
INVARIANTS NoneDisappears
PROPERTIES CallsAreServed
