SPECIFICATION FairSpec
CONSTANTS
  w1 = w1
  w2 = w2
  t1 = t1
  t2 = t2
  NoWorker = NoWorker
  NoToken = NoToken
  NoTime = NoTime
  AnyType = AnyType
  Schedules = {0}
  RetryDelays = {1}
  Skew = 1
  ReapBatch = 1
  LastCreate = 0
  Workers = {w1, w2}
  Tokens = {t1, t2}
  Jobs = {1, 2}
  JobType <- OneType
  AttemptLimits = {1, 2}
  LeaseDurations = {2}
  MaxLease = 2
  Stall = 0
  Horizon = 3
CHECK_DEADLOCK FALSE
INVARIANTS RowContract AttemptsAccounted OneLiveLease
PROPERTIES LeaseHonoured ImplementsFencedJobs DueIsServed
