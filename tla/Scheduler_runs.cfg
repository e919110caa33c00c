SPECIFICATION FairSpec
CONSTANTS
  sched = sched
  api = api
  u1 = u1
  u2 = u2
  u3 = u3
  NoRun = NoRun
  Procs = {sched, api}
  Pollers = {sched}
  Runs = {u1, u2}
  OneTransaction = FALSE
  Lease = 2
  Apart = 2
  Horizon = 4
  MaxFaults = 2
CHECK_DEADLOCK FALSE
INVARIANTS ClaimGuardsChild AuditsAreTrue
PROPERTIES RunsEnd
