SPECIFICATION FairSpec
CONSTANTS
  d1 = d1
  d2 = d2
  t1 = t1
  t2 = t2
  t3 = t3
  Device = {d1, d2}
  Tab = {t1, t3}
  HomeOf <- MCHomeOf
  Collection = {c1}
  Moment = {m1, m2}
  MaxWrites = 1
  MaxFaults = 1
  Lapses = TRUE
  None = None
INVARIANTS TypeOK ClaimHonest
CHECK_DEADLOCK FALSE
PROPERTIES CatchesUp FailureForcesRead
