SPECIFICATION Spec
CONSTANTS
  d1 = d1
  d2 = d2
  t1 = t1
  t2 = t2
  i1 = i1
  i2 = i2
  Device = {d1, d2}
  Tab = {t1, t2}
  Id = {i1}
  None = None
  HomeOf <- MCHomeOf
  Shared = {i1}
  Skew <- MCSkew
  MaxSkew = 0
  TombstoneTTL = 1
  EditHorizon = 3
  MaxTime = 3
  MaxFaults = 0
CHECK_DEADLOCK FALSE
PROPERTY RowsNeverGoBack
