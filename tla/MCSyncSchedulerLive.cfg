SPECIFICATION FairSpec
CONSTANTS
  c1 = c1
  c2 = c2
  a = a
  b = b
  Character = {c1, c2}
  Collection = {a, rest}
  Named = {a}
  MaxRequests = 1
  MaxFailures = 1
  None = None
PROPERTY EventuallyPushed
CHECK_DEADLOCK FALSE
