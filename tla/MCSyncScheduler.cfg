SPECIFICATION Spec
CONSTANTS
  c1 = c1
  c2 = c2
  a = a
  b = b
  Character = {c1, c2}
  Collection = {a, b, rest}
  Named = {a, b}
  MaxRequests = 2
  MaxFailures = 1
  None = None
INVARIANTS TypeOK OneSession NoEditForgotten IdleMeansRecovered HaltIsFinal
PROPERTY FlushedMeansPushed
SYMMETRY Alike
CHECK_DEADLOCK FALSE
