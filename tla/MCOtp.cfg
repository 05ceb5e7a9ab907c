\* Login codes and their fallback SMS.
CONSTANTS
  r1 = r1
  r2 = r2
  Requests = {r1, r2}
  w1 = w1
  w2 = w2
  Workers = {w1, w2}
  Resenders = {s1}
  Cases <- MCCases
  None = None
SPECIFICATION Spec
SYMMETRY Symmetry
INVARIANTS OneSms FallbackKept
CHECK_DEADLOCK FALSE
