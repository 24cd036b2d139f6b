\* Two calls that do no more than fetch the state are enough to accuse.
SPECIFICATION MCSpec
CONSTANTS
  c1 = c1
  c2 = c2
  h1 = h1
  h2 = h2
  r1 = r1
  r2 = r2
  r3 = r3
  r4 = r4
  Call = {c1, c2}
  Helper = {h1, h2}
  Request = {r1, r2, r3, r4}
  None = None
  StaleRetries = 0
  MaxOther = 1
  MaxAdrift = 0
PROPERTIES
  AccusedOnlyOnRollback
CHECK_DEADLOCK FALSE
