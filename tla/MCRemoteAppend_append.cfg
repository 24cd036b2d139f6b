\* Two calls with a retry each that compete, and a recovery that takes over; and
\* one call with two recoveries, posts that are delayed past later ones, and
\* two events of other clones that make envelopes stale.
SPECIFICATION MCSpec
CONSTANTS
  c1 = c1
  c2 = c2
  h1 = h1
  h2 = h2
  r1 = r1
  r2 = r2
  r3 = r3
  r4 = r4
  Call = {c1, c2}
  Helper = {h1, h2}
  Request = {r1, r2, r3, r4}
  None = None
  StaleRetries = 1
  MaxOther = 2
  MaxAdrift = 2
INVARIANTS
  OneEventPerCall
  NothingLost
  ReceiptsExact
PROPERTIES
  ImplementsAppendOnce
  HighWaterAdvances
  AppendEnds
CHECK_DEADLOCK FALSE
