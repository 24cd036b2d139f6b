\* Two resume commands at once.
SPECIFICATION MCSpec
CONSTANTS
  r1 = r1
  r2 = r2
  r3 = r3
  c1 = c1
  c2 = c2
  None = None
  Run = {r1, r2, r3}
  Prepared = {r1}
  Resumer = {c1, c2}
  Stopped = {}
  Watched = {}
CHECK_DEADLOCK FALSE
INVARIANTS
  OneActiveRun
