\* One run with every process that may act on it, and a run with two more that
\* are resumed from it, one after the other, under fairness.
SPECIFICATION MCSpec
CONSTANTS
  r1 = r1
  r2 = r2
  r3 = r3
  c1 = c1
  c2 = c2
  None = None
  Run = {r1, r2, r3}
  Prepared = {r1}
  Resumer = {c1}
  Stopped = {r1}
  Watched = {r1}
CHECK_DEADLOCK FALSE
INVARIANTS
  SettledIsDown
  OneActiveRun
PROPERTIES
  TerminalIsFinal
  StopIsNotCompletion
  WatchedRunsEnd
  ProvidersEnd
