SPECIFICATION Spec
CONSTANTS
  p1 = p1
  p2 = p2
  GitHub = GitHub
  None = None
  Procs = {p1, p2}
  MaxRetries = 1
  Providers = {"local"}
  MaxTroubles = 0
  MaxPushes = 0
CHECK_DEADLOCK FALSE
INVARIANT
  RecordedIsRepository
