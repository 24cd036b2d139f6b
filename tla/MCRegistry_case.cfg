SPECIFICATION FairSpec
CONSTANTS
  p1 = p1
  p2 = p2
  GitHub = GitHub
  None = None
  Procs = {p1, p2}
  MaxRetries = 1
  Providers = {"local", "github"}
  MaxTroubles = 1
  MaxPushes = 1
CHECK_DEADLOCK FALSE
INVARIANTS
  RecordsBacked
PROPERTIES
  BindingKept
  LiveIsFinal
  Settles
