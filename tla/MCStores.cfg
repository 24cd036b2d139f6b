\* Two clients, fetches, threads, promotions and commands of each component.
SPECIFICATION MCSpec
CONSTANTS
  c1 = c1
  c2 = c2
  f1 = f1
  f2 = f2
  t1 = t1
  t2 = t2
  NoPlace = NoPlace
  Nothing = Nothing
  NoKey = NoKey
  Clients = {c1, c2}
  ForkAt = 1
  MaxEntries = 3
  ProofLimit = 1
  Fetches = {f1, f2}
  Activation = 1
  Forks = {0, 2}
  MaxEvents = 4
  ChunkLimit = 1
  MaxMishaps = 2
  Threads = {t1, t2}
  FileLimit = 3
  Attempts = 2
  Promoters = {c1, c2}
  MaxKills = 1
  MaxCommits = 2
  Starters = {c1, c2}
  External = {c2}
  MaxStops = 1
  MaxHead = 2
  MaxHour = 2
  MaxKilled = 2
CHECK_DEADLOCK FALSE
INVARIANTS
  AcceptedIsOneHistory
  SignedIsOfItsHead
  AnchorsAgree
  PromotedOnce
  StartedHasKeys
  ReceiptIsBacked
PROPERTIES
  LiveCatchesUp
  TicksAreMadeGood
