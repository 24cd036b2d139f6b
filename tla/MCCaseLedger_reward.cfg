\* One candidate is enough to see a reward follow a verifier rejection.
CONSTANTS
  Session = {s1}
  Claim = {c1}
  Handoff = {h1}
  Artifact = {a1}
  Candidate = {k1}
  Submission = {u1}
  None = None
  Lease = 2
  AbsoluteLease = 4
  StaleAfter = 1
  MaxRenewals = 1
  MaxLifetime = 1
  MaxTime = 0
SPECIFICATION Spec
INVARIANTS
  RewardAfterReview
