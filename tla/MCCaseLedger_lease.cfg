\* Two sessions and two claims: leases that are renewed, run out, and are cut
\* at the absolute deadline (2 + 2 renewals of 2 would reach 6, the cut is 4).
\* Without evidence the only handoff is a NO_SIGNAL one; no candidates.
CONSTANTS
  Session = {s1, s2}
  Claim = {c1, c2}
  Handoff = {h1}
  Artifact = {}
  Candidate = {}
  Submission = {}
  None = None
  Lease = 2
  AbsoluteLease = 4
  StaleAfter = 1
  MaxRenewals = 2
  MaxLifetime = 3
  MaxTime = 5
SPECIFICATION Spec
SYMMETRY LeaseSymmetry
INVARIANTS
  ActiveClaimExact
  LeaseBounded
PROPERTIES
  ClaimEndIsFinal
