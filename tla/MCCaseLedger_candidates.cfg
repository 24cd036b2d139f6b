\* Two claims are closed by up to two handoffs, of which one may depend on the
\* other; two candidates, sealed from their evidence, compete for external
\* submission and go through every verdict, at one instant.
CONSTANTS
  Session = {s1}
  Claim = {c1, c2}
  Handoff = {h1, h2}
  Artifact = {a1, a2}
  Candidate = {k1, k2}
  Submission = {u1, u2}
  None = None
  Lease = 2
  AbsoluteLease = 4
  StaleAfter = 1
  MaxRenewals = 1
  MaxLifetime = 1
  MaxTime = 0
SPECIFICATION Spec
SYMMETRY CandidateSymmetry
INVARIANTS
  HandoffGraph
  SealedFromEvidence
  OneLiveSubmission
  ResolutionReviewed
  ResumeDefined
PROPERTIES
  SolvedCloses
  ImplementsOfficialReview
