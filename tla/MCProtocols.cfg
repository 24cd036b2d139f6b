\* One community case and one two-agent case, with a result to settle.
SPECIFICATION MCSpec
CONSTANTS
  s1 = s1
  s3 = s3
  r1 = r1
  r2 = r2
  r3 = r3
  r4 = r4
  r5 = r5
  r6 = r6
  v1 = v1
  v2 = v2
  v3 = v3
  v4 = v4
  Sessions = {s1, s3}
  Routes = {"route"}
  Claims = {"c1", "c2"}
  Works = {"w1", "w2"}
  Results = {"result"}
  ownerOf <- MCOwnerOf
  Nobody = Nobody
  Grants <- MCGrants
  LeaseMax = 1
  AllowParallel = TRUE
  Horizon = 1
  Participants = {1, 2, 3}
  Reviewers = {v1, v2, v3, v4}
  Nil = Nil
  ReviewQuorum = 3
  MaxSpread = 1
  Unit = 2
  Destination <- MCDestination
  CausalSets = {{1, 2}, {1, 2, 3}}
  Bounties = {3}
  Roster = {r1, r2, r3, r4, r5, r6}
  controllerOf <- MCControllerOf
  AgentControllers = {"agent"}
  FitSets <- MCFitSets
  PanelSize = 4
  Quorum = 3
  Dispersion = 2
  Floor = 1
  Whole = 5
  MaxWeight = 2
  Submission = 1
  Commit = 2
  Reveal = 3
  Appeal = 4
  LastTime = 5
CHECK_DEADLOCK FALSE
INVARIANTS
  RouteLeasesExact
  AttributedIsClosed
  CreditNeedsEvidence
  PaidExactly
  DecisionSound
PROPERTIES
  CreditSettles
