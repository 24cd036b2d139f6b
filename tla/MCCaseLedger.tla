---------------------------- MODULE MCCaseLedger ----------------------------
(* Finite instances of CaseLedger for TLC: the identifiers of each kind are  *)
(* interchangeable.                                                          *)
EXTENDS CaseLedger, TLC

LeaseSymmetry == Permutations(Session) \cup Permutations(Claim)

CandidateSymmetry ==
  Permutations(Claim) \cup Permutations(Handoff) \cup Permutations(Artifact)
    \cup Permutations(Candidate) \cup Permutations(Submission)

=============================================================================
