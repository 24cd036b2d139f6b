----------------------------- MODULE CaseLedger -----------------------------
(***************************************************************************)
(* The ledger of one research case (src/boule/workspace.py).  Sessions     *)
(* claim work under a lease, hand off evidence and seal candidates;  the   *)
(* case maintainer receipts the external submission of a candidate,        *)
(* records the official feedback, and finally resolves the case.           *)
(*                                                                         *)
(* The program stores events only and recomputes the case from them        *)
(* (Workspace._state_from) each time it needs it.  The variables below are *)
(* that recomputed state just after the last event; whatever _state_from   *)
(* derives from the current time (expired and stale claims, a session's    *)
(* usable claim, expired sessions) is an operator with a time argument.    *)
(* Every action is one event: its guard is what _authorize or              *)
(* _authorize_maintainer demands of the event, its effect is the branch of *)
(* _state_from for its kind.  An event that is refused changes nothing and *)
(* is no step, nor is a local retry of an event already recorded, which    *)
(* _append answers with the recorded one.                                  *)
(*                                                                         *)
(* The checks on the shape of a payload (texts, digests, task identity,    *)
(* URLs) are left out: an action stands for a well-formed request.         *)
(***************************************************************************)
EXTENDS Integers, Sequences

CONSTANTS
  Session,        \* session ids, each with the session key that signs for it
  Claim,          \* ids of work claims
  Handoff,        \* ids of handoffs
  Artifact,       \* evidence references with their digests
  Candidate,      \* ids of submission candidates
  Submission,     \* ids of external submissions
  None,           \* no session, claim, submission or feedback
  Lease,          \* config.lease_seconds
  AbsoluteLease,  \* config.absolute_lease_seconds
  StaleAfter,     \* config.stale_seconds
  MaxRenewals,    \* config.max_renewals
  MaxLifetime,    \* MAX_SESSION_LIFETIME of a session opened remotely
  MaxTime         \* bound: the clock is not followed past this instant

VerifierDecision == {"VERIFIED", "REJECTED"}
ReviewDecision   == {"APPROVED", "REJECTED", "PARTIAL_AWARD"}
RewardDecision   == {"ELIGIBLE", "INELIGIBLE"}
Outcome          == {"ADVANCE", "NEGATIVE", "BLOCKED", "NO_SIGNAL"}
Provenance       == {"original", "adapted", "reproduction", "unknown"}

\* Workspace._validate admits these lease parameters only.
ASSUME LeaseAssumption ==
  /\ Lease \in Nat
  /\ AbsoluteLease \in Nat
  /\ Lease <= AbsoluteLease
  /\ StaleAfter \in 1..(Lease - 1)
  /\ MaxRenewals \in Nat
  /\ MaxLifetime \in Nat

ASSUME TimeAssumption == MaxTime \in Nat

ASSUME NoneAssumption ==
  None \notin Session \cup Claim \cup Artifact \cup Candidate \cup Submission
                \cup VerifierDecision \cup ReviewDecision \cup RewardDecision

VARIABLES
  lastReceived,   \* received_at of the last event
  notAfter,       \* when each session ends; 0 until it is started
  activeClaim,    \* the claim a session opened last and has not closed
  claim,          \* the work claims
  handoff,        \* the handoffs
  candidate,      \* the sealed candidates with what was observed about them
  published,      \* the candidates in the order they were published
  resolution      \* the candidate the case was resolved with, or None

vars == <<lastReceived, notAfter, activeClaim, claim, handoff, candidate,
          published, resolution>>

-----------------------------------------------------------------------------
(* Records of the state, and the values they have before they are created. *)

ClaimRecord ==
  [status: {"absent", "active", "released", "completed"},
   session: Session \cup {None},
   opened: Nat, lastActivity: Nat, deadline: Nat, renewals: Nat]

HandoffRecord ==
  [outcome: Outcome \cup {"absent"}, claim: Claim \cup {None},
   evidence: SUBSET Artifact, dependsOn: SUBSET Handoff]

CandidateStatus ==
  {"absent", "CANDIDATE_READY", "VERIFICATION_PENDING", "REVIEW_PENDING",
   "APPROVED", "REJECTED", "PARTIAL_AWARD"}

CandidateRecord ==
  [status: CandidateStatus, artifact: Artifact \cup {None},
   handoffs: SUBSET Handoff, submission: Submission \cup {None},
   verifier: VerifierDecision \cup {None},
   review: ReviewDecision \cup {None},
   reward: RewardDecision \cup {None}]

NoClaim ==
  [status |-> "absent", session |-> None,
   opened |-> 0, lastActivity |-> 0, deadline |-> 0, renewals |-> 0]

NoHandoff ==
  [outcome |-> "absent", claim |-> None, evidence |-> {}, dependsOn |-> {}]

NoCandidate ==
  [status |-> "absent", artifact |-> None, handoffs |-> {},
   submission |-> None, verifier |-> None, review |-> None, reward |-> None]

TypeOK ==
  /\ lastReceived \in Nat
  /\ notAfter \in [Session -> Nat]
  /\ activeClaim \in [Session -> Claim \cup {None}]
  /\ claim \in [Claim -> ClaimRecord]
  /\ handoff \in [Handoff -> HandoffRecord]
  /\ candidate \in [Candidate -> CandidateRecord]
  /\ published \in Seq(Candidate)
  /\ resolution \in Candidate \cup {None}

Init ==
  /\ lastReceived = 0
  /\ notAfter = [s \in Session |-> 0]
  /\ activeClaim = [s \in Session |-> None]
  /\ claim = [c \in Claim |-> NoClaim]
  /\ handoff = [h \in Handoff |-> NoHandoff]
  /\ candidate = [k \in Candidate |-> NoCandidate]
  /\ published = << >>
  /\ resolution = None

-----------------------------------------------------------------------------
(* What the state means at time t. *)

\* A claim that is still open for its owner shows as stale after a period
\* without heartbeat, and as expired once its deadline is reached.
StatusAt(c, t) ==
  IF claim[c].status # "active" THEN claim[c].status
  ELSE IF t >= claim[c].deadline THEN "expired"
  ELSE IF t - claim[c].lastActivity >= StaleAfter THEN "stale"
  ELSE "active"

OpenAt(c, t) == StatusAt(c, t) \in {"active", "stale"}

\* session["active_claim"] as _authorize reads it: an expired claim no longer
\* occupies its session.
UsableClaimIgnoringExpiry(s, t) == activeClaim[s]   \* mutant

UsableClaim(s, t) ==
  IF activeClaim[s] # None /\ StatusAt(activeClaim[s], t) = "expired"
  THEN None
  ELSE activeClaim[s]

Statuses == {candidate[k].status : k \in Candidate}

ProblemStatus ==
  IF resolution # None THEN "SOLVED"
  ELSE IF "APPROVED" \in Statuses THEN "ACCEPTANCE_RECORDED"
  ELSE IF "REVIEW_PENDING" \in Statuses THEN "REVIEW_PENDING"
  ELSE IF "VERIFICATION_PENDING" \in Statuses THEN "VERIFICATION_PENDING"
  ELSE IF "CANDIDATE_READY" \in Statuses THEN "CANDIDATE_READY"
  ELSE IF Statuses \cap {"REJECTED", "PARTIAL_AWARD"} # {} THEN "OPEN_AFTER_FEEDBACK"
  ELSE "OPEN"

-----------------------------------------------------------------------------
(* Guards shared by the events. *)

\* A local append refuses a clock behind the last event, a remote one is
\* clamped to it: either way receipt times never go back.
ReceivedAt(now) ==
  /\ now \in lastReceived..MaxTime
  /\ lastReceived' = now

\* The actor is the key of a session that has started and not ended.
ActiveSession(s, now) == notAfter[s] > now

OwnsOpenClaim(s, c, now) ==
  /\ ActiveSession(s, now)
  /\ claim[c].session = s
  /\ OpenAt(c, now)

-----------------------------------------------------------------------------
(* Participant events: Workspace._authorize and _state_from. *)

StartSession(s, expiry, remote, now) ==
  /\ ReceivedAt(now)
  /\ notAfter[s] = 0
  /\ expiry > now
  /\ remote => expiry <= now + MaxLifetime
  /\ notAfter' = [notAfter EXCEPT ![s] = expiry]
  /\ UNCHANGED <<activeClaim, claim, handoff, candidate, published, resolution>>

LeaseEnd(now, opened) ==
  LET absolute == opened + AbsoluteLease
  IN  IF now + Lease <= absolute THEN now + Lease ELSE absolute

OpenClaim(s, c, now) ==
  /\ claim' = [claim EXCEPT ![c] =
       [status |-> "active", session |-> s, opened |-> now,
        lastActivity |-> now, deadline |-> LeaseEnd(now, now), renewals |-> 0]]
  /\ activeClaim' = [activeClaim EXCEPT ![s] = c]
  /\ UNCHANGED <<notAfter, handoff, candidate, published, resolution>>

\* Mutant: a resolved case still hands out work.
ClaimWorkWhenSolved(s, c, now) ==
  /\ ReceivedAt(now)
  /\ ActiveSession(s, now)
  /\ UsableClaim(s, now) = None
  /\ claim[c].status = "absent"
  /\ OpenClaim(s, c, now)

ClaimWork(s, c, now) ==
  /\ ReceivedAt(now)
  /\ ActiveSession(s, now)
  /\ ProblemStatus # "SOLVED"
  /\ UsableClaim(s, now) = None
  /\ claim[c].status = "absent"
  /\ OpenClaim(s, c, now)

Renew(c, now) ==
  /\ claim' = [claim EXCEPT ![c].renewals = @ + 1,
                            ![c].lastActivity = now,
                            ![c].deadline = LeaseEnd(now, claim[c].opened)]
  /\ UNCHANGED <<notAfter, activeClaim, handoff, candidate, published, resolution>>

\* Mutant: one renewal more than the configured number.
HeartbeatOnceMore(s, c, now) ==
  /\ ReceivedAt(now)
  /\ OwnsOpenClaim(s, c, now)
  /\ claim[c].renewals <= MaxRenewals
  /\ now < claim[c].opened + AbsoluteLease
  /\ Renew(c, now)

Heartbeat(s, c, now) ==
  /\ ReceivedAt(now)
  /\ OwnsOpenClaim(s, c, now)
  /\ claim[c].renewals < MaxRenewals
  /\ now < claim[c].opened + AbsoluteLease
  /\ Renew(c, now)

\* Checkpoints and messages are texts the ledger keeps and no rule reads; in
\* particular a checkpoint does not renew the lease.
PublishCheckpoint(s, c, now) ==
  /\ ReceivedAt(now)
  /\ OwnsOpenClaim(s, c, now)
  /\ UNCHANGED <<notAfter, activeClaim, claim, handoff, candidate, published, resolution>>

PostMessage(s, c, now) ==
  /\ ReceivedAt(now)
  /\ ActiveSession(s, now)
  /\ c # None => claim[c].status # "absent"
  /\ UNCHANGED <<notAfter, activeClaim, claim, handoff, candidate, published, resolution>>

ReleaseClaim(s, c, now) ==
  /\ ReceivedAt(now)
  /\ OwnsOpenClaim(s, c, now)
  /\ claim' = [claim EXCEPT ![c].status = "released"]
  /\ activeClaim' = [activeClaim EXCEPT ![s] = None]
  /\ UNCHANGED <<notAfter, handoff, candidate, published, resolution>>

Recorded == {h \in Handoff : handoff[h].outcome # "absent"}

\* The handoff closes the claim, whatever its outcome; the outcome and the
\* provenance ask for evidence or for an earlier handoff to rest on.
CloseWithHandoff(s, c, h) ==
  \E outcome \in Outcome, provenance \in Provenance,
     evidence \in SUBSET Artifact, dependsOn \in SUBSET Recorded :
    /\ outcome \in {"ADVANCE", "NEGATIVE"} => evidence # {}
    /\ outcome = "BLOCKED" => evidence # {} \/ dependsOn # {}
    /\ provenance = "original" => evidence # {}
    /\ handoff' = [handoff EXCEPT ![h] =
         [outcome |-> outcome, claim |-> c, evidence |-> evidence,
          dependsOn |-> dependsOn]]
    /\ claim' = [claim EXCEPT ![c].status = "completed"]
    /\ activeClaim' = [activeClaim EXCEPT ![s] = None]
    /\ UNCHANGED <<notAfter, candidate, published, resolution>>

\* Mutant: the handoff does not look at the claim's lease again.
HandoffOnOwnedClaim(s, c, h, now) ==
  /\ ReceivedAt(now)
  /\ ActiveSession(s, now)
  /\ claim[c].session = s
  /\ handoff[h].outcome = "absent"
  /\ CloseWithHandoff(s, c, h)

\* Mutant: a handoff id may be published again.
HandoffRepublished(s, c, h, now) ==
  /\ ReceivedAt(now)
  /\ OwnsOpenClaim(s, c, now)
  /\ CloseWithHandoff(s, c, h)

PublishHandoff(s, c, h, now) ==
  /\ ReceivedAt(now)
  /\ OwnsOpenClaim(s, c, now)
  /\ handoff[h].outcome = "absent"
  /\ CloseWithHandoff(s, c, h)

\* An artifact stands for one digest with the reference it is cited under.
SealCandidate(k, a, linked) ==
  /\ candidate' = [candidate EXCEPT ![k] =
       [NoCandidate EXCEPT !.status = "CANDIDATE_READY", !.artifact = a,
                           !.handoffs = linked]]
  /\ published' = Append(published, k)
  /\ UNCHANGED <<notAfter, activeClaim, claim, handoff, resolution>>

\* Mutant: the artifact may come from any recorded handoff.
PublishUnlinkedCandidate(s, k, a, now) ==
  /\ ReceivedAt(now)
  /\ ActiveSession(s, now)
  /\ ProblemStatus # "SOLVED"
  /\ candidate[k].status = "absent"
  /\ \A j \in Candidate : candidate[j].artifact # a
  /\ \E h \in Recorded : a \in handoff[h].evidence
  /\ \E linked \in SUBSET Recorded :
       /\ linked # {}
       /\ \A h \in linked : handoff[h].outcome = "ADVANCE"
       /\ SealCandidate(k, a, linked)

PublishCandidate(s, k, a, now) ==
  /\ ReceivedAt(now)
  /\ ActiveSession(s, now)
  /\ ProblemStatus # "SOLVED"
  /\ candidate[k].status = "absent"
  /\ \A j \in Candidate : candidate[j].artifact # a
  /\ \E linked \in SUBSET Recorded :
       /\ linked # {}
       /\ \A h \in linked : handoff[h].outcome = "ADVANCE"
       /\ \E h \in linked : a \in handoff[h].evidence
       /\ SealCandidate(k, a, linked)

-----------------------------------------------------------------------------
(* Maintainer events: Workspace._authorize_maintainer and _state_from.     *)
(* Each names a candidate, its sealed artifact and its submission.         *)

BoundSubmissions == {candidate[k].submission : k \in Candidate} \ {None}

BindSubmission(k, sub) ==
  /\ candidate' = [candidate EXCEPT ![k].submission = sub,
                                    ![k].status = "VERIFICATION_PENDING"]
  /\ UNCHANGED <<notAfter, activeClaim, claim, handoff, published, resolution>>

\* Mutant: an acceptance that is not finalized yet does not block.
ReceiptDespiteAcceptance(k, sub, now) ==
  /\ ReceivedAt(now)
  /\ candidate[k].submission = None
  /\ candidate[k].status = "CANDIDATE_READY"
  /\ ProblemStatus \notin {"VERIFICATION_PENDING", "REVIEW_PENDING", "SOLVED"}
  /\ sub \notin BoundSubmissions
  /\ BindSubmission(k, sub)

\* Mutant: an external submission id may be receipted for two candidates.
ReceiptReusedSubmission(k, sub, now) ==
  /\ ReceivedAt(now)
  /\ candidate[k].submission = None
  /\ candidate[k].status = "CANDIDATE_READY"
  /\ ProblemStatus \notin
       {"VERIFICATION_PENDING", "REVIEW_PENDING", "ACCEPTANCE_RECORDED", "SOLVED"}
  /\ BindSubmission(k, sub)

ReceiptSubmission(k, sub, now) ==
  /\ ReceivedAt(now)
  /\ candidate[k].submission = None
  /\ candidate[k].status = "CANDIDATE_READY"
  /\ ProblemStatus \notin
       {"VERIFICATION_PENDING", "REVIEW_PENDING", "ACCEPTANCE_RECORDED", "SOLVED"}
  /\ sub \notin BoundSubmissions
  /\ BindSubmission(k, sub)

RecordVerifier(k, decision, now) ==
  /\ ReceivedAt(now)
  /\ candidate[k].submission # None
  /\ candidate[k].status = "VERIFICATION_PENDING"
  /\ candidate' = [candidate EXCEPT
       ![k].verifier = decision,
       ![k].status = IF decision = "VERIFIED" THEN "REVIEW_PENDING" ELSE "REJECTED"]
  /\ UNCHANGED <<notAfter, activeClaim, claim, handoff, published, resolution>>

RecordReview(k, decision, now) ==
  /\ ReceivedAt(now)
  /\ candidate[k].submission # None
  /\ candidate[k].status = "REVIEW_PENDING"
  /\ candidate' = [candidate EXCEPT ![k].review = decision, ![k].status = decision]
  /\ UNCHANGED <<notAfter, activeClaim, claim, handoff, published, resolution>>

\* Mutant: an ineligible candidate is sent back as rejected.
RewardRewritesStatus(k, decision, now) ==
  /\ ReceivedAt(now)
  /\ candidate[k].submission # None
  /\ candidate[k].status \in {"APPROVED", "REJECTED", "PARTIAL_AWARD"}
  /\ candidate[k].reward = None
  /\ candidate' = [candidate EXCEPT
       ![k].reward = decision,
       ![k].status = IF decision = "INELIGIBLE" THEN "REJECTED" ELSE @]
  /\ UNCHANGED <<notAfter, activeClaim, claim, handoff, published, resolution>>

RecordReward(k, decision, now) ==
  /\ ReceivedAt(now)
  /\ candidate[k].submission # None
  /\ candidate[k].status \in {"APPROVED", "REJECTED", "PARTIAL_AWARD"}
  /\ candidate[k].reward = None
  /\ candidate' = [candidate EXCEPT ![k].reward = decision]
  /\ UNCHANGED <<notAfter, activeClaim, claim, handoff, published, resolution>>

\* Mutant: any award a human review made finalizes the case.
ResolveAwarded(k, now) ==
  /\ ReceivedAt(now)
  /\ candidate[k].submission # None
  /\ candidate[k].status \in {"APPROVED", "PARTIAL_AWARD"}
  /\ candidate[k].review # None
  /\ resolution = None
  /\ resolution' = k
  /\ UNCHANGED <<notAfter, activeClaim, claim, handoff, candidate, published>>

\* The request names the approved review event of the candidate.
ResolveCase(k, now) ==
  /\ ReceivedAt(now)
  /\ candidate[k].submission # None
  /\ candidate[k].status = "APPROVED"
  /\ candidate[k].review # None
  /\ resolution = None
  /\ resolution' = k
  /\ UNCHANGED <<notAfter, activeClaim, claim, handoff, candidate, published>>

-----------------------------------------------------------------------------
Clock == lastReceived..MaxTime

SessionStep(s) ==
  \E now \in Clock :
    \/ \E expiry \in 1..(MaxTime + 1), remote \in BOOLEAN :
         StartSession(s, expiry, remote, now)
    \/ \E c \in Claim \cup {None} : PostMessage(s, c, now)

ClaimStep(s, c) ==
  \E now \in Clock :
    \/ ClaimWork(s, c, now)
    \/ Heartbeat(s, c, now)
    \/ PublishCheckpoint(s, c, now)
    \/ ReleaseClaim(s, c, now)
    \/ \E h \in Handoff : PublishHandoff(s, c, h, now)

CandidateStep(k) ==
  \E now \in Clock :
    \/ \E s \in Session, a \in Artifact : PublishCandidate(s, k, a, now)
    \/ \E sub \in Submission : ReceiptSubmission(k, sub, now)
    \/ \E decision \in VerifierDecision : RecordVerifier(k, decision, now)
    \/ \E decision \in ReviewDecision : RecordReview(k, decision, now)
    \/ \E decision \in RewardDecision : RecordReward(k, decision, now)
    \/ ResolveCase(k, now)

Next ==
  \/ \E s \in Session : SessionStep(s)
  \/ \E s \in Session, c \in Claim : ClaimStep(s, c)
  \/ \E k \in Candidate : CandidateStep(k)

Spec == Init /\ [][Next]_vars

-----------------------------------------------------------------------------
(* What _research_resume tells the next agent.                             *)

WithStatus(statuses) == {k \in Candidate : candidate[k].status \in statuses}

\* The candidates one of which the recommendation is about.
ResumeGroup ==
  CASE ProblemStatus = "OPEN" -> {}
    [] ProblemStatus \in {"ACCEPTANCE_RECORDED", "SOLVED"} -> WithStatus({"APPROVED"})
    [] ProblemStatus = "OPEN_AFTER_FEEDBACK" ->
         WithStatus({"REJECTED", "PARTIAL_AWARD"})
    [] OTHER -> WithStatus({ProblemStatus})

LastPublished(S) ==
  LET at == CHOOSE i \in DOMAIN published :
              /\ published[i] \in S
              /\ \A j \in DOMAIN published : published[j] \in S => j <= i
  IN  published[at]

\* The recommended action with the feedback it rests on.
ResearchResume ==
  LET k == LastPublished(ResumeGroup)
  IN  CASE ProblemStatus = "OPEN" ->
             [action |-> "START_OR_RESUME_RESEARCH", candidate |-> None,
              feedback |-> None]
        [] ProblemStatus = "CANDIDATE_READY" ->
             [action |-> "AWAIT_EXTERNAL_SUBMISSION", candidate |-> k,
              feedback |-> None]
        [] ProblemStatus = "VERIFICATION_PENDING" ->
             [action |-> "AWAIT_OFFICIAL_FEEDBACK", candidate |-> k,
              feedback |-> None]
        [] ProblemStatus = "REVIEW_PENDING" ->
             [action |-> "AWAIT_OFFICIAL_FEEDBACK", candidate |-> k,
              feedback |-> candidate[k].verifier]
        [] ProblemStatus = "ACCEPTANCE_RECORDED" ->
             [action |-> "AWAIT_TRUSTED_CLERK_FINALIZATION", candidate |-> k,
              feedback |-> candidate[k].review]
        [] ProblemStatus = "SOLVED" ->
             [action |-> "STOP_RESEARCH_PRESERVE_EVIDENCE", candidate |-> k,
              feedback |-> candidate[k].review]
        [] ProblemStatus = "OPEN_AFTER_FEEDBACK" ->
             [action |-> "CONTINUE_RESEARCH_FROM_FEEDBACK", candidate |-> k,
              feedback |-> IF candidate[k].review # None THEN candidate[k].review
                           ELSE candidate[k].verifier]

-----------------------------------------------------------------------------
(* Safety. *)

\* A session's usable claim is exactly the one claim of its own that is open:
\* no session works on two open claims, and none is refused new work because
\* of a claim it can no longer work on.  (_authorize, work_claimed, against
\* the expiry loop at the end of _state_from.)
ActiveClaimExact ==
  \A s \in Session : \A t \in Clock : \A c \in Claim :
    UsableClaim(s, t) = c <=> claim[c].session = s /\ OpenAt(c, t)

\* However often its owner renews it, a claim ends at its absolute deadline
\* and within one lease per granted renewal, and it was renewed only while
\* the lease before was still running.
LeaseBounded ==
  \A c \in Claim : claim[c].status # "absent" =>
    /\ claim[c].renewals <= MaxRenewals
    /\ claim[c].opened <= claim[c].lastActivity
    /\ claim[c].lastActivity <= lastReceived
    /\ claim[c].lastActivity < claim[c].deadline
    /\ claim[c].deadline <= claim[c].opened + AbsoluteLease
    /\ claim[c].deadline <= claim[c].opened + (claim[c].renewals + 1) * Lease

\* A claim is completed if and only if a handoff closed it, and then exactly
\* one: no result is ever attributed to two claims or lost from its claim.
HandoffClosesClaim ==
  /\ \A c \in Claim :
       claim[c].status = "completed" <=> \E h \in Recorded : handoff[h].claim = c
  /\ \A g, h \in Recorded : handoff[g].claim = handoff[h].claim => g = h

\* Following dependencies from any handoff ends: every set of handoffs has
\* one that depends on none of the set.  (Ids are unique and dependencies
\* refer to earlier handoffs only.)
DependenciesWellFounded ==
  /\ \A h \in Recorded : handoff[h].dependsOn \subseteq Recorded
  /\ \A S \in SUBSET Recorded : S # {} =>
       \E h \in S : handoff[h].dependsOn \cap S = {}

\* The case's handoffs close its claims one to one and build on each other.
HandoffGraph == HandoffClosesClaim /\ DependenciesWellFounded

\* What a candidate seals was evidence of an ADVANCE handoff it links, which
\* closed a claim of the case, and no artifact is sealed twice.
SealedFromEvidence ==
  \A k \in Candidate : candidate[k].status # "absent" =>
    /\ \E h \in candidate[k].handoffs :
         /\ handoff[h].outcome = "ADVANCE"
         /\ candidate[k].artifact \in handoff[h].evidence
         /\ claim[handoff[h].claim].status = "completed"
    /\ \A j \in Candidate : candidate[j].artifact = candidate[k].artifact => j = k

\* An external submission is about one candidate only.
SubmissionInjective ==
  \A j, k \in Candidate :
    candidate[j].submission # None /\ candidate[j].submission = candidate[k].submission
      => j = k

\* "The maintainer records at most one live external submission at a time":
\* from its receipt until it is turned down or the case is resolved.
Live == WithStatus({"VERIFICATION_PENDING", "REVIEW_PENDING", "APPROVED"})

OneLiveSubmission == \A j, k \in Live : j = k

\* The status of a candidate is the one its feedback adds up to, in the
\* order submission, verifier, review, reward.
VerdictInOrder(r) ==
  /\ r.status \in {"absent", "CANDIDATE_READY"} <=> r.submission = None
  /\ r.status = "VERIFICATION_PENDING" <=> r.submission # None /\ r.verifier = None
  /\ r.status = "REVIEW_PENDING" <=> r.verifier = "VERIFIED" /\ r.review = None
  /\ r.review # None => r.verifier = "VERIFIED" /\ r.status = r.review
  /\ r.verifier = "REJECTED" => r.review = None /\ r.status = "REJECTED"
  /\ r.reward # None => r.status \in {"APPROVED", "REJECTED", "PARTIAL_AWARD"}

\* No candidate carries a verdict its earlier stages do not support.
VerdictsInOrder == \A k \in Candidate : VerdictInOrder(candidate[k])

\* A resolved case rests on the approved review of the submission it names.
ResolutionReviewed ==
  resolution # None =>
    /\ candidate[resolution].status = "APPROVED"
    /\ candidate[resolution].review = "APPROVED"
    /\ candidate[resolution].verifier = "VERIFIED"

\* _research_resume always has a candidate to name (its next(...) finds one)
\* and the feedback it passes on is the one its action is about.
ResumeDefined ==
  /\ ProblemStatus # "OPEN" =>
       \E i \in DOMAIN published : published[i] \in ResumeGroup
  /\ ProblemStatus \notin {"OPEN", "CANDIDATE_READY"} =>
       \A k \in ResumeGroup : candidate[k].submission # None
  /\ CASE ResearchResume.action = "CONTINUE_RESEARCH_FROM_FEEDBACK" ->
             ResearchResume.feedback \in {"REJECTED", "PARTIAL_AWARD"}
        [] ResearchResume.action \in
             {"STOP_RESEARCH_PRESERVE_EVIDENCE", "AWAIT_TRUSTED_CLERK_FINALIZATION"} ->
             ResearchResume.feedback = "APPROVED"
        [] OTHER -> ResearchResume.feedback \in {None, "VERIFIED"}

\* A claim that is released, completed or expired stays that way: no event
\* revives it, late handoffs and heartbeats of its owner included.
ClaimEndIsFinal ==
  [][\A c \in Claim :
       StatusAt(c, lastReceived) \in {"released", "completed", "expired"} =>
         StatusAt(c, lastReceived)' = StatusAt(c, lastReceived)]_vars

\* An official acceptance is never taken back: from there the case can only
\* be resolved, and a resolved case stays resolved.
AcceptanceIsFinal ==
  [][/\ ProblemStatus = "ACCEPTANCE_RECORDED" =>
          ProblemStatus' \in {"ACCEPTANCE_RECORDED", "SOLVED"}
     /\ ProblemStatus = "SOLVED" => ProblemStatus' = "SOLVED"]_vars

\* What the status of the case says of the submission at hand.
ReviewStage ==
  CASE ProblemStatus = "VERIFICATION_PENDING" -> "verifying"
    [] ProblemStatus = "REVIEW_PENDING"       -> "reviewing"
    [] ProblemStatus = "ACCEPTANCE_RECORDED"  -> "accepted"
    [] ProblemStatus = "SOLVED"               -> "solved"
    [] OTHER                                  -> "idle"

Official == INSTANCE OfficialReview WITH
  seen   <- BoundSubmissions,
  atHand <- {candidate[k].submission : k \in Live},
  stage  <- ReviewStage

\* The status derived from all candidates is that of one official review at a
\* time: no other candidate hides, revives or overtakes it.
ImplementsOfficialReview == Official!Spec

\* "Only finalized SOLVED blocks new claims and candidates", and it does.
SolvedCloses ==
  [][ProblemStatus = "SOLVED" =>
       /\ published' = published
       /\ \A c \in Claim : claim[c].status = "absent" => claim'[c].status = "absent"]_vars

\* What the error message of the reward stage says: "reward feedback requires
\* a completed human review".
RewardAfterReview ==
  \A k \in Candidate : candidate[k].reward # None => candidate[k].review # None

=============================================================================
