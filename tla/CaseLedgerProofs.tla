-------------------------- MODULE CaseLedgerProofs --------------------------
(* Proofs about CaseLedger for every set of identifiers and every admitted *)
(* lease configuration.                                                    *)
EXTENDS CaseLedger, WellFoundedInduction, TLAPS

(***************************************************************************)
(* Operators of the model.                                                 *)
(***************************************************************************)

\* A claim is open, stale or not, exactly while it is active and its deadline
\* is ahead (the last loop of _state_from).
LEMMA OpenWhileLeased ==
  ASSUME TypeOK, NEW c \in Claim, NEW t \in Int
  PROVE  OpenAt(c, t) <=> claim[c].status = "active" /\ t < claim[c].deadline
<1>1. /\ claim[c].status \in {"absent", "active", "released", "completed"}
      /\ claim[c].deadline \in Nat
      /\ claim[c].lastActivity \in Nat
  BY DEF TypeOK, ClaimRecord
<1>2. CASE claim[c].status # "active"
  BY <1>1, <1>2 DEF OpenAt, StatusAt
<1>3. CASE claim[c].status = "active" /\ t >= claim[c].deadline
  BY <1>1, <1>3 DEF OpenAt, StatusAt
<1>4. CASE claim[c].status = "active" /\ t < claim[c].deadline
  BY <1>1, <1>4 DEF OpenAt, StatusAt
<1>5. QED
  BY <1>1, <1>2, <1>3, <1>4

\* A claim shows as expired exactly when it is active past its deadline.
LEMMA ExpiredPastDeadline ==
  ASSUME TypeOK, NEW c \in Claim, NEW t \in Int
  PROVE  StatusAt(c, t) = "expired" <=>
           claim[c].status = "active" /\ t >= claim[c].deadline
  BY DEF TypeOK, ClaimRecord, StatusAt

\* The end of a lease that starts at now for a claim opened earlier.
LEMMA LeaseEndBounds ==
  ASSUME NEW now \in Nat, NEW opened \in Nat
  PROVE  /\ LeaseEnd(now, opened) \in Nat
         /\ LeaseEnd(now, opened) <= opened + AbsoluteLease
         /\ LeaseEnd(now, opened) <= now + Lease
         /\ now < opened + AbsoluteLease => now < LeaseEnd(now, opened)
  BY LeaseAssumption DEF LeaseEnd

\* Renewing a claim gives a claim again.
LEMMA RenewedRecord ==
  ASSUME NEW r \in ClaimRecord, NEW now \in Nat, NEW end \in Nat, NEW n \in Nat
  PROVE  [r EXCEPT !.renewals = n, !.lastActivity = now, !.deadline = end]
           \in ClaimRecord
  BY DEF ClaimRecord

(***************************************************************************)
(* Type correctness.                                                       *)
(***************************************************************************)

LEMMA TypePreserved ==
  ASSUME TypeOK, [Next]_vars
  PROVE  TypeOK'
<1>1. ASSUME NEW s \in Session, NEW now \in Clock, NEW expiry \in 1..(MaxTime + 1),
             NEW remote \in BOOLEAN, StartSession(s, expiry, remote, now)
      PROVE  TypeOK'
  BY <1>1, TimeAssumption DEF TypeOK, StartSession, ReceivedAt, Clock
<1>2. ASSUME NEW s \in Session, NEW now \in Clock, NEW c \in Claim \cup {None},
             PostMessage(s, c, now)
      PROVE  TypeOK'
  BY <1>2, TimeAssumption DEF TypeOK, PostMessage, ReceivedAt, Clock
<1>3. ASSUME NEW s \in Session, NEW c \in Claim, NEW now \in Clock,
             ClaimWork(s, c, now)
      PROVE  TypeOK'
  <2>1. now \in Nat
    BY TimeAssumption DEF Clock, TypeOK
  <2>2. LeaseEnd(now, now) \in Nat
    BY <2>1, LeaseEndBounds
  <2>3. QED
    BY <1>3, <2>1, <2>2, TimeAssumption
       DEF TypeOK, ClaimWork, OpenClaim, ReceivedAt, ClaimRecord
<1>4. ASSUME NEW s \in Session, NEW c \in Claim, NEW now \in Clock,
             Heartbeat(s, c, now)
      PROVE  TypeOK'
  <2>1. now \in Nat /\ claim[c] \in ClaimRecord
    BY TimeAssumption DEF Clock, TypeOK
  <2>2. LeaseEnd(now, claim[c].opened) \in Nat
    BY <2>1, LeaseEndBounds DEF ClaimRecord
  <2>3. claim' \in [Claim -> ClaimRecord]
    <3>1. claim' = [claim EXCEPT ![c] =
                      [claim[c] EXCEPT !.renewals = claim[c].renewals + 1,
                                       !.lastActivity = now,
                                       !.deadline = LeaseEnd(now, claim[c].opened)]]
      BY <1>4 DEF Heartbeat, Renew
    <3>2. [claim[c] EXCEPT !.renewals = claim[c].renewals + 1,
                           !.lastActivity = now,
                           !.deadline = LeaseEnd(now, claim[c].opened)]
            \in ClaimRecord
      <4>1. claim[c].renewals + 1 \in Nat
        BY <2>1 DEF ClaimRecord
      <4>2. QED
        BY <2>1, <2>2, <4>1, RenewedRecord
    <3>3. QED
      BY <3>1, <3>2 DEF TypeOK
  <2>4. QED
    BY <1>4, <2>1, <2>3 DEF TypeOK, Heartbeat, Renew, ReceivedAt
<1>5. ASSUME NEW s \in Session, NEW c \in Claim, NEW now \in Clock,
             PublishCheckpoint(s, c, now)
      PROVE  TypeOK'
  BY <1>5, TimeAssumption DEF TypeOK, PublishCheckpoint, ReceivedAt, Clock
<1>6. ASSUME NEW s \in Session, NEW c \in Claim, NEW now \in Clock,
             ReleaseClaim(s, c, now)
      PROVE  TypeOK'
  <2>1. [claim[c] EXCEPT !.status = "released"] \in ClaimRecord
    BY DEF TypeOK, ClaimRecord
  <2>2. claim' = [claim EXCEPT ![c] = [claim[c] EXCEPT !.status = "released"]]
    BY <1>6 DEF ReleaseClaim
  <2>3. QED
    BY <1>6, <2>1, <2>2, TimeAssumption DEF TypeOK, ReleaseClaim, ReceivedAt, Clock
<1>7. ASSUME NEW s \in Session, NEW c \in Claim, NEW now \in Clock,
             NEW h \in Handoff, PublishHandoff(s, c, h, now)
      PROVE  TypeOK'
  <2>1. [claim[c] EXCEPT !.status = "completed"] \in ClaimRecord
    BY DEF TypeOK, ClaimRecord
  <2>2. claim' = [claim EXCEPT ![c] = [claim[c] EXCEPT !.status = "completed"]]
    BY <1>7 DEF PublishHandoff, CloseWithHandoff
  <2>3. PICK r \in HandoffRecord : handoff' = [handoff EXCEPT ![h] = r]
    BY <1>7 DEF PublishHandoff, CloseWithHandoff, HandoffRecord, Recorded
  <2>4. QED
    BY <1>7, <2>1, <2>2, <2>3, TimeAssumption
       DEF TypeOK, PublishHandoff, CloseWithHandoff, ReceivedAt, Clock
<1>8. ASSUME NEW s \in Session, NEW k \in Candidate, NEW now \in Clock,
             NEW a \in Artifact, PublishCandidate(s, k, a, now)
      PROVE  TypeOK'
  <2>1. PICK r \in CandidateRecord : candidate' = [candidate EXCEPT ![k] = r]
    BY <1>8 DEF PublishCandidate, SealCandidate, NoCandidate, CandidateRecord,
                CandidateStatus, Recorded
  <2>2. QED
    BY <1>8, <2>1, TimeAssumption
       DEF TypeOK, PublishCandidate, SealCandidate, ReceivedAt, Clock
<1>9. ASSUME NEW k \in Candidate, NEW now \in Clock, NEW sub \in Submission,
             ReceiptSubmission(k, sub, now)
      PROVE  TypeOK'
  BY <1>9, TimeAssumption
     DEF TypeOK, ReceiptSubmission, BindSubmission, ReceivedAt,
         CandidateRecord, CandidateStatus, Clock
<1>10. ASSUME NEW k \in Candidate, NEW now \in Clock,
             NEW decision \in VerifierDecision, RecordVerifier(k, decision, now)
      PROVE  TypeOK'
  BY <1>10, TimeAssumption
     DEF TypeOK, RecordVerifier, ReceivedAt, CandidateRecord, CandidateStatus, Clock
<1>11. ASSUME NEW k \in Candidate, NEW now \in Clock,
              NEW decision \in ReviewDecision, RecordReview(k, decision, now)
       PROVE  TypeOK'
  BY <1>11, TimeAssumption
     DEF TypeOK, RecordReview, ReceivedAt, CandidateRecord, CandidateStatus,
         ReviewDecision, Clock
<1>12. ASSUME NEW k \in Candidate, NEW now \in Clock,
              NEW decision \in RewardDecision, RecordReward(k, decision, now)
       PROVE  TypeOK'
  <2>1. [candidate[k] EXCEPT !.reward = decision] \in CandidateRecord
    BY DEF TypeOK, CandidateRecord
  <2>2. candidate' = [candidate EXCEPT ![k] = [candidate[k] EXCEPT !.reward = decision]]
    BY <1>12 DEF RecordReward
  <2>3. QED
    BY <1>12, <2>1, <2>2, TimeAssumption DEF TypeOK, RecordReward, ReceivedAt, Clock
<1>13. ASSUME NEW k \in Candidate, NEW now \in Clock, ResolveCase(k, now)
       PROVE  TypeOK'
  BY <1>13, TimeAssumption DEF TypeOK, ResolveCase, ReceivedAt, Clock
<1>14. CASE UNCHANGED vars
  BY <1>14 DEF vars, TypeOK
<1>15. QED
  BY <1>1, <1>2, <1>3, <1>4, <1>5, <1>6, <1>7, <1>8, <1>9, <1>10, <1>11, <1>12, <1>13, <1>14
     DEF Next, SessionStep, ClaimStep, CandidateStep

\* Every operation leaves the ledger well-typed: a deadline stays a time, a
\* status one of the named ones, whatever was recorded before.
THEOREM TypeCorrect == Spec => []TypeOK
<1>1. Init => TypeOK
  BY DEF Init, TypeOK, NoClaim, ClaimRecord, NoHandoff, HandoffRecord,
         NoCandidate, CandidateRecord, CandidateStatus
<1>2. QED
  BY <1>1, TypePreserved, PTL DEF Spec

(***************************************************************************)
(* Which claim occupies a session.                                         *)
(*                                                                         *)
(* ActiveClaimExact speaks of claims that are open at the time of the last *)
(* event or later, but the stored active_claim is not cleared when a claim *)
(* expires.  What is inductive is the relation between the stored fields:  *)
(* a session points to one of its own unfinished claims only, and it does  *)
(* point to every one of them whose lease still runs.                      *)
(***************************************************************************)
OccupancyInv ==
  /\ \A s \in Session : activeClaim[s] # None =>
       /\ claim[activeClaim[s]].status = "active"
       /\ claim[activeClaim[s]].session = s
  /\ \A c \in Claim : claim[c].status = "active" =>
       /\ claim[c].session \in Session
       /\ lastReceived < claim[c].deadline => activeClaim[claim[c].session] = c

LEMMA OccupancyInitially == Init => OccupancyInv
  BY DEF Init, OccupancyInv, NoClaim

\* Events that leave the claims alone only let time pass, and a claim whose
\* lease runs at a later time ran before.
LEMMA OccupancyAsTimePasses ==
  ASSUME TypeOK, OccupancyInv, lastReceived' \in Int, lastReceived <= lastReceived',
         UNCHANGED <<activeClaim, claim>>
  PROVE  OccupancyInv'
<1>1. \A c \in Claim : claim[c].deadline \in Nat
  BY DEF TypeOK, ClaimRecord
<1>2. lastReceived \in Nat
  BY DEF TypeOK
<1>3. QED
  BY <1>1, <1>2 DEF OccupancyInv

LEMMA OccupancyClaimWork ==
  ASSUME TypeOK, OccupancyInv, NEW s \in Session, NEW c \in Claim, NEW now \in Clock,
         ClaimWork(s, c, now)
  PROVE  OccupancyInv'
<1>1. /\ now \in Nat /\ lastReceived \in Nat /\ lastReceived <= now
      /\ lastReceived' = now
  BY TimeAssumption DEF ClaimWork, ReceivedAt, Clock, TypeOK
<1>2. /\ claim[c].status = "absent"
      /\ claim'[c].status = "active" /\ claim'[c].session = s
      /\ \A d \in Claim \ {c} : claim'[d] = claim[d]
      /\ activeClaim'[s] = c
      /\ \A r \in Session \ {s} : activeClaim'[r] = activeClaim[r]
  BY DEF ClaimWork, OpenClaim, TypeOK
<1>3. \A r \in Session : activeClaim[r] # None => activeClaim[r] \in Claim \ {c}
  BY <1>2 DEF OccupancyInv, TypeOK
<1>4. \A d \in Claim : claim[d].deadline \in Nat
  BY DEF TypeOK, ClaimRecord
<1>5. ASSUME NEW d \in Claim \ {c}, claim[d].status = "active", now < claim[d].deadline
      PROVE  claim[d].session # s
  <2>1. SUFFICES ASSUME claim[d].session = s
                 PROVE  FALSE
    OBVIOUS
  <2>2. activeClaim[s] = d
    BY <1>1, <1>4, <1>5, <2>1 DEF OccupancyInv
  <2>3. StatusAt(d, now) # "expired"
    BY <1>1, <1>5, ExpiredPastDeadline, <1>4
  <2>4. UsableClaim(s, now) = d
    BY <2>2, <2>3 DEF UsableClaim
  <2>5. QED
    BY <2>4, NoneAssumption DEF ClaimWork
<1>6. QED
  BY <1>1, <1>2, <1>3, <1>4, <1>5 DEF OccupancyInv

LEMMA OccupancyHeartbeat ==
  ASSUME TypeOK, OccupancyInv, NEW s \in Session, NEW c \in Claim, NEW now \in Clock,
         Heartbeat(s, c, now)
  PROVE  OccupancyInv'
<1>1. /\ now \in Nat /\ lastReceived \in Nat /\ lastReceived <= now
      /\ lastReceived' = now
  BY TimeAssumption DEF Heartbeat, ReceivedAt, Clock, TypeOK
<1>2. \A d \in Claim : claim[d].deadline \in Nat
  BY DEF TypeOK, ClaimRecord
<1>3. claim[c].status = "active" /\ now < claim[c].deadline
  BY <1>1, OpenWhileLeased DEF Heartbeat, OwnsOpenClaim
<1>4. /\ \A d \in Claim \ {c} : claim'[d] = claim[d]
      /\ claim'[c].status = claim[c].status /\ claim'[c].session = claim[c].session
      /\ activeClaim' = activeClaim
  BY DEF Heartbeat, Renew, TypeOK, ClaimRecord
<1>5. activeClaim[claim[c].session] = c
  BY <1>1, <1>2, <1>3 DEF OccupancyInv
<1>6. \A d \in Claim : /\ claim'[d].status = claim[d].status
                       /\ claim'[d].session = claim[d].session
  BY <1>4
<1>7. ASSUME NEW r \in Session, activeClaim'[r] # None
      PROVE  claim'[activeClaim'[r]].status = "active" /\ claim'[activeClaim'[r]].session = r
  <2>1. activeClaim[r] \in Claim
    BY <1>4, <1>7 DEF TypeOK
  <2>2. QED
    BY <1>4, <1>6, <1>7, <2>1 DEF OccupancyInv
<1>8. ASSUME NEW d \in Claim, claim'[d].status = "active"
      PROVE  /\ claim'[d].session \in Session
             /\ lastReceived' < claim'[d].deadline => activeClaim'[claim'[d].session] = d
  BY <1>1, <1>2, <1>4, <1>5, <1>6, <1>8 DEF OccupancyInv
<1>9. QED
  BY <1>7, <1>8 DEF OccupancyInv

\* A release and a handoff both free the session and finish its open claim.
LEMMA OccupancyFinish ==
  ASSUME TypeOK, OccupancyInv, NEW s \in Session, NEW c \in Claim, NEW now \in Clock,
         ReceivedAt(now), OwnsOpenClaim(s, c, now),
         NEW status \in {"released", "completed"},
         claim' = [claim EXCEPT ![c].status = status],
         activeClaim' = [activeClaim EXCEPT ![s] = None]
  PROVE  OccupancyInv'
<1>1. /\ now \in Nat /\ lastReceived \in Nat /\ lastReceived <= now
      /\ lastReceived' = now
  BY TimeAssumption DEF ReceivedAt, Clock, TypeOK
<1>2. \A d \in Claim : claim[d].deadline \in Nat
  BY DEF TypeOK, ClaimRecord
<1>3. claim[c].status = "active" /\ claim[c].session = s /\ now < claim[c].deadline
  BY <1>1, OpenWhileLeased DEF OwnsOpenClaim
<1>4. /\ \A d \in Claim \ {c} : claim'[d] = claim[d]
      /\ claim'[c].status = status
      /\ activeClaim'[s] = None
      /\ \A r \in Session \ {s} : activeClaim'[r] = activeClaim[r]
  BY DEF TypeOK, ClaimRecord
<1>5. activeClaim[s] = c
  BY <1>1, <1>2, <1>3 DEF OccupancyInv
<1>6. \A r \in Session \ {s} : activeClaim[r] # None => activeClaim[r] \in Claim \ {c}
  BY <1>3 DEF OccupancyInv, TypeOK
<1>7. \A d \in Claim \ {c} : claim[d].status = "active" /\ now < claim[d].deadline
        => claim[d].session # s
  BY <1>1, <1>2, <1>5 DEF OccupancyInv
<1>8. QED
  BY <1>1, <1>2, <1>3, <1>4, <1>6, <1>7 DEF OccupancyInv

\* An event either is one of the four that change claims or leaves the claims
\* and the sessions' active claims alone; none turns back the time.
LEMMA ClaimSteps ==
  ASSUME TypeOK, Next
  PROVE  \E now \in Clock :
           /\ now \in Nat /\ lastReceived <= now /\ lastReceived' = now
           /\ \/ UNCHANGED <<activeClaim, claim>>
              \/ \E s \in Session, c \in Claim :
                   \/ ClaimWork(s, c, now)
                   \/ Heartbeat(s, c, now)
                   \/ ReleaseClaim(s, c, now)
                   \/ \E h \in Handoff : PublishHandoff(s, c, h, now)
<1>1. \A now \in Clock : now \in Nat /\ lastReceived <= now
  BY TimeAssumption DEF Clock, TypeOK
<1>2. ASSUME NEW s \in Session, SessionStep(s)
      PROVE  \E now \in Clock : lastReceived' = now /\ UNCHANGED <<activeClaim, claim>>
  BY <1>2 DEF SessionStep, StartSession, PostMessage, ReceivedAt
<1>3. ASSUME NEW k \in Candidate, CandidateStep(k)
      PROVE  \E now \in Clock : lastReceived' = now /\ UNCHANGED <<activeClaim, claim>>
  BY <1>3 DEF CandidateStep, PublishCandidate, SealCandidate, ReceiptSubmission,
              BindSubmission, RecordVerifier, RecordReview, RecordReward,
              ResolveCase, ReceivedAt
<1>4. ASSUME NEW s \in Session, NEW c \in Claim, ClaimStep(s, c)
      PROVE  \E now \in Clock :
               /\ lastReceived' = now
               /\ \/ UNCHANGED <<activeClaim, claim>>
                  \/ ClaimWork(s, c, now)
                  \/ Heartbeat(s, c, now)
                  \/ ReleaseClaim(s, c, now)
                  \/ \E h \in Handoff : PublishHandoff(s, c, h, now)
  <2>1. PICK now \in Clock :
          \/ ClaimWork(s, c, now) \/ Heartbeat(s, c, now)
          \/ PublishCheckpoint(s, c, now) \/ ReleaseClaim(s, c, now)
          \/ \E h \in Handoff : PublishHandoff(s, c, h, now)
    BY <1>4 DEF ClaimStep
  <2>2. lastReceived' = now
    BY <2>1 DEF ClaimWork, Heartbeat, PublishCheckpoint, ReleaseClaim,
                PublishHandoff, ReceivedAt
  <2>3. PublishCheckpoint(s, c, now) => UNCHANGED <<activeClaim, claim>>
    BY DEF PublishCheckpoint
  <2>4. QED
    BY <2>1, <2>2, <2>3
<1>5. QED
  BY <1>1, <1>2, <1>3, <1>4 DEF Next

LEMMA OccupancyPreserved ==
  ASSUME TypeOK, OccupancyInv, [Next]_vars
  PROVE  OccupancyInv'
<1>1. CASE UNCHANGED vars
  BY <1>1 DEF OccupancyInv, vars
<1>2. CASE Next
  <2>1. PICK now \in Clock :
           /\ now \in Nat /\ lastReceived <= now /\ lastReceived' = now
           /\ \/ UNCHANGED <<activeClaim, claim>>
              \/ \E s \in Session, c \in Claim :
                   \/ ClaimWork(s, c, now)
                   \/ Heartbeat(s, c, now)
                   \/ ReleaseClaim(s, c, now)
                   \/ \E h \in Handoff : PublishHandoff(s, c, h, now)
    BY <1>2, ClaimSteps
  <2>2. CASE UNCHANGED <<activeClaim, claim>>
    BY <2>1, <2>2, OccupancyAsTimePasses
  <2>3. ASSUME NEW s \in Session, NEW c \in Claim, ReleaseClaim(s, c, now)
        PROVE  OccupancyInv'
    BY <2>3, OccupancyFinish DEF ReleaseClaim
  <2>4. ASSUME NEW s \in Session, NEW c \in Claim, NEW h \in Handoff,
               PublishHandoff(s, c, h, now)
        PROVE  OccupancyInv'
    BY <2>4, OccupancyFinish DEF PublishHandoff, CloseWithHandoff
  <2>5. QED
    BY <2>1, <2>2, <2>3, <2>4, OccupancyClaimWork, OccupancyHeartbeat
<1>3. QED
  BY <1>1, <1>2

\* A session's usable claim is exactly its own open claim, at the time of the
\* last event and whenever the case is looked at later: the expiry of a claim
\* frees its session without an event, and a new claim is never opened beside
\* one that is still open.
THEOREM SessionClaimsExact == Spec => []ActiveClaimExact
<1>1. TypeOK /\ OccupancyInv => ActiveClaimExact
  <2> SUFFICES ASSUME TypeOK, OccupancyInv, NEW s \in Session, NEW t \in Clock,
                      NEW c \in Claim
               PROVE  UsableClaim(s, t) = c <=> claim[c].session = s /\ OpenAt(c, t)
    BY DEF ActiveClaimExact
  <2>1. t \in Nat /\ lastReceived \in Nat /\ lastReceived <= t /\ claim[c].deadline \in Nat
    BY TimeAssumption DEF Clock, TypeOK, ClaimRecord
  <2>2. c # None
    BY NoneAssumption
  <2>3. ASSUME UsableClaim(s, t) = c
        PROVE  claim[c].session = s /\ OpenAt(c, t)
    <3>1. activeClaim[s] = c /\ StatusAt(c, t) # "expired"
      BY <2>2, <2>3 DEF UsableClaim
    <3>2. claim[c].status = "active" /\ claim[c].session = s
      BY <2>2, <3>1 DEF OccupancyInv
    <3>3. QED
      BY <2>1, <3>1, <3>2, ExpiredPastDeadline, OpenWhileLeased
  <2>4. ASSUME claim[c].session = s, OpenAt(c, t)
        PROVE  UsableClaim(s, t) = c
    <3>1. claim[c].status = "active" /\ t < claim[c].deadline
      BY <2>1, <2>4, OpenWhileLeased
    <3>2. activeClaim[s] = c
      BY <2>1, <2>4, <3>1 DEF OccupancyInv
    <3>3. StatusAt(c, t) # "expired"
      BY <2>1, <3>1, ExpiredPastDeadline
    <3>4. QED
      BY <3>2, <3>3 DEF UsableClaim
  <2>5. QED
    BY <2>3, <2>4
<1>2. QED
  BY <1>1, OccupancyInitially, OccupancyPreserved, TypeCorrect, PTL DEF Spec

(***************************************************************************)
(* Leases.                                                                 *)
(***************************************************************************)

LEMMA OneMoreLease ==
  ASSUME NEW n \in Nat
  PROVE  ((n + 1) + 1) * Lease = (n + 1) * Lease + Lease
  BY LeaseAssumption

LEMMA LeaseBoundedPreserved ==
  ASSUME TypeOK, LeaseBounded, [Next]_vars
  PROVE  LeaseBounded'
<1>1. CASE UNCHANGED vars
  BY <1>1 DEF LeaseBounded, vars
<1>2. CASE Next
  <2>1. PICK now \in Clock :
           /\ now \in Nat /\ lastReceived <= now /\ lastReceived' = now
           /\ \/ UNCHANGED <<activeClaim, claim>>
              \/ \E s \in Session, c \in Claim :
                   \/ ClaimWork(s, c, now)
                   \/ Heartbeat(s, c, now)
                   \/ ReleaseClaim(s, c, now)
                   \/ \E h \in Handoff : PublishHandoff(s, c, h, now)
    BY <1>2, ClaimSteps
  <2>2. /\ lastReceived \in Nat
        /\ \A d \in Claim : claim[d].lastActivity \in Nat
    BY DEF TypeOK, ClaimRecord
  <2>3. CASE UNCHANGED <<activeClaim, claim>>
    BY <2>1, <2>2, <2>3 DEF LeaseBounded
  <2>4. ASSUME NEW s \in Session, NEW c \in Claim, ClaimWork(s, c, now)
        PROVE  LeaseBounded'
    <3>1. /\ \A d \in Claim \ {c} : claim'[d] = claim[d]
          /\ claim'[c].opened = now /\ claim'[c].lastActivity = now
          /\ claim'[c].renewals = 0 /\ claim'[c].deadline = LeaseEnd(now, now)
      BY <2>4 DEF ClaimWork, OpenClaim, TypeOK
    <3>2. /\ now < LeaseEnd(now, now)
          /\ LeaseEnd(now, now) <= now + AbsoluteLease
          /\ LeaseEnd(now, now) <= now + (0 + 1) * Lease
      BY <2>1, LeaseEndBounds, LeaseAssumption
    <3>3. QED
      BY <2>1, <2>2, <3>1, <3>2, LeaseAssumption DEF LeaseBounded
  <2>5. ASSUME NEW s \in Session, NEW c \in Claim, Heartbeat(s, c, now)
        PROVE  LeaseBounded'
    <3> DEFINE end == LeaseEnd(now, claim[c].opened)
    <3>1. /\ \A d \in Claim \ {c} : claim'[d] = claim[d]
          /\ claim'[c].status = claim[c].status /\ claim'[c].opened = claim[c].opened
          /\ claim'[c].lastActivity = now
          /\ claim'[c].renewals = claim[c].renewals + 1
          /\ claim'[c].deadline = end
      BY <2>5 DEF Heartbeat, Renew, TypeOK, ClaimRecord
    <3>2. /\ claim[c].opened \in Nat /\ claim[c].renewals \in Nat
          /\ claim[c].deadline \in Nat
      BY DEF TypeOK, ClaimRecord
    <3>3. claim[c].status = "active" /\ now < claim[c].deadline
      BY <2>1, <2>5, OpenWhileLeased DEF Heartbeat, OwnsOpenClaim
    <3>4. /\ claim[c].renewals < MaxRenewals
          /\ now < claim[c].opened + AbsoluteLease
      BY <2>5 DEF Heartbeat
    <3>5. /\ end \in Nat /\ now < end
          /\ end <= claim[c].opened + AbsoluteLease /\ end <= now + Lease
      BY <2>1, <3>2, <3>4, LeaseEndBounds
    <3> HIDE DEF end
    <3>6. end <= claim[c].opened + ((claim[c].renewals + 1) + 1) * Lease
      <4> DEFINE soFar == (claim[c].renewals + 1) * Lease
      <4>1. soFar \in Int /\ claim[c].deadline <= claim[c].opened + soFar
        BY <3>2, <3>3, LeaseAssumption DEF LeaseBounded
      <4>2. ((claim[c].renewals + 1) + 1) * Lease = soFar + Lease
        BY <3>2, OneMoreLease
      <4> HIDE DEF soFar
      <4>3. end <= claim[c].opened + (soFar + Lease)
        BY <2>1, <3>2, <3>3, <3>5, <4>1, LeaseAssumption
      <4>4. QED
        BY <4>2, <4>3
    <3>7. /\ claim[c].opened <= now
          /\ claim[c].renewals + 1 <= MaxRenewals
      BY <2>1, <2>2, <3>2, <3>3, <3>4, LeaseAssumption DEF LeaseBounded
    <3>8. QED
      BY <2>1, <2>2, <3>1, <3>5, <3>6, <3>7 DEF LeaseBounded
  <2>6. ASSUME NEW c \in Claim, NEW status \in {"released", "completed"},
               claim[c].status = "active",
               claim' = [claim EXCEPT ![c].status = status]
        PROVE  LeaseBounded'
    <3>1. \A d \in Claim :
            /\ claim'[d].opened = claim[d].opened
            /\ claim'[d].lastActivity = claim[d].lastActivity
            /\ claim'[d].deadline = claim[d].deadline
            /\ claim'[d].renewals = claim[d].renewals
            /\ claim'[d].status # "absent" => claim[d].status # "absent"
      BY <2>6 DEF TypeOK, ClaimRecord
    <3>2. QED
      BY <2>1, <2>2, <3>1 DEF LeaseBounded
  <2>7. ASSUME NEW s \in Session, NEW c \in Claim,
               ReleaseClaim(s, c, now) \/ \E h \in Handoff : PublishHandoff(s, c, h, now)
        PROVE  LeaseBounded'
    <3>1. claim[c].status = "active"
      BY <2>1, <2>7, OpenWhileLeased DEF ReleaseClaim, PublishHandoff, OwnsOpenClaim
    <3>2. QED
      BY <2>6, <2>7, <3>1 DEF ReleaseClaim, PublishHandoff, CloseWithHandoff
  <2>8. QED
    BY <2>1, <2>3, <2>4, <2>5, <2>7
<1>3. QED
  BY <1>1, <1>2

\* Renewing cannot stretch a lease past the absolute deadline fixed when the
\* claim was opened, nor past one lease per renewal the configuration grants.
THEOREM LeasesBounded == Spec => []LeaseBounded
<1>1. Init => LeaseBounded
  BY DEF Init, LeaseBounded, NoClaim
<1>2. QED
  BY <1>1, LeaseBoundedPreserved, TypeCorrect, PTL DEF Spec

(***************************************************************************)
(* What has ended stays ended.                                             *)
(***************************************************************************)

\* An event leaves alone every claim that was opened before and is not open
\* when the event is received.
LEMMA EndedClaimUntouched ==
  ASSUME TypeOK, Next, NEW d \in Claim, claim[d].status # "absent",
         ~OpenAt(d, lastReceived')
  PROVE  claim'[d] = claim[d]
<1>1. PICK now \in Clock :
           /\ now \in Nat /\ lastReceived <= now /\ lastReceived' = now
           /\ \/ UNCHANGED <<activeClaim, claim>>
              \/ \E s \in Session, c \in Claim :
                   \/ ClaimWork(s, c, now)
                   \/ Heartbeat(s, c, now)
                   \/ ReleaseClaim(s, c, now)
                   \/ \E h \in Handoff : PublishHandoff(s, c, h, now)
  BY ClaimSteps
<1>2. ASSUME NEW s \in Session, NEW c \in Claim, ClaimWork(s, c, now)
      PROVE  claim'[d] = claim[d]
  BY <1>2 DEF ClaimWork, OpenClaim, TypeOK
<1>3. ASSUME NEW s \in Session, NEW c \in Claim, Heartbeat(s, c, now)
      PROVE  claim'[d] = claim[d]
  BY <1>1, <1>3 DEF Heartbeat, OwnsOpenClaim, Renew, TypeOK
<1>4. ASSUME NEW s \in Session, NEW c \in Claim, ReleaseClaim(s, c, now)
      PROVE  claim'[d] = claim[d]
  BY <1>1, <1>4 DEF ReleaseClaim, OwnsOpenClaim, TypeOK
<1>5. ASSUME NEW s \in Session, NEW c \in Claim, NEW h \in Handoff,
             PublishHandoff(s, c, h, now)
      PROVE  claim'[d] = claim[d]
  BY <1>1, <1>5 DEF PublishHandoff, CloseWithHandoff, OwnsOpenClaim, TypeOK
<1>6. QED
  BY <1>1, <1>2, <1>3, <1>4, <1>5

\* No event revives a claim that was released, completed or has expired, and
\* none completes or releases it once its lease has run out.
THEOREM EndedClaimsStayEnded == Spec => ClaimEndIsFinal
<1> DEFINE Final(c) ==
      StatusAt(c, lastReceived) \in {"released", "completed", "expired"} =>
        StatusAt(c, lastReceived)' = StatusAt(c, lastReceived)
<1>1. ASSUME TypeOK, Next, NEW c \in Claim
      PROVE  Final(c)
  <2>1. SUFFICES ASSUME StatusAt(c, lastReceived) \in {"released", "completed", "expired"}
                 PROVE  StatusAt(c, lastReceived)' = StatusAt(c, lastReceived)
    OBVIOUS
  <2>2. /\ lastReceived \in Nat /\ lastReceived' \in Nat
        /\ lastReceived <= lastReceived'
        /\ claim[c].deadline \in Nat
    BY <1>1, ClaimSteps DEF TypeOK, ClaimRecord
  <2>3. \/ claim[c].status \in {"released", "completed"}
        \/ claim[c].status = "active" /\ lastReceived >= claim[c].deadline
    BY <1>1, <2>1, <2>2, ExpiredPastDeadline DEF StatusAt
  <2>4. ~OpenAt(c, lastReceived')
    BY <1>1, <2>2, <2>3, OpenWhileLeased
  <2>5. claim'[c] = claim[c]
    BY <1>1, <2>3, <2>4, EndedClaimUntouched
  <2>6. StatusAt(c, lastReceived)' =
          IF claim[c].status # "active" THEN claim[c].status
          ELSE IF lastReceived' >= claim[c].deadline THEN "expired"
          ELSE IF lastReceived' - claim[c].lastActivity >= StaleAfter THEN "stale"
          ELSE "active"
    BY <2>5 DEF StatusAt
  <2>7. QED
    BY <2>1, <2>2, <2>3, <2>6 DEF StatusAt
<1>2. TypeOK /\ [Next]_vars => [\A c \in Claim : Final(c)]_vars
  BY <1>1
<1>3. QED
  BY <1>2, TypeCorrect, PTL DEF Spec, ClaimEndIsFinal

(***************************************************************************)
(* The four invariants of the maintainer's events hold together: that only *)
(* one submission is live needs the status of each candidate to be the one *)
(* its feedback adds up to, and so does a resolution.                      *)
(***************************************************************************)
SubmissionInv ==
  /\ VerdictsInOrder
  /\ SubmissionInjective
  /\ OneLiveSubmission
  /\ ResolutionReviewed

\* An event either is one of the six about candidates or leaves candidates
\* and resolution alone.
LEMMA CandidateSteps ==
  ASSUME Next
  PROVE  \/ UNCHANGED <<candidate, resolution>>
         \/ \E k \in Candidate : \E now \in Clock :
              \/ \E s \in Session, a \in Artifact : PublishCandidate(s, k, a, now)
              \/ \E sub \in Submission : ReceiptSubmission(k, sub, now)
              \/ \E decision \in VerifierDecision : RecordVerifier(k, decision, now)
              \/ \E decision \in ReviewDecision : RecordReview(k, decision, now)
              \/ \E decision \in RewardDecision : RecordReward(k, decision, now)
              \/ ResolveCase(k, now)
<1>1. ASSUME NEW s \in Session, SessionStep(s)
      PROVE  UNCHANGED <<candidate, resolution>>
  BY <1>1 DEF SessionStep, StartSession, PostMessage
<1>2. ASSUME NEW s \in Session, NEW c \in Claim, ClaimStep(s, c)
      PROVE  UNCHANGED <<candidate, resolution>>
  BY <1>2 DEF ClaimStep, ClaimWork, OpenClaim, Heartbeat, Renew, PublishCheckpoint,
              ReleaseClaim, PublishHandoff, CloseWithHandoff
<1>3. QED
  BY <1>1, <1>2 DEF Next, CandidateStep

\* While a submission is live the case refuses to receipt another one.
LEMMA LiveBlocksReceipt ==
  ASSUME NEW k \in Live
  PROVE  ProblemStatus \in
           {"VERIFICATION_PENDING", "REVIEW_PENDING", "ACCEPTANCE_RECORDED", "SOLVED"}
<1>1. /\ candidate[k].status \in Statuses
      /\ candidate[k].status \in {"VERIFICATION_PENDING", "REVIEW_PENDING", "APPROVED"}
  BY DEF Live, WithStatus, Statuses
<1>2. QED
  BY <1>1 DEF ProblemStatus

\* Only an approved review makes a candidate approved.
LEMMA ApprovedByReview ==
  ASSUME TypeOK, VerdictsInOrder, NEW k \in Candidate, candidate[k].status = "APPROVED"
  PROVE  candidate[k].review = "APPROVED" /\ candidate[k].verifier = "VERIFIED"
<1>1. VerdictInOrder(candidate[k])
  BY DEF VerdictsInOrder
<1>2. candidate[k] \in CandidateRecord
  BY DEF TypeOK
<1>3. QED
  BY <1>1, <1>2 DEF VerdictInOrder, CandidateRecord, VerifierDecision

\* Replacing the record of a candidate that is live, and stays what the
\* resolution needs, by one in order with the same submission.
LEMMA LiveRecordReplaced ==
  ASSUME TypeOK, SubmissionInv, NEW k \in Candidate, NEW r,
         candidate' = [candidate EXCEPT ![k] = r], resolution' = resolution,
         VerdictInOrder(r), r.submission = candidate[k].submission,
         r.status \in {"VERIFICATION_PENDING", "REVIEW_PENDING", "APPROVED"} => k \in Live,
         resolution = k => r.status = "APPROVED" /\ r.review = "APPROVED"
                             /\ r.verifier = "VERIFIED"
  PROVE  SubmissionInv'
<1>1. candidate'[k] = r /\ \A j \in Candidate \ {k} : candidate'[j] = candidate[j]
  BY DEF TypeOK
<1>2. VerdictsInOrder'
  BY <1>1 DEF SubmissionInv, VerdictsInOrder, VerdictInOrder
<1>3. SubmissionInjective'
  BY <1>1 DEF SubmissionInv, SubmissionInjective
<1>4. Live' \subseteq Live
  BY <1>1 DEF Live, WithStatus
<1>5. OneLiveSubmission'
  BY <1>4 DEF SubmissionInv, OneLiveSubmission
<1>6. ResolutionReviewed'
  BY <1>1 DEF SubmissionInv, ResolutionReviewed, TypeOK
<1>7. QED
  BY <1>2, <1>3, <1>5, <1>6 DEF SubmissionInv

LEMMA SubmissionPublish ==
  ASSUME TypeOK, SubmissionInv, NEW s \in Session, NEW k \in Candidate,
         NEW a \in Artifact, NEW now \in Clock, PublishCandidate(s, k, a, now)
  PROVE  SubmissionInv'
<1>1. PICK linked : candidate' = [candidate EXCEPT ![k] =
        [NoCandidate EXCEPT !.status = "CANDIDATE_READY", !.artifact = a,
                            !.handoffs = linked]]
  BY DEF PublishCandidate, SealCandidate
<1> DEFINE r == [NoCandidate EXCEPT !.status = "CANDIDATE_READY", !.artifact = a,
                                    !.handoffs = linked]
<1>2. /\ r.status = "CANDIDATE_READY" /\ r.submission = None /\ r.verifier = None
      /\ r.review = None /\ r.reward = None
  BY DEF NoCandidate
<1> HIDE DEF r
<1>3. candidate[k].status = "absent" /\ resolution' = resolution
  BY DEF PublishCandidate, SealCandidate
<1>4. VerdictInOrder(r)
  BY <1>2, NoneAssumption DEF VerdictInOrder, VerifierDecision
<1>5. candidate[k].submission = None
  BY <1>3 DEF SubmissionInv, VerdictsInOrder, VerdictInOrder
<1>6. resolution # k
  BY <1>3, NoneAssumption DEF SubmissionInv, ResolutionReviewed
<1>7. candidate' = [candidate EXCEPT ![k] = r]
  BY <1>1 DEF r
<1>8. QED
  BY <1>2, <1>3, <1>4, <1>5, <1>6, <1>7, LiveRecordReplaced

LEMMA SubmissionReceipt ==
  ASSUME TypeOK, SubmissionInv, NEW k \in Candidate, NEW sub \in Submission,
         NEW now \in Clock, ReceiptSubmission(k, sub, now)
  PROVE  SubmissionInv'
<1> DEFINE r == [candidate[k] EXCEPT !.submission = sub, !.status = "VERIFICATION_PENDING"]
<1>1. candidate' = [candidate EXCEPT ![k] = r] /\ resolution' = resolution
  BY DEF ReceiptSubmission, BindSubmission
<1>2. candidate'[k] = r /\ \A j \in Candidate \ {k} : candidate'[j] = candidate[j]
  BY <1>1 DEF TypeOK
<1>3. /\ r.status = "VERIFICATION_PENDING" /\ r.submission = sub
      /\ r.verifier = candidate[k].verifier /\ r.review = candidate[k].review
      /\ r.reward = candidate[k].reward
  BY DEF TypeOK, CandidateRecord
<1> HIDE DEF r
<1>4. candidate[k].status = "CANDIDATE_READY" /\ candidate[k].submission = None
  BY DEF ReceiptSubmission
<1>5. VerdictInOrder(candidate[k]) /\ candidate[k] \in CandidateRecord
  BY DEF SubmissionInv, VerdictsInOrder, TypeOK
<1>6. /\ candidate[k].verifier = None /\ candidate[k].review = None
      /\ candidate[k].reward = None
  BY <1>4, <1>5 DEF VerdictInOrder, CandidateRecord, VerifierDecision, ReviewDecision
<1>7. VerdictInOrder(r)
  BY <1>3, <1>6, NoneAssumption DEF VerdictInOrder, VerifierDecision
<1>8. VerdictsInOrder'
  BY <1>2, <1>7 DEF SubmissionInv, VerdictsInOrder, VerdictInOrder
<1>9. \A j \in Candidate : candidate[j].submission # sub
  BY NoneAssumption DEF ReceiptSubmission, BoundSubmissions
<1>10. SubmissionInjective'
  BY <1>2, <1>3, <1>9 DEF SubmissionInv, SubmissionInjective
<1>11. Live = {}
  BY LiveBlocksReceipt DEF ReceiptSubmission
<1>12. Live' \subseteq {k}
  BY <1>2, <1>11 DEF Live, WithStatus
<1>13. OneLiveSubmission'
  BY <1>12 DEF OneLiveSubmission
<1>14. ResolutionReviewed'
  BY <1>1, <1>2, <1>4 DEF SubmissionInv, ResolutionReviewed, TypeOK
<1>15. QED
  BY <1>8, <1>10, <1>13, <1>14 DEF SubmissionInv

LEMMA SubmissionVerifier ==
  ASSUME TypeOK, SubmissionInv, NEW k \in Candidate, NEW decision \in VerifierDecision,
         NEW now \in Clock, RecordVerifier(k, decision, now)
  PROVE  SubmissionInv'
<1> DEFINE status == IF decision = "VERIFIED" THEN "REVIEW_PENDING" ELSE "REJECTED"
           r == [candidate[k] EXCEPT !.verifier = decision, !.status = status]
<1>1. candidate' = [candidate EXCEPT ![k] = r] /\ resolution' = resolution
  BY DEF RecordVerifier
<1>2. /\ r.status = status /\ r.submission = candidate[k].submission
      /\ r.verifier = decision /\ r.review = candidate[k].review
      /\ r.reward = candidate[k].reward
  BY DEF TypeOK, CandidateRecord
<1> HIDE DEF r
<1>3. candidate[k].status = "VERIFICATION_PENDING" /\ candidate[k].submission # None
  BY DEF RecordVerifier
<1>4. VerdictInOrder(candidate[k]) /\ candidate[k] \in CandidateRecord
  BY DEF SubmissionInv, VerdictsInOrder, TypeOK
<1>5. candidate[k].review = None /\ candidate[k].reward = None
  BY <1>3, <1>4 DEF VerdictInOrder, CandidateRecord, ReviewDecision
<1>6. VerdictInOrder(r)
  BY <1>2, <1>3, <1>5, NoneAssumption DEF VerdictInOrder, VerifierDecision
<1>7. k \in Live
  BY <1>3 DEF Live, WithStatus
<1>8. resolution # k
  BY <1>3, NoneAssumption DEF SubmissionInv, ResolutionReviewed
<1>9. QED
  BY <1>1, <1>2, <1>6, <1>7, <1>8, LiveRecordReplaced

LEMMA SubmissionReview ==
  ASSUME TypeOK, SubmissionInv, NEW k \in Candidate, NEW decision \in ReviewDecision,
         NEW now \in Clock, RecordReview(k, decision, now)
  PROVE  SubmissionInv'
<1> DEFINE r == [candidate[k] EXCEPT !.review = decision, !.status = decision]
<1>1. candidate' = [candidate EXCEPT ![k] = r] /\ resolution' = resolution
  BY DEF RecordReview
<1>2. /\ r.status = decision /\ r.submission = candidate[k].submission
      /\ r.verifier = candidate[k].verifier /\ r.review = decision
      /\ r.reward = candidate[k].reward
  BY DEF TypeOK, CandidateRecord
<1> HIDE DEF r
<1>3. candidate[k].status = "REVIEW_PENDING" /\ candidate[k].submission # None
  BY DEF RecordReview
<1>4. VerdictInOrder(candidate[k]) /\ candidate[k] \in CandidateRecord
  BY DEF SubmissionInv, VerdictsInOrder, TypeOK
<1>5. candidate[k].verifier = "VERIFIED"
  BY <1>3, <1>4 DEF VerdictInOrder
<1>6. VerdictInOrder(r)
  BY <1>2, <1>3, <1>5, NoneAssumption DEF VerdictInOrder, ReviewDecision, VerifierDecision
<1>7. k \in Live
  BY <1>3 DEF Live, WithStatus
<1>8. resolution # k
  BY <1>3, NoneAssumption DEF SubmissionInv, ResolutionReviewed
<1>9. QED
  BY <1>1, <1>2, <1>6, <1>7, <1>8, LiveRecordReplaced

LEMMA SubmissionReward ==
  ASSUME TypeOK, SubmissionInv, NEW k \in Candidate, NEW decision \in RewardDecision,
         NEW now \in Clock, RecordReward(k, decision, now)
  PROVE  SubmissionInv'
<1> DEFINE r == [candidate[k] EXCEPT !.reward = decision]
<1>1. candidate' = [candidate EXCEPT ![k] = r] /\ resolution' = resolution
  BY DEF RecordReward
<1>2. /\ r.status = candidate[k].status /\ r.submission = candidate[k].submission
      /\ r.verifier = candidate[k].verifier /\ r.review = candidate[k].review
  BY DEF TypeOK, CandidateRecord
<1>3. candidate[k].status \in {"APPROVED", "REJECTED", "PARTIAL_AWARD"}
  BY DEF RecordReward
<1> HIDE DEF r
<1>4. VerdictInOrder(candidate[k])
  BY DEF SubmissionInv, VerdictsInOrder
<1>5. VerdictInOrder(r)
  BY <1>2, <1>3, <1>4 DEF VerdictInOrder
<1>6. r.status \in {"VERIFICATION_PENDING", "REVIEW_PENDING", "APPROVED"} => k \in Live
  BY <1>2 DEF Live, WithStatus
<1>7. resolution = k => r.status = "APPROVED" /\ r.review = "APPROVED"
                          /\ r.verifier = "VERIFIED"
  BY <1>2, NoneAssumption DEF SubmissionInv, ResolutionReviewed
<1>8. QED
  BY <1>1, <1>2, <1>5, <1>6, <1>7, LiveRecordReplaced

LEMMA SubmissionResolve ==
  ASSUME TypeOK, SubmissionInv, NEW k \in Candidate, NEW now \in Clock,
         ResolveCase(k, now)
  PROVE  SubmissionInv'
<1>1. candidate' = candidate /\ resolution' = k /\ candidate[k].status = "APPROVED"
  BY DEF ResolveCase
<1>2. candidate[k].review = "APPROVED" /\ candidate[k].verifier = "VERIFIED"
  BY <1>1, ApprovedByReview DEF SubmissionInv
<1>3. QED
  BY <1>1, <1>2 DEF SubmissionInv, VerdictsInOrder, SubmissionInjective,
     OneLiveSubmission, Live, WithStatus, ResolutionReviewed

LEMMA SubmissionUntouched ==
  ASSUME SubmissionInv, UNCHANGED <<candidate, resolution>>
  PROVE  SubmissionInv'
  BY DEF SubmissionInv, VerdictsInOrder, SubmissionInjective, OneLiveSubmission,
         Live, WithStatus, ResolutionReviewed

LEMMA SubmissionInvariance == Spec => []SubmissionInv
<1>1. Init => SubmissionInv
  BY NoneAssumption
     DEF Init, SubmissionInv, NoCandidate, VerdictsInOrder, VerdictInOrder,
         SubmissionInjective, OneLiveSubmission, Live, WithStatus,
         ResolutionReviewed, VerifierDecision
<1>2. ASSUME TypeOK, SubmissionInv, [Next]_vars
      PROVE  SubmissionInv'
  <2>1. CASE UNCHANGED vars
    BY <1>2, <2>1, SubmissionUntouched DEF vars
  <2>2. CASE Next
    BY <1>2, <2>2, CandidateSteps, SubmissionUntouched, SubmissionPublish,
       SubmissionReceipt, SubmissionVerifier, SubmissionReview, SubmissionReward,
       SubmissionResolve
  <2>3. QED
    BY <1>2, <2>1, <2>2
<1>3. QED
  BY <1>1, <1>2, TypeCorrect, PTL DEF Spec

\* The maintainer never has two external submissions of the case alive.
THEOREM AtMostOneLive == Spec => []OneLiveSubmission
  BY SubmissionInvariance, PTL DEF SubmissionInv

\* Every verdict a candidate shows is supported by the stages before it.
THEOREM VerdictsSupported == Spec => []VerdictsInOrder
  BY SubmissionInvariance, PTL DEF SubmissionInv

\* No external submission is bound to two candidates.
THEOREM SubmissionsInjective == Spec => []SubmissionInjective
  BY SubmissionInvariance, PTL DEF SubmissionInv

\* A case is resolved on an approved review only, and that review stands.
THEOREM ResolutionsReviewed == Spec => []ResolutionReviewed
  BY SubmissionInvariance, PTL DEF SubmissionInv

-----------------------------------------------------------------------------
(* The evidence below the candidates: handoffs close claims one to one and *)
(* build on each other, and a candidate is sealed from what they hold.     *)

EvidenceInv ==
  /\ HandoffGraph
  /\ SealedFromEvidence
  /\ \A h \in Recorded : handoff[h].claim \in Claim

\* A seal stays supported as long as recorded handoffs and completed claims do.
LEMMA SealsSupported ==
  ASSUME TypeOK, EvidenceInv,
         \A k \in Candidate :
           /\ candidate'[k].artifact = candidate[k].artifact
           /\ candidate'[k].handoffs = candidate[k].handoffs
           /\ candidate'[k].status = "absent" <=> candidate[k].status = "absent",
         \A h \in Recorded : handoff'[h] = handoff[h],
         \A c \in Claim : claim[c].status = "completed" => claim'[c].status = "completed"
  PROVE  SealedFromEvidence'
<1>1. ASSUME NEW k \in Candidate, candidate[k].status # "absent"
      PROVE  \E h \in candidate'[k].handoffs :
               /\ handoff'[h].outcome = "ADVANCE"
               /\ candidate'[k].artifact \in handoff'[h].evidence
               /\ claim'[handoff'[h].claim].status = "completed"
  <2>1. PICK h \in candidate[k].handoffs :
          /\ handoff[h].outcome = "ADVANCE"
          /\ candidate[k].artifact \in handoff[h].evidence
          /\ claim[handoff[h].claim].status = "completed"
    BY <1>1 DEF EvidenceInv, SealedFromEvidence
  <2>2. h \in Recorded
    BY <2>1 DEF TypeOK, CandidateRecord, Recorded
  <2>3. handoff'[h] = handoff[h] /\ handoff[h].claim \in Claim
    BY <2>2 DEF EvidenceInv
  <2>4. QED
    BY <2>1, <2>3
<1>2. QED
  BY <1>1 DEF EvidenceInv, SealedFromEvidence

\* An event that records no handoff, completes no claim and seals nothing.
LEMMA EvidenceKept ==
  ASSUME TypeOK, EvidenceInv, handoff' = handoff,
         \A k \in Candidate :
           /\ candidate'[k].artifact = candidate[k].artifact
           /\ candidate'[k].handoffs = candidate[k].handoffs
           /\ candidate'[k].status = "absent" <=> candidate[k].status = "absent",
         \A c \in Claim : claim'[c].status = "completed" <=> claim[c].status = "completed"
  PROVE  EvidenceInv'
<1>1. Recorded' = Recorded
  BY DEF Recorded
<1>2. HandoffGraph' /\ \A h \in Recorded' : handoff'[h].claim \in Claim
  BY <1>1 DEF EvidenceInv, HandoffGraph, HandoffClosesClaim, DependenciesWellFounded
<1>3. SealedFromEvidence'
  BY SealsSupported
<1>4. QED
  BY <1>2, <1>3 DEF EvidenceInv

LEMMA EvidenceHandoff ==
  ASSUME TypeOK, EvidenceInv, NEW s \in Session, NEW c \in Claim, NEW h \in Handoff,
         NEW now \in Clock, now \in Nat, PublishHandoff(s, c, h, now)
  PROVE  EvidenceInv'
<1>1. PICK outcome \in Outcome, evidence \in SUBSET Artifact, dependsOn \in SUBSET Recorded :
        handoff' = [handoff EXCEPT ![h] =
          [outcome |-> outcome, claim |-> c, evidence |-> evidence,
           dependsOn |-> dependsOn]]
  BY DEF PublishHandoff, CloseWithHandoff
<1> DEFINE new == [outcome |-> outcome, claim |-> c, evidence |-> evidence,
                   dependsOn |-> dependsOn]
<1>2. /\ new.outcome = outcome /\ new.claim = c /\ new.dependsOn = dependsOn
      /\ outcome # "absent"
  BY DEF Outcome
<1> HIDE DEF new
<1>3. handoff' = [handoff EXCEPT ![h] = new]
  BY <1>1 DEF new
<1>4. handoff'[h] = new /\ \A g \in Handoff \ {h} : handoff'[g] = handoff[g]
  BY <1>3 DEF TypeOK
<1>5. /\ claim' = [claim EXCEPT ![c].status = "completed"]
      /\ candidate' = candidate /\ h \notin Recorded
  BY DEF PublishHandoff, CloseWithHandoff, Recorded
<1>6. claim'[c].status = "completed" /\ \A d \in Claim \ {c} : claim'[d] = claim[d]
  BY <1>5 DEF TypeOK, ClaimRecord
<1>7. claim[c].status = "active"
  BY OpenWhileLeased DEF PublishHandoff, OwnsOpenClaim
<1>8. Recorded' = Recorded \cup {h}
  BY <1>2, <1>4 DEF Recorded
<1>9. \A g \in Recorded : handoff'[g] = handoff[g] /\ handoff[g].claim \in Claim \ {c}
  BY <1>4, <1>5, <1>7
     DEF Recorded, EvidenceInv, HandoffGraph, HandoffClosesClaim
<1>10. HandoffClosesClaim'
  BY <1>2, <1>4, <1>6, <1>8, <1>9 DEF EvidenceInv, HandoffGraph, HandoffClosesClaim
<1>11. DependenciesWellFounded'
  <2>1. \A g \in Recorded' : handoff'[g].dependsOn \subseteq Recorded
    BY <1>2, <1>4, <1>8, <1>9 DEF EvidenceInv, HandoffGraph, DependenciesWellFounded
  <2>2. ASSUME NEW S \in SUBSET Recorded', S # {}
        PROVE  \E g \in S : handoff'[g].dependsOn \cap S = {}
    <3>1. CASE S = {h}
      BY <1>5, <1>8, <2>1, <3>1
    <3>2. CASE S \ {h} # {}
      <4>1. S \ {h} \in SUBSET Recorded
        BY <1>8
      <4>2. PICK g \in S \ {h} : handoff[g].dependsOn \cap (S \ {h}) = {}
        BY <3>2, <4>1 DEF EvidenceInv, HandoffGraph, DependenciesWellFounded
      <4>3. handoff'[g].dependsOn = handoff[g].dependsOn /\ h \notin handoff'[g].dependsOn
        BY <1>5, <1>8, <1>9, <2>1, <4>1
      <4>4. QED
        BY <4>2, <4>3
    <3>3. QED
      BY <2>2, <3>1, <3>2
  <2>3. QED
    BY <1>8, <2>1, <2>2 DEF DependenciesWellFounded
<1>12. SealedFromEvidence'
  BY <1>5, <1>6, <1>9, SealsSupported
<1>13. \A g \in Recorded' : handoff'[g].claim \in Claim
  BY <1>2, <1>4, <1>8, <1>9
<1>14. QED
  BY <1>10, <1>11, <1>12, <1>13 DEF EvidenceInv, HandoffGraph

LEMMA EvidencePublish ==
  ASSUME TypeOK, EvidenceInv, NEW s \in Session, NEW k \in Candidate,
         NEW a \in Artifact, NEW now \in Clock, PublishCandidate(s, k, a, now)
  PROVE  EvidenceInv'
<1>1. PICK linked \in SUBSET Recorded :
        /\ \A h \in linked : handoff[h].outcome = "ADVANCE"
        /\ \E h \in linked : a \in handoff[h].evidence
        /\ candidate' = [candidate EXCEPT ![k] =
             [NoCandidate EXCEPT !.status = "CANDIDATE_READY", !.artifact = a,
                                 !.handoffs = linked]]
  BY DEF PublishCandidate, SealCandidate
<1> DEFINE r == [NoCandidate EXCEPT !.status = "CANDIDATE_READY", !.artifact = a,
                                    !.handoffs = linked]
<1>2. r.status = "CANDIDATE_READY" /\ r.artifact = a /\ r.handoffs = linked
  BY DEF NoCandidate
<1> HIDE DEF r
<1>3. candidate' = [candidate EXCEPT ![k] = r]
  BY <1>1 DEF r
<1>4. candidate'[k] = r /\ \A j \in Candidate \ {k} : candidate'[j] = candidate[j]
  BY <1>3 DEF TypeOK
<1>5. /\ UNCHANGED <<claim, handoff>> /\ candidate[k].status = "absent"
      /\ \A j \in Candidate : candidate[j].artifact # a
  BY DEF PublishCandidate, SealCandidate
<1>6. \E h \in linked :
        /\ handoff[h].outcome = "ADVANCE" /\ a \in handoff[h].evidence
        /\ claim[handoff[h].claim].status = "completed"
  BY <1>1 DEF EvidenceInv, HandoffGraph, HandoffClosesClaim
<1>7. SealedFromEvidence'
  <2>1. ASSUME NEW j \in Candidate, candidate'[j].status # "absent"
        PROVE  /\ \E h \in candidate'[j].handoffs :
                    /\ handoff'[h].outcome = "ADVANCE"
                    /\ candidate'[j].artifact \in handoff'[h].evidence
                    /\ claim'[handoff'[h].claim].status = "completed"
               /\ \A i \in Candidate : candidate'[i].artifact = candidate'[j].artifact => i = j
    <3>1. CASE j = k
      BY <1>2, <1>4, <1>5, <1>6, <3>1
    <3>2. CASE j # k
      BY <1>2, <1>4, <1>5, <2>1, <3>2 DEF EvidenceInv, SealedFromEvidence
    <3>3. QED
      BY <3>1, <3>2
  <2>2. QED
    BY <2>1 DEF SealedFromEvidence
<1>8. Recorded' = Recorded
  BY <1>5 DEF Recorded
<1>9. QED
  BY <1>5, <1>7, <1>8
     DEF EvidenceInv, HandoffGraph, HandoffClosesClaim, DependenciesWellFounded

\* The maintainer's events change what is known of a candidate that is there.
LEMMA EvidenceFeedback ==
  ASSUME TypeOK, EvidenceInv, NEW k \in Candidate, NEW r, UNCHANGED <<claim, handoff>>,
         candidate' = [candidate EXCEPT ![k] = r],
         r.artifact = candidate[k].artifact, r.handoffs = candidate[k].handoffs,
         r.status # "absent", candidate[k].status # "absent"
  PROVE  EvidenceInv'
<1>1. candidate'[k] = r /\ \A j \in Candidate \ {k} : candidate'[j] = candidate[j]
  BY DEF TypeOK
<1>2. QED
  BY <1>1, EvidenceKept

LEMMA EvidencePreserved ==
  ASSUME TypeOK, EvidenceInv, [Next]_vars
  PROVE  EvidenceInv'
<1>1. CASE UNCHANGED <<claim, handoff, candidate>>
  BY <1>1, EvidenceKept
<1>2. ASSUME NEW s \in Session, NEW c \in Claim, NEW now \in Clock, ClaimWork(s, c, now)
      PROVE  EvidenceInv'
  <2>1. /\ claim[c].status = "absent" /\ UNCHANGED <<handoff, candidate>>
        /\ claim'[c].status = "active" /\ \A d \in Claim \ {c} : claim'[d] = claim[d]
    BY <1>2 DEF ClaimWork, OpenClaim, TypeOK
  <2>2. QED
    BY <2>1, EvidenceKept
<1>3. ASSUME NEW s \in Session, NEW c \in Claim, NEW now \in Clock, Heartbeat(s, c, now)
      PROVE  EvidenceInv'
  <2>1. /\ UNCHANGED <<handoff, candidate>> /\ claim'[c].status = claim[c].status
        /\ \A d \in Claim \ {c} : claim'[d] = claim[d]
    BY <1>3 DEF Heartbeat, Renew, TypeOK, ClaimRecord
  <2>2. QED
    BY <2>1, EvidenceKept
<1>4. ASSUME NEW s \in Session, NEW c \in Claim, NEW now \in Clock, now \in Nat,
             ReleaseClaim(s, c, now)
      PROVE  EvidenceInv'
  <2>1. claim[c].status = "active"
    BY <1>4, OpenWhileLeased DEF ReleaseClaim, OwnsOpenClaim
  <2>2. /\ UNCHANGED <<handoff, candidate>> /\ claim'[c].status = "released"
        /\ \A d \in Claim \ {c} : claim'[d] = claim[d]
    BY <1>4 DEF ReleaseClaim, TypeOK, ClaimRecord
  <2>3. QED
    BY <2>1, <2>2, EvidenceKept
<1>5. ASSUME NEW k \in Candidate, NEW now \in Clock, NEW sub \in Submission,
             ReceiptSubmission(k, sub, now)
      PROVE  EvidenceInv'
  <2> DEFINE r == [candidate[k] EXCEPT !.submission = sub, !.status = "VERIFICATION_PENDING"]
  <2>1. /\ candidate' = [candidate EXCEPT ![k] = r] /\ UNCHANGED <<claim, handoff>>
        /\ candidate[k].status = "CANDIDATE_READY"
    BY <1>5 DEF ReceiptSubmission, BindSubmission
  <2>2. /\ r.artifact = candidate[k].artifact /\ r.handoffs = candidate[k].handoffs
        /\ r.status = "VERIFICATION_PENDING"
    BY DEF TypeOK, CandidateRecord
  <2> HIDE DEF r
  <2>3. QED
    BY <2>1, <2>2, EvidenceFeedback
<1>6. ASSUME NEW k \in Candidate, NEW now \in Clock, NEW decision \in VerifierDecision,
             RecordVerifier(k, decision, now)
      PROVE  EvidenceInv'
  <2> DEFINE status == IF decision = "VERIFIED" THEN "REVIEW_PENDING" ELSE "REJECTED"
             r == [candidate[k] EXCEPT !.verifier = decision, !.status = status]
  <2>1. /\ candidate' = [candidate EXCEPT ![k] = r] /\ UNCHANGED <<claim, handoff>>
        /\ candidate[k].status = "VERIFICATION_PENDING"
    BY <1>6 DEF RecordVerifier
  <2>2. /\ r.artifact = candidate[k].artifact /\ r.handoffs = candidate[k].handoffs
        /\ r.status # "absent"
    BY DEF TypeOK, CandidateRecord
  <2> HIDE DEF r
  <2>3. QED
    BY <2>1, <2>2, EvidenceFeedback
<1>7. ASSUME NEW k \in Candidate, NEW now \in Clock, NEW decision \in ReviewDecision,
             RecordReview(k, decision, now)
      PROVE  EvidenceInv'
  <2> DEFINE r == [candidate[k] EXCEPT !.review = decision, !.status = decision]
  <2>1. /\ candidate' = [candidate EXCEPT ![k] = r] /\ UNCHANGED <<claim, handoff>>
        /\ candidate[k].status = "REVIEW_PENDING"
    BY <1>7 DEF RecordReview
  <2>2. /\ r.artifact = candidate[k].artifact /\ r.handoffs = candidate[k].handoffs
        /\ r.status # "absent"
    BY DEF TypeOK, CandidateRecord, ReviewDecision
  <2> HIDE DEF r
  <2>3. QED
    BY <2>1, <2>2, EvidenceFeedback
<1>8. ASSUME NEW k \in Candidate, NEW now \in Clock, NEW decision \in RewardDecision,
             RecordReward(k, decision, now)
      PROVE  EvidenceInv'
  <2> DEFINE r == [candidate[k] EXCEPT !.reward = decision]
  <2>1. /\ candidate' = [candidate EXCEPT ![k] = r] /\ UNCHANGED <<claim, handoff>>
        /\ candidate[k].status # "absent"
    BY <1>8 DEF RecordReward
  <2>2. /\ r.artifact = candidate[k].artifact /\ r.handoffs = candidate[k].handoffs
        /\ r.status = candidate[k].status
    BY DEF TypeOK, CandidateRecord
  <2> HIDE DEF r
  <2>3. QED
    BY <2>1, <2>2, EvidenceFeedback
<1>9. ASSUME NEW k \in Candidate, CandidateStep(k) PROVE EvidenceInv'
  <2>1. \A now \in Clock : ResolveCase(k, now) => UNCHANGED <<claim, handoff, candidate>>
    BY DEF ResolveCase
  <2>2. QED
    BY <1>1, <1>5, <1>6, <1>7, <1>8, <1>9, <2>1, EvidencePublish DEF CandidateStep
<1>10. ASSUME NEW s \in Session, NEW c \in Claim, ClaimStep(s, c) PROVE EvidenceInv'
  <2>1. \A now \in Clock : now \in Nat
    BY TimeAssumption DEF Clock, TypeOK
  <2>2. \A now \in Clock : PublishCheckpoint(s, c, now) =>
          UNCHANGED <<claim, handoff, candidate>>
    BY DEF PublishCheckpoint
  <2>3. QED
    BY <1>1, <1>2, <1>3, <1>4, <1>10, <2>1, <2>2, EvidenceHandoff DEF ClaimStep
<1>11. ASSUME NEW s \in Session, SessionStep(s)
       PROVE  UNCHANGED <<claim, handoff, candidate>>
  BY <1>11 DEF SessionStep, StartSession, PostMessage
<1>12. QED
  BY <1>1, <1>9, <1>10, <1>11 DEF Next, vars

LEMMA EvidenceInvariance == Spec => []EvidenceInv
<1>1. ASSUME Init PROVE EvidenceInv
  <2>1. Recorded = {} /\ \A c \in Claim : claim[c].status = "absent"
    BY <1>1 DEF Init, Recorded, NoHandoff, NoClaim
  <2>2. \A k \in Candidate : candidate[k].status = "absent"
    BY <1>1 DEF Init, NoCandidate
  <2>3. QED
    BY <2>1, <2>2 DEF EvidenceInv, HandoffGraph, HandoffClosesClaim,
                      DependenciesWellFounded, SealedFromEvidence
<1>2. QED
  BY <1>1, EvidencePreserved, TypeCorrect, PTL DEF Spec

\* Handoffs and completed claims correspond one to one, and following
\* dependencies ends, for any handoffs: the newest one of a set may depend on
\* the others, and nothing depends on it.
THEOREM HandoffsFormGraph == Spec => []HandoffGraph
  BY EvidenceInvariance, PTL DEF EvidenceInv

\* What a candidate seals stays supported by a completed claim's handoff, and
\* is sealed once.
THEOREM SealsHaveEvidence == Spec => []SealedFromEvidence
  BY EvidenceInvariance, PTL DEF EvidenceInv

\* From the moment a case is resolved no event seals a candidate and no event
\* opens a claim: ReceiptSubmission to ResolveCase, renewals and handoffs leave
\* absent claims absent.
THEOREM ResolvedCloses == Spec => SolvedCloses
<1>1. ASSUME TypeOK, [Next]_vars, ProblemStatus = "SOLVED"
      PROVE  /\ published' = published
             /\ \A c \in Claim : claim[c].status = "absent" => claim'[c].status = "absent"
  <2>1. CASE UNCHANGED <<published, claim>>
    BY <2>1
  <2>2. ASSUME NEW s \in Session, NEW c \in Claim, NEW now \in Clock, now \in Nat,
               \/ Heartbeat(s, c, now) \/ ReleaseClaim(s, c, now)
               \/ \E h \in Handoff : PublishHandoff(s, c, h, now)
        PROVE  /\ published' = published
               /\ \A d \in Claim : claim[d].status = "absent" => claim'[d].status = "absent"
    <3>1. claim[c].status = "active"
      BY <1>1, <2>2, OpenWhileLeased DEF Heartbeat, ReleaseClaim, PublishHandoff, OwnsOpenClaim
    <3>2. /\ published' = published
          /\ \A d \in Claim \ {c} : claim'[d] = claim[d]
      BY <1>1, <2>2 DEF Heartbeat, Renew, ReleaseClaim, PublishHandoff, CloseWithHandoff, TypeOK
    <3>3. QED
      BY <3>1, <3>2
  <2>3. /\ \A now \in Clock : now \in Nat
        /\ \A s \in Session : SessionStep(s) => UNCHANGED <<published, claim>>
    BY <1>1, TimeAssumption DEF Clock, TypeOK, SessionStep, StartSession, PostMessage
  <2>4. \A k \in Candidate : CandidateStep(k) => UNCHANGED <<published, claim>>
    BY <1>1 DEF CandidateStep, PublishCandidate, ReceiptSubmission, BindSubmission,
                RecordVerifier, RecordReview, RecordReward, ResolveCase
  <2>5. ASSUME NEW s \in Session, NEW c \in Claim, ClaimStep(s, c)
        PROVE  \/ UNCHANGED <<published, claim>>
               \/ \E now \in Clock :
                    \/ Heartbeat(s, c, now) \/ ReleaseClaim(s, c, now)
                    \/ \E h \in Handoff : PublishHandoff(s, c, h, now)
    BY <1>1, <2>5 DEF ClaimStep, ClaimWork, PublishCheckpoint
  <2>6. QED
    BY <1>1, <2>1, <2>2, <2>3, <2>4, <2>5 DEF Next, vars
<1>2. QED
  BY <1>1, TypeCorrect, PTL DEF Spec, SolvedCloses


(***************************************************************************)
(* What the next agent is told.  _research_resume looks for the candidate  *)
(* of a status in the list of the published ones, so it needs every sealed *)
(* candidate to be in that list.                                           *)
(***************************************************************************)
SealedArePublished ==
  \A k \in Candidate : candidate[k].status # "absent" =>
    \E i \in DOMAIN published : published[i] = k

LEMMA PublishedKept ==
  ASSUME TypeOK, SealedArePublished, [Next]_vars
  PROVE  SealedArePublished'
<1>1. CASE UNCHANGED <<candidate, published>>
  BY <1>1 DEF SealedArePublished
<1>2. ASSUME NEW s \in Session, NEW k \in Candidate, NEW a \in Artifact, NEW now \in Clock,
             PublishCandidate(s, k, a, now)
      PROVE  SealedArePublished'
  <2>1. /\ \A j \in Candidate \ {k} : candidate'[j] = candidate[j]
        /\ published' = Append(published, k) /\ published \in Seq(Candidate)
    BY <1>2 DEF PublishCandidate, SealCandidate, TypeOK
  <2>2. /\ DOMAIN published' = 1..(Len(published) + 1) /\ DOMAIN published = 1..Len(published)
        /\ Len(published) \in Nat
        /\ published'[Len(published) + 1] = k
        /\ \A i \in DOMAIN published : published'[i] = published[i]
    BY <2>1
  <2>3. \A i \in DOMAIN published : i \in DOMAIN published'
    BY <2>2
  <2>4. Len(published) + 1 \in DOMAIN published'
    BY <2>2
  <2>5. ASSUME NEW j \in Candidate, candidate'[j].status # "absent"
        PROVE  \E i \in DOMAIN published' : published'[i] = j
    <3>1. CASE j = k
      BY <2>2, <2>4, <3>1
    <3>2. CASE j # k
      <4>1. PICK i \in DOMAIN published : published[i] = j
        BY <2>1, <2>5, <3>2 DEF SealedArePublished
      <4>2. QED
        BY <2>2, <2>3, <4>1
    <3>3. QED
      BY <3>1, <3>2
  <2>6. QED
    BY <2>5 DEF SealedArePublished
<1>3. ASSUME NEW k \in Candidate, NEW r, candidate[k].status # "absent",
             candidate' = [candidate EXCEPT ![k] = r], published' = published
      PROVE  SealedArePublished'
  <2>1. \A j \in Candidate : candidate'[j].status # "absent" => candidate[j].status # "absent"
    BY <1>3 DEF TypeOK
  <2>2. QED
    BY <1>3, <2>1 DEF SealedArePublished
<1>4. ASSUME NEW k \in Candidate, NEW now \in Clock,
             \/ \E sub \in Submission : ReceiptSubmission(k, sub, now)
             \/ \E decision \in VerifierDecision : RecordVerifier(k, decision, now)
             \/ \E decision \in ReviewDecision : RecordReview(k, decision, now)
             \/ \E decision \in RewardDecision : RecordReward(k, decision, now)
      PROVE  SealedArePublished'
  <2>1. candidate[k].status # "absent" /\ published' = published
    BY <1>4 DEF ReceiptSubmission, BindSubmission, RecordVerifier, RecordReview, RecordReward
  <2>2. \E r : candidate' = [candidate EXCEPT ![k] = r]
    BY <1>4 DEF ReceiptSubmission, BindSubmission, RecordVerifier, RecordReview, RecordReward
  <2>3. QED
    BY <1>3, <2>1, <2>2
<1>5. ASSUME Next, UNCHANGED candidate
      PROVE  UNCHANGED published \/ \E s \in Session, k \in Candidate, a \in Artifact :
                                      \E now \in Clock : PublishCandidate(s, k, a, now)
  <2>1. \A s \in Session : SessionStep(s) => UNCHANGED published
    BY DEF SessionStep, StartSession, PostMessage
  <2>2. \A s \in Session, c \in Claim : ClaimStep(s, c) => UNCHANGED published
    BY DEF ClaimStep, ClaimWork, OpenClaim, Heartbeat, Renew, PublishCheckpoint, ReleaseClaim,
           PublishHandoff, CloseWithHandoff
  <2>3. \A k \in Candidate : CandidateStep(k) =>
          \/ UNCHANGED published
          \/ \E s \in Session, a \in Artifact : \E now \in Clock : PublishCandidate(s, k, a, now)
    BY DEF CandidateStep, ReceiptSubmission, BindSubmission, RecordVerifier, RecordReview,
           RecordReward, ResolveCase
  <2>4. QED
    BY <1>5, <2>1, <2>2, <2>3 DEF Next
<1>6. ASSUME NEW k \in Candidate, NEW now \in Clock, ResolveCase(k, now)
      PROVE  UNCHANGED <<candidate, published>>
  BY <1>6 DEF ResolveCase
<1>7. QED
  BY <1>1, <1>2, <1>4, <1>5, <1>6, CandidateSteps DEF vars

LEMMA PublishedInvariance == Spec => []SealedArePublished
<1>1. Init => SealedArePublished
  BY DEF Init, SealedArePublished, NoCandidate
<1>2. QED
  BY <1>1, PublishedKept, TypeCorrect, PTL DEF Spec

LEMMA LeastOfNaturals ==
  ASSUME NEW T \in SUBSET Nat, T # {}
  PROVE  \E m \in T : \A n \in T : m <= n
<1> DEFINE R == {p \in Nat \X Nat : p[1] < p[2]}
<1>1. IsWellFoundedOn(R, Nat)
  BY NatLessThanWellFounded DEF OpToRel
<1>2. \A n, m \in Nat : n < m => <<n, m>> \in R
  OBVIOUS
<1> HIDE DEF R
<1>3. PICK m \in T : \A n \in T : <<n, m>> \notin R
  BY <1>1, WFMin
<1>4. \A n \in T : n \in Nat /\ m \in Nat /\ ~(n < m)
  BY <1>2, <1>3
<1>5. QED
  BY <1>4

\* The candidate published last among S is one of S.
LEMMA LastPublishedIsOne ==
  ASSUME TypeOK, NEW S, NEW i \in DOMAIN published, published[i] \in S
  PROVE  LastPublished(S) \in S
<1> DEFINE n == Len(published)
           Last(m) == /\ published[m] \in S
                      /\ \A j \in DOMAIN published : published[j] \in S => j <= m
           T == {t \in Nat : \E m \in DOMAIN published : t = n - m /\ published[m] \in S}
<1>1. n \in Nat /\ DOMAIN published = 1..n
  BY DEF TypeOK
<1> HIDE DEF n
<1>2. n - i \in T
  BY <1>1
<1>3. PICK t \in T : \A u \in T : t <= u
  BY <1>2, LeastOfNaturals
<1>4. PICK m \in DOMAIN published : t = n - m /\ published[m] \in S
  BY <1>3
<1>5. ASSUME NEW j \in DOMAIN published, published[j] \in S PROVE j <= m
  <2>1. n - j \in T
    BY <1>1, <1>5
  <2>2. n - m <= n - j
    BY <1>3, <1>4, <2>1
  <2>3. QED
    BY <1>1, <2>2
<1>6. Last(m)
  BY <1>4, <1>5
<1> HIDE DEF Last
<1>7. Last(CHOOSE c \in DOMAIN published : Last(c))
  BY <1>4, <1>6
<1>8. QED
  BY <1>7 DEF LastPublished, Last

\* A status is one of the sealed candidates'.
LEMMA StatusHeld ==
  ASSUME NEW status, status \in Statuses
  PROVE  \E k \in Candidate : candidate[k].status = status
  BY DEF Statuses

\* Feedback of a submission that was turned down, or awarded in part: its review
\* when there is one, and the verifier's rejection otherwise.
LEMMA TurnedDownFeedback ==
  ASSUME TypeOK, VerdictsInOrder, NEW k \in Candidate,
         candidate[k].status \in {"REJECTED", "PARTIAL_AWARD"}
  PROVE  (IF candidate[k].review # None THEN candidate[k].review ELSE candidate[k].verifier)
           \in {"REJECTED", "PARTIAL_AWARD"}
<1>1. VerdictInOrder(candidate[k]) /\ candidate[k] \in CandidateRecord
  BY DEF VerdictsInOrder, TypeOK
<1>2. CASE candidate[k].review # None
  BY <1>1, <1>2 DEF VerdictInOrder
<1>3. CASE candidate[k].review = None
  <2>1. candidate[k].submission # None
    BY <1>1 DEF VerdictInOrder
  <2>2. candidate[k].verifier # None /\ candidate[k].verifier # "VERIFIED"
    BY <1>1, <1>3, <2>1 DEF VerdictInOrder
  <2>3. candidate[k].verifier = "REJECTED"
    BY <1>1, <2>2 DEF CandidateRecord, VerifierDecision
  <2>4. QED
    BY <1>3, <2>3
<1>4. QED
  BY <1>2, <1>3

\* In every status of the case but OPEN some published candidate is in the group
\* the recommendation is about.
LEMMA GroupPublished ==
  ASSUME TypeOK, SubmissionInv, SealedArePublished, ProblemStatus # "OPEN"
  PROVE  /\ ResumeGroup \subseteq Candidate
         /\ LastPublished(ResumeGroup) \in ResumeGroup
         /\ \E i \in DOMAIN published : published[i] \in ResumeGroup
<1>1. ResumeGroup \subseteq Candidate
  BY DEF ResumeGroup, WithStatus, ProblemStatus
<1>2. \E k \in ResumeGroup : candidate[k].status # "absent"
  <2>1. CASE resolution # None
    <3>1. resolution \in WithStatus({"APPROVED"})
      BY <2>1 DEF SubmissionInv, ResolutionReviewed, WithStatus, TypeOK
    <3>2. ProblemStatus = "SOLVED"
      BY <2>1 DEF ProblemStatus
    <3>3. QED
      BY <3>1, <3>2 DEF ResumeGroup, WithStatus
  <2>2. CASE resolution = None /\ "APPROVED" \in Statuses
    <3>1. ProblemStatus = "ACCEPTANCE_RECORDED"
      BY <2>2 DEF ProblemStatus
    <3>2. QED
      BY <2>2, <3>1, StatusHeld DEF ResumeGroup, WithStatus
  <2>3. CASE ProblemStatus \in {"REVIEW_PENDING", "VERIFICATION_PENDING", "CANDIDATE_READY"}
    <3>1. ProblemStatus \in Statuses
      BY <2>3 DEF ProblemStatus
    <3>2. ResumeGroup = WithStatus({ProblemStatus})
      BY <2>3 DEF ResumeGroup
    <3>3. QED
      BY <2>3, <3>1, <3>2, StatusHeld DEF WithStatus
  <2>4. CASE ProblemStatus = "OPEN_AFTER_FEEDBACK"
    <3>1. Statuses \cap {"REJECTED", "PARTIAL_AWARD"} # {}
      BY <2>4 DEF ProblemStatus
    <3>2. PICK k \in Candidate : candidate[k].status \in {"REJECTED", "PARTIAL_AWARD"}
      BY <3>1 DEF Statuses
    <3>3. ResumeGroup = WithStatus({"REJECTED", "PARTIAL_AWARD"})
      BY <2>4 DEF ResumeGroup
    <3>4. QED
      BY <3>2, <3>3 DEF WithStatus
  <2>5. QED
    BY <2>1, <2>2, <2>3, <2>4 DEF ProblemStatus
<1>3. \E i \in DOMAIN published : published[i] \in ResumeGroup
  BY <1>1, <1>2 DEF SealedArePublished
<1>4. QED
  BY <1>1, <1>3, LastPublishedIsOne

\* _research_resume always finds the candidate its recommendation is about, and
\* the feedback it passes on is the official answer that recommendation rests
\* on, for any number of candidates and whatever was recorded about the others.
THEOREM ResumesDefined == Spec => []ResumeDefined
<1>1. ASSUME TypeOK, SubmissionInv, SealedArePublished PROVE ResumeDefined
  <2> DEFINE k == LastPublished(ResumeGroup)
  <2>1. ProblemStatus # "OPEN" => \E i \in DOMAIN published : published[i] \in ResumeGroup
    BY <1>1, GroupPublished
  <2>2. ASSUME ProblemStatus \notin {"OPEN", "CANDIDATE_READY"}, NEW j \in ResumeGroup
        PROVE  candidate[j].submission # None
    <3>1. /\ j \in Candidate
          /\ candidate[j].status \notin {"absent", "CANDIDATE_READY"}
      BY <2>2 DEF ResumeGroup, WithStatus, ProblemStatus
    <3>2. QED
      BY <1>1, <3>1 DEF SubmissionInv, VerdictsInOrder, VerdictInOrder
  <2>3. ProblemStatus # "OPEN" => k \in Candidate /\ k \in ResumeGroup
    BY <1>1, GroupPublished
  <2> HIDE DEF k
  <2> DEFINE Right ==
        CASE ResearchResume.action = "CONTINUE_RESEARCH_FROM_FEEDBACK" ->
               ResearchResume.feedback \in {"REJECTED", "PARTIAL_AWARD"}
          [] ResearchResume.action \in
               {"STOP_RESEARCH_PRESERVE_EVIDENCE", "AWAIT_TRUSTED_CLERK_FINALIZATION"} ->
               ResearchResume.feedback = "APPROVED"
          [] OTHER -> ResearchResume.feedback \in {None, "VERIFIED"}
  <2>4. CASE ProblemStatus = "OPEN"
    <3>1. ResearchResume = [action |-> "START_OR_RESUME_RESEARCH", candidate |-> None,
                            feedback |-> None]
      BY <2>4 DEF ResearchResume
    <3>2. Right
      BY <3>1
    <3>3. QED
      BY <2>1, <2>2, <3>2 DEF ResumeDefined
  <2>5. CASE ProblemStatus = "CANDIDATE_READY"
    <3>1. ResearchResume = [action |-> "AWAIT_EXTERNAL_SUBMISSION", candidate |-> k,
                            feedback |-> None]
      BY <2>5 DEF ResearchResume, k
    <3>2. Right
      BY <3>1
    <3>3. QED
      BY <2>1, <2>2, <3>2 DEF ResumeDefined
  <2>6. CASE ProblemStatus = "VERIFICATION_PENDING"
    <3>1. ResearchResume = [action |-> "AWAIT_OFFICIAL_FEEDBACK", candidate |-> k,
                            feedback |-> None]
      BY <2>6 DEF ResearchResume, k
    <3>2. Right
      BY <3>1
    <3>3. QED
      BY <2>1, <2>2, <3>2 DEF ResumeDefined
  <2>7. CASE ProblemStatus = "REVIEW_PENDING"
    <3>1. ResearchResume = [action |-> "AWAIT_OFFICIAL_FEEDBACK", candidate |-> k,
                            feedback |-> candidate[k].verifier]
      BY <2>7 DEF ResearchResume, k
    <3>2. candidate[k].status = "REVIEW_PENDING"
      BY <2>3, <2>7 DEF ResumeGroup, WithStatus
    <3>3. candidate[k].verifier = "VERIFIED"
      BY <1>1, <2>3, <2>7, <3>2 DEF SubmissionInv, VerdictsInOrder, VerdictInOrder
    <3>4. Right
      BY <3>1, <3>3
    <3>5. QED
      BY <2>1, <2>2, <3>4 DEF ResumeDefined
  <2>8. CASE ProblemStatus \in {"ACCEPTANCE_RECORDED", "SOLVED"}
    <3>1. /\ ResearchResume.action \in
               {"STOP_RESEARCH_PRESERVE_EVIDENCE", "AWAIT_TRUSTED_CLERK_FINALIZATION"}
          /\ ResearchResume.feedback = candidate[k].review
      BY <2>8 DEF ResearchResume, k
    <3>2. candidate[k].status = "APPROVED"
      BY <2>3, <2>8 DEF ResumeGroup, WithStatus
    <3>3. candidate[k].review = "APPROVED"
      BY <1>1, <2>3, <2>8, <3>2, ApprovedByReview DEF SubmissionInv
    <3>4. Right
      BY <3>1, <3>3
    <3>5. QED
      BY <2>1, <2>2, <3>4 DEF ResumeDefined
  <2>9. CASE ProblemStatus = "OPEN_AFTER_FEEDBACK"
    <3>1. ResearchResume = [action |-> "CONTINUE_RESEARCH_FROM_FEEDBACK", candidate |-> k,
                            feedback |-> IF candidate[k].review # None THEN candidate[k].review
                                         ELSE candidate[k].verifier]
      BY <2>9 DEF ResearchResume, k
    <3>2. candidate[k].status \in {"REJECTED", "PARTIAL_AWARD"}
      BY <2>3, <2>9 DEF ResumeGroup, WithStatus
    <3>3. (IF candidate[k].review # None THEN candidate[k].review ELSE candidate[k].verifier)
            \in {"REJECTED", "PARTIAL_AWARD"}
      BY <1>1, <2>3, <2>9, <3>2, TurnedDownFeedback DEF SubmissionInv
    <3>4. Right
      BY <3>1, <3>3
    <3>5. QED
      BY <2>1, <2>2, <3>4 DEF ResumeDefined
  <2>10. QED
    BY <2>4, <2>5, <2>6, <2>7, <2>8, <2>9 DEF ProblemStatus
<1>2. QED
  BY <1>1, SubmissionInvariance, PublishedInvariance, TypeCorrect, PTL


-----------------------------------------------------------------------------
(* The abstract official review.                                             *)

LiveStatus == {"VERIFICATION_PENDING", "REVIEW_PENDING", "APPROVED"}
AtHand == {candidate[k].submission : k \in Live}

\* What the status of the case says, read off the live candidate alone.
ReviewFacts ==
  /\ Live = {} => ReviewStage = "idle" /\ resolution = None /\ AtHand = {}
  /\ \A k \in Live :
       /\ AtHand = {candidate[k].submission}
       /\ resolution # None => ReviewStage = "solved" /\ candidate[k].status = "APPROVED"
       /\ resolution = None =>
            /\ candidate[k].status = "VERIFICATION_PENDING" => ReviewStage = "verifying"
            /\ candidate[k].status = "REVIEW_PENDING" => ReviewStage = "reviewing"
            /\ candidate[k].status = "APPROVED" => ReviewStage = "accepted"

LEMMA ReviewRead == TypeOK /\ SubmissionInv => ReviewFacts
<1>1. SUFFICES ASSUME TypeOK, SubmissionInv PROVE ReviewFacts
  OBVIOUS
<1>2. \A j, k \in Live : j = k
  BY <1>1 DEF SubmissionInv, OneLiveSubmission
<1>3. \A k \in Candidate : k \in Live <=> candidate[k].status \in LiveStatus
  BY DEF Live, WithStatus, LiveStatus
<1>4. resolution # None => resolution \in Live /\ candidate[resolution].status = "APPROVED"
  BY <1>1, <1>3 DEF SubmissionInv, ResolutionReviewed, TypeOK, LiveStatus
<1>5. CASE Live = {}
  <2>1. /\ resolution = None
        /\ Statuses \cap LiveStatus = {}
    BY <1>3, <1>4, <1>5 DEF Statuses
  <2>2. ProblemStatus \notin
          {"SOLVED", "ACCEPTANCE_RECORDED", "REVIEW_PENDING", "VERIFICATION_PENDING"}
    BY <2>1 DEF ProblemStatus, LiveStatus
  <2>3. QED
    BY <1>5, <2>1, <2>2 DEF ReviewFacts, ReviewStage, AtHand
<1>6. ASSUME NEW k \in Live
      PROVE  /\ AtHand = {candidate[k].submission}
             /\ resolution # None => ReviewStage = "solved" /\ candidate[k].status = "APPROVED"
             /\ resolution = None =>
                  /\ candidate[k].status = "VERIFICATION_PENDING" => ReviewStage = "verifying"
                  /\ candidate[k].status = "REVIEW_PENDING" => ReviewStage = "reviewing"
                  /\ candidate[k].status = "APPROVED" => ReviewStage = "accepted"
  <2>1. k \in Candidate /\ candidate[k].status \in LiveStatus
    BY <1>3 DEF Live, WithStatus
  <2>2. Live = {k}
    BY <1>2, <1>6
  <2>3. AtHand = {candidate[k].submission}
    BY <2>2 DEF AtHand
  <2>4. \A status \in LiveStatus : status \in Statuses <=> status = candidate[k].status
    BY <1>3, <2>1, <2>2 DEF Statuses
  <2>5. resolution # None => candidate[k].status = "APPROVED"
    BY <1>4, <2>2
  <2>6. QED
    BY <2>3, <2>4, <2>5 DEF ReviewStage, ProblemStatus, LiveStatus
<1>7. QED
  BY <1>5, <1>6 DEF ReviewFacts

\* Sealing a candidate and a reward are not seen.
LEMMA ReviewStutters ==
  ASSUME ReviewFacts, ReviewFacts', Live' = Live, UNCHANGED resolution,
         \A k \in Candidate : candidate'[k].submission = candidate[k].submission,
         \A k \in Live : candidate'[k].status = candidate[k].status
  PROVE  UNCHANGED Official!vars
<1>1. BoundSubmissions' = BoundSubmissions
  BY DEF BoundSubmissions
<1>2. AtHand' = AtHand
  <2>1. Live \subseteq Candidate
    BY DEF Live, WithStatus
  <2>2. QED
    BY <2>1 DEF AtHand
<1>3. ReviewStage' = ReviewStage
  <2>1. CASE Live = {}
    BY <2>1 DEF ReviewFacts
  <2>2. ASSUME NEW k \in Live PROVE ReviewStage' = ReviewStage
    <3>1. candidate[k].status \in LiveStatus
      BY DEF Live, WithStatus, LiveStatus
    <3>2. QED
      BY <3>1 DEF ReviewFacts, LiveStatus
  <2>3. QED
    BY <2>1, <2>2
<1>4. QED
  BY <1>1, <1>2, <1>3 DEF Official!vars, AtHand

\* Every event about a candidate is a step of the official review, or unseen.
LEMMA ReviewStep ==
  ASSUME TypeOK, SubmissionInv, ReviewFacts, ReviewFacts', NEW k \in Candidate,
         NEW now \in Clock,
         \/ \E s \in Session, a \in Artifact : PublishCandidate(s, k, a, now)
         \/ \E sub \in Submission : ReceiptSubmission(k, sub, now)
         \/ \E decision \in VerifierDecision : RecordVerifier(k, decision, now)
         \/ \E decision \in ReviewDecision : RecordReview(k, decision, now)
         \/ \E decision \in RewardDecision : RecordReward(k, decision, now)
         \/ ResolveCase(k, now)
  PROVE  Official!Next \/ UNCHANGED Official!vars
<1>1. \A j \in Candidate : j \in Live <=> candidate[j].status \in LiveStatus
  BY DEF Live, WithStatus, LiveStatus
<1>2. \A j \in Candidate : j \in Live' <=> candidate'[j].status \in LiveStatus
  BY DEF Live, WithStatus, LiveStatus
<1>3. Live \subseteq Candidate /\ Live' \subseteq Candidate
  BY DEF Live, WithStatus
<1>4. VerdictInOrder(candidate[k]) /\ candidate[k] \in CandidateRecord
  BY DEF SubmissionInv, VerdictsInOrder, TypeOK
<1>5. \A j \in Live : j = k \/ k \notin Live
  BY DEF SubmissionInv, OneLiveSubmission
<1>6. resolution # None => resolution \in Live
  BY <1>1 DEF SubmissionInv, ResolutionReviewed, TypeOK, LiveStatus
\* A pending candidate is the live one, and the case is not resolved.
<1>7. ASSUME candidate[k].status \in {"VERIFICATION_PENDING", "REVIEW_PENDING"}
      PROVE  k \in Live /\ Live = {k} /\ resolution = None
  <2>1. k \in Live /\ Live = {k}
    BY <1>1, <1>3, <1>5, <1>7 DEF LiveStatus
  <2>2. QED
    BY <1>7, <2>1 DEF ReviewFacts
<1>8. ASSUME NEW s \in Session, NEW a \in Artifact, PublishCandidate(s, k, a, now)
      PROVE  UNCHANGED Official!vars
  <2>1. /\ candidate[k].status = "absent" /\ resolution' = resolution
        /\ candidate'[k].status = "CANDIDATE_READY" /\ candidate'[k].submission = None
        /\ \A j \in Candidate \ {k} : candidate'[j] = candidate[j]
    <3>1. PICK linked : candidate' = [candidate EXCEPT ![k] =
            [NoCandidate EXCEPT !.status = "CANDIDATE_READY", !.artifact = a,
                                !.handoffs = linked]]
      BY <1>8 DEF PublishCandidate, SealCandidate
    <3> DEFINE r == [NoCandidate EXCEPT !.status = "CANDIDATE_READY", !.artifact = a,
                                        !.handoffs = linked]
    <3>2. r.status = "CANDIDATE_READY" /\ r.submission = None
      BY DEF NoCandidate
    <3> HIDE DEF r
    <3>3. candidate' = [candidate EXCEPT ![k] = r]
      BY <3>1 DEF r
    <3>4. candidate[k].status = "absent" /\ resolution' = resolution
      BY <1>8 DEF PublishCandidate, SealCandidate
    <3>5. QED
      BY <3>2, <3>3, <3>4 DEF TypeOK
  <2>2. candidate[k].submission = None
    BY <1>4, <2>1 DEF VerdictInOrder
  <2>3. Live' = Live /\ k \notin Live
    BY <1>1, <1>2, <1>3, <2>1 DEF LiveStatus
  <2>4. QED
    BY <1>3, <2>1, <2>2, <2>3, ReviewStutters
<1>9. ASSUME NEW sub \in Submission, ReceiptSubmission(k, sub, now)
      PROVE  Official!Submit(sub)
  <2>1. /\ candidate[k].submission = None /\ resolution' = resolution
        /\ sub \notin BoundSubmissions /\ sub # None
        /\ candidate'[k].submission = sub
        /\ candidate'[k].status = "VERIFICATION_PENDING"
        /\ \A j \in Candidate \ {k} : candidate'[j] = candidate[j]
    <3> DEFINE r == [candidate[k] EXCEPT !.submission = sub, !.status = "VERIFICATION_PENDING"]
    <3>1. candidate' = [candidate EXCEPT ![k] = r]
      BY <1>9 DEF ReceiptSubmission, BindSubmission
    <3>2. r.status = "VERIFICATION_PENDING" /\ r.submission = sub
      BY <1>4 DEF CandidateRecord
    <3> HIDE DEF r
    <3>3. /\ candidate[k].submission = None /\ resolution' = resolution
          /\ sub \notin BoundSubmissions /\ sub # None
      BY <1>9, NoneAssumption DEF ReceiptSubmission, BindSubmission
    <3>4. QED
      BY <3>1, <3>2, <3>3 DEF TypeOK
  <2>2. Live = {}
    BY <1>9, LiveBlocksReceipt DEF ReceiptSubmission
  <2>3. Live' = {k}
    BY <1>1, <1>2, <1>3, <2>1, <2>2 DEF LiveStatus
  <2>4. BoundSubmissions' = BoundSubmissions \cup {sub}
    BY <2>1 DEF BoundSubmissions
  <2>5. ReviewStage = "idle" /\ resolution = None
    BY <2>2 DEF ReviewFacts
  <2>6. ReviewStage' = "verifying" /\ AtHand' = {sub}
    BY <2>1, <2>3, <2>5 DEF ReviewFacts
  <2>7. QED
    BY <2>1, <2>4, <2>5, <2>6 DEF Official!Submit, AtHand
\* Feedback that keeps the candidate live, and feedback that turns it down.
<1>10. ASSUME candidate[k].status \in {"VERIFICATION_PENDING", "REVIEW_PENDING"},
              UNCHANGED resolution, candidate'[k].submission = candidate[k].submission,
              \A j \in Candidate \ {k} : candidate'[j] = candidate[j]
       PROVE  /\ BoundSubmissions' = BoundSubmissions
              /\ candidate'[k].status \in LiveStatus =>
                   k \in Live' /\ AtHand' = AtHand /\ resolution' = None
              /\ candidate'[k].status \notin LiveStatus => ReviewStage' = "idle" /\ AtHand' = {}
  <2>1. BoundSubmissions' = BoundSubmissions
    BY <1>10 DEF BoundSubmissions
  <2>2. k \in Live /\ Live = {k} /\ resolution' = None
    BY <1>7, <1>10
  <2>3. candidate'[k].status \in LiveStatus => k \in Live' /\ AtHand' = AtHand
    BY <1>2, <1>10, <2>2 DEF ReviewFacts
  <2>4. candidate'[k].status \notin LiveStatus => Live' = {}
    BY <1>1, <1>2, <1>3, <1>10, <2>2
  <2>5. QED
    BY <2>1, <2>2, <2>3, <2>4 DEF ReviewFacts
<1>11. ASSUME NEW decision \in VerifierDecision, RecordVerifier(k, decision, now)
       PROVE  Official!Advance("verifying", "reviewing") \/ Official!TurnDown
  <2>1. /\ candidate[k].status = "VERIFICATION_PENDING" /\ resolution' = resolution
        /\ candidate'[k].status = IF decision = "VERIFIED" THEN "REVIEW_PENDING" ELSE "REJECTED"
        /\ candidate'[k].submission = candidate[k].submission
        /\ \A j \in Candidate \ {k} : candidate'[j] = candidate[j]
    BY <1>11 DEF RecordVerifier, TypeOK, CandidateRecord
  <2>2. ReviewStage = "verifying"
    BY <1>7, <2>1 DEF ReviewFacts
  <2>3. CASE decision = "VERIFIED"
    <3>1. ReviewStage' = "reviewing"
      BY <1>10, <2>1, <2>3 DEF ReviewFacts, LiveStatus
    <3>2. QED
      BY <1>10, <2>1, <2>2, <2>3, <3>1 DEF Official!Advance, AtHand, LiveStatus
  <2>4. CASE decision # "VERIFIED"
    BY <1>10, <2>1, <2>2, <2>4 DEF Official!TurnDown, AtHand, LiveStatus
  <2>5. QED
    BY <2>3, <2>4
<1>12. ASSUME NEW decision \in ReviewDecision, RecordReview(k, decision, now)
       PROVE  Official!Advance("reviewing", "accepted") \/ Official!TurnDown
  <2>1. /\ candidate[k].status = "REVIEW_PENDING" /\ resolution' = resolution
        /\ candidate'[k].status = decision
        /\ candidate'[k].submission = candidate[k].submission
        /\ \A j \in Candidate \ {k} : candidate'[j] = candidate[j]
    BY <1>12 DEF RecordReview, TypeOK, CandidateRecord
  <2>2. ReviewStage = "reviewing"
    BY <1>7, <2>1 DEF ReviewFacts
  <2>3. CASE decision = "APPROVED"
    <3>1. ReviewStage' = "accepted"
      BY <1>10, <2>1, <2>3 DEF ReviewFacts, LiveStatus
    <3>2. QED
      BY <1>10, <2>1, <2>2, <2>3, <3>1 DEF Official!Advance, AtHand, LiveStatus
  <2>4. CASE decision # "APPROVED"
    BY <1>10, <2>1, <2>2, <2>4 DEF Official!TurnDown, AtHand, LiveStatus, ReviewDecision
  <2>5. QED
    BY <2>3, <2>4
<1>13. ASSUME NEW decision \in RewardDecision, RecordReward(k, decision, now)
       PROVE  UNCHANGED Official!vars
  <2>1. /\ resolution' = resolution
        /\ \A j \in Candidate : /\ candidate'[j].status = candidate[j].status
                                /\ candidate'[j].submission = candidate[j].submission
    BY <1>13 DEF RecordReward, TypeOK, CandidateRecord
  <2>2. Live' = Live
    BY <1>1, <1>2, <1>3, <2>1
  <2>3. QED
    BY <1>3, <2>1, <2>2, ReviewStutters
<1>14. ASSUME ResolveCase(k, now)
       PROVE  Official!Advance("accepted", "solved")
  <2>1. /\ candidate' = candidate /\ candidate[k].status = "APPROVED"
        /\ resolution = None /\ resolution' = k /\ k # None
    BY <1>14, NoneAssumption DEF ResolveCase
  <2>2. k \in Live /\ k \in Live'
    BY <1>1, <1>2, <2>1 DEF LiveStatus
  <2>3. ReviewStage = "accepted" /\ ReviewStage' = "solved"
    BY <2>1, <2>2 DEF ReviewFacts
  <2>4. BoundSubmissions' = BoundSubmissions /\ AtHand' = AtHand
    BY <2>1 DEF BoundSubmissions, AtHand, Live, WithStatus
  <2>5. QED
    BY <2>3, <2>4 DEF Official!Advance, AtHand
<1>15. QED
  BY <1>8, <1>9, <1>11, <1>12, <1>13, <1>14 DEF Official!Next

\* The case, whatever its sessions, claims, handoffs and candidates, implements
\* one official review at a time: the status derived from all candidates only
\* ever takes the steps of OfficialReview.
THEOREM OfficialReviewImplemented == Spec => ImplementsOfficialReview
<1>1. Init => Official!Init
  BY NoneAssumption
     DEF Init, Official!Init, NoCandidate, BoundSubmissions, Live, WithStatus,
         ReviewStage, ProblemStatus, Statuses
<1>2. /\ TypeOK /\ SubmissionInv /\ ReviewFacts /\ ReviewFacts' /\ [Next]_vars
      => [Official!Next]_(Official!vars)
  <2>1. SUFFICES ASSUME TypeOK, SubmissionInv, ReviewFacts, ReviewFacts', [Next]_vars
                 PROVE  Official!Next \/ UNCHANGED Official!vars
    OBVIOUS
  <2>2. CASE UNCHANGED <<candidate, resolution>>
    <3>1. Live' = Live
      BY <2>2 DEF Live, WithStatus
    <3>2. QED
      BY <2>1, <2>2, <3>1, ReviewStutters
  <2>3. CASE Next /\ ~UNCHANGED <<candidate, resolution>>
    BY <2>1, <2>3, CandidateSteps, ReviewStep
  <2>4. QED
    BY <2>1, <2>2, <2>3 DEF vars
<1>3. QED
  BY <1>1, <1>2, ReviewRead, TypeCorrect, SubmissionInvariance, PTL
     DEF Spec, ImplementsOfficialReview, Official!Spec

\* An official acceptance is never taken back: it is a stage of the official
\* review that only the resolution of the case leaves (maintainer events).
THEOREM AcceptancesStay == Spec => AcceptanceIsFinal
<1>1. /\ [Official!Next]_(Official!vars)
      => /\ ProblemStatus = "ACCEPTANCE_RECORDED" =>
              ProblemStatus' \in {"ACCEPTANCE_RECORDED", "SOLVED"}
         /\ ProblemStatus = "SOLVED" => ProblemStatus' = "SOLVED"
  <2>1. SUFFICES ASSUME Official!Next \/ UNCHANGED Official!vars
                 PROVE  /\ ReviewStage = "accepted" => ReviewStage' \in {"accepted", "solved"}
                        /\ ReviewStage = "solved" => ReviewStage' = "solved"
    BY DEF ReviewStage
  <2>2. QED
    BY <2>1 DEF Official!Next, Official!vars, Official!Submit, Official!TurnDown, Official!Advance
<1>2. QED
  BY <1>1, OfficialReviewImplemented, PTL
     DEF ImplementsOfficialReview, Official!Spec, AcceptanceIsFinal

=============================================================================
