--------------------------- MODULE CommunityCredit ---------------------------
(***************************************************************************)
(* Credit and the mock payout of a sealed community case: the reviewing    *)
(* phase and after of src/boule/community.py.                              *)
(*                                                                         *)
(* Reviewers commit ballots over all participants and reveal them, the     *)
(* clerk records the aggregate of what was revealed, and a decided one is  *)
(* paid leg by leg.  Shares are in parts of Unit (10000 in the code).  A   *)
(* ballot that was committed is known by its bytes, or stands for none.    *)
(***************************************************************************)
EXTENDS Integers, FiniteSets, Folds

CONSTANTS Participants,  \* 1..n, in the order of their names
          Reviewers,
          Nil,           \* no ballot yet
          ReviewQuorum,  \* the policy's review_quorum
          MaxSpread,     \* max_share_dispersion_bps
          Unit,
          Destination,   \* the order of the participants' payout destinations
          CausalSets,    \* whose handoffs the sealed result may rest on
          Bounties       \* the bounties to pay

ASSUME CreditAssumption ==
  /\ Participants \subseteq Nat /\ IsFiniteSet(Participants)
  /\ IsFiniteSet(Reviewers) /\ ReviewQuorum \in 3..Cardinality(Reviewers)
  /\ Unit \in Nat \ {0} /\ MaxSpread \in 0..Unit
  /\ \A b \in Bounties : b \in Nat \ {0}
  /\ \A c \in CausalSets : c \subseteq Participants
  /\ Destination \in [Participants -> Nat]   \* unique: the manifest is refused otherwise
  /\ \A p, q \in Participants : Destination[p] = Destination[q] => p = q

VARIABLES stagePhase,  \* the case's phase
          causal,      \* the participants whose handoffs are in the sealed closure
          bounty,
          ballot,      \* the ballot each reviewer committed
          closed,      \* review_commits_closed
          revealed,    \* the reviewers that revealed
          allocation,  \* the parts of each participant, or <<>>
          legs,        \* the amount of each participant's leg, or <<>>
          submitted, confirmed

creditVars == <<stagePhase, causal, bounty, ballot, closed, revealed, allocation,
                legs, submitted, confirmed>>

SumOf(f, S) == MapThenFoldSet(LAMBDA x, y : x + y, 0, LAMBDA p : f[p],
                              LAMBDA s : CHOOSE x \in s : TRUE, S)

Splits == {b \in [Participants -> 0..Unit] : SumOf(b, Participants) = Unit}
Undecided == [p \in Participants |-> 0]   \* a ballot that decides nothing
Unreadable == [p \in Participants |-> -1]   \* bytes that are no valid ballot

\* Mutant: a share needs no evidence.
MayGiveAnyone(b) == TRUE

\* A nonzero share needs evidence of the participant in the sealed closure.
MayGive(b) == \A p \in Participants : b[p] > 0 => p \in causal

ValidBallots == {b \in Splits : MayGive(b)} \cup {Undecided}

CreditInit ==
  /\ stagePhase = "reviewing"
  /\ causal \in CausalSets /\ bounty \in Bounties
  /\ ballot = [r \in Reviewers |-> Nil]
  /\ closed = FALSE /\ revealed = {}
  /\ allocation = <<>> /\ legs = <<>>
  /\ submitted = {} /\ confirmed = {}

Committed == {r \in Reviewers : ballot[r] # Nil}

CommitBallot(r) ==
  /\ stagePhase = "reviewing" /\ ~closed
  /\ ballot[r] = Nil
  /\ \E b \in ValidBallots \cup {Unreadable} : ballot' = [ballot EXCEPT ![r] = b]
  /\ UNCHANGED <<stagePhase, causal, bounty, closed, revealed, allocation, legs,
                 submitted, confirmed>>

CloseCommits ==
  /\ stagePhase = "reviewing" /\ ~closed
  /\ Cardinality(Committed) >= ReviewQuorum
  /\ closed' = TRUE
  /\ UNCHANGED <<stagePhase, causal, bounty, ballot, revealed, allocation, legs,
                 submitted, confirmed>>

RevealBallot(r) ==
  /\ stagePhase = "reviewing" /\ closed
  /\ r \in Committed \ revealed /\ ballot[r] # Unreadable
  /\ revealed' = revealed \cup {r}
  /\ UNCHANGED <<stagePhase, causal, bounty, ballot, closed, allocation, legs,
                 submitted, confirmed>>

-----------------------------------------------------------------------------
(* aggregate_credit_ballots.                                               *)

Decided == {r \in revealed : ballot[r] # Undecided}

\* The k-th smallest of the decided shares of p, and their median.
KthShare(p, k) ==
  CHOOSE v \in 0..Unit :
    /\ Cardinality({r \in Decided : ballot[r][p] < v}) < k
    /\ k <= Cardinality({r \in Decided : ballot[r][p] <= v})

Median ==
  LET n == Cardinality(Decided) IN
  [p \in Participants |->
     IF n % 2 = 1 THEN KthShare(p, n \div 2 + 1)
     ELSE (KthShare(p, n \div 2) + KthShare(p, n \div 2 + 1)) \div 2]

TooDispersed ==
  \E p \in Participants, r, q \in Decided : ballot[r][p] - ballot[q][p] > MaxSpread

Agreed == Cardinality(Decided) >= ReviewQuorum /\ ~TooDispersed

\* Medians that are all zero cannot be normalized: an error.
Normalizable == SumOf(Median, Participants) > 0

\* _normalize_bps: each part rounded down, and the remainder one by one to the
\* largest residues, in the order of the names.
Normalized(m) ==
  LET total == SumOf(m, Participants)
      down == [p \in Participants |-> (Unit * m[p]) \div total]
      residue == [p \in Participants |-> (Unit * m[p]) % total]
      before(q, p) ==
        residue[q] > residue[p] \/ (residue[q] = residue[p] /\ q < p)
      left == Unit - SumOf(down, Participants)
  IN [p \in Participants |->
        down[p] + IF Cardinality({q \in Participants : before(q, p)}) < left THEN 1 ELSE 0]

\* Every committed ballot must be revealed.  Nothing asks for the commitments
\* to be closed: with none recorded, the case ends inconclusive at once.
FinalizeAllocation ==
  /\ stagePhase = "reviewing" /\ revealed = Committed
  /\ \/ /\ ~Agreed
        /\ stagePhase' = "inconclusive" /\ UNCHANGED allocation
     \/ /\ Agreed /\ Normalizable
        /\ stagePhase' = "allocated" /\ allocation' = Normalized(Median)
  /\ UNCHANGED <<causal, bounty, ballot, closed, revealed, legs, submitted, confirmed>>

-----------------------------------------------------------------------------
(* The mock payout.  A leg belongs to a participant with a positive part.  *)

Payees == {p \in Participants : allocation[p] > 0}

\* Mutant: the amounts are rounded down, and the remainder is lost.
LegAmountsRoundedDown == [p \in Payees |-> (bounty * allocation[p]) \div Unit]

\* payout_legs: amounts rounded down, and the remainder to the largest
\* residues, in the order of the destinations.
LegAmounts ==
  LET down == [p \in Payees |-> (bounty * allocation[p]) \div Unit]
      residue == [p \in Payees |-> (bounty * allocation[p]) % Unit]
      before(q, p) ==
        \/ residue[q] > residue[p]
        \/ residue[q] = residue[p] /\ Destination[q] < Destination[p]
      left == bounty - SumOf(down, Payees)
  IN [p \in Payees |->
        down[p] + IF Cardinality({q \in Payees : before(q, p)}) < left THEN 1 ELSE 0]

CreatePlan ==
  /\ stagePhase = "allocated"
  /\ SumOf(LegAmounts, Payees) = bounty
  /\ legs' = LegAmounts
  /\ stagePhase' = "mock_paying"
  /\ UNCHANGED <<causal, bounty, ballot, closed, revealed, allocation, submitted,
                 confirmed>>

Payable == {p \in DOMAIN legs : legs[p] > 0}

\* A leg of no amount has no payment event.
SubmitLeg(p) ==
  /\ stagePhase = "mock_paying"
  /\ p \in Payable \ submitted
  /\ submitted' = submitted \cup {p}
  /\ UNCHANGED <<stagePhase, causal, bounty, ballot, closed, revealed, allocation,
                 legs, confirmed>>

\* Mutant: the case is paid when every leg is submitted and one is confirmed.
ConfirmSubmittedLegs(p) ==
  /\ stagePhase = "mock_paying"
  /\ p \in submitted \ confirmed
  /\ confirmed' = confirmed \cup {p}
  /\ stagePhase' = IF submitted = Payable THEN "mock_paid" ELSE stagePhase
  /\ UNCHANGED <<causal, bounty, ballot, closed, revealed, allocation, legs, submitted>>

ConfirmLeg(p) ==
  /\ stagePhase = "mock_paying"
  /\ p \in submitted \ confirmed
  /\ confirmed' = confirmed \cup {p}
  /\ stagePhase' = IF confirmed' = Payable THEN "mock_paid" ELSE stagePhase
  /\ UNCHANGED <<causal, bounty, ballot, closed, revealed, allocation, legs, submitted>>

\* What the clerk does by itself once the reviewers have revealed.
ClerkSettles ==
  \/ FinalizeAllocation
  \/ CreatePlan
  \/ \E p \in Participants : SubmitLeg(p) \/ ConfirmLeg(p)

CreditNext ==
  \/ CloseCommits \/ ClerkSettles
  \/ \E r \in Reviewers : CommitBallot(r) \/ RevealBallot(r)

CreditSpec == CreditInit /\ [][CreditNext]_creditVars

-----------------------------------------------------------------------------
(* Properties.                                                             *)

\* Credit goes only to participants whose work the sealed result rests on, and
\* is the whole: medians, their normalization and its remainder give nobody
\* else a part (_validate_credit_ballot, aggregate_credit_ballots).
CreditNeedsEvidence ==
  allocation # <<>> =>
    /\ SumOf(allocation, Participants) = Unit
    /\ \A p \in Participants : allocation[p] > 0 => p \in causal

\* What has been confirmed when the case is paid is the bounty to the last unit,
\* no leg is a unit or more from its exact part, and a leg that is not payable
\* does not keep the case open (payout_legs, mock_payout_leg_confirmed).
PaidExactly ==
  /\ legs # <<>> =>
       \A p \in DOMAIN legs :
         /\ legs[p] * Unit < bounty * allocation[p] + Unit
         /\ legs[p] * Unit > bounty * allocation[p] - Unit
  /\ stagePhase = "mock_paid" => SumOf(legs, confirmed) = bounty

\* What is due to p, and what is left of the bounty.
Amounts == IF stagePhase = "allocated" THEN LegAmounts ELSE legs
DueTo(p) ==
  IF /\ stagePhase \in {"allocated", "mock_paying", "mock_paid"}
     /\ p \in Payees \ confirmed
  THEN Amounts[p] ELSE 0
Unpaid == IF stagePhase \in {"mock_paying", "mock_paid"} THEN bounty - SumOf(legs, confirmed) ELSE bounty
Verdict ==
  CASE stagePhase = "reviewing"    -> "open"
    [] stagePhase = "inconclusive" -> "declined"
    [] stagePhase \in {"allocated", "mock_paying"} -> "decided"
    [] stagePhase = "mock_paid"    -> "settled"

Settling == INSTANCE Settlement WITH
  Party    <- Participants,
  entitled <- causal,
  pot      <- Unpaid,
  due      <- [p \in Participants |-> DueTo(p)],
  verdict  <- Verdict

\* The case is decided once, and from the decision on each leg leaves the
\* bounty once and whole: no order of payments overpays it or settles early.
ImplementsSettlement == Settling!Spec

\* A case whose reviewers all revealed is settled: inconclusive or paid.  Only
\* medians that are all zero, which no rule excludes, leave it under review.
CreditSettles ==
  closed /\ revealed = Committed
    ~> stagePhase \in {"inconclusive", "mock_paid"} \/ (Agreed /\ ~Normalizable)

=============================================================================
