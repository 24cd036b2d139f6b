----------------------------- MODULE Adjudication -----------------------------
(***************************************************************************)
(* The v0.1 protocol for two agents: src/boule/protocol.py with the panel  *)
(* and the aggregation of moderation.py and the rules of model.py.         *)
(*                                                                         *)
(* The case collects contributions, one verifier receipt and a seal, then  *)
(* a panel of independent reviewers commits ballots, reveals them, and the *)
(* clerk records the decision computed from what was revealed.  Receipt    *)
(* times never go back, and every stage has a deadline.                    *)
(*                                                                         *)
(* A ballot is the causal share that it gives to the first agent, in parts *)
(* of Whole (10000 in the code), or a ballot without one.  The score by    *)
(* which reviewers are drawn is a digest, so that any order may come out.  *)
(***************************************************************************)
EXTENDS Integers, FiniteSets

CONSTANTS Roster,             \* the reviewers of the frozen roster
          controllerOf,       \* who controls each of them
          AgentControllers,   \* who controls the two agents
          FitSets,            \* which reviewers may pass the other gates
          PanelSize, Quorum, Dispersion, Floor, Whole,
          MaxWeight,          \* bound on an agent's weighted score in a ballot
          Submission, Commit, Reveal, Appeal,  \* the deadlines
          LastTime            \* bound on the clock

ASSUME PolicyAssumption ==
  /\ IsFiniteSet(Roster) /\ MaxWeight \in Nat
  /\ Whole \in Nat \ {0} /\ Floor \in Nat /\ 2 * Floor < Whole
  /\ PanelSize \in Nat /\ Quorum \in 3..PanelSize /\ Dispersion \in Nat
  /\ {Submission, Commit, Reveal, Appeal, LastTime} \subseteq Nat
  /\ Submission < Commit /\ Commit < Reveal /\ Reveal < Appeal

VARIABLES time,      \* received_at of the last entry
          caseStage, \* the phase
          fit,       \* the reviewers that pass calibration, status and conflicts
          authors,   \* the agents that have contributed
          technical, \* the verifier's receipt
          panel,
          committed, \* the ballot each reviewer committed
          commitsClosed,
          shown,     \* the reviewers that revealed
          decision   \* the recorded decision

adjudicationVars == <<time, caseStage, fit, authors, technical, panel, committed,
                      commitsClosed, shown, decision>>

Agents == {"a", "b"}

\* What a committed digest may stand for: a causal share, a valid ballot that
\* gives none, or bytes that are no valid ballot.
NoShare == -1
Void == -2
Uncommitted == -3

\* ballot_causal_share_bps for the weighted scores of the two agents.
CausalShare(a, b) ==
  IF a + b = 0 THEN NoShare ELSE (Whole * a + (a + b) \div 2) \div (a + b)

Ballots == {NoShare, Void} \cup {CausalShare(a, b) : a, b \in 0..MaxWeight}

NoDecision == [status |-> "none", first |-> 0, at |-> 0]

AdjudicationInit ==
  /\ time = 0 /\ caseStage = "active"
  /\ fit \in FitSets
  /\ authors = {} /\ technical = "none"
  /\ panel = {} /\ commitsClosed = FALSE /\ shown = {}
  /\ committed = [r \in Roster |-> Uncommitted]
  /\ decision = NoDecision

TimeGoesOn ==
  /\ time < LastTime /\ time' = time + 1
  /\ UNCHANGED <<caseStage, fit, authors, technical, panel, committed, commitsClosed,
                 shown, decision>>

-----------------------------------------------------------------------------
(* The evidence.                                                           *)

AddContribution ==
  /\ caseStage = "active" /\ time <= Submission
  /\ \E agent \in Agents : authors' = authors \cup {agent}
  /\ UNCHANGED <<time, caseStage, fit, technical, panel, committed, commitsClosed,
                 shown, decision>>

\* The only receipt of the case, so that a failing one is final.
RecordTechnicalReceipt ==
  /\ caseStage = "active" /\ technical = "none" /\ time <= Commit
  /\ technical' \in {"pass", "fail"}
  /\ UNCHANGED <<time, caseStage, fit, authors, panel, committed, commitsClosed,
                 shown, decision>>

SealEvidence ==
  /\ caseStage = "active" /\ time <= Commit
  /\ technical = "pass" /\ authors = Agents
  /\ caseStage' = "sealed"
  /\ UNCHANGED <<time, fit, authors, technical, panel, committed, commitsClosed,
                 shown, decision>>

-----------------------------------------------------------------------------
(* The panel.                                                              *)

\* Mutant: reviewers under an agent's controller are not left out.
EligibleDespiteController(r) == r \in fit

Eligible(r) == r \in fit /\ controllerOf[r] \notin AgentControllers

Orders == {o \in [Roster -> 1..Cardinality(Roster)] :
             \A r, q \in Roster : o[r] = o[q] => r = q}

\* The first eligible reviewer of each controller, in the order o ...
Leads(r, o) ==
  /\ Eligible(r)
  /\ \A q \in Roster : Eligible(q) /\ controllerOf[q] = controllerOf[r] => o[r] <= o[q]

\* ... and of these the first PanelSize (select_reviewers).
Selected(o) ==
  {r \in Roster : Leads(r, o)
     /\ Cardinality({q \in Roster : Leads(q, o) /\ o[q] < o[r]}) < PanelSize}

\* A pool that cannot fill the panel is an error, and the case stays sealed.
AssignReviewers ==
  /\ caseStage = "sealed" /\ time <= Commit
  /\ \E o \in Orders :
       /\ Cardinality(Selected(o)) = PanelSize
       /\ panel' = Selected(o)
  /\ caseStage' = "reviewing"
  /\ UNCHANGED <<time, fit, authors, technical, committed, commitsClosed, shown,
                 decision>>

-----------------------------------------------------------------------------
(* The ballots.                                                            *)

CommitReview(r) ==
  /\ caseStage = "reviewing" /\ ~commitsClosed /\ time <= Commit
  /\ r \in panel /\ committed[r] = Uncommitted
  /\ \E b \in Ballots : committed' = [committed EXCEPT ![r] = b]
  /\ UNCHANGED <<time, caseStage, fit, authors, technical, panel, commitsClosed,
                 shown, decision>>

CloseReviewCommits ==
  /\ caseStage = "reviewing" /\ ~commitsClosed /\ time <= Commit
  /\ \A r \in panel : committed[r] # Uncommitted
  /\ commitsClosed' = TRUE
  /\ UNCHANGED <<time, caseStage, fit, authors, technical, panel, committed, shown,
                 decision>>

RevealReview(r) ==
  /\ caseStage = "reviewing" /\ commitsClosed /\ time <= Reveal
  /\ r \in panel /\ r \notin shown
  /\ committed[r] # Void
  /\ shown' = shown \cup {r}
  /\ UNCHANGED <<time, caseStage, fit, authors, technical, panel, committed,
                 commitsClosed, decision>>

-----------------------------------------------------------------------------
(* The decision.                                                           *)

Sharing == {r \in shown : committed[r] # NoShare}
Below(v) == Cardinality({r \in Sharing : committed[r] < v})
UpTo(v) == Cardinality({r \in Sharing : committed[r] <= v})

\* The k-th smallest share, and the median of them all.
Kth(k) == CHOOSE v \in 0..Whole : Below(v) < k /\ k <= UpTo(v)
MedianShare ==
  LET n == Cardinality(Sharing) IN
  IF n % 2 = 1 THEN Kth(n \div 2 + 1) ELSE (Kth(n \div 2) + Kth(n \div 2 + 1)) \div 2

Spread == Kth(Cardinality(Sharing)) - Kth(1)

Conclusive ==
  /\ Cardinality(shown) >= Quorum
  /\ Cardinality(Sharing) >= 2
  /\ Spread <= Dispersion

\* The first agent's part for the share s; the second agent has the rest.
FirstPart(s) == Floor + ((Whole - 2 * Floor) * s + Whole \div 2) \div Whole

\* A decision without every reveal waits for the reveal deadline, and none is
\* recorded after the appeal deadline.
RecordDecision ==
  /\ caseStage = "reviewing" /\ commitsClosed
  /\ shown # panel => time >= Reveal
  /\ time <= Appeal
  /\ decision' = IF Conclusive
                 THEN [status |-> "decided", first |-> FirstPart(MedianShare), at |-> time]
                 ELSE [status |-> "inconclusive", first |-> 0, at |-> time]
  /\ caseStage' = "provisional"
  /\ UNCHANGED <<time, fit, authors, technical, panel, committed, commitsClosed, shown>>

AdjudicationNext ==
  \/ TimeGoesOn \/ AddContribution \/ RecordTechnicalReceipt \/ SealEvidence
  \/ AssignReviewers \/ CloseReviewCommits \/ RecordDecision
  \/ \E r \in Roster : CommitReview(r) \/ RevealReview(r)

AdjudicationSpec == AdjudicationInit /\ [][AdjudicationNext]_adjudicationVars

-----------------------------------------------------------------------------
(* Properties.                                                             *)

\* No two reviewers of a panel have the same controller, none has an agent's,
\* and every panel is full: whatever order the seed gives the roster.
PanelIndependent ==
  caseStage \in {"reviewing", "provisional"} =>
    /\ Cardinality(panel) = PanelSize
    /\ \A r \in panel : r \in fit /\ controllerOf[r] \notin AgentControllers
    /\ \A r, q \in panel : controllerOf[r] = controllerOf[q] => r = q

\* A decision leaves out no reviewer of the panel before the reveal deadline.
NobodyCutOff ==
  decision # NoDecision => shown = panel \/ decision.at >= Reveal

\* A decided allocation leaves both agents the floor, and lies between what the
\* lowest and the highest of the revealed shares would have given.
AllocationInBand ==
  decision.status = "decided" =>
    /\ decision.first \in Floor..(Whole - Floor)
    /\ \E r, q \in Sharing :
         FirstPart(committed[r]) <= decision.first /\ decision.first <= FirstPart(committed[q])

\* The decision of a case is one that its panel supports.
DecisionSound == PanelIndependent /\ NobodyCutOff /\ AllocationInBand

=============================================================================
