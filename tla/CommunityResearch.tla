-------------------------- MODULE CommunityResearch --------------------------
(***************************************************************************)
(* The research phase of a community case: src/boule/community.py from the *)
(* delegation of sessions to the seal.                                     *)
(*                                                                         *)
(* Every action is one entry that CommunityState.apply accepts; an entry   *)
(* that it refuses is taken off the ledger again and changes nothing.      *)
(* Receipt times never go back.  An entry that names another frontier than *)
(* the current one is refused, so that a frontier is known by the work     *)
(* that is accepted on it.  A piece of work is what a commitment promises  *)
(* and its handoff reveals, under one name.                                *)
(***************************************************************************)
EXTENDS Integers, FiniteSets

CONSTANTS Sessions, Routes, Claims, Works, Results,
          ownerOf,       \* the participant that each session works for
          Nobody,        \* no session, no claim, no result
          Grants,        \* the sets of scopes that are delegated
          LeaseMax,      \* lease_max_seconds
          AllowParallel,
          Horizon        \* bound on the clock

ASSUME ResearchAssumption ==
  /\ LeaseMax \in Nat \ {0} /\ Horizon \in Nat
  /\ AllowParallel \in BOOLEAN

VARIABLES clock,
          sealed,    \* the result of the seal, which ends the phase
          session,   \* the delegated sessions
          claim,     \* the route claims
          work,      \* the commitments and handoffs
          accepted,  \* the handoffs accepted on the frontier
          accesses,  \* the access receipts: which work, which participant
          result,    \* the proposed results
          receipt    \* the technical receipt of each

researchVars == <<clock, sealed, session, claim, work, accepted, accesses, result, receipt>>

Scopes == {"message", "claim", "handoff", "access", "result"}

ResearchInit ==
  /\ clock = 0 /\ sealed = Nobody
  /\ session = [s \in Sessions |-> Nobody]
  /\ claim = [c \in Claims |-> Nobody]
  /\ work = [w \in Works |-> Nobody]
  /\ accepted = {} /\ accesses = {}
  /\ result = [r \in Results |-> Nobody]
  /\ receipt = [r \in Results |-> "none"]

ClockGoesOn ==
  /\ clock < Horizon /\ clock' = clock + 1
  /\ UNCHANGED <<sealed, session, claim, work, accepted, accesses, result, receipt>>

Active == sealed = Nobody

-----------------------------------------------------------------------------
(* Sessions and routes.                                                    *)

DelegateSession(s) ==
  /\ Active /\ session[s] = Nobody
  /\ \E g \in Grants, end \in (clock + 1)..(Horizon + 1) :
       session' = [session EXCEPT ![s] = [scopes |-> g, end |-> end, revoked |-> FALSE]]
  /\ UNCHANGED <<clock, sealed, claim, work, accepted, accesses, result, receipt>>

\* _session_actor.
MayAct(s, scope) ==
  /\ Active /\ session[s] # Nobody
  /\ ~session[s].revoked
  /\ scope \in session[s].scopes
  /\ clock < session[s].end

\* Revocation releases the session's claims.
ReleasedBy(s) ==
  [c \in Claims |-> IF claim[c] # Nobody /\ claim[c].session = s /\ claim[c].status = "active"
                    THEN [claim[c] EXCEPT !.status = "released"] ELSE claim[c]]

RevokeSession(s) ==
  /\ Active /\ session[s] # Nobody /\ ~session[s].revoked
  /\ session' = [session EXCEPT ![s].revoked = TRUE]
  /\ claim' = ReleasedBy(s)
  /\ UNCHANGED <<clock, sealed, work, accepted, accesses, result, receipt>>

\* _claim_is_active: a lease that has run out stays active in the record.
IsActive(c) == claim[c] # Nobody /\ claim[c].status = "active" /\ clock < claim[c].end

ActiveOn(route) == {c \in Claims : IsActive(c) /\ claim[c].route = route}

\* Mutant: a parallel claim joins whatever is active on the route.
ParallelJoins(route, overlap) == AllowParallel /\ overlap = "parallel"

ParallelAllowed(route, overlap) ==
  /\ AllowParallel /\ overlap = "parallel"
  /\ \A c \in ActiveOn(route) : claim[c].overlap = "parallel"

ClaimRoute(s, c) ==
  /\ MayAct(s, "claim") /\ claim[c] = Nobody
  /\ \E route \in Routes, overlap \in {"exclusive", "parallel"}, lease \in 1..LeaseMax :
       /\ ActiveOn(route) = {} \/ ParallelAllowed(route, overlap)
       /\ claim' = [claim EXCEPT ![c] = [session |-> s, route |-> route,
                      overlap |-> overlap, end |-> clock + lease, status |-> "active"]]
  /\ UNCHANGED <<clock, sealed, session, work, accepted, accesses, result, receipt>>

-----------------------------------------------------------------------------
(* Work.                                                                   *)

OwnActive(s, c) == IsActive(c) /\ claim[c].session = s

CommitWork(s, c, w) ==
  /\ MayAct(s, "handoff") /\ OwnActive(s, c)
  /\ work[w] = Nobody
  /\ \E v \in {"inspectable", "hash_only"} :
       work' = [work EXCEPT ![w] = [claim |-> c, visibility |-> v, outcome |-> "hidden",
                                    rests |-> {}]]
  /\ UNCHANGED <<clock, sealed, session, claim, accepted, accesses, result, receipt>>

Published == {w \in Works : work[w] # Nobody /\ work[w].outcome # "hidden"}

\* What another handoff may cite.  ADVANCE stands for every other outcome.
Citable == {w \in Published : work[w].outcome = "ADVANCE"}

\* depends_on and uses are what a handoff rests on; what it refutes may be
\* cited in the same way and has no effect.
PublishHandoff(s, c, w) ==
  /\ MayAct(s, "handoff") /\ OwnActive(s, c)
  /\ work[w] # Nobody /\ work[w].claim = c /\ work[w].outcome = "hidden"
  /\ \E o \in {"ADVANCE", "NO_SIGNAL"}, rests \in SUBSET Citable :
       work' = [work EXCEPT ![w].outcome = o, ![w].rests = rests]
  /\ claim' = [claim EXCEPT ![c].status = "completed"]
  /\ UNCHANGED <<clock, sealed, session, accepted, accesses, result, receipt>>

Inspectable == {w \in Citable : work[w].visibility = "inspectable"}

AcceptFrontier ==
  /\ Active
  /\ \E new \in SUBSET Inspectable \ {{}} :
       /\ \A w \in new : work[w].rests \subseteq accepted \cup new
       /\ accepted' = accepted \cup new
  /\ UNCHANGED <<clock, sealed, session, claim, work, accesses, result, receipt>>

\* The owner of a piece of work is who its commitment's claim belongs to.
AuthorOf(w) == ownerOf[claim[work[w].claim].session]

AccessKnowledge(s, w) ==
  /\ MayAct(s, "access")
  /\ w \in Published /\ AuthorOf(w) # ownerOf[s]
  /\ accesses' = accesses \cup {<<w, ownerOf[s]>>}
  /\ UNCHANGED <<clock, sealed, session, claim, work, accepted, result, receipt>>

-----------------------------------------------------------------------------
(* The result.                                                             *)

Closed(S) == \A w \in S : work[w].rests \subseteq S

\* Mutant: the direct dependencies only.
DirectOnly(roots) == roots

\* _dependency_closure: the roots and all that they rest on, as the least set
\* with both.
ClosureOf(roots) ==
  CHOOSE S \in SUBSET Published :
    /\ roots \subseteq S /\ Closed(S)
    /\ \A T \in SUBSET S : roots \subseteq T /\ Closed(T) => T = S

Received(s) == {w \in Works : <<w, ownerOf[s]>> \in accesses}

\* The proposer names the whole closure and disposes of the work it received,
\* part of it as used; the attribution is judged now, and for good.
ProposeResult(s, r) ==
  /\ MayAct(s, "result") /\ result[r] = Nobody
  /\ \E roots \in SUBSET Citable \ {{}}, named \in SUBSET Works \ {{}},
        disposed, used \in SUBSET Received(s) :
       LET expected == ClosureOf(roots) IN
       /\ expected \subseteq accepted
       /\ used \subseteq disposed
       /\ result' = [result EXCEPT ![r] =
            [participant |-> ownerOf[s], roots |-> roots, expected |-> expected,
             complete |-> expected \subseteq named /\ named \subseteq expected
                            /\ used \subseteq named /\ Received(s) \subseteq disposed]]
  /\ UNCHANGED <<clock, sealed, session, claim, work, accepted, accesses, receipt>>

RecordReceipt(r) ==
  /\ Active /\ result[r] # Nobody /\ receipt[r] = "none"
  /\ \E verdict \in {"pass", "fail"} : receipt' = [receipt EXCEPT ![r] = verdict]
  /\ UNCHANGED <<clock, sealed, session, claim, work, accepted, accesses, result>>

SealCommunity(r) ==
  /\ Active /\ result[r] # Nobody
  /\ receipt[r] = "pass" /\ result[r].complete
  /\ sealed' = r
  /\ UNCHANGED <<clock, session, claim, work, accepted, accesses, result, receipt>>

ResearchNext ==
  \/ ClockGoesOn \/ AcceptFrontier
  \/ \E s \in Sessions :
       \/ DelegateSession(s) \/ RevokeSession(s)
       \/ \E c \in Claims : ClaimRoute(s, c)
       \/ \E c \in Claims, w \in Works : CommitWork(s, c, w) \/ PublishHandoff(s, c, w)
       \/ \E w \in Works : AccessKnowledge(s, w)
       \/ \E r \in Results : ProposeResult(s, r)
  \/ \E r \in Results : RecordReceipt(r) \/ SealCommunity(r)

ResearchSpec == ResearchInit /\ [][ResearchNext]_researchVars

-----------------------------------------------------------------------------
(* Properties.                                                             *)

\* Two leases that are active on one route at the same time are both parallel,
\* whatever ran out, was completed or was released by a revocation before
\* (route_claimed).  A revoked session holds none.
RouteLeasesExact ==
  /\ \A c, d \in Claims :
       IsActive(c) /\ IsActive(d) /\ c # d /\ claim[c].route = claim[d].route =>
         AllowParallel /\ claim[c].overlap = "parallel" /\ claim[d].overlap = "parallel"
  /\ \A c \in Claims : IsActive(c) => ~session[claim[c].session].revoked

\* The seal attributes all that the result rests on, directly or through other
\* handoffs, and nothing else; all of it was inspectable and accepted, though
\* the closure was taken when the result was proposed (result_proposed).
AttributedIsClosed ==
  sealed # Nobody =>
    LET r == result[sealed] IN
    /\ r.expected = ClosureOf(r.roots)
    /\ r.expected \subseteq accepted
    /\ \A w \in r.expected : work[w].visibility = "inspectable" /\ work[w].rests \subseteq r.expected

=============================================================================
