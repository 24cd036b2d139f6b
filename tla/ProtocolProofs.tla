----------------------------- MODULE ProtocolProofs -----------------------------
(***************************************************************************)
(* Proofs about CommunityResearch and Adjudication, for any sessions,      *)
(* routes, works, results and rosters.                                     *)
(***************************************************************************)
EXTENDS CommunityResearch, Adjudication, FiniteSetTheorems, WellFoundedInduction, TLAPS

-----------------------------------------------------------------------------
(* The leases of a route.                                                  *)

LeaseRecord == [session : Sessions, route : Routes, overlap : {"exclusive", "parallel"},
                end : Int, status : {"active", "released", "completed"}]

LeaseTypes ==
  /\ clock \in Nat
  /\ DOMAIN session = Sessions
  /\ claim \in [Claims -> LeaseRecord \cup {Nobody}]

LeaseInv == LeaseTypes /\ RouteLeasesExact

\* A step after which no claim is active that was not active before, and no
\* session with an active claim is revoked.
LEMMA LeasesShrink ==
  ASSUME LeaseInv, LeaseTypes',
         \A c \in Claims : IsActive(c)' => IsActive(c) /\ claim'[c] = claim[c],
         \A c \in Claims : IsActive(c)' => ~session'[claim[c].session].revoked
  PROVE  LeaseInv'
BY DEF LeaseInv, RouteLeasesExact

LEMMA LeaseClaim ==
  ASSUME LeaseInv, NEW s \in Sessions, NEW c \in Claims, ClaimRoute(s, c)
  PROVE  LeaseInv'
<1>1. PICK route \in Routes, overlap \in {"exclusive", "parallel"}, lease \in 1..LeaseMax :
        /\ ActiveOn(route) = {} \/ ParallelAllowed(route, overlap)
        /\ claim' = [claim EXCEPT ![c] = [session |-> s, route |-> route,
                       overlap |-> overlap, end |-> clock + lease, status |-> "active"]]
  BY DEF ClaimRoute
<1> DEFINE new == [session |-> s, route |-> route, overlap |-> overlap,
                   end |-> clock + lease, status |-> "active"]
<1>2. new \in LeaseRecord
  BY ResearchAssumption DEF LeaseInv, LeaseTypes, LeaseRecord
<1>3. /\ new.session = s /\ new.route = route /\ new.overlap = overlap
  OBVIOUS
<1> HIDE DEF new
<1>4. /\ claim' = [claim EXCEPT ![c] = new] /\ UNCHANGED <<clock, session>>
      /\ ~session[s].revoked /\ ~IsActive(c)
  BY <1>1 DEF new, ClaimRoute, MayAct, IsActive
<1>5. LeaseTypes'
  BY <1>2, <1>4 DEF LeaseInv, LeaseTypes
<1>6. claim'[c] = new /\ \A d \in Claims \ {c} : claim'[d] = claim[d]
  BY <1>4 DEF LeaseInv, LeaseTypes
<1>7. \A d \in Claims \ {c} : IsActive(d)' <=> IsActive(d)
  BY <1>4, <1>6 DEF IsActive
<1>8. ASSUME NEW d \in Claims \ {c}, IsActive(d), claim[d].route = route
      PROVE  AllowParallel /\ overlap = "parallel" /\ claim[d].overlap = "parallel"
  <2>1. d \in ActiveOn(route)
    BY <1>8 DEF ActiveOn
  <2>2. QED
    BY <1>1, <2>1 DEF ParallelAllowed
<1>9. \A d, e \in Claims :
        IsActive(d)' /\ IsActive(e)' /\ d # e /\ claim'[d].route = claim'[e].route =>
          AllowParallel /\ claim'[d].overlap = "parallel" /\ claim'[e].overlap = "parallel"
  BY <1>3, <1>6, <1>7, <1>8 DEF LeaseInv, RouteLeasesExact
<1>10. \A d \in Claims : IsActive(d)' => ~session'[claim'[d].session].revoked
  BY <1>3, <1>4, <1>6, <1>7 DEF LeaseInv, RouteLeasesExact
<1>11. QED
  BY <1>5, <1>9, <1>10 DEF LeaseInv, RouteLeasesExact

LEMMA LeaseRevoke ==
  ASSUME LeaseInv, NEW s \in Sessions, RevokeSession(s)
  PROVE  LeaseInv'
<1>1. /\ session' = [session EXCEPT ![s].revoked = TRUE] /\ claim' = ReleasedBy(s)
      /\ clock' = clock
  BY DEF RevokeSession
<1>2. \A c \in Claims :
        claim'[c] = IF claim[c] # Nobody /\ claim[c].session = s /\ claim[c].status = "active"
                    THEN [claim[c] EXCEPT !.status = "released"] ELSE claim[c]
  BY <1>1 DEF ReleasedBy
<1>3. LeaseTypes'
  <2>1. \A c \in Claims : claim'[c] \in LeaseRecord \cup {Nobody}
    BY <1>2 DEF LeaseInv, LeaseTypes, LeaseRecord
  <2>2. DOMAIN claim' = Claims /\ claim' = [c \in Claims |-> claim'[c]]
    BY <1>1 DEF ReleasedBy
  <2>3. QED
    BY <1>1, <2>1, <2>2 DEF LeaseInv, LeaseTypes
<1>4. ASSUME NEW c \in Claims, IsActive(c)'
      PROVE  IsActive(c) /\ claim'[c] = claim[c] /\ claim[c].session # s
  <2>1. claim'[c] # Nobody /\ claim'[c].status = "active" /\ clock < claim'[c].end
    BY <1>1, <1>4 DEF IsActive
  <2>2. CASE claim[c] # Nobody /\ claim[c].session = s /\ claim[c].status = "active"
    <3>1. claim'[c].status = "released"
      BY <1>2, <2>2 DEF LeaseInv, LeaseTypes, LeaseRecord
    <3>2. QED
      BY <2>1, <3>1
  <2>3. CASE ~(claim[c] # Nobody /\ claim[c].session = s /\ claim[c].status = "active")
    BY <1>2, <2>1, <2>3 DEF IsActive
  <2>4. QED
    BY <2>2, <2>3
<1>5. \A c \in Claims : IsActive(c)' => session'[claim[c].session] = session[claim[c].session]
  BY <1>1, <1>4 DEF LeaseInv, LeaseTypes, IsActive, LeaseRecord
<1>6. \A c \in Claims : IsActive(c)' => ~session'[claim[c].session].revoked
  BY <1>4, <1>5 DEF LeaseInv, RouteLeasesExact
<1>7. QED
  BY <1>3, <1>4, <1>6, LeasesShrink

LEMMA LeaseInvNext == ASSUME LeaseInv, [ResearchNext]_researchVars PROVE LeaseInv'
<1>1. CASE UNCHANGED <<session, claim>> /\ clock' \in Nat /\ clock <= clock'
  <2>1. LeaseTypes'
    BY <1>1 DEF LeaseInv, LeaseTypes
  <2>2. \A c \in Claims : IsActive(c)' => IsActive(c) /\ claim'[c] = claim[c]
    BY <1>1 DEF IsActive, LeaseInv, LeaseTypes, LeaseRecord
  <2>3. QED
    BY <1>1, <2>1, <2>2, LeasesShrink DEF LeaseInv, RouteLeasesExact
<1>2. ASSUME NEW s \in Sessions, DelegateSession(s) PROVE LeaseInv'
  <2>1. PICK g \in Grants, end \in (clock + 1)..(Horizon + 1) :
          session' = [session EXCEPT ![s] = [scopes |-> g, end |-> end, revoked |-> FALSE]]
    BY <1>2 DEF DelegateSession
  <2>2. /\ DOMAIN session' = Sessions /\ ~session'[s].revoked
        /\ \A r \in Sessions \ {s} : session'[r] = session[r]
    BY <2>1 DEF LeaseInv, LeaseTypes
  <2>3. claim' = claim /\ clock' = clock
    BY <1>2 DEF DelegateSession
  <2>4. \A c \in Claims : IsActive(c)' => IsActive(c) /\ claim[c].session \in Sessions
    BY <2>3 DEF IsActive, LeaseInv, LeaseTypes, LeaseRecord
  <2>5. \A c \in Claims : IsActive(c)' => ~session'[claim[c].session].revoked
    BY <2>2, <2>4 DEF LeaseInv, RouteLeasesExact
  <2>6. LeaseTypes'
    BY <2>2, <2>3 DEF LeaseInv, LeaseTypes
  <2>7. QED
    BY <2>3, <2>4, <2>5, <2>6, LeasesShrink
<1>3. ASSUME NEW s \in Sessions, NEW c \in Claims, NEW w \in Works, PublishHandoff(s, c, w)
      PROVE  LeaseInv'
  <2>1. /\ claim' = [claim EXCEPT ![c].status = "completed"]
        /\ UNCHANGED <<clock, session>> /\ IsActive(c)
    BY <1>3 DEF PublishHandoff, OwnActive
  <2>2. claim[c] \in LeaseRecord
    BY <2>1 DEF IsActive, LeaseInv, LeaseTypes
  <2>3. /\ claim'[c] \in LeaseRecord /\ claim'[c].status = "completed"
        /\ \A d \in Claims \ {c} : claim'[d] = claim[d]
    BY <2>1, <2>2 DEF LeaseInv, LeaseTypes, LeaseRecord
  <2>4. LeaseTypes'
    BY <2>1, <2>3 DEF LeaseInv, LeaseTypes
  <2>5. \A d \in Claims : IsActive(d)' => IsActive(d) /\ claim'[d] = claim[d]
    BY <2>1, <2>3 DEF IsActive
  <2>6. QED
    BY <2>1, <2>4, <2>5, LeasesShrink DEF LeaseInv, RouteLeasesExact
<1>4. \/ UNCHANGED <<session, claim>> /\ clock' \in Nat /\ clock <= clock'
      \/ \E s \in Sessions :
           \/ DelegateSession(s) \/ RevokeSession(s)
           \/ \E c \in Claims : ClaimRoute(s, c) \/ \E w \in Works : PublishHandoff(s, c, w)
  BY DEF ResearchNext, researchVars, ClockGoesOn, AcceptFrontier, CommitWork, AccessKnowledge,
         ProposeResult, RecordReceipt, SealCommunity, LeaseInv, LeaseTypes
<1>5. QED
  BY <1>1, <1>2, <1>3, <1>4, LeaseClaim, LeaseRevoke

\* For any claims, leases and revocations, two leases of one route that are
\* active together are parallel, and a revoked session holds none.
THEOREM RouteLeasesAreExact == ResearchSpec => []RouteLeasesExact
<1>1. ASSUME ResearchInit PROVE LeaseInv
  BY <1>1 DEF ResearchInit, LeaseInv, LeaseTypes, RouteLeasesExact, IsActive
<1>2. LeaseInv => RouteLeasesExact
  BY DEF LeaseInv
<1>3. QED
  BY <1>1, <1>2, LeaseInvNext, PTL DEF ResearchSpec

-----------------------------------------------------------------------------
(* What the seal attributes.                                               *)

WorkRecord == [claim : Claims, visibility : {"inspectable", "hash_only"},
               outcome : {"hidden", "ADVANCE", "NO_SIGNAL"}, rests : SUBSET Works]

IsClosure(roots, S) ==
  /\ S \subseteq Published /\ roots \subseteq S /\ Closed(S)
  /\ \A T \in SUBSET S : roots \subseteq T /\ Closed(T) => T = S

\* What is accepted rests on what is accepted, and a result keeps the closure
\* of its roots, which lies within what is accepted.
WorkInv ==
  /\ work \in [Works -> WorkRecord \cup {Nobody}]
  /\ DOMAIN result = Results
  /\ Closed(Published)
  /\ accepted \subseteq Inspectable /\ Closed(accepted)
  /\ \A r \in Results : result[r] # Nobody =>
       /\ IsClosure(result[r].roots, result[r].expected)
       /\ result[r].expected \subseteq accepted
  /\ sealed # Nobody => sealed \in Results /\ result[sealed] # Nobody

\* Two closures of the same roots are equal: their intersection is closed too.
LEMMA ClosureUnique ==
  ASSUME NEW roots, NEW S, NEW T, IsClosure(roots, S), IsClosure(roots, T)
  PROVE  S = T
<1>1. S \cap T \in SUBSET S /\ S \cap T \in SUBSET T
  OBVIOUS
<1>2. roots \subseteq S \cap T /\ Closed(S \cap T)
  BY DEF IsClosure, Closed
<1>3. QED
  BY <1>1, <1>2 DEF IsClosure

\* Published roots have a closure, the intersection of all closed sets that
\* hold them, and ClosureOf chooses it.
LEMMA ClosureExists ==
  ASSUME NEW roots, roots \subseteq Published, Closed(Published)
  PROVE  IsClosure(roots, ClosureOf(roots))
<1> DEFINE Least == {w \in Published :
                       \A T \in SUBSET Published : roots \subseteq T /\ Closed(T) => w \in T}
<1>1. Least \in SUBSET Published /\ roots \subseteq Least
  OBVIOUS
<1>2. Closed(Least)
  BY DEF Closed
<1>3. \A T \in SUBSET Least : roots \subseteq T /\ Closed(T) => T = Least
  OBVIOUS
<1>4. \E S \in SUBSET Published :
        /\ roots \subseteq S /\ Closed(S)
        /\ \A T \in SUBSET S : roots \subseteq T /\ Closed(T) => T = S
  BY <1>1, <1>2, <1>3
<1>5. QED
  BY <1>4 DEF IsClosure, ClosureOf

LEMMA ClosureIs ==
  ASSUME NEW roots, NEW S, Closed(Published), IsClosure(roots, S)
  PROVE  S = ClosureOf(roots)
<1>1. roots \subseteq Published
  BY DEF IsClosure
<1>2. QED
  BY <1>1, ClosureExists, ClosureUnique

\* A closure stays one as long as the published work stays as it was.
LEMMA ClosureKept ==
  ASSUME NEW roots, NEW S, IsClosure(roots, S), Published \subseteq Published',
         \A w \in Published : work'[w] = work[w]
  PROVE  IsClosure(roots, S)'
<1>1. \A T \in SUBSET S : Closed(T)' <=> Closed(T)
  BY DEF IsClosure, Closed
<1>2. QED
  BY <1>1 DEF IsClosure

\* A step that publishes at most one work, which rests on published work.
LEMMA WorkGrows ==
  ASSUME WorkInv, UNCHANGED <<accepted, result, sealed>>, NEW w \in Works \ Published,
         work' \in [Works -> WorkRecord \cup {Nobody}],
         \A q \in Works \ {w} : work'[q] = work[q],
         w \in Published' => work'[w].rests \subseteq Published
  PROVE  WorkInv'
<1>1. /\ Published \subseteq Published' /\ Published' \subseteq Published \cup {w}
      /\ \A q \in Published : work'[q] = work[q]
  BY DEF Published
<1>2. Closed(Published)'
  BY <1>1 DEF WorkInv, Closed
<1>3. accepted' \subseteq Inspectable'
  BY <1>1 DEF WorkInv, Inspectable, Citable, Published
<1>4. Closed(accepted)'
  BY <1>1 DEF WorkInv, Inspectable, Citable, Closed
<1>5. \A r \in Results : result'[r] # Nobody =>
        /\ IsClosure(result[r].roots, result[r].expected)'
        /\ result'[r].expected \subseteq accepted'
  <2>1. SUFFICES ASSUME NEW r \in Results, result[r] # Nobody
                 PROVE  IsClosure(result[r].roots, result[r].expected)'
    BY DEF WorkInv
  <2>2. PICK roots, S : roots = result[r].roots /\ S = result[r].expected
    OBVIOUS
  <2>3. IsClosure(roots, S)
    BY <2>1, <2>2 DEF WorkInv
  <2>4. IsClosure(roots, S)'
    BY <1>1, <2>3, ClosureKept
  <2>5. roots = result'[r].roots /\ S = result'[r].expected
    BY <2>2
  <2>6. QED
    BY <2>4, <2>5
<1>6. QED
  BY <1>2, <1>3, <1>4, <1>5 DEF WorkInv

LEMMA WorkInvNext == ASSUME WorkInv, [ResearchNext]_researchVars PROVE WorkInv'
<1>1. CASE UNCHANGED <<sealed, work, accepted, result>>
  BY <1>1 DEF WorkInv, IsClosure, Closed, Published, Inspectable, Citable
<1>2. ASSUME NEW s \in Sessions, NEW c \in Claims, NEW w \in Works, CommitWork(s, c, w)
      PROVE  WorkInv'
  <2>1. PICK v \in {"inspectable", "hash_only"} :
          work' = [work EXCEPT ![w] = [claim |-> c, visibility |-> v, outcome |-> "hidden",
                                       rests |-> {}]]
    BY <1>2 DEF CommitWork
  <2>2. /\ work[w] = Nobody /\ UNCHANGED <<accepted, result, sealed>>
        /\ DOMAIN work = Works
    BY <1>2 DEF CommitWork, WorkInv
  <2> DEFINE new == [claim |-> c, visibility |-> v, outcome |-> "hidden", rests |-> {}]
  <2>3. new \in WorkRecord /\ new.outcome = "hidden"
    BY DEF WorkRecord
  <2> HIDE DEF new
  <2>4. work' = [work EXCEPT ![w] = new]
    BY <2>1 DEF new
  <2>5. work'[w] = new /\ \A q \in Works \ {w} : work'[q] = work[q]
    BY <2>2, <2>4
  <2>6. work' \in [Works -> WorkRecord \cup {Nobody}]
    BY <2>3, <2>4 DEF WorkInv
  <2>7. w \notin Published /\ w \notin Published'
    BY <2>2, <2>3, <2>5 DEF Published
  <2>8. QED
    BY <2>2, <2>5, <2>6, <2>7, WorkGrows
<1>3. ASSUME NEW s \in Sessions, NEW c \in Claims, NEW w \in Works, PublishHandoff(s, c, w)
      PROVE  WorkInv'
  <2>1. PICK o \in {"ADVANCE", "NO_SIGNAL"}, rests \in SUBSET Citable :
          work' = [work EXCEPT ![w].outcome = o, ![w].rests = rests]
    BY <1>3 DEF PublishHandoff
  <2>2. /\ work[w] # Nobody /\ work[w].outcome = "hidden"
        /\ UNCHANGED <<accepted, result, sealed>>
    BY <1>3 DEF PublishHandoff
  <2>3. work[w] \in WorkRecord /\ DOMAIN work = Works
    BY <2>2 DEF WorkInv
  <2>4. \A q \in Works \ {w} : work'[q] = work[q]
    BY <2>1, <2>3
  <2>5. work'[w] = [[work[w] EXCEPT !.outcome = o] EXCEPT !.rests = rests]
    BY <2>1, <2>3
  <2>6. rests \subseteq Published /\ rests \in SUBSET Works
    BY DEF Citable, Published
  <2>7. work'[w] \in WorkRecord /\ work'[w].rests = rests
    BY <2>3, <2>5, <2>6 DEF WorkRecord
  <2>8. work' \in [Works -> WorkRecord \cup {Nobody}]
    <3>1. DOMAIN work' = Works /\ work' = [q \in Works |-> work'[q]]
      BY <2>1, <2>3
    <3>2. \A q \in Works : work'[q] \in WorkRecord \cup {Nobody}
      BY <2>4, <2>7 DEF WorkInv
    <3>3. QED
      BY <3>1, <3>2
  <2>9. w \notin Published
    BY <2>2 DEF Published
  <2>10. QED
    BY <2>2, <2>4, <2>6, <2>7, <2>8, <2>9, WorkGrows
<1>4. CASE AcceptFrontier
  <2>1. PICK new \in SUBSET Inspectable :
          /\ \A w \in new : work[w].rests \subseteq accepted \cup new
          /\ accepted' = accepted \cup new
    BY <1>4 DEF AcceptFrontier
  <2>2. UNCHANGED <<work, result, sealed>>
    BY <1>4 DEF AcceptFrontier
  <2>3. UNCHANGED <<Published, Inspectable>>
    BY <2>2 DEF Published, Inspectable, Citable
  <2>4. accepted' \subseteq Inspectable' /\ Closed(accepted)' /\ Closed(Published)'
    BY <2>1, <2>2, <2>3 DEF WorkInv, Closed
  <2>5. \A roots, S : IsClosure(roots, S)' <=> IsClosure(roots, S)
    BY <2>2, <2>3 DEF IsClosure, Closed
  <2>6. QED
    BY <2>1, <2>2, <2>4, <2>5 DEF WorkInv
<1>5. ASSUME NEW s \in Sessions, NEW r \in Results, ProposeResult(s, r)
      PROVE  WorkInv'
  <2>1. PICK roots, complete :
          /\ roots \in SUBSET Citable
          /\ ClosureOf(roots) \subseteq accepted
          /\ result' = [result EXCEPT ![r] =
               [participant |-> ownerOf[s], roots |-> roots, expected |-> ClosureOf(roots),
                complete |-> complete]]
    BY <1>5 DEF ProposeResult
  <2>2. UNCHANGED <<sealed, work, accepted>> /\ result[r] = Nobody /\ DOMAIN result = Results
    BY <1>5 DEF ProposeResult, WorkInv
  <2> DEFINE new == [participant |-> ownerOf[s], roots |-> roots,
                     expected |-> ClosureOf(roots), complete |-> complete]
  <2>3. new.roots = roots /\ new.expected = ClosureOf(roots)
    OBVIOUS
  <2> HIDE DEF new
  <2>4. result' = [result EXCEPT ![r] = new]
    BY <2>1 DEF new
  <2>5. result'[r] = new /\ \A q \in Results \ {r} : result'[q] = result[q]
    BY <2>2, <2>4
  <2>6. roots \subseteq Published
    BY <2>1 DEF Citable
  <2>7. IsClosure(roots, ClosureOf(roots))
    BY <2>6, ClosureExists DEF WorkInv
  <2>8. \A q \in Results : result'[q] # Nobody =>
          /\ IsClosure(result'[q].roots, result'[q].expected)
          /\ result'[q].expected \subseteq accepted
    BY <2>1, <2>3, <2>5, <2>7 DEF WorkInv
  <2>9. UNCHANGED <<Published, Inspectable>>
    BY <2>2 DEF Published, Inspectable, Citable
  <2>10. \A R, S : IsClosure(R, S)' <=> IsClosure(R, S)
    BY <2>2, <2>9 DEF IsClosure, Closed
  <2>11. \A q \in Results : (result[q] # Nobody)' =>
          /\ IsClosure(result[q].roots, result[q].expected)'
          /\ (result[q].expected \subseteq accepted)'
    <3>1. SUFFICES ASSUME NEW q \in Results, (result[q] # Nobody)'
                   PROVE  IsClosure(result[q].roots, result[q].expected)'
      BY <2>2, <2>8
    <3>2. PICK R, S : R = result'[q].roots /\ S = result'[q].expected
      OBVIOUS
    <3>3. IsClosure(R, S)
      BY <2>8, <3>1, <3>2
    <3>4. IsClosure(R, S)'
      BY <2>10, <3>3
    <3>5. QED
      BY <3>2, <3>4
  <2>12. Closed(Published)' /\ accepted' \subseteq Inspectable' /\ Closed(accepted)'
    BY <2>2, <2>9 DEF WorkInv, Closed
  <2>13. sealed' # Nobody => sealed' \in Results /\ result'[sealed'] # Nobody
    BY <2>2, <2>5 DEF WorkInv
  <2>14. QED
    BY <2>2, <2>4, <2>11, <2>12, <2>13 DEF WorkInv
<1>6. ASSUME NEW r \in Results, SealCommunity(r) PROVE WorkInv'
  <2>1. /\ UNCHANGED <<work, accepted, result>> /\ sealed' = r /\ result[r] # Nobody
    BY <1>6 DEF SealCommunity
  <2>2. QED
    BY <2>1 DEF WorkInv, IsClosure, Closed, Published, Inspectable, Citable
<1>7. \/ UNCHANGED <<sealed, work, accepted, result>>
      \/ AcceptFrontier
      \/ \E r \in Results : SealCommunity(r) \/ \E s \in Sessions : ProposeResult(s, r)
      \/ \E s \in Sessions, c \in Claims, w \in Works :
           CommitWork(s, c, w) \/ PublishHandoff(s, c, w)
  BY DEF ResearchNext, researchVars, ClockGoesOn, DelegateSession, RevokeSession, ClaimRoute,
         AccessKnowledge, RecordReceipt
<1>8. QED
  BY <1>1, <1>2, <1>3, <1>4, <1>5, <1>6, <1>7

\* For any works and citations, the closure that the seal attributes is that
\* of its roots, all of it was accepted and can be inspected, though other
\* work was published between the proposal and the seal.
THEOREM AttributionIsClosed == ResearchSpec => []AttributedIsClosed
<1>1. ASSUME ResearchInit PROVE WorkInv
  BY <1>1 DEF ResearchInit, WorkInv, Closed, Published, Inspectable, Citable
<1>2. ASSUME WorkInv PROVE AttributedIsClosed
  <2>1. SUFFICES ASSUME sealed # Nobody
                 PROVE  /\ result[sealed].expected = ClosureOf(result[sealed].roots)
                        /\ result[sealed].expected \subseteq accepted
                        /\ \A w \in result[sealed].expected :
                             /\ work[w].visibility = "inspectable"
                             /\ work[w].rests \subseteq result[sealed].expected
    BY DEF AttributedIsClosed
  <2>2. /\ IsClosure(result[sealed].roots, result[sealed].expected)
        /\ result[sealed].expected \subseteq accepted
    BY <1>2, <2>1 DEF WorkInv
  <2>3. result[sealed].expected = ClosureOf(result[sealed].roots)
    BY <1>2, <2>2, ClosureIs DEF WorkInv
  <2>4. \A w \in result[sealed].expected :
          work[w].visibility = "inspectable" /\ work[w].rests \subseteq result[sealed].expected
    BY <1>2, <2>2 DEF WorkInv, IsClosure, Closed, Inspectable
  <2>5. QED
    BY <2>2, <2>3, <2>4
<1>3. QED
  BY <1>1, <1>2, WorkInvNext, PTL DEF ResearchSpec

-----------------------------------------------------------------------------
(* Shares, their parts and their median.                                   *)

\* A set of naturals that is not empty has a least element.
LEMMA LeastNatural ==
  ASSUME NEW T \in SUBSET Nat, T # {}
  PROVE  \E m \in T : \A n \in T : m <= n
<1> DEFINE R == {p \in Nat \X Nat : p[1] < p[2]}
<1>1. IsWellFoundedOn(R, Nat)
  BY NatLessThanWellFounded DEF OpToRel
<1>2. \A n, m \in Nat : n < m => <<n, m>> \in R
  OBVIOUS
<1> HIDE DEF R
<1>3. PICK m \in T : \A n \in T : <<n, m>> \notin R
  BY <1>1, WFMin
<1>4. \A n \in T : n \in Nat /\ m \in Nat /\ ~(n < m)
  BY <1>2, <1>3
<1>5. QED
  BY <1>4

LEMMA ProductMonotone ==
  ASSUME NEW d \in Nat, NEW x \in Nat, NEW y \in Nat, x <= y
  PROVE  d * x <= d * y
OBVIOUS

LEMMA QuotientMonotone ==
  ASSUME NEW d \in Nat \ {0}, NEW x \in Nat, NEW y \in Nat, x <= y
  PROVE  x \div d <= y \div d
OBVIOUS

LEMMA QuotientBound ==
  ASSUME NEW d \in Nat \ {0}, NEW q \in Nat, NEW x \in Nat, x < (q + 1) * d
  PROVE  x \div d \in 0..q
OBVIOUS

\* Rounding half up never leaves the whole.
LEMMA RoundedBound ==
  ASSUME NEW d \in Nat \ {0}, NEW q \in Nat, NEW a \in 0..d
  PROVE  (q * a + d \div 2) \div d \in 0..q
<1>1. q * a <= q * d
  BY ProductMonotone
<1>2. q * a \in Nat /\ q * d \in Nat /\ d \div 2 \in Nat /\ d \div 2 < d
  OBVIOUS
<1>3. q * a + d \div 2 < q * d + d /\ (q + 1) * d = q * d + d
  BY <1>1, <1>2
<1>4. QED
  BY <1>2, <1>3, QuotientBound

LEMMA ShareInWhole ==
  ASSUME NEW a \in Nat, NEW b \in Nat, a + b # 0
  PROVE  CausalShare(a, b) \in 0..Whole
BY RoundedBound, PolicyAssumption DEF CausalShare

LEMMA PartInBand ==
  ASSUME NEW s \in 0..Whole
  PROVE  FirstPart(s) \in Floor..(Whole - Floor)
<1>1. ((Whole - 2 * Floor) * s + Whole \div 2) \div Whole \in 0..(Whole - 2 * Floor)
  BY RoundedBound, PolicyAssumption
<1>2. QED
  BY <1>1, PolicyAssumption DEF FirstPart

LEMMA PartMonotone ==
  ASSUME NEW s \in 0..Whole, NEW t \in 0..Whole, s <= t
  PROVE  FirstPart(s) <= FirstPart(t)
<1> DEFINE q == Whole - 2 * Floor
<1>1. q \in Nat /\ Whole \in Nat \ {0} /\ Floor \in Nat /\ Whole \div 2 \in Nat
  BY PolicyAssumption
<1> HIDE DEF q
<1>2. q * s \in Nat /\ q * t \in Nat /\ q * s <= q * t
  BY <1>1, ProductMonotone
<1>3. (q * s + Whole \div 2) \div Whole <= (q * t + Whole \div 2) \div Whole
  BY <1>1, <1>2, QuotientMonotone
<1>4. /\ FirstPart(s) = Floor + (q * s + Whole \div 2) \div Whole
      /\ FirstPart(t) = Floor + (q * t + Whole \div 2) \div Whole
  BY DEF FirstPart, q
<1>5. (q * s + Whole \div 2) \div Whole \in Int /\ (q * t + Whole \div 2) \div Whole \in Int
  BY <1>1, <1>2
<1>6. QED
  BY <1>1, <1>3, <1>4, <1>5

SharesOK == IsFiniteSet(Sharing) /\ \A r \in Sharing : committed[r] \in 0..Whole

\* The k-th smallest share is one that a reviewer gave: the least share that
\* k reviewers do not exceed.
LEMMA KthIsGiven ==
  ASSUME SharesOK, NEW k \in 1..Cardinality(Sharing)
  PROVE  Kth(k) \in 0..Whole /\ \E r \in Sharing : committed[r] = Kth(k)
<1> DEFINE T == {v \in 0..Whole : k <= UpTo(v)}
<1>1. Whole \in Nat /\ Cardinality(Sharing) \in Nat
  BY PolicyAssumption, FS_CardinalityType DEF SharesOK
<1>2. Whole \in T
  <2>1. {r \in Sharing : committed[r] <= Whole} = Sharing
    BY <1>1 DEF SharesOK
  <2>2. QED
    BY <1>1, <2>1 DEF UpTo
<1>3. PICK m \in T : \A n \in T : m <= n
  <2>1. T \in SUBSET Nat /\ T # {}
    BY <1>1, <1>2
  <2>2. QED
    BY <2>1, LeastNatural
<1>4. \A v : UpTo(v) \in Nat /\ Below(v) \in Nat
  <2>1. ASSUME NEW v PROVE UpTo(v) \in Nat /\ Below(v) \in Nat
    <3>1. /\ IsFiniteSet({r \in Sharing : committed[r] <= v})
          /\ IsFiniteSet({r \in Sharing : committed[r] < v})
      BY FS_Subset DEF SharesOK
    <3>2. QED
      BY <3>1, FS_CardinalityType DEF UpTo, Below
  <2>2. QED
    BY <2>1
<1>5. Below(m) < k
  <2>1. CASE m = 0
    <3>1. {r \in Sharing : committed[r] < 0} = {}
      BY <1>1 DEF SharesOK
    <3>2. QED
      BY <1>1, <2>1, <3>1, FS_EmptySet DEF Below
  <2>2. CASE m # 0
    <3>1. m - 1 \in 0..Whole /\ m - 1 \notin T
      BY <1>1, <1>3, <2>2
    <3>2. {r \in Sharing : committed[r] < m} = {r \in Sharing : committed[r] <= m - 1}
      BY <1>1, <1>3 DEF SharesOK
    <3>3. Below(m) = UpTo(m - 1)
      BY <3>2 DEF Below, UpTo
    <3>4. ~(k <= UpTo(m - 1))
      BY <3>1
    <3>5. QED
      BY <1>1, <1>4, <3>3, <3>4
  <2>3. QED
    BY <2>1, <2>2
<1>6. \E v \in 0..Whole : Below(v) < k /\ k <= UpTo(v)
  BY <1>3, <1>5
<1>7. Kth(k) \in 0..Whole /\ Below(Kth(k)) < k /\ k <= UpTo(Kth(k))
  BY <1>6 DEF Kth
<1>8. PICK v \in 0..Whole : v = Kth(k) /\ Below(v) < k /\ k <= UpTo(v)
  BY <1>7
<1>9. {r \in Sharing : committed[r] < v} # {r \in Sharing : committed[r] <= v}
  BY <1>1, <1>4, <1>8 DEF Below, UpTo
<1>10. \E r \in Sharing : committed[r] = v
  BY <1>1, <1>8, <1>9 DEF SharesOK
<1>11. QED
  BY <1>8, <1>10

\* The median lies between two shares that reviewers gave.
LEMMA MedianBetween ==
  ASSUME SharesOK, Cardinality(Sharing) >= 2
  PROVE  \E r, q \in Sharing : /\ committed[r] <= MedianShare /\ MedianShare <= committed[q]
                               /\ MedianShare \in 0..Whole
<1>1. PICK n \in Nat : n = Cardinality(Sharing) /\ n >= 2
  BY FS_CardinalityType DEF SharesOK
<1>2. Whole \in Nat
  BY PolicyAssumption
<1>3. CASE n % 2 = 1
  <2>1. n \div 2 + 1 \in 1..n
    BY <1>1, <1>3
  <2>2. PICK r \in Sharing : committed[r] = Kth(n \div 2 + 1) /\ Kth(n \div 2 + 1) \in 0..Whole
    BY <1>1, <2>1, KthIsGiven
  <2>3. MedianShare = committed[r]
    BY <1>1, <1>3, <2>2 DEF MedianShare
  <2>4. QED
    BY <1>2, <2>2, <2>3
<1>4. CASE n % 2 # 1
  <2>1. n \div 2 \in 1..n /\ n \div 2 + 1 \in 1..n
    BY <1>1, <1>4
  <2>2. PICK r \in Sharing : committed[r] = Kth(n \div 2) /\ Kth(n \div 2) \in 0..Whole
    BY <1>1, <2>1, KthIsGiven
  <2>3. PICK q \in Sharing : committed[q] = Kth(n \div 2 + 1) /\ Kth(n \div 2 + 1) \in 0..Whole
    BY <1>1, <2>1, KthIsGiven
  <2>4. MedianShare = (committed[r] + committed[q]) \div 2
    BY <1>1, <1>4, <2>2, <2>3 DEF MedianShare
  <2>5. committed[r] \in 0..Whole /\ committed[q] \in 0..Whole
    BY <2>2, <2>3
  <2>6. CASE committed[r] <= committed[q]
    BY <1>2, <2>4, <2>5, <2>6
  <2>7. CASE committed[q] <= committed[r]
    BY <1>2, <2>4, <2>5, <2>7
  <2>8. QED
    BY <1>2, <2>5, <2>6, <2>7
<1>5. QED
  BY <1>3, <1>4

-----------------------------------------------------------------------------
(* The panel and its decision.                                             *)

\* Reviewers are selected once, closed commitments are complete, and what was
\* revealed is a valid ballot; nothing is decided before the last phase.
PanelInv ==
  /\ caseStage \in {"active", "sealed", "reviewing", "provisional"}
  /\ caseStage \in {"active", "sealed"} => ~commitsClosed /\ shown = {}
  /\ panel \subseteq Roster /\ shown \subseteq panel
  /\ committed \in [Roster -> Ballots \cup {Uncommitted}]
  /\ commitsClosed => \A r \in panel : committed[r] # Uncommitted
  /\ \A r \in shown : committed[r] # Void /\ committed[r] # Uncommitted
  /\ decision # NoDecision => caseStage = "provisional"
  /\ DecisionSound

\* Whatever the order, those selected are independent.
LEMMA SelectedIndependent ==
  ASSUME NEW o \in Orders
  PROVE  /\ Selected(o) \subseteq Roster
         /\ \A r \in Selected(o) : r \in fit /\ controllerOf[r] \notin AgentControllers
         /\ \A r, q \in Selected(o) : controllerOf[r] = controllerOf[q] => r = q
<1>1. \A r \in Selected(o) : r \in Roster /\ Leads(r, o)
  BY DEF Selected
<1>2. ASSUME NEW r \in Selected(o), NEW q \in Selected(o), controllerOf[r] = controllerOf[q]
      PROVE  r = q
  <2>1. o[r] <= o[q] /\ o[q] <= o[r]
    BY <1>1, <1>2 DEF Leads
  <2>2. o[r] \in Int /\ o[q] \in Int
    <3>1. Cardinality(Roster) \in Nat
      BY FS_CardinalityType, PolicyAssumption
    <3>2. QED
      BY <1>1, <3>1 DEF Orders
  <2>3. o[r] = o[q]
    BY <2>1, <2>2
  <2>4. QED
    BY <1>1, <2>3 DEF Orders
<1>3. QED
  BY <1>1, <1>2 DEF Leads, Eligible

\* What was revealed and gives a share gives one of the whole.
LEMMA RevealedShares == ASSUME PanelInv PROVE SharesOK
<1>1. Sharing \subseteq Roster
  BY DEF PanelInv, Sharing
<1>2. IsFiniteSet(Sharing)
  BY <1>1, FS_Subset, PolicyAssumption
<1>3. ASSUME NEW r \in Sharing PROVE committed[r] \in 0..Whole
  <2>1. committed[r] \in Ballots \ {NoShare, Void}
    BY <1>1 DEF PanelInv, Sharing
  <2>2. PICK a, b \in 0..MaxWeight : committed[r] = CausalShare(a, b)
    BY <2>1 DEF Ballots
  <2>3. a \in Nat /\ b \in Nat /\ a + b # 0
    BY <2>1, <2>2, PolicyAssumption DEF CausalShare
  <2>4. QED
    BY <2>2, <2>3, ShareInWhole
<1>4. QED
  BY <1>2, <1>3 DEF SharesOK

\* The decision that the revealed ballots lead to.
LEMMA PanelDecides == ASSUME PanelInv, RecordDecision PROVE PanelInv'
<1>1. /\ UNCHANGED <<panel, committed, commitsClosed, shown, fit>>
      /\ caseStage' = "provisional" /\ caseStage = "reviewing"
      /\ shown # panel => time >= Reveal
  BY DEF RecordDecision
<1>2. SharesOK
  BY RevealedShares
<1>3. PanelIndependent'
  BY <1>1 DEF PanelInv, DecisionSound, PanelIndependent
<1>4. CASE Conclusive
  <2>1. decision' = [status |-> "decided", first |-> FirstPart(MedianShare), at |-> time]
    BY <1>4 DEF RecordDecision
  <2>2. PICK r, q \in Sharing :
          /\ committed[r] <= MedianShare /\ MedianShare <= committed[q]
          /\ MedianShare \in 0..Whole
    BY <1>2, <1>4, MedianBetween DEF Conclusive
  <2>3. committed[r] \in 0..Whole /\ committed[q] \in 0..Whole
    BY <1>2 DEF SharesOK
  <2>4. /\ FirstPart(committed[r]) <= FirstPart(MedianShare)
        /\ FirstPart(MedianShare) <= FirstPart(committed[q])
        /\ FirstPart(MedianShare) \in Floor..(Whole - Floor)
    BY <2>2, <2>3, PartMonotone, PartInBand
  <2>5. /\ decision'.first = FirstPart(MedianShare) /\ decision'.at = time
    BY <2>1
  <2>6. Sharing' = Sharing
    BY <1>1 DEF Sharing
  <2>7. AllocationInBand'
    BY <1>1, <2>4, <2>5, <2>6 DEF AllocationInBand, FirstPart
  <2>8. NobodyCutOff'
    BY <1>1, <2>5 DEF NobodyCutOff
  <2>9. QED
    BY <1>1, <1>3, <2>7, <2>8 DEF PanelInv, DecisionSound
<1>5. CASE ~Conclusive
  <2>1. decision'.status = "inconclusive" /\ decision'.at = time
    BY <1>5 DEF RecordDecision
  <2>2. NobodyCutOff' /\ AllocationInBand'
    BY <1>1, <2>1 DEF NobodyCutOff, AllocationInBand
  <2>3. QED
    BY <1>1, <1>3, <2>2 DEF PanelInv, DecisionSound
<1>6. QED
  BY <1>4, <1>5

\* Of a decision that was not recorded nothing is claimed.
LEMMA Undecided ==
  ASSUME decision = NoDecision
  PROVE  NobodyCutOff /\ AllocationInBand
BY DEF NoDecision, NobodyCutOff, AllocationInBand

LEMMA PanelInvNext ==
  ASSUME PanelInv, [AdjudicationNext]_adjudicationVars
  PROVE  PanelInv'
<1>1. CASE UNCHANGED <<caseStage, panel, committed, commitsClosed, shown, decision, fit>>
  BY <1>1 DEF PanelInv, DecisionSound, PanelIndependent, NobodyCutOff, AllocationInBand, Sharing
<1>2. CASE SealEvidence
  <2>1. decision' = NoDecision
    BY <1>2 DEF SealEvidence, PanelInv
  <2>2. (NobodyCutOff /\ AllocationInBand)'
    BY <2>1, Undecided DEF NoDecision, NobodyCutOff, AllocationInBand
  <2>3. QED
    BY <1>2, <2>1, <2>2 DEF SealEvidence, PanelInv, DecisionSound, PanelIndependent
<1>3. CASE AssignReviewers
  <2>1. decision' = NoDecision
    BY <1>3 DEF AssignReviewers, PanelInv
  <2>2. (NobodyCutOff /\ AllocationInBand)'
    BY <2>1 DEF NoDecision, NobodyCutOff, AllocationInBand
  <2>3. PICK o \in Orders : Cardinality(Selected(o)) = PanelSize /\ panel' = Selected(o)
    BY <1>3 DEF AssignReviewers
  <2>4. PanelIndependent' /\ panel' \subseteq Roster
    BY <1>3, <2>3, SelectedIndependent DEF AssignReviewers, PanelIndependent
  <2>5. QED
    BY <1>3, <2>1, <2>2, <2>4 DEF AssignReviewers, PanelInv, DecisionSound
<1>4. ASSUME NEW r \in Roster, CommitReview(r) PROVE PanelInv'
  <2>1. decision' = NoDecision
    BY <1>4 DEF CommitReview, PanelInv
  <2>2. (NobodyCutOff /\ AllocationInBand)'
    BY <2>1 DEF NoDecision, NobodyCutOff, AllocationInBand
  <2>3. PICK b \in Ballots : committed' = [committed EXCEPT ![r] = b]
    BY <1>4 DEF CommitReview
  <2>4. /\ committed' \in [Roster -> Ballots \cup {Uncommitted}]
        /\ \A q \in Roster \ {r} : committed'[q] = committed[q]
    BY <2>3 DEF PanelInv
  <2>5. r \notin shown
    BY <1>4 DEF CommitReview, PanelInv
  <2>6. PanelIndependent'
    BY <1>4 DEF CommitReview, PanelInv, DecisionSound, PanelIndependent
  <2>7. QED
    BY <1>4, <2>1, <2>2, <2>4, <2>5, <2>6 DEF CommitReview, PanelInv, DecisionSound
<1>5. CASE CloseReviewCommits
  <2>1. decision' = NoDecision
    BY <1>5 DEF CloseReviewCommits, PanelInv
  <2>2. (NobodyCutOff /\ AllocationInBand)'
    BY <2>1 DEF NoDecision, NobodyCutOff, AllocationInBand
  <2>3. QED
    BY <1>5, <2>1, <2>2 DEF CloseReviewCommits, PanelInv, DecisionSound, PanelIndependent
<1>6. ASSUME NEW r \in Roster, RevealReview(r) PROVE PanelInv'
  <2>1. decision' = NoDecision
    BY <1>6 DEF RevealReview, PanelInv
  <2>2. (NobodyCutOff /\ AllocationInBand)'
    BY <2>1 DEF NoDecision, NobodyCutOff, AllocationInBand
  <2>3. QED
    BY <1>6, <2>1, <2>2 DEF RevealReview, PanelInv, DecisionSound, PanelIndependent
<1>7. \/ UNCHANGED <<caseStage, panel, committed, commitsClosed, shown, decision, fit>>
      \/ SealEvidence \/ AssignReviewers \/ CloseReviewCommits \/ RecordDecision
      \/ \E r \in Roster : CommitReview(r) \/ RevealReview(r)
  BY DEF AdjudicationNext, adjudicationVars, TimeGoesOn, AddContribution,
         RecordTechnicalReceipt
<1>8. QED
  BY <1>1, <1>2, <1>3, <1>4, <1>5, <1>6, <1>7, PanelDecides

\* For any roster, controllers, ballots and deadlines, the panel is full and
\* independent, nobody on it is cut off, and a decided allocation leaves both
\* floors and lies between the parts that the revealed shares would give.
THEOREM DecisionsAreSound == AdjudicationSpec => []DecisionSound
<1>1. ASSUME AdjudicationInit PROVE PanelInv
  <2>1. NobodyCutOff /\ AllocationInBand
    BY <1>1, Undecided DEF AdjudicationInit
  <2>2. QED
    BY <1>1, <2>1 DEF AdjudicationInit, PanelInv, DecisionSound, PanelIndependent
<1>2. PanelInv => DecisionSound
  BY DEF PanelInv
<1>3. QED
  BY <1>1, <1>2, PanelInvNext, PTL DEF AdjudicationSpec

=============================================================================
