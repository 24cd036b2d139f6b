----------------------------- MODULE MCProtocols -----------------------------
(* Finite instances for TLC of the two protocols that Boule keeps beside the *)
(* workspace one.  A behaviour runs one of three machines, chosen when it    *)
(* begins, and the others rest in their initial state.                       *)
EXTENDS CommunityResearch, CommunityCredit, Adjudication, TLC

CONSTANTS s1, s3, v1, v2, v3, v4, r1, r2, r3, r4, r5, r6

VARIABLE part

MCOwnerOf == s1 :> "ann" @@ s3 :> "bob"
MCControllerOf == r1 :> "k1" @@ r2 :> "k1" @@ r3 :> "k2" @@ r4 :> "k3"
                  @@ r5 :> "agent" @@ r6 :> "k4"
MCFitSets == {Roster, Roster \ {r1}}
MCDestination == 1 :> 2 @@ 2 :> 3 @@ 3 :> 1
MCGrants == {Scopes}

protocolVars == <<part, researchVars, creditVars, adjudicationVars>>

MCInit ==
  /\ part \in {"research", "credit", "adjudication"}
  /\ ResearchInit /\ CreditInit /\ AdjudicationInit
  /\ part # "credit" => causal = Participants
  /\ part # "adjudication" => fit = Roster

\* Claims and works have fresh names, drawn in one order.
Research ==
  /\ part = "research" /\ ResearchNext
  /\ claim'["c2"] # Nobody => claim'["c1"] # Nobody
  /\ work'["w2"] # Nobody => work'["w1"] # Nobody
  /\ UNCHANGED <<part, creditVars, adjudicationVars>>
Credit == part = "credit" /\ CreditNext
            /\ UNCHANGED <<part, researchVars, adjudicationVars>>
Adjudicate == part = "adjudication" /\ AdjudicationNext
            /\ UNCHANGED <<part, researchVars, creditVars>>

MCNext == Research \/ Credit \/ Adjudicate

MCSpec ==
  /\ MCInit /\ [][MCNext]_protocolVars
  /\ WF_protocolVars(part = "credit" /\ ClerkSettles
                     /\ UNCHANGED <<part, researchVars, adjudicationVars>>)

=============================================================================
