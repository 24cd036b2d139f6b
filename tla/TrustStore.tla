----------------------------- MODULE TrustStore -----------------------------
(***************************************************************************)
(* Trust on first use of a registry: src/boule/registry_client.py and      *)
(* trust_store.py, against the chain proofs of registry.py.                *)
(*                                                                         *)
(* Several clients of one machine share the trust store, which holds the   *)
(* count and the head each registry was last accepted with.  A client      *)
(* fetches one signed snapshot, reads the anchor, fetches the proofs that  *)
(* lead from the anchor to the snapshot, and only then takes the store's   *)
(* lock: the registry may grow, or be put back to an old copy and grow     *)
(* differently, and another client may move the anchor, between any two of *)
(* these steps.                                                            *)
(*                                                                         *)
(* A place <<b, n>> of the registry's history is its n-th entry on branch  *)
(* b; the branches share their first ForkAt entries, and a head stands for *)
(* every entry before it, as a hash does.                                  *)
(***************************************************************************)
EXTENDS Integers, Sequences

CONSTANTS Clients,
          NoPlace,     \* no anchor
          ForkAt,      \* entries that a restored copy of the registry keeps
          MaxEntries,  \* bound on the registry's length
          ProofLimit   \* MAX_CHAIN_PROOF_ENTRIES

ASSUME TrustAssumption ==
  /\ ForkAt \in Nat \ {0} /\ MaxEntries \in Nat /\ ProofLimit \in Nat \ {0}
  /\ NoPlace \notin {1, 2} \X Nat

VARIABLES branch, count,  \* the registry
          anchor,         \* the trust store
          step,           \* where each client is
          snap,           \* the snapshot it fetched
          proofs,         \* the chain proofs it fetched
          reached,        \* the count that they reach
          attempt,        \* its attempts so far
          verdict,        \* how its last fetch ended
          accepted        \* history: the snapshots that were ever accepted

client == <<step, snap, proofs, reached, attempt, verdict>>
trustVars == <<branch, count, anchor, client, accepted>>

-----------------------------------------------------------------------------
Place(b, n) == <<IF n <= ForkAt THEN 1 ELSE b, n>>
CountOf(x) == x[2]

\* y is x or extends it.
Extends(x, y) == CountOf(x) <= CountOf(y) /\ Place(y[1], CountOf(x)) = x

Least(m, n) == IF m <= n THEN m ELSE n

\* The count up to which the next proof from count n goes.
ProofEnd(n, to) == Least(n + ProofLimit, to)

TrustInit ==
  /\ branch = 1 /\ count = ForkAt
  /\ anchor = NoPlace
  /\ step = [c \in Clients |-> "idle"]
  /\ snap = [c \in Clients |-> NoPlace]
  /\ proofs = [c \in Clients |-> <<>>]
  /\ reached = [c \in Clients |-> 0]
  /\ attempt = [c \in Clients |-> 0]
  /\ verdict = [c \in Clients |-> "none"]
  /\ accepted = {}

Move(c, s) == step' = [step EXCEPT ![c] = s]

\* The registry appends an entry ...
Grow ==
  /\ count < MaxEntries
  /\ count' = count + 1
  /\ UNCHANGED <<branch, anchor, client, accepted>>

\* ... or an old copy of it is put back, once.
Restore ==
  /\ branch = 1
  /\ branch' = 2 /\ count' = ForkAt
  /\ UNCHANGED <<anchor, client, accepted>>

\* fetch_registry_index: the snapshot is fetched once and verified.
FetchSnapshot(c) ==
  /\ step[c] = "idle"
  /\ snap' = [snap EXCEPT ![c] = Place(branch, count)]
  /\ attempt' = [attempt EXCEPT ![c] = 1]
  /\ verdict' = [verdict EXCEPT ![c] = "none"]
  /\ Move(c, "anchor")
  /\ UNCHANGED <<branch, count, anchor, proofs, reached, accepted>>

\* Each attempt reads the anchor: proofs are needed from an older one only.
ReadAnchor(c) ==
  /\ step[c] = "anchor"
  /\ proofs' = [proofs EXCEPT ![c] = <<>>]
  /\ reached' = [reached EXCEPT ![c] = IF anchor = NoPlace THEN CountOf(snap[c])
                                       ELSE CountOf(anchor)]
  /\ Move(c, "proofs")
  /\ UNCHANGED <<branch, count, anchor, snap, attempt, verdict, accepted>>

\* The fetch is over, and what it held is gone.
EndFetch(c, how) ==
  /\ Move(c, "idle")
  /\ verdict' = [verdict EXCEPT ![c] = how]
  /\ snap' = [snap EXCEPT ![c] = NoPlace]
  /\ proofs' = [proofs EXCEPT ![c] = <<>>]
  /\ reached' = [reached EXCEPT ![c] = 0]
  /\ attempt' = [attempt EXCEPT ![c] = 0]

\* chain_proof: the registry as it is now answers for its own history, and
\* refuses a range that it does not have.
FetchProof(c) ==
  /\ step[c] = "proofs" /\ reached[c] < CountOf(snap[c])
  /\ LET to == ProofEnd(reached[c], CountOf(snap[c])) IN
     IF to > count THEN EndFetch(c, "unavailable")
     ELSE /\ proofs' = [proofs EXCEPT ![c] =
               Append(@, [from |-> Place(branch, reached[c]), to |-> Place(branch, to)])]
          /\ reached' = [reached EXCEPT ![c] = to]
          /\ UNCHANGED <<step, snap, attempt, verdict>>
  /\ UNCHANGED <<branch, count, anchor, accepted>>

\* Mutant: the first proof is not compared with the anchor that is stored.
InRangeOfItself(ps, a, s) ==
  /\ ps # <<>>
  /\ \A i \in DOMAIN ps \ {1} : ps[i].from = ps[i - 1].to

\* The proofs of ps lead from place a to the count of s, one after the other.
InRange(ps, a, s) ==
  \A i \in DOMAIN ps :
    LET start == IF i = 1 THEN a ELSE ps[i - 1].to IN
    /\ ps[i].from = start
    /\ CountOf(ps[i].to) = ProofEnd(CountOf(start), CountOf(s))

EndOf(ps, a) == IF ps = <<>> THEN a ELSE ps[Len(ps)].to

\* trust_registry_snapshot, under the lock of the trust store.
Accept(c, how) ==
  /\ anchor' = snap[c]
  /\ accepted' = accepted \cup {snap[c]}
  /\ EndFetch(c, how)

Refuse(c, how) == EndFetch(c, how) /\ UNCHANGED <<anchor, accepted>>

\* Proofs that do not start from the anchor that is now stored are fetched a
\* second time.
TryAgain(c) ==
  /\ Move(c, "anchor")
  /\ attempt' = [attempt EXCEPT ![c] = 2]
  /\ UNCHANGED <<anchor, snap, proofs, reached, verdict, accepted>>

Trust(c) ==
  /\ step[c] = "proofs" /\ reached[c] >= CountOf(snap[c])
  /\ \/ anchor = NoPlace /\ Accept(c, "first_use")
     \/ /\ anchor # NoPlace
        /\ \/ CountOf(snap[c]) < CountOf(anchor) /\ Refuse(c, "rollback")
           \/ snap[c] = anchor /\ Accept(c, "pinned")
           \/ /\ CountOf(snap[c]) = CountOf(anchor) /\ snap[c] # anchor
              /\ Refuse(c, "fork")
           \/ /\ CountOf(snap[c]) > CountOf(anchor)
              /\ IF InRange(proofs[c], anchor, snap[c])
                 THEN IF EndOf(proofs[c], anchor) = snap[c]
                      THEN Accept(c, "advanced") ELSE Refuse(c, "unproved")
                 ELSE IF attempt[c] = 1 THEN TryAgain(c) ELSE Refuse(c, "unproved")
  /\ UNCHANGED <<branch, count>>

TrustNext ==
  \/ Grow \/ Restore
  \/ \E c \in Clients : FetchSnapshot(c) \/ ReadAnchor(c) \/ FetchProof(c) \/ Trust(c)

TrustSpec == TrustInit /\ [][TrustNext]_trustVars

-----------------------------------------------------------------------------
(* Properties.                                                             *)

\* All that the clients of one store ever accepted lies on one history, though
\* the registry was put back and forked while their fetches overlapped: the
\* proofs are checked again from the anchor that is stored under the lock.
AcceptedIsOneHistory ==
  \A x, y \in accepted : Extends(x, y) \/ Extends(y, x)

=============================================================================
