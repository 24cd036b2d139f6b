---------------------------- MODULE LiveProjector ----------------------------
(***************************************************************************)
(* The observatory's view of one LIVE case: LiveProjector and              *)
(* fetch_case_state of src/boule/registry_api.py with the durable anchors  *)
(* of src/boule/case_anchor_store.py.                                      *)
(*                                                                         *)
(* A refresh submits a fetch of the case's clerk to a bounded pool and     *)
(* waits for it until a deadline.  A fetch that is given up goes on, and   *)
(* still records the chain it verified, while later refreshes submit new   *)
(* fetches: the store and the memory's copy of the anchor are written by   *)
(* all of them.  The server may be restarted, which loses the memory.      *)
(*                                                                         *)
(* A position <<b, n>> of the case's chain is its n-th event on branch b;  *)
(* the branches share their first fork events.                             *)
(***************************************************************************)
EXTENDS Integers, FiniteSets

CONSTANTS Fetches,     \* the slots of the pool, max_workers
          Nothing,     \* no position
          Activation,  \* the count the registry recorded when the case went LIVE
          Forks,       \* how many events a restored clerk may keep
          MaxEvents,   \* bound on the case's chain
          ChunkLimit,  \* MAX_CHAIN_PROOF_LINKS
          MaxMishaps   \* bound on restarts and on refreshes that give up

ASSUME ProjectorAssumption ==
  /\ Activation \in Nat /\ Forks \subseteq Nat
  /\ MaxEvents \in Nat /\ MaxEvents >= Activation
  /\ ChunkLimit \in Nat \ {0} /\ MaxMishaps \in Nat
  /\ IsFiniteSet(Fetches) /\ Nothing \notin {1, 2} \X Nat

VARIABLES fork,      \* how many events a restored clerk keeps
          clerk,     \* the case clerk's own position
          store,     \* the anchor on disk
          memory,    \* the projector's anchor
          waiting,   \* the fetch a refresh waits for
          free,      \* fetch slots that are free
          state,     \* where each fetch is
          base,      \* the position it has verified up to
          goal,      \* the snapshot it fetched
          moved,     \* it verified a chunk
          shown,     \* the case in the projection
          mishaps

fetch == <<state, base, goal, moved>>
liveVars == <<fork, clerk, store, memory, waiting, free, fetch, shown, mishaps>>

-----------------------------------------------------------------------------
Pos(b, n) == <<IF n <= fork THEN 1 ELSE b, n>>
Count(x) == x[2]
Recorded == Pos(1, Activation)
Positions == {Pos(b, n) : b \in {1, 2}, n \in 0..MaxEvents}

\* y is x or extends it.
Follows(x, y) == Count(x) <= Count(y) /\ Pos(y[1], Count(x)) = x

Smaller(m, n) == IF m <= n THEN m ELSE n

LiveInit ==
  /\ fork \in Forks
  /\ clerk = Recorded
  /\ store = Nothing /\ memory = Nothing
  /\ waiting = Nothing
  /\ free = Cardinality(Fetches)
  /\ state = [f \in Fetches |-> "done"]
  /\ base = [f \in Fetches |-> Nothing]
  /\ goal = [f \in Fetches |-> Nothing]
  /\ moved = [f \in Fetches |-> FALSE]
  /\ shown = "nothing"
  /\ mishaps = 0

\* The clerk accepts an event ...
ClerkAccepts ==
  /\ Count(clerk) < MaxEvents
  /\ clerk' = Pos(clerk[1], Count(clerk) + 1)
  /\ UNCHANGED <<fork, store, memory, waiting, free, fetch, shown, mishaps>>

\* ... or is put back to an old copy and goes on differently.
ClerkRestored ==
  /\ clerk[1] = 1 /\ Count(clerk) > fork /\ mishaps < MaxMishaps
  /\ clerk' = Pos(2, fork + 1)
  /\ mishaps' = mishaps + 1
  /\ UNCHANGED <<fork, store, memory, waiting, free, fetch, shown>>

-----------------------------------------------------------------------------
(* A refresh.                                                              *)

\* anchor_for: what is stored, or the registry's record when that is newer.
StoredAnchor ==
  IF store = Nothing THEN Recorded
  ELSE IF Count(store) < Activation THEN Recorded ELSE store

\* The anchor a fetch starts from: the newer of the stored one and memory's.
StartAnchor ==
  IF memory = Nothing THEN StoredAnchor
  ELSE IF Count(StoredAnchor) > Count(memory) THEN StoredAnchor ELSE memory

\* The error that makes a refresh fail as a whole.
Conflict ==
  memory # Nothing /\ Count(StoredAnchor) = Count(memory) /\ StoredAnchor # memory

BeginRefresh ==
  /\ waiting = Nothing /\ ~Conflict
  /\ IF free > 0
     THEN \E f \in Fetches :
            /\ state[f] = "done"
            /\ free' = free - 1
            /\ waiting' = f
            /\ state' = [state EXCEPT ![f] = "queued"]
            /\ base' = [base EXCEPT ![f] = StartAnchor]
            /\ UNCHANGED shown
     ELSE shown' = "stale" /\ UNCHANGED <<waiting, free, state, base>>
  /\ UNCHANGED <<fork, clerk, store, memory, goal, moved, mishaps>>

\* The fetch is over: its slot is free and its values are gone.
Release(f) ==
  /\ free' = free + 1
  /\ state' = [state EXCEPT ![f] = "done"]
  /\ base' = [base EXCEPT ![f] = Nothing]
  /\ goal' = [goal EXCEPT ![f] = Nothing]
  /\ moved' = [moved EXCEPT ![f] = FALSE]

\* What a refresh that still waits for f shows of the case.
Shows(f, what) ==
  /\ shown' = IF waiting = f THEN what ELSE shown
  /\ waiting' = IF waiting = f THEN Nothing ELSE waiting

\* Mutant: a fetch that fails keeps its slot.
FetchFailsHolding(f) ==
  /\ free' = free
  /\ state' = [state EXCEPT ![f] = "done"]
  /\ base' = [base EXCEPT ![f] = Nothing]
  /\ goal' = [goal EXCEPT ![f] = Nothing]
  /\ moved' = [moved EXCEPT ![f] = FALSE]
  /\ Shows(f, "stale")

FetchFails(f) == Release(f) /\ Shows(f, "stale")

\* The refresh reaches its deadline.  A fetch that has not started is
\* cancelled, and one that has goes on by itself.
GiveUp(f) ==
  /\ waiting = f /\ mishaps < MaxMishaps
  /\ mishaps' = mishaps + 1
  /\ shown' = "stale" /\ waiting' = Nothing
  /\ IF state[f] = "queued" THEN Release(f) ELSE UNCHANGED <<free, fetch>>
  /\ UNCHANGED <<fork, clerk, store, memory>>

-----------------------------------------------------------------------------
(* A fetch.                                                                *)

\* fetch_case_state: a signed snapshot, not below the anchor it starts from.
FetchState(f) ==
  /\ state[f] = "queued"
  /\ \/ /\ Count(clerk) > Count(base[f]) \/ clerk = base[f]
        /\ goal' = [goal EXCEPT ![f] = clerk]
        /\ state' = [state EXCEPT ![f] = "proofs"]
        /\ UNCHANGED <<free, base, moved, waiting, shown>>
     \/ /\ Count(clerk) <= Count(base[f]) /\ clerk # base[f]
        /\ FetchFails(f)
  /\ UNCHANGED <<fork, clerk, store, memory, mishaps>>

\* The position that the next chunk of f reaches.
ChunkEnd(f) ==
  Pos(clerk[1], Smaller(Count(base[f]) + ChunkLimit, Count(goal[f])))

\* The clerk as it is now proves the chunk, from the position f has reached.
ChunkVerifies(f) ==
  /\ Count(ChunkEnd(f)) <= Count(clerk)
  /\ Pos(clerk[1], Count(base[f])) = base[f]

\* Mutant: what is stored is not looked at.
MayAdvanceOverStored(x) ==
  IF Count(x) = Activation THEN x = Recorded ELSE Count(x) > Activation

\* advance: not below the registry's record nor below what is stored.
MayAdvance(x) ==
  /\ IF Count(x) = Activation THEN x = Recorded ELSE Count(x) > Activation
  /\ store # Nothing => Count(x) > Count(store) \/ x = store

\* _checkpoint writes the store first ...
FetchChunk(f) ==
  /\ state[f] = "proofs" /\ Count(base[f]) < Count(goal[f])
  /\ IF ChunkVerifies(f) /\ MayAdvance(ChunkEnd(f))
     THEN /\ store' = ChunkEnd(f)
          /\ base' = [base EXCEPT ![f] = ChunkEnd(f)]
          /\ moved' = [moved EXCEPT ![f] = TRUE]
          /\ state' = [state EXCEPT ![f] = "remember"]
          /\ UNCHANGED <<free, goal, waiting, shown>>
     ELSE FetchFails(f) /\ UNCHANGED store
  /\ UNCHANGED <<fork, clerk, memory, mishaps>>

\* ... and then the memory, unless another fetch put a newer anchor there.
Newer(x) == IF memory = Nothing \/ Count(x) > Count(memory) THEN x ELSE memory

Remember(f) ==
  /\ state[f] = "remember"
  /\ memory' = Newer(base[f])
  /\ state' = [state EXCEPT ![f] = "proofs"]
  /\ UNCHANGED <<fork, clerk, store, waiting, free, base, goal, moved, shown, mishaps>>

\* The proofs are complete.  The refresh projects the case and checkpoints the
\* snapshot once more, which an anchor that has moved on since refuses.
FinishFetch(f) ==
  /\ state[f] = "proofs" /\ Count(base[f]) >= Count(goal[f])
  /\ Release(f)
  /\ IF waiting = f /\ base[f] = goal[f] /\ MayAdvance(goal[f])
     THEN store' = goal[f] /\ memory' = Newer(goal[f]) /\ Shows(f, "fresh")
     ELSE Shows(f, "stale") /\ UNCHANGED <<store, memory>>
  /\ UNCHANGED <<fork, clerk, mishaps>>

\* The fetch's own deadline.  A fetch has time for at least one chunk.
FetchTimesOut(f) ==
  /\ state[f] = "proofs" /\ moved[f]
  /\ FetchFails(f)
  /\ UNCHANGED <<fork, clerk, store, memory, mishaps>>

\* The server is restarted.
Restart ==
  /\ mishaps < MaxMishaps /\ mishaps' = mishaps + 1
  /\ memory' = Nothing /\ waiting' = Nothing /\ shown' = "nothing"
  /\ free' = Cardinality(Fetches)
  /\ state' = [f \in Fetches |-> "done"]
  /\ base' = [f \in Fetches |-> Nothing]
  /\ goal' = [f \in Fetches |-> Nothing]
  /\ moved' = [f \in Fetches |-> FALSE]
  /\ UNCHANGED <<fork, clerk, store>>

FetchStep(f) == FetchState(f) \/ FetchChunk(f) \/ Remember(f) \/ FinishFetch(f)

LiveNext ==
  \/ ClerkAccepts \/ ClerkRestored \/ BeginRefresh \/ Restart
  \/ \E f \in Fetches : FetchStep(f) \/ GiveUp(f) \/ FetchTimesOut(f)

LiveSpec == LiveInit /\ [][LiveNext]_liveVars

-----------------------------------------------------------------------------
(* Properties.                                                             *)

\* Every slot of the pool is free or held by one fetch: one that finishes, one
\* that fails, one that is cancelled and one that outlives its refresh all give
\* theirs back once (_release_cancelled_fetch_slot, _fetch_case).
SlotsKept ==
  free + Cardinality({f \in Fetches : state[f] # "done"}) = Cardinality(Fetches)

\* What is stored extends the position that the registry recorded, also when
\* the clerk was restored to before it (anchor_for, advance).
StoredExtendsRecord == store # Nothing => Follows(Recorded, store)

\* The memory's anchor is never ahead of the durable one, and never at the same
\* height on another branch: the refresh does not stop over a conflict between
\* them, whichever fetches wrote them in whichever order.
MemoryIsDurable ==
  memory # Nothing =>
    /\ store # Nothing /\ Count(memory) <= Count(store)
    /\ Count(memory) = Count(store) => memory = store

\* The three anchors of a case agree: the recorded, the stored and the cached.
AnchorsAgree == StoredExtendsRecord /\ MemoryIsDurable

\* The stored anchor never goes back, nor to another event of the same height.
AnchorKept ==
  [][store # Nothing =>
       store' = store \/ (store' # Nothing /\ Count(store') > Count(store))]_liveVars

\* A clerk that is not restored is shown fresh again and again once refreshes
\* stop giving up, though no fetch may have time for more than one chunk: each
\* resumes from what the ones before it verified.
CatchesUp == <>[](clerk[1] = 1) => []<>(shown = "fresh")

=============================================================================
