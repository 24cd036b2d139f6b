------------------------- MODULE LiveProjectorProofs -------------------------
(***************************************************************************)
(* Proofs about LiveProjector, for any pool, chain, fork and chunk size.   *)
(***************************************************************************)
EXTENDS LiveProjector, FiniteSetTheorems, TLAPS

-----------------------------------------------------------------------------
(* Positions.                                                              *)

LEMMA PositionFacts ==
  ASSUME fork \in Nat, NEW x \in Positions
  PROVE  /\ Count(x) \in 0..MaxEvents /\ x[1] \in {1, 2}
         /\ x = Pos(x[1], Count(x)) /\ x # Nothing
<1>1. PICK b \in {1, 2}, n \in 0..MaxEvents : x = Pos(b, n)
  BY DEF Positions
<1>2. n \in Nat
  BY <1>1, ProjectorAssumption
<1>3. x = <<IF n <= fork THEN 1 ELSE b, n>>
  BY <1>1 DEF Pos
<1>4. x[1] = (IF n <= fork THEN 1 ELSE b) /\ x[2] = n
  BY <1>3
<1>5. x \in {1, 2} \X Nat
  BY <1>2, <1>3
<1> QED
  BY <1>1, <1>3, <1>4, <1>5, ProjectorAssumption DEF Pos, Count

LEMMA PosIsPosition ==
  ASSUME NEW b \in {1, 2}, NEW n \in 0..MaxEvents
  PROVE  Pos(b, n) \in Positions /\ Count(Pos(b, n)) = n
BY DEF Pos, Positions, Count

LEMMA RecordedIsPosition ==
  Recorded \in Positions /\ Count(Recorded) = Activation /\ Activation \in Nat
<1>1. Activation \in 0..MaxEvents
  BY ProjectorAssumption
<1> QED
  BY <1>1, PosIsPosition, ProjectorAssumption DEF Recorded

\* A chunk that the clerk proves from a position that follows the registry's
\* record leads to one that does.
LEMMA ProvedFollows ==
  ASSUME fork \in Nat, NEW x \in Positions, Follows(Recorded, x),
         NEW b \in {1, 2}, NEW n \in 0..MaxEvents, n >= Count(x),
         Pos(b, Count(x)) = x
  PROVE  Follows(Recorded, Pos(b, n))
<1>1. Activation \in Nat /\ n \in Nat /\ Count(x) \in Nat
  BY PositionFacts, RecordedIsPosition, ProjectorAssumption
<1>2. Activation <= Count(x) /\ Pos(x[1], Activation) = <<IF Activation <= fork THEN 1 ELSE 1, Activation>>
  BY RecordedIsPosition DEF Follows, Recorded, Pos
<1>3. CASE Activation <= fork
  BY <1>1, <1>2, <1>3, PosIsPosition DEF Follows, Recorded, Pos, Count
<1>4. CASE ~(Activation <= fork)
  <2>1. x[1] = 1
    BY <1>2, <1>4 DEF Pos
  <2>2. ~(Count(x) <= fork) /\ ~(n <= fork)
    BY <1>1, <1>2, <1>4
  <2>3. b = 1
    BY <2>1, <2>2 DEF Pos
  <2> QED
    BY <1>1, <1>2, <1>4, <2>2, <2>3 DEF Follows, Recorded, Pos, Count
<1> QED
  BY <1>3, <1>4

-----------------------------------------------------------------------------
(* Types.                                                                  *)

FetchStates == {"done", "queued", "proofs", "remember"}

AnchorTypes ==
  /\ fork \in Nat /\ clerk \in Positions
  /\ store \in Positions \cup {Nothing} /\ memory \in Positions \cup {Nothing}
  /\ state \in [Fetches -> FetchStates]
  /\ base \in [Fetches -> Positions \cup {Nothing}]
  /\ goal \in [Fetches -> Positions \cup {Nothing}]

\* The anchors that a fetch may start from.
LEMMA AnchorIsPosition ==
  ASSUME AnchorTypes
  PROVE  StoredAnchor \in Positions /\ StartAnchor \in Positions
BY RecordedIsPosition DEF AnchorTypes, StoredAnchor, StartAnchor

\* A chunk ends at a position that is not below the one it starts from.
LEMMA ChunkIsPosition ==
  ASSUME AnchorTypes, NEW f \in Fetches, base[f] \in Positions, goal[f] \in Positions,
         Count(base[f]) < Count(goal[f])
  PROVE  /\ ChunkEnd(f) \in Positions
         /\ \E n \in 0..MaxEvents : ChunkEnd(f) = Pos(clerk[1], n) /\ n >= Count(base[f])
<1>1. clerk[1] \in {1, 2} /\ Count(base[f]) \in 0..MaxEvents /\ Count(goal[f]) \in 0..MaxEvents
  BY PositionFacts DEF AnchorTypes
<1>2. PICK n : n = Smaller(Count(base[f]) + ChunkLimit, Count(goal[f]))
  OBVIOUS
<1>3. n \in 0..MaxEvents /\ n >= Count(base[f])
  BY <1>1, <1>2, ProjectorAssumption DEF Smaller
<1> QED
  BY <1>1, <1>2, <1>3, PosIsPosition DEF ChunkEnd

\* Only what a fetch ends with, and the end of the server, changes the fetches
\* like this.
LEMMA FetchEnds ==
  ASSUME AnchorTypes, NEW f \in Fetches, Release(f)
  PROVE  /\ state' \in [Fetches -> FetchStates]
         /\ base' \in [Fetches -> Positions \cup {Nothing}]
         /\ goal' \in [Fetches -> Positions \cup {Nothing}]
         /\ state'[f] = "done"
         /\ \A g \in Fetches \ {f} : state'[g] = state[g] /\ base'[g] = base[g] /\ goal'[g] = goal[g]
BY DEF AnchorTypes, Release, FetchStates

-----------------------------------------------------------------------------
(* The inductive invariant: whatever a fetch holds follows the registry's  *)
(* record, and what it is about to remember is durable.                    *)

\* x is stored, or something newer is.
Durable(x) ==
  /\ store # Nothing /\ Count(x) <= Count(store)
  /\ Count(x) = Count(store) => x = store

FetchSound(f) ==
  /\ state[f] # "done" => base[f] \in Positions /\ Follows(Recorded, base[f])
  /\ state[f] \in {"proofs", "remember"} => goal[f] \in Positions
  /\ state[f] = "remember" => Durable(base[f])

AnchorInv ==
  /\ AnchorTypes
  /\ StoredExtendsRecord /\ MemoryIsDurable
  /\ memory # Nothing => Follows(Recorded, memory)
  /\ \A f \in Fetches : FetchSound(f)

LEMMA InitAnchorInv == LiveInit => AnchorInv
<1> SUFFICES ASSUME LiveInit PROVE AnchorInv
  OBVIOUS
<1>1. fork \in Nat
  BY ProjectorAssumption DEF LiveInit
<1>2. AnchorTypes
  BY <1>1, RecordedIsPosition DEF LiveInit, AnchorTypes, FetchStates
<1>3. StoredExtendsRecord /\ MemoryIsDurable /\ (memory # Nothing => Follows(Recorded, memory))
  BY DEF LiveInit, StoredExtendsRecord, MemoryIsDurable
<1>4. \A f \in Fetches : FetchSound(f)
  BY DEF LiveInit, FetchSound
<1> QED
  BY <1>2, <1>3, <1>4 DEF AnchorInv

\* What is durable stays so over an advance of the store.
LEMMA StaysDurable ==
  ASSUME AnchorTypes, NEW x \in Positions, Durable(x),
         NEW y \in Positions, MayAdvance(y), store' = y
  PROVE  Durable(x)'
<1>1. store \in Positions /\ store # Nothing /\ y # Nothing
  BY PositionFacts DEF Durable, AnchorTypes
<1>2. Count(x) \in Nat /\ Count(store) \in Nat /\ Count(y) \in Nat
  BY <1>1, PositionFacts, ProjectorAssumption DEF AnchorTypes
<1>3. Count(y) > Count(store) \/ y = store
  BY <1>1 DEF MayAdvance
<1> QED
  BY <1>1, <1>2, <1>3 DEF Durable, Count

\* What the store advances to follows the record.
LEMMA AdvanceFollows ==
  ASSUME AnchorTypes, NEW y \in Positions, MayAdvance(y), Follows(Recorded, y), store' = y,
         fork' = fork
  PROVE  StoredExtendsRecord'
BY DEF StoredExtendsRecord, Follows, Recorded, Pos, Count

\* The newer of memory and a durable position is durable.
LEMMA NewerIsDurable ==
  ASSUME NEW x, Durable(x), MemoryIsDurable, memory' = Newer(x), store' = store
  PROVE  MemoryIsDurable'
BY DEF Newer, Durable, MemoryIsDurable, Count

LEMMA StartFollows ==
  ASSUME AnchorInv
  PROVE  StartAnchor \in Positions /\ Follows(Recorded, StartAnchor)
<1>1. fork \in Nat /\ Activation \in Nat
  BY ProjectorAssumption DEF AnchorInv, AnchorTypes
<1>2. Follows(Recorded, Recorded)
  BY <1>1 DEF Follows, Recorded, Pos, Count
<1>3. Follows(Recorded, StoredAnchor)
  BY <1>2 DEF StoredAnchor, AnchorInv, StoredExtendsRecord
<1> QED
  BY <1>3, AnchorIsPosition DEF StartAnchor, AnchorInv

\* While the store, the memory and the case's fork stay, so does the invariant,
\* if each fetch is as it was, or has ended, or is sound again.
LEMMA FetchesStaySound ==
  ASSUME AnchorInv, UNCHANGED <<fork, store, memory>>, clerk' \in Positions,
         state' \in [Fetches -> FetchStates],
         base' \in [Fetches -> Positions \cup {Nothing}],
         goal' \in [Fetches -> Positions \cup {Nothing}],
         \A f \in Fetches :
           \/ state'[f] = state[f] /\ base'[f] = base[f] /\ goal'[f] = goal[f]
           \/ state'[f] = "done"
           \/ FetchSound(f)'
  PROVE  AnchorInv'
<1>1. Positions' = Positions /\ Recorded' = Recorded
  BY DEF Positions, Recorded, Pos
<1>2. AnchorTypes'
  BY <1>1 DEF AnchorInv, AnchorTypes
<1>3. StoredExtendsRecord' /\ MemoryIsDurable' /\ (memory # Nothing => Follows(Recorded, memory))'
  BY DEF AnchorInv, StoredExtendsRecord, MemoryIsDurable, Follows, Recorded, Pos, Count
<1>4. ASSUME NEW f \in Fetches PROVE FetchSound(f)'
  <2>1. FetchSound(f)
    BY DEF AnchorInv
  <2>2. CASE state'[f] = state[f] /\ base'[f] = base[f] /\ goal'[f] = goal[f]
    <3>1. Durable(base[f]) => Durable(base[f])'
      BY <2>2 DEF Durable, Count
    <3>2. Follows(Recorded, base[f]) => Follows(Recorded, base[f])'
      BY <2>2 DEF Follows, Recorded, Pos, Count
    <3> QED
      BY <1>1, <2>1, <2>2, <3>1, <3>2 DEF FetchSound
  <2>3. CASE state'[f] = "done"
    BY <2>3 DEF FetchSound
  <2> QED
    BY <2>2, <2>3
<1> QED
  BY <1>2, <1>3, <1>4 DEF AnchorInv

\* An advance of the store to what fetch f holds, or ends with.
LEMMA AdvanceKeepsInv ==
  ASSUME AnchorInv, NEW y \in Positions, MayAdvance(y), Follows(Recorded, y),
         store' = y, UNCHANGED <<fork, clerk>>,
         memory' = memory \/ memory' = Newer(y),
         state' \in [Fetches -> FetchStates],
         base' \in [Fetches -> Positions \cup {Nothing}],
         goal' \in [Fetches -> Positions \cup {Nothing}],
         \A f \in Fetches :
           \/ state'[f] = state[f] /\ base'[f] = base[f] /\ goal'[f] = goal[f]
           \/ state'[f] = "done"
           \/ base'[f] = y /\ goal'[f] \in Positions
  PROVE  AnchorInv'
<1>1. Positions' = Positions /\ Recorded' = Recorded /\ AnchorTypes /\ y # Nothing
  BY PositionFacts DEF Positions, Recorded, Pos, AnchorInv, AnchorTypes
<1>2. AnchorTypes'
  BY <1>1 DEF AnchorTypes, Newer
<1>3. StoredExtendsRecord'
  BY <1>1, AdvanceFollows
<1>4. \A x : Follows(Recorded, x)' <=> Follows(Recorded, x)
  BY DEF Follows, Recorded, Pos, Count
<1>5. memory' # Nothing => Follows(Recorded, memory')
  BY <1>1 DEF AnchorInv, Newer
<1>6. Count(y) \in Nat
  BY <1>1, PositionFacts, ProjectorAssumption DEF AnchorTypes
<1>7. Durable(y)'
  BY <1>1, <1>6 DEF Durable, Count
<1>8. MemoryIsDurable'
  <2>1. memory # Nothing => Durable(memory)
    BY DEF AnchorInv, MemoryIsDurable, Durable
  <2>2. ASSUME memory # Nothing, memory' = memory PROVE MemoryIsDurable'
    <3>1. PICK x \in Positions : x = memory
      BY <1>1, <2>2 DEF AnchorTypes
    <3>2. Durable(x)'
      BY <1>1, <2>1, <2>2, <3>1, StaysDurable
    <3> QED
      BY <2>2, <3>1, <3>2 DEF MemoryIsDurable, Durable
  <2>3. ASSUME memory' = y PROVE MemoryIsDurable'
    BY <1>7, <2>3 DEF MemoryIsDurable, Durable
  <2>4. ASSUME memory' = Nothing PROVE MemoryIsDurable'
    BY <2>4 DEF MemoryIsDurable
  <2> QED
    BY <2>2, <2>3, <2>4 DEF Newer
<1>9. ASSUME NEW f \in Fetches PROVE FetchSound(f)'
  <2>1. FetchSound(f)
    BY DEF AnchorInv
  <2>2. CASE state'[f] = state[f] /\ base'[f] = base[f] /\ goal'[f] = goal[f]
    <3>1. ASSUME state[f] = "remember" PROVE Durable(base[f])'
      <4>1. base[f] \in Positions /\ Durable(base[f])
        BY <2>1, <3>1 DEF FetchSound
      <4>2. PICK x \in Positions : x = base[f]
        BY <4>1
      <4>3. Durable(x)'
        BY <1>1, <4>1, <4>2, StaysDurable
      <4> QED
        BY <2>2, <4>2, <4>3
    <3> QED
      BY <1>1, <1>4, <2>1, <2>2, <3>1 DEF FetchSound
  <2>3. CASE state'[f] = "done"
    BY <2>3 DEF FetchSound
  <2>4. CASE base'[f] = y /\ goal'[f] \in Positions
    BY <1>1, <1>4, <1>7, <2>4 DEF FetchSound
  <2> QED
    BY <2>2, <2>3, <2>4
<1> QED
  BY <1>2, <1>3, <1>4, <1>5, <1>8, <1>9 DEF AnchorInv

-----------------------------------------------------------------------------
(* The steps.                                                              *)

\* What the clerk goes on with is a position.
LEMMA ClerkMoves ==
  ASSUME AnchorInv, ClerkAccepts \/ ClerkRestored
  PROVE  clerk' \in Positions
<1>1. clerk \in Positions /\ fork \in Nat
  BY DEF AnchorInv, AnchorTypes
<1>2. Count(clerk) \in 0..MaxEvents /\ clerk[1] \in {1, 2} /\ MaxEvents \in Nat
  BY <1>1, PositionFacts, ProjectorAssumption
<1>3. CASE ClerkAccepts
  <2>1. PICK n \in 0..MaxEvents : n = Count(clerk) + 1
    BY <1>2, <1>3 DEF ClerkAccepts
  <2> QED
    BY <1>2, <1>3, <2>1, PosIsPosition DEF ClerkAccepts
<1>4. CASE ClerkRestored
  <2>1. PICK n \in 0..MaxEvents : n = fork + 1
    BY <1>1, <1>2, <1>4 DEF ClerkRestored
  <2> QED
    BY <1>4, <2>1, PosIsPosition DEF ClerkRestored
<1> QED
  BY <1>3, <1>4

LEMMA NextAnchorInv ==
  ASSUME AnchorInv, LiveNext
  PROVE  AnchorInv'
<1>1. /\ AnchorTypes /\ clerk \in Positions
      /\ \A f \in Fetches : FetchSound(f)
  BY DEF AnchorInv, AnchorTypes
<1>2. CASE ClerkAccepts \/ ClerkRestored
  BY <1>1, <1>2, ClerkMoves, FetchesStaySound DEF ClerkAccepts, ClerkRestored, fetch, AnchorTypes
<1>3. CASE BeginRefresh
  <2>1. CASE UNCHANGED <<waiting, free, state, base>>
    BY <1>1, <1>3, <2>1, FetchesStaySound DEF BeginRefresh, AnchorTypes
  <2>2. ASSUME NEW f \in Fetches,
               state' = [state EXCEPT ![f] = "queued"],
               base' = [base EXCEPT ![f] = StartAnchor]
        PROVE  AnchorInv'
    <3>1. PICK x \in Positions : x = StartAnchor /\ Follows(Recorded, x)
      BY StartFollows
    <3>2. /\ state' \in [Fetches -> FetchStates] /\ base' \in [Fetches -> Positions \cup {Nothing}]
          /\ state'[f] = "queued" /\ base'[f] = x
          /\ \A g \in Fetches \ {f} : state'[g] = state[g] /\ base'[g] = base[g]
      BY <1>1, <2>2, <3>1 DEF AnchorTypes, FetchStates
    <3>3. UNCHANGED <<fork, clerk, store, memory, goal>>
      BY <1>3 DEF BeginRefresh
    <3>4. FetchSound(f)'
      BY <3>1, <3>2, <3>3 DEF FetchSound, Follows, Recorded, Pos, Positions, Count
    <3> QED
      BY <1>1, <3>2, <3>3, <3>4, FetchesStaySound DEF AnchorTypes
  <2> QED
    BY <1>3, <2>1, <2>2 DEF BeginRefresh
<1>4. ASSUME NEW f \in Fetches, Release(f), UNCHANGED <<fork, clerk, store, memory>>
      PROVE  AnchorInv'
  BY <1>1, <1>4, FetchEnds, FetchesStaySound
<1>5. ASSUME NEW f \in Fetches, GiveUp(f) PROVE AnchorInv'
  <2>1. CASE UNCHANGED fetch
    BY <1>1, <1>5, <2>1, FetchesStaySound DEF GiveUp, fetch, AnchorTypes
  <2> QED
    BY <1>4, <1>5, <2>1 DEF GiveUp
<1>6. ASSUME NEW f \in Fetches, FetchState(f) PROVE AnchorInv'
  <2>1. CASE FetchFails(f)
    BY <1>4, <1>6, <2>1 DEF FetchFails, FetchState
  <2>2. CASE goal' = [goal EXCEPT ![f] = clerk] /\ state' = [state EXCEPT ![f] = "proofs"]
               /\ UNCHANGED base
    <3>1. /\ state' \in [Fetches -> FetchStates] /\ goal' \in [Fetches -> Positions \cup {Nothing}]
          /\ state'[f] = "proofs" /\ goal'[f] = clerk
          /\ \A g \in Fetches \ {f} : state'[g] = state[g] /\ goal'[g] = goal[g]
      BY <1>1, <2>2 DEF AnchorTypes, FetchStates
    <3>2. UNCHANGED <<fork, clerk, store, memory, base>> /\ state[f] = "queued"
      BY <1>6, <2>2 DEF FetchState
    <3>3. base[f] \in Positions /\ Follows(Recorded, base[f])
      BY <1>1, <3>2 DEF FetchSound
    <3>4. FetchSound(f)'
      BY <1>1, <3>1, <3>2, <3>3 DEF FetchSound, Follows, Recorded, Pos, Positions, Count
    <3> QED
      BY <1>1, <3>1, <3>2, <3>4, FetchesStaySound DEF AnchorTypes
  <2> QED
    BY <1>6, <2>1, <2>2 DEF FetchState
<1>7. ASSUME NEW f \in Fetches, FetchChunk(f) PROVE AnchorInv'
  <2>1. /\ base[f] \in Positions /\ Follows(Recorded, base[f]) /\ goal[f] \in Positions
        /\ Count(base[f]) < Count(goal[f]) /\ state[f] = "proofs"
    BY <1>1, <1>7 DEF FetchChunk, FetchSound
  <2>2. CASE ChunkVerifies(f) /\ MayAdvance(ChunkEnd(f))
    <3>1. PICK n \in 0..MaxEvents : ChunkEnd(f) = Pos(clerk[1], n) /\ n >= Count(base[f])
      BY <1>1, <2>1, ChunkIsPosition
    <3>2. PICK y \in Positions : y = ChunkEnd(f)
      BY <1>1, <2>1, ChunkIsPosition
    <3>3. clerk[1] \in {1, 2} /\ fork \in Nat
      BY <1>1, PositionFacts DEF AnchorTypes
    <3>4. Follows(Recorded, y)
      BY <2>1, <2>2, <3>1, <3>2, <3>3, ProvedFollows DEF ChunkVerifies
    <3>5. /\ store' = y /\ UNCHANGED <<fork, clerk, memory, goal>>
          /\ base' = [base EXCEPT ![f] = y] /\ state' = [state EXCEPT ![f] = "remember"]
      BY <1>7, <2>2, <3>2 DEF FetchChunk
    <3>6. /\ state' \in [Fetches -> FetchStates] /\ base' \in [Fetches -> Positions \cup {Nothing}]
          /\ base'[f] = y /\ goal'[f] \in Positions
          /\ \A g \in Fetches \ {f} : state'[g] = state[g] /\ base'[g] = base[g]
      BY <1>1, <2>1, <3>5 DEF AnchorTypes, FetchStates
    <3> QED
      BY <1>1, <2>2, <3>2, <3>4, <3>5, <3>6, AdvanceKeepsInv DEF AnchorTypes
  <2>3. CASE FetchFails(f) /\ UNCHANGED store
    BY <1>4, <1>7, <2>3 DEF FetchFails, FetchChunk
  <2> QED
    BY <1>7, <2>2, <2>3 DEF FetchChunk
<1>8. ASSUME NEW f \in Fetches, Remember(f) PROVE AnchorInv'
  <2>1. FetchSound(f) /\ state[f] = "remember"
    BY <1>1, <1>8 DEF Remember
  <2>2. PICK x \in Positions : x = base[f] /\ Follows(Recorded, x) /\ Durable(x)
    BY <2>1 DEF FetchSound
  <2>3. /\ memory' = Newer(x) /\ UNCHANGED <<fork, clerk, store, base, goal>>
        /\ state' = [state EXCEPT ![f] = "proofs"]
    BY <1>8, <2>2 DEF Remember
  <2>4. Positions' = Positions /\ Recorded' = Recorded
    BY <2>3 DEF Positions, Recorded, Pos
  <2>5. /\ state' \in [Fetches -> FetchStates] /\ state'[f] = "proofs"
        /\ \A g \in Fetches \ {f} : state'[g] = state[g]
    BY <1>1, <2>3 DEF AnchorTypes, FetchStates
  <2>6. AnchorTypes'
    BY <1>1, <2>2, <2>3, <2>4, <2>5 DEF AnchorTypes, Newer
  <2>7. MemoryIsDurable'
    BY <2>2, <2>3, NewerIsDurable DEF AnchorInv
  <2>8. StoredExtendsRecord' /\ (memory' # Nothing => Follows(Recorded, memory)')
    BY <2>2, <2>3 DEF AnchorInv, StoredExtendsRecord, Newer, Follows, Recorded, Pos, Count
  <2>9. \A g \in Fetches : FetchSound(g)'
    BY <1>1, <2>1, <2>3, <2>4, <2>5 DEF FetchSound, Durable, Follows, Recorded, Pos, Count
  <2> QED
    BY <2>6, <2>7, <2>8, <2>9 DEF AnchorInv
<1>9. ASSUME NEW f \in Fetches, FinishFetch(f) PROVE AnchorInv'
  <2>1. Release(f) /\ UNCHANGED <<fork, clerk>>
    BY <1>9 DEF FinishFetch
  <2>2. CASE UNCHANGED <<store, memory>>
    BY <1>4, <2>1, <2>2
  <2>3. CASE base[f] = goal[f] /\ MayAdvance(goal[f]) /\ store' = goal[f] /\ memory' = Newer(goal[f])
    <3>1. state[f] = "proofs" /\ FetchSound(f)
      BY <1>1, <1>9 DEF FinishFetch
    <3>2. PICK y \in Positions : y = goal[f] /\ Follows(Recorded, y)
      BY <2>3, <3>1 DEF FetchSound
    <3> QED
      BY <1>1, <2>1, <2>3, <3>2, FetchEnds, AdvanceKeepsInv
  <2> QED
    BY <1>9, <2>2, <2>3 DEF FinishFetch
<1>10. ASSUME NEW f \in Fetches, FetchTimesOut(f) PROVE AnchorInv'
  BY <1>4, <1>10 DEF FetchTimesOut, FetchFails
<1>11. CASE Restart
  <2>1. /\ UNCHANGED <<fork, clerk, store>> /\ memory' = Nothing
        /\ state' = [f \in Fetches |-> "done"]
        /\ base' = [f \in Fetches |-> Nothing] /\ goal' = [f \in Fetches |-> Nothing]
    BY <1>11 DEF Restart
  <2>2. Positions' = Positions
    BY <2>1 DEF Positions, Pos
  <2>3. AnchorTypes'
    BY <1>1, <2>1, <2>2 DEF AnchorTypes, FetchStates
  <2>4. StoredExtendsRecord' /\ MemoryIsDurable' /\ \A f \in Fetches : FetchSound(f)'
    BY <2>1 DEF AnchorInv, StoredExtendsRecord, MemoryIsDurable, FetchSound, Follows,
       Recorded, Pos, Count
  <2> QED
    BY <2>1, <2>3, <2>4 DEF AnchorInv
<1> QED
  BY <1>2, <1>3, <1>5, <1>6, <1>7, <1>8, <1>9, <1>10, <1>11 DEF LiveNext, FetchStep

THEOREM AnchorInvariant == LiveSpec => []AnchorInv
<1>1. AnchorInv /\ [LiveNext]_liveVars => AnchorInv'
  <2>1. ASSUME AnchorInv, UNCHANGED liveVars PROVE AnchorInv'
    <3>1. UNCHANGED <<fork, clerk, store, memory, state, base, goal>>
      BY <2>1 DEF liveVars, fetch
    <3> QED
      BY <2>1, <3>1, FetchesStaySound DEF AnchorInv, AnchorTypes
  <2> QED
    BY <2>1, NextAnchorInv
<1> QED
  BY <1>1, InitAnchorInv, PTL DEF LiveSpec

\* However fetches overlap, are given up and are lost with the server, the
\* recorded, the stored and the cached anchor of a case agree.
THEOREM TheAnchorsAgree == LiveSpec => []AnchorsAgree
<1>1. AnchorInv => AnchorsAgree
  BY DEF AnchorInv, AnchorsAgree
<1> QED
  BY <1>1, AnchorInvariant, PTL

\* The stored anchor only moves forward.
THEOREM AnchorNeverGoesBack == LiveSpec => AnchorKept
<1> DEFINE Forward ==
      store # Nothing =>
        store' = store \/ (store' # Nothing /\ Count(store') > Count(store))
<1>1. AnchorInv /\ [LiveNext]_liveVars => Forward
  <2> SUFFICES ASSUME AnchorInv, [LiveNext]_liveVars, store # Nothing PROVE Forward
    OBVIOUS
  <2>1. ASSUME NEW y \in Positions, MayAdvance(y), store' = y PROVE Forward
    <3>1. y # Nothing
      BY PositionFacts DEF AnchorInv, AnchorTypes
    <3> QED
      BY <2>1, <3>1 DEF MayAdvance
  <2>2. ASSUME NEW f \in Fetches, FetchChunk(f) PROVE Forward
    <3>1. FetchSound(f) /\ AnchorTypes
      BY DEF AnchorInv
    <3>2. CASE UNCHANGED store
      BY <3>2
    <3>3. CASE MayAdvance(ChunkEnd(f)) /\ store' = ChunkEnd(f)
      <4>1. PICK y \in Positions : y = ChunkEnd(f)
        BY <2>2, <3>1, ChunkIsPosition DEF FetchChunk, FetchSound
      <4> QED
        BY <2>1, <3>3, <4>1
    <3> QED
      BY <2>2, <3>2, <3>3 DEF FetchChunk
  <2>3. ASSUME NEW f \in Fetches, FinishFetch(f) PROVE Forward
    <3>1. FetchSound(f)
      BY DEF AnchorInv
    <3>2. goal[f] \in Positions
      BY <2>3, <3>1 DEF FinishFetch, FetchSound
    <3> QED
      BY <2>1, <2>3, <3>2 DEF FinishFetch
  <2>4. \/ UNCHANGED store
        \/ \E f \in Fetches : FetchChunk(f) \/ FinishFetch(f)
    BY DEF LiveNext, FetchStep, liveVars, ClerkAccepts, ClerkRestored, BeginRefresh, Restart,
       GiveUp, FetchTimesOut, FetchState, Remember
  <2> QED
    BY <2>2, <2>3, <2>4
<1>2. LiveSpec => [][Forward]_liveVars
  BY <1>1, AnchorInvariant, PTL DEF LiveSpec
<1> QED
  BY <1>2 DEF AnchorKept

-----------------------------------------------------------------------------
(* The slots of the pool.                                                  *)

\* The fetches that hold a slot.
Holding == {f \in Fetches : state[f] # "done"}

SlotsInv ==
  /\ free \in Nat
  /\ state \in [Fetches -> FetchStates]
  /\ SlotsKept

LEMMA HoldingIsFinite == IsFiniteSet(Holding) /\ Cardinality(Holding) \in Nat
BY ProjectorAssumption, FS_Subset, FS_CardinalityType DEF Holding

\* A fetch that has a slot and gives it back.
LEMMA SlotReleased ==
  ASSUME SlotsInv, NEW f \in Fetches, state[f] # "done", Release(f)
  PROVE  SlotsInv'
<1>1. /\ free' = free + 1 /\ state' = [state EXCEPT ![f] = "done"]
  BY DEF Release
<1>2. Holding' = Holding \ {f} /\ f \in Holding
  BY <1>1 DEF SlotsInv, Holding
<1>3. Cardinality(Holding') = Cardinality(Holding) - 1
  BY <1>2, HoldingIsFinite, FS_RemoveElement
<1>4. Cardinality(Fetches) \in Nat
  BY ProjectorAssumption, FS_CardinalityType
<1>5. free' \in Nat /\ state' \in [Fetches -> FetchStates]
  BY <1>1 DEF SlotsInv, FetchStates
<1>6. free' + Cardinality(Holding') = Cardinality(Fetches)
  BY <1>1, <1>3, <1>4, HoldingIsFinite DEF SlotsInv, SlotsKept, Holding
<1> QED
  BY <1>5, <1>6 DEF SlotsInv, SlotsKept, Holding

\* A fetch that goes on from one place to another keeps its slot.
LEMMA SlotHeld ==
  ASSUME SlotsInv, free' = free, NEW f \in Fetches, NEW place \in FetchStates \ {"done"},
         state[f] # "done", state' = [state EXCEPT ![f] = place]
  PROVE  SlotsInv'
<1>1. Holding' = Holding
  BY DEF SlotsInv, Holding
<1>2. state' \in [Fetches -> FetchStates]
  BY DEF SlotsInv, FetchStates
<1> QED
  BY <1>1, <1>2 DEF SlotsInv, SlotsKept, Holding

LEMMA SlotTaken ==
  ASSUME SlotsInv, BeginRefresh
  PROVE  SlotsInv'
<1>1. CASE free > 0
  <2>1. PICK f \in Fetches : /\ state[f] = "done" /\ free' = free - 1
                             /\ state' = [state EXCEPT ![f] = "queued"]
    BY <1>1 DEF BeginRefresh
  <2>2. Holding' = Holding \cup {f} /\ f \notin Holding
    BY <2>1 DEF SlotsInv, Holding
  <2>3. Cardinality(Holding') = Cardinality(Holding) + 1
    BY <2>2, HoldingIsFinite, FS_AddElement
  <2>4. Cardinality(Fetches) \in Nat
    BY ProjectorAssumption, FS_CardinalityType
  <2>5. free' \in Nat /\ state' \in [Fetches -> FetchStates]
    BY <1>1, <2>1 DEF SlotsInv, FetchStates
  <2>6. free' + Cardinality(Holding') = Cardinality(Fetches)
    BY <2>1, <2>3, <2>4, HoldingIsFinite DEF SlotsInv, SlotsKept, Holding
  <2> QED
    BY <2>5, <2>6 DEF SlotsInv, SlotsKept, Holding
<1>2. CASE ~(free > 0)
  BY <1>2 DEF BeginRefresh, SlotsInv, SlotsKept
<1> QED
  BY <1>1, <1>2

LEMMA SlotsInvNext == ASSUME SlotsInv, [LiveNext]_liveVars PROVE SlotsInv'
<1>1. CASE UNCHANGED <<free, state>>
  BY <1>1 DEF SlotsInv, SlotsKept
<1>2. CASE Restart
  <2>1. Holding' = {} /\ free' = Cardinality(Fetches)
    BY <1>2 DEF Restart, Holding
  <2>2. Cardinality(Holding') = 0 /\ Cardinality(Fetches) \in Nat
    BY <2>1, ProjectorAssumption, FS_EmptySet, FS_CardinalityType
  <2>3. state' \in [Fetches -> FetchStates]
    BY <1>2 DEF Restart, FetchStates
  <2> QED
    BY <2>1, <2>2, <2>3 DEF SlotsInv, SlotsKept, Holding
<1>3. ASSUME NEW f \in Fetches, GiveUp(f) PROVE SlotsInv'
  <2>1. CASE state[f] = "queued"
    BY <1>3, <2>1, SlotReleased DEF GiveUp
  <2>2. CASE state[f] # "queued"
    BY <1>1, <1>3, <2>2 DEF GiveUp, fetch
  <2> QED
    BY <2>1, <2>2
<1>4. ASSUME NEW f \in Fetches, FetchTimesOut(f) \/ FinishFetch(f) PROVE SlotsInv'
  BY <1>4, SlotReleased DEF FetchTimesOut, FetchFails, FinishFetch
<1>5. ASSUME NEW f \in Fetches, FetchState(f) PROVE SlotsInv'
  <2>1. CASE Release(f)
    BY <1>5, <2>1, SlotReleased DEF FetchState
  <2>2. CASE state' = [state EXCEPT ![f] = "proofs"] /\ free' = free
    BY <1>5, <2>2, SlotHeld DEF FetchState, FetchStates
  <2> QED
    BY <1>5, <2>1, <2>2 DEF FetchState, FetchFails
<1>6. ASSUME NEW f \in Fetches, FetchChunk(f) PROVE SlotsInv'
  <2>1. CASE Release(f)
    BY <1>6, <2>1, SlotReleased DEF FetchChunk
  <2>2. CASE state' = [state EXCEPT ![f] = "remember"] /\ free' = free
    BY <1>6, <2>2, SlotHeld DEF FetchChunk, FetchStates
  <2> QED
    BY <1>6, <2>1, <2>2 DEF FetchChunk, FetchFails
<1>7. ASSUME NEW f \in Fetches, Remember(f) PROVE SlotsInv'
  BY <1>7, SlotHeld DEF Remember, FetchStates
<1>8. CASE ClerkAccepts \/ ClerkRestored \/ UNCHANGED liveVars
  BY <1>1, <1>8 DEF ClerkAccepts, ClerkRestored, liveVars, fetch
<1> QED
  BY <1>2, <1>3, <1>4, <1>5, <1>6, <1>7, <1>8, SlotTaken DEF LiveNext, FetchStep

\* For any pool, a slot is never lost nor given back twice, however fetches are
\* cancelled, fail or outlive their refresh.
THEOREM SlotsAreKept == LiveSpec => []SlotsKept
<1>1. ASSUME LiveInit PROVE SlotsInv
  <2>1. Holding = {} /\ free = Cardinality(Fetches)
    BY <1>1 DEF LiveInit, Holding
  <2>2. Cardinality(Holding) = 0 /\ Cardinality(Fetches) \in Nat
    BY <2>1, ProjectorAssumption, FS_EmptySet, FS_CardinalityType
  <2> QED
    BY <1>1, <2>1, <2>2 DEF LiveInit, SlotsInv, SlotsKept, Holding, FetchStates
<1>2. SlotsInv => SlotsKept
  BY DEF SlotsInv
<1> QED
  BY <1>1, <1>2, SlotsInvNext, PTL DEF LiveSpec

=============================================================================
