------------------------------ MODULE StoreProofs ------------------------------
(* Proofs about the components that keep files or a cache beside a ledger:     *)
(* TrustStore, SignedViews, Promotion, SessionKeys and MaintainerTick.         *)
EXTENDS TrustStore, SignedViews, Promotion, SessionKeys, MaintainerTick, TLAPS

-----------------------------------------------------------------------------
(* Session keys.                                                               *)

\* Where a start is, what it needs is on disk.
KeysOnDisk ==
  /\ \A s \in Starters :
       /\ phase[s] \in {"profile", "append", "accepted", "started"} => s \in key
       /\ phase[s] \in {"append", "accepted", "started"} => s \in profile
       /\ s \in started => phase[s] \in {"accepted", "started", "failed"}
       /\ s \in started \ lost => s \in key /\ s \in profile
  /\ started \subseteq Starters

\* A start that goes on after its controller key was linked uses the one on disk.
ControllerHeld ==
  /\ \A s \in Starters :
       /\ phase[s] = "controller" => using[s] = s
       /\ phase[s] \in {"key", "profile", "append", "accepted", "started"} =>
            using[s] = controller /\ controller # NoKey
  /\ pinned \in {NoKey, controller}
  /\ started # {} => pinned = controller /\ controller # NoKey

KeysInv ==
  /\ phase \in [Starters -> {"new", "controller", "key", "profile", "append",
                             "accepted", "started", "failed"}]
  /\ using \in [Starters -> Starters \cup {NoKey}]
  /\ controller \in Starters \cup {NoKey}
  /\ KeysOnDisk
  /\ ControllerHeld

LEMMA KeysInvInit == ASSUME KeysInit PROVE KeysInv
BY DEF KeysInit, KeysInv, KeysOnDisk, ControllerHeld

LEMMA KeysInvNext == ASSUME KeysInv, [KeysNext]_keyVars PROVE KeysInv'
<1> USE KeysAssumption DEF KeysInv, KeysOnDisk, ControllerHeld, To
<1>1. ASSUME NEW s \in Starters, LoadController(s) PROVE KeysInv'
  BY <1>1 DEF LoadController
<1>2. ASSUME NEW s \in Starters, LinkController(s) PROVE KeysInv'
  <2>1. CASE controller = NoKey
    <3>1. controller' = s /\ started = {} /\ pinned = NoKey
      BY <1>2, <2>1 DEF LinkController
    <3>2. QED
      BY <1>2, <2>1, <3>1 DEF LinkController
  <2>2. CASE controller # NoKey
    BY <1>2, <2>2 DEF LinkController
  <2>3. QED
    BY <2>1, <2>2
<1>3. ASSUME NEW s \in Starters, WriteSessionKey(s) PROVE KeysInv'
  BY <1>3 DEF WriteSessionKey
<1>4. ASSUME NEW s \in Starters, WriteProfile(s) PROVE KeysInv'
  BY <1>4 DEF WriteProfile
<1>5. ASSUME NEW s \in Starters, AcceptStart(s) PROVE KeysInv'
  BY <1>5 DEF AcceptStart
<1>6. ASSUME NEW s \in Starters, FailAppend(s) PROVE KeysInv'
  <2>1. \A r \in Starters \ {s} : r \in key <=> r \in key'
    BY <1>6 DEF FailAppend, CleanUp
  <2>2. \A r \in Starters \ {s} : r \in profile <=> r \in profile'
    BY <1>6 DEF FailAppend, CleanUp
  <2>3. s \in started /\ s \notin lost' => s \in key' /\ s \in profile'
    BY <1>6 DEF FailAppend, CleanUp
  <2>4. QED
    BY <1>6, <2>1, <2>2, <2>3 DEF FailAppend
<1>7. ASSUME NEW s \in Starters, ReturnStarted(s) PROVE KeysInv'
  BY <1>7 DEF ReturnStarted
<1>8. ASSUME NEW s \in Starters, KillStart(s) PROVE KeysInv'
  BY <1>8 DEF KillStart
<1>9. CASE UNCHANGED keyVars
  BY <1>9 DEF keyVars
<1>10. QED
  BY <1>1, <1>2, <1>3, <1>4, <1>5, <1>6, <1>7, <1>8, <1>9 DEF KeysNext

\* However many starts run at once, and wherever each of them fails: a session
\* that the ledger has keeps its files, and its controller's key is the pinned one.
THEOREM StartedKeepKeys == KeysSpec => []StartedHasKeys
<1>1. KeysInv => StartedHasKeys
  BY DEF KeysInv, KeysOnDisk, ControllerHeld, StartedHasKeys
<1>2. QED
  BY <1>1, KeysInvInit, KeysInvNext, PTL DEF KeysSpec

-----------------------------------------------------------------------------
(* The maintainer's tick.                                                      *)

\* No status, or one of some head at some hour.
Statuses == Int \X Nat

\* While a tick is under way it holds the lock: the ledger stays as the tick read
\* it, and only the hour of what it drew may be older than what is on disk.
TicksInv ==
  /\ head \in Nat /\ last \in Nat
  /\ drawn \in Statuses /\ projection \in Statuses /\ current \in Statuses
  /\ ticking \in {"idle", "again", "archive", "projection", "receipt"}
  /\ ticking # "idle" => drawn[1] = head
  /\ current[1] <= projection[1] /\ projection[1] <= head
  /\ ticking \in {"projection", "receipt"} => drawn \in archive
  /\ ticking = "receipt" => projection = drawn
  /\ current # NoStatus => current \in archive
  /\ projection # NoStatus => projection \in archive

LEMMA TicksInvInit == ASSUME TicksInit PROVE TicksInv
BY DEF TicksInit, TicksInv, Statuses, NoStatus

\* What a tick that begins has drawn.
LEMMA BeginDraws ==
  ASSUME TicksInv, BeginTick
  PROVE  /\ drawn' \in Statuses /\ drawn'[1] = head
         /\ ticking' \in {"again", "archive"}
<1>1. PICK hour \in last..MaxHour : drawn' = <<head, hour>>
  BY DEF BeginTick
<1>2. hour \in Nat
  BY <1>1, TickAssumption DEF TicksInv
<1>3. QED
  BY <1>1, <1>2 DEF TicksInv, BeginTick, Statuses

LEMMA TicksInvNext == ASSUME TicksInv, [TicksNext]_tickVars PROVE TicksInv'
<1> USE DEF TicksInv
<1>1. CASE AppendEvent
  <2>1. last' \in Nat
    BY <1>1, TickAssumption DEF AppendEvent
  <2>2. QED
    BY <1>1, <2>1 DEF AppendEvent, Statuses
<1>2. CASE BeginTick
  BY <1>2, BeginDraws DEF BeginTick
<1>3. CASE RepeatTick
  BY <1>3 DEF RepeatTick, Statuses, NoStatus
<1>4. CASE ArchiveReceipt
  BY <1>4 DEF ArchiveReceipt
<1>5. CASE WriteProjection
  BY <1>5 DEF WriteProjection, Statuses
<1>6. CASE WriteCurrent
  BY <1>6 DEF WriteCurrent, Statuses, NoStatus
<1>7. CASE KillTick
  BY <1>7 DEF KillTick, Statuses, NoStatus
<1>8. CASE UNCHANGED tickVars
  BY <1>8 DEF tickVars
<1>9. QED
  BY <1>1, <1>2, <1>3, <1>4, <1>5, <1>6, <1>7, <1>8 DEF TicksNext, TickStep

\* Wherever ticks are killed and whatever instants they are called with, the
\* receipt and the projection on disk are archived, and the projection is of no
\* earlier head.
THEOREM ReceiptsAreBacked == TicksSpec => []ReceiptIsBacked
<1>1. TicksInv => ReceiptIsBacked
  BY DEF TicksInv, ReceiptIsBacked, Statuses
<1>2. QED
  BY <1>1, TicksInvInit, TicksInvNext, PTL DEF TicksSpec

\* The hours on disk, while the ticks come in order.
HoursInv ==
  /\ TicksInv /\ InOrder
  /\ projection[2] >= current[2]

LEMMA HoursInvInit == ASSUME TicksInit, InOrder PROVE HoursInv
BY TicksInvInit DEF TicksInit, HoursInv, NoStatus

LEMMA HoursInvNext ==
  ASSUME HoursInv, InOrder', [TicksNext]_tickVars PROVE HoursInv'
<1> USE DEF HoursInv
<1>1. TicksInv'
  BY TicksInvNext
<1>2. CASE AppendEvent
  BY <1>1, <1>2 DEF AppendEvent
<1>3. CASE BeginTick
  BY <1>1, <1>3 DEF BeginTick
<1>4. CASE RepeatTick
  BY <1>1, <1>4 DEF RepeatTick
<1>5. CASE ArchiveReceipt
  BY <1>1, <1>5 DEF ArchiveReceipt
<1>6. CASE WriteProjection
  BY <1>1, <1>6 DEF WriteProjection, InOrder, TicksInv, Statuses
<1>7. CASE WriteCurrent
  BY <1>1, <1>7 DEF WriteCurrent, TicksInv, Statuses
<1>8. CASE KillTick
  BY <1>1, <1>8 DEF KillTick
<1>9. CASE UNCHANGED tickVars
  BY <1>1, <1>9 DEF tickVars
<1>10. QED
  BY <1>2, <1>3, <1>4, <1>5, <1>6, <1>7, <1>8, <1>9 DEF TicksNext, TickStep

\* As long as no tick is called with an earlier hour than the projection on disk
\* has, the projection stays at least as new as the receipt, its hour included,
\* wherever ticks are killed.
THEOREM ProjectionLeads == TicksSpec /\ []InOrder => []ProjectionNotBehind
<1>1. HoursInv => ProjectionNotBehind
  BY DEF HoursInv, TicksInv, ProjectionNotBehind, Statuses
<1>2. QED
  BY <1>1, HoursInvInit, HoursInvNext, PTL DEF TicksSpec

-----------------------------------------------------------------------------
(* Signed views.                                                               *)

ViewPlaces == {"idle", "again", "problems", "live", "project", "store", "sign"}

ViewTypes ==
  /\ file \in Nat /\ loaded \in Nat /\ loaded <= file
  /\ cachedHead \in Nat /\ cachedRecords \in Nat
  /\ at \in [Threads -> ViewPlaces]
  /\ wanted \in [Threads -> Nat] /\ asked \in [Threads -> Nat]
  /\ records \in [Threads -> Nat] /\ stale \in [Threads -> BOOLEAN]

\* What a thread holds lies between the head that it started from and the head
\* that the shared registry has by now.
HeldBetween(t) ==
  /\ at[t] \in {"problems", "live"} => wanted[t] <= loaded
  /\ at[t] \in {"project", "store"} => wanted[t] <= asked[t] /\ asked[t] <= loaded
  /\ at[t] = "store" => asked[t] <= records[t] /\ records[t] <= loaded
  /\ at[t] = "sign" /\ stale[t] = FALSE =>
       wanted[t] <= records[t] /\ records[t] <= loaded

\* The cached records are of its head or of a later one.
CacheBetween ==
  cachedHead > 0 => cachedHead <= cachedRecords /\ cachedRecords <= loaded

ViewsInv ==
  /\ ViewTypes
  /\ CacheBetween
  /\ \A t \in Threads : HeldBetween(t)
  /\ SignedIsOfItsHead

LEMMA ViewsInvInit == ASSUME ViewsInit PROVE ViewsInv
BY DEF ViewsInit, ViewsInv, ViewTypes, ViewPlaces, CacheBetween, HeldBetween,
       SignedIsOfItsHead, Unsigned

\* A step of thread t leaves what the others hold in its bounds.
LEMMA OthersBetween ==
  ASSUME ViewsInv, loaded' \in Nat, loaded <= loaded', NEW t \in Threads,
         \A u \in Threads \ {t} :
           /\ at'[u] = at[u] /\ wanted'[u] = wanted[u] /\ asked'[u] = asked[u]
           /\ records'[u] = records[u] /\ stale'[u] = stale[u]
  PROVE  \A u \in Threads \ {t} : HeldBetween(u)'
BY DEF ViewsInv, ViewTypes, HeldBetween

LEMMA ViewsInvNext == ASSUME ViewsInv, [ViewsNext]_viewVars PROVE ViewsInv'
<1> USE DEF ViewTypes, ViewPlaces
<1>1. CASE Publish
  BY <1>1 DEF ViewsInv, Publish, thread, CacheBetween, HeldBetween, SignedIsOfItsHead
<1>2. CASE Expire
  BY <1>2 DEF ViewsInv, Expire, thread, CacheBetween, HeldBetween, SignedIsOfItsHead
<1>3. ASSUME NEW t \in Threads, BeginView(t) PROVE ViewsInv'
  <2>1. ViewTypes' /\ HeldBetween(t)'
    BY <1>3 DEF ViewsInv, BeginView, HeldBetween
  <2>2. \A u \in Threads \ {t} : HeldBetween(u)'
    BY <1>3, OthersBetween DEF ViewsInv, BeginView
  <2>3. CacheBetween' /\ SignedIsOfItsHead'
    BY <1>3 DEF ViewsInv, BeginView, CacheBetween, SignedIsOfItsHead
  <2>4. QED
    BY <2>1, <2>2, <2>3 DEF ViewsInv
<1>4. ASSUME NEW t \in Threads,
             ReadProblems(t) \/ UseCache(t) \/ UseStale(t) \/ BeginProjection(t)
               \/ ReadRecords(t)
      PROVE  ViewsInv'
  <2>1. ViewTypes' /\ HeldBetween(t)'
    <3>1. CASE ReadProblems(t)
      BY <3>1 DEF ViewsInv, ReadProblems, Have, HeldBetween
    <3>2. CASE UseCache(t)
      BY <3>2 DEF ViewsInv, UseCache, Have, HeldBetween, CacheBetween
    <3>3. CASE UseStale(t)
      BY <3>3 DEF ViewsInv, UseStale, Have, HeldBetween
    <3>4. CASE BeginProjection(t)
      BY <3>4 DEF ViewsInv, BeginProjection, HeldBetween
    <3>5. CASE ReadRecords(t)
      BY <3>5 DEF ViewsInv, ReadRecords, HeldBetween
    <3>6. QED
      BY <1>4, <3>1, <3>2, <3>3, <3>4, <3>5
  <2>2. \A u \in Threads \ {t} : HeldBetween(u)'
    <3>1. loaded' = loaded
      BY <1>4 DEF ReadProblems, UseCache, UseStale, BeginProjection, ReadRecords
    <3>2. \A u \in Threads \ {t} :
            /\ at'[u] = at[u] /\ wanted'[u] = wanted[u] /\ asked'[u] = asked[u]
            /\ records'[u] = records[u] /\ stale'[u] = stale[u]
      BY <1>4
         DEF ViewsInv, ReadProblems, UseCache, UseStale, BeginProjection, ReadRecords, Have
    <3>3. loaded' \in Nat /\ loaded <= loaded'
      BY <3>1 DEF ViewsInv
    <3>4. QED
      BY <3>2, <3>3, OthersBetween
  <2>3. CacheBetween' /\ SignedIsOfItsHead'
    BY <1>4 DEF ViewsInv, ReadProblems, UseCache, UseStale, BeginProjection, ReadRecords,
                Have, CacheBetween, SignedIsOfItsHead
  <2>4. QED
    BY <2>1, <2>2, <2>3 DEF ViewsInv
<1>5. ASSUME NEW t \in Threads, StoreProjection(t) PROVE ViewsInv'
  <2>1. ViewTypes' /\ HeldBetween(t)' /\ CacheBetween'
    <3>1. ViewTypes' /\ HeldBetween(t)'
      BY <1>5 DEF ViewsInv, StoreProjection, Have, HeldBetween
    <3>2. CacheBetween'
      BY <1>5 DEF ViewsInv, StoreProjection, HeldBetween, CacheBetween
    <3>3. QED
      BY <3>1, <3>2
  <2>2. \A u \in Threads \ {t} : HeldBetween(u)'
    <3>1. \A u \in Threads \ {t} :
            /\ at'[u] = at[u] /\ wanted'[u] = wanted[u] /\ asked'[u] = asked[u]
            /\ records'[u] = records[u] /\ stale'[u] = stale[u]
      BY <1>5 DEF ViewsInv, StoreProjection, Have
    <3>2. loaded' \in Nat /\ loaded <= loaded'
      BY <1>5 DEF ViewsInv, StoreProjection, Have
    <3>3. QED
      BY <3>1, <3>2, OthersBetween
  <2>3. SignedIsOfItsHead'
    BY <1>5 DEF ViewsInv, StoreProjection, SignedIsOfItsHead
  <2>4. QED
    BY <2>1, <2>2, <2>3 DEF ViewsInv
<1>6. ASSUME NEW t \in Threads, SignView(t) PROVE ViewsInv'
  <2>1. ViewTypes' /\ HeldBetween(t)'
    <3>1. CASE at' = [at EXCEPT ![t] = "again"] /\ UNCHANGED <<wanted, asked, records, stale>>
      BY <1>6, <3>1 DEF ViewsInv, SignView, HeldBetween
    <3>2. CASE EndView(t)
      BY <1>6, <3>2 DEF ViewsInv, SignView, EndView, HeldBetween
    <3>3. QED
      BY <1>6, <3>1, <3>2 DEF SignView
  <2>2. \A u \in Threads \ {t} : HeldBetween(u)'
    <3>1. \A u \in Threads \ {t} :
            /\ at'[u] = at[u] /\ wanted'[u] = wanted[u] /\ asked'[u] = asked[u]
            /\ records'[u] = records[u] /\ stale'[u] = stale[u]
      BY <1>6 DEF ViewsInv, SignView, EndView
    <3>2. loaded' \in Nat /\ loaded <= loaded'
      BY <1>6 DEF ViewsInv, SignView, EndView
    <3>3. QED
      BY <3>1, <3>2, OthersBetween
  <2>3. CacheBetween'
    BY <1>6 DEF ViewsInv, SignView, CacheBetween
  <2>4. SignedIsOfItsHead'
    <3>1. CASE file = wanted[t]
      <4>1. signed' = [head |-> file, records |-> records[t], stale |-> stale[t]]
        BY <1>6, <3>1 DEF SignView
      <4>2. stale[t] = FALSE => records[t] = file
        BY <1>6, <3>1 DEF SignView, ViewsInv, HeldBetween
      <4>3. QED
        BY <4>1, <4>2 DEF ViewsInv, SignedIsOfItsHead
    <3>2. CASE file # wanted[t]
      BY <1>6, <3>2 DEF ViewsInv, SignView, SignedIsOfItsHead
    <3>3. QED
      BY <3>1, <3>2
  <2>5. QED
    BY <2>1, <2>2, <2>3, <2>4 DEF ViewsInv
<1>7. CASE UNCHANGED viewVars
  BY <1>7 DEF viewVars, thread, ViewsInv, CacheBetween, HeldBetween, SignedIsOfItsHead
<1>8. QED
  BY <1>1, <1>2, <1>3, <1>4, <1>5, <1>6, <1>7 DEF ViewsNext

\* For any number of threads and attempts, a snapshot that is signed shows the
\* records of the head it names, or says that it is stale.
THEOREM SignedAreOfTheirHead == ViewsSpec => []SignedIsOfItsHead
<1>1. ViewsInv => SignedIsOfItsHead
  BY DEF ViewsInv
<1>2. QED
  BY <1>1, ViewsInvInit, ViewsInvNext, PTL DEF ViewsSpec

-----------------------------------------------------------------------------
(* Artifact promotion.                                                         *)

PromotionStages == {"idle", "copy", "check", "update", "decide", "commit", "ref", "receipt"}

PromotionTypes ==
  /\ commits \in Seq({"signed"})
  /\ retained \in {"none", "signed"}
  /\ ref \in Nat /\ receipt \in Nat /\ kills \in Nat
  /\ stage \in [Promoters -> PromotionStages]
  /\ made \in [Promoters -> Nat]

\* What a promotion relies on after its capture: the retained bytes, the commit
\* that it made, and the branch that it created.
PromoterInv(p) ==
  /\ stage[p] \in {"update", "decide", "commit", "ref", "receipt"} => retained = "signed"
  /\ stage[p] \in {"ref", "receipt"} => made[p] \in 1..Len(commits)
  /\ stage[p] = "receipt" => made[p] = ref

PromotionInv ==
  /\ PromotionTypes
  /\ \A p \in Promoters : PromoterInv(p)
  /\ ref \in 0..Len(commits)
  /\ ReceiptIsBranch
  /\ BranchHasReceipt

LEMMA PromotionInvInit == ASSUME PromotionInit PROVE PromotionInv
BY PromotionAssumption
   DEF PromotionInit, PromotionInv, PromotionTypes, PromotionStages, PromoterInv,
       ReceiptIsBranch, BranchHasReceipt

\* A step of p that leaves branch and receipt, and does not take p away from the
\* writing of its receipt, keeps the branch's receipt where it was.
LEMMA ReceiptStays ==
  ASSUME PromotionInv, NEW p \in Promoters, stage[p] # "receipt",
         UNCHANGED <<ref, receipt, kills>>,
         \A q \in Promoters \ {p} : stage'[q] = stage[q] /\ made'[q] = made[q]
  PROVE  ReceiptIsBranch' /\ BranchHasReceipt'
BY DEF PromotionInv, ReceiptIsBranch, BranchHasReceipt

\* Steps of p that only move p on, before it has a commit.
LEMMA PromotionReads ==
  ASSUME PromotionInv, NEW p \in Promoters,
         FindCapture(p) \/ CopyArtifact(p) \/ KeepCapture(p) \/ NoteCapture(p)
           \/ Answer(p) \/ Confirm(p)
  PROVE  PromotionInv'
<1>1. /\ stage[p] # "receipt" /\ UNCHANGED <<ref, receipt, kills, commits>>
      /\ \A q \in Promoters \ {p} : stage'[q] = stage[q] /\ made'[q] = made[q]
  BY DEF PromotionInv, PromotionTypes, FindCapture, CopyArtifact, KeepCapture, NoteCapture,
         Answer, Confirm, Stage, Quit
<1>2. ReceiptIsBranch' /\ BranchHasReceipt'
  BY <1>1, ReceiptStays
<1>3. \/ retained' = retained
      \/ retained = "none" /\ retained' = "signed"
  BY DEF FindCapture, CopyArtifact, KeepCapture, DigestMatches, NoteCapture, Answer, Confirm
<1>4. /\ stage' \in [Promoters -> PromotionStages] /\ made' \in [Promoters -> Nat]
      /\ stage'[p] \in {"idle", "copy", "check", "update", "decide", "commit"}
  <2> USE DEF PromotionInv, PromotionTypes, PromotionStages, Stage, Quit
  <2>1. CASE FindCapture(p)
    BY <2>1 DEF FindCapture
  <2>2. CASE CopyArtifact(p)
    BY <2>2 DEF CopyArtifact
  <2>3. CASE KeepCapture(p)
    <3>1. CASE Stage(p, "update") /\ UNCHANGED <<copied, found, made>>
      BY <2>3, <3>1 DEF KeepCapture
    <3>2. CASE Quit(p)
      BY <2>3, <3>2 DEF KeepCapture
    <3>3. QED
      BY <2>3, <3>1, <3>2 DEF KeepCapture
  <2>4. CASE NoteCapture(p)
    BY <2>4 DEF NoteCapture
  <2>5. CASE Answer(p)
    BY <2>5 DEF Answer
  <2>6. CASE Confirm(p)
    BY <2>6 DEF Confirm
  <2>7. QED
    BY <2>1, <2>2, <2>3, <2>4, <2>5, <2>6
<1>5. stage'[p] \in {"update", "decide", "commit"} => retained' = "signed"
  BY DEF PromotionInv, PromotionTypes, PromoterInv, FindCapture, CopyArtifact, KeepCapture,
         DigestMatches, NoteCapture, Answer, Confirm, Stage, Quit
<1>6. PromotionTypes'
  BY <1>1, <1>3, <1>4 DEF PromotionInv, PromotionTypes
<1>7. \A q \in Promoters : PromoterInv(q)'
  BY <1>1, <1>3, <1>4, <1>5 DEF PromotionInv, PromoterInv
<1>8. QED
  BY <1>1, <1>2, <1>6, <1>7 DEF PromotionInv

LEMMA PromotionMakeCommit ==
  ASSUME PromotionInv, NEW p \in Promoters, MakeCommit(p)
  PROVE  PromotionInv'
<1>1. /\ stage[p] = "commit" /\ UNCHANGED <<ref, receipt, kills, retained>>
      /\ commits' = Append(commits, retained)
      /\ stage' = [stage EXCEPT ![p] = "ref"]
      /\ made' = [made EXCEPT ![p] = Len(commits) + 1]
  BY DEF MakeCommit, Stage
<1>2. retained = "signed"
  BY <1>1 DEF PromotionInv, PromoterInv
<1>3. commits' \in Seq({"signed"}) /\ Len(commits') = Len(commits) + 1 /\ Len(commits) \in Nat
  BY <1>1, <1>2 DEF PromotionInv, PromotionTypes
<1>4. /\ stage'[p] = "ref" /\ made'[p] = Len(commits')
      /\ \A q \in Promoters \ {p} : stage'[q] = stage[q] /\ made'[q] = made[q]
  BY <1>1, <1>3 DEF PromotionInv, PromotionTypes
<1>5. PromotionTypes'
  BY <1>1, <1>3 DEF PromotionInv, PromotionTypes, PromotionStages
<1>6. \A q \in Promoters : PromoterInv(q)'
  BY <1>1, <1>2, <1>3, <1>4 DEF PromotionInv, PromoterInv
<1>7. ReceiptIsBranch' /\ BranchHasReceipt'
  BY <1>1, <1>4, ReceiptStays
<1>8. QED
  BY <1>1, <1>3, <1>5, <1>6, <1>7 DEF PromotionInv

LEMMA PromotionCreateBranch ==
  ASSUME PromotionInv, NEW p \in Promoters, CreateBranch(p)
  PROVE  PromotionInv'
<1>1. /\ stage[p] = "ref" /\ UNCHANGED <<receipt, kills, retained, commits>>
      /\ stage' \in [Promoters -> PromotionStages] /\ made' \in [Promoters -> Nat]
      /\ \A q \in Promoters \ {p} : stage'[q] = stage[q] /\ made'[q] = made[q]
  BY DEF PromotionInv, PromotionTypes, PromotionStages, CreateBranch, Stage, Quit
<1>2. CASE ref = 0
  <2>1. ref' = made[p] /\ made' = made /\ stage'[p] = "receipt"
    BY <1>2 DEF PromotionInv, PromotionTypes, CreateBranch, MayCreateRef, Stage
  <2>2. made[p] \in 1..Len(commits) /\ Len(commits) \in Nat /\ retained = "signed"
    BY <1>1 DEF PromotionInv, PromotionTypes, PromoterInv
  <2>3. receipt = 0
    BY <1>2 DEF PromotionInv, ReceiptIsBranch
  <2>4. \A q \in Promoters : stage[q] # "receipt"
    BY <1>2 DEF PromotionInv, PromoterInv
  <2>5. PromotionTypes' /\ ref' \in 0..Len(commits')
    BY <1>1, <2>1, <2>2 DEF PromotionInv, PromotionTypes
  <2>6. \A q \in Promoters : PromoterInv(q)'
    BY <1>1, <2>1, <2>2, <2>4 DEF PromotionInv, PromoterInv
  <2>7. ReceiptIsBranch' /\ BranchHasReceipt'
    BY <1>1, <2>1, <2>3 DEF ReceiptIsBranch, BranchHasReceipt
  <2>8. QED
    BY <2>5, <2>6, <2>7 DEF PromotionInv
<1>3. CASE ref # 0
  <2>1. ref' = ref /\ stage'[p] = "idle"
    BY <1>3 DEF PromotionInv, PromotionTypes, CreateBranch, MayCreateRef, Stage, Quit
  <2>2. ReceiptIsBranch' /\ BranchHasReceipt'
    BY <1>1, <2>1, ReceiptStays
  <2>3. PromotionTypes' /\ \A q \in Promoters : PromoterInv(q)'
    BY <1>1, <2>1 DEF PromotionInv, PromotionTypes, PromoterInv
  <2>4. QED
    BY <1>1, <2>1, <2>2, <2>3 DEF PromotionInv
<1>4. QED
  BY <1>2, <1>3

LEMMA PromotionEnds ==
  ASSUME PromotionInv, NEW p \in Promoters, WriteReceipt(p) \/ Kill(p)
  PROVE  PromotionInv'
<1>1. /\ UNCHANGED <<ref, retained, commits>>
      /\ stage' \in [Promoters -> PromotionStages] /\ made' \in [Promoters -> Nat]
      /\ stage'[p] = "idle"
      /\ \A q \in Promoters \ {p} : stage'[q] = stage[q] /\ made'[q] = made[q]
  <2> USE DEF PromotionInv, PromotionTypes, PromotionStages, Stage, Quit
  <2>1. CASE WriteReceipt(p)
    BY <2>1 DEF WriteReceipt
  <2>2. CASE Kill(p)
    BY <2>2 DEF Kill
  <2>3. QED
    BY <2>1, <2>2
<1>2. \A q \in Promoters : PromoterInv(q)'
  BY <1>1 DEF PromotionInv, PromoterInv
<1>3. CASE WriteReceipt(p)
  <2>1. receipt' = ref /\ ref \in Nat /\ kills' = kills
    BY <1>3 DEF WriteReceipt, PromotionInv, PromotionTypes, PromoterInv
  <2>2. QED
    BY <1>1, <1>2, <2>1
       DEF PromotionInv, PromotionTypes, ReceiptIsBranch, BranchHasReceipt
<1>4. CASE Kill(p)
  <2>1. kills' = kills + 1 /\ receipt' = receipt
    BY <1>4 DEF Kill
  <2>2. QED
    BY <1>1, <1>2, <2>1
       DEF PromotionInv, PromotionTypes, ReceiptIsBranch, BranchHasReceipt
<1>5. QED
  BY <1>3, <1>4

LEMMA PromotionInvNext == ASSUME PromotionInv, [PromotionNext]_promotionVars PROVE PromotionInv'
<1>1. CASE EditFile
  BY <1>1 DEF EditFile, promoter, PromotionInv, PromotionTypes, PromoterInv,
              ReceiptIsBranch, BranchHasReceipt
<1>2. CASE UNCHANGED promotionVars
  BY <1>2 DEF promotionVars, promoter, PromotionInv, PromotionTypes, PromoterInv,
              ReceiptIsBranch, BranchHasReceipt
<1>3. QED
  BY <1>1, <1>2, PromotionReads, PromotionMakeCommit, PromotionCreateBranch, PromotionEnds
     DEF PromotionNext

\* For any number of promotions, edits and kills there is one branch, of the
\* signed bytes, and its receipt unless the command that made it was killed.
THEOREM PromotedAtMostOnce == PromotionSpec => []PromotedOnce
<1>1. PromotionInv => PromotedOnce
  BY DEF PromotionInv, PromotionTypes, PromotedOnce, BranchIsSigned
<1>2. QED
  BY <1>1, PromotionInvInit, PromotionInvNext, PTL DEF PromotionSpec

-----------------------------------------------------------------------------
(* The registry trust store.                                                   *)

\* A place of the history, written the one way that Place writes it.
IsPlace(x) == x \in {1, 2} \X Nat /\ Place(x[1], x[2]) = x

LEMMA PlaceIsPlace == ASSUME NEW b \in {1, 2}, NEW n \in Nat PROVE IsPlace(Place(b, n))
BY TrustAssumption DEF IsPlace, Place

\* Extends orders places as prefixes of histories.
LEMMA ExtendsItself == ASSUME NEW x, IsPlace(x) PROVE Extends(x, x)
BY DEF IsPlace, Extends, CountOf

LEMMA ExtendsOn ==
  ASSUME NEW x, NEW y, NEW z, IsPlace(x), IsPlace(y), IsPlace(z),
         Extends(x, y), Extends(y, z)
  PROVE  Extends(x, z)
<1>1. x[2] \in Nat /\ y[2] \in Nat /\ z[2] \in Nat /\ x[2] <= y[2] /\ y[2] <= z[2]
  BY DEF IsPlace, Extends, CountOf
<1>2. /\ Place(y[1], x[2]) = x /\ Place(z[1], y[2]) = y
  BY DEF Extends, CountOf
<1>3. CASE y[2] <= ForkAt
  BY <1>1, <1>2, <1>3, TrustAssumption DEF Place, Extends, CountOf
<1>4. CASE ~(y[2] <= ForkAt)
  <2>1. y[1] = z[1]
    BY <1>2, <1>4 DEF Place
  <2>2. QED
    BY <1>1, <1>2, <2>1 DEF Extends, CountOf
<1>5. QED
  BY <1>3, <1>4

\* Two prefixes of one history are prefixes of each other.
LEMMA PrefixesAgree ==
  ASSUME NEW x, NEW y, NEW z, IsPlace(x), IsPlace(y), IsPlace(z),
         Extends(x, z), Extends(y, z), x[2] <= y[2]
  PROVE  Extends(x, y)
<1>1. x[2] \in Nat /\ y[2] \in Nat
  BY DEF IsPlace
<1>2. Place(z[1], x[2]) = x /\ Place(z[1], y[2]) = y
  BY DEF Extends, CountOf
<1>3. CASE y[2] <= ForkAt
  BY <1>1, <1>2, <1>3, TrustAssumption DEF Place, Extends, CountOf
<1>4. CASE ~(y[2] <= ForkAt)
  BY <1>1, <1>2, <1>4 DEF Place, Extends, CountOf
<1>5. QED
  BY <1>3, <1>4

Link == [from : {1, 2} \X Nat, to : {1, 2} \X Nat]

\* Every proof fetched is one of a registry, and proofs that follow one another
\* lead from the first place to the last one.
Linked(ps) == \A i \in 2..Len(ps) : ps[i].from = ps[i - 1].to

ChainOf(ps) ==
  /\ ps \in Seq(Link)
  /\ \A i \in 1..Len(ps) : /\ IsPlace(ps[i].from) /\ IsPlace(ps[i].to)
                           /\ Extends(ps[i].from, ps[i].to)
  /\ ps # <<>> /\ Linked(ps) => Extends(ps[1].from, ps[Len(ps)].to)

TrustTypes ==
  /\ branch \in {1, 2} /\ count \in Nat
  /\ step \in [Clients -> {"idle", "anchor", "proofs"}]
  /\ snap \in [Clients -> ({1, 2} \X Nat) \cup {NoPlace}]
  /\ reached \in [Clients -> Nat]
  /\ DOMAIN proofs = Clients

\* The anchor extends all that was accepted, and the proofs a client holds are a
\* chain of the registry's own history.
TrustInv ==
  /\ TrustTypes
  /\ anchor = NoPlace \/ IsPlace(anchor)
  /\ anchor = NoPlace => accepted = {}
  /\ \A x \in accepted : IsPlace(x) /\ Extends(x, anchor)
  /\ \A c \in Clients : /\ step[c] # "idle" => IsPlace(snap[c])
                        /\ ChainOf(proofs[c])

\* One more proof keeps the chain: this is where the induction over the proofs
\* takes place.
LEMMA ChainGrows ==
  ASSUME NEW ps, ChainOf(ps), NEW x, NEW y, IsPlace(x), IsPlace(y), Extends(x, y)
  PROVE  ChainOf(Append(ps, [from |-> x, to |-> y]))
<1> DEFINE new == [from |-> x, to |-> y]
           qs == Append(ps, new)
<1>1. new \in Link /\ new.from = x /\ new.to = y
  BY DEF IsPlace, Link
<1> HIDE DEF new
<1>2. /\ qs \in Seq(Link) /\ Len(qs) = Len(ps) + 1 /\ Len(ps) \in Nat
      /\ qs[Len(qs)] = new /\ \A i \in 1..Len(ps) : qs[i] = ps[i]
  BY <1>1 DEF ChainOf
<1> HIDE DEF qs
<1>3. \A i \in 1..Len(qs) : IsPlace(qs[i].from) /\ IsPlace(qs[i].to) /\ Extends(qs[i].from, qs[i].to)
  BY <1>1, <1>2 DEF ChainOf
<1>4. ASSUME Linked(qs) PROVE Extends(qs[1].from, qs[Len(qs)].to)
  <2>1. CASE ps = <<>>
    BY <1>1, <1>2, <2>1
  <2>2. CASE ps # <<>>
    <3>1. Len(ps) >= 1
      BY <1>2, <2>2 DEF ChainOf
    <3>2. \A i \in 2..Len(ps) : ps[i].from = ps[i - 1].to
      BY <1>2, <1>4 DEF Linked
    <3>3. Extends(ps[1].from, ps[Len(ps)].to)
      BY <2>2, <3>2 DEF ChainOf, Linked
    <3>4. ps[Len(ps)].to = x
      BY <1>1, <1>2, <1>4, <3>1 DEF Linked
    <3>5. IsPlace(ps[1].from) /\ qs[1] = ps[1]
      BY <1>2, <3>1 DEF ChainOf
    <3>6. QED
      BY <1>1, <1>2, <3>3, <3>4, <3>5, ExtendsOn
  <2>3. QED
    BY <2>1, <2>2
<1>5. QED
  BY <1>2, <1>3, <1>4 DEF ChainOf, qs, new

LEMMA TrustInvInit == ASSUME TrustInit PROVE TrustInv
<1>1. TrustTypes
  BY TrustAssumption DEF TrustInit, TrustTypes
<1>2. ChainOf(<<>>)
  BY DEF ChainOf
<1>3. QED
  BY <1>1, <1>2 DEF TrustInit, TrustInv

\* What a step of client c has to keep, when it leaves the other clients alone.
LEMMA ClientStep ==
  ASSUME TrustInv, TrustTypes', NEW c \in Clients,
         \A d \in Clients \ {c} :
           step'[d] = step[d] /\ snap'[d] = snap[d] /\ proofs'[d] = proofs[d],
         step'[c] # "idle" => IsPlace(snap'[c]),
         ChainOf(proofs'[c]),
         \/ UNCHANGED <<anchor, accepted>>
         \/ /\ IsPlace(anchor') /\ accepted' = accepted \cup {anchor'}
            /\ anchor # NoPlace => Extends(anchor, anchor')
  PROVE  TrustInv'
<1>1. \A d \in Clients : /\ step'[d] # "idle" => IsPlace(snap'[d])
                         /\ ChainOf(proofs'[d])
  BY DEF TrustInv
<1>2. CASE UNCHANGED <<anchor, accepted>>
  BY <1>1, <1>2 DEF TrustInv
<1>3. CASE /\ IsPlace(anchor') /\ accepted' = accepted \cup {anchor'}
           /\ anchor # NoPlace => Extends(anchor, anchor')
  <2>1. \A x \in accepted : IsPlace(x) /\ Extends(x, anchor')
    BY <1>3, ExtendsOn DEF TrustInv
  <2>2. Extends(anchor', anchor')
    BY <1>3, ExtendsItself
  <2>3. anchor' # NoPlace
    BY <1>3, TrustAssumption DEF IsPlace
  <2>4. QED
    BY <1>1, <1>3, <2>1, <2>2, <2>3 DEF TrustInv
<1>4. QED
  BY <1>2, <1>3

\* A proof that starts from the anchor and ends in the snapshot shows that the
\* snapshot extends it.
LEMMA ProofsProve ==
  ASSUME NEW ps, ChainOf(ps), NEW a, NEW s, IsPlace(a), IsPlace(s), a[2] < s[2],
         InRange(ps, a, s), EndOf(ps, a) = s
  PROVE  Extends(a, s)
<1>1. ps # <<>>
  BY DEF EndOf, IsPlace
<1>2. Len(ps) \in Nat /\ Len(ps) >= 1 /\ DOMAIN ps = 1..Len(ps)
  BY <1>1 DEF ChainOf
<1>3. ps[1].from = a
  BY <1>2 DEF InRange
<1>4. Linked(ps)
  BY <1>2 DEF InRange, Linked
<1>5. QED
  BY <1>1, <1>3, <1>4 DEF ChainOf, EndOf

\* The acceptance of a snapshot keeps the chain of the anchors.
LEMMA TrustAccepts ==
  ASSUME TrustInv, NEW c \in Clients, NEW how, Accept(c, how), UNCHANGED <<branch, count>>,
         step[c] = "proofs", anchor # NoPlace => Extends(anchor, snap[c])
  PROVE  TrustInv'
<1>1. TrustTypes'
  BY DEF TrustInv, TrustTypes, Accept, EndFetch, Move
<1>2. /\ anchor' = snap[c] /\ accepted' = accepted \cup {anchor'} /\ IsPlace(anchor')
  BY DEF TrustInv, Accept
<1>3. /\ step'[c] = "idle" /\ proofs'[c] = <<>>
      /\ \A d \in Clients \ {c} :
           step'[d] = step[d] /\ snap'[d] = snap[d] /\ proofs'[d] = proofs[d]
  BY DEF TrustInv, TrustTypes, Accept, EndFetch, Move
<1>4. ChainOf(<<>>)
  BY DEF ChainOf
<1>5. QED
  BY <1>1, <1>2, <1>3, <1>4, ClientStep

\* A fetch that ends without an acceptance leaves the store alone.
LEMMA TrustEnds ==
  ASSUME TrustInv, NEW c \in Clients, NEW how, EndFetch(c, how),
         UNCHANGED <<branch, count, anchor, accepted>>
  PROVE  TrustInv'
<1>1. TrustTypes'
  BY DEF TrustInv, TrustTypes, EndFetch, Move
<1>2. /\ step'[c] = "idle" /\ proofs'[c] = <<>>
      /\ \A d \in Clients \ {c} :
           step'[d] = step[d] /\ snap'[d] = snap[d] /\ proofs'[d] = proofs[d]
  BY DEF TrustInv, TrustTypes, EndFetch, Move
<1>3. ChainOf(<<>>)
  BY DEF ChainOf
<1>4. QED
  BY <1>1, <1>2, <1>3, ClientStep

LEMMA TrustFetchesProof ==
  ASSUME TrustInv, NEW c \in Clients, FetchProof(c)
  PROVE  TrustInv'
<1> DEFINE to == ProofEnd(reached[c], CountOf(snap[c]))
           new == [from |-> Place(branch, reached[c]), to |-> Place(branch, to)]
<1>1. CASE to > count
  BY <1>1, TrustEnds DEF FetchProof
<1>2. CASE ~(to > count)
  <2>1. /\ proofs' = [proofs EXCEPT ![c] = Append(proofs[c], new)]
        /\ reached' = [reached EXCEPT ![c] = to]
        /\ UNCHANGED <<branch, count, anchor, accepted, step, snap>>
    BY <1>2 DEF FetchProof
  <2>2. /\ branch \in {1, 2} /\ reached[c] \in Nat /\ snap[c][2] \in Nat
        /\ reached[c] < snap[c][2] /\ step[c] = "proofs"
    BY DEF FetchProof, TrustInv, TrustTypes, IsPlace, CountOf
  <2>3. to \in Nat /\ reached[c] <= to
    BY <2>2, TrustAssumption DEF ProofEnd, Least, CountOf
  <2> HIDE DEF to
  <2>4. IsPlace(Place(branch, reached[c])) /\ IsPlace(Place(branch, to))
    BY <2>2, <2>3, PlaceIsPlace
  <2>5. Extends(Place(branch, reached[c]), Place(branch, to))
    BY <2>2, <2>3, TrustAssumption DEF Extends, CountOf, Place
  <2>6. ChainOf(proofs[c])
    BY DEF TrustInv
  <2>7. ChainOf(Append(proofs[c], new))
    BY <2>4, <2>5, <2>6, ChainGrows
  <2> HIDE DEF new
  <2>8. /\ proofs'[c] = Append(proofs[c], new) /\ DOMAIN proofs' = Clients
        /\ \A d \in Clients \ {c} : proofs'[d] = proofs[d]
    BY <2>1 DEF TrustInv, TrustTypes
  <2>9. TrustTypes'
    BY <2>1, <2>3, <2>8 DEF TrustInv, TrustTypes
  <2>10. IsPlace(snap'[c])
    BY <2>1, <2>2 DEF TrustInv
  <2>11. QED
    BY <2>1, <2>7, <2>8, <2>9, <2>10, ClientStep
<1>3. QED
  BY <1>1, <1>2

LEMMA TrustDecides ==
  ASSUME TrustInv, NEW c \in Clients, Trust(c)
  PROVE  TrustInv'
<1>1. step[c] = "proofs" /\ UNCHANGED <<branch, count>>
  BY DEF Trust
<1>2. IsPlace(snap[c]) /\ ChainOf(proofs[c])
  BY <1>1 DEF TrustInv
<1>3. ASSUME NEW how, Accept(c, how), anchor # NoPlace => Extends(anchor, snap[c])
      PROVE  TrustInv'
  BY <1>1, <1>3, TrustAccepts
<1>4. ASSUME NEW how, Refuse(c, how) PROVE TrustInv'
  BY <1>1, <1>4, TrustEnds DEF Refuse
<1>5. CASE TryAgain(c)
  <2>1. /\ UNCHANGED <<branch, count, anchor, accepted, snap, proofs, reached>>
        /\ step' = [step EXCEPT ![c] = "anchor"]
    BY <1>1, <1>5 DEF TryAgain, Move
  <2>2. TrustTypes'
    BY <2>1 DEF TrustInv, TrustTypes
  <2>3. QED
    BY <1>2, <2>1, <2>2, ClientStep DEF TrustInv, TrustTypes
<1>6. CASE anchor = NoPlace
  BY <1>3, <1>4, <1>6 DEF Trust
<1>7. CASE anchor # NoPlace
  <2>1. IsPlace(anchor)
    BY <1>7 DEF TrustInv
  <2>2. snap[c] = anchor => Extends(anchor, snap[c])
    BY <2>1, ExtendsItself
  <2>3. (/\ anchor[2] < snap[c][2] /\ InRange(proofs[c], anchor, snap[c])
         /\ EndOf(proofs[c], anchor) = snap[c])
          => Extends(anchor, snap[c])
    BY <1>2, <2>1, ProofsProve
  <2>4. anchor[2] \in Nat /\ snap[c][2] \in Nat
    BY <1>2, <2>1 DEF IsPlace
  <2>5. \/ TryAgain(c)
        \/ \E how \in {"rollback", "fork", "unproved"} : Refuse(c, how)
        \/ \E how \in {"pinned", "advanced"} :
             Accept(c, how) /\ Extends(anchor, snap[c])
    BY <1>7, <2>2, <2>3, <2>4 DEF Trust, CountOf
  <2>6. QED
    BY <1>3, <1>4, <1>5, <2>5
<1>8. QED
  BY <1>6, <1>7

LEMMA TrustInvNext == ASSUME TrustInv, [TrustNext]_trustVars PROVE TrustInv'
<1>1. CASE Grow \/ Restore \/ UNCHANGED trustVars
  <2>1. /\ UNCHANGED <<anchor, client, accepted>>
        /\ branch' \in {1, 2} /\ count' \in Nat
    BY <1>1, TrustAssumption DEF TrustInv, TrustTypes, Grow, Restore, trustVars
  <2>2. QED
    BY <2>1 DEF TrustInv, TrustTypes, client
<1>2. ASSUME NEW c \in Clients, FetchSnapshot(c) PROVE TrustInv'
  <2>1. /\ snap' = [snap EXCEPT ![c] = Place(branch, count)]
        /\ step' = [step EXCEPT ![c] = "anchor"]
        /\ UNCHANGED <<branch, count, anchor, proofs, reached, accepted>>
    BY <1>2 DEF FetchSnapshot, Move
  <2>2. IsPlace(Place(branch, count))
    BY PlaceIsPlace DEF TrustInv, TrustTypes
  <2>3. TrustTypes'
    BY <2>1, <2>2 DEF TrustInv, TrustTypes, IsPlace
  <2>4. QED
    BY <2>1, <2>2, <2>3, ClientStep DEF TrustInv, TrustTypes
<1>3. ASSUME NEW c \in Clients, ReadAnchor(c) PROVE TrustInv'
  <2>1. /\ proofs' = [proofs EXCEPT ![c] = <<>>]
        /\ reached' = [reached EXCEPT ![c] = IF anchor = NoPlace THEN CountOf(snap[c])
                                             ELSE CountOf(anchor)]
        /\ step' = [step EXCEPT ![c] = "proofs"] /\ step[c] = "anchor"
        /\ UNCHANGED <<branch, count, anchor, snap, accepted>>
    BY <1>3 DEF ReadAnchor, Move
  <2>2. IsPlace(snap[c])
    BY <2>1 DEF TrustInv
  <2>3. TrustTypes'
    BY <2>1, <2>2 DEF TrustInv, TrustTypes, IsPlace, CountOf
  <2>4. ChainOf(<<>>)
    BY DEF ChainOf
  <2>5. QED
    BY <2>1, <2>2, <2>3, <2>4, ClientStep DEF TrustInv, TrustTypes
<1>4. QED
  BY <1>1, <1>2, <1>3, TrustFetchesProof, TrustDecides DEF TrustNext

\* For any number of clients, proofs of any length and a registry put back to
\* any of its prefixes, the snapshots that were accepted lie on one history.
THEOREM AcceptedAreOneHistory == TrustSpec => []AcceptedIsOneHistory
<1>1. ASSUME TrustInv PROVE AcceptedIsOneHistory
  <2>1. SUFFICES ASSUME NEW x \in accepted, NEW y \in accepted
                 PROVE  Extends(x, y) \/ Extends(y, x)
    BY DEF AcceptedIsOneHistory
  <2>2. IsPlace(x) /\ IsPlace(y) /\ IsPlace(anchor) /\ Extends(x, anchor) /\ Extends(y, anchor)
    BY <1>1 DEF TrustInv
  <2>3. x[2] <= y[2] \/ y[2] <= x[2]
    BY <2>2 DEF IsPlace
  <2>4. QED
    BY <2>2, <2>3, PrefixesAgree
<1>2. QED
  BY <1>1, TrustInvInit, TrustInvNext, PTL DEF TrustSpec

=============================================================================
