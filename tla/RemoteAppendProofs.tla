-------------------------- MODULE RemoteAppendProofs --------------------------
(***************************************************************************)
(* Proofs about RemoteAppend: for any number of calls, helpers, retries,   *)
(* late posts and events of other clones.                                  *)
(***************************************************************************)
EXTENDS RemoteAppend, TLAPS

\* Where a process holds a request: on every other place it holds none.
Holding == {"posting", "answered", "recovering", "looked_up", "finalizing", "unlinking"}

\* Where a call has no envelope under way, and still may sign one.
Early == {"idle", "fetching", "fetched", "signing"}

\* The clone's directory has the request: NothingLost is about these.
Kept(r) == r \in outbox \/ completed[r] # 0

\* Position i holds the event of request r.
Receipt(i, r) == i \in DOMAIN log /\ log[i] = r

\* A request is at most once in the log.
Distinct ==
  \A i, j \in DOMAIN log : log[i] = log[j] /\ log[i] # None => i = j

\* What is known of a request: before it is signed there is no trace of it; once
\* the directory has forgotten it, no late post can order it.
RequestOK(r) ==
  /\ base[r] <= Len(log)
  /\ callOf[r] = None => r \notin Ordered /\ ~Kept(r) /\ adrift[r] = 0
  /\ callOf[r] # None /\ ~Kept(r) => r \notin Ordered /\ (adrift[r] = 0 \/ base[r] < Len(log))
  /\ completed[r] # 0 => Receipt(completed[r], r)

\* A process that holds a request has it on disk; a call holds its own, a helper
\* one of a call that is over.
HoldOK(p) ==
  /\ proc[p].at \notin Holding => proc[p].request = None
  /\ proc[p].at \in Holding =>
       /\ proc[p].request \in Request
       /\ Kept(proc[p].request)
       /\ p \in Call => callOf[proc[p].request] = p
       /\ p \in Helper =>
            /\ callOf[proc[p].request] \in Call
            /\ proc[callOf[proc[p].request]].at \in Over

\* What a process knows from the answer it read.  Until the first post of an
\* envelope is given up, no other post of it exists.
AnswerOK(p) ==
  /\ proc[p].at \in {"posting", "answered"} /\ ~proc[p].repost =>
       /\ p \in Call
       /\ adrift[proc[p].request] = 0
       /\ proc[p].request \in Ordered => proc[p].at = "answered" /\ proc[p].reply = "ordered"
  /\ proc[p].at = "answered" /\ proc[p].reply = "ordered" => Receipt(proc[p].count, proc[p].request)
  /\ proc[p].at = "answered" /\ proc[p].reply = "stale" =>
       proc[p].request \notin Ordered /\ base[proc[p].request] < Len(log)
  /\ proc[p].at = "looked_up" /\ proc[p].count > 0 => Receipt(proc[p].count, proc[p].request)
  /\ proc[p].at = "finalizing" => Receipt(proc[p].count, proc[p].request)
  /\ proc[p].at = "unlinking" => completed[proc[p].request] # 0
  /\ proc[p].at \in {"fetched", "signing"} => proc[p].count <= Len(log)

\* A call that may still sign an envelope has none on disk.
CallOK(c) ==
  proc[c].at \in Early => \A r \in Request : callOf[r] = c => ~Kept(r)

\* A call has at most one envelope on disk.
KeptOnce ==
  \A r, s \in Request :
    callOf[r] = callOf[s] /\ callOf[r] # None /\ Kept(r) /\ Kept(s) => r = s

Inv ==
  /\ TypeOK /\ Distinct /\ KeptOnce
  /\ \A r \in Request : RequestOK(r)
  /\ \A p \in Process : HoldOK(p) /\ AnswerOK(p)
  /\ \A c \in Call : CallOK(c)

LEMMA IdleIsProc ==
  /\ Idle \in ProcRecord
  /\ Idle.at = "idle" /\ Idle.request = None /\ Idle.count = 0 /\ ~Idle.repost
BY RetriesAssumption DEF Idle, ProcRecord, At, Over, Reply

LEMMA InvInit == Init => Inv
<1> SUFFICES ASSUME Init PROVE Inv
  OBVIOUS
<1>1. TypeOK
  BY IdleIsProc DEF Init, TypeOK
<1>2. log = << >> /\ DOMAIN log = {} /\ Ordered = {} /\ Len(log) = 0
  BY DEF Init, Ordered
<1>3. \A p \in Process : proc[p].at = "idle" /\ proc[p].request = None /\ proc[p].count = 0
  BY IdleIsProc DEF Init
<1>4. \A r \in Request : ~Kept(r) /\ callOf[r] = None /\ adrift[r] = 0 /\ base[r] = 0
                         /\ completed[r] = 0
  BY DEF Init, Kept
<1>5. Distinct /\ KeptOnce
  BY <1>2, <1>4 DEF Distinct, KeptOnce
<1>6. \A r \in Request : RequestOK(r)
  BY <1>2, <1>4 DEF RequestOK
<1>7. \A p \in Process : HoldOK(p) /\ AnswerOK(p)
  BY <1>3 DEF HoldOK, AnswerOK, Holding
<1>8. \A c \in Call : CallOK(c)
  BY <1>4 DEF CallOK
<1> QED
  BY <1>1, <1>5, <1>6, <1>7, <1>8 DEF Inv

----------------------------------------------------------------------------
(* Moves of one process *)

Moves(p, n) == proc' = [proc EXCEPT ![p] = n]

\* Only process p moves, and it is then as n says.
LEMMA Moved ==
  ASSUME TypeOK, NEW p \in Process, NEW n \in ProcRecord, Moves(p, n)
  PROVE  /\ proc' \in [Process -> ProcRecord]
         /\ proc'[p] = n
         /\ \A q \in Process \ {p} : proc'[q] = proc[q]
BY DEF TypeOK, Moves

\* Goto keeps what the process holds.
LEMMA GotoMoves ==
  ASSUME TypeOK, NEW p \in Process, NEW place \in At, Goto(p, place)
  PROVE  \E n \in ProcRecord :
           /\ Moves(p, n) /\ n.at = place /\ n.request = proc[p].request
           /\ n.repost = proc[p].repost /\ n.reply = proc[p].reply
           /\ n.count = proc[p].count
<1> DEFINE n == [proc[p] EXCEPT !.at = place]
<1>1. n \in ProcRecord /\ n.at = place /\ n.request = proc[p].request
      /\ n.repost = proc[p].repost /\ n.reply = proc[p].reply /\ n.count = proc[p].count
  BY DEF TypeOK, ProcRecord
<1>2. Moves(p, n)
  BY DEF Goto, Moves
<1> HIDE DEF n
<1> QED
  BY <1>1, <1>2

\* A process that ends holds nothing.
LEMMA EndMoves ==
  ASSUME TypeOK, NEW p \in Process, NEW place \in At, End(p, place)
  PROVE  \E n \in ProcRecord : Moves(p, n) /\ n.at = place /\ n.request = None
<1> DEFINE n == [Idle EXCEPT !.at = place]
<1>1. n \in ProcRecord /\ n.at = place /\ n.request = None
  BY IdleIsProc DEF ProcRecord
<1>2. Moves(p, n)
  BY DEF End, Moves
<1> HIDE DEF n
<1> QED
  BY <1>1, <1>2

LEMMA EndAsMoves ==
  ASSUME TypeOK, NEW p \in Process, NEW place \in Over, EndAs(p, place)
  PROVE  \E n \in ProcRecord : /\ Moves(p, n) /\ n.request = None
                               /\ n.at = IF p \in Call THEN place ELSE "idle"
BY EndMoves DEF EndAs, At, Over

\* The assignments of the actions, named so that the lemmas apply to them.
Counts(p, place, k) == proc' = [proc EXCEPT ![p].at = place, ![p].count = k]

Answers(p, reply, k) ==
  proc' = [proc EXCEPT ![p].at = "answered", ![p].reply = reply, ![p].count = k]

Signs(c, r) ==
  proc' = [proc EXCEPT ![c].at = "posting", ![c].request = r, ![c].repost = FALSE]

Retries(c, k) == proc' = [proc EXCEPT ![c] = [Idle EXCEPT !.at = "fetching", !.attempt = k]]

Takes(h, r) == proc' = [proc EXCEPT ![h].at = "recovering", ![h].request = r]

Reposts(p, place) == proc' = [proc EXCEPT ![p].at = place, ![p].repost = TRUE]

\* Stepping on with a count: a snapshot, or what a lookup found.
LEMMA CountMoves ==
  ASSUME TypeOK, NEW p \in Process, NEW place \in At, NEW k \in Nat, Counts(p, place, k)
  PROVE  \E n \in ProcRecord : /\ Moves(p, n) /\ n.at = place /\ n.count = k
                               /\ n.request = proc[p].request
<1> DEFINE n == [proc[p] EXCEPT !.at = place, !.count = k]
<1>1. n \in ProcRecord /\ n.at = place /\ n.count = k /\ n.request = proc[p].request
  BY DEF TypeOK, ProcRecord
<1>2. Moves(p, n)
  BY DEF Counts, Moves
<1> HIDE DEF n
<1> QED
  BY <1>1, <1>2

LEMMA AnswerMoves ==
  ASSUME TypeOK, NEW p \in Process, NEW reply \in Reply, NEW k \in Nat, Answers(p, reply, k)
  PROVE  \E n \in ProcRecord :
           /\ Moves(p, n) /\ n.at = "answered" /\ n.reply = reply /\ n.count = k
           /\ n.request = proc[p].request /\ n.repost = proc[p].repost
<1> DEFINE n == [proc[p] EXCEPT !.at = "answered", !.reply = reply, !.count = k]
<1>1. /\ n \in ProcRecord /\ n.at = "answered" /\ n.reply = reply /\ n.count = k
      /\ n.request = proc[p].request /\ n.repost = proc[p].repost
  BY DEF TypeOK, ProcRecord, At
<1>2. Moves(p, n)
  BY DEF Answers, Moves
<1> HIDE DEF n
<1> QED
  BY <1>1, <1>2

LEMMA SignMoves ==
  ASSUME TypeOK, NEW c \in Call, NEW r \in Request, Signs(c, r)
  PROVE  \E n \in ProcRecord :
           Moves(c, n) /\ n.at = "posting" /\ n.request = r /\ ~n.repost
<1> DEFINE n == [proc[c] EXCEPT !.at = "posting", !.request = r, !.repost = FALSE]
<1>1. n \in ProcRecord /\ n.at = "posting" /\ n.request = r /\ ~n.repost
  BY DEF TypeOK, ProcRecord, At, Process
<1>2. Moves(c, n)
  BY DEF Signs, Moves
<1> HIDE DEF n
<1> QED
  BY <1>1, <1>2

LEMMA RetryMoves ==
  ASSUME NEW c \in Call, NEW k \in 0..StaleRetries, Retries(c, k)
  PROVE  \E n \in ProcRecord : Moves(c, n) /\ n.at = "fetching" /\ n.request = None
<1> DEFINE n == [Idle EXCEPT !.at = "fetching", !.attempt = k]
<1>1. n \in ProcRecord /\ n.at = "fetching" /\ n.request = None
  BY RetriesAssumption DEF ProcRecord, At, Idle, Over, Reply
<1>2. Moves(c, n)
  BY DEF Retries, Moves
<1> HIDE DEF n
<1> QED
  BY <1>1, <1>2

LEMMA TakeMoves ==
  ASSUME TypeOK, NEW h \in Process, NEW r \in Request, Takes(h, r)
  PROVE  \E n \in ProcRecord : Moves(h, n) /\ n.at = "recovering" /\ n.request = r
<1> DEFINE n == [proc[h] EXCEPT !.at = "recovering", !.request = r]
<1>1. n \in ProcRecord /\ n.at = "recovering" /\ n.request = r
  BY DEF TypeOK, ProcRecord, At
<1>2. Moves(h, n)
  BY DEF Takes, Moves
<1> HIDE DEF n
<1> QED
  BY <1>1, <1>2

LEMMA RepostMoves ==
  ASSUME TypeOK, NEW p \in Process, NEW place \in At, Reposts(p, place)
  PROVE  \E n \in ProcRecord :
           /\ Moves(p, n) /\ n.at = place /\ n.repost
           /\ n.request = proc[p].request /\ n.count = proc[p].count
<1> DEFINE n == [proc[p] EXCEPT !.at = place, !.repost = TRUE]
<1>1. /\ n \in ProcRecord /\ n.at = place /\ n.repost
      /\ n.request = proc[p].request /\ n.count = proc[p].count
  BY DEF TypeOK, ProcRecord
<1>2. Moves(p, n)
  BY DEF Reposts, Moves
<1> HIDE DEF n
<1> QED
  BY <1>1, <1>2

\* Two processes hold one request only if both are helpers.
LEMMA Alone ==
  ASSUME NEW p \in Process, NEW q \in Process, HoldOK(p), HoldOK(q), p \in Call,
         proc[p].at \in Holding, proc[q].at \in Holding, proc[p].request = proc[q].request
  PROVE  p = q
<1>1. proc[p].at \notin Over
  BY DEF Holding, Over
<1> QED
  BY <1>1, NamesAssumption DEF HoldOK, Process

\* What the clone keeps on disk about a request is neither new nor forgotten.
StoreKeeps ==
  /\ outbox' \subseteq Request
  /\ completed' \in [Request -> Nat]
  /\ \A r \in Request :
       /\ Kept(r)' <=> Kept(r)
       /\ completed[r] # 0 => completed'[r] # 0
       /\ completed'[r] # 0 => Receipt(completed'[r], r)

\* Only the request of p gets late posts.
NetKeeps(p) ==
  /\ highWater' \in Nat
  /\ adrift' \in [Request -> Nat]
  /\ \A r \in Request : adrift'[r] # adrift[r] => proc[p].at \in Holding /\ r = proc[p].request

LEMMA StoreSame == Inv /\ UNCHANGED <<outbox, completed>> => StoreKeeps
BY DEF Inv, TypeOK, RequestOK, StoreKeeps, Kept

LEMMA NetSame ==
  ASSUME Inv, NEW p \in Process, UNCHANGED <<highWater, adrift>>
  PROVE  NetKeeps(p)
BY DEF Inv, TypeOK, NetKeeps

\* The log, the envelopes and what is known of other processes stay: it is
\* enough to look at p.
LEMMA MoveKeeps ==
  ASSUME Inv, NEW p \in Process, NEW n \in ProcRecord, Moves(p, n),
         UNCHANGED <<log, callOf, base>>, StoreKeeps, NetKeeps(p),
         p \in Call /\ proc[p].at \in Over => n.at \in Over,
         HoldOK(p)', AnswerOK(p)', p \in Call => CallOK(p)'
  PROVE  Inv'
<1>1. proc' \in [Process -> ProcRecord] /\ \A q \in Process \ {p} : proc'[q] = proc[q]
  BY Moved DEF Inv
<1>2. TypeOK'
  BY <1>1 DEF Inv, TypeOK, StoreKeeps, NetKeeps
<1>3. Ordered' = Ordered /\ Distinct' /\ KeptOnce'
  BY DEF Inv, Ordered, Distinct, KeptOnce, StoreKeeps
<1>4. ASSUME NEW r \in Request PROVE RequestOK(r)'
  <2>1. RequestOK(r)
    BY DEF Inv
  <2>2. CASE adrift'[r] = adrift[r]
    BY <1>3, <2>1, <2>2 DEF RequestOK, Receipt, StoreKeeps
  <2>3. CASE adrift'[r] # adrift[r]
    <3>1. Kept(r) /\ callOf[r] # None
      BY <2>1, <2>3 DEF Inv, HoldOK, RequestOK, NetKeeps
    <3> QED
      BY <1>3, <2>1, <3>1 DEF RequestOK, Receipt, StoreKeeps
  <2> QED
    BY <2>2, <2>3
<1>5. ASSUME NEW q \in Process, q # p PROVE HoldOK(q)' /\ AnswerOK(q)'
  <2>1. HoldOK(q) /\ AnswerOK(q) /\ HoldOK(p) /\ proc'[q] = proc[q]
    BY <1>1, <1>5 DEF Inv
  <2>2. \A c \in Call : proc[c].at \in Over => proc'[c].at \in Over
    BY <1>1, Moved DEF Inv, Process
  <2>3. HoldOK(q)'
    BY <2>1, <2>2 DEF HoldOK, StoreKeeps
  <2>4. ASSUME proc[q].at \in {"posting", "answered"}, ~proc[q].repost
        PROVE  adrift'[proc[q].request] = adrift[proc[q].request]
    <3>1. q \in Call /\ proc[q].at \in Holding /\ proc[q].request \in Request
      BY <2>1, <2>4 DEF AnswerOK, HoldOK, Holding
    <3> QED
      BY <1>5, <2>1, <3>1, Alone DEF NetKeeps
  <2>5. proc[q].at = "unlinking" => completed'[proc[q].request] # 0
    BY <2>1 DEF HoldOK, AnswerOK, Holding, StoreKeeps
  <2> QED
    BY <1>3, <2>1, <2>3, <2>4, <2>5 DEF AnswerOK, Receipt
<1>6. ASSUME NEW c \in Call, c # p PROVE CallOK(c)'
  BY <1>1, <1>6 DEF Inv, CallOK, Process, StoreKeeps
<1> QED
  BY <1>2, <1>3, <1>4, <1>5, <1>6 DEF Inv

----------------------------------------------------------------------------
(* Actions of one process that neither sign, forget nor order a request    *)

\* A process that ends has nothing left to say.
LEMMA EndKeeps ==
  ASSUME Inv, NEW p \in Process, NEW n \in ProcRecord, Moves(p, n),
         n.request = None, n.at \in Over \cup {"idle"}, p \in Call => n.at \in Over,
         UNCHANGED <<log, callOf, base>>, StoreKeeps, NetKeeps(p)
  PROVE  Inv'
<1>1. proc'[p] = n
  BY Moved DEF Inv
<1>2. HoldOK(p)' /\ AnswerOK(p)'
  BY <1>1 DEF HoldOK, AnswerOK, Holding, Over
<1>3. p \in Call => CallOK(p)'
  BY <1>1 DEF CallOK, Early, Over
<1> QED
  BY <1>2, <1>3, MoveKeeps

\* A process that goes on with its request still holds it.
LEMMA HoldsOn ==
  ASSUME Inv, NEW p \in Process, NEW n \in ProcRecord, Moves(p, n), UNCHANGED callOf, StoreKeeps,
         proc[p].at \in Holding, n.at \in Holding, n.request = proc[p].request
  PROVE  HoldOK(p)' /\ (p \in Call => CallOK(p)') /\ (p \in Call => proc[p].at \notin Over)
<1>1. proc'[p] = n /\ \A q \in Process \ {p} : proc'[q] = proc[q]
  BY Moved DEF Inv
<1>2. HoldOK(p)
  BY DEF Inv
<1>3. p \in Helper => \A c \in Call : proc'[c] = proc[c]
  BY <1>1, NamesAssumption DEF Process
<1>4. HoldOK(p)'
  BY <1>1, <1>2, <1>3 DEF HoldOK, StoreKeeps
<1>5. n.at \notin Early /\ proc[p].at \notin Over
  BY DEF Holding, Early, Over
<1> QED
  BY <1>1, <1>4, <1>5 DEF CallOK

\* A late post is one of the request p holds.
LEMMA AdriftNet ==
  ASSUME Inv, NEW p \in Process, MaybeAdrift(p), UNCHANGED highWater
  PROVE  NetKeeps(p)
<1>1. proc[p].at \in Holding => proc[p].request \in Request
  BY DEF Inv, HoldOK
<1>2. adrift \in [Request -> Nat] /\ highWater' \in Nat
  BY DEF Inv, TypeOK
<1>3. CASE UNCHANGED adrift
  BY <1>2, <1>3 DEF NetKeeps
<1>4. CASE proc[p].at = "posting" /\ adrift' = [adrift EXCEPT ![proc[p].request] = @ + 1]
  BY <1>1, <1>2, <1>4 DEF NetKeeps, Holding
<1> QED
  BY <1>3, <1>4 DEF MaybeAdrift

\* A process that ends and touches nothing else.
LEMMA EndAsKeeps ==
  ASSUME Inv, NEW p \in Process, NEW place \in Over, EndAs(p, place),
         UNCHANGED <<log, callOf, base>>, StoreKeeps, NetKeeps(p)
  PROVE  Inv'
<1>1. PICK n \in ProcRecord : /\ Moves(p, n) /\ n.request = None
                             /\ n.at = IF p \in Call THEN place ELSE "idle"
  BY EndAsMoves DEF Inv
<1> QED
  BY <1>1, EndKeeps

LEMMA StartAppendKeeps == ASSUME Inv, NEW c \in Call, StartAppend(c) PROVE Inv'
<1>1. c \in Process /\ "fetching" \in At
  BY DEF Process, At
<1>2. PICK n \in ProcRecord : Moves(c, n) /\ n.at = "fetching" /\ n.request = proc[c].request
  BY <1>1, GotoMoves DEF StartAppend, Inv
<1>3. proc[c].at = "idle" /\ UNCHANGED <<log, callOf, base, outbox, completed, highWater, adrift>>
  BY DEF StartAppend, clerkVars, localVars
<1>4. proc'[c] = n
  BY <1>1, <1>2, Moved DEF Inv
<1>5. HoldOK(c)' /\ AnswerOK(c)'
  BY <1>1, <1>2, <1>3, <1>4 DEF HoldOK, AnswerOK, Holding, Inv
<1>6. CallOK(c)'
  BY <1>3 DEF CallOK, Early, Inv, Kept
<1>7. StoreKeeps /\ NetKeeps(c)
  BY <1>1, <1>3, StoreSame, NetSame
<1> QED
  BY <1>1, <1>2, <1>3, <1>5, <1>6, <1>7, MoveKeeps DEF Over

LEMMA FetchFailsKeeps == ASSUME Inv, NEW c \in Call, FetchFails(c) PROVE Inv'
<1>1. c \in Process /\ "failed" \in At /\ "failed" \in Over
  BY DEF Process, At, Over
<1>2. PICK n \in ProcRecord : Moves(c, n) /\ n.at = "failed" /\ n.request = None
  BY <1>1, EndMoves DEF FetchFails, Inv
<1>3. UNCHANGED <<log, callOf, base, outbox, completed, highWater, adrift>>
  BY DEF FetchFails, clerkVars, localVars
<1>4. StoreKeeps /\ NetKeeps(c)
  BY <1>1, <1>3, StoreSame, NetSame
<1> QED
  BY <1>1, <1>2, <1>3, <1>4, EndKeeps

LEMMA ServeStateKeeps == ASSUME Inv, NEW p \in Process, ServeState(p) PROVE Inv'
<1>1. TypeOK /\ HoldOK(p) /\ "fetched" \in At
  BY DEF Inv, At
<1>2. PICK k \in Nat : k = Len(log)
  BY <1>1 DEF TypeOK
<1>3. /\ proc[p].at = "fetching"
      /\ Counts(p, "fetched", k)
      /\ UNCHANGED <<log, callOf, base, outbox, completed, highWater, adrift>>
  BY <1>2 DEF ServeState, Counts, clerkVars, localVars
<1>4. PICK n \in ProcRecord : /\ Moves(p, n) /\ n.at = "fetched" /\ n.count = k
                             /\ n.request = proc[p].request
  BY <1>1, <1>3, CountMoves
<1>5. proc'[p] = n
  BY <1>1, <1>4, Moved
<1>6. HoldOK(p)'
  BY <1>1, <1>3, <1>4, <1>5 DEF HoldOK, Holding
<1>7. AnswerOK(p)'
  <2>1. proc'[p].at = "fetched" /\ proc'[p].count <= Len(log')
    BY <1>2, <1>3, <1>4, <1>5
  <2> QED
    BY <2>1 DEF AnswerOK
<1>8. p \in Call => CallOK(p)'
  BY <1>3 DEF CallOK, Early, Inv, Kept
<1>9. StoreKeeps /\ NetKeeps(p)
  BY <1>3, StoreSame, NetSame
<1> QED
  BY <1>3, <1>4, <1>6, <1>7, <1>8, <1>9, MoveKeeps DEF Over

LEMMA CacheSnapshotKeeps == ASSUME Inv, NEW c \in Call, CacheSnapshot(c) PROVE Inv'
<1>1. c \in Process /\ "accused" \in At \cap Over /\ "signing" \in At
  BY DEF Process, At, Over
<1>2. /\ proc[c].at = "fetched" /\ proc[c].count \in Nat
      /\ UNCHANGED <<log, callOf, base, outbox, completed, adrift>>
  BY <1>1 DEF CacheSnapshot, clerkVars, Inv, TypeOK, ProcRecord
<1>3. highWater' \in Nat
  BY <1>2 DEF CacheSnapshot, Inv, TypeOK
<1>4. StoreKeeps /\ NetKeeps(c)
  BY <1>2, <1>3, StoreSame DEF NetKeeps, Inv, TypeOK
<1>5. CASE End(c, "accused")
  <2>1. PICK n \in ProcRecord : Moves(c, n) /\ n.at = "accused" /\ n.request = None
    BY <1>1, <1>5, EndMoves DEF Inv
  <2> QED
    BY <1>1, <1>2, <1>4, <2>1, EndKeeps
<1>6. CASE Goto(c, "signing")
  <2>1. PICK n \in ProcRecord : /\ Moves(c, n) /\ n.at = "signing"
                               /\ n.request = proc[c].request /\ n.count = proc[c].count
    BY <1>1, <1>6, GotoMoves DEF Inv
  <2>2. proc'[c] = n
    BY <1>1, <2>1, Moved DEF Inv
  <2>3. HoldOK(c)' /\ AnswerOK(c)'
    BY <1>1, <1>2, <2>1, <2>2 DEF HoldOK, AnswerOK, Holding, Inv
  <2>4. CallOK(c)'
    BY <1>2 DEF CallOK, Early, Inv, Kept
  <2> QED
    BY <1>1, <1>2, <1>4, <2>1, <2>3, <2>4, MoveKeeps DEF Over
<1> QED
  BY <1>5, <1>6 DEF CacheSnapshot

LEMMA PostFailsKeeps == ASSUME Inv, NEW p \in Process, PostFails(p) PROVE Inv'
<1>1. TypeOK /\ HoldOK(p) /\ "unsettled" \in Over /\ "recovering" \in At \cap Holding
  BY DEF Inv, Over, At, Holding
<1>2. /\ proc[p].at \in {"posting", "answered"} /\ MaybeAdrift(p)
      /\ UNCHANGED <<log, callOf, base, outbox, completed, highWater>>
  BY DEF PostFails, clerkVars, localVars
<1>3. StoreKeeps /\ NetKeeps(p)
  BY <1>2, StoreSame, AdriftNet
<1>4. CASE EndAs(p, "unsettled")
  BY <1>1, <1>2, <1>3, <1>4, EndAsKeeps
<1>5. CASE Goto(p, "recovering")
  <2>1. PICK n \in ProcRecord : /\ Moves(p, n) /\ n.at = "recovering"
                               /\ n.request = proc[p].request
    BY <1>1, <1>5, GotoMoves
  <2>2. proc[p].at \in Holding
    BY <1>2 DEF Holding
  <2>3. HoldOK(p)' /\ (p \in Call => CallOK(p)') /\ (p \in Call => proc[p].at \notin Over)
    BY <1>1, <1>2, <1>3, <2>1, <2>2, HoldsOn
  <2>4. AnswerOK(p)'
    BY <1>1, <2>1, Moved DEF AnswerOK
  <2> QED
    BY <1>2, <1>3, <2>1, <2>3, <2>4, MoveKeeps
<1> QED
  BY <1>4, <1>5 DEF PostFails

LEMMA ReadReceiptKeeps == ASSUME Inv, NEW p \in Process, ReadReceipt(p) PROVE Inv'
<1>1. TypeOK /\ HoldOK(p) /\ AnswerOK(p) /\ "finalizing" \in At \cap Holding
  BY DEF Inv, At, Holding
<1>2. /\ proc[p].at = "answered" /\ proc[p].reply = "ordered" /\ Goto(p, "finalizing")
      /\ UNCHANGED <<log, callOf, base, outbox, completed, highWater, adrift>>
  BY DEF ReadReceipt, clerkVars, localVars
<1>3. StoreKeeps /\ NetKeeps(p)
  BY <1>2, StoreSame, NetSame
<1>4. PICK n \in ProcRecord : /\ Moves(p, n) /\ n.at = "finalizing"
                             /\ n.request = proc[p].request /\ n.count = proc[p].count
  BY <1>1, <1>2, GotoMoves
<1>5. proc[p].at \in Holding
  BY <1>2 DEF Holding
<1>6. HoldOK(p)' /\ (p \in Call => CallOK(p)') /\ (p \in Call => proc[p].at \notin Over)
  BY <1>1, <1>2, <1>3, <1>4, <1>5, HoldsOn
<1>7. AnswerOK(p)'
  <2>1. Receipt(n.count, n.request)'
    BY <1>1, <1>2, <1>4 DEF AnswerOK, Receipt
  <2>2. proc'[p] = n
    BY <1>1, <1>4, Moved
  <2> QED
    BY <1>4, <2>1, <2>2 DEF AnswerOK, Receipt
<1> QED
  BY <1>2, <1>3, <1>4, <1>6, <1>7, MoveKeeps

LEMMA LookupFailsKeeps == ASSUME Inv, NEW p \in Process, LookupFails(p) PROVE Inv'
<1>1. EndAs(p, "unsettled") /\ UNCHANGED <<log, callOf, base, outbox, completed, highWater, adrift>>
  BY DEF LookupFails, clerkVars, localVars
<1>2. StoreKeeps /\ NetKeeps(p) /\ "unsettled" \in Over
  BY <1>1, StoreSame, NetSame DEF Over
<1> QED
  BY <1>1, <1>2, EndAsKeeps

LEMMA FinalizeFailsKeeps == ASSUME Inv, NEW p \in Process, FinalizeFails(p) PROVE Inv'
<1>1. EndAs(p, "unsettled") /\ UNCHANGED <<log, callOf, base, outbox, completed, highWater, adrift>>
  BY DEF FinalizeFails, clerkVars, localVars
<1>2. StoreKeeps /\ NetKeeps(p) /\ "unsettled" \in Over
  BY <1>1, StoreSame, NetSame DEF Over
<1> QED
  BY <1>1, <1>2, EndAsKeeps

LEMMA CrashKeeps == ASSUME Inv, NEW p \in Process, Crash(p) PROVE Inv'
<1>1. /\ EndAs(p, "crashed") /\ MaybeAdrift(p)
      /\ UNCHANGED <<log, callOf, base, outbox, completed, highWater>>
  BY DEF Crash, clerkVars, localVars
<1>2. StoreKeeps /\ NetKeeps(p) /\ "crashed" \in Over
  BY <1>1, StoreSame, AdriftNet DEF Over
<1> QED
  BY <1>1, <1>2, EndAsKeeps

LEMMA UnlinkKeeps == ASSUME Inv, NEW p \in Process, Unlink(p) PROVE Inv'
<1>1. /\ proc[p].at = "unlinking" /\ EndAs(p, "returned")
      /\ outbox' = outbox \ {proc[p].request}
      /\ UNCHANGED <<log, callOf, base, completed, highWater, adrift>>
  BY DEF Unlink, clerkVars
<1>2. completed[proc[p].request] # 0 /\ TypeOK /\ \A r \in Request : RequestOK(r)
  BY <1>1 DEF Inv, AnswerOK
<1>3. StoreKeeps
  BY <1>1, <1>2 DEF StoreKeeps, Kept, TypeOK, RequestOK
<1>4. NetKeeps(p) /\ "returned" \in Over
  BY <1>1, NetSame DEF Over
<1> QED
  BY <1>1, <1>3, <1>4, EndAsKeeps

\* The completed record holds the position of the event.
LEMMA FinalizeKeeps == ASSUME Inv, NEW p \in Process, Finalize(p) PROVE Inv'
<1> DEFINE r == proc[p].request
<1>1. /\ TypeOK /\ HoldOK(p) /\ AnswerOK(p) /\ "unlinking" \in At \cap Holding
      /\ \A s \in Request : RequestOK(s)
  BY DEF Inv, At, Holding
<1>2. /\ proc[p].at = "finalizing" /\ Goto(p, "unlinking")
      /\ completed' = [completed EXCEPT ![r] = proc[p].count]
      /\ UNCHANGED <<log, callOf, base, outbox, highWater, adrift>>
  BY DEF Finalize, clerkVars
<1>3. proc[p].at \in Holding
  BY <1>2 DEF Holding
<1>4. r \in Request /\ Kept(r) /\ Receipt(proc[p].count, r)
  BY <1>1, <1>2, <1>3 DEF HoldOK, AnswerOK
<1>5. proc[p].count \in Nat \ {0}
  BY <1>1, <1>4 DEF TypeOK, Receipt
<1>6. completed'[r] = proc[p].count /\ \A s \in Request \ {r} : completed'[s] = completed[s]
  BY <1>1, <1>2, <1>4 DEF TypeOK
<1>7. StoreKeeps
  <2>1. completed' \in [Request -> Nat] /\ outbox' \subseteq Request
    BY <1>1, <1>2, <1>4, <1>5 DEF TypeOK
  <2> QED
    BY <1>1, <1>2, <1>4, <1>5, <1>6, <2>1 DEF StoreKeeps, Kept, RequestOK
<1>8. PICK n \in ProcRecord : /\ Moves(p, n) /\ n.at = "unlinking" /\ n.request = r
  BY <1>1, <1>2, GotoMoves
<1>9. HoldOK(p)' /\ (p \in Call => CallOK(p)') /\ (p \in Call => proc[p].at \notin Over)
  BY <1>1, <1>2, <1>3, <1>7, <1>8, HoldsOn
<1>10. AnswerOK(p)'
  <2>1. proc'[p] = n
    BY <1>1, <1>8, Moved
  <2> QED
    BY <1>5, <1>6, <1>8, <2>1 DEF AnswerOK
<1>11. NetKeeps(p)
  BY <1>2, NetSame
<1> QED
  BY <1>2, <1>7, <1>8, <1>9, <1>10, <1>11, MoveKeeps

\* The clerk finds a request where it ordered it.
LEMMA PositionIs ==
  ASSUME TypeOK, NEW r
  PROVE  /\ Position(r) \in Nat
         /\ r \in Ordered => Receipt(Position(r), r)
         /\ r \notin Ordered => Position(r) = 0
         /\ Position(r) > 0 => Receipt(Position(r), r)
<1>1. CASE r \in Ordered
  <2>1. PICK i \in DOMAIN log : log[i] = r
    BY <1>1 DEF Ordered
  <2>2. Receipt(Position(r), r)
    BY <1>1, <2>1 DEF Position, Receipt
  <2> QED
    BY <1>1, <2>2 DEF Receipt, TypeOK
<1>2. CASE r \notin Ordered
  BY <1>2 DEF Position, TypeOK
<1> QED
  BY <1>1, <1>2

LEMMA ServeReceiptKeeps == ASSUME Inv, NEW p \in Process, ServeReceipt(p) PROVE Inv'
<1>1. TypeOK /\ HoldOK(p) /\ "looked_up" \in At /\ "looked_up" \in Holding
  BY DEF Inv, At, Holding
<1>2. PICK k \in Nat : k = Position(proc[p].request)
  BY <1>1, PositionIs
<1>3. /\ proc[p].at = "recovering" /\ Counts(p, "looked_up", k)
      /\ UNCHANGED <<log, callOf, base, outbox, completed, highWater, adrift>>
  BY <1>2 DEF ServeReceipt, Counts, clerkVars, localVars
<1>4. PICK n \in ProcRecord : /\ Moves(p, n) /\ n.at = "looked_up" /\ n.count = k
                             /\ n.request = proc[p].request
  <2>1. PICK place \in At : place = "looked_up"
    BY <1>1
  <2>2. TypeOK /\ Counts(p, place, k)
    BY <1>1, <1>3, <2>1
  <2>3. PICK n \in ProcRecord : /\ Moves(p, n) /\ n.at = place /\ n.count = k
                               /\ n.request = proc[p].request
    BY <2>2, CountMoves
  <2> QED
    BY <2>1, <2>3
<1>5. StoreKeeps /\ NetKeeps(p) /\ proc[p].at \in Holding
  BY <1>3, StoreSame, NetSame DEF Holding
<1>6. HoldOK(p)' /\ (p \in Call => CallOK(p)') /\ (p \in Call => proc[p].at \notin Over)
  BY <1>1, <1>3, <1>4, <1>5, HoldsOn
<1>7. AnswerOK(p)'
  <2>1. n.count > 0 => Receipt(n.count, n.request)'
    BY <1>1, <1>2, <1>3, <1>4, PositionIs DEF Receipt
  <2>2. proc'[p] = n
    BY <1>1, <1>4, Moved
  <2> QED
    BY <1>4, <2>1, <2>2 DEF AnswerOK, Receipt
<1> QED
  BY <1>3, <1>4, <1>5, <1>6, <1>7, MoveKeeps

LEMMA ReadLookupKeeps == ASSUME Inv, NEW p \in Process, ReadLookup(p) PROVE Inv'
<1> DEFINE place == IF proc[p].count > 0 THEN "finalizing" ELSE "posting"
<1>1. TypeOK /\ HoldOK(p) /\ AnswerOK(p) /\ place \in At /\ place \in Holding
  BY DEF Inv, At, Holding
<1>2. /\ proc[p].at = "looked_up" /\ Reposts(p, place)
      /\ UNCHANGED <<log, callOf, base, outbox, completed, highWater, adrift>>
  BY DEF ReadLookup, Reposts, clerkVars, localVars
<1>3. /\ place = "finalizing" => proc[p].count > 0
      /\ place \in {"finalizing", "posting"}
  OBVIOUS
<1> HIDE DEF place
<1>4. PICK n \in ProcRecord : /\ Moves(p, n) /\ n.at = place /\ n.repost
                             /\ n.request = proc[p].request /\ n.count = proc[p].count
  BY <1>1, <1>2, RepostMoves
<1>5. StoreKeeps /\ NetKeeps(p) /\ proc[p].at \in Holding
  BY <1>2, StoreSame, NetSame DEF Holding
<1>6. HoldOK(p)' /\ (p \in Call => CallOK(p)') /\ (p \in Call => proc[p].at \notin Over)
  BY <1>1, <1>2, <1>4, <1>5, HoldsOn
<1>7. AnswerOK(p)'
  <2>1. n.at = "finalizing" => Receipt(n.count, n.request)'
    BY <1>1, <1>2, <1>3, <1>4 DEF AnswerOK, Receipt
  <2>2. proc'[p] = n
    BY <1>1, <1>4, Moved
  <2> QED
    BY <1>3, <1>4, <2>1, <2>2 DEF AnswerOK, Receipt
<1> QED
  BY <1>2, <1>4, <1>5, <1>6, <1>7, MoveKeeps

LEMMA StartRecoverKeeps ==
  ASSUME Inv, NEW h \in Helper, NEW r \in outbox, StartRecover(h, r)
  PROVE  Inv'
<1>1. /\ TypeOK /\ h \in Process /\ h \notin Call /\ r \in Request
      /\ "recovering" \in At \cap Holding
  BY NamesAssumption DEF Inv, TypeOK, Process, At, Holding
<1>2. /\ Takes(h, r) /\ proc[callOf[r]].at \in Over
      /\ UNCHANGED <<log, callOf, base, outbox, completed, highWater, adrift>>
  BY DEF StartRecover, Takes, clerkVars, localVars
<1>3. PICK n \in ProcRecord : Moves(h, n) /\ n.at = "recovering" /\ n.request = r
  BY <1>1, <1>2, TakeMoves
<1>4. StoreKeeps /\ NetKeeps(h)
  BY <1>1, <1>2, StoreSame, NetSame
<1>5. Kept(r) /\ callOf[r] \in Call
  <2>1. Kept(r) /\ RequestOK(r)
    BY <1>1 DEF Inv, Kept
  <2> QED
    BY <1>1, <2>1 DEF RequestOK, TypeOK
<1>6. proc'[h] = n /\ \A c \in Call : proc'[c] = proc[c]
  BY <1>1, <1>3, Moved DEF Process
<1>7. HoldOK(h)'
  BY <1>1, <1>2, <1>3, <1>4, <1>5, <1>6 DEF HoldOK, StoreKeeps
<1>8. AnswerOK(h)'
  BY <1>3, <1>6 DEF AnswerOK
<1> QED
  BY <1>1, <1>2, <1>3, <1>4, <1>7, <1>8, MoveKeeps

----------------------------------------------------------------------------
(* Signing, forgetting and ordering                                        *)

\* A call forgets an envelope that can no longer be ordered: no other process
\* has it, and it is free to sign another.
LEMMA ForgetKeeps ==
  ASSUME Inv, NEW c \in Call, NEW n \in ProcRecord, Moves(c, n),
         proc[c].at \in Holding, proc[c].request \notin Ordered,
         adrift[proc[c].request] = 0 \/ base[proc[c].request] < Len(log),
         n.at \in Over \cup {"fetching"}, n.request = None,
         outbox' = outbox \ {proc[c].request},
         UNCHANGED <<log, callOf, base, completed, highWater, adrift>>
  PROVE  Inv'
<1>1. /\ TypeOK /\ HoldOK(c) /\ c \in Process
      /\ \A s \in Request : RequestOK(s)
      /\ \A q \in Process : HoldOK(q) /\ AnswerOK(q)
  BY DEF Inv, Process
<1>2. PICK r \in Request : /\ r = proc[c].request /\ callOf[r] = c /\ Kept(r)
                          /\ r \notin Ordered /\ (adrift[r] = 0 \/ base[r] < Len(log))
                          /\ outbox' = outbox \ {r}
  BY <1>1 DEF HoldOK
<1>3. proc' \in [Process -> ProcRecord] /\ proc'[c] = n
      /\ \A q \in Process \ {c} : proc'[q] = proc[q]
  BY <1>1, Moved
<1>4. ~Kept(r)' /\ \A s \in Request \ {r} : Kept(s)' <=> Kept(s)
  <2>1. completed[r] = 0
    BY <1>1, <1>2 DEF RequestOK, Receipt, Ordered
  <2> QED
    BY <1>2, <2>1 DEF Kept
<1>5. TypeOK'
  BY <1>1, <1>3 DEF TypeOK
<1>6. Ordered' = Ordered /\ Distinct' /\ KeptOnce'
  <2>1. \A s \in Request : Kept(s)' => Kept(s)
    BY <1>2, <1>4
  <2> QED
    BY <2>1 DEF Inv, Ordered, Distinct, KeptOnce
<1>7. ASSUME NEW s \in Request PROVE RequestOK(s)'
  BY <1>1, <1>2, <1>4, <1>6, NamesAssumption DEF RequestOK, Receipt
<1>8. ASSUME NEW q \in Process PROVE HoldOK(q)' /\ AnswerOK(q)'
  <2>1. CASE q = c
    BY <1>3, <2>1 DEF HoldOK, AnswerOK, Holding, Over
  <2>2. CASE q # c
    <3>1. HoldOK(q) /\ AnswerOK(q) /\ proc'[q] = proc[q]
      BY <1>1, <1>3, <2>2
    <3>2. proc[q].at \in Holding => proc[q].request # r
      BY <1>1, <1>2, <2>2, Alone
    <3>3. proc[c].at \notin Over
      BY DEF Holding, Over
    <3>4. HoldOK(q)'
      BY <1>3, <1>4, <3>1, <3>2, <3>3 DEF HoldOK, Process
    <3> QED
      BY <1>6, <3>1, <3>4 DEF AnswerOK, Receipt
  <2> QED
    BY <2>1, <2>2
<1>9. ASSUME NEW d \in Call PROVE CallOK(d)'
  <2>1. CASE d = c
    <3>1. \A s \in Request \ {r} : callOf[s] = c => ~Kept(s)
      BY <1>2, NamesAssumption DEF Inv, KeptOnce
    <3> QED
      BY <1>4, <2>1, <3>1 DEF CallOK
  <2>2. CASE d # c
    <3>1. CallOK(d) /\ proc'[d] = proc[d]
      BY <1>3, <2>2 DEF Inv, Process
    <3> QED
      BY <1>4, <3>1 DEF CallOK
  <2> QED
    BY <2>1, <2>2
<1> QED
  BY <1>5, <1>6, <1>7, <1>8, <1>9 DEF Inv

LEMMA ReadStaleKeeps == ASSUME Inv, NEW p \in Process, ReadStale(p) PROVE Inv'
<1>1. /\ TypeOK /\ HoldOK(p) /\ AnswerOK(p) /\ proc[p] \in ProcRecord
      /\ "idle" \in At /\ "failed" \in At
  BY DEF Inv, TypeOK, At, Over
<1>2. /\ proc[p].at = "answered" /\ proc[p].reply = "stale"
      /\ UNCHANGED <<log, callOf, base, completed, highWater, adrift>>
  BY DEF ReadStale, clerkVars
<1>3. proc[p].at \in Holding /\ proc[p].request \notin Ordered /\ base[proc[p].request] < Len(log)
  BY <1>1, <1>2 DEF AnswerOK, Holding
<1>4. CASE p \in Helper /\ End(p, "idle") /\ UNCHANGED outbox
  <2>1. PICK n \in ProcRecord : Moves(p, n) /\ n.at = "idle" /\ n.request = None
    BY <1>1, <1>4, EndMoves
  <2>2. p \notin Call /\ StoreKeeps /\ NetKeeps(p)
    BY <1>2, <1>4, StoreSame, NetSame, NamesAssumption
  <2> QED
    BY <1>2, <2>1, <2>2, EndKeeps
<1>5. CASE p \in Call /\ outbox' = outbox \ {proc[p].request} /\ End(p, "failed")
  <2>1. PICK n \in ProcRecord : Moves(p, n) /\ n.at = "failed" /\ n.request = None
    BY <1>1, <1>5, EndMoves
  <2> QED
    BY <1>2, <1>3, <1>5, <2>1, ForgetKeeps DEF Over
<1>6. CASE p \in Call /\ outbox' = outbox \ {proc[p].request} /\ proc[p].attempt # StaleRetries
           /\ Retries(p, proc[p].attempt + 1)
  <2>1. proc[p].attempt + 1 \in 0..StaleRetries
    BY <1>1, <1>6, RetriesAssumption DEF ProcRecord
  <2>2. PICK n \in ProcRecord : Moves(p, n) /\ n.at = "fetching" /\ n.request = None
    BY <1>6, <2>1, RetryMoves
  <2> QED
    BY <1>2, <1>3, <1>6, <2>2, ForgetKeeps
<1> QED
  BY <1>4, <1>5, <1>6 DEF ReadStale, Retries

LEMMA ReadRejectedKeeps == ASSUME Inv, NEW p \in Process, ReadRejected(p) PROVE Inv'
<1>1. /\ TypeOK /\ HoldOK(p) /\ AnswerOK(p)
      /\ "unsettled" \in Over /\ "failed" \in At /\ "failed" \in Over
  BY DEF Inv, At, Over
<1>2. /\ proc[p].at = "answered" /\ proc[p].reply = "rejected"
      /\ UNCHANGED <<log, callOf, base, completed, highWater, adrift>>
  BY DEF ReadRejected, clerkVars
<1>3. CASE EndAs(p, "unsettled") /\ UNCHANGED outbox
  <2>1. StoreKeeps /\ NetKeeps(p)
    BY <1>2, <1>3, StoreSame, NetSame
  <2> QED
    BY <1>1, <1>2, <1>3, <2>1, EndAsKeeps
<1>4. CASE ~proc[p].repost /\ outbox' = outbox \ {proc[p].request} /\ End(p, "failed")
  <2>1. p \in Call /\ adrift[proc[p].request] = 0 /\ proc[p].request \notin Ordered
    BY <1>1, <1>2, <1>4 DEF AnswerOK
  <2>2. PICK n \in ProcRecord : Moves(p, n) /\ n.at = "failed" /\ n.request = None
    BY <1>1, <1>4, EndMoves
  <2>3. proc[p].at \in Holding
    BY <1>2 DEF Holding
  <2> QED
    BY <1>1, <1>2, <1>4, <2>1, <2>2, <2>3, ForgetKeeps
<1> QED
  BY <1>3, <1>4 DEF ReadRejected

\* A fresh id has left no trace, and the call has no other envelope on disk.
LEMMA SignEnvelopeKeeps == ASSUME Inv, NEW c \in Call, SignEnvelope(c) PROVE Inv'
<1>1. /\ TypeOK /\ c \in Process /\ CallOK(c) /\ AnswerOK(c) /\ proc[c].count \in Nat
      /\ \A s \in Request : RequestOK(s)
      /\ \A q \in Process : HoldOK(q) /\ AnswerOK(q)
  BY DEF Inv, TypeOK, ProcRecord, Process
<1>2. PICK r \in Request :
        /\ callOf[r] = None
        /\ callOf' = [callOf EXCEPT ![r] = c]
        /\ base' = [base EXCEPT ![r] = proc[c].count]
        /\ outbox' = outbox \cup {r}
        /\ Signs(c, r)
  BY DEF SignEnvelope, Signs
<1>3. proc[c].at = "signing" /\ UNCHANGED <<log, completed, highWater, adrift>>
  BY DEF SignEnvelope, clerkVars
<1>4. PICK n \in ProcRecord : Moves(c, n) /\ n.at = "posting" /\ n.request = r /\ ~n.repost
  BY <1>1, <1>2, SignMoves
<1>5. proc' \in [Process -> ProcRecord] /\ proc'[c] = n
      /\ \A q \in Process \ {c} : proc'[q] = proc[q]
  BY <1>1, <1>4, Moved
<1>6. r \notin Ordered /\ ~Kept(r) /\ adrift[r] = 0 /\ c # None
  BY <1>1, <1>2, NamesAssumption DEF RequestOK
<1>7. /\ callOf'[r] = c /\ base'[r] = proc[c].count /\ Kept(r)'
      /\ \A s \in Request \ {r} :
           callOf'[s] = callOf[s] /\ base'[s] = base[s] /\ (Kept(s)' <=> Kept(s))
  BY <1>1, <1>2, <1>3 DEF TypeOK, Kept
<1>8. TypeOK'
  <2>1. callOf' \in [Request -> Call \cup {None}] /\ base' \in [Request -> Nat]
    BY <1>1, <1>2 DEF TypeOK
  <2> QED
    BY <1>1, <1>2, <1>3, <1>5, <2>1 DEF TypeOK
<1>9. Ordered' = Ordered /\ Distinct'
  BY <1>3 DEF Inv, Ordered, Distinct
<1>10. KeptOnce'
  <2>1. \A s \in Request \ {r} : callOf[s] = c => ~Kept(s)
    BY <1>1, <1>3 DEF CallOK, Early
  <2> QED
    BY <1>7, <2>1 DEF Inv, KeptOnce
<1>11. ASSUME NEW s \in Request PROVE RequestOK(s)'
  <2>1. CASE s = r
    <3>1. proc[c].count <= Len(log) /\ completed[r] = 0
      BY <1>1, <1>3, <1>6 DEF AnswerOK, Kept
    <3> QED
      BY <1>3, <1>6, <1>7, <2>1, <3>1 DEF RequestOK
  <2>2. CASE s # r
    BY <1>1, <1>3, <1>7, <1>9, <2>2 DEF RequestOK, Receipt
  <2> QED
    BY <2>1, <2>2
<1>12. ASSUME NEW q \in Process PROVE HoldOK(q)' /\ AnswerOK(q)'
  <2>1. CASE q = c
    <3>1. HoldOK(q)'
      BY <1>4, <1>5, <1>7, <2>1, NamesAssumption DEF HoldOK, Holding
    <3> QED
      BY <1>3, <1>4, <1>5, <1>6, <1>9, <2>1, <3>1 DEF AnswerOK
  <2>2. CASE q # c
    <3>1. HoldOK(q) /\ AnswerOK(q) /\ proc'[q] = proc[q]
      BY <1>1, <1>5, <2>2
    <3>2. proc[q].at \in Holding => proc[q].request \in Request \ {r}
      BY <1>6, <3>1 DEF HoldOK
    <3>3. proc[c].at \notin Over
      BY <1>3 DEF Over
    <3>4. HoldOK(q)'
      BY <1>5, <1>7, <3>1, <3>2, <3>3 DEF HoldOK, Process
    <3>5. proc[q].at \in {"posting", "answered"} => base'[proc[q].request] = base[proc[q].request]
      BY <1>7, <3>2 DEF Holding
    <3> QED
      BY <1>3, <1>9, <3>1, <3>4, <3>5 DEF AnswerOK, Receipt
  <2> QED
    BY <2>1, <2>2
<1>13. ASSUME NEW d \in Call PROVE CallOK(d)'
  <2>1. CASE d = c
    BY <1>4, <1>5, <2>1 DEF CallOK, Early
  <2>2. CASE d # c
    <3>1. CallOK(d) /\ proc'[d] = proc[d]
      BY <1>5, <2>2 DEF Inv, Process
    <3> QED
      BY <1>7, <2>2, <3>1 DEF CallOK
  <2> QED
    BY <2>1, <2>2
<1> QED
  BY <1>8, <1>9, <1>10, <1>11, <1>12, <1>13 DEF Inv

LEMMA Grown ==
  ASSUME TypeOK, NEW x \in Request \cup {None}, log' = Append(log, x)
  PROVE  /\ log' \in Seq(Request \cup {None})
         /\ Len(log) \in Nat /\ Len(log') = Len(log) + 1
         /\ DOMAIN log = 1..Len(log) /\ DOMAIN log' = 1..(Len(log) + 1)
         /\ \A i \in DOMAIN log : log'[i] = log[i]
         /\ log'[Len(log) + 1] = x
         /\ Ordered' = Ordered \cup {x}
         /\ \A i, r : Receipt(i, r) => Receipt(i, r)'
<1>1. log \in Seq(Request \cup {None})
  BY DEF TypeOK
<1>2. /\ log' \in Seq(Request \cup {None})
      /\ Len(log) \in Nat /\ Len(log') = Len(log) + 1
      /\ DOMAIN log = 1..Len(log) /\ DOMAIN log' = 1..(Len(log) + 1)
      /\ \A i \in DOMAIN log : log'[i] = log[i]
      /\ log'[Len(log) + 1] = x
  BY <1>1
<1>3. Ordered' = Ordered \cup {x}
  BY <1>2 DEF Ordered
<1>4. \A i, r : Receipt(i, r) => Receipt(i, r)'
  BY <1>2 DEF Receipt
<1> QED
  BY <1>2, <1>3, <1>4

\* Process q has not posted x for the first time, or this is the answer to it.
HearsOf(q, x) ==
  \/ /\ proc'[q] = proc[q]
     /\ proc[q].at \in {"posting", "answered"} /\ ~proc[q].repost => proc[q].request # x
  \/ /\ proc[q].at = "posting" /\ proc'[q].at = "answered"
     /\ proc[q].request = x /\ proc'[q].request = x /\ proc'[q].repost = proc[q].repost
     /\ proc'[q].reply = "ordered" /\ proc'[q].count = Len(log) + 1

\* The clerk orders an event of another clone, or an envelope that is new to it,
\* on the head and still on disk.
LEMMA OrderKeeps ==
  ASSUME Inv, NEW x \in Request \cup {None}, log' = Append(log, x),
         x \in Request => x \notin Ordered /\ base[x] = Len(log) /\ Kept(x),
         UNCHANGED <<callOf, base, outbox, completed, highWater>>,
         adrift' \in [Request -> Nat], \A r \in Request : adrift'[r] <= adrift[r],
         proc' \in [Process -> ProcRecord], \A q \in Process : HearsOf(q, x)
  PROVE  Inv'
<1>1. /\ TypeOK /\ Distinct /\ KeptOnce
      /\ \A r \in Request : RequestOK(r) /\ adrift[r] \in Nat /\ adrift'[r] \in Nat
                          /\ base[r] \in Nat
      /\ \A q \in Process : HoldOK(q) /\ AnswerOK(q)
      /\ \A c \in Call : CallOK(c)
  BY DEF Inv, TypeOK
<1>2. /\ log' \in Seq(Request \cup {None})
      /\ Len(log) \in Nat /\ Len(log') = Len(log) + 1
      /\ DOMAIN log = 1..Len(log) /\ DOMAIN log' = 1..(Len(log) + 1)
      /\ \A i \in DOMAIN log : log'[i] = log[i]
      /\ log'[Len(log) + 1] = x
      /\ Ordered' = Ordered \cup {x}
      /\ \A i, r : Receipt(i, r) => Receipt(i, r)'
  BY <1>1, Grown
<1>3. \A r \in Request : Kept(r)' <=> Kept(r)
  BY DEF Kept
<1>4. TypeOK'
  BY <1>1, <1>2 DEF TypeOK
<1>5. Distinct'
  <2>1. x # None => \A i \in DOMAIN log : log[i] # x
    BY DEF Ordered
  <2> QED
    BY <1>1, <1>2, <2>1 DEF Distinct
<1>6. KeptOnce'
  BY <1>1, <1>3 DEF KeptOnce
<1>7. ASSUME NEW r \in Request PROVE RequestOK(r)'
  <2>1. r = x => Kept(r) /\ callOf[r] # None
    BY <1>1 DEF RequestOK
  <2>2. base[r] \in Nat /\ base[r] <= Len(log) /\ base'[r] = base[r]
    BY <1>1 DEF RequestOK
  <2>3. callOf[r] = None => r \notin Ordered' /\ ~Kept(r)' /\ adrift'[r] = 0
    BY <1>1, <1>2, <1>3, <2>1 DEF RequestOK
  <2>4. callOf[r] # None /\ ~Kept(r)' => r \notin Ordered' /\ base[r] < Len(log')
    BY <1>1, <1>2, <1>3, <2>1, <2>2 DEF RequestOK
  <2>5. completed'[r] # 0 => Receipt(completed[r], r)'
    BY <1>1, <1>2 DEF RequestOK
  <2>6. base'[r] <= Len(log')
    BY <1>2, <2>2
  <2> QED
    BY <2>2, <2>3, <2>4, <2>5, <2>6 DEF RequestOK
<1>8. \A c \in Call : proc[c].at \in Over => proc'[c].at \in Over
  BY DEF HearsOf, Over, Process
<1>9. ASSUME NEW q \in Process PROVE HoldOK(q)' /\ AnswerOK(q)'
  <2>1. HoldOK(q) /\ AnswerOK(q) /\ HearsOf(q, x)
    BY <1>1
  <2>2. HoldOK(q)'
    BY <1>3, <1>8, <2>1 DEF HoldOK, HearsOf, Holding
  <2>3. CASE /\ proc'[q] = proc[q]
             /\ proc[q].at \in {"posting", "answered"} /\ ~proc[q].repost => proc[q].request # x
    <3>1. CASE proc[q].at \notin Holding
      <4>1. proc[q].at \in {"fetched", "signing"} => proc[q].count <= Len(log)
        BY <2>1 DEF AnswerOK
      <4>2. proc[q].count \in Nat
        BY <1>1 DEF TypeOK, ProcRecord
      <4>3. proc[q].at \in {"fetched", "signing"} => proc'[q].count <= Len(log')
        BY <1>2, <2>3, <4>1, <4>2
      <4> QED
        BY <2>2, <2>3, <3>1, <4>3 DEF AnswerOK, Holding
    <3>2. CASE proc[q].at \in Holding
      <4>1. PICK r \in Request : r = proc[q].request
        BY <2>1, <3>2 DEF HoldOK
      <4>2. /\ base[r] \in Nat /\ adrift[r] \in Nat /\ adrift'[r] \in Nat
            /\ adrift'[r] <= adrift[r]
        BY <1>1
      <4>3. /\ adrift[r] = 0 => adrift'[r] = 0
            /\ base[r] < Len(log) => r # x /\ base[r] < Len(log')
        BY <1>2, <4>2
      <4>4. r # x => (r \in Ordered' <=> r \in Ordered)
        BY <1>2
      <4>5. proc[q].at \notin {"fetched", "signing"}
        BY <3>2 DEF Holding
      <4>6. PICK k : k = proc[q].count
        OBVIOUS
      <4>7. /\ Receipt(k, r) => Receipt(k, r)'
            /\ proc'[q].request = r /\ proc'[q].count = k
        BY <1>2, <2>3, <4>1, <4>6
      <4> QED
        BY <2>1, <2>2, <2>3, <4>1, <4>3, <4>4, <4>5, <4>6, <4>7 DEF AnswerOK, Receipt
    <3> QED
      BY <3>1, <3>2
  <2>4. CASE /\ proc[q].at = "posting" /\ proc'[q].at = "answered"
             /\ proc[q].request = x /\ proc'[q].request = x /\ proc'[q].repost = proc[q].repost
             /\ proc'[q].reply = "ordered" /\ proc'[q].count = Len(log) + 1
    <3>1. x \in Request
      BY <2>1, <2>4 DEF HoldOK, Holding
    <3>2. ~proc[q].repost => q \in Call /\ adrift[x] = 0
      BY <2>1, <2>4 DEF AnswerOK
    <3>3. adrift[x] = 0 => adrift'[x] = 0
      BY <1>1, <3>1
    <3>4. PICK k : k = Len(log) + 1
      OBVIOUS
    <3>5. Receipt(k, x)'
      BY <1>2, <3>4 DEF Receipt
    <3>6. proc'[q].request = x /\ proc'[q].count = k
      BY <2>4, <3>4
    <3> QED
      BY <2>2, <2>4, <3>2, <3>3, <3>5, <3>6 DEF AnswerOK, Receipt
  <2> QED
    BY <2>1, <2>3, <2>4 DEF HearsOf
<1>10. ASSUME NEW c \in Call PROVE CallOK(c)'
  <2>1. proc[c].at \in Early \/ proc'[c].at \notin Early
    BY DEF HearsOf, Process, Early
  <2> QED
    BY <1>1, <1>3, <2>1 DEF CallOK
<1> QED
  BY <1>4, <1>5, <1>6, <1>7, <1>9, <1>10 DEF Inv

LEMMA ServePostKeeps == ASSUME Inv, NEW p \in Process, ServePost(p) PROVE Inv'
<1>1. /\ TypeOK /\ HoldOK(p) /\ AnswerOK(p) /\ "answered" \in Holding
      /\ \A q \in Process : HoldOK(q) /\ AnswerOK(q)
  BY DEF Inv, Holding
<1>2. /\ proc[p].at = "posting" /\ proc[p].at \in Holding
      /\ UNCHANGED <<callOf, base, outbox, completed, highWater, adrift>>
  BY DEF ServePost, localVars, Holding
<1>3. PICK r \in Request : r = proc[p].request /\ Kept(r)
  BY <1>1, <1>2 DEF HoldOK
<1>4. Len(log) \in Nat /\ RequestOK(r)
  BY <1>1 DEF Inv, TypeOK
<1>5. PICK reply \in Reply, k \in 0..(Len(log) + 1) :
        AppendEnvelope(r, reply, k) /\ Answers(p, reply, k)
  BY <1>3 DEF ServePost, Answers
<1>6. k \in Nat
  BY <1>4
<1>7. PICK n \in ProcRecord :
        /\ Moves(p, n) /\ n.at = "answered" /\ n.reply = reply /\ n.count = k
        /\ n.request = proc[p].request /\ n.repost = proc[p].repost
  BY <1>1, <1>5, <1>6, AnswerMoves
<1>8. proc' \in [Process -> ProcRecord] /\ proc'[p] = n
      /\ \A q \in Process \ {p} : proc'[q] = proc[q]
  BY <1>1, <1>7, Moved
<1>9. ASSUME UNCHANGED log,
             reply = "ordered" => Receipt(k, r),
             reply = "stale" => r \notin Ordered /\ base[r] < Len(log),
             r \in Ordered => reply = "ordered"
      PROVE  Inv'
  <2>1. StoreKeeps /\ NetKeeps(p)
    BY <1>2, StoreSame, NetSame
  <2>2. HoldOK(p)' /\ (p \in Call => CallOK(p)') /\ (p \in Call => proc[p].at \notin Over)
    BY <1>1, <1>2, <1>7, <2>1, HoldsOn
  <2>3. AnswerOK(p)'
    <3>1. /\ proc'[p].at = "answered" /\ proc'[p].reply = reply /\ proc'[p].count = k
          /\ proc'[p].request = r /\ proc'[p].repost = proc[p].repost
      BY <1>3, <1>7, <1>8
    <3>2. ~proc[p].repost => p \in Call /\ adrift'[r] = 0
      BY <1>1, <1>2, <1>3 DEF AnswerOK
    <3>3. (reply = "ordered" => Receipt(k, r)') /\ Ordered' = Ordered
      BY <1>9 DEF Receipt, Ordered
    <3>4. reply = "stale" => r \notin Ordered /\ base'[r] < Len(log')
      BY <1>2, <1>9
    <3> QED
      BY <1>9, <3>1, <3>2, <3>3, <3>4 DEF AnswerOK, Receipt
  <2> QED
    BY <1>2, <1>7, <1>9, <2>1, <2>2, <2>3, MoveKeeps
<1>10. CASE r \in Ordered /\ reply = "ordered" /\ k = Position(r) /\ UNCHANGED log
  <2>1. Receipt(k, r)
    BY <1>1, <1>10, PositionIs
  <2> QED
    BY <1>9, <1>10, <2>1
<1>11. CASE r \notin Ordered /\ base[r] # Len(log) /\ reply = "stale" /\ UNCHANGED log
  <2>1. base[r] \in Nat
    BY <1>1 DEF TypeOK
  <2>2. base[r] < Len(log)
    BY <1>4, <1>11, <2>1 DEF RequestOK
  <2> QED
    BY <1>9, <1>11, <2>2
<1>12. CASE r \notin Ordered /\ reply = "rejected" /\ UNCHANGED log
  BY <1>9, <1>12
<1>13. CASE /\ r \notin Ordered /\ base[r] = Len(log)
            /\ reply = "ordered" /\ k = Len(log) + 1 /\ log' = Append(log, r)
  <2>1. ASSUME NEW q \in Process PROVE HearsOf(q, r)
    <3>1. CASE q = p
      BY <1>2, <1>3, <1>7, <1>8, <1>13, <3>1 DEF HearsOf
    <3>2. CASE q # p
      <4>1. HoldOK(q) /\ AnswerOK(q) /\ HoldOK(p) /\ proc'[q] = proc[q]
        BY <1>1, <1>8, <3>2
      <4>2. proc[q].at \in {"posting", "answered"} /\ ~proc[q].repost => proc[q].request # r
        BY <1>2, <1>3, <3>2, <4>1, Alone DEF AnswerOK, Holding
      <4> QED
        BY <4>1, <4>2 DEF HearsOf
    <3> QED
      BY <3>1, <3>2
  <2>2. adrift' \in [Request -> Nat] /\ \A s \in Request : adrift'[s] <= adrift[s]
    BY <1>1, <1>2 DEF TypeOK
  <2> QED
    BY <1>2, <1>3, <1>8, <1>13, <2>1, <2>2, OrderKeeps
<1> QED
  BY <1>5, <1>10, <1>11, <1>12, <1>13 DEF AppendEnvelope

LEMMA ServeAdriftKeeps == ASSUME Inv, NEW r \in Request, ServeAdrift(r) PROVE Inv'
<1>1. /\ TypeOK /\ Distinct /\ KeptOnce
      /\ \A s \in Request : RequestOK(s)
      /\ \A q \in Process : HoldOK(q) /\ AnswerOK(q)
      /\ \A c \in Call : CallOK(c)
  BY DEF Inv
<1>2. /\ adrift[r] > 0 /\ adrift' = [adrift EXCEPT ![r] = @ - 1]
      /\ UNCHANGED <<callOf, base, outbox, completed, highWater, proc>>
  BY DEF ServeAdrift, localVars
<1>3. /\ adrift' \in [Request -> Nat]
      /\ \A s \in Request : adrift'[s] <= adrift[s] /\ (adrift[s] = 0 => adrift'[s] = 0)
  BY <1>1, <1>2 DEF TypeOK
<1>4. CASE UNCHANGED log
  <2>1. TypeOK' /\ Distinct' /\ KeptOnce'
    BY <1>1, <1>2, <1>3, <1>4 DEF TypeOK, Distinct, KeptOnce, Kept
  <2>2. ASSUME NEW s \in Request PROVE RequestOK(s)'
    BY <1>1, <1>2, <1>3, <1>4 DEF RequestOK, Receipt, Kept, Ordered
  <2>3. ASSUME NEW q \in Process PROVE HoldOK(q)' /\ AnswerOK(q)'
    <3>1. HoldOK(q) /\ AnswerOK(q)
      BY <1>1
    <3>2. HoldOK(q)'
      BY <1>2, <3>1 DEF HoldOK, Kept
    <3>3. proc[q].at \in {"posting", "answered"} => proc[q].request \in Request
      BY <3>1 DEF HoldOK, Holding
    <3> QED
      BY <1>2, <1>3, <1>4, <3>1, <3>2, <3>3 DEF AnswerOK, Receipt, Ordered
  <2>4. ASSUME NEW c \in Call PROVE CallOK(c)'
    BY <1>1, <1>2 DEF CallOK, Kept
  <2> QED
    BY <2>1, <2>2, <2>3, <2>4 DEF Inv
<1>5. CASE r \notin Ordered /\ base[r] = Len(log) /\ log' = Append(log, r)
  <2>1. Kept(r)
    BY <1>1, <1>2, <1>5 DEF RequestOK
  <2>2. ASSUME NEW q \in Process PROVE HearsOf(q, r)
    <3>1. AnswerOK(q) /\ adrift[r] # 0 /\ proc'[q] = proc[q]
      BY <1>1, <1>2
    <3> QED
      BY <3>1 DEF HearsOf, AnswerOK
  <2>3. proc' \in [Process -> ProcRecord]
    BY <1>1, <1>2 DEF TypeOK
  <2> QED
    BY <1>2, <1>3, <1>5, <2>1, <2>2, <2>3, OrderKeeps
<1> QED
  BY <1>4, <1>5 DEF ServeAdrift, AppendEnvelope

LEMMA OtherAppendsKeeps == ASSUME Inv, OtherAppends PROVE Inv'
<1>1. log' = Append(log, None)
      /\ UNCHANGED <<callOf, base, outbox, completed, highWater, adrift, proc>>
  BY DEF OtherAppends, localVars
<1>2. ASSUME NEW q \in Process PROVE HearsOf(q, None)
  BY <1>1, NamesAssumption DEF Inv, HoldOK, HearsOf, Holding
<1>3. /\ proc' \in [Process -> ProcRecord] /\ adrift' \in [Request -> Nat]
      /\ \A r \in Request : adrift'[r] <= adrift[r]
  BY <1>1 DEF Inv, TypeOK
<1>4. None \in Request \cup {None} /\ None \notin Request
  BY NamesAssumption
<1> QED
  BY <1>1, <1>2, <1>3, <1>4, OrderKeeps

LEMMA StutterKeeps == Inv /\ UNCHANGED vars => Inv'
<1> SUFFICES ASSUME Inv, UNCHANGED vars PROVE Inv'
  OBVIOUS
<1>1. /\ Ordered' = Ordered /\ (\A r \in Request : Kept(r)' <=> Kept(r))
      /\ UNCHANGED <<log, callOf, base, outbox, completed, highWater, adrift, proc>>
  BY DEF vars, Ordered, Kept
<1>2. TypeOK' /\ Distinct' /\ KeptOnce'
  BY <1>1 DEF Inv, TypeOK, Distinct, KeptOnce
<1>3. ASSUME NEW r \in Request PROVE RequestOK(r)'
  BY <1>1 DEF Inv, RequestOK, Receipt
<1>4. ASSUME NEW p \in Process PROVE HoldOK(p)' /\ AnswerOK(p)'
  <2>1. HoldOK(p) /\ AnswerOK(p)
    BY DEF Inv
  <2> QED
    BY <1>1, <2>1 DEF HoldOK, AnswerOK, Receipt
<1>5. ASSUME NEW c \in Call PROVE CallOK(c)'
  BY <1>1 DEF Inv, CallOK
<1> QED
  BY <1>2, <1>3, <1>4, <1>5 DEF Inv

LEMMA ClientStepKeeps == ASSUME Inv, NEW p \in Process, ClientStep(p) PROVE Inv'
BY PostFailsKeeps, ReadReceiptKeeps, ReadStaleKeeps, ReadRejectedKeeps, LookupFailsKeeps,
   ReadLookupKeeps, FinalizeKeeps, FinalizeFailsKeeps, UnlinkKeeps DEF ClientStep

LEMMA InvStep == Inv /\ [Next]_vars => Inv'
<1> SUFFICES ASSUME Inv, [Next]_vars PROVE Inv'
  OBVIOUS
<1>1. Call \subseteq Process /\ Helper \subseteq Process
  BY DEF Process
<1>2. ASSUME NEW c \in Call, CallStep(c) PROVE Inv'
  BY <1>1, <1>2, StartAppendKeeps, FetchFailsKeeps, CacheSnapshotKeeps, SignEnvelopeKeeps,
     ClientStepKeeps DEF CallStep
<1>3. ASSUME NEW h \in Helper, HelperStep(h) PROVE Inv'
  BY <1>1, <1>3, StartRecoverKeeps, ClientStepKeeps DEF HelperStep
<1>4. CASE ClerkStep
  BY <1>4, ServeStateKeeps, ServePostKeeps, ServeReceiptKeeps, ServeAdriftKeeps,
     OtherAppendsKeeps DEF ClerkStep
<1>5. CASE UNCHANGED vars
  BY <1>5, StutterKeeps
<1> QED
  BY <1>2, <1>3, <1>4, <1>5, CrashKeeps DEF Next

LEMMA InvHolds == Spec => []Inv
<1> QED
  BY InvInit, InvStep, PTL DEF Spec

----------------------------------------------------------------------------
(* What follows for every reachable state                                  *)

\* The variables keep their types.
THEOREM TypesKept == Spec => []TypeOK
<1>1. Inv => TypeOK
  BY DEF Inv
<1> QED
  BY <1>1, InvHolds, PTL

\* The event of a call is never lost sight of (the order of _finalize_outbox: the
\* receipt before the outbox record goes; a stale or rejected envelope is only
\* removed when no post of it can still be ordered).
THEOREM NothingIsLost == Spec => []NothingLost
<1>1. ASSUME Inv PROVE NothingLost
  <2>1. SUFFICES ASSUME NEW r \in Ordered \ {None} PROVE Kept(r)
    BY DEF NothingLost, Kept
  <2>2. r \in Request
    BY <1>1 DEF Inv, TypeOK, Ordered
  <2> QED
    BY <1>1, <2>2 DEF Inv, RequestOK
<1> QED
  BY <1>1, InvHolds, PTL

\* A stored receipt is about its event; so two recoveries always agree on it.
THEOREM ReceiptsAreExact == Spec => []ReceiptsExact
<1>1. Inv => ReceiptsExact
  BY DEF Inv, RequestOK, Receipt, ReceiptsExact
<1> QED
  BY <1>1, InvHolds, PTL

\* However often a call is retried, reposted, recovered or delayed, the clerk
\* orders one event for it: every ordered request is still kept, a call keeps one.
THEOREM AppendedOnce == Spec => []OneEventPerCall
<1>1. ASSUME Inv PROVE OneEventPerCall
  <2>1. SUFFICES ASSUME NEW i \in DOMAIN log, NEW j \in DOMAIN log,
                        log[i] # None, log[j] # None, callOf[log[i]] = callOf[log[j]]
                 PROVE  i = j
    BY DEF OneEventPerCall
  <2>2. /\ log[i] \in Request /\ log[j] \in Request
        /\ log[i] \in Ordered /\ log[j] \in Ordered
    <3>1. log \in Seq(Request \cup {None})
      BY <1>1 DEF Inv, TypeOK
    <3>2. log[i] \in Request \cup {None} /\ log[j] \in Request \cup {None}
      BY <2>1, <3>1
    <3> QED
      BY <2>1, <3>2 DEF Ordered
  <2>3. Kept(log[i]) /\ Kept(log[j]) /\ callOf[log[i]] # None
    BY <1>1, <2>2 DEF Inv, RequestOK
  <2>4. log[i] = log[j]
    BY <1>1, <2>1, <2>2, <2>3 DEF Inv, KeptOnce
  <2> QED
    BY <1>1, <2>1, <2>4 DEF Inv, Distinct
<1> QED
  BY <1>1, InvHolds, PTL

\* The stored high-water mark is one the clerk has reached.
Reached == highWater <= Len(log)

\* No action takes an event back; one action raises the mark, to a fetched head.
LEMMA MarkMoves ==
  ASSUME Inv, Reached, [Next]_vars
  PROVE  Reached' /\ highWater' >= highWater /\ highWater' <= Len(log')
<1>1. Len(log) \in Nat /\ highWater \in Nat /\ log \in Seq(Request \cup {None})
  BY DEF Inv, TypeOK
<1>2. UNCHANGED log \/ \E x \in Request \cup {None} : log' = Append(log, x)
  <2>1. ASSUME NEW p \in Process, ServePost(p)
        PROVE  UNCHANGED log \/ \E x \in Request \cup {None} : log' = Append(log, x)
    <3>1. proc[p].request \in Request \cup {None}
      BY DEF Inv, TypeOK, ProcRecord
    <3> QED
      BY <2>1, <3>1 DEF ServePost, AppendEnvelope
  <2>2. ASSUME NEW r \in Request, ServeAdrift(r)
        PROVE  UNCHANGED log \/ \E x \in Request \cup {None} : log' = Append(log, x)
    BY <2>2 DEF ServeAdrift, AppendEnvelope
  <2>3. OtherAppends => log' = Append(log, None)
    BY DEF OtherAppends
  <2>4. ClerkStep => UNCHANGED log \/ \E x \in Request \cup {None} : log' = Append(log, x)
    BY <2>1, <2>2, <2>3 DEF ClerkStep, ServeState, ServeReceipt, clerkVars
  <2>5. \A p : ClientStep(p) \/ Crash(p) => UNCHANGED log
    BY DEF ClientStep, PostFails, ReadReceipt, ReadStale, ReadRejected, LookupFails, ReadLookup,
           Finalize, FinalizeFails, Unlink, Crash, clerkVars
  <2>6. \A c : CallStep(c) => UNCHANGED log
    BY <2>5 DEF CallStep, StartAppend, FetchFails, CacheSnapshot, SignEnvelope, clerkVars
  <2>7. \A h : HelperStep(h) => UNCHANGED log
    BY <2>5 DEF HelperStep, StartRecover, clerkVars
  <2> QED
    BY <2>4, <2>5, <2>6, <2>7 DEF Next, vars
<1>3. Len(log') \in Nat /\ Len(log') >= Len(log)
  BY <1>1, <1>2
<1>4. UNCHANGED highWater \/ \E c \in Call : CacheSnapshot(c)
  <2>1. \A p : ClientStep(p) \/ Crash(p) => UNCHANGED highWater
    BY DEF ClientStep, PostFails, ReadReceipt, ReadStale, ReadRejected, LookupFails, ReadLookup,
           Finalize, FinalizeFails, Unlink, Crash, localVars
  <2>2. ClerkStep => UNCHANGED highWater
    BY DEF ClerkStep, ServeState, ServePost, ServeReceipt, ServeAdrift, OtherAppends, localVars
  <2>3. \A h : HelperStep(h) => UNCHANGED highWater
    BY <2>1 DEF HelperStep, StartRecover, localVars
  <2>4. \A c : CallStep(c) => UNCHANGED highWater \/ CacheSnapshot(c)
    BY <2>1 DEF CallStep, StartAppend, FetchFails, SignEnvelope, localVars
  <2> QED
    BY <2>1, <2>2, <2>3, <2>4 DEF Next, vars
<1>5. CASE UNCHANGED highWater
  BY <1>1, <1>3, <1>5 DEF Reached
<1>6. ASSUME NEW c \in Call, CacheSnapshot(c), ~UNCHANGED highWater
      PROVE  highWater' >= highWater /\ highWater' <= Len(log)
  <2>1. /\ proc[c].at = "fetched" /\ proc[c].count >= highWater /\ highWater' = proc[c].count
    BY <1>6 DEF CacheSnapshot
  <2>2. proc[c].count <= Len(log) /\ proc[c].count \in Nat
    BY <2>1 DEF Inv, AnswerOK, TypeOK, ProcRecord, Process
  <2> QED
    BY <2>1, <2>2
<1> QED
  <2>1. CASE ~UNCHANGED highWater
    <3>1. highWater' >= highWater /\ highWater' <= Len(log)
      BY <1>4, <1>6, <2>1
    <3>2. highWater' \in Nat
      BY InvStep DEF Inv, TypeOK
    <3> QED
      BY <1>1, <1>3, <3>1, <3>2 DEF Reached
  <2> QED
    BY <1>5, <2>1

\* The stored mark never goes back, and is one the clerk has reached, although
\* calls fetch concurrently and compare under a lock they did not fetch under.
THEOREM MarkNeverGoesBack == Spec => HighWaterAdvances
<1>1. Init => Reached
  BY DEF Init, Reached
<1>2. Inv /\ Reached /\ [Next]_vars => Reached'
  BY MarkMoves
<1>3. Inv /\ Reached /\ [Next]_vars => [highWater' >= highWater /\ highWater' <= Len(log')]_vars
  BY MarkMoves
<1> QED
  BY <1>1, <1>2, <1>3, InvHolds, PTL DEF Spec, HighWaterAdvances
-----------------------------------------------------------------------------
(* The refinement: the calls implement AppendOnce.                         *)

\* The abstract log and what is known of each call, as Once maps them.
OwnerOf == [i \in DOMAIN log |-> IF log[i] = None THEN None ELSE callOf[log[i]]]
OutcomeMap == [c \in Call |-> OutcomeOf(c)]
Owned == {OwnerOf[i] : i \in DOMAIN OwnerOf}

Mine(c) == {r \in Request : callOf[r] = c}
HasReceipt(c) == \E r \in Mine(c) : completed[r] # 0
HasEnvelope(c) == \E r \in Mine(c) : r \in outbox

OutcomeFacts(c) ==
  /\ OutcomeOf(c) \in {"confirmed", "pending", "unknown", "failed"}
  /\ OutcomeOf(c) = "confirmed" <=> HasReceipt(c)
  /\ OutcomeOf(c) = "pending" <=> ~HasReceipt(c) /\ proc[c].at \notin Over
  /\ OutcomeOf(c) = "unknown" <=> ~HasReceipt(c) /\ proc[c].at \in Over /\ HasEnvelope(c)
  /\ OutcomeOf(c) = "failed" <=> ~HasReceipt(c) /\ proc[c].at \in Over /\ ~HasEnvelope(c)

LEMMA OutcomeIs == ASSUME NEW c PROVE OutcomeFacts(c) /\ OutcomeFacts(c)'
<1>1. /\ (Mine(c) \cap outbox # {}) <=> HasEnvelope(c)
      /\ (Mine(c) \cap outbox # {})' <=> HasEnvelope(c)'
  BY DEF HasEnvelope
<1>2. /\ OutcomeOf(c) = IF HasReceipt(c) THEN "confirmed"
                        ELSE IF proc[c].at \notin Over THEN "pending"
                        ELSE IF Mine(c) \cap outbox # {} THEN "unknown"
                        ELSE "failed"
      /\ OutcomeOf(c)' = IF HasReceipt(c)' THEN "confirmed"
                         ELSE IF proc'[c].at \notin Over THEN "pending"
                         ELSE IF (Mine(c) \cap outbox # {})' THEN "unknown"
                         ELSE "failed"
  BY DEF OutcomeOf, Mine, HasReceipt
<1>3. QED
  BY <1>1, <1>2 DEF OutcomeFacts

LEMMA OwnedIs ==
  ASSUME Inv, NEW c \in Call
  PROVE  c \in Owned <=> \E r \in Mine(c) : r \in Ordered
<1>1. \A i \in DOMAIN log : log[i] \in Request \cup {None}
  BY DEF Inv, TypeOK
<1>2. \A r \in Request : r # None
  BY NamesAssumption
<1>3. c # None
  BY NamesAssumption
<1>4. /\ DOMAIN OwnerOf = DOMAIN log
      /\ \A i \in DOMAIN log : OwnerOf[i] = IF log[i] = None THEN None ELSE callOf[log[i]]
  BY DEF OwnerOf
<1>5. ASSUME c \in Owned PROVE \E r \in Mine(c) : r \in Ordered
  <2>1. PICK i \in DOMAIN log : c = OwnerOf[i]
    BY <1>4, <1>5 DEF Owned
  <2>2. log[i] \in Request /\ callOf[log[i]] = c
    BY <1>1, <1>3, <1>4, <2>1
  <2>3. QED
    BY <2>2 DEF Mine, Ordered
<1>6. ASSUME NEW r \in Mine(c), r \in Ordered PROVE c \in Owned
  <2>1. PICK i \in DOMAIN log : log[i] = r
    BY <1>6 DEF Ordered
  <2>2. OwnerOf[i] = c
    BY <1>2, <1>4, <2>1 DEF Mine
  <2>3. QED
    BY <1>4, <2>2 DEF Owned
<1>7. QED
  BY <1>5, <1>6

\* A confirmed call has its event in the log, a failed one has none.
OutcomesSound ==
  \A c \in Call : /\ OutcomeOf(c) = "confirmed" => c \in Owned
                  /\ OutcomeOf(c) = "failed" => c \notin Owned

LEMMA InvSound == Inv => OutcomesSound
<1>1. SUFFICES ASSUME Inv, NEW c \in Call
               PROVE  /\ OutcomeOf(c) = "confirmed" => c \in Owned
                      /\ OutcomeOf(c) = "failed" => c \notin Owned
  BY DEF OutcomesSound
<1>2. \A r \in Mine(c) : /\ r \in Ordered => Kept(r)
                         /\ completed[r] # 0 => r \in Ordered
  BY <1>1, NamesAssumption DEF Mine, Inv, RequestOK, Receipt, Ordered
<1>3. QED
  BY <1>1, <1>2, OutcomeIs, OwnedIs DEF OutcomeFacts, HasReceipt, HasEnvelope, Kept

LEMMA InvSoundNext == Inv' => OutcomesSound'
BY InvSound, PTL

LEMMA MapStutters ==
  ASSUME OwnerOf' = OwnerOf, OutcomeMap' = OutcomeMap
  PROVE  [Once!Next]_(Once!vars)
BY DEF Once!vars, OwnerOf, OutcomeMap

\* A step that leaves the log alone and lets at most call c know more.
LEMMA MapLearns ==
  ASSUME Inv, Inv', OwnerOf' = OwnerOf, NEW c \in Call,
         \A d \in Call \ {c} : OutcomeOf(d)' = OutcomeOf(d),
         \/ OutcomeOf(c)' = OutcomeOf(c)
         \/ OutcomeOf(c) = "pending"
         \/ OutcomeOf(c) = "unknown" /\ OutcomeOf(c)' = "confirmed"
  PROVE  [Once!Next]_(Once!vars)
<1>1. Owned' = Owned /\ OutcomesSound'
  BY InvSoundNext DEF Owned
<1>2. OutcomeMap' = [OutcomeMap EXCEPT ![c] = OutcomeOf(c)']
  BY DEF OutcomeMap
<1>3. OutcomeMap[c] = OutcomeOf(c)
  BY DEF OutcomeMap
<1>4. CASE OutcomeOf(c)' = OutcomeOf(c)
  <2>1. OutcomeMap' = OutcomeMap
    BY <1>4 DEF OutcomeMap
  <2>2. QED
    BY <2>1, MapStutters
<1>5. CASE OutcomeOf(c) \in {"pending", "unknown"} /\ OutcomeOf(c)' = "confirmed"
  <2>1. c \in Owned
    BY <1>1, <1>5 DEF OutcomesSound
  <2>2. Once!Confirm(c)
    BY <1>2, <1>3, <1>5, <2>1
       DEF Once!Confirm, Once!Events, Owned, OwnerOf, OutcomeMap
  <2>3. QED
    BY <2>2 DEF Once!Next
<1>6. CASE OutcomeOf(c) = "pending" /\ OutcomeOf(c)' = "failed"
  <2>1. c \notin Owned
    BY <1>1, <1>6 DEF OutcomesSound
  <2>2. Once!Fail(c)
    BY <1>2, <1>3, <1>6, <2>1 DEF Once!Fail, Once!Events, Owned, OwnerOf, OutcomeMap
  <2>3. QED
    BY <2>2 DEF Once!Next
<1>7. CASE OutcomeOf(c) = "pending" /\ OutcomeOf(c)' = "unknown"
  <2>1. Once!LoseTrack(c)
    BY <1>2, <1>3, <1>7 DEF Once!LoseTrack, OwnerOf, OutcomeMap
  <2>2. QED
    BY <2>1 DEF Once!Next
<1>8. OutcomeOf(c)' \in {"confirmed", "pending", "unknown", "failed"}
  BY OutcomeIs DEF OutcomeFacts
<1>9. QED
  BY <1>4, <1>5, <1>6, <1>7, <1>8

\* What a call's outcome is read from, unchanged as far as it matters.
LEMMA SameOutcome ==
  ASSUME NEW c \in Call, HasReceipt(c)' <=> HasReceipt(c),
         HasReceipt(c) \/ ((proc'[c].at \in Over <=> proc[c].at \in Over)
                             /\ (HasEnvelope(c)' <=> HasEnvelope(c)))
  PROVE  OutcomeOf(c)' = OutcomeOf(c)
BY OutcomeIs DEF OutcomeFacts

\* A process other than a call that is over moves; a call may take its own
\* request off the outbox.
LEMMA MapMoves ==
  ASSUME Inv, Inv', NEW p \in Process, UNCHANGED <<log, callOf, completed>>,
         \A q \in Process \ {p} : proc'[q] = proc[q],
         p \in Call => proc[p].at \notin Over,
         outbox' = outbox \/ \E r \in Request : p \in Call /\ callOf[r] = p /\ outbox' = outbox \ {r}
  PROVE  [Once!Next]_(Once!vars)
<1>1. OwnerOf' = OwnerOf
  BY DEF OwnerOf
<1>2. \A c \in Call : Mine(c)' = Mine(c) /\ (HasReceipt(c)' <=> HasReceipt(c))
  BY DEF Mine, HasReceipt
<1>3. \A c \in Call \ {p} : HasEnvelope(c)' <=> HasEnvelope(c)
  BY <1>2 DEF HasEnvelope, Mine
<1>4. \A c \in Call \ {p} : OutcomeOf(c)' = OutcomeOf(c)
  BY <1>2, <1>3, SameOutcome DEF Process
<1>5. CASE p \in Call
  <2>1. OutcomeOf(p) = "pending" \/ OutcomeOf(p)' = OutcomeOf(p)
    BY <1>2, <1>5, OutcomeIs DEF OutcomeFacts
  <2>2. QED
    BY <1>1, <1>4, <1>5, <2>1, MapLearns
<1>6. CASE p \notin Call
  <2>1. OutcomeMap' = OutcomeMap
    BY <1>4, <1>6 DEF OutcomeMap
  <2>2. QED
    BY <1>1, <2>1, MapStutters
<1>7. QED
  BY <1>5, <1>6

LEMMA SequenceIs == ASSUME NEW S, NEW f \in Seq(S) PROVE f = [i \in 1..Len(f) |-> f[i]]
OBVIOUS

LEMMA AppendIs ==
  ASSUME NEW S, NEW f \in Seq(S), NEW y \in S, NEW n \in Nat, Len(f) = n
  PROVE  Append(f, y) = [i \in 1..(n + 1) |-> IF i = n + 1 THEN y ELSE f[i]]
<1>1. Append(f, y) \in Seq(S) /\ Len(Append(f, y)) = n + 1
  OBVIOUS
<1>2. \A i \in 1..(n + 1) : Append(f, y)[i] = IF i = n + 1 THEN y ELSE f[i]
  OBVIOUS
<1>3. Append(f, y) = [i \in 1..Len(Append(f, y)) |-> Append(f, y)[i]]
  BY <1>1, SequenceIs
<1>4. QED
  BY <1>1, <1>2, <1>3

\* The log grows by one event, and no call learns of it yet.
LEMMA MapGrows ==
  ASSUME Inv, NEW x \in Request \cup {None}, log' = Append(log, x),
         UNCHANGED <<callOf, completed, outbox>>,
         \A c \in Call : proc'[c].at \in Over <=> proc[c].at \in Over
  PROVE  /\ OutcomeMap' = OutcomeMap
         /\ OwnerOf' = Append(OwnerOf, IF x = None THEN None ELSE callOf[x])
<1>1. \A c \in Call : OutcomeOf(c)' = OutcomeOf(c)
  BY SameOutcome DEF Mine, HasReceipt, HasEnvelope
<1>2. OutcomeMap' = OutcomeMap
  BY <1>1 DEF OutcomeMap
<1>3. /\ Len(log) \in Nat /\ DOMAIN log = 1..Len(log) /\ DOMAIN log' = 1..(Len(log) + 1)
      /\ \A i \in DOMAIN log : log'[i] = log[i]
      /\ log'[Len(log) + 1] = x
  BY Grown DEF Inv
<1> DEFINE y == IF x = None THEN None ELSE callOf[x]
           own(i) == IF log[i] = None THEN None ELSE callOf[log[i]]
           S == {own(i) : i \in DOMAIN log} \cup {y}
<1>4. OwnerOf \in Seq(S) /\ Len(OwnerOf) = Len(log) /\ \A i \in DOMAIN log : OwnerOf[i] = own(i)
  <2>1. OwnerOf = [i \in 1..Len(log) |-> own(i)]
    BY <1>3 DEF OwnerOf
  <2>2. \A i \in 1..Len(log) : own(i) \in S
    BY <1>3
  <2> HIDE DEF own, S
  <2>3. QED
    BY <1>3, <2>1, <2>2
<1>5. /\ DOMAIN OwnerOf' = 1..(Len(log) + 1)
      /\ \A i \in DOMAIN log : OwnerOf'[i] = own(i)
      /\ OwnerOf'[Len(log) + 1] = y
      /\ OwnerOf' = [i \in 1..(Len(log) + 1) |-> OwnerOf'[i]]
  BY <1>3 DEF OwnerOf
<1>6. y \in S
  OBVIOUS
<1> HIDE DEF y, own, S
<1>7. Append(OwnerOf, y) =
        [i \in 1..(Len(log) + 1) |-> IF i = Len(log) + 1 THEN y ELSE OwnerOf[i]]
  BY <1>3, <1>4, <1>6, AppendIs
<1>8. \A i \in 1..(Len(log) + 1) :
        OwnerOf'[i] = IF i = Len(log) + 1 THEN y ELSE OwnerOf[i]
  BY <1>3, <1>4, <1>5
<1>9. OwnerOf' = Append(OwnerOf, y)
  BY <1>5, <1>7, <1>8
<1>10. QED
  BY <1>2, <1>9 DEF y

\* An envelope that is new to the clerk and still on disk is the only one of
\* its call, and the call is not settled.
LEMMA MapOrders ==
  ASSUME Inv, NEW r \in Request, callOf[r] # None, Kept(r), r \notin Ordered,
         log' = Append(log, r), UNCHANGED <<callOf, completed, outbox>>,
         \A c \in Call : proc'[c].at \in Over <=> proc[c].at \in Over
  PROVE  [Once!Next]_(Once!vars)
<1>1. callOf[r] \in Call /\ r # None
  BY NamesAssumption DEF Inv, TypeOK
<1>2. PICK c \in Call : c = callOf[r]
  BY <1>1
<1>3. OutcomeMap' = OutcomeMap /\ OwnerOf' = Append(OwnerOf, c)
  BY <1>1, <1>2, MapGrows
<1>4. \A s \in Mine(c) : Kept(s) => s = r
  BY <1>2 DEF Inv, KeptOnce, Mine
<1>5. \A s \in Mine(c) : s \in Ordered => Kept(s)
  BY <1>2 DEF Mine, Inv, RequestOK
<1>6. c \notin Owned
  BY <1>4, <1>5, OwnedIs
<1>7. completed[r] = 0
  BY DEF Inv, RequestOK, Receipt, Ordered
<1>8. ~HasReceipt(c) /\ HasEnvelope(c)
  BY <1>2, <1>4, <1>7 DEF HasReceipt, HasEnvelope, Kept, Mine
<1>9. OutcomeOf(c) \in {"pending", "unknown"}
  BY <1>8, OutcomeIs DEF OutcomeFacts
<1>10. OutcomeMap[c] \in {"pending", "unknown"}
  BY <1>9 DEF OutcomeMap
<1>11. Once!Order(c)
  BY <1>3, <1>6, <1>10 DEF Once!Order, Once!Events, Owned, OwnerOf, OutcomeMap
<1>12. QED
  BY <1>11 DEF Once!Next

\* Who holds a request, and that nobody else moves.
LEMMA OnlyMoves ==
  ASSUME Inv, NEW p \in Process, NEW n, proc' = [proc EXCEPT ![p] = n]
  PROVE  \A q \in Process \ {p} : proc'[q] = proc[q]
BY DEF Inv, TypeOK

LEMMA Holds ==
  ASSUME Inv, NEW p \in Process, proc[p].at \in Holding
  PROVE  /\ proc[p].request \in Request /\ Kept(proc[p].request)
         /\ callOf[proc[p].request] \in Call
         /\ proc[p].at \notin Over
         /\ p \in Call => callOf[proc[p].request] = p
BY DEF Inv, HoldOK, Holding, Over, Process

LEMMA MapEnds ==
  ASSUME Inv, Inv', NEW p \in Process,
         PostFails(p) \/ ReadReceipt(p) \/ LookupFails(p) \/ ReadLookup(p) \/ FinalizeFails(p)
  PROVE  [Once!Next]_(Once!vars)
<1>1. proc[p].at \in Holding
  BY DEF PostFails, ReadReceipt, LookupFails, ReadLookup, FinalizeFails, Holding
<1>2. UNCHANGED <<log, callOf, completed, outbox>>
  BY DEF PostFails, ReadReceipt, LookupFails, ReadLookup, FinalizeFails, clerkVars, localVars
<1>3. \A q \in Process \ {p} : proc'[q] = proc[q]
  BY DEF PostFails, ReadReceipt, LookupFails, ReadLookup, FinalizeFails, EndAs, End, Goto,
         Inv, TypeOK
<1>4. QED
  BY <1>1, <1>2, <1>3, Holds, MapMoves

\* A record leaves the outbox: of a call that has not ended, or of one whose
\* receipt is stored.
LEMMA MapForgets ==
  ASSUME Inv, Inv', NEW p \in Process, proc[p].at \in Holding,
         UNCHANGED <<log, callOf, completed>>,
         \A q \in Process \ {p} : proc'[q] = proc[q],
         outbox' = outbox \ {proc[p].request},
         p \notin Call => completed[proc[p].request] # 0
  PROVE  [Once!Next]_(Once!vars)
<1>1. PICK r \in Request : r = proc[p].request /\ callOf[r] \in Call
  BY Holds
<1>2. CASE p \in Call
  BY <1>1, <1>2, Holds, MapMoves
<1>3. CASE p \notin Call
  <2>1. \A c \in Call : /\ Mine(c)' = Mine(c) /\ (HasReceipt(c)' <=> HasReceipt(c))
                        /\ proc'[c] = proc[c]
    BY <1>3 DEF Mine, HasReceipt, Process
  <2>2. \A c \in Call : HasReceipt(c) \/ (HasEnvelope(c)' <=> HasEnvelope(c))
    BY <1>1, <1>3, <2>1 DEF HasReceipt, HasEnvelope, Mine
  <2>3. \A c \in Call : OutcomeOf(c)' = OutcomeOf(c)
    BY <2>1, <2>2, SameOutcome
  <2>4. OutcomeMap' = OutcomeMap /\ OwnerOf' = OwnerOf
    BY <2>3 DEF OutcomeMap, OwnerOf
  <2>5. QED
    BY <2>4, MapStutters
<1>4. QED
  BY <1>2, <1>3

LEMMA MapReads ==
  ASSUME Inv, Inv', NEW p \in Process, ReadStale(p) \/ ReadRejected(p) \/ Unlink(p)
  PROVE  [Once!Next]_(Once!vars)
<1>1. proc[p].at \in Holding /\ AnswerOK(p)
  BY DEF ReadStale, ReadRejected, Unlink, Holding, Inv
<1>2. UNCHANGED <<log, callOf, completed>>
  BY DEF ReadStale, ReadRejected, Unlink, clerkVars, localVars
<1>3. \A q \in Process \ {p} : proc'[q] = proc[q]
  BY DEF ReadStale, ReadRejected, Unlink, EndAs, End, Inv, TypeOK
<1>4. CASE outbox' = outbox
  BY <1>1, <1>2, <1>3, <1>4, Holds, MapMoves
<1>5. CASE outbox' # outbox
  <2>1. /\ outbox' = outbox \ {proc[p].request}
        /\ p \notin Call => Unlink(p)
    BY <1>1, <1>5 DEF ReadStale, ReadRejected, Unlink, AnswerOK
  <2>2. p \notin Call => completed[proc[p].request] # 0
    BY <1>1, <2>1 DEF Unlink, AnswerOK
  <2>3. QED
    BY <1>1, <1>2, <1>3, <2>1, <2>2, MapForgets
<1>6. QED
  BY <1>4, <1>5

\* The receipt that is stored is about the event in the log: its call is
\* confirmed now, or was before.
LEMMA MapFinalizes ==
  ASSUME Inv, Inv', NEW p \in Process, Finalize(p)
  PROVE  [Once!Next]_(Once!vars)
<1>1. /\ proc[p].at = "finalizing" /\ proc[p].at \in Holding
      /\ UNCHANGED <<log, callOf, outbox>>
  BY DEF Finalize, clerkVars, Holding
<1>2. PICK r \in Request, c \in Call : r = proc[p].request /\ callOf[r] = c /\ Kept(r)
  BY <1>1, Holds
<1>3. Receipt(proc[p].count, r)
  BY <1>1, <1>2 DEF Inv, AnswerOK
<1>4. /\ completed' = [completed EXCEPT ![r] = proc[p].count]
      /\ proc' = [proc EXCEPT ![p].at = "unlinking"]
  BY <1>2 DEF Finalize, Goto
<1>5. proc[p].count # 0
  BY <1>3 DEF Receipt, Inv, TypeOK
<1>6. completed'[r] # 0 /\ \A s \in Request \ {r} : completed'[s] = completed[s]
  BY <1>4, <1>5 DEF Inv, TypeOK
<1>7. \A d \in Call : proc'[d].at \in Over <=> proc[d].at \in Over
  BY <1>1, <1>4 DEF Inv, TypeOK, Over, Process
<1>8. \A d \in Call : Mine(d)' = Mine(d) /\ (HasEnvelope(d)' <=> HasEnvelope(d))
  BY <1>1 DEF Mine, HasEnvelope
<1>9. ASSUME NEW d \in Call \ {c} PROVE OutcomeOf(d)' = OutcomeOf(d)
  <2>1. HasReceipt(d)' <=> HasReceipt(d)
    BY <1>2, <1>6, <1>8 DEF HasReceipt, Mine
  <2>2. QED
    BY <1>7, <1>8, <2>1, SameOutcome
<1>10. HasReceipt(c)' /\ (HasReceipt(c) \/ HasEnvelope(c))
  BY <1>2, <1>6, <1>8 DEF HasReceipt, HasEnvelope, Mine, Kept
<1>11. OutcomeOf(c)' = "confirmed" /\ OutcomeOf(c) \in {"confirmed", "pending", "unknown"}
  BY <1>10, OutcomeIs DEF OutcomeFacts
<1>12. OwnerOf' = OwnerOf
  BY <1>1 DEF OwnerOf
<1>13. QED
  BY <1>9, <1>11, <1>12, MapLearns

\* A fresh request id is in no log, and its call is as pending as before.
LEMMA MapSigns ==
  ASSUME Inv, Inv', NEW c \in Call, SignEnvelope(c)
  PROVE  [Once!Next]_(Once!vars)
<1>1. PICK r \in Request :
        /\ callOf[r] = None /\ callOf' = [callOf EXCEPT ![r] = c]
        /\ outbox' = outbox \cup {r}
        /\ proc' = [proc EXCEPT ![c].at = "posting", ![c].request = r, ![c].repost = FALSE]
  BY DEF SignEnvelope
<1>2. proc[c].at = "signing" /\ UNCHANGED <<log, completed>> /\ c \in Process
  BY DEF SignEnvelope, clerkVars, Process
<1>3. r \notin Ordered /\ ~Kept(r) /\ completed[r] = 0
  BY <1>1 DEF Inv, RequestOK, Kept
<1>4. /\ callOf'[r] = c /\ \A s \in Request \ {r} : callOf'[s] = callOf[s]
      /\ \A q \in Process \ {c} : proc'[q] = proc[q]
      /\ proc'[c].at = "posting"
  BY <1>1, <1>2 DEF Inv, TypeOK, ProcRecord
<1>5. OwnerOf' = OwnerOf
  <2>1. \A i \in DOMAIN log : log[i] # None => log[i] \in Request \ {r}
    BY <1>3 DEF Inv, TypeOK, Ordered
  <2>2. QED
    BY <1>2, <1>4, <2>1 DEF OwnerOf
<1>6. \A d \in Call \ {c} : Mine(d)' = Mine(d)
  BY <1>1, <1>4, NamesAssumption DEF Mine
<1>7. ASSUME NEW d \in Call \ {c} PROVE OutcomeOf(d)' = OutcomeOf(d)
  <2>1. r \notin Mine(d) /\ proc'[d] = proc[d]
    BY <1>1, <1>4, NamesAssumption DEF Mine, Process
  <2>2. (HasReceipt(d)' <=> HasReceipt(d)) /\ (HasEnvelope(d)' <=> HasEnvelope(d))
    BY <1>1, <1>2, <1>6, <2>1 DEF HasReceipt, HasEnvelope
  <2>3. QED
    BY <2>1, <2>2, SameOutcome
<1>8. ~HasReceipt(c)
  BY <1>2 DEF Inv, CallOK, Early, Kept, Mine, HasReceipt
<1>9. OutcomeOf(c) = "pending"
  BY <1>2, <1>8, OutcomeIs DEF OutcomeFacts, Over
<1>10. QED
  BY <1>5, <1>7, <1>9, MapLearns

LEMMA MapCalls ==
  ASSUME Inv, Inv', NEW c \in Call, StartAppend(c) \/ FetchFails(c) \/ CacheSnapshot(c)
  PROVE  [Once!Next]_(Once!vars)
<1>1. proc[c].at \in Early /\ proc[c].at \notin Over /\ c \in Process
  BY DEF StartAppend, FetchFails, CacheSnapshot, Early, Over, Process
<1>2. UNCHANGED <<log, callOf, completed, outbox>>
  BY DEF StartAppend, FetchFails, CacheSnapshot, clerkVars, localVars
<1>3. \A q \in Process \ {c} : proc'[q] = proc[q]
  BY DEF StartAppend, FetchFails, CacheSnapshot, End, Goto, Inv, TypeOK
<1>4. QED
  BY <1>1, <1>2, <1>3, MapMoves

LEMMA MapRecovers ==
  ASSUME Inv, Inv', NEW h \in Helper, NEW r \in outbox, StartRecover(h, r)
  PROVE  [Once!Next]_(Once!vars)
<1>1. h \in Process /\ proc[h].at \notin Over
  BY DEF StartRecover, Over, Process
<1>2. UNCHANGED <<log, callOf, completed, outbox>>
  BY DEF StartRecover, clerkVars, localVars
<1>3. \A q \in Process \ {h} : proc'[q] = proc[q]
  BY DEF StartRecover, Inv, TypeOK
<1>4. QED
  BY <1>1, <1>2, <1>3, MapMoves

LEMMA MapCrashes ==
  ASSUME Inv, Inv', NEW p \in Process, Crash(p)
  PROVE  [Once!Next]_(Once!vars)
<1>1. proc[p].at \notin Over /\ UNCHANGED <<log, callOf, completed, outbox>>
  BY DEF Crash, clerkVars, localVars
<1>2. \A q \in Process \ {p} : proc'[q] = proc[q]
  BY DEF Crash, EndAs, End, Inv, TypeOK
<1>3. QED
  BY <1>1, <1>2, MapMoves

LEMMA MapAnswers ==
  ASSUME Inv, Inv', NEW p \in Process, ServeState(p) \/ ServeReceipt(p) \/ ServePost(p)
  PROVE  [Once!Next]_(Once!vars)
<1>1. /\ proc[p].at \notin Over /\ proc'[p].at \notin Over
      /\ UNCHANGED <<callOf, completed, outbox>>
  <2>1. proc \in [Process -> ProcRecord]
    BY DEF Inv, TypeOK
  <2>2. proc[p].at \notin Over /\ UNCHANGED <<callOf, completed, outbox>>
    BY DEF ServeState, ServeReceipt, ServePost, clerkVars, localVars, Over
  <2>3. CASE ServeState(p)
    <3>1. PICK k : Counts(p, "fetched", k)
      BY <2>3 DEF ServeState, Counts
    <3>2. proc'[p].at = "fetched"
      BY <2>1, <3>1 DEF Counts, ProcRecord
    <3>3. QED
      BY <2>2, <3>2 DEF Over
  <2>4. CASE ServeReceipt(p)
    <3>1. PICK k : Counts(p, "looked_up", k)
      BY <2>4 DEF ServeReceipt, Counts
    <3>2. proc'[p].at = "looked_up"
      BY <2>1, <3>1 DEF Counts, ProcRecord
    <3>3. QED
      BY <2>2, <3>2 DEF Over
  <2>5. CASE ServePost(p)
    <3>1. PICK reply \in Reply, k \in 0..(Len(log) + 1) :
            proc' = [proc EXCEPT ![p].at = "answered", ![p].reply = reply, ![p].count = k]
      BY <2>5 DEF ServePost
    <3>2. proc'[p].at = "answered"
      BY <2>1, <3>1 DEF ProcRecord
    <3>3. QED
      BY <2>2, <3>2 DEF Over
  <2>6. QED
    BY <2>2, <2>3, <2>4, <2>5
<1>2. \A q \in Process \ {p} : proc'[q] = proc[q]
  BY DEF ServeState, ServeReceipt, ServePost, Inv, TypeOK
<1>3. CASE UNCHANGED log
  BY <1>1, <1>2, <1>3, MapMoves
<1>4. CASE ~UNCHANGED log
  <2>1. ServePost(p)
    BY <1>4 DEF ServeState, ServeReceipt, clerkVars
  <2>2. proc[p].at \in Holding
    BY <2>1 DEF ServePost, Holding
  <2>3. PICK r \in Request : r = proc[p].request /\ Kept(r) /\ callOf[r] \in Call
    BY <2>2, Holds
  <2>4. r \notin Ordered /\ log' = Append(log, r)
    BY <1>4, <2>1, <2>3 DEF ServePost, AppendEnvelope
  <2>5. \A c \in Call : proc'[c].at \in Over <=> proc[c].at \in Over
    BY <1>1, <1>2 DEF Process
  <2>6. QED
    BY <1>1, <2>3, <2>4, <2>5, NamesAssumption, MapOrders
<1>5. QED
  BY <1>3, <1>4

LEMMA MapAdrift ==
  ASSUME Inv, Inv', NEW r \in Request, ServeAdrift(r)
  PROVE  [Once!Next]_(Once!vars)
<1>1. adrift[r] > 0 /\ UNCHANGED <<callOf, completed, outbox, proc>>
  BY DEF ServeAdrift, localVars
<1>2. RequestOK(r) /\ adrift[r] \in Nat /\ base[r] \in Nat
  BY DEF Inv, TypeOK
<1>3. CASE UNCHANGED log
  <2>1. OwnerOf' = OwnerOf
    BY <1>1, <1>3 DEF OwnerOf
  <2>2. \A c \in Call : OutcomeOf(c)' = OutcomeOf(c)
    BY <1>1, SameOutcome DEF Mine, HasReceipt, HasEnvelope
  <2>3. OutcomeMap' = OutcomeMap
    BY <2>2 DEF OutcomeMap
  <2>4. QED
    BY <2>1, <2>3, MapStutters
<1>4. CASE ~UNCHANGED log
  <2>1. r \notin Ordered /\ base[r] = Len(log) /\ log' = Append(log, r)
    BY <1>4 DEF ServeAdrift, AppendEnvelope
  <2>2. callOf[r] # None /\ Kept(r)
    BY <1>1, <1>2, <2>1 DEF RequestOK
  <2>3. QED
    BY <1>1, <2>1, <2>2, MapOrders
<1>5. QED
  BY <1>3, <1>4

LEMMA MapOthers ==
  ASSUME Inv, OtherAppends
  PROVE  [Once!Next]_(Once!vars)
<1>1. log' = Append(log, None) /\ UNCHANGED <<callOf, completed, outbox, proc>>
  BY DEF OtherAppends, localVars
<1>2. OutcomeMap' = OutcomeMap /\ OwnerOf' = Append(OwnerOf, None)
  BY <1>1, MapGrows
<1>3. Once!OrderOther
  BY <1>2 DEF Once!OrderOther, OwnerOf, OutcomeMap
<1>4. QED
  BY <1>3 DEF Once!Next

LEMMA MapStep ==
  ASSUME Inv, Inv', [Next]_vars
  PROVE  [Once!Next]_(Once!vars)
<1>1. CASE UNCHANGED vars
  <2>1. OwnerOf' = OwnerOf /\ UNCHANGED <<callOf, completed, outbox, proc>>
    BY <1>1 DEF OwnerOf, vars
  <2>2. \A c \in Call : OutcomeOf(c)' = OutcomeOf(c)
    BY <2>1, SameOutcome DEF Mine, HasReceipt, HasEnvelope
  <2>3. OutcomeMap' = OutcomeMap
    BY <2>2 DEF OutcomeMap
  <2>4. QED
    BY <2>1, <2>3, MapStutters
<1>2. ASSUME NEW p \in Process, ClientStep(p) PROVE [Once!Next]_(Once!vars)
  BY <1>2, MapEnds, MapReads, MapFinalizes DEF ClientStep
<1>3. ASSUME NEW c \in Call, CallStep(c) PROVE [Once!Next]_(Once!vars)
  BY <1>2, <1>3, MapCalls, MapSigns DEF CallStep, Process
<1>4. ASSUME NEW h \in Helper, HelperStep(h) PROVE [Once!Next]_(Once!vars)
  BY <1>2, <1>4, MapRecovers DEF HelperStep, Process
<1>5. CASE ClerkStep
  BY <1>5, MapAnswers, MapAdrift, MapOthers DEF ClerkStep
<1>6. QED
  BY <1>1, <1>3, <1>4, <1>5, MapCrashes DEF Next

LEMMA MapInit == Init => Once!Init
<1>1. SUFFICES ASSUME Init PROVE Once!Init
  OBVIOUS
<1>2. log = << >> /\ DOMAIN log = {} /\ Ordered = {}
  BY <1>1 DEF Init, Ordered
<1>3. OwnerOf = << >>
  BY <1>2 DEF OwnerOf
<1>4. ASSUME NEW c \in Call PROVE OutcomeOf(c) = "pending"
  <2>1. proc[c].at = "idle" /\ \A r \in Request : completed[r] = 0
    BY <1>1, IdleIsProc DEF Init, Process
  <2>2. QED
    BY <2>1, OutcomeIs DEF OutcomeFacts, HasReceipt, Mine, Over
<1>5. OutcomeMap = [c \in Call |-> "pending"]
  BY <1>4 DEF OutcomeMap
<1>6. QED
  BY <1>3, <1>5 DEF Once!Init, OwnerOf, OutcomeMap

\* Whatever the network, the crashes, the retries and the recoveries do, for
\* any number of calls the clone and the clerk together behave as AppendOnce:
\* each step orders an event not ordered before, settles a call as the log has
\* it, or changes nothing that a caller may rely on.
THEOREM AppendsOnceRefined == Spec => ImplementsAppendOnce
<1>1. Inv /\ Inv' /\ [Next]_vars => [Once!Next]_(Once!vars)
  BY MapStep
<1>2. QED
  BY <1>1, MapInit, InvHolds, PTL DEF Spec, ImplementsAppendOnce, Once!Spec

-----------------------------------------------------------------------------
(* Termination: the measure behind AppendEnds.                             *)

\* Where a process is, the first post of an envelope apart from the repeated one.
Spot(q) ==
  IF q.repost THEN q.at
  ELSE IF q.at = "posting" THEN "first_post"
  ELSE IF q.at = "answered" THEN "first_answer"
  ELSE q.at

\* The way through one attempt.
Path ==
  {<<"idle", "fetching">>, <<"fetching", "fetched">>, <<"fetched", "signing">>,
   <<"signing", "first_post">>, <<"first_post", "first_answer">>,
   <<"first_post", "recovering">>, <<"first_answer", "recovering">>,
   <<"first_answer", "finalizing">>, <<"recovering", "looked_up">>,
   <<"looked_up", "posting">>, <<"looked_up", "finalizing">>,
   <<"posting", "answered">>, <<"answered", "finalizing">>, <<"finalizing", "unlinking">>}

\* The longest way from a spot to the end of the attempt.
Ahead ==
  [s \in At \cup {"first_post", "first_answer"} |->
     CASE s = "idle"         -> 12
       [] s = "fetching"     -> 11
       [] s = "fetched"      -> 10
       [] s = "signing"      -> 9
       [] s = "first_post"   -> 8
       [] s = "first_answer" -> 7
       [] s = "recovering"   -> 6
       [] s = "looked_up"    -> 5
       [] s = "posting"      -> 4
       [] s = "answered"     -> 3
       [] s = "finalizing"   -> 2
       [] OTHER              -> 1]

\* The steps left to a call: eleven in each attempt, as many as the retries.
StepsLeft(q) ==
  IF q.at \in Over THEN 0 ELSE 11 * (StaleRetries - q.attempt) + Ahead[Spot(q)]

\* Whatever the clerk, the network and other processes do, a call has one step
\* less before it with each it takes: no answer sends it back for good.
CallsAdvance ==
  [][\A c \in Call :
       proc'[c] = proc[c] \/ StepsLeft(proc'[c]) \in 0..(StepsLeft(proc[c]) - 1)]_vars

\* One step along the path, on to the next attempt, or the end.
PassesOn(q, n) == n.attempt = q.attempt /\ <<Spot(q), Spot(n)>> \in Path

TriesAgain(q, n) ==
  q.at = "answered" /\ n.at = "fetching" /\ n.attempt = q.attempt + 1

Onward(q, n) == n.at \in Over \/ PassesOn(q, n) \/ TriesAgain(q, n)

LEMMA AheadIs ==
  /\ Ahead["idle"] = 12 /\ Ahead["fetching"] = 11 /\ Ahead["fetched"] = 10
  /\ Ahead["signing"] = 9 /\ Ahead["first_post"] = 8 /\ Ahead["first_answer"] = 7
  /\ Ahead["recovering"] = 6 /\ Ahead["looked_up"] = 5 /\ Ahead["posting"] = 4
  /\ Ahead["answered"] = 3 /\ Ahead["finalizing"] = 2 /\ Ahead["unlinking"] = 1
BY DEF Ahead, At

\* Every step along the path leaves less of it.
LEMMA PathShortens ==
  ASSUME NEW s, NEW u, <<s, u>> \in Path
  PROVE  Ahead[s] \in 1..12 /\ Ahead[u] \in 1..12 /\ Ahead[u] < Ahead[s]
<1>1. CASE s \in {"idle", "fetching", "fetched", "signing", "recovering", "finalizing"}
  <2>1. \/ s = "idle" /\ u = "fetching"
        \/ s = "fetching" /\ u = "fetched"
        \/ s = "fetched" /\ u = "signing"
        \/ s = "signing" /\ u = "first_post"
        \/ s = "recovering" /\ u = "looked_up"
        \/ s = "finalizing" /\ u = "unlinking"
    BY <1>1 DEF Path
  <2>2. QED
    BY <2>1, AheadIs
<1>2. CASE s \in {"first_post", "first_answer", "looked_up", "posting", "answered"}
  <2>1. \/ s = "first_post" /\ u \in {"first_answer", "recovering"}
        \/ s = "first_answer" /\ u \in {"recovering", "finalizing"}
        \/ s = "looked_up" /\ u \in {"posting", "finalizing"}
        \/ s = "posting" /\ u = "answered"
        \/ s = "answered" /\ u = "finalizing"
    BY <1>2 DEF Path
  <2>2. QED
    BY <2>1, AheadIs
<1>3. QED
  BY <1>1, <1>2 DEF Path

LEMMA OnwardCounts ==
  ASSUME NEW q \in ProcRecord, NEW n \in ProcRecord, q.at \notin Over, Onward(q, n)
  PROVE  StepsLeft(n) \in 0..(StepsLeft(q) - 1)
<1>1. PICK a \in Nat : a = StaleRetries - q.attempt
  BY RetriesAssumption DEF ProcRecord
<1>2. /\ StepsLeft(q) = 11 * a + Ahead[Spot(q)]
      /\ Ahead[Spot(q)] \in 1..12
  <2>1. Spot(q) \in {"idle", "fetching", "fetched", "signing", "first_post", "first_answer",
                     "recovering", "looked_up", "posting", "answered", "finalizing", "unlinking"}
    BY DEF ProcRecord, At, Spot
  <2>2. Ahead[Spot(q)] \in 1..12
    BY <2>1, AheadIs
  <2>3. QED
    BY <1>1, <2>2 DEF StepsLeft
<1>3. CASE n.at \in Over
  BY <1>2, <1>3 DEF StepsLeft
<1>4. CASE n.at \notin Over /\ PassesOn(q, n)
  <2>1. StepsLeft(n) = 11 * a + Ahead[Spot(n)]
    BY <1>1, <1>4 DEF StepsLeft, PassesOn
  <2>2. Ahead[Spot(n)] \in 1..12 /\ Ahead[Spot(n)] < Ahead[Spot(q)]
    BY <1>4, PathShortens DEF PassesOn
  <2>3. QED
    BY <1>2, <2>1, <2>2
<1>5. CASE n.at \notin Over /\ TriesAgain(q, n)
  <2>1. PICK b \in Nat : b = StaleRetries - n.attempt
    BY RetriesAssumption DEF ProcRecord
  <2>2. Spot(n) = "fetching"
    BY <1>5 DEF TriesAgain, Spot
  <2>3. StepsLeft(n) = 11 * b + 11
    BY <1>5, <2>1, <2>2, AheadIs DEF StepsLeft
  <2>4. q.attempt \in Nat /\ StaleRetries \in Nat
    BY RetriesAssumption DEF ProcRecord
  <2>5. a = b + 1
    BY <1>1, <1>5, <2>1, <2>4 DEF TriesAgain
  <2>6. QED
    BY <1>2, <2>3, <2>5
<1>6. QED
  BY <1>3, <1>4, <1>5 DEF Onward

\* The clerk's answers.
LEMMA ServedOnward ==
  ASSUME TypeOK, NEW c \in Call, ServeState(c) \/ ServePost(c) \/ ServeReceipt(c)
  PROVE  proc[c].at \notin Over /\ Onward(proc[c], proc'[c])
<1>1. proc[c] \in ProcRecord /\ proc \in [Process -> ProcRecord] /\ c \in Process
  BY DEF TypeOK, Process
<1>2. CASE ServeState(c)
  BY <1>1, <1>2 DEF ServeState, Onward, PassesOn, TriesAgain, Path, Spot, Over, ProcRecord
<1>3. CASE ServePost(c)
  <2>1. /\ proc[c].at = "posting" /\ proc'[c].at = "answered"
        /\ proc'[c].repost = proc[c].repost /\ proc'[c].attempt = proc[c].attempt
    <3>1. PICK reply \in Reply, count \in 0..(Len(log) + 1) : Answers(c, reply, count)
      BY <1>3 DEF ServePost, Answers
    <3>2. QED
      BY <1>1, <1>3, <3>1 DEF ServePost, Answers, ProcRecord
  <2>2. QED
    BY <2>1 DEF Onward, PassesOn, Path, Spot, Over
<1>4. CASE ServeReceipt(c)
  BY <1>1, <1>4 DEF ServeReceipt, Onward, PassesOn, TriesAgain, Path, Spot, Over, ProcRecord
<1>5. QED
  BY <1>2, <1>3, <1>4

\* The end of a call, by an answer, a failure or a crash.
LEMMA EndedOnward ==
  ASSUME TypeOK, NEW c \in Call, NEW place \in Over, End(c, place) \/ EndAs(c, place)
  PROVE  Onward(proc[c], proc'[c])
<1>1. proc'[c].at = place
  BY DEF End, EndAs, Idle, TypeOK, Process
<1>2. QED
  BY <1>1 DEF Onward

LEMMA CallOnward ==
  ASSUME TypeOK, NEW c \in Call, CallStep(c) \/ Crash(c)
  PROVE  proc[c].at \notin Over /\ Onward(proc[c], proc'[c])
<1>1. proc[c] \in ProcRecord /\ proc \in [Process -> ProcRecord] /\ c \in Process
  BY DEF TypeOK, Process
<1>2. {"returned", "failed", "accused", "unsettled", "crashed"} = Over /\ c \notin Helper
  BY NamesAssumption DEF Over
<1>3. CASE StartAppend(c)
  BY <1>1, <1>3 DEF StartAppend, Goto, Onward, PassesOn, TriesAgain, Path, Spot, Over, ProcRecord
<1>4. CASE FetchFails(c)
  BY <1>2, <1>4, EndedOnward DEF FetchFails, Over
<1>5. CASE CacheSnapshot(c)
  <2>1. CASE Goto(c, "signing")
    BY <1>1, <1>5, <2>1 DEF CacheSnapshot, Goto, Onward, PassesOn, TriesAgain, Path, Spot, Over, ProcRecord
  <2>2. CASE End(c, "accused")
    BY <1>2, <1>5, <2>2, EndedOnward DEF CacheSnapshot, Over
  <2>3. QED
    BY <1>5, <2>1, <2>2 DEF CacheSnapshot
<1>6. CASE SignEnvelope(c)
  BY <1>1, <1>6 DEF SignEnvelope, Onward, PassesOn, TriesAgain, Path, Spot, Over, ProcRecord
<1>7. CASE PostFails(c)
  <2>1. CASE proc[c].repost
    BY <1>2, <1>7, <2>1, EndedOnward DEF PostFails, Over
  <2>2. CASE ~proc[c].repost
    BY <1>1, <1>7, <2>2 DEF PostFails, Goto, Onward, PassesOn, TriesAgain, Path, Spot, Over, ProcRecord
  <2>3. QED
    BY <2>1, <2>2
<1>8. CASE ReadReceipt(c)
  BY <1>1, <1>8 DEF ReadReceipt, Goto, Onward, PassesOn, TriesAgain, Path, Spot, Over, ProcRecord
<1>9. CASE ReadStale(c)
  <2>1. CASE End(c, "failed")
    BY <1>2, <1>9, <2>1, EndedOnward DEF ReadStale, Over
  <2>2. CASE proc' = [proc EXCEPT ![c] =
                        [Idle EXCEPT !.at = "fetching", !.attempt = proc[c].attempt + 1]]
    BY <1>1, <1>9, <2>2 DEF ReadStale, Onward, PassesOn, TriesAgain, Path, Spot, Idle, Over, ProcRecord
  <2>3. QED
    BY <1>2, <1>9, <2>1, <2>2 DEF ReadStale
<1>10. CASE ReadRejected(c)
  BY <1>2, <1>10, EndedOnward DEF ReadRejected, Over
<1>11. CASE LookupFails(c)
  BY <1>2, <1>11, EndedOnward DEF LookupFails, Over
<1>12. CASE ReadLookup(c)
  BY <1>1, <1>12 DEF ReadLookup, Onward, PassesOn, TriesAgain, Path, Spot, Over, ProcRecord
<1>13. CASE Finalize(c)
  BY <1>1, <1>13 DEF Finalize, Goto, Onward, PassesOn, TriesAgain, Path, Spot, Over, ProcRecord
<1>14. CASE FinalizeFails(c)
  BY <1>2, <1>14, EndedOnward DEF FinalizeFails, Over
<1>15. CASE Unlink(c)
  BY <1>2, <1>15, EndedOnward DEF Unlink, Over
<1>16. CASE Crash(c)
  BY <1>2, <1>16, EndedOnward DEF Crash, Over
<1>17. QED
  BY <1>3, <1>4, <1>5, <1>6, <1>7, <1>8, <1>9, <1>10, <1>11, <1>12, <1>13, <1>14, <1>15, <1>16
     DEF CallStep, ClientStep

\* Only its own steps and the clerk's answers move a call.
LEMMA OthersLeave ==
  ASSUME TypeOK, NEW c \in Call, Next, proc'[c] # proc[c]
  PROVE  \/ CallStep(c) \/ Crash(c)
         \/ ServeState(c) \/ ServePost(c) \/ ServeReceipt(c)
<1>1. \A p \in Process \ {c} : ClientStep(p) \/ Crash(p) => proc'[c] = proc[c]
  BY DEF ClientStep, PostFails, ReadReceipt, ReadStale, ReadRejected, LookupFails, ReadLookup,
         Finalize, FinalizeFails, Unlink, Crash, EndAs, End, Goto, TypeOK, Process
<1>2. \A d \in Call \ {c} : CallStep(d) => proc'[c] = proc[c]
  BY <1>1 DEF CallStep, StartAppend, FetchFails, CacheSnapshot, SignEnvelope, Goto, End,
         TypeOK, Process
<1>3. \A h \in Helper : HelperStep(h) => proc'[c] = proc[c]
  BY <1>1, NamesAssumption DEF HelperStep, StartRecover, TypeOK, Process
<1>4. \A p \in Process \ {c} : ServeState(p) \/ ServePost(p) \/ ServeReceipt(p) => proc'[c] = proc[c]
  BY DEF ServeState, ServePost, ServeReceipt, TypeOK, Process
<1>5. (\E r \in Request : ServeAdrift(r)) \/ OtherAppends => proc'[c] = proc[c]
  BY DEF ServeAdrift, OtherAppends
<1>6. QED
  BY <1>1, <1>2, <1>3, <1>4, <1>5 DEF Next, ClerkStep

\* A call of append takes at most eleven steps for each attempt, and attempts are
\* as many as stale_retries allows: recovery, lookup and repost of a post that
\* was given up happen once in it (append, recover).
THEOREM AttemptsRunOut == Spec => CallsAdvance
<1>1. ASSUME TypeOK, TypeOK', [Next]_vars, NEW c \in Call
      PROVE  proc'[c] = proc[c] \/ StepsLeft(proc'[c]) \in 0..(StepsLeft(proc[c]) - 1)
  <2>1. SUFFICES ASSUME Next, proc'[c] # proc[c]
                 PROVE  StepsLeft(proc'[c]) \in 0..(StepsLeft(proc[c]) - 1)
    BY <1>1 DEF vars
  <2>2. proc[c] \in ProcRecord /\ proc'[c] \in ProcRecord
    BY <1>1 DEF TypeOK, Process
  <2>3. proc[c].at \notin Over /\ Onward(proc[c], proc'[c])
    BY <1>1, <2>1, OthersLeave, CallOnward, ServedOnward
  <2>4. QED
    BY <2>2, <2>3, OnwardCounts
<1>2. TypeOK /\ TypeOK' /\ [Next]_vars =>
        [\A c \in Call :
           proc'[c] = proc[c] \/ StepsLeft(proc'[c]) \in 0..(StepsLeft(proc[c]) - 1)]_vars
  BY <1>1
<1>3. QED
  BY <1>2, TypesKept, PTL DEF Spec, CallsAdvance

=============================================================================
