---------------------------- MODULE RemoteAppend ----------------------------
(***************************************************************************)
(* Remote appends to a case: the clients of one clone                      *)
(* (src/boule/remote_client.py) against the clerk's append                 *)
(* (src/boule/workspace.py append_envelope, behind src/boule/clerk_api.py).*)
(*                                                                         *)
(* Each call of RemoteClient.append wants one event ordered.  It fetches   *)
(* the head, signs an envelope on it under a fresh request id, keeps the   *)
(* envelope in the outbox, posts it, and on a receipt writes a completed   *)
(* record before it clears the outbox.  Posts and answers get lost, a post *)
(* whose client gave up may still reach the clerk later, and a call may    *)
(* crash between any two steps.  "boule remote recover", run by helpers,   *)
(* takes over an outbox record whose call has ended.                       *)
(*                                                                         *)
(* An event's hash covers all events before it and the log only grows, so  *)
(* a head stands for the number of events up to it.  What an event does to *)
(* the case is CaseLedger's matter: here the clerk may authorize or reject *)
(* any envelope on the current head.  Signatures and the checks on the     *)
(* form of records and answers are left out.                               *)
(***************************************************************************)
EXTENDS Naturals, Sequences

CONSTANTS
  Call,          \* calls of append
  Helper,        \* processes that run recover, over and over
  Request,       \* request ids (UUIDs)
  None,          \* no request, no call; in the log: an event of another clone
  StaleRetries,  \* the argument stale_retries
  MaxOther,      \* bound: events of other clones
  MaxAdrift      \* bound: posts of one request under way without their client

ASSUME RetriesAssumption == StaleRetries \in 0..8

ASSUME BoundsAssumption == MaxOther \in Nat /\ MaxAdrift \in Nat

ASSUME NamesAssumption ==
  /\ Call \cap Helper = {}
  /\ None \notin Call \cup Helper \cup Request

VARIABLES
  log,         \* the clerk's events: their request ids
  callOf,      \* the call an envelope was signed for, None for a fresh id
  base,        \* base_event_hash of an envelope: the events up to that head
  outbox,      \* requests with a record in remote-outbox
  completed,   \* the receipt (its position) in remote-receipts, 0 for none
  highWater,   \* event_count of the snapshot in remote-state
  adrift,      \* number of posts still under way that nobody waits for
  proc         \* where each process is, and what it holds in memory

vars == <<log, callOf, base, outbox, completed, highWater, adrift, proc>>

clerkVars == <<log>>
localVars == <<callOf, base, outbox, completed, highWater>>

Process == Call \cup Helper

\* Where a call is after it returned or raised.  "failed": nothing is left in
\* the outbox.  "accused": fetch_state reported a rollback of the clerk.
\* "unsettled": the outbox record is kept for recover.
Over == {"returned", "failed", "accused", "unsettled", "crashed"}

At == Over \cup {"idle", "fetching", "fetched", "signing", "posting", "answered",
                 "recovering", "looked_up", "finalizing", "unlinking"}

Reply == {"none", "ordered", "stale", "rejected"}

\* "repost": the post is the one of recover.  "count": the events in a
\* snapshot, or the position in a receipt.
ProcRecord ==
  [at: At, request: Request \cup {None}, attempt: 0..StaleRetries, repost: BOOLEAN,
   reply: Reply, count: Nat]

TypeOK ==
  /\ log \in Seq(Request \cup {None})
  /\ callOf \in [Request -> Call \cup {None}]
  /\ base \in [Request -> Nat]
  /\ outbox \subseteq Request
  /\ completed \in [Request -> Nat]
  /\ highWater \in Nat
  /\ adrift \in [Request -> Nat]
  /\ proc \in [Process -> ProcRecord]

Idle ==
  [at |-> "idle", request |-> None, attempt |-> 0, repost |-> FALSE,
   reply |-> "none", count |-> 0]

Init ==
  /\ log = << >>
  /\ callOf = [r \in Request |-> None]
  /\ base = [r \in Request |-> 0]
  /\ outbox = {}
  /\ completed = [r \in Request |-> 0]
  /\ highWater = 0
  /\ adrift = [r \in Request |-> 0]
  /\ proc = [p \in Process |-> Idle]

Ordered == {log[i] : i \in DOMAIN log}

Position(r) == IF r \in Ordered THEN CHOOSE i \in DOMAIN log : log[i] = r ELSE 0

Goto(p, place) == proc' = [proc EXCEPT ![p].at = place]

\* The command ends, and what it held in memory is gone.
End(p, place) == proc' = [proc EXCEPT ![p] = [Idle EXCEPT !.at = place]]

-----------------------------------------------------------------------------
(* The clerk, one request at a time under the case lock.                   *)

\* Mutant: the head is compared before the request id is looked up.
AppendHeadFirst(r, reply, count) ==
  \/ /\ base[r] # Len(log)
     /\ reply = "stale" /\ count = 0
     /\ UNCHANGED log
  \/ /\ base[r] = Len(log) /\ r \in Ordered
     /\ reply = "ordered" /\ count = Position(r)
     /\ UNCHANGED log
  \/ /\ base[r] = Len(log) /\ r \notin Ordered
     /\ \/ reply = "ordered" /\ count = Len(log) + 1 /\ log' = Append(log, r)
        \/ reply = "rejected" /\ count = 0 /\ UNCHANGED log

\* Mutant: a repeated request is answered with the current head.
AppendAnswersHead(r, reply, count) ==
  \/ /\ r \in Ordered
     /\ reply = "ordered" /\ count = Len(log)
     /\ UNCHANGED log
  \/ /\ r \notin Ordered /\ base[r] # Len(log)
     /\ reply = "stale" /\ count = 0
     /\ UNCHANGED log
  \/ /\ r \notin Ordered /\ base[r] = Len(log)
     /\ \/ reply = "ordered" /\ count = Len(log) + 1 /\ log' = Append(log, r)
        \/ reply = "rejected" /\ count = 0 /\ UNCHANGED log

\* The same request is answered with its receipt, whatever the head is now.  A
\* new one must be based on the head, and may be refused by _authorize.
AppendEnvelope(r, reply, count) ==
  \/ /\ r \in Ordered
     /\ reply = "ordered" /\ count = Position(r)
     /\ UNCHANGED log
  \/ /\ r \notin Ordered /\ base[r] # Len(log)
     /\ reply = "stale" /\ count = 0
     /\ UNCHANGED log
  \/ /\ r \notin Ordered /\ base[r] = Len(log)
     /\ \/ reply = "ordered" /\ count = Len(log) + 1 /\ log' = Append(log, r)
        \/ reply = "rejected" /\ count = 0 /\ UNCHANGED log

ServeState(p) ==
  /\ proc[p].at = "fetching"
  /\ proc' = [proc EXCEPT ![p].at = "fetched", ![p].count = Len(log)]
  /\ UNCHANGED <<clerkVars, localVars, adrift>>

ServePost(p) ==
  /\ proc[p].at = "posting"
  /\ \E reply \in Reply, count \in 0..(Len(log) + 1) :
       /\ AppendEnvelope(proc[p].request, reply, count)
       /\ proc' = [proc EXCEPT ![p].at = "answered", ![p].reply = reply,
                               ![p].count = count]
  /\ UNCHANGED <<localVars, adrift>>

\* A post whose client gave up on it gets to the clerk, which answers nobody.
ServeAdrift(r) ==
  /\ adrift[r] > 0
  /\ adrift' = [adrift EXCEPT ![r] = @ - 1]
  /\ \E reply \in Reply, count \in 0..(Len(log) + 1) : AppendEnvelope(r, reply, count)
  /\ UNCHANGED <<localVars, proc>>

ServeReceipt(p) ==
  /\ proc[p].at = "recovering"
  /\ proc[p].request \in outbox
  /\ proc' = [proc EXCEPT ![p].at = "looked_up", ![p].count = Position(proc[p].request)]
  /\ UNCHANGED <<clerkVars, localVars, adrift>>

\* Participants of other clones, and the maintainer.
OtherAppends ==
  /\ Len(SelectSeq(log, LAMBDA r : r = None)) < MaxOther
  /\ log' = Append(log, None)
  /\ UNCHANGED <<localVars, adrift, proc>>

-----------------------------------------------------------------------------
(* The client.                                                             *)

\* A call ends for good; a helper is free for the next record.
EndAs(p, place) == End(p, IF p \in Call THEN place ELSE "idle")

StartAppend(c) ==
  /\ proc[c].at = "idle"
  /\ Goto(c, "fetching")
  /\ UNCHANGED <<clerkVars, localVars, adrift>>

FetchFails(c) ==
  /\ proc[c].at \in {"fetching", "fetched"}
  /\ End(c, "failed")
  /\ UNCHANGED <<clerkVars, localVars, adrift>>

\* Mutant: the snapshot is not compared with the cached one.
CacheAnySnapshot(c) ==
  /\ proc[c].at = "fetched"
  /\ highWater' = proc[c].count
  /\ Goto(c, "signing")
  /\ UNCHANGED <<clerkVars, callOf, base, outbox, completed, adrift>>

\* fetch_state, from the lock on: compare with the cached snapshot, replace it.
CacheSnapshot(c) ==
  /\ proc[c].at = "fetched"
  /\ \/ /\ proc[c].count < highWater
        /\ End(c, "accused")
        /\ UNCHANGED highWater
     \/ /\ proc[c].count >= highWater
        /\ highWater' = proc[c].count
        /\ Goto(c, "signing")
  /\ UNCHANGED <<clerkVars, callOf, base, outbox, completed, adrift>>

\* A fresh UUID, an envelope on the fetched head, and its outbox record.
SignEnvelope(c) ==
  /\ proc[c].at = "signing"
  /\ \E r \in Request :
       /\ callOf[r] = None
       /\ callOf' = [callOf EXCEPT ![r] = c]
       /\ base' = [base EXCEPT ![r] = proc[c].count]
       /\ outbox' = outbox \cup {r}
       /\ proc' = [proc EXCEPT ![c].at = "posting", ![c].request = r,
                               ![c].repost = FALSE]
  /\ UNCHANGED <<clerkVars, completed, highWater, adrift>>

\* A post without its client: it never arrives, or not yet, or is done with.
MaybeAdrift(p) ==
  LET r == proc[p].request
  IN  \/ UNCHANGED adrift
      \/ /\ proc[p].at = "posting"
         /\ adrift[r] < MaxAdrift
         /\ adrift' = [adrift EXCEPT ![r] = @ + 1]

\* Mutant: a transport error ends the call as a rejection does.
PostFailsForGood(p) ==
  /\ proc[p].at \in {"posting", "answered"}
  /\ MaybeAdrift(p)
  /\ EndAs(p, "failed")
  /\ outbox' = outbox \ {proc[p].request}
  /\ UNCHANGED <<clerkVars, callOf, base, completed, highWater>>

\* Mutant: waits for the clerk without a timeout.
PostFailsAnswered(p) ==
  /\ proc[p].at = "answered"
  /\ IF proc[p].repost THEN EndAs(p, "unsettled") ELSE Goto(p, "recovering")
  /\ UNCHANGED <<clerkVars, localVars, adrift>>

\* No answer within the timeout, an unreadable one, a busy clerk or a 5xx:
\* append turns to recover, recover gives up.
PostFails(p) ==
  /\ proc[p].at \in {"posting", "answered"}
  /\ MaybeAdrift(p)
  /\ IF proc[p].repost THEN EndAs(p, "unsettled") ELSE Goto(p, "recovering")
  /\ UNCHANGED <<clerkVars, localVars>>

ReadReceipt(p) ==
  /\ proc[p].at = "answered"
  /\ proc[p].reply = "ordered"
  /\ Goto(p, "finalizing")
  /\ UNCHANGED <<clerkVars, localVars, adrift>>

\* append forgets a stale envelope and, unless it was the last attempt, signs
\* a new one; recover run by hand just fails and the record stays.
ReadStale(p) ==
  /\ proc[p].at = "answered"
  /\ proc[p].reply = "stale"
  /\ \/ /\ p \in Helper
        /\ End(p, "idle")
        /\ UNCHANGED outbox
     \/ /\ p \in Call
        /\ outbox' = outbox \ {proc[p].request}
        /\ \/ proc[p].attempt = StaleRetries /\ End(p, "failed")
           \/ /\ proc[p].attempt # StaleRetries
              /\ proc' = [proc EXCEPT ![p] =
                   [Idle EXCEPT !.at = "fetching", !.attempt = proc[p].attempt + 1]]
  /\ UNCHANGED <<clerkVars, callOf, base, completed, highWater, adrift>>

\* Mutant: a rejection clears the outbox even when an earlier post of the
\* same envelope may be under way.
ReadRejectedForGood(p) ==
  /\ proc[p].at = "answered"
  /\ proc[p].reply = "rejected"
  /\ outbox' = outbox \ {proc[p].request}
  /\ EndAs(p, "failed")
  /\ UNCHANGED <<clerkVars, callOf, base, completed, highWater, adrift>>

\* Only the rejection of the first post is final; raised by recover, it leaves
\* the record.
ReadRejected(p) ==
  /\ proc[p].at = "answered"
  /\ proc[p].reply = "rejected"
  /\ \/ /\ proc[p].repost
        /\ EndAs(p, "unsettled")
        /\ UNCHANGED outbox
     \/ /\ ~ proc[p].repost
        /\ outbox' = outbox \ {proc[p].request}
        /\ End(p, "failed")
  /\ UNCHANGED <<clerkVars, callOf, base, completed, highWater, adrift>>

\* "boule remote recover" with the request id an unsettled call printed, or
\* left in the outbox when it crashed.
StartRecover(h, r) ==
  /\ proc[h].at = "idle"
  /\ r \in outbox
  /\ proc[callOf[r]].at \in Over
  /\ proc' = [proc EXCEPT ![h].at = "recovering", ![h].request = r]
  /\ UNCHANGED <<clerkVars, localVars, adrift>>

\* The receipt lookup fails, or another recover has removed the record.
LookupFails(p) ==
  /\ proc[p].at \in {"recovering", "looked_up"}
  /\ EndAs(p, "unsettled")
  /\ UNCHANGED <<clerkVars, localVars, adrift>>

ReadLookup(p) ==
  /\ proc[p].at = "looked_up"
  /\ proc' = [proc EXCEPT
       ![p].at = IF proc[p].count > 0 THEN "finalizing" ELSE "posting",
       ![p].repost = TRUE]
  /\ UNCHANGED <<clerkVars, localVars, adrift>>

\* The completed record is published exclusively; one that is there already
\* must hold the same receipt.
Finalize(p) ==
  LET r == proc[p].request
  IN  /\ proc[p].at = "finalizing"
      /\ completed[r] \in {0, proc[p].count}
      /\ completed' = [completed EXCEPT ![r] = proc[p].count]
      /\ Goto(p, "unlinking")
      /\ UNCHANGED <<clerkVars, callOf, base, outbox, highWater, adrift>>

\* A conflicting record, or a local disk error.
FinalizeFails(p) ==
  /\ proc[p].at \in {"finalizing", "unlinking"}
  /\ EndAs(p, "unsettled")
  /\ UNCHANGED <<clerkVars, localVars, adrift>>

Unlink(p) ==
  /\ proc[p].at = "unlinking"
  /\ outbox' = outbox \ {proc[p].request}
  /\ EndAs(p, "returned")
  /\ UNCHANGED <<clerkVars, callOf, base, completed, highWater, adrift>>

\* The process is gone; an OSError while the outbox record is written ends the
\* call in the same way.
Crash(p) ==
  /\ proc[p].at \notin Over \cup {"idle"}
  /\ MaybeAdrift(p)
  /\ EndAs(p, "crashed")
  /\ UNCHANGED <<clerkVars, localVars>>

-----------------------------------------------------------------------------
ClientStep(p) ==
  \/ PostFails(p) \/ ReadReceipt(p) \/ ReadStale(p) \/ ReadRejected(p)
  \/ LookupFails(p) \/ ReadLookup(p)
  \/ Finalize(p) \/ FinalizeFails(p) \/ Unlink(p)

CallStep(c) ==
  \/ StartAppend(c) \/ FetchFails(c) \/ CacheSnapshot(c) \/ SignEnvelope(c)
  \/ ClientStep(c)

HelperStep(h) ==
  \/ \E r \in outbox : StartRecover(h, r)
  \/ ClientStep(h)

ClerkStep ==
  \/ \E p \in Process : ServeState(p) \/ ServePost(p) \/ ServeReceipt(p)
  \/ \E r \in Request : ServeAdrift(r)
  \/ OtherAppends

Next ==
  \/ \E c \in Call : CallStep(c)
  \/ \E h \in Helper : HelperStep(h)
  \/ ClerkStep
  \/ \E p \in Process : Crash(p)

Spec == Init /\ [][Next]_vars

\* A call keeps running: its socket operations have a timeout, nothing it
\* waits for locally is held for long.  Nothing is assumed of the clerk.
FairSpec == Spec /\ \A c \in Call : WF_vars(CallStep(c))

-----------------------------------------------------------------------------
(* What is claimed of it.                                                  *)

\* What the clone's directory tells of a call.
OutcomeOf(c) ==
  LET mine == {r \in Request : callOf[r] = c}
  IN  IF \E r \in mine : completed[r] # 0 THEN "confirmed"
      ELSE IF proc[c].at \notin Over THEN "pending"
      ELSE IF mine \cap outbox # {} THEN "unknown"
      ELSE "failed"

Once == INSTANCE AppendOnce WITH
  Other   <- None,
  ordered <- [i \in DOMAIN log |-> IF log[i] = None THEN None ELSE callOf[log[i]]],
  outcome <- [c \in Call |-> OutcomeOf(c)]

\* "Without a second event": the retries, replays and recoveries of a call
\* behave as one event ordered at most once, confirmed only when it is in the
\* log, and never ordered once the call has failed with an empty outbox.
ImplementsAppendOnce == Once!Spec

\* No two events belong to the same call, under one request id or several.
OneEventPerCall ==
  \A i, j \in DOMAIN log :
    log[i] # None /\ log[j] # None /\ callOf[log[i]] = callOf[log[j]] => i = j

\* An event of this clone is never lost sight of: its envelope is in the outbox
\* to be recovered, or its receipt is stored.
NothingLost == \A r \in Ordered \ {None} : r \in outbox \/ completed[r] # 0

\* A stored receipt is about the event at its position; so two recoveries of
\* one request always agree on it.
ReceiptsExact ==
  \A r \in Request : completed[r] # 0 =>
    completed[r] \in DOMAIN log /\ log[completed[r]] = r

\* The stored high-water mark never goes back although clients fetch
\* concurrently, and is one the clerk has really reached.
HighWaterAdvances ==
  [][highWater' >= highWater /\ highWater' <= Len(log')]_vars

\* Whatever the clerk and the network do, a call returns, raises or dies.
AppendEnds == \A c \in Call : proc[c].at = "fetching" ~> proc[c].at \in Over

\* What fetch_state raises: "remote clerk attempted to roll back event count".
\* The clerk's chain would then be behind the stored high-water mark.
AccusedOnlyOnRollback ==
  [][\A c \in Call :
       proc[c].at # "accused" /\ proc'[c].at = "accused" => Len(log) < highWater]_vars

=============================================================================
