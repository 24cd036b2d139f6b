----------------------------- MODULE SignedViews -----------------------------
(***************************************************************************)
(* The signed read routes of the registry server, src/boule/registry_api.py:*)
(* _consistent_snapshot, and the cache of LiveProjector.problems.          *)
(*                                                                         *)
(* The handler threads share one Registry object, which any of them moves  *)
(* to a newer prefix of the file while another is building its answer, and *)
(* one cached projection.  A set of records is named by the count of the   *)
(* entries that it was computed from.                                      *)
(***************************************************************************)
EXTENDS Integers

CONSTANTS Threads,
          FileLimit,  \* bound on the registry file
          Attempts    \* of _consistent_snapshot

ASSUME ViewsAssumption == FileLimit \in Nat /\ Attempts \in Nat \ {0}

VARIABLES file,       \* entries in the registry file
          loaded,     \* entries of the shared Registry object
          cachedHead, cachedRecords,  \* the projector's cache, 0 for none
          refreshing, \* a thread is computing the projection
          at,         \* where each thread is
          wanted,     \* the head it started from
          asked,      \* the head the projection it computes is for
          records,    \* the records it holds
          stale,      \* and whether it marked them stale
          tries,
          signed      \* the last snapshot it signed

thread == <<at, wanted, asked, records, stale, tries>>
viewVars == <<file, loaded, cachedHead, cachedRecords, refreshing, thread, signed>>

Unsigned == [head |-> 0, records |-> 0, stale |-> FALSE]

ViewsInit ==
  /\ file = 1 /\ loaded = 1
  /\ cachedHead = 0 /\ cachedRecords = 0 /\ refreshing = FALSE
  /\ at = [t \in Threads |-> "idle"]
  /\ wanted = [t \in Threads |-> 0] /\ asked = [t \in Threads |-> 0]
  /\ records = [t \in Threads |-> 0] /\ stale = [t \in Threads |-> FALSE]
  /\ tries = [t \in Threads |-> 0]
  /\ signed = Unsigned

\* The maintainer's process appends to the file.
Publish ==
  /\ file < FileLimit /\ file' = file + 1
  /\ UNCHANGED <<loaded, cachedHead, cachedRecords, refreshing, thread, signed>>

\* An attempt: refresh the registry and note its head.
BeginView(t) ==
  /\ at[t] = "idle" \/ at[t] = "again"
  /\ loaded' = file
  /\ wanted' = [wanted EXCEPT ![t] = file]
  /\ tries' = [tries EXCEPT ![t] = IF at[t] = "idle" THEN 1 ELSE @ + 1]
  /\ \E route \in {"problems", "live"} : at' = [at EXCEPT ![t] = route]
  /\ UNCHANGED <<file, cachedHead, cachedRecords, refreshing, asked, records,
                 stale, signed>>

Have(t, n, s) ==
  /\ records' = [records EXCEPT ![t] = n]
  /\ stale' = [stale EXCEPT ![t] = s]
  /\ at' = [at EXCEPT ![t] = "sign"]

\* /v1/problems: the records of the registry as it is now.
ReadProblems(t) ==
  /\ at[t] = "problems" /\ Have(t, loaded, FALSE)
  /\ UNCHANGED <<file, loaded, cachedHead, cachedRecords, refreshing, wanted,
                 asked, tries, signed>>

\* Mutant: the cache is used whatever head it was computed for.
UseAnyCache(t) ==
  /\ at[t] = "live" /\ cachedHead > 0
  /\ Have(t, cachedRecords, FALSE)
  /\ UNCHANGED <<file, loaded, cachedHead, cachedRecords, refreshing, wanted,
                 asked, tries, signed>>

\* /v1/live: the cache while it is for this head and has not expired.
UseCache(t) ==
  /\ at[t] = "live" /\ cachedHead = loaded /\ cachedHead > 0
  /\ Have(t, cachedRecords, FALSE)
  /\ UNCHANGED <<file, loaded, cachedHead, cachedRecords, refreshing, wanted,
                 asked, tries, signed>>

\* While another thread computes the projection: the cache, or the registry's
\* own records, marked stale.
UseStale(t) ==
  /\ at[t] = "live" /\ refreshing
  /\ Have(t, IF cachedRecords > 0 THEN cachedRecords ELSE loaded, TRUE)
  /\ UNCHANGED <<file, loaded, cachedHead, cachedRecords, refreshing, wanted,
                 asked, tries, signed>>

\* _refresh: the head it answers for is read before the records.
BeginProjection(t) ==
  /\ at[t] = "live" /\ ~refreshing
  /\ refreshing' = TRUE
  /\ asked' = [asked EXCEPT ![t] = loaded]
  /\ at' = [at EXCEPT ![t] = "project"]
  /\ UNCHANGED <<file, loaded, cachedHead, cachedRecords, wanted, records,
                 stale, tries, signed>>

ReadRecords(t) ==
  /\ at[t] = "project"
  /\ records' = [records EXCEPT ![t] = loaded]
  /\ at' = [at EXCEPT ![t] = "store"]
  /\ UNCHANGED <<file, loaded, cachedHead, cachedRecords, refreshing, wanted,
                 asked, stale, tries, signed>>

StoreProjection(t) ==
  /\ at[t] = "store"
  /\ cachedHead' = asked[t] /\ cachedRecords' = records[t]
  /\ refreshing' = FALSE
  /\ Have(t, records[t], FALSE)
  /\ UNCHANGED <<file, loaded, wanted, asked, tries, signed>>

\* The cached projection expires.
Expire ==
  /\ cachedHead > 0 /\ ~refreshing
  /\ cachedHead' = 0
  /\ UNCHANGED <<file, loaded, cachedRecords, refreshing, thread, signed>>

\* The request is answered, or fails after its last attempt.
EndView(t) ==
  /\ at' = [at EXCEPT ![t] = "idle"]
  /\ wanted' = [wanted EXCEPT ![t] = 0]
  /\ asked' = [asked EXCEPT ![t] = 0]
  /\ records' = [records EXCEPT ![t] = 0]
  /\ stale' = [stale EXCEPT ![t] = FALSE]
  /\ tries' = [tries EXCEPT ![t] = 0]

\* Refresh again; the snapshot is signed when the head is still the one noted.
SignView(t) ==
  /\ at[t] = "sign"
  /\ loaded' = file
  /\ IF file = wanted[t]
     THEN /\ signed' = [head |-> file, records |-> records[t], stale |-> stale[t]]
          /\ EndView(t)
     ELSE /\ IF tries[t] < Attempts
             THEN /\ at' = [at EXCEPT ![t] = "again"]
                  /\ UNCHANGED <<wanted, asked, records, stale, tries>>
             ELSE EndView(t)
          /\ UNCHANGED signed
  /\ UNCHANGED <<file, cachedHead, cachedRecords, refreshing>>

ViewsNext ==
  \/ Publish \/ Expire
  \/ \E t \in Threads :
       \/ BeginView(t) \/ ReadProblems(t) \/ UseCache(t) \/ UseStale(t)
       \/ BeginProjection(t) \/ ReadRecords(t) \/ StoreProjection(t) \/ SignView(t)

ViewsSpec == ViewsInit /\ [][ViewsNext]_viewVars

-----------------------------------------------------------------------------
(* Properties.                                                             *)

\* A signed snapshot shows the records of the head that it names, unless it
\* marks them stale: neither the shared registry, moved by another thread, nor
\* a projection computed across such a move is signed for the wrong head.
SignedIsOfItsHead == signed.stale \/ signed.records = signed.head

=============================================================================
