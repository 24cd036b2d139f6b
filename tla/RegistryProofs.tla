---------------------------- MODULE RegistryProofs ----------------------------
(***************************************************************************)
(* Proofs about Registry, for any processes, retries, providers and bounds.*)
(***************************************************************************)
EXTENDS Registry, TLAPS

-----------------------------------------------------------------------------
(* Entries.                                                                *)

\* An appended entry is the latest one, and the others stay.
LEMMA AppendFacts ==
  ASSUME entries \in Seq(CaseRecord), Len(entries) > 0, NEW r \in CaseRecord,
         entries' = Append(entries, r)
  PROVE  /\ entries' \in Seq(CaseRecord)
         /\ Len(entries') = Len(entries) + 1
         /\ Latest' = r
         /\ \A n \in 1..Len(entries) : entries'[n] = entries[n]
BY DEF Latest

\* The latest entry, and the one that a process holds, are records.
LEMMA EntriesAreRecords ==
  ASSUME TypeOK
  PROVE  /\ Latest \in CaseRecord
         /\ \A p \in Procs : Cached(p) \in CaseRecord
         /\ \A n \in 1..Len(entries) : entries[n] \in CaseRecord
BY DEF TypeOK, Latest, Cached

\* What a record becomes by each entry is a record.
LEMMA RecordUpdates ==
  ASSUME NEW r \in CaseRecord, NEW s \in Statuses, NEW id \in Identity, NEW n \in Nat
  PROVE  /\ [r EXCEPT !.status = s] \in CaseRecord
         /\ BoundTo(r, id, n) \in CaseRecord
         /\ MigratedTo(r, n) \in CaseRecord
BY DEF CaseRecord, BoundTo, MigratedTo, Identity

LEMMA RetriedIsRecord ==
  ASSUME NEW r \in CaseRecord, r.retries < MaxRetries
  PROVE  Retried(r) \in CaseRecord
<1>1. r.retries \in 0..MaxRetries /\ MaxRetries \in Nat
  BY RetriesAssumption DEF CaseRecord
<1>2. r.retries + 1 \in 0..MaxRetries
  BY <1>1
<1>3. "PROVISIONING" \in Statuses
  BY DEF Statuses
<1> QED
  BY <1>2, <1>3 DEF CaseRecord, Retried

\* An entry that is no binding: it changes the status of a case that is not
\* LIVE, and perhaps its retries.
Advances(r, s) ==
  /\ s \in CaseRecord
  /\ s.id = r.id /\ s.markerId = r.markerId
  /\ s.commit = r.commit /\ s.migrated = r.migrated
  /\ r.status # "LIVE"

LEMMA StatusAdvances ==
  ASSUME NEW r \in CaseRecord, r.status # "LIVE", NEW s \in Statuses
  PROVE  Advances(r, [r EXCEPT !.status = s])
BY RecordUpdates DEF Advances, CaseRecord

LEMMA RetryAdvances ==
  ASSUME NEW r \in CaseRecord, r.retries < MaxRetries, r.status # "LIVE"
  PROVE  Advances(r, Retried(r))
BY RetriedIsRecord DEF Advances, Retried, CaseRecord

\* The two entries that bind the case to a repository.
Binds(p, s) ==
  /\ pc[p] = "record" /\ CanBind(Latest)
  /\ s = BoundTo(Latest, held[p], commit[p])

MovesCase(p, s) ==
  /\ pc[p] = "migrate" /\ ~Latest.migrated
  /\ CanMigrate(Latest, Cached(p))
  /\ s = MigratedTo(Latest, commit[p])

\* What a step may add to the registry.
Adds(s) ==
  \/ Advances(Latest, s)
  \/ \E p \in Procs : Binds(p, s) \/ MovesCase(p, s)

LEMMA AddsRecord ==
  ASSUME TypeOK, NEW s, Adds(s)
  PROVE  s \in CaseRecord
<1>1. \A p \in Procs : held[p] \in Identity /\ commit[p] \in Nat
  BY DEF TypeOK
<1>2. Latest \in CaseRecord
  BY EntriesAreRecords
<1>3. "LIVE" \in Statuses
  BY DEF Statuses
<1> QED
  BY <1>1, <1>2, <1>3, RecordUpdates DEF Adds, Advances, Binds, MovesCase

\* A write of such an entry keeps the registry well formed.
Registers ==
  \/ entries' = entries /\ \A p \in Procs : view'[p] = view[p] \/ view'[p] = Len(entries)
  \/ \E s : /\ Adds(s) /\ entries' = Append(entries, s)
            /\ \A p \in Procs : view'[p] = view[p] \/ view'[p] = Len(entries) + 1

LEMMA WriteRegisters ==
  ASSUME TypeOK, NEW p \in Procs, NEW ok, NEW s, ok => Adds(s), Write(p, ok, s)
  PROVE  Registers /\ view' \in [Procs -> Nat]
<1>1. Len(entries) \in Nat /\ view \in [Procs -> Nat]
  BY DEF TypeOK
<1>2. CASE ok
  <2>1. Adds(s) /\ entries' = Append(entries, s) /\ view' = [view EXCEPT ![p] = Len(entries) + 1]
    BY <1>2 DEF Write, Appended
  <2>2. view' \in [Procs -> Nat] /\ \A q \in Procs : view'[q] = view[q] \/ view'[q] = Len(entries) + 1
    BY <1>1, <2>1
  <2> QED
    BY <2>1, <2>2 DEF Registers
<1>3. CASE ~ok
  <2>1. entries' = entries /\ view' = [view EXCEPT ![p] = Len(entries)]
    BY <1>3 DEF Write, Refused
  <2>2. view' \in [Procs -> Nat] /\ \A q \in Procs : view'[q] = view[q] \/ view'[q] = Len(entries)
    BY <1>1, <2>1
  <2> QED
    BY <2>1, <2>2 DEF Registers
<1> QED
  BY <1>2, <1>3

-----------------------------------------------------------------------------
(* Types.                                                                  *)

LEMMA InitTypes == Init => TypeOK
<1> SUFFICES ASSUME Init PROVE TypeOK
  OBVIOUS
<1>1. Unknown \in CaseRecord
  BY RetriesAssumption DEF Unknown, CaseRecord, Statuses, Identity
<1>2. entries \in Seq(CaseRecord) /\ Len(entries) = 1
  BY <1>1 DEF Init
<1>3. view \in [Procs -> Nat] /\ \A p \in Procs : view[p] \in 1..Len(entries)
  BY <1>2 DEF Init
<1>4. /\ pc \in [Procs -> Places] /\ held \in [Procs -> Identity]
      /\ created \in [Procs -> BOOLEAN]
      /\ commit \in [Procs -> Nat] /\ expected \in [Procs -> Nat]
  BY DEF Init, Places, Identity
<1>5. exists \in BOOLEAN /\ ident \in Identity /\ marker \in Identity /\ scaffold \in BOOLEAN
  BY DEF Init, Identity
<1>6. /\ main \in Nat /\ mirror \in Nat /\ troubles \in Nat
      /\ workspace \in {"none", "partial", "keyless", "ready"}
  BY DEF Init
<1>7. Len(entries) > 0
  BY <1>2
<1> QED
  BY <1>2, <1>3, <1>4, <1>5, <1>6, <1>7 DEF TypeOK

\* The steps that only one process's copy, or nothing, of the registry takes
\* part in.
LEMMA Unregistered ==
  ASSUME TypeOK, UNCHANGED regFile
  PROVE  Registers /\ view' \in [Procs -> Nat]
BY DEF TypeOK, Registers, regFile

LEMMA ViewCatchesUp ==
  ASSUME TypeOK, NEW p \in Procs, UNCHANGED entries,
         view' = [view EXCEPT ![p] = Len(entries)]
  PROVE  Registers /\ view' \in [Procs -> Nat]
BY DEF TypeOK, Registers

\* Every step adds at most one entry, and one that its state allows.
LEMMA NextRegisters ==
  ASSUME TypeOK, Next
  PROVE  Registers /\ view' \in [Procs -> Nat]
<1>1. Latest \in CaseRecord /\ \A p \in Procs : Cached(p) \in CaseRecord
  BY EntriesAreRecords
<1>2. ASSUME NEW p \in Procs, Refresh(p) PROVE Registers /\ view' \in [Procs -> Nat]
  BY <1>2, ViewCatchesUp DEF Refresh
<1>3. ASSUME NEW p \in Procs, Propose(p) PROVE Registers /\ view' \in [Procs -> Nat]
  <2>1. CanPropose(Latest) => Adds(Proposed(Latest))
    BY <1>1, StatusAdvances DEF CanPropose, Proposed, Adds, Statuses
  <2> QED
    BY <1>3, <2>1, WriteRegisters DEF Propose
<1>4. ASSUME NEW p \in Procs, Admit(p) PROVE Registers /\ view' \in [Procs -> Nat]
  <2>1. CanAdmit(Latest) => Adds(Admitted(Latest))
    BY <1>1, StatusAdvances DEF CanAdmit, Admitted, Adds, Statuses
  <2> QED
    BY <1>4, <2>1, WriteRegisters DEF Admit
<1>5. ASSUME NEW p \in Procs, Activate(p) PROVE Registers /\ view' \in [Procs -> Nat]
  <2>1. CanGoLive(Latest) => Adds(WentLive(Latest))
    BY <1>1, StatusAdvances DEF CanGoLive, WentLive, Adds, Statuses
  <2> QED
    BY <1>5, <2>1, WriteRegisters DEF Activate
<1>6. ASSUME NEW p \in Procs, Provision(p) PROVE Registers /\ view' \in [Procs -> Nat]
  <2>1. CanStart(Latest) => Adds(Started(Latest))
    BY <1>1, StatusAdvances DEF CanStart, Started, Adds, Statuses
  <2>2. CanRetry(Latest, Cached(p)) => Adds(Retried(Latest))
    BY <1>1, RetryAdvances DEF CanRetry, Adds
  <2>3. CASE StartProvisioning(p)
    BY <2>1, <2>3, WriteRegisters DEF StartProvisioning
  <2>4. CASE RetryProvisioning(p)
    BY <2>2, <2>4, WriteRegisters DEF RetryProvisioning
  <2>5. CASE ResumeProvisioning(p)
    BY <2>5, Unregistered DEF ResumeProvisioning, regFile
  <2> QED
    BY <1>6, <2>3, <2>4, <2>5 DEF Provision
<1>7. ASSUME NEW p \in Procs, RecordRepository(p)
      PROVE Registers /\ view' \in [Procs -> Nat]
  <2>1. CanBind(Latest) => Adds(BoundTo(Latest, held[p], commit[p]))
    BY <1>7 DEF RecordRepository, Adds, Binds
  <2>2. CASE Bound(Cached(p))
    BY <1>7, <2>2, Unregistered DEF RecordRepository
  <2>3. CASE ~Bound(Cached(p))
    BY <1>7, <2>1, <2>3, WriteRegisters DEF RecordRepository
  <2> QED
    BY <2>2, <2>3
<1>8. ASSUME NEW p \in Procs, MarkProvisionFailed(p)
      PROVE Registers /\ view' \in [Procs -> Nat]
  <2>1. CanFail(Latest) => Adds(Failed(Latest))
    BY <1>1, StatusAdvances DEF CanFail, Failed, Adds, Statuses
  <2> QED
    BY <1>8, <2>1, WriteRegisters DEF MarkProvisionFailed
<1>9. ASSUME NEW p \in Procs, RecordMigration(p)
      PROVE Registers /\ view' \in [Procs -> Nat]
  <2>1. ~Latest.migrated /\ expected[p] = Len(entries) /\ CanMigrate(Latest, Cached(p))
          => Adds(MigratedTo(Latest, commit[p]))
    BY <1>9 DEF RecordMigration, Adds, MovesCase
  <2> QED
    BY <1>9, <2>1, WriteRegisters DEF RecordMigration
<1>10. ASSUME NEW p \in Procs, Work(p) PROVE Registers /\ view' \in [Procs -> Nat]
  <2>1. \/ UNCHANGED regFile
        \/ RecordRepository(p) \/ MarkProvisionFailed(p) \/ RecordMigration(p)
    BY <1>10 DEF Work, regFile, CheckWorkspace, MakeWorkspace, WriteConfig, WriteKey,
         FindRepository, CreateOnGitHub, InitLocal, NameLocal, SignMarker, ReadMarker,
         WriteMarker, WriteScaffold
  <2> QED
    BY <1>7, <1>8, <1>9, <2>1, Unregistered
<1>11. ASSUME NEW p \in Procs, BeginMigration(p) \/ Fault(p)
       PROVE Registers /\ view' \in [Procs -> Nat]
  BY <1>11, Unregistered DEF BeginMigration, Fault, regFile
<1>12. ASSUME NEW p \in Procs, Crash(p) PROVE Registers /\ view' \in [Procs -> Nat]
  BY <1>12, ViewCatchesUp DEF Crash
<1>13. ASSUME Push \/ CopyToGitHub PROVE Registers /\ view' \in [Procs -> Nat]
  BY <1>13, Unregistered DEF Push, CopyToGitHub, regFile
<1> QED
  BY <1>2, <1>3, <1>4, <1>5, <1>6, <1>10, <1>11, <1>12, <1>13 DEF Next

\* The types of the registry follow.
LEMMA RegistryTypes ==
  ASSUME TypeOK, Registers, view' \in [Procs -> Nat]
  PROVE  /\ entries' \in Seq(CaseRecord) /\ Len(entries') > 0
         /\ \A p \in Procs : view'[p] \in 1..Len(entries')
<1>1. /\ entries \in Seq(CaseRecord) /\ Len(entries) > 0 /\ Len(entries) \in Nat
      /\ \A p \in Procs : view[p] \in 1..Len(entries)
  BY DEF TypeOK
<1>2. CASE entries' = entries /\ \A p \in Procs : view'[p] = view[p] \/ view'[p] = Len(entries)
  BY <1>1, <1>2
<1>3. ASSUME NEW s, Adds(s), entries' = Append(entries, s),
             \A p \in Procs : view'[p] = view[p] \/ view'[p] = Len(entries) + 1
      PROVE  /\ entries' \in Seq(CaseRecord) /\ Len(entries') > 0
             /\ \A p \in Procs : view'[p] \in 1..Len(entries')
  <2>1. s \in CaseRecord
    BY <1>3, AddsRecord
  <2>2. entries' \in Seq(CaseRecord) /\ Len(entries') = Len(entries) + 1
    BY <1>1, <1>3, <2>1, AppendFacts
  <2> QED
    BY <1>1, <1>3, <2>2
<1> QED
  BY <1>2, <1>3 DEF Registers

\* The process's own variables, and the world's.
WorkTypes ==
  /\ pc \in [Procs -> Places]
  /\ held \in [Procs -> Identity] /\ created \in [Procs -> BOOLEAN]
  /\ commit \in [Procs -> Nat] /\ expected \in [Procs -> Nat]
  /\ workspace \in {"none", "partial", "keyless", "ready"}
  /\ exists \in BOOLEAN /\ ident \in Identity /\ marker \in Identity
  /\ main \in Nat /\ scaffold \in BOOLEAN /\ mirror \in Nat
  /\ troubles \in Nat

LEMMA LeaveTypes ==
  ASSUME WorkTypes, NEW p \in Procs, Leave(p)
  PROVE  /\ pc' \in [Procs -> Places]
         /\ held' \in [Procs -> Identity] /\ created' \in [Procs -> BOOLEAN]
         /\ commit' \in [Procs -> Nat] /\ expected' \in [Procs -> Nat]
BY DEF WorkTypes, Leave, Goto, Places, Identity

LEMMA NextWorkTypes ==
  ASSUME TypeOK, Next
  PROVE  WorkTypes'
<1>1. WorkTypes
  BY DEF TypeOK, WorkTypes
<1>2. ASSUME NEW p \in Procs, Refresh(p) \/ Propose(p) \/ Admit(p) \/ Activate(p)
      PROVE  WorkTypes'
  BY <1>1, <1>2 DEF Refresh, Propose, Admit, Activate, WorkTypes, work, repo, world
<1>3. ASSUME NEW p \in Procs, Provision(p) PROVE WorkTypes'
  <2>1. pc' \in [Procs -> Places]
    BY <1>1, <1>3 DEF Provision, StartProvisioning, RetryProvisioning, ResumeProvisioning,
         Goto, WorkTypes, Places
  <2> QED
    BY <1>1, <1>3, <2>1 DEF Provision, StartProvisioning, RetryProvisioning,
         ResumeProvisioning, WorkTypes, work, repo, world
<1>4. ASSUME NEW p \in Procs, CheckWorkspace(p) \/ MakeWorkspace(p) \/ WriteConfig(p) \/ WriteKey(p)
      PROVE  WorkTypes'
  <2>1. pc' \in [Procs -> Places]
    BY <1>1, <1>4 DEF CheckWorkspace, MakeWorkspace, WriteConfig, WriteKey, Goto,
         WorkTypes, Places
  <2> QED
    BY <1>1, <1>4, <2>1 DEF CheckWorkspace, MakeWorkspace, WriteConfig, WriteKey, WorkTypes,
         work, repo, world
<1>5. ASSUME NEW p \in Procs, FindRepository(p) \/ CreateOnGitHub(p) \/ InitLocal(p) \/ NameLocal(p)
      PROVE  WorkTypes'
  <2>1. pc' \in [Procs -> Places]
    BY <1>1, <1>5 DEF FindRepository, CreateOnGitHub, InitLocal, NameLocal, Goto,
         WorkTypes, Places
  <2>2. held' \in [Procs -> Identity] /\ created' \in [Procs -> BOOLEAN]
    BY <1>1, <1>5 DEF FindRepository, CreateOnGitHub, InitLocal, NameLocal, Hold,
         WorkTypes, Identity, work
  <2> QED
    BY <1>1, <1>5, <2>1, <2>2 DEF FindRepository, CreateOnGitHub, InitLocal, NameLocal,
         WorkTypes, work, repo, world, Identity
<1>6. ASSUME NEW p \in Procs, SignMarker(p) \/ ReadMarker(p) \/ WriteMarker(p) PROVE WorkTypes'
  <2>1. pc' \in [Procs -> Places]
    BY <1>1, <1>6 DEF SignMarker, ReadMarker, WriteMarker, Goto, WorkTypes, Places
  <2>2. held[p] \in Identity /\ marker \in Identity /\ main \in Nat /\ main + 1 \in Nat
    BY <1>1 DEF WorkTypes
  <2> QED
    BY <1>1, <1>6, <2>1, <2>2 DEF SignMarker, ReadMarker, WriteMarker, WorkTypes,
         work, repo, world
<1>7. ASSUME NEW p \in Procs, WriteScaffold(p) PROVE WorkTypes'
  <2>1. pc' \in [Procs -> Places]
    BY <1>1, <1>7 DEF WriteScaffold, Goto, WorkTypes, Places
  <2>2. main' \in Nat /\ commit' \in [Procs -> Nat]
    BY <1>1, <1>7 DEF WriteScaffold, WorkTypes
  <2> QED
    BY <1>1, <1>7, <2>1, <2>2 DEF WriteScaffold, WorkTypes, world
<1>8. ASSUME NEW p \in Procs, RecordRepository(p) \/ MarkProvisionFailed(p) \/ RecordMigration(p)
      PROVE  WorkTypes'
  <2>1. \/ Leave(p)
        \/ Goto(p, "fail") /\ UNCHANGED work
    BY <1>8 DEF RecordRepository, MarkProvisionFailed, RecordMigration
  <2>2. /\ pc' \in [Procs -> Places]
        /\ held' \in [Procs -> Identity] /\ created' \in [Procs -> BOOLEAN]
        /\ commit' \in [Procs -> Nat] /\ expected' \in [Procs -> Nat]
    <3>1. CASE Leave(p)
      BY <1>1, <3>1, LeaveTypes
    <3>2. CASE Goto(p, "fail") /\ UNCHANGED work
      BY <1>1, <3>2 DEF WorkTypes, Goto, Places, work
    <3> QED
      BY <2>1, <3>1, <3>2
  <2> QED
    BY <1>1, <1>8, <2>2 DEF RecordRepository, MarkProvisionFailed, RecordMigration,
         WorkTypes, repo, world
<1>9. ASSUME NEW p \in Procs, BeginMigration(p) PROVE WorkTypes'
  <2>1. pc' \in [Procs -> Places]
    BY <1>1, <1>9 DEF BeginMigration, Goto, WorkTypes, Places
  <2>2. commit' \in [Procs -> Nat] /\ expected' \in [Procs -> Nat]
    BY <1>1, <1>9 DEF BeginMigration, WorkTypes
  <2> QED
    BY <1>1, <1>9, <2>1, <2>2 DEF BeginMigration, WorkTypes, repo, world
<1>10. ASSUME NEW p \in Procs, Crash(p) PROVE WorkTypes'
  BY <1>1, <1>10, LeaveTypes DEF Crash, WorkTypes, repo
<1>11. ASSUME NEW p \in Procs, Fault(p) PROVE WorkTypes'
  <2>1. pc' \in [Procs -> Places]
    BY <1>1, <1>11 DEF Fault, Goto, WorkTypes, Places
  <2>2. exists' \in BOOLEAN /\ ident' \in Identity
    BY <1>1, <1>11 DEF Fault, WorkTypes, Identity
  <2>3. troubles' \in Nat /\ UNCHANGED <<work, workspace, marker, main, scaffold, mirror>>
    BY <1>1, <1>11 DEF Fault, WorkTypes
  <2> QED
    BY <1>1, <2>1, <2>2, <2>3 DEF WorkTypes, work
<1>12. ASSUME Push \/ CopyToGitHub PROVE WorkTypes'
  BY <1>1, <1>12 DEF Push, CopyToGitHub, WorkTypes, work, repo, world
<1> QED
  BY <1>2, <1>3, <1>4, <1>5, <1>6, <1>7, <1>8, <1>9, <1>10, <1>11, <1>12 DEF Next, Work

LEMMA NextTypes ==
  ASSUME TypeOK, [Next]_vars
  PROVE  TypeOK'
<1>1. CASE Next
  BY <1>1, NextRegisters, RegistryTypes, NextWorkTypes DEF TypeOK, WorkTypes
<1>2. CASE UNCHANGED vars
  BY <1>2 DEF TypeOK, vars, work, repo, world
<1> QED
  BY <1>1, <1>2

\* Every variable of the registry, of its processes and of the repositories
\* stays in its type, and no process holds more entries than the file has.
THEOREM TypesKept == Spec => []TypeOK
<1>1. TypeOK /\ [Next]_vars => TypeOK'
  BY NextTypes
<1> QED
  BY <1>1, InitTypes, PTL DEF Spec

-----------------------------------------------------------------------------
(* What a step does to the latest record.                                  *)

LEMMA LatestSteps ==
  ASSUME TypeOK, Next
  PROVE  \/ Latest' = Latest
         \/ \E s : Adds(s) /\ Latest' = s
<1>1. entries \in Seq(CaseRecord) /\ Len(entries) > 0
  BY DEF TypeOK
<1>2. CASE entries' = entries
  BY <1>2 DEF Latest
<1>3. ASSUME NEW s, Adds(s), entries' = Append(entries, s)
      PROVE  Latest' = s
  BY <1>1, <1>3, AddsRecord, AppendFacts
<1> QED
  BY <1>2, <1>3, NextRegisters DEF Registers

\* A provisioning that fails or succeeds late does not take a LIVE case back.
THEOREM LiveStays == Spec => LiveIsFinal
<1>1. TypeOK /\ [Next]_vars => (Latest.status = "LIVE" => Latest'.status = "LIVE")
  <2> SUFFICES ASSUME TypeOK, [Next]_vars, Latest.status = "LIVE"
               PROVE  Latest'.status = "LIVE"
    OBVIOUS
  <2>1. ASSUME NEW s, Adds(s) PROVE s.status = "LIVE"
    <3>1. Latest \in CaseRecord
      BY EntriesAreRecords
    <3> QED
      BY <2>1, <3>1 DEF Adds, Advances, Binds, CanBind, MovesCase, MigratedTo, CaseRecord
  <2>2. CASE Next
    BY <2>1, <2>2, LatestSteps
  <2>3. CASE UNCHANGED vars
    BY <2>3 DEF vars, Latest
  <2> QED
    BY <2>2, <2>3
<1> QED
  BY <1>1, TypesKept, PTL DEF Spec, LiveIsFinal

-----------------------------------------------------------------------------
(* The inductive invariant of provisioning: what a process that has got    *)
(* somewhere knows of the workspace and of the marker, and that only one   *)
(* process builds the workspace.                                           *)

Building == {"config", "key"}

Knows(p) ==
  /\ pc[p] \in {"sign", "read", "mark", "scaffold", "record"} => held[p] # None
  /\ pc[p] \in {"read", "mark", "scaffold", "record"} => workspace = "ready"
  /\ pc[p] = "record" => marker = held[p]
  /\ pc[p] = "config" => workspace = "partial"
  /\ pc[p] = "key" => workspace = "keyless"
  /\ pc[p] = "migrate" => commit[p] <= mirror

RecordBacked(r) ==
  /\ Bound(r) => r.markerId = marker /\ marker # None /\ workspace = "ready"
  /\ ~r.migrated => r.id = r.markerId
  /\ r.migrated => r.id = GitHub /\ r.markerId \in Procs /\ r.commit <= mirror

BuildInv ==
  /\ mirror <= main
  /\ \A p \in Procs : Knows(p)
  /\ \A p, q \in Procs : pc[p] \in Building /\ pc[q] \in Building => p = q

RegistryInv ==
  /\ TypeOK
  /\ BuildInv
  /\ \A n \in 1..Len(entries) : RecordBacked(entries[n])

LEMMA InitRegistryInv == Init => RegistryInv
<1> SUFFICES ASSUME Init PROVE RegistryInv
  OBVIOUS
<1>1. TypeOK
  BY InitTypes
<1>2. BuildInv
  BY DEF Init, BuildInv, Knows, Building
<1>3. \A n \in 1..Len(entries) : RecordBacked(entries[n])
  <2>1. Len(entries) = 1 /\ entries[1] = Unknown
    BY DEF Init
  <2>2. RecordBacked(Unknown)
    BY DEF RecordBacked, Unknown, Bound
  <2> QED
    BY <2>1, <2>2
<1> QED
  BY <1>1, <1>2, <1>3 DEF RegistryInv

\* The marker, a complete workspace and the commits of the copy stay.
Stays ==
  /\ marker # None => marker' = marker
  /\ workspace = "ready" => workspace' = "ready"
  /\ mirror <= mirror'

LEMMA WorldStays ==
  ASSUME TypeOK, BuildInv, Next
  PROVE  Stays
<1>1. mirror \in Nat /\ main \in Nat /\ mirror <= main
  BY DEF TypeOK, BuildInv
<1>2. \A p \in Procs : Knows(p)
  BY DEF BuildInv
<1>3. ASSUME UNCHANGED <<marker, workspace, mirror>> PROVE Stays
  BY <1>1, <1>3 DEF Stays
<1>4. ASSUME NEW p \in Procs,
             MakeWorkspace(p) \/ WriteConfig(p) \/ WriteKey(p) \/ WriteMarker(p)
      PROVE  Stays
  BY <1>1, <1>2, <1>4 DEF Stays, Knows, MakeWorkspace, WriteConfig, WriteKey, WriteMarker,
     MayWriteMarker, repo, world
<1>5. ASSUME CopyToGitHub PROVE Stays
  BY <1>1, <1>5 DEF Stays, CopyToGitHub, repo
<1>6. ASSUME NEW p \in Procs, Work(p) PROVE Stays
  <2>1. \/ UNCHANGED <<marker, workspace, mirror>>
        \/ MakeWorkspace(p) \/ WriteConfig(p) \/ WriteKey(p) \/ WriteMarker(p)
    BY <1>6 DEF Work, repo, world, CheckWorkspace, FindRepository, CreateOnGitHub,
         InitLocal, NameLocal, SignMarker, ReadMarker, WriteScaffold, RecordRepository,
         MarkProvisionFailed, RecordMigration
  <2> QED
    BY <1>3, <1>4, <2>1
<1>7. ASSUME NEW p \in Procs, Refresh(p) \/ Propose(p) \/ Admit(p) \/ Activate(p)
                                \/ Provision(p) \/ BeginMigration(p) \/ Crash(p) \/ Fault(p)
      PROVE  Stays
  BY <1>3, <1>7 DEF Refresh, Propose, Admit, Activate, Provision, StartProvisioning,
     RetryProvisioning, ResumeProvisioning, BeginMigration, Crash, Fault, repo, world
<1>8. ASSUME Push PROVE Stays
  BY <1>3, <1>8 DEF Push, world
<1> QED
  BY <1>5, <1>6, <1>7, <1>8 DEF Next

\* What the other processes know stays true of a step of p that leaves them
\* where they are, unless it changes a workspace that one of them builds.
LEMMA OthersKnow ==
  ASSUME TypeOK, BuildInv, Next, Stays, NEW p \in Procs,
         \A q \in Procs \ {p} : pc'[q] = pc[q] /\ held'[q] = held[q] /\ commit'[q] = commit[q],
         workspace' = workspace \/ pc[p] \in Building \/ workspace = "none"
  PROVE  \A q \in Procs \ {p} : Knows(q)'
<1> SUFFICES ASSUME NEW q \in Procs \ {p} PROVE Knows(q)'
  OBVIOUS
<1>1. Knows(q) /\ (pc[q] \in Building /\ pc[p] \in Building => p = q)
  BY DEF BuildInv
<1>2. pc[q] \in Building => workspace' = workspace
  BY <1>1 DEF Knows, Building
<1>3. mirror \in Nat /\ commit[q] \in Nat /\ mirror' \in Nat
  BY NextTypes DEF TypeOK
<1>4. pc[q] = "migrate" => commit[q] <= mirror'
  BY <1>1, <1>3 DEF Knows, Stays
<1> QED
  BY <1>1, <1>2, <1>4 DEF Knows, Stays, Building

\* One process at most builds after a step of p, if p did before or if nobody
\* can have.
LEMMA OneBuilds ==
  ASSUME TypeOK, BuildInv, NEW p \in Procs,
         \A q \in Procs \ {p} : pc'[q] = pc[q],
         pc'[p] \in Building => pc[p] \in Building \/ workspace = "none"
  PROVE  \A q, r \in Procs : pc'[q] \in Building /\ pc'[r] \in Building => q = r
<1>1. workspace = "none" => \A q \in Procs : pc[q] \notin Building
  BY DEF BuildInv, Knows, Building
<1> QED
  BY <1>1 DEF BuildInv

\* What is left to show of a step of p: that p knows what it should.
LEMMA StepOf ==
  ASSUME TypeOK, BuildInv, Next, Stays, NEW p \in Procs,
         \A q \in Procs \ {p} : pc'[q] = pc[q] /\ held'[q] = held[q] /\ commit'[q] = commit[q],
         workspace' = workspace \/ pc[p] \in Building \/ workspace = "none",
         pc'[p] \in Building => pc[p] \in Building \/ workspace = "none",
         mirror' <= main', Knows(p)'
  PROVE  BuildInv'
BY OthersKnow, OneBuilds DEF BuildInv

LEMMA NextBuildInv ==
  ASSUME TypeOK, BuildInv, Next,
         \A n \in 1..Len(entries) : RecordBacked(entries[n])
  PROVE  BuildInv'
<1>1. Stays
  BY WorldStays
<1>2. /\ mirror \in Nat /\ main \in Nat /\ mirror <= main /\ main <= main + 1
      /\ \A p \in Procs : Knows(p)
      /\ pc \in [Procs -> Places] /\ held \in [Procs -> Identity] /\ commit \in [Procs -> Nat]
  BY DEF BuildInv, TypeOK
<1>3. ASSUME NEW p \in Procs, Refresh(p) \/ Propose(p) \/ Admit(p) \/ Activate(p)
      PROVE  BuildInv'
  <2>1. UNCHANGED <<pc, work, workspace, repo, world>>
    BY <1>3 DEF Refresh, Propose, Admit, Activate
  <2> QED
    BY <2>1 DEF BuildInv, Knows, Building, work, repo, world
<1>4. ASSUME NEW p \in Procs, Provision(p) PROVE BuildInv'
  <2>1. /\ UNCHANGED <<work, workspace, repo, world>>
        /\ Goto(p, "workspace") \/ Goto(p, "idle")
    BY <1>4 DEF Provision, StartProvisioning, RetryProvisioning, ResumeProvisioning
  <2>2. Knows(p)' /\ pc'[p] \notin Building
    BY <1>2, <2>1 DEF Knows, Goto, Building
  <2> QED
    BY <1>1, <1>2, <2>1, <2>2, StepOf DEF Goto, work, repo, world
<1>5. ASSUME NEW p \in Procs, CheckWorkspace(p) PROVE BuildInv'
  <2>1. /\ UNCHANGED <<work, workspace, repo, world>>
        /\ Goto(p, "mkdir") \/ Goto(p, "fail") \/ Goto(p, "ensure")
    BY <1>5 DEF CheckWorkspace
  <2>2. Knows(p)' /\ pc'[p] \notin Building
    BY <1>2, <2>1 DEF Knows, Goto, Building
  <2> QED
    BY <1>1, <1>2, <2>1, <2>2, StepOf DEF Goto, work, repo, world
<1>6. ASSUME NEW p \in Procs, MakeWorkspace(p) PROVE BuildInv'
  <2>1. Knows(p)'
    BY <1>2, <1>6 DEF MakeWorkspace, Knows, Goto
  <2>2. workspace # "none" => pc'[p] \notin Building
    BY <1>2, <1>6 DEF MakeWorkspace, Goto, Building
  <2> QED
    BY <1>1, <1>2, <1>6, <2>1, <2>2, StepOf DEF MakeWorkspace, Goto, work, repo, world
<1>7. ASSUME NEW p \in Procs, WriteConfig(p) \/ WriteKey(p) PROVE BuildInv'
  <2>1. Knows(p)' /\ pc[p] \in Building
    BY <1>2, <1>7 DEF WriteConfig, WriteKey, Knows, Goto, Building
  <2> QED
    BY <1>1, <1>2, <1>7, <2>1, StepOf DEF WriteConfig, WriteKey, Goto, work, repo, world
<1>8. ASSUME NEW p \in Procs, FindRepository(p) PROVE BuildInv'
  <2>1. Knows(p)' /\ pc'[p] \notin Building
    BY <1>2, <1>8 DEF FindRepository, Hold, Knows, Goto, Building, repo, world
  <2> QED
    BY <1>1, <1>2, <1>8, <2>1, StepOf DEF FindRepository, Hold, Goto, repo, world
<1>9. ASSUME NEW p \in Procs, CreateOnGitHub(p) \/ InitLocal(p) \/ NameLocal(p)
      PROVE BuildInv'
  <2>1. Knows(p)' /\ pc'[p] \notin Building
    BY <1>2, <1>9, IdentityAssumption DEF CreateOnGitHub, InitLocal, NameLocal, Hold, Knows,
       Goto, Building, work, world
  <2> QED
    BY <1>1, <1>2, <1>9, <2>1, StepOf DEF CreateOnGitHub, InitLocal, NameLocal, Hold, Goto,
       work, world
<1>10. ASSUME NEW p \in Procs, SignMarker(p) \/ ReadMarker(p) PROVE BuildInv'
  <2>1. Knows(p)' /\ pc'[p] \notin Building
    BY <1>2, <1>10 DEF SignMarker, ReadMarker, Knows, Goto, Building, work, repo, world
  <2> QED
    BY <1>1, <1>2, <1>10, <2>1, StepOf DEF SignMarker, ReadMarker, Goto, work, repo, world
<1>11. ASSUME NEW p \in Procs, WriteMarker(p) PROVE BuildInv'
  <2>1. Knows(p)' /\ pc'[p] \notin Building
    BY <1>2, <1>11 DEF WriteMarker, Knows, Goto, Building, work, world
  <2>2. mirror' <= main'
    BY <1>2, <1>11 DEF WriteMarker, world
  <2> QED
    BY <1>1, <1>2, <1>11, <2>1, <2>2, StepOf DEF WriteMarker, Goto, work, world
<1>12. ASSUME NEW p \in Procs, WriteScaffold(p) PROVE BuildInv'
  <2>1. Knows(p)' /\ pc'[p] \notin Building
    BY <1>2, <1>12 DEF WriteScaffold, Knows, Goto, Building, world
  <2>2. mirror' <= main'
    BY <1>2, <1>12 DEF WriteScaffold, world
  <2> QED
    BY <1>1, <1>2, <1>12, <2>1, <2>2, StepOf DEF WriteScaffold, Goto, world
<1>13. ASSUME NEW p \in Procs,
              RecordRepository(p) \/ MarkProvisionFailed(p) \/ RecordMigration(p) \/ Crash(p)
       PROVE  BuildInv'
  <2>1. /\ UNCHANGED <<workspace, mirror, main>>
        /\ Leave(p) \/ (Goto(p, "fail") /\ UNCHANGED work)
    BY <1>13 DEF RecordRepository, MarkProvisionFailed, RecordMigration, Crash, repo, world
  <2>2. Knows(p)' /\ pc'[p] \notin Building
    BY <1>2, <2>1 DEF Knows, Leave, Goto, Building, work
  <2>3. \A q \in Procs \ {p} : pc'[q] = pc[q] /\ held'[q] = held[q] /\ commit'[q] = commit[q]
    BY <1>2, <2>1 DEF Leave, Goto, work
  <2> QED
    BY <1>1, <1>2, <2>1, <2>2, <2>3, StepOf
<1>14. ASSUME NEW p \in Procs, Fault(p) PROVE BuildInv'
  <2>1. /\ UNCHANGED <<work, workspace, mirror, main>> /\ Goto(p, "fail")
    BY <1>14 DEF Fault
  <2>2. Knows(p)' /\ pc'[p] \notin Building
    BY <1>2, <2>1 DEF Knows, Goto, Building
  <2> QED
    BY <1>1, <1>2, <2>1, <2>2, StepOf DEF Goto, work
<1>15. ASSUME NEW p \in Procs, BeginMigration(p) PROVE BuildInv'
  <2>1. /\ UNCHANGED <<held, workspace, mirror, main>> /\ Goto(p, "migrate")
        /\ commit' = [commit EXCEPT ![p] = main]
    BY <1>15 DEF BeginMigration, repo, world
  <2>2. main <= mirror
    <3>1. view[p] \in 1..Len(entries) /\ Cached(p) = entries[view[p]]
      BY DEF TypeOK, Cached
    <3>2. RecordBacked(Cached(p)) /\ MirrorVerifies(Cached(p))
      BY <1>15, <3>1 DEF BeginMigration
    <3> QED
      BY <1>2, <3>2 DEF MirrorVerifies, RecordBacked
  <2>3. Knows(p)' /\ pc'[p] \notin Building
    BY <1>2, <2>1, <2>2 DEF Knows, Goto, Building
  <2> QED
    BY <1>1, <1>2, <2>1, <2>3, StepOf DEF Goto
<1>16. ASSUME Push \/ CopyToGitHub PROVE BuildInv'
  <2>1. UNCHANGED <<pc, held, commit, workspace, marker>> /\ mirror' <= main' /\ mirror <= mirror'
    BY <1>2, <1>16 DEF Push, CopyToGitHub, work, repo, world
  <2>2. \A p \in Procs : commit[p] \in Nat
    BY <1>2
  <2>3. mirror' \in Nat
    BY <1>2, <1>16 DEF Push, CopyToGitHub, world
  <2> QED
    BY <1>2, <2>1, <2>2, <2>3 DEF BuildInv, Knows, Building
<1> QED
  BY <1>3, <1>4, <1>5, <1>6, <1>7, <1>8, <1>9, <1>10, <1>11, <1>12, <1>13, <1>14, <1>15,
     <1>16 DEF Next, Work

-----------------------------------------------------------------------------
(* The entries are backed.                                                 *)

\* A record that is backed stays so while the marker, the workspace and the
\* copy do.
LEMMA StaysBacked ==
  ASSUME TypeOK, TypeOK', Stays, NEW r \in CaseRecord, RecordBacked(r)
  PROVE  RecordBacked(r)'
<1>1. mirror \in Nat /\ mirror' \in Nat /\ r.commit \in Nat /\ mirror <= mirror'
  BY DEF TypeOK, Stays, CaseRecord
<1>2. r.commit <= mirror => r.commit <= mirror'
  BY <1>1
<1> QED
  BY <1>2 DEF RecordBacked, Stays, Bound

\* Nor does what is added need more than the latest record and what the process
\* that adds it knows.
LEMMA AddedIsBacked ==
  ASSUME TypeOK, BuildInv, RecordBacked(Latest), NEW s, Adds(s)
  PROVE  RecordBacked(s)
<1>1. Latest \in CaseRecord
  BY EntriesAreRecords
<1>2. CASE Advances(Latest, s)
  BY <1>2 DEF Advances, RecordBacked, Bound
<1>3. ASSUME NEW p \in Procs, Binds(p, s) PROVE RecordBacked(s)
  <2>1. Knows(p)
    BY DEF BuildInv
  <2>2. held[p] # None /\ marker = held[p] /\ workspace = "ready"
    BY <1>3, <2>1 DEF Binds, Knows
  <2>3. ~Latest.migrated
    BY <1>3, IdentityAssumption DEF Binds, CanBind, Bound, RecordBacked
  <2>4. s.id = held[p] /\ s.markerId = held[p] /\ s.migrated = Latest.migrated
    BY <1>1, <1>3 DEF Binds, BoundTo, CaseRecord
  <2> QED
    BY <2>2, <2>3, <2>4 DEF RecordBacked, Bound
<1>4. ASSUME NEW p \in Procs, MovesCase(p, s) PROVE RecordBacked(s)
  <2>1. Knows(p)
    BY DEF BuildInv
  <2>2. commit[p] <= mirror
    BY <1>4, <2>1 DEF MovesCase, Knows
  <2>3. Latest.id = Latest.markerId /\ Latest.id \in Procs
    BY <1>4 DEF MovesCase, CanMigrate, RecordBacked
  <2>4. Bound(Latest)
    BY <2>3, IdentityAssumption DEF Bound
  <2>5. s.id = GitHub /\ s.markerId = Latest.markerId /\ s.migrated /\ s.commit = commit[p]
    BY <1>1, <1>4 DEF MovesCase, MigratedTo, CaseRecord
  <2> QED
    BY <2>2, <2>3, <2>4, <2>5, IdentityAssumption DEF RecordBacked, Bound
<1> QED
  BY <1>2, <1>3, <1>4 DEF Adds

LEMMA NextRecordsBacked ==
  ASSUME RegistryInv, Next
  PROVE  (\A n \in 1..Len(entries) : RecordBacked(entries[n]))'
<1>1. /\ TypeOK /\ TypeOK' /\ BuildInv /\ Stays
      /\ \A n \in 1..Len(entries) : RecordBacked(entries[n]) /\ entries[n] \in CaseRecord
  BY NextTypes, WorldStays, EntriesAreRecords DEF RegistryInv
<1>2. \A n \in 1..Len(entries) : RecordBacked(entries[n])'
                                  \/ entries'[n] # entries[n]
  <2> SUFFICES ASSUME NEW n \in 1..Len(entries), entries'[n] = entries[n]
               PROVE  RecordBacked(entries[n])'
    OBVIOUS
  <2>1. PICK r \in CaseRecord : r = entries[n]
    BY <1>1
  <2>2. RecordBacked(r)'
    BY <1>1, <2>1, StaysBacked
  <2> QED
    BY <2>1, <2>2
<1>3. CASE entries' = entries
  BY <1>2, <1>3
<1>4. ASSUME NEW s, Adds(s), entries' = Append(entries, s)
      PROVE  (\A n \in 1..Len(entries) : RecordBacked(entries[n]))'
  <2>1. s \in CaseRecord
    BY <1>1, <1>4, AddsRecord
  <2>2. Latest = entries[Len(entries)] /\ Len(entries) \in 1..Len(entries)
    BY <1>1 DEF Latest, TypeOK
  <2>3. RecordBacked(s)'
    BY <1>1, <1>4, <2>1, <2>2, AddedIsBacked, StaysBacked
  <2>4. /\ Len(entries') = Len(entries) + 1 /\ entries'[Len(entries')] = s
        /\ \A n \in 1..Len(entries) : entries'[n] = entries[n]
    BY <1>1, <1>4, <2>1, AppendFacts DEF TypeOK, Latest
  <2>5. SUFFICES ASSUME NEW n \in 1..Len(entries')
                 PROVE  RecordBacked(entries[n])'
    OBVIOUS
  <2>6. n \in 1..Len(entries) \/ n = Len(entries')
    BY <2>4 DEF TypeOK
  <2> QED
    BY <1>2, <2>3, <2>4, <2>6
<1> QED
  BY <1>1, <1>3, <1>4, NextRegisters DEF Registers

THEOREM RegistryInvariant == Spec => []RegistryInv
<1>1. RegistryInv /\ [Next]_vars => RegistryInv'
  <2>1. ASSUME RegistryInv, Next PROVE RegistryInv'
    BY <2>1, NextTypes, NextBuildInv, NextRecordsBacked DEF RegistryInv
  <2>2. ASSUME RegistryInv, UNCHANGED vars PROVE RegistryInv'
    <3>1. TypeOK'
      BY <2>2, NextTypes DEF RegistryInv
    <3> QED
      BY <2>2, <3>1 DEF RegistryInv, BuildInv, Knows, RecordBacked, Bound, Building, vars,
         work, repo, world
  <2> QED
    BY <2>1, <2>2
<1> QED
  BY <1>1, InitRegistryInv, PTL DEF Spec

\* Whatever the registry records of the case's repository is backed by the
\* marker, the workspace and, after a move, by the copy on GitHub.
THEOREM RecordsAreBacked == Spec => []RecordsBacked
<1>1. RegistryInv => RecordsBacked
  <2> SUFFICES ASSUME RegistryInv PROVE RecordsBacked
    OBVIOUS
  <2>1. RecordedHasMarker
    BY DEF RegistryInv, RecordedHasMarker, RecordBacked
  <2>2. RecordBacked(Latest)
    BY DEF RegistryInv, TypeOK, Latest
  <2>3. MigratedIsMirrored
    BY <2>2, IdentityAssumption DEF MigratedIsMirrored, RecordBacked, Bound
  <2> QED
    BY <2>1, <2>3 DEF RecordsBacked
<1> QED
  BY <1>1, RegistryInvariant, PTL

\* A marker that is written is never replaced.
THEOREM MarkersStay == Spec => MarkerStays
<1>1. RegistryInv /\ [Next]_vars => (marker # None => marker' = marker)
  BY WorldStays DEF RegistryInv, Stays, vars, repo
<1> QED
  BY <1>1, RegistryInvariant, PTL DEF Spec, MarkerStays

\* The case is bound once, and moved at most once, when it is LIVE, to GitHub.
THEOREM BindingStays == Spec => BindingKept
<1> DEFINE Kept ==
      Bound(Latest) =>
        /\ Latest'.markerId = Latest.markerId
        /\ \/ Latest'.id = Latest.id /\ Latest'.commit = Latest.commit
           \/ /\ Latest.status = "LIVE" /\ ~Latest.migrated
              /\ Latest.id = Latest.markerId /\ Latest'.id = GitHub
<1>1. RegistryInv /\ [Next]_vars => Kept
  <2> SUFFICES ASSUME RegistryInv, [Next]_vars PROVE Kept
    OBVIOUS
  <2>1. TypeOK /\ Latest \in CaseRecord /\ RecordBacked(Latest)
    BY EntriesAreRecords DEF RegistryInv, TypeOK, Latest
  <2>2. ASSUME NEW s, Adds(s), Latest' = s PROVE Kept
    <3>1. CASE Advances(Latest, s)
      BY <2>2, <3>1 DEF Advances
    <3>2. ASSUME NEW p \in Procs, Binds(p, s) PROVE Kept
      BY <3>2 DEF Binds, CanBind
    <3>3. ASSUME NEW p \in Procs, MovesCase(p, s) PROVE Kept
      <4>1. s.id = GitHub /\ s.markerId = Latest.markerId
        BY <2>1, <3>3 DEF MovesCase, MigratedTo, CaseRecord
      <4>2. Latest.status = "LIVE" /\ ~Latest.migrated /\ Latest.id = Latest.markerId
        BY <2>1, <3>3 DEF MovesCase, CanMigrate, RecordBacked
      <4> QED
        BY <2>2, <4>1, <4>2
    <3> QED
      BY <2>2, <3>1, <3>2, <3>3 DEF Adds
  <2>3. CASE Next
    BY <2>1, <2>2, <2>3, LatestSteps
  <2>4. CASE UNCHANGED vars
    BY <2>4 DEF vars, Latest
  <2> QED
    BY <2>3, <2>4
<1>2. Spec => [][Kept]_vars
  BY <1>1, RegistryInvariant, PTL DEF Spec
<1> QED
  BY <1>2 DEF BindingKept

=============================================================================
