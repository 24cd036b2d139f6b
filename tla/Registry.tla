------------------------------ MODULE Registry ------------------------------
(***************************************************************************)
(* The problem registry and the hub that drives one of its cases from      *)
(* proposal to LIVE: src/boule/registry.py, hub.py, provisioner.py and     *)
(* repository_migration.py.                                                *)
(*                                                                         *)
(* A process is one `boule registry ...` command or one registry watcher.  *)
(* All of them share the registry file, which each one changes under the   *)
(* file lock after rereading it, and a process reads what it decides from  *)
(* its own copy of the entries, which only an append or a refresh brings   *)
(* up to date.  Outside the lock it builds the case's workspace and its    *)
(* repository step by step, and may stop between any two steps.            *)
(*                                                                         *)
(* entries[n] is the case's record after the first n entries, what _replay *)
(* computes from them; a commit is the number of commits on main.          *)
(***************************************************************************)
EXTENDS Integers, Sequences

CONSTANTS Procs,        \* the processes that work on the case
          GitHub,       \* the identity GitHub gives the case's repository
          None,
          MaxRetries,   \* the registry's limit on provisioning retries
          Providers,    \* which providers are in use: "local", "github"
          MaxTroubles, \* bound on crashes and failed requests together
          MaxPushes     \* bound on the commits that others push

ASSUME RetriesAssumption == MaxRetries \in 0..32
ASSUME IdentityAssumption == GitHub \notin Procs /\ None \notin Procs \cup {GitHub}
ASSUME BoundsAssumption == {MaxTroubles, MaxPushes} \subseteq Nat

VARIABLES entries,    \* the registry file
          view,       \* how many entries each process holds
          pc,         \* where each process is
          held,       \* the repository identity ensure_repository returned to it
          created,    \* and whether it was told that it created the repository
          commit,     \* the commit it is about to record
          expected,   \* the registry head its operator supplied (an entry count)
          workspace,  \* the case's directory under cases/
          provider,   \* the provider of this hub
          exists, ident, marker, main, scaffold, \* the case's repository
          mirror,     \* main of the GitHub copy an operator pushed, 0 for none
          troubles    \* crashes and failed requests so far

regFile == <<entries, view>>
work    == <<held, created, commit, expected>>
repo    == <<exists, ident, marker, main, scaffold>>
world   == <<provider, mirror, troubles>>
vars    == <<entries, view, pc, work, workspace, repo, world>>

-----------------------------------------------------------------------------
(* The case's record and the entries that may change it.                   *)

Statuses == {"NONE", "PROPOSED", "ADMITTED", "PROVISIONING", "LIVE",
             "PROVISION_FAILED"}
Identity == Procs \cup {GitHub, None}

CaseRecord == [status: Statuses, retries: 0..MaxRetries, id: Identity,
           markerId: Identity, commit: Nat, migrated: BOOLEAN]

Unknown == [status |-> "NONE", retries |-> 0, id |-> None,
            markerId |-> None, commit |-> 0, migrated |-> FALSE]

Latest  == entries[Len(entries)]
Cached(p) == entries[view[p]]
Bound(r) == r.id # None

CanPropose(r) == r.status = "NONE"
Proposed(r) == [r EXCEPT !.status = "PROPOSED"]

CanAdmit(r) == r.status = "PROPOSED"
Admitted(r) == [r EXCEPT !.status = "ADMITTED"]

CanStart(r) == r.status = "ADMITTED"
Started(r) == [r EXCEPT !.status = "PROVISIONING"]

\* The retry number comes from the writer's copy, c, and must be the next one.
CanRetry(r, c) ==
  /\ r.status = "PROVISION_FAILED"
  /\ c.retries = r.retries
  /\ r.retries < MaxRetries
Retried(r) == [r EXCEPT !.status = "PROVISIONING", !.retries = r.retries + 1]

\* Mutant: a case that is bound may be bound again.
CanBindAgain(r) == r.status = "PROVISIONING"

CanBind(r) == r.status = "PROVISIONING" /\ ~Bound(r)
BoundTo(r, id, n) == [r EXCEPT !.id = id, !.markerId = id, !.commit = n]

CanGoLive(r) == r.status = "PROVISIONING" /\ Bound(r)
WentLive(r) == [r EXCEPT !.status = "LIVE"]

\* Mutant: a late failure marks a LIVE case too.
CanFailLate(r) == r.status \in {"PROVISIONING", "LIVE"}

CanFail(r) == r.status = "PROVISIONING"
Failed(r) == [r EXCEPT !.status = "PROVISION_FAILED"]

\* The entry names the binding that c, the writer's copy, holds.
CanMigrate(r, c) ==
  /\ r.status = "LIVE"
  /\ ~r.migrated
  /\ c.id = r.id /\ c.commit = r.commit
  /\ c.id \in Procs
MigratedTo(r, n) ==
  [r EXCEPT !.id = GitHub, !.commit = n, !.migrated = TRUE]

-----------------------------------------------------------------------------
(* _append: under the file lock the process adopts the file's entries, and *)
(* adds its own only when the whole chain still replays.                   *)

Appended(p, r) ==
  /\ entries' = Append(entries, r)
  /\ view' = [view EXCEPT ![p] = Len(entries) + 1]

Refused(p) ==
  /\ view' = [view EXCEPT ![p] = Len(entries)]
  /\ UNCHANGED entries

\* One append: entry r when ok holds, else the error that leaves the file alone.
Write(p, ok, r) == IF ok THEN Appended(p, r) ELSE Refused(p)

Goto(p, place) == pc' = [pc EXCEPT ![p] = place]

\* The command ends, and what it computed is gone.
Leave(p) ==
  /\ Goto(p, "idle")
  /\ held' = [held EXCEPT ![p] = None]
  /\ created' = [created EXCEPT ![p] = FALSE]
  /\ commit' = [commit EXCEPT ![p] = 0]
  /\ expected' = [expected EXCEPT ![p] = 0]

Init ==
  /\ entries = <<Unknown>>
  /\ view = [p \in Procs |-> 1]
  /\ pc = [p \in Procs |-> "idle"]
  /\ held = [p \in Procs |-> None]
  /\ created = [p \in Procs |-> FALSE]
  /\ commit = [p \in Procs |-> 0]
  /\ expected = [p \in Procs |-> 0]
  /\ workspace = "none"
  /\ provider \in Providers
  /\ exists = FALSE /\ ident = None /\ marker = None
  /\ main = 0 /\ scaffold = FALSE /\ mirror = 0
  /\ troubles = 0

-----------------------------------------------------------------------------
(* The commands that are one append: each looks at the process's own copy. *)

\* A new command opens the registry, and a watcher's tick refreshes its copy.
Refresh(p) ==
  /\ pc[p] = "idle" /\ view[p] < Len(entries)
  /\ view' = [view EXCEPT ![p] = Len(entries)]
  /\ UNCHANGED <<entries, pc, work, workspace, repo, world>>

\* propose: a task whose commitment the copy knows is returned, not recorded.
Propose(p) ==
  /\ pc[p] = "idle" /\ CanPropose(Cached(p))
  /\ Write(p, CanPropose(Latest), Proposed(Latest))
  /\ UNCHANGED <<pc, work, workspace, repo, world>>

\* admit: the source was imported again and still gives the proposed task.
Admit(p) ==
  /\ pc[p] = "idle" /\ Cached(p).status = "PROPOSED"
  /\ Write(p, CanAdmit(Latest), Admitted(Latest))
  /\ UNCHANGED <<pc, work, workspace, repo, world>>

\* The case's directory opens as the workspace of its task.
WorkspaceStands == workspace \in {"keyless", "ready"}

\* case_workspace: the copy records a marker identity, and the workspace opens.
CaseWorkspace(p) == Bound(Cached(p)) /\ WorkspaceStands

\* activate: the case's clerk answered with a verified snapshot.
Activate(p) ==
  /\ pc[p] = "idle" /\ Cached(p).status = "PROVISIONING"
  /\ CaseWorkspace(p)
  /\ Write(p, CanGoLive(Latest), WentLive(Latest))
  /\ UNCHANGED <<pc, work, workspace, repo, world>>

-----------------------------------------------------------------------------
(* Provisioning.  It starts by what the copy says of the case ...          *)

StartProvisioning(p) ==
  /\ pc[p] = "idle" /\ Cached(p).status = "ADMITTED"
  /\ Write(p, CanStart(Latest), Started(Latest))
  /\ Goto(p, IF CanStart(Latest) THEN "workspace" ELSE "idle")
  /\ UNCHANGED <<work, workspace, repo, world>>

RetryProvisioning(p) ==
  /\ pc[p] = "idle" /\ Cached(p).status = "PROVISION_FAILED"
  /\ Write(p, CanRetry(Latest, Cached(p)), Retried(Latest))
  /\ Goto(p, IF CanRetry(Latest, Cached(p)) THEN "workspace" ELSE "idle")
  /\ UNCHANGED <<work, workspace, repo, world>>

\* A case that is being provisioned and has no repository yet is taken up
\* where it is; one that has a repository is answered from the record.
ResumeProvisioning(p) ==
  /\ pc[p] = "idle" /\ Cached(p).status = "PROVISIONING" /\ ~Bound(Cached(p))
  /\ Goto(p, "workspace")
  /\ UNCHANGED <<entries, view, work, workspace, repo, world>>

(* ... goes on with the workspace: the directory, its configuration, and   *)
(* the clerk's private key last ...                                        *)

\* Mutant: the error of an incomplete workspace is not caught by the hub.
CheckWorkspaceUncaught(p) ==
  /\ pc[p] = "workspace"
  /\ Goto(p, IF workspace = "none" THEN "mkdir"
             ELSE IF workspace = "partial" THEN "idle" ELSE "ensure")
  /\ UNCHANGED <<entries, view, work, workspace, repo, world>>

\* An existing directory is opened, and is an error while it is incomplete.
CheckWorkspace(p) ==
  /\ pc[p] = "workspace"
  /\ Goto(p, IF workspace = "none" THEN "mkdir"
             ELSE IF workspace = "partial" THEN "fail" ELSE "ensure")
  /\ UNCHANGED <<entries, view, work, workspace, repo, world>>

\* A directory that appeared since the check is an OSError, which the hub
\* does not catch: the command ends and the case is not marked.
MakeWorkspace(p) ==
  /\ pc[p] = "mkdir"
  /\ IF workspace = "none"
     THEN workspace' = "partial" /\ Goto(p, "config")
     ELSE Goto(p, "idle") /\ UNCHANGED workspace
  /\ UNCHANGED <<entries, view, work, repo, world>>

WriteConfig(p) ==
  /\ pc[p] = "config"
  /\ workspace' = "keyless" /\ Goto(p, "key")
  /\ UNCHANGED <<entries, view, work, repo, world>>

WriteKey(p) ==
  /\ pc[p] = "key"
  /\ workspace' = "ready" /\ Goto(p, "ensure")
  /\ UNCHANGED <<entries, view, work, repo, world>>

(* ... then the repository, through the provider ...                       *)

Hold(p, id, new) ==
  /\ held' = [held EXCEPT ![p] = id]
  /\ created' = [created EXCEPT ![p] = new]

\* ensure_repository finds the repository, or decides to create it.  A local
\* repository that has no identity yet is an error.
FindRepository(p) ==
  /\ pc[p] = "ensure"
  /\ \/ ~exists /\ Goto(p, "create") /\ UNCHANGED <<held, created>>
     \/ exists /\ ident # None /\ Hold(p, ident, FALSE) /\ Goto(p, "sign")
     \/ exists /\ ident = None /\ Goto(p, "fail") /\ UNCHANGED <<held, created>>
  /\ UNCHANGED <<entries, view, commit, expected, workspace, repo, world>>

\* GitHub creates the repository with its identity, or says that it exists.
CreateOnGitHub(p) ==
  /\ provider = "github" /\ pc[p] = "create"
  /\ exists' = TRUE /\ ident' = GitHub
  /\ Hold(p, GitHub, ~exists) /\ Goto(p, "sign")
  /\ UNCHANGED <<entries, view, commit, expected, workspace, marker, main,
                 scaffold, world>>

\* The local provider runs git init, which accepts an existing directory ...
InitLocal(p) ==
  /\ provider = "local" /\ pc[p] = "create"
  /\ exists' = TRUE /\ Goto(p, "name")
  /\ UNCHANGED <<entries, view, work, workspace, ident, marker, main, scaffold,
                 world>>

\* ... and then sets a new identity in its configuration.
NameLocal(p) ==
  /\ pc[p] = "name"
  /\ ident' = p /\ Hold(p, p, TRUE) /\ Goto(p, "sign")
  /\ UNCHANGED <<entries, view, commit, expected, workspace, exists, marker,
                 main, scaffold, world>>

(* ... and the two commits: the signed marker before anything else, and    *)
(* the public files.  write_files refuses a file that is there and differs.*)

SignMarker(p) ==
  /\ pc[p] = "sign"
  /\ Goto(p, IF workspace = "ready" THEN "read" ELSE "fail")
  /\ UNCHANGED <<entries, view, work, workspace, repo, world>>

\* _verify_marker: the marker names this case and this repository identity.
MarkerVerifies(p) == marker = held[p]

ReadMarker(p) ==
  /\ pc[p] = "read"
  /\ \/ marker # None /\ MarkerVerifies(p) /\ Goto(p, "scaffold")
     \/ marker = None /\ created[p] /\ Goto(p, "mark")
     \/ /\ IF marker # None THEN ~MarkerVerifies(p) ELSE ~created[p]
        /\ Goto(p, "fail")
  /\ UNCHANGED <<entries, view, work, workspace, repo, world>>

\* Mutant: a marker that is there is written over.
MayOverwriteMarker(p) == TRUE

MayWriteMarker(p) == marker \in {None, held[p]}

WriteMarker(p) ==
  /\ pc[p] = "mark"
  /\ IF MayWriteMarker(p)
     THEN /\ marker' = held[p] /\ Goto(p, "scaffold")
          /\ main' = IF marker = held[p] THEN main ELSE main + 1
     ELSE Goto(p, "fail") /\ UNCHANGED <<marker, main>>
  /\ UNCHANGED <<entries, view, work, workspace, exists, ident, scaffold, world>>

WriteScaffold(p) ==
  /\ pc[p] = "scaffold"
  /\ IF marker = held[p]
     THEN /\ scaffold' = TRUE
          /\ main' = IF scaffold THEN main ELSE main + 1
          /\ commit' = [commit EXCEPT ![p] = main'] /\ Goto(p, "record")
     ELSE Goto(p, "fail") /\ UNCHANGED <<scaffold, main, commit>>
  /\ UNCHANGED <<entries, view, held, created, expected, workspace, exists, ident,
                 marker, world>>

(* ... until the hub records the repository, or marks the case failed.     *)

\* The hub looks at its own copy, which dates from the start of the command:
\* a refused record_repository is a provisioning failure.
RecordRepository(p) ==
  /\ pc[p] = "record"
  /\ IF Bound(Cached(p))
     THEN UNCHANGED regFile
     ELSE Write(p, CanBind(Latest), BoundTo(Latest, held[p], commit[p]))
  /\ IF Bound(Cached(p)) \/ CanBind(Latest)
     THEN Leave(p)
     ELSE Goto(p, "fail") /\ UNCHANGED work
  /\ UNCHANGED <<workspace, repo, world>>

MarkProvisionFailed(p) ==
  /\ pc[p] = "fail"
  /\ Write(p, CanFail(Latest), Failed(Latest))
  /\ Leave(p)
  /\ UNCHANGED <<workspace, repo, world>>

-----------------------------------------------------------------------------
(* migrate_repository: the checks read the copy and the two repositories,  *)
(* and the entry is added only on the head that the operator named.        *)

\* verify_local_to_github_mirror: the same refs in both repositories (those of
\* the recorded move, once there is one), under the identity the marker names.
MirrorVerifies(r) ==
  /\ r.markerId \in Procs
  /\ ident = r.markerId /\ marker = r.markerId
  /\ mirror > 0
  /\ IF r.migrated THEN main = r.commit ELSE mirror = main

BeginMigration(p) ==
  /\ pc[p] = "idle" /\ Cached(p).status = "LIVE" /\ CaseWorkspace(p)
  /\ MirrorVerifies(Cached(p))
  /\ commit' = [commit EXCEPT ![p] = main]
  /\ \E n \in 1..Len(entries) : expected' = [expected EXCEPT ![p] = n]
  /\ Goto(p, "migrate")
  /\ UNCHANGED <<entries, view, held, created, workspace, repo, world>>

\* already_recorded comes before the test of the head, so that the exact
\* command can be repeated; any other destination is refused.
RecordMigration(p) ==
  /\ pc[p] = "migrate" /\ Leave(p)
  /\ Write(p, /\ ~Latest.migrated
              /\ expected[p] = Len(entries)
              /\ CanMigrate(Latest, Cached(p)),
           MigratedTo(Latest, commit[p]))
  /\ UNCHANGED <<workspace, repo, world>>

-----------------------------------------------------------------------------
(* What the world does.                                                    *)

\* The process is stopped, and a later command or watcher takes its place.
Crash(p) ==
  /\ pc[p] # "idle" /\ troubles < MaxTroubles
  /\ troubles' = troubles + 1
  /\ Leave(p) /\ view' = [view EXCEPT ![p] = Len(entries)]
  /\ UNCHANGED <<entries, workspace, repo, provider, mirror>>

Remote == {"ensure", "create", "read", "mark", "scaffold"}

\* A request to the provider fails; one that creates the repository may have
\* been carried out when its answer is lost.
Fault(p) ==
  /\ pc[p] \in Remote /\ troubles < MaxTroubles
  /\ troubles' = troubles + 1 /\ Goto(p, "fail")
  /\ \/ UNCHANGED <<exists, ident>>
     \/ /\ provider = "github" /\ pc[p] = "create"
        /\ exists' = TRUE /\ ident' = GitHub
  /\ UNCHANGED <<entries, view, work, workspace, marker, main, scaffold,
                 provider, mirror>>

\* Someone pushes to main of the repository.
Push ==
  /\ scaffold /\ main < MaxPushes + 2
  /\ main' = main + 1
  /\ UNCHANGED <<entries, view, pc, work, workspace, exists, ident, marker,
                 scaffold, world>>

\* The operator of a LIVE case pushes every ref of its local repository to GitHub.
CopyToGitHub ==
  /\ provider = "local" /\ Latest.status = "LIVE" /\ mirror # main
  /\ mirror' = main
  /\ UNCHANGED <<entries, view, pc, work, workspace, repo, provider,
                 troubles>>

-----------------------------------------------------------------------------
\* The next step of a command that has begun.
Work(p) ==
  \/ CheckWorkspace(p) \/ MakeWorkspace(p) \/ WriteConfig(p) \/ WriteKey(p)
  \/ FindRepository(p) \/ CreateOnGitHub(p) \/ InitLocal(p) \/ NameLocal(p)
  \/ SignMarker(p) \/ ReadMarker(p) \/ WriteMarker(p) \/ WriteScaffold(p)
  \/ RecordRepository(p) \/ MarkProvisionFailed(p) \/ RecordMigration(p)

\* A provisioning that the watcher would start.
Provision(p) == StartProvisioning(p) \/ RetryProvisioning(p) \/ ResumeProvisioning(p)

Next ==
  \/ \E p \in Procs :
       \/ Refresh(p) \/ Propose(p) \/ Admit(p) \/ Activate(p) \/ Provision(p)
       \/ BeginMigration(p) \/ Work(p) \/ Crash(p) \/ Fault(p)
  \/ Push
  \/ CopyToGitHub

Spec == Init /\ [][Next]_vars

\* The watcher ticks for ever: it refreshes its copy, admits, provisions and
\* activates every case its tick lists, and a command that began goes on.
Watching(p) ==
  /\ WF_vars(Work(p))
  /\ WF_vars(Refresh(p))
  /\ WF_vars(Propose(p) \/ Admit(p) \/ Activate(p) \/ Provision(p))

FairSpec == Spec /\ \A p \in Procs : Watching(p)

-----------------------------------------------------------------------------
(* Properties.                                                             *)

Places == {"idle", "workspace", "mkdir", "config", "key", "ensure", "create",
           "name", "sign", "read", "mark", "scaffold", "record", "fail",
           "migrate"}

\* Type invariant: every variable stays in its type, and a process never holds
\* more entries than the file has.
TypeOK ==
  /\ entries \in Seq(CaseRecord) /\ Len(entries) > 0
  /\ view \in [Procs -> Nat]
  /\ \A p \in Procs : view[p] \in 1..Len(entries)
  /\ pc \in [Procs -> Places]
  /\ held \in [Procs -> Identity] /\ created \in [Procs -> BOOLEAN]
  /\ commit \in [Procs -> Nat] /\ expected \in [Procs -> Nat]
  /\ workspace \in {"none", "partial", "keyless", "ready"}
  /\ exists \in BOOLEAN /\ ident \in Identity /\ marker \in Identity
  /\ main \in Nat /\ scaffold \in BOOLEAN /\ mirror \in Nat
  /\ troubles \in Nat

\* A repository identity that the registry records is the one that the signed
\* marker in the repository names, and the key that signed it is on disk:
\* however many processes provisioned the case at once, and wherever each of
\* them stopped (provision, hub.py and provisioner.py).
RecordedHasMarker ==
  \A n \in 1..Len(entries) :
    Bound(entries[n]) => marker = entries[n].markerId /\ workspace = "ready"

\* What the registry records of a move to GitHub, the copy there has, and the
\* local repository still carries the marker the case was bound with
\* (migrate_repository, although it decides on a copy of the registry).
MigratedIsMirrored ==
  Latest.migrated => /\ Latest.commit <= mirror
                     /\ Latest.id = GitHub
                     /\ marker = Latest.markerId /\ marker \in Procs

\* Every identity that the registry records is backed by the repositories.
RecordsBacked == RecordedHasMarker /\ MigratedIsMirrored

\* The marker identity of a case never changes, and its repository only once,
\* from a local one to GitHub and when the case is LIVE: neither a process that
\* works from an old copy of the registry nor a repeated command rebinds it.
BindingKept ==
  [][Bound(Latest) =>
       /\ Latest'.markerId = Latest.markerId
       /\ \/ Latest'.id = Latest.id /\ Latest'.commit = Latest.commit
          \/ /\ Latest.status = "LIVE" /\ ~Latest.migrated
             /\ Latest.id = Latest.markerId /\ Latest'.id = GitHub]_vars

\* LIVE is final: a provisioning that was started from an older state of the
\* case, and fails or succeeds late, does not take a LIVE case back.
LiveIsFinal == [][Latest.status = "LIVE" => Latest'.status = "LIVE"]_vars

\* A marker is never replaced: of two processes that both think they created
\* the repository, the one that commits second is refused (write_files).
MarkerStays == [][marker # None => marker' = marker]_vars

\* While watchers go on, every case comes to rest: LIVE, or failed with no
\* retry left.  A directory or a repository left half made by a crash does not
\* keep the watcher provisioning for ever (retry_provisioning).
Settles ==
  <>[](\/ Latest.status = "LIVE"
       \/ Latest.status = "PROVISION_FAILED" /\ Latest.retries = MaxRetries)

\* The immutable identity of a bound local repository is the recorded one.  It
\* is not: two processes may both run git init, and the one that sets the
\* identity last may be the one whose marker was refused (ensure_repository).
RecordedIsRepository == Bound(Latest) => ident = Latest.markerId

=============================================================================
