# Boule in TLA+

Boule is a protocol for research cases on which several agents and people work:
a case has an append-only, signed event ledger kept by a clerk, participants
append to it from their own clones, and a registry (the hub) publishes which
cases exist.  This directory models the parts of `src/boule` that carry the
protocol's state, checks them with TLC on small instances and proves what
matters most with TLAPS.

Every definition is translated from the Python source; `PROJECT.json` maps each
one to its lines.  Names follow the source where TLA+ allows it.

## The system

| Component | Source | State it keeps | Operations | Model |
|---|---|---|---|---|
| Case ledger | `workspace.py` | event files; the case state is recomputed from them | participant events, maintainer events, resume advice | `CaseLedger`, `OfficialReview` |
| Maintainer tick | `workspace.py` | archived receipts, projection, current receipt | `maintainer_tick` | `MaintainerTick` |
| Remote append | `remote_client.py`, `remote_protocol.py`, `clerk_api.py` | outbox, completed records, cached high-water snapshot; the clerk's ledger | `append`, `recover`, `fetch_state`; append, state and receipt routes | `RemoteAppend`, `AppendOnce` |
| Run supervisor | `run_store.py`, `agent_runner.py` | run status, worker lease | reserve, launch, stop, reconcile, resume | `RunSupervisor` |
| Registry and hub | `registry.py`, `hub.py`, `provisioner.py`, `repository_migration.py`, `github_app.py` | hash-chained registry file, case workspaces, repository and its marker | propose, admit, provision, record repository, mark live, migrate, tick | `Registry` |
| Registry trust store | `trust_store.py`, `registry_client.py` | highest accepted count and head of a registry | fetch, prove, trust | `TrustStore` |
| Live projection, signed views | `registry_api.py`, `case_anchor_store.py` | durable anchor of each case, its copy in memory, fetch pool, cached projection | refresh, fetch, checkpoint; signed snapshots | `LiveProjector`, `SignedViews` |
| Community v0.2 | `community.py` | sessions, claims, work, frontier, results; ballots, allocation, legs | the entries that `CommunityState.apply` accepts | `CommunityResearch`, `CommunityCredit`, `Settlement` |
| Adjudication v0.1 | `protocol.py`, `model.py`, `moderation.py`, `ledger.py` | contributions, panel, commitments, reveals, decision | commit, reveal, close, decide | `Adjudication` |
| Artifact promotion | `artifact_promotion.py` | captured evidence of a run, branch, receipt | capture, preview, promote | `Promotion` |
| Session keys | `session_store.py`, `crypto.py` | controller key, session keys and profiles | start | `SessionKeys` |
| Routing and advice | `research_router.py`, `maintainer_advisor.py` | none | score, advise | not modelled |
| Provider runtime, problem import | `provider_runtime.py`, `problem_import.py` | none | parse output, fetch a page | not modelled |
| Encoding, keys, policy | `canonical.py`, `policy.py`, ... | none | digest, sign | not modelled: taken to be injective |
| User interfaces, demos | `cli.py`, `terminal_ui.py`, `web/`, `demo.py` | none of the protocol's | show | not modelled |

How they interact: participants reach the ledger of a case through
`RemoteClient` (their clone) and the clerk's HTTP routes, or directly through
`Workspace.append` on the clerk's own machine; both end in the same
`_authorize` and the same replay.  A session is started by `SessionStore`, which
writes its keys around the ledger event.  The maintainer's tick publishes what
the ledger says.  The hub owns the registry and one workspace per case; its API
serves both, the live projection compares what a case serves with its stored
anchor, and a client of the registry keeps an anchor of its own.  The run
supervisor drives a provider process in a clone and reads the case state to tell
whether the run did what the protocol asks for; what a completed run made is
promoted to a branch.  Community v0.2 and adjudication v0.1 are two protocols of
their own on ledgers of their own.

What is hard here: leases that run out between two events, so that the stored
state and the state at the present time differ; verdicts recorded by hand, in
any order; posts whose answers are lost, that are repeated, or that arrive after
their client gave up; several processes that decide on a copy of a file which
the others change; registries and clerks that are put back to an old copy while
clients are between two requests; crashes between two writes to files; checks
made before a write that other processes overtake; medians, rounding and
remainders.  The `hazards` of `PROJECT.json` name the lines.

What makes each part correct: for the ledger, one open claim per session,
leases within their bounds, evidence that leads back to a closed claim, one live
submission, a resolution that rests on a review; for the tick, receipts that are
backed; for remote append, one event per call and nothing lost; for the run
supervisor, one active run per workspace, terminal states that stay, stops that
are honoured, and no provider left running; for the registry, bindings backed by
the repository, LIVE for good, a case that comes to rest; for the anchors, one
history; for the signed views, the records of the head they name; for the two
protocols, exact leases, closed attribution, credit with evidence, exact
payment, a decision its panel supports; for promotion and keys, one branch of
the signed bytes and no ledger session without its key.

## How the modules are organised

Each component is a module with its variables, one action per operation or per
step between two of its writes, and its properties at the end.  Its constants
carry named assumptions.  An `MC` module instantiates one or several components
for TLC, and a module with a name in `Proofs` extends a component with its
theorems.  Where a run covers several components or several scenes, a variable
of the MC module (`scene`, `part`) is chosen once at the start and picks what may
step in this behaviour: the components of `MCStores` and `MCProtocols` share no
state in the code, so that nothing would be seen in their product that is not
seen in each of them.  A definition marked "Mutant" is not part of a model: it is
a plausible bug in the definition next to it, which the named property must
expose.

## `CaseLedger`, `OfficialReview` and `MaintainerTick`

The program stores only events.  The variables of `CaseLedger` are the state that
`Workspace._state_from` would recompute just after the last event (claims,
handoffs, candidates, the resolution, when each session ends); what it derives
from the current time is an operator with a time argument (`StatusAt`,
`UsableClaim`).  Each action is one event at one instant `now`: its guard is what
`_authorize` or `_authorize_maintainer` demands, its effect the branch of
`_state_from`.  A refused event changes nothing and is no step.  An exact local
retry of a recorded session, submission or feedback event is answered with the
recorded event, which is no step either.  Time is
the receipt time: `_append` refuses a clock behind the last event and
`append_envelope` clamps it, so receipt times never decrease (`ReceivedAt`).
Data left out: texts, URLs, digests and their form; the task identity bound to
each candidate; roles behind a key.  An artifact stands for a digest and the
reference under which evidence cites it.

| Run | Instance | Shows |
|---|---|---|
| `lease` | 2 sessions, 2 claims, instants 0..5, lease 2, absolute 4, 2 renewals | `ActiveClaimExact`, `LeaseBounded`, `ClaimEndIsFinal`.  Two renewals of two instants would reach 6, so the absolute deadline cuts the last one, and instants remain after it for late events. |
| `candidates` | 1 session, 2 claims, 2 handoffs, 2 artifacts, 2 candidates, 2 submissions | `HandoffGraph`, `SealedFromEvidence`, `OneLiveSubmission`, `ResolutionReviewed`, `ResumeDefined`, `SolvedCloses`, `ImplementsOfficialReview`.  Two candidates compete for submission; every verdict, reward and resolution can follow, in every order. |
| `reward` | 1 candidate | Violation of `RewardAfterReview`, see Findings |

`candidates` and `reward` keep the clock at 0 because time matters to leases
only, which `lease` covers; identifiers are interchangeable, so symmetry is
used.  Two handoffs give no long chain of dependencies: that no chain of any length
closes is proved.  No run here disables the deadlock check: a session can
always post a message.

`OfficialReview` says what the external evaluator may rely on: submissions reach
it one at a time and never twice, one that is turned down makes room for the
next, and one that is accepted stays.  The ledger keeps no such review: it
derives the status of the case from all candidates and their feedback each time.
`ImplementsOfficialReview` maps the submissions bound so far, the live one and the
derived status (`ReviewStage`) to it; rewards, sealing and all that
sessions do are stutters.

`MaintainerTick` is what `maintainer_tick` leaves on disk: a tick reads the ledger
under the workspace's lock, and writes the archived receipt, the projection and the
current receipt, in this order; it may be killed between any two.  A status is the
event count and the hour it was computed for, an hour being a stretch of time in
which the status stays the same.  The lock keeps the ledger still, but the instant
is the caller's: `cli.py` passes `--at` or reads the clock before the lock is taken
(`workspace.py:1305`), and only an instant before the last event is refused (1310).
So a tick may be of an earlier hour than the tick before it, and `BeginTick` draws any
hour from the last event's on.

What this costs the program: a tick of an earlier hour that is killed between its
projection (1364) and its receipt (1365) leaves an older projection beside a newer
receipt.  The next tick at the receipt's hour finds head and digest unchanged
(1351-1360) and returns without writing the projection, which stays behind until
the status changes.  The receipts, which are what is signed, are not affected.
Hence the properties: without any assumption on the instants, receipt and projection
are archived, the projection is of no earlier head (`ReceiptIsBacked`), and both
reach the ledger's head in the end; that both are of one hour in the end
(`TicksCatchUp`) and that the projection is never of an earlier hour than the receipt
(`ProjectionNotBehind`) is claimed only of ticks that come in order (`InOrder`), as
those of one watcher do by a clock that does not go back (`cli.py:912`).

## `RemoteAppend` and `AppendOnce`

`AppendOnce` says what a caller may rely on: the event of a call is ordered at
most once, a call is confirmed only when its event is in the log, and a call
that failed with nothing left in the outbox is never ordered later.

`RemoteAppend` is the code: calls of `RemoteClient.append` in one clone, helper
processes that run `boule remote recover`, the clerk, and what lies between.
`proc` holds the program counter and the memory of each process; `outbox`,
`completed` and `highWater` are the files of the clone; `log` is the clerk's
ledger.  A post has three ways to fail: it never arrives, it was handled and the
answer is lost, or it is still under way (`adrift`) and the clerk handles it at
any later time.  A call may crash between any two steps, and so may a helper.

- A head is modelled by the number of events up to it: an event's hash covers
  all before it and the log only grows.
- The clerk may order or reject any envelope on the current head; which ones it
  accepts is `CaseLedger`'s subject, and depends on the time, so that one
  envelope may be rejected first and accepted later.
- A helper takes over a record only when the call it belongs to has ended: the
  command needs the request id that the call prints, or that a crash left behind.
- Bounds: `MaxOther` events of other clones, `MaxAdrift` late posts per request,
  finitely many request ids: as many as the calls can use (`StaleRetries + 1` per
  call), drawn in one order because they are fresh UUIDs.

`ImplementsAppendOnce` is the refinement: the log is mapped to the calls its
events were signed for, and the outcome of a call is read off the clone's files
(`OutcomeOf`).

| Run | Instance | Shows |
|---|---|---|
| `append`, scene `calls` | 2 calls with a retry each, 1 helper, 1 foreign event, no late posts | `OneEventPerCall`, `NothingLost`, `ReceiptsExact`, `ImplementsAppendOnce`, `HighWaterAdvances`, `AppendEnds` |
| `append`, scene `recoveries` | 1 call with a retry, 2 helpers, 2 late posts per request, 2 foreign events | the same |
| `append_accused` | 2 calls | Violation of `AccusedOnlyOnRollback`, see Findings |

Two late posts and two foreign events are what it takes for a post to be
overtaken by its own repetition and for a retried envelope to become stale too.
Fairness: weak fairness of the steps of each call only, timeouts
included; `urllib` is called with a timeout (`RemoteClient._http`), and the local
lock is held for a file write only.  Nothing is assumed of the clerk.  The deadlock
check is off: when all calls have ended and the bounds are used up, the system
stops.

Not promised and not true: that the outbox is emptied.  `recover` run by hand on
an envelope that has become stale raises and keeps the record, so this record
can never be recovered or removed by the program (`ReadStale` of a helper).

## `RunSupervisor`

A run is a directory with a status file.  `RunStore.update` and
`RunStore.transition` hold a file lock while they read and rewrite it, so each is
one atomic step; everything between two of them can be overtaken.  The variables
are, per run, the status on file (`status`), the command that created the run and
launches its worker (`cli`), the worker with what it holds in memory (`worker`),
the provider's process group (`provider`), one stop and one reconciliation in
progress (`stopper`, `reconciler`, each with the part of the status it read), and
the resume commands between their check and their creation (`resumer`).  Each
process may die at any step; a worker that dies leaves its provider to the
parent-death signal of `_die_with_parent`.

- A recorded identity (pid, group, start time) matches no other process, so the
  status only says whether one is recorded.  An ended provider matches until its
  worker waited for it (`zombie`).
- SIGTERM ends a worker that has not installed its handler and is only noted
  afterwards; a provider may ignore it, SIGKILL it may not.
- The provider's output is reduced to whether a turn started, completed or
  failed; malformed output, exit codes and what the clerk shows of the handoff
  are free choices of `Decide`.
- `reconcile_run` leaves a starting run alone for ten seconds; as a worker may
  take any time to start, they may always have passed.
- `prepare_run` with an existing workspace does not look for active runs at all,
  so that `OneActiveRun` speaks of resumed runs.

| Run | Instance | Shows |
|---|---|---|
| `runs`, scene `commands` | 1 run, stopped and watched | `SettledIsDown`, `TerminalIsFinal`, `StopIsNotCompletion`, and the liveness properties `WatchedRunsEnd` and `ProvidersEnd`.  Runs share nothing but the check of a resume, so one run shows every interleaving of its processes. |
| `runs`, scene `resumes` | 3 runs, 1 resume command at a time | `OneActiveRun`: a run may be resumed twice, or its resumption be; and again the properties above. |
| `run_resumes` | 3 runs, 2 resume commands | Violation of `OneActiveRun`, see Findings |
| `run_stale` | 1 run, watched | Violation of `ReconcilesTheDead`, see Findings |

Fairness: a launcher and a worker that are not killed go on,
the time limit passes (`_run_worker_locked` polls at least every half
second), somebody keeps reconciling the watched runs (`run watch` does at
each interval, `run list` for all runs; not assumed in `resumes`, and
`WatchedRunsEnd` is not claimed there), and a provider asked to end does so
in the end.  The last one is an assumption about the provider; it is only needed
when its worker died, because a live worker kills it at the time limit, while a
reconciliation kills it only if it is recorded and the run still open.  The deadlock
check is off: settled runs stop.

## `Registry`

One case of the registry, from its proposal to LIVE and to GitHub.  A process is
one `boule registry ...` command or one watcher.  `entries[n]` is the case's record
after n entries of the file; each process decides from its own copy (`view`)
and appends under the file lock after rereading (`Write`), where the entry is
refused unless the whole chain still replays.  Between its appends a process
builds the workspace (directory, configuration, key) and the repository (create,
name, marker, scaffold) step by step, each a check and an act that another process
may overtake, and may crash anywhere or have a request to the provider fail, after
the provider carried it out or before.  A commit is the number of commits on
main.  Other cases of the file share only the chain and the lock; an entry of
theirs would leave the case's record as it was.

| Run | Instance | Shows |
|---|---|---|
| `registry` | 2 processes, local or GitHub hub, 1 retry, 1 crash or failure, 1 foreign push | `RecordsBacked`, `BindingKept`, `LiveIsFinal`, `Settles` |
| `registry_identity` | 2 processes, local hub, no trouble | Violation of `RecordedIsRepository`, see Findings |

Two processes are enough for each pair of steps to overtake each other; one
retry is the smallest limit that can be used up and refused.
Fairness: `Watching`: both processes go on with a command that began, refresh,
and start what `tick` lists; the loop of `cli.py` that runs the watcher does so at
each interval.  Neither a crash nor a migration is fair.  The deadlock check is
off: a settled case stops.

## `TrustStore`, `LiveProjector`, `SignedViews`, `Promotion`, `SessionKeys`

These components keep files or a cache beside a ledger.

- `TrustStore`: clients that share one store fetch a signed snapshot, read the
  anchor, fetch the chain proofs from the one to the other, each no longer than
  `ProofLimit`, and judge under the lock against the anchor stored by then, with
  one second attempt.  The registry grows, and is put back once to a copy with
  `ForkAt` entries and then grows differently, between any two steps.  A place of
  its history names the branch and the count; the branches share their first
  entries, as hashes do.
- `LiveProjector`: one case's clerk, the anchor recorded in the registry, stored
  on disk and held in memory, and the pool of fetches.  A refresh waits for one
  fetch up to its deadline; a fetch that is given up goes on and checkpoints what
  it verified, chunk by chunk, store before memory.  The clerk may be restored to
  an old copy and the server restarted.
- `SignedViews`: handler threads share one `Registry` object and one cached
  projection, and `_consistent_snapshot` signs only when the head after the
  answer is the one before it.  A set of records is named by the count of the
  entries it was computed from.
- `Promotion`: `boule run promote` commands of one run, without a common lock,
  while the owner edits the artifact: copy, digest check, rename, status, commit,
  `update-ref` with the null id, receipt.
- `SessionKeys`: `session start` commands of one controller: controller key,
  session key, profile, event, and the clean-up when the append fails, is refused
  or is interrupted.  With an external appender (a clerk) the files are kept.

| Part of `stores` | Instance | Shows |
|---|---|---|
| `trust` | 2 clients, fork after 1 of 3 entries, proofs of 1 entry | `AcceptedIsOneHistory` |
| `live` | 2 slots, up to 4 events, chunks of 1, fork at 0 or 2 (before and after the recorded position 1), 2 mishaps | `AnchorsAgree`, `LiveCatchesUp` |
| `views` | 2 threads, 3 entries, 2 attempts | `SignedIsOfItsHead` |
| `promotion` | 2 commands, 1 kill, 2 commits | `PromotedOnce` |
| `keys` | 2 starts, one local and one through a clerk, 1 interruption | `StartedHasKeys` |
| `ticks` | 2 events, 3 hours, in any order, 2 killed ticks | `ReceiptIsBacked`, `TicksAreMadeGood` |

Chunks and proofs of one entry make every proof of two entries a sequence of
requests between which everything may move.  Fairness: the server refreshes
again and again and its fetches go on (`FetchTimesOut`, restarts and give-ups are
not fair and the latter two bounded), the maintainer ticks again and again and a
tick goes on.  Two kills and three hours are enough for a tick out of order that leaves
its projection behind, and for another one killed on top of it; `TicksAreMadeGood`
claims one hour of both files only if the ticks come in order.  `CatchesUp` is claimed of a clerk that is not restored for ever
to another branch.  The deadlock check is off: within the bounds each part can
come to rest.

## `CommunityResearch`, `CommunityCredit`, `Settlement`, `Adjudication`

The two protocols keep a ledger of entries each, applied one by one with a
receipt time that never decreases; each action is one entry that `apply`
accepts.

- `CommunityResearch`: sessions with scopes and an end, exclusive and parallel
  route leases, work that is committed and then published, the frontier,
  knowledge accesses, results with the closure of what they rest on, the
  technical receipt and the seal.  The closure (`_dependency_closure`) is stated
  as the least closed set with the roots.  An entry that names another frontier
  than the current one is refused, so that a frontier is known by what is
  accepted on it.
- `CommunityCredit`: from the seal on: ballots over the participants, committed
  and revealed, medians, their normalization and its remainder, the payout legs,
  their submission and confirmation.
- `Settlement` is the abstract specification of the credit: a pot is divided once,
  among those entitled, and paid out party by party, whole, and a
  case is settled exactly when nothing is due.  `ImplementsSettlement` maps the
  planned legs that are not confirmed to what is due, and the bounty less the
  confirmed legs to the pot; ballots, medians and the submission of a leg are
  stutters.  That the pot is empty when the last party is paid, and not before, is
  the correctness of the rounding.
- The sort of the participants by remainder and destination
  (`community.py:500-507`) needs destinations that differ, which the manifest
  demands (`community.py:327`) and `CreditAssumption` states.
- `Adjudication`: contributions, the verifier's receipt, the draw of a panel
  (any order of the roster, as the score is a digest), commit, reveal, and the
  decision, each with its deadline.

| Part of `protocols` | Instance | Shows |
|---|---|---|
| `research` | 2 sessions of 2 participants, 1 route, 2 claims, 2 works, 1 result, instants 0..1, lease 1 | `RouteLeasesExact`, `AttributedIsClosed` |
| `credit` | 3 participants, 4 reviewers, quorum 3, shares in halves, a spread of one half allowed, bounty 3 | `CreditNeedsEvidence`, `PaidExactly`, `CreditSettles` |
| `adjudication` | 6 reviewers of 5 controllers (one an agent's), panel 4, quorum 3, 4 deadlines | `DecisionSound` |

Shares in halves among three participants give medians that sum to less than,
exactly and more than the whole, and to zero; a bounty of 3 cannot be halved.
With quorum 3 of 4 reviewers both parities of the median occur, ballots are too few or
spread too far, and a decision is taken at the reveal deadline with a ballot
missing.  There are exactly as many independent controllers as the panel needs.  Claims and works
have fresh names and are drawn in one order.
Fairness: `CreditSettles` assumes that the clerk goes on once the reviewers
have revealed (`ClerkSettles`), and nothing of the reviewers: one who committed and
never reveals blocks the allocation (`community.py:1273`); medians that are all
zero are named in it, as no rule excludes them and they leave the case under
review.  The deadlock check is off: a paid or decided case stops.

## Findings

- `reward`: `workspace.py` records a reward for a candidate whose status is
  `REJECTED`, which a verifier rejection also gives, although its error message
  says that a reward requires a completed human review.
- `append_accused`: two processes of one clone that fetch the state concurrently
  can make the slower one report "remote clerk attempted to roll back event
  count" about an honest clerk: the snapshot is compared with the cache at the
  time it is stored, not at the time it was served.  Nothing is lost by it; the
  call ends and can be repeated.
- `run_resumes`: `prepare_resume` looks for an active run of the workspace and
  then creates its own, with no lock over both; two commands at once make two
  active runs on one workspace and provider thread.
- `run_stale`: `reconcile_run` writes `failed` on a status it read earlier.  A
  starting run without a recorded worker is taken for one whose supervisor is
  gone; when its worker begins and is recorded before the write, the run is
  `failed` while worker and provider go on until the time limit.  A stop
  returns at once for such a run, and a resume may start beside it.
- `registry_identity`: `ensure_repository` of the local provider looks, runs
  `git init` and sets the identity, under a lock of its own process only.  Two
  processes may both find nothing; the one that sets the identity last may be the
  one whose marker is refused, so that the repository has another identity than
  the one its marker and the registry name, and a later verification fails
  (`docs/hub-protocol-v0.6.md:62-65` binds the case to that identity).

## Proofs

The theorems hold for all values of the constants that the named assumptions of
their modules admit.  None needs fairness, a bound or symmetry.

**`CaseLedgerProofs`.**

- `TypeCorrect`: the type invariant, one step per event.
- `SessionClaimsExact` (`ActiveClaimExact`).  It is not inductive: it
  needs to know which claims are stored as active.  The strengthening
  (`OccupancyInv`) says that an active claim which is not the one stored for its
  session has passed its deadline, and that the claim stored for a session is an
  active claim of its own.
- `LeasesBounded` (`LeaseBounded`), inductive together with the types;
  `EndedClaimsStayEnded` (`ClaimEndIsFinal`), from the types and from the fact
  that receipt times do not decrease.
- `AtMostOneLive`, `VerdictsSupported`, `SubmissionsInjective`,
  `ResolutionsReviewed`, each from the verdict order of every single candidate
  (`VerdictInOrder`, in `SubmissionInv`) and the guards that look at all
  candidates.
- `HandoffsFormGraph` and `SealsHaveEvidence` from `EvidenceInv`: a completed
  claim and its handoff are recorded in one event, and the newest handoff of a
  set is the one that nothing in it depends on, so that following dependencies
  ends.  `ResolvedCloses` (`SolvedCloses`) is an action property.
- `ResumesDefined` (`ResumeDefined`): every status that the candidates give the
  case has a candidate of that status to advise on.
- `OfficialReviewImplemented` (`ImplementsOfficialReview`), the refinement.  The
  problem status is a priority over all candidates; `ReviewRead` reads the stage
  off the one live candidate, so that an event about another candidate cannot hide
  it (`ReviewStutters`), and an event about that candidate makes one step
  of the review (`ReviewStep`).  `AcceptancesStay` (`AcceptanceIsFinal`) follows
  the same way.

**`RunSupervisorProofs`**: `TypesHold`, `TerminalStaysFinal`, `SettledRunsAreDown`,
`StopsAreNotCompletions`, `OneRunIsActive`.  The inductive invariant (`IndInv`) says of each run where
a provider that nobody asked to end can be (its worker has spawned it and is in
its loop), that a worker at work is recorded in an open run and the run is not
closed but by a failure, and what a stop in progress knows: the run cannot begin
any more, and a worker the stop has not read does not exist.  Without the last
part a stop could settle a run just before its worker starts the provider.  For a
stop, `NotCompleting` carries on what holds when it is on file while the
provider runs: the flag stays, and the outcome decided is not a completion.

`OneRunIsActive` has a hypothesis, `[]ResumesApart`: no two resume commands of one
workspace are between their check and their creation at once.  Without it
`OneActiveRun` is false of this code (`run_resumes`), so the theorem says that
this is the only way: whatever is stopped, reconciled or dies, and however
many runs were resumed before, nothing else makes two active runs.
`WorkspaceInv` adds that a resumed workspace was made by a prepared run, and that
while a command is past its check no run there becomes active.

**`RemoteAppendProofs`**: `AppendedOnce`, `NothingIsLost`, `ReceiptsAreExact`,
`MarkNeverGoesBack`, `TypesKept`, `AttemptsRunOut`, and the refinement
`AppendsOnceRefined`.

- None but the types is inductive.  The invariant (`Inv`) says of each request
  id: before it is signed nobody has a trace of it; once the clone has neither its
  outbox record nor its receipt, it is not in the log and no late post of it can be
  ordered, as none exists or its head has passed (`RequestOK`).  It says of each
  process that what it holds is on disk, a call's own envelope or, for a helper,
  one whose call is over (`HoldOK`), and what it knows from the answer it read,
  above all that until the first post is given up no other post of the envelope
  exists (`AnswerOK`): this is why the rejection of a first post may clear the
  outbox and that of a repeated one may not.  A call has at most one envelope on
  disk (`KeptOnce`, `CallOK`), and every ordered envelope is on disk, so that one
  event per call follows.
- `AttemptsRunOut` is what `AppendEnds` rests on: with the path of an attempt laid
  out (`Path`; a first post that is given up is looked up and repeated once), each
  step of a call, crashes and the clerk's answers included, lowers a
  measure (`StepsLeft`), and a stale answer uses up a retry.  So a call can only
  fail to end by standing still, which `FairSpec` excludes.
- The refinement maps the initial state to the initial state and every step to
  one of `AppendOnce` or to a stutter.  Four lemmas carry it: a step that leaves
  the log alone and lets one call know more settles that call as the log has it
  (`MapLearns`), the move of a process that has more to do, which may take a call's
  own record off the outbox, settles that call or nothing (`MapMoves`), an event that no call learns of yet grows the log
  (`MapGrows`), and an envelope that is new to the clerk and still on disk is the
  only one of its call, which is not settled (`MapOrders`).

**`RegistryProofs`**: `TypesKept`, `LiveStays` (`LiveIsFinal`), `RecordsAreBacked`
(`RecordsBacked`), `MarkersStay`, `BindingStays` (`BindingKept`).  Every step adds at
most one entry and one that its state allows (`NextRegisters`, `Advances`,
`Binds`, `MovesCase`), from which the action properties follow.  For the backing,
`RegistryInv` says what a process knows by where it is (`Knows`: from the read of
the marker on the key is on disk, and at the record the marker is the one it
holds), that one process builds the workspace (`BuildInv`), and that every
entry is backed (`RecordBacked`).

**`LiveProjectorProofs`**: `TheAnchorsAgree` (`AnchorsAgree`), `AnchorNeverGoesBack`,
`SlotsAreKept`.  What a fetch holds follows the registry's record, and what it is
about to remember is durable: stored, or something newer is (`AnchorInv`); a
chunk that any clerk proves from such a position leads to another one
(`ProvedFollows`).

**`StoreProofs`**: one inductive invariant per component.

- `AcceptedAreOneHistory` (`TrustInv`): the anchor extends all that was accepted,
  and the proofs a client holds are links of the registry's own history, so that
  those that follow one another lead from the first place to the last
  (`ChainGrows`).  That prefixes of one place are prefixes of each other
  (`PrefixesAgree`) does the rest.
- `SignedAreOfTheirHead` (`ViewsInv`): the records a thread holds lie between the
  head it began with and the head the shared registry has by now; when the two
  are the same at the signature, so are the records.
- `PromotedAtMostOnce` (`PromotionInv`), `StartedKeepKeys` (`KeysInv`: what a start
  needs by where it is is on disk, and the pinned key is the one on disk),
  `ReceiptsAreBacked` (`TicksInv`: the heads of current, projection and ledger are
  in this order, and a tick under way is of the ledger's head), and, on the
  assumption `[]InOrder`, `ProjectionLeads` (`HoursInv`: so are the hours of current
  and projection).

**`ProtocolProofs`**: `RouteLeasesAreExact` (`LeaseInv`); `AttributionIsClosed`
(`WorkInv`): a closure exists and is unique, as the intersection of closed sets is
closed, and stays one while other work is published (`ClosureKept`);
`DecisionsAreSound` (`PanelInv`): the k-th smallest share is one that a reviewer
gave (`KthIsGiven`, from the least element of a set of naturals), the median lies
between two of them, and rounding is monotone and leaves both floors
(`PartMonotone`, `PartInBand`).

**`CreditProofs`**: `CreditTyped`, `CreditRestsOnEvidence` (`CreditNeedsEvidence`),
`PlansBalance`, `BountyPaid` (`PaidExactly`), and the refinement
`SettlementImplemented` (`ImplementsSettlement`).

- The properties speak of sums over a set of any size.  Induction is not available
  as a theorem with a predicate for its parameter; it is replaced by
  `SmallestViolation`: of the finite sets of a collection there is one of which
  no smaller one is in it, so that a claim that fails for some set fails for a set
  of which it holds with one element less.  What a sum is
  (`SumIs`, `SumUnfolds`), that it splits, is linear and monotone
  (`SumSplits`, `SumLinear`, `SumMonotone`) are proved from it once.
- Both divisions of the code, of the whole by medians and of the bounty by parts,
  give everyone the rounded-down quotient and one unit more to the first of an
  order, as many as the sum lacks.  `Apportioned` shows for any
  strict order of ranks that the result is the whole: the lacking units are fewer
  than the parties with a remainder (`Quotients`), and the order by
  remainder ranks those with one first (`ResiduesOrder`), so that nobody without a
  remainder, hence nobody whose share is zero, is given a unit.
- `CreditInv` carries the chain from seal to payment: a part needs a median that is
  not zero, a median lies between shares somebody gave (`MedianGiven`), a ballot
  with a share needs evidence (`AgreedIsSound`), and the legs sum to the bounty
  (`LegsSum`).
- In the refinement a leg of nothing is not payable, so that the last confirmation
  is the last payment due.
- `PayoutGoesOn` and `PayoutRunsOut` are what `CreditSettles` rests on from the
  allocation on: in every stage the guard of some entry of the clerk holds (by
  `LegsSum` the plan is never refused for its sum), and every entry leaves one less.

Only model-checked: `AppendEnds`, `WatchedRunsEnd`, `ProvidersEnd`, `Settles`,
`LiveCatchesUp`, `TicksAreMadeGood`, `CreditSettles`, as liveness under fairness
is out of the prover's reach; of `AppendEnds` and of the payout in `CreditSettles`
the measures are proved.  `OneActiveRun` without `ResumesApart` is refuted
by `run_resumes`.  Every other property of a passing run is stated by a theorem.
`ProjectionLeads`, `ImplementsSettlement`, `SubmissionInjective` and `AcceptanceIsFinal` are proved and not part
of a run's list.

## Not modelled

- Research routing and advice, provider runtime, problem import: functions of
  their input (one snapshot, the lines of an output, a web page) with no state.
- Canonical encoding, signatures, digests and text rules: taken to be injective
  and unforgeable; the modules compare what was signed, never its bytes.
- Command line, terminal, web and the demonstrations: presentation and scripts;
  the loops of `cli.py` that drive runs and the watcher are the fairness of
  `RunSupervisor` and `Registry`.
- Of modelled components: the proof of the chain in `fetch_state` and strict JSON
  (remote append); the events file, the protocol projection, the expiry of the
  session a resume needs and what `prepare_run` fetches (run supervisor); the HTTP
  of the GitHub App and the other cases of the file (registry); the content of
  the live projection, routing and rate limits; the form of manifests and
  envelopes (community); texts (adjudication).

## What could come next

1. The events file and the protocol projection of a run, with the hazard at
   `agent_runner.py:661`.
2. Two cases in one registry, for `tick` and its order of work.
3. The composition of `SessionKeys` with `RemoteAppend`: a start whose event is
   ordered after the command gave it up.
4. A measure for the registry's `Settles`: crashes and retries that are used up,
   as in `AttemptsRunOut`.
