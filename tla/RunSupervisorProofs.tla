------------------------- MODULE RunSupervisorProofs -------------------------
(***************************************************************************)
(* Proofs about RunSupervisor, for any runs, resumers and bounds.          *)
(***************************************************************************)
EXTENDS RunSupervisor, TLAPS

----------------------------------------------------------------------------
(* Types *)

\* A worker that is about to write the outcome has one.
Verdicts ==
  \A r \in Run:
    /\ worker[r].at = "closing" => worker[r].verdict \in Terminal
    /\ worker[r].at = "failing" => worker[r].verdict \in {"failed", "interrupted"}

LEMMA InitTypes == Init => TypeOK
BY NamesAssumption DEF Init, TypeOK, Status, NoStatus, States, Terminal, Incomplete, Worker,
   NoWorker, Unarmed, Armed, Stopper, NoStopper, Reconciler, NoReconciler, Launching

\* The updates of a status record keep its type.
LEMMA StatusUpdates ==
  ASSUME NEW s \in Status, NEW st \in States, NEW b \in BOOLEAN
  PROVE  /\ [s EXCEPT !.state = st] \in Status
         /\ [s EXCEPT !.state = st, !.worker = b] \in Status
         /\ [s EXCEPT !.state = st, !.provider = b] \in Status
         /\ [s EXCEPT !.state = st, !.stop = b] \in Status
         /\ [s EXCEPT !.state = st, !.worker = b, !.provider = b] \in Status
         /\ [s EXCEPT !.worker = b] \in Status
         /\ [s EXCEPT !.handle = b] \in Status
BY DEF Status

\* A new record is one.
LEMMA NewStatus ==
  ASSUME NEW st \in States, NEW w \in Run \cup {None}
  PROVE  [NoStatus EXCEPT !.state = st, !.workspace = w] \in Status
BY DEF Status, NoStatus

\* The updates of what a worker holds keep its type.
LEMMA WorkerUpdates ==
  ASSUME NEW w \in Worker,
         NEW at \in {"none"} \cup Unarmed \cup Armed \cup {"done", "dead"},
         NEW verdict \in Terminal,
         NEW turn \in {"none", "started", "completed", "failed"}
  PROVE  /\ [w EXCEPT !.at = at] \in Worker
         /\ [w EXCEPT !.at = at, !.verdict = verdict] \in Worker
         /\ [w EXCEPT !.at = at, !.timedOut = TRUE] \in Worker
         /\ [w EXCEPT !.heard = TRUE, !.termSent = TRUE] \in Worker
         /\ [w EXCEPT !.heard = TRUE] \in Worker
         /\ [w EXCEPT !.turn = turn] \in Worker
         /\ [NoWorker EXCEPT !.at = at] \in Worker
BY DEF Worker, NoWorker

\* What SIGTERM, SIGKILL, a wait and the death of the worker make of a provider.
LEMMA ProviderTypes ==
  ASSUME TypeOK, NEW r \in Run
  PROVE  {AskedToEnd(r), Killed(r), Reaped(r), Orphaned(r)}
           \subseteq {"none", "alive", "asked", "zombie", "gone"}
BY DEF TypeOK, AskedToEnd, Killed, Reaped, Orphaned, ProviderMatches

\* Setting the state, or closing the run, keeps the type of the status files.
LEMMA StateTypes ==
  ASSUME TypeOK, NEW r \in Run, NEW st \in States, SetState(r, st) \/ Close(r, st)
  PROVE  status' \in [Run -> Status]
<1>1. status[r] \in Status
  BY DEF TypeOK
<1>2. CASE SetState(r, st)
  <2>1. [status[r] EXCEPT !.state = st] \in Status
    BY <1>1, StatusUpdates
  <2>2. status' = [status EXCEPT ![r] = [status[r] EXCEPT !.state = st]]
    BY <1>2 DEF SetState
  <2> QED
    BY <2>1, <2>2 DEF TypeOK
<1>3. CASE Close(r, st)
  <2>1. [status[r] EXCEPT !.state = st, !.worker = FALSE, !.provider = FALSE] \in Status
    BY <1>1, StatusUpdates
  <2>2. status' = [status EXCEPT ![r] =
          [status[r] EXCEPT !.state = st, !.worker = FALSE, !.provider = FALSE]]
    BY <1>3 DEF Close
  <2> QED
    BY <2>1, <2>2 DEF TypeOK
<1> QED
  BY <1>2, <1>3

\* A worker that moves or ends keeps the type of the workers.
LEMMA WorkerMoveTypes ==
  ASSUME TypeOK, NEW r \in Run, NEW at \in Unarmed \cup Armed \cup {"done", "dead"},
         WorkerGoes(r, at) \/ WorkerEnds(r, at)
  PROVE  worker' \in [Run -> Worker]
<1>1. worker[r] \in Worker
  BY DEF TypeOK
<1>2. [worker[r] EXCEPT !.at = at] \in Worker /\ [NoWorker EXCEPT !.at = at] \in Worker
  BY <1>1, WorkerUpdates DEF Terminal
<1>3. \/ worker' = [worker EXCEPT ![r] = [worker[r] EXCEPT !.at = at]]
      \/ worker' = [worker EXCEPT ![r] = [NoWorker EXCEPT !.at = at]]
  BY DEF WorkerGoes, WorkerEnds
<1> QED
  BY <1>2, <1>3 DEF TypeOK

\* Every step of a command that makes a run keeps the types.
LEMMA CommandTypes ==
  ASSUME TypeOK, NEW r \in Run, CommandStep(r)
  PROVE  TypeOK'
<1>a. {"preparing", "ready", "starting", "failed"} \subseteq States
  BY DEF States, Terminal, Incomplete
<1>b. {"gated", "up"} \subseteq Unarmed
  BY DEF Unarmed
<1>c. {"spawning", "spawned", "recorded", "polling", "checking"} = Launching
  BY DEF Launching
<1>1. CASE Reserve(r)
  <2>1. [NoStatus EXCEPT !.state = "preparing", !.workspace = r] \in Status
    BY <1>a, NewStatus
  <2> QED
    BY <1>1, <2>1 DEF Reserve, TypeOK
<1>2. CASE PreparationEnds(r)
  BY <1>a, <1>c, <1>2, StateTypes DEF PreparationEnds, TypeOK
<1>3. CASE PreparationFails(r)
  BY <1>a, <1>c, <1>3, StateTypes DEF PreparationFails, TypeOK
<1>4. CASE RunForeground(r)
  BY <1>b, <1>4, WorkerMoveTypes DEF RunForeground, TypeOK
<1>5. CASE LaunchBackground(r)
  BY <1>a, <1>c, <1>5, StateTypes DEF LaunchBackground, TypeOK
<1>6. CASE SpawnWorker(r)
  BY <1>b, <1>c, <1>6, WorkerMoveTypes DEF SpawnWorker, TypeOK
<1>7. CASE RecordWorker(r)
  <2>1. [status[r] EXCEPT !.worker = TRUE] \in Status
    BY <1>a, StatusUpdates DEF TypeOK
  <2>2. status' = [status EXCEPT ![r] = [status[r] EXCEPT !.worker = TRUE]]
    BY <1>7 DEF RecordWorker
  <2> QED
    BY <1>7, <1>c, <2>1, <2>2 DEF RecordWorker, TypeOK
<1>8. CASE OpenGate(r)
  BY <1>b, <1>c, <1>8, WorkerMoveTypes DEF OpenGate, TypeOK
<1>9. CASE LaunchFails(r)
  BY <1>a, <1>c, <1>9, StateTypes DEF LaunchFails, TypeOK
<1>10. CASE Poll(r)
  BY <1>c, <1>10 DEF Poll, TypeOK
<1>11. CASE PollWorker(r)
  BY <1>a, <1>c, <1>11, StateTypes DEF PollWorker, TypeOK
<1>12. CASE CommandDies(r)
  BY <1>12 DEF CommandDies, TypeOK
<1> QED
  BY <1>1, <1>2, <1>3, <1>4, <1>5, <1>6, <1>7, <1>8, <1>9, <1>10, <1>11, <1>12
  DEF CommandStep, LaunchStep

\* Every step of a worker, or of its end, keeps the types.
LEMMA WorkerTypes ==
  ASSUME TypeOK, Verdicts, NEW r \in Run,
         WorkerStep(r) \/ Consume(r) \/ Abort(r) \/ WorkerDies(r) \/ ProviderExits(r)
  PROVE  TypeOK'
<1>a. {"starting", "running", "failed"} \subseteq States /\ Terminal \subseteq States
  BY DEF States, Terminal, Incomplete
<1>b. Armed \subseteq Unarmed \cup Armed
  OBVIOUS
<1>c. {"failed", "interrupted"} \subseteq Terminal
  BY DEF Terminal, Incomplete
<1>d. /\ {"begun"} \subseteq Unarmed
      /\ Armed = {"armed", "spawned", "running", "ended", "closing", "failing"}
  BY DEF Unarmed, Armed
<1>e. worker[r] \in Worker /\ status[r] \in Status
  BY DEF TypeOK
<1>f. worker[r].verdict \in Terminal \cup {"none"}
  BY <1>e DEF Worker
<1>1. CASE GateCloses(r)
  BY <1>d, <1>1, WorkerMoveTypes DEF GateCloses, TypeOK
<1>2. CASE Begin(r)
  <2>1. Begun(r) \in Status
    BY <1>a, <1>e, StatusUpdates DEF Begun
  <2> QED
    BY <1>d, <1>2, <2>1, WorkerMoveTypes DEF Begin, TypeOK
<1>3. CASE Arm(r)
  BY <1>d, <1>3, WorkerMoveTypes DEF Arm, TypeOK
<1>4. CASE StartProvider(r)
  BY <1>d, <1>4, WorkerMoveTypes DEF StartProvider, TypeOK
<1>5. CASE RecordProvider(r)
  <2>1. [status[r] EXCEPT !.state = "running", !.provider = TRUE] \in Status
    BY <1>a, <1>e, StatusUpdates
  <2> QED
    BY <1>d, <1>5, <2>1, WorkerMoveTypes DEF RecordProvider, TypeOK
<1>6. CASE NoticeStop(r)
  <2>1. [worker[r] EXCEPT !.heard = TRUE, !.termSent = TRUE] \in Worker
    BY <1>c, <1>d, <1>e, WorkerUpdates
  <2> QED
    BY <1>6, <2>1, ProviderTypes DEF NoticeStop, TypeOK
<1>7. CASE Expire(r)
  <2>1. [worker[r] EXCEPT !.at = "ended", !.timedOut = TRUE] \in Worker
    BY <1>c, <1>d, <1>e, WorkerUpdates
  <2> QED
    BY <1>7, <2>1, ProviderTypes DEF Expire, TypeOK
<1>8. CASE ProviderPolled(r)
  BY <1>d, <1>8, WorkerMoveTypes DEF ProviderPolled, TypeOK
<1>9. CASE Decide(r)
  <2>1. PICK verdict \in Terminal:
          worker' = [worker EXCEPT ![r] = [worker[r] EXCEPT !.at = "closing", !.verdict = verdict]]
    BY <1>9 DEF Decide
  <2>2. [worker[r] EXCEPT !.at = "closing", !.verdict = verdict] \in Worker
    BY <1>d, <1>e, WorkerUpdates
  <2> QED
    BY <1>9, <2>1, <2>2 DEF Decide, TypeOK
<1>10. CASE Finish(r)
  <2>1. worker[r].verdict \in Terminal
    BY <1>10 DEF Finish, Verdicts
  <2> QED
    BY <1>a, <1>d, <1>10, <2>1, StateTypes, WorkerMoveTypes DEF Finish, TypeOK
<1>11. CASE Abort(r)
  <2>1. PICK verdict \in {"failed", "interrupted"}:
          worker' = [worker EXCEPT ![r] = [worker[r] EXCEPT !.at = "failing", !.verdict = verdict]]
    BY <1>11 DEF Abort
  <2>2. [worker[r] EXCEPT !.at = "failing", !.verdict = verdict] \in Worker
    BY <1>c, <1>d, <1>e, WorkerUpdates
  <2> QED
    BY <1>11, <2>1, <2>2, ProviderTypes DEF Abort, TypeOK
<1>12. CASE AbortRecorded(r)
  BY <1>a, <1>c, <1>d, <1>12, StateTypes, WorkerMoveTypes DEF AbortRecorded, Verdicts, TypeOK
<1>13. CASE Consume(r)
  <2>1. PICK turn \in {"started", "completed", "failed"}:
          worker' = [worker EXCEPT ![r] = [worker[r] EXCEPT !.turn = turn]]
    BY <1>13 DEF Consume
  <2>2. [worker[r] EXCEPT !.turn = turn] \in Worker
    BY <1>c, <1>d, <1>e, WorkerUpdates
  <2>3. status' = [status EXCEPT ![r] = [status[r] EXCEPT !.handle = TRUE]]
    BY <1>13 DEF Consume
  <2>4. [status[r] EXCEPT !.handle = TRUE] \in Status
    BY <1>a, <1>e, StatusUpdates
  <2> QED
    BY <1>13, <2>1, <2>2, <2>3, <2>4 DEF Consume, TypeOK
<1>14. CASE WorkerDies(r)
  BY <1>d, <1>14, WorkerMoveTypes, ProviderTypes DEF WorkerDies, TypeOK
<1>15. CASE ProviderExits(r)
  BY <1>15 DEF ProviderExits, TypeOK
<1> QED
  BY <1>1, <1>2, <1>3, <1>4, <1>5, <1>6, <1>7, <1>8, <1>9, <1>10, <1>11, <1>12, <1>13, <1>14, <1>15
  DEF WorkerStep, Refused

\* Every step of a stop, a reconciliation or a resume keeps the types.
LEMMA StopTypes ==
  ASSUME TypeOK, NEW r \in Run, StopStep(r)
  PROVE  TypeOK'
<1>a. /\ {"stop_requested", "stopped"} \subseteq States
      /\ "dead" \in Unarmed \cup Armed \cup {"done", "dead"}
  BY DEF States, Terminal, Incomplete
<1>b. worker[r] \in Worker /\ status[r] \in Status /\ stopper[r] \in Stopper
  BY DEF TypeOK
<1>c. NoStopper \in Stopper
  BY DEF NoStopper, Stopper
<1>d. \A place \in {"kill_provider", "kill_worker", "settle"}:
        StopperGoes(r, place) => stopper' \in [Run -> Stopper]
  BY DEF StopperGoes, Stopper, TypeOK
<1>e. StopReturns(r) => stopper' \in [Run -> Stopper]
  BY <1>c DEF StopReturns, TypeOK
<1>1. CASE RequestStop(r)
  <2>1. [status[r] EXCEPT !.state = "stop_requested", !.stop = TRUE] \in Status
    BY <1>a, <1>b, StatusUpdates
  <2>2. PICK force \in BOOLEAN:
          stopper' = [stopper EXCEPT ![r] = [at |-> "signal", provider |-> status[r].provider,
                                             worker |-> status[r].worker, force |-> force]]
    BY <1>1 DEF RequestStop
  <2>3. status[r].provider \in BOOLEAN /\ status[r].worker \in BOOLEAN
    BY <1>b DEF Status
  <2>4. [at |-> "signal", provider |-> status[r].provider,
         worker |-> status[r].worker, force |-> force] \in Stopper
    BY <2>3 DEF Stopper
  <2> QED
    BY <1>1, <2>1, <2>2, <2>4 DEF RequestStop, TypeOK
<1>2. CASE StopProvider(r)
  BY <1>2, <1>d, <1>e, ProviderTypes DEF StopProvider, AfterSignal, TypeOK
<1>3. CASE StopWorker(r)
  <2>1. /\ [worker[r] EXCEPT !.heard = TRUE] \in Worker
        /\ [NoWorker EXCEPT !.at = "dead"] \in Worker
    BY <1>b, WorkerUpdates DEF Terminal
  <2> QED
    BY <1>3, <1>d, <1>e, <2>1 DEF StopWorker, AfterSignal, TypeOK
<1>4. CASE NothingToStop(r)
  BY <1>4, <1>d DEF NothingToStop, TypeOK
<1>5. CASE ForceStop(r)
  BY <1>5, <1>a, <1>e, ProviderTypes, WorkerMoveTypes DEF ForceStop, TypeOK
<1>6. CASE SettleStop(r)
  BY <1>6, <1>a, <1>e, StateTypes DEF SettleStop, TypeOK
<1>7. CASE StopperDies(r)
  BY <1>7, <1>e DEF StopperDies, TypeOK
<1> QED
  BY <1>1, <1>2, <1>3, <1>4, <1>5, <1>6, <1>7 DEF StopStep

LEMMA ReconcileTypes ==
  ASSUME TypeOK, NEW r \in Run, ReconcileStep(r)
  PROVE  TypeOK'
<1>a. "failed" \in States /\ NoReconciler \in Reconciler
  BY DEF States, Terminal, Incomplete, NoReconciler, Reconciler
<1>b. ReconcileReturns(r) => reconciler' \in [Run -> Reconciler]
  BY <1>a DEF ReconcileReturns, TypeOK
<1>c. \A place \in {"kill", "fail"}: [reconciler[r] EXCEPT !.at = place] \in Reconciler
  BY DEF Reconciler, TypeOK
<1>1. CASE ReadStatus(r)
  <2>1. status[r].provider \in BOOLEAN /\ status[r].worker \in BOOLEAN
    BY DEF Status, TypeOK
  <2>2. [at |-> "check", provider |-> status[r].provider,
         worker |-> status[r].worker] \in Reconciler
    BY <2>1 DEF Reconciler
  <2> QED
    BY <1>1, <2>2 DEF ReadStatus, TypeOK
<1>2. CASE CheckWorker(r)
  BY <1>2, <1>b, <1>c DEF CheckWorker, TypeOK
<1>3. CASE KillRecorded(r)
  BY <1>3, <1>c, ProviderTypes DEF KillRecorded, TypeOK
<1>4. CASE FailRun(r)
  BY <1>4, <1>a, <1>b, StateTypes DEF FailRun, TypeOK
<1> QED
  BY <1>1, <1>2, <1>3, <1>4 DEF ReconcileStep

LEMMA ResumeTypes ==
  ASSUME TypeOK, NEW c \in Resumer, NEW r \in Run, CheckResume(c, r) \/ CreateResumed(c, r)
  PROVE  TypeOK'
<1>1. CASE CheckResume(c, r)
  BY <1>1 DEF CheckResume, TypeOK
<1>2. CASE CreateResumed(c, r)
  <2>1. status[resumer[c]].workspace \in Run \cup {None}
    BY <1>2 DEF CreateResumed, TypeOK, Status
  <2>2. [NoStatus EXCEPT !.state = "ready", !.workspace = status[resumer[c]].workspace]
          \in Status
    BY <2>1, NewStatus DEF States
  <2> QED
    BY <1>2, <2>2 DEF CreateResumed, TypeOK
<1> QED
  BY <1>1, <1>2

----------------------------------------------------------------------------
(* The inductive invariant *)

\* The worker has moved the run to starting and not yet written its outcome.
Supervising == {"begun"} \cup Armed

\* Before its command made it or has run it, a run has no worker and no stop.
NoWorkerYet(r) ==
  /\ status[r].state = "absent" => cli[r] = "none" /\ ~status[r].stop
  /\ cli[r] \in {"none", "preparing", "holding", "spawning"} => worker[r].at = "none"

\* Only a worker between its start and its end has a provider nobody asked to
\* end, and a worker that left its loop has none that runs.
ProviderHasWorker(r) ==
  /\ provider[r] = "alive" => worker[r].at \in {"spawned", "running"}
  /\ worker[r].at \in {"ended", "closing"} => provider[r] \notin {"alive", "asked"}

\* While the run is open its worker is recorded; while its worker is at work it
\* is not closed by anything but a failure.
WorkerOnFile(r) ==
  worker[r].at \in Supervising =>
    /\ status[r].state \in Terminal \cup {"absent"} \/ status[r].worker
    /\ status[r].state \notin Terminal \ {"failed"}

\* A stop acts on what its transition read: the run cannot begin any more, and
\* a worker the stop does not know of does not exist.
StopKnows(r) ==
  /\ stopper[r].at \in {"signal", "settle"}
       => status[r].state \notin {"absent", "preparing", "ready", "starting"}
  /\ stopper[r].at = "signal" /\ ~stopper[r].worker => worker[r].at \notin Supervising
  /\ stopper[r].at = "settle" => worker[r].at \notin Supervising

\* A completed run's provider has ended.
CompletedIsDown(r) == status[r].state = "completed" => provider[r] \notin {"alive", "asked"}

Sound(r) ==
  /\ NoWorkerYet(r) /\ ProviderHasWorker(r) /\ WorkerOnFile(r)
  /\ StopKnows(r) /\ CompletedIsDown(r)

IndInv == TypeOK /\ Verdicts /\ \A r \in Run: Sound(r)

\* Closing a run sets its state, forgets its processes and keeps the rest.
LEMMA Closing ==
  ASSUME TypeOK, NEW r \in Run, NEW st \in States, Close(r, st)
  PROVE  /\ \A s \in Run \ {r}: status'[s] = status[s]
         /\ status'[r].state = st /\ ~status'[r].worker
         /\ status'[r].stop = status[r].stop /\ status'[r].workspace = status[r].workspace
<1> DEFINE closed == [status[r] EXCEPT !.state = st, !.worker = FALSE, !.provider = FALSE]
<1>1. status' = [status EXCEPT ![r] = closed]
  BY DEF Close
<1>2. /\ closed.state = st /\ ~closed.worker
      /\ closed.stop = status[r].stop /\ closed.workspace = status[r].workspace
  BY DEF TypeOK, Status
<1> HIDE DEF closed
<1> QED
  BY <1>1, <1>2 DEF TypeOK

\* Setting the state keeps the rest.
LEMMA Setting ==
  ASSUME TypeOK, NEW r \in Run, NEW st, SetState(r, st)
  PROVE  /\ \A s \in Run \ {r}: status'[s] = status[s]
         /\ status'[r].state = st
         /\ status'[r].stop = status[r].stop /\ status'[r].worker = status[r].worker
         /\ status'[r].workspace = status[r].workspace
<1> DEFINE set == [status[r] EXCEPT !.state = st]
<1>1. status' = [status EXCEPT ![r] = set]
  BY DEF SetState
<1>2. /\ set.state = st /\ set.stop = status[r].stop
      /\ set.worker = status[r].worker /\ set.workspace = status[r].workspace
  BY DEF TypeOK, Status
<1> HIDE DEF set
<1> QED
  BY <1>1, <1>2 DEF TypeOK

\* A worker begins: the run is starting and the worker is recorded.
LEMMA Beginning ==
  ASSUME TypeOK, NEW r \in Run
  PROVE  Begun(r).state = "starting" /\ Begun(r).worker /\ Begun(r).stop = status[r].stop
BY DEF Begun, TypeOK, Status

\* A worker that moves keeps what it holds, one that ends does not.
LEMMA Moving ==
  ASSUME TypeOK, NEW r \in Run, NEW at, WorkerGoes(r, at) \/ WorkerEnds(r, at)
  PROVE  /\ \A s \in Run \ {r}: worker'[s] = worker[s]
         /\ worker'[r].at = at
<1> DEFINE gone == [NoWorker EXCEPT !.at = at]
           moved == [worker[r] EXCEPT !.at = at]
<1>1. worker' = [worker EXCEPT ![r] = gone] \/ worker' = [worker EXCEPT ![r] = moved]
  BY DEF WorkerGoes, WorkerEnds
<1>2. gone.at = at
  BY DEF NoWorker
<1>3. moved.at = at
  BY DEF TypeOK, Worker
<1> HIDE DEF gone, moved
<1> QED
  BY <1>1, <1>2, <1>3 DEF TypeOK

\* A run nothing happens to keeps its invariant.
LEMMA Elsewhere ==
  ASSUME NEW s \in Run, Sound(s), status'[s] = status[s], worker'[s] = worker[s],
         provider'[s] = provider[s], stopper'[s] = stopper[s], cli'[s] = cli[s]
  PROVE  Sound(s)'
BY DEF Sound, NoWorkerYet, ProviderHasWorker, WorkerOnFile, StopKnows, CompletedIsDown

\* Other workers keep their outcomes.
LEMMA VerdictsKept ==
  ASSUME Verdicts, NEW r \in Run, worker'[r].at \notin {"closing", "failing"},
         \A q \in Run \ {r}: worker'[q] = worker[q]
  PROVE  Verdicts'
BY DEF Verdicts

\* Every step of a command that makes a run keeps the invariant of each run.
LEMMA CommandSound ==
  ASSUME IndInv, NEW r \in Run, NEW s \in Run,
         CommandStep(r)
  PROVE  Sound(s)' /\ Verdicts'
<1> USE DEF IndInv, TypeOK, Status, Worker, Stopper, Terminal, Incomplete, States, Armed, Supervising,
            Verdicts, Sound, NoWorkerYet, ProviderHasWorker, WorkerOnFile, StopKnows, CompletedIsDown
<1>1. CASE Reserve(r)
  BY <1>1 DEF Reserve, NoStatus
<1>2. CASE PreparationEnds(r)
  BY <1>2 DEF PreparationEnds, SetState
<1>3. CASE PreparationFails(r)
  BY <1>3 DEF PreparationFails, SetState, MayUpdate
<1>4. CASE RunForeground(r)
  BY <1>4 DEF RunForeground, WorkerGoes
<1>5. CASE LaunchBackground(r)
  BY <1>5, Setting DEF LaunchBackground
<1>6. CASE SpawnWorker(r)
  BY <1>6 DEF SpawnWorker, WorkerGoes
<1>7. CASE RecordWorker(r)
  BY <1>7 DEF RecordWorker
<1>8. CASE OpenGate(r)
  BY <1>8 DEF OpenGate, WorkerGoes
<1>9. CASE LaunchFails(r)
  BY <1>9 DEF LaunchFails, SetState, WorkerLives, Unarmed
<1>10. CASE Poll(r)
  BY <1>10 DEF Poll
<1>11. CASE PollWorker(r)
  BY <1>11 DEF PollWorker, SetState, MayUpdate, WorkerLives, Unarmed
<1>12. CASE CommandDies(r)
  BY <1>12 DEF CommandDies
<1> QED
  BY <1>1, <1>2, <1>3, <1>4, <1>5, <1>6, <1>7, <1>8, <1>9, <1>10, <1>11, <1>12
  DEF CommandStep, LaunchStep

LEMMA BeginSound ==
  ASSUME IndInv, NEW r \in Run, NEW s \in Run, Begin(r)
  PROVE  Sound(s)' /\ Verdicts'
<1>1. \A q \in Run \ {r}: worker'[q] = worker[q] /\ status'[q] = status[q]
  BY Moving DEF Begin, IndInv, TypeOK
<1>2. UNCHANGED <<cli, provider, stopper>>
  BY DEF Begin
<1>3. worker[r].at = "up"
  BY DEF Begin
<1>4. \/ /\ status[r].state \in {"ready", "starting"}
         /\ worker'[r].at = "begun"
         /\ status'[r].state = "starting" /\ status'[r].worker
      \/ worker'[r].at = "dead" /\ status'[r] = status[r]
  BY Moving, Beginning DEF Begin, IndInv, TypeOK
<1>5. Verdicts'
  BY <1>1, <1>4, VerdictsKept DEF IndInv
<1>6. CASE s # r
  BY <1>1, <1>2, <1>5, <1>6, Elsewhere DEF IndInv
<1>7. CASE s = r
  BY <1>2, <1>3, <1>4, <1>5, <1>7 DEF IndInv, Sound, NoWorkerYet, ProviderHasWorker,
     WorkerOnFile, StopKnows, CompletedIsDown,
     Supervising, Armed, Terminal, Incomplete
<1> QED
  BY <1>6, <1>7

LEMMA FinishSound ==
  ASSUME IndInv, NEW r \in Run, NEW s \in Run, Finish(r)
  PROVE  Sound(s)' /\ Verdicts'
<1>1. worker[r].at = "closing" /\ worker[r].verdict \in Terminal
  BY DEF Finish, Verdicts, IndInv
<1>2. worker[r].verdict \in States
  BY <1>1 DEF States, Terminal, Incomplete
<1>3. \A q \in Run \ {r}: worker'[q] = worker[q] /\ status'[q] = status[q]
  BY <1>2, Moving, Closing DEF Finish, IndInv
<1>4. worker'[r].at = "done" /\ status'[r].state = worker[r].verdict
  BY <1>2, Moving, Closing DEF Finish, IndInv
<1>5. UNCHANGED <<cli, provider, stopper>>
  BY DEF Finish
<1>6. Verdicts'
  BY <1>3, <1>4, VerdictsKept DEF IndInv
<1>7. CASE s # r
  BY <1>3, <1>5, <1>6, <1>7, Elsewhere DEF IndInv
<1>8. CASE s = r
  BY <1>1, <1>4, <1>5, <1>6, <1>8 DEF IndInv, Sound, NoWorkerYet, ProviderHasWorker,
     WorkerOnFile, StopKnows, CompletedIsDown,
     Supervising, Armed, Terminal, Incomplete
<1> QED
  BY <1>7, <1>8

LEMMA AbortRecordedSound ==
  ASSUME IndInv, NEW r \in Run, NEW s \in Run, AbortRecorded(r)
  PROVE  Sound(s)' /\ Verdicts'
<1>1. worker[r].at = "failing" /\ worker[r].verdict \in {"failed", "interrupted"}
  BY DEF AbortRecorded, Verdicts, IndInv
<1>2. worker[r].verdict \in States
  BY <1>1 DEF States, Terminal, Incomplete
<1>3. \A q \in Run \ {r}: worker'[q] = worker[q] /\ status'[q] = status[q]
  BY <1>2, Moving, Closing DEF AbortRecorded, IndInv
<1>4. /\ worker'[r].at = "dead"
      /\ status'[r] = status[r] \/ status'[r].state = worker[r].verdict
  BY <1>2, Moving, Closing DEF AbortRecorded, IndInv
<1>5. UNCHANGED <<cli, provider, stopper>>
  BY DEF AbortRecorded
<1>6. Verdicts'
  BY <1>3, <1>4, VerdictsKept DEF IndInv
<1>7. CASE s # r
  BY <1>3, <1>5, <1>6, <1>7, Elsewhere DEF IndInv
<1>8. CASE s = r
  BY <1>1, <1>4, <1>5, <1>6, <1>8 DEF IndInv, Sound, NoWorkerYet, ProviderHasWorker,
     WorkerOnFile, StopKnows, CompletedIsDown,
     Supervising, Armed, Terminal, Incomplete
<1> QED
  BY <1>7, <1>8

\* Every step of a worker, or of its end, keeps the invariant of each run.
LEMMA WorkerSound ==
  ASSUME IndInv, NEW r \in Run, NEW s \in Run,
         WorkerStep(r) \/ Consume(r) \/ Abort(r) \/ WorkerDies(r) \/ ProviderExits(r)
  PROVE  Sound(s)' /\ Verdicts'
<1> USE DEF IndInv, TypeOK, Status, Worker, Stopper, Terminal, Incomplete, States, Armed, Supervising,
            Verdicts, Sound, NoWorkerYet, ProviderHasWorker, WorkerOnFile, StopKnows, CompletedIsDown
<1>1. CASE GateCloses(r)
  BY <1>1 DEF GateCloses, WorkerEnds, NoWorker
<1>2. CASE Begin(r)
  BY <1>2, BeginSound
<1>3. CASE Arm(r)
  BY <1>3 DEF Arm, WorkerGoes
<1>4. CASE StartProvider(r)
  BY <1>4 DEF StartProvider, WorkerGoes
<1>5. CASE RecordProvider(r)
  BY <1>5 DEF RecordProvider, WorkerGoes, MayUpdate
<1>6. CASE NoticeStop(r)
  BY <1>6 DEF NoticeStop, AskedToEnd
<1>7. CASE Expire(r)
  BY <1>7 DEF Expire, Reaped, ProviderMatches
<1>8. CASE ProviderPolled(r)
  BY <1>8 DEF ProviderPolled, WorkerGoes
<1>9. CASE Decide(r)
  BY <1>9 DEF Decide, StopSeen
<1>10. CASE Finish(r)
  BY <1>10, FinishSound
<1>11. CASE Abort(r)
  BY <1>11 DEF Abort, Reaped, ProviderMatches
<1>12. CASE AbortRecorded(r)
  BY <1>12, AbortRecordedSound
<1>13. CASE Consume(r)
  BY <1>13 DEF Consume
<1>14. CASE WorkerDies(r)
  BY <1>14 DEF WorkerDies, WorkerEnds, NoWorker, WorkerLives, Unarmed, Orphaned, AskedToEnd
<1>15. CASE ProviderExits(r)
  BY <1>15 DEF ProviderExits, WorkerLives, Unarmed
<1> QED
  BY <1>1, <1>2, <1>3, <1>4, <1>5, <1>6, <1>7, <1>8, <1>9, <1>10, <1>11, <1>12, <1>13, <1>14, <1>15
  DEF WorkerStep, Refused

\* Every step of a stop keeps the invariant of each run.
LEMMA StopSound ==
  ASSUME IndInv, NEW r \in Run, NEW s \in Run,
         StopStep(r)
  PROVE  Sound(s)' /\ Verdicts'
<1> USE DEF IndInv, TypeOK, Status, Worker, Stopper, Terminal, Incomplete, States, Armed, Supervising,
            Verdicts, Sound, NoWorkerYet, ProviderHasWorker, WorkerOnFile, StopKnows, CompletedIsDown
<1>1. CASE RequestStop(r)
  BY <1>1 DEF RequestStop
<1>2. CASE StopProvider(r)
  BY <1>2 DEF StopProvider, ProviderMatches, AskedToEnd, AfterSignal, StopperGoes, StopReturns, NoStopper
<1>3. CASE StopWorker(r)
  BY <1>3 DEF StopWorker, WorkerLives, Unarmed, ProviderMatches, AfterSignal, StopperGoes, StopReturns, NoStopper, NoWorker
<1>4. CASE NothingToStop(r)
  BY <1>4 DEF NothingToStop, WorkerLives, Unarmed, ProviderMatches, StopperGoes
<1>5. CASE ForceStop(r)
  BY <1>5 DEF ForceStop, WorkerEnds, NoWorker, WorkerLives, Unarmed, Killed, ProviderMatches, Orphaned, AskedToEnd, StopReturns, NoStopper
<1>6. CASE SettleStop(r)
  BY <1>6 DEF SettleStop, SetState, StopReturns, NoStopper
<1>7. CASE StopperDies(r)
  BY <1>7 DEF StopperDies, StopReturns, NoStopper
<1> QED
  BY <1>1, <1>2, <1>3, <1>4, <1>5, <1>6, <1>7
  DEF StopStep

\* Every step of a reconciliation keeps the invariant of each run.
LEMMA ReconcileSound ==
  ASSUME IndInv, NEW r \in Run, NEW s \in Run,
         ReconcileStep(r)
  PROVE  Sound(s)' /\ Verdicts'
<1> USE DEF IndInv, TypeOK, Status, Worker, Stopper, Terminal, Incomplete, States, Armed, Supervising,
            Verdicts, Sound, NoWorkerYet, ProviderHasWorker, WorkerOnFile, StopKnows, CompletedIsDown
<1>1. CASE ReadStatus(r)
  BY <1>1 DEF ReadStatus
<1>2. CASE CheckWorker(r)
  BY <1>2 DEF CheckWorker, WorkerLives, Unarmed, ReconcileReturns, NoReconciler
<1>3. CASE KillRecorded(r)
  BY <1>3 DEF KillRecorded, Killed, WorkerLives, Unarmed, ProviderMatches
<1>4. CASE FailRun(r)
  <2>1. /\ status'[r] = status[r] \/ status'[r].state = "failed"
        /\ \A q \in Run \ {r}: status'[q] = status[q]
    BY <1>4, Closing DEF FailRun
  <2> QED
    BY <1>4, <2>1 DEF FailRun
<1> QED
  BY <1>1, <1>2, <1>3, <1>4
  DEF ReconcileStep

\* A resume looks at a run or makes a new one.
LEMMA ResumeSound ==
  ASSUME IndInv, NEW c \in Resumer, NEW r \in Run, NEW s \in Run,
         CheckResume(c, r) \/ CreateResumed(c, r)
  PROVE  Sound(s)' /\ Verdicts'
<1>1. CASE CheckResume(c, r)
  BY <1>1, Elsewhere DEF CheckResume, IndInv, Verdicts
<1>2. CASE CreateResumed(c, r)
  <2> DEFINE new == [NoStatus EXCEPT !.state = "ready",
                                     !.workspace = status[resumer[c]].workspace]
  <2>1. status' = [status EXCEPT ![r] = new] /\ cli' = [cli EXCEPT ![r] = "holding"]
    BY <1>2 DEF CreateResumed
  <2>2. new.state = "ready"
    BY DEF NoStatus
  <2>3. UNCHANGED <<worker, provider, stopper>> /\ status[r].state = "absent"
    BY <1>2 DEF CreateResumed
  <2>4. Verdicts'
    BY <2>3 DEF Verdicts, IndInv
  <2> HIDE DEF new
  <2>5. CASE s # r
    BY <2>1, <2>3, <2>4, <2>5, Elsewhere DEF IndInv, TypeOK
  <2>6. CASE s = r
    <3>1. status'[r].state = "ready" /\ cli'[r] = "holding"
      BY <2>1, <2>2 DEF IndInv, TypeOK
    <3>2. cli[r] = "none" /\ worker[r].at = "none" /\ Sound(r)
      BY <2>3 DEF IndInv, Sound, NoWorkerYet
    <3>3. stopper[r].at \notin {"signal", "settle"}
      BY <2>3, <3>2 DEF Sound, StopKnows
    <3> QED
      BY <2>3, <2>4, <2>6, <3>1, <3>2, <3>3
      DEF Sound, NoWorkerYet, ProviderHasWorker, WorkerOnFile, StopKnows, CompletedIsDown,
          Supervising, Armed
  <2> QED
    BY <2>5, <2>6
<1> QED
  BY <1>1, <1>2

LEMMA InitSound == Init => IndInv
BY InitTypes DEF Init, IndInv, Verdicts, NoStatus, NoWorker, NoStopper, Sound, NoWorkerYet,
   ProviderHasWorker, WorkerOnFile, StopKnows, CompletedIsDown, Supervising, Armed

\* Every step keeps the inductive invariant.
LEMMA NextSound == IndInv /\ [Next]_vars => IndInv'
<1> SUFFICES ASSUME IndInv, [Next]_vars PROVE IndInv'
  OBVIOUS
<1>1. CASE UNCHANGED vars
  <2>1. TypeOK' /\ Verdicts'
    BY <1>1 DEF vars, IndInv, TypeOK, Verdicts
  <2>2. \A s \in Run: Sound(s)'
    BY <1>1, Elsewhere DEF vars, IndInv
  <2> QED
    BY <2>1, <2>2 DEF IndInv
<1>2. ASSUME NEW r \in Run, CommandStep(r) PROVE IndInv'
  <2>1. Run # {} /\ TypeOK'
    BY <1>2, CommandTypes DEF IndInv
  <2> QED
    BY <1>2, <2>1, CommandSound DEF IndInv
<1>3. ASSUME NEW r \in Run,
             WorkerStep(r) \/ Consume(r) \/ Abort(r) \/ WorkerDies(r) \/ ProviderExits(r)
      PROVE  IndInv'
  <2>1. Run # {} /\ TypeOK'
    BY <1>3, WorkerTypes DEF IndInv
  <2> QED
    BY <1>3, <2>1, WorkerSound DEF IndInv
<1>4. ASSUME NEW r \in Run, StopStep(r) PROVE IndInv'
  <2>1. Run # {} /\ TypeOK'
    BY <1>4, StopTypes DEF IndInv
  <2> QED
    BY <1>4, <2>1, StopSound DEF IndInv
<1>5. ASSUME NEW r \in Run, ReconcileStep(r) PROVE IndInv'
  <2>1. Run # {} /\ TypeOK'
    BY <1>5, ReconcileTypes DEF IndInv
  <2> QED
    BY <1>5, <2>1, ReconcileSound DEF IndInv
<1>6. ASSUME NEW c \in Resumer, NEW r \in Run, CheckResume(c, r) \/ CreateResumed(c, r)
      PROVE  IndInv'
  <2>1. Run # {} /\ TypeOK'
    BY <1>6, ResumeTypes DEF IndInv
  <2> QED
    BY <1>6, <2>1, ResumeSound DEF IndInv
<1> QED
  BY <1>1, <1>2, <1>3, <1>4, <1>5, <1>6 DEF Next

LEMMA Inductive == Spec => []IndInv
BY InitSound, NextSound, PTL DEF Spec

\* All variables keep their types, for any runs, resumers and bounds.
THEOREM TypesHold == Spec => []TypeOK
<1>1. IndInv => TypeOK
  BY DEF IndInv
<1> QED
  BY <1>1, Inductive, PTL

\* A run settled as anything but failed has no provider that was not at least
\* asked to end: what ends the worker's loop, and what a stop knows.
THEOREM SettledRunsAreDown == Spec => []SettledIsDown
<1>1. IndInv => SettledIsDown
  BY DEF IndInv, Sound, ProviderHasWorker, WorkerOnFile, SettledIsDown, Supervising, Armed
<1> QED
  BY <1>1, Inductive, PTL

----------------------------------------------------------------------------
(* Terminal states are final *)

LEMMA CommandKeepsTerminal ==
  ASSUME IndInv, NEW q \in Run, CommandStep(q), NEW r \in Run, status[r].state \in Terminal
  PROVE  status'[r].state = status[r].state
<1> USE DEF IndInv, TypeOK, Terminal, Incomplete
<1>1. CASE Reserve(q)
  BY <1>1 DEF Reserve
<1>2. CASE PreparationEnds(q)
  BY <1>2 DEF PreparationEnds, SetState
<1>3. CASE PreparationFails(q)
  BY <1>3, Setting DEF PreparationFails, MayUpdate
<1>4. CASE LaunchBackground(q)
  BY <1>4 DEF LaunchBackground, SetState
<1>5. CASE RecordWorker(q)
  BY <1>5 DEF RecordWorker
<1>6. CASE LaunchFails(q)
  BY <1>6 DEF LaunchFails, SetState
<1>7. CASE PollWorker(q)
  BY <1>7, Setting DEF PollWorker, MayUpdate
<1>8. CASE UNCHANGED status
  BY <1>8
<1> QED
  BY <1>1, <1>2, <1>3, <1>4, <1>5, <1>6, <1>7, <1>8
  DEF CommandStep, LaunchStep, RunForeground, SpawnWorker, OpenGate, Poll, CommandDies

LEMMA WorkerKeepsTerminal ==
  ASSUME IndInv, NEW q \in Run, WorkerStep(q) \/ Consume(q) \/ Abort(q) \/ WorkerDies(q) \/ ProviderExits(q), NEW r \in Run, status[r].state \in Terminal
  PROVE  status'[r].state = status[r].state
<1> USE DEF IndInv, TypeOK, Terminal, Incomplete
<1>1. CASE Begin(q)
  BY <1>1 DEF Begin
<1>2. CASE RecordProvider(q)
  BY <1>2 DEF RecordProvider, MayUpdate
<1>3. CASE Finish(q)
  BY <1>3, Closing DEF Finish, Verdicts, States
<1>4. CASE AbortRecorded(q)
  BY <1>4, Closing DEF AbortRecorded, MayUpdate, Verdicts, States
<1>5. CASE Consume(q)
  BY <1>5 DEF Consume
<1>6. CASE UNCHANGED status
  BY <1>6
<1> QED
  BY <1>1, <1>2, <1>3, <1>4, <1>5, <1>6
  DEF WorkerStep, Refused, GateCloses, Arm, StartProvider, NoticeStop, Expire, ProviderPolled, Decide, Abort, WorkerDies, ProviderExits

LEMMA StopKeepsTerminal ==
  ASSUME IndInv, NEW q \in Run, StopStep(q), NEW r \in Run, status[r].state \in Terminal
  PROVE  status'[r].state = status[r].state
<1> USE DEF IndInv, TypeOK, Terminal, Incomplete
<1>1. CASE RequestStop(q)
  BY <1>1 DEF RequestStop
<1>2. CASE SettleStop(q)
  BY <1>2 DEF SettleStop, SetState
<1>3. CASE UNCHANGED status
  BY <1>3
<1> QED
  BY <1>1, <1>2, <1>3
  DEF StopStep, StopProvider, StopWorker, NothingToStop, ForceStop, StopperDies

LEMMA ReconcileKeepsTerminal ==
  ASSUME IndInv, NEW q \in Run, ReconcileStep(q), NEW r \in Run, status[r].state \in Terminal
  PROVE  status'[r].state = status[r].state
<1> USE DEF IndInv, TypeOK, Terminal, Incomplete
<1>1. CASE FailRun(q)
  BY <1>1, Closing DEF FailRun, MayUpdate, Verdicts, States
<1>2. CASE UNCHANGED status
  BY <1>2
<1> QED
  BY <1>1, <1>2
  DEF ReconcileStep, ReadStatus, CheckWorker, KillRecorded

\* Whatever process writes a status last, a terminal state stays as it is.
THEOREM TerminalStaysFinal == Spec => TerminalIsFinal
<1>1. ASSUME IndInv, [Next]_vars, NEW r \in Run, status[r].state \in Terminal
      PROVE  status'[r].state = status[r].state
  <2>1. ASSUME NEW c \in Resumer, NEW q \in Run, CheckResume(c, q) \/ CreateResumed(c, q)
        PROVE  status'[r].state = status[r].state
    BY <1>1, <2>1 DEF CheckResume, CreateResumed, IndInv, TypeOK, Terminal, Incomplete
  <2> QED
    BY <1>1, <2>1, CommandKeepsTerminal, WorkerKeepsTerminal, StopKeepsTerminal,
       ReconcileKeepsTerminal DEF Next, vars
<1>2. IndInv /\ [Next]_vars
        => [\A r \in Run: status[r].state \in Terminal
                             => status'[r].state = status[r].state]_vars
  BY <1>1
<1> QED
  BY <1>2, Inductive, PTL DEF Spec, TerminalIsFinal

----------------------------------------------------------------------------
(* A stop is not a completion *)

\* What a stop on file leads to: the outcome the worker decides is no completion.
NotCompleting(r) ==
  /\ status[r].stop
  /\ status[r].state \notin {"absent", "completed"}
  /\ ~(worker[r].at = "closing" /\ worker[r].verdict = "completed")

LEMMA CommandKeepsStop ==
  ASSUME IndInv, NEW q \in Run, CommandStep(q), NEW r \in Run, NotCompleting(r)
  PROVE  NotCompleting(r)'
<1> USE DEF NotCompleting, IndInv, TypeOK
<1>1. CASE Reserve(q)
  BY <1>1 DEF Reserve
<1>2. CASE PreparationEnds(q)
  BY <1>2, Setting DEF PreparationEnds
<1>3. CASE PreparationFails(q)
  BY <1>3, Setting DEF PreparationFails
<1>4. CASE RunForeground(q)
  BY <1>4, Moving DEF RunForeground
<1>5. CASE LaunchBackground(q)
  BY <1>5, Setting DEF LaunchBackground
<1>6. CASE SpawnWorker(q)
  BY <1>6, Moving DEF SpawnWorker
<1>7. CASE RecordWorker(q)
  BY <1>7 DEF RecordWorker
<1>8. CASE OpenGate(q)
  BY <1>8, Moving DEF OpenGate
<1>9. CASE LaunchFails(q)
  BY <1>9, Setting DEF LaunchFails
<1>10. CASE PollWorker(q)
  BY <1>10, Setting DEF PollWorker
<1>11. CASE UNCHANGED <<status, worker>>
  BY <1>11
<1> QED
  BY <1>1, <1>2, <1>3, <1>4, <1>5, <1>6, <1>7, <1>8, <1>9, <1>10, <1>11
  DEF CommandStep, LaunchStep, Poll, CommandDies

LEMMA WorkerKeepsStop ==
  ASSUME IndInv, NEW q \in Run, WorkerStep(q) \/ Consume(q) \/ Abort(q) \/ WorkerDies(q) \/ ProviderExits(q), NEW r \in Run, NotCompleting(r)
  PROVE  NotCompleting(r)'
<1> USE DEF NotCompleting, IndInv, TypeOK
<1>1. CASE GateCloses(q)
  BY <1>1, Moving DEF GateCloses, Verdicts, States, Terminal, Incomplete
<1>2. CASE Begin(q)
  BY <1>2, Moving, Beginning DEF Begin
<1>3. CASE Arm(q)
  BY <1>3, Moving DEF Arm
<1>4. CASE StartProvider(q)
  BY <1>4, Moving DEF StartProvider
<1>5. CASE RecordProvider(q)
  BY <1>5, Moving DEF RecordProvider
<1>6. CASE NoticeStop(q)
  BY <1>6 DEF NoticeStop
<1>7. CASE Expire(q)
  BY <1>7 DEF Expire
<1>8. CASE ProviderPolled(q)
  BY <1>8, Moving DEF ProviderPolled
<1>9. CASE Decide(q)
  BY <1>9 DEF Decide, StopSeen
<1>10. CASE Finish(q)
  BY <1>10, Closing, Moving DEF Finish, Verdicts, States, Terminal, Incomplete
<1>11. CASE Abort(q)
  BY <1>11 DEF Abort
<1>12. CASE AbortRecorded(q)
  BY <1>12, Closing, Moving DEF AbortRecorded, Verdicts, States, Terminal, Incomplete
<1>13. CASE Consume(q)
  BY <1>13 DEF Consume
<1>14. CASE WorkerDies(q)
  BY <1>14, Moving DEF WorkerDies
<1>15. CASE UNCHANGED <<status, worker>>
  BY <1>15
<1> QED
  BY <1>1, <1>2, <1>3, <1>4, <1>5, <1>6, <1>7, <1>8, <1>9, <1>10, <1>11, <1>12, <1>13, <1>14, <1>15
  DEF WorkerStep, Refused, ProviderExits

LEMMA StopKeepsStop ==
  ASSUME IndInv, NEW q \in Run, StopStep(q), NEW r \in Run, NotCompleting(r)
  PROVE  NotCompleting(r)'
<1> USE DEF NotCompleting, IndInv, TypeOK
<1>1. CASE RequestStop(q)
  BY <1>1 DEF RequestStop
<1>2. CASE StopWorker(q)
  BY <1>2 DEF StopWorker, NoWorker
<1>3. CASE ForceStop(q)
  BY <1>3, Moving DEF ForceStop
<1>4. CASE SettleStop(q)
  BY <1>4, Setting DEF SettleStop
<1>5. CASE UNCHANGED <<status, worker>>
  BY <1>5
<1> QED
  BY <1>1, <1>2, <1>3, <1>4, <1>5
  DEF StopStep, StopProvider, NothingToStop, StopperDies

LEMMA ReconcileKeepsStop ==
  ASSUME IndInv, NEW q \in Run, ReconcileStep(q), NEW r \in Run, NotCompleting(r)
  PROVE  NotCompleting(r)'
<1> USE DEF NotCompleting, IndInv, TypeOK
<1>1. CASE FailRun(q)
  BY <1>1, Closing DEF FailRun, Verdicts, States, Terminal, Incomplete
<1>2. CASE UNCHANGED <<status, worker>>
  BY <1>2
<1> QED
  BY <1>1, <1>2
  DEF ReconcileStep, ReadStatus, CheckWorker, KillRecorded

\* With a stop on file while the provider runs, the run is never completed:
\* either the worker learns of the stop in its loop or by a signal, or it reads
\* the flag again when it decides the outcome.
THEOREM StopsAreNotCompletions == Spec => StopIsNotCompletion
<1> SUFFICES ASSUME NEW r \in Run
             PROVE  Spec => [](status[r].stop /\ provider[r] \in {"alive", "asked"}
                               => [](status[r].state # "completed"))
  BY DEF StopIsNotCompletion
<1>1. IndInv /\ status[r].stop /\ provider[r] \in {"alive", "asked"} => NotCompleting(r)
  BY DEF IndInv, Sound, NoWorkerYet, ProviderHasWorker, CompletedIsDown, NotCompleting
<1>2. IndInv /\ NotCompleting(r) /\ [Next]_vars => NotCompleting(r)'
  <2> SUFFICES ASSUME IndInv, NotCompleting(r), [Next]_vars PROVE NotCompleting(r)'
    OBVIOUS
  <2>1. ASSUME NEW c \in Resumer, NEW q \in Run, CheckResume(c, q) \/ CreateResumed(c, q)
        PROVE  NotCompleting(r)'
    BY <2>1 DEF CheckResume, CreateResumed, IndInv, TypeOK, NotCompleting
  <2>2. CASE UNCHANGED vars
    BY <2>2 DEF vars, NotCompleting
  <2> QED
    BY <2>1, <2>2, CommandKeepsStop, WorkerKeepsStop, StopKeepsStop, ReconcileKeepsStop DEF Next
<1>3. NotCompleting(r) => status[r].state # "completed"
  BY DEF NotCompleting
<1> QED
  BY <1>1, <1>2, <1>3, Inductive, PTL DEF Spec

----------------------------------------------------------------------------
(* One active run per workspace *)

\* The states of a run that has been made and has not ended.
Active == States \ Terminal

\* No two resume commands are between their look at the runs of one workspace
\* and the run they make there.
ResumesApart ==
  \A c, d \in Resumer:
    /\ None \notin {resumer[c], resumer[d]}
    /\ status[resumer[c]].workspace = status[resumer[d]].workspace
    => c = d

\* A run works where a prepared run was made, a prepared one in its own clone.
WorkspaceMade(r) ==
  status[r].state # "absent" =>
    /\ status[r].workspace \in Prepared
    /\ status[status[r].workspace].state # "absent"
    /\ r \in Prepared => status[r].workspace = r

\* Only a run that was made is reconciled.
ReconcilesMade(r) == reconciler[r].at # "idle" => status[r].state # "absent"

\* What prepare_resume saw of the parent's workspace is still so when it makes
\* the new run: nothing but another resume could start a run there.
ResumesIdle(c) ==
  resumer[c] # None =>
    /\ status[resumer[c]].state # "absent"
    /\ \A r \in Run:
         status[r].workspace = status[resumer[c]].workspace => status[r].state \notin Active

WorkspaceInv ==
  /\ IndInv
  /\ \A r \in Run: WorkspaceMade(r) /\ ReconcilesMade(r)
  /\ \A c \in Resumer: ResumesIdle(c)
  /\ OneActiveRun

\* A step that neither makes a run nor starts one that has ended.
Kept(r) ==
  /\ status'[r].workspace = status[r].workspace
  /\ status[r].state \notin Active => status'[r].state = status[r].state
  /\ status[r].state # "absent" => status'[r].state # "absent"

\* Only Reserve makes a run among the steps of its command.
LEMMA CommandKeeps ==
  ASSUME IndInv, NEW q \in Run, CommandStep(q), NEW r \in Run
  PROVE  Reserve(q) \/ Kept(r)
<1> SUFFICES ASSUME ~Reserve(q) PROVE Kept(r)
  OBVIOUS
<1>z. status[r] \in Status /\ status[q] \in Status
  BY DEF IndInv, TypeOK
<1> USE DEF Kept, IndInv, TypeOK, Active, States, Terminal, Incomplete
<1>a. cli[q] # "none" => status[q].state # "absent"
  BY DEF Sound, NoWorkerYet
<1>1. CASE PreparationEnds(q)
  BY <1>1, Setting DEF PreparationEnds
<1>2. CASE PreparationFails(q)
  <2>1. CASE MayUpdate(q, "failed") /\ SetState(q, "failed")
    BY <1>a, <1>2, <1>z, <2>1, Setting DEF PreparationFails, MayUpdate, Status
  <2>2. CASE UNCHANGED status
    BY <2>2
  <2> QED
    BY <1>2, <2>1, <2>2 DEF PreparationFails
<1>3. CASE LaunchBackground(q)
  BY <1>3, Setting DEF LaunchBackground
<1>4. CASE RecordWorker(q)
  <2> DEFINE new == [status[q] EXCEPT !.worker = TRUE]
  <2>1. new.workspace = status[q].workspace /\ new.state = status[q].state
    BY <1>z DEF Status
  <2>2. status' = [status EXCEPT ![q] = new]
    BY <1>4 DEF RecordWorker
  <2> HIDE DEF new
  <2> QED
    BY <2>1, <2>2
<1>5. CASE LaunchFails(q)
  BY <1>5, Setting DEF LaunchFails
<1>6. CASE PollWorker(q)
  <2>1. CASE MayUpdate(q, "failed") /\ SetState(q, "failed")
    BY <1>a, <1>6, <1>z, <2>1, Setting DEF PollWorker, MayUpdate, Status
  <2>2. CASE UNCHANGED status
    BY <2>2
  <2> QED
    BY <1>6, <2>1, <2>2 DEF PollWorker
<1>7. CASE UNCHANGED status
  BY <1>7
<1> QED
  BY <1>1, <1>2, <1>3, <1>4, <1>5, <1>6, <1>7
  DEF CommandStep, LaunchStep, RunForeground, SpawnWorker, OpenGate, Poll, CommandDies

LEMMA WorkerKeeps ==
  ASSUME IndInv, NEW q \in Run, NEW r \in Run,
         WorkerStep(q) \/ Consume(q) \/ Abort(q) \/ WorkerDies(q) \/ ProviderExits(q)
  PROVE  Kept(r)
<1>a. worker[q].at # "none" => status[q].state # "absent"
  BY DEF IndInv, Sound, NoWorkerYet
<1>b. Terminal \subseteq States /\ "absent" \notin Terminal
  BY DEF States, Terminal, Incomplete
<1> USE DEF Kept, Active
<1>1. CASE Begin(q)
  <2>1. Begun(q).workspace = status[q].workspace /\ Begun(q).state = "starting"
    BY DEF Begun, IndInv, TypeOK, Status
  <2> QED
    BY <1>1, <2>1 DEF Begin, IndInv, TypeOK, States, Terminal, Incomplete
<1>2. CASE RecordProvider(q)
  <2> DEFINE new == [status[q] EXCEPT !.state = "running", !.provider = TRUE]
  <2>1. new.workspace = status[q].workspace /\ new.state = "running"
    BY DEF IndInv, TypeOK, Status
  <2>2. status' = [status EXCEPT ![q] = new] /\ status[q].state \in Active
    BY <1>a, <1>2 DEF RecordProvider, MayUpdate, IndInv, TypeOK, Status, States, Terminal, Incomplete
  <2> HIDE DEF new
  <2> QED
    BY <2>1, <2>2 DEF IndInv, TypeOK
<1>3. CASE Finish(q)
  BY <1>3, <1>b, Closing DEF Finish, Verdicts, IndInv, States, Terminal, Incomplete
<1>4. CASE AbortRecorded(q)
  <2>1. worker[q].verdict \in {"failed", "interrupted"} /\ worker[q].verdict \in States
    BY <1>4 DEF AbortRecorded, Verdicts, IndInv, States, Terminal, Incomplete
  <2>2. CASE Close(q, worker[q].verdict) /\ MayUpdate(q, worker[q].verdict)
    <3>1. status[q].state \in Terminal => worker[q].verdict = status[q].state
      BY <2>2 DEF MayUpdate
    <3>2. status[q].state # "absent" /\ status[q].state \in States \cup {"absent"}
      BY <1>a, <1>4 DEF AbortRecorded, IndInv, TypeOK, Status
    <3> QED
      BY <2>1, <2>2, <3>1, <3>2, Closing DEF IndInv
  <2> QED
    BY <1>4, <2>2 DEF AbortRecorded
<1>5. CASE Consume(q)
  BY <1>5 DEF Consume, IndInv, TypeOK, Status
<1>6. CASE UNCHANGED status
  BY <1>6
<1> QED
  BY <1>1, <1>2, <1>3, <1>4, <1>5, <1>6
  DEF WorkerStep, Refused, GateCloses, Arm, StartProvider, NoticeStop, Expire, ProviderPolled, Decide, Abort, WorkerDies, ProviderExits

LEMMA StopKeeps ==
  ASSUME IndInv, NEW q \in Run, StopStep(q), NEW r \in Run
  PROVE  Kept(r)
<1> USE DEF Kept, Active, IndInv, TypeOK, States, Terminal, Incomplete
<1>1. CASE RequestStop(q)
  BY <1>1 DEF RequestStop, Status
<1>2. CASE SettleStop(q)
  BY <1>2, Setting DEF SettleStop
<1>3. CASE UNCHANGED status
  BY <1>3
<1> QED
  BY <1>1, <1>2, <1>3
  DEF StopStep, StopProvider, StopWorker, NothingToStop, ForceStop, StopperDies

LEMMA ReconcileKeeps ==
  ASSUME IndInv, NEW q \in Run, ReconcilesMade(q), ReconcileStep(q), NEW r \in Run
  PROVE  Kept(r)
<1> USE DEF Kept, Active, IndInv, TypeOK
<1>1. CASE FailRun(q)
  <2>1. status[q].state # "absent" /\ status[q].state \in States \cup {"absent"}
    BY <1>1 DEF FailRun, ReconcilesMade, Status
  <2>2. "failed" \in States
    BY DEF States, Terminal, Incomplete
  <2> QED
    BY <1>1, <2>1, <2>2, Closing DEF FailRun, MayUpdate
<1>2. CASE UNCHANGED status
  BY <1>2
<1> QED
  BY <1>1, <1>2 DEF ReconcileStep, ReadStatus, CheckWorker, KillRecorded

\* Only a reconciliation starts a reconciliation, of a run that was made.
LEMMA ReconcilersKept ==
  ASSUME IndInv, NEW q \in Run,
         CommandStep(q) \/ WorkerStep(q) \/ StopStep(q) \/ ReconcileStep(q)
           \/ Consume(q) \/ Abort(q) \/ WorkerDies(q) \/ ProviderExits(q)
  PROVE  /\ resumer' = resumer
         /\ \A r \in Run: reconciler'[r].at # "idle"
                            => reconciler[r].at # "idle" \/ status[r].state # "absent"
<1>1. CASE ReconcileStep(q)
  BY <1>1 DEF ReconcileStep, ReadStatus, CheckWorker, KillRecorded, FailRun, ReconcileReturns,
     NoReconciler, Reconciled, IndInv, TypeOK, Reconciler
<1>2. CASE CommandStep(q)
  BY <1>2 DEF CommandStep, LaunchStep, Reserve, PreparationEnds, PreparationFails, RunForeground,
     LaunchBackground, SpawnWorker, RecordWorker, OpenGate, LaunchFails, Poll, PollWorker, CommandDies
<1>3. CASE WorkerStep(q) \/ Consume(q) \/ Abort(q) \/ WorkerDies(q) \/ ProviderExits(q)
  BY <1>3 DEF WorkerStep, GateCloses, Begin, Arm, StartProvider, RecordProvider, NoticeStop, Expire,
     ProviderPolled, Decide, Finish, Refused, Abort, AbortRecorded, Consume, WorkerDies, ProviderExits
<1>4. CASE StopStep(q)
  BY <1>4 DEF StopStep, RequestStop, StopProvider, StopWorker, NothingToStop, ForceStop, SettleStop,
     StopperDies
<1> QED
  BY <1>1, <1>2, <1>3, <1>4

\* Where every run is kept, so is what is said of the workspaces.
LEMMA KeptWorkspaces ==
  ASSUME WorkspaceInv, IndInv', \A r \in Run: Kept(r), resumer' = resumer,
         \A r \in Run: reconciler'[r].at # "idle"
                         => reconciler[r].at # "idle" \/ status[r].state # "absent"
  PROVE  WorkspaceInv'
<1>1. \A r \in Run: WorkspaceMade(r)' /\ ReconcilesMade(r)'
  BY NamesAssumption DEF WorkspaceInv, WorkspaceMade, ReconcilesMade, Kept, Active, States, Terminal, Incomplete
<1>2. \A r \in Run: status'[r].state \in Active => status[r].state \in Active
  BY DEF Kept, Active
<1>3. \A c \in Resumer: resumer[c] # None => resumer[c] \in Run
  BY DEF WorkspaceInv, IndInv, TypeOK
<1>4. \A c \in Resumer: ResumesIdle(c)'
  BY <1>2, <1>3 DEF WorkspaceInv, ResumesIdle, Kept
<1>5. OneActiveRun'
  BY <1>2 DEF WorkspaceInv, OneActiveRun, Kept, Active
<1> QED
  BY <1>1, <1>4, <1>5 DEF WorkspaceInv

\* A prepared run starts in a clone nothing else works in.
LEMMA ReserveWorkspaces ==
  ASSUME WorkspaceInv, IndInv', NEW q \in Run, Reserve(q)
  PROVE  WorkspaceInv'
<1> DEFINE new == [NoStatus EXCEPT !.state = "preparing", !.workspace = q]
<1>1. status' = [status EXCEPT ![q] = new] /\ q \in Prepared /\ status[q].state = "absent"
  BY DEF Reserve
<1>2. new.state = "preparing" /\ new.workspace = q
  BY DEF NoStatus
<1>3. UNCHANGED <<reconciler, resumer>>
  BY DEF Reserve
<1> HIDE DEF new
<1>4. /\ status'[q].state = "preparing" /\ status'[q].workspace = q
      /\ \A r \in Run \ {q}: status'[r] = status[r]
  BY <1>1, <1>2 DEF WorkspaceInv, IndInv, TypeOK
<1>5. \A r \in Run: status[r].state # "absent" => r # q /\ status[r].workspace # q
  BY <1>1 DEF WorkspaceInv, WorkspaceMade
<1>6. \A r \in Run: WorkspaceMade(r)' /\ ReconcilesMade(r)'
  BY <1>1, <1>3, <1>4, NamesAssumption DEF WorkspaceInv, WorkspaceMade, ReconcilesMade
<1>7. \A c \in Resumer: resumer[c] # None => resumer[c] \in Run
  BY DEF WorkspaceInv, IndInv, TypeOK
<1>8. \A c \in Resumer: ResumesIdle(c)'
  BY <1>3, <1>4, <1>5, <1>7 DEF WorkspaceInv, ResumesIdle
<1>9. \A r \in Run \ {q}: status'[r].state \in Active => status'[r].workspace # q
  BY <1>4, <1>5 DEF Active, States, Terminal, Incomplete
<1>10. OneActiveRun'
  BY <1>4, <1>9 DEF WorkspaceInv, OneActiveRun, Active
<1> QED
  BY <1>6, <1>8, <1>10 DEF WorkspaceInv

\* A resume that is alone in the workspace makes the only active run there.
LEMMA ResumeWorkspaces ==
  ASSUME WorkspaceInv, IndInv', ResumesApart, NEW c \in Resumer, NEW q \in Run,
         CheckResume(c, q) \/ CreateResumed(c, q)
  PROVE  WorkspaceInv'
<1>a. \A d \in Resumer: resumer[d] # None => resumer[d] \in Run
  BY DEF WorkspaceInv, IndInv, TypeOK
<1>1. CASE CheckResume(c, q)
  <2>1. /\ resumer' = [resumer EXCEPT ![c] = q]
        /\ UNCHANGED <<status, reconciler>>
        /\ status[q].state \in Incomplete /\ ~Busy(q)
    BY <1>1 DEF CheckResume
  <2>2. status[q].state \notin Active /\ status[q].state # "absent"
    BY <2>1 DEF Active, Terminal, Incomplete
  <2>3. \A r \in Run: status[r].workspace = status[q].workspace => status[r].state \notin Active
    BY <2>1, <2>2 DEF Busy, Active
  <2>4. \A d \in Resumer: ResumesIdle(d)'
    BY <2>1, <2>2, <2>3 DEF WorkspaceInv, ResumesIdle, IndInv, TypeOK
  <2> QED
    BY <2>1, <2>4 DEF WorkspaceInv, WorkspaceMade, ReconcilesMade, OneActiveRun
<1>2. CASE CreateResumed(c, q)
  <2> DEFINE workspace == status[resumer[c]].workspace
             new == [NoStatus EXCEPT !.state = "ready", !.workspace = workspace]
  <2>1. /\ status' = [status EXCEPT ![q] = new] /\ q \notin Prepared
        /\ status[q].state = "absent"
        /\ resumer[c] # None /\ resumer' = [resumer EXCEPT ![c] = None]
        /\ reconciler' = reconciler
    BY <1>2 DEF CreateResumed
  <2>2. new.state = "ready" /\ new.workspace = workspace
    BY DEF NoStatus
  <2>3. /\ workspace \in Prepared /\ status[workspace].state # "absent"
        /\ \A r \in Run: status[r].workspace = workspace => status[r].state \notin Active
    BY <1>a, <2>1 DEF WorkspaceInv, ResumesIdle, WorkspaceMade
  <2>4. \A d \in Resumer \ {c}: resumer[d] # None => status[resumer[d]].workspace # workspace
    BY <2>1 DEF ResumesApart
  <2> HIDE DEF new, workspace
  <2>5. /\ status'[q].state = "ready" /\ status'[q].workspace = workspace
        /\ \A r \in Run \ {q}: status'[r] = status[r]
    BY <2>1, <2>2 DEF WorkspaceInv, IndInv, TypeOK
  <2>6. workspace \in Run /\ status'[workspace].state # "absent"
    BY <2>3, <2>5, NamesAssumption
  <2>7. \A r \in Run: WorkspaceMade(r)' /\ ReconcilesMade(r)'
    BY <2>1, <2>3, <2>5, <2>6, NamesAssumption DEF WorkspaceInv, WorkspaceMade, ReconcilesMade
  <2>8. /\ resumer'[c] = None
        /\ \A d \in Resumer \ {c}: resumer'[d] = resumer[d]
    BY <2>1 DEF WorkspaceInv, IndInv, TypeOK
  <2>9. \A d \in Resumer: ResumesIdle(d)'
    <3> SUFFICES ASSUME NEW d \in Resumer, resumer'[d] # None PROVE ResumesIdle(d)'
      BY DEF ResumesIdle
    <3>1. d # c /\ resumer'[d] = resumer[d] /\ resumer[d] \in Run /\ resumer[d] # None
      BY <1>a, <2>8
    <3>2. ResumesIdle(d) /\ status[resumer[d]].workspace # workspace
      BY <2>4, <3>1 DEF WorkspaceInv
    <3>3. resumer[d] # q /\ status'[resumer[d]] = status[resumer[d]]
      BY <2>1, <2>5, <3>1, <3>2 DEF ResumesIdle
    <3> QED
      BY <2>5, <3>1, <3>2, <3>3 DEF ResumesIdle
  <2>10. OneActiveRun'
    BY <2>3, <2>5 DEF WorkspaceInv, OneActiveRun, Active
  <2> QED
    BY <2>7, <2>9, <2>10 DEF WorkspaceInv
<1> QED
  BY <1>1, <1>2

LEMMA InitWorkspaces == Init => WorkspaceInv
BY InitSound DEF Init, NoStatus, NoReconciler, WorkspaceInv, WorkspaceMade, ReconcilesMade,
   ResumesIdle, OneActiveRun, Terminal, States, Incomplete

LEMMA NextWorkspaces == WorkspaceInv /\ ResumesApart /\ [Next]_vars => WorkspaceInv'
<1> SUFFICES ASSUME WorkspaceInv, ResumesApart, [Next]_vars PROVE WorkspaceInv'
  OBVIOUS
<1>1. IndInv /\ IndInv'
  BY NextSound DEF WorkspaceInv
<1>2. CASE UNCHANGED vars
  BY <1>1, <1>2, KeptWorkspaces DEF vars, Kept
<1>3. ASSUME NEW q \in Run,
             CommandStep(q) \/ WorkerStep(q) \/ StopStep(q) \/ ReconcileStep(q)
               \/ Consume(q) \/ Abort(q) \/ WorkerDies(q) \/ ProviderExits(q)
      PROVE  WorkspaceInv'
  <2>1. CASE Reserve(q)
    BY <1>1, <2>1, ReserveWorkspaces
  <2>2. CASE ~Reserve(q)
    <3>1. ReconcilesMade(q)
      BY DEF WorkspaceInv
    <3>2. \A r \in Run: Kept(r)
      BY <1>1, <1>3, <2>2, <3>1, CommandKeeps, WorkerKeeps, StopKeeps, ReconcileKeeps
    <3> QED
      BY <1>1, <1>3, <3>2, ReconcilersKept, KeptWorkspaces
  <2> QED
    BY <2>1, <2>2
<1>4. ASSUME NEW c \in Resumer, NEW q \in Run, CheckResume(c, q) \/ CreateResumed(c, q)
      PROVE  WorkspaceInv'
  BY <1>1, <1>4, ResumeWorkspaces
<1> QED
  BY <1>2, <1>3, <1>4 DEF Next

\* As long as no two resume commands overlap in one workspace, however many there
\* are, at most one run of a workspace has not ended: stops, reconciliations and
\* late writes never bring an ended run back, and nothing but a resume starts a
\* run in a workspace that exists.  (prepare_resume takes no lock: with two at
\* once it fails, which a run of TLC shows.)
THEOREM OneRunIsActive == Spec /\ []ResumesApart => []OneActiveRun
<1>1. WorkspaceInv => OneActiveRun
  BY DEF WorkspaceInv
<1> QED
  BY <1>1, InitWorkspaces, NextWorkspaces, PTL DEF Spec
=============================================================================
