--------------------------- MODULE RunSupervisor ---------------------------
(***************************************************************************)
(* Supervised runs (src/boule/run_store.py, src/boule/agent_runner.py).    *)
(*                                                                         *)
(* A run has a status file, guarded by a file lock that makes each update  *)
(* and each transition one step, and up to three processes: the command    *)
(* that created it, the worker that supervises it (the same command in a   *)
(* foreground run), and the provider the worker drives.  Meanwhile other   *)
(* commands act on the same status: "run stop", "run status" or "run       *)
(* watch", which reconcile it, and "run resume", which makes a new run in  *)
(* the same workspace.  They read the status, look at processes, and write *)
(* the status, in separate steps.                                          *)
(*                                                                         *)
(* A recorded process identity (pid, group, start time) matches until the  *)
(* process is reaped, and no other process ever matches it, so the status  *)
(* only tells whether an identity is recorded.  What the provider does, and*)
(* whether the clerk's state shows its handoff, are free choices.          *)
(***************************************************************************)
EXTENDS Naturals

CONSTANTS
  Run,       \* run ids
  Prepared,  \* the runs made by prepare_run, each in a clone of its own
  Resumer,   \* processes of "run resume"
  Stopped,   \* bound: the runs somebody stops
  Watched,   \* bound: the runs somebody reconciles
  None       \* no run

ASSUME NamesAssumption ==
  /\ Prepared \subseteq Run
  /\ Stopped \subseteq Run
  /\ Watched \subseteq Run
  /\ None \notin Run

VARIABLES
  status,      \* the status file of each run
  cli,         \* the command that created the run, until it is the worker
  worker,      \* the worker and what it holds in memory
  provider,    \* the provider's process group
  stopper,     \* a process in stop_run
  reconciler,  \* a process in reconcile_run
  resumer      \* a process in prepare_resume

vars == <<status, cli, worker, provider, stopper, reconciler, resumer>>

Incomplete == {"failed", "protocol_incomplete", "timed_out", "stopped", "interrupted"}
Terminal == Incomplete \cup {"completed"}
States == Terminal \cup {"preparing", "ready", "starting", "running", "stop_requested"}

\* "worker" and "provider" tell whether the identity is recorded, "handle"
\* whether the provider session is.
Status == [state: States \cup {"absent"}, stop: BOOLEAN, worker: BOOLEAN,
           provider: BOOLEAN, handle: BOOLEAN, workspace: Run \cup {None}]

NoStatus == [state |-> "absent", stop |-> FALSE, worker |-> FALSE,
             provider |-> FALSE, handle |-> FALSE, workspace |-> None]

\* "gated": waits for the launcher's byte.  "up": in run_worker.  "begun": the
\* run is starting, SIGTERM still kills.  "armed": SIGTERM is only noted.
\* "spawned": the provider is not recorded yet.  "failing": an exception has
\* killed the provider, the status is not written yet.
Unarmed == {"gated", "up", "begun"}
Armed == {"armed", "spawned", "running", "ended", "closing", "failing"}

Worker == [at: {"none"} \cup Unarmed \cup Armed \cup {"done", "dead"}, heard: BOOLEAN,
           termSent: BOOLEAN, timedOut: BOOLEAN,
           turn: {"none", "started", "completed", "failed"},
           verdict: Terminal \cup {"none"}]

NoWorker == [at |-> "none", heard |-> FALSE, termSent |-> FALSE, timedOut |-> FALSE,
             turn |-> "none", verdict |-> "none"]

Launching == {"spawning", "spawned", "recorded", "polling", "checking"}

Stopper == [at: {"idle", "signal", "kill_provider", "kill_worker", "settle"},
            provider: BOOLEAN, worker: BOOLEAN, force: BOOLEAN]

NoStopper == [at |-> "idle", provider |-> FALSE, worker |-> FALSE, force |-> FALSE]

Reconciler == [at: {"idle", "check", "kill", "fail"}, provider: BOOLEAN, worker: BOOLEAN]

NoReconciler == [at |-> "idle", provider |-> FALSE, worker |-> FALSE]

\* One type invariant for the status files and every process of a run.
TypeOK ==
  /\ status \in [Run -> Status]
  /\ cli \in [Run -> {"none", "preparing", "holding", "gone"} \cup Launching]
  /\ worker \in [Run -> Worker]
  /\ provider \in [Run -> {"none", "alive", "asked", "zombie", "gone"}]
  /\ stopper \in [Run -> Stopper]
  /\ reconciler \in [Run -> Reconciler]
  /\ resumer \in [Resumer -> Run \cup {None}]

Init ==
  /\ status = [r \in Run |-> NoStatus]
  /\ cli = [r \in Run |-> "none"]
  /\ worker = [r \in Run |-> NoWorker]
  /\ provider = [r \in Run |-> "none"]
  /\ stopper = [r \in Run |-> NoStopper]
  /\ reconciler = [r \in Run |-> NoReconciler]
  /\ resumer = [c \in Resumer |-> None]

----------------------------------------------------------------------------
(* The status file *)

\* Mutant: an update that names a state does not look at the one on file.
MayUpdateAlways(r, state) == TRUE

\* update refuses to leave a terminal state for another one.
MayUpdate(r, state) == status[r].state \in Terminal => state = status[r].state

SetState(r, state) == status' = [status EXCEPT ![r].state = state]

\* An update that closes the run: no process is recorded any more.
Close(r, state) ==
  status' = [status EXCEPT ![r] =
               [@ EXCEPT !.state = state, !.worker = FALSE, !.provider = FALSE]]

WorkerLives(r) == worker[r].at \in Unarmed \cup Armed

\* process_matches on the provider: an ended child matches until it is reaped.
ProviderMatches(r) == provider[r] \in {"alive", "asked", "zombie"}

\* The provider after SIGTERM, which it may ignore.
AskedToEnd(r) == IF provider[r] = "alive" THEN "asked" ELSE provider[r]

\* The provider after SIGKILL: a child of the worker until the worker waits.
Killed(r) ==
  IF ~ProviderMatches(r) THEN provider[r]
  ELSE IF WorkerLives(r) THEN "zombie" ELSE "gone"

\* The provider once the worker waited for its end.
Reaped(r) == IF ProviderMatches(r) THEN "gone" ELSE provider[r]

\* Mutant: the worker's death leaves the provider alone.
NotOrphaned(r) == IF provider[r] = "zombie" THEN "gone" ELSE provider[r]

\* The kernel asks the provider to end when its parent dies (_die_with_parent).
Orphaned(r) == IF provider[r] = "zombie" THEN "gone" ELSE AskedToEnd(r)

WorkerGoes(r, place) == worker' = [worker EXCEPT ![r].at = place]

\* What a worker held in memory is gone with it.
WorkerEnds(r, place) == worker' = [worker EXCEPT ![r] = [NoWorker EXCEPT !.at = place]]

----------------------------------------------------------------------------
(* The command that makes the run: prepare_run, run_worker, launch_background *)

Reserve(r) ==
  /\ r \in Prepared
  /\ cli[r] = "none" /\ status[r].state = "absent"
  /\ status' = [status EXCEPT ![r] = [NoStatus EXCEPT !.state = "preparing", !.workspace = r]]
  /\ cli' = [cli EXCEPT ![r] = "preparing"]
  /\ UNCHANGED <<worker, provider, stopper, reconciler, resumer>>

PreparationEnds(r) ==
  /\ cli[r] = "preparing" /\ status[r].state = "preparing"
  /\ SetState(r, "ready")
  /\ cli' = [cli EXCEPT ![r] = "holding"]
  /\ UNCHANGED <<worker, provider, stopper, reconciler, resumer>>

\* Any exception of prepare_run, the refused transition to ready included.
PreparationFails(r) ==
  /\ cli[r] = "preparing"
  /\ IF MayUpdate(r, "failed") THEN SetState(r, "failed") ELSE UNCHANGED status
  /\ cli' = [cli EXCEPT ![r] = "gone"]
  /\ UNCHANGED <<worker, provider, stopper, reconciler, resumer>>

RunForeground(r) ==
  /\ cli[r] = "holding"
  /\ WorkerGoes(r, "up")
  /\ cli' = [cli EXCEPT ![r] = "gone"]
  /\ UNCHANGED <<status, provider, stopper, reconciler, resumer>>

LaunchBackground(r) ==
  /\ cli[r] = "holding"
  /\ IF status[r].state = "ready"
     THEN SetState(r, "starting") /\ cli' = [cli EXCEPT ![r] = "spawning"]
     ELSE UNCHANGED status /\ cli' = [cli EXCEPT ![r] = "gone"]
  /\ UNCHANGED <<worker, provider, stopper, reconciler, resumer>>

SpawnWorker(r) ==
  /\ cli[r] = "spawning"
  /\ WorkerGoes(r, "gated")
  /\ cli' = [cli EXCEPT ![r] = "spawned"]
  /\ UNCHANGED <<status, provider, stopper, reconciler, resumer>>

RecordWorker(r) ==
  /\ cli[r] = "spawned"
  /\ status' = [status EXCEPT ![r].worker = TRUE]
  /\ cli' = [cli EXCEPT ![r] = "recorded"]
  /\ UNCHANGED <<worker, provider, stopper, reconciler, resumer>>

OpenGate(r) ==
  /\ cli[r] = "recorded" /\ worker[r].at = "gated"
  /\ WorkerGoes(r, "up")
  /\ cli' = [cli EXCEPT ![r] = "polling"]
  /\ UNCHANGED <<status, provider, stopper, reconciler, resumer>>

\* The worker cannot be started, or died before it got the byte: its exception
\* handler fails the run only from starting.
LaunchFails(r) ==
  /\ \/ cli[r] = "spawning"
     \/ cli[r] = "recorded" /\ ~WorkerLives(r)
  /\ IF status[r].state = "starting" THEN SetState(r, "failed") ELSE UNCHANGED status
  /\ cli' = [cli EXCEPT ![r] = "gone"]
  /\ UNCHANGED <<worker, provider, stopper, reconciler, resumer>>

\* The launcher watches for three seconds: it reads the status, ...
Poll(r) ==
  /\ cli[r] = "polling"
  /\ \/ cli' = [cli EXCEPT ![r] = "gone"]
     \/ status[r].state = "starting" /\ cli' = [cli EXCEPT ![r] = "checking"]
  /\ UNCHANGED <<status, worker, provider, stopper, reconciler, resumer>>

\* ... then looks at the worker, and fails the run if the worker has ended.
PollWorker(r) ==
  /\ cli[r] = "checking"
  /\ IF WorkerLives(r)
     THEN cli' = [cli EXCEPT ![r] = "polling"] /\ UNCHANGED status
     ELSE /\ cli' = [cli EXCEPT ![r] = "gone"]
          /\ IF MayUpdate(r, "failed") THEN SetState(r, "failed") ELSE UNCHANGED status
  /\ UNCHANGED <<worker, provider, stopper, reconciler, resumer>>

CommandDies(r) ==
  /\ cli[r] \notin {"none", "gone"}
  /\ cli' = [cli EXCEPT ![r] = "gone"]
  /\ UNCHANGED <<status, worker, provider, stopper, reconciler, resumer>>

----------------------------------------------------------------------------
(* The worker: _run-worker and _run_worker_locked *)

\* The gate's other end was closed without a byte.
GateCloses(r) ==
  /\ worker[r].at = "gated" /\ cli[r] = "gone"
  /\ WorkerEnds(r, "dead")
  /\ UNCHANGED <<status, cli, provider, stopper, reconciler, resumer>>

\* Mutant: the worker leaves it to a launcher to record it.
BegunUnrecorded(r) == [status[r] EXCEPT !.state = "starting"]

Begun(r) == [status[r] EXCEPT !.state = "starting", !.worker = TRUE]

Begin(r) ==
  /\ worker[r].at = "up"
  /\ IF status[r].state \in {"ready", "starting"}
     THEN /\ status' = [status EXCEPT ![r] = Begun(r)]
          /\ WorkerGoes(r, "begun")
     ELSE UNCHANGED status /\ WorkerEnds(r, "dead")
  /\ UNCHANGED <<cli, provider, stopper, reconciler, resumer>>

\* From here on SIGTERM sets stop_requested instead of ending the worker.
Arm(r) ==
  /\ worker[r].at = "begun"
  /\ WorkerGoes(r, "armed")
  /\ UNCHANGED <<status, cli, provider, stopper, reconciler, resumer>>

StartProvider(r) ==
  /\ worker[r].at = "armed"
  /\ provider' = [provider EXCEPT ![r] = "alive"]
  /\ WorkerGoes(r, "spawned")
  /\ UNCHANGED <<status, cli, stopper, reconciler, resumer>>

\* The recorded state becomes running, also when it was stop_requested: the
\* stop is then known from the status's stop flag alone.
RecordProvider(r) ==
  /\ worker[r].at = "spawned"
  /\ MayUpdate(r, "running")
  /\ status' = [status EXCEPT ![r] = [@ EXCEPT !.state = "running", !.provider = TRUE]]
  /\ WorkerGoes(r, "running")
  /\ UNCHANGED <<cli, provider, stopper, reconciler, resumer>>

\* consume: an event of the provider, read while it runs or after its end.
Consume(r) ==
  /\ worker[r].at \in {"running", "ended"}
  /\ \E turn \in {"started", "completed", "failed"}:
       /\ turn = "started" <=> worker[r].turn = "none"
       /\ worker' = [worker EXCEPT ![r].turn = turn]
  /\ status' = [status EXCEPT ![r].handle = TRUE]
  /\ UNCHANGED <<cli, provider, stopper, reconciler, resumer>>

\* The loop sees the stop and asks the provider to end, once, without force.
NoticeStop(r) ==
  /\ worker[r].at = "running" /\ ~worker[r].termSent
  /\ worker[r].heard \/ status[r].stop
  /\ worker' = [worker EXCEPT ![r] = [@ EXCEPT !.heard = TRUE, !.termSent = TRUE]]
  /\ provider' = [provider EXCEPT ![r] = AskedToEnd(r)]
  /\ UNCHANGED <<status, cli, stopper, reconciler, resumer>>

\* max_seconds are over: the provider's group is killed and waited for.
Expire(r) ==
  /\ worker[r].at = "running"
  /\ worker' = [worker EXCEPT ![r] = [@ EXCEPT !.at = "ended", !.timedOut = TRUE]]
  /\ provider' = [provider EXCEPT ![r] = Reaped(r)]
  /\ UNCHANGED <<status, cli, stopper, reconciler, resumer>>

ProviderPolled(r) ==
  /\ worker[r].at = "running" /\ provider[r] \in {"zombie", "gone"}
  /\ WorkerGoes(r, "ended")
  /\ provider' = [provider EXCEPT ![r] = "gone"]
  /\ UNCHANGED <<status, cli, stopper, reconciler, resumer>>

\* Mutant: only a stop the loop or a signal brought counts.
HeardStop(r) == worker[r].heard

\* The stop flag is read once more before the outcome is decided.
StopSeen(r) == worker[r].heard \/ status[r].stop

\* A failed turn, a bad exit code or malformed output fails the run; a turn
\* that completed may still lack the handoff, or its observation.
Decide(r) ==
  /\ worker[r].at = "ended"
  /\ \E verdict \in Terminal:
       /\ IF StopSeen(r) THEN verdict = "stopped"
          ELSE IF worker[r].timedOut THEN verdict = "timed_out"
          ELSE \/ verdict = "failed"
               \/ /\ worker[r].turn = "completed"
                  /\ verdict \in {"protocol_incomplete", "completed"}
       /\ worker' = [worker EXCEPT ![r] = [@ EXCEPT !.at = "closing", !.verdict = verdict]]
  /\ UNCHANGED <<status, cli, provider, stopper, reconciler, resumer>>

Finish(r) ==
  /\ worker[r].at = "closing"
  /\ status[r].state \in {"running", "stop_requested", "starting"}
  /\ Close(r, worker[r].verdict)
  /\ WorkerEnds(r, "done")
  /\ UNCHANGED <<cli, provider, stopper, reconciler, resumer>>

\* An exception or Ctrl-C: the provider's group is killed before anything is
\* written.
Abort(r) ==
  /\ worker[r].at \in Armed \ {"failing"}
  /\ \E verdict \in {"failed", "interrupted"}:
       worker' = [worker EXCEPT ![r] = [@ EXCEPT !.at = "failing", !.verdict = verdict]]
  /\ provider' = [provider EXCEPT ![r] = Reaped(r)]
  /\ UNCHANGED <<status, cli, stopper, reconciler, resumer>>

\* The update to running, or the last transition, is refused and so raises.
Refused(r) ==
  /\ \/ worker[r].at = "spawned" /\ ~MayUpdate(r, "running")
     \/ worker[r].at = "closing" /\ status[r].state \in Terminal
  /\ Abort(r)

AbortRecorded(r) ==
  /\ worker[r].at = "failing"
  /\ IF MayUpdate(r, worker[r].verdict) THEN Close(r, worker[r].verdict) ELSE UNCHANGED status
  /\ WorkerEnds(r, "dead")
  /\ UNCHANGED <<cli, provider, stopper, reconciler, resumer>>

\* The worker is killed, or fails where no handler is set up.
WorkerDies(r) ==
  /\ WorkerLives(r)
  /\ WorkerEnds(r, "dead")
  /\ provider' = [provider EXCEPT ![r] = Orphaned(r)]
  /\ UNCHANGED <<status, cli, stopper, reconciler, resumer>>

ProviderExits(r) ==
  /\ provider[r] \in {"alive", "asked"}
  /\ provider' = [provider EXCEPT ![r] = IF WorkerLives(r) THEN "zombie" ELSE "gone"]
  /\ UNCHANGED <<status, cli, worker, stopper, reconciler, resumer>>

----------------------------------------------------------------------------
(* stop_run *)

\* The transition returns the status it wrote: the processes recorded in it
\* are the ones looked at from here on.
RequestStop(r) ==
  /\ r \in Stopped
  /\ stopper[r].at = "idle"
  /\ status[r].state \in States \ Terminal
  /\ status' = [status EXCEPT ![r] = [@ EXCEPT !.state = "stop_requested", !.stop = TRUE]]
  /\ \E force \in BOOLEAN:
       stopper' = [stopper EXCEPT ![r] = [at |-> "signal", provider |-> status[r].provider,
                                          worker |-> status[r].worker, force |-> force]]
  /\ UNCHANGED <<cli, worker, provider, reconciler, resumer>>

StopperGoes(r, place) == stopper' = [stopper EXCEPT ![r].at = place]
StopReturns(r) == stopper' = [stopper EXCEPT ![r] = NoStopper]

\* What follows the SIGTERM of terminate_process_group.
AfterSignal(r, kill) == IF stopper[r].force THEN StopperGoes(r, kill) ELSE StopReturns(r)

StopProvider(r) ==
  /\ stopper[r].at = "signal"
  /\ stopper[r].provider /\ ProviderMatches(r)
  /\ provider' = [provider EXCEPT ![r] = AskedToEnd(r)]
  /\ AfterSignal(r, "kill_provider")
  /\ UNCHANGED <<status, cli, worker, reconciler, resumer>>

StopWorker(r) ==
  /\ stopper[r].at = "signal"
  /\ ~(stopper[r].provider /\ ProviderMatches(r))
  /\ stopper[r].worker /\ WorkerLives(r)
  /\ worker' = [worker EXCEPT ![r] = IF worker[r].at \in Armed
                                     THEN [@ EXCEPT !.heard = TRUE]
                                     ELSE [NoWorker EXCEPT !.at = "dead"]]
  /\ AfterSignal(r, "kill_worker")
  /\ UNCHANGED <<status, cli, provider, reconciler, resumer>>

NothingToStop(r) ==
  /\ stopper[r].at = "signal"
  /\ ~(stopper[r].provider /\ ProviderMatches(r))
  /\ ~(stopper[r].worker /\ WorkerLives(r))
  /\ StopperGoes(r, "settle")
  /\ UNCHANGED <<status, cli, worker, provider, reconciler, resumer>>

\* --force: SIGKILL to a group that still matches after the grace.
ForceStop(r) ==
  /\ \/ /\ stopper[r].at = "kill_provider"
        /\ provider' = [provider EXCEPT ![r] = Killed(r)]
        /\ UNCHANGED worker
     \/ /\ stopper[r].at = "kill_worker"
        /\ IF WorkerLives(r)
           THEN WorkerEnds(r, "dead") /\ provider' = [provider EXCEPT ![r] = Orphaned(r)]
           ELSE UNCHANGED <<worker, provider>>
  /\ StopReturns(r)
  /\ UNCHANGED <<status, cli, reconciler, resumer>>

SettleStop(r) ==
  /\ stopper[r].at = "settle"
  /\ IF status[r].state = "stop_requested" THEN SetState(r, "stopped") ELSE UNCHANGED status
  /\ StopReturns(r)
  /\ UNCHANGED <<cli, worker, provider, reconciler, resumer>>

StopperDies(r) ==
  /\ stopper[r].at # "idle"
  /\ StopReturns(r)
  /\ UNCHANGED <<status, cli, worker, provider, reconciler, resumer>>

----------------------------------------------------------------------------
(* reconcile_run *)

\* Mutant: a run that was asked to stop is left to the stop.
ReconciledLess == {"starting", "running"}

Reconciled == {"starting", "running", "stop_requested"}

\* It acts on the status it read; a starting one it only takes after ten
\* seconds, which may always have passed.
ReadStatus(r) ==
  /\ r \in Watched
  /\ reconciler[r].at = "idle"
  /\ status[r].state \in Reconciled
  /\ reconciler' = [reconciler EXCEPT ![r] = [at |-> "check", provider |-> status[r].provider,
                                              worker |-> status[r].worker]]
  /\ UNCHANGED <<status, cli, worker, provider, stopper, resumer>>

ReconcileReturns(r) == reconciler' = [reconciler EXCEPT ![r] = NoReconciler]

CheckWorker(r) ==
  /\ reconciler[r].at = "check"
  /\ IF reconciler[r].worker /\ WorkerLives(r)
     THEN ReconcileReturns(r)
     ELSE reconciler' = [reconciler EXCEPT ![r].at = "kill"]
  /\ UNCHANGED <<status, cli, worker, provider, stopper, resumer>>

KillRecorded(r) ==
  /\ reconciler[r].at = "kill"
  /\ provider' = [provider EXCEPT ![r] = IF reconciler[r].provider THEN Killed(r) ELSE @]
  /\ reconciler' = [reconciler EXCEPT ![r].at = "fail"]
  /\ UNCHANGED <<status, cli, worker, stopper, resumer>>

FailRun(r) ==
  /\ reconciler[r].at = "fail"
  /\ IF MayUpdate(r, "failed") THEN Close(r, "failed") ELSE UNCHANGED status
  /\ ReconcileReturns(r)
  /\ UNCHANGED <<cli, worker, provider, stopper, resumer>>

----------------------------------------------------------------------------
(* prepare_resume *)

\* Mutant: other runs of the workspace are not looked at.
NeverBusy(parent) == FALSE

\* store.list has another run of the parent's workspace that has not ended.
Busy(parent) ==
  \E r \in Run \ {parent}:
    /\ status[r].workspace = status[parent].workspace
    /\ status[r].state \in States \ Terminal

CheckResume(c, parent) ==
  /\ resumer[c] = None
  /\ status[parent].state \in Incomplete
  /\ status[parent].handle
  /\ ~Busy(parent)
  /\ resumer' = [resumer EXCEPT ![c] = parent]
  /\ UNCHANGED <<status, cli, worker, provider, stopper, reconciler>>

\* The new run has a fresh id, is ready at once, and inherits the session.
CreateResumed(c, r) ==
  /\ resumer[c] # None
  /\ r \notin Prepared /\ status[r].state = "absent"
  /\ status' = [status EXCEPT ![r] = [NoStatus EXCEPT !.state = "ready",
                                        !.workspace = status[resumer[c]].workspace]]
  /\ cli' = [cli EXCEPT ![r] = "holding"]
  /\ resumer' = [resumer EXCEPT ![c] = None]
  /\ UNCHANGED <<worker, provider, stopper, reconciler>>

----------------------------------------------------------------------------

\* What launch_background does once it has moved the run to starting.
LaunchStep(r) ==
  \/ SpawnWorker(r) \/ RecordWorker(r) \/ OpenGate(r) \/ LaunchFails(r)
  \/ Poll(r) \/ PollWorker(r)

CommandStep(r) ==
  \/ Reserve(r) \/ PreparationEnds(r) \/ PreparationFails(r) \/ RunForeground(r)
  \/ LaunchBackground(r) \/ LaunchStep(r) \/ CommandDies(r)

\* What a worker that keeps running does by itself.
WorkerStep(r) ==
  \/ GateCloses(r) \/ Begin(r) \/ Arm(r) \/ StartProvider(r) \/ RecordProvider(r)
  \/ NoticeStop(r) \/ Expire(r) \/ ProviderPolled(r) \/ Decide(r) \/ Finish(r)
  \/ Refused(r) \/ AbortRecorded(r)

StopStep(r) ==
  \/ RequestStop(r) \/ StopProvider(r) \/ StopWorker(r) \/ NothingToStop(r)
  \/ ForceStop(r) \/ SettleStop(r) \/ StopperDies(r)

ReconcileStep(r) == ReadStatus(r) \/ CheckWorker(r) \/ KillRecorded(r) \/ FailRun(r)

Next ==
  \/ \E r \in Run: CommandStep(r) \/ WorkerStep(r) \/ StopStep(r) \/ ReconcileStep(r)
  \/ \E r \in Run: Consume(r) \/ Abort(r) \/ WorkerDies(r) \/ ProviderExits(r)
  \/ \E c \in Resumer, r \in Run: CheckResume(c, r) \/ CreateResumed(c, r)

Spec == Init /\ [][Next]_vars

----------------------------------------------------------------------------
(* Safety *)

\* A run cannot move out of a terminal state (docs/agent-runner.md:276),
\* whichever of its processes and of the commands acting on it writes last,
\* on however old a reading of the status.
TerminalIsFinal ==
  [][\A r \in Run: status[r].state \in Terminal => status'[r].state = status[r].state]_vars

\* Once a stop is on file while the provider still runs, the run is never
\* reported as completed, although the worker may have overwritten the state
\* stop_requested with running, and may only learn of the stop at its end.
StopIsNotCompletion ==
  \A r \in Run:
    [](status[r].stop /\ provider[r] \in {"alive", "asked"}
       => [](status[r].state # "completed"))

\* A run that is on file as stopped, interrupted, timed out or finished has no
\* provider that was not at least asked to end, whoever settled it: the stop
\* command settles a run on the processes its own transition read.  (A run
\* that a stale reconciliation failed may: see ReconcilesTheDead.)
SettledIsDown ==
  \A r \in Run:
    status[r].state \in Terminal \ {"failed"} => provider[r] # "alive"

\* Of the runs of one workspace, at most one has not ended
\* ("this workspace already has an active supervised run").
OneActiveRun ==
  \A r, s \in Run:
    /\ {status[r].state, status[s].state} \subseteq States \ Terminal
    /\ status[r].workspace = status[s].workspace
    => r = s

\* Reconciliation fails a run when its recorded supervisor disappeared
\* (reconcile_run's docstring), so never one whose recorded worker lives.
ReconcilesTheDead ==
  [][\A r \in Run:
       FailRun(r) /\ status'[r].state # status[r].state
         => ~(status[r].worker /\ WorkerLives(r))]_vars

----------------------------------------------------------------------------
(* Liveness *)

\* Of the watched runs: a launcher and a worker that are not killed go on;
\* max_seconds pass; somebody keeps reconciling; a provider that is asked to end ends.
FairSpec ==
  /\ Spec
  /\ \A r \in Watched:
       /\ WF_vars(LaunchStep(r))
       /\ WF_vars(WorkerStep(r))
       /\ WF_vars(Expire(r))
       /\ WF_vars(ReconcileStep(r))
       /\ WF_vars(ProviderExits(r) /\ provider[r] = "asked")

\* A watched run that was started or asked to stop gets a terminal state, also
\* when its launcher, its worker or the stop command dies on the way.
RunsEnd ==
  \A r \in Watched:
    status[r].state \in {"starting", "running", "stop_requested"}
      ~> status[r].state \in Terminal

\* No provider runs forever, recorded or not, with or without its worker.
ProvidersEnd ==
  \A r \in Watched: provider[r] = "alive" ~> provider[r] \notin {"alive", "asked"}
=============================================================================
