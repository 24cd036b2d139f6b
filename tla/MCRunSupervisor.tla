--------------------------- MODULE MCRunSupervisor ---------------------------
(* Finite instances of RunSupervisor for TLC: named runs and resumers.        *)
EXTENDS RunSupervisor

CONSTANTS r1, r2, r3, c1, c2

VARIABLE scene

\* Two scenes of the same system: in one, other commands stop and reconcile the
\* first run; in the other, a run and what is resumed from it go their way.
MCInit == Init /\ scene \in {"commands", "resumes"}

\* Resumed runs differ in nothing but their name: r2 is made before r3.
MCNext ==
  /\ Next /\ UNCHANGED scene
  /\ scene = "commands" => UNCHANGED resumer
  /\ scene = "resumes" => UNCHANGED <<stopper, reconciler>>
  /\ status'[r3].state = "absent" \/ status[r2].state # "absent"

\* The fairness of FairSpec, in which nobody reconciles in the second scene.
MCSpec ==
  /\ MCInit /\ [][MCNext]_<<vars, scene>>
  /\ \A r \in Watched:
       /\ WF_vars(LaunchStep(r))
       /\ WF_vars(WorkerStep(r))
       /\ WF_vars(Expire(r))
       /\ WF_vars(ReconcileStep(r) /\ scene = "commands")
       /\ WF_vars(ProviderExits(r) /\ provider[r] = "asked")

\* RunsEnd where the runs are watched.
WatchedRunsEnd == scene = "commands" => RunsEnd
=============================================================================
