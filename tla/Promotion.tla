------------------------------ MODULE Promotion ------------------------------
(***************************************************************************)
(* Retaining the artifacts of one completed run and preparing its ref:  *)
(* src/boule/artifact_promotion.py, with the capture that the supervisor   *)
(* makes when the run ends.                                                *)
(*                                                                         *)
(* The run's signed handoff names the digest of a file of the workspace,  *)
(* which its owner goes on editing.  Promoters are `boule run promote`     *)
(* commands: each captures the file or finds the capture, reads the run's  *)
(* status, makes a commit, and writes the receipt.  They take no common    *)
(* lock, and any of them may be killed between two steps.                  *)
(***************************************************************************)
EXTENDS Integers, Sequences

CONSTANTS Promoters, MaxKills, MaxCommits

ASSUME PromotionAssumption == MaxKills \in Nat /\ MaxCommits \in Nat

VARIABLES artifact,      \* the artifact in the workspace
          retained,  \* the captured bytes, "none" before the capture
          captured,  \* the run's status names the capture
          ref,    \* the commit the handoff branch points to, 0 for none
          commits,   \* the bytes of each commit, by its number
          receipt,   \* the commit in the run's promotion receipt, 0 for none
          stage,     \* where each promoter is
          copied,    \* the bytes in its temporary directory
          found,     \* the receipt it read
          made,      \* the commit it made
          kills

promoter == <<stage, copied, found, made>>
promotionVars == <<artifact, retained, captured, ref, commits, receipt, promoter, kills>>

PromotionInit ==
  /\ artifact = "signed" /\ retained = "none" /\ captured = FALSE
  /\ ref = 0 /\ commits = <<>> /\ receipt = 0
  /\ stage = [p \in Promoters |-> "idle"]
  /\ copied = [p \in Promoters |-> "none"]
  /\ found = [p \in Promoters |-> 0]
  /\ made = [p \in Promoters |-> 0]
  /\ kills = 0

Stage(p, s) == stage' = [stage EXCEPT ![p] = s]

\* The command ends, with its answer or with an error.
Quit(p) ==
  /\ Stage(p, "idle")
  /\ copied' = [copied EXCEPT ![p] = "none"]
  /\ found' = [found EXCEPT ![p] = 0]
  /\ made' = [made EXCEPT ![p] = 0]

\* The owner of the workspace edits the artifact, or puts it back.
EditFile ==
  /\ artifact' = IF artifact = "signed" THEN "edited" ELSE "signed"
  /\ UNCHANGED <<retained, captured, ref, commits, receipt, promoter, kills>>

\* The run is complete and the clerk still shows its handoff.  A capture that
\* is there is used as it is.
FindCapture(p) ==
  /\ stage[p] = "idle"
  /\ Stage(p, IF retained = "none" THEN "copy" ELSE "update")
  /\ UNCHANGED <<artifact, retained, captured, ref, commits, receipt, copied, found,
                 made, kills>>

CopyArtifact(p) ==
  /\ stage[p] = "copy"
  /\ copied' = [copied EXCEPT ![p] = artifact]
  /\ Stage(p, "check")
  /\ UNCHANGED <<artifact, retained, captured, ref, commits, receipt, found, made, kills>>

\* The digest that was signed decides.
DigestMatches(p) == copied[p] = "signed"

\* The temporary directory becomes the capture in one rename, which fails when
\* another capture was there first.
KeepCapture(p) ==
  /\ stage[p] = "check"
  /\ IF DigestMatches(p) /\ retained = "none"
     THEN /\ retained' = copied[p] /\ Stage(p, "update")
          /\ UNCHANGED <<copied, found, made>>
     ELSE Quit(p) /\ UNCHANGED retained
  /\ UNCHANGED <<artifact, captured, ref, commits, receipt, kills>>

\* store.update returns the status, and the receipt in it is what p goes by.
NoteCapture(p) ==
  /\ stage[p] = "update"
  /\ captured' = TRUE
  /\ found' = [found EXCEPT ![p] = receipt]
  /\ Stage(p, "decide")
  /\ UNCHANGED <<artifact, retained, ref, commits, receipt, copied, made, kills>>

\* With a receipt the command only checks the branch, and without a
\* confirmation it only shows the preview.
Answer(p) ==
  /\ stage[p] = "decide"
  /\ Quit(p)
  /\ UNCHANGED <<artifact, retained, captured, ref, commits, receipt, kills>>

Confirm(p) ==
  /\ stage[p] = "decide" /\ found[p] = 0
  /\ IF ref = 0 THEN Stage(p, "commit") /\ UNCHANGED <<copied, found, made>>
     ELSE Quit(p)
  /\ UNCHANGED <<artifact, retained, captured, ref, commits, receipt, kills>>

\* The commit is made from the retained bytes.
MakeCommit(p) ==
  /\ stage[p] = "commit" /\ Len(commits) < MaxCommits
  /\ commits' = Append(commits, retained)
  /\ made' = [made EXCEPT ![p] = Len(commits) + 1]
  /\ Stage(p, "ref")
  /\ UNCHANGED <<artifact, retained, captured, ref, receipt, copied, found, kills>>

\* Mutant: the branch is moved when it exists.
MayMoveRef == TRUE

\* update-ref with the null id creates the branch and moves none.
MayCreateRef == ref = 0

CreateBranch(p) ==
  /\ stage[p] = "ref"
  /\ IF MayCreateRef
     THEN ref' = made[p] /\ Stage(p, "receipt") /\ UNCHANGED <<copied, found, made>>
     ELSE Quit(p) /\ UNCHANGED ref
  /\ UNCHANGED <<artifact, retained, captured, commits, receipt, kills>>

WriteReceipt(p) ==
  /\ stage[p] = "receipt"
  /\ receipt' = made[p]
  /\ Quit(p)
  /\ UNCHANGED <<artifact, retained, captured, ref, commits, kills>>

Kill(p) ==
  /\ stage[p] # "idle" /\ kills < MaxKills
  /\ kills' = kills + 1
  /\ Quit(p)
  /\ UNCHANGED <<artifact, retained, captured, ref, commits, receipt>>

PromotionNext ==
  \/ EditFile
  \/ \E p \in Promoters :
       \/ FindCapture(p) \/ CopyArtifact(p) \/ KeepCapture(p) \/ NoteCapture(p)
       \/ Answer(p) \/ Confirm(p) \/ MakeCommit(p) \/ CreateBranch(p)
       \/ WriteReceipt(p) \/ Kill(p)

PromotionSpec == PromotionInit /\ [][PromotionNext]_promotionVars

-----------------------------------------------------------------------------
(* Properties.                                                             *)

\* The branch carries the bytes that were signed, whatever the workspace holds
\* when the capture, the commit or the branch is made.
BranchIsSigned == ref # 0 => commits[ref] = "signed"

\* A receipt names the commit of the branch: of two commands that were both
\* confirmed, one creates the branch and only that one writes a receipt.
ReceiptIsBranch == receipt # 0 => receipt = ref

\* A branch has its receipt unless the command that made it was killed or is
\* about to write it.  After such a kill every later command is refused.
BranchHasReceipt ==
  ref = 0 \/ receipt = ref \/ kills > 0
    \/ \E p \in Promoters : stage[p] = "receipt" /\ made[p] = ref

\* One branch, of the signed bytes, and its receipt: however many promotions of
\* the run go on while its owner edits the file (promote_run_artifacts).
PromotedOnce == BranchIsSigned /\ ReceiptIsBranch /\ BranchHasReceipt

=============================================================================
