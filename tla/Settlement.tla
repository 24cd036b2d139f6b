----------------------------- MODULE Settlement -----------------------------
(***************************************************************************)
(* What the participants of a sealed community case may rely on, however   *)
(* the ballots fall and in whatever order the legs are paid: a case is     *)
(* decided at most once; something is due only to those entitled; whoever  *)
(* is due something is paid it once, whole and out of the pot; and the pot *)
(* is empty exactly when nothing is due any more, which settles the case.  *)
(***************************************************************************)
EXTENDS Integers

CONSTANT Party

VARIABLES entitled,  \* those whose work the result rests on
          pot,       \* what is left of the bounty
          due,       \* what is still to be paid to each party
          verdict

vars == <<entitled, pot, due, verdict>>

NothingDue == [p \in Party |-> 0]

Init ==
  /\ entitled \subseteq Party /\ pot \in Nat \ {0}
  /\ due = NothingDue /\ verdict = "open"

Decline ==
  /\ verdict = "open" /\ verdict' = "declined"
  /\ UNCHANGED <<entitled, pot, due>>

Decide ==
  /\ verdict = "open" /\ verdict' = "decided"
  /\ due' \in [Party -> 0..pot] /\ due' # NothingDue
  /\ \A p \in Party : due'[p] > 0 => p \in entitled
  /\ UNCHANGED <<entitled, pot>>

Pay(p) ==
  /\ verdict = "decided" /\ due[p] \in 1..pot
  /\ pot' = pot - due[p] /\ due' = [due EXCEPT ![p] = 0]
  /\ pot' = 0 <=> due' = NothingDue
  /\ verdict' = IF pot' = 0 THEN "settled" ELSE "decided"
  /\ UNCHANGED entitled

Next == Decline \/ Decide \/ \E p \in Party : Pay(p)

Spec == Init /\ [][Next]_vars

=============================================================================
