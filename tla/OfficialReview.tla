--------------------------- MODULE OfficialReview ---------------------------
(***************************************************************************)
(* What the external evaluator of a case may rely on, whatever sessions    *)
(* seal meanwhile: submissions reach it one at a time and never twice; one *)
(* that is turned down makes room for the next; and one that is accepted   *)
(* stays, so that only its acceptance can solve the case.                  *)
(***************************************************************************)
CONSTANT Submission

VARIABLES seen,    \* the submissions made so far
          atHand,  \* those not turned down: one, or none
          stage

vars == <<seen, atHand, stage>>

Init == seen = {} /\ atHand = {} /\ stage = "idle"

Submit(u) ==
  /\ stage = "idle" /\ stage' = "verifying"
  /\ u \notin seen /\ seen' = seen \cup {u}
  /\ atHand' = {u}

TurnDown ==
  /\ stage \in {"verifying", "reviewing"} /\ stage' = "idle"
  /\ atHand' = {} /\ UNCHANGED seen

Advance(from, to) ==
  /\ stage = from /\ stage' = to
  /\ UNCHANGED <<seen, atHand>>

Next ==
  \/ \E u \in Submission : Submit(u)
  \/ TurnDown
  \/ Advance("verifying", "reviewing")
  \/ Advance("reviewing", "accepted")
  \/ Advance("accepted", "solved")

Spec == Init /\ [][Next]_vars

=============================================================================
