----------------------------- MODULE AppendOnce -----------------------------
(***************************************************************************)
(* What a caller of RemoteClient.append may rely on, whatever the network  *)
(* and the crashes do: the clerk orders the event of a call at most once;  *)
(* a call is confirmed only when its event is ordered; and a call that     *)
(* failed with nothing left to recover is never ordered afterwards.  Only  *)
(* a call whose outcome is unknown may still turn out either way.          *)
(***************************************************************************)
EXTENDS Sequences, Naturals

CONSTANTS Call,    \* calls of append, one event each
          Other    \* an event somebody else appended

VARIABLES ordered,   \* the event log: whose event is at each position
          outcome    \* what is known of each call in the caller's directory

vars == <<ordered, outcome>>

Events == {ordered[i] : i \in DOMAIN ordered}

Init ==
  /\ ordered = << >>
  /\ outcome = [c \in Call |-> "pending"]

Order(c) ==
  /\ outcome[c] \in {"pending", "unknown"}
  /\ c \notin Events
  /\ ordered' = Append(ordered, c)
  /\ UNCHANGED outcome

OrderOther ==
  /\ ordered' = Append(ordered, Other)
  /\ UNCHANGED outcome

Confirm(c) ==
  /\ outcome[c] \in {"pending", "unknown"}
  /\ c \in Events
  /\ outcome' = [outcome EXCEPT ![c] = "confirmed"]
  /\ UNCHANGED ordered

Fail(c) ==
  /\ outcome[c] = "pending"
  /\ c \notin Events
  /\ outcome' = [outcome EXCEPT ![c] = "failed"]
  /\ UNCHANGED ordered

LoseTrack(c) ==
  /\ outcome[c] = "pending"
  /\ outcome' = [outcome EXCEPT ![c] = "unknown"]
  /\ UNCHANGED ordered

Next ==
  \/ OrderOther
  \/ \E c \in Call : Order(c) \/ Confirm(c) \/ Fail(c) \/ LoseTrack(c)

Spec == Init /\ [][Next]_vars

=============================================================================
