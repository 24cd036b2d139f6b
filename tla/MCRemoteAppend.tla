--------------------------- MODULE MCRemoteAppend ---------------------------
(* Finite instances of RemoteAppend for TLC.  Request ids are fresh UUIDs, so *)
(* that it is enough to draw them in the order of Draws.                      *)
EXTENDS RemoteAppend

CONSTANTS c1, c2, h1, h2, r1, r2, r3, r4

VARIABLE scene

Draws == <<r1, r2, r3, r4>>

\* Two scenes of the same system: two calls that compete, with one recovery and
\* no post that outlives its client; and one call whose requests two recoveries
\* take up, with such posts and with more events of other clones.
MCInit == Init /\ scene \in {"calls", "recoveries"}

Bound(others, posts) ==
  /\ Len(SelectSeq(log', LAMBDA r : r = None)) <= others
  /\ \A r \in Request : adrift'[r] <= posts

MCNext ==
  /\ Next /\ UNCHANGED scene
  /\ \A i \in 1..3 : callOf'[Draws[i]] = None => callOf'[Draws[i + 1]] = None
  /\ scene = "calls" => Bound(1, 0) /\ proc'[h2] = proc[h2]
  /\ scene = "recoveries" => proc'[c2] = proc[c2]

\* The fairness of FairSpec.
MCSpec ==
  /\ MCInit /\ [][MCNext]_<<vars, scene>>
  /\ WF_vars(CallStep(c1))
  /\ WF_vars(CallStep(c2) /\ scene = "calls")

=============================================================================
