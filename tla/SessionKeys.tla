----------------------------- MODULE SessionKeys -----------------------------
(***************************************************************************)
(* The controller and session keys of a clone: src/boule/session_store.py. *)
(*                                                                         *)
(* A starter is one `session start` command.  It creates private files one *)
(* by one, each by an exclusive link, and then has its event appended, by  *)
(* the workspace itself or by an external appender (a clerk).  A key is    *)
(* named by the starter that generated it.                                 *)
(***************************************************************************)
EXTENDS Integers

CONSTANTS Starters, NoKey,
          External,   \* the starters whose event a clerk appends
          MaxStops    \* bound on interruptions and crashes

ASSUME KeysAssumption ==
  External \subseteq Starters /\ NoKey \notin Starters /\ MaxStops \in Nat

VARIABLES controller,  \* the controller key file
          key, profile,\* the sessions whose key, whose profile exists
          pinned,      \* the controller key that the ledger has pinned
          started,     \* the sessions the ledger has
          using,       \* the controller key each starter holds
          phase,       \* where each starter is
          lost,        \* sessions whose local command was stopped after its event
          stops

keyVars == <<controller, key, profile, pinned, started, using, phase, lost, stops>>

KeysInit ==
  /\ controller = NoKey /\ pinned = NoKey
  /\ key = {} /\ profile = {} /\ started = {} /\ lost = {}
  /\ using = [s \in Starters |-> NoKey]
  /\ phase = [s \in Starters |-> "new"]
  /\ stops = 0

-----------------------------------------------------------------------------
(* SessionStore.start.                                                     *)

To(s, p) == phase' = [phase EXCEPT ![s] = p]

\* The controller's key is loaded, or a new one is generated.
LoadController(s) ==
  /\ phase[s] = "new"
  /\ using' = [using EXCEPT ![s] = IF controller = NoKey THEN s ELSE controller]
  /\ To(s, IF controller = NoKey THEN "controller" ELSE "key")
  /\ UNCHANGED <<controller, key, profile, pinned, started, lost, stops>>

\* The new key is linked into place.  Another one that is there by now differs
\* from it, and the command fails.
LinkController(s) ==
  /\ phase[s] = "controller"
  /\ IF controller = NoKey
     THEN controller' = using[s] /\ To(s, "key")
     ELSE To(s, "failed") /\ UNCHANGED controller
  /\ UNCHANGED <<key, profile, pinned, started, using, lost, stops>>

WriteSessionKey(s) ==
  /\ phase[s] = "key"
  /\ key' = key \cup {s} /\ To(s, "profile")
  /\ UNCHANGED <<controller, profile, pinned, started, using, lost, stops>>

WriteProfile(s) ==
  /\ phase[s] = "profile"
  /\ profile' = profile \cup {s} /\ To(s, "append")
  /\ UNCHANGED <<controller, key, pinned, started, using, lost, stops>>

\* The ledger takes session_started under the controller's key, the first one
\* it sees for the controller, or refuses it.
AcceptStart(s) ==
  /\ phase[s] = "append"
  /\ pinned \in {NoKey, using[s]}
  /\ pinned' = using[s] /\ started' = started \cup {s}
  /\ To(s, "accepted")
  /\ UNCHANGED <<controller, key, profile, using, lost, stops>>

\* Mutant: a command with an external appender cleans up too.
CleanUpAlways(s) == key' = key \ {s} /\ profile' = profile \ {s}

\* The append is refused, or its answer is lost, or the command is interrupted
\* in it: a local command removes the session's key and profile, and one with
\* an external appender keeps them.
CleanUp(s) ==
  IF s \in External THEN UNCHANGED <<key, profile>>
  ELSE key' = key \ {s} /\ profile' = profile \ {s}

FailAppend(s) ==
  /\ phase[s] \in {"append", "accepted"} /\ stops < MaxStops
  /\ stops' = stops + 1
  /\ CleanUp(s)
  /\ lost' = IF phase[s] = "accepted" /\ s \notin External THEN lost \cup {s} ELSE lost
  /\ To(s, "failed")
  /\ UNCHANGED <<controller, pinned, started, using>>

ReturnStarted(s) ==
  /\ phase[s] = "accepted" /\ To(s, "started")
  /\ UNCHANGED <<controller, key, profile, pinned, started, using, lost, stops>>

\* The command is killed: nothing is cleaned up.
KillStart(s) ==
  /\ phase[s] \notin {"new", "started", "failed"} /\ stops < MaxStops
  /\ stops' = stops + 1 /\ To(s, "failed")
  /\ UNCHANGED <<controller, key, profile, pinned, started, using, lost>>

KeysNext ==
  \E s \in Starters :
    \/ LoadController(s) \/ LinkController(s) \/ WriteSessionKey(s) \/ WriteProfile(s)
    \/ AcceptStart(s) \/ FailAppend(s) \/ ReturnStarted(s) \/ KillStart(s)

KeysSpec == KeysInit /\ [][KeysNext]_keyVars

-----------------------------------------------------------------------------
(* Properties.                                                             *)

\* A session that the ledger has can be used: its key and profile are on disk,
\* and so is the controller key that the ledger pinned.  Except for a local
\* command that is interrupted after the ledger took its event (start).
StartedHasKeys ==
  /\ started \ lost \subseteq key \cap profile
  /\ started # {} => controller = pinned

=============================================================================
