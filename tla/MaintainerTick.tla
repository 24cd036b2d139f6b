---------------------------- MODULE MaintainerTick ----------------------------
(***************************************************************************)
(* The files that maintainer_tick of src/boule/workspace.py leaves behind. *)
(*                                                                         *)
(* A tick holds the workspace's lock, projects the ledger at the instant   *)
(* its caller named, and writes three files one after the other: the       *)
(* archived receipt, the projection and the current receipt.  It may be    *)
(* killed between them.                                                    *)
(*                                                                         *)
(* An hour is a stretch of time in which the status of a ledger does not   *)
(* change; a status is the count of the events and the hour that it comes  *)
(* from.  The caller fixes the instant before it has the lock, or gives    *)
(* one of his own (--at), and only the last event's time bounds it: a tick *)
(* may be of an earlier hour than the tick before it.                      *)
(*                                                                         *)
(* The archive is a set: its files are numbered, and none is ever removed. *)
(***************************************************************************)
EXTENDS Integers

CONSTANTS MaxHead,  \* bound on the ledger's events
          MaxHour,  \* bound on the hours
          MaxKilled \* bound on the ticks that are killed

ASSUME TickAssumption == MaxHead \in Nat /\ MaxHour \in Nat /\ MaxKilled \in Nat

VARIABLES head, last,  \* the ledger's events, and the hour of the last one
          archive, projection, current,   \* what the ticks have written
          ticking,     \* where the tick under way is
          drawn,       \* and the status that it computed
          killed

tickVars == <<head, last, archive, projection, current, ticking, drawn, killed>>

\* Older than any status.
NoStatus == <<-1, 0>>

TicksInit ==
  /\ head = 0 /\ last = 0
  /\ archive = {} /\ projection = NoStatus /\ current = NoStatus
  /\ ticking = "idle" /\ drawn = NoStatus
  /\ killed = 0

\* An event is appended while no tick holds the lock; receipt times never go back.
AppendEvent ==
  /\ ticking = "idle" /\ head < MaxHead
  /\ head' = head + 1 /\ last' \in last..MaxHour
  /\ UNCHANGED <<archive, projection, current, ticking, drawn, killed>>

\* The tick has the lock: an instant before the last event's is refused, any
\* other is taken, whatever the ticks before were called with.
BeginTick ==
  /\ ticking = "idle"
  /\ \E hour \in last..MaxHour : drawn' = <<head, hour>>
  /\ ticking' = IF current = drawn' THEN "again" ELSE "archive"
  /\ UNCHANGED <<head, last, archive, projection, current, killed>>

\* Nothing new: the current receipt is archived if it is not, and returned.
RepeatTick ==
  /\ ticking = "again"
  /\ archive' = archive \union {current}
  /\ ticking' = "idle" /\ drawn' = NoStatus
  /\ UNCHANGED <<head, last, projection, current, killed>>

\* Mutant: the current receipt is written with the archived one.
ArchiveBothReceipts ==
  /\ ticking = "archive"
  /\ archive' = archive \union {drawn} /\ current' = drawn /\ ticking' = "projection"
  /\ UNCHANGED <<head, last, projection, drawn, killed>>

\* The archived receipt comes first, under a name that numbers it ...
ArchiveReceipt ==
  /\ ticking = "archive"
  /\ archive' = archive \union {drawn} /\ ticking' = "projection"
  /\ UNCHANGED <<head, last, projection, current, drawn, killed>>

\* ... then the projection ...
WriteProjection ==
  /\ ticking = "projection"
  /\ projection' = drawn /\ ticking' = "receipt"
  /\ UNCHANGED <<head, last, archive, current, drawn, killed>>

\* ... and the current receipt last.
WriteCurrent ==
  /\ ticking = "receipt"
  /\ current' = drawn /\ ticking' = "idle" /\ drawn' = NoStatus
  /\ UNCHANGED <<head, last, archive, projection, killed>>

\* The maintainer is killed, and the lock with it.
KillTick ==
  /\ ticking # "idle" /\ killed < MaxKilled
  /\ killed' = killed + 1
  /\ ticking' = "idle" /\ drawn' = NoStatus
  /\ UNCHANGED <<head, last, archive, projection, current>>

TickStep == RepeatTick \/ ArchiveReceipt \/ WriteProjection \/ WriteCurrent

TicksNext == AppendEvent \/ BeginTick \/ TickStep \/ KillTick

TicksSpec == TicksInit /\ [][TicksNext]_tickVars

-----------------------------------------------------------------------------
(* Properties.                                                             *)

\* Wherever ticks are killed and whatever instants they are called with, the
\* receipt and the projection on disk are archived, and the projection is of no
\* earlier head than the receipt.  (It may be of an earlier hour: see InOrder.)
ReceiptIsBacked ==
  /\ current # NoStatus => current \in archive
  /\ projection # NoStatus => projection \in archive
  /\ projection[1] >= current[1]

\* No tick is called with an earlier hour than the projection on disk has: so it
\* is when one watcher ticks by itself, by a clock that does not go back.
InOrder == ticking # "idle" => drawn[2] >= projection[2]

\* The projection on disk is at least as new as the receipt, its hour included.
ProjectionNotBehind ==
  projection[1] >= current[1] /\ projection[2] >= current[2]

\* A killed tick is made good.  In the end the receipt and the projection on disk
\* are of the ledger as it is, and of one hour if the ticks come in order: a tick
\* out of order that is killed before its receipt leaves its projection, and the
\* next tick, which finds its own status in the receipt, lets it stand.
TicksCatchUp ==
  /\ <>[](current[1] = head /\ projection[1] = head)
  /\ []InOrder => <>[](projection = current)

=============================================================================
