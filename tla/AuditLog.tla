------------------------------ MODULE AuditLog ------------------------------
(***************************************************************************)
(* The runtime's durable log: a file of one line per record, appended and  *)
(* synced before the append returns, loaded as a whole at a start, and     *)
(* compacted between a load and a start by writing a second file and       *)
(* renaming twice.  A write may be short, an append may throw, and the     *)
(* process may die anywhere, also between the two renames.                 *)
(*                                                                         *)
(* The file is the set of its records' entries, ordered by their ids: the  *)
(* only other things a load depends on are whether some line is malformed  *)
(* and whether the last line ends in a newline, because the next record is *)
(* glued to a line that does not.                                          *)
(***************************************************************************)
EXTENDS Naturals

CONSTANTS Record,        \* what can be recorded
          Key(_),        \* SUPERSEDED: the key under which only the latest counts
          NoKey,         \* the key of a record that is never superseded
          MaxFaults      \* bound on crashes, failed and short writes of a behaviour

ASSUME BoundAssumption == MaxFaults \in Nat

VARIABLES phase,         \* "down", "copied", "moved" (while compacting) or "open"
          present,       \* whether there is a file at the path
          file,          \* the entries of its lines
          malformed,     \* some line is not one whole record
          ended,         \* the file ends in a newline, or is empty
          copy,          \* the compacted copy beside it
          events,        \* the loaded log in memory
          next,          \* the next id
          acked,         \* ghost: the entries whose append returned
          tried,         \* ghost: the entries whose append did not
          lost,          \* ghost: the process died between the two renames
          faults         \* crashes, failed and short writes so far

disk == <<present, file, malformed, ended, copy>>
ghosts == <<acked, tried, lost>>
logVars == <<phase, disk, events, next, ghosts, faults>>

Entry == [id : Nat, rec : Record]

LogTypeOK ==
  /\ phase \in {"down", "copied", "moved", "open"}
  /\ present \in BOOLEAN /\ malformed \in BOOLEAN /\ ended \in BOOLEAN /\ lost \in BOOLEAN
  /\ file \subseteq Entry /\ copy \subseteq Entry /\ events \subseteq Entry
  /\ acked \subseteq Entry /\ tried \subseteq Entry
  /\ next \in Nat /\ faults \in 0..MaxFaults

LogInit ==
  /\ phase = "down" /\ present = FALSE /\ file = {} /\ malformed = FALSE /\ ended = TRUE
  /\ copy = {} /\ events = {} /\ next = 1
  /\ acked = {} /\ tried = {} /\ lost = FALSE /\ faults = 0

EntryOf(r) == [id |-> next, rec |-> r]

\* The bytes of one append reach the file: the whole line, the line without its newline,
\* or the beginning of it.
Write(r, whole, newline) ==
  /\ file' = file \cup {EntryOf(r)}
  /\ malformed' = (malformed \/ ~ended \/ ~whole)
  /\ ended' = newline
  /\ UNCHANGED <<present, copy>>

Written(r) == \/ Write(r, TRUE, TRUE) \/ Write(r, TRUE, FALSE) \/ Write(r, FALSE, FALSE)

Fault == faults < MaxFaults /\ faults' = faults + 1

\* append: written, synced, then taken into memory.  The count writeSync returns is not read,
\* so a short write is acknowledged too.
Appended(r) ==
  /\ phase = "open"
  /\ \/ Write(r, TRUE, TRUE) /\ UNCHANGED faults
     \/ /\ Fault
        /\ Write(r, TRUE, FALSE) \/ Write(r, FALSE, FALSE)
  /\ events' = events \cup {EntryOf(r)} /\ acked' = acked \cup {EntryOf(r)}
  /\ next' = next + 1
  /\ UNCHANGED <<phase, tried, lost>>

\* The write or the sync throws; whatever was written stays in the file.
AppendFails(r) ==
  /\ phase = "open" /\ Fault
  /\ Written(r) \/ UNCHANGED disk
  /\ tried' = tried \cup {EntryOf(r)} /\ next' = next + 1
  /\ UNCHANGED <<phase, events, acked, lost>>

\* The process dies inside an append.
DiesAppending(r) ==
  /\ phase = "open" /\ Fault
  /\ Written(r)
  /\ tried' = tried \cup {EntryOf(r)} /\ next' = next + 1
  /\ phase' = "down" /\ events' = {}
  /\ UNCHANGED <<acked, lost>>

\* The process dies outside an append.  Between the two renames there is no file at the path.
Dies ==
  /\ phase # "down" /\ Fault
  /\ lost' = (lost \/ phase = "moved")
  /\ IF phase = "moved" THEN acked' = {} /\ tried' = {} ELSE UNCHANGED <<acked, tried>>
  /\ phase' = "down" /\ events' = {}
  /\ UNCHANGED <<disk, next>>

Superseded(e, S) ==
  \E f \in S : f.id > e.id /\ Key(f.rec) = Key(e.rec) /\ Key(e.rec) # NoKey

Kept(S) == {e \in S : ~Superseded(e, S)}

\* compactAuditLog: load, write what is kept to a copy, move the log away, move the copy in.
Compact ==
  /\ phase = "down" /\ present /\ ~malformed /\ Kept(file) # file
  /\ copy' = Kept(file) /\ phase' = "copied"
  /\ UNCHANGED <<present, file, malformed, ended, events, next, ghosts, faults>>

MoveAway ==
  /\ phase = "copied"
  /\ phase' = "moved" /\ present' = FALSE /\ file' = {} /\ malformed' = FALSE /\ ended' = TRUE
  /\ UNCHANGED <<copy, events, next, ghosts, faults>>

MoveIn ==
  /\ phase = "moved"
  /\ phase' = "down" /\ present' = TRUE /\ file' = copy /\ copy' = {}
  /\ UNCHANGED <<malformed, ended, events, next, ghosts, faults>>

\* Mutant: a log with a malformed line is opened without its last line.
OpenLenient ==
  /\ phase = "down"
  /\ phase' = "open" /\ present' = TRUE
  /\ events' = {e \in file : malformed => \E f \in file : f.id > e.id}
  /\ UNCHANGED <<file, malformed, ended, copy, next, ghosts, faults>>

\* createFileAuditRepository: a malformed line refuses the log; no file is an empty log.
Open ==
  /\ phase = "down" /\ ~malformed
  /\ phase' = "open" /\ present' = TRUE /\ events' = file
  /\ UNCHANGED <<file, malformed, ended, copy, next, ghosts, faults>>

LogNext ==
  \/ \E r \in Record : Appended(r) \/ AppendFails(r) \/ DiesAppending(r)
  \/ Dies \/ Compact \/ MoveAway \/ MoveIn \/ Open

LogSpec == LogInit /\ [][LogNext]_logVars
-----------------------------------------------------------------------------
Keeps(S, A) == \A e \in A : e \in S \/ Superseded(e, S)

\* While the log is open a reader sees every record whose append returned, or a later record
\* of the same key, and nothing that was never appended: across crashes inside an append,
\* failed and short writes and compactions (fileAudit.ts:10-16).  A log lost between the two
\* renames counts from its loss on.
NothingDropped ==
  phase = "open" => Keeps(events, acked) /\ events \subseteq acked \cup tried

\* The log implements StableLog: the file, the copy and the renames never show, but as a
\* refused start and as the one loss.
Stable == INSTANCE StableLog WITH view <- events, open <- phase = "open"
ImplementsStableLog == Stable!Spec
=============================================================================
