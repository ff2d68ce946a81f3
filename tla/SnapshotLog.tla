----------------------------- MODULE SnapshotLog -----------------------------
(***************************************************************************)
(* The snapshot log of one platform: DailyParquetWriter buffers the rows   *)
(* of every tick and flushes them into the file of the day on which it     *)
(* last rolled over.  The disk may refuse a file or a write, the process   *)
(* may be killed or stop at any time, and ReplayStream reads the files     *)
(* back, day by day.                                                       *)
(***************************************************************************)
EXTENDS Naturals, FiniteSets

CONSTANTS
  Width,      \* rows of one fetch_snapshot, in the order fetched
  MaxBuffer,  \* max_buffer_size
  Days,       \* bound on the days
  Ticks,      \* bound on the ticks
  MaxStops    \* bound: how often the process ends

ASSUME LogAssumption ==
  /\ Width \in Nat \ {0} /\ MaxBuffer \in Nat \ {0}
ASSUME BoundAssumption == Days \in Nat \ {0} /\ Ticks \in Nat /\ MaxStops \in Nat

Day == 1 .. Days
Row == (1 .. Ticks) \X (1 .. Width)

VARIABLES
  today,     \* the UTC date
  tick,      \* fetches so far: those of a fetch have a later fetched_at than earlier ones
  up,        \* whether the process runs
  buffer,    \* memory: _buffer
  current,   \* memory: _current_date, 0 for None
  writing,   \* memory: whether _writer is open
  file,      \* the rows of each day's file, once it is closed
  accepted,  \* history: rows this process took into its buffer
  stops      \* how often the process ended

vars == <<today, tick, up, buffer, current, writing, file, accepted, stops>>

TypeOK ==
  /\ today \in Day
  /\ tick \in 0 .. Ticks
  /\ up \in BOOLEAN /\ writing \in BOOLEAN
  /\ buffer \subseteq Row /\ Cardinality(buffer) <= MaxBuffer
  /\ current \in 0 .. today
  /\ file \in [Day -> SUBSET Row]
  /\ accepted \subseteq Row
  /\ stops \in 0 .. MaxStops

Init ==
  /\ today = 1 /\ tick = 0
  /\ up = FALSE
  /\ buffer = {} /\ current = 0 /\ writing = FALSE
  /\ file = [d \in Day |-> {}]
  /\ accepted = {}
  /\ stops = 0

Start ==
  /\ ~up
  /\ up' = TRUE
  /\ accepted' = {}
  /\ UNCHANGED <<today, tick, buffer, current, writing, file, stops>>

Midnight ==
  /\ today < Days
  /\ today' = today + 1
  /\ UNCHANGED <<tick, up, buffer, current, writing, file, accepted, stops>>

Rolled == writing /\ current = today

(* _rollover_if_needed on a working disk: opening a file truncates it.     *)
FileOpened == IF Rolled THEN file ELSE [file EXCEPT ![today] = {}]

(* Mutant: a rollover starts with an empty buffer.                         *)
CarriedAfresh == IF Rolled THEN buffer ELSE {}

(* A rollover carries the buffered rows over, into the new day's file.     *)
Carried == buffer

(* Mutant: rows beyond the ceiling are appended all the same.              *)
RoomUnbounded(rows) == rows

(* The rows of a tick that fit under max_buffer_size; the others are       *)
(* dropped and counted.                                                    *)
Room(rows) == { r \in rows : r[2] <= MaxBuffer - Cardinality(buffer) }

Fetched == { <<tick + 1, k>> : k \in 1 .. Width }

(* write_many that leaves its rows in the buffer: neither is the batch     *)
(* full nor the flush interval over, or the flush raised.                  *)
WriteMany ==
  /\ up /\ tick < Ticks
  /\ tick' = tick + 1
  /\ current' = today /\ writing' = TRUE
  /\ file' = FileOpened
  /\ buffer' = Carried \cup Room(Fetched)
  /\ accepted' = accepted \cup Room(Fetched)
  /\ UNCHANGED <<today, up, stops>>

(* Mutant: a flush writes one row of each tick and keeps the others.       *)
KeptTail(rows) == { r \in rows : r[2] > 1 }

(* What a flush leaves in the buffer.                                      *)
Kept(rows) == {}

(* write_many that flushes: a full batch, or the interval is over.         *)
WriteManyFlush ==
  /\ up /\ tick < Ticks
  /\ tick' = tick + 1
  /\ current' = today /\ writing' = TRUE
  /\ LET rows == Carried \cup Room(Fetched)
     IN  /\ file' = [FileOpened EXCEPT ![today] = @ \cup (rows \ Kept(rows))]
         /\ buffer' = Kept(rows)
  /\ accepted' = accepted \cup Room(Fetched)
  /\ UNCHANGED <<today, up, stops>>

(* The new day's file cannot be created: the prior one is closed already,  *)
(* the rows of this tick are lost with the exception.                      *)
WriteManyRefused ==
  /\ up /\ tick < Ticks
  /\ ~Rolled
  /\ tick' = tick + 1
  /\ current' = today /\ writing' = FALSE
  /\ UNCHANGED <<today, up, buffer, file, accepted, stops>>

(* flush, at the end of every cycle: into the file last rolled to.         *)
Flush ==
  /\ up
  /\ buffer # {} /\ writing
  /\ file' = [file EXCEPT ![current] = @ \cup (buffer \ Kept(buffer))]
  /\ buffer' = Kept(buffer)
  /\ UNCHANGED <<today, tick, up, current, writing, accepted, stops>>

Ended ==
  /\ up /\ stops < MaxStops
  /\ up' = FALSE
  /\ stops' = stops + 1
  /\ buffer' = {} /\ current' = 0 /\ writing' = FALSE

(* close, with its last flush.                                             *)
Stop ==
  /\ Ended
  /\ file' = IF writing THEN [file EXCEPT ![current] = @ \cup buffer] ELSE file
  /\ UNCHANGED <<today, tick, accepted>>

(* kill -9, or a last flush that raises before the writer is closed: the   *)
(* open file is left without its footer, and no reader opens it again.     *)
Kill ==
  /\ Ended
  /\ file' = IF writing THEN [file EXCEPT ![current] = {}] ELSE file
  /\ UNCHANGED <<today, tick, accepted>>

Next ==
  \/ Start \/ Midnight
  \/ WriteMany \/ WriteManyFlush \/ WriteManyRefused
  \/ Flush \/ Stop \/ Kill

Spec == Init /\ [][Next]_vars

-----------------------------------------------------------------------------
(* Properties.                                                             *)

(* No accepted row is lost while the process runs: it is in the buffer or  *)
(* in a file, across midnights, refused files and failed flushes.          *)
KeptWhileUp == up => accepted \subseteq buffer \cup UNION { file[d] : d \in Day }

(* ReplayStream.ticks reads file after file, sorting only within a file:   *)
(* every fetched_at of an earlier file is before those of a later one,     *)
(* although rows of one day may be flushed into the next day's file, and a *)
(* row that was flushed is not left in the buffer to be written again.     *)
ReplayIsChronological ==
  /\ \A d, e \in Day : d < e => \A r \in file[d], s \in file[e] : r[1] < s[1]
  /\ \A d \in Day : file[d] \cap buffer = {}

(* parquet_writer.py:1: "Append-only Parquet writer": what a file holds,   *)
(* it keeps for as long as no process is killed.                           *)
AppendOnly == [][~Kill => \A d \in Day : file[d] \subseteq file'[d]]_vars

=============================================================================
