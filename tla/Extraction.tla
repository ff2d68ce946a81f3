----------------------------- MODULE Extraction -----------------------------
(***************************************************************************)
(* Extracting a market's resolution criteria, and the cache of what was    *)
(* extracted.  A worker looks the market's text up in its memory, asks the *)
(* model when it is not there, again when the answer fails, and puts what  *)
(* it parses in its memory and in the platform's file.  The platform may   *)
(* edit the text at any time.  The file is read, truncated and written     *)
(* back whole, by whichever process; nobody locks it.                      *)
(*                                                                         *)
(* One market; a text is its description and its rules, told apart by      *)
(* their hashes.  Nothing under src/ calls the cache yet: that a worker    *)
(* looks up before it extracts and puts after is what its docstring says.  *)
(***************************************************************************)
EXTENDS Naturals, SequencesExt

CONSTANTS
  Text,        \* versions of the market's description and rules
  Worker,      \* processes with an extractor and a cache
  Mode,        \* the ExtractorMode of each
  Model,       \* the llm_model_version of each: "stub-" and the model in stub mode
  MaxRetries,  \* max_retries
  MaxRows      \* bound on the rows of the file

ASSUME ModeAssumption == Mode \in [Worker -> {"stub", "anthropic", "offline"}]
ASSUME RetriesAssumption == MaxRetries \in Nat /\ MaxRows \in Nat

VARIABLES
  text,       \* the market's text on the platform
  cache,      \* the parquet file: its rows, oldest first, and whether it can be read
  memory,     \* _by_key of each worker's cache, as rows
  work,       \* where each worker is
  kept,       \* history: keys whose put returned, and no gc dropped
  interfered  \* history: a writer was killed in mid-write, or wrote over what it had not read

extractionVars == <<text, cache, memory, work, kept, interfered>>

(* A row: its key, and what the criteria in it were extracted from.        *)
Row == [key : Text \X { Model[w] : w \in Worker }, from : Text \X { Model[w] : w \in Worker }]
KeysOf(rows) == { r.key : r \in ToSet(rows) }

Down == [at |-> "down"]
Resting == [at |-> "rest"]
Readable(rows) == [rows |-> rows, torn |-> FALSE]
Cut == [rows |-> <<>>, torn |-> TRUE]

ExtractionTypeOK ==
  /\ text \in Text
  /\ cache.rows \in Seq(Row) /\ cache.torn \in BOOLEAN
  /\ \A w \in Worker :
       /\ memory[w] \subseteq Row
       /\ work[w].at \in {"down", "rest", "ask", "open", "write", "reload"}
       /\ work[w].at = "ask" => work[w].text \in Text /\ work[w].tries \in 0 .. MaxRetries
       /\ work[w].at \in {"open", "write"} =>
            work[w].read \in Seq(Row) /\ work[w].rows \in Seq(Row) /\ work[w].gc \in BOOLEAN
  /\ kept \subseteq Text \X { Model[w] : w \in Worker }
  /\ interfered \in BOOLEAN

ExtractionInit ==
  /\ text \in Text
  /\ cache = Readable(<<>>)
  /\ memory = [w \in Worker |-> {}]
  /\ work = [w \in Worker |-> Down]
  /\ kept = {} /\ interfered = FALSE

Edit ==
  /\ text' \in Text \ {text}
  /\ UNCHANGED <<cache, memory, work, kept, interfered>>

(* The latest row of a key is the one that counts; a file that cannot be   *)
(* read is as good as none (_load).                                        *)
Remember(rows, row) == { r \in rows : r.key # row.key } \cup {row}
Load ==
  { cache.rows[i] : i \in { j \in DOMAIN cache.rows :
      \A later \in DOMAIN cache.rows : cache.rows[later].key = cache.rows[j].key => later <= j } }

StartWorker(w) ==
  /\ work[w] = Down
  /\ work' = [work EXCEPT ![w] = Resting]
  /\ memory' = [memory EXCEPT ![w] = Load]
  /\ UNCHANGED <<text, cache, kept, interfered>>

KillWorker(w) ==
  /\ work[w] # Down
  /\ work' = [work EXCEPT ![w] = Down]
  /\ memory' = [memory EXCEPT ![w] = {}]
  /\ interfered' = (interfered \/ work[w].at = "write")
  /\ UNCHANGED <<text, cache, kept>>

(***************************************************************************)
(* get, extract and put.                                                   *)
(***************************************************************************)

(* What is in the cache is not extracted again; offline nothing is.        *)
Extract(w) ==
  /\ work[w] = Resting
  /\ Mode[w] # "offline"
  /\ <<text, Model[w]>> \notin { r.key : r \in memory[w] }
  /\ work' = [work EXCEPT ![w] = [at |-> "ask", text |-> text, tries |-> 0]]
  /\ UNCHANGED <<text, cache, memory, kept, interfered>>

(* A timeout, an error or invalid JSON: once more, or the caller gets it.  *)
AnswerFails(w) ==
  /\ work[w].at = "ask"
  /\ Mode[w] = "anthropic"
  /\ work' = [work EXCEPT ![w] =
                IF @.tries < MaxRetries THEN [at |-> "ask", text |-> @.text, tries |-> @.tries + 1] ELSE Resting]
  /\ UNCHANGED <<text, cache, memory, kept, interfered>>

(* JSON that parse_extraction_payload cannot make criteria of is not asked *)
(* for again.                                                              *)
PayloadFails(w) ==
  /\ work[w].at = "ask"
  /\ Mode[w] = "anthropic"
  /\ work' = [work EXCEPT ![w] = Resting]
  /\ UNCHANGED <<text, cache, memory, kept, interfered>>

(* put: memory first, then the file's rows are read; a file that cannot be *)
(* read makes it raise.                                                    *)
Put(w, row) ==
  /\ Len(cache.rows) < MaxRows
  /\ memory' = [memory EXCEPT ![w] = Remember(@, row)]
  /\ work' = [work EXCEPT ![w] =
                IF cache.torn THEN Resting
                ELSE [at |-> "open", read |-> cache.rows, rows |-> Append(cache.rows, row), gc |-> FALSE]]
  /\ UNCHANGED <<text, cache, kept, interfered>>

(* Mutant: the key is made of the text as it is when the answer comes.     *)
AnswerKeyedLate(w) ==
  /\ work[w].at = "ask"
  /\ Put(w, [key |-> <<text, Model[w]>>, from |-> <<work[w].text, Model[w]>>])

(* The hashes were taken before the model was asked.                       *)
Answer(w) ==
  /\ work[w].at = "ask"
  /\ Put(w, [key |-> <<work[w].text, Model[w]>>, from |-> <<work[w].text, Model[w]>>])

(* gc keeps the newest rows, of all keys together, and reads its memory    *)
(* anew.                                                                   *)
Gc(w) ==
  /\ work[w] = Resting
  /\ ~cache.torn
  /\ \E dropped \in 1 .. Len(cache.rows) :
       work' = [work EXCEPT ![w] =
                  [at |-> "open", read |-> cache.rows,
                   rows |-> SubSeq(cache.rows, dropped + 1, Len(cache.rows)), gc |-> TRUE]]
  /\ UNCHANGED <<text, cache, memory, kept, interfered>>

(* write_table: opening the file empties it.                               *)
Open(w) ==
  /\ work[w].at = "open"
  /\ cache' = Cut
  /\ work' = [work EXCEPT ![w].at = "write"]
  /\ interfered' = (interfered \/ cache # Readable(work[w].read))
  /\ UNCHANGED <<text, memory, kept>>

WriteRows(w) ==
  /\ work[w].at = "write"
  /\ cache' = Readable(work[w].rows)
  /\ work' = [work EXCEPT ![w] = IF @.gc THEN [at |-> "reload"] ELSE Resting]
  /\ kept' = LET before == KeysOf(work[w].read)
                 after  == KeysOf(work[w].rows)
             IN  (kept \ (before \ after)) \cup (after \ before)
  /\ interfered' = (interfered \/ ~cache.torn)
  /\ UNCHANGED <<text, memory>>

Reload(w) ==
  /\ work[w].at = "reload"
  /\ memory' = [memory EXCEPT ![w] = Load]
  /\ work' = [work EXCEPT ![w] = Resting]
  /\ UNCHANGED <<text, cache, kept, interfered>>

ExtractionNext ==
  \/ Edit
  \/ \E w \in Worker :
       \/ StartWorker(w) \/ KillWorker(w)
       \/ Extract(w) \/ AnswerFails(w) \/ PayloadFails(w) \/ Answer(w)
       \/ Gc(w) \/ Open(w) \/ WriteRows(w) \/ Reload(w)

ExtractionSpec == ExtractionInit /\ [][ExtractionNext]_extractionVars

-----------------------------------------------------------------------------
(* Properties.                                                             *)

(* Whatever is edited while the model is asked, the criteria found under a *)
(* key came from exactly that text and that model (extraction_cache.py:4); *)
(* and what a put wrote stays in the file until a gc drops it, unless two  *)
(* writers overlapped or one was killed in mid-write.                      *)
HitIsCurrent ==
  /\ \A r \in ToSet(cache.rows) \cup UNION { memory[w] : w \in Worker } : r.from = r.key
  /\ ~interfered /\ (\A w \in Worker : work[w].at # "write") => kept \subseteq KeysOf(cache.rows)

=============================================================================
