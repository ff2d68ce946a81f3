------------------------------- MODULE EventMap -------------------------------
(***************************************************************************)
(* The pairs of markets that may be traded against each other, in          *)
(* event_map.yaml, which starts with a few that were written by hand.      *)
(* Reviewers decide on candidates; an approved one is appended to the      *)
(* file, disabled; the operator writes further pairs, completes edge cases *)
(* and enables pairs in an editor; the orchestrator loads the file when it *)
(* starts, and only a valid one.  Nobody locks the file: a reviewer reads  *)
(* it, truncates it and writes it back whole, and may be killed anywhere.  *)
(***************************************************************************)
EXTENDS Naturals, SequencesExt

CONSTANTS
  Pair,      \* candidates, by pair_id
  Complete,  \* those that bring five edge cases, one of them divergent
  Shipped,   \* the pairs event_map.yaml comes with, none of them enabled
  ByHand,    \* the entries an operator may write into it
  Reviewer   \* processes that run process_decision

Entry == [id : Pair, enabled : BOOLEAN, complete : BOOLEAN]

ASSUME PairAssumption ==
  /\ Complete \subseteq Pair
  /\ Shipped \in Seq(Entry) /\ ByHand \subseteq Entry
  /\ \A i, j \in DOMAIN Shipped : Shipped[i].id = Shipped[j].id => i = j
  /\ \A i \in DOMAIN Shipped : ~Shipped[i].enabled

VARIABLES
  file,      \* the "pairs" of event_map.yaml
  log,       \* candidates with an approval in the review log
  review,    \* each reviewer: where process_decision is, its candidate, its copy of the file
  editor,    \* the operator's editor: whether a copy is open in it, and the copy
  running,   \* whether the orchestrator runs
  loaded,    \* and the event map it runs on
  opened,    \* history: pairs the operator ever enabled
  settled,   \* history: entries as the operator last saved them
  written,   \* history: pairs that were written into the file by hand
  clobbered  \* history: a writer was killed in mid-write, or wrote over what it had not read

operator == <<editor, opened, settled, written>>
main == <<running, loaded>>
vars == <<file, log, review, operator, main, clobbered>>

Ids(pairs) == { e.id : e \in ToSet(pairs) }
Idle == [at |-> "idle", copy |-> <<>>]

TypeOK ==
  /\ file \in Seq(Entry)
  /\ log \subseteq Pair
  /\ \A r \in Reviewer :
       /\ review[r].at \in {"idle", "append", "read", "write"}
       /\ review[r].copy \in Seq(Entry)
       /\ review[r].at # "idle" => review[r].id \in Pair
  /\ editor.at \in {"idle", "open"} /\ editor.copy \in Seq(Entry)
  /\ running \in BOOLEAN
  /\ loaded \subseteq [id : Pair, enabled : BOOLEAN, complete : {TRUE}]
  /\ opened \subseteq Pair /\ settled \subseteq Entry /\ written \subseteq Pair
  /\ clobbered \in BOOLEAN

Init ==
  /\ file = Shipped /\ log = {}
  /\ review = [r \in Reviewer |-> Idle]
  /\ editor = Idle /\ opened = {} /\ settled = ToSet(Shipped) /\ written = Ids(Shipped)
  /\ running = FALSE /\ loaded = {}
  /\ clobbered = FALSE

(***************************************************************************)
(* process_decision, and the command that only logs.  A rejection or a     *)
(* skip is logged and no more, a conditional approval only adds a note.    *)
(***************************************************************************)

(* Mutant: nothing is logged.                                              *)
ApproveUnlogged(r, p) ==
  /\ review[r].at = "idle"
  /\ review' = [review EXCEPT ![r] = [at |-> "append", id |-> p, copy |-> <<>>]]
  /\ UNCHANGED <<file, log, operator, main, clobbered>>

(* An approval is logged before it is acted on.                            *)
Approve(r, p) ==
  /\ review[r].at = "idle"
  /\ log' = log \cup {p}
  /\ review' = [review EXCEPT ![r] = [at |-> "append", id |-> p, copy |-> <<>>]]
  /\ UNCHANGED <<file, operator, main, clobbered>>

(* scripts/review.py logs the choice; copying the pair is left to hand.    *)
CliApproves(p) ==
  /\ log' = log \cup {p}
  /\ UNCHANGED <<file, review, operator, main, clobbered>>

(* Mutant: a pair the file has already is appended again.                  *)
NeverKnown(pairs, p) == FALSE

Known(pairs, p) == p \in Ids(pairs)

(* append_approved_to_event_map reads the file, a missing or empty one as  *)
(* no pairs, and leaves a pair it finds there alone.                       *)
Read(r) ==
  /\ review[r].at = "append"
  /\ review' = [review EXCEPT ![r] =
                  IF Known(file, @.id) THEN Idle ELSE [@ EXCEPT !.at = "read", !.copy = file]]
  /\ UNCHANGED <<file, log, operator, main, clobbered>>

(* write_text, in two steps: opening the file empties it.                  *)
Truncate(r) ==
  /\ review[r].at = "read"
  /\ file' = <<>>
  /\ review' = [review EXCEPT ![r].at = "write"]
  /\ clobbered' = (clobbered \/ file # review[r].copy)
  /\ UNCHANGED <<log, operator, main>>

NewPair(p) == [id |-> p, enabled |-> FALSE, complete |-> p \in Complete]

Write(r) ==
  /\ review[r].at = "write"
  /\ file' = Append(review[r].copy, NewPair(review[r].id))
  /\ review' = [review EXCEPT ![r] = Idle]
  /\ clobbered' = (clobbered \/ file # <<>>)
  /\ UNCHANGED <<log, operator, main>>

Die(r) ==
  /\ review[r].at # "idle"
  /\ review' = [review EXCEPT ![r] = Idle]
  /\ clobbered' = (clobbered \/ review[r].at = "write")
  /\ UNCHANGED <<file, log, operator, main>>

(***************************************************************************)
(* The operator's editor.                                                  *)
(***************************************************************************)

EditorOpen ==
  /\ editor.at = "idle"
  /\ editor' = [at |-> "open", copy |-> file]
  /\ UNCHANGED <<file, log, review, opened, settled, written, main, clobbered>>

EditorSave(saved) ==
  /\ editor.at = "open"
  /\ file' = saved /\ settled' = ToSet(saved)
  /\ opened' = opened \cup { e.id : e \in { f \in ToSet(saved) : f.enabled } }
  /\ editor' = Idle
  /\ clobbered' = (clobbered \/ file # editor.copy)
  /\ UNCHANGED <<log, review, main>>

(* Saved is the copy as opened but for one entry: enabled or disabled, its *)
(* edge cases completed.                                                   *)
EditorChange(i, enabled) ==
  /\ EditorSave([editor.copy EXCEPT ![i].enabled = enabled, ![i].complete = TRUE])
  /\ UNCHANGED written

(* Or with one more, written by hand: one of the operator's own, or one of *)
(* those that review.py has it copy.                                       *)
EditorAdd(entry) ==
  /\ entry.id \notin Ids(editor.copy)
  /\ EditorSave(Append(editor.copy, entry))
  /\ written' = written \cup {entry.id}

(***************************************************************************)
(* The orchestrator.                                                       *)
(***************************************************************************)

(* _validate_pair and the duplicate check raise on anything else.          *)
Valid(pairs) ==
  /\ \A i, j \in DOMAIN pairs : pairs[i].id = pairs[j].id => i = j
  /\ \A i \in DOMAIN pairs : pairs[i].complete

(* Mutant: an incomplete pair is accepted.                                 *)
StartUnchecked ==
  /\ ~running
  /\ running' = TRUE /\ loaded' = ToSet(file)
  /\ UNCHANGED <<file, log, review, operator, clobbered>>

(* With an invalid file the process ends at once.                          *)
Start ==
  /\ ~running
  /\ Valid(file)
  /\ running' = TRUE /\ loaded' = ToSet(file)
  /\ UNCHANGED <<file, log, review, operator, clobbered>>

Stop ==
  /\ running
  /\ running' = FALSE /\ loaded' = {}
  /\ UNCHANGED <<file, log, review, operator, clobbered>>

Next ==
  \/ \E r \in Reviewer :
       \/ \E p \in Pair : Approve(r, p)
       \/ Read(r) \/ Truncate(r) \/ Write(r) \/ Die(r)
  \/ \E p \in Pair : CliApproves(p)
  \/ EditorOpen
  \/ \E i \in DOMAIN editor.copy, enabled \in BOOLEAN : EditorChange(i, enabled)
  \/ \E entry \in ByHand : EditorAdd(entry)
  \/ Start \/ Stop

Spec == Init /\ [][Next]_vars

-----------------------------------------------------------------------------
(* Properties.                                                             *)

(* A pair is enabled by the operator alone, in the file and on the running *)
(* orchestrator, whatever writers do to each other; and what the operator  *)
(* saved stands, once each, unless two writers overlapped or one was       *)
(* killed in mid-write (review_queue.py:58 and :71).                       *)
Trading(pairs) == { e.id : e \in { f \in pairs : f.enabled } }
OperatorDecides ==
  /\ Trading(ToSet(file)) \subseteq opened
  /\ Trading(loaded) \subseteq opened
  /\ ~clobbered /\ (\A r \in Reviewer : review[r].at # "write") =>
       \A e \in settled :
         \E i \in DOMAIN file : file[i] = e /\ \A j \in DOMAIN file \ {i} : file[j].id # e.id

(* However processes are killed and overwrite each other, a pair of the    *)
(* file that nobody wrote into it by hand has its approval in the review   *)
(* log (process_decision), also when the only copy of it left is old.      *)
ApprovalIsLogged == Ids(file) \subseteq log \cup written

=============================================================================
