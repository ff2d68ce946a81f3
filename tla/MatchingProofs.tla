---------------------------- MODULE MatchingProofs ----------------------------
(***************************************************************************)
(* How a pair of markets comes to be traded is sound at each of its steps: *)
(* the reviewed pairs of the event map, for any candidates and reviewers;  *)
(* the extracted criteria and their cache, for any texts and processes;    *)
(* and the comparison of two criteria.  Nothing under src/ hands the       *)
(* result of one of the three to the next, so each has theorems about its  *)
(* own specification.                                                      *)
(***************************************************************************)
EXTENDS Matcher, Extraction, EventMap, FiniteSetTheorems, SequenceTheorems, TLAPS

-----------------------------------------------------------------------------
(***************************************************************************)
(* The operator alone enables a pair, and a pair comes with its approval.  *)
(*                                                                         *)
(* OperatorDecides and ApprovalIsLogged are not inductive: the file is     *)
(* written from copies that were read long before.  So whatever is true of *)
(* the file is true of every copy of it, in a reviewer or in the editor    *)
(* (Sound), among it that no pair is there twice, because a reviewer adds  *)
(* one only to a copy that does not have it (NewIsNew).  What the operator *)
(* saved is in the file; or, while one reviewer alone has the file empty,  *)
(* in the copy that it is about to write (SavedStands).  Of two such       *)
(* reviewers the first to write fills the file, so that the second one     *)
(* writes over what it has not read.                                       *)
(***************************************************************************)

Distinct(pairs) == \A i, j \in DOMAIN pairs : pairs[i].id = pairs[j].id => i = j

SoundBy(pairs, approved, enabled) ==
  /\ pairs \in Seq(Entry)
  /\ Distinct(pairs)
  /\ Ids(pairs) \subseteq approved
  /\ Trading(ToSet(pairs)) \subseteq enabled

Vouched == log \cup written

Sound(pairs) == SoundBy(pairs, Vouched, opened)

CopiesAreSound == Sound(file) /\ Sound(editor.copy) /\ \A r \in Reviewer : Sound(review[r].copy)

NewIsNew ==
  \A r \in Reviewer :
    /\ review[r].at # "idle" => review[r].id \in Pair /\ review[r].id \in log
    /\ review[r].at \in {"read", "write"} => review[r].id \notin Ids(review[r].copy)

Writing == { r \in Reviewer : review[r].at = "write" }

SavedStands ==
  ~clobbered =>
    /\ Writing = {} => settled \subseteq ToSet(file)
    /\ file = <<>> => \A r \in Writing : Writing = {r} => settled \subseteq ToSet(review[r].copy)

LoadedIsOpened ==
  /\ loaded \subseteq [id : Pair, enabled : BOOLEAN, complete : {TRUE}]
  /\ Trading(loaded) \subseteq opened

Visit == [at : {"append", "read", "write"}, id : Pair, copy : Seq(Entry)]

MapFields ==
  /\ review \in [Reviewer -> {Idle} \cup Visit]
  /\ editor.at \in {"idle", "open"}
  /\ running \in BOOLEAN /\ clobbered \in BOOLEAN
  /\ log \subseteq Pair /\ opened \subseteq Pair /\ settled \subseteq Entry /\ written \subseteq Pair

MapInv ==
  /\ MapFields /\ LoadedIsOpened
  /\ CopiesAreSound /\ NewIsNew /\ SavedStands

-----------------------------------------------------------------------------
(* Sequences of pairs.                                                     *)

LEMMA AppendedPairs ==
  ASSUME NEW pairs \in Seq(Entry), NEW e \in Entry
  PROVE  /\ Append(pairs, e) \in Seq(Entry)
         /\ Append(pairs, e) # <<>>
         /\ ToSet(Append(pairs, e)) = ToSet(pairs) \cup {e}
         /\ Ids(Append(pairs, e)) = Ids(pairs) \cup {e.id}
         /\ Distinct(pairs) /\ e.id \notin Ids(pairs) => Distinct(Append(pairs, e))
<1>1. Append(pairs, e) \in Seq(Entry) /\ Append(pairs, e) # <<>>
  BY AppendProperties
<1>2. /\ DOMAIN Append(pairs, e) = DOMAIN pairs \cup {Len(pairs) + 1}
      /\ Append(pairs, e)[Len(pairs) + 1] = e
      /\ \A i \in DOMAIN pairs : Append(pairs, e)[i] = pairs[i]
      /\ Len(pairs) + 1 \notin DOMAIN pairs
  OBVIOUS
<1>3. ToSet(Append(pairs, e)) = ToSet(pairs) \cup {e}
  BY <1>2 DEF ToSet
<1>4. Ids(Append(pairs, e)) = Ids(pairs) \cup {e.id}
  BY <1>3 DEF Ids
<1>5. ASSUME Distinct(pairs), e.id \notin Ids(pairs) PROVE Distinct(Append(pairs, e))
  BY <1>2, <1>5 DEF Distinct, Ids, ToSet
<1> QED
  BY <1>1, <1>3, <1>4, <1>5

LEMMA SavedPairs ==
  ASSUME NEW pairs \in Seq(Entry), NEW i \in DOMAIN pairs, NEW e \in Entry, e.id = pairs[i].id,
         NEW saved, saved = [pairs EXCEPT ![i] = e]
  PROVE  /\ saved \in Seq(Entry) /\ saved # <<>>
         /\ Ids(saved) = Ids(pairs)
         /\ Distinct(pairs) => Distinct(saved)
<1>1. pairs \in [1 .. Len(pairs) -> Entry] /\ DOMAIN pairs = 1 .. Len(pairs)
  OBVIOUS
<1>2. saved \in Seq(Entry) /\ DOMAIN saved = DOMAIN pairs /\ saved # <<>>
  <2>1. i \in 1 .. Len(pairs) /\ Len(pairs) \in Nat
    BY <1>1, LenProperties
  <2>2. saved \in Seq(Entry) /\ Len(saved) = Len(pairs)
    <3>1. [pairs EXCEPT ![i] = e] \in Seq(Entry) /\ Len([pairs EXCEPT ![i] = e]) = Len(pairs)
      BY <2>1, ExceptSeq
    <3> QED
      BY <3>1
  <2>3. Len(saved) # 0 /\ DOMAIN saved = DOMAIN pairs
    BY <1>1, <2>1, <2>2, LenProperties
  <2> QED
    BY <2>2, <2>3, EmptySeq
<1>3. \A j \in DOMAIN pairs : saved[j].id = pairs[j].id
  BY <1>1
<1>4. Ids(saved) = { saved[j].id : j \in DOMAIN saved } /\ Ids(pairs) = { pairs[j].id : j \in DOMAIN pairs }
  BY DEF Ids, ToSet
<1>5. Ids(saved) = Ids(pairs)
  <2>1. \A p : p \in Ids(saved) <=> \E j \in DOMAIN pairs : p = saved[j].id
    BY <1>2, <1>4
  <2>2. \A p : p \in Ids(pairs) <=> \E j \in DOMAIN pairs : p = pairs[j].id
    BY <1>4
  <2> QED
    BY <1>3, <2>1, <2>2
<1> QED
  BY <1>2, <1>3, <1>5 DEF Distinct

LEMMA SoundStays ==
  ASSUME NEW pairs, NEW approved, NEW enabled, SoundBy(pairs, approved, enabled),
         NEW approved2, approved \subseteq approved2, NEW enabled2, enabled \subseteq enabled2
  PROVE  SoundBy(pairs, approved2, enabled2)
BY DEF SoundBy

LEMMA NoPairsAreSound == ASSUME NEW approved, NEW enabled PROVE SoundBy(<<>>, approved, enabled)
<1>1. <<>> \in Seq(Entry) /\ Len(<<>>) = 0
  BY EmptySeq
<1>2. DOMAIN <<>> = {}
  OBVIOUS
<1> QED
  BY <1>1, <1>2 DEF SoundBy, Distinct, Ids, ToSet, Trading

LEMMA ShippedAreSound ==
  /\ SoundBy(Shipped, Ids(Shipped), {})
  /\ ToSet(Shipped) \subseteq Entry /\ Ids(Shipped) \subseteq Pair
<1>1. Shipped \in Seq(Entry) /\ Distinct(Shipped) /\ \A i \in DOMAIN Shipped : ~Shipped[i].enabled
  BY PairAssumption DEF Distinct
<1>2. \A e \in ToSet(Shipped) : e \in Entry /\ ~e.enabled
  BY <1>1 DEF ToSet
<1> QED
  BY <1>1, <1>2 DEF SoundBy, Trading, Ids, Entry

LEMMA InitMapInv == Init => MapInv
<1> SUFFICES ASSUME Init PROVE MapInv
  OBVIOUS
<1>1. /\ file = Shipped /\ log = {} /\ opened = {} /\ loaded = {} /\ clobbered = FALSE
      /\ settled = ToSet(Shipped) /\ written = Ids(Shipped)
      /\ editor.at = "idle" /\ editor.copy = <<>> /\ running = FALSE
      /\ review = [r \in Reviewer |-> Idle]
      /\ \A r \in Reviewer : review[r].at = "idle" /\ review[r].copy = <<>>
  BY DEF Init, Idle
<1>2. MapFields
  BY <1>1, ShippedAreSound DEF MapFields
<1>3. LoadedIsOpened
  BY <1>1 DEF LoadedIsOpened, Trading
<1>4. CopiesAreSound
  <2>1. Vouched = Ids(Shipped)
    BY <1>1 DEF Vouched
  <2> QED
    BY <1>1, <2>1, ShippedAreSound, NoPairsAreSound DEF CopiesAreSound, Sound
<1>5. NewIsNew /\ SavedStands
  BY <1>1 DEF NewIsNew, SavedStands, Writing
<1> QED
  BY <1>2, <1>3, <1>4, <1>5 DEF MapInv

(* A reviewer that goes to another place without writing: what it carries  *)
(* there is as sound as what it had.                                       *)
LEMMA ReviewerMoves ==
  ASSUME MapInv, NEW r \in Reviewer, NEW x,
         review' = [review EXCEPT ![r] = x], x \in {Idle} \cup Visit,
         x.at # "write", review[r].at # "write",
         x.at # "idle" => x.id \in Pair /\ x.id \in log',
         x.at = "read" => x.id \notin Ids(x.copy),
         Sound(x.copy), log \subseteq log', log' \subseteq Pair,
         UNCHANGED <<file, operator, main, clobbered>>
  PROVE  MapInv'
<1>1. /\ review' \in [Reviewer -> {Idle} \cup Visit] /\ review'[r] = x
      /\ \A q \in Reviewer \ {r} : review'[q] = review[q]
  BY DEF MapInv, MapFields
<1>2. UNCHANGED <<file, editor, opened, settled, written, running, loaded, clobbered>>
  BY DEF operator, main
<1>3. MapFields' /\ LoadedIsOpened'
  BY <1>1, <1>2 DEF MapInv, MapFields, LoadedIsOpened
<1>4. CopiesAreSound'
  <2>0. Vouched \subseteq Vouched'
    BY <1>2 DEF Vouched
  <2>1. SoundBy(file, Vouched', opened) /\ SoundBy(editor.copy, Vouched', opened) /\ SoundBy(x.copy, Vouched', opened)
    BY <2>0, SoundStays DEF MapInv, CopiesAreSound, Sound
  <2>2. \A q \in Reviewer : SoundBy(review[q].copy, Vouched', opened)
    BY <2>0, SoundStays DEF MapInv, CopiesAreSound, Sound
  <2>3. \A q \in Reviewer : SoundBy(review'[q].copy, Vouched', opened)
    BY <1>1, <2>1, <2>2
  <2> QED
    BY <1>2, <2>1, <2>3 DEF CopiesAreSound, Sound
<1>5. NewIsNew'
  BY <1>1 DEF MapInv, NewIsNew
<1>6. SavedStands'
  <2>1. Writing' = Writing
    BY <1>1 DEF Writing
  <2>2. \A q \in Writing : review'[q].copy = review[q].copy
    BY <1>1 DEF Writing
  <2> QED
    BY <1>2, <2>1, <2>2 DEF MapInv, SavedStands
<1> QED
  BY <1>3, <1>4, <1>5, <1>6 DEF MapInv

LEMMA ApproveStep ==
  ASSUME MapInv, NEW r \in Reviewer, NEW p \in Pair, Approve(r, p)
  PROVE  MapInv'
<1> DEFINE x == [at |-> "append", id |-> p, copy |-> <<>>]
<1>1. x \in Visit /\ x.at = "append" /\ x.id = p /\ x.copy = <<>>
  BY EmptySeq DEF Visit
<1>2. /\ review[r].at = "idle" /\ log' = log \cup {p} /\ review' = [review EXCEPT ![r] = x]
      /\ UNCHANGED <<file, operator, main, clobbered>>
  BY DEF Approve
<1> HIDE DEF x
<1>3. Sound(x.copy)
  BY <1>1, NoPairsAreSound DEF Sound
<1>4. log \subseteq log' /\ log' \subseteq Pair /\ p \in log'
  BY <1>2 DEF MapInv, MapFields
<1> QED
  BY <1>1, <1>2, <1>3, <1>4, ReviewerMoves

LEMMA ReadStep ==
  ASSUME MapInv, NEW r \in Reviewer, Read(r)
  PROVE  MapInv'
<1>1. /\ review[r].at = "append" /\ review[r].id \in Pair /\ review[r].id \in log
      /\ UNCHANGED <<file, log, operator, main, clobbered>>
      /\ log \subseteq log' /\ log' \subseteq Pair
  BY DEF Read, MapInv, NewIsNew, MapFields
<1>2. CASE Known(file, review[r].id)
  <2>1. review' = [review EXCEPT ![r] = Idle] /\ Idle.at = "idle" /\ Idle.copy = <<>>
    BY <1>2 DEF Read, MapInv, MapFields, Idle
  <2>2. Sound(Idle.copy)
    BY <2>1, NoPairsAreSound DEF Sound
  <2> QED
    BY <1>1, <2>1, <2>2, ReviewerMoves
<1>3. CASE ~Known(file, review[r].id)
  <2> DEFINE x == [review[r] EXCEPT !.at = "read", !.copy = file]
  <2>1. review' = [review EXCEPT ![r] = x]
    BY <1>3 DEF Read, MapInv, MapFields
  <2>2. x \in Visit /\ x.at = "read" /\ x.copy = file /\ x.id = review[r].id
    <3>1. review[r] \in Visit
      BY <1>1 DEF MapInv, MapFields, Idle
    <3>2. file \in Seq(Entry)
      BY DEF MapInv, CopiesAreSound, Sound, SoundBy
    <3> QED
      BY <3>1, <3>2 DEF Visit
  <2> HIDE DEF x
  <2>3. Sound(x.copy) /\ x.id \notin Ids(x.copy)
    BY <1>3, <2>2 DEF MapInv, CopiesAreSound, Known
  <2> QED
    BY <1>1, <2>1, <2>2, <2>3, ReviewerMoves
<1> QED
  BY <1>2, <1>3

(* The others are where they were.                                         *)
LEMMA ReviewerAlone ==
  ASSUME MapInv, NEW r \in Reviewer, NEW x \in {Idle} \cup Visit, review' = [review EXCEPT ![r] = x]
  PROVE  /\ review' \in [Reviewer -> {Idle} \cup Visit] /\ review'[r] = x
         /\ \A q \in Reviewer \ {r} : review'[q] = review[q]
         /\ Writing' = IF x.at = "write" THEN Writing \cup {r} ELSE Writing \ {r}
<1>1. /\ review' \in [Reviewer -> {Idle} \cup Visit] /\ review'[r] = x
      /\ \A q \in Reviewer \ {r} : review'[q] = review[q]
  BY DEF MapInv, MapFields
<1> QED
  BY <1>1 DEF Writing

LEMMA TruncateStep ==
  ASSUME MapInv, NEW r \in Reviewer, Truncate(r)
  PROVE  MapInv'
<1> DEFINE x == [review[r] EXCEPT !.at = "write"]
<1>1. /\ review[r].at = "read" /\ file' = <<>> /\ review' = [review EXCEPT ![r] = x]
      /\ clobbered' = (clobbered \/ file # review[r].copy)
      /\ UNCHANGED <<log, editor, opened, settled, written, running, loaded>>
  BY DEF Truncate, operator, main, MapInv, MapFields
<1>2. x \in Visit /\ x.at = "write" /\ x.id = review[r].id /\ x.copy = review[r].copy
  <2>1. review[r] \in Visit
    BY <1>1 DEF MapInv, MapFields, Idle
  <2> QED
    BY <2>1 DEF Visit
<1> HIDE DEF x
<1>3. /\ review' \in [Reviewer -> {Idle} \cup Visit] /\ review'[r] = x
      /\ \A q \in Reviewer \ {r} : review'[q] = review[q]
      /\ Writing' = Writing \cup {r}
  BY <1>1, <1>2, ReviewerAlone
<1>4. MapFields' /\ LoadedIsOpened'
  BY <1>1, <1>3 DEF MapInv, MapFields, LoadedIsOpened
<1>5. CopiesAreSound'
  <2>1. \A q \in Reviewer : review'[q].copy = review[q].copy
    BY <1>2, <1>3
  <2> QED
    BY <1>1, <2>1, NoPairsAreSound DEF MapInv, CopiesAreSound, Sound, Vouched
<1>6. NewIsNew'
  BY <1>1, <1>2, <1>3 DEF MapInv, NewIsNew
<1>7. SavedStands'
  <2> SUFFICES ASSUME ~clobbered', Writing' = {r} PROVE settled \subseteq ToSet(review'[r].copy)
    BY <1>1, <1>3 DEF SavedStands
  <2>1. ~clobbered /\ file = review[r].copy /\ Writing = {}
    BY <1>1, <1>3 DEF Writing
  <2> QED
    BY <1>2, <1>3, <2>1 DEF MapInv, SavedStands
<1> QED
  BY <1>4, <1>5, <1>6, <1>7 DEF MapInv

LEMMA WriteStep ==
  ASSUME MapInv, NEW r \in Reviewer, Write(r)
  PROVE  MapInv'
<1> DEFINE copy == review[r].copy
           new == NewPair(review[r].id)
<1>1. /\ review[r].at = "write" /\ file' = Append(copy, new) /\ review' = [review EXCEPT ![r] = Idle]
      /\ clobbered' = (clobbered \/ file # <<>>)
      /\ UNCHANGED <<log, editor, opened, settled, written, running, loaded>>
  BY DEF Write, operator, main
<1>2. Idle \in {Idle} \cup Visit /\ Idle.at = "idle" /\ Idle.copy = <<>>
  BY DEF Idle
<1>3. /\ review' \in [Reviewer -> {Idle} \cup Visit] /\ review'[r] = Idle
      /\ \A q \in Reviewer \ {r} : review'[q] = review[q]
      /\ Writing' = Writing \ {r} /\ r \in Writing
  BY <1>1, <1>2, ReviewerAlone DEF Writing
<1>4. /\ SoundBy(copy, Vouched, opened) /\ review[r].id \in Pair /\ review[r].id \in log
      /\ review[r].id \notin Ids(copy)
  BY <1>1 DEF MapInv, CopiesAreSound, Sound, NewIsNew
<1>5. new \in Entry /\ new.id = review[r].id /\ ~new.enabled
  BY <1>4 DEF NewPair, Entry
<1> HIDE DEF copy, new
<1>6. /\ file' \in Seq(Entry) /\ file' # <<>> /\ ToSet(file') = ToSet(copy) \cup {new}
      /\ Ids(file') = Ids(copy) \cup {new.id} /\ Distinct(file')
  BY <1>1, <1>4, <1>5, AppendedPairs DEF SoundBy
<1>7. MapFields' /\ LoadedIsOpened'
  BY <1>1, <1>3 DEF MapInv, MapFields, LoadedIsOpened
<1>8. CopiesAreSound'
  <2>1. SoundBy(file', Vouched, opened)
    BY <1>4, <1>5, <1>6 DEF SoundBy, Trading, Vouched
  <2>2. \A q \in Reviewer : SoundBy(review'[q].copy, Vouched, opened)
    BY <1>2, <1>3, NoPairsAreSound DEF MapInv, CopiesAreSound, Sound, Vouched
  <2> QED
    BY <1>1, <2>1, <2>2 DEF MapInv, CopiesAreSound, Sound, Vouched
<1>9. NewIsNew'
  BY <1>1, <1>2, <1>3 DEF MapInv, NewIsNew
<1>10. SavedStands'
  <2> SUFFICES ASSUME ~clobbered', Writing' = {} PROVE settled \subseteq ToSet(file')
    BY <1>1, <1>6 DEF SavedStands
  <2>1. ~clobbered /\ file = <<>> /\ Writing = {r}
    BY <1>1, <1>3
  <2>2. settled \subseteq ToSet(copy)
    BY <1>3, <2>1 DEF MapInv, SavedStands, copy
  <2> QED
    BY <1>6, <2>2
<1> QED
  BY <1>7, <1>8, <1>9, <1>10 DEF MapInv

LEMMA DieStep ==
  ASSUME MapInv, NEW r \in Reviewer, Die(r)
  PROVE  MapInv'
<1>1. /\ review' = [review EXCEPT ![r] = Idle]
      /\ clobbered' = (clobbered \/ review[r].at = "write")
      /\ UNCHANGED <<file, log, editor, opened, settled, written, running, loaded>>
  BY DEF Die, operator, main
<1>2. Idle \in {Idle} \cup Visit /\ Idle.at = "idle" /\ Idle.copy = <<>>
  BY DEF Idle
<1>3. /\ review' \in [Reviewer -> {Idle} \cup Visit] /\ review'[r] = Idle
      /\ \A q \in Reviewer \ {r} : review'[q] = review[q]
      /\ Writing' = Writing \ {r}
  BY <1>1, <1>2, ReviewerAlone
<1>4. MapFields' /\ LoadedIsOpened'
  BY <1>1, <1>3 DEF MapInv, MapFields, LoadedIsOpened
<1>5. CopiesAreSound'
  <2>1. \A q \in Reviewer : SoundBy(review'[q].copy, Vouched, opened)
    BY <1>2, <1>3, NoPairsAreSound DEF MapInv, CopiesAreSound, Sound, Vouched
  <2> QED
    BY <1>1, <2>1 DEF MapInv, CopiesAreSound, Sound, Vouched
<1>6. NewIsNew'
  BY <1>1, <1>2, <1>3 DEF MapInv, NewIsNew
<1>7. SavedStands'
  <2> SUFFICES ASSUME ~clobbered' PROVE SavedStands'
    BY DEF SavedStands
  <2>1. ~clobbered /\ review[r].at # "write"
    BY <1>1
  <2>2. Writing' = Writing /\ \A q \in Writing : review'[q].copy = review[q].copy
    BY <1>3, <2>1 DEF Writing
  <2> QED
    BY <1>1, <2>1, <2>2 DEF MapInv, SavedStands
<1> QED
  BY <1>4, <1>5, <1>6, <1>7 DEF MapInv

LEMMA CliStep ==
  ASSUME MapInv, NEW p \in Pair, CliApproves(p)
  PROVE  MapInv'
<1>1. log' = log \cup {p} /\ UNCHANGED <<file, review, editor, opened, settled, written, running, loaded, clobbered>>
  BY DEF CliApproves, operator, main
<1>2. MapFields' /\ LoadedIsOpened' /\ NewIsNew' /\ SavedStands'
  BY <1>1 DEF MapInv, MapFields, LoadedIsOpened, NewIsNew, SavedStands, Writing
<1>3. CopiesAreSound'
  <2>0. Vouched \subseteq Vouched'
    BY <1>1 DEF Vouched
  <2>1. /\ SoundBy(file, Vouched', opened) /\ SoundBy(editor.copy, Vouched', opened)
        /\ \A q \in Reviewer : SoundBy(review[q].copy, Vouched', opened)
    BY <1>1, <2>0, SoundStays DEF MapInv, CopiesAreSound, Sound
  <2> QED
    BY <1>1, <2>1 DEF CopiesAreSound, Sound
<1> QED
  BY <1>2, <1>3 DEF MapInv

(* Saving keeps all of that, if what is saved is as sound as the copy was. *)
LEMMA EditorSaveStep ==
  ASSUME MapInv, NEW saved, EditorSave(saved), saved \in Seq(Entry), saved # <<>>, Distinct(saved),
         Ids(saved) \subseteq log \cup written', written \subseteq written', written' \subseteq Pair
  PROVE  MapInv'
<1>1. /\ file' = saved /\ settled' = ToSet(saved) /\ editor' = Idle
      /\ opened' = opened \cup { e.id : e \in { f \in ToSet(saved) : f.enabled } }
      /\ UNCHANGED <<log, review, running, loaded>>
      /\ Vouched' = log \cup written' /\ Vouched \subseteq Vouched'
  BY DEF EditorSave, main, Vouched
<1>2. Idle.at = "idle" /\ Idle.copy = <<>>
  BY DEF Idle
<1>3. ToSet(saved) \subseteq Entry
  BY DEF ToSet
<1>4. opened \subseteq opened' /\ opened' \subseteq Pair /\ Trading(ToSet(saved)) \subseteq opened'
  BY <1>1, <1>3 DEF Trading, Entry, MapInv, MapFields
<1>5. MapFields'
  <2>1. clobbered' \in BOOLEAN
    BY DEF EditorSave, MapInv, MapFields
  <2> QED
    BY <1>1, <1>2, <1>3, <1>4, <2>1 DEF MapInv, MapFields
<1>6. LoadedIsOpened'
  BY <1>1, <1>4 DEF MapInv, LoadedIsOpened
<1>7. CopiesAreSound'
  <2>1. SoundBy(saved, Vouched', opened')
    BY <1>1, <1>4 DEF SoundBy
  <2>2. \A q \in Reviewer : SoundBy(review[q].copy, Vouched', opened')
    BY <1>1, <1>4, SoundStays DEF MapInv, CopiesAreSound, Sound
  <2>3. SoundBy(<<>>, Vouched', opened')
    BY NoPairsAreSound
  <2> QED
    BY <1>1, <1>2, <2>1, <2>2, <2>3 DEF CopiesAreSound, Sound
<1>8. NewIsNew'
  BY <1>1 DEF MapInv, NewIsNew
<1>9. SavedStands'
  BY <1>1 DEF SavedStands
<1> QED
  BY <1>5, <1>6, <1>7, <1>8, <1>9 DEF MapInv

LEMMA EditorChangeStep ==
  ASSUME MapInv, NEW i \in DOMAIN editor.copy, NEW enabled \in BOOLEAN, EditorChange(i, enabled)
  PROVE  MapInv'
<1> DEFINE copy == editor.copy
           saved == [copy EXCEPT ![i].enabled = enabled, ![i].complete = TRUE]
           e == [copy[i] EXCEPT !.enabled = enabled, !.complete = TRUE]
<1>1. EditorSave(saved) /\ written' = written
  BY DEF EditorChange
<1>2. copy \in Seq(Entry) /\ i \in DOMAIN copy /\ Distinct(copy) /\ Ids(copy) \subseteq Vouched
  BY DEF MapInv, CopiesAreSound, Sound, SoundBy
<1>3. e \in Entry /\ e.id = copy[i].id
  <2>1. copy[i] \in Entry
    BY <1>2
  <2> QED
    BY <2>1 DEF Entry
<1>4. saved = [copy EXCEPT ![i] = e]
  OBVIOUS
<1> HIDE DEF copy, saved, e
<1>5. saved \in Seq(Entry) /\ saved # <<>> /\ Ids(saved) = Ids(copy) /\ Distinct(saved)
  BY <1>2, <1>3, <1>4, SavedPairs
<1>6. written' \subseteq Pair
  BY <1>1 DEF MapInv, MapFields
<1> QED
  BY <1>1, <1>2, <1>5, <1>6, EditorSaveStep DEF Vouched

LEMMA EditorAddStep ==
  ASSUME MapInv, NEW entry \in ByHand, EditorAdd(entry)
  PROVE  MapInv'
<1> DEFINE copy == editor.copy
           saved == Append(copy, entry)
<1>1. EditorSave(saved) /\ written' = written \cup {entry.id} /\ entry.id \notin Ids(copy)
  BY DEF EditorAdd
<1>2. copy \in Seq(Entry) /\ Distinct(copy) /\ Ids(copy) \subseteq Vouched
  BY DEF MapInv, CopiesAreSound, Sound, SoundBy
<1>3. entry \in Entry /\ entry.id \in Pair
  BY PairAssumption DEF Entry
<1> HIDE DEF copy
<1>4. saved \in Seq(Entry) /\ saved # <<>> /\ Ids(saved) = Ids(copy) \cup {entry.id} /\ Distinct(saved)
  BY <1>1, <1>2, <1>3, AppendedPairs
<1> HIDE DEF saved
<1>5. written' \subseteq Pair
  BY <1>1, <1>3 DEF MapInv, MapFields
<1> QED
  BY <1>1, <1>2, <1>4, <1>5, EditorSaveStep DEF Vouched

LEMMA EditorOpenStep == MapInv /\ EditorOpen => MapInv'
<1> SUFFICES ASSUME MapInv, EditorOpen PROVE MapInv'
  OBVIOUS
<1>1. /\ editor'.at = "open" /\ editor'.copy = file
      /\ UNCHANGED <<file, log, review, opened, settled, written, running, loaded, clobbered>>
  BY DEF EditorOpen, main
<1>2. MapFields' /\ LoadedIsOpened' /\ NewIsNew' /\ SavedStands'
  BY <1>1 DEF MapInv, MapFields, LoadedIsOpened, NewIsNew, SavedStands, Writing
<1>3. CopiesAreSound'
  BY <1>1 DEF MapInv, CopiesAreSound, Sound, Vouched
<1> QED
  BY <1>2, <1>3 DEF MapInv

LEMMA StartStopStep == MapInv /\ (Start \/ Stop) => MapInv'
<1> SUFFICES ASSUME MapInv, Start \/ Stop PROVE MapInv'
  OBVIOUS
<1>1. /\ running' \in BOOLEAN
      /\ UNCHANGED <<file, log, review, editor, opened, settled, written, clobbered>>
  BY DEF Start, Stop, operator
<1>2. LoadedIsOpened'
  <2>1. CASE Start
    <3>1. loaded' = ToSet(file) /\ \A i \in DOMAIN file : file[i].complete
      BY <2>1 DEF Start, Valid
    <3>2. \A i \in DOMAIN file : file[i] \in Entry
      BY DEF MapInv, CopiesAreSound, Sound, SoundBy
    <3>3. \A e \in loaded' : e \in Entry /\ e.complete = TRUE
      BY <3>1, <3>2 DEF ToSet, Entry
    <3>4. loaded' \subseteq [id : Pair, enabled : BOOLEAN, complete : {TRUE}]
      BY <3>3 DEF Entry
    <3> QED
      BY <1>1, <3>1, <3>4 DEF MapInv, CopiesAreSound, Sound, SoundBy, LoadedIsOpened
  <2>2. CASE Stop
    BY <1>1, <2>2 DEF Stop, LoadedIsOpened, Trading
  <2> QED
    BY <2>1, <2>2
<1>3. MapFields' /\ CopiesAreSound' /\ NewIsNew' /\ SavedStands'
  BY <1>1 DEF MapInv, MapFields, CopiesAreSound, Sound, Vouched, NewIsNew, SavedStands, Writing
<1> QED
  BY <1>2, <1>3 DEF MapInv

LEMMA StepMapInv == MapInv /\ [Next]_vars => MapInv'
<1> SUFFICES ASSUME MapInv, [Next]_vars PROVE MapInv'
  OBVIOUS
<1>1. ASSUME NEW r \in Reviewer,
             (\E p \in Pair : Approve(r, p)) \/ Read(r) \/ Truncate(r) \/ Write(r) \/ Die(r)
      PROVE  MapInv'
  BY <1>1, ApproveStep, ReadStep, TruncateStep, WriteStep, DieStep
<1>2. CASE \/ \E i \in DOMAIN editor.copy, enabled \in BOOLEAN : EditorChange(i, enabled)
           \/ \E e \in ByHand : EditorAdd(e)
  BY <1>2, EditorChangeStep, EditorAddStep
<1>3. CASE UNCHANGED vars
  BY <1>3 DEF vars, operator, main, MapInv, MapFields, LoadedIsOpened, CopiesAreSound, Sound, Vouched, NewIsNew,
     SavedStands, Writing
<1> QED
  BY <1>1, <1>2, <1>3, CliStep, EditorOpenStep, StartStopStep DEF Next

(* However processes are killed and overwrite each other's files, a pair   *)
(* of the event map that nobody wrote into it by hand has its approval in  *)
(* the review log (process_decision), for any pairs the file comes with.   *)
THEOREM PairsAreApproved == Spec => []ApprovalIsLogged
<1>1. MapInv => ApprovalIsLogged
  BY DEF MapInv, CopiesAreSound, Sound, SoundBy, Vouched, ApprovalIsLogged
<1> QED
  BY <1>1, InitMapInv, StepMapInv, PTL DEF Spec

(* A pair is enabled by the operator alone, in the file and on the running *)
(* orchestrator, and what the operator saved stands, once each, unless two *)
(* writers overlapped or one was killed in mid-write (review_queue.py:58). *)
THEOREM PairsAreEnabledByHand == Spec => []OperatorDecides
<1>1. ASSUME MapInv PROVE OperatorDecides
  <2>1. Trading(ToSet(file)) \subseteq opened /\ Trading(loaded) \subseteq opened /\ Distinct(file)
    BY <1>1 DEF MapInv, CopiesAreSound, Sound, SoundBy, LoadedIsOpened
  <2>2. ASSUME ~clobbered, \A r \in Reviewer : review[r].at # "write", NEW e \in settled
        PROVE  \E i \in DOMAIN file : file[i] = e /\ \A j \in DOMAIN file \ {i} : file[j].id # e.id
    <3>1. settled \subseteq ToSet(file)
      BY <1>1, <2>2 DEF MapInv, SavedStands, Writing
    <3>2. PICK i \in DOMAIN file : file[i] = e
      BY <3>1 DEF ToSet
    <3> QED
      BY <2>1, <3>2 DEF Distinct
  <2> QED
    BY <2>1, <2>2 DEF OperatorDecides
<1> QED
  BY <1>1, InitMapInv, StepMapInv, PTL DEF Spec

(* The types of the event map's file and of all that is read from it hold  *)
(* in every state, for any candidates and reviewers: above all, what the   *)
(* orchestrator runs on is complete (event_map.py).                        *)
THEOREM MapTypes == Spec => []TypeOK
<1>1. MapInv => TypeOK
  <2> SUFFICES ASSUME MapInv PROVE TypeOK
    OBVIOUS
  <2>1. \A r \in Reviewer : review[r] = Idle \/ review[r] \in Visit
    BY DEF MapInv, MapFields
  <2>2. \A r \in Reviewer : /\ review[r].at \in {"idle", "append", "read", "write"}
                            /\ review[r].at # "idle" => review[r].id \in Pair
    BY <2>1 DEF Idle, Visit
  <2>3. file \in Seq(Entry) /\ editor.copy \in Seq(Entry) /\ \A r \in Reviewer : review[r].copy \in Seq(Entry)
    BY DEF MapInv, CopiesAreSound, Sound, SoundBy
  <2> QED
    BY <2>2, <2>3 DEF MapInv, MapFields, LoadedIsOpened, TypeOK
<1> QED
  BY <1>1, InitMapInv, StepMapInv, PTL DEF Spec

-----------------------------------------------------------------------------
(***************************************************************************)
(* What is found under a key was extracted from that text by that model,   *)
(* and what was put stays, for any texts, models and processes.            *)
(*                                                                         *)
(* HitIsCurrent is not inductive: the file is written from rows read long  *)
(* before.  So the rows that a process carries are held to the same as     *)
(* those in the file and in memory (Honest), and as long as nobody         *)
(* interfered, at most one process has the file cut, and it has read all   *)
(* that was kept (KeptIsRead).                                             *)
(***************************************************************************)

Models == { Model[w] : w \in Worker }
Honest == { r \in Row : r.from = r.key }

Busy == [at : {"open", "write"}, read : Seq(Honest), rows : Seq(Honest), gc : BOOLEAN]
Asking == [at : {"ask"}, text : Text, tries : 0 .. MaxRetries]
Work == {Down, Resting, [at |-> "reload"]} \cup Asking \cup Busy

CacheFields ==
  /\ text \in Text
  /\ cache \in [rows : Seq(Honest), torn : BOOLEAN]
  /\ memory \in [Worker -> SUBSET Honest]
  /\ work \in [Worker -> Work]
  /\ kept \subseteq Text \X Models
  /\ interfered \in BOOLEAN

Cutting == { w \in Worker : work[w].at = "write" }

KeptIsRead ==
  ~interfered =>
    /\ Cutting = {} => kept \subseteq KeysOf(cache.rows)
    /\ \A w \in Cutting : Cutting = {w} /\ cache = Cut /\ kept \subseteq KeysOf(work[w].read)

CacheInv == CacheFields /\ KeptIsRead

(* The places a worker can be at are told apart by their names.            *)
LEMMA Places ==
  ASSUME NEW x \in Work
  PROVE  /\ x.at = "down" <=> x = Down
         /\ x.at = "rest" <=> x = Resting
         /\ x.at = "ask" <=> x \in Asking
         /\ x.at \in {"open", "write"} <=> x \in Busy
         /\ x.at \in {"down", "rest", "ask", "open", "write", "reload"}
BY DEF Work, Asking, Busy, Down, Resting

LEMMA Rests == Resting \in Work /\ Down \in Work /\ Resting.at = "rest" /\ Down.at = "down" /\ Resting # Down
BY DEF Work, Down, Resting

LEMMA NoRows == <<>> \in Seq(Honest) /\ KeysOf(<<>>) = {} /\ Cut.rows = <<>> /\ Cut.torn = TRUE
<1>1. <<>> \in Seq(Honest) /\ Len(<<>>) = 0
  BY EmptySeq
<1>2. DOMAIN <<>> = {}
  OBVIOUS
<1> QED
  BY <1>1, <1>2 DEF KeysOf, ToSet, Cut

LEMMA KeysAreKeys == ASSUME NEW rows \in Seq(Honest) PROVE KeysOf(rows) \subseteq Text \X Models
<1>1. \A i \in DOMAIN rows : rows[i] \in Honest
  OBVIOUS
<1> QED
  BY <1>1 DEF KeysOf, ToSet, Honest, Row, Models

LEMMA LoadedIsHonest == ASSUME CacheFields PROVE Load \subseteq Honest
<1>1. cache.rows \in Seq(Honest)
  BY DEF CacheFields
<1>2. \A i \in DOMAIN cache.rows : cache.rows[i] \in Honest
  BY <1>1
<1> QED
  BY <1>2 DEF Load

LEMMA InitCacheInv == ExtractionInit => CacheInv
<1> SUFFICES ASSUME ExtractionInit PROVE CacheInv
  OBVIOUS
<1>1. /\ text \in Text /\ cache = [rows |-> <<>>, torn |-> FALSE]
      /\ memory = [w \in Worker |-> {}] /\ work = [w \in Worker |-> Down]
      /\ kept = {} /\ interfered = FALSE
  BY DEF ExtractionInit, Readable
<1>2. CacheFields
  BY <1>1, NoRows, Rests DEF CacheFields
<1>3. Cutting = {}
  BY <1>1, Rests DEF Cutting
<1> QED
  BY <1>1, <1>2, <1>3 DEF CacheInv, KeptIsRead

(* A worker that goes to another place without touching the file.          *)
LEMMA WorkerMoves ==
  ASSUME CacheInv, NEW w \in Worker, NEW x \in Work, work' = [work EXCEPT ![w] = x],
         x.at # "write", work[w].at # "write",
         memory' \in [Worker -> SUBSET Honest],
         UNCHANGED <<text, cache, kept, interfered>>
  PROVE  CacheInv'
<1>1. /\ work' \in [Worker -> Work] /\ work'[w] = x
      /\ \A q \in Worker \ {w} : work'[q] = work[q]
  BY DEF CacheInv, CacheFields
<1>2. CacheFields'
  BY <1>1 DEF CacheInv, CacheFields
<1>3. Cutting' = Cutting /\ \A q \in Cutting : work'[q] = work[q]
  BY <1>1 DEF Cutting
<1> QED
  BY <1>2, <1>3 DEF CacheInv, KeptIsRead

LEMMA StartWorkerStep ==
  ASSUME CacheInv, NEW w \in Worker, StartWorker(w) \/ Reload(w) PROVE CacheInv'
<1>1. memory' \in [Worker -> SUBSET Honest]
  BY LoadedIsHonest DEF StartWorker, Reload, CacheInv, CacheFields
<1>2. work[w].at # "write" /\ work' = [work EXCEPT ![w] = Resting]
        /\ UNCHANGED <<text, cache, kept, interfered>>
  BY Rests DEF StartWorker, Reload
<1> QED
  BY <1>1, <1>2, Rests, WorkerMoves

LEMMA KillWorkerStep == ASSUME CacheInv, NEW w \in Worker, KillWorker(w) PROVE CacheInv'
<1>1. /\ work' = [work EXCEPT ![w] = Down] /\ memory' = [memory EXCEPT ![w] = {}]
      /\ interfered' = (interfered \/ work[w].at = "write") /\ UNCHANGED <<text, cache, kept>>
  BY DEF KillWorker
<1>2. memory' \in [Worker -> SUBSET Honest]
  BY <1>1 DEF CacheInv, CacheFields
<1>3. CASE work[w].at # "write"
  <2>1. interfered' = interfered
    BY <1>1, <1>3 DEF CacheInv, CacheFields
  <2> QED
    BY <1>1, <1>2, <1>3, <2>1, Rests, WorkerMoves
<1>4. CASE work[w].at = "write"
  <2>1. interfered' = TRUE /\ work' \in [Worker -> Work]
    BY <1>1, <1>4, Rests DEF CacheInv, CacheFields
  <2> QED
    BY <1>1, <1>2, <2>1 DEF CacheInv, CacheFields, KeptIsRead
<1> QED
  BY <1>3, <1>4

LEMMA AskingStep ==
  ASSUME CacheInv, NEW w \in Worker, Extract(w) \/ AnswerFails(w) \/ PayloadFails(w)
  PROVE  CacheInv'
<1>1. PICK x \in Work : work' = [work EXCEPT ![w] = x] /\ x.at # "write" /\ work[w].at # "write"
  <2>1. work[w] \in Work /\ text \in Text /\ 0 \in 0 .. MaxRetries
    BY RetriesAssumption DEF CacheInv, CacheFields
  <2>2. CASE Extract(w)
    <3> DEFINE x == [at |-> "ask", text |-> text, tries |-> 0]
    <3>1. x \in Work /\ x.at # "write"
      BY <2>1 DEF Work, Asking
    <3>2. work' = [work EXCEPT ![w] = x] /\ work[w].at # "write"
      BY <2>2, Rests DEF Extract
    <3> QED
      BY <3>1, <3>2
  <2>3. CASE AnswerFails(w) /\ work[w].tries < MaxRetries
    <3> DEFINE x == [at |-> "ask", text |-> work[w].text, tries |-> work[w].tries + 1]
    <3>1. work[w] \in Asking
      BY <2>1, <2>3, Places DEF AnswerFails
    <3>2. work[w].tries + 1 \in 0 .. MaxRetries
      BY <2>3, <3>1, RetriesAssumption DEF Asking
    <3>3. x \in Work /\ x.at # "write"
      BY <3>1, <3>2 DEF Work, Asking
    <3>4. work' = [work EXCEPT ![w] = x]
      BY <2>3 DEF AnswerFails
    <3>5. work[w].at # "write"
      BY <2>3 DEF AnswerFails
    <3> QED
      BY <3>3, <3>4, <3>5
  <2>4. CASE PayloadFails(w) \/ (AnswerFails(w) /\ ~(work[w].tries < MaxRetries))
    <3>1. work' = [work EXCEPT ![w] = Resting] /\ work[w].at # "write"
      BY <2>4 DEF PayloadFails, AnswerFails, CacheInv, CacheFields
    <3> QED
      BY <3>1, Rests
  <2> QED
    BY <2>2, <2>3, <2>4
<1>2. UNCHANGED <<text, cache, kept, interfered>> /\ memory' \in [Worker -> SUBSET Honest]
  BY DEF Extract, AnswerFails, PayloadFails, CacheInv, CacheFields
<1> QED
  BY <1>1, <1>2, WorkerMoves

(* What is put was extracted from the text that was hashed before.         *)
LEMMA AnswerStep == ASSUME CacheInv, NEW w \in Worker, Answer(w) PROVE CacheInv'
<1> DEFINE row == [key |-> <<work[w].text, Model[w]>>, from |-> <<work[w].text, Model[w]>>]
<1>1. work[w].at = "ask" /\ Put(w, row)
  BY DEF Answer
<1>2. row \in Honest
  <2>1. work[w] \in Asking
    BY <1>1, Places DEF CacheInv, CacheFields
  <2> QED
    BY <2>1 DEF Asking, Honest, Row
<1> HIDE DEF row
<1>3. memory' \in [Worker -> SUBSET Honest]
  BY <1>1, <1>2 DEF Put, Remember, CacheInv, CacheFields
<1>4. PICK x \in Work : work' = [work EXCEPT ![w] = x] /\ x.at # "write"
  <2>1. CASE cache.torn
    <3>1. work' = [work EXCEPT ![w] = Resting]
      BY <1>1, <2>1 DEF Put
    <3> QED
      BY <3>1, Rests
  <2>2. CASE ~cache.torn
    <3> DEFINE x == [at |-> "open", read |-> cache.rows, rows |-> Append(cache.rows, row), gc |-> FALSE]
    <3>1. cache.rows \in Seq(Honest)
      BY DEF CacheInv, CacheFields
    <3>2. Append(cache.rows, row) \in Seq(Honest)
      BY <1>2, <3>1, AppendProperties
    <3>3. x \in Work /\ x.at # "write"
      BY <3>1, <3>2 DEF Work, Busy
    <3>4. work' = [work EXCEPT ![w] = x]
      BY <1>1, <2>2 DEF Put
    <3> QED
      BY <3>3, <3>4
  <2> QED
    BY <2>1, <2>2
<1>5. UNCHANGED <<text, cache, kept, interfered>>
  BY <1>1 DEF Put
<1> QED
  BY <1>1, <1>3, <1>4, <1>5, WorkerMoves

LEMMA GcStep == ASSUME CacheInv, NEW w \in Worker, Gc(w) PROVE CacheInv'
<1>1. PICK dropped \in 1 .. Len(cache.rows) :
        work' = [work EXCEPT ![w] =
                   [at |-> "open", read |-> cache.rows,
                    rows |-> SubSeq(cache.rows, dropped + 1, Len(cache.rows)), gc |-> TRUE]]
  BY DEF Gc
<1> DEFINE rest == SubSeq(cache.rows, dropped + 1, Len(cache.rows))
           x == [at |-> "open", read |-> cache.rows, rows |-> rest, gc |-> TRUE]
<1>2. cache.rows \in Seq(Honest) /\ Len(cache.rows) \in Nat
  BY LenProperties DEF CacheInv, CacheFields
<1>3. rest \in Seq(Honest)
  <2>1. dropped + 1 \in Int /\ Len(cache.rows) \in Int
    BY <1>2
  <2>2. \A i \in dropped + 1 .. Len(cache.rows) : cache.rows[i] \in Honest
    BY <1>2, ElementOfSeq
  <2> QED
    BY <2>1, <2>2, SubSeqProperties
<1> HIDE DEF rest
<1>4. x \in Work /\ x.at # "write"
  BY <1>2, <1>3 DEF Work, Busy
<1>5. work' = [work EXCEPT ![w] = x]
  BY <1>1 DEF rest
<1>6. /\ work[w].at # "write" /\ UNCHANGED <<text, cache, kept, interfered>>
      /\ memory' \in [Worker -> SUBSET Honest]
  BY Rests DEF Gc, CacheInv, CacheFields
<1> QED
  BY <1>4, <1>5, <1>6, WorkerMoves

LEMMA OpenStep == ASSUME CacheInv, NEW w \in Worker, Open(w) PROVE CacheInv'
<1> DEFINE x == [work[w] EXCEPT !.at = "write"]
<1>1. /\ work[w].at = "open" /\ cache' = Cut /\ work' = [work EXCEPT ![w] = x]
      /\ interfered' = (interfered \/ cache # Readable(work[w].read))
      /\ UNCHANGED <<text, memory, kept>>
  BY DEF Open, CacheInv, CacheFields
<1>2. x \in Busy /\ x \in Work /\ x.at = "write" /\ x.read = work[w].read
  <2>1. work[w] \in Busy
    BY <1>1, Places DEF CacheInv, CacheFields
  <2> QED
    BY <2>1 DEF Busy, Work
<1> HIDE DEF x
<1>3. /\ work' \in [Worker -> Work] /\ work'[w] = x
      /\ \A q \in Worker \ {w} : work'[q] = work[q]
      /\ Cutting' = Cutting \cup {w} /\ w \notin Cutting
  BY <1>1, <1>2 DEF CacheInv, CacheFields, Cutting
<1>4. CacheFields'
  BY <1>1, <1>3, NoRows DEF CacheInv, CacheFields, Cut
<1>5. KeptIsRead'
  <2> SUFFICES ASSUME ~interfered'
               PROVE  /\ Cutting' = {} => kept' \subseteq KeysOf(cache.rows)'
                      /\ \A q \in Cutting' : Cutting' = {q} /\ cache' = Cut /\ kept' \subseteq KeysOf(work'[q].read)
    BY DEF KeptIsRead
  <2>1. ~interfered /\ cache = Readable(work[w].read)
    BY <1>1
  <2>2. cache # Cut /\ cache.rows = work[w].read
    BY <2>1 DEF Readable, Cut
  <2>3. Cutting = {} /\ kept \subseteq KeysOf(cache.rows)
    BY <2>1, <2>2 DEF CacheInv, KeptIsRead
  <2>4. Cutting' = {w}
    BY <1>3, <2>3
  <2> QED
    BY <1>1, <1>2, <1>3, <2>2, <2>3, <2>4
<1> QED
  BY <1>4, <1>5 DEF CacheInv

LEMMA WriteRowsStep == ASSUME CacheInv, NEW w \in Worker, WriteRows(w) PROVE CacheInv'
<1> DEFINE before == KeysOf(work[w].read)
           after == KeysOf(work[w].rows)
           x == IF work[w].gc THEN [at |-> "reload"] ELSE Resting
<1>1. /\ work[w].at = "write" /\ cache' = Readable(work[w].rows) /\ work' = [work EXCEPT ![w] = x]
      /\ kept' = (kept \ (before \ after)) \cup (after \ before)
      /\ interfered' = (interfered \/ ~cache.torn)
      /\ UNCHANGED <<text, memory>>
  BY DEF WriteRows, CacheInv, CacheFields
<1>2. work[w].read \in Seq(Honest) /\ work[w].rows \in Seq(Honest)
  BY <1>1, Places DEF CacheInv, CacheFields, Busy
<1>3. after \subseteq Text \X Models
  BY <1>2, KeysAreKeys
<1>4. x \in Work /\ x.at # "write"
  BY Rests DEF Work
<1> HIDE DEF before, after, x
<1>5. /\ work' \in [Worker -> Work]
      /\ Cutting' = Cutting \ {w} /\ w \in Cutting
  BY <1>1, <1>4 DEF CacheInv, CacheFields, Cutting
<1>6. cache' \in [rows : Seq(Honest), torn : BOOLEAN] /\ cache'.rows = work[w].rows
  BY <1>1, <1>2 DEF Readable
<1>7. CacheFields'
  BY <1>1, <1>3, <1>5, <1>6 DEF CacheInv, CacheFields
<1>8. KeptIsRead'
  <2> SUFFICES ASSUME ~interfered' PROVE Cutting' = {} /\ kept' \subseteq KeysOf(cache'.rows)
    BY DEF KeptIsRead
  <2>1. ~interfered /\ Cutting = {w} /\ kept \subseteq before
    BY <1>1, <1>5 DEF CacheInv, KeptIsRead, before
  <2>2. KeysOf(cache'.rows) = after
    BY <1>6 DEF after
  <2> QED
    BY <1>1, <1>5, <2>1, <2>2
<1> QED
  BY <1>7, <1>8 DEF CacheInv

LEMMA StepCacheInv == CacheInv /\ [ExtractionNext]_extractionVars => CacheInv'
<1> SUFFICES ASSUME CacheInv, [ExtractionNext]_extractionVars PROVE CacheInv'
  OBVIOUS
<1>1. CASE Edit \/ UNCHANGED extractionVars
  BY <1>1 DEF Edit, extractionVars, CacheInv, CacheFields, KeptIsRead, Cutting
<1>2. ASSUME NEW w \in Worker,
             \/ StartWorker(w) \/ KillWorker(w)
             \/ Extract(w) \/ AnswerFails(w) \/ PayloadFails(w) \/ Answer(w)
             \/ Gc(w) \/ Open(w) \/ WriteRows(w) \/ Reload(w)
      PROVE  CacheInv'
  BY <1>2, StartWorkerStep, KillWorkerStep, AskingStep, AnswerStep, GcStep, OpenStep, WriteRowsStep
<1> QED
  BY <1>1, <1>2 DEF ExtractionNext

(* Whatever is edited while the model is asked, the criteria found under a *)
(* key came from exactly that text and that model, and what a put wrote    *)
(* stays until a gc drops it, unless two writers overlapped or one was     *)
(* killed in mid-write (extraction_cache.py:4).                            *)
THEOREM HitsAreCurrent == ExtractionSpec => []HitIsCurrent
<1>1. ASSUME CacheInv PROVE HitIsCurrent
  <2>1. ASSUME NEW r \in ToSet(cache.rows) \cup UNION { memory[w] : w \in Worker } PROVE r.from = r.key
    <3>1. cache.rows \in Seq(Honest) /\ \A w \in Worker : memory[w] \subseteq Honest
      BY <1>1 DEF CacheInv, CacheFields
    <3>2. \A i \in DOMAIN cache.rows : cache.rows[i] \in Honest
      BY <3>1
    <3>3. r \in Honest
      BY <2>1, <3>1, <3>2 DEF ToSet
    <3> QED
      BY <3>3 DEF Honest
  <2>2. ~interfered /\ (\A w \in Worker : work[w].at # "write") => kept \subseteq KeysOf(cache.rows)
    BY <1>1 DEF CacheInv, KeptIsRead, Cutting
  <2> QED
    BY <2>1, <2>2 DEF HitIsCurrent
<1> QED
  BY <1>1, InitCacheInv, StepCacheInv, PTL DEF ExtractionSpec

(* The file, the memories and what each worker is at keep their types.     *)
THEOREM CacheTypes == ExtractionSpec => []ExtractionTypeOK
<1>1. ASSUME CacheInv PROVE ExtractionTypeOK
  <2>1. ASSUME NEW rows \in Seq(Honest) PROVE rows \in Seq(Row)
    BY SeqMonotonic DEF Honest
  <2>2. /\ cache.rows \in Seq(Row) /\ cache.torn \in BOOLEAN /\ text \in Text
        /\ kept \subseteq Text \X { Model[w] : w \in Worker } /\ interfered \in BOOLEAN
    BY <1>1, <2>1 DEF CacheInv, CacheFields, Models
  <2>3. ASSUME NEW w \in Worker
        PROVE  /\ memory[w] \subseteq Row
               /\ work[w].at \in {"down", "rest", "ask", "open", "write", "reload"}
               /\ work[w].at = "ask" => work[w].text \in Text /\ work[w].tries \in 0 .. MaxRetries
               /\ work[w].at \in {"open", "write"} =>
                    work[w].read \in Seq(Row) /\ work[w].rows \in Seq(Row) /\ work[w].gc \in BOOLEAN
    <3>1. work[w] \in Work /\ memory[w] \subseteq Row
      BY <1>1 DEF CacheInv, CacheFields, Honest
    <3>2. work[w].at = "ask" => work[w] \in Asking
      BY <3>1, Places
    <3>3. work[w].at \in {"open", "write"} => work[w] \in Busy
      BY <3>1, Places
    <3>4. work[w].at \in {"down", "rest", "ask", "open", "write", "reload"}
      BY <3>1, Places
    <3> QED
      BY <2>1, <3>1, <3>2, <3>3, <3>4 DEF Asking, Busy
  <2> QED
    BY <2>2, <2>3 DEF ExtractionTypeOK
<1> QED
  BY <1>1, InitCacheInv, StepCacheInv, PTL DEF ExtractionSpec

-----------------------------------------------------------------------------
(***************************************************************************)
(* Criteria that match speak of one event and resolve alike, for any       *)
(* criteria, tolerances, vocabularies and classes.  The one invariant needed is that a verdict, once   *)
(* there, is what Compare says (Verdict); the rest is about Compare.       *)
(***************************************************************************)

Verdict ==
  /\ a \in Criteria /\ b \in Criteria
  /\ verdict = Unjudged \/ verdict = Compare(a, b)

(* Criteria have finitely many differences.                                *)
LEMMA DifferencesFinite ==
  ASSUME NEW c \in Criteria, NEW d \in Criteria PROVE IsFiniteSet(Differences(c, d))
<1> DEFINE names == {"metric", "direction"} \cup {"event_date"} \cup {"predicate"} \cup {"source"}
           kinds == {"field"} \cup {"edge_case"} \cup {"missing"} \cup {"asymmetric"}
           cases == Vocabulary[c.type] \cup (Keys(c) \cup Keys(d))
<1>1. IsFiniteSet(names) /\ IsFiniteSet(kinds)
  <2>1. {"metric", "direction"} = {"metric"} \cup {"direction"}
    OBVIOUS
  <2> QED
    BY <2>1, FS_Singleton, FS_Union
<1>2. IsFiniteSet(cases)
  BY CriteriaAssumption, VocabularyAssumption, FS_Union DEF Keys
<1>3. Differences(c, d) \subseteq kinds \X (names \cup cases)
  <2>1. Fields(c, d) \subseteq names
    BY DEF Fields
  <2>2. Common(c, d) \subseteq cases /\ Vocabulary[c.type] \subseteq cases /\ SymDiff(Keys(c), Keys(d)) \subseteq cases
    BY DEF Common, SymDiff
  <2> HIDE DEF names, cases
  <2> QED
    BY <2>1, <2>2 DEF Differences
<1> HIDE DEF names, kinds, cases
<1> QED
  BY <1>1, <1>2, <1>3, FS_Union, FS_Product, FS_Subset

(* Without a difference, nothing that decides the outcome differs.         *)
LEMMA MatchResolves ==
  ASSUME NEW c \in Criteria, NEW d \in Criteria, c.type = d.type, Differences(c, d) = {},
         c.threshold = d.threshold
  PROVE  Alike(c, d)
<1>1. Fields(c, d) = {} /\ Vocabulary[c.type] \subseteq Common(c, d)
      /\ \A k \in Common(c, d) : c.edges[k] = d.edges[k]
  <2>1. \A x : <<"field", x>> \notin Differences(c, d) /\ <<"edge_case", x>> \notin Differences(c, d)
               /\ <<"missing", x>> \notin Differences(c, d)
    OBVIOUS
  <2>2. \A f \in Fields(c, d) : <<"field", f>> \in Differences(c, d)
    BY DEF Differences
  <2>3. \A k \in Vocabulary[c.type] \ Common(c, d) : <<"missing", k>> \in Differences(c, d)
    BY DEF Differences
  <2>4. \A k \in Common(c, d) : c.edges[k] # d.edges[k] => <<"edge_case", k>> \in Differences(c, d)
    BY DEF Differences
  <2> QED
    BY <2>1, <2>2, <2>3, <2>4
<1>2. /\ c.metric = d.metric /\ c.direction = d.direction
      /\ Normal[c.predicate] = Normal[d.predicate] /\ Class[c.source] = Class[d.source]
  <2>1. /\ c["metric"] # d["metric"] => "metric" \in Fields(c, d)
        /\ c["direction"] # d["direction"] => "direction" \in Fields(c, d)
        /\ Normal[c["predicate"]] # Normal[d["predicate"]] => "predicate" \in Fields(c, d)
        /\ Class[c["source"]] # Class[d["source"]] => "source" \in Fields(c, d)
    BY DEF Fields
  <2> QED
    BY <1>1, <2>1
<1> SUFFICES ASSUME NEW v \in [Range(Class) -> Value],
                    NEW k \in (Vocabulary[c.type] \cup {NoCase}) \ Unsaid(c, d),
                    NEW t \in Date, NEW u \in Date, InWindow(c, t) <=> InWindow(d, u)
             PROVE  Resolves(c, v, k, t) = Resolves(d, v, k, u)
  BY DEF Alike
<1>3. CASE ~InWindow(c, t)
  BY <1>3 DEF Resolves
<1>4. CASE InWindow(c, t) /\ k \in Vocabulary[c.type]
  <2>1. k \in Keys(c) /\ k \in Keys(d) /\ c.edges[k] = d.edges[k]
    BY <1>1, <1>4 DEF Common
  <2> QED
    BY <1>4, <2>1 DEF Resolves
<1>5. CASE InWindow(c, t) /\ k = NoCase
  <2>1. k \notin Keys(c) /\ k \notin Keys(d)
    BY <1>5, CriteriaAssumption DEF Keys
  <2> QED
    BY <1>2, <1>5, <2>1 DEF Resolves
<1> QED
  BY <1>3, <1>4, <1>5

(* Windows that overlap, but for the tolerance, hold an event in common.   *)
LEMMA OverlapMeets ==
  ASSUME NEW c \in Criteria, NEW d \in Criteria, c.type = d.type, DatesOverlap(c, d),
         c.start <= c.end, d.start <= d.end
  PROVE  Meet(c, d)
<1> DEFINE tol == Tolerance[c.type]
<1>1. /\ tol \in Nat
      /\ c.start \in Date /\ c.end \in Date /\ d.start \in Date /\ d.end \in Date
      /\ c.start \in Int /\ c.end \in Int /\ d.start \in Int /\ d.end \in Int
  BY CriteriaAssumption, ToleranceAssumption, ValueAssumption
<1>2. c.start - tol <= d.end /\ d.start - tol <= c.end
  BY DEF DatesOverlap
<1>3. ASSUME NEW t \in Date, NEW u \in Date, t - u <= tol, u - t <= tol,
             c.start <= t, t <= c.end, d.start <= u, u <= d.end
      PROVE  Meet(c, d)
  BY <1>3 DEF Meet, DatedAs, InWindow
<1> HIDE DEF tol
<1>4. CASE c.start > d.end
  <2>1. c.start - d.end <= tol /\ d.end - c.start <= tol
    BY <1>1, <1>2, <1>4
  <2> QED
    BY <1>1, <1>3, <2>1
<1>5. CASE d.start > c.end
  <2>1. c.end - d.start <= tol /\ d.start - c.end <= tol
    BY <1>1, <1>2, <1>5
  <2> QED
    BY <1>1, <1>3, <2>1
<1>6. CASE c.start <= d.end /\ d.start <= c.end
  <2>1. c.start - c.start <= tol /\ d.start - d.start <= tol
    BY <1>1
  <2>2. CASE d.start <= c.start
    BY <1>1, <1>3, <1>6, <2>1, <2>2
  <2>3. CASE c.start <= d.start
    BY <1>1, <1>3, <1>6, <2>1, <2>3
  <2> QED
    BY <1>1, <2>2, <2>3
<1> QED
  BY <1>1, <1>4, <1>5, <1>6

(* Which of two markets comes first does not matter.                       *)
LEMMA CompareSymmetric ==
  ASSUME NEW c \in Criteria, NEW d \in Criteria PROVE Compare(c, d) = Compare(d, c)
<1>1. CASE c.type # d.type
  BY <1>1 DEF Compare
<1>2. CASE c.type = d.type
  <2>1. Common(c, d) = Common(d, c) /\ SymDiff(Keys(c), Keys(d)) = SymDiff(Keys(d), Keys(c))
    BY <1>2 DEF Common, SymDiff
  <2>2. DatesOverlap(c, d) <=> DatesOverlap(d, c)
    BY <1>2 DEF DatesOverlap
  <2>3. Fields(c, d) = Fields(d, c)
    BY <2>2 DEF Fields
  <2>4. { k \in Common(c, d) : c.edges[k] # d.edges[k] } = { k \in Common(d, c) : d.edges[k] # c.edges[k] }
    BY <2>1
  <2>5. Differences(c, d) = Differences(d, c)
    BY <1>2, <2>1, <2>3, <2>4, Zenon DEF Differences
  <2>6. {c.confidence, d.confidence} = {d.confidence, c.confidence}
    OBVIOUS
  <2> QED
    BY <1>2, <2>5, <2>6, Zenon DEF Compare
<1> QED
  BY <1>1, <1>2

(* The smaller and the larger of two numbers.                              *)
LEMMA OfTwo ==
  ASSUME NEW x \in Int, NEW y \in Int
  PROVE  /\ Min({x, y}) \in Int /\ Min({x, y}) <= x /\ Min({x, y}) <= y
         /\ Max({x, y}) \in {x, y} /\ Max({x, y}) >= x /\ Max({x, y}) >= y
<1>1. \E z \in {x, y} : \A w \in {x, y} : z <= w
  <2>1. x <= y \/ y <= x
    OBVIOUS
  <2> QED
    BY <2>1
<1>2. \E z \in {x, y} : \A w \in {x, y} : z >= w
  <2>1. x <= y \/ y <= x
    OBVIOUS
  <2> QED
    BY <2>1
<1>3. Min({x, y}) \in {x, y} /\ \A w \in {x, y} : Min({x, y}) <= w
  BY <1>1, Zenon DEF Min
<1>4. Max({x, y}) \in {x, y} /\ \A w \in {x, y} : Max({x, y}) >= w
  BY <1>2, Zenon DEF Max
<1> QED
  BY <1>3, <1>4

(* A comparison is a MatchResult, its confidence between nought and one.   *)
LEMMA CompareType ==
  ASSUME NEW c \in Criteria, NEW d \in Criteria
  PROVE  Compare(c, d) \in [match : BOOLEAN, confidence : 0 .. 10, review : BOOLEAN, judged : BOOLEAN]
<1> DEFINE n == Cardinality(Differences(c, d))
           least == Min({c.confidence, d.confidence})
           left == least - n
<1>1. n \in Nat
  BY DifferencesFinite, FS_CardinalityType
<1>2. least \in Int /\ least <= 10
  <2>1. c.confidence \in 0 .. 10 /\ d.confidence \in 0 .. 10
    BY CriteriaAssumption
  <2>2. c.confidence \in Int /\ d.confidence \in Int /\ c.confidence <= 10
    BY <2>1
  <2>3. least \in Int /\ least <= c.confidence
    BY <2>2, OfTwo
  <2> HIDE DEF least
  <2> QED
    BY <2>2, <2>3
<1> HIDE DEF n, least
<1>3. left \in Int /\ left <= 10
  BY <1>1, <1>2
<1> HIDE DEF left
<1>4. Max({0, left}) \in 0 .. 10
  <2>1. 0 \in Int
    OBVIOUS
  <2>2. Max({0, left}) \in {0, left} /\ Max({0, left}) >= 0
    BY <1>3, <2>1, OfTwo
  <2> QED
    BY <1>3, <2>2
<1>5. Compare(c, d) = IF c.type # d.type THEN [Unjudged EXCEPT !.judged = TRUE]
                      ELSE [match |-> n = 0, confidence |-> Max({0, left}), review |-> n > 0 /\ left >= 6,
                            judged |-> TRUE]
  BY DEF Compare, n, left, least
<1>6. CASE c.type # d.type
  <2> DEFINE result == [match : BOOLEAN, confidence : 0 .. 10, review : BOOLEAN, judged : BOOLEAN]
  <2>1. Unjudged \in result
    BY DEF Unjudged
  <2>2. [Unjudged EXCEPT !.judged = TRUE] \in result
    BY <2>1
  <2> QED
    BY <1>5, <1>6, <2>2
<1>7. CASE c.type = d.type
  <2> DEFINE top == Max({0, left})
  <2>1. /\ top \in 0 .. 10
        /\ Compare(c, d) = [match |-> n = 0, confidence |-> top, review |-> n > 0 /\ left >= 6, judged |-> TRUE]
    BY <1>4, <1>5, <1>7
  <2> HIDE DEF top
  <2>2. (n = 0) \in BOOLEAN /\ (n > 0 /\ left >= 6) \in BOOLEAN
    OBVIOUS
  <2> QED
    BY <2>1, <2>2
<1> QED
  BY <1>6, <1>7

LEMMA VerdictInvariant == MatcherSpec => []Verdict
<1>1. MatcherInit => Verdict
  BY DEF MatcherInit, Verdict
<1>2. Verdict /\ [Judge]_matcherVars => Verdict'
  <2> SUFFICES ASSUME Verdict, [Judge]_matcherVars PROVE Verdict'
    OBVIOUS
  <2>1. UNCHANGED <<a, b>> /\ (verdict' = verdict \/ verdict' = Compare(a, b))
    BY DEF Judge, matcherVars
  <2>2. Compare(a, b)' = Compare(a', b')
    OBVIOUS
  <2> QED
    BY <2>1, <2>2 DEF Verdict
<1> QED
  BY <1>1, <1>2, PTL DEF MatcherSpec

(* Two markets that match, their windows in order, speak of a common       *)
(* event; with one threshold they resolve alike on it, whatever the metric *)
(* turns out to be and whichever case of the vocabulary happens that they  *)
(* do not both leave open (schema.py:66); and their order does not matter. *)
THEOREM MatchesAgree == MatcherSpec => []MatchAgrees
<1>1. ASSUME Verdict PROVE MatchAgrees
  <2> SUFFICES ASSUME verdict.judged
               PROVE  /\ verdict.match /\ a.start <= a.end /\ b.start <= b.end => Meet(a, b)
                      /\ verdict.match /\ a.threshold = b.threshold => a.type = b.type /\ Alike(a, b)
                      /\ verdict = Compare(b, a)
    BY DEF MatchAgrees
  <2>1. a \in Criteria /\ b \in Criteria /\ verdict = Compare(a, b)
    BY <1>1 DEF Verdict, Unjudged
  <2>2. verdict = Compare(b, a)
    BY <2>1, CompareSymmetric
  <2>3. ASSUME verdict.match PROVE a.type = b.type /\ Differences(a, b) = {}
    <3>1. a.type = b.type /\ Cardinality(Differences(a, b)) = 0
      BY <2>1, <2>3 DEF Compare, Unjudged
    <3> QED
      BY <2>1, <3>1, DifferencesFinite, FS_EmptySet
  <2>4. ASSUME verdict.match, a.start <= a.end, b.start <= b.end PROVE Meet(a, b)
    <3>1. ~DatesOverlap(a, b) => <<"field", "event_date">> \in Differences(a, b)
      BY DEF Fields, Differences
    <3> QED
      BY <2>1, <2>3, <2>4, <3>1, OverlapMeets
  <2>5. ASSUME verdict.match, a.threshold = b.threshold PROVE a.type = b.type /\ Alike(a, b)
    BY <2>1, <2>3, <2>5, MatchResolves
  <2> QED
    BY <2>2, <2>4, <2>5
<1> QED
  BY <1>1, VerdictInvariant, PTL

(* A verdict is a MatchResult, with a confidence that never leaves its     *)
(* range however many differences it pays for.                             *)
THEOREM VerdictTypes == MatcherSpec => []MatcherTypeOK
<1>1. ASSUME Verdict PROVE MatcherTypeOK
  <2>1. Unjudged \in [match : BOOLEAN, confidence : 0 .. 10, review : BOOLEAN, judged : BOOLEAN]
    BY DEF Unjudged
  <2>2. a \in Criteria /\ b \in Criteria /\ (verdict = Unjudged \/ verdict = Compare(a, b))
    BY <1>1 DEF Verdict
  <2> QED
    BY <2>1, <2>2, CompareType DEF MatcherTypeOK
<1> QED
  BY <1>1, VerdictInvariant, PTL

=============================================================================
