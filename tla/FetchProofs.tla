----------------------------- MODULE FetchProofs -----------------------------
(***************************************************************************)
(* What a cycle's fetch leaves behind: the rows of the snapshot log and    *)
(* the gauges that the kill-switch rules read.                             *)
(*                                                                         *)
(* The log loses no row while its process runs and is read back in order,  *)
(* for any width of a tick, any ceiling of the buffer, and any number of   *)
(* days, ticks and stops.  Both rest on the same fact, that the log only   *)
(* moves forward: what is buffered is later than all that was written, and *)
(* nothing was written for a later day than the one being written          *)
(* (Forward).  So rows appended to a file come after those of every        *)
(* earlier file, and the file that a rollover empties holds nothing this   *)
(* process accepted (Emptied).                                             *)
(*                                                                         *)
(* The gauges show every silence, price jump and depeg that the limits     *)
(* name, for any markets, limits and probe interval.  Each compares now    *)
(* with a remembered past, and an invariant says that the memory is of     *)
(* that past: a heartbeat is the platform's latest listing, the latest mid *)
(* known is that of the last fetch, a depeg older than the last probe was  *)
(* seen by it, and the failures that the window lacks came first and are   *)
(* older than it is wide (WindowInv).                                      *)
(***************************************************************************)
EXTENDS SnapshotLog, Monitoring, FiniteSetTheorems, SequenceTheorems, WellFoundedInduction, TLAPS


(* Rows are of ticks that have passed, and later ones wait in the buffer.  *)
Forward ==
  /\ \A d \in Day : \A r \in file[d] : r[1] <= tick /\ \A s \in buffer : r[1] < s[1]
  /\ \A s \in buffer : s[1] <= tick
  /\ \A d, e \in Day : d < e => \A r \in file[d], s \in file[e] : r[1] < s[1]
  /\ \A e \in Day : e > today => file[e] = {}
  /\ writing => current \in Day /\ \A e \in Day : e > current => file[e] = {}

(* Before a rollover nothing accepted is in the file it would empty.       *)
Emptied == up /\ ~Rolled => file[today] \cap accepted = {}

(* A process that has ended has no memory.                                 *)
Forgotten == ~up => buffer = {} /\ ~writing

LogInv == TypeOK /\ Forward /\ Emptied /\ Forgotten /\ KeptWhileUp

-----------------------------------------------------------------------------

LEMMA Bounds ==
  /\ Width \in Nat \ {0} /\ MaxBuffer \in Nat \ {0}
  /\ Days \in Nat \ {0} /\ Ticks \in Nat /\ MaxStops \in Nat
BY LogAssumption, BoundAssumption

LEMMA RowFinite == IsFiniteSet(Row)
<1>1. IsFiniteSet(1 .. Ticks) /\ IsFiniteSet(1 .. Width)
  BY Bounds, FS_Interval
<1> QED
  BY <1>1, FS_Product DEF Row

(* The rows of a tick that are taken are later than all others, and fit.   *)
LEMMA RoomFits ==
  ASSUME TypeOK, tick < Ticks
  PROVE  /\ Room(Fetched) \subseteq Row /\ \A r \in Room(Fetched) : r[1] = tick + 1
         /\ Cardinality(buffer \cup Room(Fetched)) <= MaxBuffer
<1> DEFINE free == MaxBuffer - Cardinality(buffer)
           most == {tick + 1} \X (1 .. free)
<1>1. buffer \subseteq Row /\ Cardinality(buffer) <= MaxBuffer /\ tick \in 0 .. Ticks
  BY DEF TypeOK
<1>2. IsFiniteSet(buffer) /\ Cardinality(buffer) \in Nat
  BY <1>1, RowFinite, FS_Subset, FS_CardinalityType
<1>3. free \in Nat
  BY <1>1, <1>2, Bounds
<1>4. Room(Fetched) \subseteq most
  BY <1>3, Bounds DEF Room, Fetched
<1>5. Room(Fetched) \subseteq Row /\ \A r \in Room(Fetched) : r[1] = tick + 1
  BY <1>1, Bounds DEF Room, Fetched, Row
<1>6. IsFiniteSet(1 .. free) /\ Cardinality(1 .. free) = free
  <2>1. 1 \in Int /\ free \in Int
    BY <1>3
  <2>2. Cardinality(1 .. free) = IF 1 > free THEN 0 ELSE free - 1 + 1
    BY <2>1, FS_Interval
  <2> HIDE DEF free
  <2> QED
    BY <1>3, <2>1, <2>2, FS_Interval
<1>7. IsFiniteSet(most) /\ Cardinality(most) = free
  <2>1. IsFiniteSet({tick + 1}) /\ Cardinality({tick + 1}) = 1
    BY FS_Singleton
  <2>2. IsFiniteSet(most) /\ Cardinality(most) = Cardinality({tick + 1}) * Cardinality(1 .. free)
    BY <1>6, <2>1, FS_Product
  <2> HIDE DEF most
  <2>3. Cardinality(most) = 1 * free
    BY <1>6, <2>1, <2>2
  <2> HIDE DEF free
  <2> QED
    BY <1>3, <2>2, <2>3
<1> HIDE DEF most
<1>8. IsFiniteSet(Room(Fetched)) /\ Cardinality(Room(Fetched)) <= free
  BY <1>4, <1>7, FS_Subset
<1>9. Cardinality(buffer \cup Room(Fetched)) <= Cardinality(buffer) + Cardinality(Room(Fetched))
  <2>1. Cardinality(buffer \cup Room(Fetched))
          = Cardinality(buffer) + Cardinality(Room(Fetched)) - Cardinality(buffer \cap Room(Fetched))
    BY <1>2, <1>8, FS_Union
  <2>2. Cardinality(Room(Fetched)) \in Nat /\ Cardinality(buffer \cap Room(Fetched)) \in Nat
    BY <1>2, <1>8, FS_Intersection, FS_CardinalityType
  <2> QED
    BY <1>2, <2>1, <2>2
<1>10. Cardinality(Room(Fetched)) \in Nat /\ Cardinality(buffer \cup Room(Fetched)) \in Nat
  BY <1>2, <1>8, FS_Union, FS_CardinalityType
<1>11. Cardinality(buffer) + Cardinality(Room(Fetched)) <= MaxBuffer
  BY <1>2, <1>8, <1>10, Bounds
<1> QED
  BY <1>2, <1>5, <1>9, <1>10, <1>11, Bounds

LEMMA InitLogInv == Init => LogInv
<1> SUFFICES ASSUME Init PROVE LogInv
  OBVIOUS
<1>1. Cardinality({}) = 0
  BY FS_EmptySet
<1>2. TypeOK
  <2>1. 1 \in Day /\ 0 \in 0 .. 1 /\ 0 \in 0 .. Ticks /\ 0 \in 0 .. MaxStops
    BY Bounds DEF Day
  <2>2. Cardinality(buffer) <= MaxBuffer
    BY <1>1, Bounds DEF Init
  <2>3. file \in [Day -> SUBSET Row]
    BY DEF Init
  <2> QED
    BY <2>1, <2>2, <2>3 DEF Init, TypeOK
<1>3. Forward /\ Emptied /\ Forgotten /\ KeptWhileUp
  BY DEF Init, Forward, Emptied, Forgotten, KeptWhileUp, Day
<1> QED
  BY <1>2, <1>3 DEF LogInv

(* write_many's rollover: what it empties was not accepted by this process. *)
LEMMA RolloverFacts ==
  ASSUME LogInv, up
  PROVE  /\ FileOpened \in [Day -> SUBSET Row]
         /\ \A d \in Day : FileOpened[d] \subseteq file[d]
         /\ accepted \subseteq buffer \cup UNION { FileOpened[d] : d \in Day }
         /\ today \in Day
<1>1. file \in [Day -> SUBSET Row] /\ today \in Day
  BY DEF LogInv, TypeOK
<1>2. FileOpened \in [Day -> SUBSET Row] /\ \A d \in Day : FileOpened[d] \subseteq file[d]
  BY <1>1 DEF FileOpened
<1>3. accepted \subseteq buffer \cup UNION { file[d] : d \in Day }
  BY DEF LogInv, KeptWhileUp
<1>4. ~Rolled => file[today] \cap accepted = {}
  BY DEF LogInv, Emptied
<1>5. \A d \in Day : d # today => FileOpened[d] = file[d]
  BY <1>1 DEF FileOpened
<1>6. ASSUME NEW r \in accepted, r \notin buffer PROVE \E d \in Day : r \in FileOpened[d]
  <2>1. PICK d \in Day : r \in file[d]
    BY <1>3, <1>6
  <2>2. CASE d = today
    BY <1>4, <1>6, <2>1, <2>2 DEF FileOpened
  <2>3. CASE d # today
    BY <1>5, <2>1, <2>3
  <2> QED
    BY <2>2, <2>3
<1> QED
  BY <1>1, <1>2, <1>6

LEMMA WriteManyKeeps == ASSUME LogInv, WriteMany PROVE LogInv'
<1> DEFINE new == Room(Fetched)
<1>1. TypeOK /\ Forward /\ up
  BY DEF LogInv, WriteMany
<1>2. /\ tick < Ticks /\ tick' = tick + 1 /\ current' = today /\ writing' = TRUE
      /\ file' = FileOpened /\ buffer' = buffer \cup new /\ accepted' = accepted \cup new
      /\ UNCHANGED <<today, up, stops>>
  BY DEF WriteMany, Carried
<1>3. /\ new \subseteq Row /\ \A r \in new : r[1] = tick + 1
      /\ Cardinality(buffer \cup new) <= MaxBuffer
  BY <1>1, <1>2, RoomFits
<1> HIDE DEF new
<1>4. /\ FileOpened \in [Day -> SUBSET Row] /\ \A d \in Day : FileOpened[d] \subseteq file[d]
      /\ accepted \subseteq buffer \cup UNION { FileOpened[d] : d \in Day } /\ today \in Day
  BY <1>1, RolloverFacts
<1>5. TypeOK'
  BY <1>1, <1>2, <1>3, <1>4, Bounds DEF TypeOK, Day
<1>6. Forward'
  <2>1. tick \in Nat /\ \A r \in Row : r[1] \in Nat
    BY <1>1, Bounds DEF TypeOK, Row
  <2>2. \A d \in Day : \A r \in file'[d] : r \in file[d] /\ r \in Row
    BY <1>2, <1>4
  <2>3. \A s \in buffer' : s \in buffer \/ s[1] = tick + 1
    BY <1>2, <1>3
  <2>4. buffer \subseteq Row
    BY <1>1 DEF TypeOK
  <2>5. \A d \in Day : \A r \in file'[d] : r[1] <= tick' /\ \A s \in buffer' : r[1] < s[1]
    BY <1>1, <1>2, <2>1, <2>2, <2>3 DEF Forward
  <2>6. \A s \in buffer' : s[1] <= tick'
    BY <1>1, <1>2, <2>1, <2>3, <2>4 DEF Forward
  <2>7. \A d, e \in Day : d < e => \A r \in file'[d], s \in file'[e] : r[1] < s[1]
    BY <1>1, <2>2 DEF Forward
  <2>8. \A e \in Day : e > today => file'[e] = {}
    BY <1>1, <2>2 DEF Forward
  <2> QED
    BY <1>2, <1>4, <2>5, <2>6, <2>7, <2>8 DEF Forward
<1>7. Emptied' /\ Forgotten'
  BY <1>1, <1>2 DEF Emptied, Forgotten, Rolled
<1>8. KeptWhileUp'
  BY <1>2, <1>4 DEF KeptWhileUp
<1> QED
  BY <1>5, <1>6, <1>7, <1>8 DEF LogInv

LEMMA WriteManyFlushKeeps == ASSUME LogInv, WriteManyFlush PROVE LogInv'
<1> DEFINE new == Room(Fetched)
<1>1. TypeOK /\ Forward /\ up
  BY DEF LogInv, WriteManyFlush
<1>2. /\ tick < Ticks /\ tick' = tick + 1 /\ current' = today /\ writing' = TRUE
      /\ file' = [FileOpened EXCEPT ![today] = @ \cup (buffer \cup new)]
      /\ buffer' = {} /\ accepted' = accepted \cup new
      /\ UNCHANGED <<today, up, stops>>
  BY DEF WriteManyFlush, Carried, Kept
<1>3. new \subseteq Row /\ \A r \in new : r[1] = tick + 1
  BY <1>1, <1>2, RoomFits
<1> HIDE DEF new
<1>4. /\ FileOpened \in [Day -> SUBSET Row] /\ \A d \in Day : FileOpened[d] \subseteq file[d]
      /\ accepted \subseteq buffer \cup UNION { FileOpened[d] : d \in Day } /\ today \in Day
  BY <1>1, RolloverFacts
<1>5. /\ file'[today] = FileOpened[today] \cup buffer \cup new
      /\ \A d \in Day : d # today => file'[d] = FileOpened[d]
  BY <1>2, <1>4
<1>6. TypeOK'
  <2>1. Cardinality({}) = 0
    BY FS_EmptySet
  <2>2. file' \in [Day -> SUBSET Row]
    BY <1>1, <1>2, <1>3, <1>4 DEF TypeOK
  <2> QED
    BY <1>1, <1>2, <1>3, <1>4, <2>1, <2>2, Bounds DEF TypeOK, Day
<1>7. Forward'
  <2>1. tick \in Nat /\ today \in Nat /\ \A r \in Row : r[1] \in Nat
    BY <1>1, Bounds DEF TypeOK, Row, Day
  <2>2. \A d \in Day : d # today => \A r \in file'[d] : r \in file[d]
    BY <1>4, <1>5
  <2>3. \A r \in file'[today] : r \in file[today] \/ r \in buffer \/ r[1] = tick + 1
    BY <1>3, <1>4, <1>5
  <2>4. /\ file \in [Day -> SUBSET Row] /\ \A s \in buffer : s \in Row /\ s[1] <= tick
        /\ \A d \in Day : \A r \in file[d] : r[1] <= tick /\ \A s \in buffer : r[1] < s[1]
        /\ \A e \in Day : e > today => file[e] = {}
    BY <1>1 DEF TypeOK, Forward
  <2>5. \A d \in Day : \A r \in file'[d] : r[1] <= tick'
    BY <1>2, <2>1, <2>2, <2>3, <2>4
  <2>6. ASSUME NEW d \in Day, NEW e \in Day, d < e, NEW r \in file'[d], NEW s \in file'[e]
        PROVE  r[1] < s[1]
    <3>1. CASE e = today
      <4>0. d # today
        BY <2>1, <2>6, <3>1 DEF Day
      <4>1. r \in file[d] /\ r \in Row /\ r[1] \in Nat
        BY <2>1, <2>2, <2>4, <2>6, <4>0
      <4>2. s \in file[e] \/ s \in buffer \/ s[1] = tick + 1
        BY <2>3, <2>6, <3>1
      <4>3. r[1] <= tick /\ (s \in buffer => r[1] < s[1])
        BY <2>4, <4>1
      <4>4. s \in file[e] => r[1] < s[1]
        BY <1>1, <2>6, <4>1 DEF Forward
      <4> QED
        BY <2>1, <4>1, <4>2, <4>3, <4>4
    <3>2. CASE e # today
      <4>1. s \in file[e]
        BY <2>2, <2>6, <3>2
      <4>2. ~(e > today)
        BY <2>4, <4>1
      <4>3. d # today /\ e \in Nat /\ d \in Nat
        BY <1>4, <2>1, <2>6, <3>2, <4>2 DEF Day
      <4>4. r \in file[d]
        BY <2>2, <2>6, <4>3
      <4> QED
        BY <1>1, <2>6, <4>1, <4>4 DEF Forward
    <3> QED
      BY <3>1, <3>2
  <2>7. \A e \in Day : e > today => file'[e] = {}
    BY <1>4, <2>1, <2>2, <2>4
  <2> QED
    BY <1>2, <1>4, <2>5, <2>6, <2>7 DEF Forward
<1>8. Emptied' /\ Forgotten'
  BY <1>1, <1>2 DEF Emptied, Forgotten, Rolled
<1>9. KeptWhileUp'
  <2>1. ASSUME NEW r \in accepted' PROVE \E d \in Day : r \in file'[d]
    BY <1>2, <1>4, <1>5
  <2> QED
    BY <2>1 DEF KeptWhileUp
<1> QED
  BY <1>6, <1>7, <1>8, <1>9 DEF LogInv

(* A file grows by what the buffer holds, which becomes empty.             *)
LEMMA FlushedKeeps ==
  ASSUME LogInv, writing, file' = [file EXCEPT ![current] = @ \cup buffer], buffer' = {},
         UNCHANGED <<today, tick>>
  PROVE  /\ file' \in [Day -> SUBSET Row] /\ Cardinality(buffer') <= MaxBuffer
         /\ \A d \in Day : \A r \in file'[d] : r[1] <= tick
         /\ \A d, e \in Day : d < e => \A r \in file'[d], s \in file'[e] : r[1] < s[1]
         /\ \A e \in Day : e > current => file'[e] = {}
         /\ buffer \cup UNION { file[d] : d \in Day } \subseteq UNION { file'[d] : d \in Day }
<1>1. TypeOK /\ Forward
  BY DEF LogInv
<1>2. /\ current \in Day /\ \A e \in Day : e > current => file[e] = {}
      /\ file \in [Day -> SUBSET Row] /\ buffer \subseteq Row
  BY <1>1 DEF Forward, TypeOK
<1>3. file'[current] = file[current] \cup buffer /\ \A d \in Day : d # current => file'[d] = file[d]
  BY <1>2
<1>4. \A d \in Day : d \in Int
  BY Bounds DEF Day
<1>5. file' \in [Day -> SUBSET Row]
  BY <1>2
<1>6. Cardinality(buffer') <= MaxBuffer
  BY FS_EmptySet, Bounds
<1>7. \A d \in Day : \A r \in file'[d] : r[1] <= tick
  BY <1>1, <1>2, <1>3 DEF Forward
<1>8. \A e \in Day : e > current => file'[e] = {}
  BY <1>2, <1>3, <1>4
<1>9. ASSUME NEW d \in Day, NEW e \in Day, d < e, NEW r \in file'[d], NEW s \in file'[e]
      PROVE  r[1] < s[1]
  <2>1. d # current
    BY <1>4, <1>8, <1>9
  <2>2. r \in file[d]
    BY <1>3, <1>9, <2>1
  <2>3. s \in file[e] \/ s \in buffer
    BY <1>3, <1>9
  <2> QED
    BY <1>1, <1>9, <2>2, <2>3 DEF Forward
<1>10. buffer \cup UNION { file[d] : d \in Day } \subseteq UNION { file'[d] : d \in Day }
  BY <1>2, <1>3
<1> QED
  BY <1>5, <1>6, <1>7, <1>8, <1>9, <1>10

LEMMA FlushKeeps == ASSUME LogInv, Flush PROVE LogInv'
<1>1. /\ up /\ writing /\ file' = [file EXCEPT ![current] = @ \cup buffer] /\ buffer' = {}
      /\ UNCHANGED <<today, tick, up, current, writing, accepted, stops>>
  BY DEF Flush, Kept
<1>2. /\ file' \in [Day -> SUBSET Row] /\ Cardinality(buffer') <= MaxBuffer
      /\ \A d \in Day : \A r \in file'[d] : r[1] <= tick
      /\ \A d, e \in Day : d < e => \A r \in file'[d], s \in file'[e] : r[1] < s[1]
      /\ \A e \in Day : e > current => file'[e] = {}
      /\ buffer \cup UNION { file[d] : d \in Day } \subseteq UNION { file'[d] : d \in Day }
  BY <1>1, FlushedKeeps
<1>3. TypeOK /\ Forward /\ current \in Day /\ current <= today /\ today \in Nat
  BY <1>1, Bounds DEF LogInv, TypeOK, Forward, Day
<1>4. TypeOK'
  BY <1>1, <1>2, <1>3 DEF TypeOK
<1>5. Forward'
  <2>1. \A e \in Day : e > today => file'[e] = {}
    BY <1>2, <1>3, Bounds DEF Day
  <2> QED
    BY <1>1, <1>2, <1>3, <2>1 DEF Forward
<1>6. Emptied'
  <2>1. current # today => file'[today] = file[today]
    BY <1>1, <1>3 DEF TypeOK
  <2> QED
    BY <1>1, <2>1 DEF LogInv, Emptied, Rolled
<1>7. Forgotten' /\ KeptWhileUp'
  BY <1>1, <1>2 DEF LogInv, Forgotten, KeptWhileUp
<1> QED
  BY <1>4, <1>5, <1>6, <1>7 DEF LogInv

(* However the process ends, its files stay in order.                      *)
LEMMA EndedKeeps == ASSUME LogInv, Stop \/ Kill PROVE LogInv'
<1>1. /\ up' = FALSE /\ stops < MaxStops /\ stops' = stops + 1
      /\ buffer' = {} /\ current' = 0 /\ writing' = FALSE
      /\ UNCHANGED <<today, tick, accepted>>
      /\ \/ file' = file
         \/ writing /\ file' = [file EXCEPT ![current] = @ \cup buffer]
         \/ file' = [file EXCEPT ![current] = {}]
  BY DEF Stop, Kill, Ended
<1>2. TypeOK /\ Forward /\ today \in Nat
  BY Bounds DEF LogInv, TypeOK, Day
<1>3. /\ file' \in [Day -> SUBSET Row] /\ Cardinality(buffer') <= MaxBuffer
      /\ \A d \in Day : \A r \in file'[d] : r[1] <= tick
      /\ \A d, e \in Day : d < e => \A r \in file'[d], s \in file'[e] : r[1] < s[1]
      /\ \A e \in Day : e > today => file'[e] = {}
  <2>1. CASE file' = file
    BY <1>1, <1>2, <2>1, FS_EmptySet, Bounds DEF TypeOK, Forward
  <2>2. CASE writing /\ file' = [file EXCEPT ![current] = @ \cup buffer]
    <3>1. /\ file' \in [Day -> SUBSET Row] /\ Cardinality(buffer') <= MaxBuffer
          /\ \A d \in Day : \A r \in file'[d] : r[1] <= tick
          /\ \A d, e \in Day : d < e => \A r \in file'[d], s \in file'[e] : r[1] < s[1]
          /\ \A e \in Day : e > current => file'[e] = {}
      BY <1>1, <2>2, FlushedKeeps
    <3>2. current \in Nat /\ current <= today
      BY <1>2 DEF TypeOK
    <3>3. \A e \in Day : e > today => file'[e] = {}
      BY <1>2, <3>1, <3>2, Bounds DEF Day
    <3> QED
      BY <3>1, <3>3
  <2>3. CASE file' = [file EXCEPT ![current] = {}]
    <3>1. file' \in [Day -> SUBSET Row] /\ \A d \in Day : file'[d] \subseteq file[d]
      BY <1>2, <2>3 DEF TypeOK
    <3> QED
      BY <1>1, <1>2, <3>1, FS_EmptySet, Bounds DEF TypeOK, Forward
  <2> QED
    BY <1>1, <2>1, <2>2, <2>3
<1>4. TypeOK'
  <2>1. stops + 1 \in 0 .. MaxStops
    BY <1>1, <1>2, Bounds DEF TypeOK
  <2>2. 0 \in 0 .. today
    BY <1>2
  <2> QED
    BY <1>1, <1>2, <1>3, <2>1, <2>2 DEF TypeOK
<1>5. Forward'
  BY <1>1, <1>3 DEF Forward
<1>6. Emptied' /\ Forgotten' /\ KeptWhileUp'
  BY <1>1 DEF Emptied, Forgotten, KeptWhileUp
<1> QED
  BY <1>4, <1>5, <1>6 DEF LogInv

LEMMA StartKeeps == ASSUME LogInv, Start PROVE LogInv'
<1>1. /\ ~up /\ up' = TRUE /\ accepted' = {}
      /\ UNCHANGED <<today, tick, buffer, current, writing, file, stops>>
  BY DEF Start
<1>2. TypeOK' /\ Forward'
  BY <1>1 DEF LogInv, TypeOK, Forward
<1>3. Emptied' /\ Forgotten' /\ KeptWhileUp'
  BY <1>1 DEF Emptied, Forgotten, KeptWhileUp
<1> QED
  BY <1>2, <1>3 DEF LogInv

LEMMA MidnightKeeps == ASSUME LogInv, Midnight PROVE LogInv'
<1>1. /\ today < Days /\ today' = today + 1
      /\ UNCHANGED <<tick, up, buffer, current, writing, file, accepted, stops>>
  BY DEF Midnight
<1>2. TypeOK /\ Forward /\ today \in 1 .. Days /\ today + 1 \in Day
  BY <1>1, Bounds DEF LogInv, TypeOK, Day
<1>3. TypeOK'
  BY <1>1, <1>2, Bounds DEF TypeOK, Day
<1>4. Forward'
  BY <1>1, <1>2, Bounds DEF Forward, Day
<1>5. Emptied'
  BY <1>1, <1>2, Bounds DEF Forward, Emptied
<1>6. Forgotten' /\ KeptWhileUp'
  BY <1>1 DEF LogInv, Forgotten, KeptWhileUp
<1> QED
  BY <1>3, <1>4, <1>5, <1>6 DEF LogInv

LEMMA RefusedKeeps == ASSUME LogInv, WriteManyRefused PROVE LogInv'
<1>1. /\ up /\ tick < Ticks /\ ~Rolled /\ tick' = tick + 1 /\ current' = today /\ writing' = FALSE
      /\ UNCHANGED <<today, up, buffer, file, accepted, stops>>
  BY DEF WriteManyRefused
<1>2. TypeOK /\ Forward /\ tick \in Nat /\ \A r \in Row : r[1] \in Nat
  BY Bounds DEF LogInv, TypeOK, Row
<1>3. TypeOK'
  <2>1. tick + 1 \in 0 .. Ticks
    BY <1>1, <1>2, Bounds DEF TypeOK
  <2>2. today \in 0 .. today
    BY <1>2, Bounds DEF TypeOK, Day
  <2> QED
    BY <1>1, <1>2, <2>1, <2>2 DEF TypeOK
<1>4. Forward'
  <2>1. \A d \in Day : \A r \in file[d] : r \in Row /\ r[1] <= tick
    BY <1>2 DEF TypeOK, Forward
  <2>2. \A s \in buffer : s \in Row /\ s[1] <= tick
    BY <1>2 DEF TypeOK, Forward
  <2>3. \A r \in Row : r[1] <= tick => r[1] <= tick + 1
    BY <1>2
  <2> QED
    BY <1>1, <1>2, <2>1, <2>2, <2>3 DEF Forward
<1>5. Emptied' /\ Forgotten' /\ KeptWhileUp'
  BY <1>1 DEF LogInv, Emptied, Forgotten, KeptWhileUp
<1> QED
  BY <1>3, <1>4, <1>5 DEF LogInv

LEMMA StepLogInv == LogInv /\ [Next]_vars => LogInv'
<1> SUFFICES ASSUME LogInv, [Next]_vars PROVE LogInv'
  OBVIOUS
<1>1. CASE Next
  BY <1>1, StartKeeps, MidnightKeeps, WriteManyKeeps, WriteManyFlushKeeps, RefusedKeeps, FlushKeeps,
     EndedKeeps DEF Next
<1>2. CASE UNCHANGED vars
  BY <1>2 DEF vars, LogInv, TypeOK, Forward, Emptied, Rolled, Forgotten, KeptWhileUp
<1> QED
  BY <1>1, <1>2

-----------------------------------------------------------------------------

(* The types hold in every state: above all, the buffer never holds more   *)
(* than max_buffer_size rows, whatever it carries over a rollover.         *)
THEOREM TypeCorrect == Spec => []TypeOK
<1>1. LogInv => TypeOK
  BY DEF LogInv
<1> QED
  BY InitLogInv, StepLogInv, <1>1, PTL DEF Spec

(* Midnights, refused files and rollovers that truncate lose no accepted   *)
(* row of a running process (parquet_writer.py:152).                       *)
THEOREM NothingAcceptedIsLost == Spec => []KeptWhileUp
<1>1. LogInv => KeptWhileUp
  BY DEF LogInv
<1> QED
  BY InitLogInv, StepLogInv, <1>1, PTL DEF Spec

(* Files read one after the other are in order, and what was flushed is no *)
(* longer in the buffer (replay_stream.py:67).                             *)
THEOREM FilesAreInOrder == Spec => []ReplayIsChronological
<1>1. ASSUME LogInv PROVE ReplayIsChronological
  <2>1. ASSUME NEW d \in Day, NEW r \in file[d], r \in buffer PROVE FALSE
    <3>1. r \in Row /\ r[1] \in Nat
      BY <1>1, <2>1, Bounds DEF LogInv, TypeOK, Row
    <3>2. r[1] < r[1]
      BY <1>1, <2>1 DEF LogInv, Forward
    <3> QED
      BY <3>1, <3>2
  <2> QED
    BY <1>1, <2>1 DEF LogInv, Forward, ReplayIsChronological
<1> QED
  BY InitLogInv, StepLogInv, <1>1, PTL DEF Spec

-----------------------------------------------------------------------------
(* The gauges.                                                             *)

GaugeTypes ==
  /\ now \in Nat /\ pc \in {"down", "fetch", "probe", "evaluate"} /\ loop \in Nat
  /\ usdc \in BOOLEAN /\ par \in BOOLEAN /\ low \in Nat
  /\ DOMAIN heartbeat \subseteq Platform
  /\ listed \in [Platform -> Int]

(* A heartbeat since the start is the latest listing ever.                 *)
HeartbeatIsListing == \A p \in DOMAIN heartbeat : heartbeat[p] = listed[p]

(* The mids of the last fetch are the latest known.                        *)
MidTypes ==
  /\ DOMAIN prevMid \subseteq Market /\ \A m \in DOMAIN prevMid : prevMid[m] \in Mid
  /\ \A m \in DOMAIN quoted.this : quoted.this[m] # NoMid => quoted.this[m] \in Mid
LatestKnown ==
  \A m \in DOMAIN quoted.this :
    quoted.this[m] # NoMid => m \in DOMAIN prevMid /\ prevMid[m] = quoted.this[m]

(* From the fetch to the evaluation, the gauge shows every large change.   *)
JumpsSeen ==
  pc \in {"probe", "evaluate"} =>
    \A m \in DOMAIN quoted.this \cap DOMAIN quoted.last :
      /\ quoted.this[m] # NoMid /\ quoted.last[m] # NoMid
      /\ Change(quoted.last[m], quoted.this[m]) > MaxJump
      => jump > MaxJump
PricesInv == MidTypes /\ LatestKnown /\ JumpsSeen

(* How many loops ago the last probe was due.                              *)
SinceProbe(n) == IF n % ProbeCycles = 0 THEN ProbeCycles - 1 ELSE (n % ProbeCycles) - 1

(* A depeg that has lasted since before the last probe was seen by it.     *)
Looked == pc \in {"fetch", "evaluate"} \/ (pc = "probe" /\ ~Probes)
PegInv ==
  /\ low > 0 => ~par
  /\ pc = "down" => low = 0
  /\ Looked /\ low > SinceProbe(loop) => ~usdc

LEMMA Limits ==
  /\ IsFiniteSet(Market) /\ PlatformOf \in [Market -> Platform]
  /\ Mid \subseteq Nat \ {0} /\ NoMid \notin Mid
  /\ MaxSilence \in Nat /\ MaxJump \in Nat /\ Window \in Nat /\ MaxFailures \in Nat
  /\ ProbeCycles \in Nat \ {0, 1} /\ MaxGap \in Nat \ {0} /\ MaxTime \in Nat
BY MarketAssumption, MidAssumption, LimitAssumption, GapAssumption

LEMMA AnswerTypes ==
  ASSUME NEW markets \in Answers
  PROVE  /\ DOMAIN markets \subseteq Market
         /\ \A m \in DOMAIN markets : markets[m] \in Mid \cup {NoMid}
         /\ Heard(markets) \subseteq Platform
         /\ Recorded(markets) = { m \in DOMAIN markets : markets[m] \in Mid }
<1>1. PICK S \in SUBSET Market : markets \in [S -> Mid \cup {NoMid}]
  BY DEF Answers, Listings, Quotes
<1> QED
  BY <1>1, Limits DEF Heard, Recorded

LEMMA GaugeTypesStep ==
  GaugeTypes /\ [GaugesNext]_gaugesVars => GaugeTypes'
<1> SUFFICES ASSUME GaugeTypes, [GaugesNext]_gaugesVars PROVE GaugeTypes'
  OBVIOUS
<1> USE Limits DEF GaugeTypes
<1>1. CASE GaugesStart
  BY <1>1 DEF GaugesStart, gauges, history
<1>2. ASSUME NEW elapsed \in 1 .. MaxGap, NEW markets \in Answers, Fetch(elapsed, markets)
      PROVE  GaugeTypes'
  <2>1. now' \in Nat /\ loop' \in Nat /\ pc' = "probe" /\ UNCHANGED <<usdc, par>>
    BY <1>2 DEF Fetch
  <2>2. low' \in Nat
    BY <1>2 DEF Fetch, Smaller
  <2>3. DOMAIN heartbeat' = DOMAIN heartbeat \cup Heard(markets)
    BY <1>2 DEF Fetch, Updated
  <2>4. listed' \in [Platform -> Int]
    BY <1>2, <2>1 DEF Fetch
  <2> QED
    BY <2>1, <2>2, <2>3, <2>4, AnswerTypes
<1>3. CASE Probe \/ ProbeFails \/ NoProbe
  BY <1>3 DEF Probe, ProbeFails, NoProbe, gauges, history
<1>4. ASSUME NEW n \in 0 .. MaxFailures, EndCycle(n) PROVE GaugeTypes'
  BY <1>4 DEF EndCycle
<1>5. CASE Crash
  BY <1>5 DEF Crash
<1>6. CASE Peg
  BY <1>6 DEF Peg, gauges
<1>7. CASE UNCHANGED gaugesVars
  BY <1>7 DEF gaugesVars, gauges, history
<1> QED
  BY <1>1, <1>2, <1>3, <1>4, <1>5, <1>6, <1>7 DEF GaugesNext

LEMMA HeartbeatStep ==
  GaugeTypes /\ HeartbeatIsListing /\ [GaugesNext]_gaugesVars => HeartbeatIsListing'
<1> SUFFICES ASSUME GaugeTypes, HeartbeatIsListing, [GaugesNext]_gaugesVars
             PROVE  HeartbeatIsListing'
  OBVIOUS
<1> USE DEF HeartbeatIsListing
<1>1. CASE GaugesStart \/ Probe \/ ProbeFails \/ NoProbe \/ Peg \/ UNCHANGED gaugesVars
  BY <1>1 DEF GaugesStart, Probe, ProbeFails, NoProbe, Peg, gaugesVars, gauges, history
<1>2. ASSUME NEW elapsed \in 1 .. MaxGap, NEW markets \in Answers, Fetch(elapsed, markets)
      PROVE  HeartbeatIsListing'
  <2>1. heartbeat' = [p \in DOMAIN heartbeat \cup Heard(markets) |->
                        IF p \in Heard(markets) THEN now' ELSE heartbeat[p]]
    BY <1>2 DEF Fetch, Updated
  <2>2. listed' = [p \in Platform |-> IF p \in Heard(markets) THEN now' ELSE listed[p]]
    BY <1>2 DEF Fetch, Heard
  <2> QED
    BY <2>1, <2>2, AnswerTypes DEF GaugeTypes
<1>3. ASSUME NEW n \in 0 .. MaxFailures, EndCycle(n) PROVE HeartbeatIsListing'
  BY <1>3 DEF EndCycle
<1>4. CASE Crash
  BY <1>4 DEF Crash
<1> QED
  BY <1>1, <1>2, <1>3, <1>4 DEF GaugesNext

THEOREM SilenceIsSeen == GaugesSpec => []SilenceTrips
<1>1. GaugesInit => GaugeTypes /\ HeartbeatIsListing
  BY DEF GaugesInit, GaugeTypes, HeartbeatIsListing
<1>2. GaugeTypes /\ HeartbeatIsListing /\ [GaugesNext]_gaugesVars
        => (GaugeTypes /\ HeartbeatIsListing)'
  BY GaugeTypesStep, HeartbeatStep
<1>3. GaugeTypes /\ HeartbeatIsListing => SilenceTrips
  BY DEF GaugeTypes, HeartbeatIsListing, SilenceTrips, ApiDisconnect, Silent
<1> QED
  BY <1>1, <1>2, <1>3, PTL DEF GaugesSpec

-----------------------------------------------------------------------------

(* A nonempty finite set of integers has a largest element.                *)
LEMMA HasLargest ==
  ASSUME NEW S, IsFiniteSet(S), S \subseteq Int, S # {}
  PROVE  \E c \in S : \A d \in S : d <= c
<1> DEFINE Above(c) == { d \in S : d > c }
           ranks == { Cardinality(Above(c)) : c \in S }
           less == { pair \in Nat \X Nat : pair[1] < pair[2] }
<1>1. \A c \in S : IsFiniteSet(Above(c)) /\ Cardinality(Above(c)) \in Nat
  BY FS_Subset, FS_CardinalityType
<1>2. ranks \subseteq Nat /\ ranks # {}
  BY <1>1
<1>3. IsWellFoundedOn(less, Nat)
  BY NatLessThanWellFounded DEF OpToRel
<1>4. PICK n \in ranks : \A k \in ranks : ~ (<<k, n>> \in less)
  <2> HIDE DEF ranks, less
  <2> QED
    BY <1>2, <1>3, WFMin
<1>5. PICK c \in S : n = Cardinality(Above(c))
  OBVIOUS
<1>6. SUFFICES ASSUME NEW d \in S, d > c PROVE FALSE
  BY <1>5
<1>7. Above(d) \subseteq Above(c) /\ d \in Above(c) /\ d \notin Above(d)
  <2>1. c \in Int /\ d \in Int
    BY <1>6
  <2>2. \A e \in S : e \in Int
    OBVIOUS
  <2>3. \A e \in Above(d) : e \in S /\ e > d /\ e > c
    BY <2>1, <2>2, <1>6
  <2>4. d \notin Above(d)
    BY <2>1
  <2>5. d \in Above(c)
    BY <2>1, <1>6
  <2> QED
    BY <2>3, <2>4, <2>5
<1>8. Cardinality(Above(d)) <= Cardinality(Above(c)) /\ Cardinality(Above(d)) # n
  <2> HIDE DEF Above
  <2> QED
    BY <1>7, <1>1, <1>5, FS_Subset
<1>9. <<Cardinality(Above(d)), n>> \in less
  BY <1>8, <1>5, <1>1
<1> QED
  BY <1>9, <1>4

(* Largest is what it says, of finitely many natural numbers.              *)
LEMMA LargestIs ==
  ASSUME NEW S, IsFiniteSet(S), S \subseteq Nat
  PROVE  Largest(S) \in S \cup {0} /\ \A d \in S : d <= Largest(S)
<1> DEFINE all == S \cup {0}
<1>1. IsFiniteSet(all) /\ all \subseteq Int /\ all # {}
  BY FS_AddElement
<1>2. \E c \in all : \A d \in all : d <= c
  <2> HIDE DEF all
  <2> QED
    BY <1>1, HasLargest
<1>3. \E c \in S \cup {0} : \A d \in S : d <= c
  BY <1>2
<1> QED
  BY <1>3 DEF Largest

LEMMA ChangeType ==
  ASSUME NEW before \in Nat \ {0}, NEW after \in Nat
  PROVE  Change(before, after) \in Nat
<1>1. (IF before > after THEN before - after ELSE after - before) * 100 \in Nat
  OBVIOUS
<1> QED
  BY <1>1 DEF Change

(* The changes of price are natural numbers, and the gauge shows the       *)
(* largest, when the mids known are mids.                                  *)
LEMMA LargestJump ==
  ASSUME NEW markets \in Answers, MidTypes
  PROVE  /\ Largest(Jumps(markets)) \in Nat
         /\ \A d \in Jumps(markets) : d \in Nat /\ d <= Largest(Jumps(markets))
<1> DEFINE both == { k \in DOMAIN markets \cap DOMAIN prevMid : markets[k] # NoMid }
           change == [m \in both |-> Change(prevMid[m], markets[m])]
<1>1. IsFiniteSet(both)
  BY AnswerTypes, Limits, FS_Subset
<1>2. change \in Surjection(both, Jumps(markets))
  BY DEF Surjection, Jumps
<1>3. IsFiniteSet(Jumps(markets))
  <2> HIDE DEF both, change
  <2> QED
    BY <1>1, <1>2, FS_Surjection
<1>4. Jumps(markets) \subseteq Nat
  <2> SUFFICES ASSUME NEW m \in both PROVE Change(prevMid[m], markets[m]) \in Nat
    BY DEF Jumps
  <2> QED
    BY AnswerTypes, ChangeType, Limits DEF MidTypes
<1> QED
  BY <1>3, <1>4, LargestIs

LEMMA PricesStep ==
  GaugeTypes /\ PricesInv /\ [GaugesNext]_gaugesVars => PricesInv'
<1> SUFFICES ASSUME GaugeTypes, PricesInv, [GaugesNext]_gaugesVars PROVE PricesInv'
  OBVIOUS
<1>1. CASE GaugesStart \/ Probe \/ ProbeFails \/ NoProbe \/ Peg \/ UNCHANGED gaugesVars
  BY <1>1 DEF GaugesStart, Probe, ProbeFails, NoProbe, Peg, gaugesVars, gauges, history,
              PricesInv, MidTypes, LatestKnown, JumpsSeen
<1>2. ASSUME NEW elapsed \in 1 .. MaxGap, NEW markets \in Answers, Fetch(elapsed, markets)
      PROVE  PricesInv'
  <2>1. prevMid' = [m \in DOMAIN prevMid \cup Recorded(markets) |->
                      IF m \in Recorded(markets) THEN markets[m] ELSE prevMid[m]]
    BY <1>2 DEF Fetch, Updated
  <2>2. quoted' = [this |-> markets, last |-> quoted.this]
    BY <1>2 DEF Fetch
  <2>3. MidTypes'
    BY <2>1, <2>2, AnswerTypes DEF PricesInv, MidTypes
  <2>4. LatestKnown'
    BY <2>1, <2>2 DEF LatestKnown, Recorded
  <2>5. JumpsSeen'
    <3> SUFFICES ASSUME NEW m \in DOMAIN markets \cap DOMAIN quoted.this,
                        markets[m] # NoMid, quoted.this[m] # NoMid,
                        Change(quoted.this[m], markets[m]) > MaxJump
                 PROVE  jump' > MaxJump
      BY <2>2 DEF JumpsSeen
    <3>1. m \in DOMAIN prevMid /\ prevMid[m] = quoted.this[m]
      BY DEF PricesInv, LatestKnown
    <3>2. Change(quoted.this[m], markets[m]) \in Jumps(markets)
      BY <3>1 DEF Jumps
    <3>3. markets # NoQuote
      BY DEF NoQuote
    <3>4. jump' = Largest(Jumps(markets))
      BY <1>2, <3>3 DEF Fetch
    <3> QED
      BY <3>2, <3>4, LargestJump, Limits DEF PricesInv
  <2> QED
    BY <2>3, <2>4, <2>5 DEF PricesInv
<1>3. ASSUME NEW n \in 0 .. MaxFailures, EndCycle(n) PROVE PricesInv'
  BY <1>3 DEF EndCycle, PricesInv, MidTypes, LatestKnown, JumpsSeen
<1>4. CASE Crash
  BY <1>4 DEF Crash, NoQuote, PricesInv, MidTypes, LatestKnown, JumpsSeen
<1> QED
  BY <1>1, <1>2, <1>3, <1>4 DEF GaugesNext

-----------------------------------------------------------------------------

(* Division with remainder is unique.                                      *)
LEMMA UniqueRemainder ==
  ASSUME NEW P \in Nat \ {0}, NEW q1 \in Int, NEW q2 \in Int,
         NEW r1 \in 0 .. P - 1, NEW r2 \in 0 .. P - 1, P * q1 + r1 = P * q2 + r2
  PROVE  r1 = r2
<1>1. P * (q1 - q2) = r2 - r1 /\ P * (q2 - q1) = r1 - r2
  OBVIOUS
<1>2. CASE q1 = q2
  BY <1>2
<1>3. CASE q1 > q2
  <2>1. q1 - q2 \in Nat /\ q1 - q2 >= 1
    BY <1>3
  <2>2. P * (q1 - q2) >= P
    BY <2>1
  <2> QED
    BY <2>2, <1>1
<1>4. CASE q1 < q2
  <2>1. q2 - q1 \in Nat /\ q2 - q1 >= 1
    BY <1>4
  <2>2. P * (q2 - q1) >= P
    BY <2>1
  <2> QED
    BY <2>2, <1>1
<1> QED
  BY <1>2, <1>3, <1>4

LEMMA DivisionType ==
  ASSUME NEW n \in Nat, NEW P \in Nat \ {0}
  PROVE  n \div P \in Nat /\ n % P \in 0 .. P - 1 /\ n = P * (n \div P) + (n % P)
OBVIOUS

(* Loops count up modulo ProbeCycles.                                      *)
LEMMA NextRemainder ==
  ASSUME NEW n \in Nat, NEW P \in Nat \ {0, 1}
  PROVE  /\ n % P \in 0 .. P - 1
         /\ (n + 1) % P = IF n % P = P - 1 THEN 0 ELSE (n % P) + 1
<1> DEFINE q == n \div P
           r == n % P
           q1 == (n + 1) \div P
           r1 == (n + 1) % P
<1>1. q \in Nat /\ r \in 0 .. P - 1 /\ n = P * q + r
  BY DivisionType
<1>2. q1 \in Nat /\ r1 \in 0 .. P - 1 /\ n + 1 = P * q1 + r1
  <2>1. n + 1 \in Nat /\ P \in Nat \ {0}
    OBVIOUS
  <2> HIDE DEF q, r
  <2> QED
    BY <2>1, DivisionType
<1> HIDE DEF q, r, q1, r1
<1>3. CASE r = P - 1
  <2>1. P * (q + 1) = P * q + P
    BY <1>1
  <2>2. P * (q + 1) + 0 = P * q1 + r1
    BY <2>1, <1>1, <1>2, <1>3
  <2>3. 0 \in 0 .. P - 1 /\ q + 1 \in Int /\ q1 \in Int
    BY <1>1, <1>2
  <2>4. r1 = 0
    BY <2>2, <2>3, <1>2, UniqueRemainder
  <2> QED
    BY <2>4, <1>1, <1>3 DEF r, r1
<1>4. CASE r # P - 1
  <2>1. P * q + (r + 1) = P * q1 + r1
    BY <1>1, <1>2
  <2>2. r + 1 \in 0 .. P - 1
    BY <1>1, <1>4
  <2>3. r1 = r + 1
    BY <2>1, <2>2, <1>1, <1>2, UniqueRemainder
  <2> QED
    BY <2>3, <1>1, <1>4 DEF r, r1
<1> QED
  BY <1>3, <1>4

(* A loop later the probe is a loop older, or due.                         *)
LEMMA ProbeAges ==
  ASSUME NEW n \in Nat
  PROVE  /\ SinceProbe(n) \in 0 .. ProbeCycles - 1
         /\ (n + 1) % ProbeCycles # 1 => SinceProbe(n + 1) = SinceProbe(n) + 1
<1>1. /\ n % ProbeCycles \in 0 .. ProbeCycles - 1
      /\ (n + 1) % ProbeCycles =
           IF n % ProbeCycles = ProbeCycles - 1 THEN 0 ELSE (n % ProbeCycles) + 1
  BY Limits, NextRemainder
<1> QED
  BY <1>1, Limits DEF SinceProbe

LEMMA PegStep ==
  GaugeTypes /\ PegInv /\ [GaugesNext]_gaugesVars => PegInv'
<1> SUFFICES ASSUME GaugeTypes, PegInv, [GaugesNext]_gaugesVars PROVE PegInv'
  OBVIOUS
<1> USE Limits DEF GaugeTypes, PegInv, Looked
<1>0. SinceProbe(loop) \in Nat
  BY ProbeAges
<1>1. CASE GaugesStart
  BY <1>1, <1>0 DEF GaugesStart, gauges, history
<1>2. ASSUME NEW elapsed \in 1 .. MaxGap, NEW markets \in Answers, Fetch(elapsed, markets)
      PROVE  PegInv'
  <2>1. loop' = loop + 1 /\ pc = "fetch" /\ pc' = "probe" /\ UNCHANGED <<usdc, par>>
    BY <1>2 DEF Fetch
  <2>2. low' = (IF par THEN 0 ELSE Smaller(ProbeCycles, low + 1))
    BY <1>2 DEF Fetch
  <2>3. low' > 0 => ~par
    BY <2>2
  <2>4. ASSUME ~Probes', low' > SinceProbe(loop') PROVE ~usdc
    <3>1. SinceProbe(loop') = SinceProbe(loop) + 1
      BY <2>4, <2>1, ProbeAges DEF Probes
    <3>2. low' <= low + 1
      BY <2>2 DEF Smaller
    <3>3. low > SinceProbe(loop)
      BY <3>1, <3>2, <2>2, <2>4, <1>0 DEF Smaller
    <3> QED
      BY <3>3, <2>1
  <2> QED
    BY <2>1, <2>3, <2>4
<1>3. CASE Probe
  <2>1. usdc' = par /\ UNCHANGED <<loop, low, par>> /\ pc' = "evaluate"
    BY <1>3 DEF Probe, history
  <2>2. low > SinceProbe(loop) => ~par
    BY <1>0
  <2> QED
    BY <2>1, <2>2
<1>4. CASE ProbeFails
  BY <1>4, <1>0 DEF ProbeFails, gauges
<1>5. CASE NoProbe
  BY <1>5 DEF NoProbe, gauges, history
<1>6. ASSUME NEW n \in 0 .. MaxFailures, EndCycle(n) PROVE PegInv'
  <2>1. UNCHANGED <<loop, low, par, usdc>> /\ pc = "evaluate" /\ pc' = "fetch"
    BY <1>6 DEF EndCycle
  <2> QED
    BY <2>1, <1>0
<1>7. CASE Crash
  BY <1>7 DEF Crash, SinceProbe
<1>8. CASE Peg
  BY <1>8, <1>0 DEF Peg, gauges
<1>9. CASE UNCHANGED gaugesVars
  BY <1>9 DEF gaugesVars, gauges, history, Probes
<1> QED
  BY <1>1, <1>2, <1>3, <1>4, <1>5, <1>6, <1>7, <1>8, <1>9 DEF GaugesNext

THEOREM NoTroubleSlipsThrough == GaugesSpec => []TroubleIsSeen
<1>1. GaugesInit => GaugeTypes /\ PricesInv /\ PegInv
  BY DEF GaugesInit, GaugeTypes, NoQuote, PricesInv, MidTypes, LatestKnown, JumpsSeen,
         PegInv, Looked
<1>2. GaugeTypes /\ PricesInv /\ PegInv /\ [GaugesNext]_gaugesVars
        => (GaugeTypes /\ PricesInv /\ PegInv)'
  BY GaugeTypesStep, PricesStep, PegStep
<1>3. GaugeTypes /\ PricesInv /\ PegInv => TroubleIsSeen
  <2> SUFFICES ASSUME GaugeTypes, PricesInv, PegInv, Evaluating PROVE TroubleIsSeen
    BY DEF TroubleIsSeen
  <2>1. low > SinceProbe(loop) => UsdcDepeg
    BY DEF GaugeTypes, PegInv, Looked, Evaluating, UsdcDepeg
  <2>2. SinceProbe(loop) < ProbeCycles
    BY ProbeAges, Limits DEF GaugeTypes
  <2>3. SinceProbe(1) = 0
    <3>1. 0 % ProbeCycles = 0
      BY Limits
    <3>2. 1 % ProbeCycles = 1
      BY <3>1, Limits, NextRemainder
    <3> QED
      BY <3>2 DEF SinceProbe
  <2>4. \A m \in DOMAIN quoted.this \cap DOMAIN quoted.last :
          /\ quoted.this[m] # NoMid /\ quoted.last[m] # NoMid
          /\ Change(quoted.last[m], quoted.this[m]) > MaxJump
          => AbnormalPriceJump
    BY DEF PricesInv, JumpsSeen, Evaluating, AbnormalPriceJump
  <2> QED
    BY <2>1, <2>2, <2>3, <2>4 DEF TroubleIsSeen
<1> QED
  BY <1>1, <1>2, <1>3, PTL DEF GaugesSpec

-----------------------------------------------------------------------------
(***************************************************************************)
(* The window of failures: of all failures since the start, in order, the  *)
(* ones it no longer has came first and are older than it is wide.         *)
(***************************************************************************)

Gone == Len(failed) - Len(failures)
WindowInv ==
  /\ now \in Nat /\ failures \in Seq(0 .. now) /\ failed \in Seq(0 .. now)
  /\ \A i, j \in 1 .. Len(failed) : i <= j => failed[i] <= failed[j]
  /\ Gone \in Nat
  /\ \A i \in 1 .. Len(failures) : failures[i] = failed[Gone + i]
  /\ \A i \in 1 .. Gone : failed[i] < now - Window

(* Of events in order, those before a time leave and no others.            *)
LEMMA SinceIs ==
  ASSUME NEW S, S \subseteq Nat, NEW events \in Seq(S), NEW time \in Int,
         \A i, j \in 1 .. Len(events) : i <= j => events[i] <= events[j]
  PROVE  \E g \in 0 .. Len(events) :
           /\ Since(events, time) = SubSeq(events, g + 1, Len(events))
           /\ \A i \in 1 .. g : events[i] < time
           /\ \A i \in g + 1 .. Len(events) : events[i] >= time
<1> DEFINE N == Len(events)
           old == { i \in DOMAIN events : \A j \in 1 .. i : events[j] < time }
           g == Largest(old)
<1>1. N \in Nat /\ DOMAIN events = 1 .. N /\ \A i \in 1 .. N : events[i] \in Nat
  BY LenProperties, ElementOfSeq
<1>2. old \subseteq 1 .. N
  BY <1>1
<1>3. IsFiniteSet(old) /\ old \subseteq Nat
  <2>1. IsFiniteSet(1 .. N)
    BY <1>1, FS_Interval
  <2> QED
    BY <2>1, <1>1, <1>2, FS_Subset
<1>4. g \in old \cup {0} /\ \A d \in old : d <= g
  <2> HIDE DEF old
  <2> QED
    BY <1>3, LargestIs
<1>5. g \in 0 .. N /\ \A i \in 1 .. g : events[i] < time
  <2>1. g \in 0 .. N
    <3> HIDE DEF old, g, N
    <3> QED
      BY <1>1, <1>2, <1>4
  <2>2. CASE g = 0
    <3> HIDE DEF g
    <3> QED
      BY <2>1, <2>2
  <2>3. CASE g \in old
    <3> HIDE DEF g
    <3> QED
      BY <2>1, <2>3
  <2> QED
    BY <1>4, <2>1, <2>2, <2>3
<1>6. ASSUME NEW i \in g + 1 .. N PROVE events[i] >= time
  <2>1. g + 1 \in 1 .. N /\ i \in 1 .. N /\ g + 1 <= i
    BY <1>1, <1>5
  <2>2. g + 1 \notin old
    <3> HIDE DEF g, old
    <3>1. g \in Int
      BY <1>5
    <3> QED
      BY <1>4, <3>1
  <2>3. PICK j \in 1 .. g + 1 : ~ (events[j] < time)
    BY <2>1, <2>2, <1>1
  <2>4. j \in 1 .. N /\ j <= i
    BY <2>1, <2>3
  <2> QED
    BY <1>1, <2>1, <2>3, <2>4
<1> QED
  BY <1>5, <1>6 DEF Since

(* What trimming leaves is the end of all failures.                        *)
LEMMA TrimmedIs ==
  ASSUME WindowInv
  PROVE  \E g \in Gone .. Len(failed) :
           /\ Trimmed(failures, now) \in Seq(0 .. now)
           /\ Len(Trimmed(failures, now)) = Len(failed) - g
           /\ \A i \in 1 .. Len(failed) - g : Trimmed(failures, now)[i] = failed[g + i]
           /\ \A i \in 1 .. g : failed[i] < now - Window
           /\ \A i \in g + 1 .. Len(failed) : failed[i] >= now - Window
<1> DEFINE N == Len(failed)
           n == Len(failures)
           kept == Trimmed(failures, now)
<1>1. /\ now \in Nat /\ Window \in Nat /\ now - Window \in Int
      /\ failures \in Seq(0 .. now) /\ 0 .. now \subseteq Nat
      /\ N \in Nat /\ n \in Nat /\ Gone \in Nat /\ Gone = N - n
  BY Limits DEF WindowInv, Gone
<1>2. \A i, j \in 1 .. n : i <= j => failures[i] <= failures[j]
  <2> SUFFICES ASSUME NEW i \in 1 .. n, NEW j \in 1 .. n, i <= j
               PROVE  failures[i] <= failures[j]
    OBVIOUS
  <2>1. Gone + i \in 1 .. N /\ Gone + j \in 1 .. N /\ Gone + i <= Gone + j
    BY <1>1
  <2>2. failures[i] = failed[Gone + i] /\ failures[j] = failed[Gone + j]
    BY DEF WindowInv
  <2>3. failed[Gone + i] <= failed[Gone + j]
    BY <2>1 DEF WindowInv
  <2> QED
    BY <2>2, <2>3
<1>3. PICK k \in 0 .. n :
         /\ kept = SubSeq(failures, k + 1, n)
         /\ \A i \in 1 .. k : failures[i] < now - Window
         /\ \A i \in k + 1 .. n : failures[i] >= now - Window
  BY <1>1, <1>2, SinceIs DEF Trimmed
<1>4. /\ kept \in Seq(0 .. now) /\ Len(kept) = n - k
      /\ \A i \in 1 .. n - k : kept[i] = failures[k + i]
  BY <1>1, <1>3, SubSeqProperties
<1> DEFINE g == Gone + k
<1>5. g \in Gone .. N /\ N - g = n - k
  BY <1>1, <1>3
<1>6. ASSUME NEW i \in 1 .. N - g PROVE kept[i] = failed[g + i]
  <2>1. i \in 1 .. n - k /\ k + i \in 1 .. n /\ Gone + (k + i) = g + i
    BY <1>1, <1>3, <1>5
  <2>2. failures[k + i] = failed[Gone + (k + i)]
    BY <2>1 DEF WindowInv
  <2>3. kept[i] = failures[k + i]
    BY <1>4, <2>1
  <2> QED
    BY <2>1, <2>2, <2>3
<1>7. ASSUME NEW i \in 1 .. g PROVE failed[i] < now - Window
  <2>1. CASE i \in 1 .. Gone
    BY <2>1 DEF WindowInv
  <2>2. CASE i \notin 1 .. Gone
    <3>1. i - Gone \in 1 .. k /\ i - Gone \in 1 .. n /\ Gone + (i - Gone) = i
      BY <1>1, <1>3, <2>2
    <3> QED
      BY <1>3, <3>1 DEF WindowInv
  <2> QED
    BY <2>1, <2>2
<1>8. ASSUME NEW i \in g + 1 .. N PROVE failed[i] >= now - Window
  <2>1. i - Gone \in k + 1 .. n /\ i - Gone \in 1 .. n /\ Gone + (i - Gone) = i
    BY <1>1, <1>3
  <2> QED
    BY <1>3, <2>1 DEF WindowInv
<1> QED
  BY <1>4, <1>5, <1>6, <1>7, <1>8

(* A failure more is at the end of both.                                   *)
LEMMA EndCycleWindow ==
  ASSUME WindowInv, NEW n \in Nat, EndCycle(n)
  PROVE  WindowInv'
<1> DEFINE N == Len(failed)
           kept == Trimmed(failures, now)
           more == [k \in 1 .. n |-> now]
<1>1. /\ now \in Nat /\ now' = now /\ Window \in Nat
      /\ failures' = kept \o more /\ failed' = failed \o more
      /\ failed \in Seq(0 .. now) /\ N \in Nat /\ Gone \in Nat
  BY Limits DEF WindowInv, EndCycle
<1>2. PICK g \in Gone .. N :
         /\ kept \in Seq(0 .. now) /\ Len(kept) = N - g
         /\ \A i \in 1 .. N - g : kept[i] = failed[g + i]
         /\ \A i \in 1 .. g : failed[i] < now - Window
  BY TrimmedIs
<1>3. more \in Seq(0 .. now) /\ Len(more) = n /\ \A k \in 1 .. n : more[k] = now
  <2>1. now \in 0 .. now
    BY <1>1
  <2> QED
    BY <1>1, <2>1
<1> HIDE DEF kept, more
<1>4. /\ failures' \in Seq(0 .. now) /\ Len(failures') = (N - g) + n
      /\ \A i \in 1 .. (N - g) + n :
           failures'[i] = IF i <= N - g THEN kept[i] ELSE more[i - (N - g)]
  <2>1. /\ kept \o more \in Seq(0 .. now) /\ Len(kept \o more) = Len(kept) + Len(more)
        /\ \A i \in 1 .. Len(kept) + Len(more) :
             (kept \o more)[i] = IF i <= Len(kept) THEN kept[i] ELSE more[i - Len(kept)]
    BY <1>2, <1>3, ConcatProperties
  <2>2. Len(kept) = N - g /\ Len(more) = n
    BY <1>2, <1>3
  <2>3. failures' = kept \o more
    BY <1>1
  <2> HIDE DEF N
  <2> QED
    BY <2>1, <2>2, <2>3
<1>5. /\ failed' \in Seq(0 .. now) /\ Len(failed') = N + n
      /\ \A i \in 1 .. N + n : failed'[i] = IF i <= N THEN failed[i] ELSE more[i - N]
  BY <1>1, <1>3, ConcatProperties
<1>6. g \in Nat /\ g <= N /\ Gone' = g
  BY <1>1, <1>2, <1>4, <1>5 DEF Gone
<1>7. ASSUME NEW i \in 1 .. Len(failed'), NEW j \in 1 .. Len(failed'), i <= j
      PROVE  failed'[i] <= failed'[j]
  <2>1. CASE j <= N
    <3>1. i \in 1 .. N /\ j \in 1 .. N
      BY <1>1, <1>5, <1>7, <2>1
    <3> QED
      BY <1>1, <1>5, <1>7, <2>1, <3>1 DEF WindowInv
  <2>2. CASE ~ (j <= N)
    <3>1. j - N \in 1 .. n /\ failed'[j] = now
      BY <1>1, <1>3, <1>5, <2>2
    <3>2. failed'[i] \in 0 .. now
      BY <1>5, ElementOfSeq
    <3> QED
      BY <1>1, <3>1, <3>2
  <2> QED
    BY <2>1, <2>2
<1>8. ASSUME NEW i \in 1 .. Len(failures') PROVE failures'[i] = failed'[g + i]
  <2>1. CASE i <= N - g
    <3>1. i \in 1 .. N - g /\ g + i \in 1 .. N + n /\ g + i <= N
      BY <1>1, <1>4, <1>6, <2>1
    <3> QED
      BY <1>2, <1>4, <1>5, <2>1, <3>1
  <2>2. CASE ~ (i <= N - g)
    <3>1. i - (N - g) = (g + i) - N /\ g + i \in 1 .. N + n /\ ~ (g + i <= N)
      BY <1>1, <1>4, <1>6, <2>2
    <3> QED
      BY <1>4, <1>5, <2>2, <3>1
  <2> QED
    BY <2>1, <2>2
<1>9. ASSUME NEW i \in 1 .. g PROVE failed'[i] < now - Window
  <2>1. i \in 1 .. N + n /\ i <= N
    BY <1>1, <1>6
  <2> QED
    BY <1>2, <1>5, <2>1
<1> QED
  BY <1>1, <1>4, <1>5, <1>6, <1>7, <1>8, <1>9 DEF WindowInv

LEMMA WindowStep == WindowInv /\ [GaugesNext]_gaugesVars => WindowInv'
<1> SUFFICES ASSUME WindowInv, [GaugesNext]_gaugesVars PROVE WindowInv'
  OBVIOUS
<1>1. CASE UNCHANGED <<now, failures, failed>>
  BY <1>1 DEF WindowInv, Gone
<1>2. CASE GaugesStart \/ Probe \/ ProbeFails \/ NoProbe \/ Peg \/ UNCHANGED gaugesVars
  BY <1>1, <1>2 DEF GaugesStart, Probe, ProbeFails, NoProbe, Peg, gaugesVars, gauges, history
<1>3. ASSUME NEW elapsed \in 1 .. MaxGap, NEW markets \in Answers, Fetch(elapsed, markets)
      PROVE  WindowInv'
  <2>1. /\ now \in Nat /\ now' \in Nat /\ now <= now' /\ Window \in Nat
        /\ failures' = failures /\ failed' = failed
    BY <1>3, Limits DEF Fetch, WindowInv
  <2>2. failures \in Seq(0 .. now') /\ failed \in Seq(0 .. now')
    <3>1. 0 .. now \subseteq 0 .. now'
      BY <2>1
    <3>2. ASSUME NEW s \in Seq(0 .. now) PROVE s \in Seq(0 .. now')
      <4>1. Len(s) \in Nat /\ s \in [1 .. Len(s) -> 0 .. now]
        BY LenProperties
      <4>2. \A i \in 1 .. Len(s) : s[i] \in 0 .. now'
        BY <3>1, <4>1
      <4>3. [i \in 1 .. Len(s) |-> s[i]] \in Seq(0 .. now')
        BY <4>1, <4>2
      <4>4. s = [i \in 1 .. Len(s) |-> s[i]]
        BY <4>1
      <4> QED
        BY <4>3, <4>4
    <3> QED
      BY <3>2 DEF WindowInv
  <2>3. Gone' = Gone
    BY <2>1 DEF Gone
  <2>4. ASSUME NEW i \in 1 .. Gone PROVE failed[i] < now' - Window
    <3>1. i \in 1 .. Len(failed)
      BY DEF WindowInv, Gone
    <3>2. failed[i] \in 0 .. now
      BY <3>1, ElementOfSeq DEF WindowInv
    <3> QED
      BY <2>1, <3>2 DEF WindowInv
  <2> QED
    BY <2>1, <2>2, <2>3, <2>4 DEF WindowInv
<1>4. ASSUME NEW n \in 0 .. MaxFailures, EndCycle(n) PROVE WindowInv'
  BY <1>4, EndCycleWindow, Limits
<1>5. CASE Crash
  <2>1. failures' = <<>> /\ failed' = <<>> /\ now' = now
    BY <1>5 DEF Crash
  <2>2. Len(<<>>) = 0 /\ <<>> \in Seq(0 .. now)
    BY EmptySeq
  <2> QED
    BY <2>1, <2>2 DEF WindowInv, Gone
<1> QED
  BY <1>2, <1>3, <1>4, <1>5 DEF GaugesNext

LEMMA InitWindow == GaugesInit => WindowInv
<1>1. Len(<<>>) = 0 /\ \A S : <<>> \in Seq(S)
  BY EmptySeq
<1> QED
  BY <1>1 DEF GaugesInit, WindowInv, Gone

(* RateIsExact: unhandled_exception_rate counts the fills that failed in   *)
(* the last window and no others, however rarely the window is trimmed.    *)
THEOREM FailuresAreCounted == GaugesSpec => []RateIsExact
<1>1. WindowInv => RateIsExact
  <2> SUFFICES ASSUME WindowInv
               PROVE  Len(Trimmed(failures, now))
                        = Cardinality({ i \in DOMAIN failed : now - failed[i] <= Window })
    BY DEF RateIsExact
  <2> DEFINE N == Len(failed)
  <2>1. /\ now \in Nat /\ Window \in Nat /\ N \in Nat /\ Gone \in Nat
        /\ DOMAIN failed = 1 .. N /\ \A i \in 1 .. N : failed[i] \in 0 .. now
    BY Limits, LenProperties, ElementOfSeq DEF WindowInv
  <2>2. PICK g \in Gone .. N :
           /\ Len(Trimmed(failures, now)) = N - g
           /\ \A i \in 1 .. g : failed[i] < now - Window
           /\ \A i \in g + 1 .. N : failed[i] >= now - Window
    BY TrimmedIs
  <2> HIDE DEF N
  <2>3. g \in Nat /\ g <= N
    BY <2>1, <2>2
  <2>4. \A i \in 1 .. N : now - failed[i] <= Window <=> i \in g + 1 .. N
    <3> SUFFICES ASSUME NEW i \in 1 .. N PROVE now - failed[i] <= Window <=> i \in g + 1 .. N
      OBVIOUS
    <3>1. CASE i <= g
      <4>1. i \in 1 .. g
        BY <2>3, <3>1
      <4> QED
        BY <2>1, <2>2, <2>3, <3>1, <4>1
    <3>2. CASE ~ (i <= g)
      <4>1. i \in g + 1 .. N
        BY <2>1, <2>3, <3>2
      <4> QED
        BY <2>1, <2>2, <4>1
    <3> QED
      BY <3>1, <3>2
  <2>5. g + 1 .. N \subseteq 1 .. N
    BY <2>1, <2>3
  <2>6. { i \in DOMAIN failed : now - failed[i] <= Window } = g + 1 .. N
    BY <2>1, <2>4, <2>5
  <2>7. Cardinality(g + 1 .. N) = N - g
    <3>1. g + 1 \in Int /\ N \in Int
      BY <2>1, <2>3
    <3>2. Cardinality(g + 1 .. N) = IF g + 1 > N THEN 0 ELSE N - (g + 1) + 1
      BY <3>1, FS_Interval
    <3> QED
      BY <2>1, <2>3, <3>2
  <2> QED
    BY <2>2, <2>6, <2>7
<1> QED
  BY InitWindow, WindowStep, <1>1, PTL DEF GaugesSpec

-----------------------------------------------------------------------------
(* The types of the gauges: a loop takes at least one interval of time.    *)

TypesInv == GaugesTypeOK /\ loop <= now

LEMMA TypesStep ==
  TypesInv /\ PricesInv /\ WindowInv' /\ [GaugesNext]_gaugesVars => TypesInv'
<1> SUFFICES ASSUME TypesInv, PricesInv, WindowInv', [GaugesNext]_gaugesVars PROVE TypesInv'
  OBVIOUS
<1>1. failures' \in Seq(0 .. now') /\ failed' \in Seq(0 .. now')
  BY DEF WindowInv
<1>2. CASE GaugesStart \/ Probe \/ ProbeFails \/ NoProbe \/ UNCHANGED gaugesVars
  BY <1>1, <1>2, Limits
     DEF GaugesStart, Probe, ProbeFails, NoProbe, gaugesVars, gauges, history,
         TypesInv, GaugesTypeOK
<1>3. ASSUME NEW elapsed \in 1 .. MaxGap, NEW markets \in Answers, Fetch(elapsed, markets)
      PROVE  TypesInv'
  <2>1. /\ now \in 0 .. MaxTime /\ now' \in 0 .. MaxTime /\ now' >= now + 1
        /\ loop \in 0 .. MaxTime /\ loop <= now /\ loop' = loop + 1
        /\ pc' = "probe" /\ UNCHANGED <<usdc, par>>
    BY <1>3, Limits DEF Fetch, TypesInv, GaugesTypeOK
  <2>2. /\ DOMAIN heartbeat' \subseteq Platform
        /\ \A p \in DOMAIN heartbeat' : heartbeat'[p] \in 0 .. now'
    <3>1. heartbeat' = [p \in DOMAIN heartbeat \cup Heard(markets) |->
                          IF p \in Heard(markets) THEN now' ELSE heartbeat[p]]
      BY <1>3 DEF Fetch, Updated
    <3> QED
      BY <2>1, <3>1, AnswerTypes DEF TypesInv, GaugesTypeOK
  <2>3. /\ DOMAIN prevMid' \subseteq Market
        /\ \A m \in DOMAIN prevMid' : prevMid'[m] \in Mid
    <3>1. prevMid' = [m \in DOMAIN prevMid \cup Recorded(markets) |->
                        IF m \in Recorded(markets) THEN markets[m] ELSE prevMid[m]]
      BY <1>3 DEF Fetch, Updated
    <3> QED
      BY <3>1, AnswerTypes DEF TypesInv, GaugesTypeOK
  <2>4. jump' \in Nat
    BY <1>3, LargestJump DEF Fetch, PricesInv, TypesInv, GaugesTypeOK
  <2>5. listed' \in [Platform -> -1 .. now']
    <3>1. listed' = [p \in Platform |-> IF p \in Heard(markets) THEN now' ELSE listed[p]]
      BY <1>3 DEF Fetch, Heard
    <3>2. \A p \in Platform : listed[p] \in -1 .. now
      BY DEF TypesInv, GaugesTypeOK
    <3>3. \A p \in Platform : listed'[p] \in -1 .. now'
      BY <2>1, <3>1, <3>2
    <3> QED
      BY <3>1, <3>3
  <2>6. low' \in 0 .. ProbeCycles
    BY <1>3, Limits DEF Fetch, Smaller, TypesInv, GaugesTypeOK
  <2>7. /\ loop' \in 0 .. MaxTime /\ loop' <= now'
        /\ usdc' \in BOOLEAN /\ par' \in BOOLEAN
        /\ pc' \in {"down", "fetch", "probe", "evaluate"}
    BY <2>1, Limits DEF TypesInv, GaugesTypeOK
  <2> QED
    BY <1>1, <2>1, <2>2, <2>3, <2>4, <2>5, <2>6, <2>7 DEF TypesInv, GaugesTypeOK
<1>4. ASSUME NEW n \in 0 .. MaxFailures, EndCycle(n) PROVE TypesInv'
  BY <1>1, <1>4 DEF EndCycle, TypesInv, GaugesTypeOK
<1>5. CASE Crash
  BY <1>1, <1>5, Limits DEF Crash, TypesInv, GaugesTypeOK
<1>6. CASE Peg
  BY <1>1, <1>6, Limits DEF Peg, gauges, TypesInv, GaugesTypeOK
<1> QED
  BY <1>2, <1>3, <1>4, <1>5, <1>6 DEF GaugesNext

(* GaugesTypeOK: what the gauges remember is of the past and of known      *)
(* markets; a market without a mid is never recorded.                      *)
THEOREM GaugesAreTyped == GaugesSpec => []GaugesTypeOK
<1>1. GaugesInit => TypesInv /\ GaugeTypes /\ PricesInv
  <2> SUFFICES ASSUME GaugesInit PROVE TypesInv /\ GaugeTypes /\ PricesInv
    OBVIOUS
  <2>1. GaugeTypes /\ PricesInv
    BY DEF GaugesInit, GaugeTypes, NoQuote, PricesInv, MidTypes, LatestKnown, JumpsSeen
  <2>2. failures \in Seq(0 .. now) /\ failed \in Seq(0 .. now)
    BY InitWindow DEF WindowInv
  <2> QED
    BY <2>1, <2>2, Limits DEF GaugesInit, TypesInv, GaugesTypeOK
<1>2. TypesInv /\ GaugeTypes /\ PricesInv /\ WindowInv /\ [GaugesNext]_gaugesVars
        => (TypesInv /\ GaugeTypes /\ PricesInv /\ WindowInv)'
  BY TypesStep, GaugeTypesStep, PricesStep, WindowStep
<1>3. TypesInv => GaugesTypeOK
  BY DEF TypesInv
<1> QED
  BY InitWindow, <1>1, <1>2, <1>3, PTL DEF GaugesSpec

=============================================================================
