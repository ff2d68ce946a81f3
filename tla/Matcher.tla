------------------------------- MODULE Matcher -------------------------------
(***************************************************************************)
(* compare: the deterministic matcher.  Two markets' resolution criteria,  *)
(* extracted apart, match when no compared field differs; a near miss goes *)
(* to the review queue, on a confidence counted in tenths.                 *)
(***************************************************************************)
EXTENDS Integers, FiniteSetsExt, Functions

CONSTANTS
  Criteria,    \* the ResolutionCriteria considered
  Tolerance,   \* DATE_TOLERANCE_HOURS_BY_EVENT and its default, in units of time
  Vocabulary,  \* required_edge_cases of each event type, none of an unknown one
  Normal,      \* a predicate as spelled -> stripped, in lower case, underscored
  Class,       \* a resolution source -> its equivalence class, or itself alone
  Value,       \* what a metric may turn out to be
  Date,        \* what a platform may date the event
  NoCase       \* no edge case: not the name of one

ASSUME CriteriaAssumption ==
  \A c \in Criteria :
    /\ c.start \in Date /\ c.end \in Date /\ c.threshold \in Int /\ c.confidence \in 0 .. 10
    /\ c.type \in DOMAIN Tolerance \cap DOMAIN Vocabulary
    /\ c.predicate \in DOMAIN Normal /\ c.source \in DOMAIN Class
    /\ IsFiniteSet(DOMAIN c.edges) /\ NoCase \notin DOMAIN c.edges
ASSUME VocabularyAssumption == \A t \in DOMAIN Vocabulary : IsFiniteSet(Vocabulary[t])
ASSUME ValueAssumption == Value \subseteq Int /\ Date \subseteq Int
ASSUME ToleranceAssumption == \A t \in DOMAIN Tolerance : Tolerance[t] \in Nat

VARIABLES
  a, b,    \* the criteria of the two markets
  verdict  \* the MatchResult, once there is one

Unjudged == [match |-> FALSE, confidence |-> 0, review |-> FALSE, judged |-> FALSE]

(* Mutant: only one end of the windows is compared.                        *)
NotAfter(c, d) == c.start - Tolerance[c.type] <= d.end

DatesOverlap(c, d) == c.start - Tolerance[c.type] <= d.end /\ d.start - Tolerance[c.type] <= c.end

Keys(c) == DOMAIN c.edges
Common(c, d) == Vocabulary[c.type] \cap Keys(c) \cap Keys(d)

Fields(c, d) ==
  { f \in {"metric", "direction"} : c[f] # d[f] }
    \cup { f \in {"event_date"} : ~DatesOverlap(c, d) }
    \cup { f \in {"predicate"} : Normal[c[f]] # Normal[d[f]] }
    \cup { f \in {"source"} : Class[c[f]] # Class[d[f]] }

(* Neither the threshold is compared, nor what two markets say of a case   *)
(* outside the vocabulary.                                                 *)
Differences(c, d) ==
  ({"field"} \X Fields(c, d))
    \cup ({"edge_case"} \X { k \in Common(c, d) : c.edges[k] # d.edges[k] })
    \cup ({"missing"} \X (Vocabulary[c.type] \ Common(c, d)))
    \cup ({"asymmetric"} \X (SymDiff(Keys(c), Keys(d)) \ Vocabulary[c.type]))

(* Another event type ends the comparison; otherwise each difference costs *)
(* a tenth.                                                                *)
Compare(c, d) ==
  LET n    == Cardinality(Differences(c, d))
      left == Min({c.confidence, d.confidence}) - n
  IN  IF c.type # d.type THEN [Unjudged EXCEPT !.judged = TRUE]
      ELSE [match |-> n = 0, confidence |-> Max({0, left}), review |-> n > 0 /\ left >= 6,
            judged |-> TRUE]

MatcherInit ==
  /\ a \in Criteria /\ b \in Criteria
  /\ verdict = Unjudged

Judge ==
  /\ ~verdict.judged
  /\ verdict' = Compare(a, b)
  /\ UNCHANGED <<a, b>>

matcherVars == <<a, b, verdict>>
MatcherSpec == MatcherInit /\ [][Judge]_matcherVars

MatcherTypeOK ==
  /\ a \in Criteria /\ b \in Criteria
  /\ verdict \in [match : BOOLEAN, confidence : 0 .. 10, review : BOOLEAN, judged : BOOLEAN]

-----------------------------------------------------------------------------
(* Properties.                                                             *)

InWindow(c, t) == c.start <= t /\ t <= c.end

(* How a market of criteria c resolves when its platform dates the event   *)
(* t, the metric, read off a class of sources, comes out as v[class], and  *)
(* the edge case k happens.                                                *)
Resolves(c, v, k, t) ==
  IF ~InWindow(c, t) THEN <<"without the event">>
  ELSE IF k \in Keys(c) THEN <<"edge_case", c.edges[k]>>
  ELSE <<Normal[c.predicate], c.metric,
         CASE c.direction = "greater_than" -> v[Class[c.source]] > c.threshold
           [] c.direction = "less_than"    -> v[Class[c.source]] < c.threshold
           [] OTHER                        -> v[Class[c.source]] # 0>>

(* The dates that two platforms may give one event.                        *)
DatedAs(c, t, u) == t - u <= Tolerance[c.type] /\ u - t <= Tolerance[c.type]

(* The cases that both leave open, in the same words or not.               *)
Unsaid(c, d) ==
  { k \in Keys(c) \cap Keys(d) : {c.edges[k], d.edges[k]} \subseteq {"ambiguous", "undefined"} }

(* Two markets resolve alike on an event both have in their windows, and   *)
(* on one that neither has, in every case that is not left open by both.   *)
Alike(c, d) ==
  \A v \in [Range(Class) -> Value],
     k \in (Vocabulary[c.type] \cup {NoCase}) \ Unsaid(c, d), t, u \in Date :
    DatedAs(c, t, u) /\ (InWindow(c, t) <=> InWindow(d, u)) =>
      Resolves(c, v, k, t) = Resolves(d, v, k, u)

(* And there is an event that both have in their windows.                  *)
Meet(c, d) == \E t, u \in Date : DatedAs(c, t, u) /\ InWindow(c, t) /\ InWindow(d, u)

(* Two markets with one threshold that match speak of a common event, and  *)
(* resolve alike on it whatever the metric turns out to be and whichever   *)
(* case of the vocabulary happens that they do not both leave open         *)
(* (schema.py:66); and the order of the two does not matter.               *)
MatchAgrees ==
  verdict.judged =>
    /\ verdict.match /\ a.start <= a.end /\ b.start <= b.end => Meet(a, b)
    /\ verdict.match /\ a.threshold = b.threshold => a.type = b.type /\ Alike(a, b)
    /\ verdict = Compare(b, a)

(* matcher.py:4: "decide whether the markets resolve to the same outcome   *)
(* on every relevant scenario.  If so, MATCH."                             *)
MatchIsAlike == verdict.match => Alike(a, b)

=============================================================================
