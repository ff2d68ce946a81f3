--------------------------- MODULE AdverseSelection ---------------------------
(***************************************************************************)
(* The filters between detection and allocation.  Each cycle's             *)
(* opportunities are judged by how long ago they were first seen, by the   *)
(* news about their topics and by the age of their market.  What was first *)
(* seen when is remembered in memory, by opportunity, for MaxAge: one that *)
(* disappears is remembered until then, one that stays is forgotten then   *)
(* and is young again.                                                     *)
(***************************************************************************)
EXTENDS Clock

CONSTANTS
  Opp,       \* opportunities, by fingerprint
  Tags,      \* topic_tags_for: the topics of each
  Threshold, \* age_threshold_seconds
  MaxAge,    \* max_age_seconds
  Windows,   \* news_windows: [tags, before, after]
  News,      \* the news events considered: [tag, at]
  Listings,  \* the listing times considered: times, or Never for unknown
  MinAge     \* min_market_age_hours

ASSUME FilterAssumption ==
  /\ Threshold \in Nat /\ MaxAge \in Nat /\ MinAge \in Nat
  /\ Listings \subseteq Int

VARIABLES
  firstSeen, \* first_seen_by_fingerprint
  batch,     \* when each opportunity of this cycle was detected, or Never
  upcoming,  \* upcoming_news
  listed,    \* market_listed_at_for
  accepted,  \* history: when the accepted ones of this process were detected
  sighted,   \* history: when this process detected each one first, or Never
  rejected   \* history: when one rejected for its age was detected last, or Never

filterHistory == <<accepted, sighted, rejected>>
filterVars == <<now, firstSeen, batch, upcoming, listed, filterHistory>>

Unseen == [o \in Opp |-> Never]
Nothing == [o \in Opp |-> {}]

FilterTypeOK ==
  /\ now \in Time
  /\ firstSeen \in [Opp -> Time \cup {Never}]
  /\ batch \in [Opp -> Time \cup {Never}]
  /\ upcoming \subseteq News
  /\ listed \in [Opp -> Listings]
  /\ accepted \in [Opp -> SUBSET Time]
  /\ sighted \in [Opp -> Time \cup {Never}]
  /\ rejected \in [Opp -> Time \cup {Never}]

FilterInit ==
  /\ ClockInit
  /\ firstSeen = Unseen /\ batch = Unseen
  /\ upcoming \in SUBSET News
  /\ listed \in [Opp -> Listings]
  /\ accepted = Nothing /\ sighted = Unseen /\ rejected = Unseen

FilterTick == Passes /\ UNCHANGED <<firstSeen, batch, upcoming, listed, filterHistory>>

(* A cycle finds an opportunity: detected_at is when its book was fetched. *)
DetectOne(o) ==
  /\ batch[o] = Never
  /\ batch' = [batch EXCEPT ![o] = now]
  /\ sighted' = [sighted EXCEPT ![o] = IF @ = Never THEN now ELSE @]
  /\ UNCHANGED <<now, firstSeen, upcoming, listed, accepted, rejected>>

(* observe.                                                                *)
Observed(o) == IF firstSeen[o] = Never THEN batch[o] ELSE firstSeen[o]

TooOld(o) == batch[o] - Observed(o) > Threshold

InNews(o) ==
  \E ev \in upcoming, w \in Windows :
    /\ ev.tag \in Tags[o] \cap w.tags
    /\ ev.at - w.before <= now /\ now <= ev.at + w.after

YoungMarket(o) == listed[o] # Never /\ now - listed[o] < MinAge

(* gc.                                                                     *)
Remembered(seen) == [o \in Opp |-> IF seen[o] < now - MaxAge THEN Never ELSE seen[o]]

Detected == { o \in Opp : batch[o] # Never }

(* Mutant: an opportunity that is seen again is remembered as of then.     *)
ApplyFiltersRefreshing ==
  /\ Detected # {}
  /\ firstSeen' = Remembered([o \in Opp |-> IF o \in Detected THEN batch[o] ELSE firstSeen[o]])
  /\ accepted' = [o \in Opp |->
                    IF o \in Detected /\ ~TooOld(o) /\ ~InNews(o) /\ ~YoungMarket(o)
                    THEN accepted[o] \cup {batch[o]} ELSE accepted[o]]
  /\ rejected' = [o \in Opp |-> IF o \in Detected /\ TooOld(o) THEN batch[o] ELSE rejected[o]]
  /\ batch' = Unseen
  /\ UNCHANGED <<now, upcoming, listed, sighted>>

(* apply_filters, over all that the cycle found; all of it is observed,    *)
(* rejected or not.                                                        *)
ApplyFilters ==
  /\ Detected # {}
  /\ firstSeen' = Remembered([o \in Opp |-> IF o \in Detected THEN Observed(o) ELSE firstSeen[o]])
  /\ accepted' = [o \in Opp |->
                    IF o \in Detected /\ ~TooOld(o) /\ ~InNews(o) /\ ~YoungMarket(o)
                    THEN accepted[o] \cup {batch[o]} ELSE accepted[o]]
  /\ rejected' = [o \in Opp |-> IF o \in Detected /\ TooOld(o) THEN batch[o] ELSE rejected[o]]
  /\ batch' = Unseen
  /\ UNCHANGED <<now, upcoming, listed, sighted>>

(* With nothing to judge, what is too old is forgotten all the same.       *)
FilterNothing ==
  /\ Detected = {}
  /\ firstSeen' = Remembered(firstSeen)
  /\ UNCHANGED <<now, batch, upcoming, listed, filterHistory>>

FilterRestart ==
  /\ firstSeen' = Unseen /\ batch' = Unseen
  /\ accepted' = Nothing /\ sighted' = Unseen /\ rejected' = Unseen
  /\ UNCHANGED <<now, upcoming, listed>>

FilterNext ==
  \/ FilterTick
  \/ \E o \in Opp : DetectOne(o)
  \/ ApplyFilters \/ FilterNothing
  \/ FilterRestart

FilterSpec == FilterInit /\ [][FilterNext]_filterVars

-----------------------------------------------------------------------------
(* Properties.                                                             *)

(* What age_filter is worth while opportunities come, stay and vanish as   *)
(* they like.  One process accepts an opportunity twice only within the    *)
(* threshold, or after it was forgotten, most of MaxAge later: in between  *)
(* a standing one is rejected.  And none is rejected for its age on a      *)
(* first sighting, nor within the threshold of it.                         *)
AgeIsJudged ==
  \A o \in Opp :
    /\ \A d, e \in accepted[o] : e - d <= Threshold \/ e - d > MaxAge - Threshold
    /\ rejected[o] # Never => rejected[o] - sighted[o] > Threshold

=============================================================================
