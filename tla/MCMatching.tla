----------------------------- MODULE MCMatching -----------------------------
(* How a pair of markets comes to be traded: their criteria are extracted   *)
(* and cached, compared, and the pair reviewed.  Nothing under src/ hands   *)
(* the result of one of the three to the next, so a behaviour is about one  *)
(* of them, chosen at the start.                                            *)
(*                                                                          *)
(* Criteria differ from a common one in a field or the window each; the     *)
(* event map has a pair written by hand and a candidate without its edge    *)
(* cases, which the operator may also write by hand, and two reviewers; the *)
(* cache two versions of the text and two processes on one model.           *)
EXTENDS Matcher, Extraction, EventMap

CONSTANTS p1, p2, r1, r2, w1, w2

VARIABLE part

MCPair == {p1, p2}
MCComplete == {p1}
MCShipped == <<[id |-> p1, enabled |-> FALSE, complete |-> TRUE]>>
MCByHand == {[id |-> p2, enabled |-> FALSE, complete |-> TRUE]}
MCReviewer == {r1, r2}
MCWorker == {w1, w2}
MCMode == [w \in MCWorker |-> "anthropic"]
MCModel == [w \in MCWorker |-> "m"]
MCSymmetry == Permutations(MCReviewer) \cup Permutations(MCWorker)

MCTolerance == [fed |-> 1, unknown |-> 1]
MCVocabulary == [fed |-> {"cut", "hold"}, unknown |-> {}]
MCNormal == ("rate_cut" :> "rate_cut") @@ ("Rate-Cut" :> "rate_cut") @@ ("rate_hold" :> "rate_hold")
MCClass == [fomc_statement |-> "fed", federal_reserve_announcement |-> "fed", cnn |-> "cnn"]

MCBase == [type |-> "fed", start |-> 1, end |-> 1, predicate |-> "rate_cut", source |-> "fomc_statement",
           metric |-> "rate", threshold |-> 1, direction |-> "greater_than",
           edges |-> [cut |-> "resolves_yes", hold |-> "resolves_no"], confidence |-> 7]
MCEdges ==
  UNION { [k -> {"resolves_yes", "resolves_no", "ambiguous", "undefined"}] :
          k \in SUBSET {"cut", "hold", "other"} }
MCWindows == {<<0, 1>>, <<1, 2>>, <<2, 2>>, <<3, 3>>, <<0, 3>>, <<2, 0>>}
MCValues ==
  [type |-> {"unknown"}, predicate |-> DOMAIN MCNormal,
   source |-> DOMAIN MCClass, metric |-> {"spread"}, threshold |-> {2}, direction |-> {"less_than", "binary"},
   edges |-> MCEdges, confidence |-> {5, 9}]
MCCriteria ==
  UNION { { [MCBase EXCEPT ![f] = x] : x \in MCValues[f] } : f \in DOMAIN MCValues }
    \cup { [MCBase EXCEPT !.start = w[1], !.end = w[2]] : w \in MCWindows }

matching == <<a, b, verdict>>
extracting == <<text, cache, memory, work, kept, interfered>>
reviewing == <<file, log, review, editor, running, loaded, opened, settled, written, clobbered>>

MatchingInit ==
  /\ part \in {"match", "extract", "review"}
  /\ MatcherInit /\ ExtractionInit /\ Init
  /\ part # "match" => a = MCBase /\ b = MCBase
  /\ part # "extract" => text = CHOOSE t \in Text : TRUE

MatchingNext ==
  /\ UNCHANGED part
  /\ \/ part = "match" /\ Judge /\ UNCHANGED <<extracting, reviewing>>
     \/ part = "extract" /\ ExtractionNext /\ UNCHANGED <<matching, reviewing>>
     \/ part = "review" /\ Next /\ UNCHANGED <<matching, extracting>>

matchingVars == <<part, matching, extracting, reviewing>>
MatchingSpec == MatchingInit /\ [][MatchingNext]_matchingVars

(* Types: the type invariants of the three.                                 *)
TypesOK ==
  /\ part = "match" => MatcherTypeOK
  /\ part = "extract" => ExtractionTypeOK
  /\ part = "review" => TypeOK

=============================================================================
