------------------------------- MODULE MCClocks -------------------------------
(* What the program decides by the clock, each on its own: the rate limiter *)
(* (a token of three units, refilled in a unit and a half of time), the     *)
(* alert limiter, the age filter, the gates of live trading and the feature *)
(* flags.  They share no state, so a behaviour is about one of them, chosen *)
(* at the start, up to its own horizon.                                     *)
EXTENDS TokenBucket, AlertLimiter, AdverseSelection, Graduation, FeatureFlags

VARIABLE part

Parts == {"bucket", "alerts", "filters", "gates", "flags"}
Horizon == [bucket |-> 5, alerts |-> 3, filters |-> 5, gates |-> 2, flags |-> 2]

MCTags == [o \in Opp |-> IF o = "cross" THEN {"fed"} ELSE {}]
MCWindows == {[tags |-> {"fed"}, before |-> 1, after |-> 0]}
MCNews == {[tag |-> "fed", at |-> 2]}
MCListings == {Never, 1}
MCMinDays == <<1, 1>>
MCMinFills == <<1, 2>>
MCMinCoverage == <<Never, 1>>
MCHours == {Never, 1, 2}

bucketState == <<bucket, at, wake, window>>
alertState == <<stored, rows, recent, sent, unlogged>>
filterState == <<firstSeen, batch, upcoming, listed, filterHistory>>
gateState == <<row, state, written, gateHistory>>
flagState == <<files, enabling, check, flagHistory>>

(* The parts that are not looked at start, and stay, in one of their       *)
(* initial states.                                                         *)
ClocksInit ==
  /\ part \in Parts
  /\ Init /\ AlertInit /\ FilterInit /\ GateInit /\ FlagInit
  /\ part # "alerts" => stored
  /\ part # "filters" => upcoming = {} /\ listed = [o \in Opp |-> Never]

ClocksNext ==
  /\ UNCHANGED part
  /\ \/ part = "bucket" /\ Next /\ UNCHANGED <<alertState, filterState, gateState, flagState>>
     \/ part = "alerts" /\ AlertNext /\ UNCHANGED <<bucketState, filterState, gateState, flagState>>
     \/ part = "filters" /\ FilterNext /\ UNCHANGED <<bucketState, alertState, gateState, flagState>>
     \/ part = "gates" /\ GateNext /\ UNCHANGED <<bucketState, alertState, filterState, flagState>>
     \/ part = "flags" /\ FlagNext /\ UNCHANGED <<bucketState, alertState, filterState, gateState>>
  /\ now' <= Horizon[part]

clocksVars == <<now, part, bucketState, alertState, filterState, gateState, flagState>>
ClocksSpec == ClocksInit /\ [][ClocksNext]_clocksVars

(* Types: the type invariants of the five.                                 *)
TypesOK == TypeOK /\ AlertTypeOK /\ FilterTypeOK /\ GateTypeOK /\ FlagTypeOK

=============================================================================
