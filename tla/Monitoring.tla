------------------------------ MODULE Monitoring ------------------------------
(***************************************************************************)
(* What the kill-switch rules see of the world.  Each cycle fetches both   *)
(* platforms, notes a heartbeat for each that listed markets, compares     *)
(* mid prices with the latest ones known, probes the USDC price every      *)
(* ProbeCycles loops and counts failed fills in a rolling window; then the *)
(* rules are evaluated over these observations.  All of it is memory: a    *)
(* restart forgets it.                                                     *)
(*                                                                         *)
(* Time is in poll intervals.  A market whose order book could not be      *)
(* fetched is listed with an empty book, which has no mid price.           *)
(***************************************************************************)
EXTENDS Integers, Sequences, FiniteSets

CONSTANTS
  Platform,
  Market,
  PlatformOf,   \* Market.platform
  Mid,          \* mid prices, positive, in cents
  NoMid,        \* the mid of a market with an empty side
  MaxSilence,   \* api_disconnect: max_silence_seconds
  MaxJump,      \* abnormal_price_jump: max_price_jump_pct
  Window,       \* exceptions_per_5min: window_seconds
  MaxFailures,  \* unhandled_exception_rate: max_per_5min
  ProbeCycles,  \* probe_cycles
  MaxGap,       \* bound: the longest cycle
  MaxTime       \* bound on the clock

ASSUME MarketAssumption == IsFiniteSet(Market) /\ PlatformOf \in [Market -> Platform]
ASSUME MidAssumption == Mid \subseteq Nat \ {0} /\ NoMid \notin Mid
ASSUME LimitAssumption ==
  /\ MaxSilence \in Nat /\ MaxJump \in Nat /\ Window \in Nat /\ MaxFailures \in Nat
  /\ ProbeCycles \in Nat \ {0, 1}
ASSUME GapAssumption == MaxGap \in Nat \ {0} /\ MaxTime \in Nat

VARIABLES
  now,
  pc,         \* "down", "fetch", "probe", "evaluate"
  loop,       \* loop_num
  heartbeat,  \* _last_heartbeat: the platforms heard since start, and when
  prevMid,    \* _prev_mid: markets with a known mid
  jump,       \* last_price_jump_pct, in percent
  usdc,       \* usdc_price_usd: whether it is at par
  failures,   \* exceptions_per_5min: its events' timestamps
  par,        \* the world: USDC is at par
  listed,     \* history: when each platform last listed a market, over restarts
  quoted,     \* history: the mids of this fetch and of the one before it
  low,        \* history: cycles since start, USDC or the probe was not all right
  failed      \* history: when fills failed since start, oldest first

gauges == <<heartbeat, prevMid, jump, usdc, failures>>
history == <<listed, quoted, low, failed>>
gaugesVars == <<now, pc, loop, gauges, par, history>>

Smaller(a, b) == IF a < b THEN a ELSE b
Change(before, after) ==
  ((IF before > after THEN before - after ELSE after - before) * 100) \div before

NoQuote == [m \in {} |-> NoMid]
Largest(values) == CHOOSE c \in values \cup {0} : \A d \in values : d <= c

GaugesTypeOK ==
  /\ now \in 0 .. MaxTime
  /\ pc \in {"down", "fetch", "probe", "evaluate"}
  /\ loop \in 0 .. MaxTime
  /\ DOMAIN heartbeat \subseteq Platform /\ \A p \in DOMAIN heartbeat : heartbeat[p] \in 0 .. now
  /\ DOMAIN prevMid \subseteq Market /\ \A m \in DOMAIN prevMid : prevMid[m] \in Mid
  /\ jump \in Nat
  /\ usdc \in BOOLEAN /\ par \in BOOLEAN
  /\ failures \in Seq(0 .. now) /\ failed \in Seq(0 .. now)
  /\ listed \in [Platform -> -1 .. now]
  /\ low \in 0 .. ProbeCycles

GaugesInit ==
  /\ now = 0 /\ pc = "down" /\ loop = 0
  /\ heartbeat = <<>> /\ prevMid = <<>> /\ jump = 0 /\ usdc = TRUE /\ failures = <<>>
  /\ par \in BOOLEAN
  /\ listed = [p \in Platform |-> -1]
  /\ quoted = [this |-> NoQuote, last |-> NoQuote]
  /\ low = 0
  /\ failed = <<>>

GaugesStart ==
  /\ pc = "down"
  /\ pc' = "fetch"
  /\ UNCHANGED <<now, loop, gauges, par, history>>

(* Mutant: an empty answer is a heartbeat too.                             *)
HeardAnyway(markets) == Platform

(* The platforms that listed a market, its book fetched or not.            *)
Heard(markets) == { PlatformOf[m] : m \in DOMAIN markets }

(* Mutant: a market without a mid is recorded too.                         *)
RecordedAll(markets) == DOMAIN markets

(* PriceJumpTracker.observe: the markets with a mid, whose latest it keeps, *)
(* and their changes from the latest mid known, however old.               *)
Recorded(markets) == { m \in DOMAIN markets : markets[m] # NoMid }
Jumps(markets) ==
  { Change(prevMid[m], markets[m]) :
      m \in { k \in DOMAIN markets \cap DOMAIN prevMid : markets[k] # NoMid } }

Updated(f, S, value(_)) ==
  [x \in DOMAIN f \cup S |-> IF x \in S THEN value(x) ELSE f[x]]

(* A cycle's fetch: heartbeats and mids; with no market at all the price   *)
(* gauge keeps its value.                                                  *)
Fetch(elapsed, markets) ==
  /\ pc = "fetch"
  /\ now + elapsed <= MaxTime
  /\ now' = now + elapsed
  /\ loop' = loop + 1
  /\ heartbeat' = Updated(heartbeat, Heard(markets), LAMBDA p : now')
  /\ prevMid' = Updated(prevMid, Recorded(markets), LAMBDA m : markets[m])
  /\ jump' = IF markets = NoQuote THEN jump ELSE Largest(Jumps(markets))
  /\ pc' = "probe"
  /\ listed' = [p \in Platform |->
                  IF \E m \in DOMAIN markets : PlatformOf[m] = p THEN now' ELSE listed[p]]
  /\ quoted' = [this |-> markets, last |-> quoted.this]
  /\ low' = IF par THEN 0 ELSE Smaller(ProbeCycles, low + 1)
  /\ UNCHANGED <<usdc, failures, par, failed>>

(* Mutant: the first probe comes ProbeCycles loops after the start.        *)
ProbesLate == loop % ProbeCycles = 0

Probes == loop % ProbeCycles = 1

(* probe_usdc_price_usd, in its loops: an answer, or None.                 *)
Probe ==
  /\ pc = "probe" /\ Probes
  /\ usdc' = par
  /\ pc' = "evaluate"
  /\ UNCHANGED <<now, loop, heartbeat, prevMid, jump, failures, par, history>>

ProbeFails ==
  /\ pc = "probe" /\ Probes
  /\ pc' = "evaluate"
  /\ low' = 0
  /\ UNCHANGED <<now, loop, gauges, par, listed, quoted, failed>>

NoProbe ==
  /\ pc = "probe" /\ ~Probes
  /\ pc' = "evaluate"
  /\ UNCHANGED <<now, loop, gauges, par, history>>

(* Events are in order; those before a time leave on the left, up to the   *)
(* first that stays.                                                       *)
Since(events, time) ==
  LET old == { i \in DOMAIN events : \A j \in 1 .. i : events[j] < time }
  IN  SubSeq(events, Largest(old) + 1, Len(events))

(* Mutant: an event is dropped when it is as old as the window.            *)
TrimmedEarly(events, time) == Since(events, (time - Window) + 1)

(* _RollingWindow._trim.                                                   *)
Trimmed(events, time) == Since(events, time - Window)

(* The rules, over what was observed.                                      *)
Silent(p) == p \in DOMAIN heartbeat /\ now - heartbeat[p] > MaxSilence
ApiDisconnect == \E p \in Platform : Silent(p)
AbnormalPriceJump == jump > MaxJump
UnhandledExceptionRate == Len(Trimmed(failures, now)) > MaxFailures
UsdcDepeg == ~usdc

(* After the evaluation, n fills raise; each is added to the window, which *)
(* is trimmed then and whenever it is counted.                             *)
EndCycle(n) ==
  /\ pc = "evaluate"
  /\ failures' = Trimmed(failures, now) \o [k \in 1 .. n |-> now]
  /\ failed' = failed \o [k \in 1 .. n |-> now]
  /\ pc' = "fetch"
  /\ UNCHANGED <<now, loop, heartbeat, prevMid, jump, usdc, par, listed, quoted, low>>

Crash ==
  /\ pc # "down"
  /\ pc' = "down"
  /\ loop' = 0
  /\ heartbeat' = <<>> /\ prevMid' = <<>> /\ jump' = 0 /\ usdc' = TRUE /\ failures' = <<>>
  /\ quoted' = [this |-> NoQuote, last |-> NoQuote]
  /\ low' = 0
  /\ failed' = <<>>
  /\ UNCHANGED <<now, par, listed>>

(* The world: USDC loses or regains its peg between two cycles.            *)
Peg ==
  /\ pc \in {"down", "fetch"}
  /\ par' = ~par
  /\ low' = 0
  /\ UNCHANGED <<now, pc, loop, gauges, listed, quoted, failed>>

(* What a platform may answer: any of its markets may be missing from the  *)
(* list or be unusable, and a book that cannot be fetched is an empty one. *)
Listings == SUBSET Market
Quotes == Mid \cup {NoMid}
Answers == UNION { [S -> Quotes] : S \in Listings }

GaugesNext ==
  \/ GaugesStart
  \/ \E elapsed \in 1 .. MaxGap, markets \in Answers : Fetch(elapsed, markets)
  \/ Probe \/ ProbeFails \/ NoProbe
  \/ \E n \in 0 .. MaxFailures : EndCycle(n)
  \/ Crash
  \/ Peg

GaugesSpec == GaugesInit /\ [][GaugesNext]_gaugesVars

-----------------------------------------------------------------------------
(* Properties.                                                             *)

Evaluating == pc = "evaluate"

(* A platform heard since the start that then lists nothing for longer     *)
(* than max_silence_seconds trips api_disconnect, and nothing else does.   *)
SilenceTrips ==
  Evaluating =>
    (ApiDisconnect <=>
       \E p \in DOMAIN heartbeat : now - listed[p] > MaxSilence)

(* The exception rate counts exactly the failures of the last window,      *)
(* however rarely the window is trimmed.                                   *)
RateIsExact ==
  Evaluating =>
    Len(Trimmed(failures, now)) =
      Cardinality({ i \in DOMAIN failed : now - failed[i] <= Window })

(* No trouble slips through between two looks at it.  A depeg is seen in   *)
(* the first cycle after a start, and at the latest when it has lasted     *)
(* ProbeCycles loops with the probe answering; a market quoted in two      *)
(* fetches on end whose mid moved beyond the limit trips                   *)
(* abnormal_price_jump.                                                    *)
TroubleIsSeen ==
  Evaluating =>
    /\ loop = 1 /\ low = 1 => UsdcDepeg
    /\ low = ProbeCycles => UsdcDepeg
    /\ \A m \in DOMAIN quoted.this \cap DOMAIN quoted.last :
         /\ quoted.this[m] # NoMid /\ quoted.last[m] # NoMid
         /\ Change(quoted.last[m], quoted.this[m]) > MaxJump
         => AbnormalPriceJump

=============================================================================
