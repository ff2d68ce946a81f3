----------------------------- MODULE Settlement -----------------------------
(***************************************************************************)
(* How paper positions are settled: every cycle settles the due delta-     *)
(* neutral ones at their expected profit without asking anybody, and a     *)
(* probing pass asks the exchanges for the outcome of each market of a     *)
(* position, one await after the other, over a list of due positions it    *)
(* read once.  The exchanges close a market some time before they decide   *)
(* it, probes fail or raise out of the pass, and the process may be        *)
(* killed.  Nothing in the repository starts a probing pass: it may start  *)
(* at any time, one at a time, or never.                                   *)
(***************************************************************************)
EXTENDS Naturals, FiniteSets

CONSTANTS
  Position,
  NoPosition,
  Strategy,   \* opportunities.strategy of each position
  First,      \* the market probed first
  Second,     \* the Kalshi market of a cross-market position's composite market_id
  Buys,       \* the outcome a convergence position bought
  Market,
  PlatformOf, \* the exchange of each market
  MaxCrashes  \* bound: how often the process is killed

ASSUME PositionAssumption == NoPosition \notin Position
ASSUME StrategyAssumption ==
  Strategy \in [Position -> {"intra_market", "cross_market", "resolution_convergence"}]
ASSUME LegAssumption ==
  /\ First \in [Position -> Market] /\ Second \in [Position -> Market]
  /\ Buys \in [Position -> {"yes", "no"}]
  /\ PlatformOf \in [Market -> {"polymarket", "kalshi"}]
ASSUME CrashAssumption == MaxCrashes \in Nat

VARIABLES
  market,   \* the exchanges: "open", "closed" and undecided, or decided
  due,      \* positions whose resolution_date has passed
  pnl,      \* paper_trades: "open", or resolved with this realized_pnl_usd
  queue,    \* memory: due positions the probing path has still to settle
  at,       \* memory: the one it is at, or none
  first,    \* memory: the answer for its first market, or "none"
  second,   \* memory: and for its second one
  limbo,    \* history: markets that were closed and undecided
  unasked,  \* history: positions whose figure was booked without a probe
  crashes

memory == <<queue, at, first, second>>
history == <<limbo, unasked>>
vars == <<market, due, pnl, memory, history, crashes>>

Outcome == {"yes", "no", "void"}

Init ==
  /\ market = [m \in Market |-> "open"]
  /\ due = {}
  /\ pnl = [p \in Position |-> "open"]
  /\ queue = {} /\ at = NoPosition /\ first = "none" /\ second = "none"
  /\ limbo = {} /\ unasked = {} /\ crashes = 0

(* The world: markets close, may stay undecided, and are decided for good. *)
Close(m) ==
  /\ market[m] = "open"
  /\ market' = [market EXCEPT ![m] = "closed"]
  /\ limbo' = limbo \cup {m}
  /\ UNCHANGED <<due, pnl, memory, unasked, crashes>>

Decide(m, o) ==
  /\ market[m] \in {"open", "closed"}
  /\ market' = [market EXCEPT ![m] = o]
  /\ UNCHANGED <<due, pnl, memory, history, crashes>>

Mature(p) ==
  /\ p \notin due
  /\ due' = due \cup {p}
  /\ UNCHANGED <<market, pnl, memory, history, crashes>>

(* Mutant: settled positions are due again.                               *)
DueAgain == due
DueForResolution == { p \in due : pnl[p] = "open" }

(* resolve_due_positions, the cycle's own path: no await in it.            *)
Cycle ==
  LET settled == { p \in DueForResolution : Strategy[p] = "intra_market" }
  IN  /\ settled # {}
      /\ pnl' = [p \in Position |-> IF p \in settled THEN "expected" ELSE pnl[p]]
      /\ unasked' = unasked \cup settled
      /\ UNCHANGED <<market, due, memory, limbo, crashes>>

(* A probing pass reads the due positions once.                            *)
Begin ==
  /\ queue = {} /\ DueForResolution # {}
  /\ queue' = DueForResolution
  /\ UNCHANGED <<market, due, pnl, at, first, second, history, crashes>>

Visit(p) ==
  /\ at = NoPosition /\ p \in queue
  /\ at' = p
  /\ UNCHANGED <<market, due, pnl, queue, first, second, history, crashes>>

(* probe_polymarket_resolution: a closed market answers with its prices,   *)
(* lopsided, middling or missing, whether or not it is decided yet; those  *)
(* of a void one are middling.                                             *)
PolymarketAnswers(m) ==
  CASE market[m] = "open"   -> {"unresolved"}
    [] market[m] = "closed" -> {"unresolved"} \cup Outcome
    [] market[m] \in Outcome -> {market[m]}

(* probe_kalshi_resolution: closed or settled without a result is void.    *)
KalshiAnswers(m) ==
  CASE market[m] = "open"   -> {"unresolved"}
    [] market[m] = "closed" -> {"void"}
    [] market[m] \in Outcome -> {market[m]}

Answers(m) ==
  IF PlatformOf[m] = "polymarket" THEN PolymarketAnswers(m) ELSE KalshiAnswers(m)

AskFirst(answer) ==
  /\ at # NoPosition /\ first = "none"
  /\ first' = answer
  /\ UNCHANGED <<market, due, pnl, queue, at, second, history, crashes>>

AskSecond(answer) ==
  /\ at # NoPosition /\ first # "none" /\ second = "none"
  /\ Strategy[at] = "cross_market"
  /\ second' = answer
  /\ UNCHANGED <<market, due, pnl, queue, at, first, history, crashes>>

Probe ==
  \/ \E a \in Answers(First[at]) : AskFirst(a)
  \/ \E a \in Answers(Second[at]) : AskSecond(a)

(* An exchange does not answer, or answers without an outcome.             *)
ProbeFails == AskFirst("unresolved") \/ AskSecond("unresolved")

(* A pass over: what it held in memory is gone.                            *)
Forget == queue' = {} /\ at' = NoPosition /\ first' = "none" /\ second' = "none"

(* A body that is not the object the probe takes it for raises out of the  *)
(* whole pass: the positions not visited yet are left to another one.      *)
ProbeRaises ==
  /\ at # NoPosition
  /\ first = "none" \/ (second = "none" /\ Strategy[at] = "cross_market")
  /\ Forget
  /\ UNCHANGED <<market, due, pnl, history, crashes>>

(* Mutant: a cross-market position does not wait for its second answer.    *)
RealizeFirst ==
  CASE first = "unresolved" -> "open"
    [] first = "void" -> "loss"
    [] first \in {"yes", "no"} ->
         IF Strategy[at] = "resolution_convergence" /\ first # Buys[at]
         THEN "loss" ELSE "expected"

(* realize_pnl: what the answers are worth, "open" while one is missing.   *)
RealizePnl ==
  CASE first = "unresolved" \/ second = "unresolved" -> "open"
    [] first # "unresolved" /\ second # "unresolved"
         /\ (first = "void" \/ second = "void") -> "loss"
    [] first \in {"yes", "no"} /\ second \in {"yes", "no", "none"} ->
         CASE Strategy[at] = "intra_market" -> "expected"
           [] Strategy[at] = "cross_market" ->
                IF first = second THEN "expected" ELSE "loss"
           [] Strategy[at] = "resolution_convergence" ->
                IF first = Buys[at] THEN "expected" ELSE "loss"

(* mark_resolved does not look whether the position was settled since it   *)
(* was read.                                                               *)
Settle ==
  /\ at # NoPosition /\ first # "none"
  /\ Strategy[at] = "cross_market" => second # "none"
  /\ IF RealizePnl = "open"
     THEN UNCHANGED <<pnl, unasked>>
     ELSE pnl' = [pnl EXCEPT ![at] = RealizePnl] /\ unasked' = unasked \ {at}
  /\ queue' = queue \ {at}
  /\ at' = NoPosition /\ first' = "none" /\ second' = "none"
  /\ UNCHANGED <<market, due, limbo, crashes>>

Crash ==
  /\ crashes < MaxCrashes
  /\ crashes' = crashes + 1
  /\ Forget
  /\ UNCHANGED <<market, due, pnl, history>>

Next ==
  \/ \E m \in Market : Close(m) \/ \E o \in Outcome : Decide(m, o)
  \/ \E p \in Position : Mature(p) \/ Visit(p)
  \/ Cycle \/ Begin \/ Settle \/ Crash
  \/ at # NoPosition /\ (Probe \/ ProbeFails \/ ProbeRaises)

Spec == Init /\ [][Next]_vars

-----------------------------------------------------------------------------
(* Properties.                                                             *)

Legs(p) == IF Strategy[p] = "cross_market" THEN {First[p], Second[p]} ELSE {First[p]}

(* The outcomes a position pays its expected profit for.                   *)
Pays(p) ==
  CASE Strategy[p] = "intra_market" -> market[First[p]] \in {"yes", "no"}
    [] Strategy[p] = "cross_market" ->
         market[First[p]] = market[Second[p]] /\ market[First[p]] \in {"yes", "no"}
    [] Strategy[p] = "resolution_convergence" -> market[First[p]] = Buys[p]

(* The markets that could show a winner before there was one.              *)
Early(p) == { m \in Legs(p) \cap limbo : PlatformOf[m] = "polymarket" }

(* What a probing pass booked is what the markets were decided for, or one *)
(* of them was seen closed and undecided: then a loss says nothing, and a  *)
(* profit says nothing if that market is on Polymarket.  Only delta-       *)
(* neutral positions are ever booked without asking (and these lose on a   *)
(* void market, which nobody looks for).                                   *)
ProbedPnlIsTrue ==
  \A p \in Position :
    /\ pnl[p] = "expected" /\ p \notin unasked => Pays(p) \/ Early(p) # {}
    /\ pnl[p] = "loss" /\ Legs(p) \cap limbo = {} =>
         ~Pays(p) /\ \A m \in Legs(p) : market[m] \in Outcome
    /\ p \in unasked => Strategy[p] = "intra_market"

(* What is booked stays booked, over stale lists, raising probes and       *)
(* restarts: only a profit the cycle booked unasked gives way, to the loss *)
(* a pass that was under way finds for it.                                 *)
SettledOnce ==
  [][\A p \in Position : pnl[p] # "open" =>
       \/ pnl'[p] = pnl[p]
       \/ p \in unasked /\ pnl[p] = "expected" /\ pnl'[p] = "loss"]_vars

=============================================================================
