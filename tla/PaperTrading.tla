---------------------------- MODULE PaperTrading ----------------------------
(***************************************************************************)
(* The orchestrator's cycle seen from the ledger: a scan offers at most    *)
(* one opportunity per market, allocate_capital fits them greedily under   *)
(* the three caps, each allocation is filled in two autocommitted inserts  *)
(* (opportunity, then paper trade), and positions past their resolution    *)
(* date are resolved, also when trading is halted.  The process may be     *)
(* killed between any two statements and restarts from the tables.         *)
(*                                                                         *)
(* An opportunity's identity hashes market, size and fetched_at: here the  *)
(* cycle that fetched it and its market.  Capital is in whole units.       *)
(***************************************************************************)
EXTENDS CapitalUnits

CONSTANTS
  Market,
  Event,
  EventOf,      \* Market.event_id
  Total,        \* total_capital_usd
  MaxPerTrade,  \* max_capital_per_trade_usd
  MaxPerEvent,  \* max_capital_per_event_usd
  MaxOffer,     \* bound: the largest detected capital_at_risk
  MaxCycles,    \* bound: cycles that offer something
  MaxCrashes    \* bound: kills of the process

ASSUME MarketAssumption == IsFiniteSet(Market) /\ EventOf \in [Market -> Event]
ASSUME CapAssumption ==
  /\ Total \in Nat /\ MaxPerTrade \in Nat /\ MaxPerEvent \in Nat /\ MaxOffer \in Nat
ASSUME BoundAssumption == MaxCycles \in Nat /\ MaxCrashes \in Nat

Position == (1 .. MaxCycles) \X Market

VARIABLES
  opportunity,  \* opportunities: capital_at_risk of each row, 0 if there is none
  trade,        \* paper_trades: "none" without a row, or its resolved flag
  capital,      \* paper_trades: capital_locked_usd
  due,          \* positions whose resolution_date has passed
  pc,
  cycle,        \* how many cycles offered something (time: a restart keeps it)
  offer,        \* memory: each market's detected capital_at_risk, 0 for none
  remaining,    \* memory: allocate_capital's remaining_capital
  committed,    \* memory: its committed_per_event
  plan,         \* memory: allocations not filled yet, 0 for none
  writing,      \* memory: the markets whose fill is between its two inserts
  crashes

ledger == <<opportunity, trade, capital, due>>
memory == <<offer, remaining, committed, plan, writing>>
vars == <<ledger, pc, cycle, memory, crashes>>

Nothing == [m \in Market |-> 0]
NoCommitment == [e \in Event |-> 0]

(* total_capital_locked: what the unresolved rows lock.                    *)
Locked == [p \in Position |-> IF trade[p] = "open" THEN capital[p] ELSE 0]

Budget == INSTANCE CapitalBudget WITH locked <- Locked

TypeOK ==
  /\ opportunity \in [Position -> 0 .. Total]
  /\ trade \in [Position -> {"none", "open", "resolved"}]
  /\ capital \in [Position -> 0 .. Total]
  /\ due \subseteq Position
  /\ pc \in {"down", "scan", "allocate", "fill", "resolve"}
  /\ cycle \in 0 .. MaxCycles
  /\ offer \in [Market -> 0 .. MaxOffer]
  /\ remaining \in 0 .. Total
  /\ committed \in [Event -> 0 .. MaxPerEvent]
  /\ plan \in [Market -> 0 .. Total]
  /\ writing \subseteq Market
  /\ crashes \in 0 .. MaxCrashes
  /\ pc \in {"allocate", "fill"} => cycle > 0

Init ==
  /\ opportunity = [p \in Position |-> 0]
  /\ trade = [p \in Position |-> "none"]
  /\ capital = [p \in Position |-> 0]
  /\ due = {}
  /\ pc = "down"
  /\ cycle = 0
  /\ offer = Nothing /\ plan = Nothing /\ writing = {}
  /\ remaining = 0
  /\ committed = NoCommitment
  /\ crashes = 0

Start ==
  /\ pc = "down"
  /\ pc' = "scan"
  /\ UNCHANGED <<ledger, cycle, memory, crashes>>

(* A scan with opportunities, trading not halted: the capital of the open  *)
(* positions is reserved and allocation starts.                            *)
Scan ==
  /\ pc = "scan"
  /\ cycle < MaxCycles
  /\ cycle' = cycle + 1
  /\ offer' \in [Market -> 0 .. MaxOffer]
  /\ LET free == Total - Budget!Sum(Locked)
     IN  /\ remaining' = IF free > 0 THEN free ELSE 0
         /\ pc' = "allocate"
  /\ committed' = NoCommitment
  /\ UNCHANGED <<ledger, plan, writing, crashes>>

(* Mutant: a halted cycle goes straight to its sleep.                      *)
ScanNothingSkips ==
  /\ pc = "scan"
  /\ UNCHANGED vars

(* A halted cycle, or one that found nothing: no allocation and no fill,   *)
(* but due positions are resolved all the same.                            *)
ScanNothing ==
  /\ pc = "scan"
  /\ pc' = "resolve"
  /\ UNCHANGED <<ledger, cycle, memory, crashes>>

Smaller(a, b) == IF a < b THEN a ELSE b

(* Mutant: the remaining capital is forgotten.                             *)
TradeCapNoRemaining(m) == Smaller(MaxPerTrade, MaxPerEvent - committed[EventOf[m]])

TradeCap(m) ==
  Smaller(Smaller(MaxPerTrade, remaining), MaxPerEvent - committed[EventOf[m]])

(* Mutants: one of the two accounts is not updated.                        *)
AllocateNoCommit(m, amount) ==
  /\ pc = "allocate"
  /\ offer[m] > 0
  /\ amount <= TradeCap(m)
  /\ offer[m] <= TradeCap(m) => amount = offer[m]
  /\ plan' = [plan EXCEPT ![m] = amount]
  /\ remaining' = remaining - amount
  /\ offer' = [offer EXCEPT ![m] = 0]
  /\ UNCHANGED <<ledger, pc, cycle, committed, writing, crashes>>

AllocateKeepsRemaining(m, amount) ==
  /\ pc = "allocate"
  /\ offer[m] > 0
  /\ amount <= TradeCap(m)
  /\ offer[m] <= TradeCap(m) => amount = offer[m]
  /\ plan' = [plan EXCEPT ![m] = amount]
  /\ committed' = [committed EXCEPT ![EventOf[m]] = @ + amount]
  /\ offer' = [offer EXCEPT ![m] = 0]
  /\ UNCHANGED <<ledger, pc, cycle, remaining, writing, crashes>>

(* One round of allocate_capital's loop; the ranking by annualized return  *)
(* is arbitrary here.  A capital that fits is taken whole; otherwise it is *)
(* resized to some size under the cap, or given up.                        *)
Allocate(m, amount) ==
  /\ pc = "allocate"
  /\ offer[m] > 0
  /\ TradeCap(m) > 0
  /\ amount <= TradeCap(m)
  /\ offer[m] <= TradeCap(m) => amount = offer[m]
  /\ plan' = [plan EXCEPT ![m] = amount]
  /\ remaining' = remaining - amount
  /\ committed' = [committed EXCEPT ![EventOf[m]] = @ + amount]
  /\ offer' = [offer EXCEPT ![m] = 0]
  /\ UNCHANGED <<ledger, pc, cycle, writing, crashes>>

GiveUp(m) ==
  /\ pc = "allocate"
  /\ offer[m] > TradeCap(m)
  /\ offer' = [offer EXCEPT ![m] = 0]
  /\ UNCHANGED <<ledger, pc, cycle, remaining, committed, plan, writing, crashes>>

EndAllocation ==
  /\ pc = "allocate"
  /\ offer = Nothing
  /\ pc' = "fill"
  /\ UNCHANGED <<ledger, cycle, memory, crashes>>

(* fill_with_resolution, first insert.                                     *)
WriteOpportunity(m) ==
  /\ pc = "fill"
  /\ writing = {}
  /\ plan[m] > 0
  /\ opportunity' = [opportunity EXCEPT ![<<cycle, m>>] = plan[m]]
  /\ writing' = {m}
  /\ UNCHANGED <<trade, capital, due, pc, cycle, offer, remaining, committed, plan,
                 crashes>>

(* Mutant: the trade is inserted without waiting for its opportunity.      *)
WriteTradeFirst(m) ==
  /\ pc = "fill"
  /\ plan[m] > 0
  /\ writing \subseteq {m}
  /\ trade' = [trade EXCEPT ![<<cycle, m>>] = "open"]
  /\ capital' = [capital EXCEPT ![<<cycle, m>>] = plan[m]]
  /\ plan' = [plan EXCEPT ![m] = 0]
  /\ writing' = {}
  /\ UNCHANGED <<opportunity, due, pc, cycle, offer, remaining, committed, crashes>>

(* fill_with_resolution, second insert: the position is open.              *)
WriteTrade(m) ==
  /\ pc = "fill"
  /\ m \in writing
  /\ trade' = [trade EXCEPT ![<<cycle, m>>] = "open"]
  /\ capital' = [capital EXCEPT ![<<cycle, m>>] = plan[m]]
  /\ plan' = [plan EXCEPT ![m] = 0]
  /\ writing' = {}
  /\ UNCHANGED <<opportunity, due, pc, cycle, offer, remaining, committed, crashes>>

(* Either insert raises: the exception is counted and the loop goes on.    *)
FillFails(m) ==
  /\ pc = "fill"
  /\ plan[m] > 0
  /\ writing \subseteq {m}
  /\ plan' = [plan EXCEPT ![m] = 0]
  /\ writing' = {}
  /\ UNCHANGED <<ledger, pc, cycle, offer, remaining, committed, crashes>>

EndFills ==
  /\ pc = "fill"
  /\ plan = Nothing
  /\ pc' = "resolve"
  /\ UNCHANGED <<ledger, cycle, memory, crashes>>

Overdue == { p \in due : trade[p] = "open" }

(* resolve_due_positions: one mark_resolved.                               *)
Resolve(p) ==
  /\ pc = "resolve"
  /\ p \in Overdue
  /\ trade' = [trade EXCEPT ![p] = "resolved"]
  /\ UNCHANGED <<opportunity, capital, due, pc, cycle, memory, crashes>>

EndCycle ==
  /\ pc = "resolve"
  /\ Overdue = {}
  /\ pc' = "scan"
  /\ UNCHANGED <<ledger, cycle, memory, crashes>>

(* kill -9 between any two statements.                                     *)
Crash ==
  /\ pc # "down"
  /\ crashes < MaxCrashes
  /\ crashes' = crashes + 1
  /\ pc' = "down"
  /\ offer' = Nothing /\ plan' = Nothing /\ writing' = {}
  /\ remaining' = 0
  /\ committed' = NoCommitment
  /\ UNCHANGED <<ledger, cycle>>

(* Time passes a position's resolution date.                               *)
Mature(p) ==
  /\ trade[p] = "open"
  /\ p \notin due
  /\ pc = "scan"
  /\ due' = due \cup {p}
  /\ UNCHANGED <<opportunity, trade, capital, pc, cycle, memory, crashes>>

Orchestrator ==
  \/ Start
  \/ Scan
  \/ ScanNothing
  \/ \E m \in Market : GiveUp(m) \/ \E amount \in 1 .. Total : Allocate(m, amount)
  \/ EndAllocation
  \/ \E m \in Market : WriteOpportunity(m) \/ WriteTrade(m) \/ FillFails(m)
  \/ EndFills
  \/ \E p \in Position : Resolve(p)
  \/ EndCycle

Next == Orchestrator \/ Crash \/ \E p \in Position : Mature(p)

Spec == Init /\ [][Next]_vars

(* The service manager restarts the process and no await blocks for good.  *)
FairSpec == Spec /\ WF_vars(Orchestrator)

-----------------------------------------------------------------------------
(* Properties.                                                             *)

(* The ledger implements the capital budget: every cycle sees the capital  *)
(* of all earlier ones, across restarts, failed fills and halts.           *)
ImplementsBudget == Budget!Spec

(* The capital locked in open positions never exceeds total_capital_usd.   *)
BudgetRespected == Budget!WithinTotal

(* Reconciliation finds no error: an open position has its opportunity row *)
(* and locks exactly that row's capital_at_risk (reconcile_paper_state).   *)
ReconcilesClean ==
  \A p \in Position :
    trade[p] = "open" => opportunity[p] = capital[p] /\ capital[p] > 0

(* What one cycle plans and fills on an event is within the event's cap    *)
(* (an amount is at most Total, so its units are all there).               *)
Spent == [p \in Position |-> capital[p] + plan[p[2]]]
OfCycle(n, e) == { p \in Position : p[1] = n /\ EventOf[p[2]] = e }
OnEvent(e) == Held(OfCycle(cycle, e), 2 * Total, Spent)
EventCapPerCycle == \A e \in Event : OnEvent(e) <= MaxPerEvent

(* A position past its resolution date is resolved, halted or not.         *)
DueIsResolved ==
  \A p \in Position : p \in Overdue ~> trade[p] = "resolved"

=============================================================================
