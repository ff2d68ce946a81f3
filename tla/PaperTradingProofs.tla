------------------------- MODULE PaperTradingProofs -------------------------
(***************************************************************************)
(* The ledger implements the capital budget, for any markets, events, caps *)
(* and offers, and any number of cycles and crashes.                       *)
(***************************************************************************)
EXTENDS PaperTrading, FiniteSetTheorems, TLAPS

Here(m) == <<cycle, m>>

(* What is locked together with what this cycle has allocated and not yet  *)
(* written.                                                                *)
Claimed ==
  [p \in Position |->
     IF trade[p] = "none" /\ p[1] = cycle THEN plan[p[2]] ELSE Locked[p]]

(* Capital is claimed once: only for markets this cycle has not filled.    *)
FreshPlan ==
  /\ \A p \in Position : p[1] > cycle => trade[p] = "none"
  /\ pc \notin {"allocate", "fill"} => plan = Nothing /\ writing = {}
  /\ pc # "allocate" => offer = Nothing
  /\ \A m \in Market :
       /\ pc \in {"allocate", "fill"} /\ (plan[m] > 0 \/ offer[m] > 0) =>
            trade[Here(m)] = "none"
       /\ offer[m] > 0 => plan[m] = 0
       /\ m \in writing => plan[m] > 0 /\ opportunity[Here(m)] = plan[m] /\ pc = "fill"

(* The allocator's remaining_capital is what nobody has claimed.           *)
ClaimsFit ==
  /\ Budget!Sum(Claimed) <= Total
  /\ pc = "allocate" => Budget!Sum(Claimed) + remaining = Total

IInv == TypeOK /\ FreshPlan /\ ClaimsFit /\ ReconcilesClean
-----------------------------------------------------------------------------

(***************************************************************************)
(* Sums of amounts, for any finite set of holders.                         *)
(***************************************************************************)

(* The units of finitely many holders are finitely many.                   *)
LEMMA UnitsFinite ==
  ASSUME NEW S, IsFiniteSet(S), NEW max \in Nat, NEW f
  PROVE  IsFiniteSet(Units(S, max, f)) /\ Held(S, max, f) \in Nat
<1>1. IsFiniteSet(1 .. max)
  BY FS_Interval
<1>2. IsFiniteSet(S \X (1 .. max))
  BY <1>1, FS_Product
<1>3. Units(S, max, f) \subseteq S \X (1 .. max)
  BY DEF Units
<1>4. IsFiniteSet(Units(S, max, f))
  BY <1>2, <1>3, FS_Subset
<1> QED
  BY <1>4, FS_CardinalityType DEF Held

(* Whoever holds no more, holder by holder, holds no more in total.        *)
LEMMA HeldMonotone ==
  ASSUME NEW S, IsFiniteSet(S), NEW max \in Nat,
         NEW f \in [S -> 0 .. max], NEW g \in [S -> 0 .. max],
         \A s \in S : f[s] <= g[s]
  PROVE  Held(S, max, f) <= Held(S, max, g)
<1>1. Units(S, max, f) \subseteq Units(S, max, g)
  BY DEF Units
<1>2. IsFiniteSet(Units(S, max, g))
  BY UnitsFinite
<1> QED
  BY <1>1, <1>2, FS_Subset DEF Held

(* The units of one holder are as many as the amount it holds.             *)
LEMMA UnitsOfOne ==
  ASSUME NEW s, NEW a \in Nat
  PROVE  IsFiniteSet({s} \X (1 .. a)) /\ Cardinality({s} \X (1 .. a)) = a
<1>1. IsFiniteSet(1 .. a) /\ Cardinality(1 .. a) = a
  <2>1. 1 \in Int /\ a \in Int
    OBVIOUS
  <2>2. Cardinality(1 .. a) = IF 1 > a THEN 0 ELSE a - 1 + 1
    BY <2>1, FS_Interval
  <2> QED
    BY <2>1, <2>2, FS_Interval
<1>2. IsFiniteSet({s}) /\ Cardinality({s}) = 1
  BY FS_Singleton
<1>3. /\ IsFiniteSet({s} \X (1 .. a))
      /\ Cardinality({s} \X (1 .. a)) = Cardinality({s}) * Cardinality(1 .. a)
  BY <1>1, <1>2, FS_Product
<1>4. Cardinality({s} \X (1 .. a)) = 1 * a
  BY <1>1, <1>2, <1>3
<1> QED
  BY <1>3, <1>4

(* An amount given to a holder of nothing adds just that amount.           *)
LEMMA HeldAdd ==
  ASSUME NEW S, IsFiniteSet(S), NEW max \in Nat,
         NEW f, NEW s \in S, f[s] = 0,
         NEW g, g[s] \in 0 .. max, \A t \in S \ {s} : g[t] = f[t]
  PROVE  Held(S, max, g) = Held(S, max, f) + g[s]
<1> DEFINE a == g[s]
           new == {s} \X (1 .. a)
<1>1. Units(S, max, g) = Units(S, max, f) \cup new
  BY DEF Units
<1>2. Units(S, max, f) \cap new = {}
  BY DEF Units
<1>3. IsFiniteSet(new) /\ Cardinality(new) = a
  <2>1. a \in Nat
    OBVIOUS
  <2> QED
    BY <2>1, UnitsOfOne
<1>4. Cardinality({}) = 0
  BY FS_EmptySet
<1>5. IsFiniteSet(Units(S, max, f)) /\ Held(S, max, f) \in Nat
  BY UnitsFinite
<1> HIDE DEF new
<1>6. Cardinality(Units(S, max, f) \cup new)
        = Cardinality(Units(S, max, f)) + Cardinality(new) - Cardinality({})
  BY <1>2, <1>3, <1>5, FS_Union
<1>7. Held(S, max, g) = Held(S, max, f) + a - 0
  BY <1>1, <1>3, <1>4, <1>6 DEF Held
<1> QED
  BY <1>5, <1>7

(* Nobody holds anything, so nothing is held.                              *)
LEMMA HeldNothing ==
  ASSUME NEW S, NEW max \in Nat, NEW f, \A s \in S : f[s] = 0
  PROVE  Held(S, max, f) = 0
<1>1. Units(S, max, f) = {}
  BY DEF Units
<1> QED
  BY <1>1, FS_EmptySet DEF Held

(* Whoever holds anything is among others who hold no less.                *)
LEMMA HeldLess ==
  ASSUME NEW D, NEW max \in Nat, NEW f \in [D -> 0 .. max], NEW g \in [D -> 0 .. max],
         NEW S \in SUBSET D, NEW T \in SUBSET D, IsFiniteSet(T),
         \A s \in S : f[s] = 0 \/ (s \in T /\ f[s] <= g[s])
  PROVE  Held(S, max, f) <= Held(T, max, g)
<1>1. Units(S, max, f) \subseteq Units(T, max, g)
  <2> SUFFICES ASSUME NEW s \in S, NEW i \in 1 .. max, i <= f[s]
               PROVE  s \in T /\ i <= g[s]
    BY DEF Units
  <2>1. f[s] \in Int /\ g[s] \in Int
    OBVIOUS
  <2> QED
    BY <2>1
<1>2. IsFiniteSet(Units(T, max, g))
  BY UnitsFinite
<1> QED
  BY <1>1, <1>2, FS_Subset DEF Held
-----------------------------------------------------------------------------

LEMMA PositionFinite == IsFiniteSet(Position)
<1>1. IsFiniteSet(1 .. MaxCycles)
  BY BoundAssumption, FS_Interval
<1> QED
  BY <1>1, MarketAssumption, FS_Product DEF Position

LEMMA HereIsPosition ==
  ASSUME TypeOK, cycle > 0, NEW m \in Market
  PROVE  Here(m) \in Position /\ Here(m)[1] = cycle /\ Here(m)[2] = m
  BY DEF TypeOK, Position, Here

LEMMA LockedType == TypeOK => Locked \in [Position -> 0 .. Total]
  BY CapAssumption DEF TypeOK, Locked

LEMMA ClaimedType == TypeOK => Claimed \in [Position -> 0 .. Total]
<1> SUFFICES ASSUME TypeOK PROVE Claimed \in [Position -> 0 .. Total]
  OBVIOUS
<1>1. ASSUME NEW p \in Position PROVE Claimed[p] \in 0 .. Total
  BY LockedType, CapAssumption DEF TypeOK, Claimed, Position
<1> QED
  BY <1>1 DEF Claimed

LEMMA SumIsHeld == \A f : Budget!Sum(f) = Held(Position, Total, f)
  BY DEF Budget!Sum, Budget!Held, Budget!Units, Budget!Cardinality, Held, Units, Cardinality

(* The budget's sum is a natural number and grows with the claims.         *)
LEMMA SumFacts ==
  /\ \A f : Budget!Sum(f) \in Nat
  /\ \A f, g \in [Position -> 0 .. Total] :
       (\A p \in Position : f[p] <= g[p]) => Budget!Sum(f) <= Budget!Sum(g)
  /\ \A f, g \in [Position -> 0 .. Total], p \in Position :
       f[p] = 0 /\ (\A q \in Position \ {p} : g[q] = f[q]) =>
         Budget!Sum(g) = Budget!Sum(f) + g[p]
<1>0. Total \in Nat
  BY CapAssumption
<1> USE PositionFinite
<1>1. ASSUME NEW f PROVE Budget!Sum(f) \in Nat
  BY <1>0, UnitsFinite, SumIsHeld
<1>2. ASSUME NEW f \in [Position -> 0 .. Total], NEW g \in [Position -> 0 .. Total],
             \A p \in Position : f[p] <= g[p]
      PROVE  Budget!Sum(f) <= Budget!Sum(g)
  BY <1>0, <1>2, HeldMonotone, SumIsHeld
<1>3. ASSUME NEW f \in [Position -> 0 .. Total], NEW g \in [Position -> 0 .. Total],
             NEW p \in Position, f[p] = 0, \A q \in Position \ {p} : g[q] = f[q]
      PROVE  Budget!Sum(g) = Budget!Sum(f) + g[p]
  <2>1. Held(Position, Total, g) = Held(Position, Total, f) + g[p]
    BY <1>0, <1>3, HeldAdd
  <2> QED
    BY <2>1, SumIsHeld
<1> QED
  BY <1>1, <1>2, <1>3

(* Claims that shrink, holder by holder, still fit.                        *)
LEMMA FewerClaims ==
  ASSUME IInv, TypeOK', \A p \in Position : Claimed'[p] <= Claimed[p]
  PROVE  Budget!Sum(Claimed') <= Total
<1>1. Claimed \in [Position -> 0 .. Total]
  BY ClaimedType DEF IInv
<1>2. Claimed' \in [Position -> 0 .. Total]
  <2>1. ASSUME NEW p \in Position PROVE Claimed'[p] \in 0 .. Total
    BY CapAssumption DEF TypeOK, Claimed, Locked, Position
  <2> QED
    BY <2>1 DEF Claimed
<1>3. Budget!Sum(Claimed') <= Budget!Sum(Claimed)
  BY <1>1, <1>2, SumFacts
<1> QED
  BY <1>3, SumFacts, CapAssumption DEF IInv, ClaimsFit

-----------------------------------------------------------------------------

LEMMA MemoryTypes ==
  /\ Nothing \in [Market -> 0 .. MaxOffer]
  /\ Nothing \in [Market -> 0 .. Total]
  /\ NoCommitment \in [Event -> 0 .. MaxPerEvent]
  BY CapAssumption DEF Nothing, NoCommitment

(* A cap is at most each of the three limits it is the least of.           *)
LEMMA TradeCapBound ==
  ASSUME TypeOK, NEW m \in Market
  PROVE  /\ TradeCap(m) \in Int
         /\ TradeCap(m) <= remaining
         /\ TradeCap(m) <= MaxPerEvent - committed[EventOf[m]]
  BY MarketAssumption, CapAssumption DEF TypeOK, TradeCap, Smaller

(* Every step keeps the ledger and the memory well typed.                  *)
LEMMA TypeStep == TypeOK /\ [Next]_vars => TypeOK'
<1> SUFFICES ASSUME TypeOK, [Next]_vars PROVE TypeOK'
  OBVIOUS
<1> USE CapAssumption, BoundAssumption, MarketAssumption DEF TypeOK
<1>1. CASE Start
  BY <1>1 DEF Start, ledger, memory
<1>2. CASE Scan
  <2>1. remaining' \in 0 .. Total
    BY <1>2, SumFacts DEF Scan
  <2> QED
    BY <1>2, <2>1, MemoryTypes DEF Scan, ledger
<1>3. CASE ScanNothing
  BY <1>3 DEF ScanNothing, ledger, memory
<1>4. ASSUME NEW m \in Market, GiveUp(m) PROVE TypeOK'
  BY <1>4 DEF GiveUp, ledger
<1>5. ASSUME NEW m \in Market, NEW a \in 1 .. Total, Allocate(m, a) PROVE TypeOK'
  <2>1. a <= remaining /\ committed[EventOf[m]] + a <= MaxPerEvent
    BY <1>5, TradeCapBound DEF Allocate
  <2>2. committed' \in [Event -> 0 .. MaxPerEvent]
    BY <1>5, <2>1 DEF Allocate
  <2> QED
    BY <1>5, <2>1, <2>2 DEF Allocate, ledger
<1>6. CASE EndAllocation
  BY <1>6 DEF EndAllocation, ledger, memory
<1>7. ASSUME NEW m \in Market, WriteOpportunity(m) PROVE TypeOK'
  BY <1>7 DEF WriteOpportunity
<1>8. ASSUME NEW m \in Market, WriteTrade(m) PROVE TypeOK'
  <2>1. plan[m] \in 0 .. Total /\ 0 \in 0 .. Total
    OBVIOUS
  <2>2. trade' \in [Position -> {"none", "open", "resolved"}]
    BY <1>8 DEF WriteTrade
  <2>3. capital' \in [Position -> 0 .. Total]
    BY <1>8, <2>1 DEF WriteTrade
  <2>4. plan' \in [Market -> 0 .. Total]
    BY <1>8, <2>1 DEF WriteTrade
  <2> QED
    BY <1>8, <2>2, <2>3, <2>4 DEF WriteTrade
<1>9. ASSUME NEW m \in Market, FillFails(m) PROVE TypeOK'
  BY <1>9 DEF FillFails, ledger
<1>10. CASE EndFills
  BY <1>10 DEF EndFills, ledger, memory
<1>11. ASSUME NEW p \in Position, Resolve(p) PROVE TypeOK'
  BY <1>11 DEF Resolve, memory
<1>12. CASE EndCycle
  BY <1>12 DEF EndCycle, ledger, memory
<1>13. CASE Crash
  BY <1>13, MemoryTypes DEF Crash, ledger
<1>14. ASSUME NEW p \in Position, Mature(p) PROVE TypeOK'
  BY <1>14 DEF Mature, memory
<1>15. CASE UNCHANGED vars
  BY <1>15 DEF vars, ledger, memory
<1> QED
  BY <1>1, <1>2, <1>3, <1>4, <1>5, <1>6, <1>7, <1>8, <1>9, <1>10, <1>11, <1>12, <1>13,
     <1>14, <1>15
  DEF Next, Orchestrator

-----------------------------------------------------------------------------

(* Steps that touch neither the ledger nor the plan keep every claim.      *)
LEMMA SameClaims ==
  ASSUME trade' = trade, capital' = capital, plan' = plan, cycle' = cycle
  PROVE  Claimed' = Claimed
  BY DEF Claimed, Locked

LEMMA ClaimedPrimeType == TypeOK' => Claimed' \in [Position -> 0 .. Total]
<1> SUFFICES ASSUME TypeOK' PROVE Claimed' \in [Position -> 0 .. Total]
  OBVIOUS
<1>1. ASSUME NEW p \in Position PROVE Claimed'[p] \in 0 .. Total
  BY CapAssumption DEF TypeOK, Claimed, Locked, Position
<1> QED
  BY <1>1 DEF Claimed

LEMMA PositionParts ==
  \A p \in Position : p[1] \in 1 .. MaxCycles /\ p[2] \in Market /\ p = <<p[1], p[2]>>
  BY DEF Position

(* A scan reserves what is locked; nothing is planned yet.                 *)
LEMMA ScanStep == IInv /\ TypeOK' /\ Scan => IInv'
<1> SUFFICES ASSUME IInv, TypeOK', Scan PROVE IInv'
  OBVIOUS
<1> USE CapAssumption, BoundAssumption DEF IInv
<1>1. FreshPlan'
  BY PositionParts DEF FreshPlan, Scan, ledger, TypeOK, Here, Nothing, Position
<1>2. Claimed' = Locked
  <2>1. ASSUME NEW p \in Position PROVE Claimed'[p] = Locked[p]
    BY PositionParts DEF FreshPlan, Scan, ledger, TypeOK, Claimed, Locked, Nothing
  <2>2. Locked = [p \in Position |-> Locked[p]] /\ Claimed' = [p \in Position |-> Claimed'[p]]
    BY DEF Claimed, Locked
  <2> QED
    BY <2>1, <2>2
<1>3. Claimed = Locked
  <2>1. ASSUME NEW p \in Position PROVE Claimed[p] = Locked[p]
    BY PositionParts DEF FreshPlan, Scan, TypeOK, Claimed, Locked, Nothing
  <2>2. Locked = [p \in Position |-> Locked[p]] /\ Claimed = [p \in Position |-> Claimed[p]]
    BY DEF Claimed, Locked
  <2> QED
    BY <2>1, <2>2
<1>4. Budget!Sum(Locked) \in Nat /\ Budget!Sum(Locked) <= Total
  BY <1>3, SumFacts DEF ClaimsFit
<1>5. ClaimsFit'
  <2>1. remaining' = Total - Budget!Sum(Locked)
    BY <1>4 DEF Scan
  <2> QED
    BY <1>2, <1>4, <2>1 DEF ClaimsFit
<1>6. ReconcilesClean'
  BY DEF ReconcilesClean, Scan, ledger
<1> QED
  BY <1>1, <1>5, <1>6

(* An allocation moves capital from what remains to what is claimed.       *)
LEMMA AllocateStep ==
  ASSUME IInv, TypeOK', NEW m \in Market, NEW a \in 1 .. Total, Allocate(m, a)
  PROVE  IInv'
<1> USE CapAssumption, BoundAssumption DEF IInv
<1>1. Here(m) \in Position /\ Here(m)[1] = cycle /\ Here(m)[2] = m
  BY HereIsPosition DEF Allocate, TypeOK
<1>2. trade[Here(m)] = "none" /\ plan[m] = 0
  BY DEF Allocate, FreshPlan
<1>3. FreshPlan'
  BY DEF Allocate, FreshPlan, ledger, Here, TypeOK, Nothing
<1>4. Claimed[Here(m)] = 0
  BY <1>1, <1>2 DEF Claimed
<1>5. Claimed'[Here(m)] = a
  BY <1>1, <1>2 DEF Claimed, Allocate, ledger, TypeOK
<1>6. ASSUME NEW q \in Position \ {Here(m)} PROVE Claimed'[q] = Claimed[q]
  BY PositionParts DEF Claimed, Locked, Allocate, ledger, TypeOK, Here
<1>7. Budget!Sum(Claimed') = Budget!Sum(Claimed) + a
  BY <1>1, <1>4, <1>5, <1>6, ClaimedType, ClaimedPrimeType, SumFacts
<1>8. remaining' = remaining - a /\ remaining \in Nat /\ remaining' \in Nat /\ pc = "allocate"
  BY DEF Allocate, TypeOK
<1>9. ClaimsFit'
  BY <1>7, <1>8, SumFacts DEF ClaimsFit
<1>10. ReconcilesClean'
  BY DEF ReconcilesClean, Allocate, ledger
<1> QED
  BY <1>3, <1>9, <1>10

(* The second insert turns a claim into a lock of the same amount.         *)
LEMMA WriteTradeStep ==
  ASSUME IInv, TypeOK', NEW m \in Market, WriteTrade(m)
  PROVE  IInv'
<1> USE CapAssumption, BoundAssumption DEF IInv
<1>1. Here(m) \in Position /\ Here(m)[1] = cycle /\ Here(m)[2] = m
  BY HereIsPosition DEF WriteTrade, TypeOK
<1>2. /\ trade[Here(m)] = "none" /\ plan[m] > 0 /\ opportunity[Here(m)] = plan[m]
      /\ trade' = [trade EXCEPT ![Here(m)] = "open"]
      /\ capital' = [capital EXCEPT ![Here(m)] = plan[m]]
  BY DEF WriteTrade, FreshPlan, Here
<1>3. FreshPlan'
  BY <1>1, <1>2 DEF WriteTrade, FreshPlan, Here, TypeOK, Nothing
<1>4. Claimed'[Here(m)] = Claimed[Here(m)]
  BY <1>1, <1>2 DEF Claimed, Locked, WriteTrade, TypeOK
<1>5. ASSUME NEW q \in Position, q # Here(m) PROVE Claimed'[q] = Claimed[q]
  BY <1>2, PositionParts DEF Claimed, Locked, WriteTrade, TypeOK, Here
<1>6. Budget!Sum(Claimed') <= Total
  <2>1. \A q \in Position : Claimed'[q] <= Claimed[q]
    BY <1>4, <1>5, ClaimedType
  <2> QED
    BY <2>1, FewerClaims
<1>7. ClaimsFit'
  BY <1>6 DEF ClaimsFit, WriteTrade
<1>8. ReconcilesClean'
  BY <1>1, <1>2 DEF ReconcilesClean, WriteTrade, TypeOK
<1> QED
  BY <1>3, <1>7, <1>8

(* The steps that give a claim up: a failed fill, a resolution, a crash.   *)
LEMMA GiveBackStep ==
  ASSUME IInv, TypeOK',
         \/ \E m \in Market : FillFails(m)
         \/ \E p \in Position : Resolve(p)
         \/ Crash
  PROVE  IInv'
<1> USE CapAssumption, BoundAssumption DEF IInv
<1>1. FreshPlan'
  <2>1. ASSUME NEW m \in Market, FillFails(m) PROVE FreshPlan'
    BY <2>1 DEF FillFails, FreshPlan, Here, ledger, TypeOK, Nothing
  <2>2. ASSUME NEW p \in Position, Resolve(p) PROVE FreshPlan'
    BY <2>2 DEF Resolve, FreshPlan, Here, memory, Overdue, TypeOK
  <2>3. CASE Crash
    BY <2>3 DEF Crash, FreshPlan, Here, ledger, TypeOK, Nothing
  <2> QED
    BY <2>1, <2>2, <2>3
<1>2. \A q \in Position : Claimed'[q] <= Claimed[q]
  <2>0. TAKE q \in Position
  <2>1. ASSUME NEW m \in Market, FillFails(m) PROVE Claimed'[q] <= Claimed[q]
    BY <2>1, PositionParts DEF FillFails, Claimed, Locked, ledger, TypeOK
  <2>2. ASSUME NEW p \in Position, Resolve(p) PROVE Claimed'[q] <= Claimed[q]
    BY <2>2, PositionParts DEF Resolve, Claimed, Locked, memory, Overdue, TypeOK
  <2>3. CASE Crash
    BY <2>3, PositionParts DEF Crash, Claimed, Locked, ledger, Nothing, TypeOK
  <2> QED
    BY <2>1, <2>2, <2>3
<1>3. ClaimsFit'
  <2>1. pc' # "allocate"
    BY DEF FillFails, Resolve, Crash
  <2> QED
    BY <1>2, <2>1, FewerClaims DEF ClaimsFit
<1>4. ReconcilesClean'
  <2>1. ASSUME NEW m \in Market, FillFails(m) PROVE ReconcilesClean'
    BY <2>1 DEF FillFails, ReconcilesClean, ledger
  <2>2. ASSUME NEW p \in Position, Resolve(p) PROVE ReconcilesClean'
    BY <2>2 DEF Resolve, ReconcilesClean, TypeOK
  <2>3. CASE Crash
    BY <2>3 DEF Crash, ReconcilesClean, ledger
  <2> QED
    BY <2>1, <2>2, <2>3
<1> QED
  BY <1>1, <1>3, <1>4

(* The steps that leave every claim as it is.                              *)
LEMMA QuietStep ==
  ASSUME IInv, TypeOK',
         \/ Start \/ ScanNothing \/ EndAllocation \/ EndFills \/ EndCycle
         \/ \E m \in Market : GiveUp(m) \/ WriteOpportunity(m)
         \/ \E p \in Position : Mature(p)
         \/ UNCHANGED vars
  PROVE  IInv'
<1> USE CapAssumption, BoundAssumption DEF IInv
<1>1. CASE Start \/ ScanNothing \/ EndAllocation \/ EndFills \/ EndCycle
  <2>1. FreshPlan'
    <3>1. CASE EndFills
      <4>1. plan = Nothing /\ \A m \in Market : plan[m] = 0
        BY <3>1 DEF EndFills, Nothing
      <4>2. writing = {}
        BY <4>1 DEF FreshPlan, TypeOK
      <4> QED
        BY <3>1, <4>1, <4>2 DEF EndFills, FreshPlan, Here, ledger, memory
    <3>2. CASE Start \/ ScanNothing \/ EndAllocation \/ EndCycle
      BY <3>2 DEF Start, ScanNothing, EndAllocation, EndCycle, FreshPlan, Here, ledger,
                  memory
    <3> QED
      BY <1>1, <3>1, <3>2
  <2>2. ClaimsFit'
    <3>1. Claimed' = Claimed /\ pc' # "allocate"
      BY <1>1, SameClaims DEF Start, ScanNothing, EndAllocation, EndFills, EndCycle,
                              ledger, memory
    <3> QED
      BY <3>1 DEF ClaimsFit
  <2>3. ReconcilesClean'
    BY <1>1 DEF Start, ScanNothing, EndAllocation, EndFills, EndCycle, ReconcilesClean,
                ledger
  <2> QED
    BY <2>1, <2>2, <2>3
<1>2. ASSUME NEW m \in Market, GiveUp(m) PROVE IInv'
  <2>1. FreshPlan'
    BY <1>2 DEF GiveUp, FreshPlan, Here, ledger, Nothing, TypeOK
  <2>2. ClaimsFit'
    <3>1. Claimed' = Claimed /\ pc = "allocate" /\ remaining' = remaining
      BY <1>2, SameClaims DEF GiveUp, ledger
    <3> QED
      BY <3>1 DEF ClaimsFit
  <2>3. ReconcilesClean'
    BY <1>2 DEF GiveUp, ReconcilesClean, ledger
  <2> QED
    BY <2>1, <2>2, <2>3
<1>3. ASSUME NEW m \in Market, WriteOpportunity(m) PROVE IInv'
  <2>0. Here(m) \in Position /\ trade[Here(m)] = "none"
    BY <1>3, HereIsPosition DEF WriteOpportunity, FreshPlan, TypeOK
  <2>1. FreshPlan'
    BY <1>3, <2>0 DEF WriteOpportunity, FreshPlan, Here, Nothing, TypeOK
  <2>2. ClaimsFit'
    <3>1. Claimed' = Claimed /\ pc' # "allocate"
      BY <1>3, SameClaims DEF WriteOpportunity
    <3> QED
      BY <3>1 DEF ClaimsFit
  <2>3. ReconcilesClean'
    BY <1>3, <2>0 DEF WriteOpportunity, ReconcilesClean, Here, TypeOK
  <2> QED
    BY <2>1, <2>2, <2>3
<1>4. ASSUME NEW p \in Position, Mature(p) PROVE IInv'
  <2>1. FreshPlan'
    BY <1>4 DEF Mature, FreshPlan, Here, memory
  <2>2. ClaimsFit'
    <3>1. Claimed' = Claimed /\ pc' # "allocate"
      BY <1>4, SameClaims DEF Mature, memory
    <3> QED
      BY <3>1 DEF ClaimsFit
  <2>3. ReconcilesClean'
    BY <1>4 DEF Mature, ReconcilesClean
  <2> QED
    BY <2>1, <2>2, <2>3
<1>5. CASE UNCHANGED vars
  <2>1. FreshPlan' /\ ReconcilesClean'
    BY <1>5 DEF vars, FreshPlan, ReconcilesClean, Here, ledger, memory
  <2>2. Claimed' = Claimed /\ pc' = pc /\ remaining' = remaining
    BY <1>5, SameClaims DEF vars, ledger, memory
  <2> QED
    BY <2>1, <2>2 DEF ClaimsFit
<1> QED
  BY <1>1, <1>2, <1>3, <1>4, <1>5

LEMMA IInvStep == IInv /\ [Next]_vars => IInv'
<1> SUFFICES ASSUME IInv, [Next]_vars PROVE IInv'
  OBVIOUS
<1>1. TypeOK'
  BY TypeStep DEF IInv
<1> QED
  BY <1>1, ScanStep, AllocateStep, WriteTradeStep, GiveBackStep, QuietStep
  DEF Next, Orchestrator

LEMMA InitIInv == Init => IInv
<1> SUFFICES ASSUME Init PROVE IInv
  OBVIOUS
<1> USE CapAssumption, BoundAssumption DEF Init
<1>1. TypeOK
  BY MemoryTypes DEF TypeOK
<1>2. FreshPlan /\ ReconcilesClean
  BY DEF FreshPlan, ReconcilesClean, Nothing
<1>3. ClaimsFit
  <2>1. \A p \in Position : Claimed[p] = 0
    BY PositionParts DEF Claimed, Locked, Nothing
  <2>2. Held(Position, Total, Claimed) = 0
    BY <2>1, HeldNothing
  <2> QED
    BY <2>2, SumIsHeld DEF ClaimsFit
<1> QED
  BY <1>1, <1>2, <1>3 DEF IInv

LEMMA Invariance == Spec => []IInv
  BY InitIInv, IInvStep, PTL DEF Spec

-----------------------------------------------------------------------------

(* The ledger, the allocator's memory and the cycle keep their types.      *)
THEOREM TypeCorrect == Spec => []TypeOK
  BY Invariance, PTL DEF IInv

(* What open positions lock is at most what is claimed, hence the total.   *)
LEMMA LockedFits == IInv => BudgetRespected
<1> SUFFICES ASSUME IInv PROVE BudgetRespected
  OBVIOUS
<1>1. \A p \in Position : Locked[p] <= Claimed[p]
  BY PositionParts, CapAssumption DEF Locked, Claimed, IInv, TypeOK
<1>2. Budget!Sum(Locked) <= Budget!Sum(Claimed)
  BY <1>1, LockedType, ClaimedType, SumFacts DEF IInv
<1> QED
  BY <1>2, SumFacts, CapAssumption DEF IInv, ClaimsFit, BudgetRespected, Budget!WithinTotal

(* The capital of open positions never exceeds total_capital_usd.          *)
THEOREM CapitalWithinTotal == Spec => []BudgetRespected
  BY Invariance, LockedFits, PTL

(* Reconciliation finds every open position's opportunity row, with the    *)
(* same capital, wherever the process was killed.                          *)
THEOREM LedgerReconciles == Spec => []ReconcilesClean
  BY Invariance, PTL DEF IInv

LEMMA BudgetInit == Init => Budget!Init
  BY DEF Init, Budget!Init, Locked

(* Only the second insert locks capital, and only a resolution releases it.*)
LEMMA BudgetStep == IInv /\ BudgetRespected' /\ [Next]_vars => [Budget!Next]_Locked
<1> SUFFICES ASSUME IInv, BudgetRespected', Next, Locked' # Locked PROVE Budget!Next
  BY DEF vars, ledger, Locked
<1> USE CapAssumption, BoundAssumption DEF IInv
<1>1. trade' # trade \/ capital' # capital
  BY DEF Locked
<1>2. \/ \E m \in Market : WriteTrade(m)
      \/ \E p \in Position : Resolve(p)
  BY <1>1 DEF Next, Orchestrator, Start, Scan, ScanNothing, GiveUp, Allocate, EndAllocation,
     WriteOpportunity, FillFails, EndFills, EndCycle, Crash, Mature, ledger
<1>3. ASSUME NEW m \in Market, WriteTrade(m) PROVE Budget!Next
  <2>1. Here(m) \in Position /\ trade[Here(m)] = "none" /\ plan[m] \in 1 .. Total
    BY <1>3, HereIsPosition DEF WriteTrade, FreshPlan, TypeOK
  <2>2. Locked[Here(m)] = 0
    BY <2>1 DEF Locked
  <2>3. Locked' = [Locked EXCEPT ![Here(m)] = plan[m]]
    BY <1>3, <2>1 DEF WriteTrade, Locked, Here, TypeOK
  <2>4. Budget!Sum(Locked') <= Total
    BY DEF BudgetRespected, Budget!WithinTotal
  <2> QED
    BY <2>1, <2>2, <2>3, <2>4 DEF Budget!Next, Budget!Lock
<1>4. ASSUME NEW p \in Position, Resolve(p) PROVE Budget!Next
  <2>1. Locked' = [Locked EXCEPT ![p] = 0]
    BY <1>4 DEF Resolve, Locked, TypeOK
  <2> QED
    BY <2>1 DEF Budget!Next, Budget!Release
<1> QED
  BY <1>2, <1>3, <1>4

(* The orchestrator's ledger implements the abstract capital budget.       *)
THEOREM LedgerImplementsBudget == Spec => ImplementsBudget
  BY Invariance, LockedFits, BudgetInit, BudgetStep, PTL DEF Spec, ImplementsBudget, Budget!Spec

-----------------------------------------------------------------------------
(***************************************************************************)
(* The cap per event.  What the cycle has planned and filled on an event   *)
(* is what its committed_per_event counts, as long as it allocates; after  *)
(* that plans only shrink or become trades of the same amount.  A new      *)
(* cycle starts from nothing because no row bears its number yet.          *)
(***************************************************************************)

EventInv ==
  /\ \A p \in Position : trade[p] = "none" => capital[p] = 0
  /\ EventCapPerCycle
  /\ pc = "allocate" => \A e \in Event : OnEvent(e) <= committed[e]

LEMMA SpentType == TypeOK => Spent \in [Position -> 0 .. 2 * Total]
  BY CapAssumption, PositionParts DEF TypeOK, Spent

LEMMA SpentPrimeType == TypeOK' => Spent' \in [Position -> 0 .. 2 * Total]
  BY CapAssumption, PositionParts DEF TypeOK, Spent

LEMMA OfCycleFinite == \A n, e : OfCycle(n, e) \in SUBSET Position /\ IsFiniteSet(OfCycle(n, e))
  BY PositionFinite, FS_Subset DEF OfCycle

LEMMA OnEventType == \A e : OnEvent(e) \in Nat /\ OnEvent(e)' \in Nat
<1>1. 2 * Total \in Nat
  BY CapAssumption
<1>2. \A n, e, f : Held(OfCycle(n, e), 2 * Total, f) \in Nat
  BY <1>1, OfCycleFinite, UnitsFinite
<1>3. ASSUME NEW e PROVE OnEvent(e)' = Held(OfCycle(cycle', e), 2 * Total, Spent')
  BY DEF OnEvent, OfCycle
<1> QED
  BY <1>2, <1>3 DEF OnEvent

(* A cycle that spends no more, position by position, keeps to its caps.   *)
LEMMA SpendsLess ==
  ASSUME IInv, TypeOK', EventInv, cycle' = cycle,
         \A p \in Position : p[1] = cycle => Spent'[p] <= Spent[p],
         \A p \in Position : trade'[p] = "none" => capital'[p] = 0,
         pc' = "allocate" => pc = "allocate" /\ committed' = committed
  PROVE  EventInv'
<1>1. ASSUME NEW e \in Event PROVE OnEvent(e)' <= OnEvent(e)
  <2>1. OnEvent(e)' = Held(OfCycle(cycle, e), 2 * Total, Spent')
    BY DEF OnEvent, OfCycle
  <2>2. \A p \in OfCycle(cycle, e) : Spent'[p] <= Spent[p]
    BY DEF OfCycle
  <2>3. 2 * Total \in Nat
    BY CapAssumption
  <2>4. Spent \in [Position -> 0 .. 2 * Total] /\ Spent' \in [Position -> 0 .. 2 * Total]
    BY SpentType, SpentPrimeType DEF IInv
  <2>5. Held(OfCycle(cycle, e), 2 * Total, Spent') <= Held(OfCycle(cycle, e), 2 * Total, Spent)
    BY <2>2, <2>3, <2>4, OfCycleFinite, HeldLess
  <2> QED
    BY <2>1, <2>5 DEF OnEvent
<1>2. \A e \in Event : OnEvent(e) \in Nat /\ OnEvent(e)' \in Nat
  BY OnEventType
<1>3. EventCapPerCycle'
  BY <1>1, <1>2, CapAssumption DEF EventInv, EventCapPerCycle
<1>4. pc' = "allocate" => \A e \in Event : OnEvent(e)' <= committed'[e]
  <2> SUFFICES ASSUME pc' = "allocate", NEW e \in Event PROVE OnEvent(e)' <= committed'[e]
    OBVIOUS
  <2>1. OnEvent(e) <= committed[e] /\ committed' = committed /\ committed[e] \in Nat
    BY CapAssumption DEF EventInv, IInv, TypeOK
  <2> QED
    BY <1>1, <1>2, <2>1
<1> QED
  BY <1>3, <1>4 DEF EventInv

LEMMA ScanSpends == ASSUME IInv, TypeOK', EventInv, Scan PROVE EventInv'
<1>1. \A p \in Position : trade'[p] = "none" => capital'[p] = 0
  BY DEF Scan, ledger, EventInv
<1>2. \A e \in Event : OnEvent(e)' = 0
  <2>1. plan' = Nothing /\ cycle' = cycle + 1 /\ capital' = capital /\ cycle \in Nat
    BY BoundAssumption DEF Scan, ledger, IInv, FreshPlan, TypeOK
  <2>2. ASSUME NEW p \in Position, p[1] = cycle' PROVE Spent'[p] = 0
    <3>1. trade[p] = "none"
      BY <2>1, <2>2 DEF IInv, FreshPlan
    <3>2. capital'[p] = 0 /\ plan'[p[2]] = 0
      BY <2>1, <3>1, PositionParts DEF EventInv, Nothing
    <3> QED
      BY <3>2 DEF Spent
  <2>3. 2 * Total \in Nat
    BY CapAssumption
  <2> SUFFICES ASSUME NEW e \in Event PROVE Held(OfCycle(cycle', e), 2 * Total, Spent') = 0
    BY DEF OnEvent, OfCycle
  <2>4. \A p \in OfCycle(cycle', e) : Spent'[p] = 0
    BY <2>2 DEF OfCycle
  <2> QED
    BY <2>3, <2>4, HeldNothing
<1>3. \A e \in Event : committed'[e] = 0
  BY DEF Scan, NoCommitment
<1> QED
  BY <1>1, <1>2, <1>3, CapAssumption DEF EventInv, EventCapPerCycle

(* An allocation counts against the event of its market, and no other.     *)
LEMMA AllocateSpends ==
  ASSUME IInv, TypeOK', EventInv, NEW m \in Market, NEW a \in 1 .. Total, Allocate(m, a)
  PROVE  EventInv'
<1>1. /\ Here(m) \in Position /\ trade[Here(m)] = "none" /\ plan[m] = 0
      /\ Here(m)[1] = cycle /\ Here(m)[2] = m
  BY HereIsPosition, CapAssumption DEF Allocate, IInv, FreshPlan, TypeOK
<1>2. /\ plan' = [plan EXCEPT ![m] = a] /\ capital' = capital /\ cycle' = cycle /\ trade' = trade
      /\ committed' = [committed EXCEPT ![EventOf[m]] = @ + a]
      /\ pc = "allocate" /\ pc' = "allocate"
  BY DEF Allocate, ledger
<1>3. Spent[Here(m)] = 0 /\ Spent'[Here(m)] = a
  BY <1>1, <1>2 DEF EventInv, Spent, IInv, TypeOK
<1>4. \A p \in Position : p[1] = cycle /\ p # Here(m) => Spent'[p] = Spent[p]
  BY <1>2, PositionParts DEF Spent, IInv, TypeOK, Here
<1>5. 2 * Total \in Nat /\ a \in 0 .. 2 * Total /\ a \in Nat
  BY CapAssumption
<1>6. ASSUME NEW e \in Event PROVE OnEvent(e)' <= committed'[e]
  <2>1. OnEvent(e)' = Held(OfCycle(cycle, e), 2 * Total, Spent') /\ OnEvent(e) = Held(OfCycle(cycle, e), 2 * Total, Spent)
    BY <1>2 DEF OnEvent, OfCycle
  <2>2. OnEvent(e) <= committed[e] /\ OnEvent(e) \in Nat /\ committed[e] \in Nat
    BY <1>2, OnEventType, CapAssumption DEF EventInv, IInv, TypeOK
  <2>3. CASE e = EventOf[m]
    <3>1. Here(m) \in OfCycle(cycle, e) /\ \A p \in OfCycle(cycle, e) \ {Here(m)} : Spent'[p] = Spent[p]
      BY <1>1, <1>4, <2>3 DEF OfCycle
    <3>2. Held(OfCycle(cycle, e), 2 * Total, Spent') = Held(OfCycle(cycle, e), 2 * Total, Spent) + Spent'[Here(m)]
      BY <1>3, <1>5, <3>1, OfCycleFinite, HeldAdd
    <3>3. committed'[e] = committed[e] + a
      BY <1>2, <2>3 DEF IInv, TypeOK
    <3> QED
      BY <1>3, <1>5, <2>1, <2>2, <3>2, <3>3
  <2>4. CASE e # EventOf[m]
    <3>1. \A p \in OfCycle(cycle, e) : Spent'[p] = Spent[p]
      BY <1>1, <1>4, <2>4 DEF OfCycle
    <3>2. Units(OfCycle(cycle, e), 2 * Total, Spent') = Units(OfCycle(cycle, e), 2 * Total, Spent)
      BY <3>1 DEF Units
    <3>3. committed'[e] = committed[e]
      BY <1>2, <2>4 DEF IInv, TypeOK
    <3> QED
      BY <2>1, <2>2, <3>2, <3>3 DEF Held
  <2> QED
    BY <2>3, <2>4
<1>7. EventCapPerCycle'
  <2>1. ASSUME NEW e \in Event PROVE OnEvent(e)' <= MaxPerEvent
    <3>1. committed'[e] \in 0 .. MaxPerEvent
      BY DEF TypeOK
    <3>2. OnEvent(e)' \in Nat
      BY OnEventType
    <3> QED
      BY <1>6, <3>1, <3>2, CapAssumption
  <2> QED
    BY <2>1 DEF EventCapPerCycle
<1> QED
  BY <1>2, <1>6, <1>7 DEF EventInv

LEMMA EventStep == IInv /\ TypeOK' /\ EventInv /\ [Next]_vars => EventInv'
<1> SUFFICES ASSUME IInv, TypeOK', EventInv, [Next]_vars PROVE EventInv'
  OBVIOUS
<1> USE CapAssumption
<1>1. CASE \/ Start \/ ScanNothing \/ EndAllocation \/ EndFills \/ EndCycle \/ UNCHANGED vars
           \/ \E m \in Market : GiveUp(m) \/ WriteOpportunity(m)
           \/ \E p \in Position : Mature(p)
  <2>1. /\ trade' = trade /\ capital' = capital /\ plan' = plan /\ cycle' = cycle
        /\ pc' = "allocate" => pc = "allocate" /\ committed' = committed
    BY <1>1 DEF Start, ScanNothing, EndAllocation, EndFills, EndCycle, vars, GiveUp, WriteOpportunity, Mature,
                ledger, memory
  <2>2. Spent' = Spent
    BY <2>1 DEF Spent
  <2>3. \A p \in Position : Spent'[p] <= Spent[p]
    BY <2>2, SpentType DEF IInv
  <2> QED
    BY <2>1, <2>3, SpendsLess DEF EventInv
<1>2. CASE Crash
  <2>1. trade' = trade /\ capital' = capital /\ plan' = Nothing /\ cycle' = cycle /\ pc' = "down"
    BY <1>2 DEF Crash, ledger
  <2>2. \A p \in Position : Spent'[p] <= Spent[p]
    BY <2>1, PositionParts DEF Spent, Nothing, IInv, TypeOK
  <2> QED
    BY <2>1, <2>2, SpendsLess DEF EventInv
<1>3. ASSUME NEW m \in Market, FillFails(m) PROVE EventInv'
  <2>1. /\ trade' = trade /\ capital' = capital /\ plan' = [plan EXCEPT ![m] = 0] /\ cycle' = cycle
        /\ pc' = "fill"
    BY <1>3 DEF FillFails, ledger
  <2>2. \A p \in Position : Spent'[p] <= Spent[p]
    BY <2>1, PositionParts DEF Spent, IInv, TypeOK
  <2> QED
    BY <2>1, <2>2, SpendsLess DEF EventInv
<1>4. ASSUME NEW m \in Market, WriteTrade(m) PROVE EventInv'
  <2>1. /\ trade' = [trade EXCEPT ![Here(m)] = "open"] /\ capital' = [capital EXCEPT ![Here(m)] = plan[m]]
        /\ plan' = [plan EXCEPT ![m] = 0] /\ cycle' = cycle /\ pc' = "fill"
    BY <1>4 DEF WriteTrade, Here
  <2>2. /\ Here(m) \in Position /\ trade[Here(m)] = "none" /\ capital[Here(m)] = 0
        /\ Here(m)[1] = cycle /\ Here(m)[2] = m
    BY <1>4, HereIsPosition DEF WriteTrade, IInv, FreshPlan, TypeOK, EventInv
  <2>3. \A p \in Position : p[1] = cycle => Spent'[p] <= Spent[p]
    <3> SUFFICES ASSUME NEW p \in Position, p[1] = cycle PROVE Spent'[p] <= Spent[p]
      OBVIOUS
    <3>1. capital[p] \in Int /\ plan[p[2]] \in Int
      BY PositionParts DEF IInv, TypeOK
    <3>2. CASE p = Here(m)
      BY <2>1, <2>2, <3>1, <3>2 DEF Spent, IInv, TypeOK
    <3>3. CASE p # Here(m)
      <4>1. p[2] # m
        BY <3>3, PositionParts DEF Here
      <4>2. capital'[p] = capital[p] /\ plan'[p[2]] = plan[p[2]]
        BY <2>1, <3>3, <4>1, PositionParts DEF IInv, TypeOK
      <4> QED
        BY <3>1, <4>2 DEF Spent
    <3> QED
      BY <3>2, <3>3
  <2>4. \A p \in Position : trade'[p] = "none" => capital'[p] = 0
    BY <2>1, <2>2 DEF EventInv, IInv, TypeOK
  <2> QED
    BY <2>1, <2>3, <2>4, SpendsLess
<1>5. ASSUME NEW q \in Position, Resolve(q) PROVE EventInv'
  <2>1. trade' = [trade EXCEPT ![q] = "resolved"] /\ capital' = capital /\ plan' = plan /\ cycle' = cycle
        /\ pc' = "resolve"
    BY <1>5 DEF Resolve, memory
  <2>2. Spent' = Spent
    BY <2>1 DEF Spent
  <2>3. \A p \in Position : Spent'[p] <= Spent[p]
    BY <2>2, SpentType DEF IInv
  <2>4. \A p \in Position : trade'[p] = "none" => capital'[p] = 0
    BY <2>1 DEF EventInv, IInv, TypeOK
  <2> QED
    BY <2>1, <2>3, <2>4, SpendsLess
<1> QED
  BY <1>1, <1>2, <1>3, <1>4, <1>5, ScanSpends, AllocateSpends DEF Next, Orchestrator

LEMMA InitEventInv == Init => EventInv
<1> SUFFICES ASSUME Init PROVE EventInv
  OBVIOUS
<1>1. \A p \in Position : Spent[p] = 0
  BY PositionParts DEF Init, Spent, Nothing
<1>2. ASSUME NEW e \in Event PROVE OnEvent(e) = 0
  <2>1. 2 * Total \in Nat /\ \A p \in OfCycle(cycle, e) : Spent[p] = 0
    BY <1>1, CapAssumption DEF OfCycle
  <2> QED
    BY <2>1, HeldNothing DEF OnEvent
<1> QED
  BY <1>2, CapAssumption DEF Init, EventInv, EventCapPerCycle

(* However often a cycle allocates and its fills fail or are cut short, it *)
(* commits no more to an event than max_capital_per_event_usd.             *)
THEOREM EventsAreCapped == Spec => []EventCapPerCycle
<1>1. IInv /\ EventInv /\ [Next]_vars => IInv' /\ EventInv'
  BY IInvStep, EventStep DEF IInv
<1>2. EventInv => EventCapPerCycle
  BY DEF EventInv
<1> QED
  BY <1>1, <1>2, InitIInv, InitEventInv, PTL DEF Spec

=============================================================================
