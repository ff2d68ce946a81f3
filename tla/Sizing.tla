------------------------------- MODULE Sizing -------------------------------
(***************************************************************************)
(* How large a trade is: compute_opportunity looks for the largest size    *)
(* whose return passes the gate, then allocate_capital looks for the       *)
(* largest size that also fits under the trade's cap.  Both are binary     *)
(* searches over whole contracts, after the largest (detection) and the    *)
(* smallest size (both) were tried by themselves; what a book holds may    *)
(* end within a contract.  Gas is paid per trade, so a small size may fail *)
(* where a larger one passes.  _detect_one_direction searches a cross-     *)
(* market pair alike, quoting Kalshi's leg in whole ticks, but never comes *)
(* back to the upper end; what it finds is recorded, never allocated.      *)
(*                                                                         *)
(* A part of a pair of contracts pays Unit * Scale of the units of money.  *)
(* The annualized gate compares a return that grows with profit / capital, *)
(* for the days of the market: here the ratio itself.                      *)
(***************************************************************************)
EXTENDS OrderBook

CONSTANTS
  Part,      \* parts in a contract
  MinSize,   \* min_trade_size_contracts, in parts
  MaxSize,   \* max_trade_size_contracts, in parts
  Tick,      \* KALSHI_TICK_SIZE, in price units
  Return,    \* the gate: a profit of Return / Scale of the capital
  Caps       \* the trade caps considered

(* The configured sizes are whole contracts.                               *)
ASSUME SizeAssumption ==
  /\ Part \in Nat \ {0}
  /\ MinSize \in Nat \ {0} /\ MaxSize \in Nat /\ MaxSize >= MinSize
  /\ MinSize % Part = 0 /\ MaxSize % Part = 0
ASSUME ReturnAssumption == Tick \in Nat \ {0} /\ Return \in Nat /\ Caps \subseteq Nat

VARIABLES
  strategy,   \* "intra" or "cross"
  cap,        \* trade_cap
  pc,         \* "max", "min", "search", "high"; "fit", "least", "shrink", "top"; "done"
  lo, hi,     \* lo_i, hi_i: whole contracts, in parts
  best,       \* the size of the best candidate so far, 0 for None
  detected    \* the size detection returned, 0 for None

(* The two detectors, of a market and of a pair of them.                   *)
Strategies == {"intra", "cross"}

vars == <<strategy, yes, no, cap, pc, lo, hi, best, detected>>

(* quantize_to_kalshi_tick of the average price, by the decimal context's  *)
(* default rounding: to the nearest tick, a half to the even one.  What n  *)
(* parts then seem to cost.                                                *)
Quoted(cost, n) ==
  LET tick == n * Tick
      down == cost \div tick
      rest == 2 * (cost - down * tick)
      up   == rest > tick \/ (rest = tick /\ down % 2 = 1)
  IN  tick * (IF up THEN down + 1 ELSE down)

Fillable(n) == Smaller(Filled(yes, n), Filled(no, n))

(* capital_at_risk and expected_profit of n fillable parts.  Across        *)
(* platforms the fee is half of each one's, and only Polymarket has gas.   *)
Charged(cost) == cost * (Scale + Fee) + Gas * Scale
IntraCapital(n) == Charged(Walk(yes, n).cost + Walk(no, n).cost)
CrossCapital(n) == Charged(Walk(yes, n).cost + IF n = 0 THEN 0 ELSE Quoted(Walk(no, n).cost, n))
Capital(n) == IF strategy = "intra" THEN IntraCapital(n) ELSE CrossCapital(n)
Profit(n) == n * Unit * Scale - Capital(n)

Passes(n) ==
  /\ n >= MinSize
  /\ Profit(n) > 0
  /\ Profit(n) * Scale >= Return * Capital(n)

(* _compute_for_size: the size that can be filled, or None.                *)
Compute(n) == IF Passes(Fillable(n)) THEN Fillable(n) ELSE 0

TypeOK ==
  /\ strategy \in Strategies
  /\ yes \in Books /\ no \in Books
  /\ cap \in Caps
  /\ pc \in {"max", "min", "search", "high", "fit", "least", "shrink", "top", "done"}
  /\ lo \in MinSize .. MaxSize \cup {0}
  /\ hi \in 0 .. MaxSize
  /\ best \in MinSize .. MaxSize \cup {0}
  /\ detected \in MinSize .. MaxSize \cup {0}

Init ==
  /\ strategy \in Strategies
  /\ yes \in Books /\ no \in Books
  /\ cap \in Caps
  /\ pc = "max"
  /\ lo = 0 /\ hi = 0 /\ best = 0 /\ detected = 0

Detect(size) ==
  /\ detected' = size
  /\ best' = 0
  /\ pc' = IF size = 0 \/ strategy = "cross" THEN "done" ELSE "fit"

Dead == Depth(yes) < MinSize \/ Depth(no) < MinSize

(* A dead market, or the largest size passes.                              *)
TryMax ==
  /\ pc = "max"
  /\ IF Dead THEN Detect(0)
     ELSE IF Compute(MaxSize) # 0 THEN Detect(Compute(MaxSize))
     ELSE pc' = "min" /\ UNCHANGED <<best, detected>>
  /\ UNCHANGED <<strategy, yes, no, cap, lo, hi>>

(* int() of a size.                                                        *)
Truncated(n) == (n \div Part) * Part

(* Mutant: the search is not bounded by max_trade_size_contracts.          *)
TryMinUnbounded ==
  /\ pc = "min"
  /\ lo' = MinSize
  /\ hi' = Truncated(Smaller(Depth(yes), Depth(no)))
  /\ IF Compute(MinSize) = 0 THEN Detect(0)
     ELSE pc' = "search" /\ best' = Compute(MinSize) /\ UNCHANGED detected
  /\ UNCHANGED <<strategy, yes, no, cap>>

(* The smallest size decides whether there is a search at all.             *)
TryMin ==
  /\ pc = "min"
  /\ lo' = MinSize
  /\ hi' = Truncated(Smaller(MaxSize, Smaller(Depth(yes), Depth(no))))
  /\ IF Compute(MinSize) = 0 THEN Detect(0)
     ELSE pc' = "search" /\ best' = Compute(MinSize) /\ UNCHANGED detected
  /\ UNCHANGED <<strategy, yes, no, cap>>

Middle == Truncated((lo + hi) \div 2)

(* One round of a binary search for the largest size of which ok holds.    *)
Halve(ok) ==
  /\ lo + Part < hi
  /\ IF ok
     THEN lo' = Middle /\ best' = Compute(Middle) /\ UNCHANGED hi
     ELSE hi' = Middle /\ UNCHANGED <<lo, best>>
  /\ UNCHANGED <<strategy, yes, no, cap, pc, detected>>

Search == pc = "search" /\ Halve(Compute(Middle) # 0)

(* Mutant: the search stops one size early.                                *)
EndSearchEarly ==
  /\ pc = "search" /\ strategy = "intra"
  /\ lo + 2 * Part >= hi
  /\ pc' = "high"
  /\ UNCHANGED <<strategy, yes, no, cap, lo, hi, best, detected>>

EndSearch ==
  /\ pc = "search" /\ strategy = "intra"
  /\ lo + Part >= hi
  /\ pc' = "high"
  /\ UNCHANGED <<strategy, yes, no, cap, lo, hi, best, detected>>

(* _detect_one_direction does not come back to hi.                         *)
EndCrossSearch ==
  /\ pc = "search" /\ strategy = "cross"
  /\ lo + Part >= hi
  /\ Detect(best)
  /\ UNCHANGED <<strategy, yes, no, cap, lo, hi>>

TryHigh ==
  /\ pc = "high"
  /\ Detect(IF Compute(hi) # 0 THEN Compute(hi) ELSE best)
  /\ UNCHANGED <<strategy, yes, no, cap, lo, hi>>

(* allocate_capital: the detected size fits whole, or is searched for.     *)
TakeWhole ==
  /\ pc = "fit"
  /\ Capital(detected) <= cap
  /\ best' = detected
  /\ pc' = "done"
  /\ UNCHANGED <<strategy, yes, no, cap, lo, hi, detected>>

Shrink ==
  /\ pc = "fit"
  /\ Capital(detected) > cap
  /\ pc' = "least"
  /\ lo' = MinSize /\ hi' = Truncated(detected)
  /\ UNCHANGED <<strategy, yes, no, cap, best, detected>>

Fits(n) == Compute(n) # 0 /\ Capital(Compute(n)) <= cap

TryLeast ==
  /\ pc = "least"
  /\ IF Fits(lo) THEN pc' = "shrink" /\ best' = Compute(lo)
     ELSE pc' = "done" /\ UNCHANGED best
  /\ UNCHANGED <<strategy, yes, no, cap, lo, hi, detected>>

HalveToFit == pc = "shrink" /\ Halve(Fits(Middle))

EndHalving ==
  /\ pc = "shrink"
  /\ lo + Part >= hi
  /\ pc' = "top"
  /\ UNCHANGED <<strategy, yes, no, cap, lo, hi, best, detected>>

TryTop ==
  /\ pc = "top"
  /\ best' = IF Fits(hi) THEN Compute(hi) ELSE best
  /\ pc' = "done"
  /\ UNCHANGED <<strategy, yes, no, cap, lo, hi, detected>>

Next ==
  \/ TryMax \/ TryMin \/ Search \/ EndSearch \/ EndCrossSearch \/ TryHigh
  \/ TakeWhole \/ Shrink \/ TryLeast \/ HalveToFit \/ EndHalving \/ TryTop

Spec == Init /\ [][Next]_vars

-----------------------------------------------------------------------------
(* Properties.                                                             *)

(* What n parts of a pair really cost, one by one, and whether the quoted  *)
(* costs pass the gate.                                                    *)
Paid(n) == Charged(Cost(yes, n) + Cost(no, n))
Billed(n) ==
  IF strategy = "intra" THEN Paid(n) ELSE Charged(Cost(yes, n) + Quoted(Cost(no, n), n))
Worth(n, cost) == n * Unit * Scale > cost /\ (n * Unit * Scale - cost) * Scale >= Return * cost
Tradable(n) == n <= Depth(yes) /\ n <= Depth(no)

(* What detection reports can be bought whole, and is worth it at the      *)
(* prices of the levels it takes; across platforms, with the second leg    *)
(* off by half a tick a contract at most.                                  *)
DetectedIsWorth ==
  detected # 0 =>
    /\ Tradable(detected) /\ Worth(detected, Billed(detected))
    /\ 2 * (Paid(detected) - Billed(detected)) <=
         (IF strategy = "cross" THEN detected * Tick ELSE 0) * (Scale + Fee)

(* The last whole size of a pair of books that end within a contract.      *)
LastWhole(n) == Tradable(n + 1) /\ ~Tradable(n + Part)

(* The binary searches are exact to a contract, whatever the books.  When  *)
(* the smallest size passes the gate, detection ends on a size that does;  *)
(* within a market none that is a contract larger does; across platforms,  *)
(* with ticks, the next does not, unless it is a LastWhole, which is never *)
(* tried.  An allocation stays under its cap, and when the smallest size   *)
(* does, none that is a contract larger would.                             *)
LargestFound ==
  /\ pc \in {"fit", "done"} /\ Tradable(MinSize) /\ Worth(MinSize, Billed(MinSize)) =>
       /\ detected # 0
       /\ \A n \in detected + Part .. MaxSize :
            Tradable(n) /\ (strategy = "intra" \/ (n = detected + Part /\ ~LastWhole(n))) =>
              ~Worth(n, Billed(n))
  /\ pc = "done" /\ strategy = "intra" /\ detected # 0 =>
       /\ best # 0 => Worth(best, Paid(best)) /\ Paid(best) <= cap
       /\ Worth(MinSize, Paid(MinSize)) /\ Paid(MinSize) <= cap =>
            \A n \in best + Part .. detected : ~Worth(n, Paid(n)) \/ Paid(n) > cap

(* cross_market.py:85: "Kalshi 1c rounds asks UP - pessimistic": a cross   *)
(* opportunity costs no more than it says.                                 *)
TickIsPessimistic == strategy = "cross" /\ detected # 0 => Paid(detected) <= Billed(detected)

=============================================================================
