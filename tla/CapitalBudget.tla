--------------------------- MODULE CapitalBudget ---------------------------
(***************************************************************************)
(* What the paper-trading ledger promises about capital: a position locks  *)
(* an amount once, gives it back whole, and the positions that hold        *)
(* capital together never hold more than the total.  PaperTrading          *)
(* implements this specification across crashes, failed fills and halts.   *)
(***************************************************************************)
EXTENDS CapitalUnits

CONSTANTS
  Position,  \* every position there will ever be
  Total      \* total_capital_usd

(* total_capital_locked.                                                   *)
Sum(f) == Held(Position, Total, f)

VARIABLE locked

TypeOK == locked \in [Position -> 0 .. Total]

Init == locked = [p \in Position |-> 0]

Lock(p, amount) ==
  /\ locked[p] = 0
  /\ locked' = [locked EXCEPT ![p] = amount]
  /\ Sum(locked') <= Total

Release(p) == locked' = [locked EXCEPT ![p] = 0]

Next ==
  \E p \in Position :
    Release(p) \/ \E amount \in 1 .. Total : Lock(p, amount)

Spec == Init /\ [][Next]_locked

(* The capital held by all positions is at most the total.                 *)
WithinTotal == Sum(locked) <= Total

=============================================================================
