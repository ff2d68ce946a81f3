------------------------------ MODULE Backtest ------------------------------
(***************************************************************************)
(* How run_backtest fills the opportunities of one tick on one market.     *)
(* Detection sees the recorded book once; each fill removes its size from  *)
(* the top of the book the next one sees, and pays what the fill model     *)
(* says: the walked price, that price with slippage, or the price without  *)
(* the best level.                                                         *)
(*                                                                         *)
(* A price is a total over its contracts times Scale, so that slippage is  *)
(* whole; an average is never divided out.                                 *)
(***************************************************************************)
EXTENDS OrderBook

CONSTANTS
  Kind,      \* FillModelKind
  Slip,      \* realistic_slippage_bps, in parts of Scale
  ExtraSlip, \* pessimistic_extra_slippage_bps, in parts of Scale
  MaxTrades  \* bound on the opportunities of a tick on one market

ASSUME KindAssumption == Kind \subseteq {"optimistic", "realistic", "pessimistic"}
ASSUME SlipAssumption == Slip \in Nat /\ ExtraSlip \in Nat
ASSUME TradesAssumption == MaxTrades \in Nat

VARIABLES
  kind,
  pending,    \* sizes of the tick's opportunities still to fill
  consumed,   \* contracts charged to the market so far in this tick
  trades      \* trades made: size, and what each leg's fill cost over how many

backtestVars == <<kind, yes, no, pending, consumed, trades>>

(* A leg's fill: how many contracts, and their cost times Scale.           *)
Nothing == [filled |-> 0, cost |-> 0]

(* A price of a dollar or more is refused.                                 *)
Slipped(book, n, slip) ==
  LET cost == Walk(book, n).cost * (Scale + slip)
  IN  IF cost >= Filled(book, n) * Unit * Scale THEN Nothing
      ELSE [filled |-> Filled(book, n), cost |-> cost]

FillPrice(book, n) ==
  IF book = <<>> THEN Nothing
  ELSE CASE kind = "optimistic" ->
              [filled |-> Filled(book, n), cost |-> Walk(book, n).cost * Scale]
         [] kind = "realistic" -> Slipped(book, n, Slip)
         [] kind = "pessimistic" /\ Len(book) >= 2 ->
              [filled |-> Filled(Tail(book), n), cost |-> Walk(Tail(book), n).cost * Scale]
         [] kind = "pessimistic" /\ Len(book) = 1 -> Slipped(book, n, ExtraSlip)

(* _consume_side: n contracts are removed from the top, whole levels and   *)
(* then part of the first that stays.                                      *)
Consume(book, n) ==
  LET held == Cumulated(book)
      gone == CHOOSE i \in 0 .. Len(book) :
                held[i] <= n /\ (i < Len(book) => n < held[i + 1])
  IN  [i \in 1 .. Len(book) - gone |->
         [price |-> book[gone + i].price,
          size  |-> IF i = 1 THEN held[gone + 1] - n ELSE book[gone + i].size]]

(* capital_locked_usd of a trade, times Scale * Scale and the two fills'   *)
(* sizes: each leg pays its average price for the smaller fill.            *)
Locked(t) ==
  t.size * (t.yes.cost * t.no.filled + t.no.cost * t.yes.filled) * (Scale + Fee)
    + Gas * Scale * Scale * t.yes.filled * t.no.filled
Payout(t) == t.size * Unit * Scale * Scale * t.yes.filled * t.no.filled

Trade(n) ==
  LET y == FillPrice(Consume(yes, consumed), n)
      x == FillPrice(Consume(no, consumed), n)
  IN  [size |-> Smaller(y.filled, x.filled), yes |-> y, no |-> x]

(* _recompute_fill: the trade is dropped when nothing fills or no profit   *)
(* is left.                                                                *)
Survives(t) == t.size > 0 /\ Payout(t) > Locked(t)

BacktestTypeOK ==
  /\ kind \in Kind
  /\ yes \in Books /\ no \in Books
  /\ pending \in Seq(Nat \ {0})
  /\ consumed \in Nat
  /\ \A k \in DOMAIN trades :
       /\ trades[k].yes.filled \in 1 .. Depth(yes) /\ trades[k].no.filled \in 1 .. Depth(no)
       /\ trades[k].size \in 1 .. Smaller(trades[k].yes.filled, trades[k].no.filled)

BacktestInit ==
  /\ kind \in Kind
  /\ yes \in Books /\ no \in Books
  /\ \E k \in 1 .. MaxTrades : pending \in [1 .. k -> 1 .. Smaller(Depth(yes), Depth(no))]
  /\ consumed = 0
  /\ trades = <<>>

(* Mutant: the size filled is left for the next opportunity of the tick.   *)
FillUncharged ==
  /\ pending # <<>>
  /\ Survives(Trade(Head(pending)))
  /\ trades' = Append(trades, Trade(Head(pending)))
  /\ pending' = Tail(pending)
  /\ UNCHANGED <<kind, yes, no, consumed>>

(* The whole size of the opportunity is charged, filled or not.            *)
Fill ==
  /\ pending # <<>>
  /\ Survives(Trade(Head(pending)))
  /\ trades' = Append(trades, Trade(Head(pending)))
  /\ consumed' = consumed + Head(pending)
  /\ pending' = Tail(pending)
  /\ UNCHANGED <<kind, yes, no>>

Drop ==
  /\ pending # <<>>
  /\ ~Survives(Trade(Head(pending)))
  /\ pending' = Tail(pending)
  /\ UNCHANGED <<kind, yes, no, consumed, trades>>

BacktestNext == Fill \/ Drop

BacktestSpec == BacktestInit /\ [][BacktestNext]_backtestVars

-----------------------------------------------------------------------------
(* Properties.                                                             *)

(* Contracts bought, by the trades up to each one and by all.              *)
Before(k) == Cumulated(trades)[k - 1]
Bought == Depth(trades)

(* What each trade is charged is no less than its contracts really cost,   *)
(* bought one after the other off the recorded book: no contract is sold   *)
(* twice, and no fill model, average over unequal legs or drop flatters    *)
(* the backtest.                                                           *)
Really(k) ==
  LET upTo(n) == Cost(yes, n) + Cost(no, n)
  IN  upTo(Before(k) + trades[k].size) - upTo(Before(k))
NeverFlatters ==
  /\ Bought <= Smaller(Depth(yes), Depth(no))
  /\ \A k \in DOMAIN trades :
       LET t == trades[k]
       IN  Locked(t) >= (Really(k) * (Scale + Fee) + Gas * Scale)
                           * Scale * t.yes.filled * t.no.filled

=============================================================================
