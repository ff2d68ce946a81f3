------------------------------ MODULE OrderBook ------------------------------
(***************************************************************************)
(* The ask side of an order book: levels, best first, and what walking     *)
(* them costs.  Prices are whole units.  Sizes are Decimals, and may end   *)
(* within a contract: they are counted in parts of one, every n below is a *)
(* number of parts, and so is money, in units of price for a part.  What n *)
(* parts cost is kept as a sum, the code's weighted price is its average.  *)
(***************************************************************************)
EXTENDS Integers, Sequences

CONSTANTS
  Level,  \* the levels considered: [price, size]
  Depths, \* bound on the levels of a book
  Unit,   \* price units in a dollar
  Scale,  \* parts fees, slippage and returns are counted in
  Fee,    \* fee, in parts of Scale
  Gas     \* gas_cost_usd

ASSUME LevelAssumption == Level \subseteq [price : Nat, size : Nat \ {0}]
ASSUME DepthAssumption == Depths \in Nat \ {0}
ASSUME MoneyAssumption == Unit \in Nat /\ Scale \in Nat \ {0} /\ Fee \in Nat /\ Gas \in Nat

VARIABLES
  yes, no  \* the asks of the two legs of a trade; of a cross pair, Kalshi's is the second

Smaller(a, b) == IF a < b THEN a ELSE b

(* Asks of at most Depths levels, sorted as the fetchers sort them.        *)
Sorted(book) == \A i, j \in DOMAIN book : i < j => book[i].price <= book[j].price
Books == { b \in UNION { [1 .. k -> Level] : k \in 1 .. Depths } : Sorted(b) }

(* The levels up to each one, or trades, hold this much.                   *)
Cumulated(book) ==
  LET held[i \in 0 .. Len(book)] == IF i = 0 THEN 0 ELSE held[i - 1] + book[i].size
  IN  held
Depth(book) == Cumulated(book)[Len(book)]

(* Mutant: everything is bought at the best price.                         *)
WalkAtBest(book, n) ==
  LET walk[i \in 0 .. Len(book)] ==
        IF i = 0 THEN [left |-> n, cost |-> 0]
        ELSE LET before == walk[i - 1]
                 take   == Smaller(book[i].size, before.left)
             IN  [left |-> before.left - take, cost |-> before.cost + take * book[1].price]
  IN  walk[Len(book)]

(* weighted_fill_price: n parts are taken level by level; what they cost,  *)
(* and how many the book does not have.                                    *)
Walk(book, n) ==
  LET walk[i \in 0 .. Len(book)] ==
        IF i = 0 THEN [left |-> n, cost |-> 0]
        ELSE LET before == walk[i - 1]
                 take   == Smaller(book[i].size, before.left)
             IN  [left |-> before.left - take, cost |-> before.cost + take * book[i].price]
  IN  walk[Len(book)]

Filled(book, n) == n - Walk(book, n).left

(* For the properties: what the k-th part costs, and the first n.          *)
Price(book, k) ==
  book[CHOOSE i \in DOMAIN book : Cumulated(book)[i - 1] < k /\ k <= Cumulated(book)[i]].price
Cost(book, n) ==
  LET cost[k \in 0 .. Depth(book)] == IF k = 0 THEN 0 ELSE cost[k - 1] + Price(book, k)
  IN  cost[n]

=============================================================================
