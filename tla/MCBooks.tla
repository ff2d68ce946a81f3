------------------------------- MODULE MCBooks -------------------------------
(* What is computed from two order books: the size of a trade, and a        *)
(* backtest's fills.  A behaviour is about one of the two, chosen at the    *)
(* start.  Twenty units to the dollar: pairs cost from eight to twenty-two, *)
(* so that small sizes fail for their gas, large ones for the depth of the  *)
(* book, or none.  Books have one or two levels, some of half contracts:    *)
(* two parts are one; and a market up to two opportunities in one tick.     *)
EXTENDS Sizing, Backtest, SequencesExt

VARIABLE part

MCLevel == [price : {4, 8, 9, 11}, size : {2, 5, 8}]
RecordedLevel == [price : {4, 8, 11}, size : {2, 5}]
Recorded(book) == ToSet(book) \subseteq RecordedLevel

sizing == <<strategy, cap, pc, lo, hi, best, detected>>
filling == <<kind, pending, consumed, trades>>

SizingStarts ==
  /\ Init
  /\ kind = "optimistic" /\ pending = <<>> /\ consumed = 0 /\ trades = <<>>

FillingStarts ==
  /\ BacktestInit
  /\ Recorded(yes) /\ Recorded(no)
  /\ strategy = "intra" /\ cap \in Caps
  /\ pc = "max" /\ lo = 0 /\ hi = 0 /\ best = 0 /\ detected = 0
  /\ \A other \in Caps : cap <= other

BooksInit ==
  \/ part = "sizing" /\ SizingStarts
  \/ part = "filling" /\ FillingStarts

BooksNext ==
  /\ UNCHANGED part
  /\ \/ part = "sizing" /\ Next /\ UNCHANGED filling
     \/ part = "filling" /\ BacktestNext /\ UNCHANGED sizing

booksVars == <<part, yes, no, sizing, filling>>
BooksSpec == BooksInit /\ [][BooksNext]_booksVars

(* Types: the type invariants of the two.                                   *)
TypesOK == TypeOK /\ BacktestTypeOK

=============================================================================
