SPECIFICATION BooksSpec
CONSTANTS
  Level <- MCLevel
  Depths = 2
  Unit = 20
  Scale = 20
  Fee = 1
  Gas = 6
  Part = 2
  MinSize = 4
  MaxSize = 14
  Tick = 1
  Return = 1
  Caps = {1400, 2400, 4000}
  Kind = {"optimistic", "realistic", "pessimistic"}
  Slip = 2
  ExtraSlip = 6
  MaxTrades = 2
INVARIANTS
  TypesOK
  DetectedIsWorth
  LargestFound
  NeverFlatters
CHECK_DEADLOCK FALSE
