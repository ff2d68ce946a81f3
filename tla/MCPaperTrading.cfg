SPECIFICATION FairSpec
CONSTANTS
  m1 = m1
  m2 = m2
  m3 = m3
  e1 = e1
  e2 = e2
  Market = {m1, m2, m3}
  Event = {e1, e2}
  EventOf <- MCEventOf
  Total = 3
  MaxPerTrade = 2
  MaxPerEvent = 2
  MaxOffer = 3
  MaxCycles = 2
  MaxCrashes = 1
INVARIANTS
  TypeOK
  ReconcilesClean
  EventCapPerCycle
PROPERTIES
  ImplementsBudget
  DueIsResolved
