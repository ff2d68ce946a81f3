SPECIFICATION Spec
CONSTANTS
  hedged = hedged
  cross = cross
  convergence = convergence
  p1 = p1
  k1 = k1
  NoPosition = NoPosition
  Position = {hedged, cross, convergence}
  Market = {p1, k1}
  Strategy <- MCStrategy
  First <- MCFirst
  Second <- MCSecond
  Buys <- MCBuys
  PlatformOf <- MCPlatformOf
  MaxCrashes = 1
INVARIANTS
  ProbedPnlIsTrue
PROPERTIES
  SettledOnce
CHECK_DEADLOCK FALSE
