SPECIFICATION GaugesSpec
CONSTANTS
  polymarket = polymarket
  kalshi = kalshi
  p1 = p1
  k1 = k1
  NoMid = NoMid
  Platform = {polymarket, kalshi}
  Market = {p1, k1}
  PlatformOf <- MCPlatformOf
  Mid = {50, 70}
  MaxSilence = 2
  MaxJump = 20
  Window = 2
  MaxFailures = 1
  ProbeCycles = 3
  MaxGap = 2
  MaxTime = 5
INVARIANTS
  GaugesTypeOK
  SilenceTrips
  RateIsExact
  TroubleIsSeen
