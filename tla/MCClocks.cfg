SPECIFICATION ClocksSpec
CONSTANTS
  MaxTime = 5
  Caller = {c1, c2}
  Cost = 3
  Rate = 2
  Burst = 7
  MaxAlerts = 2
  Hour = 1
  MaxPerTime = 2
  Opp = {"intra", "cross"}
  Tags <- MCTags
  Threshold = 1
  MaxAge = 3
  Windows <- MCWindows
  News <- MCNews
  Listings <- MCListings
  MinAge = 2
  MinDays <- MCMinDays
  MinFills <- MCMinFills
  MinCoverage <- MCMinCoverage
  Coverages = {0, 1}
  MaxFills = 2
  Operator = {p1, p2}
  Hours <- MCHours
  Day = 1
INVARIANTS
  TypesOK
  RateRespected
  AlertsLimited
  AgeIsJudged
  GateIsEarned
  OnIsGranted
