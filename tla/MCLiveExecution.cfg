SPECIFICATION FairSpec
CONSTANTS
  Size = 3
  MaxImbalance = 1
  MaxRetries = 2
  MaxExecutions = 2
INVARIANTS
  TypeOK
  OutcomeIsTrue
  NeverBeyondAllocation
  ExposureIsBounded
PROPERTY
  ExecutionEnds
CHECK_DEADLOCK FALSE
