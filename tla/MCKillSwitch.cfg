SPECIFICATION FairSpec
CONSTANTS
  manual = manual
  daily_loss_exceeded = daily_loss_exceeded
  abnormal_price_jump = abnormal_price_jump
  Trigger = {manual, daily_loss_exceeded, abnormal_price_jump}
  Rules <- MCRules
  Mode <- MCMode
  Outside = {manual}
  Cooldown = 2
  MaxCrashes = 1
INVARIANTS
  TypeOK
  TripIsRecorded
  MissedOnlyAfterReset
PROPERTIES
  NoFillWhileTripped
  OnlyOperatorClears
  ConditionHalts
