---------------------------- MODULE MCKillSwitch ----------------------------
(* Three rules, one of each kind that config.yaml has: the kill file and   *)
(* the daily loss are enforced, the price jump only observed.              *)
EXTENDS KillSwitch

CONSTANTS manual, daily_loss_exceeded, abnormal_price_jump

MCRules == <<daily_loss_exceeded, abnormal_price_jump, manual>>
MCMode ==
  [t \in Trigger |-> IF t = abnormal_price_jump THEN "observe" ELSE "enforce"]

=============================================================================
