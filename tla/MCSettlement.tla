---------------------------- MODULE MCSettlement ----------------------------
(* A position of each strategy, sharing a market on either exchange.       *)
EXTENDS Settlement

CONSTANTS hedged, cross, convergence, p1, k1

MCStrategy == [p \in Position |->
  IF p = hedged THEN "intra_market"
  ELSE IF p = cross THEN "cross_market" ELSE "resolution_convergence"]
MCFirst == [p \in Position |-> IF p = convergence THEN k1 ELSE p1]
MCSecond == [p \in Position |-> k1]
MCBuys == [p \in Position |-> "yes"]
MCPlatformOf == [m \in Market |-> IF m = k1 THEN "kalshi" ELSE "polymarket"]

=============================================================================
