---------------------------- MODULE MCMonitoring ----------------------------
(* Two platforms with a market each; a mid that moves by 10 or 30 cents.   *)
EXTENDS Monitoring

CONSTANTS polymarket, kalshi, p1, k1

MCPlatformOf == [m \in Market |-> IF m = p1 THEN polymarket ELSE kalshi]

=============================================================================
