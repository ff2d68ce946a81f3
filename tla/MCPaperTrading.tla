--------------------------- MODULE MCPaperTrading ---------------------------
(* Two markets of one event and a third of another.                        *)
EXTENDS PaperTrading

CONSTANTS m1, m2, m3, e1, e2

MCEventOf == [m \in Market |-> IF m = m3 THEN e2 ELSE e1]

=============================================================================
