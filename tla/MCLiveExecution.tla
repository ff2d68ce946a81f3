--------------------------- MODULE MCLiveExecution ---------------------------
(* Three contracts a leg, a tolerance of one: a rebalance is needed when a  *)
(* leg misses two or three, and may itself be filled in parts.              *)
EXTENDS LiveExecution

=============================================================================
