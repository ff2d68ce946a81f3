---------------------------- MODULE CapitalUnits ----------------------------
(***************************************************************************)
(* Capital, or anything else that is counted, as a set of units.  A        *)
(* function f from holders to amounts of at most max is turned into the    *)
(* set of the units it hands out, so that the sum of the amounts is a      *)
(* cardinality.                                                            *)
(***************************************************************************)
EXTENDS Integers, FiniteSets

Units(S, max, f) == { u \in S \X (1 .. max) : u[2] <= f[u[1]] }

Held(S, max, f) == Cardinality(Units(S, max, f))

=============================================================================
