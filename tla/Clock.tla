-------------------------------- MODULE Clock --------------------------------
(***************************************************************************)
(* The clock that limits, windows and expiries are read from: time passes  *)
(* between the steps of a program that asks for it, in whole units.        *)
(***************************************************************************)
EXTENDS Integers

CONSTANT MaxTime   \* bound on the clock

ASSUME TimeAssumption == MaxTime \in Nat

VARIABLE now

Time == 0 .. MaxTime
Never == -1

ClockInit == now = 0

(* Time passes, and nothing else happens.                                  *)
Passes == now < MaxTime /\ now' = now + 1

=============================================================================
