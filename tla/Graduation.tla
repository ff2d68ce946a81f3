------------------------------ MODULE Graduation ------------------------------
(***************************************************************************)
(* The three gates of live trading.  The orchestrator owns a GateState:    *)
(* the gate, when it was entered, the fills made there and the calibration *)
(* coverage measured there.  Every change is made in memory, then the      *)
(* whole state is written to the one row of gate_state, from which a       *)
(* restart reads it.  The gate goes up when evaluate_for_graduation says   *)
(* so; it goes down by an operator's hand alone, on the row of an           *)
(* orchestrator that is stopped.                                           *)
(***************************************************************************)
EXTENDS Clock

CONSTANTS
  MinDays,      \* min_days_at_gate of each gate that can be left
  MinFills,     \* min_successful_fills
  MinCoverage,  \* min_calibration_coverage, Never for None
  Coverages,    \* the coverages considered
  MaxFills      \* bound on the fills at a gate

Gate == 1 .. 3

Lesser(a, b) == IF a < b THEN a ELSE b

ASSUME GateAssumption ==
  /\ MinDays \in [1 .. 2 -> Nat] /\ MinFills \in [1 .. 2 -> Nat]
  /\ MinCoverage \in [1 .. 2 -> Nat \cup {Never}]
  /\ Coverages \subseteq Nat /\ MaxFills \in Nat

VARIABLES
  row,      \* gate_state: a GateState, or NoState
  state,    \* the orchestrator's GateState, or NoState while it is down
  written,  \* whether _persist was reached since the last change
  truth,    \* history: at the gates of the state and the row, the fills really
            \* made, since when, and whether a measured coverage was good enough
  given,    \* history: the gate the operator gave last
  earned    \* history: gates left since then as their conditions ask

gateHistory == <<truth, given, earned>>
gateVars == <<now, row, state, written, gateHistory>>

GateState == [gate : Gate, entered : Time, fills : 0 .. MaxFills, coverage : Coverages \cup {Never}]
NoState == [gate |-> 0]
Entered(gate) == [gate |-> gate, entered |-> now, fills |-> 0, coverage |-> Never]

Running == state # NoState

(* History: a gate nothing happened at, and the gates but one forgotten.   *)
Fresh(since) == [made |-> 0, since |-> since, calibrated |-> FALSE]
Only(gate, facts) == [g \in Gate |-> IF g = gate THEN facts ELSE Fresh(0)]

GateTypeOK ==
  /\ now \in Time
  /\ row \in GateState \cup {NoState}
  /\ state \in GateState \cup {NoState}
  /\ written \in BOOLEAN
  /\ truth \in [Gate -> [made : Nat, since : Time, calibrated : BOOLEAN]]
  /\ given \in Gate /\ earned \subseteq 1 .. 2

GateInit ==
  /\ ClockInit
  /\ row = NoState /\ state = NoState /\ written = TRUE
  /\ truth = Only(1, Fresh(0))
  /\ given = 1 /\ earned = {}

GateTick == Passes /\ UNCHANGED <<row, state, written, gateHistory>>

LoadOrInit ==
  /\ ~Running
  /\ IF row = NoState
     THEN row' = Entered(1) /\ truth' = Only(1, Fresh(now))
     ELSE UNCHANGED <<row, truth>>
  /\ state' = row'
  /\ UNCHANGED <<now, written, given, earned>>

(* record_fill, after a fill.                                              *)
RecordFill ==
  /\ Running /\ written
  /\ state.fills < MaxFills
  /\ state' = [state EXCEPT !.fills = @ + 1]
  /\ truth' = [truth EXCEPT ![state.gate].made = Lesser(@ + 1, MaxFills)]
  /\ written' = FALSE
  /\ UNCHANGED <<now, row, given, earned>>

Good(coverage, gate) ==
  MinCoverage[gate] # Never => coverage # Never /\ coverage >= MinCoverage[gate]

(* set_calibration_coverage, with what calibration_coverage_in_window      *)
(* finds among the resolved execution records.                             *)
SetCoverage(coverage) ==
  /\ Running /\ written
  /\ state' = [state EXCEPT !.coverage = coverage]
  /\ truth' = [truth EXCEPT ![state.gate].calibrated = @ \/ (state.gate < 3 /\ Good(coverage, state.gate))]
  /\ written' = FALSE
  /\ UNCHANGED <<now, row, given, earned>>

(* evaluate_for_graduation.                                                *)
Satisfied ==
  /\ state.gate < 3
  /\ now - state.entered >= MinDays[state.gate]
  /\ state.fills >= MinFills[state.gate]
  /\ Good(state.coverage, state.gate)

(* By the history: what the gate that is left asks for really happened.    *)
Earned(gate) ==
  /\ now - truth[gate].since >= MinDays[gate]
  /\ truth[gate].made >= MinFills[gate]
  /\ truth[gate].calibrated \/ MinCoverage[gate] = Never

Leaves(gate) ==
  /\ earned' = IF Earned(gate) THEN earned \cup {gate} ELSE earned \ {gate}
  /\ truth' = [truth EXCEPT ![gate + 1] = Fresh(now)]

(* Mutant: the fills of the gate that is left still count.                 *)
AdvanceKeepsFills ==
  /\ Running /\ written
  /\ Satisfied
  /\ state' = [Entered(state.gate + 1) EXCEPT !.fills = state.fills]
  /\ written' = FALSE
  /\ Leaves(state.gate)
  /\ UNCHANGED <<now, row, given>>

(* advance_to the gate the evaluation returned.                            *)
Advance ==
  /\ Running /\ written
  /\ Satisfied
  /\ state' = Entered(state.gate + 1)
  /\ written' = FALSE
  /\ Leaves(state.gate)
  /\ UNCHANGED <<now, row, given>>

(* _persist: save_gate_state writes the row whole; when it raises, the     *)
(* change stays in memory until the next one is written.                   *)
Persist(fails) ==
  /\ Running /\ ~written
  /\ row' = IF fails THEN row ELSE state
  /\ truth' = IF fails THEN truth ELSE Only(state.gate, truth[state.gate])
  /\ written' = TRUE
  /\ UNCHANGED <<now, state, given, earned>>

GateCrash ==
  /\ Running
  /\ state' = NoState /\ written' = TRUE
  /\ UNCHANGED <<now, row, gateHistory>>

(* "A manual restart at gate 2" (gates.py:17), or at any gate.             *)
OperatorGives(gate) ==
  /\ ~Running /\ row # NoState
  /\ row' = Entered(gate)
  /\ truth' = Only(gate, Fresh(now))
  /\ given' = gate /\ earned' = {}
  /\ UNCHANGED <<now, state, written>>

GateNext ==
  \/ GateTick
  \/ LoadOrInit \/ RecordFill \/ Advance \/ GateCrash
  \/ \E coverage \in Coverages : SetCoverage(coverage)
  \/ \E fails \in BOOLEAN : Persist(fails)
  \/ \E gate \in Gate : OperatorGives(gate)

GateSpec == GateInit /\ [][GateNext]_gateVars

-----------------------------------------------------------------------------
(* Properties.                                                             *)

(* Across restarts, writes that fail or are lost, and gates entered and    *)
(* forgotten again, the gate an orchestrator trades at is never below the  *)
(* one the operator gave last, and every gate in between was left for the  *)
(* fills and days it asks for, made since it was entered, and for a        *)
(* coverage measured there (gates.py:4 and :16).                           *)
GateIsEarned ==
  Running => given <= state.gate /\ \A gate \in given .. state.gate - 1 : gate \in earned

=============================================================================
