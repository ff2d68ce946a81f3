----------------------------- MODULE KillSwitch -----------------------------
(***************************************************************************)
(* The kill switches: the orchestrator evaluates the registered rules once *)
(* a cycle, persists a trip of an enforced rule in two autocommitted SQL   *)
(* statements, reads the table once and trades only if no switch is        *)
(* tripped.  Only the reset script, a process of its own, clears a switch, *)
(* again in two statements.  The orchestrator may be killed and restarted  *)
(* between any two statements; its cooldown clocks live in memory and are  *)
(* lost, the two tables survive.                                           *)
(*                                                                         *)
(* One cycle lasts at least one poll interval: a cooldown is counted in    *)
(* elapsed intervals, so no clock is needed.                               *)
(***************************************************************************)
EXTENDS Naturals, Sequences

CONSTANTS
  Trigger,       \* the registered rules (TriggerName)
  Rules,         \* the order in which evaluate_all visits them
  Mode,          \* each rule's PolicyMode, from config.yaml
  Cooldown,      \* default_cooldown_seconds, in poll intervals
  Outside,       \* rules that read the world at once (the kill file), not a gauge
  MaxCrashes     \* bound: how often the orchestrator may be killed

ASSUME RulesAssumption == Rules \in Seq(Trigger)
ASSUME ModeAssumption == Mode \in [Trigger -> {"disabled", "observe", "enforce"}]
ASSUME CooldownAssumption == Cooldown \in Nat \ {0}
ASSUME OutsideAssumption == Outside \subseteq Trigger
ASSUME CrashAssumption == MaxCrashes \in Nat

VARIABLES
  condition,  \* what each rule would answer now: its gauge, or the kill file
  tripped,    \* kill_switch_state: the triggers with tripped = 1
  recorded,   \* kill_switch_events: triggers with an enforced event
  unreset,    \* kill_switch_events: those with one whose reset_at is NULL
  observed,   \* triggers with an observe-mode row (last_observe_at)
  pc,         \* where the orchestrator's cycle is
  next,       \* evaluate_all: index in Rules of the rule to visit
  cool,       \* memory: intervals left of each rule's cooldown
  seen,       \* history: conditions that held ever since this evaluation began
  halted,     \* memory: the answer read once a cycle
  trading,    \* memory: a fill was made in this cycle
  script,     \* the reset script: where it is, and for which trigger
  cleared,    \* history: switches the script cleared since their last trip
  crashes

tables == <<tripped, recorded, unreset, observed>>
memory == <<next, cool, seen, halted, trading>>
vars == <<condition, tables, pc, memory, script, cleared, crashes>>

Enforced == { t \in Trigger : Mode[t] = "enforce" }
NoCooldown == [t \in Trigger |-> 0]
Idle == [at |-> "idle"]
Script == {Idle} \cup [at : {"state", "events"}, trigger : Trigger]

(* Only rules in enforce mode ever reach the switches and the audit trail, *)
(* and only those in observe mode the observations (policy._handle_trip).  *)
TypeOK ==
  /\ condition \subseteq Trigger
  /\ tripped \subseteq Enforced
  /\ recorded \subseteq Enforced
  /\ unreset \subseteq Enforced
  /\ observed \subseteq { t \in Trigger : Mode[t] = "observe" }
  /\ pc \in {"down", "scan", "evaluate", "upsert", "trade"}
  /\ next \in 1 .. Len(Rules) + 1
  /\ cool \in [Trigger -> 0 .. Cooldown]
  /\ seen \subseteq Trigger
  /\ halted \in BOOLEAN
  /\ trading \in BOOLEAN
  /\ script \in Script
  /\ cleared \subseteq Trigger
  /\ crashes \in 0 .. MaxCrashes
  /\ pc = "upsert" => next <= Len(Rules) /\ Rules[next] \in Enforced

Init ==
  /\ condition \in SUBSET Trigger
  /\ tripped = {} /\ recorded = {} /\ unreset = {} /\ observed = {}
  /\ pc = "down"
  /\ next = 1 /\ cool = NoCooldown /\ seen = {}
  /\ halted = FALSE /\ trading = FALSE
  /\ script = Idle
  /\ cleared = {}
  /\ crashes = 0

(***************************************************************************)
(* The orchestrator.                                                       *)
(***************************************************************************)

(* run() up to its loop: perform_recovery only reads the tables, and an    *)
(* unsafe report only sends an alert; the loop is entered either way.      *)
Start ==
  /\ pc = "down"
  /\ pc' = "scan"
  /\ UNCHANGED <<condition, tables, memory, script, cleared, crashes>>

(* Fetching and detection are over: evaluate_all takes its `now` and turns *)
(* to the first rule.                                                      *)
BeginEvaluation ==
  /\ pc = "scan"
  /\ pc' = "evaluate"
  /\ next' = 1
  /\ seen' = condition
  /\ UNCHANGED <<condition, tables, cool, halted, trading, script, cleared, crashes>>

Visited(t) == pc = "evaluate" /\ next <= Len(Rules) /\ Rules[next] = t

(* Mutant: one cooldown for the whole engine.                              *)
AnyInCooldown(t) == \E u \in Trigger : cool[u] > 0

InCooldown(t) == cool[t] > 0

(* Mutant: a rule that answers OK clears its switch.                       *)
PassRuleAutoClears(t) ==
  /\ Visited(t)
  /\ Mode[t] = "disabled" \/ InCooldown(t) \/ t \notin condition
  /\ next' = next + 1
  /\ tripped' = IF t \in condition THEN tripped ELSE tripped \ {t}
  /\ UNCHANGED <<condition, recorded, unreset, observed, pc, cool, seen, halted, trading,
                 script, cleared, crashes>>

(* A disabled rule, a rule in cooldown, or a rule that answers OK.         *)
PassRule(t) ==
  /\ Visited(t)
  /\ Mode[t] = "disabled" \/ InCooldown(t) \/ t \notin condition
  /\ next' = next + 1
  /\ UNCHANGED <<condition, tables, pc, cool, seen, halted, trading, script,
                 cleared, crashes>>

Trips(t) ==
  /\ Visited(t)
  /\ Mode[t] # "disabled" /\ ~InCooldown(t)
  /\ t \in condition

(* kill_switch_record_observation: a row of each table, never `tripped`.   *)
ObserveTrip(t) ==
  /\ Trips(t)
  /\ Mode[t] = "observe"
  /\ observed' = observed \cup {t}
  /\ cool' = [cool EXCEPT ![t] = Cooldown]
  /\ next' = next + 1
  /\ UNCHANGED <<condition, tripped, recorded, unreset, pc, seen, halted, trading,
                 script, cleared, crashes>>

(* Mutant: the switch is upserted before its event is inserted.            *)
EnforceStateFirst(t) ==
  /\ Trips(t)
  /\ Mode[t] = "enforce"
  /\ tripped' = tripped \cup {t}
  /\ pc' = "upsert"
  /\ UNCHANGED <<condition, recorded, unreset, observed, memory, script, cleared, crashes>>

(* Mutant: the mode is not looked at, an observed rule is enforced.        *)
EnforceAnyMode(t) ==
  /\ Trips(t)
  /\ recorded' = recorded \cup {t}
  /\ unreset' = unreset \cup {t}
  /\ pc' = "upsert"
  /\ UNCHANGED <<condition, tripped, observed, memory, script, cleared, crashes>>

(* kill_switch_enforce, first statement: the event is inserted.            *)
EnforceRecord(t) ==
  /\ Trips(t)
  /\ Mode[t] = "enforce"
  /\ recorded' = recorded \cup {t}
  /\ unreset' = unreset \cup {t}
  /\ pc' = "upsert"
  /\ UNCHANGED <<condition, tripped, observed, memory, script, cleared, crashes>>

(* kill_switch_enforce, second statement: the switch is upserted; back in  *)
(* _handle_trip the rule's cooldown starts.                                *)
EnforceTrip ==
  /\ pc = "upsert"
  /\ LET t == Rules[next] IN
       /\ tripped' = tripped \cup {t}
       /\ cool' = [cool EXCEPT ![t] = Cooldown]
       /\ cleared' = cleared \ {t}
  /\ next' = next + 1
  /\ pc' = "evaluate"
  /\ UNCHANGED <<condition, recorded, unreset, observed, seen, halted, trading, script,
                 crashes>>

(* Mutant: only the trips of this evaluation halt, not the table.          *)
DecideOnNewTrips ==
  /\ pc = "evaluate"
  /\ next > Len(Rules)
  /\ halted' = \E t \in tripped : cool[t] = Cooldown
  /\ pc' = "trade"
  /\ UNCHANGED <<condition, tables, next, cool, seen, trading, script, cleared, crashes>>

(* any_kill_switch_tripped, read once: the rest of the cycle relies on it. *)
Decide ==
  /\ pc = "evaluate"
  /\ next > Len(Rules)
  /\ halted' = (tripped # {})
  /\ pc' = "trade"
  /\ UNCHANGED <<condition, tables, next, cool, seen, trading, script, cleared, crashes>>

Fill ==
  /\ pc = "trade"
  /\ ~halted
  /\ trading' = TRUE
  /\ UNCHANGED <<condition, tables, pc, next, cool, seen, halted, script, cleared, crashes>>

(* Mutant: a cooldown never ends.                                          *)
EndCycleFrozenCooldown ==
  /\ pc = "trade"
  /\ pc' = "scan"
  /\ trading' = FALSE
  /\ UNCHANGED <<condition, tables, next, cool, seen, halted, script, cleared, crashes>>

(* The sleep up to the next poll, and longer when the fetch is slow.       *)
EndCycle ==
  /\ pc = "trade"
  /\ \E elapsed \in 1 .. Cooldown :
       cool' = [t \in Trigger |-> IF cool[t] > elapsed THEN cool[t] - elapsed ELSE 0]
  /\ pc' = "scan"
  /\ trading' = FALSE
  /\ UNCHANGED <<condition, tables, next, seen, halted, script, cleared, crashes>>

(* kill -9, an escaping exception or a stop: memory is gone.               *)
Crash ==
  /\ pc # "down"
  /\ crashes < MaxCrashes
  /\ crashes' = crashes + 1
  /\ pc' = "down"
  /\ next' = 1 /\ cool' = NoCooldown /\ seen' = {}
  /\ halted' = FALSE /\ trading' = FALSE
  /\ UNCHANGED <<condition, tables, script, cleared>>

(***************************************************************************)
(* The reset script (kill_switch_reset) and the world.                     *)
(***************************************************************************)

(* It reads the row; a clear or unknown trigger ends it with False.  The   *)
(* operator may reset a switch whose condition has not subsided.           *)
ResetRead(t) ==
  /\ script = Idle
  /\ t \in tripped
  /\ script' = [at |-> "state", trigger |-> t]
  /\ UNCHANGED <<condition, tables, pc, memory, cleared, crashes>>

ResetState ==
  /\ script.at = "state"
  /\ tripped' = tripped \ {script.trigger}
  /\ cleared' = cleared \cup {script.trigger}
  /\ script' = [script EXCEPT !.at = "events"]
  /\ UNCHANGED <<condition, recorded, unreset, observed, pc, memory, crashes>>

ResetEvents ==
  /\ script.at = "events"
  /\ unreset' = unreset \ {script.trigger}
  /\ script' = Idle
  /\ UNCHANGED <<condition, tripped, recorded, observed, pc, memory, cleared, crashes>>

(* The script is killed between its statements.                            *)
ResetDies ==
  /\ script # Idle
  /\ script' = Idle
  /\ UNCHANGED <<condition, tables, pc, memory, cleared, crashes>>

(* A gauge is set while the orchestrator scans, before the evaluation; the *)
(* kill file comes and goes at any time.                                   *)
Changeable(t) == t \in Outside \/ pc \in {"down", "scan"}

Arises(t) ==
  /\ Changeable(t)
  /\ t \notin condition
  /\ condition' = condition \cup {t}
  /\ UNCHANGED <<tables, pc, memory, script, cleared, crashes>>

Subsides(t) ==
  /\ Changeable(t)
  /\ t \in condition
  /\ condition' = condition \ {t}
  /\ seen' = seen \ {t}
  /\ UNCHANGED <<tables, pc, next, cool, halted, trading, script, cleared, crashes>>

Orchestrator ==
  \/ Start
  \/ BeginEvaluation
  \/ \E t \in Trigger : PassRule(t) \/ ObserveTrip(t) \/ EnforceRecord(t)
  \/ EnforceTrip
  \/ Decide
  \/ EndCycle

ResetScript ==
  \/ \E t \in Trigger : ResetRead(t)
  \/ ResetState
  \/ ResetEvents
  \/ ResetDies

Environment == Crash \/ \E t \in Trigger : Arises(t) \/ Subsides(t)

Next == Orchestrator \/ Fill \/ ResetScript \/ Environment

Spec == Init /\ [][Next]_vars

(* The service manager restarts the process and the loop never blocks for  *)
(* good: every await in it has a timeout.  Fill is not fair (there may be  *)
(* nothing to buy), nor are the operator, the world or crashes.            *)
FairSpec == Spec /\ WF_vars(Orchestrator)

-----------------------------------------------------------------------------
(* Properties.                                                             *)

(* No fill happens while any switch is tripped, although the table is read *)
(* once a cycle and the reset script runs beside the loop (main.run).      *)
NoFillWhileTripped == [][Fill => tripped = {}]_vars

(* A tripped switch is cleared by nothing but the reset script: not by a   *)
(* restart, a later OK of its rule or an observation (runbook section 6).  *)
OnlyOperatorClears ==
  [][tripped \ tripped' # {} =>
       /\ script.at = "state"
       /\ tripped \ tripped' = {script.trigger}]_vars

(* Whatever is killed where, a tripped switch has an enforced event in the *)
(* audit trail (kill_switch_enforce writes the event first).               *)
TripIsRecorded == tripped \subseteq recorded

(* Trading goes on under an enforced condition that held throughout the    *)
(* evaluation only in the cooldown that follows an operator's reset.       *)
Evaluated == pc = "trade"
MissedOnlyAfterReset ==
  Evaluated /\ ~halted =>
    \A t \in seen : t \in { Rules[i] : i \in DOMAIN Rules } /\ Mode[t] = "enforce" =>
      cool[t] > 0 /\ t \in cleared

(* An enforced condition that stays is enforced again and again: no reset, *)
(* cooldown or restart makes the engine forget it for good.                *)
ConditionHalts ==
  \A t \in { Rules[i] : i \in DOMAIN Rules } :
    Mode[t] = "enforce" => (<>[](t \in condition) => []<>(t \in tripped))

=============================================================================
