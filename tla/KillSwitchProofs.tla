-------------------------- MODULE KillSwitchProofs --------------------------
(***************************************************************************)
(* The safety properties of KillSwitch for any set of rules, any modes,    *)
(* any cooldown and any number of crashes.                                 *)
(***************************************************************************)
EXTENDS KillSwitch, TLAPS

(* What the single read of the table is worth for the rest of the cycle.   *)
ReadIsSafe == pc = "trade" /\ ~halted => tripped = {}

(* Between its two statements, an enforcement has its event already.       *)
EventFirst ==
  /\ TripIsRecorded
  /\ pc = "upsert" => Rules[next] \in recorded

(* A cooldown that runs while the switch is clear was left by a reset.     *)
CoolingIsTrippedOrCleared ==
  \A t \in Trigger :
    Mode[t] = "enforce" /\ InCooldown(t) => t \in tripped \/ t \in cleared

(* Each rule visited so far whose condition still holds has a cooldown.    *)
VisitedRulesCool ==
  /\ seen \subseteq condition
  /\ pc = "trade" => next > Len(Rules)
  /\ pc \in {"evaluate", "upsert", "trade"} =>
       \A i \in 1 .. Len(Rules) :
         i < next /\ Rules[i] \in seen /\ Mode[Rules[i]] = "enforce" =>
           InCooldown(Rules[i])

IInv ==
  TypeOK /\ ReadIsSafe /\ EventFirst /\ CoolingIsTrippedOrCleared /\ VisitedRulesCool

-----------------------------------------------------------------------------

LEMMA RulesRange == \A i \in 1 .. Len(Rules) : Rules[i] \in Trigger
  BY RulesAssumption

LEMMA NoCooldownType ==
  /\ NoCooldown \in [Trigger -> 0 .. Cooldown]
  /\ 1 \in 1 .. Len(Rules) + 1
  BY RulesAssumption, CooldownAssumption DEF NoCooldown

(* Every step keeps the state well typed.                                  *)
LEMMA TypeStep == TypeOK /\ [Next]_vars => TypeOK'
<1> SUFFICES ASSUME TypeOK, [Next]_vars PROVE TypeOK'
  OBVIOUS
<1> USE RulesAssumption, CooldownAssumption, CrashAssumption DEF TypeOK, Enforced
<1>1. CASE Start
  BY <1>1 DEF Start, tables, memory
<1>2. CASE BeginEvaluation
  BY <1>2 DEF BeginEvaluation, tables
<1>3. ASSUME NEW t \in Trigger, PassRule(t) PROVE TypeOK'
  BY <1>3 DEF PassRule, Visited, tables
<1>4. ASSUME NEW t \in Trigger, ObserveTrip(t) PROVE TypeOK'
  BY <1>4 DEF ObserveTrip, Trips, Visited
<1>5. ASSUME NEW t \in Trigger, EnforceRecord(t) PROVE TypeOK'
  BY <1>5 DEF EnforceRecord, Trips, Visited, memory
<1>6. CASE EnforceTrip
  BY <1>6, RulesRange DEF EnforceTrip
<1>7. CASE Decide
  BY <1>7 DEF Decide, tables
<1>8. CASE EndCycle
  <2>1. PICK elapsed \in 1 .. Cooldown :
          cool' = [t \in Trigger |-> IF cool[t] > elapsed THEN cool[t] - elapsed ELSE 0]
    BY <1>8 DEF EndCycle
  <2>2. cool' \in [Trigger -> 0 .. Cooldown]
    BY <2>1
  <2> QED
    BY <1>8, <2>2 DEF EndCycle, tables
<1>9. CASE Fill
  BY <1>9 DEF Fill, tables
<1>10. CASE ResetScript
  <2> USE DEF Script, Idle, tables, memory
  <2>1. ASSUME NEW t \in Trigger, ResetRead(t) PROVE TypeOK'
    BY <2>1 DEF ResetRead
  <2>2. CASE ResetState
    BY <2>2 DEF ResetState
  <2>3. CASE ResetEvents
    BY <2>3 DEF ResetEvents
  <2>4. CASE ResetDies
    BY <2>4 DEF ResetDies
  <2> QED
    BY <1>10, <2>1, <2>2, <2>3, <2>4 DEF ResetScript
<1>11. CASE Crash
  <2>1. crashes' \in 0 .. MaxCrashes
    BY <1>11 DEF Crash
  <2>2. next' \in 1 .. Len(Rules) + 1 /\ cool' \in [Trigger -> 0 .. Cooldown]
    BY <1>11, NoCooldownType DEF Crash
  <2> QED
    BY <1>11, <2>1, <2>2 DEF Crash, tables
<1>12. ASSUME NEW t \in Trigger, Arises(t) \/ Subsides(t) PROVE TypeOK'
  BY <1>12 DEF Arises, Subsides, tables, memory
<1>13. CASE UNCHANGED vars
  BY <1>13 DEF vars, tables, memory
<1> QED
  BY <1>1, <1>2, <1>3, <1>4, <1>5, <1>6, <1>7, <1>8, <1>9, <1>10, <1>11, <1>12, <1>13
  DEF Next, Orchestrator, Environment

LEMMA InitIInv == Init => IInv
<1> SUFFICES ASSUME Init PROVE IInv
  OBVIOUS
<1>1. TypeOK
  <2>1. script \in Script /\ crashes \in 0 .. MaxCrashes
    BY CrashAssumption DEF Init, Script
  <2>2. next \in 1 .. Len(Rules) + 1 /\ cool \in [Trigger -> 0 .. Cooldown]
    BY NoCooldownType DEF Init
  <2> QED
    BY <2>1, <2>2 DEF Init, TypeOK
<1>2. ReadIsSafe /\ EventFirst /\ VisitedRulesCool
  BY DEF Init, ReadIsSafe, EventFirst, TripIsRecorded, VisitedRulesCool
<1>3. CoolingIsTrippedOrCleared
  BY DEF Init, CoolingIsTrippedOrCleared, InCooldown, NoCooldown
<1> QED
  BY <1>1, <1>2, <1>3 DEF IInv

(* The four parts of the invariant are kept together: the read is safe     *)
(* because nothing trips a switch between it and the next evaluation.      *)
LEMMA IInvStep == IInv /\ [Next]_vars => IInv'
<1> SUFFICES ASSUME IInv, [Next]_vars PROVE IInv'
  OBVIOUS
<1> USE RulesAssumption, CooldownAssumption
    DEF IInv, ReadIsSafe, EventFirst, TripIsRecorded, CoolingIsTrippedOrCleared,
        VisitedRulesCool, InCooldown
<1>0. TypeOK'
  BY TypeStep
<1>1. CASE Start
  BY <1>0, <1>1 DEF Start, tables, memory
<1>2. CASE BeginEvaluation
  BY <1>0, <1>2 DEF BeginEvaluation, tables
<1>3. ASSUME NEW t \in Trigger, PassRule(t) PROVE IInv'
  BY <1>0, <1>3 DEF PassRule, Visited, tables, TypeOK
<1>4. ASSUME NEW t \in Trigger, ObserveTrip(t) PROVE IInv'
  BY <1>0, <1>4 DEF ObserveTrip, Trips, Visited, TypeOK
<1>5. ASSUME NEW t \in Trigger, EnforceRecord(t) PROVE IInv'
  BY <1>0, <1>5 DEF EnforceRecord, Trips, Visited, memory, TypeOK
<1>6. CASE EnforceTrip
  <2> DEFINE t == Rules[next]
  <2>1. t \in Trigger /\ next \in 1 .. Len(Rules) /\ next' = next + 1
    BY <1>6, RulesRange DEF EnforceTrip, TypeOK
  <2>2. /\ tripped' = tripped \cup {t} /\ cleared' = cleared \ {t}
        /\ cool' = [cool EXCEPT ![t] = Cooldown]
        /\ pc' = "evaluate"
        /\ UNCHANGED <<condition, recorded, seen>>
    BY <1>6 DEF EnforceTrip
  <2>3. EventFirst'
    BY <1>6, <2>2 DEF EnforceTrip
  <2>4. CoolingIsTrippedOrCleared'
    BY <2>1, <2>2 DEF TypeOK
  <2>5. ASSUME NEW i \in 1 .. Len(Rules), i < next', Rules[i] \in seen,
               Mode[Rules[i]] = "enforce"
        PROVE  cool'[Rules[i]] > 0
    BY <1>6, <2>1, <2>2, <2>5, RulesRange DEF EnforceTrip, TypeOK
  <2> QED
    BY <1>0, <2>2, <2>3, <2>4, <2>5
<1>7. CASE Decide
  BY <1>0, <1>7 DEF Decide, tables, TypeOK
<1>8. CASE EndCycle
  <2>1. \A t \in Trigger : cool'[t] > 0 => cool[t] > 0
    BY <1>8 DEF EndCycle, TypeOK
  <2> QED
    BY <1>0, <1>8, <2>1 DEF EndCycle, tables, TypeOK
<1>9. CASE Fill
  BY <1>0, <1>9 DEF Fill, tables
<1>10. CASE ResetScript
  BY <1>0, <1>10
  DEF ResetScript, ResetRead, ResetState, ResetEvents, ResetDies, tables, memory
<1>11. CASE Crash
  BY <1>0, <1>11 DEF Crash, NoCooldown, tables
<1>12. ASSUME NEW t \in Trigger, Arises(t) \/ Subsides(t) PROVE IInv'
  BY <1>0, <1>12 DEF Arises, Subsides, tables, memory
<1>13. CASE UNCHANGED vars
  BY <1>0, <1>13 DEF vars, tables, memory
<1> QED
  BY <1>1, <1>2, <1>3, <1>4, <1>5, <1>6, <1>7, <1>8, <1>9, <1>10, <1>11, <1>12, <1>13
  DEF Next, Orchestrator, Environment

LEMMA Invariance == Spec => []IInv
  BY InitIInv, IInvStep, PTL DEF Spec

-----------------------------------------------------------------------------

(* The state of the engine, the tables and the script is always well typed.*)
THEOREM TypeCorrect == Spec => []TypeOK
<1>1. IInv => TypeOK
  BY DEF IInv
<1> QED
  BY <1>1, Invariance, PTL

(* The event of an enforcement is on record before its switch is tripped,  *)
(* wherever the process is killed.                                         *)
THEOREM TripsAreRecorded == Spec => []TripIsRecorded
<1>1. IInv => TripIsRecorded
  BY DEF IInv, EventFirst
<1> QED
  BY <1>1, Invariance, PTL

(* One read of the table per cycle is enough: whatever the script does     *)
(* meanwhile, no fill is made while a switch is tripped.                   *)
THEOREM NoFillWhenTripped == Spec => NoFillWhileTripped
<1>1. IInv /\ [Next]_vars => [Fill => tripped = {}]_vars
  BY DEF IInv, ReadIsSafe, Fill
<1> QED
  BY <1>1, Invariance, PTL DEF Spec, NoFillWhileTripped

(* An enforced condition can be traded under only while the cooldown of a  *)
(* switch the operator reset is still running.                             *)
THEOREM MissesFollowResets == Spec => []MissedOnlyAfterReset
<1>1. IInv => MissedOnlyAfterReset
  <2> SUFFICES ASSUME IInv, Evaluated, ~halted,
                      NEW t \in seen, NEW i \in DOMAIN Rules, t = Rules[i],
                      Mode[t] = "enforce"
               PROVE  cool[t] > 0 /\ t \in cleared
    BY DEF MissedOnlyAfterReset
  <2>1. i \in 1 .. Len(Rules) /\ t \in Trigger /\ tripped = {}
    BY RulesAssumption DEF IInv, ReadIsSafe, Evaluated
  <2>2. InCooldown(t)
    BY <2>1, RulesAssumption DEF IInv, VisitedRulesCool, Evaluated, TypeOK
  <2> QED
    BY <2>1, <2>2 DEF IInv, CoolingIsTrippedOrCleared, InCooldown
<1> QED
  BY <1>1, Invariance, PTL

(* A switch that becomes clear was cleared by the reset script's UPDATE.   *)
THEOREM ClearedByOperator == Spec => OnlyOperatorClears
<1>1. IInv /\ [Next]_vars =>
        [tripped \ tripped' # {} => /\ script.at = "state"
                                    /\ tripped \ tripped' = {script.trigger}]_vars
  <2> SUFFICES ASSUME IInv, Next, tripped \ tripped' # {}
               PROVE  /\ script.at = "state"
                      /\ tripped \ tripped' = {script.trigger}
    BY DEF vars, tables
  <2>1. ResetState
    BY DEF Next, Orchestrator, Start, BeginEvaluation, PassRule, ObserveTrip,
           EnforceRecord, EnforceTrip, Decide, Fill, EndCycle, Crash, ResetScript,
           ResetRead, ResetEvents, ResetDies, Environment, Arises, Subsides,
           tables, memory
  <2> QED
    BY <2>1 DEF ResetState
<1> QED
  BY <1>1, Invariance, PTL DEF Spec, OnlyOperatorClears

=============================================================================
