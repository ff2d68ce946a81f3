---------------------------- MODULE AlertLimiter ----------------------------
(***************************************************************************)
(* TelegramAlerter.send: an alert that is neither CRITICAL nor forced is   *)
(* sent only while fewer than MaxAlerts were in the last hour.  The alerts *)
(* are counted in the table telegram_alert_log, which outlives the         *)
(* process, or in a deque when the alerter was given no connection.        *)
(* Between the check and the record there is no await: one step.           *)
(***************************************************************************)
EXTENDS Clock, CapitalUnits

CONSTANTS
  MaxAlerts,  \* max_per_hour_non_critical
  Hour,       \* the window
  MaxPerTime  \* bound on the alerts logged, and lost, in a unit of time

ASSUME AlertAssumption == MaxAlerts \in Nat /\ Hour \in Nat /\ MaxPerTime \in Nat

VARIABLES
  stored,    \* whether the alerter has a connection
  rows,      \* telegram_alert_log: how many rows below CRITICAL at each time
  recent,    \* _recent_non_critical: how many entries of each time
  sent,      \* history: alerts the limit let through, at each time
  unlogged   \* history: those of them that could not be recorded

alertVars == <<now, stored, rows, recent, sent, unlogged>>

None == [t \in Time |-> 0]

(* How many of what the function counts lie in the hour up to t, both ends *)
(* included.                                                               *)
HourTo(t) == { u \in 0 .. t : u >= t - Hour }
Most == MaxAlerts + MaxPerTime
LastHour(count, t) == Held(HourTo(t), Most, count)

AlertTypeOK ==
  /\ now \in Time
  /\ stored \in BOOLEAN
  /\ rows \in [Time -> 0 .. MaxPerTime]
  /\ recent \in [Time -> 0 .. MaxAlerts]
  /\ sent \in [Time -> 0 .. Most] /\ unlogged \in [Time -> 0 .. MaxPerTime]
  /\ LastHour(recent, now) <= MaxAlerts

AlertInit ==
  /\ ClockInit
  /\ stored \in BOOLEAN
  /\ rows = None /\ recent = None /\ sent = None /\ unlogged = None

AlertTick == Passes /\ UNCHANGED <<stored, rows, recent, sent, unlogged>>

Trimmed == [t \in Time |-> IF t < now - Hour THEN 0 ELSE recent[t]]

(* Mutant: the limit is an alert too high.                                 *)
AllowedOneMore == LastHour(IF stored THEN rows ELSE recent, now) <= MaxAlerts

(* _allow_non_critical.                                                    *)
Allowed == LastHour(IF stored THEN rows ELSE recent, now) < MaxAlerts

(* _record_sent: a row, unless the table refuses it; nobody is told.       *)
Record(logged) ==
  /\ rows[now] < MaxPerTime
  /\ rows' = IF stored /\ logged THEN [rows EXCEPT ![now] = @ + 1] ELSE rows

(* Recorded before it is sent: an alert that Telegram refuses counts.      *)
SendLimited(logged) ==
  /\ Allowed
  /\ Record(logged)
  /\ recent' = IF stored THEN recent ELSE [Trimmed EXCEPT ![now] = @ + 1]
  /\ unlogged[now] < MaxPerTime
  /\ unlogged' = IF stored /\ ~logged THEN [unlogged EXCEPT ![now] = @ + 1] ELSE unlogged
  /\ sent' = [sent EXCEPT ![now] = @ + 1]
  /\ UNCHANGED <<now, stored>>

Suppress ==
  /\ ~Allowed
  /\ recent' = IF stored THEN recent ELSE Trimmed
  /\ UNCHANGED <<now, stored, rows, sent, unlogged>>

(* force skips the limit and is counted; CRITICAL is not counted either,   *)
(* and leaves nothing the limiter reads.                                   *)
SendForced(logged) ==
  /\ Record(logged)
  /\ UNCHANGED <<now, stored, recent, sent, unlogged>>

(* A new process: the deque is empty, and the history counts what this     *)
(* deque has seen.                                                         *)
AlertRestart ==
  /\ recent' = None
  /\ sent' = IF stored THEN sent ELSE None
  /\ UNCHANGED <<now, stored, rows, unlogged>>

AlertNext ==
  \/ AlertTick
  \/ \E logged \in BOOLEAN : SendLimited(logged) \/ SendForced(logged)
  \/ Suppress
  \/ AlertRestart

AlertSpec == AlertInit /\ [][AlertNext]_alertVars

-----------------------------------------------------------------------------
(* Properties.                                                             *)

(* In any hour at most max_per_hour alerts get through the limit, across   *)
(* restarts when they are kept in the table, whatever was forced in        *)
(* between; a row the table refused lets one more through, no more         *)
(* (telegram.py:49: "Process restarts don't reset the window").            *)
AlertsLimited == \A t \in Time : LastHour(sent, t) <= MaxAlerts + LastHour(unlogged, t)

=============================================================================
