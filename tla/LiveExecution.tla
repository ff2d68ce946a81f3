---------------------------- MODULE LiveExecution ----------------------------
(***************************************************************************)
(* One allocation executed for real: LiveExecutor.execute sends both legs  *)
(* in parallel through the safety gate and the exchange client, then       *)
(* resolve_imbalance buys the short leg up to max_retries times.  A        *)
(* request travels to the exchange on its own: the client may time out     *)
(* before it arrives, after it was matched, or in between, and reports     *)
(* each of these as REJECTED with nothing filled.  The process may be      *)
(* killed; no allocation outlives it, so what it executes next was         *)
(* detected anew, and so were its order ids, which hash the detection.     *)
(***************************************************************************)
EXTENDS Integers

CONSTANTS
  Size,           \* allocated_size_contracts
  MaxImbalance,   \* max_leg_imbalance_contracts
  MaxRetries,     \* max_retries
  MaxExecutions   \* bound: how many allocations of the market are executed

ASSUME SizeAssumption == Size \in Nat \ {0} /\ MaxImbalance \in Nat
ASSUME RetryAssumption == MaxRetries \in Nat \ {0} /\ MaxExecutions \in Nat

Leg == {"yes", "no"}
Other(l) == IF l = "yes" THEN "no" ELSE "yes"

VARIABLES
  pc,        \* "idle", "legs" (gather), "rebalance", "done", or "raised"
  call,      \* place_order of each leg: where it is, what it asks and answers
  reported,  \* the filled sizes of all results so far, by leg
  short,     \* resolve_imbalance: short_side
  needed,    \* contracts still to buy there
  attempt,
  room,      \* attempts before retry_price reaches 1
  report,    \* the PartialFillReport's resolution
  execution, \* how many executions were started
  net,       \* requests on their way to the exchange
  held       \* contracts the exchange has filled, by leg

executor == <<pc, call, reported, short, needed, attempt, room, report>>
vars == <<executor, execution, net, held>>

NoCall == [at |-> "none", nth |-> 0, size |-> 0, filled |-> 0]

(* An order is its execution's, its leg's, and the first (nth = 0) or the  *)
(* nth corrective one: _client_order_id tells all of these apart.  No id   *)
(* is sent twice, so what an exchange makes of a second one is left out.   *)
Request == [leg : Leg, nth : 0 .. MaxRetries, size : 1 .. Size, execution : 1 .. MaxExecutions]

ClientOrder(l) ==
  [leg |-> l, nth |-> call[l].nth, size |-> call[l].size, execution |-> execution]

Distance(a, b) == IF a > b THEN a - b ELSE b - a

TypeOK ==
  /\ pc \in {"idle", "legs", "rebalance", "done", "raised"}
  /\ call \in [Leg -> [at : {"none", "gate", "bucket", "http", "answered"},
                       nth : 0 .. MaxRetries, size : 0 .. Size, filled : 0 .. Size]]
  /\ reported \in [Leg -> 0 .. Size]
  /\ short \in Leg
  /\ needed \in 0 .. Size
  /\ attempt \in 0 .. MaxRetries
  /\ room \in 0 .. MaxRetries
  /\ report \in {"none", "balanced", "resolved", "failed"}
  /\ execution \in 0 .. MaxExecutions
  /\ net \subseteq Request
  /\ held \in [Leg -> Nat]

Init ==
  /\ pc = "idle"
  /\ call = [l \in Leg |-> NoCall]
  /\ reported = [l \in Leg |-> 0]
  /\ short = "yes" /\ needed = 0 /\ attempt = 0 /\ room = 0
  /\ report = "none"
  /\ execution = 0
  /\ net = {}
  /\ held = [l \in Leg |-> 0]

(***************************************************************************)
(* The executor.                                                           *)
(***************************************************************************)

Order(nth, size) == [at |-> "gate", nth |-> nth, size |-> size, filled |-> 0]

Execute ==
  /\ pc = "idle"
  /\ execution < MaxExecutions
  /\ execution' = execution + 1
  /\ pc' = "legs"
  /\ call' = [l \in Leg |-> Order(0, Size)]
  /\ UNCHANGED <<reported, short, needed, attempt, room, report, net, held>>

Answer(l, n) ==
  /\ call' = [call EXCEPT ![l].at = "answered", ![l].filled = n]
  /\ reported' = [reported EXCEPT ![l] = @ + n]

(* A safety check fails, or no auth is configured: REJECTED, never sent.   *)
Refuse(l) ==
  /\ call[l].at = "gate"
  /\ Answer(l, 0)
  /\ UNCHANGED <<pc, short, needed, attempt, room, report, execution, net, held>>

(* The checks pass; the client waits for a token of its bucket.            *)
Pass(l) ==
  /\ call[l].at = "gate"
  /\ call' = [call EXCEPT ![l].at = "bucket"]
  /\ UNCHANGED <<pc, reported, short, needed, attempt, room, report, execution, net, held>>

Post(l) ==
  /\ call[l].at = "bucket"
  /\ call' = [call EXCEPT ![l].at = "http"]
  /\ net' = net \cup {ClientOrder(l)}
  /\ UNCHANGED <<pc, reported, short, needed, attempt, room, report, execution, held>>

(* Signing before the client's try raises, and so does an answer whose     *)
(* fields do not parse after it: execute ends with the exception, but      *)
(* gather lets the other leg's order go on by itself.                      *)
Raise(l) ==
  /\ call[l].at \in {"bucket", "http"}
  /\ pc' = "raised"
  /\ call' = [call EXCEPT ![l] = NoCall]
  /\ UNCHANGED <<reported, short, needed, attempt, room, report, execution, net, held>>

(* Mutant: the session has no timeout, and waits for the exchange to       *)
(* refuse.                                                                 *)
TimeoutNever(l) ==
  /\ call[l].at = "http" /\ ClientOrder(l) \in net
  /\ net' = net \ {ClientOrder(l)}
  /\ Answer(l, 0)
  /\ UNCHANGED <<pc, short, needed, attempt, room, report, execution, held>>

(* A timeout, a broken connection, a status that is not 200 or an answer   *)
(* that is no JSON: REJECTED with filled_size 0, whatever happened.        *)
Timeout(l) ==
  /\ call[l].at = "http"
  /\ Answer(l, 0)
  /\ UNCHANGED <<pc, short, needed, attempt, room, report, execution, net, held>>

(* Mutant: the leg that filled more is taken for the short one.            *)
ShortSideSwapped == IF reported["yes"] > reported["no"] THEN "yes" ELSE "no"

ShortSide == IF reported["yes"] > reported["no"] THEN "no" ELSE "yes"

Imbalance == Distance(reported["yes"], reported["no"])

Gathered == pc = "legs" /\ \A l \in Leg : call[l].at = "answered"

(* resolve_imbalance, up to its loop: within tolerance there is nothing to *)
(* do, otherwise the first corrective order asks for the whole difference. *)
Accept ==
  /\ Gathered
  /\ Imbalance <= MaxImbalance
  /\ report' = "balanced"
  /\ pc' = "done"
  /\ UNCHANGED <<call, reported, short, needed, attempt, room, execution, net, held>>

Rebalance ==
  /\ Gathered
  /\ Imbalance > MaxImbalance
  /\ pc' = "rebalance"
  /\ short' = ShortSide
  /\ needed' = Imbalance
  /\ attempt' = 1
  /\ room' \in 1 .. MaxRetries
  /\ call' = [call EXCEPT ![ShortSide] = Order(1, Imbalance)]
  /\ UNCHANGED <<reported, report, execution, net, held>>

Corrected == pc = "rebalance" /\ call[short].at = "answered"

(* Mutant: a full fill alone ends the loop; what partial fills bought is   *)
(* not taken off.                                                          *)
RetryWholeAmount ==
  /\ Corrected
  /\ call[short].filled < needed
  /\ attempt < room
  /\ attempt' = attempt + 1
  /\ call' = [call EXCEPT ![short] = Order(attempt + 1, needed)]
  /\ UNCHANGED <<pc, reported, short, needed, room, report, execution, net, held>>

(* Mutant: attempts are not counted.                                       *)
RetryUncounted ==
  /\ Corrected
  /\ call[short].filled < needed
  /\ needed' = needed - call[short].filled
  /\ call' = [call EXCEPT ![short] = Order(attempt, needed')]
  /\ UNCHANGED <<pc, reported, short, attempt, room, report, execution, net, held>>

Retry ==
  /\ Corrected
  /\ call[short].filled < needed
  /\ attempt < room
  /\ needed' = needed - call[short].filled
  /\ attempt' = attempt + 1
  /\ call' = [call EXCEPT ![short] = Order(attempt + 1, needed')]
  /\ UNCHANGED <<pc, reported, short, room, report, execution, net, held>>

Resolved ==
  /\ Corrected
  /\ call[short].filled >= needed
  /\ report' = "resolved"
  /\ needed' = 0
  /\ pc' = "done"
  /\ UNCHANGED <<call, reported, short, attempt, room, execution, net, held>>

(* Mutant: the last attempt's partial fill is not taken off.               *)
FailUnmeasured ==
  /\ Corrected
  /\ call[short].filled < needed
  /\ attempt = room
  /\ report' = "failed"
  /\ pc' = "done"
  /\ UNCHANGED <<call, reported, short, needed, attempt, room, execution, net, held>>

(* No retry is left or the price reached 1: final_imbalance is `needed`.   *)
Fail ==
  /\ Corrected
  /\ call[short].filled < needed
  /\ attempt = room
  /\ report' = "failed"
  /\ needed' = needed - call[short].filled
  /\ pc' = "done"
  /\ UNCHANGED <<call, reported, short, attempt, room, execution, net, held>>

(* The process is killed; nothing of the execution was written anywhere.   *)
Crash ==
  /\ pc \in {"legs", "rebalance"}
  /\ execution < MaxExecutions
  /\ pc' = "idle"
  /\ call' = [l \in Leg |-> NoCall]
  /\ reported' = [l \in Leg |-> 0]
  /\ short' = "yes" /\ needed' = 0 /\ attempt' = 0 /\ room' = 0
  /\ report' = "none"
  /\ UNCHANGED <<execution, net, held>>

(***************************************************************************)
(* The exchange.                                                           *)
(***************************************************************************)

(* An immediate-or-cancel order is matched for any part of its size.       *)
Match(r, n) ==
  /\ r \in net
  /\ net' = net \ {r}
  /\ held' = [held EXCEPT ![r.leg] = @ + n]

AwaitedBy(r) == call[r.leg].at = "http" /\ r = ClientOrder(r.leg)

(* The answer arrives in time, or the client never gets to see it.         *)
MatchAnswered(r, n) ==
  /\ Match(r, n)
  /\ AwaitedBy(r)
  /\ Answer(r.leg, n)
  /\ UNCHANGED <<pc, short, needed, attempt, room, report, execution>>

MatchUnseen(r, n) ==
  /\ Match(r, n)
  /\ UNCHANGED <<executor, execution>>

Executor ==
  \/ Execute
  \/ \E l \in Leg : Refuse(l) \/ Pass(l) \/ Post(l) \/ Timeout(l)
  \/ Accept \/ Rebalance \/ Retry \/ Resolved \/ Fail

Next ==
  \/ Executor
  \/ \E l \in Leg : Raise(l)
  \/ Crash
  \/ \E r \in net : \E n \in 0 .. r.size : MatchAnswered(r, n) \/ MatchUnseen(r, n)

Spec == Init /\ [][Next]_vars

(* The event loop runs what is ready, and every request has a timeout.     *)
FairSpec == Spec /\ WF_vars(Executor)

-----------------------------------------------------------------------------
(* Properties.                                                             *)

(* The results never claim a fill the exchange does not have; and when     *)
(* they claim every fill, the outcome is true: legs that end "balanced" or *)
(* "resolved" differ by no more than the tolerance, and the                *)
(* final_imbalance of a failure, which an operator acts on, is the real    *)
(* one.                                                                    *)
AllReported == \A l \in Leg : reported[l] = held[l]
OutcomeIsTrue ==
  /\ \A l \in Leg : reported[l] <= held[l]
  /\ pc = "done" /\ AllReported =>
       LET difference == Distance(held["yes"], held["no"])
       IN  IF report = "failed" THEN needed > 0 /\ needed = difference
           ELSE difference <= MaxImbalance

(* With every fill reported, corrective orders never buy beyond the        *)
(* allocation, however many partial fills it takes.                        *)
NeverBeyondAllocation == AllReported => \A l \in Leg : held[l] <= Size

(* With answers lost, a correction buys again what the exchange had filled *)
(* before: an allocation may then cost the first orders of both legs and   *)
(* every retry in full, and never more, however late a request arrives.    *)
ExposureIsBounded == held["yes"] + held["no"] <= execution * (2 + MaxRetries) * Size

(* An execution ends: gather and the retries wait for nothing for ever.    *)
ExecutionEnds == pc \in {"legs", "rebalance"} ~> pc \in {"idle", "done", "raised"}

=============================================================================
