------------------------- MODULE LiveExecutionProofs -------------------------
(***************************************************************************)
(* One allocation executed for real, for any size, tolerance, number of    *)
(* retries and of executions.                                              *)
(*                                                                         *)
(* The properties speak of what was reported and of what the exchange      *)
(* holds; what keeps the two together are the requests on their way.  A    *)
(* request of the running execution is either of an earlier attempt or the *)
(* very one its leg waits for (NetIsCurrent), so that an answer is never   *)
(* counted for another order; and what a leg may still be told is within   *)
(* what it asked for (WithinOrder, Legs, Correction).                      *)
(***************************************************************************)
EXTENDS LiveExecution, TLAPS

Waiting(l) == call[l].at \in {"gate", "bucket", "http"}

(* A request is never one that is yet to be sent.                          *)
NetIsCurrent ==
  \A r \in net :
    /\ r.execution <= execution
    /\ r.execution = execution /\ call[r.leg].at # "none" =>
         \/ r.nth < call[r.leg].nth
         \/ /\ r.nth = call[r.leg].nth /\ r.size = call[r.leg].size
            /\ call[r.leg].at \in {"http", "answered"}

(* A leg is told at most what it asked for, and ends within the size.      *)
WithinOrder ==
  \A l \in Leg :
    /\ call[l].at = "none" => call[l] = NoCall
    /\ call[l].at # "none" => call[l].size >= 1 /\ execution >= 1
    /\ call[l].at # "answered" => call[l].filled = 0
    /\ call[l].filled <= call[l].size
    /\ Waiting(l) => reported[l] + call[l].size <= Size

(* While the legs are gathered, a report is the answer to the first order. *)
Legs ==
  pc = "legs" =>
    \A l \in Leg :
      /\ call[l].at # "none" /\ call[l].nth = 0 /\ call[l].size = Size
      /\ reported[l] = call[l].filled

(* A corrective order asks for what the short leg misses.                  *)
Correction ==
  pc = "rebalance" =>
    /\ call[short].at # "none" /\ call[short].nth = attempt /\ call[short].size = needed
    /\ attempt <= room
    /\ reported[short] + needed = reported[Other(short)] + call[short].filled
    /\ call[Other(short)].at = "answered"

(* The outcome, by the results: needed after a failure, else the tolerance. *)
Outcome ==
  /\ pc = "idle" => \A l \in Leg : call[l] = NoCall /\ reported[l] = 0
  /\ pc = "done" =>
       /\ \A l \in Leg : call[l].at = "answered"
       /\ IF report = "failed" THEN needed > 0 /\ needed = Imbalance ELSE Imbalance <= MaxImbalance

(* The exchange holds what was reported.                                   *)
HeldByExchange == \A l \in Leg : reported[l] <= held[l]

IInv ==
  /\ TypeOK /\ NetIsCurrent /\ WithinOrder
  /\ Legs /\ Correction /\ Outcome /\ HeldByExchange

-----------------------------------------------------------------------------

LEMMA OtherLeg == \A l \in Leg : Other(l) \in Leg /\ Other(l) # l /\ Leg = {l, Other(l)}
BY DEF Leg, Other

LEMMA InitIInv == Init => IInv
<1> SUFFICES ASSUME Init PROVE IInv
  OBVIOUS
<1>1. TypeOK
  BY SizeAssumption, RetryAssumption DEF Init, TypeOK, NoCall, Leg
<1>2. NetIsCurrent /\ WithinOrder /\ Legs /\ Correction /\ Outcome
  BY DEF Init, NetIsCurrent, WithinOrder, Waiting, Legs, Correction, Outcome, NoCall
<1>3. HeldByExchange
  BY SizeAssumption DEF Init, HeldByExchange
<1> QED
  BY <1>1, <1>2, <1>3 DEF IInv

(* A leg that is told how much was filled, within what it asked for, is    *)
(* as the rest of the execution expects.                                   *)
LEMMA AnswerKeeps ==
  ASSUME IInv, NEW l \in Leg, Waiting(l), NEW n \in 0 .. call[l].size, Answer(l, n),
         UNCHANGED <<pc, short, needed, attempt, room, report, execution>>,
         net' \subseteq net, held' \in [Leg -> Nat]
  PROVE  TypeOK' /\ NetIsCurrent' /\ WithinOrder' /\ Legs' /\ Correction' /\ Outcome'
<1>1. TypeOK /\ NetIsCurrent /\ WithinOrder /\ Legs /\ Correction /\ Outcome
  BY DEF IInv
<1>2. /\ call' = [call EXCEPT ![l].at = "answered", ![l].filled = n]
      /\ reported' = [reported EXCEPT ![l] = @ + n]
  BY DEF Answer
<1>3. /\ call[l].at \in {"gate", "bucket", "http"} /\ call[l].size \in 0 .. Size
      /\ call[l].filled = 0 /\ reported[l] + call[l].size <= Size /\ reported[l] \in 0 .. Size
  BY <1>1 DEF TypeOK, Waiting, WithinOrder
<1>4. \A k \in Leg : k # l => call'[k] = call[k] /\ reported'[k] = reported[k]
  BY <1>1, <1>2 DEF TypeOK
<1>5. /\ call'[l].at = "answered" /\ call'[l].filled = n /\ reported'[l] = reported[l] + n
      /\ call'[l].nth = call[l].nth /\ call'[l].size = call[l].size
  BY <1>1, <1>2 DEF TypeOK
<1>6. reported[l] + n \in 0 .. Size
  BY <1>3, SizeAssumption
<1>7. TypeOK'
  <2>1. reported' \in [Leg -> 0 .. Size]
    BY <1>1, <1>2, <1>6 DEF TypeOK
  <2>2. n \in 0 .. Size
    BY <1>3, SizeAssumption
  <2>3. call' \in [Leg -> [at : {"none", "gate", "bucket", "http", "answered"},
                           nth : 0 .. MaxRetries, size : 0 .. Size, filled : 0 .. Size]]
    BY <1>1, <1>2, <2>2 DEF TypeOK
  <2> QED
    BY <1>1, <2>1, <2>3 DEF TypeOK
<1>8. NetIsCurrent'
  <2>1. \A r \in net' : r \in net /\ r.leg \in Leg
    BY <1>1 DEF TypeOK, Request
  <2> QED
    BY <1>1, <1>3, <1>4, <1>5, <2>1 DEF NetIsCurrent
<1>9. WithinOrder'
  <2>1. ASSUME NEW k \in Leg, k # l
        PROVE  /\ call[k].at = "none" => call[k] = NoCall
               /\ call[k].at # "none" => call[k].size >= 1 /\ execution >= 1
               /\ call[k].at # "answered" => call[k].filled = 0
               /\ call[k].filled <= call[k].size
               /\ Waiting(k) => reported[k] + call[k].size <= Size
    BY <1>1, <2>1 DEF WithinOrder
  <2>2. call[l].size >= 1 /\ execution >= 1 /\ n <= call[l].size
    BY <1>1, <1>3 DEF WithinOrder
  <2> QED
    BY <1>4, <1>5, <2>1, <2>2 DEF WithinOrder, Waiting
<1>10. Legs'
  <2>1. pc = "legs" => reported[l] = 0
    BY <1>1, <1>3 DEF Legs
  <2> QED
    BY <1>1, <1>3, <1>4, <1>5, <2>1 DEF Legs
<1>11. Correction'
  <2>1. ASSUME pc = "rebalance" PROVE l = short
    BY <1>1, <1>3, <2>1, OtherLeg DEF Correction, TypeOK
  <2>2. short \in Leg /\ Other(short) \in Leg /\ Other(short) # short
    BY <1>1, OtherLeg DEF TypeOK
  <2>3. reported[Other(short)] \in 0 .. Size /\ needed \in 0 .. Size
    BY <1>1, <2>2 DEF TypeOK
  <2>4. ASSUME pc = "rebalance"
        PROVE  /\ call[l].nth = attempt /\ call[l].size = needed /\ attempt <= room
               /\ reported[l] + needed = reported[Other(l)] + 0
               /\ call[Other(l)].at = "answered"
    BY <1>1, <1>3, <2>1, <2>4 DEF Correction
  <2>5. ASSUME pc = "rebalance"
        PROVE  reported'[l] + needed = reported[Other(l)] + n
    BY <1>3, <1>5, <2>1, <2>3, <2>4, <2>5
  <2>6. ASSUME pc = "rebalance"
        PROVE  reported'[Other(l)] = reported[Other(l)] /\ call'[Other(l)] = call[Other(l)]
    BY <1>4, <2>1, <2>2, <2>6
  <2> QED
    BY <1>5, <2>1, <2>4, <2>5, <2>6 DEF Correction, Other
<1>12. Outcome'
  <2>1. pc # "idle" /\ pc # "done"
    BY <1>1, <1>3 DEF Outcome, NoCall
  <2> QED
    BY <2>1 DEF Outcome
<1> QED
  BY <1>7, <1>8, <1>9, <1>10, <1>11, <1>12

(* An answer of nothing leaves the exchange as it is.                      *)
LEMMA NothingFilled ==
  ASSUME IInv, NEW l \in Leg, Waiting(l), Answer(l, 0),
         UNCHANGED <<pc, short, needed, attempt, room, report, execution, net, held>>
  PROVE  IInv'
<1>1. TypeOK /\ HeldByExchange /\ reported \in [Leg -> 0 .. Size]
  BY DEF IInv, TypeOK
<1>2. call[l].size \in 0 .. Size /\ held' \in [Leg -> Nat]
  BY <1>1 DEF TypeOK
<1>3. 0 \in 0 .. call[l].size
  BY <1>2, SizeAssumption
<1>4. reported' = reported
  BY <1>1 DEF Answer
<1>5. HeldByExchange'
  BY <1>1, <1>4 DEF HeldByExchange
<1> QED
  BY <1>2, <1>3, <1>5, AnswerKeeps DEF IInv

(* A request that is matched for n contracts leaves the exchange holding n *)
(* more, of its leg.                                                       *)
LEMMA MatchAdds ==
  ASSUME IInv, NEW r \in net, NEW n \in 0 .. r.size, Match(r, n)
  PROVE  /\ r \in Request /\ n \in Nat /\ net' \subseteq net /\ held' \in [Leg -> Nat]
         /\ held'[r.leg] = held[r.leg] + n
         /\ \A l \in Leg : l # r.leg => held'[l] = held[l]
<1>1. /\ r \in Request /\ r.leg \in Leg /\ r.size \in 1 .. Size /\ held \in [Leg -> Nat]
  BY DEF IInv, TypeOK, Request
<1>2. n \in Nat
  BY <1>1, SizeAssumption
<1>3. net' = net \ {r} /\ held' = [held EXCEPT ![r.leg] = @ + n]
  BY DEF Match
<1>4. held[r.leg] + n \in Nat
  BY <1>1, <1>2
<1> QED
  BY <1>1, <1>2, <1>3, <1>4

(* An answer counted for a leg is the answer to the order it waits for.    *)
LEMMA AnsweredKeeps ==
  ASSUME IInv, NEW r \in net, NEW n \in 0 .. r.size, MatchAnswered(r, n)
  PROVE  IInv'
<1>1. /\ Match(r, n) /\ AwaitedBy(r) /\ Answer(r.leg, n)
      /\ UNCHANGED <<pc, short, needed, attempt, room, report, execution>>
  BY DEF MatchAnswered
<1>2. /\ r.leg \in Leg /\ net' \subseteq net /\ held' \in [Leg -> Nat] /\ n \in Nat
      /\ held'[r.leg] = held[r.leg] + n
      /\ \A l \in Leg : l # r.leg => held'[l] = held[l]
  BY <1>1, MatchAdds DEF Request
<1>3. Waiting(r.leg) /\ r.size = call[r.leg].size
  BY <1>1 DEF AwaitedBy, ClientOrder, Waiting
<1>4. TypeOK' /\ NetIsCurrent' /\ WithinOrder' /\ Legs' /\ Correction' /\ Outcome'
  BY <1>1, <1>2, <1>3, AnswerKeeps
<1>5. ASSUME NEW l \in Leg PROVE reported'[l] <= held'[l]
  <2>1. reported \in [Leg -> 0 .. Size] /\ reported' = [reported EXCEPT ![r.leg] = @ + n]
    BY <1>1 DEF IInv, TypeOK, Answer
  <2>2. reported[l] \in Int /\ held[l] \in Int /\ reported[l] <= held[l] /\ n \in Int
    BY SizeAssumption, <1>2, <2>1 DEF IInv, TypeOK, HeldByExchange
  <2>3. CASE l = r.leg
    BY <1>2, <2>1, <2>2, <2>3
  <2>4. CASE l # r.leg
    BY <1>2, <2>1, <2>2, <2>4
  <2> QED
    BY <2>3, <2>4
<1> QED
  BY <1>4, <1>5 DEF IInv, HeldByExchange

LEMMA UnseenKeeps ==
  ASSUME IInv, NEW r \in net, NEW n \in 0 .. r.size, MatchUnseen(r, n)
  PROVE  IInv'
<1>1. Match(r, n) /\ UNCHANGED <<executor, execution>>
  BY DEF MatchUnseen
<1>2. /\ r.leg \in Leg /\ net' \subseteq net /\ held' \in [Leg -> Nat] /\ n \in Nat
      /\ held'[r.leg] = held[r.leg] + n
      /\ \A l \in Leg : l # r.leg => held'[l] = held[l]
  BY <1>1, MatchAdds DEF Request
<1>3. TypeOK'
  BY <1>1, <1>2 DEF IInv, TypeOK, executor
<1>4. NetIsCurrent' /\ WithinOrder' /\ Legs' /\ Correction' /\ Outcome'
  BY <1>1, <1>2 DEF IInv, NetIsCurrent, WithinOrder, Waiting, Legs, Correction, Outcome, Imbalance, executor
<1>5. ASSUME NEW l \in Leg PROVE reported'[l] <= held'[l]
  <2>1. reported' = reported
    BY <1>1 DEF executor
  <2>2. reported[l] \in Int /\ held[l] \in Int /\ reported[l] <= held[l]
    BY SizeAssumption DEF IInv, TypeOK, HeldByExchange
  <2>3. held'[l] = held[l] \/ held'[l] = held[l] + n
    BY <1>2
  <2> QED
    BY <1>2, <2>1, <2>2, <2>3
<1> QED
  BY <1>3, <1>4, <1>5 DEF IInv, HeldByExchange

(* The executor's other steps leave the exchange alone.                    *)
LEMMA HeldKeeps ==
  ASSUME IInv, UNCHANGED held, reported' = reported
  PROVE  HeldByExchange'
BY DEF IInv, HeldByExchange

LEMMA ExecuteKeeps == ASSUME IInv, Execute PROVE IInv'
<1>1. TypeOK /\ NetIsCurrent /\ WithinOrder /\ Outcome
  BY DEF IInv
<1>2. /\ pc = "idle" /\ pc' = "legs" /\ execution' = execution + 1
      /\ \A l \in Leg : call'[l] = Order(0, Size)
      /\ UNCHANGED <<reported, short, needed, attempt, room, report, net, held>>
  BY DEF Execute
<1>3. execution \in 0 .. MaxExecutions /\ execution + 1 \in 1 .. MaxExecutions
  BY <1>1, RetryAssumption DEF Execute, TypeOK
<1>4. TypeOK'
  BY <1>1, <1>2, <1>3, SizeAssumption, RetryAssumption DEF Execute, TypeOK, Order
<1>5. NetIsCurrent'
  <2>1. ASSUME NEW r \in net PROVE r.execution <= execution /\ r.execution # execution + 1 /\ r.execution <= execution + 1
    BY <1>1, <1>3 DEF NetIsCurrent, TypeOK, Request
  <2> QED
    BY <1>1, <1>2, <2>1 DEF NetIsCurrent
<1>6. WithinOrder' /\ Legs'
  BY <1>1, <1>2, <1>3, SizeAssumption DEF WithinOrder, Legs, Waiting, Outcome, Order
<1>7. Correction' /\ Outcome'
  BY <1>2 DEF Correction, Outcome
<1> QED
  BY <1>2, <1>4, <1>5, <1>6, <1>7, HeldKeeps DEF IInv

LEMMA PassKeeps == ASSUME IInv, NEW l \in Leg, Pass(l) PROVE IInv'
<1>1. TypeOK /\ NetIsCurrent /\ WithinOrder /\ Legs /\ Correction /\ Outcome
  BY DEF IInv
<1>2. /\ call[l].at = "gate" /\ call' = [call EXCEPT ![l].at = "bucket"]
      /\ UNCHANGED <<pc, reported, short, needed, attempt, room, report, execution, net, held>>
  BY DEF Pass
<1>3. /\ call'[l].at = "bucket" /\ call'[l].nth = call[l].nth /\ call'[l].size = call[l].size
      /\ call'[l].filled = call[l].filled /\ \A k \in Leg : k # l => call'[k] = call[k]
  BY <1>1, <1>2 DEF TypeOK
<1>4. TypeOK'
  BY <1>1, <1>2 DEF TypeOK
<1>5. NetIsCurrent'
  BY <1>1, <1>2, <1>3 DEF NetIsCurrent, TypeOK, Request
<1>6. WithinOrder'
  BY <1>1, <1>2, <1>3 DEF WithinOrder, Waiting
<1>7. Legs'
  BY <1>1, <1>2, <1>3 DEF Legs
<1>8. Correction'
  BY <1>1, <1>2, <1>3, OtherLeg DEF Correction, TypeOK
<1>9. Outcome'
  BY <1>1, <1>2, <1>3 DEF Outcome, NoCall
<1> QED
  BY <1>2, <1>4, <1>5, <1>6, <1>7, <1>8, <1>9, HeldKeeps DEF IInv

(* The request that is sent is the one its leg then waits for.             *)
LEMMA PostKeeps == ASSUME IInv, NEW l \in Leg, Post(l) PROVE IInv'
<1> DEFINE sent == [leg |-> l, nth |-> call[l].nth, size |-> call[l].size, execution |-> execution]
<1>1. TypeOK /\ NetIsCurrent /\ WithinOrder /\ Legs /\ Correction /\ Outcome
  BY DEF IInv
<1>2. /\ call[l].at = "bucket" /\ call' = [call EXCEPT ![l].at = "http"]
      /\ net' = net \cup {sent}
      /\ UNCHANGED <<pc, reported, short, needed, attempt, room, report, execution, held>>
  BY DEF Post, ClientOrder
<1>3. /\ call'[l].at = "http" /\ call'[l].nth = call[l].nth /\ call'[l].size = call[l].size
      /\ call'[l].filled = call[l].filled /\ \A k \in Leg : k # l => call'[k] = call[k]
  BY <1>1, <1>2 DEF TypeOK
<1>4. call[l].size \in 1 .. Size /\ execution \in 1 .. MaxExecutions /\ call[l].nth \in 0 .. MaxRetries
  <2>1. call[l].size \in 0 .. Size /\ execution \in 0 .. MaxExecutions /\ call[l].nth \in 0 .. MaxRetries
    BY <1>1 DEF TypeOK
  <2>2. call[l].size >= 1 /\ execution >= 1
    BY <1>1, <1>2 DEF WithinOrder
  <2> QED
    BY <2>1, <2>2, SizeAssumption, RetryAssumption
<1>5. sent \in Request
  BY <1>4 DEF Request
<1>6. TypeOK'
  BY <1>1, <1>2, <1>5 DEF TypeOK
<1>7. ASSUME NEW r \in net'
      PROVE  /\ r.execution <= execution
             /\ r.execution = execution /\ call'[r.leg].at # "none" =>
                  \/ r.nth < call'[r.leg].nth
                  \/ /\ r.nth = call'[r.leg].nth /\ r.size = call'[r.leg].size
                     /\ call'[r.leg].at \in {"http", "answered"}
  <2>1. CASE r = sent
    BY <1>3, <1>4, <2>1
  <2>2. CASE r \in net
    <3>1. /\ r.execution <= execution /\ r.leg \in Leg
          /\ r.execution = execution /\ call[r.leg].at # "none" =>
               \/ r.nth < call[r.leg].nth
               \/ /\ r.nth = call[r.leg].nth /\ r.size = call[r.leg].size
                  /\ call[r.leg].at \in {"http", "answered"}
      BY <1>1, <2>2 DEF NetIsCurrent, TypeOK, Request
    <3> QED
      BY <1>2, <1>3, <3>1
  <2> QED
    BY <1>2, <1>7, <2>1, <2>2
<1>8. NetIsCurrent'
  BY <1>2, <1>7 DEF NetIsCurrent
<1>9. WithinOrder'
  BY <1>1, <1>2, <1>3 DEF WithinOrder, Waiting
<1>10. Legs'
  BY <1>1, <1>2, <1>3 DEF Legs
<1>11. Correction'
  BY <1>1, <1>2, <1>3, OtherLeg DEF Correction, TypeOK
<1>12. Outcome'
  BY <1>1, <1>2, <1>3 DEF Outcome, NoCall
<1> QED
  BY <1>2, <1>6, <1>8, <1>9, <1>10, <1>11, <1>12, HeldKeeps DEF IInv

LEMMA RaiseKeeps == ASSUME IInv, NEW l \in Leg, Raise(l) PROVE IInv'
<1>1. TypeOK /\ NetIsCurrent /\ WithinOrder
  BY DEF IInv
<1>2. /\ pc' = "raised" /\ call' = [call EXCEPT ![l] = NoCall]
      /\ UNCHANGED <<reported, short, needed, attempt, room, report, execution, net, held>>
  BY DEF Raise
<1>3. call'[l] = NoCall /\ \A k \in Leg : k # l => call'[k] = call[k]
  BY <1>1, <1>2 DEF TypeOK
<1>4. TypeOK'
  BY <1>1, <1>2, SizeAssumption, RetryAssumption DEF TypeOK, NoCall
<1>5. NetIsCurrent'
  BY <1>1, <1>2, <1>3 DEF NetIsCurrent, TypeOK, Request, NoCall
<1>6. WithinOrder'
  BY <1>1, <1>2, <1>3 DEF WithinOrder, Waiting, NoCall
<1>7. Legs' /\ Correction' /\ Outcome'
  BY <1>2 DEF Legs, Correction, Outcome
<1> QED
  BY <1>2, <1>4, <1>5, <1>6, <1>7, HeldKeeps DEF IInv

LEMMA CrashKeeps == ASSUME IInv, Crash PROVE IInv'
<1>1. TypeOK /\ NetIsCurrent /\ HeldByExchange
  BY DEF IInv
<1>2. /\ pc' = "idle" /\ short' = "yes" /\ needed' = 0 /\ attempt' = 0 /\ room' = 0 /\ report' = "none"
      /\ call' = [l \in Leg |-> NoCall] /\ reported' = [l \in Leg |-> 0]
      /\ UNCHANGED <<execution, net, held>>
  BY DEF Crash
<1>3. TypeOK'
  BY <1>1, <1>2, SizeAssumption, RetryAssumption DEF TypeOK, NoCall, Leg
<1>4. NetIsCurrent'
  BY <1>1, <1>2 DEF NetIsCurrent, TypeOK, Request, NoCall
<1>5. WithinOrder' /\ Legs' /\ Correction' /\ Outcome'
  BY <1>2 DEF WithinOrder, Waiting, Legs, Correction, Outcome, NoCall
<1>6. HeldByExchange'
  BY <1>1, <1>2 DEF TypeOK, HeldByExchange
<1> QED
  BY <1>3, <1>4, <1>5, <1>6 DEF IInv

(* What two gathered legs may differ by, and which of them is short.       *)
LEMMA ImbalanceFacts ==
  ASSUME TypeOK
  PROVE  /\ Imbalance \in 0 .. Size /\ ShortSide \in Leg
         /\ reported[ShortSide] + Imbalance = reported[Other(ShortSide)]
<1>1. reported["yes"] \in 0 .. Size /\ reported["no"] \in 0 .. Size
  BY DEF TypeOK, Leg
<1> QED
  BY <1>1, SizeAssumption DEF Imbalance, Distance, ShortSide, Other, Leg

LEMMA AcceptKeeps == ASSUME IInv, Accept PROVE IInv'
<1>1. /\ pc' = "done" /\ report' = "balanced" /\ Gathered /\ Imbalance <= MaxImbalance
      /\ UNCHANGED <<call, reported, short, needed, attempt, room, execution, net, held>>
  BY DEF Accept
<1>2. TypeOK' /\ NetIsCurrent' /\ WithinOrder'
  BY <1>1 DEF IInv, TypeOK, NetIsCurrent, WithinOrder, Waiting
<1>3. Legs' /\ Correction' /\ Outcome'
  BY <1>1 DEF Legs, Correction, Outcome, Gathered, Imbalance
<1> QED
  BY <1>1, <1>2, <1>3, HeldKeeps DEF IInv

(* A corrective order has a later id than what its leg had before.         *)
LEMMA CorrectiveOrder ==
  ASSUME IInv, NEW s \in Leg, call[s].at = "answered",
         NEW nth \in 1 .. MaxRetries, nth = call[s].nth + 1,
         NEW size \in 1 .. Size, reported[s] + size <= Size,
         call' = [call EXCEPT ![s] = Order(nth, size)],
         UNCHANGED <<reported, execution, net, held>>
  PROVE  /\ call' \in [Leg -> [at : {"none", "gate", "bucket", "http", "answered"},
                               nth : 0 .. MaxRetries, size : 0 .. Size, filled : 0 .. Size]]
         /\ call'[s] = Order(nth, size) /\ \A k \in Leg : k # s => call'[k] = call[k]
         /\ NetIsCurrent' /\ WithinOrder' /\ HeldByExchange'
<1>1. TypeOK /\ NetIsCurrent /\ WithinOrder
  BY DEF IInv
<1>2. call'[s] = Order(nth, size) /\ \A k \in Leg : k # s => call'[k] = call[k]
  BY <1>1 DEF TypeOK
<1>3. Order(nth, size) \in [at : {"none", "gate", "bucket", "http", "answered"},
                            nth : 0 .. MaxRetries, size : 0 .. Size, filled : 0 .. Size]
  BY SizeAssumption, RetryAssumption DEF Order
<1>4. call' \in [Leg -> [at : {"none", "gate", "bucket", "http", "answered"},
                         nth : 0 .. MaxRetries, size : 0 .. Size, filled : 0 .. Size]]
  BY <1>1, <1>3 DEF TypeOK
<1>5. NetIsCurrent'
  <2>1. ASSUME NEW r \in net, r.leg = s, r.execution = execution PROVE r.nth < nth
    <3>1. r.nth \in 0 .. MaxRetries /\ call[s].nth \in 0 .. MaxRetries
      BY <1>1 DEF TypeOK, Request
    <3>2. r.nth <= call[s].nth
      BY <1>1, <2>1, <3>1, RetryAssumption DEF NetIsCurrent
    <3> QED
      BY <3>1, <3>2, RetryAssumption
  <2>2. \A r \in net : r.leg \in Leg
    BY <1>1 DEF TypeOK, Request
  <2> QED
    BY <1>1, <1>2, <2>1, <2>2 DEF NetIsCurrent, Order
<1>6. WithinOrder'
  BY <1>1, <1>2 DEF WithinOrder, Waiting, Order
<1> QED
  BY <1>2, <1>4, <1>5, <1>6, HeldKeeps

LEMMA RebalanceKeeps == ASSUME IInv, Rebalance PROVE IInv'
<1>1. TypeOK /\ Legs /\ WithinOrder
  BY DEF IInv
<1>2. /\ pc = "legs" /\ \A l \in Leg : call[l].at = "answered"
      /\ pc' = "rebalance" /\ short' = ShortSide /\ needed' = Imbalance /\ attempt' = 1
      /\ Imbalance > MaxImbalance
      /\ room' \in 1 .. MaxRetries /\ call' = [call EXCEPT ![ShortSide] = Order(1, Imbalance)]
      /\ UNCHANGED <<reported, report, execution, net, held>>
  BY DEF Rebalance, Gathered
<1>3. /\ Imbalance \in 1 .. Size /\ ShortSide \in Leg
      /\ reported[ShortSide] + Imbalance = reported[Other(ShortSide)]
      /\ Other(ShortSide) \in Leg /\ Other(ShortSide) # ShortSide
  BY <1>1, <1>2, ImbalanceFacts, OtherLeg, SizeAssumption
<1>4. reported[ShortSide] + Imbalance <= Size
  BY <1>1, <1>3, SizeAssumption DEF TypeOK
<1>5. call[ShortSide].nth = 0 /\ 1 \in 1 .. MaxRetries /\ 1 = call[ShortSide].nth + 1
  BY <1>1, <1>2, <1>3, RetryAssumption DEF Legs
<1>6. /\ call' \in [Leg -> [at : {"none", "gate", "bucket", "http", "answered"},
                            nth : 0 .. MaxRetries, size : 0 .. Size, filled : 0 .. Size]]
      /\ call'[ShortSide] = Order(1, Imbalance) /\ \A k \in Leg : k # ShortSide => call'[k] = call[k]
      /\ NetIsCurrent' /\ WithinOrder' /\ HeldByExchange'
  BY <1>2, <1>3, <1>4, <1>5, CorrectiveOrder
<1>7. TypeOK'
  BY <1>1, <1>2, <1>3, <1>6, RetryAssumption DEF TypeOK
<1>8. Correction'
  <2>1. call'[short'] = Order(1, needed') /\ call'[Other(short')] = call[Other(ShortSide)]
    BY <1>2, <1>3, <1>6
  <2>2. /\ call'[short'].at = "gate" /\ call'[short'].nth = 1 /\ call'[short'].size = needed'
        /\ call'[short'].filled = 0
    BY <2>1 DEF Order
  <2>3. reported'[short'] + needed' = reported'[Other(short')] + 0
    BY <1>1, <1>2, <1>3 DEF TypeOK
  <2>4. attempt' <= room'
    BY <1>2, RetryAssumption
  <2> QED
    BY <1>2, <1>3, <2>1, <2>2, <2>3, <2>4 DEF Correction, Other
<1>9. Legs' /\ Outcome'
  BY <1>2 DEF Legs, Outcome
<1> QED
  BY <1>6, <1>7, <1>8, <1>9 DEF IInv

(* What a corrected leg still misses.                                      *)
LEMMA CorrectedFacts ==
  ASSUME IInv, Corrected
  PROVE  /\ short \in Leg /\ Other(short) \in Leg /\ Other(short) # short
         /\ call[short].at = "answered" /\ call[short].nth = attempt
         /\ call[Other(short)].at = "answered"
         /\ needed \in 1 .. Size /\ call[short].filled \in 0 .. needed
         /\ reported[short] + (needed - call[short].filled) = reported[Other(short)]
         /\ reported[short] \in 0 .. Size /\ reported[Other(short)] \in 0 .. Size
         /\ attempt \in 0 .. MaxRetries /\ room \in 0 .. MaxRetries /\ attempt <= room
<1>1. TypeOK /\ Correction /\ WithinOrder /\ pc = "rebalance"
  BY DEF IInv, Corrected
<1>2. short \in Leg /\ Other(short) \in Leg /\ Other(short) # short
  BY <1>1, OtherLeg DEF TypeOK
<1>3. /\ call[short].at = "answered" /\ call[short].nth = attempt /\ call[short].size = needed
      /\ call[Other(short)].at = "answered" /\ attempt <= room
      /\ reported[short] + needed = reported[Other(short)] + call[short].filled
  BY <1>1 DEF Correction, Corrected
<1>4. /\ reported[short] \in 0 .. Size /\ reported[Other(short)] \in 0 .. Size
      /\ attempt \in 0 .. MaxRetries /\ room \in 0 .. MaxRetries
      /\ needed \in 0 .. Size /\ call[short].filled \in 0 .. Size
  BY <1>1, <1>2 DEF TypeOK
<1>5. needed >= 1 /\ call[short].filled <= needed
  BY <1>1, <1>2, <1>3 DEF WithinOrder
<1> QED
  BY <1>2, <1>3, <1>4, <1>5, SizeAssumption

LEMMA RetryKeeps == ASSUME IInv, Retry PROVE IInv'
<1> DEFINE left == needed - call[short].filled
<1>1. /\ Corrected /\ pc = "rebalance" /\ call[short].filled < needed /\ attempt < room
      /\ needed' = left /\ attempt' = attempt + 1
      /\ call' = [call EXCEPT ![short] = Order(attempt + 1, left)]
      /\ UNCHANGED <<pc, reported, short, room, report, execution, net, held>>
  BY DEF Retry, Corrected
<1>2. /\ short \in Leg /\ Other(short) \in Leg /\ Other(short) # short
      /\ call[short].at = "answered" /\ call[short].nth = attempt
      /\ call[Other(short)].at = "answered"
      /\ needed \in 1 .. Size /\ call[short].filled \in 0 .. needed
      /\ reported[short] + left = reported[Other(short)]
      /\ reported[short] \in 0 .. Size /\ reported[Other(short)] \in 0 .. Size
      /\ attempt \in 0 .. MaxRetries /\ room \in 0 .. MaxRetries
  BY <1>1, CorrectedFacts
<1>3. left \in 1 .. Size /\ reported[short] + left <= Size
  BY <1>1, <1>2, SizeAssumption
<1>4. attempt + 1 \in 1 .. MaxRetries /\ attempt + 1 = call[short].nth + 1 /\ attempt + 1 <= room
  BY <1>1, <1>2, RetryAssumption
<1> HIDE DEF left
<1>5. /\ call' \in [Leg -> [at : {"none", "gate", "bucket", "http", "answered"},
                            nth : 0 .. MaxRetries, size : 0 .. Size, filled : 0 .. Size]]
      /\ call'[short] = Order(attempt + 1, left) /\ \A k \in Leg : k # short => call'[k] = call[k]
      /\ NetIsCurrent' /\ WithinOrder' /\ HeldByExchange'
  BY <1>1, <1>2, <1>3, <1>4, CorrectiveOrder
<1>6. TypeOK'
  BY <1>1, <1>3, <1>4, <1>5, RetryAssumption DEF IInv, TypeOK
<1>7. Correction'
  <2>1. /\ call'[short].at = "gate" /\ call'[short].nth = attempt + 1 /\ call'[short].size = left
        /\ call'[short].filled = 0 /\ call'[Other(short)] = call[Other(short)]
    BY <1>2, <1>5 DEF Order
  <2>2. reported[short] + left = reported[Other(short)] + 0
    BY <1>2
  <2> QED
    BY <1>1, <1>2, <1>4, <2>1, <2>2 DEF Correction, Other
<1>8. Legs' /\ Outcome'
  BY <1>1 DEF Legs, Outcome
<1> QED
  BY <1>5, <1>6, <1>7, <1>8 DEF IInv

(* A correction ends with nothing missing, or with what is measured.       *)
LEMMA EndKeeps == ASSUME IInv, Resolved \/ Fail PROVE IInv'
<1>1. /\ Corrected /\ pc' = "done"
      /\ \/ report' = "resolved" /\ needed' = 0 /\ call[short].filled >= needed
         \/ report' = "failed" /\ needed' = needed - call[short].filled /\ call[short].filled < needed
      /\ UNCHANGED <<call, reported, short, attempt, room, execution, net, held>>
  BY DEF Resolved, Fail
<1>2. /\ short \in Leg /\ Other(short) \in Leg
      /\ call[short].at = "answered" /\ call[Other(short)].at = "answered"
      /\ needed \in 1 .. Size /\ call[short].filled \in 0 .. needed
      /\ reported[short] + (needed - call[short].filled) = reported[Other(short)]
      /\ reported[short] \in 0 .. Size /\ reported[Other(short)] \in 0 .. Size
  BY <1>1, CorrectedFacts
<1>3. Imbalance = needed - call[short].filled
  <2>1. reported["yes"] \in 0 .. Size /\ reported["no"] \in 0 .. Size
    BY DEF IInv, TypeOK, Leg
  <2>2. CASE short = "yes"
    BY <1>2, <2>1, <2>2, SizeAssumption DEF Imbalance, Distance, Other
  <2>3. CASE short = "no"
    BY <1>2, <2>1, <2>3, SizeAssumption DEF Imbalance, Distance, Other
  <2> QED
    BY <1>2, <2>2, <2>3 DEF Leg
<1>4. needed' \in 0 .. Size
  BY <1>1, <1>2, SizeAssumption
<1>5. TypeOK' /\ NetIsCurrent' /\ WithinOrder'
  BY <1>1, <1>4 DEF IInv, TypeOK, NetIsCurrent, WithinOrder, Waiting
<1>6. Legs' /\ Correction'
  BY <1>1 DEF Legs, Correction
<1>7. Outcome'
  <2>1. \A l \in Leg : call[l].at = "answered"
    BY <1>2, OtherLeg
  <2>2. Imbalance' = Imbalance
    BY <1>1 DEF Imbalance
  <2>3. IF report' = "failed" THEN needed' > 0 /\ needed' = Imbalance ELSE Imbalance <= MaxImbalance
    BY <1>1, <1>2, <1>3, SizeAssumption
  <2> QED
    BY <1>1, <2>1, <2>2, <2>3 DEF Outcome
<1> QED
  BY <1>1, <1>5, <1>6, <1>7, HeldKeeps DEF IInv

LEMMA StepIInv == IInv /\ [Next]_vars => IInv'
<1> SUFFICES ASSUME IInv, [Next]_vars PROVE IInv'
  OBVIOUS
<1>1. CASE Execute \/ Accept \/ Rebalance \/ Retry \/ Resolved \/ Fail \/ Crash
  BY <1>1, ExecuteKeeps, AcceptKeeps, RebalanceKeeps, RetryKeeps, EndKeeps, CrashKeeps
<1>2. ASSUME NEW l \in Leg, Pass(l) \/ Post(l) \/ Raise(l) PROVE IInv'
  BY <1>2, PassKeeps, PostKeeps, RaiseKeeps
<1>3. ASSUME NEW l \in Leg, Refuse(l) \/ Timeout(l) PROVE IInv'
  <2>1. Waiting(l) /\ Answer(l, 0)
        /\ UNCHANGED <<pc, short, needed, attempt, room, report, execution, net, held>>
    BY <1>3 DEF Refuse, Timeout, Waiting
  <2> QED
    BY <2>1, NothingFilled
<1>4. ASSUME NEW r \in net, NEW n \in 0 .. r.size, MatchAnswered(r, n) \/ MatchUnseen(r, n)
      PROVE  IInv'
  BY <1>4, AnsweredKeeps, UnseenKeeps
<1>5. CASE UNCHANGED vars
  BY <1>5 DEF vars, executor, IInv, TypeOK, NetIsCurrent, WithinOrder, Waiting, Legs,
              Correction, Outcome, Imbalance, HeldByExchange
<1> QED
  BY <1>1, <1>2, <1>3, <1>4, <1>5 DEF Next, Executor

-----------------------------------------------------------------------------

(* The types hold in every state: above all, no more than the size is ever *)
(* asked for or reported of a leg.                                         *)
THEOREM TypeCorrect == Spec => []TypeOK
<1>1. IInv => TypeOK
  BY DEF IInv
<1> QED
  BY InitIInv, StepIInv, <1>1, PTL DEF Spec

(* A result claims no fill the exchange does not have, and an execution    *)
(* that ends with every fill reported ends as its report says, whatever is *)
(* lost, late, refused or killed (partial_fill.py:94).                     *)
THEOREM OutcomesAreTrue == Spec => []OutcomeIsTrue
<1>1. ASSUME IInv PROVE OutcomeIsTrue
  <2>1. AllReported => Imbalance = Distance(held["yes"], held["no"])
    BY DEF AllReported, Imbalance, Leg
  <2> QED
    BY <1>1, <2>1 DEF IInv, Outcome, HeldByExchange, OutcomeIsTrue
<1> QED
  BY InitIInv, StepIInv, <1>1, PTL DEF Spec

(* Corrective orders, all of whose fills are reported, stay within the     *)
(* allocated size (partial_fill.py:117).                                   *)
THEOREM CorrectionsStayWithin == Spec => []NeverBeyondAllocation
<1>1. IInv => NeverBeyondAllocation
  BY SizeAssumption DEF IInv, TypeOK, NeverBeyondAllocation, AllReported
<1> QED
  BY InitIInv, StepIInv, <1>1, PTL DEF Spec

=============================================================================
