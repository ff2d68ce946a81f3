--------------------------- MODULE SettlementProofs ---------------------------
(***************************************************************************)
(* What a probing pass books, and that it is booked once, for any          *)
(* positions of any strategies on any markets, and any number of crashes.  *)
(*                                                                         *)
(* A decided market stays decided, and one that was closed undecided stays *)
(* in limbo, so what an answer said stays true while it is kept in memory  *)
(* over the next await (AnswerHolds), and what was booked stays true.  The *)
(* list of a pass goes stale only by the cycle's own settlements           *)
(* (QueueIsOpen).                                                          *)
(***************************************************************************)
EXTENDS Settlement, TLAPS

TypeOK ==
  /\ market \in [Market -> {"open", "closed"} \cup Outcome]
  /\ due \subseteq Position
  /\ pnl \in [Position -> {"open", "expected", "loss"}]
  /\ queue \subseteq Position /\ at \in Position \cup {NoPosition}
  /\ first \in {"none", "unresolved"} \cup Outcome
  /\ second \in {"none", "unresolved"} \cup Outcome
  /\ limbo \subseteq Market /\ unasked \subseteq Position
  /\ crashes \in 0 .. MaxCrashes

(* A market that is closed and undecided is one of those in limbo.         *)
ClosedIsLimbo == \A m \in Market : market[m] = "closed" => m \in limbo

(* What an exchange answered is its decision, or out of limbo a void, or   *)
(* anything on Polymarket.                                                 *)
Tells(answer, m) ==
  answer \in Outcome =>
    \/ market[m] = answer
    \/ m \in limbo /\ (answer = "void" \/ PlatformOf[m] = "polymarket")

AnswerHolds ==
  /\ at = NoPosition => first = "none"
  /\ first = "none" => second = "none"
  /\ at # NoPosition => Tells(first, First[at]) /\ Tells(second, Second[at])
  /\ second # "none" => Strategy[at] = "cross_market"

(* What a pass has still to settle is open, or was settled by the cycle.   *)
QueueIsOpen ==
  /\ at # NoPosition => at \in queue
  /\ \A p \in queue : pnl[p] = "open" \/ p \in unasked

-----------------------------------------------------------------------------

(* What a figure booked by a pass says of a position.                      *)
BookedRight(p, value) ==
  /\ value = "expected" => Pays(p) \/ Early(p) # {}
  /\ value = "loss" /\ Legs(p) \cap limbo = {} =>
       ~Pays(p) /\ \A m \in Legs(p) : market[m] \in Outcome

(* And of one that the cycle may have booked.                              *)
Booked(p, value, blind) ==
  \/ blind /\ value = "expected" /\ Strategy[p] = "intra_market"
  \/ ~blind /\ BookedRight(p, value)

AllBooked == \A p \in Position : Booked(p, pnl[p], p \in unasked)

PnlInv == TypeOK /\ ClosedIsLimbo /\ AnswerHolds /\ QueueIsOpen /\ AllBooked

(* The world moves forward: decisions stand, and limbo is not forgotten.   *)
Onward ==
  /\ \A m \in Market : market[m] \in Outcome => market'[m] = market[m]
  /\ limbo \subseteq limbo'

LEMMA LegFacts ==
  ASSUME NEW p \in Position
  PROVE  /\ Strategy[p] \in {"intra_market", "cross_market", "resolution_convergence"}
         /\ First[p] \in Market /\ Second[p] \in Market /\ Buys[p] \in {"yes", "no"}
         /\ Legs(p) \subseteq Market /\ First[p] \in Legs(p)
         /\ Strategy[p] = "cross_market" => Second[p] \in Legs(p)
BY StrategyAssumption, LegAssumption DEF Legs

LEMMA TruthStands ==
  ASSUME Onward, NEW p \in Position, NEW value, BookedRight(p, value)
  PROVE  BookedRight(p, value)'
<1>0. Early(p) # {} => Early(p)' # {}
  BY DEF Onward, Early, Legs
<1>1. Pays(p) => Pays(p)'
  BY LegFacts DEF Onward, Pays, Outcome
<1>2. ASSUME value = "loss", Legs(p) \cap limbo' = {}
      PROVE  ~Pays(p)' /\ \A m \in Legs(p) : market'[m] \in Outcome
  <2>1. ~Pays(p) /\ \A m \in Legs(p) : market[m] \in Outcome
    BY <1>2 DEF BookedRight, Onward
  <2>2. \A m \in Legs(p) : market'[m] = market[m]
    BY <2>1, LegFacts DEF Onward
  <2> QED
    BY <2>1, <2>2, LegFacts DEF Pays
<1> QED
  BY <1>0, <1>1, <1>2 DEF BookedRight, Legs

LEMMA TellsStands ==
  ASSUME Onward, NEW answer, NEW m \in Market, Tells(answer, m)
  PROVE  Tells(answer, m)'
BY DEF Onward, Tells

(* An answer of the exchange that is asked tells what it decided.          *)
LEMMA AnswersTell ==
  ASSUME PnlInv, NEW m \in Market, NEW answer \in Answers(m)
  PROVE  Tells(answer, m) /\ answer \in {"unresolved"} \cup Outcome
<1>1. market[m] \in {"open", "closed"} \cup Outcome /\ (market[m] = "closed" => m \in limbo)
  BY DEF PnlInv, TypeOK, ClosedIsLimbo
<1>2. CASE market[m] = "open"
  BY <1>2 DEF Answers, PolymarketAnswers, KalshiAnswers, Tells, Outcome
<1>3. CASE market[m] = "closed"
  BY <1>1, <1>3 DEF Answers, PolymarketAnswers, KalshiAnswers, Tells, Outcome
<1>4. CASE market[m] \in Outcome
  BY <1>4 DEF Answers, PolymarketAnswers, KalshiAnswers, Tells, Outcome
<1> QED
  BY <1>1, <1>2, <1>3, <1>4

(* realize_pnl books what the answers are worth.                           *)
LEMMA RealizedIsTrue ==
  ASSUME PnlInv, at # NoPosition, first # "none", Strategy[at] = "cross_market" => second # "none"
  PROVE  RealizePnl \in {"open", "expected", "loss"} /\ BookedRight(at, RealizePnl)
<1>1. /\ at \in Position /\ first \in {"unresolved"} \cup Outcome
      /\ second \in {"none", "unresolved"} \cup Outcome
      /\ Tells(first, First[at]) /\ Tells(second, Second[at])
      /\ second # "none" => Strategy[at] = "cross_market"
  BY DEF PnlInv, TypeOK, AnswerHolds
<1>2. /\ Strategy[at] \in {"intra_market", "cross_market", "resolution_convergence"}
      /\ First[at] \in Legs(at) /\ (Strategy[at] = "cross_market" => Second[at] \in Legs(at))
      /\ Strategy[at] # "cross_market" => Legs(at) = {First[at]}
      /\ Strategy[at] = "cross_market" => Legs(at) = {First[at], Second[at]}
      /\ Buys[at] \in {"yes", "no"}
  BY <1>1, LegFacts DEF Legs
<1>3. CASE first = "unresolved" \/ second = "unresolved"
  <2>1. RealizePnl = "open"
    BY <1>3 DEF RealizePnl, Outcome
  <2> QED
    BY <2>1 DEF BookedRight
<1>4. CASE first # "unresolved" /\ second # "unresolved" /\ (first = "void" \/ second = "void")
  <2>1. RealizePnl = "loss"
    BY <1>4 DEF RealizePnl
  <2>2. ASSUME Legs(at) \cap limbo = {}
        PROVE  ~Pays(at) /\ \A m \in Legs(at) : market[m] \in Outcome
    <3>1. market[First[at]] = first /\ first \in Outcome
      BY <1>1, <1>2, <1>4, <2>2 DEF Tells
    <3>2. Strategy[at] = "cross_market" => market[Second[at]] = second /\ second \in Outcome
      BY <1>1, <1>2, <1>4, <2>2 DEF Tells
    <3> QED
      BY <1>1, <1>2, <1>4, <3>1, <3>2 DEF Pays, Outcome
  <2> QED
    BY <2>1, <2>2 DEF BookedRight
<1>5. CASE first \in {"yes", "no"} /\ second \in {"yes", "no", "none"}
  <2>1. \/ market[First[at]] = first /\ (second # "none" => market[Second[at]] = second)
        \/ Early(at) # {}
    BY <1>1, <1>2, <1>5 DEF Tells, Outcome, Early
  <2> SUFFICES ASSUME Early(at) = {} \/ Legs(at) \cap limbo = {}
               PROVE  RealizePnl \in {"open", "expected", "loss"} /\ BookedRight(at, RealizePnl)
    <3>1. CASE ~(Early(at) = {} \/ Legs(at) \cap limbo = {})
      <4>1. RealizePnl \in {"expected", "loss"}
        BY <1>2, <1>5 DEF RealizePnl
      <4> QED
        BY <3>1, <4>1 DEF BookedRight
    <3> QED
      BY <3>1
  <2>0. market[First[at]] = first /\ (second # "none" => market[Second[at]] = second)
    BY <2>1 DEF Early
  <2>2. CASE Strategy[at] = "intra_market"
    <3>1. RealizePnl = "expected"
      BY <1>5, <2>2 DEF RealizePnl
    <3> QED
      BY <1>5, <2>0, <2>2, <3>1 DEF BookedRight, Pays
  <2>3. CASE Strategy[at] = "cross_market"
    <3>1. RealizePnl = IF first = second THEN "expected" ELSE "loss"
      BY <1>5, <2>3 DEF RealizePnl
    <3>2. Pays(at) <=> first = second
      BY <1>5, <2>0, <2>3 DEF Pays
    <3>3. \A m \in Legs(at) : market[m] \in Outcome
      BY <1>2, <1>5, <2>0, <2>3 DEF Outcome
    <3> QED
      BY <3>1, <3>2, <3>3 DEF BookedRight
  <2>4. CASE Strategy[at] = "resolution_convergence"
    <3>1. RealizePnl = IF first = Buys[at] THEN "expected" ELSE "loss"
      BY <1>5, <2>4 DEF RealizePnl
    <3>2. Pays(at) <=> first = Buys[at]
      BY <2>0, <2>4 DEF Pays
    <3>3. \A m \in Legs(at) : market[m] \in Outcome
      BY <1>2, <1>5, <2>0, <2>4 DEF Outcome
    <3> QED
      BY <3>1, <3>2, <3>3 DEF BookedRight
  <2> QED
    BY <1>2, <2>2, <2>3, <2>4
<1> QED
  BY <1>1, <1>3, <1>4, <1>5 DEF Outcome

LEMMA BookedIsTrue == PnlInv => ProbedPnlIsTrue
BY DEF PnlInv, AllBooked, Booked, BookedRight, ProbedPnlIsTrue

LEMMA InitPnlInv == Init => PnlInv
BY CrashAssumption
   DEF Init, PnlInv, TypeOK, ClosedIsLimbo, AnswerHolds, QueueIsOpen, Tells, AllBooked, Booked,
       BookedRight, Outcome

(* Whatever the world does, what was answered and booked stands.           *)
LEMMA WorldKeeps ==
  ASSUME PnlInv, Onward, UNCHANGED <<pnl, unasked, queue, at, first, second>>,
         TypeOK', ClosedIsLimbo'
  PROVE  PnlInv'
<1>1. AnswerHolds'
  <2>1. AnswerHolds /\ (at # NoPosition => First[at] \in Market /\ Second[at] \in Market)
    BY LegFacts DEF PnlInv, TypeOK
  <2>2. at # NoPosition => Tells(first, First[at])' /\ Tells(second, Second[at])'
    BY <2>1, TellsStands DEF AnswerHolds, Tells
  <2> QED
    BY <2>1, <2>2 DEF AnswerHolds
<1>2. ASSUME NEW p \in Position PROVE Booked(p, pnl[p], p \in unasked)'
  <2>1. Booked(p, pnl[p], p \in unasked)
    BY DEF PnlInv, AllBooked
  <2> QED
    BY <2>1, TruthStands DEF Booked, BookedRight
<1> QED
  BY <1>1, <1>2 DEF PnlInv, AllBooked, QueueIsOpen

-----------------------------------------------------------------------------
(* One lemma per kind of step.                                             *)

LEMMA WorldStep ==
  ASSUME PnlInv,
         \/ \E m \in Market : Close(m) \/ \E o \in Outcome : Decide(m, o)
         \/ \E p \in Position : Mature(p)
  PROVE  PnlInv'
<1>1. Onward /\ UNCHANGED <<pnl, unasked, queue, at, first, second>>
  BY DEF PnlInv, TypeOK, Close, Decide, Mature, memory, history, Onward, Outcome
<1>2. TypeOK'
  BY DEF PnlInv, TypeOK, Close, Decide, Mature, memory, history, Outcome
<1>3. ClosedIsLimbo'
  BY DEF PnlInv, TypeOK, ClosedIsLimbo, Close, Decide, Mature, memory, history, Outcome
<1> QED
  BY <1>1, <1>2, <1>3, WorldKeeps

(* While the markets stand still, so does what each figure is worth.       *)
LEMMA BookingKeeps ==
  ASSUME UNCHANGED <<market, limbo>>, NEW p \in Position, NEW value, NEW blind \in BOOLEAN,
         Booked(p, value, blind)
  PROVE  Booked(p, value, blind)'
BY DEF Booked, BookedRight, Pays, Early, Legs

LEMMA CycleStep == PnlInv /\ Cycle => PnlInv'
<1> SUFFICES ASSUME PnlInv, Cycle PROVE PnlInv'
  OBVIOUS
<1> DEFINE settled == { p \in DueForResolution : Strategy[p] = "intra_market" }
<1>1. /\ pnl' = [p \in Position |-> IF p \in settled THEN "expected" ELSE pnl[p]]
      /\ unasked' = unasked \cup settled
      /\ UNCHANGED <<market, due, queue, at, first, second, limbo, crashes>>
  BY DEF Cycle, memory
<1>2. settled \subseteq Position /\ \A p \in settled : Strategy[p] = "intra_market"
  BY DEF PnlInv, TypeOK, DueForResolution
<1> HIDE DEF settled
<1>3. TypeOK'
  BY <1>1, <1>2 DEF PnlInv, TypeOK
<1>4. ClosedIsLimbo' /\ AnswerHolds'
  BY <1>1 DEF PnlInv, ClosedIsLimbo, AnswerHolds, Tells
<1>5. QueueIsOpen'
  BY <1>1, <1>2 DEF PnlInv, TypeOK, QueueIsOpen
<1>6. ASSUME NEW p \in Position PROVE Booked(p, pnl[p], p \in unasked)'
  <2>1. CASE p \in settled
    <3>1. pnl'[p] = "expected" /\ p \in unasked'
      BY <1>1, <2>1
    <3> QED
      BY <1>2, <2>1, <3>1 DEF Booked
  <2>2. CASE p \notin settled
    <3>1. pnl'[p] = pnl[p] /\ (p \in unasked' <=> p \in unasked) /\ Booked(p, pnl[p], p \in unasked)
      BY <1>1, <2>2 DEF PnlInv, AllBooked
    <3> QED
      BY <1>1, <3>1, BookingKeeps DEF Booked, BookedRight
  <2> QED
    BY <2>1, <2>2
<1> QED
  BY <1>3, <1>4, <1>5, <1>6 DEF PnlInv, AllBooked

(* A step that books nothing and leaves the markets alone.                 *)
LEMMA QuietStep ==
  ASSUME PnlInv, UNCHANGED <<market, pnl, limbo, unasked>>,
         TypeOK', AnswerHolds', QueueIsOpen'
  PROVE  PnlInv'
<1>1. ASSUME NEW p \in Position PROVE Booked(p, pnl[p], p \in unasked)'
  <2>1. Booked(p, pnl[p], p \in unasked)
    BY DEF PnlInv, AllBooked
  <2> QED
    BY <2>1 DEF Booked, BookedRight, Pays, Early, Legs
<1> QED
  BY <1>1 DEF PnlInv, AllBooked, ClosedIsLimbo

LEMMA VisitStep ==
  ASSUME PnlInv, Begin \/ \E p \in Position : Visit(p)
  PROVE  PnlInv'
<1>1. /\ UNCHANGED <<market, pnl, first, second, limbo, unasked>> /\ TypeOK'
      /\ at' = at \/ at = NoPosition
  BY DEF PnlInv, TypeOK, Begin, Visit, DueForResolution, history
<1>2. AnswerHolds'
  BY <1>1, PositionAssumption DEF PnlInv, AnswerHolds, Tells, Outcome
<1>3. QueueIsOpen'
  BY PositionAssumption DEF PnlInv, TypeOK, QueueIsOpen, Begin, Visit, DueForResolution, history
<1> QED
  BY <1>1, <1>2, <1>3, QuietStep

LEMMA ProbeStep ==
  ASSUME PnlInv, at # NoPosition, Probe \/ ProbeFails
  PROVE  PnlInv'
<1>1. at \in Position /\ First[at] \in Market /\ Second[at] \in Market
  BY LegFacts DEF PnlInv, TypeOK
<1>2. PICK answer, m :
        /\ \/ m = First[at] /\ AskFirst(answer)
           \/ m = Second[at] /\ AskSecond(answer)
        /\ answer = "unresolved" \/ answer \in Answers(m)
  BY DEF Probe, ProbeFails
<1>3. Tells(answer, m) /\ answer \in {"unresolved"} \cup Outcome
  BY <1>1, <1>2, AnswersTell DEF Tells, Outcome
<1>4. UNCHANGED <<market, due, pnl, queue, at, limbo, unasked, crashes>>
  BY <1>2 DEF AskFirst, AskSecond, history
<1>5. TypeOK'
  BY <1>2, <1>3, <1>4 DEF PnlInv, TypeOK, AskFirst, AskSecond
<1>6. AnswerHolds'
  BY <1>2, <1>3, <1>4 DEF PnlInv, AnswerHolds, Tells, AskFirst, AskSecond, Outcome
<1>7. QueueIsOpen'
  BY <1>4 DEF PnlInv, QueueIsOpen
<1> QED
  BY <1>4, <1>5, <1>6, <1>7, QuietStep

(* The end of a pass, by an exception or by a kill.                        *)
LEMMA ForgetStep ==
  ASSUME PnlInv, (at # NoPosition /\ ProbeRaises) \/ Crash
  PROVE  PnlInv'
<1>1. Forget /\ UNCHANGED <<market, due, pnl, limbo, unasked>>
  BY DEF ProbeRaises, Crash, history
<1>2. TypeOK'
  BY <1>1, CrashAssumption DEF PnlInv, TypeOK, Forget, ProbeRaises, Crash
<1>3. AnswerHolds' /\ QueueIsOpen'
  BY <1>1 DEF AnswerHolds, QueueIsOpen, Forget
<1> QED
  BY <1>1, <1>2, <1>3, QuietStep

LEMMA SettleStep == PnlInv /\ Settle => PnlInv'
<1> SUFFICES ASSUME PnlInv, Settle PROVE PnlInv'
  OBVIOUS
<1>1. /\ at # NoPosition /\ first # "none" /\ (Strategy[at] = "cross_market" => second # "none")
      /\ IF RealizePnl = "open"
         THEN pnl' = pnl /\ unasked' = unasked
         ELSE pnl' = [pnl EXCEPT ![at] = RealizePnl] /\ unasked' = unasked \ {at}
      /\ queue' = queue \ {at}
      /\ at' = NoPosition /\ first' = "none" /\ second' = "none"
      /\ UNCHANGED <<market, due, limbo, crashes>>
  BY DEF Settle
<1>2. RealizePnl \in {"open", "expected", "loss"} /\ BookedRight(at, RealizePnl)
  BY <1>1, RealizedIsTrue
<1>3. TypeOK'
  BY <1>1, <1>2 DEF PnlInv, TypeOK
<1>4. ClosedIsLimbo' /\ AnswerHolds'
  BY <1>1 DEF PnlInv, ClosedIsLimbo, AnswerHolds
<1>5. QueueIsOpen'
  <2>1. \A p \in queue' : p # at /\ p \in queue /\ p \in Position
    BY <1>1 DEF PnlInv, TypeOK
  <2>2. \A p \in queue' : pnl'[p] = pnl[p] /\ (p \in unasked' <=> p \in unasked)
    BY <1>1, <2>1 DEF PnlInv, TypeOK
  <2> QED
    BY <1>1, <2>1, <2>2 DEF PnlInv, QueueIsOpen
<1>6. ASSUME NEW p \in Position PROVE Booked(p, pnl[p], p \in unasked)'
  <2>1. Booked(p, pnl[p], p \in unasked)
    BY DEF PnlInv, AllBooked
  <2>2. \/ pnl'[p] = pnl[p] /\ (p \in unasked' <=> p \in unasked)
        \/ p = at /\ pnl'[p] = RealizePnl /\ p \notin unasked'
    BY <1>1 DEF PnlInv, TypeOK
  <2>3. Booked(p, pnl'[p], p \in unasked')
    BY <1>2, <2>1, <2>2 DEF Booked
  <2> QED
    BY <1>1, <2>3 DEF Booked, BookedRight, Pays, Early, Legs
<1> QED
  BY <1>3, <1>4, <1>5, <1>6 DEF PnlInv, AllBooked

LEMMA StepPnlInv == PnlInv /\ [Next]_vars => PnlInv'
<1> SUFFICES ASSUME PnlInv, [Next]_vars PROVE PnlInv'
  OBVIOUS
<1>1. CASE \/ \E m \in Market : Close(m) \/ \E o \in Outcome : Decide(m, o)
           \/ \E p \in Position : Mature(p)
  BY <1>1, WorldStep
<1>2. CASE Begin \/ \E p \in Position : Visit(p)
  BY <1>2, VisitStep
<1>3. CASE at # NoPosition /\ (Probe \/ ProbeFails)
  BY <1>3, ProbeStep
<1>4. CASE (at # NoPosition /\ ProbeRaises) \/ Crash
  BY <1>4, ForgetStep
<1>5. CASE Cycle \/ Settle
  BY <1>5, CycleStep, SettleStep
<1>6. CASE UNCHANGED vars
  <2>1. UNCHANGED <<market, due, pnl, queue, at, first, second, limbo, unasked, crashes>>
    BY <1>6 DEF vars, memory, history
  <2>2. TypeOK' /\ AnswerHolds' /\ QueueIsOpen'
    BY <2>1 DEF PnlInv, TypeOK, AnswerHolds, Tells, QueueIsOpen
  <2> QED
    BY <2>1, <2>2, QuietStep
<1> QED
  BY <1>1, <1>2, <1>3, <1>4, <1>5, <1>6 DEF Next

(* What is booked changes only where a pass settles what the cycle had.    *)
LEMMA StepSettledOnce ==
  ASSUME PnlInv, [Next]_vars, NEW p \in Position, pnl[p] # "open"
  PROVE  \/ pnl'[p] = pnl[p]
         \/ p \in unasked /\ pnl[p] = "expected" /\ pnl'[p] = "loss"
<1>1. CASE Cycle
  <2> DEFINE settled == { q \in DueForResolution : Strategy[q] = "intra_market" }
  <2>1. pnl' = [q \in Position |-> IF q \in settled THEN "expected" ELSE pnl[q]]
    BY <1>1 DEF Cycle
  <2>2. p \notin settled
    BY DEF DueForResolution
  <2> QED
    BY <2>1, <2>2
<1>2. CASE Settle
  <2>1. /\ at # NoPosition /\ first # "none" /\ (Strategy[at] = "cross_market" => second # "none")
        /\ RealizePnl # "open" => pnl' = [pnl EXCEPT ![at] = RealizePnl]
        /\ RealizePnl = "open" => pnl' = pnl
    BY <1>2 DEF Settle
  <2>2. RealizePnl \in {"open", "expected", "loss"}
    BY <2>1, RealizedIsTrue
  <2>3. p # at => pnl'[p] = pnl[p]
    BY <2>1 DEF PnlInv, TypeOK
  <2>4. p = at => p \in unasked /\ pnl[p] = "expected"
    BY <2>1 DEF PnlInv, QueueIsOpen, AllBooked, Booked
  <2>5. p = at => pnl'[p] \in {pnl[p], "expected", "loss"}
    BY <2>1, <2>2 DEF PnlInv, TypeOK
  <2> QED
    BY <2>3, <2>4, <2>5
<1>3. CASE UNCHANGED pnl
  BY <1>3
<1>4. Cycle \/ Settle \/ UNCHANGED pnl
  BY DEF Next, vars, Close, Decide, Mature, Visit, Begin, Probe, ProbeFails, ProbeRaises,
         AskFirst, AskSecond, Crash
<1> QED
  BY <1>1, <1>2, <1>3, <1>4

-----------------------------------------------------------------------------

(* Whatever order positions mature, markets close, are decided and are     *)
(* asked in, and wherever a pass raises or the process is killed, a pass   *)
(* books a profit only on markets that were decided in favour of the       *)
(* position, or that Polymarket showed decided early, and a loss on a      *)
(* position whose markets were never seen closed undecided only when they  *)
(* were decided against it; nothing but a delta-neutral position is ever   *)
(* booked unasked.                                                         *)
THEOREM ProbedProfitsAreTrue == Spec => []ProbedPnlIsTrue
BY InitPnlInv, StepPnlInv, BookedIsTrue, PTL DEF Spec

(* However often passes are started, raise or are killed, what is booked   *)
(* stays booked, but for the unasked profit of a delta-neutral position    *)
(* that a pass under way found void.                                       *)
THEOREM PositionsAreSettledOnce == Spec => SettledOnce
<1>1. PnlInv /\ [Next]_vars =>
        [\A p \in Position : pnl[p] # "open" =>
           \/ pnl'[p] = pnl[p]
           \/ p \in unasked /\ pnl[p] = "expected" /\ pnl'[p] = "loss"]_vars
  BY StepSettledOnce
<1> QED
  BY <1>1, InitPnlInv, StepPnlInv, PTL DEF Spec, SettledOnce

=============================================================================
