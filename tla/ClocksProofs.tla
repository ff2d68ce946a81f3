----------------------------- MODULE ClocksProofs -----------------------------
(***************************************************************************)
(* What the program decides by the clock is decided right, for any values  *)
(* of the limits, windows and thresholds: by the rate limiter, the alert   *)
(* limiter, the age filter, the gates of live trading and the feature      *)
(* flags.  They share the clock and nothing else, so each has an invariant *)
(* of its own, and theorems about its own specification.                   *)
(***************************************************************************)
EXTENDS TokenBucket, AlertLimiter, AdverseSelection, Graduation, FeatureFlags,
        FiniteSetTheorems, TLAPS

-----------------------------------------------------------------------------
(***************************************************************************)
(* The rate limiter grants no window of time more than the burst and what  *)
(* the rate refills, for any rate, burst, cost of a token and tasks.       *)
(*                                                                         *)
(* RateRespected is not inductive: a grant must have been paid for by what *)
(* the bucket holds.  What was granted in the window and what the bucket   *)
(* would hold if it were refilled now fit the limit together: a grant      *)
(* moves a token from one to the other, a refill changes nothing of it,    *)
(* and time adds the rate to both sides, or less where the bucket is full. *)
(***************************************************************************)

Funded == since >= 0 => granted + Refilled <= Burst + Rate * (now - since)

RateInv == TypeOK /\ Funded

(* Multiplication by Rate, as far as the steps need it.                    *)
LEMMA RateTimes ==
  /\ Rate * 0 = 0
  /\ \A n \in Nat : Rate * n \in Nat
  /\ \A n \in Int : Rate * (n + 1) = Rate * n + Rate
BY RateAssumption

(* What the bucket holds when refilled is within its capacity, and a       *)
(* second refill at the same time adds nothing to it.                      *)
LEMMA RefilledInBurst ==
  ASSUME TypeOK
  PROVE  Refilled \in 0 .. Burst /\ now - last \in Nat /\ tokens + Rate * (now - last) \in Nat
<1>1. now \in Nat /\ last \in 0 .. now /\ tokens \in 0 .. Burst
  BY TimeAssumption DEF TypeOK, Time
<1>2. now - last \in Nat
  BY <1>1
<1>3. Rate * (now - last) \in Nat
  BY <1>2, RateTimes
<1> QED
  BY <1>1, <1>2, <1>3, BurstAssumption DEF Refilled, Smaller

(* A refill noted now is the whole of what a later one adds to.            *)
LEMMA RefilledOnce ==
  ASSUME TypeOK, now' = now, last' = now, tokens' \in 0 .. Burst
  PROVE  Refilled' = tokens'
<1>1. now \in Nat
  BY TimeAssumption DEF TypeOK, Time
<1>2. Rate * (now - now) = 0
  BY <1>1, RateTimes
<1> QED
  BY <1>1, <1>2, BurstAssumption DEF Refilled, Smaller

LEMMA InitRateInv == Init => RateInv
BY TimeAssumption, BurstAssumption, RateAssumption
   DEF Init, ClockInit, RateInv, TypeOK, Funded, Time

LEMMA StepRateInv == RateInv /\ [Next]_vars => RateInv'
<1> SUFFICES ASSUME RateInv, [Next]_vars
             PROVE  RateInv'
  OBVIOUS
<1> USE TimeAssumption, CostAssumption, RateAssumption, BurstAssumption
<1>0. /\ TypeOK /\ Funded
      /\ Refilled \in 0 .. Burst
      /\ now \in Nat /\ last \in 0 .. now /\ granted \in Nat /\ since \in -1 .. now
  BY RefilledInBurst DEF RateInv, TypeOK, Time
<1>1. CASE Tick
  <2>1. now' = now + 1 /\ now' \in Time /\ UNCHANGED <<tokens, last, at, wake, since, granted>>
    BY <1>0, <1>1 DEF Tick, Passes, Time, bucket, window
  <2>2. TypeOK'
    BY <1>0, <2>1 DEF TypeOK, Time
  <2>3. Rate * (now + 1 - last) = Rate * (now - last) + Rate
    BY <1>0, RateTimes
  <2>4. PICK full \in Int : full = Refilled' /\ full <= Burst /\ full <= Refilled + Rate
    BY <1>0, <2>1, <2>3, RefilledInBurst DEF Refilled, Smaller, TypeOK
  <2>5. ASSUME since >= 0 PROVE Rate * (now - since) \in Nat
    BY <1>0, <2>5, RateTimes
  <2>6. ASSUME since >= 0 PROVE Rate * (now + 1 - since) = Rate * (now - since) + Rate
    BY <1>0, <2>6, RateTimes
  <2>7. Funded'
    <3>0. /\ now' = now + 1 /\ since' = since /\ granted' = granted /\ Refilled' = full
          /\ now \in Int /\ since \in Int /\ granted \in Int
      BY <1>0, <2>1, <2>4
    <3> SUFFICES ASSUME since >= 0 PROVE granted + full <= Burst + Rate * (now + 1 - since)
      BY <3>0 DEF Funded
    <3>1. PICK refill \in Int : refill = Rate * (now - since) /\ granted + Refilled <= Burst + refill
      BY <1>0, <2>5 DEF Funded
    <3>2. Rate * (now + 1 - since) = refill + Rate
      BY <2>6, <3>1
    <3>3. full <= Refilled + Rate /\ granted \in Int /\ Refilled \in Int /\ Rate \in Int /\ Burst \in Int
      BY <1>0, <2>4
    <3>4. granted + Refilled <= Burst + refill
      BY <3>1
    <3>5. granted + full <= Burst + (refill + Rate)
      BY <3>3, <3>4
    <3> QED
      BY <3>2, <3>5
  <2> QED
    BY <2>2, <2>7 DEF RateInv
<1>2. CASE \E c \in Caller : Ask(c) \/ Wake(c)
  BY <1>0, <1>2 DEF Ask, Wake, bucket, window, RateInv, TypeOK, Funded, Refilled, Time
<1>3. ASSUME NEW c \in Caller, Take(c) PROVE RateInv'
  <2>1. tokens' = Refilled - Cost /\ last' = now /\ now' = now /\ since' = since /\ granted' = granted + Cost
    BY <1>3 DEF Take
  <2>2. tokens' \in 0 .. Burst
    BY <1>0, <1>3, <2>1 DEF Take
  <2>3. TypeOK'
    BY <1>0, <1>3, <2>1, <2>2 DEF Take, TypeOK, Time
  <2>4. Refilled' = Refilled - Cost
    BY <1>0, <2>1, <2>2, RefilledOnce
  <2>5. ASSUME since >= 0 PROVE Rate * (now - since) \in Nat
    BY <1>0, <2>5, RateTimes
  <2> QED
    BY <1>0, <2>1, <2>3, <2>4, <2>5 DEF RateInv, Funded
<1>4. ASSUME NEW c \in Caller, Sleep(c) PROVE RateInv'
  <2>1. tokens' = Refilled /\ last' = now /\ UNCHANGED <<now, since, granted>>
    BY <1>4 DEF Sleep, window
  <2>2. Wait(Cost - Refilled) \in Nat
    BY <1>0, <1>4 DEF Sleep, Wait
  <2>3. TypeOK'
    BY <1>0, <1>4, <2>1, <2>2 DEF Sleep, TypeOK, Time
  <2>4. Refilled' = Refilled
    BY <1>0, <2>1, RefilledOnce
  <2> QED
    BY <1>0, <2>1, <2>3, <2>4 DEF RateInv, Funded
<1>5. CASE Observe
  <2>1. tokens' = Refilled /\ last' = now /\ UNCHANGED <<now, at, wake, since, granted>>
    BY <1>5 DEF Observe, window
  <2>2. TypeOK'
    BY <1>0, <2>1 DEF TypeOK, Time
  <2>3. Refilled' = Refilled
    BY <1>0, <2>1, RefilledOnce
  <2> QED
    BY <1>0, <2>1, <2>2, <2>3 DEF RateInv, Funded
<1>6. CASE OpenWindow
  <2>1. since' = now /\ granted' = 0 /\ UNCHANGED <<now, tokens, last, at, wake>>
    BY <1>6 DEF OpenWindow, bucket
  <2>2. TypeOK'
    BY <1>0, <2>1 DEF TypeOK, Time
  <2>3. Refilled' = Refilled
    BY <2>1 DEF Refilled
  <2>4. Rate * (now - now) = 0
    BY <1>0, RateTimes
  <2> QED
    BY <1>0, <2>1, <2>2, <2>3, <2>4 DEF RateInv, Funded
<1>7. CASE UNCHANGED vars
  BY <1>0, <1>7 DEF vars, bucket, window, RateInv, TypeOK, Funded, Refilled, Time
<1> QED
  BY <1>1, <1>2, <1>3, <1>4, <1>5, <1>6, <1>7 DEF Next

(* The types of the bucket, its tasks and the window hold in every state:  *)
(* above all, the tokens are never negative and never beyond the burst.    *)
THEOREM BucketTypes == Spec => []TypeOK
<1>1. RateInv => TypeOK
  BY DEF RateInv
<1> QED
  BY InitRateInv, StepRateInv, <1>1, PTL DEF Spec

(* In any window of time the tasks together are granted at most the burst  *)
(* and what the rate refills meanwhile, whoever refills, sleeps or looks   *)
(* (rate_limit.py:55).                                                     *)
THEOREM WindowsAreWithinRate == Spec => []RateRespected
<1>1. ASSUME RateInv PROVE RateRespected
  <2>1. Refilled \in 0 .. Burst /\ now \in Nat /\ granted \in Nat /\ since \in -1 .. now
    BY <1>1, RefilledInBurst, TimeAssumption DEF RateInv, TypeOK, Time
  <2>2. ASSUME since >= 0 PROVE Rate * (now - since) \in Nat
    BY <2>1, <2>2, RateTimes
  <2> QED
    BY <1>1, <2>1, <2>2, BurstAssumption DEF RateInv, Funded, RateRespected
<1> QED
  BY InitRateInv, StepRateInv, <1>1, PTL DEF Spec

-----------------------------------------------------------------------------
(***************************************************************************)
(* No hour lets more alerts through than the limit, for any limit, window  *)
(* and number of restarts.                                                 *)
(*                                                                         *)
(* AlertsLimited is not inductive: it says nothing of what the limiter     *)
(* looks at.  Every alert it let through is still counted there, or was    *)
(* refused by the table (SentIsCounted), and none is ahead of time         *)
(* (NoneAhead).  So the hour up to a new alert, and any later hour that it *)
(* falls in, had room for it.                                              *)
(***************************************************************************)

Counted == IF stored THEN rows ELSE recent

SentIsCounted ==
  \A u \in Time :
    \/ sent[u] <= Counted[u] + unlogged[u]
    \/ ~stored /\ u < now - Hour

NoneAhead == \A u \in Time : u > now => sent[u] = 0 /\ recent[u] = 0

AlertInv == AlertTypeOK /\ SentIsCounted /\ NoneAhead /\ AlertsLimited

LEMMA AlertNumbers ==
  /\ MaxAlerts \in Nat /\ Hour \in Nat /\ MaxPerTime \in Nat /\ Most \in Nat
  /\ MaxAlerts <= Most /\ MaxPerTime <= Most
  /\ Time \subseteq Nat /\ 0 \in Time
BY AlertAssumption, TimeAssumption DEF Most, Time

(* What an hour holds is a sum, of which these are the facts.  (They are    *)
(* facts of CapitalUnits, some of which PaperTradingProofs needs as well.)  *)

(* The units of finitely many holders are finitely many.                   *)
LEMMA UnitsFinite ==
  ASSUME NEW S, IsFiniteSet(S), NEW max \in Nat, NEW f
  PROVE  IsFiniteSet(Units(S, max, f)) /\ Held(S, max, f) \in Nat
<1>1. IsFiniteSet(1 .. max)
  BY FS_Interval
<1>2. IsFiniteSet(S \X (1 .. max))
  BY <1>1, FS_Product
<1>3. Units(S, max, f) \subseteq S \X (1 .. max)
  BY DEF Units
<1>4. IsFiniteSet(Units(S, max, f))
  BY <1>2, <1>3, FS_Subset
<1> QED
  BY <1>4, FS_CardinalityType DEF Held

(* Nobody holds anything, so nothing is held.                              *)
LEMMA HeldNothing ==
  ASSUME NEW S, NEW max \in Nat, NEW f, \A s \in S : f[s] = 0
  PROVE  Held(S, max, f) = 0
<1>1. Units(S, max, f) = {}
  BY DEF Units
<1> QED
  BY <1>1, FS_EmptySet DEF Held

(* Whoever holds anything is among others who hold no less.                *)
LEMMA HeldLess ==
  ASSUME NEW D, NEW max \in Nat, NEW f \in [D -> 0 .. max], NEW g \in [D -> 0 .. max],
         NEW S \in SUBSET D, NEW T \in SUBSET D, IsFiniteSet(T),
         \A s \in S : f[s] = 0 \/ (s \in T /\ f[s] <= g[s])
  PROVE  Held(S, max, f) <= Held(T, max, g)
<1>1. Units(S, max, f) \subseteq Units(T, max, g)
  <2> SUFFICES ASSUME NEW s \in S, NEW i \in 1 .. max, i <= f[s]
               PROVE  s \in T /\ i <= g[s]
    BY DEF Units
  <2>1. f[s] \in Int /\ g[s] \in Int
    OBVIOUS
  <2> QED
    BY <2>1
<1>2. IsFiniteSet(Units(T, max, g))
  BY UnitsFinite
<1> QED
  BY <1>1, <1>2, FS_Subset DEF Held

(* The units of one holder are as many as the amount it holds.             *)
LEMMA UnitsOfOne ==
  ASSUME NEW s, NEW a \in Nat
  PROVE  IsFiniteSet({s} \X (1 .. a)) /\ Cardinality({s} \X (1 .. a)) = a
<1>1. IsFiniteSet(1 .. a) /\ Cardinality(1 .. a) = a
  <2>1. 1 \in Int /\ a \in Int
    OBVIOUS
  <2>2. Cardinality(1 .. a) = IF 1 > a THEN 0 ELSE a - 1 + 1
    BY <2>1, FS_Interval
  <2> QED
    BY <2>1, <2>2, FS_Interval
<1>2. IsFiniteSet({s}) /\ Cardinality({s}) = 1
  BY FS_Singleton
<1>3. /\ IsFiniteSet({s} \X (1 .. a))
      /\ Cardinality({s} \X (1 .. a)) = Cardinality({s}) * Cardinality(1 .. a)
  BY <1>1, <1>2, FS_Product
<1>4. Cardinality({s} \X (1 .. a)) = 1 * a
  BY <1>1, <1>2, <1>3
<1> QED
  BY <1>3, <1>4

(* What one holder holds is part of what all hold.                         *)
LEMMA HeldByOne ==
  ASSUME NEW S, IsFiniteSet(S), NEW max \in Nat, NEW f, NEW s \in S, f[s] \in 0 .. max
  PROVE  f[s] <= Held(S, max, f)
<1>1. IsFiniteSet({s} \X (1 .. f[s])) /\ Cardinality({s} \X (1 .. f[s])) = f[s]
  <2>1. f[s] \in Nat
    OBVIOUS
  <2> QED
    BY <2>1, UnitsOfOne
<1>2. {s} \X (1 .. f[s]) \subseteq Units(S, max, f)
  BY DEF Units
<1>3. IsFiniteSet(Units(S, max, f))
  BY UnitsFinite
<1> QED
  BY <1>1, <1>2, <1>3, FS_Subset DEF Held

(* One unit more for one holder is one unit more in total.                 *)
LEMMA HeldOneMore ==
  ASSUME NEW S, IsFiniteSet(S), NEW max \in Nat,
         NEW f, NEW g, NEW s \in S, \A t \in S \ {s} : g[t] = f[t],
         f[s] \in Nat, g[s] = f[s] + 1, g[s] <= max
  PROVE  Held(S, max, g) = Held(S, max, f) + 1
<1>1. Units(S, max, g) = Units(S, max, f) \cup {<<s, g[s]>>}
  <2>1. ASSUME NEW t \in S, NEW i \in 1 .. max
        PROVE  i <= g[t] <=> i <= f[t] \/ (t = s /\ i = g[s])
    OBVIOUS
  <2>2. g[s] \in 1 .. max
    OBVIOUS
  <2> QED
    BY <2>1, <2>2 DEF Units
<1>2. <<s, g[s]>> \notin Units(S, max, f)
  BY DEF Units
<1>3. IsFiniteSet(Units(S, max, f))
  BY UnitsFinite
<1> QED
  BY <1>1, <1>2, <1>3, FS_AddElement DEF Held

(* Whoever holds no more than two others hold together, holder by holder,  *)
(* holds no more than they do in total.                                    *)
LEMMA HeldWithin ==
  ASSUME NEW D, NEW max \in Nat,
         NEW f \in [D -> 0 .. max], NEW g \in [D -> 0 .. max], NEW h \in [D -> 0 .. max],
         NEW S \in SUBSET D, IsFiniteSet(S), NEW T \in SUBSET D, IsFiniteSet(T),
         \A s \in S : h[s] = 0 \/ (s \in T /\ h[s] <= f[s] + g[s])
  PROVE  Held(S, max, h) <= Held(T, max, f) + Held(S, max, g)
<1> DEFINE F == Units(T, max, f)
           G == Units(S, max, g)
           shift == [u \in G |-> <<u[1], f[u[1]] + u[2]>>]
           I == { shift[u] : u \in G }
<1>1. IsFiniteSet(F) /\ IsFiniteSet(G) /\ Cardinality(F) \in Nat /\ Cardinality(G) \in Nat
  BY UnitsFinite DEF Held
<1>2. IsFiniteSet(I) /\ Cardinality(I) <= Cardinality(G)
  <2>1. shift \in Surjection(G, I)
    BY DEF Surjection
  <2> HIDE DEF shift, I, G
  <2> QED
    BY <1>1, <2>1, FS_Surjection
<1>3. Units(S, max, h) \subseteq F \cup I
  <2> SUFFICES ASSUME NEW s \in S, NEW i \in 1 .. max, i <= h[s]
               PROVE  <<s, i>> \in F \cup I
    BY DEF Units
  <2>1. f[s] \in 0 .. max /\ g[s] \in 0 .. max /\ h[s] \in 0 .. max
    OBVIOUS
  <2>2. s \in T /\ h[s] <= f[s] + g[s]
    BY <2>1
  <2>3. CASE i <= f[s]
    BY <2>2, <2>3 DEF Units
  <2>4. CASE ~(i <= f[s])
    <3>1. i - f[s] \in 1 .. max /\ i - f[s] <= g[s]
      BY <2>1, <2>2, <2>4
    <3>2. <<s, i - f[s]>> \in G
      BY <3>1 DEF Units
    <3>3. shift[<<s, i - f[s]>>] = <<s, i>>
      BY <2>1, <3>2
    <3> QED
      BY <3>2, <3>3
  <2> QED
    BY <2>3, <2>4
<1> HIDE DEF F, G, I
<1>4. IsFiniteSet(F \cup I) /\ Cardinality(F \cup I) <= Cardinality(F) + Cardinality(I)
  <2>1. Cardinality(F \cap I) \in Nat
    BY <1>1, FS_Subset, FS_CardinalityType
  <2>2. Cardinality(I) \in Nat
    BY <1>2, FS_CardinalityType
  <2>3. IsFiniteSet(F \cup I) /\ Cardinality(F \cup I) = Cardinality(F) + Cardinality(I) - Cardinality(F \cap I)
    BY <1>1, <1>2, FS_Union
  <2> QED
    BY <1>1, <2>1, <2>2, <2>3
<1>5. Cardinality(Units(S, max, h)) \in Nat /\ Cardinality(Units(S, max, h)) <= Cardinality(F \cup I)
  BY <1>3, <1>4, FS_Subset, FS_CardinalityType
<1>6. Cardinality(I) \in Nat /\ Cardinality(F \cup I) \in Nat
  BY <1>2, <1>4, FS_CardinalityType
<1> QED
  BY <1>1, <1>2, <1>4, <1>5, <1>6 DEF Held, F, G

(* An hour is a finite part of the time.                                   *)
LEMMA HourIsFinite ==
  ASSUME NEW t \in Time
  PROVE  HourTo(t) \in SUBSET Time /\ IsFiniteSet(HourTo(t))
<1>1. IsFiniteSet(0 .. t) /\ HourTo(t) \subseteq 0 .. t
  BY AlertNumbers, FS_Interval DEF HourTo
<1>2. 0 .. t \subseteq Time
  BY TimeAssumption DEF Time
<1> QED
  BY <1>1, <1>2, FS_Subset

LEMMA AlertsAreCounts ==
  ASSUME AlertTypeOK
  PROVE  /\ rows \in [Time -> 0 .. Most] /\ recent \in [Time -> 0 .. Most]
         /\ sent \in [Time -> 0 .. Most] /\ unlogged \in [Time -> 0 .. Most]
         /\ Counted \in [Time -> 0 .. Most]
BY AlertNumbers DEF AlertTypeOK, Counted

LEMMA HourIsNumber ==
  ASSUME NEW t \in Time, NEW count
  PROVE  LastHour(count, t) \in Nat
BY HourIsFinite, AlertNumbers, UnitsFinite DEF LastHour

(* An hour of a count that is nowhere less is no less.                     *)
LEMMA HourLess ==
  ASSUME NEW count \in [Time -> 0 .. Most], NEW more \in [Time -> 0 .. Most],
         NEW t \in Time, \A u \in HourTo(t) : count[u] <= more[u]
  PROVE  LastHour(count, t) <= LastHour(more, t)
BY HourIsFinite, AlertNumbers, HeldLess DEF LastHour

LEMMA HourNothing == ASSUME NEW t \in Time PROVE LastHour(None, t) = 0
<1>1. \A u \in HourTo(t) : None[u] = 0
  BY HourIsFinite DEF None
<1> QED
  BY <1>1, AlertNumbers, HeldNothing DEF LastHour

LEMMA InitAlertInv == AlertInit => AlertInv
<1> SUFFICES ASSUME AlertInit PROVE AlertInv
  OBVIOUS
<1>1. /\ now = 0 /\ now \in Time /\ stored \in BOOLEAN
      /\ rows = None /\ recent = None /\ sent = None /\ unlogged = None
      /\ \A u \in Time : None[u] = 0
  BY AlertNumbers DEF AlertInit, ClockInit, None
<1>2. \A t \in Time : LastHour(None, t) = 0
  BY HourNothing
<1>3. AlertTypeOK
  <2>1. None \in [Time -> 0 .. MaxPerTime] /\ None \in [Time -> 0 .. MaxAlerts] /\ None \in [Time -> 0 .. Most]
    BY AlertNumbers DEF None
  <2> QED
    BY <1>1, <1>2, <2>1, AlertNumbers DEF AlertTypeOK
<1>4. SentIsCounted /\ NoneAhead
  BY <1>1 DEF SentIsCounted, NoneAhead, Counted
<1>5. AlertsLimited
  BY <1>1, <1>2, AlertNumbers DEF AlertsLimited
<1> QED
  BY <1>3, <1>4, <1>5 DEF AlertInv

(* An alert that finds room in the hour up to now leaves no hour it falls  *)
(* in with more than the limit: what was let through then is counted in    *)
(* the hour up to now, or was refused by the table.                        *)
LEMMA RoomInEveryHour ==
  ASSUME AlertInv, Allowed, NEW t \in Time, now \in HourTo(t)
  PROVE  LastHour(sent, t) + 1 <= MaxAlerts + LastHour(unlogged, t)
<1>1. /\ Counted \in [Time -> 0 .. Most] /\ sent \in [Time -> 0 .. Most]
      /\ unlogged \in [Time -> 0 .. Most] /\ now \in Time
  BY AlertsAreCounts DEF AlertInv, AlertTypeOK
<1>2. /\ HourTo(t) \in SUBSET Time /\ IsFiniteSet(HourTo(t))
      /\ HourTo(now) \in SUBSET Time /\ IsFiniteSet(HourTo(now))
  BY <1>1, HourIsFinite
<1>3. ASSUME NEW u \in HourTo(t)
      PROVE  sent[u] = 0 \/ (u \in HourTo(now) /\ sent[u] <= Counted[u] + unlogged[u])
  <2>1. u \in Time /\ u \in Nat /\ now \in Nat /\ t \in Nat /\ Hour \in Nat /\ u >= t - Hour /\ now <= t
    BY <1>1, <1>2, AlertNumbers DEF HourTo
  <2>2. CASE u > now
    BY <2>1, <2>2 DEF AlertInv, NoneAhead
  <2>3. CASE u <= now
    <3>1. u \in HourTo(now) /\ ~(u < now - Hour)
      BY <2>1, <2>3 DEF HourTo
    <3> QED
      BY <2>1, <3>1 DEF AlertInv, SentIsCounted
  <2> QED
    BY <2>1, <2>2, <2>3
<1>4. LastHour(sent, t) <= LastHour(Counted, now) + LastHour(unlogged, t)
  BY <1>1, <1>2, <1>3, AlertNumbers, HeldWithin DEF LastHour
<1>5. LastHour(Counted, now) < MaxAlerts
  BY DEF Allowed, Counted
<1> QED
  BY <1>1, <1>4, <1>5, HourIsNumber, AlertNumbers

(* Nor are there ever more at one time than can be told apart.             *)
LEMMA RoomForOneMore ==
  ASSUME AlertInv, Allowed
  PROVE  /\ now \in HourTo(now) /\ Counted[now] < MaxAlerts
         /\ sent[now] <= Counted[now] + unlogged[now]
<1>1. /\ Counted \in [Time -> 0 .. Most] /\ sent \in [Time -> 0 .. Most]
      /\ unlogged \in [Time -> 0 .. Most] /\ now \in Time /\ now \in Nat
  BY AlertsAreCounts, AlertNumbers DEF AlertInv, AlertTypeOK
<1>2. now \in HourTo(now) /\ ~(now < now - Hour)
  BY <1>1, AlertNumbers DEF HourTo
<1>3. Counted[now] <= LastHour(Counted, now)
  BY <1>1, <1>2, HourIsFinite, HeldByOne, AlertNumbers DEF LastHour
<1>4. LastHour(Counted, now) < MaxAlerts
  BY DEF Allowed, Counted
<1>5. Counted[now] < MaxAlerts
  BY <1>1, <1>3, <1>4, HourIsNumber, AlertNumbers
<1> QED
  BY <1>1, <1>2, <1>5 DEF AlertInv, SentIsCounted

LEMMA TrimmedIsRecent ==
  ASSUME AlertInv
  PROVE  /\ Trimmed \in [Time -> 0 .. MaxAlerts] /\ Trimmed \in [Time -> 0 .. Most]
         /\ \A u \in Time : ~(u < now - Hour) => Trimmed[u] = recent[u]
         /\ \A u \in Time : u > now => Trimmed[u] = 0
         /\ LastHour(Trimmed, now) = LastHour(recent, now)
<1>1. recent \in [Time -> 0 .. MaxAlerts] /\ recent \in [Time -> 0 .. Most] /\ now \in Time
  BY AlertsAreCounts DEF AlertInv, AlertTypeOK
<1>2. /\ Trimmed \in [Time -> 0 .. MaxAlerts] /\ Trimmed \in [Time -> 0 .. Most]
      /\ \A u \in Time : ~(u < now - Hour) => Trimmed[u] = recent[u]
  BY <1>1, AlertNumbers DEF Trimmed
<1>3. \A u \in Time : u > now => Trimmed[u] = 0
  BY <1>1 DEF AlertInv, NoneAhead, Trimmed
<1>4. \A u \in HourTo(now) : Trimmed[u] = recent[u] /\ recent[u] \in Nat
  <2> SUFFICES ASSUME NEW u \in HourTo(now) PROVE Trimmed[u] = recent[u] /\ recent[u] \in Nat
    OBVIOUS
  <2>1. u \in Time /\ u \in Nat /\ now \in Nat /\ u >= now - Hour
    BY <1>1, HourIsFinite, AlertNumbers DEF HourTo
  <2> QED
    BY <1>1, <1>2, <2>1, AlertNumbers
<1>5. \A u \in HourTo(now) : Trimmed[u] <= recent[u] /\ recent[u] <= Trimmed[u]
  BY <1>4
<1>6. LastHour(Trimmed, now) <= LastHour(recent, now) /\ LastHour(recent, now) <= LastHour(Trimmed, now)
  BY <1>1, <1>2, <1>5, HourLess
<1> QED
  BY <1>1, <1>2, <1>3, <1>6, HourIsNumber

LEMMA SuppressStep == AlertInv /\ Suppress => AlertInv'
<1> SUFFICES ASSUME AlertInv, Suppress PROVE AlertInv'
  OBVIOUS
<1>1. /\ recent' = (IF stored THEN recent ELSE Trimmed)
      /\ UNCHANGED <<now, stored, rows, sent, unlogged>>
  BY DEF Suppress
<1>2. AlertTypeOK'
  BY <1>1, TrimmedIsRecent DEF AlertInv, AlertTypeOK, Most, LastHour, HourTo
<1>3. SentIsCounted'
  <2> SUFFICES ASSUME NEW u \in Time
               PROVE  sent[u] <= Counted'[u] + unlogged[u] \/ (~stored /\ u < now - Hour)
    BY <1>1 DEF SentIsCounted
  <2>1. Counted'[u] = Counted[u] \/ (~stored /\ u < now - Hour)
    BY <1>1, TrimmedIsRecent DEF Counted
  <2> QED
    BY <2>1 DEF AlertInv, SentIsCounted
<1>4. NoneAhead'
  BY <1>1, TrimmedIsRecent DEF AlertInv, NoneAhead
<1>5. AlertsLimited'
  BY <1>1 DEF AlertInv, AlertsLimited, LastHour, HourTo, Most
<1> QED
  BY <1>2, <1>3, <1>4, <1>5 DEF AlertInv

LEMMA SendForcedStep ==
  ASSUME AlertInv, NEW logged \in BOOLEAN, SendForced(logged)
  PROVE  AlertInv'
<1>1. /\ rows' = (IF stored /\ logged THEN [rows EXCEPT ![now] = @ + 1] ELSE rows)
      /\ rows[now] < MaxPerTime /\ UNCHANGED <<now, stored, recent, sent, unlogged>>
  BY DEF SendForced, Record
<1>2. rows' \in [Time -> 0 .. MaxPerTime] /\ \A u \in Time : rows[u] <= rows'[u]
  BY <1>1, AlertNumbers DEF AlertInv, AlertTypeOK
<1>3. AlertTypeOK'
  BY <1>1, <1>2 DEF AlertInv, AlertTypeOK, LastHour, HourTo, Most
<1>4. SentIsCounted'
  <2> SUFFICES ASSUME NEW u \in Time
               PROVE  sent[u] <= Counted'[u] + unlogged[u] \/ (~stored /\ u < now - Hour)
    BY <1>1 DEF SentIsCounted
  <2>1. /\ Counted[u] <= Counted'[u] /\ Counted[u] \in Int /\ Counted'[u] \in Int
        /\ sent[u] \in Int /\ unlogged[u] \in Int
    BY <1>1, <1>2, AlertNumbers DEF AlertInv, AlertTypeOK, Counted
  <2> QED
    BY <2>1 DEF AlertInv, SentIsCounted
<1>5. NoneAhead' /\ AlertsLimited'
  BY <1>1 DEF AlertInv, NoneAhead, AlertsLimited, LastHour, HourTo, Most
<1> QED
  BY <1>3, <1>4, <1>5 DEF AlertInv

LEMMA SendLimitedStep ==
  ASSUME AlertInv, NEW logged \in BOOLEAN, SendLimited(logged)
  PROVE  AlertInv'
<1>1. /\ Allowed /\ rows[now] < MaxPerTime /\ unlogged[now] < MaxPerTime
      /\ rows' = (IF stored /\ logged THEN [rows EXCEPT ![now] = @ + 1] ELSE rows)
      /\ recent' = (IF stored THEN recent ELSE [Trimmed EXCEPT ![now] = @ + 1])
      /\ unlogged' = (IF stored /\ ~logged THEN [unlogged EXCEPT ![now] = @ + 1] ELSE unlogged)
      /\ sent' = [sent EXCEPT ![now] = @ + 1]
      /\ UNCHANGED <<now, stored>>
  BY DEF SendLimited, Record
<1>2. /\ now \in Time /\ now \in HourTo(now) /\ Counted[now] < MaxAlerts
      /\ sent[now] <= Counted[now] + unlogged[now]
      /\ Counted \in [Time -> 0 .. Most] /\ sent \in [Time -> 0 .. Most]
      /\ rows \in [Time -> 0 .. MaxPerTime] /\ unlogged \in [Time -> 0 .. MaxPerTime]
      /\ recent \in [Time -> 0 .. MaxAlerts]
      /\ Trimmed \in [Time -> 0 .. MaxAlerts]
      /\ \A u \in Time : ~(u < now - Hour) => Trimmed[u] = recent[u]
  BY <1>1, RoomForOneMore, TrimmedIsRecent, AlertsAreCounts DEF AlertInv, AlertTypeOK
<1>3. sent[now] + 1 \in 0 .. Most
  BY <1>1, <1>2, AlertNumbers DEF Most
<1>4. Trimmed[now] = recent[now] /\ (~stored => Counted = recent) /\ ~(now < now - Hour)
  BY <1>2, AlertNumbers DEF Counted
<1>5. /\ rows' \in [Time -> 0 .. MaxPerTime] /\ unlogged' \in [Time -> 0 .. MaxPerTime]
      /\ recent' \in [Time -> 0 .. MaxAlerts] /\ sent' \in [Time -> 0 .. Most]
      /\ sent'[now] = sent[now] + 1 /\ \A u \in Time \ {now} : sent'[u] = sent[u]
      /\ \A u \in Time : unlogged[u] <= unlogged'[u]
  BY <1>1, <1>2, <1>3, <1>4, AlertNumbers
<1>6. LastHour(recent', now) <= MaxAlerts
  <2>1. CASE stored
    BY <1>1, <2>1 DEF AlertInv, AlertTypeOK
  <2>2. CASE ~stored
    <3>1. /\ recent'[now] = Trimmed[now] + 1 /\ \A u \in Time \ {now} : recent'[u] = Trimmed[u]
          /\ Trimmed[now] \in Nat /\ recent'[now] <= Most
      BY <1>1, <1>2, <1>5, <2>2, AlertNumbers
    <3>2. HourTo(now) \subseteq Time /\ IsFiniteSet(HourTo(now))
      BY <1>2, HourIsFinite
    <3>3. \A u \in HourTo(now) \ {now} : recent'[u] = Trimmed[u]
      BY <3>1, <3>2
    <3>4. LastHour(recent', now) = LastHour(Trimmed, now) + 1
      <4>1. now \in HourTo(now) /\ recent'[now] = Trimmed[now] + 1 /\ Most \in Nat
        BY <1>2, <3>1, AlertNumbers
      <4> QED
        BY <3>1, <3>2, <3>3, <4>1, HeldOneMore DEF LastHour
    <3>5. LastHour(Trimmed, now) < MaxAlerts
      BY <1>1, <2>2, TrimmedIsRecent DEF Allowed
    <3> QED
      BY <1>2, <3>4, <3>5, HourIsNumber, AlertNumbers
  <2> QED
    BY <2>1, <2>2
<1>7. AlertTypeOK'
  BY <1>1, <1>2, <1>5, <1>6 DEF AlertInv, AlertTypeOK, LastHour, HourTo, Most
<1>8. SentIsCounted'
  <2> SUFFICES ASSUME NEW u \in Time
               PROVE  sent'[u] <= Counted'[u] + unlogged'[u] \/ (~stored /\ u < now - Hour)
    BY <1>1 DEF SentIsCounted
  <2>1. sent[u] <= Counted[u] + unlogged[u] \/ (~stored /\ u < now - Hour)
    BY DEF AlertInv, SentIsCounted
  <2>2. /\ sent[u] \in Int /\ Counted[u] \in Int /\ unlogged[u] \in Int
        /\ rows[u] \in Int /\ recent[u] \in Int /\ Trimmed[u] \in Int
    BY <1>2
  <2>3. CASE u = now
    <3>1. Counted'[u] + unlogged'[u] = Counted[u] + unlogged[u] + 1
      BY <1>1, <1>2, <1>4, <2>2, <2>3 DEF Counted
    <3>2. sent'[u] = sent[u] + 1 /\ sent[u] <= Counted[u] + unlogged[u]
      BY <1>2, <1>5, <2>3
    <3> QED
      BY <2>2, <3>1, <3>2
  <2>4. CASE u # now
    <3>1. unlogged'[u] = unlogged[u] /\ sent'[u] = sent[u]
      BY <1>1, <1>2, <2>4
    <3>2. stored \/ ~(u < now - Hour) => Counted'[u] = Counted[u]
      BY <1>1, <1>2, <2>4 DEF Counted
    <3>3. CASE ~stored /\ u < now - Hour
      BY <3>3
    <3>4. CASE ~(~stored /\ u < now - Hour)
      BY <2>1, <3>1, <3>2, <3>4
    <3> QED
      BY <3>3, <3>4
  <2> QED
    BY <2>3, <2>4
<1>9. NoneAhead'
  <2> SUFFICES ASSUME NEW u \in Time, u > now PROVE sent'[u] = 0 /\ recent'[u] = 0
    BY <1>1 DEF NoneAhead
  <2>1. u # now /\ sent[u] = 0 /\ recent[u] = 0 /\ Trimmed[u] = 0
    BY <1>2, TrimmedIsRecent, AlertNumbers DEF AlertInv, NoneAhead
  <2> QED
    BY <1>1, <1>2, <2>1
<1>10. AlertsLimited'
  <2> SUFFICES ASSUME NEW t \in Time
               PROVE  LastHour(sent', t) <= MaxAlerts + LastHour(unlogged', t)
    BY DEF AlertsLimited, LastHour, HourTo, Most
  <2>0. HourTo(t) \in SUBSET Time /\ IsFiniteSet(HourTo(t)) /\ sent' \in [Time -> 0 .. Most]
          /\ unlogged \in [Time -> 0 .. Most] /\ unlogged' \in [Time -> 0 .. Most]
    BY <1>2, <1>5, HourIsFinite, AlertNumbers
  <2>1. LastHour(unlogged, t) <= LastHour(unlogged', t)
    BY <1>5, <2>0, HourLess
  <2>2. CASE now \in HourTo(t)
    <3>1. \A u \in HourTo(t) \ {now} : sent'[u] = sent[u]
      BY <1>5, <2>0
    <3>2. LastHour(sent', t) = LastHour(sent, t) + 1
      <4>1. sent[now] \in Nat /\ sent'[now] = sent[now] + 1 /\ sent'[now] <= Most /\ Most \in Nat
        BY <1>2, <1>3, <1>5, AlertNumbers
      <4> QED
        BY <2>0, <2>2, <3>1, <4>1, HeldOneMore DEF LastHour
    <3>3. LastHour(sent, t) + 1 <= MaxAlerts + LastHour(unlogged, t)
      BY <1>1, <2>2, RoomInEveryHour
    <3> QED
      BY <2>1, <3>2, <3>3, HourIsNumber, AlertNumbers
  <2>3. CASE now \notin HourTo(t)
    <3>1. \A u \in HourTo(t) : sent'[u] = sent[u] /\ sent[u] \in Nat
      BY <1>2, <1>5, <2>0, <2>3
    <3>2. \A u \in HourTo(t) : sent'[u] <= sent[u]
      BY <3>1
    <3>3. LastHour(sent', t) <= LastHour(sent, t)
      BY <1>2, <2>0, <3>2, HourLess
    <3>4. LastHour(sent, t) <= MaxAlerts + LastHour(unlogged, t)
      BY DEF AlertInv, AlertsLimited
    <3> QED
      BY <2>1, <3>3, <3>4, HourIsNumber, AlertNumbers
  <2> QED
    BY <2>2, <2>3
<1> QED
  BY <1>7, <1>8, <1>9, <1>10 DEF AlertInv

LEMMA AlertTickStep == AlertInv /\ AlertTick => AlertInv'
<1> SUFFICES ASSUME AlertInv, AlertTick PROVE AlertInv'
  OBVIOUS
<1>1. /\ now' = now + 1 /\ now' \in Time /\ now \in Time /\ now \in Nat /\ now' \in Nat
      /\ UNCHANGED <<stored, rows, recent, sent, unlogged>>
  BY TimeAssumption DEF AlertTick, Passes, AlertInv, AlertTypeOK, Time
<1>2. LastHour(recent, now') <= LastHour(recent, now)
  <2>1. /\ HourTo(now) \in SUBSET Time /\ IsFiniteSet(HourTo(now)) /\ HourTo(now') \in SUBSET Time
        /\ recent \in [Time -> 0 .. Most] /\ Most \in Nat
    BY <1>1, HourIsFinite, AlertsAreCounts, AlertNumbers DEF AlertInv
  <2>2. ASSUME NEW u \in HourTo(now') PROVE recent[u] = 0 \/ (u \in HourTo(now) /\ recent[u] <= recent[u])
    <3>1. u \in Time /\ u \in Nat /\ u <= now + 1 /\ u >= now + 1 - Hour /\ recent[u] \in Nat
      BY <1>1, <2>1, AlertNumbers DEF HourTo
    <3>2. CASE u = now + 1
      BY <1>1, <3>1, <3>2 DEF AlertInv, NoneAhead
    <3>3. CASE u # now + 1
      BY <1>1, <3>1, <3>3, AlertNumbers DEF HourTo
    <3> QED
      BY <3>2, <3>3
  <2> QED
    BY <2>1, <2>2, HeldLess DEF LastHour
<1>3. AlertTypeOK'
  <2>1. LastHour(recent, now) <= MaxAlerts /\ LastHour(recent, now) \in Nat /\ LastHour(recent, now') \in Nat
    BY <1>1, HourIsNumber DEF AlertInv, AlertTypeOK
  <2>2. LastHour(recent, now') <= MaxAlerts
    BY <1>2, <2>1, AlertNumbers
  <2> QED
    BY <1>1, <2>2 DEF AlertInv, AlertTypeOK, LastHour, HourTo, Most
<1>4. SentIsCounted'
  BY <1>1, AlertNumbers DEF AlertInv, SentIsCounted, Counted
<1>5. NoneAhead'
  BY <1>1, AlertNumbers DEF AlertInv, NoneAhead
<1>6. AlertsLimited'
  BY <1>1 DEF AlertInv, AlertsLimited, LastHour, HourTo, Most
<1> QED
  BY <1>3, <1>4, <1>5, <1>6 DEF AlertInv

LEMMA AlertRestartStep == AlertInv /\ AlertRestart => AlertInv'
<1> SUFFICES ASSUME AlertInv, AlertRestart PROVE AlertInv'
  OBVIOUS
<1>1. /\ recent' = None /\ sent' = (IF stored THEN sent ELSE None)
      /\ UNCHANGED <<now, stored, rows, unlogged>> /\ now \in Time
      /\ \A u \in Time : None[u] = 0
  BY DEF AlertRestart, AlertInv, AlertTypeOK, None
<1>2. None \in [Time -> 0 .. MaxAlerts] /\ None \in [Time -> 0 .. Most] /\ LastHour(None, now) = 0
  <2>1. None \in [Time -> 0 .. MaxAlerts] /\ None \in [Time -> 0 .. Most]
    BY AlertNumbers DEF None
  <2> QED
    BY <1>1, <2>1, HourNothing
<1>3. AlertTypeOK'
  BY <1>1, <1>2, AlertNumbers DEF AlertInv, AlertTypeOK, LastHour, HourTo, Most
<1>4. SentIsCounted'
  <2> SUFFICES ASSUME NEW u \in Time
               PROVE  sent'[u] <= Counted'[u] + unlogged[u] \/ (~stored /\ u < now - Hour)
    BY <1>1 DEF SentIsCounted
  <2>1. CASE stored
    BY <1>1, <2>1 DEF AlertInv, SentIsCounted, Counted
  <2>2. CASE ~stored
    <3>1. sent'[u] = 0 /\ Counted'[u] = 0 /\ unlogged[u] \in Nat
      BY <1>1, <2>2, AlertNumbers DEF AlertInv, AlertTypeOK, Counted
    <3> QED
      BY <3>1
  <2> QED
    BY <2>1, <2>2
<1>5. NoneAhead'
  BY <1>1 DEF AlertInv, NoneAhead
<1>6. AlertsLimited'
  <2> SUFFICES ASSUME NEW t \in Time
               PROVE  LastHour(sent', t) <= MaxAlerts + LastHour(unlogged, t)
    BY <1>1 DEF AlertsLimited, LastHour, HourTo, Most
  <2>1. CASE stored
    BY <1>1, <2>1 DEF AlertInv, AlertsLimited
  <2>2. CASE ~stored
    <3>1. LastHour(sent', t) = 0
      BY <1>1, <2>2, HourNothing
    <3> QED
      BY <3>1, HourIsNumber, AlertNumbers
  <2> QED
    BY <2>1, <2>2
<1> QED
  BY <1>3, <1>4, <1>5, <1>6 DEF AlertInv

LEMMA StepAlertInv == AlertInv /\ [AlertNext]_alertVars => AlertInv'
<1> SUFFICES ASSUME AlertInv, [AlertNext]_alertVars PROVE AlertInv'
  OBVIOUS
<1>1. CASE UNCHANGED alertVars
  BY <1>1 DEF alertVars, AlertInv, AlertTypeOK, SentIsCounted, Counted, NoneAhead, AlertsLimited,
     LastHour, HourTo, Most
<1> QED
  BY <1>1, AlertTickStep, SendLimitedStep, SendForcedStep, SuppressStep, AlertRestartStep DEF AlertNext

(* In any hour at most max_per_hour alerts get through the limit, and one  *)
(* more for each that the table refused, across restarts when they are     *)
(* kept in the table, whatever was forced in between (telegram.py:49).     *)
THEOREM HoursAreLimited == AlertSpec => []AlertsLimited
<1>1. AlertInv => AlertsLimited
  BY DEF AlertInv
<1> QED
  BY <1>1, InitAlertInv, StepAlertInv, PTL DEF AlertSpec

(* The types of the alert counts hold in every state: above all, the deque *)
(* never holds more than the limit in the last hour, and no more alerts    *)
(* are sent at one time than are told apart (telegram.py:67).              *)
THEOREM AlertTypes == AlertSpec => []AlertTypeOK
<1>1. AlertInv => AlertTypeOK
  BY DEF AlertInv
<1> QED
  BY <1>1, InitAlertInv, StepAlertInv, PTL DEF AlertSpec

-----------------------------------------------------------------------------
(***************************************************************************)
(* The age filter accepts an opportunity again only while it is young or   *)
(* once it was forgotten, for any opportunities, threshold and memory.     *)
(*                                                                         *)
(* AgeIsJudged is not inductive: what matters of an accepted detection is  *)
(* what the filter still knows of it.  Either the first sighting it was    *)
(* judged by is remembered, no later than it and within the threshold, or  *)
(* it was forgotten, and whatever is seen from then on comes most of       *)
(* MaxAge later (AcceptedIsKnown).  And nothing is remembered or found     *)
(* that this process did not sight at that time or before (SeenIsSighted). *)
(***************************************************************************)

Forgotten(time) == now > time + MaxAge - Threshold

AcceptedIsKnown(o) ==
  \A d \in accepted[o] :
    \/ firstSeen[o] # Never /\ firstSeen[o] <= d /\ d <= firstSeen[o] + Threshold
    \/ /\ Forgotten(d)
       /\ firstSeen[o] # Never => firstSeen[o] > d + MaxAge - Threshold
       /\ batch[o] # Never => batch[o] > d + MaxAge - Threshold

SeenIsSighted(o) ==
  /\ sighted[o] <= now
  /\ batch[o] # Never => sighted[o] # Never /\ sighted[o] <= batch[o] /\ batch[o] <= now
  /\ firstSeen[o] # Never => sighted[o] # Never /\ sighted[o] <= firstSeen[o] /\ firstSeen[o] <= now
  /\ batch[o] # Never /\ firstSeen[o] # Never => firstSeen[o] <= batch[o]
  /\ rejected[o] # Never => sighted[o] # Never

Judged(o) ==
  /\ \A d, e \in accepted[o] : e - d <= Threshold \/ e - d > MaxAge - Threshold
  /\ rejected[o] # Never => rejected[o] - sighted[o] > Threshold

AgeInv ==
  /\ FilterTypeOK
  /\ \A o \in Opp : AcceptedIsKnown(o) /\ SeenIsSighted(o) /\ Judged(o)

LEMMA FilterNumbers ==
  ASSUME FilterTypeOK, NEW o \in Opp
  PROVE  /\ Threshold \in Nat /\ MaxAge \in Nat /\ now \in Nat
         /\ firstSeen[o] = Never \/ firstSeen[o] \in Nat
         /\ batch[o] = Never \/ batch[o] \in Nat
         /\ sighted[o] = Never \/ sighted[o] \in Nat
         /\ rejected[o] = Never \/ rejected[o] \in Nat
         /\ \A d \in accepted[o] : d \in Nat
         /\ Never \in Int /\ Never \notin Nat
BY FilterAssumption, TimeAssumption DEF FilterTypeOK, Time, Never

LEMMA InitAgeInv == FilterInit => AgeInv
BY TimeAssumption DEF FilterInit, ClockInit, AgeInv, FilterTypeOK, AcceptedIsKnown, SeenIsSighted, Judged,
   Unseen, Nothing, Time, Never

(* An opportunity that nothing happened to stays judged while time passes. *)
LEMMA StandsJudged ==
  ASSUME FilterTypeOK, NEW o \in Opp, AcceptedIsKnown(o), SeenIsSighted(o), Judged(o),
         now' \in Nat, now <= now',
         firstSeen'[o] = firstSeen[o], batch'[o] = batch[o], accepted'[o] = accepted[o],
         sighted'[o] = sighted[o], rejected'[o] = rejected[o]
  PROVE  AcceptedIsKnown(o)' /\ SeenIsSighted(o)' /\ Judged(o)'
BY FilterNumbers DEF AcceptedIsKnown, SeenIsSighted, Judged, Forgotten

LEMMA DetectStep == ASSUME AgeInv, NEW o \in Opp, DetectOne(o) PROVE AgeInv'
<1>1. /\ batch[o] = Never /\ batch' = [batch EXCEPT ![o] = now]
      /\ sighted' = [sighted EXCEPT ![o] = IF @ = Never THEN now ELSE @]
      /\ UNCHANGED <<now, firstSeen, upcoming, listed, accepted, rejected>>
  BY DEF DetectOne
<1>2. FilterTypeOK'
  BY <1>1 DEF AgeInv, FilterTypeOK
<1>3. ASSUME NEW q \in Opp PROVE AcceptedIsKnown(q)' /\ SeenIsSighted(q)' /\ Judged(q)'
  <2>1. AcceptedIsKnown(q) /\ SeenIsSighted(q) /\ Judged(q) /\ FilterTypeOK
    BY DEF AgeInv
  <2>2. CASE q # o
    <3>1. batch'[q] = batch[q] /\ sighted'[q] = sighted[q] /\ now' \in Nat /\ now <= now'
      BY <1>1, <2>1, <2>2, FilterNumbers DEF FilterTypeOK
    <3> QED
      BY <1>1, <2>1, <3>1, StandsJudged
  <2>3. CASE q = o
    <3>1. batch'[q] = now /\ sighted'[q] = IF sighted[q] = Never THEN now ELSE sighted[q]
      BY <1>1, <2>1, <2>3 DEF FilterTypeOK
    <3>2. now \in Nat /\ sighted[q] <= now
      BY <2>1, FilterNumbers DEF SeenIsSighted
    <3>3. AcceptedIsKnown(q)'
      BY <1>1, <2>1, <3>1, FilterNumbers DEF AcceptedIsKnown, Forgotten
    <3>4. SeenIsSighted(q)'
      BY <1>1, <2>1, <3>1, <3>2, FilterNumbers DEF SeenIsSighted
    <3>5. Judged(q)'
      BY <1>1, <2>1, <3>1, FilterNumbers DEF SeenIsSighted, Judged
    <3> QED
      BY <3>3, <3>4, <3>5
  <2> QED
    BY <2>2, <2>3
<1> QED
  BY <1>2, <1>3 DEF AgeInv

(* What apply_filters makes of an opportunity it found.                    *)
LEMMA JudgedWhenDetected ==
  ASSUME FilterTypeOK, FilterTypeOK', NEW o \in Opp,
         AcceptedIsKnown(o), SeenIsSighted(o), Judged(o),
         batch[o] # Never, batch'[o] = Never,
         now' = now, sighted'[o] = sighted[o],
         firstSeen'[o] = IF Observed(o) < now - MaxAge THEN Never ELSE Observed(o),
         accepted'[o] \subseteq accepted[o] \cup {batch[o]},
         batch[o] \in accepted'[o] => batch[o] \in accepted[o] \/ ~TooOld(o),
         rejected'[o] = IF TooOld(o) THEN batch[o] ELSE rejected[o]
  PROVE  AcceptedIsKnown(o)' /\ SeenIsSighted(o)' /\ Judged(o)'
<1> DEFINE b == batch[o]
           f == firstSeen[o]
           s == Observed(o)
<1>1. /\ Threshold \in Nat /\ MaxAge \in Nat /\ now \in Nat /\ b \in Nat /\ s \in Nat
      /\ f = Never \/ f \in Nat
      /\ \A d \in accepted[o] : d \in Nat
      /\ s <= b /\ b <= now /\ (f # Never => s = f) /\ (f = Never => s = b)
      /\ Never \in Int /\ Never \notin Nat
  BY FilterNumbers DEF SeenIsSighted, Observed
<1>2. sighted[o] \in Nat /\ sighted[o] <= s
  BY FilterNumbers DEF SeenIsSighted, Observed
<1>3. TooOld(o) <=> b - s > Threshold
  BY DEF TooOld
<1>4. firstSeen'[o] = (IF s < now - MaxAge THEN Never ELSE s)
  OBVIOUS
<1>5. \A d \in accepted[o] : \/ f # Never /\ s <= d /\ d <= s + Threshold
                             \/ b > d + MaxAge - Threshold /\ s > d + MaxAge - Threshold
                                  /\ Forgotten(d)
  BY <1>1 DEF AcceptedIsKnown
<1> HIDE DEF b, f, s
<1>6. AcceptedIsKnown(o)'
  <2> SUFFICES ASSUME NEW d \in accepted'[o]
               PROVE  \/ firstSeen'[o] # Never /\ firstSeen'[o] <= d /\ d <= firstSeen'[o] + Threshold
                      \/ Forgotten(d) /\ (firstSeen'[o] # Never => firstSeen'[o] > d + MaxAge - Threshold)
    BY DEF AcceptedIsKnown, Forgotten
  <2>1. d \in Nat /\ (\/ s <= d /\ d <= s + Threshold
                      \/ s > d + MaxAge - Threshold /\ Forgotten(d))
    <3>1. CASE d \in accepted[o]
      BY <1>1, <1>5, <3>1
    <3>2. CASE d = b /\ ~TooOld(o)
      BY <1>1, <1>3, <3>2
    <3> QED
      BY <3>1, <3>2 DEF b
  <2> QED
    BY <1>1, <1>4, <2>1 DEF Forgotten
<1>7. SeenIsSighted(o)'
  <2>1. firstSeen'[o] # Never => firstSeen'[o] = s
    BY <1>4
  <2>2. sighted'[o] # Never /\ sighted'[o] <= now'
    BY <1>1, <1>2
  <2> QED
    BY <1>1, <1>2, <2>1, <2>2 DEF SeenIsSighted
<1>8. Judged(o)'
  <2>1. ASSUME NEW d \in accepted'[o], NEW e \in accepted'[o]
        PROVE  e - d <= Threshold \/ e - d > MaxAge - Threshold
    <3>1. CASE d \in accepted[o] /\ e \in accepted[o]
      BY <3>1 DEF Judged
    <3>2. CASE d \in accepted[o] /\ e = b /\ ~TooOld(o)
      <4>1. d \in Nat /\ b - s <= Threshold
        BY <1>1, <1>3, <3>2
      <4> QED
        BY <1>1, <1>5, <3>2, <4>1
    <3>3. CASE d = b /\ e \in accepted[o] /\ ~TooOld(o)
      <4>1. e \in Nat /\ b - s <= Threshold
        BY <1>1, <1>3, <3>3
      <4> QED
        BY <1>1, <1>5, <3>3, <4>1
    <3>4. CASE d = b /\ e = b
      BY <1>1, <3>4
    <3> QED
      BY <3>1, <3>2, <3>3, <3>4 DEF b
  <2>2. rejected'[o] # Never => rejected'[o] - sighted'[o] > Threshold
    <3>1. CASE TooOld(o)
      <4>1. rejected'[o] = b
        BY <3>1 DEF b
      <4> QED
        BY <1>1, <1>2, <1>3, <3>1, <4>1
    <3>2. CASE ~TooOld(o)
      BY <3>2 DEF Judged
    <3> QED
      BY <3>1, <3>2
  <2> QED
    BY <2>1, <2>2 DEF Judged
<1> QED
  BY <1>6, <1>7, <1>8

(* What became of one that was not found: forgotten, or nothing.           *)
LEMMA JudgedWhenForgotten ==
  ASSUME FilterTypeOK, NEW o \in Opp,
         AcceptedIsKnown(o), SeenIsSighted(o), Judged(o),
         batch[o] = Never, batch'[o] = Never,
         now' = now, sighted'[o] = sighted[o],
         firstSeen'[o] = IF firstSeen[o] < now - MaxAge THEN Never ELSE firstSeen[o],
         accepted'[o] = accepted[o], rejected'[o] = rejected[o]
  PROVE  AcceptedIsKnown(o)' /\ SeenIsSighted(o)' /\ Judged(o)'
<1>1. AcceptedIsKnown(o)'
  BY FilterNumbers DEF AcceptedIsKnown, Forgotten
<1>2. SeenIsSighted(o)' /\ Judged(o)'
  BY FilterNumbers DEF SeenIsSighted, Judged
<1> QED
  BY <1>1, <1>2

LEMMA ApplyFiltersStep == AgeInv /\ ApplyFilters => AgeInv'
<1> SUFFICES ASSUME AgeInv, ApplyFilters PROVE AgeInv'
  OBVIOUS
<1> DEFINE seen == [o \in Opp |-> IF o \in Detected THEN Observed(o) ELSE firstSeen[o]]
<1>1. /\ firstSeen' = Remembered(seen) /\ batch' = Unseen
      /\ accepted' = [o \in Opp |->
                        IF o \in Detected /\ ~TooOld(o) /\ ~InNews(o) /\ ~YoungMarket(o)
                        THEN accepted[o] \cup {batch[o]} ELSE accepted[o]]
      /\ rejected' = [o \in Opp |-> IF o \in Detected /\ TooOld(o) THEN batch[o] ELSE rejected[o]]
      /\ UNCHANGED <<now, upcoming, listed, sighted>>
  BY DEF ApplyFilters
<1>2. FilterTypeOK
  BY DEF AgeInv
<1>3. seen \in [Opp -> Time \cup {Never}]
  BY <1>2 DEF Observed, FilterTypeOK
<1>4. FilterTypeOK'
  BY <1>1, <1>2, <1>3 DEF FilterTypeOK, Remembered, Detected, Unseen
<1>5. ASSUME NEW o \in Opp PROVE AcceptedIsKnown(o)' /\ SeenIsSighted(o)' /\ Judged(o)'
  <2>1. AcceptedIsKnown(o) /\ SeenIsSighted(o) /\ Judged(o)
    BY DEF AgeInv
  <2>2. batch'[o] = Never /\ sighted'[o] = sighted[o] /\ now' = now
    BY <1>1 DEF Unseen
  <2>3. CASE o \in Detected
    <3>1. firstSeen'[o] = IF Observed(o) < now - MaxAge THEN Never ELSE Observed(o)
      BY <1>1, <2>3 DEF Remembered
    <3>2. rejected'[o] = IF TooOld(o) THEN batch[o] ELSE rejected[o]
      BY <1>1, <2>3
    <3>3. /\ accepted'[o] \subseteq accepted[o] \cup {batch[o]}
          /\ batch[o] \in accepted'[o] => batch[o] \in accepted[o] \/ ~TooOld(o)
      BY <1>1
    <3>4. batch[o] # Never
      BY <2>3 DEF Detected
    <3> QED
      BY <1>2, <1>4, <2>1, <2>2, <3>1, <3>2, <3>3, <3>4, JudgedWhenDetected
  <2>4. CASE o \notin Detected
    <3>1. firstSeen'[o] = IF firstSeen[o] < now - MaxAge THEN Never ELSE firstSeen[o]
      BY <1>1, <2>4 DEF Remembered
    <3>2. accepted'[o] = accepted[o] /\ rejected'[o] = rejected[o] /\ batch[o] = Never
      BY <1>1, <2>4 DEF Detected
    <3> QED
      BY <1>2, <2>1, <2>2, <3>1, <3>2, JudgedWhenForgotten
  <2> QED
    BY <2>3, <2>4
<1> QED
  BY <1>4, <1>5 DEF AgeInv

LEMMA FilterNothingStep == AgeInv /\ FilterNothing => AgeInv'
<1> SUFFICES ASSUME AgeInv, FilterNothing PROVE AgeInv'
  OBVIOUS
<1>1. /\ Detected = {} /\ firstSeen' = Remembered(firstSeen)
      /\ UNCHANGED <<now, batch, upcoming, listed, accepted, sighted, rejected>>
  BY DEF FilterNothing, filterHistory
<1>2. FilterTypeOK'
  BY <1>1 DEF AgeInv, FilterTypeOK, Remembered
<1>3. ASSUME NEW o \in Opp PROVE AcceptedIsKnown(o)' /\ SeenIsSighted(o)' /\ Judged(o)'
  <2>1. AcceptedIsKnown(o) /\ SeenIsSighted(o) /\ Judged(o) /\ FilterTypeOK
    BY DEF AgeInv
  <2>2. /\ batch[o] = Never
        /\ firstSeen'[o] = IF firstSeen[o] < now - MaxAge THEN Never ELSE firstSeen[o]
    BY <1>1 DEF Detected, Remembered
  <2> QED
    BY <1>1, <2>1, <2>2, JudgedWhenForgotten
<1> QED
  BY <1>2, <1>3 DEF AgeInv

LEMMA StepAgeInv == AgeInv /\ [FilterNext]_filterVars => AgeInv'
<1> SUFFICES ASSUME AgeInv, [FilterNext]_filterVars PROVE AgeInv'
  OBVIOUS
<1>1. CASE FilterTick \/ UNCHANGED filterVars
  <2>1. /\ now' \in Time /\ now' \in Nat /\ now <= now'
        /\ UNCHANGED <<firstSeen, batch, upcoming, listed, accepted, sighted, rejected>>
    BY <1>1, TimeAssumption
       DEF FilterTick, Passes, filterVars, filterHistory, AgeInv, FilterTypeOK, Time
  <2>2. FilterTypeOK'
    BY <2>1 DEF AgeInv, FilterTypeOK
  <2> QED
    BY <2>1, <2>2, StandsJudged DEF AgeInv
<1>2. CASE FilterRestart
  <2>1. /\ firstSeen' = Unseen /\ batch' = Unseen
        /\ accepted' = Nothing /\ sighted' = Unseen /\ rejected' = Unseen
        /\ UNCHANGED <<now, upcoming, listed>>
    BY <1>2 DEF FilterRestart
  <2>2. now \in Nat
    BY TimeAssumption DEF AgeInv, FilterTypeOK, Time
  <2> QED
    BY <2>1, <2>2 DEF AgeInv, FilterTypeOK, AcceptedIsKnown, SeenIsSighted, Judged, Unseen, Nothing, Never
<1> QED
  BY <1>1, <1>2, DetectStep, ApplyFiltersStep, FilterNothingStep DEF FilterNext

(* However opportunities come, stay and vanish, one process accepts one of *)
(* them twice only within the threshold, or most of MaxAge later, and      *)
(* rejects none for its age within the threshold of sighting it first.     *)
THEOREM AgesAreJudged == FilterSpec => []AgeIsJudged
<1>1. AgeInv => AgeIsJudged
  BY DEF AgeInv, Judged, AgeIsJudged
<1> QED
  BY <1>1, InitAgeInv, StepAgeInv, PTL DEF FilterSpec

(* The types of what the filters remember and judge hold in every state,   *)
(* for any opportunities, news and listing times (adverse_selection.py).   *)
THEOREM FilterTypes == FilterSpec => []FilterTypeOK
<1>1. AgeInv => FilterTypeOK
  BY DEF AgeInv
<1> QED
  BY <1>1, InitAgeInv, StepAgeInv, PTL DEF FilterSpec

-----------------------------------------------------------------------------
(***************************************************************************)
(* A gate of live trading is reached by its fills, days and coverage, for  *)
(* any thresholds, and over any number of restarts, failed writes and      *)
(* changes of the operator's mind.                                         *)
(*                                                                         *)
(* GateIsEarned is not inductive: the state may come from the row, and the *)
(* row from an earlier state.  So whatever was written is held to the same *)
(* two facts: its counters are backed by what really happened at its gate  *)
(* since it was entered (Backed), and its gate was reached from the one    *)
(* the operator gave (Reached).  What happened at the row's gate is not    *)
(* forgotten while it may come back, because a gate ahead of the row's is  *)
(* the only one whose history starts anew (row.gate <= state.gate).        *)
(***************************************************************************)

Backed(s) ==
  /\ s.fills <= truth[s.gate].made
  /\ truth[s.gate].since <= s.entered
  /\ s.gate < 3 /\ MinCoverage[s.gate] # Never /\ Good(s.coverage, s.gate) => truth[s.gate].calibrated

Reached(s) == given <= s.gate /\ \A gate \in given .. s.gate - 1 : gate \in earned

RowIsGood == IF row = NoState THEN given = 1 /\ ~Running ELSE Backed(row) /\ Reached(row)
StateIsGood == Running => Backed(state) /\ Reached(state) /\ row.gate <= state.gate

GateInv == GateTypeOK /\ RowIsGood /\ StateIsGood

Facts == [made : Nat, since : Time, calibrated : BOOLEAN]

LEMMA Assumptions == 0 \in Time /\ Time \subseteq Nat /\ MaxFills \in Nat
BY TimeAssumption, GateAssumption DEF Time

(* NoState is not a state of a gate, and fresh ones are.                   *)
LEMMA StatesAreStates ==
  /\ NoState \notin GateState
  /\ \A s \in GateState : s.gate \in Gate /\ s.entered \in Time /\ s.fills \in 0 .. MaxFills
  /\ GateTypeOK => \A gate \in Gate : Entered(gate) \in GateState
BY Assumptions DEF NoState, GateState, Gate, GateTypeOK, Entered

(* Forgetting all gates but one keeps what is known of that one.           *)
LEMMA OnlyOne ==
  ASSUME NEW gate \in Gate, NEW facts \in Facts
  PROVE  Only(gate, facts) \in [Gate -> Facts] /\ Only(gate, facts)[gate] = facts
BY Assumptions DEF Only, Fresh, Facts

LEMMA FreshIsFact == ASSUME NEW t \in Time PROVE Fresh(t) \in Facts
BY DEF Fresh, Facts

(* A gate just entered is backed by nothing having happened there.         *)
LEMMA EnteredIsBacked ==
  ASSUME GateTypeOK, NEW gate \in Gate, truth[gate] = Fresh(now)
  PROVE  Backed(Entered(gate))
BY Assumptions DEF GateTypeOK, Backed, Entered, Fresh, Good, Time

LEMMA InitGateInv == GateInit => GateInv
<1> SUFFICES ASSUME GateInit PROVE GateInv
  OBVIOUS
<1>1. truth \in [Gate -> Facts]
  BY Assumptions, OnlyOne, FreshIsFact DEF GateInit, Gate
<1>2. GateTypeOK
  BY <1>1, Assumptions DEF GateInit, ClockInit, GateTypeOK, Facts, Gate
<1> QED
  BY <1>2 DEF GateInit, GateInv, RowIsGood, StateIsGood, Running

(* A state whose gate's history and earned gates have not lost anything is *)
(* as good as it was.                                                      *)
LEMMA StaysBacked ==
  ASSUME NEW s \in GateState, Backed(s), truth'[s.gate] = truth[s.gate]
  PROVE  Backed(s)'
BY DEF Backed, Good

LEMMA StaysReached ==
  ASSUME NEW s \in GateState, Reached(s), given' = given, earned \subseteq earned'
  PROVE  Reached(s)'
BY DEF Reached

LEMMA StepGateInv == GateInv /\ [GateNext]_gateVars => GateInv'
<1> SUFFICES ASSUME GateInv, [GateNext]_gateVars PROVE GateInv'
  OBVIOUS
<1>0. GateTypeOK /\ RowIsGood /\ StateIsGood
  BY DEF GateInv
<1>1. truth \in [Gate -> Facts] /\ now \in Time /\ given \in Gate /\ earned \subseteq 1 .. 2
  BY <1>0 DEF GateTypeOK, Facts
<1>2. Running => /\ state \in GateState /\ row \in GateState
                 /\ Backed(state) /\ Reached(state) /\ Backed(row) /\ Reached(row)
                 /\ row.gate <= state.gate
  BY <1>0 DEF GateTypeOK, RowIsGood, StateIsGood, Running
<1>3. row # NoState => row \in GateState /\ Backed(row) /\ Reached(row)
  BY <1>0 DEF GateTypeOK, RowIsGood
<1>4. CASE UNCHANGED <<row, state, gateHistory>> /\ now' \in Time /\ written' \in BOOLEAN
  BY <1>0, <1>4 DEF gateHistory, GateInv, GateTypeOK, RowIsGood, StateIsGood, Backed, Reached, Good, Running
<1>5. CASE LoadOrInit
  <2>1. CASE row = NoState
    <3>1. row' = Entered(1) /\ state' = row' /\ truth' = Only(1, Fresh(now))
             /\ UNCHANGED <<now, written, given, earned>> /\ given = 1
      BY <1>0, <1>5, <2>1 DEF LoadOrInit, RowIsGood
    <3>2. row' \in GateState /\ row'.gate = 1
      BY <1>0, <3>1, StatesAreStates DEF Gate, Entered
    <3>3. truth' \in [Gate -> Facts] /\ truth'[1] = Fresh(now)
      BY <1>1, <3>1, OnlyOne, FreshIsFact DEF Gate
    <3>4. GateTypeOK'
      BY <1>0, <3>1, <3>2, <3>3 DEF GateTypeOK, Facts
    <3>5. Backed(row)'
      BY <1>1, <3>1, <3>3, Assumptions DEF Backed, Entered, Fresh, Good
    <3>6. Reached(row)'
      BY <3>1, <3>2 DEF Reached
    <3> QED
      BY <3>1, <3>2, <3>4, <3>5, <3>6, StatesAreStates
      DEF GateInv, RowIsGood, StateIsGood, Running, Gate
  <2>2. CASE row # NoState
    <3>1. state' = row /\ UNCHANGED <<now, row, truth, written, given, earned>>
      BY <1>5, <2>2 DEF LoadOrInit
    <3>2. Backed(row)' /\ Reached(row)'
      BY <1>3, <2>2, <3>1 DEF Backed, Reached, Good
    <3>3. row \in GateState /\ row.gate <= row.gate
      BY <1>3, <2>2, StatesAreStates DEF Gate
    <3>4. Backed(state)' /\ Reached(state)' /\ row'.gate <= state'.gate
      BY <3>1, <3>2, <3>3 DEF Backed, Reached
    <3> QED
      BY <1>0, <2>2, <3>1, <3>2, <3>3, <3>4 DEF GateInv, GateTypeOK, RowIsGood, StateIsGood, Running
  <2> QED
    BY <2>1, <2>2
<1>6. CASE RecordFill
  <2> DEFINE more == Lesser(truth[state.gate].made + 1, MaxFills)
  <2>1. /\ state \in GateState /\ row \in GateState /\ state.fills < MaxFills
        /\ state' = [state EXCEPT !.fills = @ + 1]
        /\ truth' = [truth EXCEPT ![state.gate].made = more]
        /\ written' = FALSE /\ UNCHANGED <<now, row, given, earned>>
    BY <1>2, <1>6 DEF RecordFill
  <2>2. state.gate \in Gate /\ state.fills \in 0 .. MaxFills /\ state.entered \in Time /\ row.gate \in Gate /\ row.fills \in 0 .. MaxFills
    BY <2>1, StatesAreStates
  <2>3. truth[state.gate] \in Facts /\ truth[row.gate] \in Facts
    BY <1>1, <2>2
  <2>4. more \in Nat /\ state.fills + 1 <= more /\ (row.gate = state.gate => row.fills <= more)
    <3>1. truth[state.gate].made \in Nat /\ state.fills <= truth[state.gate].made
      BY <1>2, <1>6, <2>3 DEF RecordFill, Backed, Facts
    <3>2. row.gate = state.gate => row.fills <= truth[state.gate].made
      BY <1>2, <1>6 DEF RecordFill, Backed
    <3> QED
      BY <2>1, <2>2, <3>1, <3>2, Assumptions DEF Lesser
  <2> HIDE DEF more
  <2>5. state' \in GateState /\ state'.gate = state.gate /\ state'.entered = state.entered
          /\ state'.coverage = state.coverage /\ state'.fills = state.fills + 1
    BY <2>1, <2>2, Assumptions DEF GateState
  <2>6. truth' \in [Gate -> Facts]
    BY <1>1, <2>1, <2>2, <2>4 DEF Facts
  <2>7. \A g \in Gate : /\ truth'[g].since = truth[g].since /\ truth'[g].calibrated = truth[g].calibrated
                        /\ truth'[g].made = IF g = state.gate THEN more ELSE truth[g].made
    BY <1>1, <2>1, <2>2 DEF Facts
  <2>8. GateTypeOK'
    BY <1>0, <2>1, <2>5, <2>6 DEF GateTypeOK, Facts
  <2>9. Backed(state)' /\ Backed(row)'
    BY <1>2, <1>6, <2>1, <2>2, <2>4, <2>5, <2>7 DEF RecordFill, Backed, Good
  <2>10. Reached(state)' /\ Reached(row)' /\ row'.gate <= state'.gate
    BY <1>2, <1>6, <2>1, <2>5 DEF RecordFill, Reached
  <2> QED
    BY <2>1, <2>8, <2>9, <2>10, StatesAreStates DEF GateInv, RowIsGood, StateIsGood
<1>7. ASSUME NEW coverage \in Coverages, SetCoverage(coverage) PROVE GateInv'
  <2> DEFINE good == truth[state.gate].calibrated \/ (state.gate < 3 /\ Good(coverage, state.gate))
  <2>1. /\ Running /\ state' = [state EXCEPT !.coverage = coverage]
        /\ truth' = [truth EXCEPT ![state.gate].calibrated = good]
        /\ written' = FALSE /\ UNCHANGED <<now, row, given, earned>>
    BY <1>7 DEF SetCoverage
  <2>2. state \in GateState /\ row \in GateState /\ state.gate \in Gate /\ row.gate \in Gate
    BY <1>2, <2>1, StatesAreStates
  <2>3. state' \in GateState /\ state'.gate = state.gate /\ state'.entered = state.entered
          /\ state'.coverage = coverage /\ state'.fills = state.fills
    BY <2>1, <2>2 DEF GateState
  <2>4. good \in BOOLEAN
    BY <1>1, <2>2 DEF Facts, Good
  <2>5. (truth[state.gate].calibrated => good) /\ (state.gate < 3 /\ Good(coverage, state.gate) => good)
    OBVIOUS
  <2> HIDE DEF good
  <2>6. truth' \in [Gate -> Facts]
    BY <1>1, <2>1, <2>2, <2>4 DEF Facts
  <2>7. \A g \in Gate : /\ truth'[g].since = truth[g].since /\ truth'[g].made = truth[g].made
                        /\ truth'[g].calibrated = IF g = state.gate THEN good ELSE truth[g].calibrated
    BY <1>1, <2>1, <2>2 DEF Facts
  <2>8. GateTypeOK'
    BY <1>0, <2>1, <2>3, <2>6 DEF GateTypeOK, Facts
  <2>9. Backed(state)'
    BY <1>2, <2>1, <2>2, <2>3, <2>5, <2>7 DEF Backed, Good
  <2>10. Backed(row)'
    BY <1>2, <2>1, <2>2, <2>5, <2>7 DEF Backed, Good
  <2>11. Reached(state)' /\ Reached(row)' /\ row'.gate <= state'.gate
    BY <1>2, <2>1, <2>3 DEF Reached
  <2> QED
    BY <2>1, <2>2, <2>8, <2>9, <2>10, <2>11, StatesAreStates DEF GateInv, RowIsGood, StateIsGood
<1>8. CASE Advance
  <2> DEFINE gate == state.gate
  <2>1. /\ Running /\ Satisfied /\ state' = Entered(gate + 1)
        /\ written' = FALSE /\ UNCHANGED <<now, row, given>>
        /\ earned' = IF Earned(gate) THEN earned \cup {gate} ELSE earned \ {gate}
        /\ truth' = [truth EXCEPT ![gate + 1] = Fresh(now)]
    BY <1>8 DEF Advance, Leaves
  <2>2. state \in GateState /\ row \in GateState /\ gate \in 1 .. 2 /\ row.gate \in Gate /\ gate + 1 \in Gate
    BY <1>2, <2>1, StatesAreStates DEF Satisfied, Gate
  <2>3. row.gate <= gate /\ row.gate # gate + 1
    BY <1>2, <2>1, <2>2 DEF Gate
  <2>4. Earned(gate)
    <3>1. truth[gate].since \in Nat /\ truth[gate].made \in Nat /\ now \in Nat
      <4>1. truth[gate] \in Facts
        BY <1>1, <2>2 DEF Gate
      <4>2. truth[gate].since \in Time /\ truth[gate].made \in Nat
        BY <4>1 DEF Facts
      <4> QED
        BY <1>1, <4>2, Assumptions
    <3>2. state.fills \in Nat /\ state.entered \in Nat
      <4>1. state.fills \in 0 .. MaxFills /\ state.entered \in Time
        BY <2>2, StatesAreStates
      <4>2. \A n \in 0 .. MaxFills : n \in Nat
        BY Assumptions
      <4> QED
        BY <4>1, <4>2, Assumptions
    <3>3. MinDays[gate] \in Nat /\ MinFills[gate] \in Nat
      BY <2>2, GateAssumption
    <3>4. now - state.entered >= MinDays[gate] /\ state.fills >= MinFills[gate] /\ Good(state.coverage, gate)
      BY <2>1 DEF Satisfied
    <3>5. Backed(state)
      BY <1>2, <2>1
    <3>6. now - truth[gate].since >= MinDays[gate] /\ truth[gate].made >= MinFills[gate]
      BY <3>1, <3>2, <3>3, <3>4, <3>5 DEF Backed
    <3>7. truth[gate].calibrated \/ MinCoverage[gate] = Never
      BY <2>2, <3>4, <3>5 DEF Backed
    <3> QED
      BY <3>6, <3>7 DEF Earned
  <2>5. earned' = earned \cup {gate}
    BY <2>1, <2>4
  <2>6. state' \in GateState /\ state'.gate = gate + 1
    BY <1>0, <2>1, <2>2, StatesAreStates DEF Entered
  <2>7. truth' \in [Gate -> Facts] /\ truth'[gate + 1] = Fresh(now) /\ truth'[row.gate] = truth[row.gate]
    BY <1>1, <2>1, <2>2, <2>3, FreshIsFact
  <2>8. GateTypeOK'
    BY <1>0, <1>1, <2>1, <2>2, <2>5, <2>6, <2>7 DEF GateTypeOK, Facts
  <2>9. Backed(state)'
    BY <1>1, <2>1, <2>2, <2>7, Assumptions DEF Backed, Entered, Fresh, Good
  <2>10. Reached(state)'
    <3>1. given' = given /\ given \in Nat /\ given <= gate /\ \A g \in given .. gate - 1 : g \in earned
      BY <1>1, <1>2, <2>1 DEF Reached, Gate
    <3> QED
      BY <2>2, <2>5, <2>6, <3>1 DEF Reached
  <2>11. Backed(row)' /\ Reached(row)' /\ row'.gate <= state'.gate
    BY <1>2, <2>1, <2>2, <2>3, <2>5, <2>6, <2>7 DEF Backed, Reached, Good, Gate
  <2> QED
    BY <2>1, <2>2, <2>8, <2>9, <2>10, <2>11, StatesAreStates DEF GateInv, RowIsGood, StateIsGood
<1>9. ASSUME NEW fails \in BOOLEAN, Persist(fails) PROVE GateInv'
  <2>1. Running /\ written' = TRUE /\ UNCHANGED <<now, state, given, earned>>
    BY <1>9 DEF Persist
  <2>2. state \in GateState /\ row \in GateState /\ state.gate \in Gate
    BY <1>2, <2>1, StatesAreStates
  <2>3. CASE fails
    <3>1. UNCHANGED <<row, truth>>
      BY <1>9, <2>3 DEF Persist
    <3> QED
      BY <1>4, <2>1, <3>1, <1>1 DEF gateHistory, GateInv
  <2>4. CASE ~fails
    <3>1. row' = state /\ truth' = Only(state.gate, truth[state.gate])
      BY <1>9, <2>4 DEF Persist
    <3>2. truth' \in [Gate -> Facts] /\ truth'[state.gate] = truth[state.gate]
      BY <1>1, <2>2, <3>1, OnlyOne
    <3>3. GateTypeOK'
      BY <1>0, <2>1, <2>2, <3>1, <3>2 DEF GateTypeOK, Facts
    <3>4. Backed(state)' /\ Reached(state)'
      BY <1>2, <2>1, <3>2 DEF Backed, Reached, Good
    <3>5. Backed(row)' /\ Reached(row)' /\ row'.gate <= state'.gate
      BY <2>1, <2>2, <3>1, <3>4 DEF Backed, Reached, Gate
    <3> QED
      BY <2>1, <2>2, <3>1, <3>3, <3>4, <3>5, StatesAreStates DEF GateInv, RowIsGood, StateIsGood
  <2> QED
    BY <2>3, <2>4
<1>10. CASE GateCrash
  <2>1. Running /\ state' = NoState /\ written' = TRUE /\ UNCHANGED <<now, row, truth, given, earned>>
    BY <1>10 DEF GateCrash, gateHistory
  <2>2. row \in GateState /\ Backed(row) /\ Reached(row)
    BY <1>2, <2>1
  <2>3. Backed(row)' /\ Reached(row)'
    BY <2>1, <2>2 DEF Backed, Reached, Good
  <2> QED
    BY <1>0, <2>1, <2>2, <2>3, StatesAreStates DEF GateInv, GateTypeOK, RowIsGood, StateIsGood, Running
<1>11. ASSUME NEW gate \in Gate, OperatorGives(gate) PROVE GateInv'
  <2>1. /\ ~Running /\ row' = Entered(gate) /\ truth' = Only(gate, Fresh(now))
        /\ given' = gate /\ earned' = {} /\ UNCHANGED <<now, state, written>>
    BY <1>11 DEF OperatorGives
  <2>2. row' \in GateState /\ row'.gate = gate
    BY <1>0, <2>1, StatesAreStates DEF Entered
  <2>3. truth' \in [Gate -> Facts] /\ truth'[gate] = Fresh(now)
    BY <1>1, <2>1, OnlyOne, FreshIsFact
  <2>4. GateTypeOK'
    BY <1>0, <2>1, <2>2, <2>3 DEF GateTypeOK, Facts
  <2>5. Backed(row)'
    BY <1>1, <2>1, <2>3, Assumptions DEF Backed, Entered, Fresh, Good
  <2>6. Reached(row)'
    BY <2>1, <2>2 DEF Reached, Gate
  <2> QED
    BY <2>1, <2>2, <2>4, <2>5, <2>6, StatesAreStates DEF GateInv, RowIsGood, StateIsGood, Running
<1>12. CASE GateTick
  <2>1. now' \in Time /\ UNCHANGED <<row, state, written, gateHistory>>
    BY <1>0, <1>12, TimeAssumption DEF GateTick, Passes, GateTypeOK, Time
  <2>2. written' \in BOOLEAN
    BY <1>0, <2>1 DEF GateTypeOK
  <2> QED
    BY <1>4, <2>1, <2>2
<1>13. CASE UNCHANGED gateVars
  BY <1>0, <1>4, <1>13 DEF gateVars, GateTypeOK
<1> QED
  BY <1>5, <1>6, <1>7, <1>8, <1>9, <1>10, <1>11, <1>12, <1>13 DEF GateNext

(* The types of the gate's row, its state and the history hold in every    *)
(* state, for any thresholds and any coverage measured.                    *)
THEOREM GateTypes == GateSpec => []GateTypeOK
<1>1. GateInv => GateTypeOK
  BY DEF GateInv
<1> QED
  BY InitGateInv, StepGateInv, <1>1, PTL DEF GateSpec

(* A gate above the one the operator gave last is only traded at after the *)
(* fills, the days and the coverage of every gate in between, whatever is  *)
(* killed, not written or given back meanwhile (gates.py:4 and :16).       *)
THEOREM GatesAreEarned == GateSpec => []GateIsEarned
<1>1. GateInv => GateIsEarned
  BY DEF GateInv, StateIsGood, Reached, GateIsEarned
<1> QED
  BY InitGateInv, StepGateInv, <1>1, PTL DEF GateSpec

-----------------------------------------------------------------------------
(***************************************************************************)
(* A feature flag is answered on only by right of an enable that no later  *)
(* disable took back, for any operators, hours and length of the day.      *)
(*                                                                         *)
(* OnIsGranted is not inductive: an answer rests on files that others      *)
(* write.  So nothing on the disk, and nothing an enable is about to       *)
(* write, counts for longer than somebody is entitled to (FileIsEntitled,  *)
(* TextIsEntitled), a flag that is killed has its disable file and nobody  *)
(* who would remove it (KilledStays), and a check that goes on was asked   *)
(* of a flag that was not killed (CheckGoesOn).                            *)
(***************************************************************************)

FileIsEntitled ==
  /\ enableFile.expiry <= entitled
  /\ enableFile.there => enableFile.mtime + Day <= entitled

TextIsEntitled == \A p \in Operator : enabling[p].at = "write" => enabling[p].expiry <= entitled

KilledStays == killed => disableFile /\ \A p \in Operator : enabling[p].at = "idle"

CheckGoesOn == check.at # "idle" => check.override = "none" /\ ~check.killed /\ ~check.answer

FlagInv ==
  /\ FlagTypeOK
  /\ FileIsEntitled /\ TextIsEntitled
  /\ KilledStays /\ CheckGoesOn
  /\ OnIsGranted

LEMMA FlagNumbers ==
  ASSUME FlagTypeOK
  PROVE  /\ Day \in Nat /\ now \in Nat /\ entitled \in Nat
         /\ \A hours \in Hours : hours = Never \/ hours \in Nat
         /\ enableFile.expiry \in Int /\ enableFile.mtime \in Nat /\ check.now \in Nat
         /\ \A p \in Operator : enabling[p].expiry \in Int
BY FlagAssumption, TimeAssumption DEF FlagTypeOK, Time, Never

LEMMA LaterIsLater ==
  ASSUME NEW a \in Nat, NEW b \in Nat
  PROVE  Later(a, b) \in Nat /\ a <= Later(a, b) /\ b <= Later(a, b)
BY DEF Later

Enabling == [at : {"idle", "exists", "unlink", "file", "write"},
             hours : Hours \cup {Never}, expiry : Nat \cup {Never}]

LEMMA InitFlagInv == FlagInit => FlagInv
<1> SUFFICES ASSUME FlagInit PROVE FlagInv
  OBVIOUS
<1>1. enabling \in [Operator -> Enabling] /\ \A p \in Operator : enabling[p].at = "idle"
  BY DEF FlagInit, Idle, Enabling
<1>2. check.at = "idle" /\ ~check.answer /\ ~enableFile.there /\ enableFile.expiry <= entitled /\ ~killed
  BY DEF FlagInit, NoFile, Never
<1>3. FlagTypeOK
  <2>1. 0 \in Time /\ enableFile \in [there : BOOLEAN, expiry : Nat \cup {Never}, mtime : Time]
    BY TimeAssumption DEF FlagInit, NoFile, Time
  <2>2. check \in [at : {"idle", "exists", "read", "stat"}, now : Time, override : Override,
                   answer : BOOLEAN, killed : BOOLEAN]
    BY <2>1 DEF FlagInit, Override
  <2> QED
    BY <1>1, <2>1, <2>2 DEF FlagInit, ClockInit, FlagTypeOK, Enabling
<1> QED
  BY <1>1, <1>2, <1>3 DEF FlagInv, FileIsEntitled, TextIsEntitled, KilledStays, CheckGoesOn, OnIsGranted

(* What an enable is at next is a place in it, and the others are where    *)
(* they were.                                                              *)
LEMMA EnablingChanges ==
  ASSUME FlagTypeOK, NEW p \in Operator, NEW x \in Enabling, enabling' = [enabling EXCEPT ![p] = x]
  PROVE  /\ enabling' \in [Operator -> Enabling]
         /\ enabling'[p] = x /\ \A q \in Operator \ {p} : enabling'[q] = enabling[q]
BY DEF FlagTypeOK, Enabling

LEMMA EnableBeginsStep ==
  ASSUME FlagInv, NEW p \in Operator, NEW hours \in Hours, EnableBegins(p, hours)
  PROVE  FlagInv'
<1> DEFINE x == [Idle EXCEPT !.at = "exists", !.hours = hours]
<1>1. x \in Enabling /\ x.at = "exists"
  <2>1. Idle \in Enabling
    BY DEF Idle, Enabling
  <2> QED
    BY <2>1 DEF Enabling
<1>2. /\ enabling' = [enabling EXCEPT ![p] = x]
      /\ ~killed' /\ UNCHANGED <<now, disableFile, enableFile, check, entitled>>
  BY DEF EnableBegins, files
<1> HIDE DEF x
<1>3. /\ enabling' \in [Operator -> Enabling]
      /\ enabling'[p] = x /\ \A q \in Operator \ {p} : enabling'[q] = enabling[q]
  BY <1>1, <1>2, EnablingChanges DEF FlagInv
<1>4. FlagTypeOK'
  BY <1>2, <1>3 DEF EnableBegins, FlagInv, FlagTypeOK, Enabling
<1>5. TextIsEntitled'
  BY <1>1, <1>2, <1>3 DEF FlagInv, TextIsEntitled
<1> QED
  BY <1>2, <1>4, <1>5 DEF EnableBegins, FlagInv, FileIsEntitled, KilledStays, CheckGoesOn, OnIsGranted

(* Steps that leave the enable file alone.                                 *)
LEMMA EnableElsewhereStep ==
  ASSUME FlagInv, NEW p \in Operator, EnableLooks(p) \/ EnableUnlinks(p) \/ EnableDies(p)
  PROVE  FlagInv'
<1>1. PICK x \in Enabling : /\ enabling' = [enabling EXCEPT ![p] = x]
                            /\ enabling[p].at # "idle" /\ x.at # "write"
  <2>1. enabling[p] \in Enabling /\ Idle \in Enabling
    BY DEF FlagInv, FlagTypeOK, Idle, Enabling
  <2>2. CASE EnableLooks(p)
    <3> DEFINE x == [enabling[p] EXCEPT !.at = IF disableFile THEN "unlink" ELSE "file"]
    <3>1. x \in Enabling /\ x.at # "write"
      BY <2>1 DEF Enabling
    <3>2. enabling' = [enabling EXCEPT ![p] = x] /\ enabling[p].at # "idle"
      BY <2>2 DEF EnableLooks, To
    <3> QED
      BY <3>1, <3>2
  <2>3. CASE EnableUnlinks(p)
    <3> DEFINE x == IF disableFile THEN [enabling[p] EXCEPT !.at = "file"] ELSE Idle
    <3>1. x \in Enabling /\ x.at # "write"
      BY <2>1 DEF Enabling, Idle
    <3>2. enabling' = [enabling EXCEPT ![p] = x] /\ enabling[p].at # "idle"
      BY <2>3 DEF EnableUnlinks
    <3> QED
      BY <3>1, <3>2
  <2>4. CASE EnableDies(p)
    <3>1. enabling' = [enabling EXCEPT ![p] = Idle] /\ enabling[p].at # "idle" /\ Idle.at # "write"
      BY <2>4 DEF EnableDies, Idle
    <3> QED
      BY <2>1, <3>1
  <2> QED
    BY <2>2, <2>3, <2>4
<1>2. UNCHANGED <<now, enableFile, check, killed, entitled>> /\ disableFile' \in BOOLEAN
  BY DEF EnableLooks, EnableUnlinks, EnableDies, files, flagHistory, FlagInv, FlagTypeOK
<1>3. /\ enabling' \in [Operator -> Enabling]
      /\ enabling'[p] = x /\ \A q \in Operator \ {p} : enabling'[q] = enabling[q]
  BY <1>1, EnablingChanges DEF FlagInv
<1>4. FlagTypeOK'
  BY <1>2, <1>3 DEF FlagInv, FlagTypeOK, Enabling
<1>5. TextIsEntitled'
  BY <1>1, <1>2, <1>3 DEF FlagInv, TextIsEntitled
<1>6. ~killed /\ FileIsEntitled' /\ CheckGoesOn' /\ OnIsGranted'
  BY <1>1, <1>2 DEF FlagInv, FileIsEntitled, KilledStays, CheckGoesOn, OnIsGranted
<1> QED
  BY <1>2, <1>4, <1>5, <1>6 DEF FlagInv, KilledStays

(* Steps that write the enable file entitle to what is written in it.      *)
LEMMA EnableFileStep ==
  ASSUME FlagInv, NEW p \in Operator, EnableTouches(p) \/ EnableTruncates(p) \/ EnableWrites(p)
  PROVE  FlagInv'
<1>0. /\ FlagTypeOK /\ enabling[p] \in Enabling /\ Idle \in Enabling /\ enabling[p].at # "idle"
      /\ enabling[p].hours = Never \/ enabling[p].hours \in Nat
      /\ Day \in Nat /\ now \in Nat /\ now \in Time /\ entitled \in Nat /\ enableFile.expiry \in Int
  <2>1. FlagTypeOK /\ enabling[p] \in Enabling /\ now \in Time
    BY DEF FlagInv, FlagTypeOK, Enabling
  <2> QED
    BY <2>1, FlagNumbers DEF EnableTouches, EnableTruncates, EnableWrites, Idle, Enabling
<1>1. PICK x \in Enabling : /\ enabling' = [enabling EXCEPT ![p] = x]
                            /\ x.at = "write" => x.expiry <= entitled'
  <2>1. CASE EnableTouches(p) \/ EnableWrites(p)
    <3>1. enabling' = [enabling EXCEPT ![p] = Idle] /\ Idle.at # "write"
      BY <2>1 DEF EnableTouches, EnableWrites, Idle
    <3> QED
      BY <1>0, <3>1
  <2>2. CASE EnableTruncates(p)
    <3> DEFINE x == [enabling[p] EXCEPT !.at = "write", !.expiry = now + enabling[p].hours]
    <3>1. enabling[p].hours \in Nat
      BY <1>0, <2>2 DEF EnableTruncates
    <3>0. now + enabling[p].hours \in Nat
      BY <1>0, <3>1
    <3>2. x \in Enabling /\ x.expiry = now + enabling[p].hours
      BY <1>0, <3>0 DEF Enabling
    <3>3. enabling' = [enabling EXCEPT ![p] = x]
      BY <1>0, <2>2 DEF EnableTruncates, FlagTypeOK
    <3>4. entitled' = Later(entitled, now + Later(Day, enabling[p].hours))
      BY <2>2 DEF EnableTruncates
    <3>5. now + enabling[p].hours <= entitled'
      BY <1>0, <3>1, <3>4 DEF Later
    <3> QED
      BY <3>2, <3>3, <3>5
  <2> QED
    BY <2>1, <2>2
<1>2. /\ enabling' \in [Operator -> Enabling]
      /\ enabling'[p] = x /\ \A q \in Operator \ {p} : enabling'[q] = enabling[q]
  BY <1>0, <1>1, EnablingChanges
<1>3. UNCHANGED <<now, disableFile, check, killed>>
  BY DEF EnableTouches, EnableTruncates, EnableWrites
<1>4. entitled' \in Nat /\ entitled <= entitled' /\ now + Day <= entitled'
  BY <1>0, LaterIsLater DEF EnableTouches, EnableTruncates, EnableWrites, Later
<1>5. /\ enableFile' \in [there : BOOLEAN, expiry : Nat \cup {Never}, mtime : Time]
      /\ enableFile'.mtime = now /\ enableFile'.expiry <= entitled'
  <2>1. CASE EnableTouches(p)
    <3>1. enableFile' = [enableFile EXCEPT !.there = TRUE, !.mtime = now]
      BY <2>1 DEF EnableTouches
    <3>2. enableFile \in [there : BOOLEAN, expiry : Nat \cup {Never}, mtime : Time]
      BY <1>0 DEF FlagTypeOK
    <3>3. enableFile'.expiry = enableFile.expiry /\ enableFile.expiry <= entitled
      BY <3>1, <3>2 DEF FlagInv, FileIsEntitled
    <3>4. enableFile'.there \in BOOLEAN /\ enableFile'.mtime = now
      BY <3>1, <3>2
    <3>5. enableFile' \in [there : BOOLEAN, expiry : Nat \cup {Never}, mtime : Time]
      BY <1>0, <3>1, <3>2
    <3> QED
      BY <1>0, <1>4, <3>3, <3>4, <3>5
  <2>2. CASE EnableTruncates(p)
    <3>1. enableFile' = [there |-> TRUE, expiry |-> Never, mtime |-> now]
      BY <2>2 DEF EnableTruncates
    <3> QED
      BY <1>0, <1>4, <3>1 DEF Never
  <2>3. CASE EnableWrites(p)
    <3>1. /\ enableFile' = [there |-> TRUE, expiry |-> enabling[p].expiry, mtime |-> now]
          /\ enabling[p].at = "write"
      BY <2>3 DEF EnableWrites
    <3>2. enabling[p].expiry <= entitled /\ enabling[p].expiry \in Nat \cup {Never}
      BY <1>0, <3>1 DEF FlagInv, TextIsEntitled, Enabling
    <3> QED
      BY <1>0, <1>4, <3>1, <3>2 DEF Never
  <2> QED
    BY <2>1, <2>2, <2>3
<1>6. FlagTypeOK'
  BY <1>0, <1>2, <1>3, <1>4, <1>5 DEF FlagTypeOK, Enabling
<1>7. FileIsEntitled'
  BY <1>4, <1>5 DEF FileIsEntitled
<1>8. TextIsEntitled'
  BY <1>0, <1>1, <1>2, <1>4, FlagNumbers DEF FlagInv, TextIsEntitled
<1>9. ~killed /\ CheckGoesOn'
  BY <1>0, <1>3 DEF FlagInv, KilledStays, CheckGoesOn
<1>10. OnIsGranted'
  BY <1>0, <1>3, <1>4, FlagNumbers DEF FlagInv, OnIsGranted
<1> QED
  BY <1>3, <1>6, <1>7, <1>8, <1>9, <1>10 DEF FlagInv, KilledStays

LEMMA DisableStep == FlagInv /\ Disable => FlagInv'
BY DEF FlagInv, FlagTypeOK, Disable, FileIsEntitled, TextIsEntitled, KilledStays, CheckGoesOn, OnIsGranted

LEMMA ClearStep == FlagInv /\ (ClearDisable \/ ClearEnable) => FlagInv'
<1> SUFFICES ASSUME FlagInv, ClearDisable \/ ClearEnable PROVE FlagInv'
  OBVIOUS
<1>1. CASE ClearDisable
  BY <1>1 DEF FlagInv, FlagTypeOK, ClearDisable, FileIsEntitled, TextIsEntitled, KilledStays,
     CheckGoesOn, OnIsGranted
<1>2. CASE ClearEnable
  <2>1. /\ enableFile' = NoFile /\ UNCHANGED <<now, disableFile, check, killed, entitled>>
        /\ enabling' = [p \in Operator |-> IF enabling[p].at = "write" THEN Idle ELSE enabling[p]]
    BY <1>2 DEF ClearEnable, flagHistory
  <2>2. NoFile \in [there : BOOLEAN, expiry : Nat \cup {Never}, mtime : Time]
    BY TimeAssumption DEF NoFile, Time
  <2>3. enabling' \in [Operator -> Enabling]
    <3>1. Idle \in Enabling /\ enabling \in [Operator -> Enabling]
      BY DEF FlagInv, FlagTypeOK, Idle, Enabling
    <3> QED
      BY <2>1, <3>1
  <2>4. FlagTypeOK'
    BY <2>1, <2>2, <2>3 DEF FlagInv, FlagTypeOK, Enabling
  <2>5. FileIsEntitled'
    BY <2>1 DEF FlagInv, FlagTypeOK, FileIsEntitled, NoFile, Never
  <2>6. TextIsEntitled' /\ KilledStays'
    BY <2>1 DEF FlagInv, TextIsEntitled, KilledStays, Idle
  <2> QED
    BY <2>1, <2>4, <2>5, <2>6 DEF FlagInv, CheckGoesOn, OnIsGranted
<1> QED
  BY <1>1, <1>2

Check == [at : {"idle", "exists", "read", "stat"}, now : Time, override : Override,
          answer : BOOLEAN, killed : BOOLEAN]

(* What is_enabled answers with what it finds is granted.                  *)
LEMMA CheckStep ==
  ASSUME FlagInv,
         \/ \E override \in Override : CheckDisabled(override)
         \/ CheckEnabled \/ CheckExpiry \/ CheckAge
  PROVE  FlagInv'
<1>0. /\ FlagTypeOK /\ FileIsEntitled /\ KilledStays /\ CheckGoesOn /\ OnIsGranted
      /\ check \in Check /\ now \in Time
      /\ Day \in Nat /\ entitled \in Nat /\ enableFile.expiry \in Int /\ enableFile.mtime \in Nat
      /\ check.now \in Nat
  BY FlagNumbers DEF FlagInv, FlagTypeOK, Check
<1>1. UNCHANGED <<now, disableFile, enableFile, enabling, killed, entitled>>
  BY DEF CheckDisabled, CheckEnabled, CheckExpiry, CheckAge, files, flagHistory
<1>2. check' \in Check /\ CheckGoesOn' /\ OnIsGranted'
  <2>1. ASSUME NEW override \in Override, CheckDisabled(override)
        PROVE  check' \in Check /\ CheckGoesOn' /\ OnIsGranted'
    <3>1. check' = [at |-> IF override = "none" /\ ~disableFile THEN "exists" ELSE "idle", now |-> now,
                    override |-> override, answer |-> override = "on" /\ ~disableFile, killed |-> killed]
      BY <2>1 DEF CheckDisabled
    <3>2. killed \in BOOLEAN /\ (killed => disableFile)
      BY <1>0 DEF FlagTypeOK, KilledStays
    <3>3. check' \in Check
      BY <1>0, <3>1, <3>2 DEF Check
    <3>4. /\ check'.at # "idle" => override = "none" /\ ~disableFile
          /\ check'.answer = (override = "on" /\ ~disableFile)
          /\ check'.override = override /\ check'.killed = killed
      BY <3>1
    <3> QED
      BY <3>2, <3>3, <3>4 DEF CheckGoesOn, OnIsGranted
  <2>2. ASSUME NEW yes \in BOOLEAN, Answer(yes), check.at # "idle", yes => check.now < entitled
        PROVE  check' \in Check /\ CheckGoesOn' /\ OnIsGranted'
    <3>1. check' = [check EXCEPT !.at = "idle", !.answer = yes]
      BY <2>2 DEF Answer
    <3>2. /\ check' \in Check /\ check'.at = "idle" /\ check'.answer = yes
          /\ check'.killed = check.killed /\ check'.now = check.now
      BY <1>0, <3>1 DEF Check
    <3> QED
      BY <1>0, <1>1, <2>2, <3>2 DEF CheckGoesOn, OnIsGranted
  <2>3. ASSUME NEW next \in {"read", "stat"}, check' = [check EXCEPT !.at = next], check.at # "idle"
        PROVE  check' \in Check /\ CheckGoesOn' /\ OnIsGranted'
    <3>1. /\ check' \in Check /\ check'.override = check.override
          /\ check'.answer = check.answer /\ check'.killed = check.killed /\ check'.now = check.now
      BY <1>0, <2>3 DEF Check
    <3> QED
      BY <1>0, <1>1, <2>3, <3>1 DEF CheckGoesOn, OnIsGranted
  <2>4. CASE CheckEnabled
    BY <2>2, <2>3, <2>4 DEF CheckEnabled
  <2>5. CASE CheckExpiry
    <3>1. enableFile.expiry <= entitled
      BY <1>0 DEF FileIsEntitled
    <3>2. (check.now < enableFile.expiry) \in BOOLEAN /\ (check.now < enableFile.expiry => check.now < entitled)
      BY <1>0, <3>1
    <3> QED
      BY <2>2, <2>3, <2>5, <3>2 DEF CheckExpiry
  <2>6. CASE CheckAge
    <3> DEFINE yes == enableFile.there /\ check.now - enableFile.mtime < Day
    <3>1. yes \in BOOLEAN
      BY <1>0 DEF FlagTypeOK
    <3>2. yes => check.now < entitled
      BY <1>0 DEF FileIsEntitled
    <3>3. Answer(yes) /\ check.at # "idle"
      BY <2>6 DEF CheckAge
    <3> HIDE DEF yes
    <3> QED
      BY <2>2, <3>1, <3>2, <3>3
  <2> QED
    BY <2>1, <2>4, <2>5, <2>6
<1>3. FlagTypeOK'
  BY <1>0, <1>1, <1>2 DEF FlagTypeOK, Check
<1> QED
  BY <1>1, <1>2, <1>3 DEF FlagInv, FileIsEntitled, TextIsEntitled, KilledStays

LEMMA StepFlagInv == FlagInv /\ [FlagNext]_flagVars => FlagInv'
<1> SUFFICES ASSUME FlagInv, [FlagNext]_flagVars PROVE FlagInv'
  OBVIOUS
<1>1. CASE FlagTick \/ UNCHANGED flagVars
  <2>1. now' \in Time /\ UNCHANGED <<disableFile, enableFile, enabling, check, killed, entitled>>
    BY <1>1, TimeAssumption DEF FlagTick, Passes, flagVars, files, flagHistory, FlagInv, FlagTypeOK, Time
  <2> QED
    BY <2>1 DEF FlagInv, FlagTypeOK, FileIsEntitled, TextIsEntitled, KilledStays, CheckGoesOn, OnIsGranted
<1>2. ASSUME NEW p \in Operator,
             \/ \E hours \in Hours : EnableBegins(p, hours)
             \/ EnableLooks(p) \/ EnableUnlinks(p) \/ EnableTouches(p)
             \/ EnableTruncates(p) \/ EnableWrites(p) \/ EnableDies(p)
      PROVE  FlagInv'
  BY <1>2, EnableBeginsStep, EnableElsewhereStep, EnableFileStep
<1> QED
  BY <1>1, <1>2, DisableStep, ClearStep, CheckStep DEF FlagNext

(* Whatever operators do to each other's files and wherever they are       *)
(* killed, a flag is answered on only if nobody had disabled it for good   *)
(* when it was asked, and the configuration says so or somebody enabled it *)
(* for longer than that (feature_flags.py:77).                             *)
THEOREM OnByRight == FlagSpec => []OnIsGranted
<1>1. FlagInv => OnIsGranted
  BY DEF FlagInv
<1> QED
  BY <1>1, InitFlagInv, StepFlagInv, PTL DEF FlagSpec

(* The types of the files, the operators and the check hold in every       *)
(* state, for any hours asked for (feature_flags.py:67).                   *)
THEOREM FlagTypes == FlagSpec => []FlagTypeOK
<1>1. FlagInv => FlagTypeOK
  BY DEF FlagInv
<1> QED
  BY <1>1, InitFlagInv, StepFlagInv, PTL DEF FlagSpec

=============================================================================
