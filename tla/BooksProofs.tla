---------------------------- MODULE BooksProofs -----------------------------
(***************************************************************************)
(* The sizes that detection and allocation find are worth what they are    *)
(* recorded for, and are the largest, for any books, limits, caps, fees,   *)
(* gas, gate and tick; and a backtest is charged no less than its          *)
(* contracts cost, for any books, fill models, slippage and opportunities. *)
(*                                                                         *)
(* A book is walked by functions that compute each value from the one      *)
(* before.  What they compute is shown by induction over a set of natural  *)
(* numbers (a least counterexample).  Walking a book costs what its        *)
(* contracts cost one by one; their prices only rise.  So the profit that  *)
(* one more contract adds only falls, and the sizes worth trading are an   *)
(* interval, of which a binary search keeps the boundary between its ends. *)
(*                                                                         *)
(* What a fill leaves of a book are its later contracts.  So the next leg  *)
(* pays an average over contracts that come later than those the trade is  *)
(* counted for, maybe more of them: as prices rise, it is no lower.        *)
(***************************************************************************)
EXTENDS Sizing, Backtest, SequenceTheorems, WellFoundedInduction, TLAPS

-----------------------------------------------------------------------------
(* Recursion over the numbers up to a bound.                               *)

(* Induction over the natural numbers, for a set of them.                  *)
LEMMA Induction ==
  ASSUME NEW T, 0 \in T, \A n \in Nat : n \in T => n + 1 \in T
  PROVE  \A n \in Nat : n \in T
<1> DEFINE less == { pair \in Nat \X Nat : pair[1] < pair[2] }
           missing == Nat \ T
<1>1. SUFFICES ASSUME missing # {} PROVE FALSE
  OBVIOUS
<1>2. IsWellFoundedOn(less, Nat)
  BY NatLessThanWellFounded DEF OpToRel
<1>3. PICK n \in missing : \A k \in missing : ~ (<<k, n>> \in less)
  <2> HIDE DEF less
  <2>1. missing \subseteq Nat
    OBVIOUS
  <2> HIDE DEF missing
  <2> QED
    BY <1>1, <1>2, <2>1, WFMin
<1>4. n \in Nat \ {0}
  OBVIOUS
<1>5. n - 1 \in Nat /\ n - 1 < n /\ (n - 1) + 1 = n
  BY <1>4
<1>6. n - 1 \notin T
  BY <1>4, <1>5
<1>7. <<n - 1, n>> \in less
  BY <1>4, <1>5
<1> QED
  BY <1>3, <1>5, <1>6, <1>7

Follows(f, N, base, step) == f[0] = base /\ \A i \in 1 .. N : f[i] = step[<<i, f[i - 1]>>]

(* A function that each step computes from the one before exists.          *)
LEMMA Recursion ==
  ASSUME NEW N \in Nat, NEW S, NEW base \in S, NEW step \in [(1 .. N) \X S -> S]
  PROVE  \E f \in [0 .. N -> S] : Follows(f, N, base, step)
<1> USE DEF Follows
<1> DEFINE Good(n) == \E f \in [0 .. n -> S] : Follows(f, n, base, step)
           T == { n \in Nat : n <= N => Good(n) }
<1>1. 0 \in T
  <2> DEFINE f == [i \in 0 .. 0 |-> base]
  <2>1. f \in [0 .. 0 -> S]
    OBVIOUS
  <2>2. f[0] = base /\ \A i \in 1 .. 0 : f[i] = step[<<i, f[i - 1]>>]
    OBVIOUS
  <2> QED
    BY <2>1, <2>2
<1>2. ASSUME NEW n \in Nat, n \in T PROVE n + 1 \in T
  <2>1. SUFFICES ASSUME n + 1 <= N PROVE Good(n + 1)
    OBVIOUS
  <2>2. Good(n)
    BY <1>2, <2>1
  <2>3. PICK f \in [0 .. n -> S] : Follows(f, n, base, step)
    BY <2>2
  <2> DEFINE g == [i \in 0 .. n + 1 |-> IF i = n + 1 THEN step[<<i, f[n]>>] ELSE f[i]]
  <2>4. g \in [0 .. n + 1 -> S]
    <3>1. step[<<n + 1, f[n]>>] \in S
      BY <2>1
    <3>2. \A i \in 0 .. n + 1 : i # n + 1 => i \in 0 .. n
      OBVIOUS
    <3> QED
      BY <3>1, <3>2
  <2>5. g[0] = base
    BY <2>3
  <2>6. \A i \in 1 .. n + 1 : g[i] = step[<<i, g[i - 1]>>]
    <3> SUFFICES ASSUME NEW i \in 1 .. n + 1 PROVE g[i] = step[<<i, g[i - 1]>>]
      OBVIOUS
    <3>1. CASE i = n + 1
      <4>1. g[i - 1] = f[n] /\ g[i] = step[<<i, f[n]>>]
        BY <3>1
      <4> QED
        BY <4>1
    <3>2. CASE i \in 1 .. n
      <4>1. g[i] = f[i] /\ g[i - 1] = f[i - 1]
        BY <3>2
      <4> QED
        BY <4>1, <3>2, <2>3
    <3> QED
      BY <3>1, <3>2
  <2> QED
    BY <2>4, <2>5, <2>6
<1>3. \A n \in Nat : n \in T
  <2> HIDE DEF T
  <2> QED
    BY <1>1, <1>2, Induction
<1> QED
  BY <1>3

-----------------------------------------------------------------------------
(* What walking a book costs.                                              *)

(* A book's last level.                                                    *)
Top(book) == Len(book)

(* Whole prices and positive sizes, best first; maybe no level at all.     *)
Rising(book) ==
  /\ Top(book) \in Nat /\ DOMAIN book = 1 .. Top(book)
  /\ \A i \in 1 .. Top(book) : book[i].price \in Nat /\ book[i].size \in Nat \ {0}
  /\ \A i, j \in 1 .. Top(book) : i <= j => book[i].price <= book[j].price

(* What that says, to cite.                                                *)
LEMMA BookTypes ==
  ASSUME NEW book, Rising(book)
  PROVE  /\ Top(book) \in Nat /\ DOMAIN book = 1 .. Top(book)
         /\ \A i \in 1 .. Top(book) : book[i].price \in Nat /\ book[i].size \in Nat \ {0}
         /\ \A i, j \in 1 .. Top(book) : i <= j => book[i].price <= book[j].price
BY DEF Rising

(* Recorded books are such, and have a level.                              *)
LEMMA BooksRise ==
  ASSUME NEW book \in Books
  PROVE  Rising(book) /\ Top(book) # 0
<1>1. PICK k \in 1 .. Depths : book \in [1 .. k -> Level]
  BY DEF Books
<1>2. k \in Nat \ {0}
  BY DepthAssumption
<1>3. Top(book) = k
  BY <1>1, <1>2 DEF Top
<1>4. \A i \in 1 .. k : book[i] \in [price : Nat, size : Nat \ {0}]
  BY <1>1, LevelAssumption
<1>5. \A i, j \in 1 .. k : i < j => book[i].price <= book[j].price
  BY <1>1 DEF Books, Sorted
<1> QED
  BY <1>1, <1>2, <1>3, <1>4, <1>5 DEF Rising

(* Each level adds its size to what the levels before it hold.             *)
LEMMA CumulatedSteps ==
  ASSUME NEW book, Top(book) \in Nat, \A i \in 1 .. Top(book) : book[i].size \in Nat
  PROVE  /\ Cumulated(book) \in [0 .. Top(book) -> Nat]
         /\ Cumulated(book)[0] = 0
         /\ \A i \in 1 .. Top(book) : Cumulated(book)[i] = Cumulated(book)[i - 1] + book[i].size
<1> DEFINE N == Top(book)
           step == [x \in (1 .. N) \X Nat |-> x[2] + book[x[1]].size]
           Steps(f) == f = [i \in 0 .. N |-> IF i = 0 THEN 0 ELSE f[i - 1] + book[i].size]
<1>1. N \in Nat /\ step \in [(1 .. N) \X Nat -> Nat]
  OBVIOUS
<1>2. PICK f \in [0 .. N -> Nat] : Follows(f, N, 0, step)
  <2> HIDE DEF N, step
  <2> QED
    BY <1>1, Recursion
<1>3. f[0] = 0 /\ \A i \in 1 .. N : f[i] = f[i - 1] + book[i].size
  <2>1. \A i \in 1 .. N : f[i - 1] \in Nat
    BY <1>1
  <2> QED
    BY <1>2, <2>1 DEF Follows
<1>4. Steps(f)
  BY <1>3, <1>1
<1>5. Cumulated(book) = CHOOSE g : Steps(g)
  BY DEF Cumulated, Top
<1>6. Steps(Cumulated(book))
  <2> HIDE DEF Steps
  <2> QED
    BY <1>4, <1>5
<1>7. /\ Cumulated(book)[0] = 0
      /\ \A i \in 1 .. N : Cumulated(book)[i] = Cumulated(book)[i - 1] + book[i].size
  <2>1. 0 \in 0 .. N /\ \A i \in 1 .. N : i \in 0 .. N /\ i # 0
    BY <1>1
  <2> QED
    BY <2>1, <1>6
<1>8. \A i \in 1 .. N : book[i].size \in Nat
  OBVIOUS
<1>9. Cumulated(book) \in [0 .. N -> Nat]
  <2> DEFINE held == Cumulated(book)
             T == { n \in Nat : n <= N => held[n] \in Nat }
  <2>1. 0 \in T
    BY <1>7
  <2>2. ASSUME NEW n \in Nat, n \in T PROVE n + 1 \in T
    <3>1. SUFFICES ASSUME n + 1 <= N PROVE held[n + 1] \in Nat
      OBVIOUS
    <3>2. held[n] \in Nat /\ n + 1 \in 1 .. N /\ (n + 1) - 1 = n
      BY <2>2, <3>1, <1>1
    <3>3. held[n + 1] = held[n] + book[n + 1].size
      BY <3>2, <1>7
    <3> QED
      BY <3>2, <3>3, <1>8
  <2>3. \A n \in Nat : n \in T
    <3> HIDE DEF T
    <3> QED
      BY <2>1, <2>2, Induction
  <2>4. held = [i \in 0 .. N |-> held[i]]
    BY <1>6
  <2>5. \A i \in 0 .. N : held[i] \in Nat
    BY <2>3, <1>1
  <2> HIDE DEF held
  <2>6. held \in [0 .. N -> Nat]
    BY <2>4, <2>5
  <2> QED
    BY <2>6 DEF held
<1> QED
  BY <1>7, <1>9

(* A book holds what its levels hold together.                             *)
LEMMA DepthIs ==
  ASSUME NEW book, Rising(book)
  PROVE  Depth(book) = Cumulated(book)[Top(book)] /\ Depth(book) \in Nat
<1>1. Depth(book) = Cumulated(book)[Top(book)]
  BY DEF Depth, Top
<1>2. Top(book) \in 0 .. Top(book)
  BY BookTypes
<1> QED
  BY <1>1, <1>2, BookTypes, CumulatedSteps

(* Deeper levels hold more.                                                *)
LEMMA CumulatedGrows ==
  ASSUME NEW book, Rising(book), NEW i \in 0 .. Top(book), NEW j \in i .. Top(book)
  PROVE  Cumulated(book)[i] <= Cumulated(book)[j]
<1> DEFINE held == Cumulated(book)
           N == Top(book)
           T == { n \in Nat : i + n <= N => held[i] <= held[i + n] }
<1>1. N \in Nat /\ held \in [0 .. N -> Nat]
      /\ \A k \in 1 .. N : held[k] = held[k - 1] + book[k].size /\ book[k].size \in Nat
  BY BookTypes, CumulatedSteps
<1> HIDE DEF held, N
<1>2. 0 \in T
  BY <1>1
<1>3. ASSUME NEW n \in Nat, n \in T PROVE n + 1 \in T
  <2>1. SUFFICES ASSUME i + (n + 1) <= N PROVE held[i] <= held[i + (n + 1)]
    OBVIOUS
  <2>2. i + n \in 0 .. N /\ i + (n + 1) \in 1 .. N /\ (i + (n + 1)) - 1 = i + n /\ i \in 0 .. N
    BY <2>1, <1>1 DEF N
  <2>3. held[i + (n + 1)] = held[i + n] + book[i + (n + 1)].size
    BY <2>2, <1>1
  <2>4. held[i] <= held[i + n]
    BY <1>3, <2>2
  <2>5. /\ held[i] \in Nat /\ held[i + n] \in Nat
        /\ held[i + (n + 1)] \in Nat /\ book[i + (n + 1)].size \in Nat
    BY <2>2, <1>1
  <2> QED
    BY <2>3, <2>4, <2>5
<1>4. \A n \in Nat : n \in T
  <2> HIDE DEF T
  <2> QED
    BY <1>2, <1>3, Induction
<1>5. j - i \in Nat /\ i + (j - i) = j /\ j <= N
  BY <1>1 DEF N
<1> QED
  BY <1>4, <1>5 DEF held

(* Every contract of a book is of one level.                               *)
LEMMA LevelOf ==
  ASSUME NEW book, Rising(book), NEW k \in 1 .. Depth(book)
  PROVE  \E i \in 1 .. Top(book) : Cumulated(book)[i - 1] < k /\ k <= Cumulated(book)[i]
<1> DEFINE held == Cumulated(book)
           N == Top(book)
           Found == \E i \in 1 .. N : held[i - 1] < k /\ k <= held[i]
           T == { n \in Nat : n <= N /\ k <= held[n] => Found }
<1>1. N \in Nat /\ held \in [0 .. N -> Nat] /\ held[0] = 0 /\ k \in Nat \ {0} /\ k <= held[N]
  BY BookTypes, CumulatedSteps, DepthIs
<1> HIDE DEF held, N
<1>2. 0 \in T
  BY <1>1
<1>3. ASSUME NEW n \in Nat, n \in T PROVE n + 1 \in T
  <2>1. SUFFICES ASSUME n + 1 <= N, k <= held[n + 1] PROVE Found
    OBVIOUS
  <2>2. n + 1 \in 1 .. N /\ (n + 1) - 1 = n /\ held[n] \in Nat
    BY <2>1, <1>1
  <2>3. CASE k <= held[n]
    BY <2>3, <2>1, <1>1, <1>3
  <2>4. CASE held[n] < k
    BY <2>4, <2>1, <2>2
  <2> QED
    BY <2>2, <2>3, <2>4, <1>1
<1>4. \A n \in Nat : n \in T
  <2> HIDE DEF T
  <2> QED
    BY <1>2, <1>3, Induction
<1>5. Found
  BY <1>4, <1>1
<1> QED
  BY <1>5 DEF held, N

(* A contract costs what its level says.                                   *)
LEMMA PriceOf ==
  ASSUME NEW book, Rising(book), NEW i \in 1 .. Top(book), NEW k \in Nat,
         Cumulated(book)[i - 1] < k, k <= Cumulated(book)[i]
  PROVE  Price(book, k) = book[i].price
<1> DEFINE held == Cumulated(book)
           N == Top(book)
           In(j) == held[j - 1] < k /\ k <= held[j]
<1>1. N \in Nat /\ held \in [0 .. N -> Nat] /\ DOMAIN book = 1 .. N
  BY BookTypes, CumulatedSteps
<1>2. \A j \in 1 .. N : In(j) => j = i
  <2> SUFFICES ASSUME NEW j \in 1 .. N, In(j), j # i PROVE FALSE
    OBVIOUS
  <2>1. CASE j < i
    <3>1. held[j] <= held[i - 1]
      BY <2>1, <1>1, CumulatedGrows
    <3>2. held[j] \in Nat /\ held[i - 1] \in Nat
      BY <1>1
    <3> QED
      BY <3>1, <3>2
  <2>2. CASE i < j
    <3>1. held[i] <= held[j - 1]
      BY <2>2, <1>1, CumulatedGrows
    <3>2. held[i] \in Nat /\ held[j - 1] \in Nat
      BY <1>1
    <3> QED
      BY <3>1, <3>2
  <2> QED
    BY <2>1, <2>2, <1>1
<1>3. In(i)
  OBVIOUS
<1>4. (CHOOSE j \in DOMAIN book : In(j)) = i
  <2> HIDE DEF In
  <2> QED
    BY <1>1, <1>2, <1>3
<1> QED
  BY <1>4 DEF Price

(* Prices are whole and not negative.                                      *)
LEMMA PriceTypes ==
  ASSUME NEW book, Rising(book), NEW k \in 1 .. Depth(book)
  PROVE  Price(book, k) \in Nat
<1>1. PICK i \in 1 .. Top(book) : Cumulated(book)[i - 1] < k /\ k <= Cumulated(book)[i]
  BY LevelOf
<1>2. k \in Nat
  BY DepthIs
<1>3. Price(book, k) = book[i].price
  BY <1>1, <1>2, PriceOf
<1> QED
  BY <1>3, BookTypes

(* Later contracts are no cheaper.                                         *)
LEMMA PriceRises ==
  ASSUME NEW book, Rising(book), NEW k \in 1 .. Depth(book), NEW later \in k .. Depth(book)
  PROVE  Price(book, k) <= Price(book, later)
<1> DEFINE held == Cumulated(book)
           N == Top(book)
<1>1. /\ N \in Nat /\ held \in [0 .. N -> Nat] /\ k \in Nat
      /\ later \in Nat /\ later \in 1 .. Depth(book) /\ k <= later
  BY BookTypes, CumulatedSteps, DepthIs
<1>2. PICK i \in 1 .. N : held[i - 1] < k /\ k <= held[i]
  BY LevelOf
<1>3. PICK j \in 1 .. N : held[j - 1] < later /\ later <= held[j]
  BY <1>1, LevelOf
<1>4. Price(book, k) = book[i].price
  BY <1>1, <1>2, PriceOf
<1>5. Price(book, later) = book[j].price
  BY <1>1, <1>3, PriceOf
<1>6. i <= j
  <2> SUFFICES ASSUME j < i PROVE FALSE
    BY <1>1
  <2>1. held[j] <= held[i - 1]
    BY <1>1, CumulatedGrows
  <2>2. held[j] \in Nat /\ held[i - 1] \in Nat
    BY <1>1
  <2> QED
    BY <2>1, <2>2, <1>1, <1>2, <1>3
<1> QED
  BY <1>4, <1>5, <1>6, BookTypes

(* Each contract adds its price to what those before it cost.              *)
LEMMA CostSteps ==
  ASSUME NEW book, Rising(book)
  PROVE  /\ \A n \in 0 .. Depth(book) : Cost(book, n) \in Nat
         /\ Cost(book, 0) = 0
         /\ \A n \in 1 .. Depth(book) : Cost(book, n) = Cost(book, n - 1) + Price(book, n)
<1> DEFINE N == Depth(book)
           step == [x \in (1 .. N) \X Nat |-> x[2] + Price(book, x[1])]
           Steps(f) == f = [k \in 0 .. N |-> IF k = 0 THEN 0 ELSE f[k - 1] + Price(book, k)]
           cost == CHOOSE g : Steps(g)
<1>1. N \in Nat /\ step \in [(1 .. N) \X Nat -> Nat]
  BY DepthIs, PriceTypes
<1>2. PICK f \in [0 .. N -> Nat] : Follows(f, N, 0, step)
  <2> HIDE DEF N, step
  <2> QED
    BY <1>1, Recursion
<1>3. f[0] = 0 /\ \A i \in 1 .. N : f[i] = f[i - 1] + Price(book, i)
  <2>1. \A i \in 1 .. N : f[i - 1] \in Nat
    BY <1>1
  <2> QED
    BY <1>2, <2>1 DEF Follows
<1>4. Steps(f)
  BY <1>3, <1>1
<1>5. \A n : Cost(book, n) = cost[n]
  BY DEF Cost
<1>6. Steps(cost)
  <2> HIDE DEF Steps
  <2> QED
    BY <1>4
<1> HIDE DEF cost, step
<1>7. cost[0] = 0 /\ \A i \in 1 .. N : cost[i] = cost[i - 1] + Price(book, i)
  <2>1. 0 \in 0 .. N /\ \A i \in 1 .. N : i \in 0 .. N /\ i # 0
    BY <1>1
  <2> QED
    BY <2>1, <1>6
<1>8. \A n \in 0 .. N : cost[n] \in Nat
  <2> DEFINE T == { n \in Nat : n <= N => cost[n] \in Nat }
  <2>1. 0 \in T
    BY <1>7
  <2>2. ASSUME NEW n \in Nat, n \in T PROVE n + 1 \in T
    <3>1. SUFFICES ASSUME n + 1 <= N PROVE cost[n + 1] \in Nat
      OBVIOUS
    <3>2. cost[n] \in Nat /\ n + 1 \in 1 .. N /\ (n + 1) - 1 = n
      BY <2>2, <3>1, <1>1
    <3>3. cost[n + 1] = cost[n] + Price(book, n + 1)
      BY <3>2, <1>7
    <3> QED
      BY <3>2, <3>3, PriceTypes
  <2>3. \A n \in Nat : n \in T
    <3> HIDE DEF T
    <3> QED
      BY <2>1, <2>2, Induction
  <2> QED
    BY <2>3, <1>1
<1> QED
  BY <1>5, <1>7, <1>8, <1>1

(* Within a level every contract costs the same.                           *)
LEMMA LevelCost ==
  ASSUME NEW book, Rising(book), NEW i \in 1 .. Top(book), NEW t \in 0 .. book[i].size
  PROVE  /\ Cumulated(book)[i - 1] + t \in 0 .. Depth(book)
         /\ Cost(book, Cumulated(book)[i - 1] + t)
              = Cost(book, Cumulated(book)[i - 1]) + t * book[i].price
<1> DEFINE held == Cumulated(book)
           N == Top(book)
           m == held[i - 1]
           p == book[i].price
           T == { n \in Nat : n <= book[i].size => Cost(book, m + n) = Cost(book, m) + n * p }
<1>1. /\ N \in Nat /\ held \in [0 .. N -> Nat] /\ m \in Nat /\ p \in Nat /\ t \in Nat
      /\ book[i].size \in Nat /\ held[i] = m + book[i].size /\ held[i] \in Nat
  <2>1. N \in Nat /\ book[i].size \in Nat /\ p \in Nat
    BY BookTypes
  <2>2. held \in [0 .. N -> Nat] /\ held[i] = m + book[i].size
    BY BookTypes, CumulatedSteps
  <2>3. i - 1 \in 0 .. N /\ i \in 0 .. N /\ t \in Nat
    BY <2>1
  <2> QED
    BY <2>1, <2>2, <2>3
<1>2. held[i] <= Depth(book) /\ Depth(book) \in Nat
  BY <1>1, CumulatedGrows, DepthIs
<1>3. Cost(book, m) \in Nat
  BY <1>1, <1>2, CostSteps
<1> HIDE DEF m, p
<1>4. 0 \in T
  BY <1>1, <1>3
<1>5. ASSUME NEW n \in Nat, n \in T PROVE n + 1 \in T
  <2>1. SUFFICES ASSUME n + 1 <= book[i].size
                 PROVE  Cost(book, m + (n + 1)) = Cost(book, m) + (n + 1) * p
    OBVIOUS
  <2>2. /\ m + (n + 1) \in 1 .. Depth(book) /\ (m + (n + 1)) - 1 = m + n
        /\ m < m + (n + 1) /\ m + (n + 1) <= held[i] /\ m + (n + 1) \in Nat
    BY <2>1, <1>1, <1>2
  <2>3. Cost(book, m + (n + 1)) = Cost(book, m + n) + Price(book, m + (n + 1))
    BY <2>2, CostSteps
  <2>4. Price(book, m + (n + 1)) = p
    BY <2>2, PriceOf DEF m, p
  <2>5. Cost(book, m + n) = Cost(book, m) + n * p
    BY <1>5, <2>1, <1>1
  <2>6. (n + 1) * p = n * p + p
    BY <1>1
  <2> QED
    BY <2>3, <2>4, <2>5, <2>6, <1>1, <1>3
<1>6. \A n \in Nat : n \in T
  <2> HIDE DEF T
  <2> QED
    BY <1>4, <1>5, Induction
<1>7. m + t \in 0 .. Depth(book)
  BY <1>1, <1>2
<1>8. Cost(book, m + t) = Cost(book, m) + t * p
  BY <1>6, <1>1
<1> QED
  BY <1>7, <1>8 DEF m, p

(* What a walk does at each level.                                         *)
LEMMA WalkSteps ==
  ASSUME NEW book, Rising(book), NEW n \in Nat
  PROVE  \E walk :
           /\ walk[0] = [left |-> n, cost |-> 0]
           /\ \A i \in 1 .. Top(book) :
                walk[i] =
                  [left |-> walk[i - 1].left - Smaller(book[i].size, walk[i - 1].left),
                   cost |-> walk[i - 1].cost
                              + Smaller(book[i].size, walk[i - 1].left) * book[i].price]
           /\ Walk(book, n) = walk[Top(book)]
<1> DEFINE N == Top(book)
           S == [left : Nat, cost : Nat]
           after(i, before) ==
             [left |-> before.left - Smaller(book[i].size, before.left),
              cost |-> before.cost + Smaller(book[i].size, before.left) * book[i].price]
           step == [x \in (1 .. N) \X S |-> after(x[1], x[2])]
           start == [left |-> n, cost |-> 0]
           Steps(f) == f = [i \in 0 .. N |-> IF i = 0 THEN start ELSE after(i, f[i - 1])]
           walk == CHOOSE g : Steps(g)
<1>1. N \in Nat /\ start \in S
  BY BookTypes
<1>2. \A i \in 1 .. N, x \in S : after(i, x) \in S
  <2> SUFFICES ASSUME NEW i \in 1 .. N, NEW x \in S PROVE after(i, x) \in S
    OBVIOUS
  <2>1. book[i].size \in Nat /\ book[i].price \in Nat /\ x.left \in Nat /\ x.cost \in Nat
    BY BookTypes
  <2>2. Smaller(book[i].size, x.left) \in Nat /\ x.left - Smaller(book[i].size, x.left) \in Nat
    BY <2>1 DEF Smaller
  <2>3. Smaller(book[i].size, x.left) * book[i].price \in Nat
    BY <2>1, <2>2
  <2> QED
    BY <2>1, <2>2, <2>3
<1>3. step \in [(1 .. N) \X S -> S]
  <2> HIDE DEF after, S
  <2> QED
    BY <1>2
<1>4. PICK f \in [0 .. N -> S] : Follows(f, N, start, step)
  <2> HIDE DEF N, S, start, step
  <2> QED
    BY <1>1, <1>3, Recursion
<1>5. f[0] = start /\ \A i \in 1 .. N : f[i] = after(i, f[i - 1])
  <2> HIDE DEF after, S, start
  <2>1. \A i \in 1 .. N : f[i - 1] \in S
    BY <1>1
  <2> QED
    BY <1>4, <2>1 DEF Follows
<1>6. Steps(f)
  <2> HIDE DEF after, S, start
  <2> QED
    BY <1>5, <1>1
<1>7. Walk(book, n) = walk[N]
  BY DEF Walk, Top
<1>8. Steps(walk)
  <2> HIDE DEF Steps
  <2> QED
    BY <1>6
<1>9. walk[0] = start /\ \A i \in 1 .. N : walk[i] = after(i, walk[i - 1])
  <2>1. 0 \in 0 .. N /\ \A i \in 1 .. N : i \in 0 .. N /\ i # 0
    BY <1>1
  <2> HIDE DEF walk, after, start
  <2> QED
    BY <2>1, <1>8
<1> HIDE DEF walk
<1> QED
  BY <1>7, <1>9

(* A walk takes what the book has, at what it costs.                       *)
LEMMA WalkIs ==
  ASSUME NEW book, Rising(book), NEW n \in Nat
  PROVE  /\ Filled(book, n) = Smaller(n, Depth(book))
         /\ Walk(book, n).cost = Cost(book, Smaller(n, Depth(book)))
<1> DEFINE held == Cumulated(book)
           N == Top(book)
           taken(i) == Smaller(n, held[i])
<1>1. PICK walk :
           /\ walk[0] = [left |-> n, cost |-> 0]
           /\ \A i \in 1 .. Top(book) :
                walk[i] =
                  [left |-> walk[i - 1].left - Smaller(book[i].size, walk[i - 1].left),
                   cost |-> walk[i - 1].cost
                              + Smaller(book[i].size, walk[i - 1].left) * book[i].price]
           /\ Walk(book, n) = walk[Top(book)]
  BY WalkSteps
<1> DEFINE Right(i) == walk[i].left = n - taken(i) /\ walk[i].cost = Cost(book, taken(i))
           T == { i \in Nat : i <= N => Right(i) }
<1>2. N \in Nat /\ held \in [0 .. N -> Nat] /\ held[0] = 0
  BY BookTypes, CumulatedSteps
<1>3. 0 \in T
  BY <1>1, <1>2, CostSteps DEF Smaller
<1>4. ASSUME NEW i \in Nat, i \in T PROVE i + 1 \in T
  <2>1. SUFFICES ASSUME i + 1 <= N PROVE Right(i + 1)
    OBVIOUS
  <2> DEFINE size == book[i + 1].size
             take == Smaller(size, n - taken(i))
  <2>2. i + 1 \in 1 .. N /\ (i + 1) - 1 = i /\ held[i] \in Nat
    BY <2>1, <1>2
  <2>3. Right(i)
    BY <1>4, <2>1, <1>2
  <2>4. /\ size \in Nat /\ book[i + 1].price \in Nat
        /\ held[i + 1] = held[i] + size
    BY <2>2, BookTypes, CumulatedSteps
  <2>5. taken(i) \in Nat /\ take \in 0 .. size /\ taken(i + 1) = taken(i) + take
    BY <2>2, <2>4 DEF Smaller
  <2>6. walk[i + 1].left = (n - taken(i)) - take
        /\ walk[i + 1].cost = Cost(book, taken(i)) + take * book[i + 1].price
    <3>1. walk[i + 1] =
            [left |-> walk[i].left - Smaller(size, walk[i].left),
             cost |-> walk[i].cost + Smaller(size, walk[i].left) * book[i + 1].price]
      BY <1>1, <2>2
    <3> HIDE DEF taken
    <3> QED
      BY <3>1, <2>3
  <2>7. CASE n < held[i]
    <3>1. take = 0 /\ taken(i) = n /\ Cost(book, n) \in Nat
      <4>1. held[i] <= Depth(book)
        BY <2>2, <1>2, CumulatedGrows, DepthIs
      <4> QED
        BY <4>1, <2>7, <2>4, <2>2, DepthIs, CostSteps DEF Smaller
    <3> QED
      BY <3>1, <2>4, <2>5, <2>6
  <2>8. CASE held[i] <= n
    <3>1. taken(i) = held[i]
      BY <2>8, <2>2 DEF Smaller
    <3>2. Cost(book, held[i] + take) = Cost(book, held[i]) + take * book[i + 1].price
      BY <2>2, <2>5, LevelCost
    <3> QED
      BY <3>1, <3>2, <2>4, <2>5, <2>6
  <2> QED
    BY <2>7, <2>8, <2>2
<1>5. \A i \in Nat : i \in T
  <2> HIDE DEF T
  <2> QED
    BY <1>3, <1>4, Induction
<1>6. Right(N)
  BY <1>5, <1>2
<1>7. held[N] = Depth(book) /\ Depth(book) \in Nat
  BY DepthIs
<1> QED
  BY <1>1, <1>6, <1>7 DEF Filled, Smaller

-----------------------------------------------------------------------------
(* What the search asks of each size.                                      *)

(* The constants are numbers.                                              *)
LEMMA Constants ==
  /\ Unit \in Nat /\ Scale \in Nat \ {0} /\ Fee \in Nat /\ Gas \in Nat
  /\ MinSize \in Nat \ {0} /\ MaxSize \in Nat /\ MaxSize >= MinSize /\ Part \in Nat \ {0}
  /\ Tick \in Nat \ {0} /\ Return \in Nat /\ Caps \subseteq Nat
BY MoneyAssumption, SizeAssumption, ReturnAssumption

Given == strategy \in Strategies /\ yes \in Books /\ no \in Books /\ cap \in Caps

(* The largest size there could be, and the sizes that pass and that fit.  *)
Room == Smaller(MaxSize, Smaller(Depth(yes), Depth(no)))
Passing == { n \in MinSize .. Room : Passes(n) }
Fitting == { n \in Passing : Capital(n) <= cap }

(* Nothing larger than Room can be bought whole.                           *)
LEMMA RoomIs ==
  ASSUME Given
  PROVE  /\ Room \in 0 .. MaxSize /\ Room <= Depth(yes) /\ Room <= Depth(no)
         /\ Depth(yes) \in Nat /\ Depth(no) \in Nat
         /\ \A n \in Nat : n <= MaxSize /\ Tradable(n) => n <= Room
<1>1. Depth(yes) \in Nat /\ Depth(no) \in Nat
  BY DepthIs, BooksRise DEF Given
<1> QED
  BY <1>1, Constants DEF Room, Smaller, Tradable

(* Of a size, as much is filled as there is room for.                      *)
LEMMA FillableIs ==
  ASSUME Given, NEW n \in Nat, n <= MaxSize
  PROVE  Fillable(n) = Smaller(n, Room)
<1>1. /\ Filled(yes, n) = Smaller(n, Depth(yes))
      /\ Filled(no, n) = Smaller(n, Depth(no))
  BY WalkIs, BooksRise DEF Given
<1> QED
  BY <1>1, RoomIs, Constants DEF Fillable, Room, Smaller

(* Rounding to whole ticks takes off half a tick a contract at most.       *)
LEMMA QuotedIs ==
  ASSUME NEW cost \in Nat, NEW n \in Nat \ {0}
  PROVE  Quoted(cost, n) \in Nat /\ 2 * (cost - Quoted(cost, n)) <= n * Tick
<1> DEFINE tick == n * Tick
           down == cost \div tick
           rest == 2 * (cost - (down * tick))
           up == rest > tick \/ (rest = tick /\ down % 2 = 1)
<1>1. tick \in Nat \ {0}
  BY Constants
<1> HIDE DEF tick
<1>2. down \in Nat
  BY <1>1
<1> HIDE DEF down
<1>3. down * tick \in Nat /\ tick * down = down * tick /\ tick * (down + 1) = (down * tick) + tick
  BY <1>1, <1>2
<1>4. Quoted(cost, n) = tick * (IF up THEN down + 1 ELSE down)
  BY DEF Quoted, tick, down
<1>5. CASE up
  <2>1. cost - (down * tick) < tick
    <3>1. cost = (tick * (cost \div tick)) + (cost % tick) /\ cost % tick \in 0 .. tick - 1
      BY <1>1
    <3> QED
      BY <3>1, <1>1, <1>3 DEF down
  <2>2. Quoted(cost, n) = (down * tick) + tick
    BY <1>3, <1>4, <1>5
  <2> HIDE DEF up
  <2> QED
    BY <2>1, <2>2, <1>1, <1>3 DEF tick
<1>6. CASE ~up
  <2>1. Quoted(cost, n) = down * tick
    BY <1>3, <1>4, <1>6
  <2>2. rest <= tick
    BY <1>6, <1>1, <1>3
  <2> QED
    BY <2>1, <2>2, <1>1, <1>3 DEF tick
<1> QED
  BY <1>5, <1>6

(* What a size is charged is what its contracts cost, at whole ticks.      *)
LEMMA CapitalIs ==
  ASSUME Given, NEW n \in 1 .. Room
  PROVE  /\ Cost(yes, n) \in Nat /\ Cost(no, n) \in Nat
         /\ Capital(n) = Billed(n) /\ Capital(n) \in Nat /\ Paid(n) \in Nat
         /\ strategy = "intra" => Capital(n) = Paid(n)
         /\ 2 * (Paid(n) - Billed(n)) <=
              (IF strategy = "cross" THEN n * Tick ELSE 0) * (Scale + Fee)
<1>1. n \in Nat \ {0} /\ n \in 0 .. Depth(yes) /\ n \in 0 .. Depth(no)
  BY RoomIs, Constants
<1>2. Cost(yes, n) \in Nat /\ Cost(no, n) \in Nat
  BY <1>1, CostSteps, BooksRise DEF Given
<1>3. Walk(yes, n).cost = Cost(yes, n) /\ Walk(no, n).cost = Cost(no, n)
  <2>1. Smaller(n, Depth(yes)) = n /\ Smaller(n, Depth(no)) = n
    BY <1>1, RoomIs DEF Smaller
  <2> QED
    BY <1>1, <2>1, WalkIs, BooksRise DEF Given
<1>4. \A c \in Nat : Charged(c) \in Nat
  BY Constants DEF Charged
<1>5. CASE strategy = "intra"
  <2>1. Capital(n) = Paid(n) /\ Billed(n) = Paid(n)
    BY <1>3, <1>5 DEF Capital, IntraCapital, Paid, Billed
  <2>2. Paid(n) \in Nat
    BY <1>2, <1>4 DEF Paid
  <2> QED
    BY <2>1, <2>2, <1>2, <1>5, Constants
<1>6. CASE strategy = "cross"
  <2> DEFINE q == Quoted(Cost(no, n), n)
             y == Cost(yes, n)
             x == Cost(no, n)
  <2>1. q \in Nat /\ 2 * (x - q) <= n * Tick
    BY <1>1, <1>2, QuotedIs
  <2>2. Capital(n) = Charged(y + q) /\ Billed(n) = Charged(y + q) /\ Paid(n) = Charged(y + x)
    BY <1>1, <1>3, <1>6 DEF Capital, CrossCapital, Paid, Billed
  <2>3. Charged(y + q) \in Nat /\ Charged(y + x) \in Nat
    BY <2>1, <1>2, <1>4
  <2> HIDE DEF q, x, y
  <2>4. 2 * (Charged(y + x) - Charged(y + q)) = (2 * (x - q)) * (Scale + Fee)
    BY <2>1, <1>2, Constants DEF Charged, x, y
  <2>5. (2 * (x - q)) * (Scale + Fee) <= (n * Tick) * (Scale + Fee)
    <3>1. 2 * (x - q) \in Int /\ n * Tick \in Int /\ Scale + Fee \in Nat
      BY <2>1, <1>1, <1>2, Constants DEF x
    <3>2. \A a, b \in Int, c \in Nat : a <= b => a * c <= b * c
      OBVIOUS
    <3> QED
      BY <3>1, <3>2, <2>1
  <2> QED
    BY <2>2, <2>3, <2>4, <2>5, <1>2, <1>6
<1> QED
  BY <1>5, <1>6 DEF Given, Strategies

(* What never falls ends no lower than it began.                           *)
LEMMA Grows ==
  ASSUME NEW a \in Nat, NEW b \in Nat, a <= b, NEW g, \A n \in a .. b : g[n] \in Int,
         \A n \in a + 1 .. b : g[n - 1] <= g[n]
  PROVE  g[a] <= g[b]
<1> DEFINE T == { i \in Nat : a + i <= b => g[a] <= g[a + i] }
<1>1. 0 \in T
  OBVIOUS
<1>2. ASSUME NEW i \in Nat, i \in T PROVE i + 1 \in T
  <2>1. SUFFICES ASSUME a + (i + 1) <= b PROVE g[a] <= g[a + (i + 1)]
    OBVIOUS
  <2>2. a + (i + 1) \in a + 1 .. b /\ (a + (i + 1)) - 1 = a + i
    BY <2>1
  <2>3. g[a + i] <= g[a + (i + 1)]
    BY <2>2
  <2>4. g[a] \in Int /\ g[a + i] \in Int /\ g[a + (i + 1)] \in Int
    BY <2>1
  <2>5. g[a] <= g[a + i]
    BY <1>2, <2>1
  <2> QED
    BY <2>3, <2>4, <2>5
<1>3. \A i \in Nat : i \in T
  <2> HIDE DEF T
  <2> QED
    BY <1>1, <1>2, Induction
<1>4. b - a \in T /\ a + (b - a) = b
  <2>1. b - a \in Nat
    OBVIOUS
  <2> QED
    BY <2>1, <1>3
<1> QED
  BY <1>4

(* What grows less and less does not come back once it has fallen.         *)
LEMMA Concave ==
  ASSUME NEW D \in Nat, NEW g, \A n \in 0 .. D : g[n] \in Int,
         \A n \in 1 .. D - 1 : g[n + 1] - g[n] <= g[n] - g[n - 1],
         NEW m \in 0 .. D, NEW k \in 0 .. D, NEW n \in 0 .. D,
         m < k, k <= n, g[k] < g[m]
  PROVE  g[n] <= g[k]
<1>1. PICK j \in m + 1 .. k : g[j] < g[j - 1]
  <2> SUFFICES ASSUME \A j \in m + 1 .. k : ~ (g[j] < g[j - 1]) PROVE FALSE
    OBVIOUS
  <2>1. \A j \in m .. k : g[j] \in Int
    OBVIOUS
  <2>2. \A j \in m + 1 .. k : g[j - 1] <= g[j]
    <3> SUFFICES ASSUME NEW j \in m + 1 .. k PROVE g[j - 1] <= g[j]
      OBVIOUS
    <3>1. g[j] \in Int /\ g[j - 1] \in Int
      OBVIOUS
    <3> QED
      BY <3>1
  <2>3. g[m] <= g[k]
    BY <2>1, <2>2, Grows
  <2> QED
    BY <2>1, <2>3
<1> DEFINE T == { i \in Nat : j + i <= D => g[j + i] < g[(j + i) - 1] }
<1>2. 0 \in T
  BY <1>1
<1>3. ASSUME NEW i \in Nat, i \in T PROVE i + 1 \in T
  <2>1. SUFFICES ASSUME j + (i + 1) <= D PROVE g[j + (i + 1)] < g[(j + (i + 1)) - 1]
    OBVIOUS
  <2> DEFINE x == j + i
  <2>2. x \in 1 .. D - 1 /\ j + (i + 1) = x + 1 /\ (j + (i + 1)) - 1 = x
    BY <2>1
  <2>3. g[x] < g[x - 1]
    BY <1>3, <2>1
  <2> HIDE DEF x
  <2>4. g[x + 1] - g[x] <= g[x] - g[x - 1]
    BY <2>2
  <2>5. g[x] \in Int /\ g[x - 1] \in Int /\ g[x + 1] \in Int
    BY <2>2
  <2>6. g[x + 1] < g[x]
    BY <2>3, <2>4, <2>5
  <2> QED
    BY <2>2, <2>6
<1>4. \A i \in Nat : i \in T
  <2> HIDE DEF T
  <2> QED
    BY <1>2, <1>3, Induction
<1> DEFINE fall == [i \in k .. n |-> -g[i]]
<1>5. \A i \in k .. n : fall[i] \in Int
  OBVIOUS
<1>6. \A i \in k + 1 .. n : fall[i - 1] <= fall[i]
  <2> SUFFICES ASSUME NEW i \in k + 1 .. n PROVE fall[i - 1] <= fall[i]
    OBVIOUS
  <2>1. i - j \in Nat /\ j + (i - j) = i /\ i <= D
    OBVIOUS
  <2>2. g[i] < g[i - 1]
    BY <2>1, <1>4
  <2>3. g[i] \in Int /\ g[i - 1] \in Int
    OBVIOUS
  <2> QED
    BY <2>2, <2>3
<1>7. fall[k] <= fall[n]
  <2> HIDE DEF fall
  <2>1. k \in Nat /\ n \in Nat
    OBVIOUS
  <2> QED
    BY <2>1, <1>5, <1>6, Grows
<1> QED
  BY <1>7

(* A size with room passes when it is worth what is charged for it.        *)
LEMMA PassingIs ==
  ASSUME Given, NEW n \in MinSize .. Room
  PROVE  /\ n \in Passing <=> Worth(n, Billed(n))
         /\ Compute(n) = IF n \in Passing THEN n ELSE 0
         /\ Fits(n) <=> n \in Fitting
<1>1. /\ n \in 1 .. Room /\ n \in Nat /\ n # 0 /\ n <= MaxSize /\ n >= MinSize
      /\ Room \in 0 .. MaxSize
  BY RoomIs, Constants
<1>2. Fillable(n) = n
  BY <1>1, FillableIs DEF Smaller
<1>3. Compute(n) = IF n \in Passing THEN n ELSE 0
  BY <1>2 DEF Compute, Passing
<1>4. Fits(n) <=> n \in Fitting
  BY <1>1, <1>3 DEF Fits, Fitting
<1>5. Capital(n) = Billed(n) /\ Capital(n) \in Nat
  BY <1>1, CapitalIs
<1>6. Passes(n) <=> Worth(n, Billed(n))
  <2>1. n * Unit * Scale \in Nat
    BY <1>1, Constants
  <2> QED
    BY <1>1, <1>5, <2>1, Constants DEF Passes, Profit, Worth
<1> QED
  BY <1>3, <1>4, <1>6 DEF Passing

(* The largest size is filled as far as the book goes.                     *)
LEMMA LargestIs ==
  ASSUME Given, ~Dead
  PROVE  /\ Room \in MinSize .. MaxSize
         /\ Compute(MaxSize) = IF Room \in Passing THEN Room ELSE 0
<1>1. Room \in MinSize .. MaxSize
  BY RoomIs, Constants DEF Dead, Room, Smaller
<1>2. Fillable(MaxSize) = Room
  BY <1>1, FillableIs, Constants DEF Smaller
<1> QED
  BY <1>1, <1>2, Constants DEF Compute, Passing

(* A contract more costs what its level says, and later ones no less.      *)
LEMMA PaidSteps ==
  ASSUME Given
  PROVE  /\ \A n \in 0 .. Room : Paid(n) \in Nat
         /\ \A n \in 1 .. Room : Paid(n - 1) <= Paid(n)
         /\ \A n \in 1 .. Room - 1 : Paid(n) - Paid(n - 1) <= Paid(n + 1) - Paid(n)
<1> DEFINE C(n) == Cost(yes, n) + Cost(no, n)
           P(n) == Price(yes, n) + Price(no, n)
           E == Scale + Fee
<1>1. Room \in Nat /\ Room <= Depth(yes) /\ Room <= Depth(no)
      /\ Depth(yes) \in Nat /\ Depth(no) \in Nat /\ E \in Nat
  BY RoomIs, Constants
<1>2. \A n \in 0 .. Room : C(n) \in Nat
  BY <1>1, CostSteps, BooksRise DEF Given
<1>3. \A n \in 1 .. Room : P(n) \in Nat /\ C(n) = C(n - 1) + P(n)
  <2> SUFFICES ASSUME NEW n \in 1 .. Room PROVE P(n) \in Nat /\ C(n) = C(n - 1) + P(n)
    OBVIOUS
  <2>1. n \in 1 .. Depth(yes) /\ n \in 1 .. Depth(no)
        /\ n - 1 \in 0 .. Depth(yes) /\ n - 1 \in 0 .. Depth(no)
    BY <1>1
  <2>2. Price(yes, n) \in Nat /\ Price(no, n) \in Nat
    BY <2>1, PriceTypes, BooksRise DEF Given
  <2>3. /\ Cost(yes, n) = Cost(yes, n - 1) + Price(yes, n)
        /\ Cost(no, n) = Cost(no, n - 1) + Price(no, n)
        /\ Cost(yes, n - 1) \in Nat /\ Cost(no, n - 1) \in Nat
    BY <2>1, CostSteps, BooksRise DEF Given
  <2> QED
    BY <2>2, <2>3
<1>4. \A n \in 1 .. Room - 1 : P(n) <= P(n + 1)
  <2> SUFFICES ASSUME NEW n \in 1 .. Room - 1 PROVE P(n) <= P(n + 1)
    OBVIOUS
  <2>1. /\ n \in 1 .. Depth(yes) /\ n \in 1 .. Depth(no)
        /\ n + 1 \in 1 .. Depth(yes) /\ n + 1 \in 1 .. Depth(no)
    BY <1>1
  <2>2. Price(yes, n) <= Price(yes, n + 1) /\ Price(no, n) <= Price(no, n + 1)
    BY <2>1, PriceRises, BooksRise DEF Given
  <2>3. /\ Price(yes, n) \in Nat /\ Price(yes, n + 1) \in Nat
        /\ Price(no, n) \in Nat /\ Price(no, n + 1) \in Nat
    BY <2>1, PriceTypes, BooksRise DEF Given
  <2> QED
    BY <2>2, <2>3
<1>5. \A n : Paid(n) = (C(n) * E) + (Gas * Scale)
  BY DEF Paid, Charged
<1> HIDE DEF C, P, E
<1>6. \A c \in Nat : c * E \in Nat
  BY <1>1
<1>7. Gas * Scale \in Nat
  BY Constants
<1>8. \A n \in 1 .. Room : P(n) * E \in Nat /\ Paid(n) = Paid(n - 1) + (P(n) * E)
  <2> SUFFICES ASSUME NEW n \in 1 .. Room
               PROVE  P(n) * E \in Nat /\ Paid(n) = Paid(n - 1) + (P(n) * E)
    OBVIOUS
  <2>1. P(n) \in Nat /\ C(n - 1) \in Nat /\ C(n) = C(n - 1) + P(n)
    BY <1>1, <1>2, <1>3
  <2>2. C(n) * E = (C(n - 1) * E) + (P(n) * E)
    BY <2>1, <1>1
  <2>3. C(n - 1) * E \in Nat /\ P(n) * E \in Nat
    BY <2>1, <1>6
  <2> QED
    BY <2>2, <2>3, <1>5, <1>7
<1>9. \A n \in 0 .. Room : Paid(n) \in Nat
  <2> SUFFICES ASSUME NEW n \in 0 .. Room PROVE Paid(n) \in Nat
    OBVIOUS
  <2>1. C(n) * E \in Nat
    BY <1>2, <1>6
  <2> QED
    BY <2>1, <1>5, <1>7
<1>10. \A n \in 1 .. Room : Paid(n - 1) <= Paid(n)
  BY <1>1, <1>8, <1>9
<1>11. \A n \in 1 .. Room - 1 : Paid(n) - Paid(n - 1) <= Paid(n + 1) - Paid(n)
  <2> SUFFICES ASSUME NEW n \in 1 .. Room - 1
               PROVE  Paid(n) - Paid(n - 1) <= Paid(n + 1) - Paid(n)
    OBVIOUS
  <2>1. n \in 1 .. Room /\ n + 1 \in 1 .. Room /\ (n + 1) - 1 = n /\ n - 1 \in 0 .. Room
    BY <1>1
  <2>2. Paid(n) = Paid(n - 1) + (P(n) * E) /\ Paid(n + 1) = Paid(n) + (P(n + 1) * E)
    BY <2>1, <1>8
  <2>3. P(n) * E <= P(n + 1) * E
    <3>1. P(n) \in Nat /\ P(n + 1) \in Nat /\ P(n) <= P(n + 1)
      BY <2>1, <1>3, <1>4
    <3> QED
      BY <3>1, <1>1
  <2>4. Paid(n - 1) \in Nat /\ Paid(n) \in Nat /\ P(n) * E \in Nat /\ P(n + 1) * E \in Nat
    BY <2>1, <1>8, <1>9
  <2> QED
    BY <2>2, <2>3, <2>4
<1> QED
  BY <1>9, <1>10, <1>11

(* What a size nets, its required return aside; and what it costs.         *)
Net(n) == n * Unit * Scale - Paid(n)
Surplus(n) == Net(n) * Scale - Return * Paid(n)

(* The profit and its surplus over the gate are concave in the size.       *)
LEMMA NetFalls ==
  ASSUME Given
  PROVE  /\ \A n \in 0 .. Room : Net(n) \in Int /\ Surplus(n) \in Int
         /\ \A n \in 1 .. Room - 1 :
              /\ Net(n + 1) - Net(n) <= Net(n) - Net(n - 1)
              /\ Surplus(n + 1) - Surplus(n) <= Surplus(n) - Surplus(n - 1)
<1>1. \A n \in 0 .. Room : Paid(n) \in Nat
  BY PaidSteps
<1>2. \A n \in Int : n * Unit * Scale \in Int
  BY Constants
<1>3. \A n \in 0 .. Room : Net(n) \in Int
  BY <1>1, <1>2 DEF Net
<1>4. \A n \in 0 .. Room : Surplus(n) \in Int
  <2> SUFFICES ASSUME NEW n \in 0 .. Room PROVE Surplus(n) \in Int
    OBVIOUS
  <2>1. Net(n) * Scale \in Int /\ Return * Paid(n) \in Int
    BY <1>1, <1>3, Constants
  <2> QED
    BY <2>1 DEF Surplus
<1>5. ASSUME NEW n \in 1 .. Room - 1
      PROVE  /\ Net(n + 1) - Net(n) <= Net(n) - Net(n - 1)
             /\ Surplus(n + 1) - Surplus(n) <= Surplus(n) - Surplus(n - 1)
  <2> DEFINE a == Paid(n - 1)
             b == Paid(n)
             c == Paid(n + 1)
             w == Unit * Scale
  <2>1. Room \in Nat /\ w \in Nat
    BY RoomIs, Constants
  <2>2. n \in Nat \ {0} /\ n - 1 \in 0 .. Room /\ n \in 0 .. Room /\ n + 1 \in 0 .. Room
    BY <2>1
  <2>3. a \in Nat /\ b \in Nat /\ c \in Nat /\ b - a <= c - b
    BY <2>2, PaidSteps
  <2>4. /\ n * Unit * Scale = n * w /\ (n + 1) * Unit * Scale = (n * w) + w
        /\ (n - 1) * Unit * Scale = (n * w) - w
    BY <2>2, Constants
  <2>5. /\ Net(n - 1) = ((n * w) - w) - a /\ Net(n) = (n * w) - b
        /\ Net(n + 1) = ((n * w) + w) - c
    BY <2>4 DEF Net
  <2> HIDE DEF a, b, c, w
  <2>6. n * w \in Int
    BY <2>1
  <2>7. Net(n + 1) - Net(n) <= Net(n) - Net(n - 1)
    BY <2>1, <2>3, <2>5, <2>6
  <2> DEFINE x == Net(n - 1)
             y == Net(n)
             z == Net(n + 1)
  <2>8. x \in Int /\ y \in Int /\ z \in Int
    BY <2>2, <1>3
  <2>9. /\ Surplus(n - 1) = (x * Scale) - (Return * a)
        /\ Surplus(n) = (y * Scale) - (Return * b)
        /\ Surplus(n + 1) = (z * Scale) - (Return * c)
    BY DEF Surplus, a, b, c
  <2> HIDE DEF x, y, z
  <2>10. (z * Scale) - (y * Scale) <= (y * Scale) - (x * Scale)
    <3>1. (z - y) * Scale <= (y - x) * Scale
      <4>1. z - y \in Int /\ y - x \in Int /\ z - y <= y - x
        BY <2>7, <2>8 DEF x, y, z
      <4>2. \A p, q \in Int, r \in Nat : p <= q => p * r <= q * r
        OBVIOUS
      <4> QED
        BY <4>1, <4>2, Constants
    <3> QED
      BY <3>1, <2>8, Constants
  <2>11. (Return * b) - (Return * a) <= (Return * c) - (Return * b)
    <3>1. Return * (b - a) <= Return * (c - b)
      <4>1. b - a \in Int /\ c - b \in Int
        BY <2>3
      <4>2. \A p, q \in Int, r \in Nat : p <= q => r * p <= r * q
        OBVIOUS
      <4> QED
        BY <4>1, <4>2, <2>3, Constants
    <3> QED
      BY <3>1, <2>3, Constants
  <2>12. /\ x * Scale \in Int /\ y * Scale \in Int /\ z * Scale \in Int
         /\ Return * a \in Int /\ Return * b \in Int /\ Return * c \in Int
    BY <2>3, <2>8, Constants
  <2> QED
    BY <2>7, <2>9, <2>10, <2>11, <2>12
<1> QED
  BY <1>3, <1>4, <1>5

(* A size within a market passes when its profit and surplus allow.        *)
LEMMA IntraPassing ==
  ASSUME Given, strategy = "intra", NEW n \in MinSize .. Room
  PROVE  /\ n \in 0 .. Room /\ n \in 1 .. Room /\ Capital(n) = Paid(n) /\ Capital(n) \in Nat
         /\ n \in Passing <=> Net(n) > 0 /\ Surplus(n) >= 0
<1>1. n \in 1 .. Room /\ n \in 0 .. Room
  BY RoomIs, Constants
<1>2. Capital(n) = Paid(n) /\ Capital(n) \in Nat /\ Billed(n) = Paid(n)
  BY <1>1, CapitalIs
<1>3. n \in Passing <=> Worth(n, Paid(n))
  BY <1>2, PassingIs
<1>4. n * Unit * Scale \in Int /\ Paid(n) \in Int /\ Net(n) * Scale \in Int
      /\ Return * Paid(n) \in Int
  <2>1. n * Unit * Scale \in Int /\ Paid(n) \in Int
    BY <1>1, <1>2, Constants
  <2>2. Net(n) \in Int
    BY <2>1 DEF Net
  <2> QED
    BY <2>1, <2>2, Constants
<1>5. Worth(n, Paid(n)) <=> Net(n) > 0 /\ Surplus(n) >= 0
  <2>1. Worth(n, Paid(n)) <=>
          n * Unit * Scale > Paid(n) /\ Net(n) * Scale >= Return * Paid(n)
    BY DEF Worth, Net
  <2>2. n * Unit * Scale > Paid(n) <=> Net(n) > 0
    BY <1>4 DEF Net
  <2>3. Net(n) * Scale >= Return * Paid(n) <=> Surplus(n) >= 0
    BY <1>4 DEF Surplus
  <2> QED
    BY <2>1, <2>2, <2>3
<1> QED
  BY <1>1, <1>2, <1>3, <1>5

(* When a smaller size passes, none beyond one that does not passes.       *)
LEMMA NoneLargerPasses ==
  ASSUME Given, strategy = "intra", NEW m \in Passing, NEW k \in MinSize .. Room, m < k,
         k \notin Passing, NEW n \in k .. Room
  PROVE  n \notin Passing
<1> DEFINE net == [i \in 0 .. Room |-> Net(i)]
           surplus == [i \in 0 .. Room |-> Surplus(i)]
<1>1. m \in MinSize .. Room /\ n \in MinSize .. Room /\ Room \in Nat
  BY RoomIs, Constants DEF Passing
<1>2. /\ m \in 0 .. Room /\ Net(m) > 0 /\ Surplus(m) >= 0
      /\ k \in 0 .. Room /\ ~ (Net(k) > 0 /\ Surplus(k) >= 0)
      /\ n \in 0 .. Room /\ k <= n
      /\ n \in Passing <=> Net(n) > 0 /\ Surplus(n) >= 0
  BY <1>1, IntraPassing
<1>3. \A i \in 0 .. Room : net[i] \in Int /\ surplus[i] \in Int
  BY NetFalls
<1>4. \A i \in 1 .. Room - 1 :
        /\ net[i + 1] - net[i] <= net[i] - net[i - 1]
        /\ surplus[i + 1] - surplus[i] <= surplus[i] - surplus[i - 1]
  <2>1. \A i \in 1 .. Room - 1 : i \in 0 .. Room /\ i + 1 \in 0 .. Room /\ i - 1 \in 0 .. Room
    BY <1>1
  <2> QED
    BY <2>1, NetFalls
<1>5. /\ net[m] = Net(m) /\ net[k] = Net(k) /\ net[n] = Net(n)
      /\ surplus[m] = Surplus(m) /\ surplus[k] = Surplus(k) /\ surplus[n] = Surplus(n)
  BY <1>2
<1> HIDE DEF net, surplus
<1>6. /\ net[m] \in Int /\ net[k] \in Int /\ net[n] \in Int
      /\ surplus[m] \in Int /\ surplus[k] \in Int /\ surplus[n] \in Int
  BY <1>2, <1>3
<1>7. CASE ~ (Net(k) > 0)
  <2>1. net[k] < net[m]
    BY <1>2, <1>5, <1>6, <1>7
  <2>2. net[n] <= net[k]
    BY <2>1, <1>1, <1>2, <1>3, <1>4, Concave
  <2> QED
    BY <2>2, <1>2, <1>5, <1>6, <1>7
<1>8. CASE ~ (Surplus(k) >= 0)
  <2>1. surplus[k] < surplus[m]
    BY <1>2, <1>5, <1>6, <1>8
  <2>2. surplus[n] <= surplus[k]
    BY <2>1, <1>1, <1>2, <1>3, <1>4, Concave
  <2> QED
    BY <2>2, <1>2, <1>5, <1>6, <1>8
<1> QED
  BY <1>2, <1>7, <1>8

(* When a size that passes does not fit, no larger one fits.               *)
LEMMA NoneLargerFits ==
  ASSUME Given, strategy = "intra", NEW m \in Passing, NEW k \in MinSize .. Room, m < k,
         k \notin Fitting, NEW n \in k .. Room
  PROVE  n \notin Fitting
<1>1. CASE k \notin Passing
  BY <1>1, NoneLargerPasses DEF Fitting
<1>2. CASE k \in Passing
  <2> DEFINE paid == [i \in 0 .. Room |-> Paid(i)]
  <2>1. Room \in Nat /\ n \in MinSize .. Room
    BY RoomIs, Constants
  <2>2. /\ k \in 0 .. Room /\ n \in 0 .. Room /\ k <= n
        /\ Capital(k) = Paid(k) /\ Capital(n) = Paid(n)
        /\ Capital(k) \in Nat /\ Capital(n) \in Nat
    BY <2>1, IntraPassing
  <2>3. \A i \in k .. n : paid[i] \in Int
    <3>1. \A i \in k .. n : i \in 0 .. Room
      BY <2>1, <2>2
    <3> QED
      BY <3>1, PaidSteps
  <2>4. \A i \in k + 1 .. n : paid[i - 1] <= paid[i]
    <3>1. \A i \in k + 1 .. n : i \in 1 .. Room /\ i \in 0 .. Room /\ i - 1 \in 0 .. Room
      BY <2>1, <2>2
    <3> QED
      BY <3>1, PaidSteps
  <2>5. paid[k] <= paid[n]
    <3>1. k \in Nat /\ n \in Nat
      BY <2>2
    <3> HIDE DEF paid
    <3> QED
      BY <3>1, <2>2, <2>3, <2>4, Grows
  <2>6. Capital(k) <= Capital(n)
    BY <2>2, <2>5
  <2>7. cap \in Nat /\ ~ (Capital(k) <= cap)
    BY <1>2, Constants DEF Fitting, Given
  <2> QED
    BY <2>2, <2>6, <2>7 DEF Fitting
<1> QED
  BY <1>1, <1>2

-----------------------------------------------------------------------------
(* The searches.                                                           *)

(* Whole contracts.                                                        *)
Whole == { k * Part : k \in Nat }

LEMMA WholeSizes == MinSize \in Whole /\ MaxSize \in Whole
<1>1. ASSUME NEW n \in Nat, n % Part = 0 PROVE n \in Whole
  <2>1. n = Part * (n \div Part) + (n % Part) /\ n \div Part \in Nat
    BY Constants
  <2>2. n = (n \div Part) * Part
    BY <1>1, <2>1, Constants
  <2> QED
    BY <2>1, <2>2 DEF Whole
<1> QED
  BY <1>1, SizeAssumption

(* Whole sizes are apart by a contract.                                    *)
LEMMA WholeSteps ==
  ASSUME NEW a \in Whole, NEW b \in Whole
  PROVE  /\ a \in Nat /\ a + Part \in Whole
         /\ a < b => a + Part <= b
<1>1. PICK i \in Nat : a = i * Part
  BY DEF Whole
<1>2. PICK j \in Nat : b = j * Part
  BY DEF Whole
<1>3. a \in Nat /\ a + Part = (i + 1) * Part /\ i + 1 \in Nat
  BY <1>1, Constants
<1>4. ASSUME a < b PROVE a + Part <= b
  <2>1. CASE j <= i
    <3> DEFINE d == i - j
    <3>1. d \in Nat /\ i = j + d
      BY <2>1
    <3> HIDE DEF d
    <3>2. a = (j * Part) + (d * Part) /\ d * Part \in Nat
      BY <1>1, <3>1, Constants
    <3> QED
      BY <1>2, <1>3, <1>4, <3>2
  <2>2. CASE i < j
    <3> DEFINE d == j - (i + 1)
    <3>1. d \in Nat /\ j = (i + 1) + d
      BY <2>2
    <3> HIDE DEF d
    <3>2. b = ((i + 1) * Part) + (d * Part) /\ d * Part \in Nat
      BY <1>2, <3>1, Constants
    <3> QED
      BY <1>3, <3>2, Constants
  <2> QED
    BY <2>1, <2>2
<1> QED
  BY <1>3, <1>4 DEF Whole

(* int() takes off less than a contract.                                   *)
LEMMA TruncatedIs ==
  ASSUME NEW n \in Nat
  PROVE  /\ Truncated(n) \in Whole /\ Truncated(n) \in Nat
         /\ Truncated(n) <= n /\ n < Truncated(n) + Part
         /\ \A a \in Whole : a <= n => a <= Truncated(n)
<1>1. /\ n = Part * (n \div Part) + (n % Part)
      /\ n \div Part \in Nat /\ n % Part \in Nat /\ n % Part < Part
  BY Constants
<1>2. Truncated(n) = Part * (n \div Part) /\ Truncated(n) \in Nat /\ Truncated(n) \in Whole
  BY <1>1, Constants DEF Truncated, Whole
<1>3. Truncated(n) <= n /\ n < Truncated(n) + Part
  BY <1>1, <1>2, Constants
<1>4. ASSUME NEW a \in Whole, a <= n PROVE a <= Truncated(n)
  <2>1. a \in Nat /\ (Truncated(n) < a => Truncated(n) + Part <= a)
    BY <1>2, WholeSteps
  <2> QED
    BY <1>2, <1>3, <1>4, <2>1, Constants
<1> QED
  BY <1>2, <1>3, <1>4

(* The middle of two sizes apart is strictly between them.                 *)
LEMMA MiddleIs ==
  ASSUME NEW a \in Whole, NEW b \in Whole, a + Part < b
  PROVE  LET middle == Truncated((a + b) \div 2)
         IN  middle \in Whole /\ middle \in Nat /\ a < middle /\ middle < b
<1> DEFINE q == (a + b) \div 2
<1>1. a \in Nat /\ b \in Nat /\ a + Part \in Whole /\ (a + Part) + Part <= b
  BY WholeSteps
<1>2. q \in Nat /\ a + Part <= q /\ q < b
  BY <1>1, Constants
<1> HIDE DEF q
<1>3. Truncated(q) \in Whole /\ Truncated(q) \in Nat /\ Truncated(q) <= q /\ a + Part <= Truncated(q)
  BY <1>1, <1>2, TruncatedIs
<1>4. a < Truncated(q) /\ Truncated(q) < b
  BY <1>1, <1>2, <1>3, Constants
<1> QED
  BY <1>3, <1>4 DEF q

(* Between its ends, a search of the sizes S up to top has the boundary it *)
(* looks for, unless the upper end is the last whole size there is.        *)
Between(S, top) ==
  /\ lo \in Whole /\ hi \in Whole /\ lo <= hi /\ hi <= top
  /\ lo \in S /\ best = lo
  /\ hi \in S => top < hi + Part

DetectedRight ==
  IF detected = 0 THEN MinSize \notin Passing
  ELSE /\ detected \in Passing
       /\ \/ detected + Part \notin Passing
          \/ /\ strategy = "cross" /\ detected \in Whole
             /\ detected + Part # Room /\ Room < (detected + Part) + Part

AllocatedRight ==
  strategy = "intra" /\ detected # 0 =>
    \/ best = detected /\ detected \in Fitting
    \/ best = 0 /\ MinSize \notin Fitting
    \/ best \in Fitting /\ (best + Part \notin Fitting \/ detected < best + Part)

SearchInv ==
  /\ Given
  /\ pc \in {"max", "min", "search", "high", "fit", "least", "shrink", "top", "done"}
  /\ lo \in (MinSize .. MaxSize) \cup {0} /\ hi \in 0 .. MaxSize
  /\ best \in Passing \cup {0}
  /\ pc \in {"max", "min", "search", "high"} => detected = 0
  /\ pc \in {"max", "min", "fit", "least"} => best = 0
  /\ pc = "min" => Room >= MinSize
  /\ pc \in {"min", "search", "high"} => Room \notin Passing
  /\ pc \in {"search", "high"} => Between(Passing, Room)
  /\ pc \in {"high", "top"} => lo + Part >= hi
  /\ pc \in {"fit", "least", "shrink", "top", "done"} => DetectedRight
  /\ pc \in {"fit", "least", "shrink", "top"} => strategy = "intra" /\ detected # 0
  /\ pc \in {"least", "shrink", "top"} => detected \notin Fitting
  /\ pc = "least" => lo = MinSize /\ hi = Truncated(detected)
  /\ pc \in {"shrink", "top"} => Between(Fitting, detected)
  /\ pc = "done" => AllocatedRight

(* The book does not change while it is searched.                          *)
LEMMA OraclesStay ==
  ASSUME UNCHANGED <<strategy, yes, no, cap>>
  PROVE  Given' = Given /\ Room' = Room /\ Passing' = Passing /\ Fitting' = Fitting
<1>1. Room' = Room
  BY DEF Room
<1>2. \A n : Capital(n)' = Capital(n)
  BY DEF Capital, IntraCapital, CrossCapital
<1>3. \A n : Passes(n)' = Passes(n)
  BY <1>2 DEF Passes, Profit
<1> QED
  BY <1>1, <1>2, <1>3 DEF Given, Passing, Fitting

(* The sizes that pass and fit are between the limits.                     *)
LEMMA SizesAre ==
  ASSUME Given
  PROVE  /\ Room \in 0 .. MaxSize /\ Passing \subseteq MinSize .. Room /\ Fitting \subseteq Passing
         /\ Passing \subseteq (MinSize .. MaxSize) \ {0}
<1>1. Room \in 0 .. MaxSize
  BY RoomIs
<1> QED
  BY <1>1, Constants DEF Passing, Fitting

(* A round of a search keeps the boundary between its ends.                *)
LEMMA HalveKeeps ==
  ASSUME Given, NEW S, S \subseteq Passing, NEW top \in Nat, top <= Room, Between(S, top),
         NEW ok, Halve(ok), ok <=> Middle \in S
  PROVE  /\ lo' \in Whole /\ hi' \in Whole /\ lo' <= hi' /\ hi' <= top
         /\ lo' \in S /\ best' = lo' /\ (hi' \in S => top < hi' + Part)
         /\ UNCHANGED <<strategy, yes, no, cap, pc, detected>>
<1>1. Passing \subseteq MinSize .. Room /\ Room \in 0 .. MaxSize
  BY SizesAre
<1>2. /\ lo \in Whole /\ hi \in Whole /\ lo \in MinSize .. Room /\ lo + Part < hi /\ hi <= top
      /\ lo \in Nat /\ hi \in Nat /\ lo <= hi
  BY <1>1, WholeSteps DEF Between, Halve
<1>3. Middle \in Whole /\ Middle \in Nat /\ lo < Middle /\ Middle < hi
  BY <1>2, MiddleIs DEF Middle
<1>4. Middle \in MinSize .. Room
  BY <1>1, <1>2, <1>3, Constants
<1>5. CASE ok
  <2>1. lo' = Middle /\ best' = Compute(Middle) /\ hi' = hi
        /\ UNCHANGED <<strategy, yes, no, cap, pc, detected>>
    BY <1>5 DEF Halve
  <2>2. Middle \in S /\ Middle \in Passing
    BY <1>5
  <2>3. Compute(Middle) = Middle
    BY <1>4, <2>2, PassingIs
  <2> QED
    BY <2>1, <2>2, <2>3, <1>2, <1>3 DEF Between
<1>6. CASE ~ok
  <2>1. lo' = lo /\ best' = best /\ hi' = Middle
        /\ UNCHANGED <<strategy, yes, no, cap, pc, detected>>
    BY <1>6 DEF Halve
  <2>2. Middle \notin S
    BY <1>6
  <2>3. Middle <= top /\ lo <= Middle
    BY <1>2, <1>3
  <2> QED
    BY <2>1, <2>2, <2>3, <1>2, <1>3 DEF Between
<1> QED
  BY <1>5, <1>6

(* Every step keeps what the searches rely on.                             *)
LEMMA SearchStep ==
  SearchInv /\ [Next]_vars => SearchInv'
<1> SUFFICES ASSUME SearchInv, [Next]_vars PROVE SearchInv'
  OBVIOUS
<1>1. /\ Given /\ Room \in 0 .. MaxSize
      /\ Passing \subseteq MinSize .. Room /\ Fitting \subseteq Passing
      /\ Passing \subseteq (MinSize .. MaxSize) \ {0}
  BY SizesAre DEF SearchInv
<1>2. UNCHANGED <<strategy, yes, no, cap>>
  BY DEF Next, vars, TryMax, TryMin, Search, EndSearch, EndCrossSearch, TryHigh, TakeWhole,
         Shrink, TryLeast, HalveToFit, EndHalving, TryTop, Halve
<1>3. /\ Given' /\ strategy' = strategy
      /\ Room' = Room /\ Passing' = Passing /\ Fitting' = Fitting
  BY <1>1, <1>2, OraclesStay
<1>4. lo \in Int /\ hi \in Nat /\ (lo = 0 \/ lo \in MinSize .. MaxSize)
  BY Constants DEF SearchInv
<1>5. CASE TryMax
  <2>1. pc = "max" /\ UNCHANGED <<lo, hi>> /\ detected = 0 /\ best = 0
    BY <1>5 DEF TryMax, SearchInv
  <2>2. CASE Dead
    <3>1. detected' = 0 /\ best' = 0 /\ pc' = "done"
      BY <1>5, <2>2 DEF TryMax, Detect
    <3>2. MinSize \notin Passing
      BY <1>1, <2>2, RoomIs, Constants DEF Dead, Passing, Room, Smaller
    <3> QED
      BY <1>3, <2>1, <3>1, <3>2 DEF SearchInv, DetectedRight, AllocatedRight
  <2>3. CASE ~Dead /\ Room \in Passing
    <3>1. Compute(MaxSize) = Room /\ Room # 0 /\ Room \in Nat /\ Room + Part \notin Passing
      BY <1>1, <2>3, LargestIs, Constants
    <3>2. detected' = Room /\ best' = 0
          /\ pc' = (IF strategy = "cross" THEN "done" ELSE "fit")
      BY <1>5, <2>3, <3>1 DEF TryMax, Detect
    <3> QED
      BY <1>1, <1>3, <2>1, <2>3, <3>1, <3>2
         DEF SearchInv, DetectedRight, AllocatedRight, Given, Strategies
  <2>4. CASE ~Dead /\ Room \notin Passing
    <3>1. Compute(MaxSize) = 0 /\ Room >= MinSize
      BY <1>1, <2>4, LargestIs, Constants
    <3>2. pc' = "min" /\ UNCHANGED <<best, detected>>
      BY <1>5, <2>4, <3>1 DEF TryMax
    <3> QED
      BY <1>1, <1>3, <2>1, <2>4, <3>1, <3>2 DEF SearchInv
  <2> QED
    BY <2>2, <2>3, <2>4
<1>6. CASE TryMin
  <2>1. /\ pc = "min" /\ detected = 0 /\ best = 0
        /\ Room >= MinSize /\ Room \notin Passing
    BY <1>6 DEF TryMin, SearchInv
  <2>2. lo' = MinSize /\ hi' = Truncated(Room)
    BY <1>6 DEF TryMin, Room
  <2>3. MinSize \in MinSize .. Room /\ MinSize \in MinSize .. MaxSize
    BY <1>1, <2>1, Constants
  <2>4. Compute(MinSize) = IF MinSize \in Passing THEN MinSize ELSE 0
    BY <1>1, <2>3, PassingIs
  <2>5. /\ lo' \in Whole /\ hi' \in Whole /\ lo' <= hi' /\ hi' <= Room /\ Room < hi' + Part
        /\ hi' \in 0 .. MaxSize
    <3>1. Room \in Nat /\ MinSize <= Room /\ Room <= MaxSize
      BY <1>1, <2>1, Constants
    <3> QED
      BY <2>2, <3>1, TruncatedIs, WholeSizes, Constants
  <2>6. CASE MinSize \in Passing
    <3>1. pc' = "search" /\ best' = MinSize /\ detected' = 0
      BY <1>6, <2>1, <2>4, <2>6, Constants DEF TryMin
    <3> QED
      BY <1>1, <1>3, <2>1, <2>2, <2>3, <2>5, <2>6, <3>1 DEF SearchInv, Between
  <2>7. CASE MinSize \notin Passing
    <3>1. detected' = 0 /\ best' = 0 /\ pc' = "done"
      BY <1>6, <2>4, <2>7 DEF TryMin, Detect
    <3> QED
      BY <1>1, <1>3, <2>2, <2>3, <2>5, <2>7, <3>1 DEF SearchInv, DetectedRight, AllocatedRight
  <2> QED
    BY <2>6, <2>7
<1>7. CASE Search
  <2>1. /\ pc = "search" /\ Between(Passing, Room) /\ Room \notin Passing /\ detected = 0
        /\ Halve(Compute(Middle) # 0) /\ Room \in Nat
    BY <1>1, <1>7 DEF Search, SearchInv
  <2>2. (Compute(Middle) # 0) <=> Middle \in Passing
    <3>1. /\ lo \in Whole /\ hi \in Whole /\ lo \in MinSize .. Room /\ lo + Part < hi /\ hi <= Room
          /\ hi \in Nat
      BY <1>1, <1>4, <2>1 DEF Between, Halve
    <3>2. Middle \in Nat /\ lo < Middle /\ Middle < hi
      BY <3>1, MiddleIs DEF Middle
    <3>3. Middle \in MinSize .. Room /\ Middle # 0
      BY <1>1, <3>1, <3>2, Constants
    <3> QED
      BY <1>1, <3>3, PassingIs
  <2>3. /\ lo' \in Whole /\ hi' \in Whole /\ lo' <= hi' /\ hi' <= Room
        /\ lo' \in Passing /\ best' = lo' /\ (hi' \in Passing => Room < hi' + Part)
        /\ UNCHANGED <<pc, detected>>
    <3>1. Given /\ Passing \subseteq Passing /\ Room \in Nat /\ Room <= Room
      BY <1>1, <2>1
    <3> DEFINE ok == Compute(Middle) # 0
    <3>2. Halve(ok) /\ (ok <=> Middle \in Passing)
      BY <2>1, <2>2
    <3> HIDE DEF ok
    <3> QED
      BY <2>1, <3>1, <3>2, HalveKeeps
  <2>4. hi' \in 0 .. MaxSize
    BY <1>1, <2>3, WholeSteps, Constants
  <2> QED
    BY <1>1, <1>3, <2>1, <2>3, <2>4 DEF SearchInv, Between
<1>8. CASE EndSearch
  BY <1>1, <1>3, <1>8 DEF EndSearch, SearchInv, Between
<1>9. CASE EndCrossSearch
  <2>1. /\ pc = "search" /\ Between(Passing, Room) /\ Room \notin Passing /\ lo + Part >= hi
        /\ strategy = "cross" /\ UNCHANGED <<lo, hi>>
    BY <1>9 DEF EndCrossSearch, SearchInv
  <2>2. /\ lo \in Passing /\ lo # 0 /\ lo \in Nat /\ hi \in Nat /\ lo + Part \in Nat
        /\ Room \in Nat /\ (hi = lo \/ hi = lo + Part)
    BY <1>1, <2>1, WholeSteps, Constants DEF Between
  <2>3. detected' = lo /\ best' = 0 /\ pc' = "done"
    BY <1>9, <2>1, <2>2 DEF EndCrossSearch, Detect, Between
  <2>5. lo \in Whole
    BY <2>1 DEF Between
  <2>4. \/ lo + Part \notin Passing
        \/ lo + Part # Room /\ Room < (lo + Part) + Part
    BY <1>1, <2>1, <2>2, Constants DEF Between
  <2> QED
    BY <1>1, <1>3, <1>4, <2>1, <2>2, <2>3, <2>4, <2>5
       DEF SearchInv, DetectedRight, AllocatedRight
<1>10. CASE TryHigh
  <2>1. /\ pc = "high" /\ Between(Passing, Room) /\ lo + Part >= hi /\ UNCHANGED <<lo, hi>>
    BY <1>10 DEF TryHigh, SearchInv
  <2>2. /\ lo \in Passing /\ lo # 0 /\ lo \in Nat /\ hi \in Nat /\ lo + Part \in Nat
        /\ Room \in Nat /\ (hi = lo \/ hi = lo + Part) /\ hi \in MinSize .. Room /\ hi # 0
    BY <1>1, <2>1, WholeSteps, Constants DEF Between
  <2>3. Compute(hi) = IF hi \in Passing THEN hi ELSE 0
    BY <1>1, <2>2, PassingIs
  <2>4. /\ detected' = (IF hi \in Passing THEN hi ELSE lo) /\ best' = 0
        /\ pc' = (IF strategy = "cross" THEN "done" ELSE "fit")
    BY <1>10, <2>1, <2>2, <2>3 DEF TryHigh, Detect, Between
  <2>5. detected' \in Passing /\ detected' # 0 /\ detected' + Part \notin Passing
    <3>1. CASE hi \in Passing
      BY <1>1, <2>1, <2>2, <2>4, <3>1, Constants DEF Between
    <3>2. CASE hi \notin Passing
      BY <2>2, <2>4, <3>2
    <3> QED
      BY <3>1, <3>2
  <2> QED
    BY <1>1, <1>3, <1>4, <2>1, <2>2, <2>4, <2>5
       DEF SearchInv, DetectedRight, AllocatedRight, Given, Strategies
<1>11. CASE TakeWhole
  <2>1. /\ pc = "fit" /\ DetectedRight /\ detected # 0 /\ Capital(detected) <= cap
        /\ best' = detected /\ pc' = "done" /\ UNCHANGED <<lo, hi, detected>>
    BY <1>11 DEF TakeWhole, SearchInv
  <2>2. detected \in Passing /\ detected \in Fitting
    BY <2>1 DEF DetectedRight, Fitting
  <2> QED
    BY <1>3, <2>1, <2>2 DEF SearchInv, DetectedRight, AllocatedRight
<1>12. CASE Shrink
  <2>1. /\ pc = "fit" /\ DetectedRight /\ detected # 0 /\ strategy = "intra" /\ best = 0
        /\ Capital(detected) > cap
        /\ pc' = "least" /\ lo' = MinSize /\ hi' = Truncated(detected) /\ UNCHANGED <<best, detected>>
    BY <1>12 DEF Shrink, SearchInv
  <2>2. detected \in Passing
    BY <2>1 DEF DetectedRight
  <2>3. detected \notin Fitting
    <3>1. Capital(detected) \in Nat /\ cap \in Nat
      BY <1>1, <2>1, <2>2, IntraPassing, Constants DEF Given
    <3> QED
      BY <3>1, <2>1 DEF Fitting
  <2>4. hi' \in 0 .. MaxSize /\ MinSize \in MinSize .. MaxSize
    <3>1. detected \in Nat /\ detected <= MaxSize
      BY <1>1, <2>2, Constants
    <3> QED
      BY <2>1, <3>1, TruncatedIs, Constants
  <2> QED
    BY <1>3, <2>1, <2>2, <2>3, <2>4 DEF SearchInv, DetectedRight
<1>13. CASE TryLeast
  <2>1. /\ pc = "least" /\ DetectedRight /\ detected # 0 /\ strategy = "intra" /\ best = 0
        /\ detected \notin Fitting /\ lo = MinSize /\ hi = Truncated(detected)
        /\ UNCHANGED <<lo, hi, detected>>
    BY <1>13 DEF TryLeast, SearchInv
  <2>2. detected \in Passing /\ MinSize \in MinSize .. Room /\ detected \in Nat /\ MinSize <= detected
    <3>1. detected \in Passing
      BY <2>1 DEF DetectedRight
    <3>2. detected \in MinSize .. Room
      BY <1>1, <3>1
    <3> QED
      BY <1>1, <3>1, <3>2, Constants
  <2>3. Fits(lo) <=> MinSize \in Fitting
    BY <1>1, <2>1, <2>2, PassingIs
  <2>4. CASE MinSize \in Fitting
    <3>1. Compute(lo) = MinSize
      BY <1>1, <2>1, <2>2, <2>4, PassingIs
    <3>2. pc' = "shrink" /\ best' = MinSize
      BY <1>13, <2>3, <2>4, <3>1 DEF TryLeast
    <3>3. lo \in Whole /\ hi \in Whole /\ lo <= hi /\ hi <= detected /\ detected < hi + Part
      BY <2>1, <2>2, TruncatedIs, WholeSizes
    <3> QED
      BY <1>1, <1>3, <2>1, <2>2, <2>4, <3>2, <3>3 DEF SearchInv, DetectedRight, Between
  <2>5. CASE MinSize \notin Fitting
    <3>1. pc' = "done" /\ best' = 0
      BY <1>13, <2>1, <2>3, <2>5 DEF TryLeast
    <3> QED
      BY <1>3, <2>1, <2>5, <3>1 DEF SearchInv, DetectedRight, AllocatedRight
  <2> QED
    BY <2>4, <2>5
<1>14. CASE HalveToFit
  <2>1. /\ pc = "shrink" /\ Between(Fitting, detected) /\ DetectedRight /\ detected # 0
        /\ strategy = "intra" /\ detected \notin Fitting
        /\ Halve(Fits(Middle))
    BY <1>14 DEF HalveToFit, SearchInv
  <2>2. detected \in Passing /\ detected \in Nat /\ detected <= Room /\ detected <= MaxSize
    <3>1. detected \in Passing
      BY <2>1 DEF DetectedRight
    <3>2. detected \in MinSize .. Room
      BY <1>1, <3>1
    <3> QED
      BY <1>1, <3>1, <3>2, Constants
  <2>3. Fits(Middle) <=> Middle \in Fitting
    <3>1. /\ lo \in Whole /\ hi \in Whole /\ lo \in MinSize .. Room /\ lo + Part < hi /\ hi <= Room
          /\ hi \in Nat
      BY <1>1, <1>4, <2>1, <2>2 DEF Between, Halve
    <3>2. Middle \in Nat /\ lo < Middle /\ Middle < hi
      BY <3>1, MiddleIs DEF Middle
    <3>3. Middle \in MinSize .. Room
      BY <1>1, <3>1, <3>2, Constants
    <3> QED
      BY <1>1, <3>3, PassingIs
  <2>4. /\ lo' \in Whole /\ hi' \in Whole /\ lo' <= hi' /\ hi' <= detected
        /\ lo' \in Fitting /\ best' = lo' /\ (hi' \in Fitting => detected < hi' + Part)
        /\ UNCHANGED <<pc, detected>>
    BY <1>1, <2>1, <2>2, <2>3, HalveKeeps
  <2>5. hi' \in 0 .. MaxSize
    BY <1>1, <2>2, <2>4, WholeSteps, Constants
  <2> QED
    BY <1>1, <1>3, <2>1, <2>4, <2>5 DEF SearchInv, Between, DetectedRight
<1>15. CASE EndHalving
  BY <1>1, <1>3, <1>15 DEF EndHalving, SearchInv, Between, DetectedRight
<1>16. CASE TryTop
  <2>1. /\ pc = "top" /\ Between(Fitting, detected) /\ DetectedRight /\ detected # 0 /\ lo + Part >= hi
        /\ strategy = "intra" /\ detected \notin Fitting
        /\ pc' = "done" /\ UNCHANGED <<lo, hi, detected>>
    BY <1>16 DEF TryTop, SearchInv
  <2>2. /\ lo \in Fitting /\ lo \in Nat /\ hi \in Nat /\ (hi = lo \/ hi = lo + Part)
        /\ hi \in MinSize .. Room
    <3>1. detected \in Passing /\ lo \in Fitting /\ lo \in Passing
      BY <1>1, <2>1 DEF DetectedRight, Between
    <3>2. detected \in MinSize .. Room /\ lo \in MinSize .. Room
      BY <1>1, <3>1
    <3>3. /\ lo \in Nat /\ hi \in Nat /\ lo <= hi /\ hi <= lo + Part /\ hi <= detected
          /\ (lo < hi => lo + Part <= hi)
      BY <2>1, WholeSteps DEF Between
    <3>4. hi = lo \/ hi = lo + Part
      BY <3>3, Constants
    <3>5. hi \in MinSize .. Room
      BY <1>1, <3>2, <3>3, Constants
    <3> QED
      BY <3>1, <3>3, <3>4, <3>5
  <2>3. /\ Fits(hi) <=> hi \in Fitting
        /\ hi \in Fitting => Compute(hi) = hi
    BY <1>1, <2>2, PassingIs
  <2>4. best' = IF hi \in Fitting THEN hi ELSE lo
    BY <1>16, <2>1, <2>3 DEF TryTop, Between
  <2>5. best' \in Fitting /\ (best' + Part \notin Fitting \/ detected < best' + Part)
    <3>1. CASE hi \in Fitting
      BY <2>1, <2>4, <3>1 DEF Between
    <3>2. CASE hi \notin Fitting
      BY <2>2, <2>4, <3>2
    <3> QED
      BY <3>1, <3>2
  <2> QED
    BY <1>1, <1>3, <2>1, <2>5 DEF SearchInv, DetectedRight, AllocatedRight
<1>17. CASE UNCHANGED vars
  BY <1>3, <1>17 DEF vars, SearchInv, Between, DetectedRight, AllocatedRight
<1> QED
  BY <1>5, <1>6, <1>7, <1>8, <1>9, <1>10, <1>11, <1>12, <1>13, <1>14, <1>15, <1>16, <1>17
     DEF Next

(* So it always holds.                                                     *)
LEMMA SearchInvariant == Spec => []SearchInv
<1>1. Init => SearchInv
  <2> SUFFICES ASSUME Init PROVE SearchInv
    OBVIOUS
  <2> QED
    BY Constants DEF Init, SearchInv, Given
<1>2. SearchInv /\ [Next]_vars => SearchInv'
  BY SearchStep
<1> QED
  BY <1>1, <1>2, PTL DEF Spec

(* TypeOK: sizes found are between the limits, whatever the books.         *)
THEOREM TypeCorrect == Spec => []TypeOK
<1>1. SearchInv => TypeOK
  <2> SUFFICES ASSUME SearchInv PROVE TypeOK
    OBVIOUS
  <2>1. Passing \subseteq MinSize .. MaxSize
    BY SizesAre DEF SearchInv
  <2>2. best \in (MinSize .. MaxSize) \cup {0}
    BY <2>1 DEF SearchInv
  <2>3. detected \in (MinSize .. MaxSize) \cup {0}
    BY <2>1 DEF SearchInv, DetectedRight
  <2> QED
    BY <2>2, <2>3 DEF SearchInv, Given, TypeOK
<1> QED
  BY <1>1, SearchInvariant, PTL

(* DetectedIsWorth: what compute_opportunity and _detect_one_direction     *)
(* report can be bought whole, and is worth it level by level; quoting     *)
(* Kalshi's leg in ticks is off by half a tick a contract.                 *)
THEOREM DetectedPays == Spec => []DetectedIsWorth
<1>1. SearchInv => DetectedIsWorth
  <2> SUFFICES ASSUME SearchInv, detected # 0
               PROVE  /\ Tradable(detected) /\ Worth(detected, Billed(detected))
                      /\ 2 * (Paid(detected) - Billed(detected)) <=
                           (IF strategy = "cross" THEN detected * Tick ELSE 0) * (Scale + Fee)
    BY DEF DetectedIsWorth
  <2>1. Given /\ detected \in Passing
    BY DEF SearchInv, DetectedRight
  <2>2. detected \in MinSize .. Room /\ detected \in 1 .. Room
    BY <2>1, SizesAre, Constants
  <2>3. Tradable(detected)
    BY <2>1, <2>2, RoomIs, Constants DEF Tradable
  <2>4. Worth(detected, Billed(detected))
    BY <2>1, <2>2, PassingIs
  <2> QED
    BY <2>1, <2>2, <2>3, <2>4, CapitalIs
<1> QED
  BY <1>1, SearchInvariant, PTL

(* LargestFound: the binary searches end within a contract of the largest  *)
(* size that passes and fits, for any books and sizes: prices rise, so the *)
(* sizes that pass are an interval, and larger ones never cost less.       *)
THEOREM SearchesAreExact == Spec => []LargestFound
<1>1. SearchInv => LargestFound
  <2> SUFFICES ASSUME SearchInv PROVE LargestFound
    OBVIOUS
  <2>1. /\ Given /\ Room \in 0 .. MaxSize
        /\ Passing \subseteq MinSize .. Room /\ Fitting \subseteq Passing
        /\ Passing \subseteq (MinSize .. MaxSize) \ {0}
    BY SizesAre DEF SearchInv
  <2>2. ASSUME pc \in {"fit", "done"}, Tradable(MinSize), Worth(MinSize, Billed(MinSize))
        PROVE  /\ detected # 0
               /\ \A n \in detected + Part .. MaxSize :
                    Tradable(n) /\ (strategy = "intra" \/ (n = detected + Part /\ ~LastWhole(n)))
                      => ~Worth(n, Billed(n))
    <3>1. DetectedRight
      BY <2>2 DEF SearchInv
    <3>2. MinSize \in MinSize .. Room
      BY <2>1, <2>2, RoomIs, Constants
    <3>3. MinSize \in Passing
      BY <2>1, <2>2, <3>2, PassingIs
    <3>4. /\ detected # 0 /\ detected \in Passing
          /\ \/ detected + Part \notin Passing
             \/ /\ strategy = "cross" /\ detected \in Whole
                /\ detected + Part # Room /\ Room < (detected + Part) + Part
      BY <3>1, <3>3 DEF DetectedRight
    <3>5. ASSUME NEW n \in detected + Part .. MaxSize, Tradable(n),
                 strategy = "intra" \/ (n = detected + Part /\ ~LastWhole(n))
          PROVE  ~Worth(n, Billed(n))
      <4> DEFINE next == detected + Part
      <4>1. detected \in MinSize .. Room /\ detected \in Nat /\ next \in Nat /\ detected < next
        BY <2>1, <3>4, Constants
      <4>2. n <= Room /\ n \in Nat /\ next <= n
        BY <2>1, <3>5, <4>1, RoomIs, Constants
      <4>3. n \in MinSize .. Room /\ next \in MinSize .. Room /\ n \in next .. Room
        BY <2>1, <4>1, <4>2, Constants
      <4>4. next \notin Passing
        <5> SUFFICES ASSUME strategy = "cross", detected \in Whole, next # Room, Room < next + Part
                     PROVE  FALSE
          BY <3>4
        <5>1. n = next /\ ~LastWhole(next)
          BY <3>5 DEF Strategies
        <5>2. next < Room /\ next + 1 \in Nat /\ next + 1 <= Room /\ next + Part \in Nat /\ Room \in Nat
          BY <2>1, <4>1, <4>2, <5>1, Constants
        <5>3. Tradable(next + 1)
          BY <2>1, <5>2, RoomIs DEF Tradable
        <5>4. next + Part <= MaxSize
          <6>1. next < MaxSize
            BY <2>1, <4>1, <5>2, Constants
          <6>2. next \in Whole /\ MaxSize \in Whole
            BY WholeSteps, WholeSizes
          <6> QED
            BY <6>1, <6>2, WholeSteps
        <5>5. ~Tradable(next + Part)
          BY <2>1, <5>2, <5>4, RoomIs
        <5> QED
          BY <5>1, <5>3, <5>5 DEF LastWhole
      <4> HIDE DEF next
      <4>5. n \notin Passing
        <5>1. CASE n = next
          BY <4>4, <5>1
        <5>2. CASE strategy = "intra"
          BY <2>1, <3>4, <4>1, <4>3, <4>4, <5>2, NoneLargerPasses
        <5> QED
          BY <3>5, <5>1, <5>2 DEF next
      <4> QED
        BY <2>1, <4>3, <4>5, PassingIs
    <3> QED
      BY <3>4, <3>5
  <2>3. ASSUME pc = "done", strategy = "intra", detected # 0
        PROVE  /\ best # 0 => Worth(best, Paid(best)) /\ Paid(best) <= cap
               /\ Worth(MinSize, Paid(MinSize)) /\ Paid(MinSize) <= cap =>
                    \A n \in best + Part .. detected : ~Worth(n, Paid(n)) \/ Paid(n) > cap
    <3>1. AllocatedRight /\ DetectedRight
      BY <2>3 DEF SearchInv
    <3>2. detected \in Passing /\ detected \in MinSize .. Room /\ Room \in Nat /\ cap \in Nat
      <4>1. detected \in Passing
        BY <2>3, <3>1 DEF DetectedRight
      <4>2. Room \in Nat /\ cap \in Nat
        BY <2>1, Constants DEF Given
      <4> QED
        BY <2>1, <4>1, <4>2
    <3>3. \A n \in MinSize .. Room :
            /\ n \in Fitting <=> Worth(n, Paid(n)) /\ Paid(n) <= cap
            /\ Paid(n) \in Nat
      <4> SUFFICES ASSUME NEW n \in MinSize .. Room
                   PROVE  /\ n \in Fitting <=> Worth(n, Paid(n)) /\ Paid(n) <= cap
                          /\ Paid(n) \in Nat
        OBVIOUS
      <4>1. Capital(n) = Paid(n) /\ Capital(n) \in Nat /\ n \in 1 .. Room
        BY <2>1, <2>3, IntraPassing
      <4>2. Billed(n) = Paid(n)
        BY <2>3 DEF Billed
      <4>3. n \in Passing <=> Worth(n, Paid(n))
        BY <2>1, <4>2, PassingIs
      <4> QED
        BY <4>1, <4>3 DEF Fitting
    <3>4. MinSize \in MinSize .. Room
      BY <3>2, Constants
    <3>5. CASE best = detected /\ detected \in Fitting
      BY <3>2, <3>3, <3>5, Constants
    <3>6. CASE best = 0 /\ MinSize \notin Fitting
      BY <3>3, <3>4, <3>6
    <3>7. CASE best \in Fitting /\ (best + Part \notin Fitting \/ detected < best + Part)
      <4>1. best \in Passing /\ best \in MinSize .. Room
        BY <2>1, <3>7
      <4>2. ASSUME NEW n \in best + Part .. detected PROVE ~Worth(n, Paid(n)) \/ Paid(n) > cap
        <5> DEFINE next == best + Part
        <5>1. /\ next \in MinSize .. Room /\ best < next /\ next \notin Fitting
              /\ n \in next .. Room /\ n \in MinSize .. Room
          BY <3>2, <3>7, <4>1, <4>2, Constants
        <5> HIDE DEF next
        <5>2. n \notin Fitting
          BY <2>1, <2>3, <4>1, <5>1, NoneLargerFits
        <5> QED
          BY <3>2, <3>3, <5>1, <5>2
      <4> QED
        BY <3>3, <3>7, <4>1, <4>2
    <3> QED
      BY <2>3, <3>1, <3>5, <3>6, <3>7 DEF AllocatedRight
  <2> QED
    BY <2>2, <2>3 DEF LargestFound
<1> QED
  BY <1>1, SearchInvariant, PTL

-----------------------------------------------------------------------------
(* What a fill leaves of a book.                                           *)

(* g levels are gone of a book when n contracts are.                       *)
Gone(book, n, g) ==
  /\ Cumulated(book)[g] <= n
  /\ g < Top(book) => n < Cumulated(book)[g + 1]

(* rest is the book without those: later levels, of the first a part.      *)
Left(book, n, g, rest) ==
  /\ g \in 0 .. Top(book) /\ Gone(book, n, g)
  /\ Top(rest) = Top(book) - g /\ DOMAIN rest = 1 .. Top(rest)
  /\ \A i \in 1 .. Top(rest) :
       /\ rest[i].price = book[g + i].price
       /\ rest[i].size = IF i = 1 THEN Cumulated(book)[g + 1] - n ELSE book[g + i].size

(* Some number of levels is gone.                                          *)
LEMMA SomeGone ==
  ASSUME NEW book, Rising(book), NEW n \in Nat
  PROVE  \E g \in 0 .. Top(book) : Gone(book, n, g)
<1> DEFINE held == Cumulated(book)
           N == Top(book)
           Found == \E g \in 0 .. N : Gone(book, n, g)
           T == { i \in Nat : i <= N => held[i] <= n \/ Found }
<1>1. N \in Nat /\ held \in [0 .. N -> Nat] /\ held[0] = 0
  BY BookTypes, CumulatedSteps
<1>2. 0 \in T
  BY <1>1
<1>3. ASSUME NEW i \in Nat, i \in T PROVE i + 1 \in T
  <2>1. SUFFICES ASSUME i + 1 <= N, held[i] <= n, ~ (held[i + 1] <= n) PROVE Found
    BY <1>1, <1>3
  <2>2. i \in 0 .. N /\ i + 1 \in 0 .. N /\ held[i + 1] \in Nat
    BY <2>1, <1>1
  <2>3. n < held[i + 1]
    BY <2>1, <2>2
  <2> QED
    BY <2>1, <2>2, <2>3 DEF Gone
<1>4. \A i \in Nat : i \in T
  <2> HIDE DEF T
  <2> QED
    BY <1>2, <1>3, Induction
<1>5. CASE held[N] <= n
  <2>1. N \in 0 .. N /\ ~ (N < N)
    BY <1>1
  <2> QED
    BY <1>5, <2>1 DEF Gone
<1>6. CASE Found
  BY <1>6
<1> QED
  BY <1>1, <1>4, <1>5, <1>6

(* Consume leaves what comes after the n contracts.                        *)
LEMMA ConsumeLeaves ==
  ASSUME NEW book, Rising(book), NEW n \in Nat
  PROVE  /\ \E g \in Nat : Left(book, n, g, Consume(book, n))
         /\ \E S : Consume(book, n) \in Seq(S)
<1> DEFINE held == Cumulated(book)
           N == Top(book)
           g == CHOOSE i \in 0 .. N : held[i] <= n /\ (i < N => n < held[i + 1])
           rest == [i \in 1 .. N - g |->
                      [price |-> book[g + i].price,
                       size  |-> IF i = 1 THEN held[g + 1] - n ELSE book[g + i].size]]
<1>1. N \in Nat
  BY BookTypes
<1>2. g \in 0 .. N /\ held[g] <= n /\ (g < N => n < held[g + 1])
  <2>1. \E i \in 0 .. N : held[i] <= n /\ (i < N => n < held[i + 1])
    BY SomeGone DEF Gone
  <2> HIDE DEF held, N
  <2> QED
    BY <2>1
<1>3. Consume(book, n) = rest
  BY DEF Consume, Top
<1> HIDE DEF g
<1>4. Top(rest) = N - g /\ DOMAIN rest = 1 .. N - g
  <2>1. N - g \in Nat
    BY <1>1, <1>2
  <2> QED
    BY <2>1 DEF Top
<1>5. \A i \in 1 .. N - g :
        /\ rest[i].price = book[g + i].price
        /\ rest[i].size = IF i = 1 THEN held[g + 1] - n ELSE book[g + i].size
  BY <1>1
<1>6. Gone(book, n, g)
  BY <1>2 DEF Gone
<1>7. g \in Nat /\ N - g \in Nat
  BY <1>1, <1>2
<1>8. \E S : rest \in Seq(S)
  <2> DEFINE S == { rest[i] : i \in 1 .. N - g }
  <2>1. rest \in [1 .. N - g -> S]
    OBVIOUS
  <2> HIDE DEF rest, S
  <2>2. rest \in Seq(S)
    BY <1>7, <2>1
  <2> QED
    BY <2>2
<1> HIDE DEF rest
<1> QED
  BY <1>2, <1>3, <1>4, <1>5, <1>6, <1>7, <1>8 DEF Left

(* Levels that are left hold what the book's held, without the n.          *)
LEMMA LeftHolds ==
  ASSUME NEW book, Rising(book), NEW n \in Nat, NEW g, NEW rest, Left(book, n, g, rest)
  PROVE  /\ Rising(rest)
         /\ \A i \in 1 .. Top(rest) :
              g + i \in 1 .. Top(book) /\ Cumulated(rest)[i] = Cumulated(book)[g + i] - n
<1> DEFINE held == Cumulated(book)
           N == Top(book)
           M == Top(rest)
<1>1. /\ N \in Nat /\ held \in [0 .. N -> Nat] /\ g \in 0 .. N /\ M = N - g /\ M \in Nat
      /\ DOMAIN rest = 1 .. M
      /\ \A i \in 1 .. N : book[i].price \in Nat /\ book[i].size \in Nat \ {0}
      /\ \A i \in 1 .. N : held[i] = held[i - 1] + book[i].size
      /\ g < N => n < held[g + 1]
  BY BookTypes, CumulatedSteps DEF Left, Gone
<1>2. \A i \in 1 .. M : /\ g + i \in 1 .. N
                        /\ rest[i].price = book[g + i].price
                        /\ rest[i].size = IF i = 1 THEN held[g + 1] - n ELSE book[g + i].size
  BY <1>1 DEF Left
<1>3. \A i \in 1 .. M : rest[i].price \in Nat /\ rest[i].size \in Nat \ {0}
  <2> SUFFICES ASSUME NEW i \in 1 .. M PROVE rest[i].price \in Nat /\ rest[i].size \in Nat \ {0}
    OBVIOUS
  <2>1. g + i \in 1 .. N /\ g + 1 \in 0 .. N /\ g < N
    BY <1>1
  <2>2. held[g + 1] \in Nat /\ n < held[g + 1]
    BY <1>1, <2>1
  <2>3. book[g + i].price \in Nat /\ book[g + i].size \in Nat \ {0}
    BY <1>1, <2>1
  <2>4. held[g + 1] - n \in Nat \ {0}
    BY <2>2
  <2> HIDE DEF held, N, M
  <2> QED
    BY <1>2, <2>3, <2>4
<1>4. \A i, j \in 1 .. M : i <= j => rest[i].price <= rest[j].price
  <2> SUFFICES ASSUME NEW i \in 1 .. M, NEW j \in 1 .. M, i <= j
               PROVE  rest[i].price <= rest[j].price
    OBVIOUS
  <2>1. g + i \in 1 .. N /\ g + j \in 1 .. N /\ g + i <= g + j
    BY <1>1
  <2>2. book[g + i].price <= book[g + j].price
    BY <2>1, BookTypes
  <2> QED
    BY <1>2, <2>2
<1>5. Rising(rest)
  BY <1>1, <1>3, <1>4 DEF Rising
<1> DEFINE left == Cumulated(rest)
           T == { i \in Nat : i + 1 <= M => left[i + 1] = held[g + (i + 1)] - n }
<1>6. left[0] = 0 /\ \A i \in 1 .. M : left[i] = left[i - 1] + rest[i].size
  BY <1>1, <1>3, CumulatedSteps
<1> HIDE DEF left, held, N, M
<1>7. 0 \in T
  <2>1. SUFFICES ASSUME 1 <= M PROVE left[1] = held[g + 1] - n
    OBVIOUS
  <2>2. 1 \in 1 .. M /\ 1 - 1 = 0
    BY <1>1, <2>1
  <2>3. left[1] = 0 + rest[1].size /\ rest[1].size = held[g + 1] - n
    BY <1>2, <1>6, <2>2
  <2>4. rest[1].size \in Nat
    BY <1>3, <2>2
  <2> QED
    BY <2>3, <2>4
<1>8. ASSUME NEW i \in Nat, i \in T PROVE i + 1 \in T
  <2> DEFINE k == i + 1
             next == k + 1
  <2>1. SUFFICES ASSUME next <= M PROVE left[next] = held[g + next] - n
    OBVIOUS
  <2>2. /\ next \in 1 .. M /\ next # 1 /\ next - 1 = k /\ k \in 1 .. M
        /\ g + next \in 1 .. N /\ (g + next) - 1 = g + k
    BY <1>1, <2>1
  <2>3. left[k] = held[g + k] - n
    BY <1>8, <2>2
  <2>4. left[next] = left[k] + book[g + next].size
    <3>1. left[next] = left[next - 1] + rest[next].size
      BY <1>6, <2>2
    <3>2. rest[next].size = book[g + next].size
      BY <1>2, <2>2
    <3> QED
      BY <2>2, <3>1, <3>2
  <2>5. held[g + next] = held[g + k] + book[g + next].size
    <3>1. held[g + next] = held[(g + next) - 1] + book[g + next].size
      BY <1>1, <2>2
    <3> QED
      BY <2>2, <3>1
  <2>6. held[g + k] \in Nat /\ book[g + next].size \in Nat
    <3>1. g + k \in 0 .. N
      BY <1>1, <2>2
    <3> QED
      BY <1>1, <2>2, <3>1
  <2> HIDE DEF next, k
  <2> QED
    BY <2>3, <2>4, <2>5, <2>6
<1>9. \A i \in Nat : i \in T
  <2> HIDE DEF T
  <2> QED
    BY <1>7, <1>8, Induction
<1>10. ASSUME NEW i \in 1 .. M PROVE g + i \in 1 .. N /\ left[i] = held[g + i] - n
  <2>1. i - 1 \in Nat /\ (i - 1) + 1 = i /\ i <= M
    BY <1>1
  <2>2. left[(i - 1) + 1] = held[g + ((i - 1) + 1)] - n
    BY <1>9, <2>1
  <2> QED
    BY <1>2, <2>1, <2>2
<1> QED
  BY <1>5, <1>10 DEF left, held, N, M

(* The contracts of rest are those of the book after the first n.          *)
Rest(book, n, rest) ==
  /\ Rising(rest)
  /\ Depth(rest) = IF n < Depth(book) THEN Depth(book) - n ELSE 0
  /\ \A k \in 1 .. Depth(rest) :
       n + k \in 1 .. Depth(book) /\ Cost(rest, k) = Cost(book, n + k) - Cost(book, n)

(* What is left costs what it would have later.                            *)
LEMMA RestIs ==
  ASSUME NEW book, Rising(book), NEW n \in Nat, NEW g, NEW rest, Left(book, n, g, rest)
  PROVE  Rest(book, n, rest)
<1> DEFINE held == Cumulated(book)
           left == Cumulated(rest)
           N == Top(book)
           M == Top(rest)
           D == Depth(book)
           E == Depth(rest)
<1>1. /\ Rising(rest)
      /\ \A i \in 1 .. M : g + i \in 1 .. N /\ left[i] = held[g + i] - n
  BY LeftHolds
<1>2. /\ N \in Nat /\ held \in [0 .. N -> Nat] /\ M \in Nat /\ left \in [0 .. M -> Nat]
      /\ left[0] = 0 /\ D = held[N] /\ D \in Nat /\ E = left[M] /\ E \in Nat
  BY <1>1, BookTypes, CumulatedSteps, DepthIs
<1>3. g \in 0 .. N /\ M = N - g /\ held[g] <= n /\ (g < N => n < held[g + 1])
  BY DEF Left, Gone
<1>4. \A i \in 1 .. M : rest[i].price = book[g + i].price
  BY DEF Left
<1>5. E = IF n < D THEN D - n ELSE 0
  <2>1. CASE g < N
    <3>1. M \in 1 .. M /\ g + M = N /\ g + 1 \in 0 .. N
      BY <1>2, <1>3, <2>1
    <3>2. E = D - n
      BY <1>1, <1>2, <3>1
    <3>3. held[g + 1] <= D /\ held[g + 1] \in Nat
      BY <1>2, <3>1, CumulatedGrows
    <3> QED
      BY <1>2, <1>3, <2>1, <3>2, <3>3
  <2>2. CASE g = N
    BY <1>2, <1>3, <2>2
  <2> QED
    BY <1>2, <1>3, <2>1, <2>2
<1>6. \A k \in 1 .. E : n + k \in 1 .. D
  BY <1>2, <1>5
<1>7. ASSUME NEW k \in 1 .. E PROVE Price(rest, k) = Price(book, n + k)
  <2>1. PICK i \in 1 .. M : left[i - 1] < k /\ k <= left[i]
    BY <1>1, LevelOf
  <2>2. k \in Nat /\ n + k \in Nat
    BY <1>2
  <2>3. Price(rest, k) = rest[i].price
    BY <1>1, <2>1, <2>2, PriceOf
  <2>4. g + i \in 1 .. N /\ (g + i) - 1 \in 0 .. N /\ g + i \in 0 .. N
    BY <1>1, <1>2
  <2>5. held[g + i] \in Nat /\ held[(g + i) - 1] \in Nat
    BY <1>2, <2>4
  <2>6. n + k <= held[g + i]
    <3>1. left[i] = held[g + i] - n
      BY <1>1
    <3> QED
      BY <2>1, <2>2, <2>5, <3>1
  <2>7. held[(g + i) - 1] < n + k
    <3>1. CASE i = 1
      <4>1. (g + i) - 1 = g
        BY <1>2, <1>3, <3>1
      <4> QED
        BY <1>3, <2>2, <2>5, <4>1
    <3>2. CASE i # 1
      <4>1. i - 1 \in 1 .. M /\ g + (i - 1) = (g + i) - 1
        BY <1>2, <1>3, <3>2
      <4>2. left[i - 1] = held[(g + i) - 1] - n
        BY <1>1, <4>1
      <4> QED
        BY <2>1, <2>2, <2>5, <4>2
    <3> QED
      BY <3>1, <3>2
  <2>8. Price(book, n + k) = book[g + i].price
    BY <2>2, <2>4, <2>6, <2>7, PriceOf
  <2> QED
    BY <1>4, <2>3, <2>8
<1> HIDE DEF held, left, N, M, D, E
<1> DEFINE T == { k \in Nat : k + 1 <= E =>
                    Cost(rest, k + 1) = Cost(book, n + (k + 1)) - Cost(book, n) }
<1>8. /\ \A k \in 0 .. E : Cost(rest, k) \in Nat
      /\ Cost(rest, 0) = 0
      /\ \A k \in 1 .. E : Cost(rest, k) = Cost(rest, k - 1) + Price(rest, k)
      /\ \A k \in 0 .. D : Cost(book, k) \in Nat
      /\ \A k \in 1 .. D : /\ Cost(book, k) = Cost(book, k - 1) + Price(book, k)
                           /\ Price(book, k) \in Nat
  BY <1>1, CostSteps, PriceTypes DEF D, E
<1>9. 0 \in T
  <2>1. SUFFICES ASSUME 1 <= E PROVE Cost(rest, 1) = Cost(book, n + 1) - Cost(book, n)
    OBVIOUS
  <2>2. 1 \in 1 .. E /\ 1 - 1 = 0 /\ n + 1 \in 1 .. D /\ (n + 1) - 1 = n /\ n \in 0 .. D
    BY <1>2, <1>6, <2>1
  <2>3. Cost(rest, 1) = Price(rest, 1)
    <3>1. Cost(rest, 1) = Cost(rest, 0) + Price(rest, 1) /\ Cost(rest, 1) \in Nat
      BY <1>8, <2>2
    <3>2. Price(rest, 1) = Price(book, n + 1) /\ Price(book, n + 1) \in Nat
      BY <1>7, <1>8, <2>2
    <3> QED
      BY <1>8, <3>1, <3>2
  <2>4. Cost(book, n + 1) = Cost(book, n) + Price(book, n + 1)
    <3>1. Cost(book, n + 1) = Cost(book, (n + 1) - 1) + Price(book, n + 1)
      BY <1>8, <2>2
    <3> QED
      BY <2>2, <3>1
  <2>5. Cost(book, n) \in Nat /\ Price(book, n + 1) \in Nat /\ Price(rest, 1) = Price(book, n + 1)
    BY <1>7, <1>8, <2>2
  <2> QED
    BY <2>3, <2>4, <2>5
<1>10. ASSUME NEW k \in Nat, k \in T PROVE k + 1 \in T
  <2> DEFINE m == k + 1
             next == m + 1
  <2>1. SUFFICES ASSUME next <= E PROVE Cost(rest, next) = Cost(book, n + next) - Cost(book, n)
    OBVIOUS
  <2>2. /\ next \in 1 .. E /\ next - 1 = m /\ m \in 1 .. E
        /\ n + next \in 1 .. D /\ (n + next) - 1 = n + m /\ n + m \in 0 .. D /\ n \in 0 .. D
    BY <1>2, <1>6, <2>1
  <2>3. Cost(rest, m) = Cost(book, n + m) - Cost(book, n)
    BY <1>2, <1>10, <2>2
  <2>4. Cost(rest, next) = Cost(rest, m) + Price(book, n + next)
    <3>1. Cost(rest, next) = Cost(rest, next - 1) + Price(rest, next)
      BY <1>8, <2>2
    <3> QED
      BY <1>7, <2>2, <3>1
  <2>5. Cost(book, n + next) = Cost(book, n + m) + Price(book, n + next)
    <3>1. Cost(book, n + next) = Cost(book, (n + next) - 1) + Price(book, n + next)
      BY <1>8, <2>2
    <3> QED
      BY <2>2, <3>1
  <2>6. Cost(book, n) \in Nat /\ Cost(book, n + m) \in Nat /\ Price(book, n + next) \in Nat
    BY <1>8, <2>2
  <2> HIDE DEF m, next
  <2> QED
    BY <2>3, <2>4, <2>5, <2>6
<1>11. \A k \in Nat : k \in T
  <2> HIDE DEF T
  <2> QED
    BY <1>9, <1>10, Induction
<1>12. ASSUME NEW k \in 1 .. E PROVE Cost(rest, k) = Cost(book, n + k) - Cost(book, n)
  <2>1. k - 1 \in Nat /\ (k - 1) + 1 = k /\ k <= E
    BY <1>2
  <2>2. Cost(rest, (k - 1) + 1) = Cost(book, n + ((k - 1) + 1)) - Cost(book, n)
    BY <1>11, <2>1
  <2> QED
    BY <2>1, <2>2
<1> QED
  BY <1>1, <1>5, <1>6, <1>12 DEF Rest, D, E

(* What is left of what is left.                                           *)
LEMMA RestOfRest ==
  ASSUME NEW book, Rising(book), NEW n \in Nat, NEW rest, Rest(book, n, rest),
         NEW m \in 1 .. Depth(rest), NEW last, Rest(rest, m, last)
  PROVE  Rest(book, n + m, last)
<1> DEFINE D == Depth(book)
           E == Depth(rest)
           F == Depth(last)
<1>1. D \in Nat /\ E \in Nat /\ F \in Nat /\ Rising(last) /\ m \in Nat
  BY DepthIs DEF Rest
<1>2. E = (IF n < D THEN D - n ELSE 0) /\ F = (IF m < E THEN E - m ELSE 0)
  BY DEF Rest
<1>3. F = IF n + m < D THEN D - (n + m) ELSE 0
  BY <1>1, <1>2
<1>4. ASSUME NEW k \in 1 .. F
      PROVE  /\ (n + m) + k \in 1 .. D
             /\ Cost(last, k) = Cost(book, (n + m) + k) - Cost(book, n + m)
  <2>1. m \in 1 .. E /\ m + k \in 1 .. E /\ k \in Nat /\ n + (m + k) = (n + m) + k
    BY <1>1, <1>2
  <2>2. /\ n + (m + k) \in 1 .. D
        /\ Cost(rest, m + k) = Cost(book, n + (m + k)) - Cost(book, n)
    BY <2>1 DEF Rest
  <2>3. n + m \in 1 .. D /\ Cost(rest, m) = Cost(book, n + m) - Cost(book, n)
    BY <2>1 DEF Rest
  <2>4. Cost(last, k) = Cost(rest, m + k) - Cost(rest, m)
    BY DEF Rest
  <2>5. n \in 0 .. D /\ n + m \in 0 .. D /\ n + (m + k) \in 0 .. D
    BY <1>1, <2>2, <2>3
  <2>6. Cost(book, n) \in Nat /\ Cost(book, n + m) \in Nat /\ Cost(book, n + (m + k)) \in Nat
    BY <2>5, CostSteps
  <2> HIDE DEF D, E, F
  <2>7. Cost(last, k) = Cost(book, n + (m + k)) - Cost(book, n + m)
    BY <2>2, <2>3, <2>4, <2>6
  <2> QED
    BY <2>1, <2>2, <2>7
<1> QED
  BY <1>1, <1>3, <1>4 DEF Rest

(* Without its best level, a book is left from there on.                   *)
LEMMA TailIsRest ==
  ASSUME NEW S, NEW book \in Seq(S), Rising(book), Top(book) >= 2
  PROVE  book[1].size \in 1 .. Depth(book) /\ Rest(book, book[1].size, Tail(book))
<1> DEFINE n == book[1].size
           held == Cumulated(book)
           rest == Tail(book)
<1>1. /\ Top(book) \in Nat /\ 1 \in 1 .. Top(book) /\ 2 \in 1 .. Top(book) /\ 1 \in 0 .. Top(book)
      /\ 1 - 1 = 0 /\ 2 - 1 = 1
  BY BookTypes
<1>2. n \in Nat \ {0} /\ book[2].size \in Nat \ {0}
  BY <1>1, BookTypes
<1>3. held[0] = 0 /\ held[1] = n /\ held[2] = n + book[2].size
  <2>1. /\ held[0] = 0
        /\ \A i \in 1 .. Top(book) : held[i] = held[i - 1] + book[i].size
    BY BookTypes, CumulatedSteps
  <2>2. held[1] = held[1 - 1] + book[1].size /\ held[2] = held[2 - 1] + book[2].size
    BY <1>1, <2>1
  <2> QED
    BY <1>1, <1>2, <2>1, <2>2
<1>4. n \in 1 .. Depth(book)
  <2>1. held[1] <= Depth(book) /\ Depth(book) \in Nat
    BY <1>1, CumulatedGrows, DepthIs
  <2> QED
    BY <1>2, <1>3, <2>1
<1>5. /\ Top(rest) = Top(book) - 1 /\ DOMAIN rest = 1 .. Top(rest)
      /\ \A i \in 1 .. Top(rest) : rest[i] = book[1 + i]
  <2>1. book # <<>>
    BY <1>1 DEF Top
  <2>2. /\ rest \in Seq(S) /\ Len(rest) = Len(book) - 1
        /\ \A i \in 1 .. Len(rest) : rest[i] = book[i + 1]
    BY <2>1, HeadTailProperties
  <2>3. \A i \in 1 .. Len(rest) : i + 1 = 1 + i
    OBVIOUS
  <2> QED
    BY <2>2, <2>3 DEF Top
<1>6. Left(book, n, 1, rest)
  <2>1. Gone(book, n, 1)
    <3>1. held[1] <= n /\ n < held[1 + 1]
      BY <1>2, <1>3
    <3> QED
      BY <3>1 DEF Gone
  <2>2. \A i \in 1 .. Top(rest) :
          /\ rest[i].price = book[1 + i].price
          /\ rest[i].size = IF i = 1 THEN held[1 + 1] - n ELSE book[1 + i].size
    <3>1. held[1 + 1] - n = book[1 + 1].size
      BY <1>2, <1>3
    <3> QED
      BY <1>5, <3>1
  <2> QED
    BY <1>1, <1>5, <2>1, <2>2 DEF Left
<1>7. Rest(book, n, rest)
  <2>1. n \in Nat
    BY <1>2
  <2> HIDE DEF n, rest
  <2> QED
    BY <1>6, <2>1, RestIs
<1> QED
  BY <1>4, <1>7

(* A leg of n contracts, where c are taken, gets some of them that come    *)
(* later in the recorded book, for no less than they cost there.           *)
Leg(book, c, n, fill) ==
  /\ fill.filled \in Nat /\ fill.cost \in Nat
  /\ fill.filled # 0 =>
       /\ fill.filled <= n
       /\ \E e \in Nat :
            /\ e >= c /\ e + fill.filled <= Depth(book)
            /\ fill.cost >= Scale * (Cost(book, e + fill.filled) - Cost(book, e))

(* Walking what is left, at its prices or dearer, is such a fill.          *)
LEMMA WalkedLeg ==
  ASSUME NEW book, Rising(book), NEW c \in Nat, NEW rest, Rest(book, c, rest),
         NEW n \in Nat, NEW rate \in Nat, rate >= Scale
  PROVE  Leg(book, c, n, [filled |-> Filled(rest, n), cost |-> Walk(rest, n).cost * rate])
<1> DEFINE filled == Filled(rest, n)
           paid == Walk(rest, n).cost
           D == Depth(book)
           E == Depth(rest)
           fill == [filled |-> filled, cost |-> paid * rate]
<1>1. Rising(rest) /\ D \in Nat /\ E \in Nat /\ Scale \in Nat
  BY DepthIs, Constants DEF Rest
<1>2. filled = Smaller(n, E) /\ paid = Cost(rest, Smaller(n, E))
  BY <1>1, WalkIs
<1>3. filled \in 0 .. E /\ filled <= n /\ filled \in Nat
  BY <1>1, <1>2 DEF Smaller
<1>4. paid = Cost(rest, filled) /\ paid \in Nat
  BY <1>1, <1>2, <1>3, CostSteps
<1> HIDE DEF filled, paid, D, E
<1>5. paid * rate \in Nat /\ paid * rate >= Scale * paid
  <2>1. paid * (rate - Scale) \in Nat /\ rate - Scale \in Nat
    BY <1>1, <1>4
  <2>2. paid * rate = (paid * (rate - Scale)) + (paid * Scale)
    BY <1>1, <1>4
  <2>3. paid * Scale = Scale * paid /\ paid * Scale \in Nat
    BY <1>1, <1>4
  <2> QED
    BY <2>1, <2>2, <2>3
<1>6. ASSUME filled # 0
      PROVE  c + filled <= D /\ paid = Cost(book, c + filled) - Cost(book, c)
  <2>1. filled \in 1 .. E
    BY <1>1, <1>3, <1>6
  <2>2. c + filled \in 1 .. D /\ Cost(rest, filled) = Cost(book, c + filled) - Cost(book, c)
    BY <2>1 DEF Rest, D, E
  <2> QED
    BY <1>1, <1>4, <2>2
<1>7. filled # 0 => c >= c /\ c + filled <= D
                    /\ paid * rate >= Scale * (Cost(book, c + filled) - Cost(book, c))
  BY <1>5, <1>6
<1>8. Leg(book, c, n, fill)
  BY <1>3, <1>5, <1>7 DEF Leg, D
<1> QED
  BY <1>8 DEF filled, paid

(* No contracts are such a fill.                                           *)
LEMMA NothingLeg ==
  ASSUME NEW book, NEW c, NEW n
  PROVE  Leg(book, c, n, Nothing)
BY DEF Leg, Nothing

(* So is the walked price with slippage, or its refusal.                   *)
LEMMA SlippedLeg ==
  ASSUME NEW book, Rising(book), NEW c \in Nat, NEW rest, Rest(book, c, rest),
         NEW n \in Nat, NEW slip \in Nat
  PROVE  Leg(book, c, n, Slipped(rest, n, slip))
<1> DEFINE rate == Scale + slip
<1>1. rate \in Nat /\ rate >= Scale
  BY Constants
<1>2. \/ Slipped(rest, n, slip) = Nothing
      \/ Slipped(rest, n, slip) =
           [filled |-> Filled(rest, n), cost |-> Walk(rest, n).cost * rate]
  BY DEF Slipped
<1> HIDE DEF rate
<1> QED
  BY <1>1, <1>2, WalkedLeg, NothingLeg

(* So is a fill of every fill model.                                       *)
LEMMA FillIsLeg ==
  ASSUME NEW book \in Books, NEW c \in Nat, NEW n \in Nat, kind \in Kind
  PROVE  Leg(book, c, n, FillPrice(Consume(book, c), n))
<1> DEFINE rest == Consume(book, c)
<1>1. Rising(book)
  BY BooksRise
<1>2. PICK S : rest \in Seq(S)
  BY <1>1, ConsumeLeaves
<1>3. PICK g \in Nat : Left(book, c, g, rest)
  BY <1>1, ConsumeLeaves
<1>4. Rest(book, c, rest)
  BY <1>1, <1>3, RestIs
<1>5. kind \in {"optimistic", "realistic", "pessimistic"} /\ Slip \in Nat /\ ExtraSlip \in Nat
      /\ Scale \in Nat /\ Scale >= Scale
  BY KindAssumption, SlipAssumption, Constants
<1> HIDE DEF rest
<1>6. CASE rest = <<>>
  BY <1>6, NothingLeg DEF FillPrice, rest
<1>7. CASE rest # <<>> /\ kind = "optimistic"
  <2>1. FillPrice(rest, n) = [filled |-> Filled(rest, n), cost |-> Walk(rest, n).cost * Scale]
    BY <1>7 DEF FillPrice
  <2> QED
    BY <1>1, <1>4, <1>5, <2>1, WalkedLeg DEF rest
<1>8. CASE rest # <<>> /\ kind = "realistic"
  <2>1. FillPrice(rest, n) = Slipped(rest, n, Slip)
    BY <1>8 DEF FillPrice
  <2> QED
    BY <1>1, <1>4, <1>5, <2>1, SlippedLeg DEF rest
<1>9. CASE rest # <<>> /\ kind = "pessimistic" /\ Len(rest) = 1
  <2>1. FillPrice(rest, n) = Slipped(rest, n, ExtraSlip)
    BY <1>9 DEF FillPrice
  <2> QED
    BY <1>1, <1>4, <1>5, <2>1, SlippedLeg DEF rest
<1>10. CASE rest # <<>> /\ kind = "pessimistic" /\ Len(rest) >= 2
  <2> DEFINE m == rest[1].size
             last == Tail(rest)
  <2>1. FillPrice(rest, n) = [filled |-> Filled(last, n), cost |-> Walk(last, n).cost * Scale]
    <3>1. /\ rest # <<>> /\ kind # "optimistic" /\ kind # "realistic"
          /\ kind = "pessimistic" /\ Len(rest) >= 2 /\ Len(rest) \in Nat /\ Len(rest) # 1
      BY <1>2, <1>10
    <3> QED
      BY <3>1 DEF FillPrice
  <2>2. Rising(rest) /\ Top(rest) >= 2
    BY <1>4, <1>10 DEF Rest, Top
  <2>3. m \in 1 .. Depth(rest) /\ Rest(rest, m, last)
    BY <1>2, <2>2, TailIsRest
  <2>4. m \in Nat /\ c + m \in Nat /\ c + m >= c
    BY <2>2, <2>3, DepthIs
  <2> HIDE DEF m, last
  <2>5. Rest(book, c + m, last)
    BY <1>1, <1>4, <2>3, RestOfRest
  <2>6. Leg(book, c + m, n, FillPrice(rest, n))
    BY <1>1, <1>5, <2>1, <2>4, <2>5, WalkedLeg
  <2>7. Leg(book, c, n, FillPrice(rest, n))
    BY <2>4, <2>6 DEF Leg
  <2> QED
    BY <2>7 DEF rest
<1>11. rest = <<>> \/ Len(rest) = 1 \/ Len(rest) >= 2
  <2> DEFINE top == Len(rest)
  <2>1. top \in Nat /\ (rest # <<>> => top # 0)
    BY <1>2
  <2> HIDE DEF top
  <2>2. rest = <<>> \/ top = 1 \/ top >= 2
    BY <2>1
  <2> QED
    BY <2>2 DEF top
<1> QED
  BY <1>5, <1>6, <1>7, <1>8, <1>9, <1>10, <1>11

-----------------------------------------------------------------------------
(* What a trade is charged.                                                *)

(* As many contracts cost no less when they come later.                    *)
LEMMA LaterCostsMore ==
  ASSUME NEW book, Rising(book), NEW b \in Nat, NEW e \in Nat, b <= e,
         NEW s \in Nat, e + s <= Depth(book)
  PROVE  Cost(book, b + s) - Cost(book, b) <= Cost(book, e + s) - Cost(book, e)
<1> DEFINE D == Depth(book)
           C(k) == Cost(book, k)
           T == { k \in Nat : k <= s => C(b + k) - C(b) <= C(e + k) - C(e) }
<1>1. /\ D \in Nat
      /\ \A k \in 0 .. D : C(k) \in Nat
      /\ \A k \in 1 .. D : C(k) = C(k - 1) + Price(book, k) /\ Price(book, k) \in Nat
      /\ \A k \in 1 .. D : \A later \in k .. D : Price(book, k) <= Price(book, later)
  BY DepthIs, CostSteps, PriceTypes, PriceRises
<1> HIDE DEF D, C
<1>2. e + s <= D
  BY DEF D
<1>3. b \in 0 .. D /\ e \in 0 .. D
  BY <1>1, <1>2
<1>4. 0 \in T
  <2>1. b + 0 = b /\ e + 0 = e /\ C(b) \in Nat /\ C(e) \in Nat
    BY <1>1, <1>3
  <2>2. C(b + 0) - C(b) <= C(e + 0) - C(e)
    BY <2>1
  <2> QED
    BY <2>2
<1>5. ASSUME NEW k \in Nat, k \in T PROVE k + 1 \in T
  <2>1. SUFFICES ASSUME k + 1 <= s PROVE C(b + (k + 1)) - C(b) <= C(e + (k + 1)) - C(e)
    OBVIOUS
  <2> DEFINE n == b + (k + 1)
             m == e + (k + 1)
  <2>2. /\ n \in 1 .. D /\ m \in 1 .. D /\ n - 1 = b + k /\ m - 1 = e + k /\ m \in n .. D
        /\ b + k \in 0 .. D /\ e + k \in 0 .. D
    BY <1>1, <1>2, <2>1
  <2> HIDE DEF n, m
  <2>3. C(n) = C(b + k) + Price(book, n) /\ C(m) = C(e + k) + Price(book, m)
    BY <1>1, <2>2
  <2>4. Price(book, n) <= Price(book, m) /\ Price(book, n) \in Nat /\ Price(book, m) \in Nat
    BY <1>1, <2>2
  <2>5. C(b + k) - C(b) <= C(e + k) - C(e)
    BY <1>5, <2>1
  <2>6. C(b) \in Nat /\ C(e) \in Nat /\ C(b + k) \in Nat /\ C(e + k) \in Nat
    BY <1>1, <1>3, <2>2
  <2>7. C(n) - C(b) <= C(m) - C(e)
    BY <2>3, <2>4, <2>5, <2>6
  <2> QED
    BY <2>7 DEF n, m
<1>6. \A k \in Nat : k \in T
  <2> HIDE DEF T
  <2> QED
    BY <1>4, <1>5, Induction
<1>7. C(b + s) - C(b) <= C(e + s) - C(e)
  BY <1>6
<1> QED
  BY <1>7 DEF C

(* Up to a contract, none costs more than it; from it on, none less.       *)
LEMMA CostAround ==
  ASSUME NEW book, Rising(book), NEW q \in 1 .. Depth(book), NEW s \in Nat, NEW m \in Nat,
         s <= q, q + m <= Depth(book)
  PROVE  /\ Cost(book, q) - Cost(book, q - s) <= s * Price(book, q)
         /\ Cost(book, q + m) - Cost(book, q) >= m * Price(book, q)
<1> DEFINE D == Depth(book)
           C(k) == Cost(book, k)
           p == Price(book, q)
           Below == { k \in Nat : k <= q => C(q) - C(q - k) <= k * p }
           Above == { k \in Nat : q + k <= D => C(q + k) - C(q) >= k * p }
<1>1. /\ D \in Nat /\ q \in Nat /\ q >= 1 /\ q <= D /\ p \in Nat
      /\ \A k \in 0 .. D : C(k) \in Nat
      /\ \A k \in 1 .. D : C(k) = C(k - 1) + Price(book, k) /\ Price(book, k) \in Nat
      /\ \A k \in 1 .. D : \A later \in k .. D : Price(book, k) <= Price(book, later)
  BY DepthIs, CostSteps, PriceTypes, PriceRises
<1>2. q + m <= D
  OBVIOUS
<1> HIDE DEF D, C, p
<1>3. C(q) \in Nat /\ 0 * p = 0
  BY <1>1
<1>4. 0 \in Below /\ 0 \in Above
  <2>1. q - 0 = q /\ q + 0 = q
    BY <1>1
  <2>2. C(q) - C(q - 0) <= 0 * p /\ C(q + 0) - C(q) >= 0 * p
    BY <1>3, <2>1
  <2> QED
    BY <2>2
<1>5. ASSUME NEW k \in Nat PROVE (k + 1) * p = k * p + p /\ k * p \in Nat
  BY <1>1
<1>6. ASSUME NEW k \in Nat, k \in Below PROVE k + 1 \in Below
  <2>1. SUFFICES ASSUME k + 1 <= q PROVE C(q) - C(q - (k + 1)) <= (k + 1) * p
    OBVIOUS
  <2> DEFINE n == q - k
  <2>2. /\ n \in 1 .. D /\ n - 1 = q - (k + 1) /\ n - 1 \in 0 .. D /\ n \in 0 .. D
        /\ q \in n .. D /\ k <= q
    BY <1>1, <2>1
  <2>3. C(q) - C(n) <= k * p
    BY <1>6, <2>2
  <2> HIDE DEF n
  <2>4. C(n) = C(n - 1) + Price(book, n) /\ Price(book, n) \in Nat /\ Price(book, n) <= p
    BY <1>1, <2>2 DEF p
  <2>5. C(n) \in Nat /\ C(n - 1) \in Nat
    BY <1>1, <2>2
  <2>6. C(q) - C(n - 1) <= k * p + p
    BY <1>1, <1>3, <1>5, <2>3, <2>4, <2>5
  <2> QED
    BY <1>5, <2>2, <2>6
<1>7. ASSUME NEW k \in Nat, k \in Above PROVE k + 1 \in Above
  <2>1. SUFFICES ASSUME q + (k + 1) <= D PROVE C(q + (k + 1)) - C(q) >= (k + 1) * p
    OBVIOUS
  <2> DEFINE n == q + (k + 1)
  <2>2. /\ n \in 1 .. D /\ n - 1 = q + k /\ q + k \in 0 .. D /\ n \in 0 .. D
        /\ q \in 1 .. D /\ n \in q .. D /\ q + k <= D
    BY <1>1, <2>1
  <2>3. C(q + k) - C(q) >= k * p
    BY <1>7, <2>2
  <2> HIDE DEF n
  <2>4. C(n) = C(q + k) + Price(book, n) /\ Price(book, n) \in Nat /\ Price(book, n) >= p
    BY <1>1, <2>2 DEF p
  <2>5. C(n) \in Nat /\ C(q + k) \in Nat
    BY <1>1, <2>2
  <2>6. C(n) - C(q) >= k * p + p
    BY <1>1, <1>3, <1>5, <2>3, <2>4, <2>5
  <2> QED
    BY <1>5, <2>6 DEF n
<1>8. \A k \in Nat : k \in Below
  <2> HIDE DEF Below
  <2> QED
    BY <1>4, <1>6, Induction
<1>9. \A k \in Nat : k \in Above
  <2> HIDE DEF Above
  <2> QED
    BY <1>4, <1>7, Induction
<1>10. C(q) - C(q - s) <= s * p /\ C(q + m) - C(q) >= m * p
  BY <1>2, <1>8, <1>9
<1> QED
  BY <1>10 DEF C, p

(* A product grows with its factor.                                        *)
LEMMA Times ==
  ASSUME NEW a \in Int, NEW b \in Int, NEW c \in Nat, a <= b
  PROVE  a * c <= b * c /\ c * a <= c * b
<1>1. (b - a) * c \in Nat
  <2>1. b - a \in Nat
    OBVIOUS
  <2> QED
    BY <2>1
<1>2. (b - a) * c = (b * c) - (a * c) /\ c * a = a * c /\ c * b = b * c
  OBVIOUS
<1> QED
  BY <1>1, <1>2

(* A contract's average price is no lower over more contracts, later on.   *)
LEMMA AverageRises ==
  ASSUME NEW book, Rising(book), NEW b \in Nat, NEW e \in Nat, b <= e,
         NEW f \in Nat, NEW s \in 1 .. f, e + f <= Depth(book)
  PROVE  /\ b + s <= Depth(book)
         /\ Cost(book, b + s) - Cost(book, b) \in Int
         /\ Cost(book, e + f) - Cost(book, e) \in Int
         /\ (Cost(book, b + s) - Cost(book, b)) * f <= s * (Cost(book, e + f) - Cost(book, e))
<1> DEFINE D == Depth(book)
           q == e + s
           m == f - s
           p == Price(book, q)
           x == Cost(book, b + s) - Cost(book, b)
           y == Cost(book, q) - Cost(book, e)
           z == Cost(book, e + f) - Cost(book, q)
<1>1. /\ D \in Nat /\ q \in 1 .. D /\ m \in Nat /\ q + m = e + f /\ q - s = e /\ s <= q
      /\ s \in Nat /\ e + s <= D /\ b + s \in 0 .. D /\ b \in 0 .. D /\ e \in 0 .. D
      /\ e + f \in 0 .. D /\ q \in 0 .. D /\ s + m = f
  BY DepthIs
<1>2. p \in Nat
  BY <1>1, PriceTypes
<1>3. x \in Int /\ y \in Int /\ z \in Int /\ Cost(book, e + f) - Cost(book, e) = y + z
  <2>1. /\ Cost(book, b + s) \in Nat /\ Cost(book, b) \in Nat /\ Cost(book, q) \in Nat
        /\ Cost(book, e) \in Nat /\ Cost(book, e + f) \in Nat
    BY <1>1, CostSteps
  <2> QED
    BY <2>1
<1>4. x <= y
  BY <1>1, LaterCostsMore
<1>5. y <= s * p /\ z >= m * p
  <2> HIDE DEF q, m
  <2>1. /\ Cost(book, q) - Cost(book, q - s) <= s * Price(book, q)
        /\ Cost(book, q + m) - Cost(book, q) >= m * Price(book, q)
    BY <1>1, CostAround
  <2> QED
    BY <1>1, <2>1
<1>6. b + s <= D
  BY <1>1
<1> HIDE DEF D, q, m, p, x, y, z
<1>7. s * p \in Int /\ m * p \in Int
  BY <1>1, <1>2
<1>8. x * s <= y * s /\ x * m <= (s * p) * m /\ s * (m * p) <= s * z
  <2>1. x <= s * p
    BY <1>3, <1>4, <1>5, <1>7
  <2> QED
    BY <1>1, <1>3, <1>4, <1>5, <1>7, <2>1, Times
<1>9. x * f = (x * s) + (x * m) /\ (s * p) * m = s * (m * p) /\ s * (y + z) = (y * s) + (s * z)
  <2>1. x * (s + m) = (x * s) + (x * m) /\ (s * p) * m = s * (m * p)
        /\ s * (y + z) = (y * s) + (s * z)
    BY <1>1, <1>2, <1>3
  <2> QED
    BY <1>1, <2>1
<1>10. x * f <= s * (y + z)
  <2>1. /\ x * s \in Int /\ x * m \in Int /\ y * s \in Int /\ s * z \in Int
        /\ s * (m * p) \in Int
    BY <1>1, <1>2, <1>3, <1>7
  <2> QED
    BY <1>8, <1>9, <2>1
<1>11. y + z \in Int
  BY <1>3
<1>12. x * f <= s * (Cost(book, e + f) - Cost(book, e))
  BY <1>3, <1>10
<1> QED
  BY <1>3, <1>6, <1>11, <1>12 DEF D, x

(* Two legs, each charged no less than its share, make such a trade.       *)
LEMMA LegsAdd ==
  ASSUME NEW s \in Nat, NEW f \in Nat, NEW g \in Nat, NEW c \in Nat, NEW d \in Nat,
         NEW x \in Int, NEW y \in Int,
         Scale * (x * f) <= s * c, Scale * (y * g) <= s * d
  PROVE  s * (c * g + d * f) * (Scale + Fee) + Gas * Scale * Scale * f * g
           >= ((x + y) * (Scale + Fee) + Gas * Scale) * Scale * f * g
<1> DEFINE E == Scale + Fee
           G == Gas * Scale * Scale * f * g
           a == Scale * (x * f)
           b == Scale * (y * g)
           u == s * c
           v == s * d
<1>1. Scale \in Nat /\ E \in Nat /\ Gas \in Nat
  BY Constants
<1>2. a \in Int /\ b \in Int /\ u \in Int /\ v \in Int /\ G \in Int
  <2>1. x * f \in Int /\ y * g \in Int
    OBVIOUS
  <2>2. Scale * (x * f) \in Int /\ Scale * (y * g) \in Int
    BY <1>1, <2>1
  <2>3. s * c \in Int /\ s * d \in Int
    OBVIOUS
  <2>4. Gas * Scale * Scale * f * g \in Int
    BY <1>1
  <2> QED
    BY <2>2, <2>3, <2>4
<1>3. s * (c * g + d * f) * E = ((u * g) + (v * f)) * E
  BY <1>1
<1>4. ((x + y) * E + Gas * Scale) * Scale * f * g = (((a * g) + (b * f)) * E) + G
  BY <1>1
<1> HIDE DEF E, G, a, b, u, v
<1>5. a * g <= u * g /\ b * f <= v * f
  BY <1>2, Times DEF a, b, u, v
<1>6. a * g \in Int /\ u * g \in Int /\ b * f \in Int /\ v * f \in Int
  BY <1>2
<1>7. (a * g) + (b * f) <= (u * g) + (v * f)
      /\ (a * g) + (b * f) \in Int /\ (u * g) + (v * f) \in Int
  BY <1>5, <1>6
<1>8. ((a * g) + (b * f)) * E <= ((u * g) + (v * f)) * E
  BY <1>1, <1>7, Times
<1>9. ((a * g) + (b * f)) * E \in Int /\ ((u * g) + (v * f)) * E \in Int
  BY <1>1, <1>7
<1>10. (((a * g) + (b * f)) * E) + G <= (((u * g) + (v * f)) * E) + G
  BY <1>2, <1>8, <1>9
<1> QED
  BY <1>3, <1>4, <1>10 DEF E, G

(* A longer sequence holds what it held before, and its last.              *)
LEMMA CumulatedLonger ==
  ASSUME NEW short, NEW long, Top(short) \in Nat, Top(long) = Top(short) + 1,
         \A i \in 1 .. Top(long) : long[i].size \in Nat,
         \A i \in 1 .. Top(short) : long[i] = short[i]
  PROVE  /\ \A i \in 0 .. Top(short) :
              Cumulated(long)[i] = Cumulated(short)[i] /\ Cumulated(short)[i] \in Nat
         /\ Cumulated(long)[Top(long)] = Cumulated(short)[Top(short)] + long[Top(long)].size
<1> DEFINE N == Top(short)
           before == Cumulated(short)
           after == Cumulated(long)
           T == { i \in Nat : i <= N => after[i] = before[i] }
<1>1. /\ before \in [0 .. N -> Nat] /\ before[0] = 0
      /\ \A i \in 1 .. N : before[i] = before[i - 1] + short[i].size
  <2>1. \A i \in 1 .. N : short[i].size \in Nat
    OBVIOUS
  <2> QED
    BY <2>1, CumulatedSteps
<1>2. /\ after[0] = 0
      /\ \A i \in 1 .. N + 1 : after[i] = after[i - 1] + long[i].size
  <2>1. Top(long) \in Nat
    OBVIOUS
  <2> QED
    BY <2>1, CumulatedSteps
<1>3. N \in Nat /\ \A i \in 1 .. N : long[i] = short[i]
  OBVIOUS
<1>4. Top(long) = N + 1
  OBVIOUS
<1> HIDE DEF N, before, after
<1>5. 0 \in T
  BY <1>1, <1>2
<1>6. ASSUME NEW i \in Nat, i \in T PROVE i + 1 \in T
  <2>1. SUFFICES ASSUME i + 1 <= N PROVE after[i + 1] = before[i + 1]
    OBVIOUS
  <2>2. i + 1 \in 1 .. N /\ i + 1 \in 1 .. N + 1 /\ (i + 1) - 1 = i /\ i <= N
    BY <1>3, <2>1
  <2>3. after[i + 1] = after[i] + long[i + 1].size
    BY <1>2, <2>2
  <2>4. before[i + 1] = before[i] + short[i + 1].size
    BY <1>1, <2>2
  <2> QED
    BY <1>3, <1>6, <2>2, <2>3, <2>4
<1>7. \A i \in Nat : i \in T
  <2> HIDE DEF T
  <2> QED
    BY <1>5, <1>6, Induction
<1>8. \A i \in 0 .. N : after[i] = before[i] /\ before[i] \in Nat
  BY <1>1, <1>3, <1>7
<1>9. after[N + 1] = before[N] + long[N + 1].size
  <2>1. N + 1 \in 1 .. N + 1 /\ (N + 1) - 1 = N /\ N \in 0 .. N
    BY <1>3
  <2> QED
    BY <1>2, <1>8, <2>1
<1> QED
  BY <1>4, <1>8, <1>9 DEF N, before, after

(* What contracts of both legs cost, size of them after the first b.       *)
PairsCost(b, size) == (Cost(yes, b + size) + Cost(no, b + size)) - (Cost(yes, b) + Cost(no, b))

(* A trade is charged no less than the contracts after b of each leg cost, *)
(* and buys none that either book does not have.                           *)
Fair(b, t) ==
  /\ t.yes.filled \in 1 .. Depth(yes) /\ t.no.filled \in 1 .. Depth(no)
  /\ t.size \in 1 .. Smaller(t.yes.filled, t.no.filled)
  /\ b + t.size <= Smaller(Depth(yes), Depth(no))
  /\ Locked(t) >= (PairsCost(b, t.size) * (Scale + Fee) + Gas * Scale)
                     * Scale * t.yes.filled * t.no.filled

(* A leg's share of what a trade of size contracts is charged.             *)
LEMMA LegShare ==
  ASSUME NEW book \in Books, NEW c \in Nat, NEW n \in Nat, NEW fill, Leg(book, c, n, fill),
         NEW b \in Nat, b <= c, NEW size \in 1 .. fill.filled
  PROVE  /\ fill.filled \in 1 .. Depth(book) /\ fill.filled <= n /\ fill.cost \in Nat
         /\ b + size <= Depth(book)
         /\ Cost(book, b) \in Nat /\ Cost(book, b + size) \in Nat
         /\ Scale * ((Cost(book, b + size) - Cost(book, b)) * fill.filled) <= size * fill.cost
<1> DEFINE D == Depth(book)
           f == fill.filled
           x == Cost(book, b + size) - Cost(book, b)
<1>1. Rising(book) /\ D \in Nat /\ Scale \in Nat
  BY BooksRise, DepthIs, Constants
<1>2. f \in Nat \ {0} /\ fill.cost \in Nat /\ f <= n /\ size \in Nat
  BY DEF Leg
<1>3. PICK e \in Nat : /\ e >= c /\ e + f <= D
                       /\ fill.cost >= Scale * (Cost(book, e + f) - Cost(book, e))
  BY <1>2 DEF Leg
<1> DEFINE z == Cost(book, e + f) - Cost(book, e)
<1>4. /\ b + size <= D /\ x \in Int /\ z \in Int /\ x * f <= size * z
  <2>1. b <= e /\ size \in 1 .. f
    BY <1>3
  <2> HIDE DEF f
  <2> QED
    BY <1>1, <1>2, <1>3, <2>1, AverageRises
<1>5. f \in 1 .. D
  BY <1>1, <1>2, <1>3
<1>6. Cost(book, b) \in Nat /\ Cost(book, b + size) \in Nat
  <2>1. b \in 0 .. D /\ b + size \in 0 .. D
    BY <1>1, <1>2, <1>4
  <2> QED
    BY <1>1, <2>1, CostSteps
<1> HIDE DEF D, f, x, z
<1>7. Scale * (x * f) <= size * fill.cost
  <2>1. x * f \in Int /\ size * z \in Int /\ Scale * z \in Int
    BY <1>1, <1>2, <1>4
  <2>2. Scale * (x * f) <= Scale * (size * z)
    BY <1>1, <1>4, <2>1, Times
  <2>3. Scale * (size * z) = size * (Scale * z)
    BY <1>1, <1>2, <1>4
  <2>4. size * (Scale * z) <= size * fill.cost
    <3>1. Scale * z <= fill.cost /\ fill.cost \in Int
      BY <1>2, <1>3, <2>1 DEF z, f
    <3> QED
      BY <1>2, <2>1, <3>1, Times
  <2>5. Scale * (x * f) \in Int /\ size * (Scale * z) \in Int /\ size * fill.cost \in Int
    BY <1>1, <1>2, <2>1
  <2> QED
    BY <2>2, <2>3, <2>4, <2>5
<1> QED
  BY <1>2, <1>4, <1>5, <1>6, <1>7 DEF D, f, x

(* Every trade is fair, with the contracts bought so far and charged.      *)
LEMMA TradesAreFair ==
  ASSUME kind \in Kind, yes \in Books, no \in Books, consumed \in Nat,
         NEW b \in Nat, b <= consumed, NEW n \in Nat, Trade(n).size > 0
  PROVE  /\ Fair(b, Trade(n))
         /\ Trade(n).size \in Nat \ {0} /\ Trade(n).size <= n
<1> DEFINE y == FillPrice(Consume(yes, consumed), n)
           x == FillPrice(Consume(no, consumed), n)
           s == Smaller(y.filled, x.filled)
           t == [size |-> s, yes |-> y, no |-> x]
<1>1. Trade(n) = t
  BY DEF Trade
<1>2. Leg(yes, consumed, n, y) /\ Leg(no, consumed, n, x)
  BY FillIsLeg
<1>3. y.filled \in Nat /\ x.filled \in Nat
  BY <1>2 DEF Leg
<1> HIDE DEF y, x
<1>4. s \in Nat \ {0} /\ s \in 1 .. y.filled /\ s \in 1 .. x.filled
  <2>1. s > 0
    BY <1>1
  <2> QED
    BY <1>3, <2>1 DEF Smaller
<1>5. s \in 1 .. Smaller(y.filled, x.filled)
  BY <1>4
<1> DEFINE p == Cost(yes, b + s) - Cost(yes, b)
           q == Cost(no, b + s) - Cost(no, b)
<1> HIDE DEF s
<1>6. /\ y.filled \in 1 .. Depth(yes) /\ y.filled <= n /\ y.cost \in Nat
      /\ b + s <= Depth(yes)
      /\ Cost(yes, b) \in Nat /\ Cost(yes, b + s) \in Nat
      /\ Scale * (p * y.filled) <= s * y.cost
  BY <1>2, <1>4, LegShare
<1>7. /\ x.filled \in 1 .. Depth(no) /\ x.filled <= n /\ x.cost \in Nat
      /\ b + s <= Depth(no)
      /\ Cost(no, b) \in Nat /\ Cost(no, b + s) \in Nat
      /\ Scale * (q * x.filled) <= s * x.cost
  BY <1>2, <1>4, LegShare
<1>8. PairsCost(b, s) = p + q /\ p \in Int /\ q \in Int
  BY <1>6, <1>7 DEF PairsCost
<1> HIDE DEF p, q
<1>9. s * (y.cost * x.filled + x.cost * y.filled) * (Scale + Fee)
        + Gas * Scale * Scale * y.filled * x.filled
      >= ((p + q) * (Scale + Fee) + Gas * Scale) * Scale * y.filled * x.filled
  <2>1. s \in Nat
    BY <1>4
  <2> QED
    BY <1>3, <1>6, <1>7, <1>8, <2>1, LegsAdd
<1>10. Locked(t) >= (PairsCost(b, s) * (Scale + Fee) + Gas * Scale) * Scale * y.filled * x.filled
  BY <1>8, <1>9 DEF Locked
<1>11. b + s <= Smaller(Depth(yes), Depth(no))
  BY <1>6, <1>7 DEF Smaller
<1>12. s <= n
  BY <1>3, <1>4, <1>6
<1>13. t.yes = y /\ t.no = x /\ t.size = s
  OBVIOUS
<1> HIDE DEF t
<1>14. Fair(b, t)
  BY <1>5, <1>6, <1>7, <1>10, <1>11, <1>13 DEF Fair
<1> QED
  BY <1>1, <1>4, <1>12, <1>13, <1>14

-----------------------------------------------------------------------------
(* A backtest's fills.                                                     *)

(* What every fill relies on: no more was bought than is charged to the    *)
(* market, and each trade is fair, with those before it.                   *)
FillInv ==
  /\ kind \in Kind /\ yes \in Books /\ no \in Books
  /\ pending \in Seq(Nat \ {0}) /\ consumed \in Nat
  /\ \E S : trades \in Seq(S)
  /\ \A k \in 1 .. Top(trades) : trades[k].size \in Nat
  /\ Bought <= consumed
  /\ Bought <= Smaller(Depth(yes), Depth(no))
  /\ \A k \in 1 .. Top(trades) : Fair(Before(k), trades[k])

(* The recorded books stay.                                                *)
LEMMA BooksStay ==
  ASSUME yes' = yes, no' = no
  PROVE  /\ Smaller(Depth(yes), Depth(no))' = Smaller(Depth(yes), Depth(no))
         /\ \A b, t : Fair(b, t)' = Fair(b, t)
         /\ (yes \in Books)' = (yes \in Books) /\ (no \in Books)' = (no \in Books)
BY DEF Fair, PairsCost, Cost, Price, Depth, Cumulated, Smaller, Locked, Books, Sorted

(* What is still to fill after one opportunity.                            *)
LEMMA PendingTail ==
  ASSUME pending \in Seq(Nat \ {0}), pending # <<>>
  PROVE  Head(pending) \in Nat \ {0} /\ Tail(pending) \in Seq(Nat \ {0})
BY HeadTailProperties

(* Without a trade, the trades stay fair.                                  *)
LEMMA NoTrade ==
  ASSUME FillInv, pending' \in Seq(Nat \ {0}),
         kind' = kind, yes' = yes, no' = no, consumed' = consumed, trades' = trades
  PROVE  FillInv'
<1>1. Bought' = Bought /\ Top(trades)' = Top(trades) /\ \A k : Before(k)' = Before(k)
  BY DEF Bought, Before, Depth, Cumulated, Top
<1>2. (Bought <= Smaller(Depth(yes), Depth(no)))' /\ (Bought <= consumed)'
  BY <1>1, BooksStay DEF FillInv
<1>3. ASSUME NEW k \in 1 .. Top(trades)' PROVE Fair(Before(k), trades[k])'
  <2>1. Fair(Before(k), trades[k])
    BY <1>1, <1>3 DEF FillInv
  <2>2. \A b, t : Fair(b, t)' = Fair(b, t)
    BY BooksStay
  <2> QED
    BY <1>1, <2>1, <2>2 DEF Fair, PairsCost
<1>4. (kind \in Kind /\ yes \in Books /\ no \in Books /\ consumed \in Nat)'
  BY BooksStay DEF FillInv
<1>5. (\E S : trades \in Seq(S))' /\ (\A k \in 1 .. Top(trades) : trades[k].size \in Nat)'
  BY <1>1 DEF FillInv
<1> QED
  BY <1>1, <1>2, <1>3, <1>4, <1>5 DEF FillInv

(* Every fill and every drop keeps what the fills rely on.                 *)
LEMMA FillStep ==
  ASSUME FillInv, [BacktestNext]_backtestVars
  PROVE  FillInv'
<1>1. /\ kind \in Kind /\ yes \in Books /\ no \in Books
      /\ pending \in Seq(Nat \ {0}) /\ consumed \in Nat
      /\ Bought <= consumed
      /\ Bought <= Smaller(Depth(yes), Depth(no))
      /\ \A k \in 1 .. Top(trades) : trades[k].size \in Nat
      /\ \A k \in 1 .. Top(trades) : Fair(Before(k), trades[k])
  BY DEF FillInv
<1>2. PICK S : trades \in Seq(S)
  BY DEF FillInv
<1>3. CASE Fill
  <2> DEFINE n == Head(pending)
             t == Trade(n)
             N == Top(trades)
  <2>1. /\ pending # <<>> /\ Survives(t)
        /\ trades' = Append(trades, t) /\ consumed' = consumed + n /\ pending' = Tail(pending)
        /\ kind' = kind /\ yes' = yes /\ no' = no
    BY <1>3 DEF Fill
  <2>2. n \in Nat \ {0} /\ pending' \in Seq(Nat \ {0})
    BY <1>1, <2>1, PendingTail
  <2>3. N \in Nat /\ Bought \in Nat /\ Bought = Cumulated(trades)[N]
    <3>1. N \in Nat
      BY <1>2 DEF Top
    <3>2. Cumulated(trades) \in [0 .. N -> Nat] /\ N \in 0 .. N
      BY <1>1, <3>1, CumulatedSteps
    <3>3. Bought = Cumulated(trades)[N]
      BY DEF Bought, Depth, Top
    <3> QED
      BY <3>1, <3>2, <3>3
  <2>4. Fair(Bought, t) /\ t.size \in Nat \ {0} /\ t.size <= n
    <3>1. t.size > 0
      BY <2>1 DEF Survives
    <3>2. n \in Nat
      BY <2>2
    <3> HIDE DEF n
    <3> QED
      BY <1>1, <2>3, <3>1, <3>2, TradesAreFair
  <2> HIDE DEF n, t
  <2>5. /\ trades' \in Seq(S \cup {t}) /\ Top(trades') = N + 1
        /\ \A i \in 1 .. N : trades'[i] = trades[i]
        /\ trades'[N + 1] = t
    <3>1. trades \in Seq(S \cup {t}) /\ t \in S \cup {t}
      BY <1>2
    <3>2. /\ trades' \in Seq(S \cup {t}) /\ Len(trades') = Len(trades) + 1
          /\ \A i \in 1 .. Len(trades) : trades'[i] = trades[i]
          /\ trades'[Len(trades) + 1] = t
      BY <2>1, <3>1, AppendProperties
    <3> QED
      BY <3>2 DEF Top
  <2>6. \A i \in 1 .. N + 1 : trades'[i].size \in Nat
    <3>1. \A i \in 1 .. N + 1 : i \in 1 .. N \/ i = N + 1
      BY <2>3
    <3> QED
      BY <1>1, <2>4, <2>5, <3>1
  <2>7. /\ \A i \in 0 .. N : Cumulated(trades')[i] = Cumulated(trades)[i]
        /\ Cumulated(trades')[N + 1] = Bought + t.size
    <3> DEFINE long == trades'
    <3>1. /\ N \in Nat /\ Top(long) = N + 1
          /\ \A i \in 1 .. Top(long) : long[i].size \in Nat
          /\ \A i \in 1 .. N : long[i] = trades[i]
      BY <2>3, <2>5, <2>6
    <3> HIDE DEF long
    <3>2. /\ \A i \in 0 .. N : Cumulated(long)[i] = Cumulated(trades)[i]
          /\ Cumulated(long)[Top(long)] = Cumulated(trades)[N] + long[Top(long)].size
      BY <3>1, CumulatedLonger
    <3> QED
      BY <2>3, <2>5, <3>1, <3>2 DEF long
  <2>8. Bought' = Bought + t.size
    <3>1. Bought' = Cumulated(trades')[Top(trades')]
      BY DEF Bought, Depth, Top
    <3> QED
      BY <2>5, <2>7, <3>1
  <2>9. Bought' <= consumed' /\ consumed' \in Nat
    BY <1>1, <2>1, <2>2, <2>3, <2>4, <2>8
  <2>10. (Bought <= Smaller(Depth(yes), Depth(no)))'
    <3>1. Bought + t.size <= Smaller(Depth(yes), Depth(no))
      BY <2>4 DEF Fair
    <3>2. Smaller(Depth(yes), Depth(no))' = Smaller(Depth(yes), Depth(no))
      BY <2>1, BooksStay
    <3> QED
      BY <2>8, <3>1, <3>2
  <2>11. ASSUME NEW k \in 1 .. N + 1 PROVE Fair(Before(k), trades[k])'
    <3>1. k - 1 \in 0 .. N
      BY <2>3
    <3>2. Before(k)' = Before(k)
      BY <2>7, <3>1 DEF Before
    <3>3. CASE k \in 1 .. N
      <4>1. Fair(Before(k), trades[k]) /\ trades'[k] = trades[k]
        BY <1>1, <2>5, <3>3
      <4>2. \A b, u : Fair(b, u)' = Fair(b, u)
        BY <2>1, BooksStay
      <4> QED
        BY <3>2, <4>1, <4>2 DEF Fair, PairsCost
    <3>4. CASE k = N + 1
      <4>1. k - 1 = N /\ Before(k) = Bought
        BY <2>3, <3>4 DEF Before
      <4> QED
        BY <2>1, <2>4, <2>5, <3>2, <3>4, <4>1 DEF Fair, PairsCost
    <3> QED
      BY <2>3, <3>3, <3>4
  <2>12. (\A k \in 1 .. Top(trades) : Fair(Before(k), trades[k]))'
    BY <2>5, <2>11
  <2>13. (yes \in Books /\ no \in Books)' /\ kind' \in Kind
    BY <1>1, <2>1, BooksStay
  <2>14. (\A k \in 1 .. Top(trades) : trades[k].size \in Nat)'
    BY <2>5, <2>6
  <2> QED
    BY <2>2, <2>5, <2>9, <2>10, <2>12, <2>13, <2>14 DEF FillInv
<1>4. CASE Drop
  <2>1. /\ pending # <<>> /\ pending' = Tail(pending)
        /\ kind' = kind /\ yes' = yes /\ no' = no /\ consumed' = consumed /\ trades' = trades
    BY <1>4 DEF Drop
  <2>2. pending' \in Seq(Nat \ {0})
    BY <1>1, <2>1, PendingTail
  <2> QED
    BY <2>1, <2>2, NoTrade
<1>5. CASE UNCHANGED backtestVars
  <2>1. /\ kind' = kind /\ yes' = yes /\ no' = no /\ consumed' = consumed /\ trades' = trades
        /\ pending' = pending
    BY <1>5 DEF backtestVars
  <2> QED
    BY <1>1, <2>1, NoTrade
<1> QED
  BY <1>3, <1>4, <1>5 DEF BacktestNext

(* Nothing is bought at the start.                                         *)
LEMMA FillStart ==
  ASSUME BacktestInit
  PROVE  FillInv
<1>1. kind \in Kind /\ yes \in Books /\ no \in Books /\ consumed = 0 /\ trades = <<>>
  BY DEF BacktestInit
<1>2. pending \in Seq(Nat \ {0})
  <2>1. PICK k \in 1 .. MaxTrades : pending \in [1 .. k -> 1 .. Smaller(Depth(yes), Depth(no))]
    BY DEF BacktestInit
  <2>2. k \in Nat /\ 1 .. Smaller(Depth(yes), Depth(no)) \subseteq Nat \ {0}
    <3>1. Depth(yes) \in Nat /\ Depth(no) \in Nat
      BY <1>1, BooksRise, DepthIs
    <3> QED
      BY <3>1, TradesAssumption DEF Smaller
  <2>3. pending \in [1 .. k -> Nat \ {0}]
    BY <2>1, <2>2
  <2> QED
    BY <2>2, <2>3
<1>3. Top(trades) = 0 /\ trades \in Seq({})
  BY <1>1 DEF Top
<1>4. Bought = 0
  <2>1. Cumulated(trades)[0] = 0
    BY <1>3, CumulatedSteps
  <2> QED
    BY <1>3, <2>1 DEF Bought, Depth, Top
<1>5. Bought <= Smaller(Depth(yes), Depth(no))
  <2>1. Depth(yes) \in Nat /\ Depth(no) \in Nat
    BY <1>1, BooksRise, DepthIs
  <2> QED
    BY <1>4, <2>1 DEF Smaller
<1> QED
  BY <1>1, <1>2, <1>3, <1>4, <1>5 DEF FillInv

(* So it always holds.                                                     *)
LEMMA FillInvariant == BacktestSpec => []FillInv
<1>1. FillInv /\ [BacktestNext]_backtestVars => FillInv'
  BY FillStep
<1> QED
  BY <1>1, FillStart, PTL DEF BacktestSpec

(* BacktestTypeOK: each leg of a trade buys contracts that its book has,   *)
(* and the trade no more than either leg.                                  *)
THEOREM FillsAreTyped == BacktestSpec => []BacktestTypeOK
<1>1. FillInv => BacktestTypeOK
  <2> SUFFICES ASSUME FillInv PROVE BacktestTypeOK
    OBVIOUS
  <2>1. PICK S : trades \in Seq(S)
    BY DEF FillInv
  <2>2. DOMAIN trades = 1 .. Top(trades)
    BY <2>1 DEF Top
  <2> QED
    BY <2>2 DEF FillInv, Fair, BacktestTypeOK
<1> QED
  BY <1>1, FillInvariant, PTL

(* NeverFlatters: whatever the books, the fill model, its slippage and     *)
(* the opportunities of a tick, a backtest is charged no less than its     *)
(* contracts cost in the recorded books, and buys none twice.              *)
THEOREM FillsNeverFlatter == BacktestSpec => []NeverFlatters
<1>1. FillInv => NeverFlatters
  <2> SUFFICES ASSUME FillInv PROVE NeverFlatters
    OBVIOUS
  <2>1. PICK S : trades \in Seq(S)
    BY DEF FillInv
  <2>2. DOMAIN trades = 1 .. Top(trades)
    BY <2>1 DEF Top
  <2>3. ASSUME NEW k \in 1 .. Top(trades)
        PROVE  Locked(trades[k])
                 >= (Really(k) * (Scale + Fee) + Gas * Scale)
                      * Scale * trades[k].yes.filled * trades[k].no.filled
    BY DEF FillInv, Fair, PairsCost, Really
  <2>4. Bought <= Smaller(Depth(yes), Depth(no))
    BY DEF FillInv
  <2> QED
    BY <2>2, <2>3, <2>4 DEF NeverFlatters
<1> QED
  BY <1>1, FillInvariant, PTL
=============================================================================
