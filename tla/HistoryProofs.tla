---------------------------- MODULE HistoryProofs ----------------------------
(***************************************************************************)
(* A wallet's history, for any number of wallets, chart requests and       *)
(* collector ticks, any hour, failures and restarts.  What the check and   *)
(* the insert of savePortfolioSnapshotHourly achieve without a lock: rows  *)
(* and savers of a wallet's hour are counted together; a saver that finds  *)
(* the hour empty joins savers only, and an insert turns one saver into at *)
(* most one row.  That hours are missed only for failures: for each hour   *)
(* there is a row, a save to come, or a tick in time.  And that a wallet   *)
(* that did nothing is told of no change.                                  *)
(***************************************************************************)
EXTENDS PortfolioSnapshots, Chart, ListLemmas

-----------------------------------------------------------------------------
(* Chart: every chart is whole, and its past is honest.                    *)

\* Division by a step.
LEMMA StepDivision ==
  ASSUME NEW t \in Int, NEW d \in Nat \ {0}
  PROVE  /\ t \div d \in Int /\ t % d \in 0..(d - 1)
         /\ t = d * (t \div d) + (t % d)
         /\ Floor(t, d) = d * (t \div d)
BY DEF Floor

\* More steps are longer by a step at least.
LEMMA MoreSteps ==
  ASSUME NEW i \in Int, NEW j \in Int, NEW d \in Nat, i < j
  PROVE  d * i \in Int /\ d * j \in Int /\ d * i + d <= d * j
<1>1. PICK k \in Nat : j = i + 1 + k
  <2>1. j - i - 1 \in Nat /\ j = i + 1 + (j - i - 1)
    OBVIOUS
  <2>. QED  BY <2>1
<1>2. d * j = d * i + d + d * k /\ d * k \in Nat /\ d * i \in Int
  BY <1>1
<1>. QED  BY <1>2

\* The bucket of a time is the one it lies in.
LEMMA FloorIs ==
  ASSUME NEW t \in Int, NEW d \in Nat \ {0}, NEW q \in Int
  PROVE  d * q \in Int /\ (Floor(t, d) = d * q <=> d * q <= t /\ t < d * q + d)
<1> DEFINE p == t \div d
           r == t % d
<1>1. p \in Int /\ r \in 0..(d - 1) /\ t = d * p + r /\ Floor(t, d) = d * p
  BY StepDivision
<1>2. d * q \in Int /\ d * p \in Int
  BY <1>1
<1> HIDE DEF p, r
<1>3. CASE p = q
  BY <1>1, <1>2, <1>3
<1>4. CASE p < q
  <2>1. d * p + d <= d * q
    BY <1>1, <1>4, MoreSteps
  <2>. QED  BY <1>1, <1>2, <2>1
<1>5. CASE q < p
  <2>1. d * q + d <= d * p
    BY <1>1, <1>5, MoreSteps
  <2>. QED  BY <1>1, <1>2, <2>1
<1>. QED  BY <1>1, <1>3, <1>4, <1>5

\* Buckets follow each other without a gap, and end in the one of now.
Spaced(at, d, end) ==
  /\ at \in Seq(Int)
  /\ \A i \in 1..Len(at), t \in Int : Floor(t, d) = at[i] <=> at[i] <= t /\ t < at[i] + d
  /\ \A i \in 1..Len(at), j \in 1..Len(at) : i < j => at[i] + d <= at[j]
  /\ \A i \in 1..(Len(at) - 1) : at[i + 1] = at[i] + d
  /\ Len(at) > 0 => at[Len(at)] <= end /\ end < at[Len(at)] + d

\* The buckets of a range, whose first begins half a bucket after it at the latest.
LEMMA BucketsSpaced ==
  ASSUME clock \in Nat, NEW r \in Ranges
  PROVE  /\ Spaced(Buckets(r), r.step, clock)
         /\ Len(Buckets(r)) > 0
         /\ 2 * Buckets(r)[1] <= 2 * (clock - r.span) + r.step
<1> PICK d \in Nat \ {0} : d = r.step
  BY RangeAssumption
<1> PICK present \in Nat : present = clock
  OBVIOUS
<1>0. r.span \in Nat /\ 2 * r.span >= d + 2 * Hour /\ Hour \in Nat \ {0}
  BY RangeAssumption, RatioAssumption
<1> DEFINE start == present - r.span
           low == Floor(start, d)
           first == IF 2 * low < 2 * start - d THEN low + d ELSE low
           n == ((present - first) \div d) + 1
<1>1. PICK p \in Int : low = d * p /\ d * p <= start /\ start < d * p + d
  <2> DEFINE p == start \div d
  <2>1. start \in Int
    BY <1>0
  <2>2. p \in Int /\ low = d * p /\ start % d \in 0..(d - 1) /\ start = d * p + (start % d)
    BY <2>1, StepDivision
  <2> HIDE DEF p, low, start
  <2>3. low = d * p /\ d * p <= start /\ start < d * p + d
    BY <2>1, <2>2
  <2>4. QED
    BY <2>2, <2>3, Zenon
<1>2. PICK q \in Int : first = d * q /\ 2 * (d * q) <= 2 * start + d /\ d * q \in Int
  <2>1. start \in Int /\ d * p \in Int
    BY <1>0
  <2> HIDE DEF low, start
  <2>2. CASE 2 * low < 2 * start - d
    <3>1. d * (p + 1) = d * p + d /\ p + 1 \in Int
      OBVIOUS
    <3>2. first = d * (p + 1)
      BY <1>1, <2>1, <2>2, <3>1
    <3>3. QED
      BY <1>1, <2>1, <2>2, <3>1, <3>2
  <2>3. CASE ~ (2 * low < 2 * start - d)
    BY <1>1, <2>1, <2>3
  <2>4. QED
    BY <2>2, <2>3
<1>3. first <= present
  BY <1>0, <1>2
<1>4. /\ n \in Nat \ {0}
      /\ d * (n - 1) <= present - first /\ present - first < d * (n - 1) + d
  <2> DEFINE m == present - first
             k == m \div d
  <2>1. m \in Nat
    <3> HIDE DEF first
    <3>1. first \in Int
      BY <1>2
    <3>2. QED
      BY <1>3, <3>1
  <2> HIDE DEF m
  <2>2. k \in Int /\ m % d \in 0..(d - 1) /\ m = d * k + (m % d)
    <3>1. m \in Int
      BY <2>1
    <3>2. /\ m \div d \in Int /\ m % d \in 0..(d - 1)
          /\ m = d * (m \div d) + (m % d)
      BY <3>1, StepDivision
    <3>3. QED
      BY <3>2
  <2>3. n = k + 1
    BY DEF m
  <2> HIDE DEF k, n
  <2>4. d * k \in Int /\ d * k <= m /\ m < d * k + d
    BY <2>2
  <2>5. ~ (k < 0)
    <3>1. ASSUME k < 0 PROVE d * k + d <= d * 0
      <4>1. k \in Int /\ 0 \in Int /\ d \in Nat
        BY <2>2
      <4>2. QED
        BY <3>1, <4>1, MoreSteps, Zenon
    <3>2. d * 0 = 0
      OBVIOUS
    <3>3. QED
      BY <2>1, <2>4, <3>1, <3>2
  <2>6. n \in Nat \ {0} /\ n - 1 = k
    BY <2>2, <2>3, <2>5
  <2>7. d * (n - 1) <= m /\ m < d * (n - 1) + d
    BY <2>4, <2>6
  <2>8. QED
    BY <2>6, <2>7 DEF m
<1> DEFINE at == Buckets(r)
<1>5. at = [i \in 1..n |-> first + (i - 1) * d]
  BY DEF Buckets
<1> HIDE DEF first, n, start
<1>6. at = [i \in 1..n |-> d * (q + (i - 1))] /\ at \in [1..n -> Int]
  <2>1. \A i \in 1..n : first + (i - 1) * d = d * (q + (i - 1)) /\ d * (q + (i - 1)) \in Int
    <3> TAKE i \in 1..n
    <3>1. i - 1 \in Int
      BY <1>4
    <3>2. d * (q + (i - 1)) = d * q + (i - 1) * d /\ d * (q + (i - 1)) \in Int
      BY <3>1
    <3>3. QED
      BY <1>2, <3>2
  <2> HIDE DEF at
  <2>2. QED
    BY <1>5, <2>1
<1> HIDE DEF at
<1>7. at \in Seq(Int) /\ Len(at) = n
  BY <1>4, <1>6
<1>8. \A i \in 1..n, t \in Int : Floor(t, d) = at[i] <=> at[i] <= t /\ t < at[i] + d
  <2> TAKE i \in 1..n, t \in Int
  <2>1. q + (i - 1) \in Int /\ at[i] = d * (q + (i - 1))
    BY <1>4, <1>6
  <2>2. QED
    BY <2>1, FloorIs
<1>9. \A i \in 1..n, j \in 1..n : i < j => at[i] + d <= at[j]
  <2> SUFFICES ASSUME NEW i \in 1..n, NEW j \in 1..n, i < j PROVE at[i] + d <= at[j]
    OBVIOUS
  <2>1. /\ q + (i - 1) \in Int /\ at[i] = d * (q + (i - 1))
        /\ q + (j - 1) \in Int /\ at[j] = d * (q + (j - 1))
        /\ q + (i - 1) < q + (j - 1)
    BY <1>4, <1>6
  <2>2. QED
    BY <2>1, MoreSteps
<1>10. \A i \in 1..(n - 1) : at[i + 1] = at[i] + d
  <2> TAKE i \in 1..(n - 1)
  <2>1. /\ i \in 1..n /\ i + 1 \in 1..n /\ q + (i - 1) \in Int
        /\ q + ((i + 1) - 1) = (q + (i - 1)) + 1
    BY <1>4
  <2>2. at[i] = d * (q + (i - 1)) /\ at[i + 1] = d * ((q + (i - 1)) + 1)
    BY <1>6, <2>1
  <2>3. QED
    BY <2>1, <2>2
<1>11. at[n] <= present /\ present < at[n] + d
  <2>1. at[n] = first + d * (n - 1) /\ d * (n - 1) \in Int
    <3>1. n \in 1..n /\ n - 1 \in Int
      BY <1>4
    <3>2. at[n] = first + (n - 1) * d
      BY <1>5, <3>1 DEF at
    <3>3. QED
      BY <3>1, <3>2
  <2>2. QED
    BY <1>2, <1>4, <2>1
<1>12. 2 * at[1] <= 2 * start + d
  <2>1. at[1] = d * q
    BY <1>4, <1>6
  <2>2. QED
    BY <1>2, <2>1
<1>13. Spaced(at, d, present)
  BY <1>7, <1>8, <1>9, <1>10, <1>11 DEF Spaced
<1>14. QED
  BY <1>4, <1>7, <1>12, <1>13 DEF at, start

\* The average of a bucket's prices is between the lowest and the highest.
LEMMA AverageBetween ==
  ASSUME NEW table, IsFiniteSet(table), table # {}, NEW lo \in Nat, NEW hi \in Nat,
         \A row \in table : row.px \in lo..hi
  PROVE  Average(table) \in lo..hi
<1> DEFINE f == [row \in table |-> row.px]
           n == Cardinality(table)
           sum == SumFunction(f)
<1>1. f \in [table -> Int] /\ \A x \in table : lo <= f[x] /\ f[x] <= hi
  OBVIOUS
<1>2. Average(table) = sum \div n
  BY DEF Average
<1> HIDE DEF f
<1>3. sum \in Int /\ lo * n <= sum /\ sum <= hi * n
  <2>1. PICK g, pick : Picks(pick, table) /\ Sums(g, table, f, pick) /\ SumFunction(f) = g[table]
    BY <1>1, SumFunctionSums
  <2>2. QED
    BY <1>1, <2>1, SumBounds
<1>4. n \in Nat \ {0}
  BY FS_CardinalityType, FS_EmptySet
<1> HIDE DEF n
<1> DEFINE q == sum \div n
<1>5. q \in Int /\ sum % n \in 0..(n - 1) /\ sum = n * q + (sum % n)
  <2>1. sum \in Int
    BY <1>3
  <2> HIDE DEF sum
  <2>2. QED
    BY <1>4, <2>1, StepDivision
<1>6. n * lo <= sum /\ sum <= n * hi /\ sum \in Int /\ n * lo \in Int /\ n * hi \in Int
  <2>1. n * lo = lo * n /\ n * hi = hi * n /\ n * lo \in Int /\ n * hi \in Int
    BY <1>4
  <2>2. QED
    BY <1>3, <2>1
<1>7. Average(table) = q
  BY <1>2
<1> HIDE DEF sum, q
<1>8. n * q \in Int /\ n * q <= sum /\ sum < n * q + n
  BY <1>4, <1>5
<1>9. ~ (q < lo)
  <2>1. q < lo => n * q + n <= n * lo
    BY <1>4, <1>5, MoreSteps
  <2>2. QED
    BY <1>4, <1>6, <1>8, <2>1
<1>10. ~ (hi < q)
  <2>1. hi < q => n * hi + n <= n * q
    BY <1>4, <1>5, MoreSteps
  <2>2. QED
    BY <1>4, <1>6, <1>8, <2>1
<1>11. QED
  BY <1>5, <1>7, <1>9, <1>10

\* A set of ticks, of whatever source.
Ticks(table) == IsFiniteSet(table) /\ \A row \in table : row.ts \in Int /\ row.px \in Nat \ {0}

\* What a bucket notes lies between prices that were noted in it.
LEMMA NotedBetween ==
  ASSUME NEW table, Ticks(table), NEW t \in Int, NEW d \in Nat \ {0},
         NEW here, here = {row \in table : Floor(row.ts, d) = t}
  PROVE  /\ here = {} => Noted(table, t, d) = None
         /\ here # {} =>
              /\ Noted(table, t, d) \in Nat \ {0}
              /\ \E a \in here, b \in here :
                   a.px <= Noted(table, t, d) /\ Noted(table, t, d) <= b.px
<1>1. here = {} => Noted(table, t, d) = None
  BY DEF Noted
<1>2. ASSUME here # {}
      PROVE  /\ Noted(table, t, d) \in Nat \ {0}
             /\ \E a \in here, b \in here :
                  a.px <= Noted(table, t, d) /\ Noted(table, t, d) <= b.px
  <2> DEFINE f == [row \in here |-> row.px]
  <2>1. IsFiniteSet(here)
    BY FS_Subset DEF Ticks
  <2>2. \A row \in here : row.px \in Nat \ {0}
    BY DEF Ticks
  <2>3. f \in [here -> Int]
    BY <2>2
  <2> HIDE DEF f
  <2>4. PICK b \in here : \A x \in here : f[x] <= f[b]
    BY <1>2, <2>1, <2>3, Extremes
  <2>5. PICK a \in here : \A x \in here : f[a] <= f[x]
    BY <1>2, <2>1, <2>3, Extremes
  <2>6. \A x \in here : x.px \in a.px..b.px
    BY <2>2, <2>4, <2>5 DEF f
  <2>7. Average(here) \in a.px..b.px
    BY <1>2, <2>1, <2>2, <2>6, AverageBetween
  <2>8. Noted(table, t, d) = Average(here)
    BY <1>2 DEF Noted
  <2> DEFINE m == Average(here)
  <2>9. m \in Nat \ {0} /\ a.px <= m /\ m <= b.px
    BY <2>2, <2>7
  <2> HIDE DEF m
  <2>10. Noted(table, t, d) = m
    BY <2>8 DEF m
  <2>11. QED
    BY <2>9, <2>10
<1>3. QED
  BY <1>1, <1>2

\* Every bucket has what it noted, or what the one before it has.
Carries(px, n, noted, spot) ==
  /\ px \in [1..n -> Nat]
  /\ \A i \in 1..n :
       px[i] = IF noted[i] # None THEN Sanitize(spot, noted[i])
               ELSE IF i = 1 THEN spot ELSE px[i - 1]

LEMMA SanitizeNat ==
  ASSUME NEW spot \in Nat, NEW p \in Nat
  PROVE  /\ Sanitize(spot, p) \in Nat
         /\ p # 0 => Sanitize(spot, p) # 0
         /\ spot # 0 => Sanitize(spot, p) <= spot * Ratio
BY RatioAssumption DEF Sanitize, None

\* PricesAt carries prices from bucket to bucket.
NotedIn(noted, at, table, d) == noted = [i \in 1..Len(at) |-> Noted(table, at[i], d)]

LEMMA PricesCarry ==
  ASSUME NEW at \in Seq(Int), NEW d \in Nat \ {0}, NEW table, Ticks(table), NEW spot \in Nat,
         NEW noted, NotedIn(noted, at, table, d)
  PROVE  /\ noted \in [1..Len(at) -> Nat]
         /\ Carries(PricesAt(at, d, table, spot), Len(at), noted, spot)
<1> PICK n \in Nat : n = Len(at)
  OBVIOUS
<1>0. noted = [i \in 1..n |-> Noted(table, at[i], d)]
  BY DEF NotedIn
<1>1. noted \in [1..n -> Nat]
  <2>1. \A i \in 1..n : at[i] \in Int /\ Noted(table, at[i], d) \in Nat
    <3> TAKE i \in 1..n
    <3>1. at[i] \in Int
      OBVIOUS
    <3>2. Noted(table, at[i], d) \in Nat
      <4>1. PICK here : here = {row \in table : Floor(row.ts, d) = at[i]}
        OBVIOUS
      <4>2. QED
        BY <3>1, <4>1, NotedBetween DEF None
    <3>3. QED
      BY <3>1, <3>2
  <2>2. QED
    BY <1>0, <2>1
<1> DEFINE Step(i, p) == IF noted[i] = None THEN p ELSE Sanitize(spot, noted[i])
           step == [i \in 1..n |-> [p \in Nat |-> Step(i, p)]]
           F(g) == [i \in 0..n |-> IF i = 0 THEN spot ELSE Step(i, g[i - 1])]
           Def(g) == g = F(g)
           f == CHOOSE g : Def(g)
<1>2. step \in [1..n -> [Nat -> Nat]]
  BY <1>1, SanitizeNat
<1>3. \A i \in 1..n, p \in Nat : step[i][p] = Step(i, p)
  OBVIOUS
<1> HIDE DEF Step, step
<1>4. PICK g : Recursive(g, n, Nat, spot, step)
  BY <1>2, Recursion
<1>5. Def(g)
  <2>1. \A i \in 1..n : g[i] = Step(i, g[i - 1])
    <3> TAKE i \in 1..n
    <3>1. i - 1 \in 0..n /\ g \in [0..n -> Nat]
      BY <1>4 DEF Recursive
    <3>2. g[i - 1] \in Nat
      BY <3>1
    <3>3. g[i] = step[i][g[i - 1]]
      BY <1>4 DEF Recursive
    <3>4. QED
      BY <1>3, <3>2, <3>3
  <2>2. g = [i \in 0..n |-> g[i]]
    BY <1>4 DEF Recursive
  <2>3. g[0] = spot
    BY <1>4 DEF Recursive
  <2>4. \A i \in 0..n : g[i] = F(g)[i]
    BY <2>1, <2>3
  <2>5. QED
    BY <2>2, <2>4
<1>6. Def(f)
  <2> HIDE DEF Def
  <2>1. QED
    BY <1>5
<1>7. PricesAt(at, d, table, spot) = [i \in 1..n |-> f[i]]
  <2> DEFINE G(h) == [i \in 0..n |-> IF i = 0 THEN spot
                       ELSE LET present == Noted(table, at[i], d)
                            IN IF present = None THEN h[i - 1] ELSE Sanitize(spot, present)]
  <2>1. PricesAt(at, d, table, spot) = [i \in 1..n |-> (CHOOSE h : h = G(h))[i]]
    BY DEF PricesAt
  <2>2. ASSUME NEW h PROVE G(h) = F(h)
    BY <1>0 DEF Step
  <2>3. (CHOOSE h : h = G(h)) = f
    <3> HIDE DEF G, F
    <3>1. QED
      BY <2>2, Zenon
  <2>4. QED
    BY <2>1, <2>3
<1> HIDE DEF f
<1>8. f[0] = spot /\ f \in [0..n -> Nat] /\ \A i \in 1..n : f[i] = Step(i, f[i - 1])
  <2> DEFINE P == {i \in Nat : i \in 0..n => f[i] \in Nat}
  <2>1. f[0] = spot
    BY <1>6
  <2>2. \A i \in 1..n : f[i] = Step(i, f[i - 1])
    <3> TAKE i \in 1..n
    <3>1. i \in 0..n /\ i # 0
      OBVIOUS
    <3>2. f[i] = F(f)[i]
      BY <1>6
    <3>3. QED
      BY <3>1, <3>2
  <2>3. ASSUME NEW i \in Nat, i \in P PROVE i + 1 \in P
    <3> SUFFICES ASSUME i + 1 \in 1..n PROVE f[i + 1] \in Nat
      OBVIOUS
    <3>1. f[i] \in Nat
      BY <2>3
    <3>2. f[i + 1] = step[i + 1][f[i]]
      BY <1>3, <2>2, <3>1
    <3>3. QED
      BY <1>2, <3>1, <3>2
  <2>4. \A i \in 0..n : f[i] \in Nat
    <3>1. 0 \in P
      BY <2>1
    <3> HIDE DEF P
    <3>2. Nat \subseteq P
      BY <2>3, <3>1, NatInd
    <3>3. QED
      BY <3>2 DEF P
  <2>5. f = [i \in 0..n |-> f[i]]
    BY <1>6
  <2>6. QED
    BY <2>1, <2>2, <2>4, <2>5
<1>9. Carries([i \in 1..n |-> f[i]], n, noted, spot)
  <2> DEFINE px == [i \in 1..n |-> f[i]]
  <2>1. px \in [1..n -> Nat]
    BY <1>8
  <2>2. ASSUME NEW i \in 1..n
        PROVE  px[i] = IF noted[i] # None THEN Sanitize(spot, noted[i])
                       ELSE IF i = 1 THEN spot ELSE px[i - 1]
    <3>1. CASE i = 1
      BY <1>8, <3>1 DEF Step
    <3>2. CASE i # 1
      <4>1. i - 1 \in 1..n
        BY <3>2
      <4>2. QED
        BY <1>8, <3>2, <4>1 DEF Step
    <3>3. QED
      BY <3>1, <3>2
  <2>3. QED
    BY <2>1, <2>2 DEF Carries
<1>10. QED
  BY <1>1, <1>7, <1>9

\* A price comes from the last bucket that noted one, or is today's.
Origin(px, i, noted, spot) ==
  \/ px[i] = spot /\ \A j \in 1..i : noted[j] = None
  \/ \E j \in 1..i : /\ noted[j] # None /\ px[i] = Sanitize(spot, noted[j])
                      /\ \A k \in (j + 1)..i : noted[k] = None

\* What carried prices are, and that a bucket has one if an earlier bucket has.
LEMMA PricesKnown ==
  ASSUME NEW n \in Nat, NEW noted \in [1..n -> Nat], NEW spot \in Nat,
         NEW px, Carries(px, n, noted, spot)
  PROVE  /\ \A i \in 1..n : Origin(px, i, noted, spot)
         /\ spot # None => \A i \in 1..n : px[i] # None /\ px[i] <= spot * Ratio
         /\ \A i \in 1..n, j \in 1..n : i <= j /\ px[i] # None => px[j] # None
<1>1. \A i \in 1..n :
        px[i] = IF noted[i] # None THEN Sanitize(spot, noted[i])
                ELSE IF i = 1 THEN spot ELSE px[i - 1]
  BY DEF Carries
<1>2. ASSUME NEW i \in 1..n, i = 1 \/ (i - 1 \in 1..n /\ Origin(px, i - 1, noted, spot))
      PROVE  Origin(px, i, noted, spot)
  <2>1. CASE noted[i] # None
    <3>1. px[i] = Sanitize(spot, noted[i]) /\ i \in 1..i /\ \A k \in (i + 1)..i : FALSE
      BY <1>1, <2>1
    <3>2. QED
      BY <2>1, <3>1 DEF Origin
  <2>2. CASE noted[i] = None /\ i = 1
    <3>1. px[i] = spot /\ \A j \in 1..i : j = i
      BY <1>1, <2>2
    <3>2. QED
      BY <2>2, <3>1 DEF Origin
  <2>3. CASE noted[i] = None /\ i # 1
    <3>1. px[i] = px[i - 1] /\ i - 1 \in 1..n
      BY <1>1, <2>3
    <3>2. \A j \in 1..i : j \in 1..(i - 1) \/ j = i
      OBVIOUS
    <3>3. CASE px[i - 1] = spot /\ \A j \in 1..(i - 1) : noted[j] = None
      BY <2>3, <3>1, <3>2, <3>3 DEF Origin
    <3>4. CASE \E j \in 1..(i - 1) : /\ noted[j] # None /\ px[i - 1] = Sanitize(spot, noted[j])
                                     /\ \A k \in (j + 1)..(i - 1) : noted[k] = None
      <4>1. PICK j \in 1..(i - 1) : /\ noted[j] # None /\ px[i - 1] = Sanitize(spot, noted[j])
                                    /\ \A k \in (j + 1)..(i - 1) : noted[k] = None
        BY <3>4
      <4>2. j \in 1..i /\ \A k \in (j + 1)..i : k \in (j + 1)..(i - 1) \/ k = i
        OBVIOUS
      <4>3. \A k \in (j + 1)..i : noted[k] = None
        BY <2>3, <4>1, <4>2
      <4>4. QED
        BY <3>1, <4>1, <4>2, <4>3 DEF Origin
    <3>5. QED
      BY <1>2, <2>3, <3>3, <3>4 DEF Origin
  <2>4. QED
    BY <2>1, <2>2, <2>3
<1>3. \A i \in 1..n : Origin(px, i, noted, spot)
  <2> DEFINE P == {i \in Nat : i \in 1..n => Origin(px, i, noted, spot)}
  <2>1. 0 \in P
    OBVIOUS
  <2>2. ASSUME NEW i \in Nat, i \in P PROVE i + 1 \in P
    <3> SUFFICES ASSUME i + 1 \in 1..n PROVE Origin(px, i + 1, noted, spot)
      OBVIOUS
    <3>1. i + 1 = 1 \/ ((i + 1) - 1 \in 1..n /\ Origin(px, (i + 1) - 1, noted, spot))
      BY <2>2
    <3>2. QED
      BY <1>2, <3>1
  <2>3. Nat \subseteq P
    <3> HIDE DEF P
    <3>1. QED
      BY <2>1, <2>2, NatInd
  <2>4. QED
    BY <2>3
<1>4. ASSUME spot # None, NEW i \in 1..n PROVE px[i] # None /\ px[i] <= spot * Ratio
  <2>1. spot # 0 /\ spot <= spot * Ratio
    <3>1. PICK k \in Nat : Ratio = 1 + k
      <4>1. Ratio - 1 \in Nat /\ Ratio = 1 + (Ratio - 1)
        BY RatioAssumption
      <4>2. QED
        BY <4>1
    <3>2. spot * Ratio = spot + spot * k /\ spot * k \in Nat
      BY <3>1
    <3>3. QED
      BY <1>4, <3>2 DEF None
  <2>2. CASE px[i] = spot
    BY <2>1, <2>2 DEF None
  <2>3. CASE \E j \in 1..i : noted[j] # None /\ px[i] = Sanitize(spot, noted[j])
    <3>1. PICK j \in 1..i : noted[j] # None /\ px[i] = Sanitize(spot, noted[j])
      BY <2>3
    <3>2. noted[j] \in Nat
      OBVIOUS
    <3>3. QED
      BY <2>1, <3>1, <3>2, SanitizeNat DEF None
  <2>4. QED
    BY <1>3, <2>2, <2>3 DEF Origin
<1>5. ASSUME NEW i \in 1..n, px[i] # None
      PROVE  \A j \in 1..n : i <= j => px[j] # None
  <2> DEFINE P == {k \in Nat : i + k \in 1..n => px[i + k] # None}
  <2>1. 0 \in P
    BY <1>5
  <2>2. ASSUME NEW k \in Nat, k \in P PROVE k + 1 \in P
    <3> SUFFICES ASSUME i + (k + 1) \in 1..n PROVE px[i + (k + 1)] # None
      OBVIOUS
    <3> PICK j \in 1..n : j = i + (k + 1)
      OBVIOUS
    <3>1. j - 1 = i + k /\ j # 1 /\ i + k \in 1..n
      OBVIOUS
    <3>2. px[j - 1] # None
      BY <2>2, <3>1
    <3>3. CASE noted[j] = None
      BY <1>1, <3>1, <3>2, <3>3
    <3>4. CASE noted[j] # None
      <4>1. noted[j] \in Nat
        OBVIOUS
      <4>2. QED
        BY <1>1, <3>4, <4>1, SanitizeNat DEF None
    <3>5. QED
      BY <3>3, <3>4
  <2>3. Nat \subseteq P
    <3> HIDE DEF P
    <3>1. QED
      BY <2>1, <2>2, NatInd
  <2>4. ASSUME NEW j \in 1..n, i <= j PROVE px[j] # None
    <3>1. j - i \in Nat /\ i + (j - i) = j
      BY <2>4
    <3>2. QED
      BY <2>3, <3>1
  <2>5. QED
    BY <2>4
<1>6. QED
  BY <1>3, <1>4, <1>5

-----------------------------------------------------------------------------
PointType == [t : Int, usd : Int]

\* ps has a point for every bucket from the m-th on.
Trail(ps, at, m) ==
  /\ ps \in Seq(PointType) /\ m \in 0..Len(at) /\ Len(ps) = Len(at) - m
  /\ \A k \in 1..Len(ps) : ps[k].t = at[m + k]

\* What is drawn is a trail if what is known stays known.
LEMMA DrawnTrail ==
  ASSUME NEW at \in Seq(Int), NEW usd \in [1..Len(at) -> Int], NEW shown \in SUBSET (1..Len(at)),
         \A i \in shown, j \in 1..Len(at) : i <= j => j \in shown
  PROVE  \E m \in 0..Len(at) :
           /\ shown = (m + 1)..Len(at)
           /\ Trail(Drawn(at, usd, shown), at, m)
           /\ \A k \in 1..(Len(at) - m) : Drawn(at, usd, shown)[k].usd = usd[m + k]
<1> DEFINE n == Len(at)
           s == [i \in DOMAIN at |-> Point(at[i], usd[i])]
<1>1. n \in Nat /\ DOMAIN at = 1..n
  OBVIOUS
<1>2. PICK m \in 0..n : shown = (m + 1)..n
  <2> HIDE DEF n
  <2>1. shown \in SUBSET (1..n) /\ \A i \in shown, j \in 1..n : i <= j => j \in shown
    BY DEF n
  <2>2. QED
    BY <1>1, <2>1, TailOf
<1>3. s \in Seq(PointType) /\ Len(s) = n
  <2>1. \A i \in 1..n : Point(at[i], usd[i]) \in PointType
    BY DEF Point, PointType
  <2>2. s \in [1..n -> PointType]
    BY <1>1, <2>1
  <2> HIDE DEF s, n
  <2>3. QED
    BY <1>1, <2>2
<1>4. \A i \in 1..n : s[i].t = at[i] /\ s[i].usd = usd[i]
  BY <1>1 DEF Point
<1>5. Drawn(at, usd, shown) = Picked(s, shown)
  BY DEF Drawn
<1> HIDE DEF s
<1> DEFINE ps == Picked(s, shown)
<1>6. /\ ps \in Seq(PointType) /\ Len(ps) = n - m
      /\ \A k \in 1..(n - m) : ps[k] = s[m + k]
  <2>1. \A i \in 1..Len(s) : i \in shown <=> m < i
    BY <1>1, <1>2, <1>3
  <2>2. m \in 0..Len(s) /\ s \in Seq(PointType)
    BY <1>3
  <2> HIDE DEF n
  <2>3. /\ ps \in Seq(PointType) /\ Len(ps) = Len(s) - m
        /\ \A k \in 1..(Len(s) - m) : ps[k] = s[m + k]
    BY <2>1, <2>2, PickedTail, SMTT(30)
  <2> HIDE DEF ps
  <2>4. QED
    BY <1>3, <2>3
<1> HIDE DEF ps
<1>7. \A k \in 1..(n - m) : ps[k].t = at[m + k] /\ ps[k].usd = usd[m + k]
  <2> TAKE k \in 1..(n - m)
  <2>1. m + k \in 1..n
    BY <1>1
  <2>2. QED
    BY <1>4, <1>6, <2>1
<1>8. Trail(ps, at, m)
  BY <1>6, <1>7 DEF Trail
<1>9. Drawn(at, usd, shown) = ps
  BY <1>5 DEF ps
<1>10. QED
  BY <1>2, <1>7, <1>8, <1>9

\* Rows of the table of snapshots, one for a time.
Stored(snapshots) ==
  /\ IsFiniteSet(snapshots)
  /\ \A s \in snapshots : s.ts \in Int /\ s.held \in [coins : Nat, defi : Int]
  /\ \A s \in snapshots, q \in snapshots : s.ts = q.ts => s = q

\* The snapshot in force is the last one, of which there is one if there are any.
LEMMA InForce ==
  ASSUME NEW stored, Stored(stored), NEW t \in Int
  PROVE  /\ SnapAt(stored, t) = {} <=> \A s \in stored : ~ (s.ts <= t)
         /\ SnapAt(stored, t) # {} => \E s \in stored : SnapAt(stored, t) = {s}
<1> DEFINE old == {s \in stored : s.ts <= t}
           f == [s \in old |-> s.ts]
<1>1. IsFiniteSet(old)
  BY FS_Subset DEF Stored
<1>2. f \in [old -> Int]
  BY DEF Stored
<1>3. ASSUME old # {} PROVE \E s \in stored : SnapAt(stored, t) = {s}
  <2> HIDE DEF f, old
  <2>1. PICK s \in old : \A q \in old : f[q] <= f[s]
    BY <1>1, <1>2, <1>3, Extremes
  <2>2. s \in stored /\ s.ts <= t /\ \A q \in stored : q.ts <= t => q.ts <= s.ts
    BY <2>1 DEF old, f
  <2>3. s \in SnapAt(stored, t)
    BY <2>2 DEF SnapAt
  <2>4. ASSUME NEW q \in SnapAt(stored, t) PROVE q = s
    <3>1. q \in stored /\ q.ts <= s.ts /\ s.ts <= q.ts
      BY <2>2, <2>4 DEF SnapAt
    <3>2. q.ts = s.ts
      BY <2>2, <3>1 DEF Stored
    <3>3. QED
      BY <2>2, <3>1, <3>2 DEF Stored
  <2>5. SnapAt(stored, t) = {s}
    BY <2>3, <2>4
  <2>6. QED
    BY <2>2, <2>5
<1>4. ASSUME old = {} PROVE SnapAt(stored, t) = {} /\ \A s \in stored : ~ (s.ts <= t)
  BY <1>4 DEF SnapAt
<1>5. (SnapAt(stored, t) = {}) => old = {}
  BY <1>3
<1>6. QED
  BY <1>3, <1>4, <1>5

\* What a wallet holds is what it has less what it owes.
LEMMA NetIs ==
  ASSUME NEW held \in [coins : Nat, defi : Int]
  PROVE  Assets(held) - Debts(held) = Net(held) /\ Net(held) \in Int /\ Assets(held) \in Nat
BY DEF Assets, Debts, Net

\* Every point is a snapshot's holdings at the price of its bucket.
ValuedThen(ps, at, stored, px, m) ==
  \A k \in 1..Len(ps) :
    \E s \in stored :
      /\ s.ts <= at[m + k] /\ \A q \in stored : q.ts <= at[m + k] => q.ts <= s.ts
      /\ px[m + k] # None
      /\ ps[k].usd = Net(s.held) * px[m + k]

\* The chart of the snapshots begins with the first bucket that has a price and
\* a snapshot before it, and values that snapshot at that price.
LEMMA SnapshotsDrawn ==
  ASSUME NEW d, NEW end, NEW at, Spaced(at, d, end), d \in Nat \ {0},
         NEW stored, Stored(stored),
         NEW noted \in [1..Len(at) -> Nat], NEW spot \in Nat,
         NEW px, Carries(px, Len(at), noted, spot)
  PROVE  \E m \in 0..Len(at) :
           /\ Trail(FromSnapshots(at, stored, px), at, m)
           /\ ValuedThen(FromSnapshots(at, stored, px), at, stored, px, m)
<1> DEFINE n == Len(at)
           state == [i \in DOMAIN at |-> SnapAt(stored, at[i])]
           value(i) == [s \in state[i] |-> (Assets(s.held) - Debts(s.held)) * px[i]]
           worth == [i \in DOMAIN at |-> SumFunction(value(i))]
           shown == {i \in DOMAIN at : px[i] # None /\ state[i] # {}}
<1>1. at \in Seq(Int) /\ n \in Nat /\ (\A i \in 1..n : at[i] \in Int) /\ DOMAIN at = 1..n
  BY DEF Spaced
<1>2. px \in [1..n -> Nat]
  BY DEF Carries
<1>3. FromSnapshots(at, stored, px) = Drawn(at, worth, shown)
  BY DEF FromSnapshots
<1>4. \A i \in 1..n : state[i] = SnapAt(stored, at[i])
  BY <1>1
<1>5. ASSUME NEW i \in 1..n, NEW s \in stored, state[i] = {s}
      PROVE  SumFunction(value(i)) = Net(s.held) * px[i] /\ SumFunction(value(i)) \in Int
  <2> DEFINE S == state[i]
             v == [q \in S |-> (Assets(q.held) - Debts(q.held)) * px[i]]
  <2>1. px[i] \in Int
    BY <1>2
  <2>2. s.held \in [coins : Nat, defi : Int]
    BY DEF Stored
  <2>3. Assets(s.held) - Debts(s.held) = Net(s.held) /\ Net(s.held) \in Int
    BY <2>2, NetIs
  <2>4. (Assets(s.held) - Debts(s.held)) * px[i] = Net(s.held) * px[i] /\ Net(s.held) * px[i] \in Int
    BY <2>1, <2>3
  <2> HIDE DEF state
  <2>5. v \in [S -> Int] /\ v[s] = Net(s.held) * px[i]
    BY <1>5, <2>4
  <2> HIDE DEF v
  <2>6. SumFunction(v) = v[s]
    BY <1>5, <2>5, SmallSums
  <2>7. QED
    BY <2>4, <2>5, <2>6 DEF v
<1>6. ASSUME NEW i \in 1..n, state[i] = {} PROVE SumFunction(value(i)) \in Int
  <2> HIDE DEF state
  <2>1. value(i) \in [state[i] -> Int]
    BY <1>6
  <2> DEFINE v == value(i)
             S == state[i]
  <2>2. v \in [S -> Int] /\ S = {}
    BY <1>6, <2>1
  <2> HIDE DEF v, S
  <2>3. SumFunction(v) = 0
    BY <2>2, SmallSums
  <2>4. QED
    BY <2>3 DEF v
<1>7. \A i \in 1..n : state[i] # {} => \E s \in stored : state[i] = {s}
  BY <1>1, <1>4, InForce
<1> HIDE DEF value
<1>8. worth \in [1..n -> Int]
  <2>1. \A i \in 1..n : SumFunction(value(i)) \in Int
    BY <1>5, <1>6, <1>7
  <2>2. QED
    BY <1>1, <2>1
<1>9. ASSUME NEW i \in shown, NEW j \in 1..n, i <= j PROVE j \in shown
  <2>1. px[j] # None
    BY <1>1, <1>9, PricesKnown
  <2>2. at[i] <= at[j]
    BY <1>1, <1>9 DEF Spaced
  <2>3. PICK s \in stored : s.ts <= at[i]
    BY <1>1, <1>4, InForce
  <2>4. s.ts <= at[j]
    BY <1>1, <2>2, <2>3 DEF Stored
  <2>5. state[j] # {}
    BY <1>1, <1>4, <2>4, InForce
  <2>6. QED
    BY <1>1, <2>1, <2>5
<1>10. shown \in SUBSET (1..n)
  BY <1>1
<1>11. \A i \in 1..n : worth[i] = SumFunction(value(i))
  BY <1>1
<1> HIDE DEF worth
<1>12. PICK m \in 0..n :
         /\ shown = (m + 1)..n
         /\ Trail(Drawn(at, worth, shown), at, m)
         /\ \A k \in 1..(n - m) : Drawn(at, worth, shown)[k].usd = worth[m + k]
  <2> HIDE DEF shown
  <2>1. QED
    BY <1>1, <1>8, <1>9, <1>10, DrawnTrail
<1>13. ASSUME NEW k \in 1..(n - m)
       PROVE  \E s \in stored :
                /\ s.ts <= at[m + k] /\ \A q \in stored : q.ts <= at[m + k] => q.ts <= s.ts
                /\ px[m + k] # None
                /\ Drawn(at, worth, shown)[k].usd = Net(s.held) * px[m + k]
  <2> DEFINE i == m + k
  <2>1. i \in shown /\ i \in 1..n
    <3> HIDE DEF shown
    <3>1. QED
      BY <1>1, <1>12
  <2> HIDE DEF i
  <2>2. px[i] # None /\ state[i] # {}
    BY <2>1
  <2>3. PICK s \in stored : state[i] = {s}
    BY <1>7, <2>1, <2>2
  <2>4. worth[i] = Net(s.held) * px[i]
    BY <1>5, <1>11, <2>1, <2>3
  <2>5. s.ts <= at[i] /\ \A q \in stored : q.ts <= at[i] => q.ts <= s.ts
    <3>1. s \in SnapAt(stored, at[i])
      BY <1>4, <2>1, <2>3
    <3>2. QED
      BY <3>1 DEF SnapAt
  <2>6. Drawn(at, worth, shown)[k].usd = worth[i]
    BY <1>12 DEF i
  <2>7. QED
    BY <2>2, <2>4, <2>5, <2>6 DEF i
<1> HIDE DEF shown, state
<1> DEFINE ps == Drawn(at, worth, shown)
<1>14. Len(ps) = n - m
  BY <1>12 DEF Trail
<1> HIDE DEF ps
<1>15. ValuedThen(ps, at, stored, px, m)
  BY <1>13, <1>14 DEF ValuedThen, ps
<1>16. QED
  BY <1>3, <1>12, <1>15 DEF ps

\* Every point is today's holdings, the coins at the price of its bucket.
ValuedToday(ps, held, spot, px, m) ==
  \A k \in 1..Len(ps) :
    ps[k].usd = held.coins * px[m + k] + (IF held.defi > 0 THEN held.defi * spot ELSE 0)

\* The chart of today's holdings begins with the first bucket that has a price,
\* which is the range's if the coin has one now.
LEMMA TodayDrawn ==
  ASSUME NEW at \in Seq(Int), NEW noted \in [1..Len(at) -> Nat], NEW spot \in Nat,
         NEW px, Carries(px, Len(at), noted, spot), NEW held \in [coins : Nat, defi : Int]
  PROVE  \E m \in 0..Len(at) :
           /\ Trail(FromToday(at, held, spot, px), at, m)
           /\ spot # None => m = 0
           /\ ValuedToday(FromToday(at, held, spot, px), held, spot, px, m)
<1> PICK flat \in Nat : flat = IF held.defi > 0 THEN held.defi * spot ELSE 0
  <2>1. held.defi > 0 => held.defi * spot \in Nat
    OBVIOUS
  <2>2. QED
    BY <2>1
<1> DEFINE n == Len(at)
           usd == [i \in DOMAIN at |-> held.coins * px[i] + flat]
           shown == {i \in DOMAIN at : px[i] # None}
<1>1. n \in Nat /\ DOMAIN at = 1..n /\ px \in [1..n -> Nat]
  BY DEF Carries
<1>2. FromToday(at, held, spot, px) = Drawn(at, usd, shown)
  BY DEF FromToday
<1>3. usd \in [1..n -> Int]
  <2>1. \A i \in 1..n : held.coins * px[i] + flat \in Int
    <3> TAKE i \in 1..n
    <3>1. held.coins \in Nat /\ px[i] \in Nat
      BY <1>1
    <3>2. held.coins * px[i] \in Nat
      BY <3>1
    <3>3. QED
      BY <3>2
  <2>2. QED
    BY <1>1, <2>1
<1>4. \A i \in 1..n : usd[i] = held.coins * px[i] + flat
  BY <1>1
<1>5. shown \in SUBSET (1..n)
  BY <1>1
<1>6. ASSUME NEW i \in shown, NEW j \in 1..n, i <= j PROVE j \in shown
  BY <1>1, <1>6, PricesKnown
<1> HIDE DEF usd
<1>7. PICK m \in 0..n :
        /\ shown = (m + 1)..n
        /\ Trail(Drawn(at, usd, shown), at, m)
        /\ \A k \in 1..(n - m) : Drawn(at, usd, shown)[k].usd = usd[m + k]
  <2> HIDE DEF shown
  <2>1. QED
    BY <1>3, <1>5, <1>6, DrawnTrail
<1>8. ASSUME spot # None PROVE m = 0
  <2>1. \A i \in 1..n : px[i] # None
    BY <1>1, <1>8, PricesKnown
  <2>2. shown = 1..n
    BY <1>1, <2>1
  <2> HIDE DEF shown
  <2>3. CASE m # 0
    <3>1. m \in 1..n /\ m \notin (m + 1)..n
      BY <1>1, <2>3
    <3>2. QED
      BY <1>7, <2>2, <3>1
  <2>4. QED
    BY <2>3
<1>9. \A k \in 1..(n - m) : Drawn(at, usd, shown)[k].usd = held.coins * px[m + k] + flat
  <2> HIDE DEF shown
  <2> TAKE k \in 1..(n - m)
  <2>1. m + k \in 1..n
    BY <1>1
  <2>2. QED
    BY <1>4, <1>7, <2>1
<1> HIDE DEF shown
<1> DEFINE ps == Drawn(at, usd, shown)
<1>10. Len(ps) = n - m
  BY <1>7 DEF Trail
<1> HIDE DEF ps
<1>11. ValuedToday(ps, held, spot, px, m)
  BY <1>9, <1>10 DEF ValuedToday, ps
<1>12. QED
  BY <1>2, <1>7, <1>8, <1>11 DEF ps

\* fs is ps as it is shown, with the live point in place of the last or after it.
Ends(fs, ps, live, present) ==
  /\ fs \in Seq(PointType)
  /\ live = None => fs = ps
  /\ live # None =>
       /\ Len(fs) > 0 /\ fs[Len(fs)] = Point(present, live)
       /\ \A k \in 1..(Len(ps) - 1) : fs[k] = ps[k]
       /\ \/ Len(fs) = Len(ps) /\ present - ps[Len(ps)].t < Hour
          \/ /\ Len(fs) = Len(ps) + 1
             /\ Len(ps) > 0 =>
                  fs[Len(ps)].t = ps[Len(ps)].t /\ present - ps[Len(ps)].t >= Hour

\* Aligning changes the last point's value.
LEMMA AlignIs ==
  ASSUME NEW ps \in Seq(PointType), NEW live \in Int
  PROVE  /\ Align(ps, live) \in Seq(PointType) /\ Len(Align(ps, live)) = Len(ps)
         /\ \A k \in 1..(Len(ps) - 1) : Align(ps, live)[k] = ps[k]
         /\ Len(ps) > 0 => Align(ps, live)[Len(ps)].t = ps[Len(ps)].t
<1> DEFINE n == Len(ps)
           qs == [ps EXCEPT ![n].usd = live]
<1>1. n \in Nat /\ ps \in [1..n -> PointType]
  OBVIOUS
<1>2. CASE n = 0
  BY <1>2 DEF Align
<1>3. CASE n # 0
  <2>1. n \in 1..n
    BY <1>1, <1>3
  <2>2. ps[n] \in PointType
    BY <1>1, <2>1
  <2>3. [ps[n] EXCEPT !.usd = live] \in PointType /\ [ps[n] EXCEPT !.usd = live].t = ps[n].t
    BY <2>2 DEF PointType
  <2> DEFINE p == [ps[n] EXCEPT !.usd = live]
  <2> HIDE DEF n
  <2>4. qs = [ps EXCEPT ![n] = p]
    BY <1>1, <2>1
  <2> HIDE DEF qs, p
  <2>5. qs \in [1..n -> PointType] /\ qs[n] = p /\ \A k \in 1..(n - 1) : qs[k] = ps[k]
    BY <1>1, <2>1, <2>3, <2>4 DEF p
  <2>6. qs \in Seq(PointType) /\ Len(qs) = n
    BY <1>1, <2>5
  <2>7. Align(ps, live) = ps \/ Align(ps, live) = qs
    BY <1>3 DEF Align, n, qs
  <2>8. p.t = ps[n].t
    BY <2>3 DEF p
  <2>9. QED
    BY <1>1, <2>5, <2>6, <2>7, <2>8 DEF n
<1>4. QED
  BY <1>2, <1>3

Final(ps, live) == IF live = None THEN ps ELSE AppendLive(Align(ps, live), live)

\* What is shown of a chart that was drawn.
LEMMA Finished ==
  ASSUME clock \in Nat, NEW ps \in Seq(PointType), NEW live \in Nat,
         NEW fs, fs = Final(ps, live)
  PROVE  Ends(fs, ps, live, clock)
<1> PICK present \in Nat : present = clock
  OBVIOUS
<1>1. CASE live = None
  BY <1>1 DEF Ends, Final
<1>2. CASE live # None
  <2> DEFINE qs == Align(ps, live)
             n == Len(ps)
             p == Point(present, live)
  <2>1. live \in Int
    OBVIOUS
  <2>2. /\ qs \in Seq(PointType) /\ Len(qs) = n
        /\ \A k \in 1..(n - 1) : qs[k] = ps[k]
        /\ n > 0 => qs[n].t = ps[n].t
    BY <2>1, AlignIs
  <2>3. p \in PointType
    BY DEF Point, PointType
  <2>4. n \in Nat
    OBVIOUS
  <2>5. fs = AppendLive(qs, live)
    BY <1>2 DEF Final
  <2>6. fs = IF n > 0 /\ present - qs[n].t < Hour THEN [qs EXCEPT ![n] = p] ELSE Append(qs, p)
    BY <2>2, <2>5 DEF AppendLive
  <2> HIDE DEF qs, n, p
  <2>7. CASE n > 0 /\ present - qs[n].t < Hour
    <3>1. fs = [qs EXCEPT ![n] = p] /\ n \in 1..n
      BY <2>4, <2>6, <2>7
    <3>2. qs \in [1..n -> PointType]
      BY <2>2
    <3>3. fs \in [1..n -> PointType] /\ fs[n] = p /\ \A k \in 1..(n - 1) : fs[k] = qs[k]
      BY <2>3, <2>4, <3>1, <3>2
    <3>4. fs \in Seq(PointType) /\ Len(fs) = n
      BY <2>4, <3>3
    <3>5. QED
      BY <1>2, <2>2, <2>4, <2>7, <3>3, <3>4 DEF Ends, n, p
  <2>8. CASE ~ (n > 0 /\ present - qs[n].t < Hour)
    <3>1. fs = Append(qs, p)
      BY <2>6, <2>8
    <3>2. /\ fs \in Seq(PointType) /\ Len(fs) = n + 1 /\ fs[n + 1] = p
          /\ \A k \in 1..n : fs[k] = qs[k]
      BY <2>2, <2>3, <2>4, <3>1
    <3>3. n > 0 => fs[n].t = ps[n].t /\ present - ps[n].t >= Hour
      <4> SUFFICES ASSUME n > 0 PROVE fs[n].t = ps[n].t /\ present - ps[n].t >= Hour
        OBVIOUS
      <4>1. qs[n].t \in Int
        <5>1. n \in 1..Len(qs)
          BY <2>2, <2>4
        <5>2. qs[n] \in PointType
          BY <2>2, <5>1
        <5>3. QED
          BY <5>2 DEF PointType
      <4>2. fs[n] = qs[n]
        BY <2>4, <3>2
      <4>3. ~ (present - qs[n].t < Hour)
        BY <2>8
      <4>4. present - qs[n].t >= Hour
        BY <4>1, <4>3, RatioAssumption
      <4>5. QED
        BY <2>2, <4>2, <4>4
    <3>4. \A k \in 1..(n - 1) : fs[k] = ps[k]
      BY <2>2, <2>4, <3>2
    <3>5. QED
      BY <1>2, <2>4, <3>2, <3>3, <3>4 DEF Ends, n, p
  <2>9. QED
    BY <2>7, <2>8
<1>3. QED
  BY <1>1, <1>2

\* The times of a trail: those of the last buckets.
Times(ps, n, d, present) ==
  /\ n \in Nat
  /\ \A k \in 1..n : ps[k].t \in Int
  /\ \A k \in 1..(n - 1) : ps[k + 1].t = ps[k].t + d /\ ps[k].t + d <= ps[n].t
  /\ n > 0 => ps[n].t <= present /\ present < ps[n].t + d

LEMMA TrailTimes ==
  ASSUME NEW at, NEW d \in Nat \ {0}, NEW present \in Int, Spaced(at, d, present),
         NEW ps, NEW m, Trail(ps, at, m)
  PROVE  Times(ps, Len(ps), d, present)
<1> DEFINE N == Len(at)
           n == Len(ps)
<1>1. /\ N \in Nat /\ m \in 0..N /\ n = N - m /\ n \in Nat
      /\ \A k \in 1..n : ps[k].t = at[m + k] /\ m + k \in 1..N
  <2>1. N \in Nat
    BY DEF Spaced
  <2>2. m \in 0..N /\ n = N - m /\ \A k \in 1..n : ps[k].t = at[m + k]
    BY DEF Trail
  <2> HIDE DEF N, n
  <2>3. QED
    BY <2>1, <2>2
<1>2. /\ \A i \in 1..N : at[i] \in Int
      /\ \A i \in 1..N, j \in 1..N : i < j => at[i] + d <= at[j]
      /\ \A i \in 1..(N - 1) : at[i + 1] = at[i] + d
      /\ N > 0 => at[N] <= present /\ present < at[N] + d
  BY DEF Spaced
<1> HIDE DEF N, n
<1>3. \A k \in 1..n : ps[k].t \in Int
  BY <1>1, <1>2
<1>4. ASSUME NEW k \in 1..(n - 1) PROVE ps[k + 1].t = ps[k].t + d /\ ps[k].t + d <= ps[n].t
  <2>1. /\ k \in 1..n /\ k + 1 \in 1..n /\ n \in 1..n
        /\ m + k \in 1..(N - 1) /\ m + (k + 1) = (m + k) + 1 /\ m + n = N /\ m + k < N
    BY <1>1
  <2>2. ps[k].t = at[m + k] /\ ps[k + 1].t = at[(m + k) + 1] /\ ps[n].t = at[N]
    BY <1>1, <2>1
  <2>3. N \in 1..N /\ m + k \in 1..N
    BY <1>1, <2>1
  <2>4. QED
    BY <1>2, <2>1, <2>2, <2>3
<1>5. ASSUME n > 0 PROVE ps[n].t <= present /\ present < ps[n].t + d
  <2>1. n \in 1..n /\ m + n = N /\ N > 0
    BY <1>1, <1>5
  <2>2. ps[n].t = at[N]
    BY <1>1, <2>1
  <2>3. QED
    BY <1>2, <2>1, <2>2
<1>6. QED
  BY <1>1, <1>3, <1>4, <1>5 DEF Times, n

\* What a chart c has been made of.
Drawing(c, present, r, at, noted, px, stored, ps, m) ==
  /\ c.at = present /\ c.r = r /\ c.spot \in Nat /\ c.live \in Nat
  /\ c.held \in [coins : Nat, defi : Int] /\ (c.live # None => c.spot # None)
  /\ Spaced(at, r.step, present) /\ Len(at) > 0 /\ 2 * at[1] <= 2 * (present - r.span) + r.step
  /\ noted \in [1..Len(at) -> Nat] /\ Carries(px, Len(at), noted, c.spot)
  /\ Trail(ps, at, m) /\ Ends(c.points, ps, c.live, present)
  /\ \/ c.source = "snapshots" /\ ValuedThen(ps, at, stored, px, m)
     \/ /\ c.source = "today" /\ (c.spot # None => m = 0)
        /\ ValuedToday(ps, c.held, c.spot, px, m)

\* A chart's times, without its values.
WholeOf(c) ==
  /\ c.points \in Seq(PointType)
  /\ \A i \in 1..(Len(c.points) - 1) : c.points[i].t < c.points[i + 1].t
  /\ \A i \in 1..Len(c.points) : c.points[i].t <= c.at
  /\ c.live # None =>
       Len(c.points) > 0 /\ c.points[Len(c.points)] = Point(c.at, c.live)
  /\ \A i \in 1..(Len(c.points) - 1) : c.points[i].t + c.r.step <= c.at =>
       \/ c.points[i + 1].t - c.points[i].t = c.r.step
       \/ /\ i + 1 = Len(c.points) /\ c.live # None
          /\ c.points[i + 1].t - c.points[i].t < c.r.step + Hour
  /\ c.live # None /\ c.source = "today" =>
       2 * c.points[1].t <= 2 * (c.at - c.r.span) + c.r.step

LEMMA DrawingWhole ==
  ASSUME NEW c, NEW present \in Nat, NEW r \in Ranges, NEW at, NEW noted, NEW px, NEW stored, NEW ps,
         NEW m, Drawing(c, present, r, at, noted, px, stored, ps, m)
  PROVE  WholeOf(c)
<1> PICK d \in Nat \ {0} : d = r.step
  BY RangeAssumption
<1> PICK live \in Nat : live = c.live
  BY DEF Drawing
<1> DEFINE fs == c.points
           n == Len(ps)
           span == r.span
<1>1. /\ span \in Nat /\ 2 * span >= d + 2 * Hour /\ Hour \in Nat \ {0}
      /\ c.at = present /\ c.r.step = d /\ c.r.span = span
  BY RangeAssumption, RatioAssumption DEF Drawing
<1>2. /\ Spaced(at, d, present) /\ Trail(ps, at, m) /\ Ends(fs, ps, live, present)
      /\ Len(at) > 0 /\ 2 * at[1] <= 2 * (present - span) + d
      /\ live # None /\ c.source = "today" => m = 0
  BY DEF Drawing
<1>3. /\ n \in Nat
      /\ \A k \in 1..n : ps[k].t \in Int
      /\ \A k \in 1..(n - 1) : ps[k + 1].t = ps[k].t + d /\ ps[k].t + d <= ps[n].t
      /\ n > 0 => ps[n].t <= present /\ present < ps[n].t + d
  <2>1. Times(ps, Len(ps), d, present)
    BY <1>2, TrailTimes
  <2>2. QED
    BY <2>1 DEF Times
<1> DEFINE first == 2 * fs[1].t <= 2 * (present - span) + d
<1>4. m = 0 => n > 0 /\ 2 * ps[1].t <= 2 * (present - span) + d
  <2>1. m = 0 => n = Len(at) /\ n > 0 /\ ps[1].t = at[1]
    BY <1>2 DEF Trail, Spaced
  <2>2. QED
    BY <1>2, <2>1
<1>5. fs \in Seq(PointType)
  BY <1>2 DEF Ends
<1> HIDE DEF n, span
<1> DEFINE Steps == \A i \in 1..(Len(fs) - 1) :
             /\ fs[i].t < fs[i + 1].t
             /\ fs[i].t + d <= present =>
                  \/ fs[i + 1].t - fs[i].t = d
                  \/ i + 1 = Len(fs) /\ live # None /\ fs[i + 1].t - fs[i].t < d + Hour
           NotLate == \A i \in 1..Len(fs) : fs[i].t <= present
           Last == live # None => Len(fs) > 0 /\ fs[Len(fs)] = Point(present, live)
           First == live # None /\ c.source = "today" => first
           All == Steps /\ NotLate /\ Last /\ First
<1>6. ASSUME live = None PROVE All
  <2>1. fs = ps
    BY <1>2, <1>6 DEF Ends
  <2>2. Len(fs) = n
    BY <2>1 DEF n
  <2> HIDE DEF fs
  <2>3. ASSUME NEW i \in 1..n PROVE ps[i].t <= present
    <3>1. i = n \/ i \in 1..(n - 1)
      BY <1>3
    <3>2. QED
      BY <1>3, <3>1
  <2>4. Steps
    BY <1>3, <2>1, <2>2
  <2>5. QED
    BY <1>6, <2>1, <2>2, <2>3, <2>4
<1>7. ASSUME live # None PROVE All
  <2>1. /\ Len(fs) > 0 /\ fs[Len(fs)].t = present /\ fs[Len(fs)] = Point(present, live)
        /\ \A k \in 1..(n - 1) : fs[k] = ps[k]
        /\ \/ Len(fs) = n /\ present - ps[n].t < Hour
           \/ Len(fs) = n + 1 /\ (n > 0 => fs[n].t = ps[n].t /\ present - ps[n].t >= Hour)
    BY <1>2, <1>7 DEF Ends, n, Point
  <2>2. Len(fs) \in Nat
    BY <1>5
  <2> HIDE DEF fs
  <2>3. ASSUME Len(fs) = n, present - ps[n].t < Hour PROVE All
    <3>1. n > 0 /\ fs[n].t = present /\ \A k \in 1..(n - 1) : fs[k].t = ps[k].t
      BY <2>1, <2>3
    <3>2. ASSUME NEW i \in 1..n PROVE fs[i].t <= present
      <4>1. i = n \/ i \in 1..(n - 1)
        BY <1>3
      <4>2. QED
        BY <1>3, <3>1, <4>1
    <3>3. ASSUME NEW i \in 1..(n - 1)
          PROVE  /\ fs[i].t < fs[i + 1].t
                 /\ \/ fs[i + 1].t - fs[i].t = d
                    \/ i + 1 = n /\ fs[i + 1].t - fs[i].t < d + Hour
      <4>1. fs[i].t = ps[i].t /\ ps[i + 1].t = ps[i].t + d /\ ps[i].t \in Int /\ ps[i + 1].t \in Int
        BY <1>3, <3>1
      <4>2. CASE i + 1 = n
        <5>1. ps[n].t = ps[i].t + d /\ fs[n].t = present /\ ps[n].t \in Int /\ ps[n].t <= present
          BY <1>3, <3>1, <4>1, <4>2
        <5>2. fs[i + 1].t = present
          BY <4>2, <5>1
        <5> PICK t \in Int, u \in Int : t = ps[i].t /\ u = ps[n].t
          BY <4>1, <5>1
        <5>3. u = t + d /\ u <= present /\ present - u < Hour
          BY <2>3, <5>1
        <5>4. t < present /\ present - t < d + Hour
          BY <1>1, <5>3
        <5>5. fs[i].t = t
          BY <4>1
        <5>6. QED
          BY <4>2, <5>2, <5>4, <5>5
      <4>3. CASE i + 1 # n
        <5>1. i + 1 \in 1..(n - 1)
          BY <1>3, <4>3
        <5>2. fs[i + 1].t = ps[i + 1].t
          BY <3>1, <5>1
        <5>3. QED
          BY <4>1, <5>2
      <4>4. QED
        BY <4>2, <4>3
    <3>4. First
      <4>1. CASE n = 1
        <5>1. ps[1].t \in Int /\ present - ps[1].t < Hour
          BY <1>3, <2>3, <4>1
        <5>2. m # 0
          BY <1>1, <1>4, <5>1
        <5>3. QED
          BY <1>2, <5>2
      <4>2. CASE n # 1
        <5>1. 1 \in 1..(n - 1)
          BY <1>3, <3>1, <4>2
        <5>2. fs[1].t = ps[1].t
          BY <3>1, <5>1
        <5>3. QED
          BY <1>2, <1>4, <5>2
      <4>3. QED
        BY <4>1, <4>2
    <3>5. QED
      BY <1>7, <2>1, <2>3, <3>2, <3>3, <3>4
  <2>4. ASSUME Len(fs) = n + 1, n > 0 => fs[n].t = ps[n].t /\ present - ps[n].t >= Hour PROVE All
    <3>1. fs[n + 1].t = present /\ \A k \in 1..n : fs[k].t = ps[k].t
      <4>1. \A k \in 1..n : k = n \/ k \in 1..(n - 1)
        BY <1>3
      <4>2. n > 0 => fs[n].t = ps[n].t
        BY <2>4
      <4>3. \A k \in 1..(n - 1) : fs[k].t = ps[k].t
        BY <2>1
      <4>4. fs[n + 1].t = present
        BY <1>3, <2>1, <2>4
      <4>5. QED
        BY <1>3, <4>1, <4>2, <4>3, <4>4
    <3>2. ASSUME NEW i \in 1..(n + 1) PROVE fs[i].t <= present
      <4>1. i = n + 1 \/ i = n \/ i \in 1..(n - 1)
        BY <1>3
      <4>2. i \in 1..n => fs[i].t = ps[i].t /\ ps[i].t \in Int
        BY <1>3, <3>1
      <4>3. i \in 1..(n - 1) => ps[i].t + d <= ps[n].t /\ ps[n].t \in Int /\ n > 0 /\ i \in 1..n
        BY <1>3
      <4>4. QED
        BY <1>3, <3>1, <4>1, <4>2, <4>3
    <3>3. ASSUME NEW i \in 1..n
          PROVE  /\ fs[i].t < fs[i + 1].t
                 /\ fs[i].t + d <= present => fs[i + 1].t - fs[i].t = d
      <4>1. fs[i].t = ps[i].t /\ ps[i].t \in Int /\ n > 0
        BY <1>3, <3>1
      <4>2. CASE i = n
        BY <1>1, <1>3, <2>4, <3>1, <4>1, <4>2
      <4>3. CASE i # n
        <5>1. i \in 1..(n - 1) /\ i + 1 \in 1..n
          BY <1>3, <4>3
        <5>2. fs[i + 1].t = ps[i + 1].t /\ ps[i + 1].t = ps[i].t + d
          BY <1>3, <3>1, <5>1
        <5>3. QED
          BY <4>1, <5>2
      <4>4. QED
        BY <4>2, <4>3
    <3>4. First
      <4>1. n > 0 => fs[1].t = ps[1].t
        BY <1>3, <3>1
      <4>2. QED
        BY <1>2, <1>4, <4>1
    <3>5. (n + 1) - 1 = n
      BY <1>3
    <3>6. QED
      BY <1>7, <2>1, <2>4, <3>2, <3>3, <3>4, <3>5
  <2>5. QED
    BY <2>1, <2>3, <2>4
<1>8. All
  BY <1>6, <1>7
<1> DEFINE StepsC == \A i \in 1..(Len(c.points) - 1) :
             /\ c.points[i].t < c.points[i + 1].t
             /\ c.points[i].t + c.r.step <= c.at =>
                  \/ c.points[i + 1].t - c.points[i].t = c.r.step
                  \/ /\ i + 1 = Len(c.points) /\ c.live # None
                     /\ c.points[i + 1].t - c.points[i].t < c.r.step + Hour
<1>9. StepsC
  BY <1>1, <1>8
<1>10. QED
  BY <1>1, <1>5, <1>8, <1>9 DEF WholeOf

\* A product grows with its factor, or falls if the other is below 0.
LEMMA Grows ==
  ASSUME NEW a \in Int, NEW b \in Int, a <= b, NEW x \in Int
  PROVE  /\ a * x \in Int /\ b * x \in Int
         /\ x >= 0 => a * x <= b * x
         /\ x < 0 => b * x <= a * x
<1>1. PICK k \in Nat : b = a + k
  <2>1. b - a \in Nat /\ b = a + (b - a)
    OBVIOUS
  <2>2. QED
    BY <2>1
<1>2. b * x = a * x + k * x /\ a * x \in Int /\ k * x \in Int
  BY <1>1
<1>3. x >= 0 => k * x >= 0
  OBVIOUS
<1>4. x < 0 => k * x <= 0
  <2> SUFFICES ASSUME x < 0 PROVE k * x <= 0
    OBVIOUS
  <2>1. - x \in Nat /\ k * (- x) = - (k * x)
    OBVIOUS
  <2>2. k * (- x) \in Nat
    BY <2>1
  <2>3. QED
    BY <1>2, <2>1, <2>2
<1> DEFINE ax == a * x
           kx == k * x
           bx == b * x
<1>5. bx = ax + kx /\ ax \in Int /\ kx \in Int /\ (x >= 0 => kx >= 0) /\ (x < 0 => kx <= 0)
  BY <1>2, <1>3, <1>4
<1> HIDE DEF ax, kx, bx
<1>6. bx \in Int /\ (x >= 0 => ax <= bx) /\ (x < 0 => bx <= ax)
  BY <1>5
<1>7. QED
  BY <1>5, <1>6 DEF ax, bx

\* A price between two sane ones is sane.
LEMMA SaneBetween ==
  ASSUME NEW spot \in Nat, NEW a \in Nat, NEW b \in Nat, NEW v \in Nat, a <= v, v <= b,
         spot # None => Sanitize(spot, a) = a /\ Sanitize(spot, b) = b
  PROVE  Sanitize(spot, v) = v
<1>1. CASE spot = None
  BY <1>1 DEF Sanitize
<1>2. CASE spot # None
  <2> DEFINE top == spot * Ratio
             av == a * Ratio
             vv == v * Ratio
  <2>1. Ratio \in Int /\ Ratio >= 0 /\ top \in Nat /\ av \in Nat /\ vv \in Nat
    BY RatioAssumption
  <2>2. av <= vv
    BY <2>1, Grows
  <2>3. spot <= top
    <3>1. 1 <= Ratio
      BY RatioAssumption
    <3>2. 1 * spot <= Ratio * spot
      BY <2>1, <3>1, Grows
    <3>3. 1 * spot = spot /\ Ratio * spot = spot * Ratio
      BY <2>1
    <3>4. QED
      BY <3>2, <3>3
  <2>4. a = spot => av = top
    OBVIOUS
  <2>5. \A p \in Nat : Sanitize(spot, p) = IF p > top \/ p * Ratio < spot THEN spot ELSE p
    BY <1>2 DEF Sanitize
  <2>6. /\ Sanitize(spot, a) = IF a > top \/ av < spot THEN spot ELSE a
        /\ Sanitize(spot, b) = IF b > top \/ b * Ratio < spot THEN spot ELSE b
        /\ Sanitize(spot, v) = IF v > top \/ vv < spot THEN spot ELSE v
    BY <2>5
  <2> HIDE DEF top, av, vv
  <2>7. ~ (av < spot)
    BY <1>2, <2>1, <2>3, <2>4, <2>6
  <2>8. ~ (b > top)
    BY <1>2, <2>1, <2>3, <2>6
  <2>9. ~ (v > top) /\ ~ (vv < spot)
    BY <2>1, <2>2, <2>7, <2>8
  <2>10. QED
    BY <2>6, <2>9
<1>3. QED
  BY <1>1, <1>2

\* Every time from the first bucket's begin to the j-th one's end is in a bucket.
LEMMA InBucket ==
  ASSUME NEW at, NEW d \in Nat \ {0}, NEW present, Spaced(at, d, present),
         NEW j \in 1..Len(at), NEW t \in Int, at[1] <= t, t < at[j] + d
  PROVE  \E l \in 1..j : at[l] <= t /\ t < at[l] + d /\ Floor(t, d) = at[l]
<1> DEFINE n == Len(at)
           In(i) == \E l \in 1..i : at[l] <= t /\ t < at[l] + d
           P == {i \in Nat : i \in 1..n /\ t < at[i] + d => In(i)}
<1>1. /\ n \in Nat /\ \A i \in 1..n : at[i] \in Int
      /\ \A i \in 1..(n - 1) : at[i + 1] = at[i] + d
  BY DEF Spaced
<1>2. \A i \in 1..n : at[i] <= t /\ t < at[i] + d => Floor(t, d) = at[i]
  BY DEF Spaced
<1>3. j \in 1..n
  OBVIOUS
<1> HIDE DEF n
<1>4. 0 \in P
  OBVIOUS
<1>5. ASSUME NEW i \in Nat, i \in P PROVE i + 1 \in P
  <2> SUFFICES ASSUME i + 1 \in 1..n, t < at[i + 1] + d PROVE In(i + 1)
    OBVIOUS
  <2>1. CASE i = 0
    BY <2>1
  <2>2. CASE i # 0 /\ at[i + 1] <= t
    <3>1. i + 1 \in 1..(i + 1)
      OBVIOUS
    <3>2. QED
      BY <2>2, <3>1
  <2>3. CASE i # 0 /\ ~ (at[i + 1] <= t)
    <3>1. i \in 1..(n - 1) /\ i \in 1..n
      BY <1>1, <2>3
    <3>2. at[i + 1] = at[i] + d /\ at[i + 1] \in Int
      BY <1>1, <3>1
    <3>3. t < at[i] + d
      BY <2>3, <3>2
    <3>4. In(i)
      BY <1>5, <3>1, <3>3
    <3>5. PICK l \in 1..i : at[l] <= t /\ t < at[l] + d
      BY <3>4
    <3>6. l \in 1..(i + 1)
      OBVIOUS
    <3>7. QED
      BY <3>5, <3>6
  <2>4. QED
    BY <2>1, <2>2, <2>3
<1>6. Nat \subseteq P
  <2> HIDE DEF P
  <2>1. QED
    BY <1>4, <1>5, NatInd
<1>7. In(j)
  BY <1>3, <1>6
<1>8. PICK l \in 1..j : at[l] <= t /\ t < at[l] + d
  BY <1>7
<1>9. l \in 1..n
  BY <1>1, <1>3
<1>10. QED
  BY <1>2, <1>8, <1>9

\* What a chart was made of, and that this is in the tables now.
MadeOf(c, present, at, table, snapshots) ==
  \E noted, px, stored, ps, m :
    /\ Drawing(c, present, c.r, at, noted, px, stored, ps, m)
    /\ NotedIn(noted, at, InRange(table, present - c.r.span), c.r.step)
    /\ stored \subseteq snapshots /\ \A s \in stored : s.ts >= present - c.r.span
    /\ \A s \in snapshots : s.ts >= present - c.r.span /\ s.ts < present => s \in stored

\* Points of buckets that are over are as they were drawn.
AsDrawn(c, ps, at, m) ==
  \A i \in DOMAIN c.points : c.points[i].t + c.r.step <= c.at =>
    /\ i \in 1..Len(ps) /\ c.points[i] = ps[i] /\ m + i \in 1..Len(at)
    /\ ps[i].t = at[m + i]

LEMMA PastDrawn ==
  ASSUME NEW c, NEW present \in Nat, NEW r \in Ranges, NEW at, NEW noted, NEW px, NEW stored, NEW ps,
         NEW m, Drawing(c, present, r, at, noted, px, stored, ps, m)
  PROVE  AsDrawn(c, ps, at, m)
<1> SUFFICES ASSUME NEW i \in DOMAIN c.points, c.points[i].t + c.r.step <= c.at
             PROVE  /\ i \in 1..Len(ps) /\ c.points[i] = ps[i] /\ m + i \in 1..Len(at)
                    /\ ps[i].t = at[m + i]
  BY DEF AsDrawn
<1> PICK d \in Nat \ {0} : d = r.step
  BY RangeAssumption
<1> DEFINE fs == c.points
           n == Len(ps)
           live == c.live
<1>1. /\ c.at = present /\ c.r.step = d
      /\ Spaced(at, d, present) /\ Trail(ps, at, m) /\ Ends(fs, ps, live, present)
  BY DEF Drawing
<1>2. Times(ps, Len(ps), d, present)
  BY <1>1, TrailTimes
<1>3. n \in Nat /\ (\A k \in 1..n : ps[k].t \in Int) /\ (n > 0 => present < ps[n].t + d)
  BY <1>2 DEF Times
<1>4. /\ fs \in Seq(PointType) /\ Len(fs) \in Nat /\ i \in 1..Len(fs)
      /\ live = None => fs = ps
      /\ live # None =>
           /\ fs[Len(fs)].t = present
           /\ \A k \in 1..(n - 1) : fs[k] = ps[k]
           /\ Len(fs) = n \/ (Len(fs) = n + 1 /\ (n > 0 => fs[n].t = ps[n].t))
  BY <1>1 DEF Ends, Point
<1>5. fs[i].t + d <= present
  BY <1>1
<1> HIDE DEF fs, live
<1>6. i \in 1..n /\ fs[i] = ps[i]
  <2>1. CASE live = None
    BY <1>4, <2>1 DEF n
  <2>2. CASE live # None
    <3> HIDE DEF n
    <3>1. i # Len(fs)
      BY <1>4, <1>5, <2>2
    <3>2. i # n
      <4> SUFFICES ASSUME i = n PROVE FALSE
        OBVIOUS
      <4>1. n > 0 /\ Len(fs) = n + 1
        BY <1>3, <1>4, <2>2, <3>1
      <4>2. fs[n].t = ps[n].t /\ ps[n].t \in Int /\ present < ps[n].t + d
        BY <1>3, <1>4, <2>2, <4>1
      <4>3. QED
        BY <1>5, <4>2
    <3>3. i \in 1..(n - 1)
      BY <1>3, <1>4, <2>2, <3>1, <3>2
    <3>4. QED
      BY <1>3, <1>4, <2>2, <3>3
  <2>3. QED
    BY <2>1, <2>2
<1>7. m \in 0..Len(at) /\ n = Len(at) - m /\ Len(at) \in Nat /\ \A k \in 1..n : ps[k].t = at[m + k]
  <2>1. Len(at) \in Nat
    BY <1>1 DEF Spaced
  <2>2. m \in 0..Len(at) /\ Len(ps) = Len(at) - m /\ \A k \in 1..Len(ps) : ps[k].t = at[m + k]
    BY <1>1 DEF Trail
  <2>3. QED
    BY <2>1, <2>2
<1>8. m + i \in 1..Len(at) /\ ps[i].t = at[m + i]
  <2> HIDE DEF n
  <2>1. QED
    BY <1>6, <1>7
<1>9. QED
  BY <1>6, <1>8 DEF fs

InBucketOf(b, row, from, d) ==
  b.ts > from /\ b.ts \in Floor(row.ts, d)..(Floor(row.ts, d) + d - 1)

UpTo(before, table, from, first, end) ==
  before = {row \in table : row.ts > from /\ row.ts >= first /\ row.ts < end}

IsLast(row, before) == row \in before /\ \A q \in before : q.ts <= row.ts

\* The prices of the last bucket with ticks are those known, or none is.
LastNoted(before, from, t, d) ==
  /\ before = {} => NotedAt(t) = {}
  /\ \A row \in before, b \in quotes :
       IsLast(row, before) /\ InBucketOf(b, row, from, d) => b.px \in NotedAt(t)

LEMMA NotedIs ==
  ASSUME NEW t, NEW d, chart.r.step = d, NEW from, from = chart.at - chart.r.span,
         NEW first, first = Buckets(chart.r)[1], NEW end, end = t + d,
         NEW before, UpTo(before, quotes, from, first, end),
         \A row \in quotes : row.ts \in Int
  PROVE  LastNoted(before, from, t, d)
<1> DEFINE last == CHOOSE row \in before : \A q \in before : q.ts <= row.ts
<1>1. NotedAt(t) = IF before = {} THEN {}
                   ELSE {row.px : row \in TicksOf(Floor(last.ts, d))}
  <2>1. before = {row \in quotes : /\ row.ts > chart.at - chart.r.span
                                   /\ row.ts >= Buckets(chart.r)[1]
                                   /\ row.ts < t + chart.r.step}
    BY DEF UpTo
  <2>2. QED
    BY <2>1 DEF NotedAt
<1>2. ASSUME NEW row \in before, NEW b \in quotes, IsLast(row, before), InBucketOf(b, row, from, d)
      PROVE  b.px \in NotedAt(t)
  <2>1. last \in before /\ \A q \in before : q.ts <= last.ts
    <3>1. row \in before /\ \A q \in before : q.ts <= row.ts
      BY <1>2 DEF IsLast
    <3>2. QED
      BY <3>1, Zenon
  <2> HIDE DEF last
  <2>2. last.ts = row.ts
    BY <1>2, <2>1 DEF IsLast, UpTo
  <2>3. b \in TicksOf(Floor(last.ts, d))
    BY <1>2, <2>2 DEF TicksOf, InBucketOf
  <2>4. QED
    BY <1>1, <1>2, <2>3
<1>3. QED
  BY <1>1, <1>2 DEF LastNoted

\* What the buckets note of the rows of a range.
NotedFrom(noted, at, table, from, d) ==
  NotedIn(noted, at, InRange(table, from), d) /\ noted \in [1..Len(at) -> Nat]

Within(p, before, table, from, d, spot) ==
  \/ before = {} /\ p = spot
  \/ \E row \in before, a \in table :
       /\ IsLast(row, before)
       /\ InBucketOf(a, row, from, d) /\ Sanitize(spot, a.px) # a.px /\ p = spot
  \/ \E row \in before, a \in table, b \in table :
       /\ IsLast(row, before)
       /\ InBucketOf(a, row, from, d) /\ InBucketOf(b, row, from, d)
       /\ a.px <= p /\ p <= b.px

\* A bucket's price lies between ticks of the last bucket up to it that has
\* any, or is today's: there is none, or one of them is out of proportion.
LEMMA PriceNoted ==
  ASSUME NEW at, NEW d \in Nat \ {0}, NEW present, Spaced(at, d, present),
         NEW table, Ticks(table), NEW from \in Int, NEW spot \in Nat,
         NEW noted, NotedFrom(noted, at, table, from, d),
         NEW px, Carries(px, Len(at), noted, spot),
         NEW j \in 1..Len(at),
         NEW first, first = at[1], NEW end, end = at[j] + d,
         NEW before, UpTo(before, table, from, first, end)
  PROVE  Within(px[j], before, table, from, d, spot)
<1>0. /\ noted = [i \in 1..Len(at) |-> Noted(InRange(table, from), at[i], d)]
      /\ noted \in [1..Len(at) -> Nat]
      /\ before = {row \in table : row.ts > from /\ row.ts >= at[1] /\ row.ts < at[j] + d}
  BY DEF NotedFrom, NotedIn, UpTo
<1> DEFINE n == Len(at)
           R == InRange(table, from)
           here(l) == {row \in R : Floor(row.ts, d) = at[l]}
<1>1. /\ n \in Nat /\ \A i \in 1..n : at[i] \in Int
      /\ \A i \in 1..n, k \in 1..n : i < k => at[i] + d <= at[k]
      /\ \A i \in 1..n, t \in Int : Floor(t, d) = at[i] <=> at[i] <= t /\ t < at[i] + d
  BY DEF Spaced
<1>2. Ticks(R) /\ R \subseteq table /\ \A row \in R : row.ts > from
  <2>1. R \subseteq table /\ \A row \in R : row.ts > from
    BY DEF InRange
  <2>2. IsFiniteSet(R)
    BY <2>1, FS_Subset DEF Ticks
  <2> HIDE DEF R
  <2>3. QED
    BY <2>1, <2>2 DEF Ticks
<1>3. ASSUME NEW l \in 1..n
      PROVE  /\ here(l) = {} => noted[l] = None
             /\ here(l) # {} =>
                  /\ noted[l] \in Nat \ {0}
                  /\ \E a \in here(l), b \in here(l) : a.px <= noted[l] /\ noted[l] <= b.px
  <2>1. at[l] \in Int /\ noted[l] = Noted(R, at[l], d)
    BY <1>0, <1>1
  <2> PICK H : H = here(l)
    OBVIOUS
  <2> PICK t \in Int : t = at[l]
    BY <2>1
  <2>2. H = {row \in R : Floor(row.ts, d) = t}
    OBVIOUS
  <2> HIDE DEF R
  <2>3. /\ H = {} => Noted(R, t, d) = None
        /\ H # {} =>
             /\ Noted(R, t, d) \in Nat \ {0}
             /\ \E a \in H, b \in H : a.px <= Noted(R, t, d) /\ Noted(R, t, d) <= b.px
    BY <1>2, <2>2, NotedBetween
  <2> HIDE DEF here
  <2>4. QED
    BY <2>1, <2>3
<1>4. \A row \in table : row.ts \in Int /\ row.px \in Nat \ {0}
  BY DEF Ticks
<1>5. \A l \in 1..n : here(l) = {row \in table : /\ row.ts > from /\ at[l] <= row.ts
                                                /\ row.ts < at[l] + d}
  <2> TAKE l \in 1..n
  <2>1. R = {row \in table : row.ts > from}
    BY DEF InRange
  <2> HIDE DEF R
  <2>2. QED
    BY <1>1, <1>4, <2>1
<1>6. j \in 1..n /\ 1 \in 1..n
  <2>1. j \in 1..n
    OBVIOUS
  <2> HIDE DEF n
  <2>2. QED
    BY <1>1, <2>1
<1>7. Origin(px, j, noted, spot)
  BY <1>0, <1>1, PricesKnown
<1>8. \A row \in before : \E l \in 1..j : row \in here(l) /\ l \in 1..n
  <2> TAKE row \in before
  <2>1. row.ts \in Int /\ at[1] <= row.ts /\ row.ts < at[j] + d /\ row \in table /\ row.ts > from
    BY <1>0, <1>4
  <2>2. PICK l \in 1..j : at[l] <= row.ts /\ row.ts < at[l] + d
    BY <2>1, InBucket
  <2>3. l \in 1..n
    <3> HIDE DEF n
    <3>1. QED
      BY <1>1, <1>6
  <2>4. row \in here(l)
    BY <1>5, <2>1, <2>2, <2>3
  <2>5. QED
    BY <2>3, <2>4
<1> HIDE DEF here, n, R
<1>9. ASSUME px[j] = spot, \A l \in 1..j : noted[l] = None PROVE before = {}
  <2> SUFFICES ASSUME NEW row \in before PROVE FALSE
    OBVIOUS
  <2>1. PICK l \in 1..j : row \in here(l) /\ l \in 1..n
    BY <1>8
  <2>2. noted[l] # None
    BY <1>3, <2>1 DEF None
  <2>3. QED
    BY <1>9, <2>2
<1>10. ASSUME NEW l \in 1..j, noted[l] # None, px[j] = Sanitize(spot, noted[l]),
              \A k \in (l + 1)..j : noted[k] = None
       PROVE  \E row \in before, a \in table, b \in table :
                /\ \A q \in before : q.ts <= row.ts
                /\ InBucketOf(a, row, from, d) /\ InBucketOf(b, row, from, d)
                /\ \/ a.px <= px[j] /\ px[j] <= b.px
                   \/ /\ px[j] = spot
                      /\ Sanitize(spot, a.px) # a.px \/ Sanitize(spot, b.px) # b.px
  <2>1. l \in 1..n /\ l <= j
    BY <1>1, <1>6
  <2>2. here(l) # {}
    BY <1>3, <1>10, <2>1
  <2>3. PICK a \in here(l), b \in here(l) :
          noted[l] \in Nat \ {0} /\ a.px <= noted[l] /\ noted[l] <= b.px
    BY <1>3, <2>1, <2>2
  <2>4. /\ a \in table /\ a.ts > from /\ at[l] <= a.ts /\ a.ts < at[l] + d
        /\ b \in table /\ b.ts > from /\ at[l] <= b.ts /\ b.ts < at[l] + d
    BY <1>5, <2>1, <2>3
  <2>5. /\ Sanitize(spot, noted[l]) \in {spot, noted[l]}
        /\ \/ Sanitize(spot, noted[l]) = noted[l]
           \/ Sanitize(spot, a.px) # a.px \/ Sanitize(spot, b.px) # b.px
    <3>1. a.px \in Nat /\ b.px \in Nat /\ noted[l] \in Nat
      BY <1>4, <2>3, <2>4
    <3>2. QED
      BY <2>3, <3>1, SaneBetween DEF Sanitize
  <2>6. \/ a.px <= px[j] /\ px[j] <= b.px
        \/ /\ px[j] = spot
           /\ Sanitize(spot, a.px) # a.px \/ Sanitize(spot, b.px) # b.px
    BY <1>10, <2>3, <2>5
  <2>7. at[1] <= at[l] /\ at[l] <= at[j] /\ at[l] \in Int /\ at[1] \in Int /\ at[j] \in Int
    <3>1. at[l] \in Int /\ at[1] \in Int /\ at[j] \in Int
      BY <1>1, <1>6, <2>1
    <3>2. 1 = l \/ 1 < l
      BY <1>1, <2>1
    <3>3. l = j \/ l < j
      BY <1>1, <1>6, <2>1
    <3>4. 1 < l => at[1] + d <= at[l]
      BY <1>1, <1>6, <2>1
    <3>5. l < j => at[l] + d <= at[j]
      BY <1>1, <1>6, <2>1
    <3>6. QED
      BY <3>1, <3>2, <3>3, <3>4, <3>5
  <2>8. a.ts \in Int /\ b.ts \in Int
    BY <1>4, <2>4
  <2>9. a \in before
    <3>1. a.ts >= at[1] /\ a.ts < at[j] + d
      BY <2>4, <2>7, <2>8
    <3>2. QED
      BY <1>0, <2>4, <3>1
  <2>10. PICK row \in before : \A q \in before : q.ts <= row.ts
    <3> DEFINE f == [q \in before |-> q.ts]
    <3>1. IsFiniteSet(before)
      BY <1>0, FS_Subset DEF Ticks
    <3>2. f \in [before -> Int]
      BY <1>0, <1>4
    <3> HIDE DEF f
    <3>3. PICK row \in before : \A q \in before : f[q] <= f[row]
      BY <2>9, <3>1, <3>2, Extremes
    <3>4. QED
      BY <3>3 DEF f
  <2>11. PICK k \in 1..j : row \in here(k) /\ k \in 1..n
    BY <1>8
  <2>12. row \in table /\ row.ts \in Int /\ at[k] <= row.ts /\ row.ts < at[k] + d /\ a.ts <= row.ts
    BY <1>4, <1>5, <2>9, <2>10, <2>11
  <2>13. k = l
    <3>1. ~ (k < l)
      <4>1. k < l => at[k] + d <= at[l]
        BY <1>1, <2>1, <2>11
      <4>2. at[k] \in Int
        BY <1>1, <2>11
      <4>3. PICK x \in Int, y \in Int, z \in Int, w \in Int :
              x = at[k] /\ y = at[l] /\ z = a.ts /\ w = row.ts
        BY <2>7, <2>8, <2>12, <4>2
      <4>4. y <= z /\ z <= w /\ w < x + d
        BY <2>4, <2>12, <4>3
      <4>5. ~ (x + d <= y)
        BY <4>4
      <4>6. QED
        BY <4>1, <4>3, <4>5
    <3>2. ~ (l < k)
      <4>1. l < k => k \in (l + 1)..j
        BY <2>1, <2>11
      <4>2. noted[k] # None
        BY <1>3, <2>11 DEF None
      <4>3. QED
        BY <1>10, <4>1, <4>2
    <3>3. QED
      BY <2>1, <2>11, <3>1, <3>2
  <2>14. Floor(row.ts, d) = at[l]
    BY <1>1, <2>11, <2>12, <2>13
  <2>15. InBucketOf(a, row, from, d) /\ InBucketOf(b, row, from, d)
    BY <2>4, <2>7, <2>8, <2>14 DEF InBucketOf
  <2>16. QED
    BY <2>4, <2>6, <2>10, <2>15
<1>11. CASE px[j] = spot /\ \A l \in 1..j : noted[l] = None
  BY <1>9, <1>11 DEF Within
<1>12. CASE \E l \in 1..j : /\ noted[l] # None /\ px[j] = Sanitize(spot, noted[l])
                            /\ \A k \in (l + 1)..j : noted[k] = None
  BY <1>10, <1>12 DEF Within, IsLast
<1>13. QED
  BY <1>7, <1>11, <1>12 DEF Origin

\* What was made of snapshots shows nothing from later.
LEMMA SnapshotsHonest ==
  ASSUME clock \in Nat, chart.r \in Ranges, MadeOf(chart, clock, Buckets(chart.r), quotes, snaps),
         Ticks(quotes), Stored(snaps)
  PROVE  NothingFromLater
<1> SUFFICES ASSUME chart.source = "snapshots", NEW i \in Past
             PROVE  LET t == chart.points[i].t
                        usd == chart.points[i].usd
                    IN \/ WorthAt(t, usd, NotedAt(t))
                       \/ TodayStandsIn(t) /\ WorthAt(t, usd, {chart.spot})
  BY DEF NothingFromLater, FromStored
<1> PICK d \in Nat \ {0} : d = chart.r.step
  BY RangeAssumption
<1> PICK at : at = Buckets(chart.r)
  OBVIOUS
<1> PICK present \in Nat : present = clock
  OBVIOUS
<1> PICK c : c = chart
  OBVIOUS
<1> PICK r \in Ranges : r = chart.r
  OBVIOUS
<1>1. PICK noted, px, stored, ps, m :
        /\ Drawing(c, present, r, at, noted, px, stored, ps, m)
        /\ NotedIn(noted, at, InRange(quotes, present - r.span), d)
        /\ stored \subseteq snaps /\ \A s \in stored : s.ts >= present - r.span
        /\ \A s \in snaps : s.ts >= present - r.span /\ s.ts < present => s \in stored
  BY DEF MadeOf
<1> PICK from \in Int : from = present - r.span
  BY RangeAssumption
<1>2. i \in DOMAIN c.points /\ c.points[i].t + c.r.step <= c.at /\ c.r = r
  BY DEF Past
<1>3. /\ i \in 1..Len(ps) /\ c.points[i] = ps[i] /\ m + i \in 1..Len(at)
      /\ ps[i].t = at[m + i]
  <2>1. AsDrawn(c, ps, at, m)
    BY <1>1, PastDrawn
  <2>2. QED
    BY <1>2, <2>1 DEF AsDrawn
<1> PICK j \in 1..Len(at) : j = m + i
  BY <1>3
<1> PICK t : t = at[j]
  OBVIOUS
<1>4. /\ c.at = present /\ Spaced(at, d, present) /\ c.spot \in Nat
      /\ noted \in [1..Len(at) -> Nat] /\ Carries(px, Len(at), noted, c.spot)
      /\ \E s \in stored :
           /\ s.ts <= t /\ \A q \in stored : q.ts <= t => q.ts <= s.ts
           /\ ps[i].usd = Net(s.held) * px[j]
  BY <1>1, <1>3 DEF Drawing, ValuedThen
<1>5. t \in Int /\ t + d <= present
  BY <1>2, <1>3, <1>4 DEF Spaced
<1>6. PICK s \in stored : /\ s.ts <= t /\ \A q \in stored : q.ts <= t => q.ts <= s.ts
                          /\ ps[i].usd = Net(s.held) * px[j]
  BY <1>4
<1>7. chart.points[i].t = t /\ chart.points[i].usd = Net(s.held) * px[j]
  BY <1>3, <1>6
<1>8. s.held \in ValuedAt(t)
  <2> DEFINE older == {q \in snaps : q.ts <= t /\ q.ts >= chart.at - chart.r.span}
  <2>1. \A q \in older : q \in stored
    <3> SUFFICES ASSUME NEW q \in older PROVE q \in stored
      OBVIOUS
    <3>1. q.ts \in Int /\ q \in snaps /\ q.ts <= t /\ q.ts >= present - r.span
      BY <1>4 DEF Stored
    <3>2. q.ts < present
      BY <1>5, <3>1
    <3>3. QED
      BY <1>1, <3>1, <3>2
  <2>2. s \in older
    BY <1>1, <1>4, <1>6
  <2>3. \A q \in older : q.ts <= s.ts
    BY <1>6, <2>1
  <2> HIDE DEF older
  <2>4. ValuedAt(t) = {q.held : q \in {o \in older : \A p \in older : p.ts <= o.ts}}
    BY DEF ValuedAt, older
  <2>5. QED
    BY <2>2, <2>3, <2>4
<1>9. Net(s.held) \in Int
  BY <1>1, NetIs DEF Stored
<1>10. \A row \in quotes : row.ts \in Int /\ row.px \in Nat \ {0}
  BY DEF Ticks
<1> PICK x \in Int : x = Net(s.held)
  BY <1>9
<1> PICK v : v = px[j]
  OBVIOUS
<1>11. v \in Nat
  BY <1>4 DEF Carries
<1> PICK first : first = at[1]
  OBVIOUS
<1> PICK end : end = t + d
  OBVIOUS
<1> PICK old : old = {row \in quotes : row.ts > from /\ row.ts >= first /\ row.ts < end}
  OBVIOUS
<1>12. UpTo(old, quotes, from, first, end)
  BY DEF UpTo
<1>13. LastNoted(old, from, t, d)
  <2>1. from = chart.at - chart.r.span /\ chart.r.step = d /\ first = Buckets(chart.r)[1]
    BY <1>4
  <2>2. QED
    BY <1>10, <1>12, <2>1, NotedIs
<1> DEFINE usd == chart.points[i].usd
<1>14. usd = v * x /\ v * x \in Int
  BY <1>7, <1>11
<1> HIDE DEF usd
<1>15. Within(v, old, quotes, from, d, c.spot)
  <2> PICK table : table = quotes
    OBVIOUS
  <2> PICK spot \in Nat : spot = c.spot
    BY <1>4
  <2>1. NotedFrom(noted, at, table, from, d)
    BY <1>1, <1>4 DEF NotedFrom
  <2>2. Spaced(at, d, present) /\ Ticks(table) /\ Carries(px, Len(at), noted, spot)
    BY <1>4
  <2>3. UpTo(old, table, from, first, end) /\ end = at[j] + d
    BY <1>12
  <2>4. Within(px[j], old, table, from, d, spot)
    BY <2>1, <2>2, <2>3, PriceNoted
  <2>5. QED
    BY <2>4
<1>16. ASSUME v = c.spot PROVE WorthAt(t, usd, {chart.spot})
  <2>1. chart.spot * Net(s.held) <= usd /\ usd <= chart.spot * Net(s.held)
    BY <1>14, <1>16
  <2>2. QED
    BY <1>8, <2>1 DEF WorthAt
<1>17. CASE old = {} /\ v = c.spot
  BY <1>7, <1>13, <1>16, <1>17 DEF LastNoted, TodayStandsIn, usd
<1>18. CASE \E row \in old, a \in quotes :
              /\ IsLast(row, old)
              /\ InBucketOf(a, row, from, d) /\ Sanitize(c.spot, a.px) # a.px /\ v = c.spot
  <2>1. TodayStandsIn(t)
    BY <1>13, <1>18 DEF LastNoted, TodayStandsIn
  <2>2. QED
    BY <1>7, <1>16, <1>18, <2>1 DEF usd
<1>19. CASE \E row \in old, a \in quotes, b \in quotes :
              /\ IsLast(row, old)
              /\ InBucketOf(a, row, from, d) /\ InBucketOf(b, row, from, d)
              /\ a.px <= v /\ v <= b.px
  <2>1. PICK row \in old, a \in quotes, b \in quotes :
              /\ IsLast(row, old)
              /\ InBucketOf(a, row, from, d) /\ InBucketOf(b, row, from, d)
              /\ a.px <= v /\ v <= b.px
    BY <1>19
  <2>2. PICK lo \in NotedAt(t), hi \in NotedAt(t) : lo = a.px /\ hi = b.px
    BY <1>13, <2>1 DEF LastNoted
  <2>3. lo \in Nat /\ hi \in Nat /\ lo <= v /\ v <= hi
    BY <1>10, <2>1, <2>2
  <2>4. PICK l \in Int, h \in Int, y \in Int : l = lo /\ h = hi /\ y = v
    BY <1>11, <2>3
  <2>5. l <= y /\ y <= h
    BY <2>3, <2>4
  <2>6. (x >= 0 => l * x <= y * x) /\ (x < 0 => y * x <= l * x)
    BY <2>5, Grows
  <2>7. (x >= 0 => y * x <= h * x) /\ (x < 0 => h * x <= y * x)
    BY <2>5, Grows
  <2>8. x >= 0 => lo * Net(s.held) <= usd /\ usd <= hi * Net(s.held)
    BY <1>14, <2>4, <2>6, <2>7
  <2>9. x < 0 => hi * Net(s.held) <= usd /\ usd <= lo * Net(s.held)
    BY <1>14, <2>4, <2>6, <2>7
  <2>10. x >= 0 \/ x < 0
    OBVIOUS
  <2>11. WorthAt(t, usd, NotedAt(t))
    BY <1>8, <2>2, <2>8, <2>9, <2>10 DEF WorthAt
  <2>12. QED
    BY <1>7, <2>11 DEF usd
<1>20. QED
  BY <1>15, <1>17, <1>18, <1>19 DEF Within

\* Coins at a price in the ratio, and positions at today's.
LEMMA Weighed ==
  ASSUME NEW coins \in Nat, NEW defi \in Nat, NEW spot \in Nat, NEW v \in Nat,
         NEW R \in Nat, 1 <= R, v <= spot * R
  PROVE  coins * v + defi * spot <= (R * spot) * (coins + defi)
<1> PICK top \in Nat : top = R * spot
  OBVIOUS
<1>1. spot <= top
  <2>1. 1 * spot <= R * spot
    BY Grows
  <2>2. QED
    BY <2>1
<1>2. v <= top
  <2>1. R * spot = spot * R
    OBVIOUS
  <2>2. QED
    BY <2>1
<1>3. v * coins <= top * coins
  BY <1>2, Grows
<1>4. spot * defi <= top * defi
  BY <1>1, Grows
<1>5. PICK p \in Nat, q \in Nat, pp \in Nat, qq \in Nat :
        p = v * coins /\ q = spot * defi /\ pp = top * coins /\ qq = top * defi
  <2>1. v * coins \in Nat /\ spot * defi \in Nat /\ top * coins \in Nat /\ top * defi \in Nat
    OBVIOUS
  <2>2. QED
    BY <2>1
<1>6. coins * v = p /\ defi * spot = q /\ top * (coins + defi) = pp + qq
  BY <1>5
<1>7. p <= pp /\ q <= qq
  BY <1>3, <1>4, <1>5
<1>8. p + q <= pp + qq
  BY <1>7
<1>9. QED
  BY <1>6, <1>8

\* What was made of today's holdings is worth no more than they at the highest
\* price that is taken for sane.
LEMMA TodayContained ==
  ASSUME clock \in Nat, chart.r \in Ranges, MadeOf(chart, clock, Buckets(chart.r), quotes, snaps)
  PROVE  BadRowsContained
<1> SUFFICES ASSUME chart.source = "today", chart.spot # None, NEW i \in Past
             PROVE  chart.points[i].usd <= Ratio * chart.spot * Assets(chart.held)
  BY DEF BadRowsContained
<1> PICK at : at = Buckets(chart.r)
  OBVIOUS
<1> PICK present \in Nat : present = clock
  OBVIOUS
<1> PICK c : c = chart
  OBVIOUS
<1> PICK r \in Ranges : r = chart.r
  OBVIOUS
<1>1. PICK noted, px, stored, ps, m : Drawing(c, present, r, at, noted, px, stored, ps, m)
  BY DEF MadeOf
<1>2. i \in DOMAIN c.points /\ c.points[i].t + c.r.step <= c.at
  BY DEF Past
<1>3. /\ i \in 1..Len(ps) /\ c.points[i] = ps[i] /\ m + i \in 1..Len(at)
  <2>1. AsDrawn(c, ps, at, m)
    BY <1>1, PastDrawn
  <2>2. QED
    BY <1>2, <2>1 DEF AsDrawn
<1> PICK j \in 1..Len(at) : j = m + i
  BY <1>3
<1>4. /\ c.held \in [coins : Nat, defi : Int] /\ c.spot \in Nat /\ at \in Seq(Int)
      /\ noted \in [1..Len(at) -> Nat] /\ Carries(px, Len(at), noted, c.spot)
      /\ ps[i].usd = c.held.coins * px[j] + (IF c.held.defi > 0 THEN c.held.defi * c.spot ELSE 0)
  BY <1>1, <1>3 DEF Drawing, Spaced, ValuedToday
<1> PICK coins \in Nat : coins = c.held.coins
  BY <1>4
<1> PICK defi \in Nat : defi = IF c.held.defi > 0 THEN c.held.defi ELSE 0
  BY <1>4
<1> PICK spot \in Nat : spot = c.spot
  BY <1>4
<1> PICK v : v = px[j]
  OBVIOUS
<1>5. v \in Nat /\ v <= spot * Ratio
  <2>1. v \in Nat
    BY <1>4 DEF Carries
  <2> PICK n \in Nat : n = Len(at)
    BY <1>4
  <2>2. noted \in [1..n -> Nat] /\ Carries(px, n, noted, spot) /\ j \in 1..n
    BY <1>4
  <2>3. px[j] <= spot * Ratio
    BY <2>2, PricesKnown
  <2>4. QED
    BY <2>1, <2>3
<1>6. ps[i].usd = coins * v + defi * spot
  <2>1. 0 * spot = 0
    OBVIOUS
  <2>2. QED
    BY <1>4, <2>1
<1>7. Ratio \in Nat /\ 1 <= Ratio
  BY RatioAssumption
<1>8. coins * v + defi * spot <= (Ratio * spot) * (coins + defi)
  BY <1>5, <1>7, Weighed
<1>9. Assets(chart.held) = coins + defi
  BY DEF Assets
<1>10. chart.points[i].usd = coins * v + defi * spot
  BY <1>3, <1>6
<1>11. Ratio * chart.spot * Assets(chart.held) = (Ratio * spot) * (coins + defi)
  BY <1>9
<1>12. QED
  BY <1>8, <1>10, <1>11

\* The world, and the rows of both tables.
WorldOK ==
  /\ clock \in 0..MaxClock /\ mishaps \in 0..MaxMishaps
  /\ price \in [0..clock -> Prices] /\ was \in [0..clock -> Holdings]
  /\ IsFiniteSet(quotes) /\ \A row \in quotes : row.ts \in 0..clock /\ row.px \in Prices
  /\ IsFiniteSet(snaps)
  /\ \A s \in snaps : s.ts \in 0..clock /\ s.held \in Loadable
  /\ \A s, q \in snaps : s.ts = q.ts => s = q

\* And a chart was made of these rows.
ChartInv ==
  /\ WorldOK
  /\ chart # NoChart =>
       chart.r \in Ranges /\ MadeOf(chart, clock, Buckets(chart.r), quotes, snaps)

LEMMA LoadsHold ==
  ASSUME NEW held \in Loadable
  PROVE  held \in [coins : Nat, defi : Int]
<1>1. PICK h \in Holdings : held \in Loads(h)
  BY DEF Loadable
<1>2. h \in [coins : Nat, defi : Int]
  BY HoldingAssumption
<1>3. QED
  BY <1>1, <1>2 DEF Loads, Empty

LEMMA RowsKnown ==
  ASSUME NEW present \in Nat, NEW table, IsFiniteSet(table),
         \A row \in table : row.ts \in 0..present /\ row.px \in Prices
  PROVE  Ticks(table)
<1>1. ASSUME NEW row \in table PROVE row.ts \in Int /\ row.px \in Nat \ {0}
  <2>1. row.ts \in 0..present /\ row.px \in Prices
    OBVIOUS
  <2>2. row.ts \in Int
    BY <2>1
  <2>3. row.px \in Nat \ {0}
    BY <2>1, PriceAssumption, Zenon
  <2>4. QED
    BY <2>2, <2>3
<1>2. QED
  BY <1>1 DEF Ticks

LEMMA SnapsKnown ==
  ASSUME NEW present \in Nat, NEW table, IsFiniteSet(table),
         \A s \in table : s.ts \in 0..present /\ s.held \in Loadable,
         \A s, q \in table : s.ts = q.ts => s = q
  PROVE  Stored(table)
<1>1. \A s \in table : s.ts \in Int /\ s.held \in [coins : Nat, defi : Int]
  BY LoadsHold
<1>2. QED
  BY <1>1 DEF Stored

LEMMA WorldTables ==
  ASSUME WorldOK
  PROVE  clock \in Nat /\ Ticks(quotes) /\ Stored(snaps)
<1>1. clock \in Nat
  BY ChartBounds DEF WorldOK
<1> PICK present \in Nat : present = clock
  BY <1>1
<1>2. Ticks(quotes)
  <2> PICK table : table = quotes
    OBVIOUS
  <2>1. IsFiniteSet(table) /\ \A row \in table : row.ts \in 0..present /\ row.px \in Prices
    BY DEF WorldOK
  <2>2. Ticks(table)
    BY <2>1, RowsKnown
  <2>3. QED
    BY <2>2
<1>3. Stored(snaps)
  <2> PICK table : table = snaps
    OBVIOUS
  <2>1. /\ IsFiniteSet(table)
        /\ \A s \in table : s.ts \in 0..present /\ s.held \in Loadable
        /\ \A s, q \in table : s.ts = q.ts => s = q
    BY DEF WorldOK
  <2>2. Stored(table)
    BY <2>1, SnapsKnown
  <2>3. QED
    BY <2>2
<1>4. QED
  BY <1>1, <1>2, <1>3

\* A chart that was made of rows is whole.
LEMMA MadeWhole == ChartInv => ChartWhole
<1> SUFFICES ASSUME ChartInv PROVE ChartWhole
  OBVIOUS
<1>1. WorldOK
  BY DEF ChartInv
<1>2. CASE chart = NoChart
  <2>1. DOMAIN chart.points = {}
    BY <1>2 DEF NoChart
  <2>2. ChartTypeOK
    BY <1>1, <2>1 DEF WorldOK, ChartTypeOK
  <2>3. EndsInHeadline /\ NoHoles
    BY <1>2 DEF EndsInHeadline, NoHoles
  <2>4. QED
    BY <2>2, <2>3 DEF ChartWhole
<1>3. CASE chart # NoChart
  <2>1. chart.r \in Ranges /\ MadeOf(chart, clock, Buckets(chart.r), quotes, snaps) /\ clock \in Nat
    BY <1>1, <1>3, WorldTables DEF ChartInv
  <2> PICK c : c = chart
    OBVIOUS
  <2> PICK r \in Ranges : r = chart.r
    BY <2>1
  <2> PICK present \in Nat : present = clock
    BY <2>1
  <2>2. WholeOf(c)
    <3>1. PICK at, noted, px, stored, ps, m : Drawing(c, present, r, at, noted, px, stored, ps, m)
      BY <2>1 DEF MadeOf
    <3>2. QED
      BY <3>1, DrawingWhole
  <2> PICK ps : ps = c.points
    OBVIOUS
  <2>3. /\ ps \in Seq(PointType) /\ DOMAIN ps = 1..Len(ps) /\ Len(ps) \in Nat
        /\ \A i \in 1..(Len(ps) - 1) : ps[i].t < ps[i + 1].t
        /\ \A i \in 1..Len(ps) : ps[i].t <= c.at
        /\ c.live # None => Len(ps) > 0 /\ ps[Len(ps)] = Point(c.at, c.live)
        /\ \A i \in 1..(Len(ps) - 1) : ps[i].t + c.r.step <= c.at =>
             \/ ps[i + 1].t - ps[i].t = c.r.step
             \/ /\ i + 1 = Len(ps) /\ c.live # None
                /\ ps[i + 1].t - ps[i].t < c.r.step + Hour
        /\ c.live # None /\ c.source = "today" =>
             2 * ps[1].t <= 2 * (c.at - c.r.span) + c.r.step
    BY <2>2 DEF WholeOf
  <2>4. \A i \in DOMAIN chart.points : chart.points[i].t \in Int /\ chart.points[i].usd \in Int
    <3> SUFFICES ASSUME NEW i \in 1..Len(ps) PROVE ps[i].t \in Int /\ ps[i].usd \in Int
      BY <2>3
    <3>1. ps[i] \in PointType
      BY <2>3
    <3>2. QED
      BY <3>1 DEF PointType
  <2>5. ChartTypeOK
    BY <1>1, <2>4 DEF WorldOK, ChartTypeOK
  <2>6. EndsInHeadline
    BY <2>3 DEF EndsInHeadline
  <2>7. NoHoles
    <3>1. \A i \in Past \ {Len(ps)} :
            \/ ps[i + 1].t - ps[i].t = c.r.step
            \/ i + 1 = Len(ps) /\ c.live # None /\ ps[i + 1].t - ps[i].t < c.r.step + Hour
      <4> TAKE i \in Past \ {Len(ps)}
      <4>1. i \in 1..Len(ps) /\ i # Len(ps) /\ ps[i].t + c.r.step <= c.at
        BY <2>3 DEF Past
      <4>2. i \in 1..(Len(ps) - 1)
        BY <2>3, <4>1
      <4>3. QED
        BY <2>3, <4>1, <4>2
    <3>2. QED
      BY <2>3, <3>1 DEF NoHoles
  <2>8. QED
    BY <2>5, <2>6, <2>7 DEF ChartWhole
<1>4. QED
  BY <1>2, <1>3

\* And its past is honest.
LEMMA MadeHonest == ChartInv => PastHonest
<1> SUFFICES ASSUME ChartInv PROVE PastHonest
  OBVIOUS
<1>1. WorldOK
  BY DEF ChartInv
<1>2. CASE chart = NoChart
  BY <1>2 DEF PastHonest, NothingFromLater, FromStored, BadRowsContained
<1>3. CASE chart # NoChart
  BY <1>1, <1>3, WorldTables, SnapshotsHonest, TodayContained DEF ChartInv, PastHonest
<1>4. QED
  BY <1>2, <1>3

\* A chart request makes a chart c of what it reads.
Answers(r, table, stored, held, spot, live, at, px, chosen, c) ==
  /\ live = IF Net(held) > 0 THEN Net(held) * spot ELSE None
  /\ at = Buckets(r)
  /\ px = PricesAt(at, r.step, InRange(table, clock - r.span), spot)
  /\ chosen = Choose(at, stored, held, spot, px, live)
  /\ c = [at |-> clock, r |-> r, live |-> live, spot |-> spot, held |-> held,
          source |-> chosen.source, points |-> Final(chosen.points, live)]

LEMMA RequestDraws ==
  ASSUME clock \in Nat, NEW r \in Ranges, NEW table, Ticks(table), NEW stored, Stored(stored),
         NEW held \in [coins : Nat, defi : Int], NEW spot \in Nat,
         NEW live, NEW at, NEW px, NEW chosen, NEW c,
         Answers(r, table, stored, held, spot, live, at, px, chosen, c)
  PROVE  \E noted, m :
           /\ Drawing(c, clock, r, at, noted, px, stored, chosen.points, m)
           /\ NotedIn(noted, at, InRange(table, clock - r.span), r.step)
<1> PICK present \in Nat : present = clock
  OBVIOUS
<1>0. /\ live = IF Net(held) > 0 THEN Net(held) * spot ELSE None
      /\ at = Buckets(r)
      /\ px = PricesAt(at, r.step, InRange(table, clock - r.span), spot)
      /\ chosen = Choose(at, stored, held, spot, px, live)
      /\ c = [at |-> clock, r |-> r, live |-> live, spot |-> spot, held |-> held,
              source |-> chosen.source, points |-> Final(chosen.points, live)]
  BY DEF Answers
<1> PICK d \in Nat \ {0} : d = r.step
  BY RangeAssumption
<1> PICK n : n = Len(at)
  OBVIOUS
<1> PICK near : near = InRange(table, clock - r.span)
  OBVIOUS
<1> PICK noted : NotedIn(noted, at, near, d)
  BY DEF NotedIn
<1>1. Spaced(at, d, present) /\ n > 0 /\ 2 * at[1] <= 2 * (present - r.span) + d
  BY <1>0, BucketsSpaced
<1>2. at \in Seq(Int)
  BY <1>1 DEF Spaced
<1>3. Ticks(near)
  <2>1. near \subseteq table
    BY DEF InRange
  <2>2. IsFiniteSet(near)
    BY <2>1, FS_Subset DEF Ticks
  <2>3. QED
    BY <2>1, <2>2 DEF Ticks
<1>4. noted \in [1..n -> Nat] /\ Carries(px, n, noted, spot)
  <2> PICK prices : prices = PricesAt(at, d, near, spot)
    OBVIOUS
  <2>1. noted \in [1..n -> Nat] /\ Carries(prices, n, noted, spot)
    BY <1>2, <1>3, PricesCarry
  <2>2. px = prices
    BY <1>0
  <2>3. QED
    BY <2>1, <2>2
<1>5. live \in Nat /\ (live # None => spot # None)
  <2>1. Net(held) \in Int
    BY NetIs
  <2> PICK x \in Int : x = Net(held)
    BY <2>1
  <2>2. live = IF x > 0 THEN x * spot ELSE 0
    BY <1>0 DEF None
  <2>3. x > 0 => x * spot \in Nat
    OBVIOUS
  <2>4. spot = 0 => x * spot = 0
    OBVIOUS
  <2>5. QED
    BY <2>2, <2>3, <2>4 DEF None
<1>6. PICK old, today : old = FromSnapshots(at, stored, px) /\ today = FromToday(at, held, spot, px)
  OBVIOUS
<1>7. \/ chosen.source = "snapshots" /\ chosen.points = old
      \/ chosen.source = "today" /\ chosen.points = today
  BY <1>0, <1>6 DEF Choose
<1>8. /\ c.at = present /\ c.r = r /\ c.spot = spot /\ c.live = live /\ c.held = held
      /\ c.source = chosen.source /\ c.points = Final(chosen.points, live)
  BY <1>0
<1> PICK ps : ps = chosen.points
  OBVIOUS
<1> PICK fs : fs = c.points
  OBVIOUS
<1> DEFINE Values(m) ==
      \/ c.source = "snapshots" /\ ValuedThen(ps, at, stored, px, m)
      \/ /\ c.source = "today" /\ (c.spot # None => m = 0)
         /\ ValuedToday(ps, c.held, c.spot, px, m)
<1>9. \E m : Trail(ps, at, m) /\ Values(m)
  <2>1. CASE chosen.source = "snapshots" /\ chosen.points = old
    <3>1. PICK m : Trail(old, at, m) /\ ValuedThen(old, at, stored, px, m)
      BY <1>1, <1>4, <1>6, SnapshotsDrawn
    <3>2. QED
      BY <1>8, <2>1, <3>1
  <2>2. CASE chosen.source = "today" /\ chosen.points = today
    <3>1. PICK m : /\ Trail(today, at, m) /\ (spot # None => m = 0)
                   /\ ValuedToday(today, held, spot, px, m)
      BY <1>2, <1>4, <1>6, TodayDrawn
    <3>2. QED
      BY <1>8, <2>2, <3>1
  <2>3. QED
    BY <1>7, <2>1, <2>2
<1>10. PICK m : Trail(ps, at, m) /\ Values(m)
  BY <1>9
<1>11. Ends(fs, ps, live, present)
  <2>1. fs = Final(ps, live) /\ ps \in Seq(PointType)
    BY <1>8, <1>10 DEF Trail
  <2>2. QED
    BY <1>5, <2>1, Finished
<1>12. Drawing(c, present, r, at, noted, px, stored, ps, m)
  BY <1>1, <1>4, <1>5, <1>8, <1>10, <1>11 DEF Drawing
<1>13. QED
  BY <1>12

\* A row of a series of CoinGecko's.
LEMMA SeriesFinite ==
  ASSUME NEW T, IsFiniteSet(T), NEW said
  PROVE  IsFiniteSet({[ts |-> t, source |-> "coingecko", px |-> said[t]] : t \in T})
<1> DEFINE f == [t \in T |-> [ts |-> t, source |-> "coingecko", px |-> said[t]]]
           R == {[ts |-> t, source |-> "coingecko", px |-> said[t]] : t \in T}
<1>1. f \in Surjection(T, R)
  BY DEF Surjection
<1>2. QED
  BY <1>1, FS_Surjection

\* What CoinGecko may say is a price for every time up to now, or nothing.
LEMMA SaidTyped ==
  ASSUME WorldOK, NEW said \in Said
  PROVE  \A t \in DOMAIN said : t \in 0..clock /\ said[t] \in Prices
<1>1. price \in [0..clock -> Prices]
  BY DEF WorldOK
<1>2. CASE said = <<>>
  BY <1>2
<1>3. CASE said = price
  BY <1>1, <1>3
<1>4. CASE \E p \in Prices : said = [price EXCEPT ![clock] = p]
  BY <1>1, <1>4
<1>5. QED
  BY <1>2, <1>3, <1>4 DEF Said

\* A backfill adds rows of the range.
LEMMA BackfillTyped ==
  ASSUME WorldOK, NEW r \in Ranges, NEW said \in Said, NEW table, table = Backfilled(r, said)
  PROVE  IsFiniteSet(table) /\ \A row \in table : row.ts \in 0..clock /\ row.px \in Prices
<1>1. IsFiniteSet(quotes) /\ \A row \in quotes : row.ts \in 0..clock /\ row.px \in Prices
  BY DEF WorldOK
<1>2. CASE table = quotes
  BY <1>1, <1>2
<1>3. CASE table # quotes
  <2> DEFINE T == {u \in DOMAIN said : u > clock - r.span /\ ~ \E row \in quotes : row.ts = u}
             new == {[ts |-> t, source |-> "coingecko", px |-> said[t]] : t \in T}
  <2>1. table = quotes \cup new
    BY <1>3 DEF Backfilled
  <2>2. \A t \in T : t \in 0..clock /\ said[t] \in Prices
    BY SaidTyped
  <2>3. IsFiniteSet(T)
    <3>1. clock \in Nat
      BY ChartBounds DEF WorldOK
    <3>2. IsFiniteSet(0..clock)
      BY <3>1, FS_Interval
    <3>3. T \subseteq 0..clock
      BY <2>2
    <3> HIDE DEF T
    <3>4. QED
      BY <3>2, <3>3, FS_Subset
  <2>4. IsFiniteSet(new)
    <3> HIDE DEF T
    <3>1. QED
      BY <2>3, SeriesFinite
  <2>5. \A row \in new : row.ts \in 0..clock /\ row.px \in Prices
    <3> HIDE DEF T
    <3>1. QED
      BY <2>2
  <2> HIDE DEF new
  <2>6. IsFiniteSet(table)
    BY <1>1, <2>1, <2>4, FS_Union
  <2>7. QED
    BY <1>1, <2>1, <2>5, <2>6
<1>4. QED
  BY <1>2, <1>3

\* A save adds a row for now, if its hour has none.
LEMMA SavedTyped ==
  ASSUME WorldOK, NEW held \in Loadable, NEW table, table = Saved(held)
  PROVE  /\ IsFiniteSet(table)
         /\ \A s \in table : s.ts \in 0..clock /\ s.held \in Loadable
         /\ \A s, q \in table : s.ts = q.ts => s = q
         /\ snaps \subseteq table /\ \A s \in table : s \in snaps \/ s.ts = clock
<1>1. /\ IsFiniteSet(snaps)
      /\ \A s \in snaps : s.ts \in 0..clock /\ s.held \in Loadable
      /\ \A s, q \in snaps : s.ts = q.ts => s = q
      /\ clock \in 0..clock
  BY ChartBounds DEF WorldOK
<1>2. CASE table = snaps
  BY <1>1, <1>2
<1>3. CASE table # snaps
  <2> DEFINE new == [ts |-> clock, held |-> held]
  <2>1. table = snaps \cup {new} /\ \A s \in snaps : Floor(s.ts, Hour) # Floor(clock, Hour)
    BY <1>3 DEF Saved
  <2>2. new.ts = clock /\ new.held = held
    OBVIOUS
  <2> HIDE DEF new
  <2>3. \A s \in snaps : s.ts # new.ts
    BY <2>1, <2>2
  <2>4. IsFiniteSet(table)
    BY <1>1, <2>1, FS_AddElement
  <2>5. \A s \in table : s \in snaps \/ s = new
    BY <2>1
  <2>6. \A s \in table : s.ts \in 0..clock /\ s.held \in Loadable
    BY <1>1, <2>2, <2>5
  <2>7. \A s, q \in table : s.ts = q.ts => s = q
    BY <1>1, <2>3, <2>5
  <2>8. snaps \subseteq table /\ \A s \in table : s \in snaps \/ s.ts = clock
    BY <2>1, <2>2, <2>5
  <2>9. QED
    BY <2>4, <2>6, <2>7, <2>8
<1>4. QED
  BY <1>2, <1>3

LEMMA InitWhole == ChartInit => ChartInv
<1> SUFFICES ASSUME ChartInit PROVE ChartInv
  OBVIOUS
<1>1. /\ clock = 0 /\ mishaps = 0 /\ quotes = {} /\ snaps = {} /\ chart = NoChart
      /\ \E p \in Prices : price = [t \in {0} |-> p]
      /\ \E h \in Holdings : was = [t \in {0} |-> h]
  BY DEF ChartInit
<1>2. 0..0 = {0} /\ 0 \in 0..MaxClock /\ 0 \in 0..MaxMishaps
  BY ChartBounds
<1>3. price \in [0..clock -> Prices] /\ was \in [0..clock -> Holdings]
  BY <1>1, <1>2
<1>4. IsFiniteSet({})
  BY FS_EmptySet
<1>5. WorldOK
  BY <1>1, <1>2, <1>3, <1>4 DEF WorldOK
<1>6. QED
  BY <1>1, <1>5 DEF ChartInv

\* Time passes while no chart is shown.
LEMMA TimeWhole == ASSUME ChartInv, TimePasses PROVE ChartInv'
<1>1. WorldOK /\ clock \in Nat
  BY ChartBounds DEF ChartInv, WorldOK
<1>2. /\ clock' = clock + 1 /\ clock < MaxClock /\ chart' = NoChart
      /\ UNCHANGED <<quotes, snaps, mishaps>>
  BY DEF TimePasses, Unshown
<1>3. clock' \in 0..MaxClock /\ \A t \in 0..clock : t \in 0..clock'
  BY <1>1, <1>2, ChartBounds
<1>4. \A t \in 0..clock' : t = clock' \/ t \in 0..clock
  BY <1>1, <1>2
<1>5. price' \in [0..clock' -> Prices]
  <2>1. PICK p \in Prices : price' = [t \in 0..clock' |-> IF t = clock' THEN p ELSE price[t]]
    BY DEF TimePasses
  <2>2. \A t \in 0..clock : price[t] \in Prices
    BY <1>1 DEF WorldOK
  <2>3. QED
    BY <1>4, <2>1, <2>2
<1>6. was' \in [0..clock' -> Holdings]
  <2>1. PICK h \in Holdings : was' = [t \in 0..clock' |-> IF t = clock' THEN h ELSE was[t]]
    BY DEF TimePasses
  <2>2. \A t \in 0..clock : was[t] \in Holdings
    BY <1>1 DEF WorldOK
  <2>3. QED
    BY <1>4, <2>1, <2>2
<1>7. WorldOK'
  BY <1>1, <1>2, <1>3, <1>5, <1>6 DEF WorldOK
<1>8. QED
  BY <1>2, <1>7 DEF ChartInv

\* A tick is written down while no chart is shown.
LEMMA CollectWhole == ASSUME ChartInv, Collect PROVE ChartInv'
<1>1. WorldOK /\ clock \in 0..clock
  BY ChartBounds DEF ChartInv, WorldOK
<1>2. chart' = NoChart /\ UNCHANGED <<clock, price, was, snaps, mishaps>>
  BY DEF Collect, Unshown
<1> DEFINE new == [ts |-> clock, source |-> "pyth", px |-> price[clock]]
<1>3. new.ts \in 0..clock /\ new.px \in Prices
  BY <1>1 DEF WorldOK
<1>4. quotes' = quotes \/ quotes' = quotes \cup {new}
  BY DEF Collect
<1> HIDE DEF new
<1>5. IsFiniteSet(quotes')
  BY <1>1, <1>4, FS_AddElement DEF WorldOK
<1>6. \A row \in quotes' : row.ts \in 0..clock /\ row.px \in Prices
  BY <1>1, <1>3, <1>4 DEF WorldOK
<1>7. WorldOK'
  BY <1>1, <1>2, <1>5, <1>6 DEF WorldOK
<1>8. QED
  BY <1>2, <1>7 DEF ChartInv

LEMMA LoadTyped ==
  ASSUME WorldOK, NEW held \in Load
  PROVE  held \in Loadable /\ held \in [coins : Nat, defi : Int]
<1>1. was[clock] \in Holdings
  BY ChartBounds DEF WorldOK
<1>2. held \in Loads(was[clock])
  BY DEF Load, Loads
<1>3. held \in Loadable
  BY <1>1, <1>2 DEF Loadable
<1>4. QED
  BY <1>3, LoadsHold

\* A snapshot is saved while no chart is shown.
LEMMA CollectSnapshotWhole == ASSUME ChartInv, CollectSnapshot PROVE ChartInv'
<1>1. WorldOK
  BY DEF ChartInv
<1>2. chart' = NoChart /\ UNCHANGED <<clock, price, was, quotes>>
  BY DEF CollectSnapshot, Unshown
<1>3. PICK held \in Load : snaps' = Saved(held) /\ mishaps' = mishaps + InPart(held)
  BY DEF CollectSnapshot
<1>0. mishaps' \in 0..MaxMishaps
  <2>1. mishaps \in 0..MaxMishaps
    BY <1>1 DEF WorldOK
  <2>2. InPart(held) \in {0, 1} /\ (mishaps >= MaxMishaps => InPart(held) = 0)
    BY <2>1, ChartBounds DEF InPart, Load
  <2>3. QED
    BY <1>3, <2>1, <2>2, ChartBounds
<1> PICK table : table = Saved(held)
  OBVIOUS
<1>4. /\ IsFiniteSet(table)
      /\ \A s \in table : s.ts \in 0..clock /\ s.held \in Loadable
      /\ \A s, q \in table : s.ts = q.ts => s = q
  BY <1>1, LoadTyped, SavedTyped
<1>5. WorldOK'
  BY <1>0, <1>1, <1>2, <1>3, <1>4 DEF WorldOK
<1>6. QED
  BY <1>2, <1>5 DEF ChartInv

\* A request draws its chart of what it has read.
LEMMA RequestWhole == ASSUME ChartInv, NEW r \in Ranges, Request(r) PROVE ChartInv'
<1>1. WorldOK /\ clock \in Nat
  BY ChartBounds DEF ChartInv, WorldOK
<1>2. PICK held \in Load, spot \in {price[clock], None}, said \in Said :
        LET table == Backfilled(r, said)
            live == IF Net(held) > 0 THEN Net(held) * spot ELSE None
            at == Buckets(r)
            px == PricesAt(at, r.step, InRange(table, clock - r.span), spot)
            chosen == Choose(at, {s \in snaps : s.ts >= clock - r.span}, held, spot, px, live)
            failures == (IF held = was[clock] THEN 0 ELSE 1) + (IF spot = None THEN 1 ELSE 0)
                        + (IF table = quotes \/ said = price THEN 0 ELSE 1)
        IN /\ mishaps + failures <= MaxMishaps /\ mishaps' = mishaps + failures
           /\ quotes' = table /\ snaps' = Saved(held)
           /\ chart' = [at |-> clock, r |-> r, live |-> live, spot |-> spot, held |-> held,
                        source |-> chosen.source, points |-> Final(chosen.points, live)]
           /\ UNCHANGED <<clock, price, was>>
  BY DEF Request, Final
<1>3. PICK table, live, at, px, stored, chosen, c, saved :
        /\ table = Backfilled(r, said)
        /\ stored = {s \in snaps : s.ts >= clock - r.span}
        /\ Answers(r, table, stored, held, spot, live, at, px, chosen, c)
        /\ saved = Saved(held) /\ at = Buckets(r) /\ c.r = r
        /\ \E failures \in Nat : mishaps + failures <= MaxMishaps /\ mishaps' = mishaps + failures
        /\ quotes' = table /\ snaps' = saved /\ chart' = c
        /\ clock' = clock /\ price' = price /\ was' = was
  <2> PICK table : table = Backfilled(r, said)
    OBVIOUS
  <2> PICK live : live = IF Net(held) > 0 THEN Net(held) * spot ELSE None
    OBVIOUS
  <2> PICK at : at = Buckets(r)
    OBVIOUS
  <2> PICK px : px = PricesAt(at, r.step, InRange(table, clock - r.span), spot)
    OBVIOUS
  <2> PICK stored : stored = {s \in snaps : s.ts >= clock - r.span}
    OBVIOUS
  <2> PICK chosen : chosen = Choose(at, stored, held, spot, px, live)
    OBVIOUS
  <2> PICK c : c = [at |-> clock, r |-> r, live |-> live, spot |-> spot, held |-> held,
                    source |-> chosen.source, points |-> Final(chosen.points, live)]
    OBVIOUS
  <2>1. Answers(r, table, stored, held, spot, live, at, px, chosen, c)
    BY DEF Answers
  <2>2. /\ \E failures \in Nat :
             mishaps + failures <= MaxMishaps /\ mishaps' = mishaps + failures
        /\ quotes' = table /\ snaps' = Saved(held) /\ chart' = c
        /\ clock' = clock /\ price' = price /\ was' = was
    BY <1>2
  <2>3. c.r = r
    OBVIOUS
  <2>4. QED
    BY <2>1, <2>2, <2>3
<1>4. held \in Loadable /\ held \in [coins : Nat, defi : Int]
  BY <1>1, LoadTyped
<1>5. spot \in Nat
  <2>1. price[clock] \in Prices
    BY <1>1 DEF WorldOK
  <2>2. price[clock] \in Nat
    BY <2>1, PriceAssumption, Zenon
  <2>3. QED
    BY <2>2 DEF None
<1>6. IsFiniteSet(table) /\ \A row \in table : row.ts \in 0..clock /\ row.px \in Prices
  BY <1>1, <1>3, BackfillTyped
<1>7. /\ IsFiniteSet(saved)
      /\ \A s \in saved : s.ts \in 0..clock /\ s.held \in Loadable
      /\ \A s, q \in saved : s.ts = q.ts => s = q
      /\ snaps \subseteq saved /\ \A s \in saved : s \in snaps \/ s.ts = clock
  BY <1>1, <1>3, <1>4, SavedTyped
<1>8. mishaps' \in 0..MaxMishaps
  <2>1. mishaps \in 0..MaxMishaps
    BY <1>1 DEF WorldOK
  <2>2. QED
    BY <1>3, <2>1, ChartBounds
<1>9. WorldOK'
  BY <1>1, <1>3, <1>6, <1>7, <1>8 DEF WorldOK
<1>10. Ticks(table) /\ Stored(stored)
  <2>1. Ticks(table)
    BY <1>1, <1>6, RowsKnown
  <2>2. Stored(snaps)
    BY <1>1, WorldTables
  <2>3. IsFiniteSet(stored) /\ stored \subseteq snaps
    <3>1. stored \subseteq snaps
      BY <1>3
    <3>2. QED
      BY <2>2, <3>1, FS_Subset DEF Stored
  <2>4. QED
    BY <2>1, <2>2, <2>3 DEF Stored
<1>11. PICK noted, m :
         /\ Drawing(c, clock, r, at, noted, px, stored, chosen.points, m)
         /\ NotedIn(noted, at, InRange(table, clock - r.span), r.step)
  <2>1. Answers(r, table, stored, held, spot, live, at, px, chosen, c)
    BY <1>3
  <2>2. QED
    BY <1>1, <1>4, <1>5, <1>10, <2>1, RequestDraws
<1>12. /\ stored \subseteq saved /\ \A s \in stored : s.ts >= clock - r.span
       /\ \A s \in saved : s.ts >= clock - r.span /\ s.ts < clock => s \in stored
  BY <1>1, <1>3, <1>7
<1>13. MadeOf(c, clock, at, table, saved)
  BY <1>3, <1>11, <1>12 DEF MadeOf
<1>14. Buckets(chart.r)' = at
  BY <1>3 DEF Buckets, Floor
<1>15. QED
  BY <1>3, <1>9, <1>13, <1>14 DEF ChartInv

LEMMA NextWhole == ChartInv /\ [ChartNext]_chartVars => ChartInv'
<1> SUFFICES ASSUME ChartInv, [ChartNext]_chartVars PROVE ChartInv'
  OBVIOUS
<1>1. CASE TimePasses
  BY <1>1, TimeWhole
<1>2. CASE Collect
  BY <1>2, CollectWhole
<1>3. CASE CollectSnapshot
  BY <1>3, CollectSnapshotWhole
<1>4. CASE Close
  BY <1>4 DEF Close, ChartInv, WorldOK
<1>5. CASE \E r \in Ranges : Request(r)
  BY <1>5, RequestWhole
<1>6. CASE \E r \in Ranges : Compare(r.span)
  BY <1>6 DEF Compare, ChartInv, WorldOK
<1>7. CASE UNCHANGED chartVars
  <2>1. /\ chart' = chart /\ clock' = clock /\ quotes' = quotes /\ snaps' = snaps
        /\ UNCHANGED <<price, was, mishaps>>
    BY <1>7 DEF chartVars
  <2>2. WorldOK'
    BY <2>1 DEF ChartInv, WorldOK
  <2>3. Buckets(chart.r)' = Buckets(chart.r)
    BY <2>1 DEF Buckets, Floor
  <2>4. QED
    BY <2>1, <2>2, <2>3 DEF ChartInv
<1>8. QED
  BY <1>1, <1>2, <1>3, <1>4, <1>5, <1>6, <1>7 DEF ChartNext

LEMMA SpecWhole == ChartSpec => []ChartInv
<1>1. QED
  BY InitWhole, NextWhole, PTL DEF ChartSpec

\* Whatever the tables hold when it is asked for, the points of a chart
\* (generateChartData) are in the order of time, leave out no bucket after the
\* first of them, and end at the value shown over the chart.
THEOREM ChartsAreWhole == ChartSpec => []ChartWhole
BY SpecWhole, MadeWhole, PTL

\* Whatever rows the tables have, a chart's past is accounted for: a point drawn
\* from snapshots is what the last one before it held, at prices noted in its
\* bucket or last before it, and at today's price if none was or one of them is
\* out of all proportion to it (buildHistoricalPriceMaps, sanitizeTickPrice); one
\* drawn from today's holdings is within the ratio of what they are worth now.
THEOREM ChartsPastIsHonest == ChartSpec => []PastHonest
BY SpecWhole, MadeHonest, PTL

-----------------------------------------------------------------------------
(* PortfolioSnapshots: an hour has no more rows than savers.               *)

\* The rows of an hour, and who is about to insert one.
HourRows(o, h) == {s \in rows : s.owner = o /\ HourOf(s) = h}
HourSavers(o, h) ==
  {w \in Writers : /\ writer[w].phase = "saving"
                   /\ writer[w].owner = o
                   /\ HourOf(writer[w]) = h}

\* An hour that is asked about is not after the clock's.
AsksPast == \A w \in Writers :
  writer[w].phase = "asking" => writer[w].hourStart <= HourStart(now)

RoomForSavers == \A o \in Wallets, h \in Nat :
  Cardinality(HourRows(o, h)) + Cardinality(HourSavers(o, h)) <= Cardinality(Writers)

SInv == TypeOK /\ IsFiniteSet(rows) /\ AsksPast /\ RoomForSavers

USE WalletAssumption, TimeAssumption, WriterAssumption

-----------------------------------------------------------------------------
\* The hours of the clock.
LEMMA HourDivision ==
  ASSUME NEW t \in Nat
  PROVE  /\ t \div HourLen \in Nat
         /\ t % HourLen \in 0..(HourLen - 1)
         /\ t = HourLen * (t \div HourLen) + (t % HourLen)
         /\ HourStart(t) = HourLen * (t \div HourLen)
         /\ HourStart(t) \in Nat
BY DEF HourStart

\* A longer run of hours is longer by an hour at least.
LEMMA Product ==
  ASSUME NEW i \in Nat, NEW j \in Nat, NEW d \in Nat, i < j
  PROVE  d * i + d <= d * j
<1>1. PICK k \in Nat : j = i + 1 + k
  <2>1. j - i - 1 \in Nat /\ j = i + 1 + (j - i - 1)
    OBVIOUS
  <2>. QED  BY <2>1
<1>2. d * j = d * i + d + d * k /\ d * k \in Nat
  BY <1>1
<1>. QED  BY <1>2

\* A later time is in no earlier hour.
LEMMA HourMonotone ==
  ASSUME NEW s \in Nat, NEW t \in Nat, s <= t
  PROVE  HourStart(s) <= HourStart(t)
<1> DEFINE q == s \div HourLen
           r == t \div HourLen
<1>1. /\ q \in Nat /\ s = HourLen * q + (s % HourLen)
      /\ s % HourLen \in 0..(HourLen - 1) /\ HourStart(s) = HourLen * q
  BY HourDivision
<1>2. /\ r \in Nat /\ t = HourLen * r + (t % HourLen)
      /\ t % HourLen \in 0..(HourLen - 1) /\ HourStart(t) = HourLen * r
  BY HourDivision
<1>3. HourLen * q \in Nat /\ HourLen * r \in Nat /\ HourLen \in Nat
  BY <1>1, <1>2
<1> HIDE DEF q, r
<1>4. HourLen * q <= s /\ t < HourLen * r + HourLen
      /\ HourStart(s) = HourLen * q /\ HourStart(t) = HourLen * r
  BY <1>1, <1>2, <1>3
<1>5. CASE q <= r
  <2>1. CASE q = r
    BY <1>3, <1>4, <2>1
  <2>2. CASE q < r
    <3>1. HourLen * q + HourLen <= HourLen * r
      BY <1>1, <1>2, <2>2, Product
    <3>. QED  BY <1>3, <1>4, <3>1
  <2>. QED  BY <1>1, <1>2, <1>5, <2>1, <2>2
<1>6. CASE r < q
  <2>1. HourLen * r + HourLen <= HourLen * q
    BY <1>1, <1>2, <1>6, Product
  <2>. QED  BY <1>3, <1>4, <2>1
<1>. QED  BY <1>1, <1>2, <1>5, <1>6

-----------------------------------------------------------------------------
\* There are finitely many savers.
LEMMA WritersFinite == IsFiniteSet(Writers) /\ Cardinality(Writers) \in Nat
BY FS_Union, FS_CardinalityType DEF Writers

\* So there are in an hour, and its rows are counted.
LEMMA SetsFinite ==
  ASSUME IsFiniteSet(rows), NEW o, NEW h
  PROVE  /\ IsFiniteSet(HourRows(o, h)) /\ Cardinality(HourRows(o, h)) \in Nat
         /\ IsFiniteSet(HourSavers(o, h)) /\ Cardinality(HourSavers(o, h)) \in Nat
         /\ Cardinality(HourSavers(o, h)) <= Cardinality(Writers)
<1>1. HourRows(o, h) \subseteq rows /\ HourSavers(o, h) \subseteq Writers
  BY DEF HourRows, HourSavers
<1>. QED  BY <1>1, WritersFinite, FS_Subset, FS_CardinalityType

\* Nobody has begun to save, and nothing is inserted.
LEMMA NoNewSaver ==
  ASSUME SInv, UNCHANGED rows,
         \A w \in Writers : writer'[w].phase = "saving" => writer'[w] = writer[w]
  PROVE  RoomForSavers'
<1>. SUFFICES ASSUME NEW o \in Wallets, NEW h \in Nat
              PROVE  Cardinality(HourRows(o, h)') + Cardinality(HourSavers(o, h)')
                       <= Cardinality(Writers)
  BY DEF RoomForSavers, Writers
<1>1. HourRows(o, h)' = HourRows(o, h) /\ HourSavers(o, h)' \subseteq HourSavers(o, h)
  BY DEF HourRows, HourSavers, HourOf
<1>2. Cardinality(HourRows(o, h)') \in Nat /\ Cardinality(HourSavers(o, h)') \in Nat
      /\ Cardinality(HourSavers(o, h)') <= Cardinality(HourSavers(o, h))
  BY <1>1, SetsFinite, FS_Subset, FS_CardinalityType DEF SInv
<1>. QED  BY <1>1, <1>2, SetsFinite, WritersFinite DEF SInv, RoomForSavers

\* Who saves nothing.
LEMMA IdleType == Idle \in Save /\ Idle.phase = "idle"
BY DEF Idle, Save, Phases

\* The tables before the first save.
LEMMA InitSInv == Init => SInv
<1>. SUFFICES ASSUME Init PROVE SInv
  OBVIOUS
<1>. USE DEF Init, NobodyBusy
<1>1. TypeOK
  BY IdleType DEF TypeOK
<1>2. IsFiniteSet(rows)
  BY FS_EmptySet
<1>3. AsksPast
  BY IdleType DEF AsksPast
<1>4. RoomForSavers
  <2>. SUFFICES ASSUME NEW o \in Wallets, NEW h \in Nat
                PROVE  Cardinality(HourRows(o, h)) + Cardinality(HourSavers(o, h))
                         <= Cardinality(Writers)
    BY DEF RoomForSavers
  <2>1. HourRows(o, h) = {}
    BY DEF HourRows
  <2>. QED  BY <1>2, <2>1, SetsFinite, WritersFinite, FS_EmptySet
<1>. QED  BY <1>1, <1>2, <1>3, <1>4 DEF SInv

-----------------------------------------------------------------------------
(* The saver's steps.                                                      *)

\* The state is built.
LEMMA LoadedSInv ==
  ASSUME SInv, NEW w \in Writers, Loaded(w)
  PROVE  SInv'
<1>. USE DEF Loaded
<1>0. writer \in [Writers -> Save] /\ now \in Nat
  BY DEF SInv, TypeOK
<1>1. HourStart(now) \in Nat
  BY <1>0, HourDivision
<1>2. writer' \in [Writers -> Save]
  BY <1>0, <1>1 DEF Save, Phases
<1>3. TypeOK' /\ IsFiniteSet(rows)'
  BY <1>2 DEF SInv, TypeOK
<1>4. AsksPast'
  BY <1>0, <1>1 DEF SInv, AsksPast, Save, HourStart
<1>5. RoomForSavers'
  BY <1>0, NoNewSaver DEF Save
<1>. QED  BY <1>3, <1>4, <1>5 DEF SInv

\* A writer stops.
LEMMA FinishSInv ==
  ASSUME SInv, NEW w \in Writers, Finish(w), UNCHANGED <<now, rows, queue, started>>,
         ticks' \in Nat, faults' \in Nat
  PROVE  SInv'
<1>. USE DEF Finish
<1>0. writer \in [Writers -> Save] /\ now \in Nat
  BY DEF SInv, TypeOK
<1>1. writer' \in [Writers -> Save]
  BY <1>0, IdleType
<1>2. TypeOK' /\ IsFiniteSet(rows)'
  BY <1>1 DEF SInv, TypeOK
<1>3. AsksPast'
  BY <1>0, IdleType DEF SInv, AsksPast, HourStart
<1>4. RoomForSavers'
  BY <1>0, IdleType, NoNewSaver
<1>. QED  BY <1>2, <1>3, <1>4 DEF SInv

\* A writer starts to load.
LEMMA BeginSInv ==
  ASSUME SInv, NEW w \in Writers, NEW o \in Wallets, Begin(w, o),
         UNCHANGED <<now, rows, started, ticks, faults>>,
         queue' \in [Collectors -> SUBSET Wallets]
  PROVE  SInv'
<1>. USE DEF Begin
<1>0. writer \in [Writers -> Save] /\ now \in Nat
  BY DEF SInv, TypeOK
<1>1. writer' \in [Writers -> Save] /\ writer'[w].phase = "loading"
  BY <1>0, IdleType DEF Idle, Save, Phases
<1>2. TypeOK' /\ IsFiniteSet(rows)'
  BY <1>1 DEF SInv, TypeOK
<1>3. AsksPast'
  BY <1>0, <1>1 DEF SInv, AsksPast, HourStart
<1>4. RoomForSavers'
  BY <1>0, <1>1, NoNewSaver
<1>. QED  BY <1>2, <1>3, <1>4 DEF SInv

\* No row since the hour it asked for: none in the clock's hour, and as many
\* savers as there are writers at most.
LEMMA AskSInv ==
  ASSUME SInv, NEW w \in Writers, Ask(w)
  PROVE  SInv'
<1>0. /\ writer \in [Writers -> Save] /\ now \in Nat /\ rows \subseteq Row
      /\ IsFiniteSet(rows)
  BY DEF SInv, TypeOK
<1>1. CASE \E r \in rows : r.owner = writer[w].owner /\ r.ts >= writer[w].hourStart
  BY <1>1, FinishSInv DEF Ask, SInv, TypeOK
<1>2. CASE ~ \E r \in rows : r.owner = writer[w].owner /\ r.ts >= writer[w].hourStart
  <2>. USE <1>2 DEF Ask
  <2>0. /\ writer[w].phase = "asking"
        /\ writer' = [writer EXCEPT ![w].phase = "saving", ![w].ts = now]
        /\ UNCHANGED <<now, rows, queue, started, ticks, faults>>
    OBVIOUS
  <2>1. writer' \in [Writers -> Save]
    BY <1>0, <2>0 DEF Save, Phases
  <2>2. TypeOK' /\ IsFiniteSet(rows)'
    BY <2>0, <2>1 DEF SInv, TypeOK
  <2>3. AsksPast'
    BY <1>0, <2>0 DEF SInv, AsksPast, Save, HourStart
  <2>4. RoomForSavers'
    <3>. SUFFICES ASSUME NEW o \in Wallets, NEW h \in Nat
                  PROVE  Cardinality(HourRows(o, h)') + Cardinality(HourSavers(o, h)')
                           <= Cardinality(Writers)
      BY DEF RoomForSavers, Writers
    <3>0. HourRows(o, h)' = HourRows(o, h)
      BY <2>0 DEF HourRows, HourOf
    <3>1. CASE o = writer[w].owner /\ h = now \div HourLen
      <4>1. writer[w].hourStart \in Nat /\ writer[w].hourStart <= HourLen * h
        BY <1>0, <2>0, <3>1, HourDivision DEF SInv, AsksPast, Save
      <4>2. ASSUME NEW s \in rows, s.owner = o, HourOf(s) = h  PROVE FALSE
        <5>1. s.ts \in Nat /\ s.ts \div HourLen = h
          BY <1>0, <4>2 DEF Row, HourOf
        <5>2. s.ts >= HourLen * h
          <6>1. s.ts = HourLen * h + (s.ts % HourLen) /\ s.ts % HourLen \in Nat
            BY <5>1, HourDivision
          <6>2. HourLen * h \in Nat
            OBVIOUS
          <6>. QED  BY <6>1, <6>2
        <5>3. s.ts >= writer[w].hourStart
          BY <4>1, <5>1, <5>2
        <5>. QED  BY <1>2, <3>1, <4>2, <5>3
      <4>3. HourRows(o, h) = {}
        BY <4>2 DEF HourRows
      <4>4. Cardinality(HourSavers(o, h)') \in Nat
            /\ Cardinality(HourSavers(o, h)') <= Cardinality(Writers)
        <5>1. HourSavers(o, h)' \subseteq Writers
          BY DEF HourSavers, Writers
        <5>. QED  BY <5>1, WritersFinite, FS_Subset, FS_CardinalityType
      <4>. QED  BY <3>0, <4>3, <4>4, FS_EmptySet, WritersFinite
    <3>2. CASE ~ (o = writer[w].owner /\ h = now \div HourLen)
      <4>1. HourSavers(o, h)' \subseteq HourSavers(o, h)
        BY <1>0, <2>0, <3>2 DEF HourSavers, HourOf, Save, Writers
      <4>2. Cardinality(HourSavers(o, h)') \in Nat
            /\ Cardinality(HourSavers(o, h)') <= Cardinality(HourSavers(o, h))
        BY <1>0, <4>1, SetsFinite, FS_Subset, FS_CardinalityType
      <4>. QED  BY <1>0, <3>0, <4>2, SetsFinite, WritersFinite DEF SInv, RoomForSavers
    <3>. QED  BY <3>1, <3>2
  <2>. QED  BY <2>2, <2>3, <2>4 DEF SInv
<1>. QED  BY <1>1, <1>2

\* A saver becomes a row, or the row was there.
LEMMA InsertSInv ==
  ASSUME SInv, NEW w \in Writers, Insert(w)
  PROVE  SInv'
<1>. USE DEF Insert, Finish
<1> DEFINE new == [owner |-> writer[w].owner, ts |-> writer[w].ts]
<1>0. /\ writer \in [Writers -> Save] /\ now \in Nat /\ rows \subseteq Row
      /\ IsFiniteSet(rows)
  BY DEF SInv, TypeOK
<1>1. new \in Row /\ writer' \in [Writers -> Save]
  BY <1>0, IdleType DEF Row, Save
<1>2. TypeOK'
  BY <1>0, <1>1 DEF SInv, TypeOK
<1>3. IsFiniteSet(rows')
  BY <1>0, FS_AddElement
<1>4. AsksPast'
  BY <1>0, IdleType DEF SInv, AsksPast, HourStart
<1>5. RoomForSavers'
  <2>. SUFFICES ASSUME NEW o \in Wallets, NEW h \in Nat
                PROVE  Cardinality(HourRows(o, h)') + Cardinality(HourSavers(o, h)')
                         <= Cardinality(Writers)
    BY DEF RoomForSavers, Writers
  <2>0. Cardinality(HourRows(o, h)) + Cardinality(HourSavers(o, h)) <= Cardinality(Writers)
    BY DEF SInv, RoomForSavers
  <2>1. CASE w \in HourSavers(o, h)
    <3>1. HourSavers(o, h)' = HourSavers(o, h) \ {w}
      BY <1>0, IdleType DEF HourSavers, HourOf, Writers
    <3>2. HourRows(o, h)' = HourRows(o, h) \cup {new}
      BY <2>1 DEF HourRows, HourSavers, HourOf
    <3>3. /\ IsFiniteSet(HourRows(o, h)) /\ Cardinality(HourRows(o, h)) \in Nat
          /\ IsFiniteSet(HourSavers(o, h))
      BY <1>0, SetsFinite
    <3>4. Cardinality(HourSavers(o, h) \ {w}) = Cardinality(HourSavers(o, h)) - 1
      BY <2>1, <3>3, FS_RemoveElement
    <3>5. Cardinality(HourSavers(o, h)') = Cardinality(HourSavers(o, h)) - 1
      BY <3>1, <3>4
    <3>6. Cardinality(HourRows(o, h)') \in Nat
          /\ Cardinality(HourRows(o, h)') <= Cardinality(HourRows(o, h)) + 1
      <4>1. Cardinality(HourRows(o, h) \cup {new}) \in
              {Cardinality(HourRows(o, h)), Cardinality(HourRows(o, h)) + 1}
        BY <3>3, FS_AddElement
      <4>. QED  BY <3>2, <3>3, <4>1
    <3>. QED  BY <1>0, <2>0, <3>5, <3>6, SetsFinite, WritersFinite
  <2>2. CASE w \notin HourSavers(o, h)
    <3>1. HourSavers(o, h)' = HourSavers(o, h)
      BY <1>0, <2>2, IdleType DEF HourSavers, HourOf, Writers
    <3>2. HourRows(o, h)' = HourRows(o, h)
      BY <2>2 DEF HourRows, HourSavers, HourOf
    <3>. QED  BY <2>0, <3>1, <3>2
  <2>. QED  BY <2>1, <2>2
<1>. QED  BY <1>2, <1>3, <1>4, <1>5 DEF SInv

-----------------------------------------------------------------------------
\* Steps that save nothing.
LEMMA ClockSInv == ASSUME SInv, Tick PROVE SInv'
<1>. USE DEF Tick
<1>0. now \in Nat /\ now' = now + 1 /\ writer \in [Writers -> Save]
  BY DEF SInv, TypeOK
<1>1. TypeOK' /\ IsFiniteSet(rows)'
  BY <1>0 DEF SInv, TypeOK
<1>2. AsksPast'
  <2>1. HourStart(now) <= HourStart(now + 1) /\ HourStart(now) \in Nat
        /\ HourStart(now + 1) \in Nat
    <3>1. now + 1 \in Nat /\ now <= now + 1
      BY <1>0
    <3>. QED  BY <1>0, <3>1, HourMonotone, HourDivision
  <2>2. \A w \in Writers : writer[w].hourStart \in Nat
    BY <1>0 DEF Save
  <2>. QED  BY <1>0, <2>1, <2>2 DEF SInv, AsksPast, HourStart
<1>3. RoomForSavers'
  BY NoNewSaver
<1>. QED  BY <1>1, <1>2, <1>3 DEF SInv

\* A restart loses every save.
LEMMA RestartSInv == ASSUME SInv, Restart PROVE SInv'
<1>. USE DEF Restart
<1>0. writer' \in [Writers -> Save] /\ \A w \in Writers : writer'[w].phase = "idle"
  BY IdleType
<1>1. TypeOK' /\ IsFiniteSet(rows)'
  BY <1>0 DEF SInv, TypeOK
<1>2. AsksPast'
  BY <1>0 DEF AsksPast
<1>3. RoomForSavers'
  BY <1>0, NoNewSaver
<1>. QED  BY <1>1, <1>2, <1>3 DEF SInv

\* The collector's lists change.
LEMMA StillSInv ==
  ASSUME SInv, UNCHANGED <<now, rows, writer, started>>,
         queue' \in [Collectors -> SUBSET Wallets], ticks' \in Nat, faults' \in Nat
  PROVE  SInv'
BY DEF SInv, TypeOK, AsksPast, RoomForSavers, HourRows, HourSavers, HourOf, HourStart

\* Every step keeps the invariant.
LEMMA NextSInv == SInv /\ [Next]_vars => SInv'
<1>. SUFFICES ASSUME SInv, [Next]_vars PROVE SInv'
  OBVIOUS
<1>0. /\ queue \in [Collectors -> SUBSET Wallets] /\ ticks \in Nat /\ faults \in Nat
      /\ Charts \subseteq Writers /\ Collectors \subseteq Writers
  BY DEF SInv, TypeOK, Writers
<1>1. CASE UNCHANGED vars
  BY <1>0, <1>1, StillSInv DEF vars
<1>2. ASSUME NEW w \in Charts, NEW o \in Wallets, Chart(w, o)  PROVE SInv'
  BY <1>0, <1>2, BeginSInv DEF Chart
<1>3. ASSUME NEW w \in Writers, Saving(w)  PROVE SInv'
  BY <1>3, LoadedSInv, AskSInv, InsertSInv DEF Saving
<1>4. ASSUME NEW w \in Writers, Breaks(w)  PROVE SInv'
  BY <1>0, <1>4, FinishSInv DEF Breaks
<1>5. ASSUME NEW c \in Collectors, CollectorTick(c)  PROVE SInv'
  BY <1>0, <1>5, StillSInv DEF CollectorTick, Followed
<1>6. ASSUME NEW c \in Collectors, CollectOne(c)  PROVE SInv'
  BY <1>0, <1>6, BeginSInv DEF CollectOne
<1>7. CASE CollectorTickFails
  BY <1>0, <1>7, StillSInv DEF CollectorTickFails
<1>. QED  BY <1>1, <1>2, <1>3, <1>4, <1>5, <1>6, <1>7, ClockSInv, RestartSInv DEF Next

\* The invariant holds throughout.
LEMMA SpecSInv == Spec => []SInv
BY InitSInv, NextSInv, PTL DEF Spec

\* The types of the table, the savers and the collector.
THEOREM SnapshotsTypeCorrect == Spec => []TypeOK
BY SpecSInv, PTL DEF SInv

\* The check of savePortfolioSnapshotHourly is not repeated when it inserts,
\* and yet a wallet's hour never gets more snapshots than there are savers.
THEOREM SnapshotsOnePerSaver == Spec => []OnePerSaver
<1>1. ASSUME SInv, NEW r \in rows
      PROVE  Cardinality({s \in rows : s.owner = r.owner /\ HourOf(s) = HourOf(r)})
               <= Cardinality(Writers)
  <2>1. r.owner \in Wallets /\ HourOf(r) \in Nat
    BY <1>1, HourDivision DEF SInv, TypeOK, Row, HourOf
  <2>2. Cardinality(HourRows(r.owner, HourOf(r)))
          + Cardinality(HourSavers(r.owner, HourOf(r))) <= Cardinality(Writers)
    BY <1>1, <2>1 DEF SInv, RoomForSavers
  <2>3. Cardinality(HourRows(r.owner, HourOf(r))) <= Cardinality(Writers)
    BY <1>1, <2>2, SetsFinite, WritersFinite DEF SInv
  <2>. QED  BY <2>3 DEF HourRows
<1>2. SInv => OnePerSaver
  BY <1>1 DEF OnePerSaver
<1>. QED  BY <1>2, SpecSInv, PTL

-----------------------------------------------------------------------------
(* No gap grows without a failure.                                         *)

\* Rows of hour h, or of as many hours after it as there may be a gap.
GapEnd(h) == HourLen * h + 2 * HourLen + HourLen * faults

\* When collector tick c has been to all its wallets, at the latest.
PassEnds(c) ==
  (IF Busy(c) THEN writer[c].since + MaxTake ELSE now) + MaxTake * Cardinality(queue[c])

\* The tick at time t, in c, has still to save o, and ends before the next tick.
Visits(c, o, t) ==
  /\ t <= now /\ PassEnds(c) <= t + Pass
  /\ t + Pass < Due /\ Due <= t + HourLen
  /\ \/ o \in queue[c]
     \/ /\ Busy(c) /\ writer[c].owner = o
        /\ writer[c].phase = "asking" => writer[c].hourStart >= HourStart(t)
        /\ writer[c].phase = "saving" => writer[c].ts >= t

\* What the tick at time t saved of o, or found saved.
Made(o, t) == \E r \in rows : r.owner = o /\ r.ts >= HourStart(t) /\ r.ts <= t + Pass

HasRowIn(o, from, to) == \E r \in rows : r.owner = o /\ r.ts >= from /\ r.ts < to

\* o has a row from hour h on before the gap's end, or a tick is about to make
\* one, or the next tick comes in time.
Covered(o, h) ==
  \/ HasRowIn(o, HourLen * h, GapEnd(h))
  \/ \E c \in Collectors, t \in Nat :
       Visits(c, o, t) /\ HourLen * h <= t /\ t + Pass < GapEnd(h)
  \/ Due + Pass < GapEnd(h)

AllCovered ==
  \A r \in rows, h \in Nat : r.ts < HourLen * h + HourLen => Covered(r.owner, h)

\* Ticks come on time, no save is late, and what is dated is not in the future.
OnTime ==
  /\ faults <= MaxFaults /\ now <= Due /\ Due <= now + HourLen
  /\ \A r \in rows : r.ts <= now
  /\ ticks = 0 => \A c \in Collectors : ~ Busy(c) /\ queue[c] = {}
  /\ \A w \in Writers : Busy(w) =>
       /\ writer[w].since <= now /\ now <= writer[w].since + MaxTake
       /\ writer[w].phase = "asking" => writer[w].hourStart <= now
       /\ writer[w].phase = "saving" => writer[w].since <= writer[w].ts /\ writer[w].ts <= now

\* The bounds, without products of two unknowns.
LEMMA PassBounds ==
  ASSUME PassFits
  PROVE  /\ Pass \in Nat /\ MaxTake \in Nat /\ Delay \in Nat /\ HourLen \in Nat
         /\ Pass + Delay < HourLen /\ Pass + MaxTake <= HourLen
<1>1. Cardinality(Wallets) \in Nat
  BY FS_CardinalityType
<1>2. QED
  BY <1>1 DEF PassFits, Pass

\* More hours are longer.
LEMMA Multiples ==
  ASSUME NEW i \in Nat, NEW j \in Nat, NEW d \in Nat, i <= j
  PROVE  d * i \in Nat /\ d * j \in Nat /\ d * i <= d * j
<1>1. CASE i = j
  BY <1>1
<1>2. CASE i < j
  <2>1. d * i + d <= d * j /\ d * i \in Nat /\ d * j \in Nat
    BY <1>2, Product
  <2>2. QED
    BY <2>1
<1>3. QED
  BY <1>1, <1>2

\* What is still in a queue.
LEMMA QueueBounds ==
  ASSUME TypeOK, NEW c \in Collectors
  PROVE  /\ IsFiniteSet(queue[c]) /\ Cardinality(queue[c]) \in Nat
         /\ MaxTake * Cardinality(queue[c]) \in Nat
<1>1. queue[c] \subseteq Wallets
  BY DEF TypeOK
<1>2. IsFiniteSet(queue[c]) /\ Cardinality(queue[c]) \in Nat
  BY <1>1, FS_Subset, FS_CardinalityType
<1>3. QED
  BY <1>2

\* What a saver has.
LEMMA WriterFields ==
  ASSUME TypeOK, NEW w \in Writers
  PROVE  /\ writer[w].hourStart \in Nat /\ writer[w].ts \in Nat /\ writer[w].since \in Nat
         /\ writer[w].owner \in Wallets /\ writer[w].phase \in Phases
BY DEF TypeOK, Save

\* The next tick.
LEMMA DueNat == ASSUME TypeOK PROVE Due \in Nat
<1>1. started \in Nat /\ ticks \in Nat /\ ticks * HourLen \in Nat
  BY DEF TypeOK
<1>2. QED
  BY <1>1 DEF Due

\* A tick is on time, and the next one comes within an hour and after the pass.
LEMMA DueMoves ==
  ASSUME TypeOK, PassFits, OnTime, now >= Due, ticks' = ticks + 1, started' = started
  PROVE  Due' \in Nat /\ now = Due /\ Due' <= Due + HourLen /\ Due + Pass < Due'
<1>1. started \in Nat /\ ticks \in Nat /\ ticks * HourLen \in Nat /\ Due \in Nat /\ now \in Nat
  BY DueNat DEF TypeOK
<1>2. (ticks + 1) * HourLen = ticks * HourLen + HourLen
  BY <1>1
<1>3. Due' = started + (ticks * HourLen + HourLen)
  BY <1>1, <1>2 DEF Due
<1>4. now = Due
  BY <1>1 DEF OnTime
<1>5. CASE ticks = 0
  BY <1>1, <1>3, <1>4, <1>5, PassBounds DEF Due
<1>6. CASE ticks # 0
  BY <1>1, <1>3, <1>4, <1>6, PassBounds DEF Due
<1>7. QED
  BY <1>5, <1>6

-----------------------------------------------------------------------------
\* The clock and the timers.
LEMMA HourStartPast == ASSUME NEW t \in Nat PROVE HourStart(t) \in Nat /\ HourStart(t) <= t
BY HourDivision

\* The process as it starts.
LEMMA InitOnTime == Init /\ PassFits => TypeOK /\ OnTime /\ AllCovered
<1> SUFFICES ASSUME Init, PassFits PROVE TypeOK /\ OnTime /\ AllCovered
  OBVIOUS
<1>1. TypeOK
  BY InitSInv DEF SInv
<1>2. /\ rows = {} /\ ticks = 0 /\ faults = 0 /\ started = now /\ Due = now + Delay /\ now \in Nat
      /\ \A w \in Writers : ~ Busy(w)
      /\ \A c \in Collectors : queue[c] = {}
  BY <1>1, IdleType DEF Init, NobodyBusy, Due, Busy, TypeOK
<1>3. Collectors \subseteq Writers
  BY DEF Writers
<1>4. OnTime
  BY <1>2, <1>3, PassBounds DEF OnTime
<1>5. QED
  BY <1>1, <1>2, <1>4 DEF AllCovered

\* A save goes on.
LEMMA SaveOnTime ==
  ASSUME TypeOK, PassFits, OnTime, NEW w \in Writers, Saving(w)
  PROVE  OnTime'
<1>1. /\ UNCHANGED <<now, queue, started, ticks, faults>> /\ Busy(w)
      /\ \A v \in Writers : v # w => writer'[v] = writer[v]
  BY DEF Saving, Loaded, Ask, Insert, Finish, Busy, TypeOK
<1>2. Due' = Due /\ now \in Nat
  BY <1>1 DEF Due, TypeOK
<1>3. ticks # 0 \/ w \notin Collectors
  BY <1>1 DEF OnTime
<1>4. \A r \in rows' : r.ts <= now
  <2>1. \A r \in rows' : r \in rows \/ (writer[w].phase = "saving" /\ r.ts = writer[w].ts)
    BY DEF Saving, Loaded, Ask, Insert
  <2>2. QED
    BY <1>1, <2>1 DEF OnTime
<1>5. Busy(w)' =>
       /\ writer'[w].since <= now /\ now <= writer'[w].since + MaxTake
       /\ writer'[w].phase = "asking" => writer'[w].hourStart <= now
       /\ writer'[w].phase = "saving" => writer'[w].since <= writer'[w].ts /\ writer'[w].ts <= now
  <2>1. writer \in [Writers -> Save]
    BY DEF TypeOK
  <2>2. CASE Loaded(w)
    <3>1. writer'[w].phase = "asking" /\ writer'[w].hourStart = HourStart(now) /\ writer'[w].since = writer[w].since
      BY <2>1, <2>2 DEF Loaded, Save
    <3>2. QED
      BY <1>1, <1>2, <3>1, HourStartPast DEF OnTime
  <2>3. CASE Ask(w)
    <3>1. \/ writer'[w] = Idle
          \/ writer'[w].phase = "saving" /\ writer'[w].ts = now /\ writer'[w].since = writer[w].since
      BY <2>1, <2>3 DEF Ask, Finish, Save
    <3>2. QED
      BY <1>1, <1>2, <3>1, IdleType DEF OnTime, Busy
  <2>4. CASE Insert(w)
    BY <2>1, <2>4, IdleType DEF Insert, Finish, Busy
  <2>5. QED
    BY <2>2, <2>3, <2>4 DEF Saving
<1>6. ASSUME NEW v \in Writers, v # w, Busy(v)'
      PROVE  /\ writer'[v].since <= now /\ now <= writer'[v].since + MaxTake
             /\ writer'[v].phase = "asking" => writer'[v].hourStart <= now
             /\ writer'[v].phase = "saving" => writer'[v].since <= writer'[v].ts /\ writer'[v].ts <= now
  BY <1>1, <1>6 DEF OnTime, Busy
<1>7. (ticks = 0 => \A c \in Collectors : ~ Busy(c) /\ queue[c] = {})'
  BY <1>1, <1>3 DEF OnTime, Busy, Writers
<1>8. QED
  BY <1>1, <1>2, <1>4, <1>5, <1>6, <1>7 DEF OnTime, Writers

\* A writer begins a save, or stops one, which no row says.
LEMMA WriterOnTime ==
  ASSUME TypeOK, PassFits, OnTime, NEW w \in Writers, Due' = Due, UNCHANGED <<now, rows, ticks>>,
         faults' <= MaxFaults,
         \A v \in Writers : v # w => writer'[v] = writer[v],
         writer'[w].phase \in {"idle", "loading"}, writer'[w].phase = "loading" => writer'[w].since = now,
         ticks = 0 => w \notin Collectors \/ ~ Busy(w)', ticks = 0 => queue' = queue
  PROVE  OnTime'
<1>1. now \in Nat
  BY DEF TypeOK
<1>2. \A v \in Writers : Busy(v)' =>
       /\ writer'[v].since <= now /\ now <= writer'[v].since + MaxTake
       /\ writer'[v].phase = "asking" => writer'[v].hourStart <= now
       /\ writer'[v].phase = "saving" => writer'[v].since <= writer'[v].ts /\ writer'[v].ts <= now
  <2> SUFFICES ASSUME NEW v \in Writers, Busy(v)'
               PROVE /\ writer'[v].since <= now /\ now <= writer'[v].since + MaxTake
                     /\ writer'[v].phase = "asking" => writer'[v].hourStart <= now
                     /\ writer'[v].phase = "saving" => writer'[v].since <= writer'[v].ts /\ writer'[v].ts <= now
    OBVIOUS
  <2>1. CASE v = w
    BY <1>1, <2>1 DEF Busy
  <2>2. CASE v # w
    BY <2>2 DEF OnTime, Busy
  <2>3. QED
    BY <2>1, <2>2
<1>3. (ticks = 0 => \A c \in Collectors : ~ Busy(c) /\ queue[c] = {})'
  BY DEF OnTime, Busy, Writers
<1>4. /\ faults' <= MaxFaults /\ now <= Due /\ Due <= now + HourLen
      /\ \A r \in rows : r.ts <= now
  BY DEF OnTime
<1>5. QED
  BY <1>2, <1>3, <1>4 DEF OnTime, Writers

\* A tick comes, or its query fails.
LEMMA TickOnTime ==
  ASSUME TypeOK, PassFits, OnTime, now >= Due, ticks' = ticks + 1,
         UNCHANGED <<now, rows, writer, started>>, faults' <= MaxFaults
  PROVE  OnTime'
<1>1. Due' \in Nat /\ now = Due /\ Due' <= Due + HourLen /\ Due + Pass < Due'
  BY DueMoves
<1>2. ticks' # 0 /\ now \in Nat /\ Pass \in Nat
  BY PassBounds DEF TypeOK
<1>3. \A w \in Writers : Busy(w)' <=> Busy(w)
  BY DEF Busy
<1>4. now' <= Due' /\ Due' <= now' + HourLen
  BY <1>1, <1>2
<1>5. QED
  BY <1>2, <1>3, <1>4 DEF OnTime, Writers

\* Every step is on time.
LEMMA NextOnTime ==
  ASSUME TypeOK, PassFits, OnTime, [Next]_vars
  PROVE  OnTime'
<1>0. /\ Charts \subseteq Writers /\ Collectors \subseteq Writers /\ Charts \cap Collectors = {}
      /\ now \in Nat /\ faults \in Nat /\ writer \in [Writers -> Save] /\ faults <= MaxFaults
  BY DEF TypeOK, Writers, OnTime
<1>1. CASE UNCHANGED vars
  BY <1>1 DEF vars, OnTime, Due, Busy, Writers
<1>2. ASSUME NEW w \in Charts, NEW o \in Wallets, Chart(w, o) PROVE OnTime'
  <2>1. /\ writer'[w].phase = "loading" /\ writer'[w].since = now
        /\ \A v \in Writers : v # w => writer'[v] = writer[v]
    BY <1>0, <1>2 DEF Chart, Begin, Idle
  <2>2. w \in Writers /\ w \notin Collectors
    BY <1>0
  <2>3. QED
    BY <1>0, <1>2, <2>1, <2>2, WriterOnTime DEF Chart, Due
<1>3. ASSUME NEW w \in Writers, Saving(w) PROVE OnTime'
  BY <1>3, SaveOnTime
<1>4. ASSUME NEW w \in Writers, Breaks(w) PROVE OnTime'
  <2>1. /\ writer'[w].phase = "idle" /\ ~ Busy(w)'
        /\ \A v \in Writers : v # w => writer'[v] = writer[v]
    BY <1>0, <1>4, IdleType DEF Breaks, Finish, Busy
  <2>2. faults' <= MaxFaults
    BY <1>0, <1>4 DEF Breaks
  <2>3. QED
    BY <1>4, <2>1, <2>2, WriterOnTime DEF Breaks, Due
<1>5. ASSUME NEW c \in Collectors, CollectorTick(c) PROVE OnTime'
  BY <1>0, <1>5, TickOnTime DEF CollectorTick
<1>6. ASSUME NEW c \in Collectors, CollectOne(c) PROVE OnTime'
  <2>1. PICK o \in queue[c] : Begin(c, o)
    BY <1>6 DEF CollectOne
  <2>2. /\ writer'[c].phase = "loading" /\ writer'[c].since = now
        /\ \A v \in Writers : v # c => writer'[v] = writer[v]
    BY <1>0, <2>1 DEF Begin, Idle
  <2>3. ticks # 0
    BY <2>1 DEF OnTime
  <2>4. c \in Writers
    BY <1>0
  <2>5. QED
    BY <1>0, <1>6, <2>2, <2>3, <2>4, WriterOnTime DEF CollectOne, Due
<1>7. CASE CollectorTickFails
  <2>1. faults' <= MaxFaults
    BY <1>0, <1>7 DEF CollectorTickFails
  <2>2. QED
    BY <1>7, <2>1, TickOnTime DEF CollectorTickFails
<1>8. CASE Restart
  <2>1. faults' <= MaxFaults
    BY <1>0, <1>8 DEF Restart
  <2>2. Due' = now + Delay /\ now' = now /\ ticks' = 0
    BY <1>8 DEF Restart, Due
  <2>3. \A w \in Writers : ~ Busy(w)'
    BY <1>0, <1>8, IdleType DEF Restart, Busy
  <2>4. \A c \in Collectors : queue'[c] = {}
    BY <1>8 DEF Restart
  <2>5. rows' = rows
    BY <1>8 DEF Restart
  <2>6. now' <= Due' /\ Due' <= now' + HourLen
    BY <1>0, <2>2, PassBounds
  <2>7. QED
    BY <1>0, <2>1, <2>2, <2>3, <2>4, <2>5, <2>6 DEF OnTime, Writers
<1>9. CASE Tick
  <2>1. /\ now' = now + 1 /\ UNCHANGED <<rows, writer, queue, started, ticks, faults>>
        /\ now < Due /\ Due' = Due /\ \A w \in Writers : Busy(w) => now < writer[w].since + MaxTake
    BY <1>9 DEF Tick, Due
  <2>2. Due \in Nat
    BY DueNat
  <2>3. \A w \in Writers : writer[w].since \in Nat /\ writer[w].hourStart \in Nat /\ writer[w].ts \in Nat
    BY WriterFields
  <2>4. \A r \in rows : r.ts \in Nat
    BY DEF TypeOK, Row
  <2>5. \A w \in Writers : Busy(w) =>
       /\ writer[w].since <= now + 1 /\ now + 1 <= writer[w].since + MaxTake
       /\ writer[w].phase = "asking" => writer[w].hourStart <= now + 1
       /\ writer[w].phase = "saving" => writer[w].since <= writer[w].ts /\ writer[w].ts <= now + 1
    BY <1>0, <2>1, <2>3 DEF OnTime
  <2>6. now' <= Due /\ Due <= now' + HourLen /\ \A r \in rows : r.ts <= now'
    BY <1>0, <2>1, <2>2, <2>4 DEF OnTime
  <2>7. ticks = 0 => \A c \in Collectors : ~ Busy(c) /\ queue[c] = {}
    BY DEF OnTime
  <2>8. QED
    BY <1>0, <2>1, <2>5, <2>6, <2>7 DEF OnTime, Busy, Writers
<1>10. QED
  BY <1>1, <1>2, <1>3, <1>4, <1>5, <1>6, <1>7, <1>8, <1>9 DEF Next

-----------------------------------------------------------------------------
(* What becomes of a visit.                                                *)

\* A pass is under way until it ends, so a visit is over before the next tick.
LEMMA VisitAlive ==
  ASSUME TypeOK, PassFits, OnTime, NEW c \in Collectors, NEW o, NEW t \in Nat, Visits(c, o, t)
  PROVE  now <= t + Pass /\ now < Due
<1>1. c \in Writers /\ now \in Nat /\ Due \in Nat /\ writer[c].since \in Nat /\ Pass \in Nat
  BY WriterFields, DueNat, PassBounds DEF Writers, TypeOK
<1>2. MaxTake * Cardinality(queue[c]) \in Nat
  BY QueueBounds
<1>3. now <= PassEnds(c)
  BY <1>1, <1>2 DEF PassEnds, OnTime
<1>4. PassEnds(c) \in Nat
  BY <1>1, <1>2 DEF PassEnds
<1>5. QED
  BY <1>1, <1>3, <1>4 DEF Visits

\* A save that ends makes room for the next wallet of the queue.
LEMMA FinishVisits ==
  ASSUME TypeOK, PassFits, OnTime, NEW c \in Collectors, NEW o, NEW t \in Nat, Visits(c, o, t),
         Busy(c), ~ Busy(c)', o \in queue[c], Due' = Due, UNCHANGED <<now, queue>>
  PROVE  Visits(c, o, t)'
<1>1. c \in Writers /\ now \in Nat /\ writer[c].since \in Nat /\ Pass \in Nat
  BY WriterFields, PassBounds DEF Writers, TypeOK
<1>2. MaxTake * Cardinality(queue[c]) \in Nat /\ now <= writer[c].since + MaxTake
  BY <1>1, QueueBounds DEF OnTime
<1>3. PassEnds(c)' <= PassEnds(c) /\ PassEnds(c) \in Nat /\ PassEnds(c)' \in Nat
  BY <1>1, <1>2 DEF PassEnds
<1>4. PassEnds(c) <= t + Pass /\ t <= now /\ t + Pass < Due /\ Due <= t + HourLen
  BY DEF Visits
<1>5. (PassEnds(c) <= t + Pass)'
  BY <1>1, <1>3, <1>4
<1>6. (t <= now /\ t + Pass < Due /\ Due <= t + HourLen /\ o \in queue[c])'
  BY <1>4
<1>7. QED
  BY <1>5, <1>6 DEF Visits

\* A visit goes on as long as its collector does nothing.
LEMMA OthersVisits ==
  ASSUME TypeOK, NEW c \in Collectors, NEW o, NEW t \in Nat, Visits(c, o, t),
         writer'[c] = writer[c], queue'[c] = queue[c], Due' = Due, now' = now \/ Busy(c),
         t <= now'
  PROVE  Visits(c, o, t)'
BY DEF Visits, PassEnds, Busy

\* In every step of a save a visit goes on, or its row is there.
LEMMA SaveVisits ==
  ASSUME TypeOK, PassFits, OnTime, NEW w \in Writers, Saving(w),
         NEW c \in Collectors, NEW o, NEW t \in Nat, Visits(c, o, t)
  PROVE  Visits(c, o, t)' \/ Made(o, t)'
<1>1. /\ UNCHANGED <<now, queue, started, ticks, faults>> /\ Busy(w)
      /\ \A v \in Writers : v # w => writer'[v] = writer[v]
  BY DEF Saving, Loaded, Ask, Insert, Finish, Busy, TypeOK
<1>2. Due' = Due /\ now \in Nat /\ c \in Writers /\ Pass \in Nat /\ writer \in [Writers -> Save]
  BY <1>1, PassBounds DEF Due, TypeOK, Writers
<1>3. CASE w # c
  BY <1>1, <1>2, <1>3, OthersVisits DEF Visits
<1>4. CASE w = c
  <2>1. now <= t + Pass /\ t <= now /\ HourStart(t) \in Nat /\ HourStart(t) <= t
    BY VisitAlive, HourStartPast DEF Visits
  <2>2. CASE Loaded(c)
    <3>1. /\ Busy(c)' /\ writer'[c].phase = "asking" /\ writer'[c].hourStart = HourStart(now)
          /\ writer'[c].since = writer[c].since /\ writer'[c].owner = writer[c].owner
      BY <1>2, <2>2 DEF Loaded, Save, Busy
    <3>2. HourStart(now) >= HourStart(t)
      BY <1>2, <2>1, HourMonotone
    <3>3. PassEnds(c)' = PassEnds(c)
      BY <1>1, <1>4, <3>1 DEF PassEnds
    <3>4. HourStart(t)' = HourStart(t)
      BY DEF HourStart
    <3>5. QED
      BY <1>1, <1>2, <1>4, <3>1, <3>2, <3>3, <3>4 DEF Visits
  <2>3. CASE Ask(c) /\ (\E r \in rows : r.owner = writer[c].owner /\ r.ts >= writer[c].hourStart)
    <3>1. writer'[c] = Idle /\ ~ Busy(c)' /\ writer[c].phase = "asking" /\ rows' = rows
      BY <1>2, <2>3, IdleType DEF Ask, Finish, Busy
    <3>2. CASE o \in queue[c]
      BY <1>1, <1>2, <1>4, <3>1, <3>2, FinishVisits
    <3>3. CASE o \notin queue[c]
      <4>1. writer[c].owner = o /\ writer[c].hourStart >= HourStart(t)
        BY <3>1, <3>3 DEF Visits
      <4>2. PICK r \in rows : r.owner = o /\ r.ts >= writer[c].hourStart
        BY <2>3, <4>1
      <4>3. r.ts \in Nat /\ r.ts <= now /\ writer[c].hourStart \in Nat
        BY <1>2, WriterFields DEF OnTime, TypeOK, Row
      <4>4. r.ts >= HourStart(t) /\ r.ts <= t + Pass
        BY <1>2, <2>1, <4>1, <4>2, <4>3
      <4>5. Made(o, t)
        BY <4>2, <4>4 DEF Made
      <4>6. QED
        BY <3>1, <4>5 DEF Made, HourStart
    <3>4. QED
      BY <3>2, <3>3
  <2>4. CASE Ask(c) /\ ~ (\E r \in rows : r.owner = writer[c].owner /\ r.ts >= writer[c].hourStart)
    <3>1. /\ Busy(c)' /\ writer'[c].phase = "saving" /\ writer'[c].ts = now
          /\ writer'[c].since = writer[c].since /\ writer'[c].owner = writer[c].owner
      BY <1>2, <2>4 DEF Ask, Save, Busy
    <3>2. PassEnds(c)' = PassEnds(c)
      BY <1>1, <1>4, <3>1 DEF PassEnds
    <3>3. QED
      BY <1>1, <1>2, <1>4, <2>1, <3>1, <3>2 DEF Visits
  <2>5. CASE Insert(c)
    <3> DEFINE r == [owner |-> writer[c].owner, ts |-> writer[c].ts]
    <3>1. ~ Busy(c)' /\ writer[c].phase = "saving" /\ r \in rows'
      BY <1>2, <2>5, IdleType DEF Insert, Finish, Busy
    <3>2. CASE o \in queue[c]
      BY <1>1, <1>2, <1>4, <3>1, <3>2, FinishVisits
    <3>3. CASE o \notin queue[c]
      <4>1. writer[c].owner = o /\ writer[c].ts >= t
        BY <3>1, <3>3 DEF Visits
      <4>2. writer[c].ts \in Nat /\ writer[c].ts <= now
        BY <1>1, <1>2, <1>4, <3>1, WriterFields DEF OnTime
      <4>3. r.owner = o /\ r.ts >= HourStart(t) /\ r.ts <= t + Pass
        BY <1>2, <2>1, <4>1, <4>2
      <4> HIDE DEF r
      <4>4. QED
        BY <3>1, <4>3 DEF Made, HourStart
    <3>4. QED
      BY <3>2, <3>3
  <2>6. QED
    BY <1>4, <2>2, <2>3, <2>4, <2>5 DEF Saving
<1>5. QED
  BY <1>3, <1>4

\* The collector turns to the next wallet, whoever's visit it is.
LEMMA CollectVisits ==
  ASSUME TypeOK, PassFits, OnTime, NEW d \in Collectors, CollectOne(d),
         NEW c \in Collectors, NEW o, NEW t \in Nat, Visits(c, o, t)
  PROVE  Visits(c, o, t)'
<1>1. PICK p \in queue[d] : Begin(d, p) /\ queue' = [queue EXCEPT ![d] = @ \ {p}]
  BY DEF CollectOne
<1>2. ~ Busy(d) /\ UNCHANGED <<now, rows, started, ticks, faults>>
  BY DEF CollectOne
<1>3. /\ Due' = Due /\ now \in Nat /\ Collectors \subseteq Writers /\ writer \in [Writers -> Save]
      /\ queue \in [Collectors -> SUBSET Wallets]
  BY <1>2 DEF Due, TypeOK, Writers
<1>4. CASE c # d
  BY <1>1, <1>2, <1>3, <1>4, OthersVisits DEF Begin, Visits
<1>5. CASE c = d
  <2>1. /\ writer'[c].phase = "loading" /\ writer'[c].since = now /\ writer'[c].owner = p /\ Busy(c)'
        /\ queue'[c] = queue[c] \ {p}
    BY <1>1, <1>3, <1>5 DEF Begin, Idle, Busy
  <2>2. o \in queue[c]
    BY <1>2, <1>5 DEF Visits
  <2>3. Cardinality(queue[c] \ {p}) = Cardinality(queue[c]) - 1 /\ Cardinality(queue[c]) \in Nat
        /\ Cardinality(queue[c] \ {p}) \in Nat /\ MaxTake * Cardinality(queue[c]) \in Nat
    <3>1. IsFiniteSet(queue[c]) /\ p \in queue[c]
      BY <1>1, <1>5, QueueBounds
    <3>2. IsFiniteSet(queue[c] \ {p}) /\ Cardinality(queue[c] \ {p}) = Cardinality(queue[c]) - 1
      BY <3>1, FS_RemoveElement
    <3>3. QED
      BY <3>2, QueueBounds, FS_CardinalityType
  <2>4. MaxTake * Cardinality(queue[c] \ {p}) + MaxTake = MaxTake * Cardinality(queue[c])
    <3> DEFINE k == Cardinality(queue[c] \ {p})
               m == Cardinality(queue[c])
    <3>1. k \in Nat /\ m \in Nat /\ m = k + 1
      BY <2>3
    <3> HIDE DEF k, m
    <3>2. MaxTake * k + MaxTake = MaxTake * m
      BY <3>1
    <3>3. QED
      BY <3>2 DEF k, m
  <2>5. PassEnds(c)' = (now + MaxTake) + MaxTake * Cardinality(queue[c] \ {p})
    BY <2>1 DEF PassEnds
  <2>6. PassEnds(c) = now + MaxTake * Cardinality(queue[c])
    BY <1>2, <1>5 DEF PassEnds
  <2>7. PassEnds(c)' = PassEnds(c)
    <3>1. MaxTake * Cardinality(queue[c] \ {p}) \in Nat
      BY <2>3
    <3>2. QED
      BY <1>3, <2>3, <2>4, <2>5, <2>6, <3>1
  <2>8. o \in queue'[c] \/ (Busy(c)' /\ writer'[c].owner = o)
    BY <2>1, <2>2
  <2>9. QED
    BY <1>2, <1>3, <2>1, <2>7, <2>8 DEF Visits
<1>6. QED
  BY <1>4, <1>5

-----------------------------------------------------------------------------
(* Every hour is covered.                                                  *)

\* The end of a gap is a time.
LEMMA GapEndNat ==
  ASSUME TypeOK, NEW h \in Nat
  PROVE  /\ HourLen * h \in Nat /\ HourLen * faults \in Nat /\ GapEnd(h) \in Nat
         /\ GapEnd(h) = HourLen * h + 2 * HourLen + HourLen * faults
         /\ HourLen * h + 2 * HourLen <= GapEnd(h)
<1>1. HourLen * h \in Nat /\ HourLen * faults \in Nat
  BY DEF TypeOK
<1>2. QED
  BY <1>1 DEF GapEnd

\* A failure moves the gap's end an hour away.
LEMMA GapGrows ==
  ASSUME TypeOK, NEW h \in Nat, faults' = faults + 1
  PROVE  GapEnd(h)' = GapEnd(h) + HourLen
<1>1. HourLen * (faults + 1) = HourLen * faults + HourLen
  BY DEF TypeOK
<1>2. HourLen * h \in Nat /\ HourLen * faults \in Nat
  BY GapEndNat
<1>3. QED
  BY <1>1, <1>2 DEF GapEnd

\* What a tick in hour h or later made is in hour h or later.
LEMMA MadeCovers ==
  ASSUME PassFits, NEW r \in Row, NEW h \in Nat, NEW t \in Nat, NEW end \in Nat,
         r.ts >= HourStart(t), r.ts <= t + Pass, HourLen * h <= t, t + Pass < end
  PROVE  r.ts >= HourLen * h /\ r.ts < end
<1>1. r.ts \in Nat /\ HourLen * h \in Nat /\ Pass \in Nat
  BY PassBounds DEF Row
<1>2. HourLen * h <= HourStart(t) /\ HourStart(t) \in Nat
  <2> DEFINE q == t \div HourLen
  <2>1. /\ q \in Nat /\ t = HourLen * q + (t % HourLen) /\ t % HourLen \in 0..(HourLen - 1)
        /\ HourStart(t) = HourLen * q
    BY HourDivision
  <2> HIDE DEF q
  <2>2. HourLen * q \in Nat
    BY <2>1
  <2>3. CASE h <= q
    BY <2>1, <2>3, Multiples
  <2>4. CASE q < h
    <3>1. HourLen * q + HourLen <= HourLen * h
      BY <2>1, <2>4, Product
    <3>2. QED
      BY <1>1, <2>1, <2>2, <3>1
  <2>5. QED
    BY <2>1, <2>3, <2>4
<1>3. QED
  BY <1>1, <1>2

\* Rows stay, and failures only give more time.
LEMMA RowsCover ==
  ASSUME TypeOK, NEW o, NEW h \in Nat, HasRowIn(o, HourLen * h, GapEnd(h)),
         rows \subseteq rows', GapEnd(h)' \in Nat, GapEnd(h) <= GapEnd(h)'
  PROVE  HasRowIn(o, HourLen * h, GapEnd(h))'
<1>1. PICK r \in rows : r.owner = o /\ r.ts >= HourLen * h /\ r.ts < GapEnd(h)
  BY DEF HasRowIn
<1>2. r.ts \in Nat /\ GapEnd(h) \in Nat
  BY <1>1, GapEndNat DEF TypeOK, Row
<1>3. r.ts < GapEnd(h)'
  BY <1>1, <1>2
<1>4. r \in rows'
  BY <1>1
<1>5. QED
  BY <1>1, <1>3, <1>4 DEF HasRowIn

\* A step in which nothing fails and no tick comes, and every visit goes on or
\* has made its row.
LEMMA QuietCovers ==
  ASSUME TypeOK, TypeOK', PassFits, rows \subseteq rows', Due' = Due, faults' = faults,
         \A c \in Collectors, o \in Wallets, t \in Nat : Visits(c, o, t) => Visits(c, o, t)' \/ Made(o, t)',
         NEW o \in Wallets, NEW h \in Nat, Covered(o, h)
  PROVE  Covered(o, h)'
<1>0. GapEnd(h)' = GapEnd(h)
  BY DEF GapEnd
<1>1. GapEnd(h)' = GapEnd(h) /\ GapEnd(h) \in Nat /\ GapEnd(h) <= GapEnd(h)' /\ GapEnd(h)' \in Nat
  BY <1>0, GapEndNat
<1>2. CASE HasRowIn(o, HourLen * h, GapEnd(h))
  BY <1>1, <1>2, RowsCover DEF Covered
<1>3. ASSUME NEW c \in Collectors, NEW t \in Nat,
             Visits(c, o, t), HourLen * h <= t, t + Pass < GapEnd(h)
      PROVE  Covered(o, h)'
  <2>1. CASE Visits(c, o, t)'
    BY <1>1, <1>3, <2>1 DEF Covered
  <2>2. CASE Made(o, t)'
    <3>1. PICK r \in rows' : r.owner = o /\ r.ts >= HourStart(t) /\ r.ts <= t + Pass
      BY <2>2 DEF Made, HourStart
    <3>2. r \in Row
      BY DEF TypeOK
    <3>3. r.ts >= HourLen * h /\ r.ts < GapEnd(h)
      BY <1>1, <1>3, <3>1, <3>2, MadeCovers
    <3>4. QED
      BY <1>0, <3>1, <3>3 DEF Covered, HasRowIn
  <2>3. QED
    BY <1>3, <2>1, <2>2
<1>4. CASE Due + Pass < GapEnd(h)
  BY <1>1, <1>4 DEF Covered
<1>5. QED
  BY <1>2, <1>3, <1>4 DEF Covered

\* A step that fails: a visit goes on, or the next tick comes within an hour of it.
LEMMA FaultCovers ==
  ASSUME TypeOK, PassFits, rows' = rows, faults' = faults + 1,
         Due' \in Nat, Due' <= Due + HourLen,
         \A c \in Collectors, o \in Wallets, t \in Nat :
           Visits(c, o, t) => Visits(c, o, t)' \/ Due' <= t + HourLen,
         NEW o \in Wallets, NEW h \in Nat, Covered(o, h)
  PROVE  Covered(o, h)'
<1>1. GapEnd(h)' = GapEnd(h) + HourLen /\ GapEnd(h) \in Nat /\ GapEnd(h) <= GapEnd(h)' /\ GapEnd(h)' \in Nat
  BY GapEndNat, GapGrows
<1>2. Due \in Nat /\ Pass \in Nat
  BY DueNat, PassBounds
<1>3. CASE HasRowIn(o, HourLen * h, GapEnd(h))
  BY <1>1, <1>3, RowsCover DEF Covered
<1>4. ASSUME NEW c \in Collectors, NEW t \in Nat,
             Visits(c, o, t), HourLen * h <= t, t + Pass < GapEnd(h)
      PROVE  Covered(o, h)'
  <2>1. CASE Visits(c, o, t)'
    <3>1. (t + Pass < GapEnd(h))'
      BY <1>1, <1>2, <1>4
    <3>2. QED
      BY <1>4, <2>1, <3>1 DEF Covered
  <2>2. CASE Due' <= t + HourLen
    <3>1. (Due + Pass < GapEnd(h))'
      BY <1>1, <1>2, <1>4, <2>2
    <3>2. QED
      BY <3>1 DEF Covered
  <2>3. QED
    BY <1>4, <2>1, <2>2
<1>5. CASE Due + Pass < GapEnd(h)
  <2>1. (Due + Pass < GapEnd(h))'
    BY <1>1, <1>2, <1>5
  <2>2. QED
    BY <2>1 DEF Covered
<1>6. QED
  BY <1>3, <1>4, <1>5 DEF Covered

\* Without a new row, it is enough that each hour stays covered.
LEMMA AllStay ==
  ASSUME TypeOK, AllCovered, rows' = rows,
         \A o \in Wallets, h \in Nat : Covered(o, h) => Covered(o, h)'
  PROVE  AllCovered'
<1> SUFFICES ASSUME NEW r \in rows, NEW h \in Nat, r.ts < HourLen * h + HourLen
             PROVE  Covered(r.owner, h)'
  BY DEF AllCovered
<1>1. r.owner \in Wallets /\ Covered(r.owner, h)
  BY DEF TypeOK, Row, AllCovered
<1>2. \A o \in Wallets : Covered(o, h) => Covered(o, h)'
  OBVIOUS
<1>3. QED
  BY <1>1, <1>2

\* A save goes on, and may have made a new row.
LEMMA SaveAllCovered ==
  ASSUME TypeOK, TypeOK', PassFits, OnTime, AllCovered, NEW w \in Writers, Saving(w)
  PROVE  AllCovered'
<1>1. /\ UNCHANGED <<now, queue, started, ticks, faults>> /\ rows \subseteq rows'
      /\ \A r \in rows' : r \in rows \/ (writer[w].phase = "saving" /\ r.ts = writer[w].ts)
  BY DEF Saving, Loaded, Ask, Insert
<1>2. Due' = Due
  BY <1>1 DEF Due
<1>3. \A c \in Collectors, o \in Wallets, t \in Nat : Visits(c, o, t) => Visits(c, o, t)' \/ Made(o, t)'
  BY SaveVisits
<1> SUFFICES ASSUME NEW r \in rows', NEW h \in Nat, r.ts < HourLen * h + HourLen
             PROVE  Covered(r.owner, h)'
  BY DEF AllCovered
<1>4. r.owner \in Wallets /\ r.ts \in Nat
  BY DEF TypeOK, Row
<1>5. CASE r \in rows
  <2>1. Covered(r.owner, h)
    BY <1>5 DEF AllCovered
  <2> DEFINE o == r.owner
  <2>2. o \in Wallets /\ Covered(o, h)
    BY <1>4, <2>1
  <2> HIDE DEF o
  <2>3. Covered(o, h)'
    BY <1>1, <1>2, <1>3, <2>2, QuietCovers
  <2>4. QED
    BY <2>3 DEF o
<1>6. CASE writer[w].phase = "saving" /\ r.ts = writer[w].ts
  <2>1. GapEnd(h)' = GapEnd(h) /\ GapEnd(h) \in Nat /\ HourLen * h \in Nat
        /\ HourLen * h + 2 * HourLen <= GapEnd(h)
    BY <1>1, GapEndNat DEF GapEnd
  <2>2. CASE HourLen * h <= r.ts
    <3>1. r.ts < GapEnd(h)
      BY <1>4, <2>1, <2>2
    <3>2. HasRowIn(r.owner, HourLen * h, GapEnd(h))'
      BY <2>1, <2>2, <3>1 DEF HasRowIn
    <3>3. QED
      BY <3>2 DEF Covered
  <2>3. CASE r.ts < HourLen * h
    <3>1. /\ now <= writer[w].since + MaxTake /\ writer[w].since <= r.ts /\ Due <= now + HourLen
          /\ now \in Nat /\ writer[w].since \in Nat
      BY <1>6, WriterFields DEF OnTime, Busy, TypeOK
    <3>2. Due \in Nat /\ Pass \in Nat /\ MaxTake \in Nat /\ Pass + MaxTake <= HourLen
      BY DueNat, PassBounds
    <3>3. Due + Pass < GapEnd(h)
      BY <1>4, <2>1, <2>3, <3>1, <3>2
    <3>4. (Due + Pass < GapEnd(h))'
      BY <1>2, <2>1, <3>3
    <3>5. QED
      BY <3>4 DEF Covered
  <2>4. QED
    BY <1>4, <2>1, <2>2, <2>3
<1>7. QED
  BY <1>1, <1>5, <1>6

\* A save fails.
LEMMA BreaksCovered ==
  ASSUME TypeOK, PassFits, OnTime, AllCovered, NEW w \in Writers, Breaks(w)
  PROVE  AllCovered'
<1>1. /\ UNCHANGED <<now, rows, queue, started, ticks>> /\ faults' = faults + 1
      /\ Busy(w) /\ ~ Busy(w)' /\ \A v \in Writers : v # w => writer'[v] = writer[v]
  BY IdleType DEF Breaks, Finish, Busy, TypeOK
<1>2. Due' = Due /\ Due \in Nat /\ Due' <= Due + HourLen /\ Collectors \subseteq Writers
  BY <1>1, DueNat DEF Due, Writers
<1>3. ASSUME NEW c \in Collectors, NEW o \in Wallets, NEW t \in Nat, Visits(c, o, t)
      PROVE  Visits(c, o, t)' \/ Due' <= t + HourLen
  BY <1>2, <1>3 DEF Visits
<1>4. QED
  BY <1>1, <1>2, <1>3, FaultCovers, AllStay

\* The process restarts.
LEMMA RestartCovered ==
  ASSUME TypeOK, PassFits, OnTime, AllCovered, Restart
  PROVE  AllCovered'
<1>1. UNCHANGED <<now, rows>> /\ faults' = faults + 1 /\ Due' = now + Delay
  BY DEF Restart, Due
<1>2. /\ now \in Nat /\ Due \in Nat /\ now <= Due
      /\ Pass \in Nat /\ Delay \in Nat /\ Pass + Delay < HourLen
  BY DueNat, PassBounds DEF OnTime, TypeOK
<1>3. Due' \in Nat /\ Due' <= Due + HourLen
  BY <1>1, <1>2
<1>4. ASSUME NEW c \in Collectors, NEW o \in Wallets, NEW t \in Nat, Visits(c, o, t)
      PROVE  Due' <= t + HourLen
  <2>1. now <= t + Pass
    BY <1>4, VisitAlive
  <2>2. QED
    BY <1>1, <1>2, <2>1
<1>5. QED
  BY <1>1, <1>3, <1>4, FaultCovers, AllStay

\* A tick's query fails.
LEMMA TickFailsCovered ==
  ASSUME TypeOK, PassFits, OnTime, AllCovered, CollectorTickFails
  PROVE  AllCovered'
<1>1. rows' = rows /\ faults' = faults + 1 /\ Due' \in Nat /\ now = Due /\ Due' <= Due + HourLen
  BY DueMoves DEF CollectorTickFails
<1>2. ASSUME NEW c \in Collectors, NEW o \in Wallets, NEW t \in Nat, Visits(c, o, t)
      PROVE  FALSE
  <2>1. now < Due /\ Due \in Nat
    BY <1>2, VisitAlive, DueNat
  <2>2. QED
    BY <1>1, <2>1
<1>3. QED
  BY <1>1, <1>2, FaultCovers, AllStay

\* A wallet with history has a row of the last 7 days when a tick comes.
LEMMA StillFollowed ==
  ASSUME TypeOK, PassFits, OnTime, AllCovered, now = Due, NEW r \in rows
  PROVE  r.owner \in Followed
<1> DEFINE q == now \div HourLen
           f == faults
<1>0. /\ now \in Nat /\ Due \in Nat /\ f \in Nat /\ f <= MaxFaults /\ Pass \in Nat
      /\ r.ts \in Nat /\ r.owner \in Wallets
  BY DueNat, PassBounds DEF OnTime, TypeOK, Row
<1>1. q \in Nat /\ now = HourLen * q + (now % HourLen) /\ now % HourLen \in 0..(HourLen - 1)
  BY <1>0, HourDivision
<1>2. /\ HourLen * f \in Nat /\ HourLen * q \in Nat
      /\ HourLen * f + 3 * HourLen <= Horizon
  <2>1. HourLen * f \in Nat /\ HourLen * MaxFaults \in Nat /\ HourLen * f <= HourLen * MaxFaults
    BY <1>0, Multiples
  <2>2. HourLen * MaxFaults + 3 * HourLen <= Horizon
    BY DEF PassFits
  <2> HIDE DEF f, q
  <2>3. HourLen * q \in Nat
    BY <1>1
  <2>4. QED
    BY <2>1, <2>2, <2>3
<1> HIDE DEF q
  \* A row of the last f + 2 full hours is recent enough.
<1>3. ASSUME NEW s \in rows, s.owner = r.owner, s.ts + 2 * HourLen + HourLen * f >= HourLen * q
      PROVE  r.owner \in Followed
  <2>1. s.ts \in Nat
    BY DEF TypeOK, Row
  <2> HIDE DEF f
  <2>2. s.ts > now - Horizon
    BY <1>0, <1>1, <1>2, <1>3, <2>1
  <2>3. QED
    BY <1>0, <1>3, <2>2 DEF Followed
<1>4. CASE q < 2 + f
  <2>1. HourLen * q <= HourLen * (2 + f)
    BY <1>0, <1>1, <1>4, Multiples
  <2>2. HourLen * (2 + f) = 2 * HourLen + HourLen * f
    BY <1>0
  <2> HIDE DEF f
  <2>3. r.ts + 2 * HourLen + HourLen * f >= HourLen * q
    BY <1>0, <1>2, <2>1, <2>2
  <2>4. QED
    BY <1>3, <2>3
<1>5. CASE q >= 2 + f
  <2>1. PICK m \in Nat : q = m + 2 + f
    <3>1. q - 2 - f \in Nat /\ q = (q - 2 - f) + 2 + f
      BY <1>0, <1>1, <1>5
    <3>2. QED
      BY <3>1
  <2>2. HourLen * q = HourLen * m + 2 * HourLen + HourLen * f /\ HourLen * m \in Nat
    BY <1>0, <2>1
  <2>3. GapEnd(m) = HourLen * q /\ GapEnd(m) \in Nat
    BY <2>2, GapEndNat
  <2>4. CASE r.ts >= HourLen * m
    <3>1. r.ts + 2 * HourLen + HourLen * f >= HourLen * q
      <4> HIDE DEF f
      <4>1. QED
        BY <1>0, <1>2, <2>2, <2>4
    <3>2. QED
      BY <1>3, <3>1
  <2>5. CASE r.ts < HourLen * m
    <3>1. r.ts < HourLen * m + HourLen
      BY <1>0, <2>2, <2>5
    <3>2. Covered(r.owner, m)
      BY <3>1 DEF AllCovered
    <3>3. GapEnd(m) <= now
      BY <1>1, <1>2, <2>3
    <3>4. ~ (Due + Pass < GapEnd(m))
      BY <1>0, <2>3, <3>3
    <3>5. ASSUME NEW c \in Collectors, NEW t \in Nat, Visits(c, r.owner, t) PROVE FALSE
      <4>1. now < Due
        BY <3>5, VisitAlive
      <4>2. QED
        BY <1>0, <4>1
    <3>6. HasRowIn(r.owner, HourLen * m, GapEnd(m))
      BY <3>2, <3>4, <3>5 DEF Covered
    <3>7. PICK s \in rows : s.owner = r.owner /\ s.ts >= HourLen * m
      BY <3>6 DEF HasRowIn
    <3>8. s.ts \in Nat
      BY DEF TypeOK, Row
    <3>9. s.ts + 2 * HourLen + HourLen * f >= HourLen * q
      <4> HIDE DEF f
      <4>1. QED
        BY <1>2, <2>2, <3>7, <3>8
    <3>10. QED
      BY <1>3, <3>7, <3>9
  <2>6. QED
    BY <1>0, <2>2, <2>4, <2>5
<1>6. QED
  BY <1>0, <1>1, <1>4, <1>5

\* A tick comes: it visits every wallet with history.
LEMMA TickCovered ==
  ASSUME TypeOK, PassFits, OnTime, AllCovered, NEW d \in Collectors, CollectorTick(d)
  PROVE  AllCovered'
<1>1. /\ UNCHANGED <<now, rows, writer, started, faults>> /\ ~ Busy(d)
      /\ queue' = [queue EXCEPT ![d] = Followed] /\ queue \in [Collectors -> SUBSET Wallets]
  BY DEF CollectorTick, TypeOK
<1>2. Due' \in Nat /\ now = Due /\ Due' <= Due + HourLen /\ Due + Pass < Due'
  BY DueMoves DEF CollectorTick
<1>3. now \in Nat /\ Pass \in Nat /\ HourLen \in Nat /\ Pass < HourLen
  BY PassBounds DEF TypeOK
\* Whom the tick follows, it is to visit.
<1>4. ASSUME NEW o \in Followed PROVE Visits(d, o, now)'
  <2>1. queue'[d] = Followed /\ Followed \subseteq Wallets /\ ~ Busy(d)'
    BY <1>1 DEF Followed, Busy
  <2>2. MaxTake * Cardinality(Followed) \in Nat /\ MaxTake * Cardinality(Followed) <= Pass
    <3>1. /\ Cardinality(Followed) \in Nat /\ Cardinality(Wallets) \in Nat
          /\ Cardinality(Followed) <= Cardinality(Wallets)
      BY <2>1, FS_Subset, FS_CardinalityType
    <3>2. QED
      BY <3>1, Multiples DEF Pass
  <2>3. PassEnds(d)' = now + MaxTake * Cardinality(Followed)
    BY <1>1, <2>1 DEF PassEnds
  <2>4. (now <= now /\ PassEnds(d) <= now + Pass /\ now + Pass < Due /\ Due <= now + HourLen)'
    BY <1>1, <1>2, <1>3, <2>2, <2>3
  <2>5. (o \in queue[d])'
    BY <2>1
  <2>6. QED
    BY <2>4, <2>5 DEF Visits
<1> SUFFICES ASSUME NEW r \in rows, NEW h \in Nat, r.ts < HourLen * h + HourLen
             PROVE  Covered(r.owner, h)'
  BY <1>1 DEF AllCovered
<1>5. GapEnd(h)' = GapEnd(h)
  BY <1>1 DEF GapEnd
<1>6. /\ GapEnd(h) \in Nat /\ HourLen * h \in Nat /\ HourLen * h + 2 * HourLen <= GapEnd(h)
      /\ GapEnd(h) <= GapEnd(h)' /\ GapEnd(h)' \in Nat
  BY <1>5, GapEndNat
<1>7. Covered(r.owner, h)
  BY DEF AllCovered
<1>8. CASE HasRowIn(r.owner, HourLen * h, GapEnd(h))
  BY <1>1, <1>5, <1>8 DEF Covered, HasRowIn
<1>9. ASSUME NEW c \in Collectors, NEW t \in Nat, Visits(c, r.owner, t) PROVE FALSE
  <2>1. now < Due
    BY <1>9, VisitAlive
  <2>2. QED
    BY <1>2, <1>3, <2>1
<1>10. CASE Due + Pass < GapEnd(h)
  <2>1. CASE now < HourLen * h
    <3>1. Due' + Pass < GapEnd(h)
      BY <1>2, <1>3, <1>6, <2>1
    <3>2. (Due + Pass < GapEnd(h))'
      BY <1>5, <3>1
    <3>3. QED
      BY <3>2 DEF Covered
  <2>2. CASE HourLen * h <= now
    <3>1. r.owner \in Followed
      BY <1>2, StillFollowed
    <3>2. Visits(d, r.owner, now)'
      BY <1>4, <3>1
    <3>3. PICK t \in Nat : t = now /\ t = now'
      BY <1>1, <1>3
    <3>4. Visits(d, r.owner, t)'
      BY <3>2, <3>3 DEF Visits, HourStart
    <3>5. HourLen * h <= t /\ t + Pass < GapEnd(h)'
      BY <1>2, <1>5, <1>10, <2>2, <3>3
    <3>6. QED
      BY <3>4, <3>5 DEF Covered
  <2>3. QED
    BY <1>3, <1>6, <2>1, <2>2
<1>11. QED
  BY <1>7, <1>8, <1>9, <1>10 DEF Covered

\* Every step leaves every hour covered.
LEMMA NextCovered ==
  ASSUME TypeOK, TypeOK', PassFits, OnTime, AllCovered, [Next]_vars
  PROVE  AllCovered'
<1>0. Charts \subseteq Writers /\ Collectors \subseteq Writers /\ Charts \cap Collectors = {}
  BY DEF Writers
\* Steps that save nothing and do not fail.
<1>1. ASSUME rows' = rows, Due' = Due, faults' = faults,
             \A c \in Collectors, o \in Wallets, t \in Nat : Visits(c, o, t) => Visits(c, o, t)'
      PROVE  AllCovered'
  BY <1>1, QuietCovers, AllStay
<1>2. CASE UNCHANGED vars
  <2>1. \A c \in Collectors, o \in Wallets, t \in Nat : Visits(c, o, t) => Visits(c, o, t)'
    BY <1>2, OthersVisits DEF vars, Visits, Due
  <2>2. QED
    BY <1>1, <1>2, <2>1 DEF vars, Due
<1>3. ASSUME NEW w \in Charts, NEW p \in Wallets, Chart(w, p) PROVE AllCovered'
  <2>1. /\ UNCHANGED <<now, rows, queue, started, ticks, faults>> /\ Due' = Due
        /\ \A c \in Collectors : writer'[c] = writer[c]
    BY <1>0, <1>3 DEF Chart, Begin, Due, TypeOK
  <2>2. \A c \in Collectors, o \in Wallets, t \in Nat : Visits(c, o, t) => Visits(c, o, t)'
    BY <2>1, OthersVisits DEF Visits
  <2>3. QED
    BY <1>1, <2>1, <2>2
<1>4. ASSUME NEW w \in Writers, Saving(w) PROVE AllCovered'
  BY <1>4, SaveAllCovered
<1>5. ASSUME NEW w \in Writers, Breaks(w) PROVE AllCovered'
  BY <1>5, BreaksCovered
<1>6. ASSUME NEW c \in Collectors, CollectorTick(c) PROVE AllCovered'
  BY <1>6, TickCovered
<1>7. ASSUME NEW d \in Collectors, CollectOne(d) PROVE AllCovered'
  <2>1. rows' = rows /\ Due' = Due /\ faults' = faults
    BY <1>7 DEF CollectOne, Due
  <2>2. \A c \in Collectors, o \in Wallets, t \in Nat : Visits(c, o, t) => Visits(c, o, t)'
    BY <1>7, CollectVisits
  <2>3. QED
    BY <1>1, <2>1, <2>2
<1>8. CASE CollectorTickFails
  BY <1>8, TickFailsCovered
<1>9. CASE Restart
  BY <1>9, RestartCovered
<1>10. CASE Tick
  <2>1. /\ UNCHANGED <<rows, writer, queue, started, ticks, faults>> /\ Due' = Due
        /\ now' = now + 1 /\ now \in Nat /\ \A c \in Collectors : queue[c] # {} => Busy(c)
    BY <1>10 DEF Tick, Due, TypeOK
  <2>2. ASSUME NEW c \in Collectors, NEW o \in Wallets, NEW t \in Nat, Visits(c, o, t)
        PROVE  Visits(c, o, t)'
    <3>1. Busy(c) /\ t <= now
      BY <2>1, <2>2 DEF Visits
    <3>2. t <= now'
      BY <2>1, <3>1
    <3>3. QED
      BY <2>1, <2>2, <3>1, <3>2, OthersVisits
  <2>3. QED
    BY <1>1, <2>1, <2>2
<1>11. QED
  BY <1>2, <1>3, <1>4, <1>5, <1>6, <1>7, <1>8, <1>9, <1>10 DEF Next

\* Every hour is covered throughout.
LEMMA SpecCovered == ASSUME PassFits PROVE Spec => [](TypeOK /\ OnTime /\ AllCovered)
<1>1. Init => TypeOK /\ OnTime /\ AllCovered
  BY InitOnTime
<1>2. SInv => TypeOK
  BY DEF SInv
<1>3. TypeOK /\ TypeOK' /\ OnTime /\ AllCovered /\ [Next]_vars => (TypeOK /\ OnTime /\ AllCovered)'
  BY NextOnTime, NextCovered
<1>4. QED
  BY <1>1, <1>2, <1>3, SpecSInv, PTL DEF Spec

\* If a pass over the wallets fits into the hour, a wallet's history has no gap of
\* two hours without a failure, and each failure, lost tick or restart makes a gap
\* at most one hour longer, however the timers, saves and charts interleave.
THEOREM HistoryHasNoLongGap == ASSUME PassFits PROVE Spec => []NoLongGap
<1>1. ASSUME TypeOK, OnTime, AllCovered PROVE NoLongGap
  <2> SUFFICES ASSUME NEW r \in rows, NEW h \in Nat, HourOf(r) <= h, HourLen * (h + 2 + faults) <= now
               PROVE  \E k \in h..(h + 1 + faults) : HasRow(r.owner, k)
    BY DEF NoLongGap
  <2>1. /\ now \in Nat /\ Due \in Nat /\ Pass \in Nat /\ faults \in Nat /\ now <= Due /\ r \in Row
        /\ GapEnd(h) \in Nat /\ HourLen * h \in Nat
    BY <1>1, DueNat, PassBounds, GapEndNat DEF OnTime, TypeOK
  <2>2. GapEnd(h) = HourLen * (h + 2 + faults)
    BY <2>1 DEF GapEnd
  <2>3. r.ts < HourLen * h + HourLen
    <3> DEFINE q == r.ts \div HourLen
    <3>1. r.ts \in Nat
      BY <2>1 DEF Row
    <3>2. /\ q \in Nat /\ r.ts = HourLen * q + (r.ts % HourLen) /\ r.ts % HourLen \in 0..(HourLen - 1)
          /\ q <= h
      BY <3>1, HourDivision DEF HourOf
    <3> HIDE DEF q
    <3>3. HourLen * q <= HourLen * h /\ HourLen * q \in Nat
      BY <3>2, Multiples
    <3>4. QED
      BY <2>1, <3>1, <3>2, <3>3
  <2>4. Covered(r.owner, h)
    BY <1>1, <2>3 DEF AllCovered
  <2>5. ~ (Due + Pass < GapEnd(h))
    BY <2>1, <2>2
  <2>6. ASSUME NEW c \in Collectors, NEW t \in Nat, Visits(c, r.owner, t), t + Pass < GapEnd(h) PROVE FALSE
    <3>1. now <= t + Pass
      BY <1>1, <2>6, VisitAlive
    <3>2. QED
      BY <2>1, <2>2, <2>6, <3>1
  <2>7. HasRowIn(r.owner, HourLen * h, GapEnd(h))
    BY <2>4, <2>5, <2>6 DEF Covered
  <2>8. PICK s \in rows : s.owner = r.owner /\ s.ts >= HourLen * h /\ s.ts < GapEnd(h)
    BY <2>7 DEF HasRowIn
  <2> DEFINE k == s.ts \div HourLen
  <2>9. s.ts \in Nat
    BY <1>1, <2>8 DEF TypeOK, Row
  <2>10. k \in Nat /\ s.ts = HourLen * k + (s.ts % HourLen) /\ s.ts % HourLen \in 0..(HourLen - 1)
    BY <2>9, HourDivision
  <2>11. HasRow(r.owner, k)
    BY <2>8 DEF HasRow, HourOf
  <2> HIDE DEF k
  <2>12. HourLen * k \in Nat
    BY <2>10
  <2>13. ~ (k < h)
    <3>1. k < h => HourLen * k + HourLen <= HourLen * h
      BY <2>10, Product
    <3>2. QED
      BY <2>1, <2>8, <2>9, <2>10, <2>12, <3>1
  <2>14. ~ (h + 2 + faults <= k)
    <3>1. h + 2 + faults <= k => HourLen * (h + 2 + faults) <= HourLen * k
      BY <2>1, <2>10, Multiples
    <3>2. HourLen * (h + 2 + faults) \in Nat
      BY <2>1, <2>2
    <3>3. QED
      BY <2>2, <2>8, <2>9, <2>10, <2>12, <3>1, <3>2
  <2>15. k \in h..(h + 1 + faults)
    BY <2>1, <2>10, <2>13, <2>14
  <2>16. QED
    BY <2>11, <2>15
<1>2. QED
  BY <1>1, SpecCovered, PTL

-----------------------------------------------------------------------------
(* What a wallet that did nothing is told (Chart).                         *)

\* Unless something failed, a snapshot holds what the wallet held then.
HeldThen == mishaps = 0 => \A s \in snaps : s.held = was[s.ts]

\* A wallet without moves held the same all along.
SameAllAlong == Moves(was) = 0 => \A t \in 0..clock : was[t] = was[0]

QuietInv ==
  /\ clock \in Nat /\ mishaps \in Nat /\ DOMAIN was = 0..clock
  /\ \A s \in snaps : s.ts \in 0..clock
  /\ HeldThen /\ SameAllAlong /\ QuietWallet

\* Rows up to now have a first and a last.
LEMMA FirstAndLast ==
  ASSUME NEW n \in Nat, NEW stored, stored # {}, \A s \in stored : s.ts \in 0..n
  PROVE  /\ \E s \in stored : \A q \in stored : s.ts <= q.ts
         /\ \E s \in stored : \A q \in stored : s.ts >= q.ts
<1> DEFINE times == {s.ts : s \in stored}
           left == {n - s.ts : s \in stored}
<1>1. times \in SUBSET Nat /\ times # {} /\ left \in SUBSET Nat /\ left # {}
  OBVIOUS
<1>2. PICK s \in stored : s.ts = Min(times) /\ \A t \in times : Min(times) <= t
  <2> HIDE DEF times
  <2>1. Min(times) \in times /\ \A t \in times : Min(times) <= t
    BY <1>1, MinIs
  <2>2. QED
    BY <2>1 DEF times
<1>3. PICK s2 \in stored : n - s2.ts = Min(left) /\ \A t \in left : Min(left) <= t
  <2> HIDE DEF left
  <2>1. Min(left) \in left /\ \A t \in left : Min(left) <= t
    BY <1>1, MinIs
  <2>2. QED
    BY <2>1 DEF left
<1>4. \A q \in stored : s.ts <= q.ts /\ s2.ts >= q.ts
  <2> SUFFICES ASSUME NEW q \in stored PROVE s.ts <= q.ts /\ s2.ts >= q.ts
    OBVIOUS
  <2>1. Min(times) <= q.ts /\ Min(left) <= n - q.ts
    BY <1>2, <1>3
  <2> HIDE DEF times, left
  <2>2. QED
    BY <1>2, <1>3, <2>1
<1>5. QED
  BY <1>4

\* A series without moves stays without when its last point is dropped.
LEMMA NoMoves ==
  ASSUME NEW n \in Nat, NEW f, DOMAIN f = 0..n, Moves(f) = 0
  PROVE  \A t \in 1..n : f[t] = f[t - 1]
<1> DEFINE S == {t \in DOMAIN f \ {0} : f[t] # f[t - 1]}
<1>1. S \subseteq 0..n /\ IsFiniteSet(0..n)
  BY FS_Interval
<1>2. IsFiniteSet(S)
  BY <1>1, FS_Subset
<1>3. S = {}
  <2>1. Cardinality(S) = 0
    BY DEF Moves
  <2> HIDE DEF S
  <2>2. QED
    BY <1>2, <2>1, FS_EmptySet
<1>4. QED
  <2> SUFFICES ASSUME NEW t \in 1..n, f[t] # f[t - 1] PROVE FALSE
    OBVIOUS
  <2>1. t \in DOMAIN f \ {0}
    OBVIOUS
  <2>2. t \in S
    BY <2>1
  <2>3. QED
    BY <1>3, <2>2

\* And a series that stays has no moves.
LEMMA StillMoves ==
  ASSUME NEW n \in Nat, NEW f, DOMAIN f = 0..n, \A t \in 1..n : f[t] = f[t - 1]
  PROVE  Moves(f) = 0
<1>1. {t \in DOMAIN f \ {0} : f[t] # f[t - 1]} = {}
  OBVIOUS
<1>2. QED
  BY <1>1, FS_EmptySet DEF Moves

\* A wallet before its first snapshot.
LEMMA InitQuiet == ChartInit => QuietInv
<1> SUFFICES ASSUME ChartInit PROVE QuietInv
  OBVIOUS
<1>1. clock = 0 /\ mishaps = 0 /\ snaps = {} /\ diff = NoDiff
  BY DEF ChartInit
<1>2. DOMAIN was = 0..0
  BY DEF ChartInit
<1>3. QED
  BY <1>1, <1>2 DEF QuietInv, HeldThen, SameAllAlong, QuietWallet, OnlyRealChanges

\* A snapshot is saved, or there is one.
LEMMA SavedKeeps ==
  ASSUME QuietInv, NEW held, snaps' = Saved(held), clock' = clock, was' = was, mishaps' \in Nat,
         mishaps' = 0 => mishaps = 0 /\ held = was[clock], diff = NoDiff, diff' = diff
  PROVE  QuietInv'
<1>1. \A s \in snaps' : s \in snaps \/ s = [ts |-> clock, held |-> held]
  BY DEF Saved
<1>2. QED
  BY <1>1 DEF QuietInv, HeldThen, SameAllAlong, QuietWallet, OnlyRealChanges, Moves

\* Time passes, and the wallet may trade.
LEMMA TimeQuiet == QuietInv /\ TimePasses => QuietInv'
<1> SUFFICES ASSUME QuietInv, TimePasses PROVE QuietInv'
  OBVIOUS
<1>1. /\ clock \in Nat /\ clock' = clock + 1 /\ DOMAIN was = 0..clock
      /\ snaps' = snaps /\ mishaps' = mishaps /\ diff' = NoDiff
  BY DEF QuietInv, TimePasses, Unshown
<1>2. PICK h : was' = [t \in 0..clock' |-> IF t = clock' THEN h ELSE was[t]]
  BY DEF TimePasses
<1>3. DOMAIN was' = 0..clock' /\ \A t \in 0..clock : was'[t] = was[t]
  BY <1>1, <1>2
<1>4. HeldThen'
  BY <1>1, <1>3 DEF QuietInv, HeldThen
<1>5. SameAllAlong'
  <2> SUFFICES ASSUME Moves(was') = 0 PROVE \A t \in 0..clock' : was'[t] = was'[0]
    BY DEF SameAllAlong, Moves
  <2>1. \A t \in 1..clock' : was'[t] = was'[t - 1]
    BY <1>1, <1>3, NoMoves
  <2>2. \A t \in 1..clock : was[t] = was[t - 1]
    BY <1>1, <1>3, <2>1
  <2>3. \A t \in 0..clock : was[t] = was[0]
    BY <1>1, <2>2, StillMoves DEF QuietInv, SameAllAlong
  <2>4. was'[clock'] = was'[clock]
    BY <1>1, <2>1
  <2>5. QED
    BY <1>1, <1>3, <2>3, <2>4
<1>6. QED
  BY <1>1, <1>3, <1>4, <1>5 DEF QuietInv, QuietWallet, OnlyRealChanges

\* Two snapshots of a quiet wallet are compared.
LEMMA CompareQuiet ==
  ASSUME QuietInv, NEW window, Compare(window)
  PROVE  QuietInv'
<1> DEFINE stored == {s \in snaps : s.ts >= clock - window}
           first == CHOOSE s \in stored : \A q \in stored : s.ts <= q.ts
           last == CHOOSE s \in stored : \A q \in stored : s.ts >= q.ts
<1>1. UNCHANGED <<clock, was, snaps, mishaps>> /\ Cardinality(stored) >= 2
      /\ diff' = <<Kind(Assets(first.held), Assets(last.held)),
                   Kind(Debts(first.held), Debts(last.held))>>
  BY DEF Compare
<1>2. ASSUME Moves(was) = 0, mishaps = 0 PROVE diff' = <<"none", "none">>
  <2>0. \A s \in stored : s \in snaps /\ s.ts \in 0..clock
    BY DEF QuietInv
  <2>1. stored # {}
    <3>1. Cardinality(stored) >= 2
      BY <1>1
    <3> HIDE DEF stored
    <3>2. stored = {} => Cardinality(stored) = 0
      BY FS_EmptySet
    <3>3. QED
      BY <3>1, <3>2
  <2> HIDE DEF stored
  <2>2. first \in stored /\ last \in stored
    BY <2>0, <2>1, FirstAndLast DEF QuietInv
  <2> HIDE DEF first, last
  <2>3. first.held = was[0] /\ last.held = was[0]
    BY <1>2, <2>0, <2>2 DEF QuietInv, HeldThen, SameAllAlong
  <2>4. QED
    BY <1>1, <2>3 DEF Kind
<1>3. QED
  BY <1>1, <1>2 DEF QuietInv, HeldThen, SameAllAlong, QuietWallet, OnlyRealChanges, Moves

\* A chart is asked for.
LEMMA RequestQuiet ==
  ASSUME QuietInv, NEW r, Request(r)
  PROVE  QuietInv'
<1>1. PICK held \in Load, spot \in {price[clock], None}, said \in Said :
        LET rows1 == Backfilled(r, said)
            failures == (IF held = was[clock] THEN 0 ELSE 1) + (IF spot = None THEN 1 ELSE 0)
                        + (IF rows1 = quotes \/ said = price THEN 0 ELSE 1)
        IN  mishaps' = mishaps + failures /\ snaps' = Saved(held)
            /\ diff = NoDiff /\ UNCHANGED <<clock, was, diff>>
  BY DEF Request
<1>2. PICK a \in {0, 1}, b \in {0, 1}, c \in {0, 1} :
        mishaps' = mishaps + (a + b + c) /\ (a = 0 => held = was[clock])
  BY <1>1
<1>3. mishaps \in Nat
  BY DEF QuietInv
<1>4. mishaps' \in Nat /\ (mishaps' = 0 => mishaps = 0 /\ held = was[clock])
  BY <1>2, <1>3
<1>5. QED
  BY <1>1, <1>4, SavedKeeps

\* Steps that save nothing.
LEMMA StillQuiet ==
  ASSUME QuietInv, UNCHANGED <<clock, was, snaps, mishaps>>, diff' \in {diff, NoDiff}
  PROVE  QuietInv'
BY DEF QuietInv, HeldThen, SameAllAlong, QuietWallet, OnlyRealChanges, Moves

\* Every step keeps the invariant.
LEMMA NextQuiet == QuietInv /\ [ChartNext]_chartVars => QuietInv'
<1> SUFFICES ASSUME QuietInv, [ChartNext]_chartVars PROVE QuietInv'
  OBVIOUS
<1>1. CASE UNCHANGED chartVars
  BY <1>1, StillQuiet DEF chartVars
<1>2. CASE Collect
  BY <1>2, StillQuiet DEF Collect, Unshown
<1>3. CASE Close
  BY <1>3, StillQuiet DEF Close
<1>4. CASE CollectSnapshot
  <2>1. PICK held \in Load \ {Empty} : snaps' = Saved(held) /\ mishaps' = mishaps + InPart(held)
    BY <1>4 DEF CollectSnapshot
  <2>2. mishaps \in Nat /\ InPart(held) \in {0, 1} /\ (InPart(held) = 0 => held = was[clock])
    BY <2>1 DEF InPart, QuietInv
  <2>3. mishaps' \in Nat /\ (mishaps' = 0 => mishaps = 0 /\ held = was[clock])
    BY <2>1, <2>2
  <2>4. QED
    BY <1>4, <2>1, <2>3, SavedKeeps DEF CollectSnapshot, Unshown
<1>5. QED
  BY <1>1, <1>2, <1>3, <1>4, TimeQuiet, RequestQuiet, CompareQuiet DEF ChartNext

\* A comparison of snapshots makes no change out of a quiet wallet, of however
\* many snapshots, and though the collector's loads came back empty; only if
\* they came back in part, or a chart's did empty, is nothing said.
THEOREM QuietWalletsStayQuiet == ChartSpec => []QuietWallet
<1>1. QuietInv => QuietWallet
  BY DEF QuietInv
<1>2. QED
  BY <1>1, InitQuiet, NextQuiet, PTL DEF ChartSpec
=============================================================================
