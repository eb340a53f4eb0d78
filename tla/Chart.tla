------------------------------- MODULE Chart -------------------------------
(***************************************************************************)
(* What a wallet was worth, drawn from what was written down at the time:  *)
(* the price ticks (priceCollector.ts every minute, priceHistory.ts from   *)
(* CoinGecko) and the hourly snapshots of its holdings.  A chart request   *)
(* (portfolioHistory.ts, chartValuation.ts) joins them in buckets, fills   *)
(* what is missing with what it has, and ends in the live headline;        *)
(* walletChanges.ts compares the first snapshot with the last.  One coin,  *)
(* which the wallet has plainly and in protocols, there also as a debt.    *)
(* That two savers may write one hour twice is in PortfolioSnapshots.      *)
(***************************************************************************)
EXTENDS Integers, FiniteSets, Sequences, FiniteSetsExt, Functions, Filters

CONSTANTS
  Prices,    \* what the coin may cost
  Holdings,  \* what the wallet may have: records [coins, defi]
  Ranges,    \* the charts: records [step, span]
  Hour,      \* an hour, in steps of the clock
  Ratio,     \* MAX_TICK_SPOT_RATIO
  Enough,    \* ticks that make a backfill needless
  Dense,     \* points that make snapshots worth drawing
  MaxMoves,  \* bound: changes of the price, of the holdings
  MaxMishaps, \* bound: loads, price sources and saves that fail
  MaxTicks,  \* bound: rows of a source that is still asked
  MaxClock    \* bound: clock

ASSUME PriceAssumption == Prices \subseteq Nat \ {0}
ASSUME HoldingAssumption == Holdings \subseteq [coins : Nat, defi : Int]
ASSUME RatioAssumption == Ratio \in Nat \ {0} /\ Hour \in Nat \ {0}
\* No range is shorter than half a bucket and an hour.
ASSUME RangeAssumption ==
  \A r \in Ranges :
    r.step \in Nat \ {0} /\ r.span \in Nat /\ 2 * r.span >= r.step + 2 * Hour
ASSUME ChartBounds == MaxMoves \in Nat /\ MaxMishaps \in Nat /\ MaxClock \in Nat

VARIABLES
  clock,
  price,   \* price[t]: what the coin cost
  was,     \* was[t]: what the wallet held
  quotes,  \* price_ticks: rows [ts, source, px], one for a time
  snaps,   \* portfolio_snapshots: rows [ts, held]
  chart,   \* the last chart, or NoChart
  diff,    \* what the last comparison said, or NoDiff
  mishaps

chartVars == <<clock, price, was, quotes, snaps, chart, diff, mishaps>>

None == 0  \* no price, no value
Empty == [coins |-> 0, defi |-> 0]
NoChart == [at |-> 0, points |-> <<>>]
NoDiff == <<>>

Floor(t, step) == t - (t % step)
Net(held) == held.coins + held.defi
Assets(held) == held.coins + (IF held.defi > 0 THEN held.defi ELSE 0)
Debts(held) == IF held.defi < 0 THEN - held.defi ELSE 0

ChartInit ==
  /\ clock = 0
  /\ \E p \in Prices : price = [t \in {0} |-> p]
  /\ \E h \in Holdings : was = [t \in {0} |-> h]
  /\ quotes = {} /\ snaps = {}
  /\ chart = NoChart /\ diff = NoDiff
  /\ mishaps = 0

\* Nobody looks at a chart or a comparison; the pages are opened one by one.
Unshown == chart = NoChart /\ diff = NoDiff /\ UNCHANGED <<chart, diff>>

Close ==
  /\ chart # NoChart \/ diff # NoDiff
  /\ chart' = NoChart /\ diff' = NoDiff
  /\ UNCHANGED <<clock, price, was, quotes, snaps, mishaps>>

-----------------------------------------------------------------------------
(* What is written down.                                                   *)

Moves(f) == Cardinality({t \in DOMAIN f \ {0} : f[t] # f[t - 1]})

\* Time passes; prices move and the wallet trades.
TimePasses ==
  /\ clock < MaxClock
  /\ clock' = clock + 1
  /\ \E p \in Prices : price' = [t \in 0..clock' |-> IF t = clock' THEN p ELSE price[t]]
  /\ \E h \in Holdings : was' = [t \in 0..clock' |-> IF t = clock' THEN h ELSE was[t]]
  /\ Moves(price') + Moves(was') <= MaxMoves
  /\ Unshown
  /\ UNCHANGED <<quotes, snaps, mishaps>>

\* collectOnce of the prices; a row of that time stays.
Collect ==
  /\ Cardinality({row \in quotes : row.source = "pyth"}) < MaxTicks
  /\ quotes' = IF \E row \in quotes : row.ts = clock THEN quotes
               ELSE quotes \cup {[ts |-> clock, source |-> "pyth", px |-> price[clock]]}
  /\ Unshown
  /\ UNCHANGED <<clock, price, was, snaps, mishaps>>

\* savePortfolioSnapshotHourly
Saved(held) ==
  IF \E s \in snaps : Floor(s.ts, Hour) = Floor(clock, Hour)
    THEN snaps
    ELSE snaps \cup {[ts |-> clock, held |-> held]}

\* What loading h may give: balances and positions fail apart from each other
\* (loadWalletSnapshot: allSettled).
Loads(h) == {h, [h EXCEPT !.coins = 0], [h EXCEPT !.defi = 0], Empty}

Loadable == UNION {Loads(h) : h \in Holdings}

Load == IF mishaps < MaxMishaps THEN Loads(was[clock]) ELSE {was[clock]}

\* 1 for a load that came back in part: it is saved for what it is.
InPart(held) == IF held \in {was[clock], Empty} THEN 0 ELSE 1

\* Faulty: the collector saves whatever was loaded.
CollectSnapshotAny ==
  /\ \E held \in Load : snaps' = Saved(held) /\ mishaps' = mishaps + InPart(held)
  /\ Unshown
  /\ UNCHANGED <<clock, price, was, quotes>>

\* The snapshot collector leaves a wallet out that was loaded empty.
CollectSnapshot ==
  /\ \E held \in Load \ {Empty} : snaps' = Saved(held) /\ mishaps' = mishaps + InPart(held)
  /\ Unshown
  /\ UNCHANGED <<clock, price, was, quotes>>

-----------------------------------------------------------------------------
(* Reading it.                                                             *)

InRange(rows, from) == {r \in rows : r.ts > from}

\* hasEnoughPriceHistory: enough ticks over most of the range.
HasEnough(r) ==
  LET rows == InRange(quotes, clock - r.span)
  IN Cardinality(rows) >= Enough /\ \E row \in rows : 100 * (clock - row.ts) >= 85 * r.span

\* backfillHistory and insertTicks: CoinGecko's series for the range, with
\* what it says of the price at t; ON CONFLICT DO NOTHING keeps earlier rows.
Backfilled(r, said) ==
  IF HasEnough(r) THEN quotes
  ELSE quotes \cup
    {[ts |-> t, source |-> "coingecko", px |-> said[t]] :
       t \in {u \in DOMAIN said : u > clock - r.span
                /\ ~ \E row \in quotes : row.ts = u}}

\* What CoinGecko may answer: nothing, the truth, or another price for now.
Said ==
  IF Cardinality({row \in quotes : row.source = "coingecko"}) >= MaxTicks THEN {<<>>}
  ELSE {<<>>, price} \cup
    IF mishaps < MaxMishaps THEN {[price EXCEPT ![clock] = p] : p \in Prices} ELSE {}

\* sanitizeTickPrice
Sanitize(spot, px) ==
  IF spot # None /\ (px > spot * Ratio \/ px * Ratio < spot) THEN spot ELSE px

\* avg(price_usd) of one bucket's rows.
Average(rows) == SumFunction([row \in rows |-> row.px]) \div Cardinality(rows)

\* Faulty: the first bucket starts in the range.
BucketsInside(r) ==
  LET first == Floor(clock - r.span, r.step) + r.step
  IN [i \in 1..(((clock - first) \div r.step) + 1) |-> first + (i - 1) * r.step]

\* buildBucketTimes
Buckets(r) ==
  LET start == clock - r.span
      low == Floor(start, r.step)
      first == IF 2 * low < 2 * start - r.step THEN low + r.step ELSE low
  IN [i \in 1..(((clock - first) \div r.step) + 1) |-> first + (i - 1) * r.step]

\* The average of the rows of the bucket at t, if it has any.
Noted(rows, t, step) ==
  LET here == {row \in rows : Floor(row.ts, step) = t}
  IN IF here = {} THEN None ELSE Average(here)

\* buildHistoricalPriceMaps: a bucket without ticks has the last bucket's
\* price, and the first ones today's.
PricesAt(at, step, rows, spot) ==
  LET carried[i \in 0..Len(at)] ==
        IF i = 0 THEN spot
        ELSE LET noted == Noted(rows, at[i], step)
             IN IF noted = None THEN carried[i - 1] ELSE Sanitize(spot, noted)
  IN [i \in DOMAIN at |-> carried[i]]

\* Faulty: the snapshot that follows.
SnapAtNext(stored, t) ==
  {s \in stored : s.ts >= t /\ \A q \in stored : q.ts >= t => s.ts <= q.ts}

\* snapshotStateAtTime: the last one at or before t, if there is one.
SnapAt(stored, t) ==
  {s \in stored : s.ts <= t /\ \A q \in stored : q.ts <= t => q.ts <= s.ts}

Point(t, usd) == [t |-> t, usd |-> usd]

Drawn(at, usd, shown) == Picked([i \in DOMAIN at |-> Point(at[i], usd[i])], shown)

\* buildPointsFromSnapshots and valueSnapshotAtPrices
FromSnapshots(at, stored, px) ==
  LET state == [i \in DOMAIN at |-> SnapAt(stored, at[i])]
      worth == [i \in DOMAIN at |->
                 SumFunction([s \in state[i] |-> (Assets(s.held) - Debts(s.held)) * px[i]])]
  IN Drawn(at, worth, {i \in DOMAIN at : px[i] # None /\ state[i] # {}})

\* buildPortfolioHistoryFromBuckets: today's coins, and today's positions at
\* today's value if that is positive.
FromToday(at, held, spot, px) ==
  LET flat == IF held.defi > 0 THEN held.defi * spot ELSE 0
  IN Drawn(at, [i \in DOMAIN at |-> held.coins * px[i] + flat],
           {i \in DOMAIN at : px[i] # None})

Highest(points) == Max({points[i].usd : i \in DOMAIN points} \cup {0})

\* The snapshots are drawn if they are dense enough and never far above the
\* headline.
Choose(at, stored, held, spot, px, live) ==
  LET old == FromSnapshots(at, stored, px)
      headline == IF live # None THEN live ELSE Highest(old)
      use == /\ Cardinality(stored) >= 2
             /\ Len(old) >= Min({Dense, Len(at)})
             /\ 100 * Highest(old) <= 115 * headline
  IN IF use /\ Len(old) >= 2
       THEN [source |-> "snapshots", points |-> old]
       ELSE [source |-> "today", points |-> FromToday(at, held, spot, px)]

\* alignLastChartPoint: the last point is the headline, up to 0.5 %.
Align(points, live) ==
  LET n == Len(points)
  IN IF n = 0 THEN points
     ELSE LET off == points[n].usd - live
          IN IF 1000 * off < 5 * live /\ -1000 * off < 5 * live THEN points
             ELSE [points EXCEPT ![n].usd = live]

\* appendLiveChartPoint: a last point of the last hour becomes the live one.
AppendLive(points, live) ==
  LET n == Len(points)
  IN IF n > 0 /\ clock - points[n].t < Hour
       THEN [points EXCEPT ![n] = Point(clock, live)]
       ELSE Append(points, Point(clock, live))

\* GET /wallets/:address/chart.  The headline is what was loaded at the spot
\* price; snapshots are read before the one of this request is saved.
Request(r) ==
  \E held \in Load, spot \in {price[clock], None}, said \in Said :
    LET rows == Backfilled(r, said)
        live == IF Net(held) > 0 THEN Net(held) * spot ELSE None
        at == Buckets(r)
        px == PricesAt(at, r.step, InRange(rows, clock - r.span), spot)
        chosen == Choose(at, {s \in snaps : s.ts >= clock - r.span}, held, spot, px, live)
        failures == (IF held = was[clock] THEN 0 ELSE 1) + (IF spot = None THEN 1 ELSE 0)
                    + (IF rows = quotes \/ said = price THEN 0 ELSE 1)
    IN /\ mishaps + failures <= MaxMishaps
       /\ mishaps' = mishaps + failures
       /\ quotes' = rows
       /\ snaps' = Saved(held)
       /\ chart' = [at |-> clock, r |-> r, live |-> live, spot |-> spot, held |-> held,
                    source |-> chosen.source,
                    points |-> IF live = None THEN chosen.points
                               ELSE AppendLive(Align(chosen.points, live), live)]
       /\ chart = NoChart /\ diff = NoDiff
       /\ UNCHANGED <<clock, price, was, diff>>

\* What buildWalletChanges calls a change from b to a.
Kind(b, a) ==
  CASE b = a -> "none"
    [] b # a /\ b = 0 -> "opened"
    [] b # a /\ a = 0 -> "closed"
    [] OTHER -> IF a > b THEN "increased" ELSE "decreased"

\* GET /wallets/:address/changes: the first snapshot of 7 days, and the last.
Compare(window) ==
  LET stored == {s \in snaps : s.ts >= clock - window}
      first == CHOOSE s \in stored : \A q \in stored : s.ts <= q.ts
      last == CHOOSE s \in stored : \A q \in stored : s.ts >= q.ts
  IN /\ Cardinality(stored) >= 2
     /\ diff' = <<Kind(Assets(first.held), Assets(last.held)),
                  Kind(Debts(first.held), Debts(last.held))>>
     /\ chart = NoChart /\ diff = NoDiff
     /\ UNCHANGED <<clock, price, was, quotes, snaps, chart, mishaps>>

ChartNext ==
  \/ TimePasses \/ Collect \/ CollectSnapshot \/ Close
  \/ \E r \in Ranges : Request(r) \/ Compare(r.span)

ChartSpec == ChartInit /\ [][ChartNext]_chartVars

-----------------------------------------------------------------------------
ChartTypeOK ==
  /\ clock \in 0..MaxClock /\ mishaps \in 0..MaxMishaps
  /\ price \in [0..clock -> Prices] /\ was \in [0..clock -> Holdings]
  /\ \A row \in quotes : row.ts \in 0..clock /\ row.px \in Prices
  /\ \A s \in snaps : s.ts \in 0..clock /\ s.held \in Loadable
  /\ \A i \in DOMAIN chart.points : chart.points[i].t \in Int /\ chart.points[i].usd \in Int

\* A chart runs forward, never past the present, and it ends there in the
\* headline of the page, whatever was read for it.
EndsInHeadline ==
  chart # NoChart =>
    LET ps == chart.points
    IN /\ \A i \in 1..(Len(ps) - 1) : ps[i].t < ps[i + 1].t
       /\ \A i \in DOMAIN ps : ps[i].t <= chart.at
       /\ chart.live # None =>
            Len(ps) > 0 /\ ps[Len(ps)] = Point(chart.at, chart.live)

\* Points of buckets that are over: neither the live one nor the last.
Past == {i \in DOMAIN chart.points : chart.points[i].t + chart.r.step <= chart.at}

\* Once a chart has begun it has every bucket up to now, though ticks and
\* snapshots have gaps; with a headline it has the whole range.
NoHoles ==
  chart # NoChart =>
    LET ps == chart.points
        start == chart.at - chart.r.span
    IN /\ \A i \in Past \ {Len(ps)} :
            \/ ps[i + 1].t - ps[i].t = chart.r.step
            \/ i + 1 = Len(ps) /\ chart.live # None /\ ps[i + 1].t - ps[i].t < chart.r.step + Hour
       /\ chart.live # None /\ chart.source = "today" =>
            2 * ps[1].t <= 2 * start + chart.r.step

\* A bucket's ticks, as far as the range reaches.
TicksOf(t) ==
  {row \in quotes : row.ts > chart.at - chart.r.span /\ row.ts \in t..(t + chart.r.step - 1)}

\* The prices known of the bucket at t: those noted in it, else those noted
\* last before it.  What was noted between the range's start and its first
\* bucket is in no bucket.
NotedAt(t) ==
  LET before == {row \in quotes : /\ row.ts > chart.at - chart.r.span
                                  /\ row.ts >= Buckets(chart.r)[1]
                                  /\ row.ts < t + chart.r.step}
      last == CHOOSE row \in before : \A q \in before : q.ts <= row.ts
  IN IF before = {} THEN {} ELSE {row.px : row \in TicksOf(Floor(last.ts, chart.r.step))}

\* Today's price takes the place of one that is not known, or not believed.
TodayStandsIn(t) ==
  NotedAt(t) = {} \/ \E px \in NotedAt(t) : Sanitize(chart.spot, px) # px

\* The holdings the chart may value at t: by the last snapshot before it, if
\* it was drawn from snapshots, else today's.
ValuedAt(t) ==
  LET older == {s \in snaps : s.ts <= t /\ s.ts >= chart.at - chart.r.span}
  IN {s.held : s \in {q \in older : \A o \in older : o.ts <= q.ts}}

\* Both of the above: the chart is whole.
ChartWhole == ChartTypeOK /\ EndsInHeadline /\ NoHoles

\* That usd is the worth of some holdings the chart may value at t, at prices
\* between some of those given.
WorthAt(t, usd, known) ==
  \E held \in ValuedAt(t), lo, hi \in known : lo * Net(held) <= usd /\ usd <= hi * Net(held)

FromStored == chart # NoChart /\ chart.source = "snapshots"

\* The past of a chart of snapshots is what was held by the last snapshot
\* before each bucket, at prices noted then or last before it, or else, where
\* none was or one is out of all proportion, at today's.
NothingFromLater ==
  FromStored =>
    \A i \in Past :
      LET p == chart.points[i]
      IN WorthAt(p.t, p.usd, NotedAt(p.t)) \/ (TodayStandsIn(p.t) /\ WorthAt(p.t, p.usd, {chart.spot}))

\* What the comment on the chart's route says: points are snapshots at
\* historical prices, and for a bucket that is over never at the current one.
\* A price is historical if the coin has had it by then.
NeverCurrentPrices ==
  FromStored =>
    \A i \in Past :
      LET p == chart.points[i]
      IN WorthAt(p.t, p.usd, {price[u] : u \in 0..(p.t + chart.r.step - 1)})

\* However wrong a row of CoinGecko's is, the chart's past is within the ratio
\* of what the wallet would be worth now.
BadRowsContained ==
  chart # NoChart /\ chart.source = "today" /\ chart.spot # None =>
    \A i \in Past :
      chart.points[i].usd <= Ratio * chart.spot * Assets(chart.held)

\* The past of a chart of snapshots is theirs, at prices of the time as far as
\* any are known; drawn from today's holdings, it is only bounded by them.
PastHonest == NothingFromLater /\ BadRowsContained

\* A wallet that did nothing is told of no change.  That is what the comment in
\* walletChanges.ts says of it.
OnlyRealChanges == diff # NoDiff /\ Moves(was) = 0 => diff = <<"none", "none">>

\* It is so if no load came back in part and no chart's came back empty, though
\* the collector's may have.
QuietWallet == mishaps = 0 => OnlyRealChanges
=============================================================================
