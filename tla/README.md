# Revalio: TLA+ models and proofs

Models of the Revalio portfolio platform (`apps/indexer`, `apps/api`, `apps/web`),
model-checked with TLC on small instances and, where it matters most, proved with
TLAPS for every value of the constants. `PROJECT.json` lists the runs, the mutants
each property catches, the source lines each definition stands for, the hazards and
the theorems. Paths below are relative to the repository.

## 1. The system

```
Sui chain --checkpoints--> apps/indexer (Rust) --> PostgreSQL <--> apps/api (Fastify) <--> apps/web (React)
     \______________________________ JSON-RPC ______________________/ |
                                            Pyth, CoinGecko, ... ____/  + Redis, in-process caches
```

| component | state | operations | interacts with | what makes it correct |
|---|---|---|---|---|
| indexer pipelines (`apps/indexer/src`) | per pipeline: table, watermark, batch in memory | process, batch, commit; crash, restart | framework, chain, database | each table is exactly the chain at its pipeline's watermark, and keeps up |
| schema, `balances` view (`migrations`) | tables | - | indexer writes, API reads | sums over exact rows are exact |
| concurrency pool (`lib/asyncPool.ts`) | cursor, workers, results | claim, settle, reject | adapters, RPC | cap kept, each item once, results in place, settles |
| HTTP fetch and RPC failover (`lib/http.ts`, `rpcClient.ts`) | attempts | retry, back off, next node | every external service | first usable answer in the nodes' order; nothing only if all failed |
| caches of upstreams (`positions/sources`, `lib/prices.ts`, `coinMetadata.ts`, `walletAge.ts`, `walletProfileStore.ts`) | module variables, Redis, `coins` | hit, ask, keep, fail | RPC, vendors' APIs, database | nothing older than its lifetime, a failure is not taken for nothing longer than the code means it to |
| wallet snapshot cache (`lib/walletSnapshot.ts`) | two maps address -> value or promise | hit, join, load, settle, fail | every wallet route, the collector | one load at a time, no stale answers, empty results short-lived, nobody waits for ever |
| activity feed (`routes/activity.ts`, `lib/mainnetActivity.ts`, `ActivityFeed.tsx`) | the cursor; in the page a stack of them over cached queries | one page from the table or the RPC node; next, previous, retry | table written by the indexer | pages disjoint and in order, nothing skipped |
| portfolio snapshots (`lib/portfolioSnapshotStore.ts`, `portfolioSnapshotCollector.ts`) | `portfolio_snapshots` | hourly save from chart requests and from the collector | snapshot cache, chart | one snapshot an hour, history keeps growing |
| price ticks (`priceCollector.ts`, `lib/priceHistory.ts`) | `price_ticks` | collect every minute, backfill | Pyth, CoinGecko | earlier rows stay, bad rows are contained |
| chart and history (`lib/portfolioHistory.ts`, `chartValuation.ts`, `routes/chart.ts`, `lib/walletChanges.ts`) | - | bucket, value, choose a source, align, compare | snapshots, ticks | a bucket is valued with what held then, the chart ends in the headline |
| DeFi discovery (`lib/defiPositions.ts`, `protocols.ts`) | promises in flight | filter, scan, merge | RPC nodes | a position is not lost to one failed filter |
| native adapters (`positions/sources`) | their caches | fetch, decode, price | RPC, vendors' APIs | what could not be read is left out, never made up |
| position resolution (`positions/resolve.ts`, `positionsPayload.ts`) | - | adapters under timers, merge, second chances, filters | discovery, adapters | a position is counted once, for no more than it is |
| wallet balances (`lib/walletBalances.ts`) | - | table raced with a timeout, fallback | table, RPC | never throws; indexed rows win |
| wallet payloads and overview (`lib/walletPayload.ts`, `portfolioSummary.ts`, `portfolioSnapshotState.ts`, `routes/overview.ts`) | - | token list, headline, positions, state for the chart | snapshot cache, prices, metadata | the same wealth on every page, counted once |
| wallet analysis (`lib/walletAnalysis.ts`) | - | a profile of three payloads | overview | no more than was read, whatever failed |
| NFTs (`lib/nfts.ts`, `NftGallery.tsx`) | the cursor, kept by the page | scan wallet and kiosks, load more | RPC | every item shown, once |
| wallet profiles (`lib/walletProfileStore.ts`, `routes/profile.ts`, `WalletProfile.tsx`) | `wallet_profiles`; fields in several tabs | read, signed write, edit | database | a save changes its own field, a tab shows the row it has |
| browser lists (`web/src/lib`, `hooks`) | localStorage, copies in components | read-modify-write from tabs, events | pages | nothing cleared comes back, one badge, tabs agree |
| animated canvases (`WalletInflowPanel.tsx`, `FooterMatrix.tsx`) | loop, observers, timers | start and stop from four sides | the browser | one loop, none that is left behind |
| API server (`server.ts`, `index.ts`) | - | wiring, start of the collectors | all of the API | - |
| balance timeline, infrastructure, documents, video recorder | - | - | - | not modelled (section 5) |

**What is hard here.** Checkpoints reach a commit batch in any order and are replayed
after a crash. Requests of one wallet meet in a promise cache; callbacks of a settled
promise run before the next event, but between two awaits anything may happen. A
reader pages through a table the indexer is inserting into. Two writers look up the
same hour before either inserts. Timers fire while their last pass is still running.
Every external call may fail, and most of this code answers a failure with an empty
result that something downstream may keep, merge, filter or sum up. One stake, deposit
or LP is found by up to three sources under keys of their own. Several tabs write one
row and one storage.

## 2. Modules

| module | what it is |
|---|---|
| `Chain` | the chain as the handlers see it (external): transactions, versions, checkpoints |
| `LedgerView` | abstract specification: tables that step from one checkpoint's state to a later one's |
| `Indexer`, `IndexerProofs` | the three pipelines: feed, commit, crash, restart; implements `LedgerView` |
| `AsyncPool` | `mapWithConcurrency` |
| `Failover` | abstract specification: what a read of the chain promises its caller |
| `RpcClient` | `fetchJson` under the failover of `rpcClient.ts`; implements `Failover` |
| `PooledReads` | composition: the pool whose calls are these reads |
| `CachedLookup` | thirteen caches of upstreams, one at a time |
| `SnapshotCache`, `SnapshotCacheProofs` | the two promise caches of a wallet |
| `ActivityFeed` | paging the feed |
| `FeedPages` | the feed's page in the browser, on top of `ActivityFeed`'s table |
| `PortfolioSnapshots` | the hourly save, its two callers, the collector's timers |
| `Chart` | price ticks, snapshots, and what is drawn from them |
| `Registry` | the tables of Move types and the list of filters |
| `Discovery` | which positions a wallet owns: filters, scan, nodes |
| `DiscoveryProofs` | proofs about the discovery and about what `Resolve` makes of its positions |
| `Adapters` | what each adapter makes of the reads and prices it gets |
| `Resolve`, `Overview`, `Analysis` | each on top of the one before: the positions, what a wallet is worth, its profile |
| `Browser`, `Profile`, `BrowserLists`, `Gallery`, `Animation` | the parts of the pages that keep a state |
| `Filters`, `ListLemmas` | a filter of a list by the positions it keeps; what the proofs need of lists, sums and finite sets |
| `UpstreamProofs` | proofs about the pool, the client, their composition and the caches |
| `FeedProofs`, `HistoryProofs`, `WebProofs` | proofs about the feed and its page, a wallet's snapshots and charts, and the pages that keep a state |
| `MC*` | model values, symmetry where it is sound, and compositions for the runs |

`MCUpstream`, `MCHistory`, `MCWeb`, `MCFeedTable` and `MCDiscovery` bundle modules that do not act on
each other: a variable `part`, which never changes, says which of them a behaviour is
about, and the others keep their initial values. One run then checks what would be
several.

### Chain, LedgerView, Indexer

A transaction is `[cp, ver, eff]`: its checkpoint, the Lamport version it gives every
object it touches, and what became of each (an owner, not owned by an address, gone).
`Feed(p, i)` is one iteration of `for tx in &checkpoint.transactions` in pipeline `p`,
with the values it emits handed to `batch`; a checkpoint is fed completely before the
next, and those of one batch come in any order, as the framework's concurrent
processors deliver them. `Emits` and `Change` are `process`, `Observe` is
`CoinBatch::observe`, `Applied` the DELETE and the upsert of `commit`, and `Commit`
writes rows and watermark in one transaction, which is what the framework does with a
sequential pipeline. A commit that fails changes nothing and is retried with the same
batch, so it is a stutter. `Crash` loses every batch, `Restart` resumes from the
watermarks. The content of an object at a version never changes on Sui, so a row is
its owner and version (`positions` stores no version; there it stands for `details`).

`LedgerView` has neither batches nor crashes. Its `Advance(p)` moves a table to the
state of a later sealed checkpoint. `RefinesLedger` is `Ledger!LedgerSpec` under the
identity mapping of the five variables a reader of the database can see.

### AsyncPool, RpcClient, Failover, PooledReads

`AsyncPool`: one worker step per stretch between two awaits. `Take` claims an index and
calls `fn`, `Settle` and `Reject` are the call's end, `Return` the worker's, `Resolve`
is `Promise.all`. Any call may reject.

`RpcClient`: a step is one reply or the end of one wait. `Content` is the object,
`Useless` an answer that parses but has none (a JSON-RPC error, no such object),
`Refused` a status that is not retried, `Transient` one that is, a lost connection, a
timeout or a body that does not parse; `Wake` ends the wait before the next attempt.
`healthy` nodes always send content. `retried` and `settled` count the outcomes
`recordOutcome` reports. How long a wait is, Retry-After included, changes no outcome
and is left out.

`Failover` knows only which node is asked and whose answer was given. Each caller's
read implements it with waits and retries as stutters (`KeepsPromise`, one instance
per caller).

`PooledReads` composes the two as the Cetus and Turbos decoders do: the callers are the
pool's workers, `fn` begins with a read (`Claim`) and its promise may settle or reject
only when the read is over (`Decode`).

### CachedLookup

All these caches have one shape, an entry with a lifetime before a call that may fail
or come to nothing. They differ in policy: `Shared` promises that later callers await,
`Forever` entries, `KeepsNothing`, which remember an empty answer or a failure, and
Ember's registry, which answers a failure with what it had. `cache` says which one a
behaviour is about. `Break` is a failure or a time limit; `Kept` is the write, which
may itself fail where it is Redis's or the database's. `upstream` is a version that
grows; `ended` and `failed` date what the properties ask about.

### SnapshotCache

One address; `store` says which of the two caches it is, and never changes. An entry is
a value with its expiry or a promise. `Settle` is the `.then` with the answers of all
who await it, since these callbacks run before the next event; `Shortened` is what each
caller of `getCachedWalletBalances` then does to the entry of an empty wallet. The
clock counts in steps of 2.5 s, so that an entry can be read between its writing and
its end even if it lives for 5 s.

### ActivityFeed, FeedPages

The reader of `ActivityFeed` holds the cursor of its last page; `DbPage` and `RpcPage`
are the handler's two ways to answer and `FallBack` the await between them. `Execute`
and `Index` add transactions and rows between any two pages. `Newer` is the row
comparison of the keyset; timestamps repeat and digests are in any order, so that ties
occur.

`FeedPages` has a user in the reader's place, on a page whose queries are keyed by page
number while the cursors they are asked with change. `Observe` is what `useQuery` does
with a page that comes onto the screen; `GoStale` is the 30 s after which it asks
again, oldest data first, `DropQuery` the library's collection of unused queries.
Requests go on when the page is closed. `after` says of a page's data that the page
before it has not been answered since they were asked for.

### PortfolioSnapshots, Chart

Chart requests and collector ticks are writers in four phases, one for each await of
the save: building the state, the SELECT (the hour's start is computed before it), the
INSERT (the timestamp is computed before that). `Due` are the two timers, `Followed`
the wallets with a snapshot in the last seven days. `Breaks` is a load or query that
fails, or a collector's wallet that was loaded empty; `CollectorTickFails` a failed
query for the wallets; `Restart` a new process, which takes no time. All three count
as `faults`, and `NoLongGap` allows one more missed hour for each. Time does not pass
a due timer or a writer that has used up `MaxTake`: timers fire on time and requests
end. `PassFits` is what `NoLongGap` rests on: a pass over all wallets, one after the
other, ends within the hour, the first tick's delay or one more save included, and the
seven days of the list are longer than the hours failures can cost. The code has no such
guard: with more wallets than an hour's pass can save, hours are missed without a
failure.

`Chart` has one coin, held plainly and in protocols, there also as a debt. `price` and
`was` remember the world, `quotes` and `snaps` are the two tables. `Request` is a whole
chart request: load, headline, backfill, buckets, carried and sanitized prices, the
snapshot in force at each, the choice between snapshots and today's holdings,
alignment, the live point, and the save. `Compare` is the comparison of snapshots.
Loads, price sources and CoinGecko's series may each go wrong (`mishaps`): balances and
positions fail apart from each other, so that a load may come back in part (`Loads`), and
it is saved for what it is.

### Registry, Discovery

`Registry` translates `protocols.ts`: two tables that classify a type, by name and by
module and struct, and the filters that ask a node for types, which are kept by hand
beside them. `MCDiscovery` takes the wallet's objects, positions and filters from it,
and its assumption `TablesAgree` says that the tables agree as they stand: every type
listed by name is asked for by a filter, no filter asks for a type that would then be
refused, and a package listed by name keeps its protocol though another's suffix fits.

A step of `Discovery` is one answer of a node, or one failure: `FilterPage` and
`FilterFails` are the calls of `collectFiltered`, `ScanPage` and `ScanFails` those of
`collectScanned`, and the end of a part is in the step of its last call, since nothing
is awaited between. The two parts go on differently: after the last filter a node that
found nothing hands over to the next one, while the scan asks the next node only after
an error that left it without a position. A JSON-RPC error in a filter keeps the pages
it has, an exception drops them, so `FilterFails` has two outcomes. `Finish` settles
the promise in `discoveryInflight` for all who `Join`ed. A page is a node's list of
what the wallet owns *now* behind the cursor, so objects may come and go between pages
(`Move`); `kept` and `ever` remember what was there throughout, and at any time. A
position that comes between two pages may be missed, and no property says otherwise.

### Adapters, Resolve, Overview, Analysis

A position is a record with its adapter, protocol, category, pool and `legs`, what it
holds of each coin, debts below 0. `Adapters` says which rows an adapter makes of the
reads `up` that were answered and the coins `priced`: some want all prices, some leave
out what they cannot price, some give one net value; their keys differ, a pool's or a
position's own. Prices are 1, and two units of a coin that bears interest are one of
principal until its index is read.

`Resolve` goes through the phases of `resolveDefiPositions`, `fetching`, `merged`,
`retried`, `decoded`, `answered`, and `Payload` through `paid`. While fetching, every
adapter answers with any subset of its reads or loses to its timer. The owned scan never
rejects: every failure in it is caught (`defiPositions.ts:248`, `287`, `339`), and a filter
or a page that failed, or lay beyond a cap, leaves its positions out, as `Discovery` has it
step by step. So it comes back with the rows of any part of the wallet, none included
(`Scans`), and the rest of the pipeline goes on with them. `Merge` is `mergePositions`: the rows join one after the other
(`Put`), and where one has the key already, `Better` says which stays. `calm` says
that everything was read in time and priced, the owned scan in full: then the properties
demand exact values.

`Overview` runs three payloads side by side on one snapshot, as `Promise.all` does. The
snapshot's halves are loaded apart (`Promise.allSettled`): balances stay when positions
are lost, and the reverse. There are balances from the table in time or from the nodes, the token list without the receipts
of deposits, the headline, and the positions; with the lines of raw amounts kept for
the chart, each in a scale of its own. `Analysis` makes a profile of the three, any of
which may have failed: net worth, exposure by class, what is owed and where.

### Profile, BrowserLists, Gallery, Animation

`Profile`: the row, both routes and the page in several tabs. A save sends all three
fields, those it does not mean as the tab has them. `overtaken` marks a tab whose row
changed while one of its saves was under way.

`BrowserLists`: a handler reads, changes and writes in one turn; the writing tab is told
at once, the others by a storage event (`late`, delivered in any order). What
`enrichHistoryEntry` was waiting for may come after the list was cleared.

`Gallery`: `ReadWallet` is the loop over the wallet's pages, `Respond` the kiosks, the
cut at the limit and the merge in the page. `disturbed` marks a failed call or a move,
`cut` an answer that had more than its limit.

`Animation`: one effect per canvas; the mount, the size observer's timer, the
intersection observer, the tab and the motion preference start and stop its loop in
any order. `unasked` marks a start that did not look whether it is seen, `refused` one
that found no size.

## 3. Runs

| run | instance | shows |
|---|---|---|
| `indexer_coins` | 1 coin, 2 wallets, 4 transactions, 3 checkpoints, batches of 2, 1 crash | the tables are exact, batches resolve by version, `LedgerView` is implemented |
| `indexer_live` | a coin and a stake, 2 pipelines, bootstrap at checkpoint 2, 2 crashes, fairness | every sealed checkpoint reaches every table |
| `upstream` | 4 rows, 2 workers, 2 nodes, 1 retry, fairness; each cache with 2 callers, lifetime 2, calls of up to 1, 4 ticks, 2 changes upstream | the pool keeps its cap and order over failing reads and settles, reads keep `Failover`'s promise; how old a cached answer may be and what a failure leaves |
| `cache` | 2 callers, 3 loads, 50 s, either cache, fairness | single flight, lifetimes, no answer out of order, nobody waits for ever |
| `feed_table` | a reader: pages of 2, up to 6 transactions, 2 timestamps, first one not indexed; a user of 3 pages of 1: up to 5 transactions, the first not indexed, of one timestamp and with digests in any order, any request failing, data going stale or dropped at any time | pages disjoint and complete; on the page they join, and no row is on two |
| `feed_rpc` | pages of 1 from the RPC node | **violated**: one transaction is lost per boundary |
| `snapshots_race` | two requests for one wallet | **violated**: two snapshots in an hour |
| `positions` | a discovery: 2 callers, 2 nodes, 4 objects of the registry's types and the 3 filters that ask for them, pages of 1, caps of 2 and 3 pages, 2 moves, 2 runs; a resolution: wallets of 1 or 2 of 24 positions that cover every adapter, any part of the owned scan, any reads, prices, decimals, registries, balances and payloads missing; fairness | what no number of failed filters, and no single failure, can lose; a position is not counted twice or for more than it is, totals and chart lines are exact when all is read, a profile invents nothing; everyone is answered |
| `closed_lp` | a wallet with a closed LP at Turbos | **violated**: it is given the value of all the wallet's holdings |
| `history` | collector and request, 5 hours of 3 steps, 1 failure or restart; charts of 2 prices, 2 ranges, 1 move, 1 mishap, 4 steps | an hour has no more snapshots than savers, at most one hour missed in a row and one per failure; charts are whole, the past of one is what the last snapshot before it held at the prices known of it, bad rows contained |
| `chart_spot` | the charts of `history`, nothing fails | **violated**: a bucket that is over is drawn at the current price |
| `web` | 2 tabs, 3 requests; lists of up to 2, 2 searches, 3 changes; a gallery of 4 objects in pages of 1; 1 canvas | saves keep other fields, lists stay honest, the gallery is complete, one loop |

Each property of a passing run is broken by a mutant of a mapped definition, a bug
one could write there: it stands in front of the definition, marked "Faulty". Some
invariants are conjunctions (`PoolSafe`, `PagesHonest`, `CountedOnce`, `ReadInFull`, `ChartWhole`, `PastHonest`, `AnalysisHonest`,
`ProfileHonest`, ...) of the named properties in the comment above them, among them the
module's type invariant.

**Bounds.** An ordering bug of a batch needs two changes of one object in different
checkpoints of one batch on top of a committed row: three checkpoints and batches of
two, with a fourth transaction for a return after a removal. A crash matters before
and after a commit: one is enough for safety, two for liveness (crash again while
catching up). A promise cache needs a load after an expired one after a joined one: three
loads and more than the longest lifetime. A pool needs more rows than workers, twice
over, and a read needs a node behind the first and an attempt behind the first. A
cached answer is at its oldest when a call began before its version ended and its entry
is read at the end of its life: a lifetime of two, a call of one, and one tick after.
Paging needs two boundaries, a tie across one of them, and rows inserted after each
page: six transactions with two timestamps and pages of two. A page is out of step
with the one before it only if both were read and the first was read again; a third
shows that this does not spread. The race of two saves needs two writers and one hour;
a gap of two hours and one for a failure needs the row before it and time after it,
five hours of three steps each, with a save that takes a step (so that it may cross the
full hour). A chart needs a bucket with and one without ticks and snapshots before,
between and after a change: five points in time, two bucket sizes, one change. A
discovery needs a wallet larger than a cap (four objects, three pages of one), an
object that is no position, a position with no filter, a move before and one behind the
cursor, and a second discovery after the first; two nodes give every condition for the
next one both its values. A merge, a filter or a sum relates at most two positions of a
wallet with each other, in the pairs that `SomeWallets` lists: two of one pool, two of
one protocol, an asset and a debt, a wrapper and what it wraps, an open and a closed
one. Two tabs see each other's writes late; a third would only see them later. The loop
of a canvas does not depend on another's.

**Deadlock** is checked in `positions` and `closed_lp`, where a request that is answered
and a discovery whose bounds are used up stutter. The other instances are bounded by their counters and may stop.

### What the violated runs show

`feed_rpc`: `routes/activity.ts:63` fetches `limit + 1` transactions from the node, cuts
the extra one off, and hands on the node's cursor, which is already behind it. Each
page boundary of an RPC feed loses one transaction; the table's pages, whose cursor is
the last row *delivered*, do not.

`snapshots_race`: `savePortfolioSnapshotHourly` promises to skip an hour that has a
snapshot, but looks and inserts in two round trips; two requests at the same time both
write. What remains of the promise is `OnePerSaver`: as many snapshots as savers that
run at a time, one if there is one.

`closed_lp`: `positionsPayload.ts:125-132` excludes closed LP positions from the estimate
that gives an unpriced LP the value of the wallet's holdings, by a liquidity of "0" in
the row. A Turbos position NFT's row has no liquidity, and the decoder that would add it
refuses a position of liquidity 0 (`turbosRpc.ts:149-157`), so the row arrives without.
`cetusRpc.ts:136-140` closes this gap for Cetus. `Exact` and `TotalsExact` name the case
(`Resurrected`) and hold for everything else.

`chart_spot`: `routes/chart.ts:15` promises "historical balance snapshots × historical
prices (never current prices for past buckets)". `buildHistoricalPriceMaps` starts from
today's spot prices (`portfolioHistory.ts:104`), so that buckets before a coin's first tick
are valued at them: a snapshot at price 9, a fall to 2, and the old bucket is drawn at 2.
`sanitizeTickPrice` puts today's price in the place of a tick that is out of proportion to
it, and where snapshots are not dense enough the past is drawn from today's holdings.
`NothingFromLater` (in `PastHonest`) says when today's price stands in, and that it does
not otherwise.

### What the properties allow

Some conditions in the properties are what the code does and a reader may not expect.
`EvidenceKept` is about what the owned scan came back with: what it did not find is
`Discovery`'s matter. It also lets a bare capability of AlphaFi or DeepBook go, which
`resolve.ts:149-155` leaves to their adapters even if these failed.
`Exact`: of two positions in one pool the answer may have one, since they share the
pool's key, and at Turbos it may be the closed one (`Revived`); and a row without a value
ranks as -1 in the merge (`resolve.ts:86-87`), so that a position whose adapter values it
below 0, or at -1, gives way to the bare row of the owned scan (`Sunk`). `NeverOverstated`: with BlockVision enabled for Scallop (off by default) its
row of an obligation replaces the native one of its debts only, and the collaterals count
twice (`Doubled`); the rows of a wrapped LP whose second phase failed may each be given the
wallet's holdings (`StoodIn`). `CountedOnce`: where the decimals assumed of a coin are fewer
than it has, an unread coin is shown for more than it is (`Inflated`). `HeadlineOnce`: the headline counts a deposit beside its receipt coin, which
the token list hides. `SnapshotFaithful`: Scallop's debts carry no decimals, so those in
a coin of unusual decimals are off in the chart. `LoansSeen`: of a position
that its adapter gives one net value for, a profile sees as debt only what it lacks
(`SeenDebt`), and as collateral only what is left over. `OthersKept`: a save overwrites the other fields if the row was
not read, was answered blank after a failed query, or was saved by another tab since.
`NothingPassedOver`: what an answer's limit cuts off is behind the cursor. `PagesJoin`: a
page older than the one before it leaves rows out between them for up to 30 s.
`QuietWallet` is about loads that were complete: `loadWalletSnapshot` answers with the half
that was loaded, the collector leaves out only a state that is empty
(`portfolioSnapshotCollector.ts:30`) and a chart request not even that
(`portfolioHistory.ts:224`), so that after a load that came back in part the comparison of
`walletChanges.ts` tells a wallet that did nothing that it has grown (`OnlyRealChanges`).
`AnswersRecent` and `NothingForgotten`: a failed attempt to create the profiles' table is
kept until the process ends, and the age and sCoin caches remember a failure as nothing.

Noted without a run: the comments at `WalletInflowPanel.tsx:13` and `FooterMatrix.tsx:10`
say that the loop is gated by the observer and the tab's visibility, while the mount and
a change of the motion preference start it without asking (`RunsSeen`), and a canvas that
had no size when it was to start does not start when it gets one (`MovesSeen`). The key
`coinmeta:miss` is written and never read.

### Fairness

`Indexer`: the restart loop of `run-live.ps1` starts a crashed process again, and the
framework's tasks keep feeding and committing while it is up; the chain itself is not
fair, and crashes are bounded. `PooledReads` (also in `UpstreamSpec`): requests have a
time limit (`AbortSignal.timeout`), waits end (`setTimeout`), and the event loop runs
what is runnable, so each worker goes on. `SnapshotCache`: every RPC call and query of
a loader has a timeout, so it settles one way or the other; callers need not come.
`Discovery`: every call to a node has a timeout and a bounded number of attempts
(`lib/http.ts`), so an answer or a failure comes (`WF_vars(Answered)`). `Overview`: an
adapter's timer fires, the owned scan and the balances end one way or the other, and
what only computes goes on; no adapter is trusted to answer (`Going`; one weak fairness
condition is enough, since each of these steps is taken once). `PositionsSpec` has these
two, each for its part. Nothing else is assumed
fair.

## 4. Proofs

All theorems hold for every value of the constants that satisfies the `ASSUME`s of the
module; the runs evaluate these on their instances.

* **Indexer** (`IndexerProofs`). `TablesMatchWatermark` alone is not inductive: a
  commit is right only if the batch is. The invariant `IInv` adds that each batch holds
  the newest change of what was fed into it (`BatchHoldsNewest`), that versions and
  checkpoint numbers grow along the log (`ChainInv`; without it the higher version
  would not be the later one), and that no watermark is ahead of the sealed chain
  (`WatermarkInv`). `CommitRow` is the heart: an object has its newest change in the
  batch, or has the row the table had. `IndexerImplementsLedger` maps commits to
  `Advance`, everything else to a chain step or a stutter.
* **AsyncPool** (`UpstreamProofs`). Workers hold different indices below the cursor, each called once, and
  a returned worker means no index is left unclaimed.
* **RpcClient and PooledReads**. A caller that waits has a node and
  an attempt left (`WaitsAtNode`), and nodes that refused are before the current one
  (`RefusedBehind`); from this `ReadsAccounted`. `RpcKeepsPromise` maps each reply to a
  step of `Failover`, or to a stutter if it is retried. For the composition, each step
  is shown to be a step or a stutter of the pool and of the client, so that the
  invariants of both carry over; that a call ends only after its read (`ReadAwaited`)
  is what the composition adds.
* **CachedLookup**. Every value in the cache, on its way or given is dated: a call's
  value was the upstream's since the call began (`CallsCurrent`), an entry's within one
  call of its storing (`EntryCurrent`), and of a shared promise there is one build
  (`BuildsApart`).
* **SnapshotCache**. The loads under way are the one the entry names; a stored value is
  the latest load's and expires no later than its lifetime after it was stored. From
  this a hit changes nothing, which gives `CacheNeverExtended`, and an answer is at
  least as late as any before, which gives `CacheMonotonicAnswers`.
* **ActivityFeed** (`FeedProofs`). Rows not older than the cursor were delivered or came later; the
  comparison of rows is a strict total order, and a page holds every remaining row
  newer than its last one (`TopClosed`).
* **FeedPages**. A page's data may be older than the cursor it would now be asked with,
  and a page behind it may have been asked with either. `PagesInv` has every answer, in
  the cache or on its way, between its two cursors (`PagesSound`), the cursors of the stack
  and of what was sent in the order of the table (`Later`, `Ended`), and a page that was
  asked after the one before it had answered begin where that one ends (`Joined`). The
  hard part is that an old answer of page `k` and a newer cursor of page `l` cannot
  overlap: between an answer still to come and a cursor further on there are
  `(l - k) * PAGE_SIZE` rows (`Apart`), and rows are only added, so a page that is asked
  again moves away from the ones behind it, never into them.
* **PortfolioSnapshots**. A saver that is about to insert found its hour empty after the
  hour's start was computed (`AsksPast`). So the rows of an hour and the savers about to
  insert into it are together no more than the savers (`RoomForSavers`); an insert turns
  one into the other. The hours themselves are arithmetic on `%` and `\div`, in lemmas.
  `NoLongGap` is about time that has passed, the invariant about time to come: for every
  wallet with a row and every hour after it, the hour is `Covered` by a row, by a visit
  of the pass under way, or by a timer that is due early enough, each failure moving the
  limit on by an hour. The proof assumes `PassFits`.
* **Chart** (`HistoryProofs`). `ChartInv` keeps what a chart was made of: `MadeOf` says that
  its buckets follow each other (`Spaced`), that its prices were noted in them or carried on
  (`Carries`), that it has a point for every bucket from some bucket on (`Trail`) with the
  values of `ValuedThen` or `ValuedToday`, and how it ends (`Ends`), from rows that are
  in the tables. `ChartWhole` and `PastHonest` then follow for a single state
  (`MadeWhole`, `MadeHonest`). `QuietWallet` rests on `HeldThen` and `SameAllAlong`: as
  long as no load failed, every snapshot is what the wallet held at its time, and a wallet that did not move held the
  same at all times. The proof found that a tick between a range's start and its first
  bucket, up to half a bucket later, is in no bucket, so that a chart may begin with
  today's price though an earlier one is known (`NotedAt`); TLC's ranges are too short
  to show it. A bucket's average lies between the ticks it was taken of, and is carried on
  until the next one, or is today's price where there is none before or one is replaced
  (`TodayStandsIn`): these are the two cases of `NothingFromLater`.
* **Profile** (`WebProofs`). In a tab that was not overtaken by another's save, a field that is
  neither open nor being saved shows the row the tab has, and a save under way was made
  of that row and is what the page shows (`TabSound`). `OthersKept` is an action property:
  a save that was made of the row as it is changes one field.
* **BrowserLists, Animation** (`WebProofs`). Every tab agrees with the store, or an event to
  it is late, whichever tab wrote (`WriteKeeps`); the history is newest first and shows no
  wallet twice (`Ordered`). Of a canvas, `Sound` says which of running, seen, told of the
  preference and refused go together, and each source that starts or stops a loop keeps it.
* **Gallery** (`WebProofs`). What a call gives is everything of the wallet between the cursor
  and the last object of its page (`CalledIs`), so the calls of an answer join (`PagesAre`);
  the merge keeps every value once (`MergeIs`). The invariant `NothingLost` follows an
  answer on its way: what was read is all there is between the two cursors, and up to the
  cursor everything is shown or in a kiosk, all of which come with every answer.
* **Discovery**. After `k` full pages at least `k * PageSize` of the objects the wallet
  ever had are behind the cursor (`Behind`, `TurnKeeps`), so a position within the cap
  is on a page before the cap stops the reading (`LastTakes`), whatever moves. From
  this: without a failure so far, a part has every kept position up to the cursor
  (`FilterInv`, `ScanInv`). A failed scan leaves the filters' findings and the reverse,
  which is `OneFailureTolerated`.
* **Resolve, Overview, Analysis** (`DiscoveryProofs`). Whatever an adapter reads and prices,
  its rows keep to the keys of the position they are about (`IsRow`, `AnswersAre`), and
  only positions of one pool have a key in common (`KeysMeet`). A merge leaves one row per
  key and a row for every key there was (`MergeIsWhole`), so what has a row before has one
  after it, its own or one of its pool, also when the decoders change keys in between
  (`RemergeKeeps`). `ResolveInv` says how much of what the owned scan came back
  with, be it all of the wallet, a part or nothing (`ScansAre`), is left in each phase: all of
  it (`Kept`), all but LPs beside a decoded one (`KeptOrLp`), and at last what
  `EvidenceKept` allows (`Evidence`). The proof needs that ids are ids and that only LPs
  have a pool (`HeldAssumption`), and, for exact values, which adapter has what kind of
  position (`SourceAssumption`: LPs are those of the three AMMs, hold coins and owe
  nothing; a pool is one protocol's; Navi gives deposits and debts apart, sCoins are
  deposits). `PurseAssumption` adds that amounts and decimals are counts, that nothing is
  owed on a stake or a deposit with a receipt, and that a receipt coin stands for one
  deposit of a wallet.
* **What the rows say** (`NothingOverstated`). Summing a position's rows says nothing
  about a single step, so the invariant `FairInv` is about rows one at a time: a row is
  `Fair` if of each coin it holds no more than its `Share`, and its value is no more than
  its `Bound`, both depending on its key alone, and the shares of a position's keys
  together are at most its assets. A merge of two rows of one key is then fair whichever
  wins and whatever details it takes from the other; only where two positions share a key,
  those of one pool, the details of one may go to the other, and fairness needs that they
  are of the same coins. One row per key (`RowsAreOfOneKey`) turns this into a sum:
  `RowsBounded` adds up a row per key, twice for an obligation that BlockVision has too
  (`Doubled`).
* **When everything is answered** (`AnswersAreExact`). `CalmInv` says of each phase what
  the rows are as long as no call failed, no timer fired and no price was missing. A row
  is `Entire` (it has just the coins of its key, `PartAt`, and their value, `Due`, or none
  yet) or `Hollow` (a bare one of the owned scan), and every key of a position that its
  adapter gives, `Meant`, has an entire row that outranks the hollow one (`Covered`,
  `Strong`); the merge keeps both (`MergeTells`, `MergeCovers`), so a tie, a retry of Cetus
  or a second merge cannot put the hollow one back. A decoder moves a row to its pool's key,
  where another of the pool may be (`DecodeTraces`), and the weak-LP filter then drops
  what is left of the hollow LPs but closed ones at Turbos (`Faint`, `Traced`). With
  prices, an entire row's value is what is due to it, `Settled` (`SaidIn`), and the keys
  divide a position, so that its rows add up to its net worth (`AllCounts`, `RowsExact`).
  TLC found the two cases that `Sunk` and `Revived` name while the invariant was written.
* **What is shown when everything was read** (`AllIsShown`, `SnapshotsAreFaithful`).
  `Full` carries the exactness from the rows to what is made of them: balances that were
  read are the wallet's, the list that hides every receipt comes to the plain coins, and
  the headline, computed before the indexer adds its rows, to coins, receipts and
  positions, because a stake that some adapter found is not added (`AnsweredExact`). The
  chart's lines and the profile go by coin and by protocol: `ReadAll` says that rows and
  the keys of the positions match one to one, so that a sum over rows is a sum over
  positions (`TotalVia`, `LineIs`, `LoansShow`). A line is right because a scale and its
  inverse cancel, division included (`UnitsAdd`, `RescaleBack`); a debt is seen because
  the coins of one row are all owned or all owed (`RowsOfSign`), so that no row nets one
  with the other. `LoansSeen` was sharpened on the way: it used to say nothing of the
  protocols that show one net value.
* **What is counted** (`NothingCountedTwice`). `CountInv` follows the three payloads one by
  one: what each of them has taken is `Part` of the balances, at most what there is of each
  coin (`ListInv`), and the headline's sum is bounded when it is computed (`SumInv`), since
  the rows change afterwards. Every stake is in the rows or added, never both
  (`StakeOnce`), and a receipt is hidden or counted, with its deposit's row.
* **What the profile says** (`NothingIsInvented`). A profile is made of what was shown and
  stays what it was (`ProfileInv`), so its whole is a sum over the same list and rows,
  class by class (`BucketsAre`, `GainsAre`). Five shares rounded to a tenth differ from a
  thousand by two tenths at most (`SharesSum`).

`ListLemmas` has what these proofs need about data. The library's induction rule takes an
operator as a parameter and cannot be instantiated here; `NatInd` states induction for a
*set* of numbers instead and is proved by counting: a counterexample `n` would let a finite
set be mapped into itself minus 0. From it follow functions defined by recursion
(`Recursion`), what a filter keeps and in which order (`PickedIs`, `PickedTail`, `FilterRange`), sums over finite
sets (`SumsExist`, `SumsUnique`, `SumBounds`) and their greatest and least elements.
`FiniteInd` is the same for finite sets; from it, `SumFunction` is one addition after the
other (`TotalSteps`), may be taken part by part or group by group (`TotalBoth`,
`TotalGroups`), is the same for summands paired one to one (`TotalVia`), takes out a
factor (`TotalTimes`), and grows with its summands (`TotalMono`).

**Only model-checked**: liveness (`CatchesUp`, `PoolSettles`, `AllAnswered`,
`EveryoneAnswered`, `Served`: fairness and ENABLED are out of the prover's reach). Every
invariant and every action property of a passing run is a theorem.

## 5. Not modelled

* The balance timeline (`walletBalanceTimeline.ts`): production uses only whether it has
  events, to name the chart's source; the replay it was written for has no caller.
* The extraction of fields from Move objects and fixed-point pricing (`suiFields.ts`,
  `clmmMath.ts`), the helpers for veSCA and the order books: data formats without order
  or state. `Adapters` takes an amount that was read as right.
* `protocols.ts` classifies what `Discovery` finds, but its names and links, the NFTs'
  trust list, and of `walletAnalysis.ts` the health factors, leverage, risk score,
  labels, wordings and orders of lists, and all rendering are left out: no property is about
  them.
* In the chart: more than one coin, the response cache, the trimming of the time before a
  wallet's first activity. In the wallet's age: the minimum of three sources.
* A wallet whose snapshots fail for seven days drops out of the collector's list until its
  next chart request: `PassFits` bounds the failures below that, and `NoLongGap` says
  nothing of more.
* Nodes that list one wallet's objects in different orders, and an address that changes
  under an open feed (no link leads there).
* The debugging routes, connections, shutdown, configuration, deployment and the video
  recorder.
