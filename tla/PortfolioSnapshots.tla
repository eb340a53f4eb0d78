------------------------- MODULE PortfolioSnapshots -------------------------
(***************************************************************************)
(* The portfolio_snapshots table and the two kinds of code that write it:  *)
(* chart requests (lib/portfolioHistory.ts, fire and forget) and the       *)
(* hourly collector (portfolioSnapshotCollector.ts, one wallet after the   *)
(* other).  Both go through savePortfolioSnapshotHourly                    *)
(* (lib/portfolioSnapshotStore.ts), which asks the database whether the    *)
(* hour has a snapshot and inserts one afterwards, in two round trips.     *)
(* What a snapshot contains is left out.                                   *)
(***************************************************************************)
EXTENDS Integers, FiniteSets

CONSTANTS
  Wallets,
  Charts,      \* chart requests that may be under way at a time
  Collectors,  \* collector ticks that may be under way at a time
  HourLen,     \* an hour, in steps of the clock
  Horizon,     \* the collector's 7 days, in steps of the clock
  Delay,       \* INITIAL_DELAY_MS, in steps of the clock
  MaxTake,     \* how long one wallet's load and save may take
  MaxFaults,   \* bound: loads and queries that fail, restarts
  MaxNow       \* bound: clock

ASSUME WalletAssumption == Wallets # {} /\ IsFiniteSet(Wallets)
ASSUME TimeAssumption ==
  /\ HourLen \in Nat \ {0} /\ Horizon \in Nat /\ Delay \in Nat
  /\ MaxTake \in Nat /\ MaxFaults \in Nat /\ MaxNow \in Nat
ASSUME WriterAssumption ==
  /\ Charts \cap Collectors = {}
  /\ IsFiniteSet(Charts) /\ IsFiniteSet(Collectors)

VARIABLES
  now,      \* Date.now()
  rows,     \* the keys of portfolio_snapshots
  writer,   \* the save each chart request or collector tick is doing
  queue,    \* queue[c]: wallets collector tick c has still to visit
  started,  \* when the process started
  ticks,    \* collector ticks since then
  faults    \* failures so far

vars == <<now, rows, writer, queue, started, ticks, faults>>

Writers == Charts \cup Collectors

Row == [owner : Wallets, ts : Nat]

\* "loading": building the state.  "asking": hourStart computed, SELECT sent.
\* "saving": no row found, ts computed, INSERT sent.
Phases == {"idle", "loading", "asking", "saving"}
Save == [phase : Phases, owner : Wallets, hourStart : Nat, ts : Nat, since : Nat]

TypeOK ==
  /\ now \in Nat
  /\ rows \subseteq Row
  /\ writer \in [Writers -> Save]
  /\ queue \in [Collectors -> SUBSET Wallets]
  /\ started \in Nat
  /\ ticks \in Nat
  /\ faults \in Nat

Idle == [phase |-> "idle", owner |-> CHOOSE o \in Wallets : TRUE,
         hourStart |-> 0, ts |-> 0, since |-> 0]

NobodyBusy ==
  /\ writer = [w \in Writers |-> Idle]
  /\ queue = [c \in Collectors |-> {}]

Init ==
  /\ now \in 0..(HourLen - 1)
  /\ rows = {}
  /\ NobodyBusy
  /\ started = now
  /\ ticks = 0
  /\ faults = 0

-----------------------------------------------------------------------------
(* Saving.                                                                 *)

\* Faulty: the full hour itself belongs to no hour.
HourStartAfter(t) == t - (t % HourLen) + 1

\* setMinutes(0, 0, 0).
HourStart(t) == t - (t % HourLen)

Busy(w) == writer[w].phase # "idle"

Begin(w, o) ==
  writer' = [writer EXCEPT ![w] =
    [Idle EXCEPT !.phase = "loading", !.owner = o, !.since = now]]

Finish(w) == writer' = [writer EXCEPT ![w] = Idle]

\* A chart request starts to build the wallet's state.
Chart(w, o) ==
  /\ ~ Busy(w)
  /\ Begin(w, o)
  /\ UNCHANGED <<now, rows, queue, started, ticks, faults>>

\* The state is built, and the hour computed.
Loaded(w) ==
  /\ writer[w].phase = "loading"
  /\ writer' = [writer EXCEPT ![w].phase = "asking", ![w].hourStart = HourStart(now)]
  /\ UNCHANGED <<now, rows, queue, started, ticks, faults>>

\* The SELECT: a row of the hour ends the save; otherwise new Date().
Ask(w) ==
  /\ writer[w].phase = "asking"
  /\ IF \E r \in rows : r.owner = writer[w].owner /\ r.ts >= writer[w].hourStart
       THEN Finish(w)
       ELSE writer' = [writer EXCEPT ![w].phase = "saving", ![w].ts = now]
  /\ UNCHANGED <<now, rows, queue, started, ticks, faults>>

\* INSERT ... ON CONFLICT (owner_address, ts) DO UPDATE.
Insert(w) ==
  /\ writer[w].phase = "saving"
  /\ rows' = rows \cup {[owner |-> writer[w].owner, ts |-> writer[w].ts]}
  /\ Finish(w)
  /\ UNCHANGED <<now, queue, started, ticks, faults>>

\* The load or a query throws: both callers swallow it, and the collector
\* goes on with the next wallet.  So it does with a wallet that was loaded
\* empty, which a chart request would save.
Breaks(w) ==
  /\ faults < MaxFaults
  /\ Busy(w)
  /\ Finish(w)
  /\ faults' = faults + 1
  /\ UNCHANGED <<now, rows, queue, started, ticks>>

-----------------------------------------------------------------------------
(* The collector.                                                          *)

\* setTimeout(tick, INITIAL_DELAY_MS), then setInterval(tick, INTERVAL_MS).
Due == IF ticks = 0 THEN started + Delay ELSE started + ticks * HourLen

\* Faulty: wallets with a snapshot in the last hour.
FollowedHour == {o \in Wallets : \E r \in rows : r.owner = o /\ r.ts > now - HourLen}

\* Wallets with a snapshot in the last 7 days.
Followed == {o \in Wallets : \E r \in rows : r.owner = o /\ r.ts > now - Horizon}

\* A tick starts whether or not the previous one has finished.
CollectorTick(c) ==
  /\ now >= Due
  /\ ~ Busy(c) /\ queue[c] = {}
  /\ queue' = [queue EXCEPT ![c] = Followed]
  /\ ticks' = ticks + 1
  /\ UNCHANGED <<now, rows, writer, started, faults>>

\* The query for the wallets fails and the tick is over.
CollectorTickFails ==
  /\ now >= Due
  /\ faults < MaxFaults
  /\ faults' = faults + 1
  /\ ticks' = ticks + 1
  /\ UNCHANGED <<now, rows, writer, queue, started>>

\* The next wallet of the tick.
CollectOne(c) ==
  /\ ~ Busy(c)
  /\ \E o \in queue[c] :
       /\ Begin(c, o)
       /\ queue' = [queue EXCEPT ![c] = @ \ {o}]
  /\ UNCHANGED <<now, rows, started, ticks, faults>>

\* The process restarts: saves under way are lost, the timers start afresh.
Restart ==
  /\ faults < MaxFaults
  /\ faults' = faults + 1
  /\ writer' = [w \in Writers |-> Idle]
  /\ queue' = [c \in Collectors |-> {}]
  /\ started' = now
  /\ ticks' = 0
  /\ UNCHANGED <<now, rows>>

\* Timers fire on time, the loop does not idle, and a wallet takes MaxTake.
Tick ==
  /\ now < MaxNow
  /\ now < Due
  /\ \A w \in Writers : Busy(w) => now < writer[w].since + MaxTake
  /\ \A c \in Collectors : queue[c] # {} => Busy(c)
  /\ now' = now + 1
  /\ UNCHANGED <<rows, writer, queue, started, ticks, faults>>

Saving(w) == Loaded(w) \/ Ask(w) \/ Insert(w)

Next ==
  \/ \E w \in Charts, o \in Wallets : Chart(w, o)
  \/ \E w \in Writers : Saving(w) \/ Breaks(w)
  \/ \E c \in Collectors : CollectorTick(c) \/ CollectOne(c)
  \/ CollectorTickFails
  \/ Restart
  \/ Tick

Spec == Init /\ [][Next]_vars

-----------------------------------------------------------------------------
(* Properties.                                                             *)

HourOf(r) == r.ts \div HourLen

\* An hour has at most one snapshot of a wallet ("Skip writing if a snapshot
\* already exists in the current hour bucket", portfolioSnapshotStore.ts:47).
OnePerHour ==
  \A r, s \in rows : r.owner = s.owner /\ HourOf(r) = HourOf(s) => r = s

\* What the check and the insert achieve without a lock: the snapshots of a
\* wallet in one hour are never more than the savers that run at a time,
\* however many saves there are, across the full hour and restarts.
OnePerSaver ==
  \A r \in rows :
    Cardinality({s \in rows : s.owner = r.owner /\ HourOf(s) = HourOf(r)})
      <= Cardinality(Writers)

\* Hour h has a snapshot of o.
HasRow(o, h) == \E r \in rows : r.owner = o /\ HourOf(r) = h

\* A tick's pass over the wallets leaves room for the delay of the first tick,
\* or for one more save, before the next tick; and the 7 days are longer than the
\* hours that the failures can cost.
Pass == MaxTake * Cardinality(Wallets)
PassFits ==
  /\ Pass + Delay < HourLen /\ Pass + MaxTake <= HourLen
  /\ HourLen * MaxFaults + 3 * HourLen <= Horizon

\* Hourly snapshots (portfolioSnapshotCollector.ts:13, "keeps chart
\* building over time"): once a wallet has history, at most one hour in a row
\* is left without a snapshot, and one more for every failure.  One can be
\* without any, because a tick that ends after the full hour takes the next
\* tick's place.
NoLongGap ==
  \A r \in rows, h \in 0..(MaxNow \div HourLen) :
    /\ HourOf(r) <= h
    /\ HourLen * (h + 2 + faults) <= now
    => \E k \in h..(h + 1 + faults) : HasRow(r.owner, k)
=============================================================================
