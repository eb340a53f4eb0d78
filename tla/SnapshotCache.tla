---------------------------- MODULE SnapshotCache ----------------------------
(***************************************************************************)
(* apps/api/src/lib/walletSnapshot.ts: the in-process cache in front of    *)
(* the balance and DeFi loaders, for one address.  Callers ask at any      *)
(* time; the loader takes any time and returns an empty or a non-empty     *)
(* result, or throws.  The .then and .catch callbacks of a settled promise *)
(* run before the next event, so a settled load and the answers to all its *)
(* callers are one step.                                                   *)
(***************************************************************************)
EXTENDS Integers, FiniteSets

CONSTANTS
  Readers,   \* concurrent callers
  None,      \* no entry, no value, no answer
  MaxNow,    \* bound: clock, in steps of 2.5 s
  MaxLoads   \* bound: loader calls

ASSUME CacheBoundAssumption == MaxNow \in Nat /\ MaxLoads \in Nat

\* SNAPSHOT_TTL_MS, 10_000 and 5_000, in steps of 2.5 s.
SnapshotTtl == 18
EmptyTtl == 4
ShortTtl == 2

VARIABLES
  store,    \* which of the two: "balances" (balanceCache) or "defi" (defiCache)
  now,      \* Date.now()
  entry,    \* store.get(key)
  loads,    \* loader calls so far
  loading,  \* those not settled yet
  waiting,  \* waiting[r]: the load r awaits, 0 if r awaits none
  answer    \* answer[r]: what r was last given, and when

vars == <<store, now, entry, loads, loading, waiting, answer>>

\* A result: which load returned it, is it empty, when was it stored.
Value == [load : Nat \ {0}, empty : BOOLEAN, at : Nat]
Stored == [value : Value, expiresAt : Nat, inflight : {0}]
Pending == [value : {None}, expiresAt : {0}, inflight : Nat \ {0}]
Answer == [value : Value, when : Nat]

ASSUME NoneAssumption ==
  None \notin Value /\ None \notin Stored /\ None \notin Pending /\ None \notin Answer

\* An entry is either a stored value or a promise.
TypeOK ==
  /\ store \in {"balances", "defi"}
  /\ now \in Nat
  /\ entry \in Stored \cup Pending \cup {None}
  /\ loads \in Nat
  /\ loading \subseteq 1..loads
  /\ waiting \in [Readers -> 0..loads]
  /\ answer \in [Readers -> Answer \cup {None}]

Init ==
  /\ store \in {"balances", "defi"}
  /\ now = 0
  /\ entry = None
  /\ loads = 0
  /\ loading = {}
  /\ waiting = [r \in Readers |-> 0]
  /\ answer = [r \in Readers |-> None]

-----------------------------------------------------------------------------
Fresh == entry # None /\ entry.value # None /\ entry.expiresAt > now
InFlight == entry # None /\ entry.inflight # 0

\* An empty array keeps 10 s.  A balance source is never an array.
Ttl(v) == IF store = "defi" /\ v.empty THEN EmptyTtl ELSE SnapshotTtl

\* Faulty: renews the entry whenever it is read.
ShortenedAlways(e, v) ==
  IF store = "balances" /\ v.empty
    THEN [value |-> v, expiresAt |-> now + ShortTtl, inflight |-> 0]
    ELSE e

\* getCachedWalletBalances: an empty balance source gets at most 5 s more.
Shortened(e, v) ==
  IF store = "balances" /\ v.empty /\ e.expiresAt - now > ShortTtl
    THEN [value |-> v, expiresAt |-> now + ShortTtl, inflight |-> 0]
    ELSE e

\* Faulty: an entry is good until it has expired for a while.
HitExpired(r) ==
  /\ waiting[r] = 0
  /\ entry # None /\ entry.value # None /\ entry.expiresAt >= now
  /\ answer' = [answer EXCEPT ![r] = [value |-> entry.value, when |-> now]]
  /\ entry' = Shortened(entry, entry.value)
  /\ UNCHANGED <<store, now, loads, loading, waiting>>

\* cachedLoad finds a live value.
Hit(r) ==
  /\ waiting[r] = 0
  /\ Fresh
  /\ answer' = [answer EXCEPT ![r] = [value |-> entry.value, when |-> now]]
  /\ entry' = Shortened(entry, entry.value)
  /\ UNCHANGED <<store, now, loads, loading, waiting>>

\* cachedLoad finds a load in flight and awaits it.
Join(r) ==
  /\ waiting[r] = 0
  /\ ~ Fresh
  /\ InFlight
  /\ waiting' = [waiting EXCEPT ![r] = entry.inflight]
  /\ UNCHANGED <<store, now, entry, loads, loading, answer>>

\* Faulty: a load in flight does not stop another one.
LoadAgain(r) ==
  /\ waiting[r] = 0
  /\ ~ Fresh
  /\ loads < MaxLoads
  /\ loads' = loads + 1
  /\ loading' = loading \cup {loads + 1}
  /\ waiting' = [waiting EXCEPT ![r] = loads + 1]
  /\ entry' = [value |-> None, expiresAt |-> 0, inflight |-> loads + 1]
  /\ UNCHANGED <<store, now, answer>>

\* cachedLoad calls the loader; the expired value, if any, is dropped.
Load(r) ==
  /\ waiting[r] = 0
  /\ ~ Fresh /\ ~ InFlight
  /\ loads < MaxLoads
  /\ loads' = loads + 1
  /\ loading' = loading \cup {loads + 1}
  /\ waiting' = [waiting EXCEPT ![r] = loads + 1]
  /\ entry' = [value |-> None, expiresAt |-> 0, inflight |-> loads + 1]
  /\ UNCHANGED <<store, now, answer>>

\* Load l returns: .then stores the value, and everyone who awaits l gets it
\* (a caller of getCachedWalletBalances shortens the entry on the way).
Settle(l) ==
  /\ l \in loading
  /\ loading' = loading \ {l}
  /\ \E empty \in BOOLEAN :
       LET v == [load |-> l, empty |-> empty, at |-> now]
           e == [value |-> v, expiresAt |-> now + Ttl(v), inflight |-> 0]
       IN /\ entry' = Shortened(e, v)
          /\ answer' = [r \in Readers |->
               IF waiting[r] = l THEN [value |-> v, when |-> now] ELSE answer[r]]
  /\ waiting' = [r \in Readers |-> IF waiting[r] = l THEN 0 ELSE waiting[r]]
  /\ UNCHANGED <<store, now, loads>>

\* Faulty: the entry keeps the rejected promise.
FailSticky(l) ==
  /\ l \in loading
  /\ loading' = loading \ {l}
  /\ answer' = [r \in Readers |-> IF waiting[r] = l THEN None ELSE answer[r]]
  /\ waiting' = [r \in Readers |-> IF waiting[r] = l THEN 0 ELSE waiting[r]]
  /\ UNCHANGED <<store, now, entry, loads>>

\* Faulty: those who joined are forgotten.
FailStarter(l) ==
  /\ l \in loading
  /\ loading' = loading \ {l}
  /\ entry' = None
  /\ \E r \in Readers :
       /\ waiting[r] = l
       /\ answer' = [answer EXCEPT ![r] = None]
       /\ waiting' = [waiting EXCEPT ![r] = 0]
  /\ UNCHANGED <<store, now, loads>>

\* Load l throws: .catch deletes the entry, and everyone who awaits l gets
\* the rejection (loadWalletSnapshot turns it into an empty source).
Fail(l) ==
  /\ l \in loading
  /\ loading' = loading \ {l}
  /\ entry' = None
  /\ answer' = [r \in Readers |-> IF waiting[r] = l THEN None ELSE answer[r]]
  /\ waiting' = [r \in Readers |-> IF waiting[r] = l THEN 0 ELSE waiting[r]]
  /\ UNCHANGED <<store, now, loads>>

Tick ==
  /\ now < MaxNow
  /\ now' = now + 1
  /\ UNCHANGED <<store, entry, loads, loading, waiting, answer>>

Ask(r) == Hit(r) \/ Join(r) \/ Load(r)

Next ==
  \/ \E r \in Readers : Ask(r)
  \/ \E l \in loading : Settle(l) \/ Fail(l)
  \/ Tick

Spec == Init /\ [][Next]_vars

\* Every RPC call and database query a loader makes has a timeout.
FairSpec == Spec /\ \A l \in 1..MaxLoads : WF_vars(Settle(l) \/ Fail(l))

-----------------------------------------------------------------------------
(* Properties.                                                             *)

\* One load at a time, the one the entry names, and nobody awaits another:
\* a settled promise is never joined, a failure is not remembered
\* (walletSnapshot.ts:99, "One RPC round-trip per address").
SingleFlight ==
  /\ loading = IF InFlight THEN {entry.inflight} ELSE {}
  /\ \A r \in Readers : waiting[r] # 0 => waiting[r] \in loading

\* What a caller is told was stored less than a lifetime ago: 45 s, but 10 s
\* for no positions and 5 s for no balances, so that a wallet that failed to
\* load is not shown as empty for long.
Lifetime(v) ==
  IF ~ v.empty THEN SnapshotTtl ELSE IF store = "defi" THEN EmptyTtl ELSE ShortTtl

FreshAnswers ==
  \A r \in Readers : answer[r] # None =>
    answer[r].when - answer[r].value.at < Lifetime(answer[r].value)

\* Reading an entry never prolongs its life, so polling cannot keep an empty
\* result alive (the `> 5_000` test of getCachedWalletBalances).
NeverExtended ==
  [][(/\ entry # None /\ entry' # None
      /\ entry.value # None /\ entry'.value = entry.value)
       => entry'.expiresAt <= entry.expiresAt]_vars

\* Nobody is given the result of an earlier load than somebody was before.
MonotonicAnswers ==
  [][\A r, s \in Readers :
       (answer'[r] # answer[r] /\ answer'[r] # None /\ answer[s] # None)
         => answer'[r].value.load >= answer[s].value.load]_vars

\* Everyone who awaits a load is answered.
AllAnswered == \A r \in Readers : waiting[r] # 0 ~> waiting[r] = 0
=============================================================================
