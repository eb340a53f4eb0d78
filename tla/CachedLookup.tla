---------------------------- MODULE CachedLookup ----------------------------
(***************************************************************************)
(* What the API remembers of its upstreams, one cache at a time: the       *)
(* reserve and registry caches of the adapters, the validators' names and  *)
(* the promise that the profiles' table is there, kept in the process, the *)
(* BlockVision, price and age caches, kept in Redis, and the coins, kept   *)
(* in their table.  All have the same shape, a value with a lifetime in    *)
(* front of a call that may fail or come to nothing; they differ in how    *)
(* long they keep what, in whether nothing is worth keeping, and in what   *)
(* they answer after a failure.                                            *)
(***************************************************************************)
EXTENDS Integers, FiniteSets

CONSTANTS
  Requesters,
  Lifetime,     \* how long an entry serves, in ticks
  MaxDelay,     \* bound: ticks until a call answers or its time limit is over
  MaxClock,     \* bound: ticks
  MaxVersion    \* bound: changes upstream; version 0 is nothing at all

ASSUME LookupAssumption ==
  /\ {Lifetime, MaxDelay, MaxClock, MaxVersion} \subseteq Nat
  /\ Lifetime > 0 /\ MaxVersion > 0

VARIABLES
  cache,     \* the cache this behaviour is about
  now,
  upstream,  \* the version the upstream has
  entry,     \* what is cached, or NoEntry
  call,      \* call[c]: c's call of the upstream, or Idle
  given,     \* what was given to callers in the last step, or NoAnswer
  ended,     \* ended[v]: when the upstream went on from version v
  failed     \* when the last call failed

lookupVars == <<cache, now, upstream, entry, call, given, ended, failed>>

-----------------------------------------------------------------------------
(* The caches and their policies.                                          *)

Remote == {"blockvision-cetus", "blockvision", "pyth", "gecko", "age", "coins"}
Caches == Remote \cup {"bucket", "suilend", "alphalend", "scoin", "ember", "validators", "schema"}

\* vaultCache and schemaReady are promises, shared by those who come while they
\* are pending and kept as long as the process runs.
Shared == {"bucket", "schema"}
Forever == {"bucket", "schema", "coins"}

\* Faulty: what could not be read is remembered as nothing, as good as read.
KeepsNothingAlways(failure) == Caches

\* Which caches keep an answer without content, and which a failure, as
\* "nothing" for the lifetime of an entry.  A statement that failed is the
\* promise of every request to come.
KeepsNothing(failure) ==
  IF failure THEN {"scoin", "age", "ember", "schema"}
             ELSE {"scoin", "age", "ember", "blockvision", "gecko"}

Version == 0..MaxVersion
Never == -1

NoEntry == [val |-> 0, at |-> Never]

Idle == [state |-> "idle", val |-> 0, since |-> 0]

\* own: whether the caller's own call failed.
NoAnswer == [given |-> FALSE, val |-> 0, own |-> FALSE]

LookupInit ==
  /\ cache \in Caches
  /\ now = 0
  /\ upstream \in IF cache = "schema" THEN {1} ELSE {0, 1}
  /\ entry = NoEntry
  /\ call = [c \in Requesters |-> Idle]
  /\ given = NoAnswer
  /\ ended = [v \in Version |-> Never]
  /\ failed = Never

-----------------------------------------------------------------------------
Give(v, f) == given' = [given |-> TRUE, val |-> v, own |-> f]
GiveNone == given' = NoAnswer

\* Faulty: the lifetime is not looked at.
HitStale == entry # NoEntry

\* An entry that still serves.
Hit == entry # NoEntry /\ (cache \in Forever \/ now - entry.at < Lifetime)

Busy == {c \in Requesters : call[c].state \in {"asked", "served"}}
Joined == {c \in Requesters : call[c].state = "joined"}

\* The cache answers.
Serve(c) ==
  /\ call[c] = Idle
  /\ Hit
  /\ Give(entry.val, FALSE)
  /\ UNCHANGED <<cache, now, upstream, entry, call, ended, failed>>

\* The upstream is asked, if there is no entry or it cannot be read, or the
\* pending promise is awaited.  The second try for Cetus removes the entry.
AskUpstream(c) ==
  /\ call[c] = Idle
  /\ Hit => cache \in Remote
  /\ call' = [call EXCEPT ![c] =
       [Idle EXCEPT !.since = now,
                    !.state = IF cache \in Shared /\ Busy # {} THEN "joined" ELSE "asked"]]
  /\ \/ UNCHANGED entry
     \/ cache = "blockvision-cetus" /\ entry' = NoEntry
  /\ GiveNone
  /\ UNCHANGED <<cache, now, upstream, ended, failed>>

\* The upstream answers with what it has; the answer is on its way.
Sent(c) ==
  /\ call[c].state = "asked"
  /\ call' = [call EXCEPT ![c].state = "served", ![c].val = upstream]
  /\ GiveNone
  /\ UNCHANGED <<cache, now, upstream, entry, ended, failed>>

\* c's call is over, and with it the wait of those who joined it.
Over(c) ==
  call' = [d \in Requesters |-> IF d = c \/ d \in Joined THEN Idle ELSE call[d]]

\* The entry that v leaves, if it leaves one: a write to Redis or to the
\* table may fail.  The validators' lifetime begins with their request.
Kept(v, failure, since) ==
  IF v # 0 \/ cache \in KeepsNothing(failure)
    THEN LET new == [val |-> v, at |-> IF cache = "validators" THEN since ELSE now]
         IN entry' \in IF cache \in Remote THEN {new, entry} ELSE {new}
    ELSE UNCHANGED entry

\* The answer arrives.  Bucket's vaults are all or nothing: without content
\* the promise is dropped as after a failure.
Arrive(c) ==
  /\ call[c].state = "served"
  /\ Give(call[c].val, FALSE)
  /\ Kept(call[c].val, FALSE, call[c].since)
  /\ Over(c)
  /\ UNCHANGED <<cache, now, upstream, ended, failed>>

\* Ember alone answers a failure with what it had, however old, and keeps
\* that; its first failure is kept as an empty registry.
Stale == cache = "ember" /\ entry # NoEntry

\* Faulty: those who joined the call are forgotten.
BreakAlone(c) ==
  /\ call[c].state \in {"asked", "served"}
  /\ failed' = now
  /\ Give(IF Stale THEN entry.val ELSE 0, TRUE)
  /\ IF Stale THEN UNCHANGED entry ELSE Kept(0, TRUE, call[c].since)
  /\ call' = [call EXCEPT ![c] = Idle]
  /\ UNCHANGED <<cache, now, upstream, ended>>

\* The call fails or its time limit is over.
Break(c) ==
  /\ call[c].state \in {"asked", "served"}
  /\ failed' = now
  /\ Give(IF Stale THEN entry.val ELSE 0, TRUE)
  /\ IF Stale THEN UNCHANGED entry ELSE Kept(0, TRUE, call[c].since)
  /\ Over(c)
  /\ UNCHANGED <<cache, now, upstream, ended>>

\* The world goes on.
Change ==
  /\ upstream < MaxVersion
  /\ upstream' = upstream + 1
  /\ ended' = [ended EXCEPT ![upstream] = now]
  /\ GiveNone
  /\ UNCHANGED <<cache, now, entry, call, failed>>

\* No call outlives its time limit.
Tick ==
  /\ now < MaxClock
  /\ \A c \in Requesters : call[c] # Idle => now - call[c].since < MaxDelay
  /\ now' = now + 1
  /\ GiveNone
  /\ UNCHANGED <<cache, upstream, entry, call, ended, failed>>

LookupNext ==
  \/ Change \/ Tick
  \/ \E c \in Requesters : Serve(c) \/ AskUpstream(c) \/ Sent(c) \/ Arrive(c) \/ Break(c)

LookupSpec == LookupInit /\ [][LookupNext]_lookupVars

-----------------------------------------------------------------------------
\* Whether version v was the upstream's at some time in the last d ticks.
CurrentWithin(v, d) == v = upstream \/ ended[v] >= now - d

\* An answer is not older than an entry may be and a call may take, although
\* an entry's age counts from when it was stored.  Bucket's vaults and the
\* coins are kept for good, and Ember's registry for as long as its refresh fails.
AnswersRecent ==
  given.val # 0 /\ cache \notin Forever /\ ~ (cache = "ember" /\ given.own) =>
    CurrentWithin(given.val, Lifetime + MaxDelay)

\* Nothing is answered only if there was nothing, or a call failed, so
\* lately that the failure may still be remembered: for an entry's lifetime
\* by the caches that keep failures, for good by the promise that the table
\* is there, not at all by the others ("Don't cache
\* a transient miss", alphaLendRpc.ts:90; "so the next call retries",
\* bucketRpc.ts:79-80).
NothingForgotten ==
  LET memory(failure) == IF cache \in KeepsNothing(failure) THEN Lifetime + MaxDelay
                                                            ELSE MaxDelay
  IN given.given /\ given.val = 0 =>
       \/ CurrentWithin(0, memory(FALSE))
       \/ failed # Never /\ (cache = "schema" \/ failed >= now - memory(TRUE))

\* One build of the vaults at a time, for everybody, and nobody waits for one
\* that is over, failed ones included.
OneBuild == cache \in Shared => Cardinality(Busy) <= 1 /\ (Joined # {} => Busy # {})
=============================================================================
