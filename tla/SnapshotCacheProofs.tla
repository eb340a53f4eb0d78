------------------------- MODULE SnapshotCacheProofs -------------------------
(***************************************************************************)
(* The snapshot cache for every set of callers, either store and a clock   *)
(* and a number of loads without bound: one load at a time, no answer      *)
(* older than its lifetime, no entry prolonged, no caller sent back.       *)
(***************************************************************************)
EXTENDS SnapshotCache, TLAPS

\* A stored value expires a lifetime after it was stored at the latest.
Expires ==
  entry # None /\ entry.value # None =>
    /\ entry.value.at <= now
    /\ entry.value.load <= loads
    /\ entry.expiresAt <= entry.value.at + Lifetime(entry.value)

\* No answer is newer than what the next caller will get.
Behind ==
  \A r \in Readers : answer[r] # None =>
    /\ answer[r].value.load <= loads
    /\ entry # None /\ entry.value # None => answer[r].value.load <= entry.value.load
    /\ InFlight => answer[r].value.load < entry.inflight

CacheInv ==
  /\ TypeOK
  /\ SingleFlight
  /\ FreshAnswers
  /\ Expires
  /\ Behind

-----------------------------------------------------------------------------
\* The shapes of an entry.
LEMMA EntryShape ==
  ASSUME TypeOK
  PROVE  /\ entry # None => \/ entry \in Stored /\ entry.value \in Value
                               /\ entry.value # None /\ entry.inflight = 0
                            \/ entry \in Pending /\ entry.value = None
                               /\ entry.inflight \in Nat \ {0}
         /\ Fresh => /\ entry \in Stored /\ entry.value \in Value
                     /\ entry.expiresAt \in Nat /\ entry.expiresAt > now
         /\ InFlight => entry \in Pending
         /\ now \in Nat /\ loads \in Nat
BY NoneAssumption DEF TypeOK, Stored, Pending, Fresh, InFlight

\* The lifetimes.
LEMMA LifetimeValue ==
  ASSUME TypeOK, NEW v
  PROVE  /\ Lifetime(v) \in {2, 4, 18}
         /\ store = "balances" /\ v.empty => Lifetime(v) = 2
         /\ ~ (store = "balances" /\ v.empty) => Lifetime(v) = Ttl(v)
         /\ Ttl(v) \in {4, 18}
BY DEF TypeOK, Lifetime, Ttl, SnapshotTtl, EmptyTtl, ShortTtl

\* A hit leaves the entry as it is: an empty balance source never has more
\* than 5 s left.
LEMMA HitKeeps ==
  ASSUME CacheInv, Fresh
  PROVE  Shortened(entry, entry.value) = entry
<1>1. /\ entry \in Stored /\ entry.value \in Value
      /\ entry.expiresAt \in Nat /\ now \in Nat /\ entry # None /\ entry.value # None
  BY EntryShape DEF CacheInv, Fresh
<1>2. entry.value.at <= now /\ entry.expiresAt <= entry.value.at + Lifetime(entry.value)
  BY <1>1 DEF CacheInv, Expires
<1>3. entry.value.at \in Nat
  BY <1>1 DEF Value
<1>4. store = "balances" /\ entry.value.empty => entry.expiresAt - now <= 2
  BY <1>1, <1>2, <1>3, LifetimeValue DEF CacheInv
<1> QED  BY <1>1, <1>4 DEF Shortened, ShortTtl

\* An answer given by a hit.
LEMMA CacheHit ==
  ASSUME CacheInv, NEW r \in Readers, Hit(r)
  PROVE  /\ CacheInv'
         /\ \A s \in Readers : answer[s] # None =>
              answer'[r].value.load >= answer[s].value.load
<1> USE DEF CacheInv
<1> DEFINE a == [value |-> entry.value, when |-> now]
<1>1. /\ Fresh /\ waiting[r] = 0
      /\ answer' = [answer EXCEPT ![r] = a]
      /\ UNCHANGED <<store, now, entry, loads, loading, waiting>>
  BY HitKeeps DEF Hit
<1>2. /\ entry \in Stored /\ entry.value \in Value
      /\ entry.expiresAt \in Nat /\ now \in Nat /\ entry.expiresAt > now
      /\ entry # None /\ entry.value # None
  BY <1>1, EntryShape DEF Fresh
<1>3. a \in Answer /\ a.value = entry.value /\ a.when = now
  BY <1>2 DEF Answer
<1> HIDE DEF a
<1>4. answer \in [Readers -> Answer \cup {None}]
  BY DEF TypeOK
<1>5. /\ answer' \in [Readers -> Answer \cup {None}]
      /\ answer'[r] = a
      /\ \A s \in Readers : s # r => answer'[s] = answer[s]
  BY <1>1, <1>3, <1>4
<1>6. TypeOK'
  BY <1>1, <1>5 DEF TypeOK
<1>7. SingleFlight' /\ Expires'
  BY <1>1 DEF SingleFlight, InFlight, Expires, Lifetime
<1>8. FreshAnswers'
  <2>1. entry.value.at \in Nat /\ Lifetime(entry.value) \in {2, 4, 18}
    BY <1>2, LifetimeValue DEF Value
  <2>2. now - entry.value.at < Lifetime(entry.value)
    BY <1>2, <2>1 DEF Expires
  <2>3. ASSUME NEW s \in Readers, answer'[s] # None
        PROVE  answer'[s].when - answer'[s].value.at < Lifetime(answer'[s].value)
    <3>1. CASE s = r
      BY <1>3, <1>5, <2>2, <3>1
    <3>2. CASE s # r
      BY <1>5, <2>3, <3>2 DEF FreshAnswers
    <3> QED  BY <3>1, <3>2
  <2> QED  BY <1>1, <2>3 DEF FreshAnswers, Lifetime
<1>9. ~ InFlight /\ entry.value.load <= loads /\ entry.value.load \in Nat
  BY <1>2, EntryShape DEF InFlight, Expires, Value, Stored
<1>10. Behind'
  <2> SUFFICES ASSUME NEW s \in Readers, answer'[s] # None
               PROVE  /\ answer'[s].value.load <= loads
                      /\ answer'[s].value.load <= entry.value.load
    BY <1>1, <1>9 DEF Behind, InFlight
  <2>1. CASE s = r
    BY <1>3, <1>5, <1>9, <2>1
  <2>2. CASE s # r
    BY <1>2, <1>5, <2>2 DEF Behind
  <2> QED  BY <2>1, <2>2
<1>11. \A s \in Readers : answer[s] # None =>
         answer'[r].value.load >= answer[s].value.load
  <2> SUFFICES ASSUME NEW s \in Readers, answer[s] # None
               PROVE  answer'[r].value.load >= answer[s].value.load
    OBVIOUS
  <2>1. answer[s] \in Answer
    BY <1>4
  <2>2. answer[s].value.load \in Nat
    BY <2>1 DEF Answer, Value
  <2>3. answer[s].value.load <= entry.value.load
    BY <1>2 DEF Behind
  <2> QED  BY <1>3, <1>5, <1>9, <2>2, <2>3
<1> QED  BY <1>6, <1>7, <1>8, <1>10, <1>11

\* Joining a load.
LEMMA CacheJoin ==
  ASSUME CacheInv, NEW r \in Readers, Join(r)
  PROVE  CacheInv'
<1> USE DEF CacheInv
<1>1. /\ InFlight
      /\ waiting' = [waiting EXCEPT ![r] = entry.inflight]
      /\ UNCHANGED <<store, now, entry, loads, loading, answer>>
  BY DEF Join
<1>2. loading = {entry.inflight} /\ loading \subseteq 1..loads
  BY <1>1 DEF SingleFlight, TypeOK
<1>3. waiting \in [Readers -> 0..loads] /\ loads \in Nat
  BY DEF TypeOK
<1>4. waiting' \in [Readers -> 0..loads]
  BY <1>1, <1>2, <1>3
<1>5. TypeOK'
  BY <1>1, <1>4 DEF TypeOK
<1>6. SingleFlight'
  BY <1>1, <1>2, <1>3 DEF SingleFlight, InFlight
<1>7. FreshAnswers' /\ Expires' /\ Behind'
  BY <1>1 DEF FreshAnswers, Expires, Behind, InFlight, Lifetime
<1> QED  BY <1>5, <1>6, <1>7

\* Starting a load.
LEMMA CacheLoad ==
  ASSUME CacheInv, NEW r \in Readers, Load(r)
  PROVE  CacheInv'
<1> USE DEF CacheInv
<1> DEFINE e == [value |-> None, expiresAt |-> 0, inflight |-> loads + 1]
<1>1. /\ ~ InFlight
      /\ loads' = loads + 1
      /\ loading' = loading \cup {loads + 1}
      /\ waiting' = [waiting EXCEPT ![r] = loads + 1]
      /\ entry' = e
      /\ UNCHANGED <<store, now, answer>>
  BY DEF Load
<1>2. /\ loads \in Nat /\ now \in Nat /\ loading = {}
      /\ waiting \in [Readers -> 0..loads]
      /\ answer \in [Readers -> Answer \cup {None}]
  BY <1>1 DEF TypeOK, SingleFlight
<1>3. e \in Pending /\ e.value = None /\ e.inflight = loads + 1 /\ e # None
  BY <1>2, NoneAssumption DEF Pending
<1> HIDE DEF e
<1>4. /\ waiting' \in [Readers -> 0..(loads + 1)]
      /\ \A s \in Readers : waiting'[s] = IF s = r THEN loads + 1 ELSE waiting[s]
  BY <1>1, <1>2
<1>5. TypeOK'
  BY <1>1, <1>2, <1>3, <1>4 DEF TypeOK
<1>6. SingleFlight'
  <2>1. InFlight' /\ loading' = {entry'.inflight}
    BY <1>1, <1>2, <1>3 DEF InFlight
  <2>2. \A s \in Readers : waiting[s] = 0
    BY <1>2 DEF SingleFlight
  <2>3. \A s \in Readers : waiting'[s] # 0 => waiting'[s] \in loading'
    BY <1>1, <1>2, <1>4, <2>2
  <2> QED  BY <2>1, <2>3 DEF SingleFlight
<1>7. FreshAnswers' /\ Expires'
  BY <1>1, <1>3 DEF FreshAnswers, Expires, Lifetime
<1>8. Behind'
  <2> SUFFICES ASSUME NEW s \in Readers, answer[s] # None
               PROVE  answer[s].value.load \in Nat /\ answer[s].value.load <= loads
    BY <1>1, <1>2, <1>3 DEF Behind, InFlight
  <2>1. answer[s] \in Answer
    BY <1>2
  <2>2. answer[s].value.load \in Nat
    BY <2>1 DEF Answer, Value
  <2> QED  BY <1>2, <2>2 DEF Behind
<1> QED  BY <1>5, <1>6, <1>7, <1>8

\* Settling a load.
LEMMA CacheSettle ==
  ASSUME CacheInv, NEW l \in loading, Settle(l)
  PROVE  /\ CacheInv'
         /\ InFlight
         /\ \A r, s \in Readers : answer'[r] # answer[r] /\ answer[s] # None =>
              answer'[r].value.load >= answer[s].value.load
<1> USE DEF CacheInv
<1>1. PICK empty \in BOOLEAN :
        LET v == [load |-> l, empty |-> empty, at |-> now]
            e == [value |-> v, expiresAt |-> now + Ttl(v), inflight |-> 0]
        IN /\ entry' = Shortened(e, v)
           /\ answer' = [r \in Readers |->
                IF waiting[r] = l THEN [value |-> v, when |-> now] ELSE answer[r]]
  BY DEF Settle
<1>2. /\ loading' = loading \ {l}
      /\ waiting' = [r \in Readers |-> IF waiting[r] = l THEN 0 ELSE waiting[r]]
      /\ UNCHANGED <<store, now, loads>>
  BY DEF Settle
<1>3. /\ InFlight /\ l = entry.inflight /\ loading = {l}
      /\ l \in 1..loads /\ loads \in Nat /\ now \in Nat
      /\ waiting \in [Readers -> 0..loads]
      /\ answer \in [Readers -> Answer \cup {None}]
  BY DEF SingleFlight, TypeOK
<1> DEFINE v == [load |-> l, empty |-> empty, at |-> now]
           a == [value |-> v, when |-> now]
<1>4. /\ v \in Value /\ v.load = l /\ v.at = now /\ v # None
      /\ a \in Answer /\ a.value = v /\ a.when = now
  BY <1>3, NoneAssumption DEF Value, Answer
\* The entry stored, shortened or not.
<1>5. /\ entry' \in Stored /\ entry'.value = v /\ entry'.inflight = 0
      /\ entry'.expiresAt <= now + Lifetime(v)
  <2> DEFINE e == [value |-> v, expiresAt |-> now + Ttl(v), inflight |-> 0]
  <2>1. entry' = Shortened(e, v)
    BY <1>1
  <2> HIDE DEF v
  <2>2. /\ Ttl(v) \in {4, 18}
        /\ store = "balances" /\ v.empty => Lifetime(v) = 2
        /\ ~ (store = "balances" /\ v.empty) => Lifetime(v) = Ttl(v)
    BY LifetimeValue
  <2>3. CASE store = "balances" /\ v.empty
    <3>1. e.expiresAt - now > 2
      BY <1>3, <2>2
    <3>2. entry' = [value |-> v, expiresAt |-> now + 2, inflight |-> 0]
      BY <2>1, <2>3, <3>1 DEF Shortened, ShortTtl
    <3> QED  BY <1>3, <1>4, <2>2, <2>3, <3>2 DEF Stored
  <2>4. CASE ~ (store = "balances" /\ v.empty)
    <3>1. entry' = e
      BY <2>1, <2>4 DEF Shortened
    <3> QED  BY <1>3, <1>4, <2>2, <2>4, <3>1 DEF Stored
  <2> QED  BY <2>3, <2>4
<1>6. answer' = [r \in Readers |-> IF waiting[r] = l THEN a ELSE answer[r]]
  BY <1>1
<1> HIDE DEF a, v
<1>7. /\ answer' \in [Readers -> Answer \cup {None}]
      /\ \A r \in Readers : answer'[r] = IF waiting[r] = l THEN a ELSE answer[r]
  BY <1>3, <1>4, <1>6
<1>8. /\ waiting' \in [Readers -> 0..loads]
      /\ \A r \in Readers : waiting'[r] = IF waiting[r] = l THEN 0 ELSE waiting[r]
  BY <1>2, <1>3
<1>9. TypeOK'
  BY <1>2, <1>3, <1>5, <1>7, <1>8 DEF TypeOK
<1>10. ~ InFlight'
  BY <1>5 DEF InFlight
<1>11. SingleFlight'
  BY <1>2, <1>3, <1>8, <1>10 DEF SingleFlight
<1>12. FreshAnswers'
  <2>1. Lifetime(v) \in {2, 4, 18}
    BY LifetimeValue
  <2>2. ASSUME NEW r \in Readers, answer'[r] # None
        PROVE  answer'[r].when - answer'[r].value.at < Lifetime(answer'[r].value)
    <3>1. CASE waiting[r] = l
      <4>1. answer'[r] = a
        BY <1>7, <3>1
      <4>2. now - now < Lifetime(v)
        BY <1>3, <2>1
      <4> QED  BY <1>4, <4>1, <4>2
    <3>2. CASE waiting[r] # l
      BY <1>7, <2>2, <3>2 DEF FreshAnswers
    <3> QED  BY <3>1, <3>2
  <2> QED  BY <1>2, <2>2 DEF FreshAnswers, Lifetime
<1>13. Expires'
  BY <1>2, <1>3, <1>4, <1>5 DEF Expires, Lifetime
<1>14. ASSUME NEW s \in Readers, answer[s] # None
       PROVE  answer[s].value.load \in Nat /\ answer[s].value.load < l
  <2>1. answer[s] \in Answer
    BY <1>3, <1>14
  <2> QED  BY <1>3, <1>14, <2>1 DEF Answer, Value, Behind
<1>15. Behind'
  <2> SUFFICES ASSUME NEW s \in Readers, answer'[s] # None
               PROVE  answer'[s].value.load <= loads /\ answer'[s].value.load <= l
    BY <1>2, <1>4, <1>5, <1>10 DEF Behind
  <2>1. CASE waiting[s] = l
    BY <1>3, <1>4, <1>7, <2>1
  <2>2. CASE waiting[s] # l
    BY <1>3, <1>7, <1>14, <2>2
  <2> QED  BY <2>1, <2>2
<1>16. \A r, s \in Readers : answer'[r] # answer[r] /\ answer[s] # None =>
         answer'[r].value.load >= answer[s].value.load
  <2> SUFFICES ASSUME NEW r \in Readers, NEW s \in Readers,
                      answer'[r] # answer[r], answer[s] # None
               PROVE  answer'[r].value.load >= answer[s].value.load
    OBVIOUS
  <2>1. answer'[r] = a
    BY <1>7
  <2> QED  BY <1>3, <1>4, <1>14, <2>1
<1> QED  BY <1>3, <1>9, <1>11, <1>12, <1>13, <1>15, <1>16

\* A failed load.
LEMMA CacheFail ==
  ASSUME CacheInv, NEW l \in loading, Fail(l)
  PROVE  /\ CacheInv'
         /\ \A r \in Readers : answer'[r] \in {answer[r], None}
<1> USE DEF CacheInv
<1>1. /\ loading' = loading \ {l}
      /\ entry' = None
      /\ answer' = [r \in Readers |-> IF waiting[r] = l THEN None ELSE answer[r]]
      /\ waiting' = [r \in Readers |-> IF waiting[r] = l THEN 0 ELSE waiting[r]]
      /\ UNCHANGED <<store, now, loads>>
  BY DEF Fail
<1>2. /\ loading = {l} /\ loads \in Nat
      /\ waiting \in [Readers -> 0..loads]
      /\ answer \in [Readers -> Answer \cup {None}]
  BY DEF SingleFlight, TypeOK
<1>3. /\ waiting' \in [Readers -> 0..loads]
      /\ \A r \in Readers : waiting'[r] = IF waiting[r] = l THEN 0 ELSE waiting[r]
  BY <1>1, <1>2
<1>4. /\ answer' \in [Readers -> Answer \cup {None}]
      /\ \A r \in Readers : answer'[r] \in {answer[r], None}
  BY <1>1, <1>2
<1>5. TypeOK'
  BY <1>1, <1>2, <1>3, <1>4 DEF TypeOK
<1>6. SingleFlight'
  BY <1>1, <1>2, <1>3 DEF SingleFlight, InFlight
<1>7. FreshAnswers' /\ Expires' /\ Behind'
  <2>1. FreshAnswers'
    BY <1>1, <1>4 DEF FreshAnswers, Lifetime
  <2>2. Expires' /\ Behind'
    BY <1>1, <1>4 DEF Expires, Behind, InFlight
  <2> QED  BY <2>1, <2>2
<1> QED  BY <1>4, <1>5, <1>6, <1>7

\* Time passes.
LEMMA CacheTick ==
  ASSUME CacheInv, Tick
  PROVE  CacheInv'
<1> USE DEF CacheInv
<1>1. now' = now + 1 /\ UNCHANGED <<store, entry, loads, loading, waiting, answer>>
  BY DEF Tick
<1>2. now \in Nat
  BY DEF TypeOK
<1>3. TypeOK' /\ SingleFlight' /\ FreshAnswers' /\ Behind'
  BY <1>1, <1>2 DEF TypeOK, SingleFlight, FreshAnswers, Behind, InFlight, Lifetime
<1>4. Expires'
  <2> SUFFICES ASSUME entry # None, entry.value # None
               PROVE  entry.value.at <= now + 1
    BY <1>1 DEF Expires, Lifetime
  <2>1. entry.value \in Value
    BY EntryShape
  <2> QED  BY <1>2, <2>1 DEF Expires, Value
<1> QED  BY <1>3, <1>4

\* The empty cache.
LEMMA CacheInit == Init => CacheInv
<1> SUFFICES ASSUME Init PROVE CacheInv
  OBVIOUS
<1>1. TypeOK
  BY DEF Init, TypeOK
<1>2. SingleFlight /\ FreshAnswers /\ Expires /\ Behind
  BY DEF Init, SingleFlight, FreshAnswers, Expires, Behind, InFlight
<1> QED  BY <1>1, <1>2 DEF CacheInv

\* Nothing happens.
LEMMA CacheStutter ==
  ASSUME CacheInv, UNCHANGED vars
  PROVE  CacheInv'
BY DEF vars, CacheInv, TypeOK, SingleFlight, FreshAnswers, Expires, Behind,
       InFlight, Lifetime

\* Every step keeps the invariant and, whatever it answers, answers nobody
\* with an earlier load.
LEMMA CacheStep ==
  ASSUME CacheInv, [Next]_vars
  PROVE  /\ CacheInv'
         /\ \A r, s \in Readers :
              (answer'[r] # answer[r] /\ answer'[r] # None /\ answer[s] # None)
                => answer'[r].value.load >= answer[s].value.load
<1>1. ASSUME NEW r \in Readers, Hit(r)
      PROVE  /\ CacheInv'
             /\ \A q, s \in Readers :
                  (answer'[q] # answer[q] /\ answer'[q] # None /\ answer[s] # None)
                    => answer'[q].value.load >= answer[s].value.load
  <2>1. CacheInv' /\ \A s \in Readers : answer[s] # None =>
          answer'[r].value.load >= answer[s].value.load
    BY <1>1, CacheHit
  <2>2. \A q \in Readers : answer'[q] # answer[q] => q = r
    BY <1>1 DEF Hit, CacheInv, TypeOK
  <2> QED  BY <2>1, <2>2
<1>2. CASE \E r \in Readers : Join(r) \/ Load(r)
  <2>1. CacheInv'
    BY <1>2, CacheJoin, CacheLoad
  <2>2. answer' = answer
    BY <1>2 DEF Join, Load
  <2> QED  BY <2>1, <2>2
<1>3. CASE \E l \in loading : Settle(l)
  BY <1>3, CacheSettle
<1>4. CASE \E l \in loading : Fail(l)
  <2>1. CacheInv' /\ \A r \in Readers : answer'[r] \in {answer[r], None}
    BY <1>4, CacheFail
  <2> QED  BY <2>1
<1>5. CASE Tick
  <2>1. CacheInv' /\ answer' = answer
    BY <1>5, CacheTick DEF Tick
  <2> QED  BY <2>1
<1>6. CASE UNCHANGED vars
  <2>1. CacheInv' /\ answer' = answer
    BY <1>6, CacheStutter DEF vars
  <2> QED  BY <2>1
<1> QED  BY <1>1, <1>2, <1>3, <1>4, <1>5, <1>6 DEF Next, Ask

\* No step prolongs an entry: a hit keeps it, a settled load has a value of
\* its own, and every other step drops it or leaves it.
LEMMA CacheNotProlonged ==
  ASSUME CacheInv, [Next]_vars,
         entry # None, entry' # None, entry.value # None, entry'.value = entry.value
  PROVE  entry'.expiresAt <= entry.expiresAt
<1>1. entry.expiresAt \in Nat
  BY EntryShape DEF CacheInv, Stored
<1>2. CASE \E r \in Readers : Hit(r)
  <2>1. entry' = entry
    BY <1>2, HitKeeps DEF Hit
  <2> QED  BY <1>1, <2>1
<1>3. CASE \E r \in Readers : Load(r)
  BY <1>3 DEF Load
<1>4. CASE \E l \in loading : Settle(l)
  <2>1. InFlight
    BY <1>4, CacheSettle
  <2>2. entry.value = None
    BY <2>1, EntryShape DEF CacheInv, Pending
  <2> QED  BY <2>2
<1>5. CASE \E l \in loading : Fail(l)
  BY <1>5 DEF Fail
<1>6. CASE (\E r \in Readers : Join(r)) \/ Tick \/ UNCHANGED vars
  <2>1. entry' = entry
    BY <1>6 DEF Join, Tick, vars
  <2> QED  BY <1>1, <2>1
<1> QED  BY <1>2, <1>3, <1>4, <1>5, <1>6 DEF Next, Ask

\* The invariant holds throughout.
LEMMA CacheInvariant == Spec => []CacheInv
<1>1. Init => CacheInv
  BY CacheInit
<1>2. CacheInv /\ [Next]_vars => CacheInv'
  BY CacheStep
<1> QED  BY <1>1, <1>2, PTL DEF Spec

-----------------------------------------------------------------------------
(* The results.                                                            *)

\* The state has its type; an entry is a value or a promise, never both.
THEOREM CacheTypeCorrect == Spec => []TypeOK
<1>1. CacheInv => TypeOK
  BY DEF CacheInv
<1> QED  BY <1>1, CacheInvariant, PTL

\* One load at a time, and nobody awaits a settled one
\* (walletSnapshot.ts:28-46), for every set of callers.
THEOREM CacheSingleFlight == Spec => []SingleFlight
<1>1. CacheInv => SingleFlight
  BY DEF CacheInv
<1> QED  BY <1>1, CacheInvariant, PTL

\* No answer is older than its lifetime (walletSnapshot.ts:30, 35-37, 53-62).
THEOREM CacheFreshAnswers == Spec => []FreshAnswers
<1>1. CacheInv => FreshAnswers
  BY DEF CacheInv
<1> QED  BY <1>1, CacheInvariant, PTL

\* Reading never prolongs an entry (walletSnapshot.ts:57).
THEOREM CacheNeverExtended == Spec => NeverExtended
<1>1. CacheInv /\ [Next]_vars =>
        [(/\ entry # None /\ entry' # None
          /\ entry.value # None /\ entry'.value = entry.value)
           => entry'.expiresAt <= entry.expiresAt]_vars
  BY CacheNotProlonged
<1> QED  BY <1>1, CacheInvariant, PTL DEF Spec, NeverExtended

\* Answers never go back to an earlier load.
THEOREM CacheMonotonicAnswers == Spec => MonotonicAnswers
<1>1. CacheInv /\ [Next]_vars =>
        [\A r, s \in Readers :
           (answer'[r] # answer[r] /\ answer'[r] # None /\ answer[s] # None)
             => answer'[r].value.load >= answer[s].value.load]_vars
  BY CacheStep
<1> QED  BY <1>1, CacheInvariant, PTL DEF Spec, MonotonicAnswers
=============================================================================
