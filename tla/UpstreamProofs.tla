--------------------------- MODULE UpstreamProofs ---------------------------
(***************************************************************************)
(* What stands between the API and its upstreams.                          *)
(*                                                                         *)
(* mapWithConcurrency for any number of items, any cap and whichever of    *)
(* the calls fail.  The cursor carries the argument: exactly the items     *)
(* below it have been called, and each of those has its result, is being   *)
(* awaited, or has rejected the promise.                                   *)
(*                                                                         *)
(* Reads of the chain for any number of callers, nodes and retries: every  *)
(* request is accounted for, and with its retries and waits a read is what *)
(* Failover promises.  Then the pool and the client together, for any      *)
(* number of rows and any cap: a step of the composition is a step of the  *)
(* pool or leaves it alone, and likewise for the client, so each keeps the *)
(* invariant proved of it alone; what they share is that only an awaiting  *)
(* worker reads.                                                           *)
(*                                                                         *)
(* The caches in front of the upstreams, for any number of callers, any    *)
(* lifetime, time limit and history of the upstream.  The argument dates   *)
(* every value: one under way was current at its request or later, one     *)
(* that is kept was current at most a call's time before its lifetime      *)
(* began, and a kept nothing is either such a value or a failure's.        *)
(***************************************************************************)
EXTENDS PooledReads, CachedLookup, FiniteSetTheorems, TLAPS

-----------------------------------------------------------------------------
(* The pool.                                                               *)

\* Exactly the items below the cursor have been called, once each.
CalledBelowCursor ==
  \A i \in Index : calls[i] = IF i < next THEN 1 ELSE 0

\* An awaited item is below the cursor and nobody else's.
AwaitedApart ==
  /\ \A w \in InFlight : item[w] \in Index /\ item[w] < next
  /\ \A v, w \in InFlight : v # w => item[v] # item[w]

\* Where every called item is.
Accounted ==
  \A i \in Index : i < next =>
    \/ results[i] = i
    \/ \E w \in Workers : item[w] = i /\ worker[w] \in {"awaiting", "rejected"}

\* What the ends of the workers say.
WorkerEnds ==
  /\ \A w \in Workers : worker[w] = "returned" => next >= N
  /\ \A w \in Workers : worker[w] = "rejected" => outcome = "rejected"
  /\ outcome = "resolved" => \A w \in Workers : worker[w] = "returned"

IInv ==
  /\ TypeOK
  /\ CalledBelowCursor
  /\ AwaitedApart
  /\ Accounted
  /\ WorkerEnds

USE LengthAssumption, NoResultAssumption DEF Index, InFlight

\* The pool starts with nothing called.
LEMMA InitIInv == Init => IInv
<1> SUFFICES ASSUME Init PROVE IInv
  OBVIOUS
<1> USE DEF Init
<1>1. TypeOK
  BY DEF TypeOK, WorkerStates
<1>2. CalledBelowCursor /\ AwaitedApart /\ Accounted
  BY DEF CalledBelowCursor, AwaitedApart, Accounted
<1>3. WorkerEnds
  BY DEF WorkerEnds, Workers, Cap
<1>. QED  BY <1>1, <1>2, <1>3 DEF IInv

\* Claiming an index keeps the invariant.
LEMMA TakeIInv ==
  ASSUME IInv, NEW w \in Workers, Take(w)
  PROVE  IInv'
<1> USE DEF IInv, Take
<1>0. next \in Nat /\ next \in Index /\ next + 1 \in Nat
  BY DEF TypeOK
<1>1. TypeOK'
  BY <1>0 DEF TypeOK, WorkerStates
<1>2. CalledBelowCursor'
  BY <1>0 DEF CalledBelowCursor, TypeOK
<1>3. AwaitedApart'
  BY <1>0 DEF AwaitedApart, TypeOK
<1>4. Accounted'
  <2>1. item'[w] = next /\ worker'[w] = "awaiting"
    BY DEF TypeOK
  <2>2. ASSUME NEW i \in Index, i < next' , i # next
        PROVE  \/ results'[i] = i
               \/ \E u \in Workers : item'[u] = i
                                     /\ worker'[u] \in {"awaiting", "rejected"}
    <3>1. i < next
      BY <1>0, <2>2
    <3>2. CASE results[i] = i
      BY <3>2
    <3>3. CASE \E u \in Workers : item[u] = i
                                  /\ worker[u] \in {"awaiting", "rejected"}
      <4>1. PICK u \in Workers : item[u] = i
                                 /\ worker[u] \in {"awaiting", "rejected"}
        BY <3>3
      <4>2. u # w /\ item'[u] = item[u] /\ worker'[u] = worker[u]
        BY <4>1 DEF TypeOK
      <4>. QED  BY <4>1, <4>2
    <3>. QED  BY <3>1, <3>2, <3>3 DEF Accounted
  <2>. QED  BY <2>1, <2>2 DEF Accounted
<1>5. WorkerEnds'
  BY <1>0 DEF WorkerEnds, TypeOK
<1>. QED  BY <1>1, <1>2, <1>3, <1>4, <1>5

\* So does a worker that finds no item left.
LEMMA ReturnIInv ==
  ASSUME IInv, NEW w \in Workers, Return(w)
  PROVE  IInv'
<1> USE DEF IInv, Return
<1>0. next \in Nat /\ next' = next + 1 /\ next >= N
      /\ \A i \in Index : i < next /\ i < next'
  BY DEF TypeOK
<1>1. TypeOK'
  BY <1>0 DEF TypeOK, WorkerStates
<1>2. CalledBelowCursor'
  BY <1>0 DEF CalledBelowCursor
<1>3. AwaitedApart'
  BY <1>0 DEF AwaitedApart, TypeOK
<1>4. Accounted'
  BY <1>0 DEF Accounted, TypeOK
<1>5. WorkerEnds'
  BY <1>0 DEF WorkerEnds, TypeOK
<1>. QED  BY <1>1, <1>2, <1>3, <1>4, <1>5

\* So does a call that resolves.
LEMMA SettleIInv ==
  ASSUME IInv, NEW w \in Workers, Settle(w)
  PROVE  IInv'
<1> USE DEF IInv, Settle
<1>0. item[w] \in Index /\ next \in Nat
  BY DEF AwaitedApart, TypeOK
<1>1. TypeOK'
  BY <1>0 DEF TypeOK, WorkerStates
<1>2. CalledBelowCursor'
  BY DEF CalledBelowCursor
<1>3. AwaitedApart'
  BY DEF AwaitedApart, TypeOK
<1>4. Accounted'
  <2>. SUFFICES ASSUME NEW i \in Index, i < next
                PROVE  \/ results'[i] = i
                       \/ \E u \in Workers : item'[u] = i
                            /\ worker'[u] \in {"awaiting", "rejected"}
    BY DEF Accounted
  <2>1. CASE i = item[w]
    BY <1>0, <2>1 DEF TypeOK
  <2>2. CASE i # item[w]
    BY <1>0, <2>2 DEF Accounted, TypeOK
  <2>. QED  BY <2>1, <2>2
<1>5. WorkerEnds'
  BY DEF WorkerEnds, TypeOK
<1>. QED  BY <1>1, <1>2, <1>3, <1>4, <1>5

\* So does a call that rejects.
LEMMA RejectIInv ==
  ASSUME IInv, NEW w \in Workers, Reject(w)
  PROVE  IInv'
<1> USE DEF IInv, Reject
<1>1. TypeOK'
  BY DEF TypeOK, WorkerStates
<1>2. CalledBelowCursor'
  BY DEF CalledBelowCursor
<1>3. AwaitedApart'
  BY DEF AwaitedApart, TypeOK
<1>4. Accounted'
  BY DEF Accounted, TypeOK
<1>5. WorkerEnds'
  BY DEF WorkerEnds, TypeOK
<1>. QED  BY <1>1, <1>2, <1>3, <1>4, <1>5

\* The steps together.
LEMMA NextIInv == IInv /\ [Next]_vars => IInv'
<1> SUFFICES ASSUME IInv, [Next]_vars PROVE IInv'
  OBVIOUS
<1>1. CASE Resolve
  BY <1>1 DEF Resolve, IInv, TypeOK, CalledBelowCursor, AwaitedApart,
              Accounted, WorkerEnds
<1>2. ASSUME NEW w \in Workers, Step(w)
      PROVE  IInv'
  BY <1>2, TakeIInv, ReturnIInv, SettleIInv, RejectIInv DEF Step
<1>3. CASE UNCHANGED vars
  BY <1>3 DEF vars, IInv, TypeOK, CalledBelowCursor, AwaitedApart, Accounted,
              WorkerEnds
<1>. QED  BY <1>1, <1>2, <1>3 DEF Next

\* The invariant holds throughout.
LEMMA SpecIInv == Spec => []IInv
BY InitIInv, NextIInv, PTL DEF Spec

\* Types, for any items, cap and failures.
THEOREM PoolTypeCorrect == Spec => []TypeOK
BY SpecIInv, PTL DEF IInv

\* There are no more workers than the cap.
LEMMA WorkersCapped == IInv => CapRespected
<1> DEFINE m == IF Cap < N THEN Cap ELSE N
<1>1. Cap \in Nat /\ m \in Nat /\ m <= Cap
  BY DEF Cap
<1>2. IsFiniteSet(Workers) /\ Cardinality(Workers) = m
  BY <1>1, FS_Interval DEF Workers
<1>3. Cardinality(InFlight) <= Cardinality(Workers)
      /\ Cardinality(InFlight) \in Nat
  BY <1>2, FS_Subset, FS_CardinalityType
<1>. QED  BY <1>1, <1>2, <1>3 DEF CapRespected

\* Behind the cursor every item has its own call.
LEMMA CalledOnce == IInv => EachItemOnce
BY DEF IInv, CalledBelowCursor, AwaitedApart, EachItemOnce

\* When every worker has returned, every item has its result.
LEMMA ReturnedComplete == IInv => ResolvedInOrder
<1> SUFFICES ASSUME IInv, outcome = "resolved", NEW i \in Index
             PROVE  results[i] = i
  BY DEF ResolvedInOrder
<1>1. \A w \in Workers : worker[w] = "returned"
  BY DEF IInv, WorkerEnds
<1>2. 1 \in Workers
  BY DEF Workers, Cap
<1>3. i < next
  BY <1>1, <1>2 DEF IInv, WorkerEnds, TypeOK
<1>. QED  BY <1>1, <1>3 DEF IInv, Accounted

\* "fixed concurrency cap": never more pending calls than the cap.
THEOREM PoolCapRespected == Spec => []CapRespected
BY WorkersCapped, SpecIInv, PTL

\* No item is given to fn twice, whoever asks when.
THEOREM PoolEachItemOnce == Spec => []EachItemOnce
BY CalledOnce, SpecIInv, PTL

\* A resolved promise is complete and in item order.
THEOREM PoolResolvedInOrder == Spec => []ResolvedInOrder
BY ReturnedComplete, SpecIInv, PTL

-----------------------------------------------------------------------------
(* The client.  Its lemmas do not use the pool.                            *)

\* A caller that waits is at a node and has an attempt left; the nodes that
\* refused are behind it.
WaitsAtNode == \A c \in sleeping : node[c] # 0 /\ attempt[c] < Retries
RefusedBehind == \A c \in Callers : node[c] # 0 => \A n \in refused[c] : n < node[c]

RInv == RpcTypeOK /\ EveryRequestRecorded /\ WaitsAtNode /\ RefusedBehind

USE NodesAssumption, RetriesAssumption, NothingAssumption

\* No call is under way.
LEMMA RpcInitInv == RpcInit => RInv
BY DEF RpcInit, RInv, RpcTypeOK, EveryRequestRecorded, WaitsAtNode, RefusedBehind

\* A caller asks.
LEMMA AskInv ==
  ASSUME RInv, NEW c \in Callers, Ask(c)
  PROVE  RInv'
<1>. USE DEF RInv, Ask
<1>1. RpcTypeOK'
  BY DEF RpcTypeOK
<1>2. c \notin sleeping
  BY DEF WaitsAtNode
<1>3. EveryRequestRecorded'
  BY <1>2 DEF RpcTypeOK, EveryRequestRecorded
<1>4. WaitsAtNode'
  BY <1>2 DEF RpcTypeOK, WaitsAtNode
<1>5. RefusedBehind'
  BY DEF RpcTypeOK, RefusedBehind
<1>. QED  BY <1>1, <1>3, <1>4, <1>5

\* A read that goes on or ends, with one more outcome recorded.
LEMMA NextNodeInv ==
  ASSUME RInv, NEW c \in Callers, Asking(c), Record(c), NextNode(c),
         \/ UNCHANGED refused
         \/ refused' = [refused EXCEPT ![c] = @ \cup {node[c]}]
  PROVE  RInv'
<1>. USE DEF RInv, Asking, Record, NextNode
<1>1. /\ node[c] \in 1..Nodes /\ node[c] \in Nat /\ Nodes \in Nat
      /\ node' \in [Callers -> 0..Nodes]
      /\ node'[c] \in {0, node[c] + 1}
      /\ \A d \in Callers \ {c} : node'[d] = node[d]
  BY DEF RpcTypeOK
<1>2. RpcTypeOK'
  <2>1. refused' \in [Callers -> SUBSET (1..Nodes)]
    BY <1>1 DEF RpcTypeOK
  <2>2. answer' \in [Callers -> (1..Nodes) \cup {Nothing}]
    BY DEF RpcTypeOK
  <2>. QED  BY <1>1, <2>1, <2>2 DEF RpcTypeOK
<1>3. EveryRequestRecorded'
  BY <1>1 DEF RpcTypeOK, EveryRequestRecorded
<1>4. WaitsAtNode'
  BY <1>1 DEF RpcTypeOK, WaitsAtNode
<1>5. RefusedBehind'
  <2>. SUFFICES ASSUME NEW d \in Callers, node'[d] # 0, NEW n \in refused'[d]
                PROVE  n < node'[d]
    BY DEF RefusedBehind
  <2>1. CASE d # c
    BY <1>1, <2>1 DEF RpcTypeOK, RefusedBehind
  <2>2. CASE d = c
    <3>1. n \in refused[c] \cup {node[c]} /\ n \in Nat
      BY <1>1, <2>2 DEF RpcTypeOK
    <3>2. n <= node[c]
      BY <1>1, <3>1 DEF RefusedBehind, RpcTypeOK
    <3>. QED  BY <1>1, <2>2, <3>1, <3>2
  <2>. QED  BY <2>1, <2>2
<1>. QED  BY <1>2, <1>3, <1>4, <1>5

\* A step of a call.
LEMMA StepInv ==
  ASSUME RInv, NEW c \in Callers, RpcStep(c)
  PROVE  RInv'
<1>. USE DEF RInv
<1>1. CASE Content(c)
  <2>. USE <1>1 DEF Content, Asking, Record
  <2>1. RpcTypeOK'
    BY DEF RpcTypeOK
  <2>2. EveryRequestRecorded' /\ WaitsAtNode' /\ RefusedBehind'
    BY DEF RpcTypeOK, EveryRequestRecorded, WaitsAtNode, RefusedBehind
  <2>. QED  BY <2>1, <2>2
<1>2. CASE Useless(c)
  BY <1>2, NextNodeInv DEF Useless
<1>3. CASE Refused(c)
  BY <1>3, NextNodeInv DEF Refused
<1>4. CASE Transient(c)
  <2>1. CASE attempt[c] < Retries
    <3>. USE <1>4, <2>1 DEF Transient, Asking
    <3>0. /\ sleeping' = sleeping \cup {c}
          /\ retried' = [retried EXCEPT ![c] = @ + 1]
          /\ UNCHANGED <<healthy, node, attempt, answer, settled, refused>>
      OBVIOUS
    <3>1. RpcTypeOK'
      BY <3>0 DEF RpcTypeOK
    <3>2. EveryRequestRecorded'
      BY DEF RpcTypeOK, EveryRequestRecorded
    <3>3. WaitsAtNode' /\ RefusedBehind'
      BY DEF RpcTypeOK, WaitsAtNode, RefusedBehind
    <3>. QED  BY <3>1, <3>2, <3>3
  <2>2. CASE ~ attempt[c] < Retries
    BY <1>4, <2>2, NextNodeInv DEF Transient
  <2>. QED  BY <2>1, <2>2
<1>5. CASE Wake(c)
  <2>. USE <1>5 DEF Wake
  <2>1. RpcTypeOK'
    BY DEF RpcTypeOK, WaitsAtNode
  <2>2. EveryRequestRecorded'
    BY DEF RpcTypeOK, EveryRequestRecorded
  <2>3. WaitsAtNode' /\ RefusedBehind'
    BY DEF RpcTypeOK, WaitsAtNode, RefusedBehind
  <2>. QED  BY <2>1, <2>2, <2>3
<1>. QED  BY <1>1, <1>2, <1>3, <1>4, <1>5 DEF RpcStep, Reply

\* Every step keeps the invariant.
LEMMA RpcNextInv == RInv /\ [RpcNext]_rpcVars => RInv'
<1>. SUFFICES ASSUME RInv, [RpcNext]_rpcVars PROVE RInv'
  OBVIOUS
<1>1. CASE UNCHANGED rpcVars
  BY <1>1 DEF rpcVars, RInv, RpcTypeOK, EveryRequestRecorded, WaitsAtNode, RefusedBehind
<1>2. CASE RpcNext
  BY <1>2, AskInv, StepInv DEF RpcNext
<1>. QED  BY <1>1, <1>2

\* The invariant holds throughout.
LEMMA RpcInvariant == RpcSpec => []RInv
BY RpcInitInv, RpcNextInv, PTL DEF RpcSpec

\* The types of the client's variables.
THEOREM RpcTypeCorrect == RpcSpec => []RpcTypeOK
BY RpcInvariant, PTL DEF RInv

\* A refused node is behind the one that is asked, so it is not asked again.
LEMMA AccountedInv == RInv => ReadsAccounted
BY DEF RInv, RpcTypeOK, RefusedBehind, ReadsAccounted, RefusalIsFinal

\* fetchJson records every request once, and a node whose status said not to
\* retry is not asked again in the same read, for any number of callers, nodes
\* and retries.
THEOREM RpcReadsAccounted == RpcSpec => []ReadsAccounted
BY AccountedInv, RpcInvariant, PTL

-----------------------------------------------------------------------------
\* A caller's step is one of Failover's, or changes nothing it sees.
LEMMA StepPromised ==
  ASSUME RInv, NEW d \in Callers, Ask(d) \/ RpcStep(d), NEW c \in Callers
  PROVE  [Promise(c)!Next]_(Promise(c)!vars)
<1>. USE DEF RInv, RpcTypeOK, Promise!Next, Promise!vars
<1>1. CASE c # d
  BY <1>1 DEF Ask, RpcStep, Reply, Content, Useless, Refused, Transient, Wake, NextNode
<1>2. CASE c = d /\ Ask(d)
  BY <1>2 DEF Ask, Promise!Start
<1>3. CASE c = d /\ Content(d)
  BY <1>3 DEF Content, Asking, Promise!Answers
<1>4. ASSUME c = d, Asking(d), node[d] \notin healthy, NextNode(d)
      PROVE  Promise(c)!Fails
  BY <1>4 DEF Asking, NextNode, Promise!Fails
<1>5. CASE c = d /\ Wake(d)
  BY <1>5 DEF Wake
<1>6. CASE c = d /\ Transient(d) /\ attempt[d] < Retries
  BY <1>6 DEF Transient
<1>7. CASE c = d /\ Transient(d) /\ ~ attempt[d] < Retries
  BY <1>4, <1>7 DEF Transient
<1>8. CASE c = d /\ (Useless(d) \/ Refused(d))
  BY <1>4, <1>8 DEF Useless, Refused
<1>. QED  BY <1>1, <1>2, <1>3, <1>5, <1>6, <1>7, <1>8 DEF RpcStep, Reply

\* A promise begins.
LEMMA PromiseStart == RpcInit => \A c \in Callers : Promise(c)!Init
BY DEF RpcInit, Promise!Init

\* A step of the client is a step of the promise, or none.
LEMMA PromiseNext ==
  RInv /\ [RpcNext]_rpcVars
    => [\A c \in Callers : [Promise(c)!Next]_(Promise(c)!vars)]_rpcVars
BY StepPromised DEF RpcNext

\* For any number of callers, nodes and retries, every caller's reads are what
\* Failover promises: the first usable answer in the nodes' order, and nothing
\* only if every node has failed.
THEOREM RpcKeepsPromise == RpcSpec => KeepsPromise
BY PromiseStart, PromiseNext, RpcInvariant, PTL DEF RpcSpec, KeepsPromise

-----------------------------------------------------------------------------
(* The pool and the client.                                                *)

\* Only a worker that awaits its call has a read under way.
ReadAwaited == \A w \in Workers : node[w] # 0 => worker[w] = "awaiting"

BothInv == IInv /\ RInv /\ ReadAwaited

\* What the composition does, the pool or the client could do alone.
LEMMA PoolOrStill == [ReadsNext]_allVars => [Next]_vars
BY DEF ReadsNext, Hear, Worker, Claim, Read, Decode, Finish, Next, Step, allVars

\* A step of the pool is a step of the client, or none.
LEMMA ClientOrStill == [ReadsNext]_allVars => [RpcNext]_rpcVars
BY CallersAssumption
   DEF ReadsNext, Hear, Worker, Claim, Read, Decode, Finish, RpcNext, allVars

\* The pool and the client as they begin.
LEMMA BothStart == ReadsInit => BothInv
BY InitIInv, RpcInitInv, CallersAssumption
   DEF ReadsInit, BothInv, ReadAwaited, RpcInit

\* A worker begins its read as it claims, and decodes when the read is over.
LEMMA BothNext == BothInv /\ [ReadsNext]_allVars => BothInv'
<1>. SUFFICES ASSUME BothInv, [ReadsNext]_allVars PROVE BothInv'
  OBVIOUS
<1>1. IInv' /\ RInv'
  BY PoolOrStill, ClientOrStill, NextIInv, RpcNextInv DEF BothInv
<1>2. worker \in [Workers -> WorkerStates] /\ node \in [Workers -> 0..Nodes]
  BY CallersAssumption DEF BothInv, IInv, TypeOK, RInv, RpcTypeOK
<1>3. ReadAwaited'
  <2>1. CASE UNCHANGED allVars \/ Hear
    BY <2>1 DEF allVars, vars, rpcVars, Hear, Resolve, BothInv, ReadAwaited
  <2>2. ASSUME NEW w \in Workers, Claim(w)  PROVE ReadAwaited'
    BY <1>2, <2>2 DEF Claim, Take, Ask, BothInv, ReadAwaited
  <2>3. ASSUME NEW w \in Workers, Read(w)  PROVE ReadAwaited'
    <3>1. worker[w] = "awaiting"
      BY <2>3 DEF Read, RpcStep, Reply, Content, Useless, Refused, Transient, Wake,
                  Asking, BothInv, ReadAwaited, RInv, WaitsAtNode
    <3>2. \A v \in Workers \ {w} : node'[v] = node[v]
      BY <1>2, <2>3 DEF Read, RpcStep, Reply, Content, Useless, Refused, Transient, Wake,
                  NextNode
    <3>3. worker' = worker
      BY <2>3 DEF Read, vars
    <3>. QED  BY <3>1, <3>2, <3>3 DEF BothInv, ReadAwaited
  <2>4. ASSUME NEW w \in Workers, Decode(w)  PROVE ReadAwaited'
    BY <1>2, <2>4 DEF Decode, Settle, Reject, rpcVars, BothInv, ReadAwaited
  <2>5. ASSUME NEW w \in Workers, Finish(w)  PROVE ReadAwaited'
    BY <1>2, <2>5 DEF Finish, Return, rpcVars, BothInv, ReadAwaited
  <2>. QED  BY <2>1, <2>2, <2>3, <2>4, <2>5 DEF ReadsNext, Worker
<1>. QED  BY <1>1, <1>3 DEF BothInv

\* Both invariants hold throughout.
LEMMA BothInvariant == ReadsSpec => []BothInv
BY BothStart, BothNext, PTL DEF ReadsSpec

\* mapWithConcurrency over failing reads: no more rows than the cap at a time,
\* no row twice, and a complete result in the rows' order.
THEOREM PooledReadsSafe == ReadsSpec => []PoolSafe
<1>1. BothInv => PoolSafe
  BY WorkersCapped, CalledOnce, ReturnedComplete
     DEF BothInv, PoolSafe, ReadsTypeOK, IInv, RInv, ReadAwaited
<1>. QED  BY <1>1, BothInvariant, PTL

\* What is proved of the client holds for the reads of the pool's workers:
\* every request is accounted for, and Failover's promise is kept.
THEOREM PooledReadsKeepPromise == ReadsSpec => []ReadsAccounted /\ KeepsPromise
<1>1. BothInv => ReadsAccounted /\ RInv
  BY AccountedInv DEF BothInv
<1>2. ReadsInit => RpcInit
  BY DEF ReadsInit
<1>. QED  BY <1>1, <1>2, PromiseStart, PromiseNext, ClientOrStill, BothInvariant, PTL
             DEF ReadsSpec, KeepsPromise

-----------------------------------------------------------------------------
(* The caches.                                                             *)

Entry == [val : Version, at : Int]
Call == [state : {"idle", "asked", "served", "joined"}, val : Version, since : Nat]

LookupTypes ==
  /\ cache \in Caches
  /\ now \in Nat
  /\ upstream \in Version
  /\ entry \in Entry
  /\ call \in [Requesters -> Call]
  /\ given \in [given : BOOLEAN, val : Version, own : BOOLEAN]
  /\ ended \in [Version -> Int]
  /\ failed \in Int

\* Whether v was the upstream's at t or since.
CurrentSince(v, t) == v = upstream \/ ended[v] >= t

\* No call outlives its time limit.
CallsInTime == \A c \in Requesters :
  call[c].state # "idle" => call[c].since <= now /\ now - call[c].since <= MaxDelay

\* What is under way was current since it was asked for.
CallsCurrent == \A c \in Requesters :
  call[c].state = "served" => CurrentSince(call[c].val, call[c].since)

\* What a kept entry is.
EntryCurrent ==
  entry # NoEntry =>
    /\ entry.at \in Nat /\ entry.at <= now
    /\ entry.val # 0 => CurrentSince(entry.val, entry.at - MaxDelay)
    /\ entry.val = 0 =>
         \/ cache \in KeepsNothing(FALSE) /\ CurrentSince(0, entry.at - MaxDelay)
         \/ cache \in KeepsNothing(TRUE) /\ failed # Never /\ failed >= entry.at

\* One call at a time for a shared promise.
BuildsApart ==
  cache \in Shared =>
    /\ \A c, d \in Busy : c = d
    /\ Joined # {} => Busy # {}

LInv ==
  /\ LookupTypes /\ CallsInTime /\ CallsCurrent /\ EntryCurrent
  /\ BuildsApart /\ AnswersRecent /\ NothingForgotten

USE LookupAssumption

\* The parameters.
LEMMA Constants ==
  /\ Lifetime \in Nat /\ Lifetime > 0 /\ MaxDelay \in Nat /\ MaxVersion \in Nat
  /\ {0, 1} \subseteq Version
BY DEF Version

\* The empty cache.
LEMMA LookupInitInv == LookupInit => LInv
<1>. SUFFICES ASSUME LookupInit PROVE LInv
  OBVIOUS
<1>. USE Constants DEF LookupInit, Idle, NoEntry, NoAnswer, Never
<1>1. LookupTypes
  BY DEF LookupTypes, Entry, Call, Version, Caches, Remote
<1>2. CallsInTime /\ CallsCurrent /\ EntryCurrent
  BY DEF CallsInTime, CallsCurrent, EntryCurrent
<1>3. BuildsApart
  BY DEF BuildsApart, Busy, Joined
<1>4. AnswersRecent /\ NothingForgotten
  BY DEF AnswersRecent, NothingForgotten
<1>. QED  BY <1>1, <1>2, <1>3, <1>4 DEF LInv

\* Nothing is given in this step.
LEMMA NoneGiven ==
  ASSUME GiveNone
  PROVE  (AnswersRecent /\ NothingForgotten)'
BY DEF GiveNone, NoAnswer, AnswersRecent, NothingForgotten

\* A caller is served.
LEMMA ServeInv ==
  ASSUME LInv, NEW c \in Requesters, Serve(c)
  PROVE  LInv'
<1>. USE Constants DEF LInv, Serve, Give
<1>1. LookupTypes'
  BY DEF LookupTypes, Entry
<1>2. (CallsInTime /\ CallsCurrent /\ EntryCurrent /\ BuildsApart)'
  BY DEF CallsInTime, CallsCurrent, EntryCurrent, CurrentSince, KeepsNothing, NoEntry,
         BuildsApart, Busy, Joined
<1>3. /\ entry # NoEntry /\ entry.at \in Nat /\ now \in Nat /\ failed \in Int
      /\ entry.val \in Version /\ ended \in [Version -> Int]
      /\ cache \in Forever \/ now - entry.at < Lifetime
  BY DEF Hit, EntryCurrent, LookupTypes, Entry
<1>4. AnswersRecent'
  <2>. SUFFICES ASSUME entry.val # 0, cache \notin Forever
                PROVE  CurrentWithin(entry.val, Lifetime + MaxDelay)
    BY DEF AnswersRecent, CurrentWithin
  <2>1. CurrentSince(entry.val, entry.at - MaxDelay) /\ now - entry.at < Lifetime
    BY <1>3 DEF EntryCurrent
  <2>2. entry.at - MaxDelay >= now - (Lifetime + MaxDelay)
    BY <1>3, <2>1
  <2>. QED  BY <1>3, <2>1, <2>2 DEF CurrentSince, CurrentWithin
<1>5. NothingForgotten'
  <2>. SUFFICES ASSUME entry.val = 0
                PROVE  \/ /\ cache \in KeepsNothing(FALSE)
                          /\ CurrentWithin(0, Lifetime + MaxDelay)
                       \/ /\ cache \in KeepsNothing(TRUE)
                          /\ failed # Never
                          /\ cache = "schema" \/ failed >= now - (Lifetime + MaxDelay)
    BY DEF NothingForgotten, CurrentWithin, KeepsNothing
  <2>1. CASE cache \in KeepsNothing(FALSE) /\ CurrentSince(0, entry.at - MaxDelay)
    <3>1. cache \notin Forever
      BY <2>1 DEF KeepsNothing, Forever
    <3>2. entry.at - MaxDelay >= now - (Lifetime + MaxDelay)
      BY <1>3, <3>1
    <3>3. CurrentWithin(0, Lifetime + MaxDelay)
      <4>1. ended[0] \in Int /\ entry.at - MaxDelay \in Int
            /\ now - (Lifetime + MaxDelay) \in Int
        BY <1>3
      <4>. QED  BY <2>1, <3>2, <4>1 DEF CurrentSince, CurrentWithin
    <3>. QED  BY <2>1, <3>3
  <2>2. CASE cache \in KeepsNothing(TRUE) /\ failed # Never /\ failed >= entry.at
    <3>1. cache = "schema" \/ cache \notin Forever
      BY <2>2 DEF KeepsNothing, Forever
    <3>2. cache = "schema" \/ failed >= now - (Lifetime + MaxDelay)
      BY <1>3, <2>2, <3>1
    <3>. QED  BY <2>2, <3>2
  <2>. QED  BY <1>3, <2>1, <2>2 DEF EntryCurrent
<1>. QED  BY <1>1, <1>2, <1>4, <1>5

\* A caller asks upstream.
LEMMA AskInTurn ==
  ASSUME LInv, NEW c \in Requesters, AskUpstream(c)
  PROVE  LInv'
<1>. USE Constants DEF LInv, AskUpstream
<1>0. call \in [Requesters -> Call] /\ now \in Nat
  BY DEF LookupTypes
<1>1. LookupTypes'
  <2>1. call' \in [Requesters -> Call]
    BY <1>0 DEF Idle, Call, Version
  <2>2. NoEntry \in Entry /\ given' \in [given : BOOLEAN, val : Version, own : BOOLEAN]
    BY DEF NoEntry, Entry, Never, GiveNone, NoAnswer
  <2>. QED  BY <2>1, <2>2 DEF LookupTypes
<1>2. CallsInTime' /\ CallsCurrent'
  BY <1>0 DEF Idle, CallsInTime, CallsCurrent, CurrentSince
<1>3. EntryCurrent'
  BY DEF EntryCurrent, CurrentSince, KeepsNothing, NoEntry
<1>4. BuildsApart'
  <2>. SUFFICES ASSUME cache \in Shared
                PROVE  (\A d, e \in Busy' : d = e) /\ (Joined' # {} => Busy' # {})
    BY DEF BuildsApart
  <2>1. CASE Busy = {}
    <3>1. Busy' = {c}
      BY <1>0, <2>1 DEF Busy, Idle
    <3>. QED  BY <3>1
  <2>2. CASE Busy # {}
    <3>1. Busy' = Busy
      BY <1>0, <2>2 DEF Busy, Idle
    <3>. QED  BY <2>2, <3>1 DEF BuildsApart
  <2>. QED  BY <2>1, <2>2
<1>. QED  BY <1>1, <1>2, <1>3, <1>4, NoneGiven

\* A request is sent.
LEMMA SentInv ==
  ASSUME LInv, NEW c \in Requesters, Sent(c)
  PROVE  LInv'
<1>. USE Constants DEF LInv, Sent
<1>0. call \in [Requesters -> Call] /\ now \in Nat /\ upstream \in Version
  BY DEF LookupTypes
<1>1. LookupTypes'
  <2>1. call' \in [Requesters -> Call]
    BY <1>0 DEF Call
  <2>2. given' \in [given : BOOLEAN, val : Version, own : BOOLEAN]
    BY DEF GiveNone, NoAnswer
  <2>. QED  BY <2>1, <2>2 DEF LookupTypes
<1>2. CallsInTime' /\ CallsCurrent'
  BY <1>0 DEF CallsInTime, CallsCurrent, CurrentSince, Call
<1>3. EntryCurrent'
  BY DEF EntryCurrent, CurrentSince, KeepsNothing, NoEntry
<1>4. BuildsApart'
  <2>1. Busy' = Busy /\ Joined' = Joined
    BY <1>0 DEF Busy, Joined, Call
  <2>. QED  BY <2>1 DEF BuildsApart
<1>. QED  BY <1>1, <1>2, <1>3, <1>4, NoneGiven

\* A call that is over leaves those of the others, and nobody waits for it.
LEMMA OverKeeps ==
  ASSUME LInv, NEW c \in Busy, Over(c), UNCHANGED <<cache, now, upstream, ended>>
  PROVE  /\ call' \in [Requesters -> Call]
         /\ (CallsInTime /\ CallsCurrent /\ BuildsApart)'
<1>. USE Constants DEF LInv, Over
<1>0. call \in [Requesters -> Call] /\ now \in Nat
  BY DEF LookupTypes
<1>1. Idle \in Call /\ Idle.state = "idle"
  BY DEF Idle, Call
<1>2. \A d \in Requesters : call'[d] \in {Idle, call[d]}
  OBVIOUS
<1>3. call' \in [Requesters -> Call]
  BY <1>0, <1>1
<1>4. CallsInTime' /\ CallsCurrent'
  BY <1>0, <1>1, <1>2 DEF CallsInTime, CallsCurrent, CurrentSince
<1>5. BuildsApart'
  <2>1. Busy' \subseteq Busy
    BY <1>1, <1>2 DEF Busy
  <2>2. Joined' = {}
    BY <1>1 DEF Joined
  <2>. QED  BY <2>1, <2>2 DEF BuildsApart
<1>. QED  BY <1>3, <1>4, <1>5

\* An answer arrives.
LEMMA ArriveInv ==
  ASSUME LInv, NEW c \in Requesters, Arrive(c)
  PROVE  LInv'
<1>. USE Constants DEF Arrive
<1> DEFINE v == call[c].val
           since == call[c].since
           new == [val |-> v, at |-> IF cache = "validators" THEN since ELSE now]
<1>0. /\ call \in [Requesters -> Call] /\ now \in Nat /\ v \in Version /\ since \in Nat
      /\ since <= now /\ now - since <= MaxDelay /\ CurrentSince(v, since)
      /\ ended \in [Version -> Int] /\ entry \in Entry /\ failed \in Int
  BY DEF LInv, LookupTypes, Call, CallsInTime, CallsCurrent
<1>1. c \in Busy
  BY DEF Busy
<1>2. /\ call' \in [Requesters -> Call]
      /\ (CallsInTime /\ CallsCurrent /\ BuildsApart)'
  BY <1>1, OverKeeps
<1>3. /\ entry' \in {new, entry}
      /\ entry' # entry => v # 0 \/ cache \in KeepsNothing(FALSE)
  BY DEF Kept
<1>4. LookupTypes'
  <2>1. new \in Entry
    BY <1>0 DEF Entry
  <2>2. given' \in [given : BOOLEAN, val : Version, own : BOOLEAN]
    BY <1>0 DEF Give
  <2>. QED  BY <1>2, <1>3, <2>1, <2>2 DEF LInv, LookupTypes
<1>5. EntryCurrent'
  <2>1. CASE entry' = entry
    BY <2>1 DEF LInv, EntryCurrent, CurrentSince, KeepsNothing, NoEntry
  <2>2. CASE entry' = new /\ entry' # entry
    <3>1. new.at \in Nat /\ new.at <= now /\ new.val = v /\ new.at - MaxDelay <= since
      BY <1>0
    <3>2. v = upstream' \/ ended'[v] >= new.at - MaxDelay
      BY <1>0, <3>1 DEF CurrentSince
    <3>3. entry'.val = v /\ entry'.at = new.at /\ now' = now /\ cache' = cache
      BY <2>2
    <3> HIDE DEF v, new
    <3>. QED  BY <1>3, <2>2, <3>1, <3>2, <3>3 DEF EntryCurrent, CurrentSince, KeepsNothing
  <2>. QED  BY <1>3, <2>1, <2>2
<1>6. v = upstream' \/ (ended'[v] >= now' - MaxDelay
                          /\ ended'[v] >= now' - (Lifetime + MaxDelay))
  <2>1. ended[v] \in Int
    BY <1>0
  <2>. QED  BY <1>0, <2>1 DEF CurrentSince
<1>7. AnswersRecent' /\ NothingForgotten'
  <2>1. given'.val = v
    BY DEF Give
  <2>. HIDE DEF v
  <2>2. AnswersRecent'
    BY <1>6, <2>1 DEF AnswersRecent, CurrentWithin
  <2>3. NothingForgotten'
    BY <1>6, <2>1 DEF NothingForgotten, CurrentWithin
  <2>. QED  BY <2>2, <2>3
<1>. QED  BY <1>2, <1>4, <1>5, <1>7 DEF LInv

\* A request fails.
LEMMA BreakInv ==
  ASSUME LInv, NEW c \in Requesters, Break(c)
  PROVE  LInv'
<1>. USE Constants DEF Break
<1> DEFINE since == call[c].since
           new == [val |-> 0, at |-> IF cache = "validators" THEN since ELSE now]
<1>0. /\ call \in [Requesters -> Call] /\ now \in Nat /\ since \in Nat
      /\ entry \in Entry /\ failed \in Int /\ failed' = now
  BY DEF LInv, LookupTypes, Call
<1>1. c \in Busy
  BY DEF Busy
<1>2. /\ call' \in [Requesters -> Call]
      /\ (CallsInTime /\ CallsCurrent /\ BuildsApart)'
  BY <1>1, OverKeeps
<1>3. /\ entry' \in {new, entry}
      /\ entry' # entry => cache \in KeepsNothing(TRUE)
  BY DEF Kept
<1>4. LookupTypes'
  <2>1. new \in Entry
    BY <1>0 DEF Entry
  <2>2. given' \in [given : BOOLEAN, val : Version, own : BOOLEAN]
    BY <1>0 DEF Give, Entry
  <2>. QED  BY <1>0, <1>2, <1>3, <2>1, <2>2 DEF LInv, LookupTypes
<1>5. EntryCurrent'
  <2>1. CASE entry' = entry
    BY <1>0, <2>1 DEF LInv, EntryCurrent, CurrentSince, KeepsNothing, NoEntry, Never
  <2>2. CASE entry' = new /\ entry' # entry
    <3>1. cache # "validators"
      BY <1>3, <2>2 DEF KeepsNothing
    <3>. QED  BY <1>0, <1>3, <2>2, <3>1 DEF EntryCurrent, CurrentSince, KeepsNothing, Never
  <2>. QED  BY <1>3, <2>1, <2>2
<1>6. AnswersRecent'
  BY DEF AnswersRecent, Give, Stale
<1>7. NothingForgotten'
  <2>1. failed' # Never /\ failed' >= now' - MaxDelay
        /\ failed' >= now' - (Lifetime + MaxDelay)
    BY <1>0 DEF Never
  <2>. QED  BY <2>1 DEF NothingForgotten
<1>. QED  BY <1>2, <1>4, <1>5, <1>6, <1>7 DEF LInv

\* The answer changes upstream.
LEMMA ChangeInv == ASSUME LInv, Change PROVE LInv'
<1>. USE Constants DEF Change
<1>0. /\ now \in Nat /\ upstream \in Nat /\ upstream \in Version
      /\ ended \in [Version -> Int] /\ call \in [Requesters -> Call] /\ entry \in Entry
  BY DEF LInv, LookupTypes, Version
<1>1. LookupTypes'
  <2>1. upstream' \in Version /\ ended' \in [Version -> Int]
    BY <1>0 DEF Version
  <2>2. given' \in [given : BOOLEAN, val : Version, own : BOOLEAN]
    BY DEF GiveNone, NoAnswer
  <2>. QED  BY <2>1, <2>2 DEF LInv, LookupTypes
<1>2. ASSUME NEW v \in Version, NEW t \in Int, t <= now,
             v = upstream \/ ended[v] >= t
      PROVE  v = upstream' \/ ended'[v] >= t
  BY <1>0, <1>2
<1>3. (CallsInTime /\ BuildsApart)'
  BY DEF LInv, CallsInTime, BuildsApart, Busy, Joined
<1>4. CallsCurrent'
  BY <1>0, <1>2 DEF LInv, CallsCurrent, CallsInTime, CurrentSince, Call
<1>5. EntryCurrent'
  <2>1. entry # NoEntry => entry.at - MaxDelay \in Int /\ entry.at - MaxDelay <= now
    BY <1>0 DEF LInv, EntryCurrent
  <2>. QED  BY <1>0, <1>2, <2>1
             DEF LInv, EntryCurrent, CurrentSince, Entry, KeepsNothing, NoEntry
<1>. QED  BY <1>1, <1>3, <1>4, <1>5, NoneGiven DEF LInv

\* Time passes.
LEMMA TickInv == ASSUME LInv, Tick PROVE LInv'
<1>. USE Constants DEF LInv, Tick
<1>0. now \in Nat /\ now' = now + 1 /\ call \in [Requesters -> Call]
  BY DEF LookupTypes
<1>1. LookupTypes'
  BY <1>0 DEF LookupTypes, GiveNone, NoAnswer
<1>2. CallsInTime'
  BY <1>0 DEF CallsInTime, Idle, Call
<1>3. (CallsCurrent /\ BuildsApart)'
  BY DEF CallsCurrent, CurrentSince, BuildsApart, Busy, Joined
<1>4. EntryCurrent'
  BY <1>0 DEF EntryCurrent, CurrentSince, KeepsNothing, NoEntry
<1>. QED  BY <1>1, <1>2, <1>3, <1>4, NoneGiven

\* Every step keeps the invariant.
LEMMA LookupNextInv == LInv /\ [LookupNext]_lookupVars => LInv'
<1>. SUFFICES ASSUME LInv, [LookupNext]_lookupVars PROVE LInv'
  OBVIOUS
<1>1. CASE UNCHANGED lookupVars
  BY <1>1 DEF lookupVars, LInv, LookupTypes, CallsInTime, CallsCurrent, EntryCurrent,
              CurrentSince, KeepsNothing, NoEntry, BuildsApart, Busy, Joined,
              AnswersRecent, NothingForgotten, CurrentWithin
<1>2. CASE LookupNext
  BY <1>2, ServeInv, AskInTurn, SentInv, ArriveInv, BreakInv, ChangeInv, TickInv
     DEF LookupNext
<1>. QED  BY <1>1, <1>2

\* The invariant holds throughout.
LEMMA LookupInvariant == LookupSpec => []LInv
BY LookupInitInv, LookupNextInv, PTL DEF LookupSpec

\* An answer is no older than an entry's lifetime and a call's time together,
\* whatever the upstream did and whoever asked when.
THEOREM LookupAnswersRecent == LookupSpec => []AnswersRecent
BY LookupInvariant, PTL DEF LInv

\* Nothing is answered only where there was nothing or a call has failed, and
\* is remembered no longer than the cache's policy says.
THEOREM LookupNothingForgotten == LookupSpec => []NothingForgotten
BY LookupInvariant, PTL DEF LInv

\* One build of Bucket's vaults or of the profiles' table at a time, for any
\* number of callers, and none waits for one that is over.
THEOREM LookupOneBuild == LookupSpec => []OneBuild
<1>1. LInv => OneBuild
  <2>. SUFFICES ASSUME LInv, cache \in Shared
                PROVE  Cardinality(Busy) <= 1 /\ (Joined # {} => Busy # {})
    BY DEF OneBuild
  <2>1. (\A c, d \in Busy : c = d) /\ (Joined # {} => Busy # {})
    BY DEF LInv, BuildsApart
  <2>2. CASE Busy = {}
    BY <2>1, <2>2, FS_EmptySet
  <2>3. CASE Busy # {}
    <3>1. PICK c \in Busy : TRUE
      BY <2>3
    <3>2. Busy = {c}
      BY <2>1, <3>1
    <3>3. Cardinality({c}) = 1
      BY FS_Singleton
    <3>. QED  BY <2>1, <3>2, <3>3
  <2>. QED  BY <2>2, <2>3
<1>. QED  BY <1>1, LookupInvariant, PTL
=============================================================================
