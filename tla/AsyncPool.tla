------------------------------ MODULE AsyncPool ------------------------------
(***************************************************************************)
(* apps/api/src/lib/asyncPool.ts: mapWithConcurrency runs fn over items    *)
(* with a fixed number of workers that share one cursor.  JavaScript runs  *)
(* a worker without interruption from one await to the next, so claiming   *)
(* an index and calling fn on it is one step; in what order the pending    *)
(* calls settle is open, and each may reject.                              *)
(***************************************************************************)
EXTENDS Integers, FiniteSets

CONSTANTS
  N,            \* items.length
  Concurrency,  \* the requested cap, any integer
  NoResult      \* a hole of `new Array(items.length)`

Index == 0..(N - 1)

ASSUME LengthAssumption == N \in Nat /\ Concurrency \in Int
ASSUME NoResultAssumption == NoResult \notin Index

\* Math.max(1, concurrency)
Cap == IF Concurrency < 1 THEN 1 ELSE Concurrency

\* Math.min(Math.max(1, concurrency), items.length) workers.
Workers == 1..(IF Cap < N THEN Cap ELSE N)

VARIABLES
  next,     \* the shared cursor
  worker,   \* worker[w]: "ready", "awaiting", "returned" or "rejected"
  item,     \* item[w]: the index w's call is for
  calls,    \* calls[i]: how often fn was called on item i
  results,  \* the result array; fn's result for item i is written i
  outcome   \* the promise the caller holds

vars == <<next, worker, item, calls, results, outcome>>

WorkerStates == {"ready", "awaiting", "returned", "rejected"}

TypeOK ==
  /\ next \in Nat
  /\ worker \in [Workers -> WorkerStates]
  /\ item \in [Workers -> Index \cup {NoResult}]
  /\ calls \in [Index -> Nat]
  /\ results \in [Index -> Index \cup {NoResult}]
  /\ outcome \in {"pending", "resolved", "rejected"}

\* With no items the function returns before it starts a worker.
Init ==
  /\ next = 0
  /\ worker = [w \in Workers |-> "ready"]
  /\ item = [w \in Workers |-> NoResult]
  /\ calls = [i \in Index |-> 0]
  /\ results = [i \in Index |-> NoResult]
  /\ outcome = IF N = 0 THEN "resolved" ELSE "pending"

\* Faulty: the index is claimed when the call returns.
TakeShared(w) ==
  /\ worker[w] = "ready"
  /\ next < N
  /\ worker' = [worker EXCEPT ![w] = "awaiting"]
  /\ item' = [item EXCEPT ![w] = next]
  /\ calls' = [calls EXCEPT ![next] = @ + 1]
  /\ next' = IF \E u \in Workers : worker[u] = "awaiting" THEN next + 1 ELSE next
  /\ UNCHANGED <<results, outcome>>

\* `const i = next++` and the call of fn.
Take(w) ==
  /\ worker[w] = "ready"
  /\ next < N
  /\ next' = next + 1
  /\ worker' = [worker EXCEPT ![w] = "awaiting"]
  /\ item' = [item EXCEPT ![w] = next]
  /\ calls' = [calls EXCEPT ![next] = @ + 1]
  /\ UNCHANGED <<results, outcome>>

\* Faulty: off by one in the exit test.
ReturnLate(w) ==
  /\ worker[w] = "ready"
  /\ next > N
  /\ worker' = [worker EXCEPT ![w] = "returned"]
  /\ UNCHANGED <<next, item, calls, results, outcome>>

\* `if (i >= items.length) return`: the cursor has been advanced all the same.
Return(w) ==
  /\ worker[w] = "ready"
  /\ next >= N
  /\ next' = next + 1
  /\ worker' = [worker EXCEPT ![w] = "returned"]
  /\ UNCHANGED <<item, calls, results, outcome>>

\* fn resolves and its value is stored at the item's own place.
Settle(w) ==
  /\ worker[w] = "awaiting"
  /\ worker' = [worker EXCEPT ![w] = "ready"]
  /\ results' = [results EXCEPT ![item[w]] = item[w]]
  /\ UNCHANGED <<next, item, calls, outcome>>

\* fn rejects: the worker is over and Promise.all rejects, once; the other
\* workers are not told.
Reject(w) ==
  /\ worker[w] = "awaiting"
  /\ worker' = [worker EXCEPT ![w] = "rejected"]
  /\ outcome' = "rejected"
  /\ UNCHANGED <<next, item, calls, results>>

\* Promise.all resolves when every worker has returned.
Resolve ==
  /\ outcome = "pending"
  /\ \A w \in Workers : worker[w] = "returned"
  /\ outcome' = "resolved"
  /\ UNCHANGED <<next, worker, item, calls, results>>

Step(w) == Take(w) \/ Return(w) \/ Settle(w) \/ Reject(w)

Next == Resolve \/ \E w \in Workers : Step(w)

Spec == Init /\ [][Next]_vars

\* Every call resolves or rejects (the callers' requests time out) and the
\* event loop runs what is runnable.
FairSpec == Spec /\ WF_vars(Resolve) /\ \A w \in Workers : WF_vars(Step(w))

-----------------------------------------------------------------------------
InFlight == {w \in Workers : worker[w] = "awaiting"}

\* No more than the cap of calls are pending at any time, whatever cap the
\* caller asked for ("fixed concurrency cap (avoids RPC stampedes)").
CapRespected == Cardinality(InFlight) <= Cap

\* fn is called at most once per item, and never by two workers at a time:
\* the cursor is read and advanced before the await.
EachItemOnce ==
  /\ \A i \in Index : calls[i] <= 1
  /\ \A v, w \in InFlight : v # w => item[v] # item[w]

\* A promise that resolves holds every item's result at the item's place, in
\* whatever order the calls settled; in particular it does not resolve, with a
\* hole, if a call rejected.
ResolvedInOrder ==
  outcome = "resolved" => \A i \in Index : results[i] = i

\* The caller always hears back, even if a call rejects and leaves the items
\* to fewer workers.
Settles == <>(outcome # "pending")
=============================================================================
