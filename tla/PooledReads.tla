---------------------------- MODULE PooledReads ----------------------------
(***************************************************************************)
(* The pool at work (enrichCetusNativePositions in cetusRpc.ts, and its    *)
(* twin in turbosRpc.ts): mapWithConcurrency over the rows to decode,      *)
(* where fn reads the position's object through the failing nodes and then *)
(* decodes what it was given, which may throw.  A worker reads one object  *)
(* at a time, so the workers are the callers of the RPC client.            *)
(***************************************************************************)
EXTENDS AsyncPool, RpcClient

ASSUME CallersAssumption == Callers = Workers

allVars == <<vars, rpcVars>>

ReadsInit == Init /\ RpcInit

\* fn is called and its read begins before the first await.
Claim(w) == Take(w) /\ Ask(w)

Read(w) == RpcStep(w) /\ UNCHANGED vars

\* The read is over, whatever it gave: fn returns a row or null, or throws.
Decode(w) ==
  /\ worker[w] = "awaiting"
  /\ node[w] = 0
  /\ Settle(w) \/ Reject(w)
  /\ UNCHANGED rpcVars

Finish(w) == Return(w) /\ UNCHANGED rpcVars

Worker(w) == Claim(w) \/ Read(w) \/ Decode(w) \/ Finish(w)

Hear == Resolve /\ UNCHANGED rpcVars

ReadsNext == Hear \/ \E w \in Workers : Worker(w)

\* Requests time out and waits end (AbortSignal.timeout, setTimeout); the
\* event loop runs what is runnable.
ReadsSpec ==
  /\ ReadsInit
  /\ [][ReadsNext]_allVars
  /\ WF_allVars(Hear)
  /\ \A w \in Workers : WF_allVars(Worker(w))

-----------------------------------------------------------------------------
\* A read is under way only for a worker that awaits it.
ReadsTypeOK ==
  /\ TypeOK /\ RpcTypeOK
  /\ \A w \in Workers : node[w] # 0 => worker[w] = "awaiting"

\* No more rows than the cap are read at a time, no row twice, and the results
\* are in the rows' order, however often the reads are retried.
PoolSafe == ReadsTypeOK /\ CapRespected /\ EachItemOnce /\ ResolvedInOrder
=============================================================================
