----------------------------- MODULE MCUpstream -----------------------------
(***************************************************************************)
(* How the API reads what it does not have: the pool with its reads, and   *)
(* the caches.  They share no variable here, so that one run takes them    *)
(* one after the other: `part` says which one moves.                       *)
(***************************************************************************)
EXTENDS PooledReads, CachedLookup

VARIABLE part

upstreamVars == <<part, allVars, lookupVars>>

UpstreamInit ==
  /\ part \in {"reads", "lookup"}
  /\ ReadsInit /\ (part # "reads" => healthy = {})
  /\ LookupInit /\ (part # "lookup" => cache = "bucket" /\ upstream = 0)

Reads == part = "reads" /\ ReadsNext /\ UNCHANGED <<part, lookupVars>>
Lookups == part = "lookup" /\ LookupNext /\ UNCHANGED <<part, allVars>>

\* Fairness as in ReadsSpec.
UpstreamSpec ==
  /\ UpstreamInit /\ [][Reads \/ Lookups]_upstreamVars
  /\ WF_allVars(Reads /\ Hear)
  /\ \A w \in Workers : WF_allVars(Reads /\ Worker(w))

\* A pool whose reads end settles.
PoolSettles == part = "reads" ~> outcome # "pending"
=============================================================================
