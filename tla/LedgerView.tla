----------------------------- MODULE LedgerView -----------------------------
(***************************************************************************)
(* What the indexer promises its readers (the API): each pipeline's table  *)
(* is, at every moment, exactly the chain's state after the checkpoint its *)
(* watermark names, and moves from one checkpoint's state to a later one's *)
(* in one step.  Batches, arrival order, version comparison, crashes and   *)
(* replay do not exist at this level.  Only what happened from             *)
(* FirstCheckpoint on is indexed (`--first-checkpoint`).                   *)
(***************************************************************************)
EXTENDS Chain

CONSTANTS
  Pipelines,        \* the registered pipelines, by NAME: "transactions",
                    \* "coin_objects", "positions"
  FirstCheckpoint,  \* lower bound of the very first run
  NoRow             \* the table has no row for the object

Row == [owner : Owners, ver : Nat \ {0}]

VARIABLES
  watermark,  \* watermark[p]: last checkpoint committed by pipeline p
  table,      \* table[p][o]: the row of object o, for the object pipelines
  txRows      \* rows of the transactions table, by transaction

ledgerVars == <<log, sealed, watermark, table, txRows>>

ObjectPipelines == Pipelines \ {"transactions"}
Tracked(p) == IF p = "coin_objects" THEN Coins ELSE Stakes

\* The transactions a pipeline whose watermark is k has indexed.
Indexed(k) == {i \in TxIds : FirstCheckpoint <= log[i].cp /\ log[i].cp <= k}

\* The row an object has once transaction i has written it: the content of
\* an object at a version never changes, so the version stands for it.
RowAfter(i, o) ==
  IF log[i].eff[o] \in Owners
    THEN [owner |-> log[i].eff[o], ver |-> log[i].ver] ELSE NoRow

\* r is the row of o after the transactions of T: what the last of them to
\* touch o left behind, if the pipeline tracks o.
IsRowAfter(p, o, T, r) ==
  \/ /\ o \notin Tracked(p) \/ \A i \in T : ~ Touches(i, o)
     /\ r = NoRow
  \/ /\ o \in Tracked(p)
     /\ \E i \in T :
          /\ Touches(i, o)
          /\ \A j \in T : Touches(j, o) => j <= i
          /\ r = RowAfter(i, o)

IsViewAt(p, k, t) == \A o \in Objects : IsRowAfter(p, o, Indexed(k), t[o])

LedgerInit ==
  /\ ChainInit
  /\ watermark = [p \in Pipelines |-> FirstCheckpoint - 1]
  /\ table = [p \in ObjectPipelines |-> [o \in Objects |-> NoRow]]
  /\ txRows = {}

\* The chain grows; nothing a reader of the database sees changes.
ChainStep ==
  /\ Execute \/ Seal
  /\ UNCHANGED <<watermark, table, txRows>>

\* Pipeline p moves its table to the state of a later sealed checkpoint.
Advance(p) ==
  /\ watermark'[p] > watermark[p]
  /\ watermark'[p] <= sealed
  /\ watermark' = [watermark EXCEPT ![p] = watermark'[p]]
  /\ IF p \in ObjectPipelines
       THEN /\ table' = [table EXCEPT ![p] = table'[p]]
            /\ table'[p] \in [Objects -> Row \cup {NoRow}]
            /\ IsViewAt(p, watermark'[p], table'[p])
            /\ UNCHANGED txRows
       ELSE txRows' = Indexed(watermark'[p]) /\ UNCHANGED table
  /\ UNCHANGED <<log, sealed>>

LedgerNext == ChainStep \/ \E p \in Pipelines : Advance(p)

LedgerSpec == LedgerInit /\ [][LedgerNext]_ledgerVars
=============================================================================
