------------------------------- MODULE Indexer -------------------------------
(***************************************************************************)
(* apps/indexer: three sequential pipelines that turn checkpoints into the *)
(* transactions, coin_objects and positions tables.  handlers.rs says what *)
(* a checkpoint contributes (process), how values accumulate into a commit *)
(* batch (batch, observe) and what a batch does to the database (commit).  *)
(* The framework (external) decides when: it hands over sealed checkpoints *)
(* one at a time, commits a batch that covers a run of checkpoints and its *)
(* watermark in one database transaction, and after a crash resumes from   *)
(* the committed watermark.                                                *)
(***************************************************************************)
EXTENDS Chain

CONSTANTS
  Pipelines,        \* the registered pipelines, by their NAME
  FirstCheckpoint,  \* --first-checkpoint: lower bound of the very first run
  NoRow,       \* the table has no row for the object
  NoSlot,      \* the batch has no entry for the object
  BatchCap,    \* bound: checkpoints one commit may cover
  MaxCrashes   \* bound: crashes in a behaviour

PipelineNames == {"transactions", "coin_objects", "positions"}
ObjectPipelines == Pipelines \ {"transactions"}

\* StoredCoinObject / StoredPosition.  The content of an object at a version
\* never changes, so the version stands for balance, type and details.
Row == [owner : Owners, ver : Nat \ {0}]

\* CoinBatch.latest / PositionBatch.latest: row = NoRow is Latest::Delete.
Slot == [ver : Nat \ {0}, row : Row \cup {NoRow}]

ASSUME PipelineAssumption == Pipelines \subseteq PipelineNames
ASSUME FirstAssumption == FirstCheckpoint \in Nat \ {0}
ASSUME RowAssumption == NoRow \notin Row
ASSUME SlotAssumption == NoSlot \notin Slot
ASSUME CapAssumption == BatchCap \in Nat \ {0} /\ MaxCrashes \in Nat

VARIABLES
  watermark,  \* watermark[p]: last checkpoint committed by pipeline p
  table,      \* table[p][o]: the row of object o, for the object pipelines
  txRows,     \* rows of the transactions table, by transaction
  running,    \* the process is up
  seen,       \* seen[p]: transactions already fed into p's current batch
  batch,      \* batch[p][o]: latest change of o in p's current batch
  txBatch,    \* the transactions pipeline's Vec of rows
  crashes     \* crashes so far

ledgerVars == <<log, sealed, watermark, table, txRows>>
vars == <<log, sealed, watermark, table, txRows,
          running, seen, batch, txBatch, crashes>>
processVars == <<seen, batch, txBatch>>

EmptyBatch == [o \in Objects |-> NoSlot]

TypeOK ==
  /\ ChainTypeOK
  /\ watermark \in [Pipelines -> Nat]
  /\ table \in [ObjectPipelines -> [Objects -> Row \cup {NoRow}]]
  /\ txRows \subseteq TxIds
  /\ running \in BOOLEAN
  /\ seen \in [Pipelines -> SUBSET TxIds]
  /\ batch \in [ObjectPipelines -> [Objects -> Slot \cup {NoSlot}]]
  /\ txBatch \subseteq TxIds
  /\ crashes \in Nat

Init ==
  /\ ChainInit
  /\ watermark = [p \in Pipelines |-> FirstCheckpoint - 1]
  /\ table = [p \in ObjectPipelines |-> [o \in Objects |-> NoRow]]
  /\ txRows = {}
  /\ running = TRUE
  /\ seen = [p \in Pipelines |-> {}]
  /\ batch = [p \in ObjectPipelines |-> EmptyBatch]
  /\ txBatch = {}
  /\ crashes = 0

-----------------------------------------------------------------------------
(* process: what transaction i says of object o to pipeline p.             *)

\* obj.is_coin() / is_staked_sui().
Tracked(p) == IF p = "coin_objects" THEN Coins ELSE Stakes

\* Faulty: removed objects are forgotten.
EmitsSurvivors(p, i, o) ==
  Touches(i, o) /\ log[i].eff[o] # Gone /\ o \in Tracked(p)

\* Removed objects are reported whatever they are; a surviving object is
\* reported only if it is of the pipeline's type.
Emits(p, i, o) ==
  log[i].eff[o] = Gone \/ (Touches(i, o) /\ o \in Tracked(p))

\* An address-owned object is an Upsert, anything else a Delete.
Change(i, o) ==
  [ver |-> log[i].ver,
   row |-> IF log[i].eff[o] \in Owners
             THEN [owner |-> log[i].eff[o], ver |-> log[i].ver] ELSE NoRow]

\* Faulty: the last change to arrive wins.
ObserveArrival(slot, change) == change

\* observe: the entry with the higher version stays, a tie replaces.
Observe(slot, change) ==
  IF slot = NoSlot \/ change.ver >= slot.ver THEN change ELSE slot

-----------------------------------------------------------------------------
(* The pipelines.                                                          *)

\* Checkpoints the framework may put into p's current batch.
Window(p) == {c \in (watermark[p] + 1)..sealed : c <= watermark[p] + BatchCap}

\* All transactions of checkpoint c are in p's batch.
Complete(p, c) == \A i \in TxIds : log[i].cp = c => i \in seen[p]

\* One iteration of `for tx in &checkpoint.transactions` with the values it
\* emits fed to batch().  A checkpoint is fed in transaction order and
\* without another in between; the checkpoints of a batch come in any order.
Feed(p, i) ==
  /\ running
  /\ i \notin seen[p]
  /\ log[i].cp \in Window(p)
  /\ \A j \in 1..(i - 1) : log[j].cp = log[i].cp => j \in seen[p]
  /\ \A j \in seen[p] : log[j].cp # log[i].cp => Complete(p, log[j].cp)
  /\ seen' = [seen EXCEPT ![p] = @ \cup {i}]
  /\ IF p \in ObjectPipelines
       THEN /\ batch' = [batch EXCEPT ![p] = [o \in Objects |->
                 IF Emits(p, i, o) THEN Observe(batch[p][o], Change(i, o))
                                   ELSE batch[p][o]]]
            /\ UNCHANGED txBatch
       ELSE txBatch' = txBatch \cup {i} /\ UNCHANGED batch
  /\ UNCHANGED <<log, sealed, watermark, table, txRows, running, crashes>>

Deletes(b) == {o \in Objects : b[o] # NoSlot /\ b[o].row = NoRow}
Upserts(b) == {o \in Objects : b[o] # NoSlot /\ b[o].row # NoRow}

\* Faulty: only the upserts are written.
AppliedUpserts(t, b) ==
  [o \in Objects |-> IF o \in Upserts(b) THEN b[o].row ELSE t[o]]

\* DELETE ... WHERE object_id = ANY(deletes), then INSERT ... ON CONFLICT
\* (object_id) DO UPDATE: the stored version is not consulted.
Applied(t, b) ==
  [o \in Objects |-> IF o \in Deletes(b) THEN NoRow
                     ELSE IF o \in Upserts(b) THEN b[o].row ELSE t[o]]

\* Faulty: waits until the batch is full.
CommitFull(p, c) ==
  /\ running
  /\ c \in Window(p) /\ c = watermark[p] + BatchCap
  /\ \A d \in (watermark[p] + 1)..c : Complete(p, d)
  /\ table' = IF p \in ObjectPipelines
                THEN [table EXCEPT ![p] = Applied(table[p], batch[p])] ELSE table
  /\ batch' = IF p \in ObjectPipelines
                THEN [batch EXCEPT ![p] = EmptyBatch] ELSE batch
  /\ txRows' = IF p \in ObjectPipelines THEN txRows ELSE txRows \cup txBatch
  /\ txBatch' = IF p \in ObjectPipelines THEN txBatch ELSE {}
  /\ watermark' = [watermark EXCEPT ![p] = c]
  /\ seen' = [seen EXCEPT ![p] = {}]
  /\ UNCHANGED <<log, sealed, running, crashes>>

\* The batch covers checkpoints watermark + 1 .. c; rows and watermark reach
\* the database together or, if the transaction fails, not at all (the
\* framework then retries with the same batch, which changes nothing).
Commit(p, c) ==
  /\ running
  /\ c \in Window(p)
  /\ \A d \in (watermark[p] + 1)..c : Complete(p, d)
  /\ \A i \in seen[p] : log[i].cp <= c
  /\ IF p \in ObjectPipelines
       THEN /\ table' = [table EXCEPT ![p] = Applied(table[p], batch[p])]
            /\ batch' = [batch EXCEPT ![p] = EmptyBatch]
            /\ UNCHANGED <<txRows, txBatch>>
       ELSE /\ txRows' = txRows \cup txBatch   \* ON CONFLICT DO NOTHING
            /\ txBatch' = {}
            /\ UNCHANGED <<table, batch>>
  /\ watermark' = [watermark EXCEPT ![p] = c]
  /\ seen' = [seen EXCEPT ![p] = {}]
  /\ UNCHANGED <<log, sealed, running, crashes>>

-----------------------------------------------------------------------------
(* The process.                                                            *)

\* main returns an error (or the host dies): everything in memory is lost.
Crash ==
  /\ running
  /\ crashes < MaxCrashes
  /\ running' = FALSE
  /\ crashes' = crashes + 1
  /\ seen' = [p \in Pipelines |-> {}]
  /\ batch' = [p \in ObjectPipelines |-> EmptyBatch]
  /\ txBatch' = {}
  /\ UNCHANGED ledgerVars

\* run-live.ps1 starts the executable again; every pipeline resumes from
\* its own watermark, --first-checkpoint notwithstanding.
Restart ==
  /\ ~ running
  /\ running' = TRUE
  /\ UNCHANGED <<ledgerVars, processVars, crashes>>

ChainGrows ==
  /\ Execute \/ Seal
  /\ UNCHANGED <<watermark, table, txRows, running, processVars, crashes>>

Next ==
  \/ ChainGrows
  \/ \E p \in Pipelines, i \in TxIds : Feed(p, i)
  \/ \E p \in Pipelines : \E c \in Window(p) : Commit(p, c)
  \/ Crash
  \/ Restart

Spec == Init /\ [][Next]_vars

\* The runner restarts a crashed process, and the framework's tasks keep
\* feeding and committing while it is up.  The chain may stop at any time.
Fairness ==
  /\ WF_vars(Restart)
  /\ \A p \in Pipelines :
       /\ WF_vars(\E i \in TxIds : Feed(p, i))
       /\ WF_vars(\E c \in Window(p) : Commit(p, c))

FairSpec == Spec /\ Fairness

-----------------------------------------------------------------------------
Ledger == INSTANCE LedgerView

\* Every table is exactly the chain's state at its pipeline's watermark:
\* whatever the batch boundaries, the order checkpoints reached the batch
\* in, and the crashes and replays in between (handlers.rs:153-156, the
\* balances view's "always-consistent").
TablesMatchWatermark ==
  /\ \A p \in ObjectPipelines : Ledger!IsViewAt(p, watermark[p], table[p])
  /\ "transactions" \in Pipelines =>
       txRows = Ledger!Indexed(watermark["transactions"])

\* change is what the newest transaction of T that concerns o says of it.
IsNewest(p, o, T, slot) ==
  IF slot = NoSlot
    THEN \A i \in T : ~ Emits(p, i, o)
    ELSE \E i \in T : /\ Emits(p, i, o)
                     /\ slot = Change(i, o)
                     /\ \A j \in T : Emits(p, j, o) => j <= i

\* A commit batch holds, for every object, the newest of the changes fed
\* into it, in whatever order its checkpoints came (CoinBatch::observe), and
\* only sealed checkpoints beyond the watermark are in it.
BatchHoldsNewest ==
  /\ \A p \in Pipelines : \A i \in seen[p] :
       watermark[p] < log[i].cp /\ log[i].cp <= sealed
  /\ \A p \in ObjectPipelines, o \in Objects :
       IsNewest(p, o, seen[p], batch[p][o])
  /\ "transactions" \in Pipelines => txBatch = seen["transactions"]

\* Seen by a reader of the database, the indexer is the abstract ledger.
RefinesLedger == Ledger!LedgerSpec

\* Every sealed checkpoint reaches every table, crashes notwithstanding.
CatchesUp ==
  \A p \in Pipelines : \A c \in 1..MaxCheckpoints :
    sealed >= c ~> watermark[p] >= c
=============================================================================
