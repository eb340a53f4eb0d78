---------------------------- MODULE IndexerProofs ----------------------------
(***************************************************************************)
(* The indexer's tables are the chain's state at their watermarks, for any *)
(* objects, wallets, pipelines, batch sizes and bounds.                    *)
(*                                                                         *)
(* The strengthening of TablesMatchWatermark is IInv: versions and         *)
(* checkpoint numbers grow along the log (ChainInv), no table is ahead of  *)
(* the sealed chain (WatermarkInv), and each commit batch holds the newest *)
(* change it was fed per object (BatchHoldsNewest).                        *)
(***************************************************************************)
EXTENDS Indexer, TLAPS

USE DEF ObjectPipelines

\* Along the log checkpoint numbers never fall, and the versions a single
\* object is given rise.
ChainInv ==
  /\ \A i \in TxIds : log[i].cp <= sealed + 1
  /\ \A i, j \in TxIds : i < j => log[i].cp <= log[j].cp
  /\ \A i, j \in TxIds : \A o \in Objects :
       i < j /\ Touches(i, o) /\ Touches(j, o) => log[i].ver < log[j].ver

\* A pipeline that has committed is behind the sealed chain.
WatermarkInv ==
  \A p \in Pipelines :
    /\ FirstCheckpoint - 1 <= watermark[p]
    /\ watermark[p] <= sealed \/ watermark[p] = FirstCheckpoint - 1

IInv ==
  /\ TypeOK
  /\ ChainInv
  /\ WatermarkInv
  /\ BatchHoldsNewest
  /\ TablesMatchWatermark

-----------------------------------------------------------------------------
(* Facts about the log.                                                    *)

\* Every transaction of the log has its fields.
LEMMA LogEntry ==
  ASSUME TypeOK, NEW i \in TxIds
  PROVE  /\ i \in Nat \ {0}
         /\ log[i] \in Tx
         /\ log[i].cp \in Nat \ {0} /\ log[i].ver \in Nat \ {0}
         /\ \A o \in Objects : log[i].eff[o] \in After \cup {Untouched}
<1>1. log \in Seq(Tx) /\ Len(log) \in Nat
  BY DEF TypeOK, ChainTypeOK
<1>2. i \in 1..Len(log)
  BY DEF TxIds
<1>3. log[i] \in Tx
  BY <1>1, <1>2
<1>. QED  BY <1>1, <1>2, <1>3 DEF Tx, Effects

\* A transaction is appended; the others stay where they are.
LEMMA ExecuteAppends ==
  ASSUME TypeOK, Execute
  PROVE  /\ log' \in Seq(Tx) /\ sealed' = sealed
         /\ Len(log') = Len(log) + 1
         /\ TxIds' = TxIds \cup {Len(log) + 1}
         /\ \A i \in TxIds : log'[i] = log[i]
         /\ log'[Len(log) + 1].cp = sealed + 1
         /\ \A i \in TxIds, o \in Objects :
              Touches(i, o) /\ log'[Len(log) + 1].eff[o] # Untouched
                => log[i].ver < log'[Len(log) + 1].ver
<1>1. PICK eff \in Effects, v \in 1..(Len(log) + 1) :
        /\ LamportVersion(eff, v)
        /\ log' = Append(log, [cp |-> sealed + 1, ver |-> v, eff |-> eff])
  BY DEF Execute
<1> DEFINE tx == [cp |-> sealed + 1, ver |-> v, eff |-> eff]
<1>2. tx \in Tx
  BY <1>1 DEF Tx, TypeOK, ChainTypeOK
<1>3. log \in Seq(Tx) /\ Len(log) \in Nat
  BY DEF TypeOK, ChainTypeOK
<1>4. log' \in Seq(Tx) /\ Len(log') = Len(log) + 1
  BY <1>1, <1>2, <1>3
<1>5. \A i \in 1..Len(log) : log'[i] = log[i]
  BY <1>1, <1>2, <1>3
<1>6. log'[Len(log) + 1] = tx
  BY <1>1, <1>2, <1>3
<1>7. TxIds' = TxIds \cup {Len(log) + 1}
  BY <1>3, <1>4 DEF TxIds
<1>8. \A i \in TxIds, o \in Objects :
        Touches(i, o) /\ eff[o] # Untouched => log[i].ver < v
  BY <1>1 DEF LamportVersion, Exceeds
<1>. QED  BY <1>4, <1>5, <1>6, <1>7, <1>8 DEF TxIds, Execute

\* What a batch reports, it reports of an object the transaction touched.
LEMMA EmitsTouches ==
  ASSUME NEW p, NEW i, NEW o, Emits(p, i, o)
  PROVE  Touches(i, o) /\ (o \in Tracked(p) \/ log[i].eff[o] = Gone)
BY AfterAssumption DEF Emits, Touches, After

\* What is said of transactions that stay in place stays true.
LEMMA NewestFrame ==
  ASSUME NEW p, NEW o, NEW T, NEW slot,
         \A i \in T : log'[i] = log[i],
         IsNewest(p, o, T, slot)
  PROVE  IsNewest(p, o, T, slot)'
<1>1. \A i \in T : Emits(p, i, o)' <=> Emits(p, i, o)
  BY DEF Emits, Touches, Tracked
<1>2. \A i \in T : Change(i, o)' = Change(i, o)
  BY DEF Change
<1>3. CASE slot = NoSlot
  BY <1>1, <1>3 DEF IsNewest
<1>4. CASE slot # NoSlot
  <2>1. PICK i \in T : /\ Emits(p, i, o) /\ slot = Change(i, o)
                       /\ \A j \in T : Emits(p, j, o) => j <= i
    BY <1>4 DEF IsNewest
  <2>. QED  BY <1>1, <1>2, <1>4, <2>1 DEF IsNewest
<1>. QED  BY <1>3, <1>4

\* TablesMatchWatermark reads the log and the database, nothing else.
LEMMA TablesFrame ==
  ASSUME TablesMatchWatermark, UNCHANGED <<log, watermark, table, txRows>>
  PROVE  TablesMatchWatermark'
<1>1. Ledger!TxIds' = Ledger!TxIds
  BY DEF Ledger!TxIds
<1>2. \A k : Ledger!Indexed(k)' = Ledger!Indexed(k)
  BY <1>1 DEF Ledger!Indexed
<1>3. \A p, o, T, r : Ledger!IsRowAfter(p, o, T, r)
                       <=> Ledger!IsRowAfter(p, o, T, r)'
  BY DEF Ledger!IsRowAfter, Ledger!RowAfter, Ledger!Touches, Ledger!Tracked
<1>. QED
  BY <1>2, <1>3 DEF TablesMatchWatermark, Ledger!IsViewAt

\* A change is a slot of the batch.
LEMMA ChangeType ==
  ASSUME TypeOK, NEW i \in TxIds, NEW o \in Objects
  PROVE  Change(i, o) \in Slot
BY LogEntry DEF Change, Slot, Row

\* So is what observe leaves behind.
LEMMA ObserveType ==
  ASSUME NEW s \in Slot \cup {NoSlot}, NEW c \in Slot
  PROVE  Observe(s, c) \in Slot
BY DEF Observe

\* A table stays a table when a batch is applied.
LEMMA AppliedType ==
  ASSUME NEW t \in [Objects -> Row \cup {NoRow}],
         NEW b \in [Objects -> Slot \cup {NoSlot}]
  PROVE  Applied(t, b) \in [Objects -> Row \cup {NoRow}]
BY DEF Applied, Deletes, Upserts, Slot

-----------------------------------------------------------------------------
(* The invariant holds initially.                                          *)

\* Nothing is indexed, nothing is in a batch.
LEMMA InitIInv == Init => IInv
<1> SUFFICES ASSUME Init PROVE IInv
  OBVIOUS
<1> USE DEF Init, ChainInit
<1>1. TypeOK
  BY FirstAssumption DEF TypeOK, ChainTypeOK, EmptyBatch, TxIds
<1>2. TxIds = {}
  BY DEF TxIds
<1>3. ChainInv
  BY <1>2 DEF ChainInv
<1>4. WatermarkInv
  BY FirstAssumption DEF WatermarkInv
<1>5. BatchHoldsNewest
  BY DEF BatchHoldsNewest, IsNewest, EmptyBatch
<1>6. TablesMatchWatermark
  BY <1>2 DEF TablesMatchWatermark, Ledger!IsViewAt, Ledger!IsRowAfter,
              Ledger!Indexed, Ledger!TxIds
<1>. QED  BY <1>1, <1>3, <1>4, <1>5, <1>6 DEF IInv

-----------------------------------------------------------------------------
(* The chain grows.                                                        *)

\* A transaction in the open checkpoint concerns neither table nor batch.
LEMMA ExecuteIInv ==
  ASSUME IInv, Execute,
         UNCHANGED <<watermark, table, txRows, running, processVars, crashes>>
  PROVE  IInv'
<1> DEFINE n == Len(log) + 1
<1> USE DEF IInv, processVars
<1>1. Len(log) \in Nat /\ sealed \in Nat /\ n \notin TxIds
  BY DEF TypeOK, ChainTypeOK, TxIds
<1>2. /\ log' \in Seq(Tx) /\ sealed' = sealed
      /\ TxIds' = TxIds \cup {n}
      /\ \A i \in TxIds : log'[i] = log[i]
      /\ log'[n].cp = sealed + 1
      /\ \A i \in TxIds, o \in Objects :
           Touches(i, o) /\ log'[n].eff[o] # Untouched
             => log[i].ver < log'[n].ver
  BY ExecuteAppends
<1>3. \A i \in TxIds : i < n
  BY <1>1 DEF TxIds
<1>4. TypeOK'
  BY <1>2 DEF TypeOK, ChainTypeOK
<1>5. ChainInv'
  <2>1. \A i \in TxIds' : log'[i].cp <= sealed' + 1
    BY <1>1, <1>2 DEF ChainInv
  <2>2. \A i, j \in TxIds' : i < j => log'[i].cp <= log'[j].cp
    BY <1>1, <1>2, <1>3 DEF ChainInv, TxIds
  <2>3. \A i, j \in TxIds' : \A o \in Objects :
          i < j /\ Touches(i, o)' /\ Touches(j, o)'
            => log'[i].ver < log'[j].ver
    BY <1>1, <1>2, <1>3, SMTT(30) DEF ChainInv, Touches, TxIds
  <2>. QED  BY <2>1, <2>2, <2>3 DEF ChainInv
<1>6. WatermarkInv'
  BY <1>2 DEF WatermarkInv
<1>7. BatchHoldsNewest'
  <2>1. \A p \in Pipelines : seen[p] \subseteq TxIds
    BY DEF TypeOK
  <2>2. \A p \in Pipelines : \A i \in seen[p] :
          watermark'[p] < log'[i].cp /\ log'[i].cp <= sealed'
    BY <1>2, <2>1 DEF BatchHoldsNewest
  <2>3. ASSUME NEW p \in ObjectPipelines, NEW o \in Objects
        PROVE  IsNewest(p, o, seen[p], batch[p][o])'
    <3>1. \A i \in seen[p] : log'[i] = log[i]
      BY <1>2, <2>1
    <3>2. IsNewest(p, o, seen[p], batch[p][o])
      BY DEF BatchHoldsNewest
    <3>. QED  BY <3>1, <3>2, NewestFrame DEF IsNewest, Emits, Change, Touches
  <2>. QED  BY <2>2, <2>3 DEF BatchHoldsNewest
<1>8. TablesMatchWatermark'
  <2>1. ASSUME NEW p \in Pipelines
        PROVE  Ledger!Indexed(watermark[p])' = Ledger!Indexed(watermark[p])
    <3>1. ~ (FirstCheckpoint <= sealed + 1 /\ sealed + 1 <= watermark[p])
      BY <1>1, FirstAssumption DEF WatermarkInv, TypeOK
    <3>2. Ledger!TxIds = TxIds /\ Ledger!TxIds' = TxIds'
      BY DEF Ledger!TxIds, TxIds
    <3>. QED  BY <1>1, <1>2, <3>1, <3>2 DEF Ledger!Indexed
  <2>2. \A k : Ledger!Indexed(k) \subseteq TxIds
    BY DEF Ledger!Indexed, Ledger!TxIds, TxIds
  <2>3. ASSUME NEW p \in ObjectPipelines, NEW o \in Objects
        PROVE  Ledger!IsRowAfter(p, o, Ledger!Indexed(watermark[p]),
                                 table[p][o])'
    <3> DEFINE T == Ledger!Indexed(watermark[p])
    <3>1. Ledger!IsRowAfter(p, o, T, table[p][o])
      BY DEF TablesMatchWatermark, Ledger!IsViewAt
    <3>2. T' = T /\ T \subseteq TxIds
      BY <2>1, <2>2
    <3>3. \A i \in T : /\ Ledger!Touches(i, o)' <=> Ledger!Touches(i, o)
                       /\ Ledger!RowAfter(i, o)' = Ledger!RowAfter(i, o)
      BY <1>2, <3>2 DEF Ledger!Touches, Ledger!RowAfter
    <3> HIDE DEF T
    <3>4. Ledger!IsRowAfter(p, o, T, table[p][o])'
      BY <3>1, <3>2, <3>3 DEF Ledger!IsRowAfter, Ledger!Tracked
    <3>. QED  BY <3>4 DEF T
  <2>. QED  BY <2>1, <2>3 DEF TablesMatchWatermark, Ledger!IsViewAt
<1>. QED  BY <1>4, <1>5, <1>6, <1>7, <1>8

\* Sealing a checkpoint adds nothing to table or batch.
LEMMA SealIInv ==
  ASSUME IInv, Seal,
         UNCHANGED <<watermark, table, txRows, running, processVars, crashes>>
  PROVE  IInv'
<1> USE DEF IInv, Seal, processVars
<1>1. sealed \in Nat /\ sealed' = sealed + 1 /\ TxIds' = TxIds
  BY DEF TypeOK, ChainTypeOK, TxIds
<1>2. TypeOK'
  BY <1>1 DEF TypeOK, ChainTypeOK
<1>3. ChainInv'
  BY <1>1, LogEntry DEF ChainInv, Touches
<1>4. WatermarkInv'
  BY <1>1 DEF WatermarkInv, TypeOK
<1>5. BatchHoldsNewest'
  <2>1. \A p \in Pipelines : \A i \in seen[p] : i \in TxIds
    BY DEF TypeOK
  <2>2. \A p \in Pipelines : \A i \in seen[p] :
          watermark'[p] < log'[i].cp /\ log'[i].cp <= sealed'
    BY <1>1, <2>1, LogEntry DEF BatchHoldsNewest
  <2>. QED
    BY <2>2 DEF BatchHoldsNewest, IsNewest, Emits, Change, Touches
<1>6. TablesMatchWatermark'
  BY TablesFrame
<1>. QED  BY <1>2, <1>3, <1>4, <1>5, <1>6

-----------------------------------------------------------------------------
(* A transaction is fed into a batch.                                      *)

\* The newest change of an object is that of the transaction fed, or the
\* one the batch had.
LEMMA FeedIInv ==
  ASSUME IInv, NEW p \in Pipelines, NEW i \in TxIds, Feed(p, i)
  PROVE  IInv'
<1> USE DEF IInv, Feed
<1>1. TypeOK'
  <2>1. seen' \in [Pipelines -> SUBSET TxIds]
    BY DEF TypeOK
  <2>2. CASE p \in ObjectPipelines
    <3>1. ASSUME NEW o \in Objects
          PROVE  Observe(batch[p][o], Change(i, o)) \in Slot
      BY <2>2, ChangeType, ObserveType DEF TypeOK
    <3>2. batch'[p] \in [Objects -> Slot \cup {NoSlot}]
      BY <2>2, <3>1 DEF TypeOK
    <3>. QED  BY <2>1, <2>2, <3>2 DEF TypeOK, ChainTypeOK, TxIds
  <2>3. CASE p \notin ObjectPipelines
    BY <2>1, <2>3 DEF TypeOK, ChainTypeOK, TxIds
  <2>. QED  BY <2>2, <2>3
<1>2. ChainInv'
  BY DEF ChainInv, TxIds, Touches
<1>3. WatermarkInv'
  BY DEF WatermarkInv
<1>4. BatchHoldsNewest'
  <2>1. watermark[p] < log[i].cp /\ log[i].cp <= sealed
    BY LogEntry DEF Window, TypeOK, ChainTypeOK
  <2>2. \A q \in Pipelines : \A j \in seen'[q] :
          watermark'[q] < log'[j].cp /\ log'[j].cp <= sealed'
    BY <2>1 DEF BatchHoldsNewest, TypeOK
  <2>3. ASSUME NEW q \in ObjectPipelines, NEW o \in Objects
        PROVE  IsNewest(q, o, seen[q], batch[q][o])'
    <3> DEFINE S == seen[q]
               b == batch[q][o]
    <3>1. IsNewest(q, o, S, b)
      BY DEF BatchHoldsNewest
    <3>2. S \subseteq TxIds /\ b \in Slot \cup {NoSlot}
      BY DEF TypeOK
    <3>3. CASE q # p
      <4>1. S' = S /\ b' = b
        BY <3>3 DEF TypeOK
      <4> HIDE DEF S, b
      <4>2. IsNewest(q, o, S, b)'
        BY <3>1, <4>1 DEF IsNewest, Emits, Change, Touches, Tracked
      <4>. QED  BY <4>2 DEF S, b
    <3>4. CASE q = p /\ ~ Emits(p, i, o)
      <4>1. S' = S \cup {i} /\ b' = b
        BY <3>4 DEF TypeOK
      <4> HIDE DEF S, b
      <4>2. IsNewest(q, o, S, b)'
        BY <3>1, <3>4, <4>1 DEF IsNewest, Emits, Change, Touches, Tracked
      <4>. QED  BY <4>2 DEF S, b
    <3>5. CASE q = p /\ Emits(p, i, o)
      <4>1. S' = S \cup {i} /\ b' = Observe(b, Change(i, o))
        BY <3>5 DEF TypeOK
      <4>2. \A j \in S : Emits(p, j, o) =>
              (j < i /\ log[j].ver < log[i].ver)
              \/ (i < j /\ log[i].ver < log[j].ver)
        <5>. SUFFICES ASSUME NEW j \in S, Emits(p, j, o)
                      PROVE  (j < i /\ log[j].ver < log[i].ver)
                             \/ (i < j /\ log[i].ver < log[j].ver)
          OBVIOUS
        <5>1. j \in TxIds /\ j # i /\ i \in Nat /\ j \in Nat
          BY <3>2, <3>5, LogEntry DEF TxIds
        <5>2. Touches(i, o) /\ Touches(j, o)
          BY <3>5, EmitsTouches
        <5>. QED  BY <5>1, <5>2 DEF ChainInv
      <4>3. \A j \in TxIds : log[j].ver \in Nat /\ j \in Nat
        BY LogEntry
      <4>4. Change(i, o) # NoSlot /\ Change(i, o).ver = log[i].ver
        BY ChangeType, SlotAssumption DEF Change
      <4> HIDE DEF S, b
      <4>5. IsNewest(q, o, S', b')
        <5>1. CASE b = NoSlot
          BY <3>1, <3>5, <4>1, <4>3, <4>4, <5>1 DEF IsNewest, Observe
        <5>2. CASE b # NoSlot
          <6>1. PICK k \in S : /\ Emits(p, k, o) /\ b = Change(k, o)
                               /\ \A j \in S : Emits(p, j, o) => j <= k
            BY <3>1, <3>5, <5>2 DEF IsNewest
          <6>2. b.ver = log[k].ver /\ k \in TxIds
            BY <3>2, <6>1 DEF Change
          <6>3. CASE k < i
            <7>1. b' = Change(i, o)
              BY <3>2, <4>1, <4>2, <4>3, <4>4, <6>1, <6>2, <6>3, <5>2 DEF Observe
            <7>2. \A j \in S' : Emits(p, j, o) => j <= i
              BY <3>2, <4>1, <4>3, <6>1, <6>2, <6>3
            <7>. QED  BY <3>5, <4>1, <4>4, <7>1, <7>2 DEF IsNewest
          <6>4. CASE i < k
            <7>1. b' = b
              BY <3>2, <4>1, <4>2, <4>3, <4>4, <6>1, <6>2, <6>4, <5>2 DEF Observe
            <7>2. k \in S' /\ \A j \in S' : Emits(p, j, o) => j <= k
              BY <4>1, <4>3, <6>1, <6>2, <6>4
            <7>. QED  BY <3>5, <5>2, <6>1, <7>1, <7>2 DEF IsNewest
          <6>. QED  BY <4>2, <6>1, <6>3, <6>4
        <5>. QED  BY <5>1, <5>2
      <4>6. IsNewest(q, o, S, b)'
        BY <4>5 DEF IsNewest, Emits, Change, Touches, Tracked
      <4>. QED  BY <4>6 DEF S, b
    <3>. QED  BY <3>3, <3>4, <3>5
  <2>4. "transactions" \in Pipelines => txBatch' = seen'["transactions"]
    BY DEF BatchHoldsNewest, TypeOK
  <2>. QED  BY <2>2, <2>3, <2>4 DEF BatchHoldsNewest
<1>5. TablesMatchWatermark'
  BY TablesFrame
<1>. QED  BY <1>1, <1>2, <1>3, <1>4, <1>5

-----------------------------------------------------------------------------
(* A batch is committed.                                                   *)

\* Checkpoint c's transactions are those the table had and those of the batch.
LEMMA CommitIndexed ==
  ASSUME IInv, NEW p \in Pipelines, NEW c \in Window(p), Commit(p, c)
  PROVE  /\ Ledger!Indexed(c) = Ledger!Indexed(watermark[p]) \cup seen[p]
         /\ \A i \in Ledger!Indexed(watermark[p]), j \in seen[p] : i < j
<1> USE DEF IInv
<1>1. /\ watermark[p] \in Nat /\ sealed \in Nat /\ c \in Nat
      /\ watermark[p] < c /\ FirstCheckpoint - 1 <= watermark[p]
      /\ FirstCheckpoint \in Nat
  BY FirstAssumption DEF Window, TypeOK, ChainTypeOK, WatermarkInv
<1>2. \A i \in TxIds : log[i].cp \in Nat /\ i \in Nat
  BY LogEntry
<1>3. seen[p] \subseteq TxIds
  BY DEF TypeOK
<1>4. \A i \in seen[p] : watermark[p] < log[i].cp /\ log[i].cp <= c
  BY DEF BatchHoldsNewest, Commit
<1>5. \A i \in TxIds : watermark[p] < log[i].cp /\ log[i].cp <= c
                       => i \in seen[p]
  BY <1>1, <1>2 DEF Commit, Complete
<1>6. Ledger!Indexed(c) = Ledger!Indexed(watermark[p]) \cup seen[p]
  BY <1>1, <1>2, <1>3, <1>4, <1>5 DEF Ledger!Indexed, Ledger!TxIds, TxIds
<1>7. ASSUME NEW i \in Ledger!Indexed(watermark[p]), NEW j \in seen[p]
      PROVE  i < j
  <2>1. i \in TxIds /\ log[i].cp <= watermark[p]
    BY DEF Ledger!Indexed, Ledger!TxIds, TxIds
  <2>2. j \in TxIds /\ watermark[p] < log[j].cp
    BY <1>3, <1>4
  <2>3. ~ (log[j].cp <= log[i].cp)
    BY <1>1, <1>2, <2>1, <2>2
  <2>. QED  BY <1>2, <2>1, <2>2, <2>3 DEF ChainInv
<1>. QED  BY <1>6, <1>7

\* One object: the batch's newest change, or the row it had.
LEMMA CommitRow ==
  ASSUME IInv, NEW p \in ObjectPipelines, NEW c \in Window(p), Commit(p, c),
         NEW o \in Objects
  PROVE  Ledger!IsRowAfter(p, o, Ledger!Indexed(c),
                           Applied(table[p], batch[p])[o])
<1> DEFINE T == Ledger!Indexed(watermark[p])
           S == seen[p]
           b == batch[p][o]
           row == Applied(table[p], batch[p])[o]
<1> USE DEF IInv
<1>1. /\ Ledger!Indexed(c) = T \cup S
      /\ \A i \in T, j \in S : i < j
  BY CommitIndexed
<1>2. Ledger!IsRowAfter(p, o, T, table[p][o])
  BY DEF TablesMatchWatermark, Ledger!IsViewAt
<1>3. IsNewest(p, o, S, b)
  BY DEF BatchHoldsNewest
<1>4. T \subseteq TxIds /\ S \subseteq TxIds
  BY DEF TypeOK, Ledger!Indexed, Ledger!TxIds, TxIds
<1>5. row = IF b = NoSlot THEN table[p][o] ELSE b.row
  BY DEF Applied, Deletes, Upserts
<1>6. \A i \in TxIds : i \in Nat
  BY LogEntry
<1>7. Ledger!Tracked(p) = Tracked(p)
  BY DEF Ledger!Tracked, Tracked
<1>8. \A i : Ledger!Touches(i, o) <=> Touches(i, o)
  BY DEF Ledger!Touches, Touches
<1>9. \A i : Change(i, o).row = Ledger!RowAfter(i, o)
  BY DEF Change, Ledger!RowAfter
<1> HIDE DEF T, S, b, row
<1>10. CASE b = NoSlot
  <2>1. \A i \in S : ~ Emits(p, i, o)
    BY <1>3, <1>10 DEF IsNewest
  <2>2. row = table[p][o]
    BY <1>5, <1>10
  <2>3. CASE o \notin Tracked(p)
    BY <1>2, <1>7, <2>2, <2>3 DEF Ledger!IsRowAfter, row
  <2>4. CASE o \in Tracked(p)
    <3>1. \A i \in S : ~ Touches(i, o)
      BY <2>1, <2>4 DEF Emits
    <3>2. Ledger!IsRowAfter(p, o, T \cup S, row)
      BY <1>2, <1>7, <1>8, <2>2, <2>4, <3>1 DEF Ledger!IsRowAfter
    <3>. QED  BY <1>1, <3>2 DEF row
  <2>. QED  BY <2>3, <2>4
<1>11. CASE b # NoSlot
  <2>1. PICK k \in S : /\ Emits(p, k, o) /\ b = Change(k, o)
                       /\ \A j \in S : Emits(p, j, o) => j <= k
    BY <1>3, <1>11 DEF IsNewest
  <2>2. row = Ledger!RowAfter(k, o)
    BY <1>5, <1>9, <1>11, <2>1
  <2>3. CASE o \notin Tracked(p)
    <3>1. log[k].eff[o] = Gone
      BY <2>1, <2>3 DEF Emits
    <3>2. row = NoRow
      BY <2>2, <3>1, AfterAssumption DEF Ledger!RowAfter
    <3>. QED  BY <1>7, <2>3, <3>2 DEF Ledger!IsRowAfter, row
  <2>4. CASE o \in Tracked(p)
    <3>1. Touches(k, o)
      BY <2>1, EmitsTouches
    <3>2. \A j \in T \cup S : Touches(j, o) => j <= k
      BY <1>1, <1>4, <1>6, <2>1, <2>4 DEF Emits
    <3>3. Ledger!IsRowAfter(p, o, T \cup S, row)
      BY <1>7, <1>8, <2>1, <2>2, <2>4, <3>1, <3>2 DEF Ledger!IsRowAfter
    <3>. QED  BY <1>1, <3>3 DEF row
  <2>. QED  BY <2>3, <2>4
<1>. QED  BY <1>10, <1>11

\* A commit leaves an empty batch and the tables at the new watermark.
LEMMA CommitIInv ==
  ASSUME IInv, NEW p \in Pipelines, NEW c \in Window(p), Commit(p, c)
  PROVE  IInv'
<1> USE DEF IInv, Commit
<1>1. c \in Nat /\ watermark[p] < c /\ c <= sealed
  BY DEF Window, TypeOK, ChainTypeOK
<1>2. TypeOK'
  <2>1. CASE p \in ObjectPipelines
    <3>1. Applied(table[p], batch[p]) \in [Objects -> Row \cup {NoRow}]
      BY <2>1, AppliedType DEF TypeOK
    <3>2. EmptyBatch \in [Objects -> Slot \cup {NoSlot}]
      BY DEF EmptyBatch
    <3>. QED
      BY <1>1, <2>1, <3>1, <3>2 DEF TypeOK, ChainTypeOK, TxIds
  <2>2. CASE p \notin ObjectPipelines
    BY <1>1, <2>2 DEF TypeOK, ChainTypeOK, TxIds
  <2>. QED  BY <2>1, <2>2
<1>3. ChainInv'
  BY DEF ChainInv, TxIds, Touches
<1>4. WatermarkInv'
  BY <1>1, FirstAssumption DEF WatermarkInv, TypeOK
<1>5. BatchHoldsNewest'
  <2>1. \A q \in Pipelines : \A j \in seen'[q] :
          watermark'[q] < log'[j].cp /\ log'[j].cp <= sealed'
    BY DEF BatchHoldsNewest, TypeOK
  <2>2. ASSUME NEW q \in ObjectPipelines, NEW o \in Objects
        PROVE  IsNewest(q, o, seen[q], batch[q][o])'
    <3>1. CASE q = p
      <4>1. seen'[q] = {} /\ batch'[q][o] = NoSlot
        BY <3>1 DEF TypeOK, EmptyBatch
      <4>. QED  BY <4>1 DEF IsNewest
    <3>2. CASE q # p
      <4> DEFINE S == seen[q]
                 b == batch[q][o]
      <4>1. S' = S /\ b' = b
        BY <3>2 DEF TypeOK
      <4>2. IsNewest(q, o, S, b)
        BY DEF BatchHoldsNewest
      <4> HIDE DEF S, b
      <4>3. IsNewest(q, o, S, b)'
        BY <4>1, <4>2 DEF IsNewest, Emits, Change, Touches, Tracked
      <4>. QED  BY <4>3 DEF S, b
    <3>. QED  BY <3>1, <3>2
  <2>3. "transactions" \in Pipelines => txBatch' = seen'["transactions"]
    BY DEF BatchHoldsNewest, TypeOK
  <2>. QED  BY <2>1, <2>2, <2>3 DEF BatchHoldsNewest
<1>6. TablesMatchWatermark'
  <2>1. \A k : Ledger!Indexed(k)' = Ledger!Indexed(k)
    BY DEF Ledger!Indexed, Ledger!TxIds
  <2>2. ASSUME NEW q \in ObjectPipelines, NEW o \in Objects
        PROVE  Ledger!IsRowAfter(q, o, Ledger!Indexed(watermark[q]),
                                 table[q][o])'
    <3> DEFINE T == Ledger!Indexed(watermark[q])
               r == table[q][o]
    <3>1. Ledger!IsRowAfter(q, o, T', r')
      <4>1. CASE q = p
        <5>1. watermark'[q] = c /\ r' = Applied(table[p], batch[p])[o]
          BY <4>1 DEF TypeOK
        <5>2. T' = Ledger!Indexed(c)
          BY <5>1 DEF Ledger!Indexed, Ledger!TxIds
        <5> HIDE DEF T, r
        <5>. QED  BY <4>1, <5>1, <5>2, CommitRow
      <4>2. CASE q # p
        <5>1. watermark'[q] = watermark[q] /\ r' = r
          BY <4>2 DEF TypeOK
        <5>2. T' = T
          BY <5>1 DEF Ledger!Indexed, Ledger!TxIds
        <5>3. Ledger!IsRowAfter(q, o, T, r)
          BY DEF TablesMatchWatermark, Ledger!IsViewAt
        <5> HIDE DEF T, r
        <5>. QED  BY <5>1, <5>2, <5>3
      <4>. QED  BY <4>1, <4>2
    <3> HIDE DEF T, r
    <3>2. Ledger!IsRowAfter(q, o, T, r)'
      BY <3>1 DEF Ledger!IsRowAfter, Ledger!RowAfter, Ledger!Touches,
                  Ledger!Tracked
    <3>. QED  BY <3>2 DEF T, r
  <2>3. "transactions" \in Pipelines =>
          txRows' = Ledger!Indexed(watermark["transactions"])'
    <3>1. CASE p = "transactions"
      <4>1. Ledger!Indexed(c) = Ledger!Indexed(watermark[p]) \cup seen[p]
        BY CommitIndexed
      <4>2. txRows' = Ledger!Indexed(c)
        BY <3>1, <4>1 DEF BatchHoldsNewest, TablesMatchWatermark
      <4>3. watermark'["transactions"] = c
        BY <3>1 DEF TypeOK
      <4>. QED  BY <4>2, <4>3 DEF Ledger!Indexed, Ledger!TxIds
    <3>2. CASE p # "transactions"
      BY <3>2 DEF TablesMatchWatermark, TypeOK, Ledger!Indexed, Ledger!TxIds
    <3>. QED  BY <3>1, <3>2
  <2>. QED  BY <2>2, <2>3 DEF TablesMatchWatermark, Ledger!IsViewAt
<1>. QED  BY <1>2, <1>3, <1>4, <1>5, <1>6

-----------------------------------------------------------------------------
(* The process stops and starts.                                           *)

\* A crash loses batches, never rows.
LEMMA CrashIInv ==
  ASSUME IInv, Crash
  PROVE  IInv'
<1> USE DEF IInv, Crash, ledgerVars
<1>1. TypeOK'
  <2>1. EmptyBatch \in [Objects -> Slot \cup {NoSlot}]
    BY DEF EmptyBatch
  <2>2. /\ seen' \in [Pipelines -> SUBSET TxIds']
        /\ batch' \in [ObjectPipelines -> [Objects -> Slot \cup {NoSlot}]]
        /\ crashes' \in Nat
    BY <2>1 DEF TypeOK
  <2>. QED  BY <2>2 DEF TypeOK, ChainTypeOK, TxIds
<1>2. ChainInv' /\ WatermarkInv'
  BY DEF ChainInv, WatermarkInv, TxIds, Touches
<1>3. BatchHoldsNewest'
  BY DEF BatchHoldsNewest, IsNewest, EmptyBatch
<1>4. TablesMatchWatermark'
  BY TablesFrame
<1>. QED  BY <1>1, <1>2, <1>3, <1>4

\* A step that touches neither chain, tables nor batches.
LEMMA StutterIInv ==
  ASSUME IInv, UNCHANGED <<ledgerVars, processVars>>,
         running' \in BOOLEAN, crashes' = crashes
  PROVE  IInv'
<1> USE DEF IInv, ledgerVars, processVars
<1>1. TypeOK'
  BY DEF TypeOK, ChainTypeOK, TxIds
<1>2. ChainInv' /\ WatermarkInv'
  BY DEF ChainInv, WatermarkInv, TxIds, Touches
<1>3. BatchHoldsNewest'
  BY DEF BatchHoldsNewest, IsNewest, Emits, Change, Touches
<1>4. TablesMatchWatermark'
  BY TablesFrame
<1>. QED  BY <1>1, <1>2, <1>3, <1>4

\* Every step keeps the invariant.
LEMMA NextIInv == IInv /\ [Next]_vars => IInv'
<1> SUFFICES ASSUME IInv, [Next]_vars PROVE IInv'
  OBVIOUS
<1>1. CASE ChainGrows
  BY <1>1, ExecuteIInv, SealIInv DEF ChainGrows
<1>2. ASSUME NEW p \in Pipelines, NEW i \in TxIds, Feed(p, i)
      PROVE  IInv'
  BY <1>2, FeedIInv
<1>3. ASSUME NEW p \in Pipelines, NEW c \in Window(p), Commit(p, c)
      PROVE  IInv'
  BY <1>3, CommitIInv
<1>4. CASE Crash
  BY <1>4, CrashIInv
<1>5. CASE Restart
  BY <1>5, StutterIInv DEF Restart
<1>6. CASE UNCHANGED vars
  BY <1>6, StutterIInv DEF vars, ledgerVars, processVars, IInv, TypeOK
<1>. QED  BY <1>1, <1>2, <1>3, <1>4, <1>5, <1>6 DEF Next

\* The invariant holds throughout.
LEMMA SpecIInv == Spec => []IInv
BY InitIInv, NextIInv, PTL DEF Spec

-----------------------------------------------------------------------------
(* The results.                                                            *)

\* Every variable of the indexer keeps its type (schema.rs, CoinBatch).
THEOREM TypeCorrect == Spec => []TypeOK
BY SpecIInv, PTL DEF IInv

\* coin_objects, positions and transactions are at all times what the chain
\* was at the watermark of their pipeline (the commits of handlers.rs).
THEOREM TablesAreExact == Spec => []TablesMatchWatermark
BY SpecIInv, PTL DEF IInv

\* A batch resolves every object to its newest change, in whatever order
\* checkpoints reach it (CoinBatch::observe, PositionBatch::observe).
THEOREM BatchesAreExact == Spec => []BatchHoldsNewest
BY SpecIInv, PTL DEF IInv

\* Every step is a step of the abstract ledger or changes nothing of it.
LEMMA StepRefines ==
  ASSUME IInv, IInv', [Next]_vars
  PROVE  [Ledger!LedgerNext]_(Ledger!ledgerVars)
<1> USE DEF Ledger!ledgerVars, ledgerVars
<1>1. CASE ChainGrows
  <2>1. Execute => Ledger!Execute
    BY DEF Execute, Ledger!Execute, LamportVersion, Ledger!LamportVersion,
           Exceeds, Ledger!Exceeds, TxIds, Ledger!TxIds, Touches,
           Ledger!Touches, Effects, Ledger!Effects, After, Ledger!After
  <2>2. Seal => Ledger!Seal
    BY DEF Seal, Ledger!Seal
  <2>. QED
    BY <1>1, <2>1, <2>2 DEF ChainGrows, Ledger!LedgerNext, Ledger!ChainStep
<1>2. ASSUME NEW p \in Pipelines, NEW i \in TxIds, Feed(p, i)
      PROVE  UNCHANGED ledgerVars
  BY <1>2 DEF Feed
<1>3. ASSUME NEW p \in Pipelines, NEW c \in Window(p), Commit(p, c)
      PROVE  Ledger!Advance(p)
  <2>1. /\ watermark \in [Pipelines -> Nat]
        /\ c \in Nat /\ watermark[p] < c /\ c <= sealed
    BY DEF Window, IInv, TypeOK, ChainTypeOK
  <2>2. watermark' = [watermark EXCEPT ![p] = c] /\ watermark'[p] = c
    BY <1>3, <2>1 DEF Commit
  <2>3. UNCHANGED <<log, sealed>>
    BY <1>3 DEF Commit
  <2>4. \A k : Ledger!Indexed(k)' = Ledger!Indexed(k)
    BY <2>3 DEF Ledger!Indexed, Ledger!TxIds
  <2>5. CASE p \in ObjectPipelines
    <3>1. /\ UNCHANGED txRows
          /\ table' = [table EXCEPT ![p] = Applied(table[p], batch[p])]
          /\ table'[p] = Applied(table[p], batch[p])
      BY <1>3, <2>5 DEF Commit, IInv, TypeOK
    <3>2. table'[p] \in [Objects -> Ledger!Row \cup {NoRow}]
      BY <2>5 DEF IInv, TypeOK, Row, Ledger!Row
    <3>3. Ledger!IsViewAt(p, c, table'[p])
      BY <1>3, <2>5, <3>1, CommitRow DEF Ledger!IsViewAt
    <3>. QED
      BY <2>1, <2>2, <2>3, <2>5, <3>1, <3>2, <3>3
         DEF Ledger!Advance, Ledger!ObjectPipelines
  <2>6. CASE p \notin ObjectPipelines
    <3>1. p = "transactions" /\ UNCHANGED table
      BY <1>3, <2>6 DEF Commit
    <3>2. txRows' = Ledger!Indexed(c)
      BY <1>3, <2>2, <2>4, <3>1 DEF IInv, TablesMatchWatermark
    <3>. QED
      BY <2>1, <2>2, <2>3, <2>6, <3>1, <3>2
         DEF Ledger!Advance, Ledger!ObjectPipelines
  <2>. QED  BY <2>5, <2>6
<1>4. CASE Crash \/ Restart \/ UNCHANGED vars
  BY <1>4 DEF Crash, Restart, vars
<1>. QED
  BY <1>1, <1>2, <1>3, <1>4 DEF Next, Ledger!LedgerNext

\* To a reader of the database, batching, arrival order, crashes and replays
\* are invisible: the indexer implements the abstract ledger.
THEOREM IndexerImplementsLedger == Spec => RefinesLedger
<1>1. Init => Ledger!LedgerInit
  BY DEF Init, Ledger!LedgerInit, ChainInit, Ledger!ChainInit,
         Ledger!ObjectPipelines
<1>2. IInv /\ IInv' /\ [Next]_vars => [Ledger!LedgerNext]_(Ledger!ledgerVars)
  BY StepRefines
<1>. QED
  BY <1>1, <1>2, SpecIInv, PTL DEF Spec, RefinesLedger, Ledger!LedgerSpec

=============================================================================
