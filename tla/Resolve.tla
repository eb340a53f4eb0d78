------------------------------ MODULE Resolve ------------------------------
(***************************************************************************)
(* positions/resolve.ts: resolveDefiPositions for one wallet.  The owned   *)
(* scan and every adapter run at the same time, each adapter against its   *)
(* timer; what came in time is merged by key, second chances and decoders  *)
(* follow, then prices, then the filters that drop placeholders.  None of  *)
(* it rejects: what fails is missing from the rows, and the rest goes on.  *)
(* The last step is positionsPayload.ts, which adds what the indexer knows.*)
(***************************************************************************)
EXTENDS Adapters, SequencesExt

CONSTANTS
  Wallets,  \* sets of positions that a wallet holds
  Pending,  \* an adapter that has not answered yet
  Holdings  \* the value of the wallet's coins, which may stand in for an LP

ASSUME WalletAssumption == Wallets \subseteq SUBSET Held /\ Holdings \in Nat

\* The adapters in the order of buildAdapters; rpc-owned comes first.
Adapter == <<"staking", "navi", "scoin", "scallop", "suilend", "ember", "bluefin",
             "bucket", "haedal", "alphalend", "deepbook", "momentum", "blockvision">>

\* What a position is like depends on who reads it: LPs are what the AMMs have,
\* with coins in them; Cetus's and Turbos's come from the owned scan or from
\* BlockVision; one at Navi is a deposit or a debt, one of sCoins a deposit.
\* Scallop has two of the adapters, and a pool is one protocol's.
ASSUME SourceAssumption ==
  /\ \A p \in Held : /\ p.adapter \in (ToSet(Adapter) \ {"blockvision"}) \cup {"cetus", "turbos"}
                     /\ p.cat = "amm_lp" <=> p.adapter \in {"cetus", "turbos", "momentum"}
                     /\ p.cat = "amm_lp" => DOMAIN p.legs # {} /\ \A c \in DOMAIN p.legs : p.legs[c] >= 0
                     /\ p.adapter \in {"cetus", "turbos"} => p.owned \/ p.bv
                     /\ p.adapter = "staking" => p.cat = "staking"
                     /\ p.adapter = "navi" =>
                          (\A c \in DOMAIN p.legs : p.legs[c] >= 0) \/ \A c \in DOMAIN p.legs : p.legs[c] < 0
                     /\ p.adapter = "scoin" => \A c \in DOMAIN p.legs : p.legs[c] >= 0
                     /\ p.protocol = "Scallop" => p.adapter \in {"scoin", "scallop"}
                     /\ "debts" \notin DOMAIN p.legs
  /\ \A p, q \in Held : p.pool = q.pool /\ p.pool # NoPool => p.adapter = q.adapter
  /\ Null \notin Int

VARIABLES
  wallet,  \* what the wallet holds
  scanned, \* the rows of the owned scan, or Pending
  list,    \* list[a]: the rows of adapter a, or Pending
  merged,  \* the rows the second phase works on
  phase,
  calm     \* every read was answered in time, every coin had its price

resolveVars == <<wallet, scanned, list, merged, phase, calm>>

Phases == {"fetching", "merged", "retried", "decoded", "answered", "paid"}

Configured(w) == \E p \in w : p.bv

\* The adapters the wallet has something for; the others answer [].
Asked(w) ==
  {a \in ToSet(Adapter) : Of(w, a) # {}} \cup IF Configured(w) THEN {"blockvision"} ELSE {}

ResolveInit ==
  /\ wallet \in Wallets
  /\ scanned = Pending
  /\ list = [a \in Asked(wallet) |-> Pending]
  /\ merged = {}
  /\ phase = "fetching"
  /\ calm = TRUE

-----------------------------------------------------------------------------
(* Merging.                                                                *)

Rank(row) == IF row.value = Null THEN -1 ELSE row.value

\* The details of both rows, the new one's where both have one.
Spread(old, new) ==
  [c \in DOMAIN old \cup DOMAIN new |-> IF c \in DOMAIN new THEN new[c] ELSE old[c]]

\* The richer row; on a tie a source with details overrides one without.
Better(old, new) ==
  IF Rank(new) > Rank(old) THEN new
  ELSE IF Rank(new) = Rank(old) /\ new.source # "rpc" /\ old.source # "native"
    THEN [new EXCEPT !.legs = Spread(old.legs, new.legs)]
    ELSE old

\* Faulty: rows are told apart by what they are about and where they are from.
PutBySource(rows, new) ==
  LET old == {r \in rows : r.key = new.key /\ r.source = new.source}
  IN (rows \ old) \cup IF old = {} THEN {new} ELSE {Better(r, new) : r \in old}

\* A row joins the rows before it, where one may have its key.
Put(rows, new) ==
  LET old == {r \in rows : r.key = new.key}
  IN (rows \ old) \cup IF old = {} THEN {new} ELSE {Better(r, new) : r \in old}

\* mergePositions: one row per key.
Merge(s) ==
  LET upTo[i \in 0 .. Len(s)] == IF i = 0 THEN {} ELSE Put(upTo[i - 1], s[i])
  IN upTo[Len(s)]

\* All that arrived, in the order of the adapters.
Lists ==
  LET upTo[i \in 0 .. Len(Adapter)] ==
        IF i = 0 THEN SetToSeq(scanned)
        ELSE IF Adapter[i] \in DOMAIN list THEN upTo[i - 1] \o SetToSeq(list[Adapter[i]])
        ELSE upTo[i - 1]
  IN upTo[Len(Adapter)]

-----------------------------------------------------------------------------
(* The filters.                                                            *)

Bare(row) == row.source = "rpc" /\ row.legs = NoLegs
Rich(row) == row.source # "rpc"

\* dropWeakRpcPlaceholders: one decoded LP drops every LP that is not.
DropWeakLp(rows) ==
  IF \E r \in rows : Rich(r) /\ r.cat = "amm_lp" /\ r.legs # NoLegs
    THEN {r \in rows : ~ (Bare(r) /\ r.cat = "amm_lp")}
    ELSE rows

NativeValued == {"AlphaFi", "DeepBook"}

\* Faulty: a bare cap is dropped whatever else the answer holds.
DropWeakLendingAll(rows) == {r \in rows : ~ (Bare(r) /\ r.cat = "lending" /\ r.value = Null)}

\* dropWeakRpcLendingPlaceholders: a bare cap goes if its protocol has a rich
\* row, and in any case if its protocol has an adapter that values it.
DropWeakLending(rows) ==
  {r \in rows :
    ~ /\ Bare(r) /\ r.cat = "lending" /\ r.value = Null
      /\ \/ r.protocol \in NativeValued
         \/ \E q \in rows : Rich(q) /\ q.cat = "lending" /\ q.protocol = r.protocol}

-----------------------------------------------------------------------------
\* What getDefiPositions may come back with (Discovery): rows of any of the
\* positions.  A filter or a page that failed, or lay beyond a cap, is passed
\* over, and a scan that fails altogether is one that found nothing.
Scans(w) == {OwnedRows(found) : found \in SUBSET w}

OwnedAnswers ==
  /\ scanned = Pending /\ phase = "fetching"
  /\ scanned' \in Scans(wallet)
  /\ calm' = (calm /\ scanned' = OwnedRows(wallet))
  /\ UNCHANGED <<wallet, list, merged, phase>>

Answer(a) ==
  /\ list[a] = Pending /\ phase = "fetching"
  /\ \E up \in SUBSET ReadsOf(a, wallet), priced \in SUBSET Coins :
       /\ list' = [list EXCEPT ![a] = RowsOf(a, wallet, up, priced)]
       /\ calm' = (calm /\ up = ReadsOf(a, wallet) /\ priced = Coins)
  /\ UNCHANGED <<wallet, scanned, merged, phase>>

\* Faulty: an adapter that is missing from the table of timeouts has no timer.
TimeOutListed(a) ==
  /\ list[a] = Pending /\ phase = "fetching" /\ a # "blockvision"
  /\ list' = [list EXCEPT ![a] = {}]
  /\ calm' = FALSE
  /\ UNCHANGED <<wallet, scanned, merged, phase>>

\* The timer comes first, or the adapter threw: its rows, if they come, are
\* not looked at any more.
TimeOut(a) ==
  /\ list[a] = Pending /\ phase = "fetching"
  /\ list' = [list EXCEPT ![a] = {}]
  /\ calm' = FALSE
  /\ UNCHANGED <<wallet, scanned, merged, phase>>

Collect ==
  /\ phase = "fetching" /\ scanned # Pending
  /\ \A a \in DOMAIN list : list[a] # Pending
  /\ merged' = Merge(Lists)
  /\ phase' = "merged"
  /\ UNCHANGED <<wallet, scanned, list, calm>>

\* If BlockVision gave nothing, Cetus is asked once more.
RetryBlockvision ==
  /\ phase = "merged"
  /\ IF Configured(wallet) /\ ~ \E r \in merged : r.source = "blockvision"
       THEN \E up \in SUBSET {List("blockvision")}, priced \in SUBSET Coins :
              /\ merged' = Merge(SetToSeq(merged) \o
                   SetToSeq(BlockvisionRows(Of(wallet, "cetus"), up, priced)))
              /\ calm' = (calm /\ up # {} /\ priced = Coins)
       ELSE UNCHANGED <<merged, calm>>
  /\ phase' = "retried"
  /\ UNCHANGED <<wallet, scanned, list>>

Clmm(w) == Of(w, "cetus") \cup Of(w, "turbos")

\* The decoders, a second merge, as a decoded row knows its pool, and the
\* first filter.
Decode ==
  /\ phase = "retried"
  /\ \E up \in SUBSET {Read(p) : p \in Clmm(wallet)} :
       /\ merged' = DropWeakLp(Merge(SetToSeq({Decoded(r, wallet, up) : r \in merged})))
       /\ calm' = (calm /\ \A p \in Clmm(wallet) : Read(p) \in up)
  /\ phase' = "decoded"
  /\ UNCHANGED <<wallet, scanned, list>>

\* Prices and the last filters: the answer.
Price ==
  /\ phase = "decoded"
  /\ \E priced \in SUBSET Coins :
       /\ merged' = DropWeakLending({Valued(r, priced) : r \in merged})
       /\ calm' = (calm /\ priced = Coins)
  /\ phase' = "answered"
  /\ UNCHANGED <<wallet, scanned, list>>

\* Something threw: what there was is answered, through the last filters.
Catch ==
  /\ phase \in {"merged", "retried", "decoded"}
  /\ merged' = DropWeakLending(merged)
  /\ phase' = "answered"
  /\ calm' = FALSE
  /\ UNCHANGED <<wallet, scanned, list>>

\* Whether a row's details say that its liquidity is 0: a wrapper's do not,
\* nor those of a Turbos NFT, before it is decoded.
ShownClosed(row) ==
  \E p \in wallet :
    p.id = row.of /\ Net(p.legs) = 0 /\ ~ ((p.wrapped \/ p.adapter = "turbos") /\ Bare(row))

\* An LP without a value is worth nothing if it is closed; the others are
\* given the value of the holdings if no LP has one of its own.
Estimated(rows, live) ==
  LET lp == {r \in rows : r.cat = "amm_lp"}
      closed == {r \in lp : r.value = Null /\ ShownClosed(r)}
      open == {r \in lp : r.value = Null} \ closed
  IN (rows \ (open \cup closed))
       \cup {[r EXCEPT !.value = 0] : r \in closed}
       \cup {[r EXCEPT !.value = IF lp = open THEN live ELSE Null] : r \in open}

\* buildPositionsPayload: the indexer, if it is up, adds the stakes that no
\* adapter found.
Payload ==
  /\ phase = "answered"
  /\ \E indexed \in SUBSET Of(wallet, "staking"), price \in BOOLEAN, live \in {Null, Holdings} :
       merged' = Estimated(merged, live) \cup
         {Row(p, <<p.id, "indexer">>, "indexer", NoLegs, IF price THEN Net(p.legs) ELSE Null) :
            p \in {q \in indexed : \A r \in merged : r.of # q.id}}
  /\ phase' = "paid"
  /\ UNCHANGED <<wallet, scanned, list, calm>>

-----------------------------------------------------------------------------
ResolveTypeOK ==
  /\ wallet \in Wallets
  /\ phase \in Phases
  /\ calm \in BOOLEAN
  /\ DOMAIN list = Asked(wallet)
  /\ \A r \in merged : \E p \in wallet : r.of = p.id /\ r.protocol = p.protocol

Replied == phase \in {"answered", "paid"}

\* What rows say together, and what they say a position is worth.
ValueOf(rs) == SumFunction([r \in {q \in rs : q.value # Null} |-> r.value])
RowsFor(p) == {r \in merged : r.of = p.id}
Worth(p) == ValueOf(RowsFor(p))

SamePool(p, q) == q # p /\ p.pool # NoPool /\ q.pool = p.pool

\* BlockVision's row of an obligation takes the key of its debts, so that the
\* collaterals have rows beside it and may count twice.
Doubled(p) == p.adapter = "scallop" /\ p.bv
AtMost(p) == IF Doubled(p) THEN 2 * Assets(p.legs) ELSE Assets(p.legs)

\* The rows of an LP that no source has a value for are given the holdings.
StoodIn(p) == phase = "paid" /\ p.cat = "amm_lp" /\ \A r \in RowsFor(p) : r.value = Holdings

\* However many sources report a position, and whatever fails, it is never
\* counted for more than its assets (an obligation that BlockVision has too,
\* for more than twice those), unless the holdings stand in for it.
NeverOverstated == Replied => \A p \in wallet : Worth(p) <= AtMost(p) \/ StoodIn(p)

\* The holdings stand in for a position that nothing is left of.
Resurrected(p) == p.cat = "amm_lp" /\ Net(p.legs) = 0 /\ Worth(p) = Holdings

\* Nor is a closed one at Turbos, which is not decoded, seen to be empty.
Revived(p) == p.adapter = "turbos" /\ Resurrected(p)

\* A row without a value ranks as -1: one that is worth less gives way to it.
Sunk(p) ==
  p.owned /\ Net(p.legs) < 0 /\ p.adapter \in {"ember", "bluefin", "bucket", "haedal", "alphalend"}

\* If every call was answered in time, each position is worth what it is,
\* debts included; only of those in one pool, which share a key, the answer
\* has no more than one, which may be a closed one; a closed one at Turbos
\* may be given the value of the holdings; and one whose adapter says that
\* more is owed than it has may be shown without a value.
Exact ==
  Replied /\ calm =>
    \A p \in wallet :
      \/ Worth(p) = Net(p.legs) \/ Doubled(p) \/ Revived(p)
      \/ Worth(p) = 0 /\ Sunk(p)
      \/ Worth(p) = 0 /\ \E q \in wallet : SamePool(p, q) /\ (Worth(q) = Net(q.legs) \/ Revived(q))

\* What the comment in buildPositionsPayload says of a closed LP, if nothing
\* failed: it holds nothing, and is not given the wallet's holdings.
ClosedWorthNothing == phase = "paid" /\ calm => \A p \in wallet : ~ Resurrected(p)

\* A position is among those that the owned scan came back with.
Detected(p) == \E r \in scanned : r.of = p.id

\* A position the owned scan came back with, however little of the wallet it
\* found, has a row, unless its kind of row gave way to a richer one of the
\* same pool, of another LP, or of its lending protocol, or its protocol is
\* left to an adapter that knows what it is worth.
EvidenceKept ==
  Replied =>
    \A p \in wallet :
      Detected(p) /\ ~ (\E r \in merged : r.of = p.id) =>
        \/ p.protocol \in NativeValued
        \/ \E r \in merged : Rich(r) /\ r.cat = p.cat /\ (p.cat = "amm_lp" \/ r.protocol = p.protocol)
        \/ \E q \in wallet, r \in merged : SamePool(p, q) /\ r.of = q.id

\* No two rows of the answer are the same position's to the merge.
OneRowPerKey == Replied => \A r, s \in merged : r.key = s.key => r = s
=============================================================================
