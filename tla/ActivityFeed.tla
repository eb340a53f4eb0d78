---------------------------- MODULE ActivityFeed ----------------------------
(***************************************************************************)
(* GET /api/v1/wallets/:address/activity read page by page                 *)
(* (apps/api/src/routes/activity.ts, lib/mainnetActivity.ts): one reader   *)
(* follows nextCursor from the first page to the last while the chain      *)
(* executes more of the wallet's transactions and the indexer commits      *)
(* them.  The table serves the pages if it has a row of the wallet when    *)
(* the first one is asked for; otherwise the RPC node serves all of them.  *)
(* A transaction stands for its position in the wallet's history.          *)
(***************************************************************************)
EXTENDS Integers, Sequences, FiniteSets

CONSTANTS
  Limit,         \* ?limit=
  FirstIndexed,  \* the first of the wallet's transactions the indexer saw
  MaxTx, MaxTs   \* bounds: transactions, distinct timestamps

ASSUME FeedAssumption ==
  /\ Limit \in Nat \ {0} /\ FirstIndexed \in Nat \ {0}
  /\ MaxTx \in Nat /\ MaxTs \in Nat

VARIABLES
  txs,      \* the wallet's transactions in the order of execution
  indexed,  \* the table holds FirstIndexed..indexed of them
  cursor,   \* nextCursor of the last page the reader got
  pages,    \* the pages the reader got
  known     \* transactions the source had when it served the first page

vars == <<txs, indexed, cursor, pages, known>>
chainVars == <<txs, indexed>>
readerVars == <<cursor, pages, known>>

\* "start": no page yet.  "db": timestamp_ms|tx_digest of a row.  "rpc": a
\* cursor of the RPC node, 0 for null.  The reader stops at "dbEnd" and
\* "rpcEnd" (nextCursor = null), "rpcError" the same after a failed call.
Kinds == {"start", "db", "rpc", "dbEnd", "rpcEnd", "rpcError"}
Cursor == [kind : Kinds, at : Nat]
At(kind, i) == [kind |-> kind, at |-> i]

TypeOK ==
  /\ txs \in Seq([ts : Nat, dg : Nat])
  /\ indexed \in 0..Len(txs)
  /\ cursor \in Cursor
  /\ pages \in Seq(SUBSET (1..Len(txs)))
  /\ known \subseteq 1..Len(txs)

Init ==
  /\ txs = <<>>
  /\ indexed = 0
  /\ cursor = At("start", 0)
  /\ pages = <<>>
  /\ known = {}

-----------------------------------------------------------------------------
(* The sources.                                                            *)

\* Timestamps do not decrease along the chain and may repeat; a digest is as
\* good as random, but never repeats.
Execute ==
  /\ Len(txs) < MaxTx
  /\ \E ts \in 1..MaxTs, dg \in 1..MaxTx :
       /\ \A i \in 1..Len(txs) : txs[i].ts <= ts /\ txs[i].dg # dg
       /\ txs' = Append(txs, [ts |-> ts, dg |-> dg])
  /\ UNCHANGED <<indexed, readerVars>>

\* A commit of the transactions pipeline.
Index ==
  /\ \E n \in (indexed + 1)..Len(txs) : indexed' = n
  /\ UNCHANGED <<txs, readerVars>>

Table == FirstIndexed..indexed

\* (timestamp_ms, tx_digest) of j is less than that of i.
Newer(i, j) ==
  \/ txs[i].ts > txs[j].ts
  \/ txs[i].ts = txs[j].ts /\ txs[i].dg > txs[j].dg

\* ORDER BY timestamp_ms DESC, tx_digest DESC LIMIT n.
Top(R, n) == {i \in R : Cardinality({j \in R : Newer(j, i)}) < n}

\* Faulty: <= instead of <.
RemainingInclusive == {i \in Table : cursor.kind = "db" => ~ Newer(i, cursor.at)}

\* WHERE sender = $1 [AND (timestamp_ms, tx_digest) < ($2, $3)].
Remaining == {i \in Table : cursor.kind = "db" => Newer(cursor.at, i)}

-----------------------------------------------------------------------------
(* The handler.                                                            *)

\* Faulty: the cursor is the extra row, of which nothing was delivered.
DbPageExtra ==
  /\ cursor.kind \in {"start", "db"}
  /\ LET page == Top(Remaining, Limit)
         hasMore == Cardinality(Remaining) > Limit
     IN /\ page # {} \/ cursor.kind = "db"
        /\ pages' = Append(pages, page)
        /\ IF hasMore
             THEN \E last \in Top(Remaining, Limit + 1) :
                    /\ \A i \in Top(Remaining, Limit + 1) : i = last \/ Newer(i, last)
                    /\ cursor' = At("db", last)
             ELSE cursor' = At("dbEnd", 0)
  /\ known' = IF pages = <<>> THEN Table ELSE known
  /\ UNCHANGED chainVars

\* LIMIT ${limit + 1}: hasMore if a row beyond the page came back; the cursor
\* is the last row of the page.
DbPage ==
  /\ cursor.kind \in {"start", "db"}
  /\ LET page == Top(Remaining, Limit)
         hasMore == Cardinality(Remaining) > Limit
     IN /\ page # {} \/ cursor.kind = "db"
        /\ pages' = Append(pages, page)
        /\ IF hasMore
             THEN \E last \in page :
                    /\ \A i \in page : i = last \/ Newer(i, last)
                    /\ cursor' = At("db", last)
             ELSE cursor' = At("dbEnd", 0)
  /\ known' = IF pages = <<>> THEN Table ELSE known
  /\ UNCHANGED chainVars

\* No row and no cursor: the handler awaits getOnDemandActivity next.
FallBack ==
  /\ cursor.kind = "start"
  /\ Table = {}
  /\ cursor' = At("rpc", 0)
  /\ UNCHANGED <<chainVars, pages, known>>

\* suix_queryTransactionBlocks, descending: up to n transactions older than
\* the cursor; its nextCursor is the last of them.
OnDemand(n) ==
  LET newest == IF cursor.at = 0 THEN Len(txs) ELSE cursor.at - 1
  IN {i \in 1..newest : i > newest - n}

\* Limit + 1 transactions are fetched, the last one is cut off to say that
\* there are more, and the cursor handed on is the node's own.
RpcPage ==
  /\ cursor.kind = "rpc"
  /\ LET got == OnDemand(Limit + 1)
         hasMore == Cardinality(got) > Limit
         page == IF hasMore THEN {i \in got : i - 1 \in got} ELSE got
     IN /\ pages' = Append(pages, page)
        /\ IF hasMore
             THEN \E next \in got :
                    /\ \A i \in got : next <= i
                    /\ cursor' = At("rpc", next)
             ELSE cursor' = At("rpcEnd", 0)
  /\ known' = IF pages = <<>> THEN 1..Len(txs) ELSE known
  /\ UNCHANGED chainVars

\* Every RPC node failed (defiRpcCall is null): an empty last page.
RpcPageFails ==
  /\ cursor.kind = "rpc"
  /\ pages' = Append(pages, {})
  /\ cursor' = At("rpcError", 0)
  /\ UNCHANGED <<chainVars, known>>

Read == DbPage \/ FallBack \/ RpcPage \/ RpcPageFails

Next == Execute \/ Index \/ Read

Spec == Init /\ [][Next]_vars

-----------------------------------------------------------------------------
Delivered == UNION {pages[k] : k \in 1..Len(pages)}

\* A page read from the table is newer, row for row, than every later page
\* (so no row comes twice), however many rows were inserted at the head
\* between the requests (activity.ts:26-27, "stable keyset pagination").
PagesDescend ==
  cursor.kind \in {"db", "dbEnd"} =>
    \A k \in 1..Len(pages) : \A l \in (k + 1)..Len(pages) :
      \A i \in pages[k], j \in pages[l] : Newer(i, j)

\* No row the table held when the first page was served is skipped: up to
\* the cursor, and at the end all of them, every such row was delivered.
NothingSkipped ==
  /\ cursor.kind = "db" =>
       \A i \in known : Newer(cursor.at, i) \/ i \in Delivered
  /\ cursor.kind = "dbEnd" => known \subseteq Delivered

\* Pages served by the RPC node descend the chain as well, none repeated.
RpcPagesDescend ==
  cursor.kind \in {"rpc", "rpcEnd"} =>
    \A k \in 1..Len(pages) : \A l \in (k + 1)..Len(pages) :
      \A i \in pages[k], j \in pages[l] : i > j

\* The same promise where the RPC node serves the pages ("newest first,
\* keyset-paginated", activity.ts:44): at the end of a feed with no failed
\* call, every transaction known at the start was delivered.
RpcNothingSkipped == cursor.kind = "rpcEnd" => known \subseteq Delivered
=============================================================================
