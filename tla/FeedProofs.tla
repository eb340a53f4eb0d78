----------------------------- MODULE FeedProofs -----------------------------
(***************************************************************************)
(* The activity feed.  Served from the table it neither skips nor repeats  *)
(* a row, for every page size, every history and every interleaving of     *)
(* requests with commits of the indexer; and the page's user, whatever he  *)
(* opens, turns, closes and asks for again, sees pages that join and have  *)
(* no row twice, for every size and number of pages.                       *)
(***************************************************************************)
EXTENDS FeedPages, ListLemmas

\* Digests identify transactions, so Newer is a total order.
Distinct ==
  \A i, j \in 1..Len(txs) : txs[i].dg = txs[j].dg => i = j

\* Where the cursor stands relative to what was delivered.
CursorInv ==
  /\ cursor.kind = "start" => pages = <<>> /\ known = {}
  /\ cursor.kind = "rpc" /\ cursor.at = 0 => pages = <<>>
  /\ cursor.kind = "rpc" =>
       /\ cursor.at <= Len(txs)
       /\ \A k \in 1..Len(pages) : \A i \in pages[k] : i > cursor.at
  /\ cursor.kind = "db" =>
       /\ pages # <<>>
       /\ cursor.at \in 1..Len(txs)
       /\ known \subseteq Table
       /\ \A k \in 1..Len(pages) : \A i \in pages[k] :
            i = cursor.at \/ Newer(i, cursor.at)

FeedInv ==
  /\ TypeOK
  /\ Distinct
  /\ CursorInv
  /\ PagesDescend
  /\ NothingSkipped
  /\ RpcPagesDescend

-----------------------------------------------------------------------------
(* The order and the top of a set of rows.                                 *)

\* Every transaction has a timestamp and a digest.
LEMMA TxFields ==
  ASSUME TypeOK, NEW i \in 1..Len(txs)
  PROVE  txs[i].ts \in Nat /\ txs[i].dg \in Nat
<1> DEFINE T == [ts : Nat, dg : Nat]
<1>1. txs \in Seq(T)
  BY DEF TypeOK
<1> HIDE DEF T
<1>2. txs[i] \in T
  BY <1>1
<1> QED  BY <1>2 DEF T

\* Newer is transitive.
LEMMA NewerTransitive ==
  ASSUME TypeOK, NEW i \in 1..Len(txs), NEW j \in 1..Len(txs),
         NEW k \in 1..Len(txs), Newer(i, j), Newer(j, k)
  PROVE  Newer(i, k)
BY TxFields DEF Newer

\* Newer is irreflexive.
LEMMA NewerIrreflexive ==
  ASSUME TypeOK, NEW i \in 1..Len(txs)
  PROVE  ~ Newer(i, i)
BY TxFields DEF Newer

\* Of two rows one is newer.
LEMMA NewerTotal ==
  ASSUME TypeOK, Distinct, NEW i \in 1..Len(txs), NEW j \in 1..Len(txs)
  PROVE  i = j \/ Newer(i, j) \/ Newer(j, i)
<1> txs[i].dg = txs[j].dg => i = j
  BY DEF Distinct
<1> QED  BY TxFields DEF Newer

\* Sets of rows are finite.
LEMMA RowsFinite ==
  ASSUME TypeOK, NEW R \in SUBSET (1..Len(txs))
  PROVE  IsFiniteSet(R)
<1>1. Len(txs) \in Nat
  BY DEF TypeOK
<1>2. IsFiniteSet(1..Len(txs))
  BY <1>1, FS_Interval
<1> QED  BY <1>2, FS_Subset

\* The rows of a page come with every remaining row newer than them.
LEMMA TopClosed ==
  ASSUME TypeOK, NEW R \in SUBSET (1..Len(txs)), NEW n \in Nat,
         NEW i \in Top(R, n), NEW j \in R, Newer(j, i)
  PROVE  j \in Top(R, n)
<1> DEFINE A == {k \in R : Newer(k, i)}
           B == {k \in R : Newer(k, j)}
<1>1. i \in R /\ Cardinality(A) < n
  BY DEF Top
<1>2. B \subseteq A
  BY <1>1, NewerTransitive
<1>3. IsFiniteSet(A)
  BY RowsFinite
<1>4. Cardinality(B) <= Cardinality(A) /\ IsFiniteSet(B)
  BY <1>2, <1>3, FS_Subset
<1>5. Cardinality(B) \in Nat /\ Cardinality(A) \in Nat
  BY <1>3, <1>4, FS_CardinalityType
<1> HIDE DEF A
<1>6. Cardinality(B) < n
  BY <1>1, <1>4, <1>5
<1> QED  BY <1>6 DEF Top

\* If at most n rows remain, the page holds all of them.
LEMMA TopAll ==
  ASSUME TypeOK, NEW R \in SUBSET (1..Len(txs)), NEW n \in Nat,
         Cardinality(R) <= n
  PROVE  Top(R, n) = R
<1>1. SUFFICES ASSUME NEW i \in R PROVE Cardinality({k \in R : Newer(k, i)}) < n
  BY DEF Top
<1> DEFINE A == {k \in R : Newer(k, i)}
<1>2. IsFiniteSet(R)
  BY RowsFinite
<1>3. A \subseteq R \ {i}
  BY NewerIrreflexive
<1>4. IsFiniteSet(R \ {i}) /\ Cardinality(R \ {i}) = Cardinality(R) - 1
  BY <1>2, FS_RemoveElement
<1>5. IsFiniteSet(A) /\ Cardinality(A) <= Cardinality(R \ {i})
  BY <1>3, <1>4, FS_Subset
<1>6. Cardinality(A) \in Nat /\ Cardinality(R) \in Nat
  BY <1>2, <1>5, FS_CardinalityType
<1> HIDE DEF A
<1>7. Cardinality(A) < n
  BY <1>4, <1>5, <1>6
<1> QED  BY <1>7 DEF A

\* What remains to be delivered are rows of the wallet's history.
LEMMA RemainingRows ==
  ASSUME TypeOK
  PROVE  Remaining \in SUBSET (1..Len(txs)) /\ Table \in SUBSET (1..Len(txs))
BY FeedAssumption DEF Remaining, Table, TypeOK

-----------------------------------------------------------------------------
(* The actions.                                                            *)

\* The empty feed.
LEMMA FeedStart == Init => FeedInv
<1> SUFFICES ASSUME Init PROVE FeedInv
  OBVIOUS
<1>1. TypeOK
  BY DEF Init, TypeOK, Cursor, Kinds, At
<1>2. Distinct /\ CursorInv
  BY DEF Init, Distinct, CursorInv, At
<1>3. PagesDescend /\ NothingSkipped /\ RpcPagesDescend
  BY DEF Init, PagesDescend, NothingSkipped, RpcPagesDescend, At
<1> QED  BY <1>1, <1>2, <1>3 DEF FeedInv

\* A transaction executed later does not reorder the earlier ones.
LEMMA FeedExecute == FeedInv /\ Execute => FeedInv'
<1> SUFFICES ASSUME FeedInv, Execute PROVE FeedInv'
  OBVIOUS
<1> USE DEF FeedInv
<1>1. PICK ts \in 1..MaxTs, dg \in 1..MaxTx :
        /\ \A i \in 1..Len(txs) : txs[i].ts <= ts /\ txs[i].dg # dg
        /\ txs' = Append(txs, [ts |-> ts, dg |-> dg])
  BY DEF Execute
<1>2. UNCHANGED <<indexed, cursor, pages, known>>
  BY DEF Execute, readerVars
<1> DEFINE T == [ts : Nat, dg : Nat]
           row == [ts |-> ts, dg |-> dg]
<1>3. txs \in Seq(T) /\ row \in T
  BY FeedAssumption DEF TypeOK
<1>4. /\ txs' \in Seq(T) /\ Len(txs') = Len(txs) + 1
      /\ \A i \in 1..Len(txs) : txs'[i] = txs[i]
      /\ txs'[Len(txs) + 1] = row /\ Len(txs) \in Nat
  <2> HIDE DEF T, row
  <2>1. txs' = Append(txs, row)
    BY <1>1 DEF row
  <2> QED  BY <1>3, <2>1
<1>5. 1..Len(txs) \subseteq 1..Len(txs)'
  BY <1>4
<1>6. TypeOK'
  <2>1. pages \in Seq(SUBSET (1..Len(txs)))
    BY DEF TypeOK
  <2> DEFINE A == 1..Len(txs)
             B == 1..Len(txs)'
  <2>2. pages \in Seq(SUBSET B)
    <3> HIDE DEF A, B
    <3>1. A \subseteq B /\ pages \in Seq(SUBSET A)
      BY <1>5, <2>1 DEF A, B
    <3> QED  BY <3>1
  <2>3. indexed \in 0..Len(txs)' /\ known \subseteq B
    BY <1>4, <1>5 DEF TypeOK
  <2>4. cursor \in Cursor
    BY DEF TypeOK
  <2> QED  BY <1>2, <1>4, <2>2, <2>3, <2>4 DEF TypeOK
<1>7. Distinct'
  BY <1>1, <1>4 DEF Distinct
<1>8. \A i, j \in 1..Len(txs) : Newer(i, j)' <=> Newer(i, j)
  BY <1>4 DEF Newer
<1>9. \A k \in 1..Len(pages) : pages[k] \subseteq 1..Len(txs)
  <2> DEFINE A == SUBSET (1..Len(txs))
  <2>1. pages \in Seq(A)
    BY DEF TypeOK
  <2> HIDE DEF A
  <2>2. \A k \in 1..Len(pages) : pages[k] \in A
    BY <2>1
  <2> QED  BY <2>2 DEF A
<1>10. CursorInv'
  <2>1. cursor.at \in Nat
    BY DEF TypeOK, Cursor
  <2>2. cursor.at <= Len(txs) => cursor.at <= Len(txs)'
    BY <1>4, <2>1
  <2>3. cursor.kind = "db" =>
          \A k \in 1..Len(pages) : \A i \in pages[k] :
            i = cursor.at \/ Newer(i, cursor.at)'
    BY <1>2, <1>8, <1>9 DEF CursorInv
  <2> QED  BY <1>2, <1>5, <2>2, <2>3 DEF CursorInv, Table
<1>11. PagesDescend' /\ RpcPagesDescend'
  <2>1. RpcPagesDescend'
    BY <1>2 DEF RpcPagesDescend
  <2>2. PagesDescend'
    <3> SUFFICES ASSUME cursor.kind \in {"db", "dbEnd"},
                        NEW k \in 1..Len(pages), NEW l \in (k + 1)..Len(pages),
                        NEW i \in pages[k], NEW j \in pages[l]
                 PROVE  Newer(i, j)'
      BY <1>2 DEF PagesDescend
    <3>1. Newer(i, j)
      BY DEF PagesDescend
    <3>2. l \in 1..Len(pages)
      BY DEF TypeOK
    <3> QED  BY <1>8, <1>9, <3>1, <3>2
  <2> QED  BY <2>1, <2>2
<1>12. NothingSkipped'
  <2>1. Delivered' = Delivered
    BY <1>2 DEF Delivered
  <2>2. known \subseteq 1..Len(txs)
    BY DEF TypeOK
  <2> QED  BY <1>2, <1>8, <2>1, <2>2 DEF NothingSkipped, CursorInv
<1> QED  BY <1>6, <1>7, <1>10, <1>11, <1>12

\* A commit only adds rows to the table.
LEMMA FeedIndex == FeedInv /\ Index => FeedInv'
<1> SUFFICES ASSUME FeedInv, Index PROVE FeedInv'
  OBVIOUS
<1> USE DEF FeedInv
<1>1. PICK n \in (indexed + 1)..Len(txs) : indexed' = n
  BY DEF Index
<1>2. UNCHANGED <<txs, cursor, pages, known>>
  BY DEF Index, readerVars
<1>3. indexed \in Nat /\ Len(txs) \in Nat
  BY DEF TypeOK
<1>4. indexed' \in 0..Len(txs) /\ indexed < indexed'
  BY <1>1, <1>3
<1>5. TypeOK'
  BY <1>2, <1>4 DEF TypeOK
<1>6. Distinct' /\ PagesDescend' /\ RpcPagesDescend' /\ NothingSkipped'
  BY <1>2 DEF Distinct, PagesDescend, RpcPagesDescend, NothingSkipped,
              Delivered, Newer
<1>7. Table \subseteq Table'
  BY <1>3, <1>4, FeedAssumption DEF Table
<1>8. CursorInv'
  BY <1>2, <1>7 DEF CursorInv, Newer
<1> QED  BY <1>5, <1>6, <1>8

\* A page is appended; the earlier ones stay.
LEMMA PageAppended ==
  ASSUME TypeOK, NEW page \in SUBSET (1..Len(txs)),
         pages' = Append(pages, page)
  PROVE  /\ pages' \in Seq(SUBSET (1..Len(txs)))
         /\ Len(pages) \in Nat
         /\ Len(pages)' = Len(pages) + 1
         /\ \A k \in 1..Len(pages) : pages'[k] = pages[k]
         /\ \A k \in 1..Len(pages) : pages[k] \subseteq 1..Len(txs)
         /\ pages'[Len(pages) + 1] = page
         /\ \A i : i \in Delivered \/ i \in page => i \in Delivered'
<1> DEFINE A == SUBSET (1..Len(txs))
<1>1. pages \in Seq(A) /\ page \in A
  BY DEF TypeOK
<1> HIDE DEF A
<1>2. /\ pages' \in Seq(A)
      /\ Len(pages) \in Nat
      /\ Len(pages)' = Len(pages) + 1
      /\ \A k \in 1..Len(pages) : pages'[k] = pages[k] /\ pages[k] \in A
      /\ pages'[Len(pages) + 1] = page
  BY <1>1
<1>3. \A i : i \in Delivered \/ i \in page => i \in Delivered'
  <2> SUFFICES ASSUME NEW i, i \in Delivered \/ i \in page
               PROVE  \E k \in 1..Len(pages)' : i \in pages'[k]
    BY DEF Delivered
  <2>1. CASE i \in page
    BY <1>2, <2>1
  <2>2. CASE i \in Delivered
    <3>1. PICK k \in 1..Len(pages) : i \in pages[k]
      BY <2>2 DEF Delivered
    <3>2. k \in 1..Len(pages)' /\ i \in pages'[k]
      BY <1>2, <3>1
    <3> QED  BY <3>2
  <2> QED  BY <2>1, <2>2
<1> QED  BY <1>2, <1>3 DEF A

\* The pages of the table.
LEMMA FeedDbPage == FeedInv /\ DbPage => FeedInv'
<1> SUFFICES ASSUME FeedInv, DbPage PROVE FeedInv'
  OBVIOUS
<1> USE DEF FeedInv
<1> DEFINE page == Top(Remaining, Limit)
           hasMore == Cardinality(Remaining) > Limit
<1>1. /\ cursor.kind \in {"start", "db"}
      /\ pages' = Append(pages, page)
      /\ hasMore => \E last \in page :
                      /\ \A i \in page : i = last \/ Newer(i, last)
                      /\ cursor' = At("db", last)
      /\ ~ hasMore => cursor' = At("dbEnd", 0)
      /\ known' = IF pages = <<>> THEN Table ELSE known
      /\ UNCHANGED <<txs, indexed>>
  BY DEF DbPage, chainVars
<1>2. Remaining \in SUBSET (1..Len(txs)) /\ Table \in SUBSET (1..Len(txs))
  BY RemainingRows
<1>3. page \in SUBSET (1..Len(txs)) /\ page \subseteq Remaining
  BY <1>2 DEF Top
<1>4. Limit \in Nat
  BY FeedAssumption
<1>5. ASSUME NEW i \in page, NEW j \in Remaining, Newer(j, i)
      PROVE  j \in page
  BY <1>2, <1>4, <1>5, TopClosed
<1>6. ~ hasMore => page = Remaining
  <2> SUFFICES ASSUME ~ hasMore PROVE page = Remaining
    OBVIOUS
  <2>1. Cardinality(Remaining) \in Nat
    BY <1>2, RowsFinite, FS_CardinalityType
  <2>2. Cardinality(Remaining) <= Limit
    BY <1>4, <2>1
  <2> QED  BY <1>2, <1>4, <2>2, TopAll
<1> HIDE DEF page, hasMore
<1>7. /\ pages' \in Seq(SUBSET (1..Len(txs)))
      /\ Len(pages) \in Nat
      /\ Len(pages)' = Len(pages) + 1
      /\ \A k \in 1..Len(pages) : pages'[k] = pages[k]
      /\ \A k \in 1..Len(pages) : pages[k] \subseteq 1..Len(txs)
      /\ pages'[Len(pages) + 1] = page
      /\ \A i : i \in Delivered \/ i \in page => i \in Delivered'
  BY <1>1, <1>3, PageAppended
<1>8. \A i, j : Newer(i, j)' <=> Newer(i, j)
  BY <1>1 DEF Newer
<1>9. Table' = Table /\ known' \subseteq 1..Len(txs)
  BY <1>1, <1>2 DEF Table, TypeOK
<1>10. cursor' \in Cursor /\ cursor'.kind \in {"db", "dbEnd"}
  <2>1. CASE hasMore
    BY <1>1, <1>3, <2>1 DEF Cursor, Kinds, At
  <2>2. CASE ~ hasMore
    BY <1>1, <2>2 DEF Cursor, Kinds, At
  <2> QED  BY <2>1, <2>2
<1>11. TypeOK'
  BY <1>1, <1>7, <1>9, <1>10 DEF TypeOK
<1>12. Distinct'
  BY <1>1 DEF Distinct
\* Everything delivered so far is newer than everything that remains.
<1>13. \A k \in 1..Len(pages) : \A i \in pages[k], j \in Remaining : Newer(i, j)
  <2> SUFFICES ASSUME NEW k \in 1..Len(pages), NEW i \in pages[k], NEW j \in Remaining
               PROVE  Newer(i, j)
    OBVIOUS
  <2>1. cursor.kind = "db"
    BY <1>1, <1>7 DEF CursorInv
  <2>2. i = cursor.at \/ Newer(i, cursor.at)
    BY <2>1 DEF CursorInv
  <2>3. Newer(cursor.at, j) /\ cursor.at \in 1..Len(txs)
    BY <2>1 DEF Remaining, CursorInv
  <2>4. i \in 1..Len(txs) /\ j \in 1..Len(txs)
    BY <1>2, <1>7
  <2> QED  BY <2>2, <2>3, <2>4, NewerTransitive
<1>14. PagesDescend'
  <2> SUFFICES ASSUME NEW k \in 1..Len(pages)', NEW l \in (k + 1)..Len(pages)',
                      NEW i \in pages'[k], NEW j \in pages'[l]
               PROVE  Newer(i, j)
    BY <1>8 DEF PagesDescend
  <2>1. k \in 1..Len(pages) /\ i \in pages[k]
    BY <1>7
  <2>2. CASE l = Len(pages) + 1
    <3>1. j \in page
      BY <1>7, <2>2
    <3> QED  BY <1>3, <1>13, <2>1, <3>1
  <2>3. CASE l # Len(pages) + 1
    <3>1. l \in (k + 1)..Len(pages) /\ j \in pages[l]
      BY <1>7, <2>1, <2>3
    <3>2. cursor.kind = "db"
      BY <1>1, <1>7, <2>1 DEF CursorInv
    <3> QED  BY <2>1, <3>1, <3>2 DEF PagesDescend
  <2> QED  BY <2>2, <2>3
\* A known row is delivered already or remains.
<1>15. \A i \in known' : i \in Delivered \/ i \in Remaining
  <2> SUFFICES ASSUME NEW i \in known' PROVE i \in Delivered \/ i \in Remaining
    OBVIOUS
  <2>1. CASE cursor.kind = "start"
    BY <1>1, <2>1 DEF CursorInv, Remaining
  <2>2. CASE cursor.kind = "db"
    <3>1. i \in known /\ i \in Table
      BY <1>1, <2>2 DEF CursorInv
    <3> QED  BY <2>2, <3>1 DEF NothingSkipped, Remaining
  <2> QED  BY <1>1, <2>1, <2>2
<1> QED
  <2>1. CASE hasMore
    <3>1. PICK last \in page : /\ \A i \in page : i = last \/ Newer(i, last)
                               /\ cursor' = At("db", last)
      BY <1>1, <2>1
    <3>2. cursor'.kind = "db" /\ cursor'.at = last
      BY <3>1 DEF At
    <3>3. last \in 1..Len(txs) /\ last \in Remaining
      BY <1>3
    <3>4. known' \subseteq Table
      BY <1>1 DEF CursorInv
    <3>5. ASSUME NEW k \in 1..Len(pages)', NEW i \in pages'[k]
          PROVE  i = last \/ Newer(i, last)
      <4>1. CASE k = Len(pages) + 1
        BY <1>7, <3>1, <4>1
      <4>2. CASE k # Len(pages) + 1
        BY <1>7, <1>13, <3>3, <4>2
      <4> QED  BY <4>1, <4>2
    <3>6. CursorInv'
      <4>1. pages' # <<>>
        BY <1>7
      <4> QED  BY <1>1, <1>8, <1>9, <3>2, <3>3, <3>4, <3>5, <4>1 DEF CursorInv
    <3>7. NothingSkipped'
      <4> SUFFICES ASSUME NEW i \in known' PROVE Newer(last, i) \/ i \in Delivered'
        BY <1>8, <3>2 DEF NothingSkipped
      <4>1. CASE i \in Delivered
        BY <1>7, <4>1
      <4>2. CASE i \in Remaining
        <5>1. i = last \/ Newer(i, last) \/ Newer(last, i)
          BY <1>2, <3>3, <4>2, NewerTotal
        <5>2. Newer(i, last) => i \in page
          BY <1>5, <4>2
        <5> QED  BY <1>7, <5>1, <5>2
      <4> QED  BY <1>15, <4>1, <4>2
    <3>8. RpcPagesDescend'
      BY <3>2 DEF RpcPagesDescend
    <3> QED  BY <1>11, <1>12, <1>14, <3>6, <3>7, <3>8
  <2>2. CASE ~ hasMore
    <3>1. cursor'.kind = "dbEnd"
      BY <1>1, <2>2 DEF At
    <3>2. NothingSkipped'
      BY <1>6, <1>7, <1>15, <2>2, <3>1 DEF NothingSkipped
    <3>3. CursorInv' /\ RpcPagesDescend'
      BY <3>1 DEF CursorInv, RpcPagesDescend
    <3> QED  BY <1>11, <1>12, <1>14, <3>2, <3>3
  <2> QED  BY <2>1, <2>2

\* The first answer of the table was empty.
LEMMA FeedFallBack == FeedInv /\ FallBack => FeedInv'
<1> SUFFICES ASSUME FeedInv, FallBack PROVE FeedInv'
  OBVIOUS
<1> USE DEF FeedInv
<1>1. /\ cursor.kind = "start"
      /\ cursor' = At("rpc", 0)
      /\ UNCHANGED <<txs, indexed, pages, known>>
  BY DEF FallBack, chainVars
<1>2. /\ cursor' \in Cursor /\ cursor'.kind = "rpc"
      /\ cursor'.at = 0 /\ 0 <= Len(txs)
  BY <1>1 DEF TypeOK, Cursor, Kinds, At
<1>3. pages = <<>>
  BY <1>1 DEF CursorInv
<1>4. TypeOK' /\ Distinct'
  BY <1>1, <1>2 DEF TypeOK, Distinct
<1>5. CursorInv' /\ PagesDescend' /\ NothingSkipped' /\ RpcPagesDescend'
  BY <1>1, <1>2, <1>3 DEF CursorInv, PagesDescend, NothingSkipped, RpcPagesDescend
<1> QED  BY <1>4, <1>5

\* The pages of the RPC node.
LEMMA FeedRpcPage == FeedInv /\ RpcPage => FeedInv'
<1> SUFFICES ASSUME FeedInv, RpcPage PROVE FeedInv'
  OBVIOUS
<1> USE DEF FeedInv
<1> DEFINE got == OnDemand(Limit + 1)
           hasMore == Cardinality(got) > Limit
           page == IF hasMore THEN {i \in got : i - 1 \in got} ELSE got
<1>1. /\ cursor.kind = "rpc"
      /\ pages' = Append(pages, page)
      /\ hasMore => \E next \in got : /\ \A i \in got : next <= i
                                      /\ cursor' = At("rpc", next)
      /\ ~ hasMore => cursor' = At("rpcEnd", 0)
      /\ known' = IF pages = <<>> THEN 1..Len(txs) ELSE known
      /\ UNCHANGED <<txs, indexed>>
  BY DEF RpcPage, chainVars
<1>2. Len(txs) \in Nat /\ cursor.at \in Nat /\ Limit \in Nat
  BY FeedAssumption DEF TypeOK, Cursor
<1>3. \A i \in got : /\ i \in Nat /\ 1 <= i
                     /\ cursor.at = 0 => i <= Len(txs)
                     /\ cursor.at # 0 => i < cursor.at
  BY <1>2 DEF OnDemand
<1>4. got \in SUBSET (1..Len(txs))
  BY <1>1, <1>2, <1>3 DEF CursorInv
<1>5. page \in SUBSET (1..Len(txs)) /\ page \subseteq got
  BY <1>4
<1>6. hasMore => \A i \in page : i - 1 \in got
  OBVIOUS
<1> HIDE DEF page, got, hasMore
<1>7. /\ pages' \in Seq(SUBSET (1..Len(txs)))
      /\ Len(pages) \in Nat
      /\ Len(pages)' = Len(pages) + 1
      /\ \A k \in 1..Len(pages) : pages'[k] = pages[k]
      /\ \A k \in 1..Len(pages) : pages[k] \subseteq 1..Len(txs)
      /\ pages'[Len(pages) + 1] = page
  BY <1>1, <1>5, PageAppended
<1>8. known' \subseteq 1..Len(txs) /\ Distinct'
  BY <1>1 DEF TypeOK, Distinct
\* Everything delivered so far is newer than everything fetched.
<1>9. \A k \in 1..Len(pages) : \A i \in pages[k], j \in got : i > j
  <2> SUFFICES ASSUME NEW k \in 1..Len(pages), NEW i \in pages[k], NEW j \in got
               PROVE  i > j
    OBVIOUS
  <2>1. i > cursor.at /\ i \in 1..Len(txs)
    BY <1>1, <1>7 DEF CursorInv
  <2>2. cursor.at # 0
    BY <1>1, <1>7 DEF CursorInv
  <2> QED  BY <1>2, <1>3, <2>1, <2>2
<1>10. \A k \in 1..Len(pages)' : \A l \in (k + 1)..Len(pages)' :
         \A i \in pages'[k], j \in pages'[l] : i > j
  <2> SUFFICES ASSUME NEW k \in 1..Len(pages)', NEW l \in (k + 1)..Len(pages)',
                      NEW i \in pages'[k], NEW j \in pages'[l]
               PROVE  i > j
    OBVIOUS
  <2>1. k \in 1..Len(pages) /\ i \in pages[k]
    BY <1>7
  <2>2. CASE l = Len(pages) + 1
    BY <1>5, <1>7, <1>9, <2>1, <2>2
  <2>3. CASE l # Len(pages) + 1
    <3>1. l \in (k + 1)..Len(pages) /\ j \in pages[l]
      BY <1>7, <2>1, <2>3
    <3> QED  BY <1>1, <2>1, <3>1 DEF RpcPagesDescend
  <2> QED  BY <2>2, <2>3
<1> QED
  <2>1. CASE hasMore
    <3>1. PICK next \in got : /\ \A i \in got : next <= i
                              /\ cursor' = At("rpc", next)
      BY <1>1, <2>1
    <3>2. next \in 1..Len(txs) /\ next \in Nat
      BY <1>2, <1>4
    <3>3. /\ cursor'.kind = "rpc" /\ cursor'.at = next
          /\ cursor' \in Cursor
      BY <3>1, <3>2 DEF At, Cursor, Kinds
    <3>4. ASSUME NEW k \in 1..Len(pages)', NEW i \in pages'[k]
          PROVE  i > next
      <4>1. CASE k = Len(pages) + 1
        <5>1. i \in page
          BY <1>7, <4>1
        <5>2. i - 1 \in got /\ i \in 1..Len(txs)
          BY <1>5, <1>6, <2>1, <5>1
        <5>3. next <= i - 1
          BY <3>1, <5>2
        <5> QED  BY <3>2, <5>2, <5>3
      <4>2. CASE k # Len(pages) + 1
        BY <1>7, <1>9, <4>2
      <4> QED  BY <4>1, <4>2
    <3>5. TypeOK'
      BY <1>1, <1>7, <1>8, <3>3 DEF TypeOK
    <3>6. CursorInv'
      BY <1>1, <1>2, <3>2, <3>3, <3>4 DEF CursorInv
    <3>7. RpcPagesDescend'
      BY <1>10 DEF RpcPagesDescend
    <3>8. PagesDescend' /\ NothingSkipped'
      BY <3>3 DEF PagesDescend, NothingSkipped
    <3> QED  BY <1>8, <3>5, <3>6, <3>7, <3>8
  <2>2. CASE ~ hasMore
    <3>1. cursor'.kind = "rpcEnd" /\ cursor' \in Cursor
      BY <1>1, <2>2 DEF At, Cursor, Kinds
    <3>2. TypeOK'
      BY <1>1, <1>7, <1>8, <3>1 DEF TypeOK
    <3>3. CursorInv' /\ PagesDescend' /\ NothingSkipped'
      BY <3>1 DEF CursorInv, PagesDescend, NothingSkipped
    <3>4. RpcPagesDescend'
      BY <1>10 DEF RpcPagesDescend
    <3> QED  BY <1>8, <3>2, <3>3, <3>4
  <2> QED  BY <2>1, <2>2

\* An RPC failure ends the feed.
LEMMA FeedRpcPageFails == FeedInv /\ RpcPageFails => FeedInv'
<1> SUFFICES ASSUME FeedInv, RpcPageFails PROVE FeedInv'
  OBVIOUS
<1> USE DEF FeedInv
<1>1. /\ pages' = Append(pages, {})
      /\ cursor' = At("rpcError", 0)
      /\ UNCHANGED <<txs, indexed, known>>
  BY DEF RpcPageFails, chainVars
<1>2. pages' \in Seq(SUBSET (1..Len(txs)))
  BY <1>1, PageAppended
<1>3. cursor'.kind = "rpcError" /\ cursor' \in Cursor
  BY <1>1 DEF At, Cursor, Kinds
<1>4. TypeOK' /\ Distinct'
  BY <1>1, <1>2, <1>3 DEF TypeOK, Distinct
<1>5. CursorInv' /\ PagesDescend' /\ NothingSkipped' /\ RpcPagesDescend'
  BY <1>3 DEF CursorInv, PagesDescend, NothingSkipped, RpcPagesDescend
<1> QED  BY <1>4, <1>5

\* Every step keeps the invariant.
LEMMA FeedStep == FeedInv /\ [Next]_vars => FeedInv'
<1> SUFFICES ASSUME FeedInv, [Next]_vars PROVE FeedInv'
  OBVIOUS
<1>1. CASE Execute
  BY <1>1, FeedExecute
<1>2. CASE Index
  BY <1>2, FeedIndex
<1>3. CASE DbPage
  BY <1>3, FeedDbPage
<1>4. CASE FallBack
  BY <1>4, FeedFallBack
<1>5. CASE RpcPage
  BY <1>5, FeedRpcPage
<1>6. CASE RpcPageFails
  BY <1>6, FeedRpcPageFails
<1>7. CASE UNCHANGED vars
  <2>1. UNCHANGED <<txs, indexed, cursor, pages, known>>
    BY <1>7 DEF vars
  <2> QED
    BY <2>1 DEF FeedInv, TypeOK, Distinct, CursorInv, PagesDescend,
                NothingSkipped, RpcPagesDescend, Delivered, Newer, Table
<1> QED  BY <1>1, <1>2, <1>3, <1>4, <1>5, <1>6, <1>7 DEF Next, Read

\* The invariant holds throughout.
LEMMA FeedInvariant == Spec => []FeedInv
<1>1. Init => FeedInv
  BY FeedStart
<1>2. FeedInv /\ [Next]_vars => FeedInv'
  BY FeedStep
<1> QED  BY <1>1, <1>2, PTL DEF Spec

-----------------------------------------------------------------------------
(* The results.                                                            *)

\* The state has its type.
THEOREM FeedTypeCorrect == Spec => []TypeOK
<1>1. FeedInv => TypeOK
  BY DEF FeedInv
<1> QED  BY <1>1, FeedInvariant, PTL

\* Pages read from the table are newest first and disjoint
\* (activity.ts:80-104), for every Limit and every history.
THEOREM FeedPagesDescend == Spec => []PagesDescend
<1>1. FeedInv => PagesDescend
  BY DEF FeedInv
<1> QED  BY <1>1, FeedInvariant, PTL

\* Keyset pagination loses no row that was there when it began
\* (activity.ts:26-27), for every Limit and every history.
THEOREM FeedNothingSkipped == Spec => []NothingSkipped
<1>1. FeedInv => NothingSkipped
  BY DEF FeedInv
<1> QED  BY <1>1, FeedInvariant, PTL

\* Pages of the RPC node descend the chain and are disjoint
\* (activity.ts:58-73, 121-130).
THEOREM FeedRpcPagesDescend == Spec => []RpcPagesDescend
<1>1. FeedInv => RpcPagesDescend
  BY DEF FeedInv
<1> QED  BY <1>1, FeedInvariant, PTL

-----------------------------------------------------------------------------
(* The page's user: rows between two cursors.                              *)

Below(c, r) == c # 0 => Newer(c, r)
AtLeast(c, d) == c = d \/ Newer(c, d)
Gap(c, d) == {r \in Table : Below(c, r) /\ AtLeast(r, d)}

\* Rows of the table are rows of the history.
LEMMA TableRows ==
  ASSUME TypeOK
  PROVE  Table \in SUBSET (1..Len(txs)) /\ 0 \notin Table /\ Table \subseteq Nat
BY FeedAssumption DEF Table, TypeOK

\* Where everything over j is over i, and not j, for j over i, something has
\* nothing over it.
LEMMA Extreme ==
  ASSUME NEW R, IsFiniteSet(R), R # {}, NEW over \in [R -> SUBSET R],
         \A i \in R : \A j \in over[i] : over[j] \subseteq over[i] \ {j}
  PROVE  \E i \in R : over[i] = {}
<1> DEFINE N == {Cardinality(over[i]) : i \in R}
<1>1. ASSUME NEW i \in R PROVE IsFiniteSet(over[i]) /\ Cardinality(over[i]) \in Nat
  BY FS_Subset, FS_CardinalityType
<1>2. N \in SUBSET Nat /\ N # {}
  BY <1>1
<1>3. PICK m \in N : \A n \in N : m <= n
  BY <1>2, MinIs
<1>4. PICK i \in R : m = Cardinality(over[i])
  OBVIOUS
<1>5. ASSUME NEW j \in over[i] PROVE FALSE
  <2>1. IsFiniteSet(over[i] \ {j}) /\ Cardinality(over[i] \ {j}) = Cardinality(over[i]) - 1
    BY <1>1, FS_RemoveElement
  <2>2. Cardinality(over[j]) <= Cardinality(over[i] \ {j})
    BY <2>1, FS_Subset
  <2>3. j \in R /\ Cardinality(over[j]) \in Nat /\ m <= Cardinality(over[j])
    BY <1>1, <1>3
  <2>4. QED
    BY <1>1, <1>4, <2>1, <2>2, <2>3
<1>6. QED
  BY <1>5

\* A set of rows that is not empty has a newest and an oldest.
LEMMA Newest ==
  ASSUME TypeOK, Distinct, NEW R \in SUBSET (1..Len(txs)), R # {}
  PROVE  \E i \in R : \A j \in R : AtLeast(i, j)
<1> DEFINE over == [i \in R |-> {j \in R : Newer(j, i)}]
<1>1. over \in [R -> SUBSET R] /\ \A i \in R : \A j \in over[i] : over[j] \subseteq over[i] \ {j}
  BY NewerTransitive, NewerIrreflexive
<1>2. \A i \in R : over[i] = {} => \A j \in R : AtLeast(i, j)
  BY NewerTotal DEF AtLeast
<1> HIDE DEF over
<1>3. QED
  BY <1>1, <1>2, Extreme, RowsFinite

\* A set of rows that is not empty has an oldest.
LEMMA Oldest ==
  ASSUME TypeOK, Distinct, NEW R \in SUBSET (1..Len(txs)), R # {}
  PROVE  \E i \in R : \A j \in R : AtLeast(j, i)
<1> DEFINE over == [i \in R |-> {j \in R : Newer(i, j)}]
<1>1. over \in [R -> SUBSET R] /\ \A i \in R : \A j \in over[i] : over[j] \subseteq over[i] \ {j}
  BY NewerTransitive, NewerIrreflexive
<1>2. \A i \in R : over[i] = {} => \A j \in R : AtLeast(j, i)
  BY NewerTotal DEF AtLeast
<1> HIDE DEF over
<1>3. QED
  BY <1>1, <1>2, Extreme, RowsFinite

\* What lies between two cursors is finite.
LEMMA GapFinite ==
  ASSUME TypeOK, NEW c, NEW d
  PROVE  IsFiniteSet(Gap(c, d)) /\ Cardinality(Gap(c, d)) \in Nat /\ Gap(c, d) \in SUBSET (1..Len(txs))
BY TableRows, RowsFinite, FS_CardinalityType DEF Gap

\* A cursor that lies behind another, to which d lies behind.
LEMMA GapSplit ==
  ASSUME TypeOK, Distinct, NEW e \in Table \cup {0}, NEW f \in Table, NEW d \in Table,
         Below(e, f), AtLeast(f, d)
  PROVE  Cardinality(Gap(e, d)) = Cardinality(Gap(e, f)) + Cardinality(Gap(f, d))
<1>1. Gap(e, d) = Gap(e, f) \cup Gap(f, d) /\ Gap(e, f) \cap Gap(f, d) = {}
  <2>1. Table \in SUBSET (1..Len(txs)) /\ 0 \notin Table
    BY TableRows
  <2>2. ASSUME NEW r \in Table
        PROVE  (Below(e, r) /\ AtLeast(r, d)) <=> (Below(e, r) /\ AtLeast(r, f)) \/ (Newer(f, r) /\ AtLeast(r, d))
    BY <2>1, NewerTotal, NewerTransitive DEF Below, AtLeast
  <2>3. ASSUME NEW r \in Table PROVE ~ (AtLeast(r, f) /\ Newer(f, r))
    BY <2>1, NewerIrreflexive, NewerTransitive DEF AtLeast
  <2>4. QED
    BY <2>1, <2>2, <2>3 DEF Gap, Below
<1>2. IsFiniteSet(Gap(e, f)) /\ IsFiniteSet(Gap(f, d))
  BY GapFinite
<1> DEFINE A == Gap(e, f)
           B == Gap(f, d)
<1>3. Cardinality(A \cup B) = Cardinality(A) + Cardinality(B) - Cardinality(A \cap B)
  <2> HIDE DEF A, B
  <2>1. QED
    BY <1>2, FS_Union DEF A, B
<1>4. Cardinality(A \cap B) = 0
  BY <1>1, FS_EmptySet
<1>5. QED
  BY <1>1, <1>3, <1>4, GapFinite

\* What has at least as many rows before it is at least as old.
LEMMA GapOver ==
  ASSUME TypeOK, Distinct, NEW f \in Table \cup {0}, NEW e \in Table, NEW d \in Table,
         Below(f, e), Cardinality(Gap(f, e)) <= Cardinality(Gap(f, d))
  PROVE  AtLeast(e, d)
<1> SUFFICES ASSUME Newer(d, e) PROVE FALSE
  BY TableRows, NewerTotal DEF AtLeast
<1>1. Gap(f, d) \subseteq Gap(f, e) \ {e}
  BY TableRows, NewerTransitive, NewerIrreflexive DEF Gap, AtLeast
<1>2. e \in Gap(f, e)
  BY DEF Gap, AtLeast
<1>3. /\ IsFiniteSet(Gap(f, e) \ {e})
      /\ Cardinality(Gap(f, e) \ {e}) = Cardinality(Gap(f, e)) - 1
  BY <1>2, GapFinite, FS_RemoveElement
<1>4. Cardinality(Gap(f, d)) <= Cardinality(Gap(f, e) \ {e})
  BY <1>1, <1>3, FS_Subset
<1>5. QED
  BY <1>3, <1>4, GapFinite

PageSound(rows, from, next) ==
  /\ rows \subseteq Table
  /\ \A r \in rows : Below(from, r) /\ (next # 0 => AtLeast(r, next))

\* The page behind a cursor.
LEMMA PageFromIs ==
  ASSUME TypeOK, Distinct, NEW f \in Table \cup {0}
  PROVE  LET p == PageFrom(f)
             rest == {r \in Table : Below(f, r)}
         IN /\ p \in Answers /\ PageSound(p.rows, f, p.next)
            /\ p.next = 0 => Cardinality(rest) <= PAGE_SIZE
            /\ p.next # 0 => /\ p.next \in Table /\ Below(f, p.next)
                             /\ Cardinality(Gap(f, p.next)) = PAGE_SIZE
                             /\ \E r \in Table : Newer(p.next, r)
<1> DEFINE rest == {i \in Table : f # 0 => Newer(f, i)}
           rows == Top(rest, PAGE_SIZE)
           IsLast(x) == x \in rows /\ \A i \in rows : i = x \/ Newer(i, x)
           last == CHOOSE x \in rows : \A i \in rows : i = x \/ Newer(i, x)
           more == Cardinality(rest) > PAGE_SIZE
<1>1. PageFrom(f) = [rows |-> rows, next |-> IF more THEN last ELSE 0]
  BY DEF PageFrom
<1>2. rest = {r \in Table : Below(f, r)} /\ rest \in SUBSET (1..Len(txs)) /\ rows \subseteq rest
  BY TableRows DEF Below, Top
<1>3. /\ IsFiniteSet(rest) /\ Cardinality(rest) \in Nat
  BY <1>2, RowsFinite, FS_CardinalityType
<1>4. rows \subseteq Nat /\ 0 \notin rows /\ rows \subseteq Table
  BY <1>2, TableRows
<1>5. PAGE_SIZE \in Nat \ {0}
  BY PagesAssumption
<1>6. CASE ~ more
  <2>1. PageFrom(f).rows = rows /\ PageFrom(f).next = 0 /\ PageFrom(f) = [rows |-> rows, next |-> 0]
    BY <1>1, <1>6
  <2> HIDE DEF rows, rest
  <2>2. PageFrom(f) \in Answers
    BY <1>4, <2>1 DEF Answers
  <2>3. PageSound(PageFrom(f).rows, f, PageFrom(f).next)
    BY <1>2, <1>4, <2>1 DEF PageSound
  <2>4. Cardinality(rest) <= PAGE_SIZE
    BY <1>3, <1>5, <1>6
  <2>5. QED
    BY <1>2, <2>1, <2>2, <2>3, <2>4
<1>7. CASE more
  <2>1. rest # {} /\ rows # {}
    <3>1. rest # {}
      BY <1>5, <1>7, FS_EmptySet
    <3>2. PICK i \in rest : \A j \in rest : AtLeast(i, j)
      BY <1>2, <3>1, Newest
    <3>3. {j \in rest : Newer(j, i)} = {}
      BY <1>2, <3>2, NewerIrreflexive, NewerTransitive DEF AtLeast
    <3>4. i \in rows
      BY <1>5, <3>3, FS_EmptySet DEF Top
    <3>5. QED
      BY <3>1, <3>4
  <2>2. \E x : IsLast(x)
    BY <1>2, <2>1, Oldest DEF AtLeast
  <2>3. IsLast(last)
    BY <2>2
  <2> HIDE DEF last
  <2>4. last \in Table /\ last # 0 /\ Below(f, last) /\ last \in rest
    BY <1>2, <1>4, <2>3
  <2>5. Gap(f, last) = {r \in rest : AtLeast(r, last)} /\ Gap(f, last) \subseteq rest
    BY <1>2 DEF Gap
  <2>6. Cardinality(Gap(f, last)) <= PAGE_SIZE
    <3> DEFINE A == {j \in rest : Newer(j, last)}
    <3>1. Cardinality(A) < PAGE_SIZE
      BY <2>3 DEF Top
    <3>2. Gap(f, last) = A \cup {last} /\ last \notin A
      BY <1>2, <2>4, <2>5, NewerIrreflexive DEF AtLeast
    <3>3. IsFiniteSet(A) /\ Cardinality(A) \in Nat
      BY <1>2, RowsFinite, FS_CardinalityType
    <3> HIDE DEF A
    <3>4. Cardinality(A \cup {last}) = Cardinality(A) + 1
      BY <3>2, <3>3, FS_AddElement
    <3>5. QED
      BY <1>5, <3>1, <3>2, <3>3, <3>4
  <2> DEFINE U == {r \in rest : Newer(last, r)}
  <2>7. U # {}
    <3>1. SUFFICES ASSUME U = {} PROVE FALSE
      OBVIOUS
    <3>2. \A r \in rest : AtLeast(r, last)
      BY <1>2, <2>4, <3>1, NewerTotal DEF AtLeast
    <3>3. Gap(f, last) = rest
      BY <2>5, <3>2
    <3> HIDE DEF rest
    <3>4. QED
      BY <1>3, <1>5, <1>7, <2>6, <3>3
  <2>8. Cardinality(Gap(f, last)) >= PAGE_SIZE
    <3>1. SUFFICES ASSUME Cardinality(Gap(f, last)) < PAGE_SIZE PROVE FALSE
      BY <1>5, GapFinite
    <3>2. PICK x \in U : \A j \in U : AtLeast(x, j)
      BY <1>2, <2>7, Newest
    <3>3. {j \in rest : Newer(j, x)} = Gap(f, last)
      <4>1. ASSUME NEW j \in rest PROVE Newer(j, x) <=> AtLeast(j, last)
        <5>1. x \in rest /\ Newer(last, x)
          OBVIOUS
        <5>2. AtLeast(j, last) => Newer(j, x)
          BY <1>2, <2>4, <5>1, NewerTransitive DEF AtLeast
        <5>3. ASSUME Newer(j, x), ~ AtLeast(j, last) PROVE FALSE
          <6>1. Newer(last, j)
            BY <1>2, <2>4, <5>3, NewerTotal DEF AtLeast
          <6>2. AtLeast(x, j)
            BY <3>2, <6>1
          <6>3. QED
            BY <1>2, <5>1, <5>3, <6>2, NewerTransitive, NewerIrreflexive DEF AtLeast
        <5>4. QED
          BY <5>2, <5>3
      <4>2. QED
        BY <2>5, <4>1
    <3>4. x \in rows
      BY <3>1, <3>3 DEF Top
    <3>5. QED
      BY <1>2, <2>3, <2>4, <3>2, <3>4, NewerTransitive, NewerIrreflexive
  <2>9. PageFrom(f).rows = rows /\ PageFrom(f).next = last /\ PageFrom(f) = [rows |-> rows, next |-> last]
    BY <1>1, <1>7
  <2>10. Cardinality(Gap(f, last)) = PAGE_SIZE
    BY <1>5, <2>6, <2>8, GapFinite
  <2>11. \E r \in Table : Newer(last, r)
    BY <2>7
  <2> HIDE DEF rows, rest, U
  <2>12. PageFrom(f) \in Answers
    BY <1>4, <2>4, <2>9, TableRows DEF Answers
  <2>13. PageSound(PageFrom(f).rows, f, PageFrom(f).next)
    BY <1>2, <1>4, <2>3, <2>9 DEF PageSound, AtLeast
  <2>14. QED
    BY <2>4, <2>9, <2>10, <2>11, <2>12, <2>13
<1>8. QED
  BY <1>6, <1>7

-----------------------------------------------------------------------------
(* What the page keeps.                                                    *)

Borders == 1..(MaxPage + 1)

Has(k) == k \in Page /\ data[k] # Absent
Asking(k) == k \in Page /\ request[k] # Absent
Served(k) == Asking(k) /\ request[k].answer # Absent

\* The cursors a page was, or will be, asked for with; those the page before gave.
Sent(l, c) ==
  \/ c = stack[l]
  \/ Has(l) /\ c = data[l].from
  \/ Asking(l) /\ c = request[l].from
Made(l, c) ==
  \/ Has(l - 1) /\ c = data[l - 1].next
  \/ Served(l - 1) /\ c = request[l - 1].answer.next
Held(l, c) == c # 0 /\ (Sent(l, c) \/ Made(l, c))

\* The cursors an answer may yet be made from.
Ahead(k, c) ==
  /\ c = 0 <=> k = 0
  /\ \/ c = stack[k]
     \/ Made(k, c)
     \/ Asking(k) /\ ~ Served(k) /\ c = request[k].from

ViewTypes ==
  /\ at \in Page \cup {Away}
  /\ stack \in [0..(MaxPage + 1) -> Nat]
  /\ data \in [Page -> Queries \cup {Absent}]
  /\ request \in [Page -> Requests \cup {Absent}]
  /\ fresh \in Seq(Page)
  /\ \A k \in Page : Contains(fresh, k) => Has(k)

Starts ==
  /\ stack[0] = 0
  /\ \A k \in Page : Has(k) => (data[k].from = 0 <=> k = 0)
  /\ \A k \in Page : Asking(k) => (request[k].from = 0 <=> k = 0)

PagesSound ==
  /\ \A k \in Page : Has(k) => PageSound(data[k].rows, data[k].from, data[k].next)
  /\ \A k \in Page : Served(k) =>
       PageSound(request[k].answer.rows, request[k].from, request[k].answer.next)

\* A cursor is a row, and there is a row behind it.
Behind ==
  \A l \in Borders, c \in Nat : Held(l, c) => c \in Table /\ \E r \in Table : Newer(c, r)

\* Between an answer to come and a cursor further on there is room for the pages.
Apart ==
  \A k \in Page, l \in Borders, e \in Nat, d \in Nat :
    k < l /\ Ahead(k, e) /\ Held(l, d) => Cardinality(Gap(e, d)) >= (l - k) * PAGE_SIZE

\* What comes later goes less far.
Later ==
  /\ \A k \in Page, d \in Nat : Has(k) /\ data[k].next # 0 /\ d # 0 /\ Sent(k + 1, d) => AtLeast(data[k].next, d)
  /\ \A k \in Page, d \in Nat : Served(k) /\ request[k].answer.next # 0 /\ Held(k + 1, d) =>
       AtLeast(request[k].answer.next, d)
  /\ \A k \in Page \ {0} : stack[k] # 0 /\ Asking(k) => AtLeast(stack[k], request[k].from)

\* There is nothing behind a last page.
Ended ==
  /\ \A k \in Page : Has(k) /\ data[k].next = 0 =>
       \A l \in Borders, d \in Nat \ {0} : k < l => ~ Sent(l, d) /\ (k + 1 < l => ~ Made(l, d))
  /\ \A k \in Page : Served(k) /\ request[k].answer.next = 0 =>
       \A l \in Borders, d \in Nat : k < l => ~ Held(l, d)

\* The pages before the one that is shown have answered, and their cursors are known.
Visited ==
  at # Away =>
    /\ \A l \in Borders : l <= at => stack[l] # 0
    /\ \A k \in Page : k < at => request[k] = Absent /\ (Has(k) => stack[k + 1] = data[k].next)
    /\ Has(at) /\ data[at].next # 0 => stack[at + 1] = data[at].next

Joined ==
  \A k \in Page \ {0} : Has(k - 1) =>
    /\ Has(k) /\ data[k].after => data[k].from = data[k - 1].next
    /\ Asking(k) /\ request[k].after => request[k].from = data[k - 1].next

PagesInv ==
  /\ ViewTypes /\ Starts /\ PagesSound /\ Behind /\ Apart /\ Later /\ Ended /\ Visited /\ Joined

\* Pages and the borders between them.
LEMMA PageNumbers ==
  /\ Page \subseteq Nat /\ Borders \subseteq Nat /\ Away \notin Page /\ 0 \in Page
  /\ \A k \in Page : /\ k + 1 \in Borders /\ (k + 1) - 1 = k
                     /\ k \in 0..(MaxPage + 1) /\ k + 1 \in 0..(MaxPage + 1)
                     /\ k # 0 => k \in Borders
  /\ \A l \in Borders : l \in 0..(MaxPage + 1) /\ l - 1 \in Page /\ l - 1 + 1 = l /\ l # 0
BY PagesAssumption DEF Page, Borders

\* The fields of data, requests and answers.
LEMMA Fields ==
  ASSUME ViewTypes
  PROVE  /\ \A k \in Page : Has(k) => data[k] \in Queries /\ data[k].from \in Nat /\ data[k].next \in Nat
                                    /\ data[k].after \in BOOLEAN /\ data[k].rows \in SUBSET Nat
         /\ \A k \in Page : Asking(k) => request[k] \in Requests /\ request[k].from \in Nat /\ request[k].after \in BOOLEAN
         /\ \A k \in Page : Served(k) => request[k].answer \in Answers /\ request[k].answer.next \in Nat
                                         /\ request[k].answer.rows \in SUBSET Nat
         /\ \A l \in 0..(MaxPage + 1) : stack[l] \in Nat
BY DEF ViewTypes, Has, Asking, Served, Queries, Requests, Answers

\* Where the chain and the table stay, so does the order of the rows.
LEMMA SameChain ==
  ASSUME UNCHANGED vars
  PROVE  /\ Table' = Table
         /\ \A c, d : Newer(c, d)' <=> Newer(c, d)
         /\ \A c, d : AtLeast(c, d)' <=> AtLeast(c, d)
         /\ \A c, d : Below(c, d)' <=> Below(c, d)
         /\ \A c, d : Gap(c, d)' = Gap(c, d)
         /\ \A rows, c, d : PageSound(rows, c, d)' <=> PageSound(rows, c, d)
BY DEF vars, Table, Newer, AtLeast, Below, Gap, PageSound

\* A step that makes no new cursor.
LEMMA NoneMade ==
  ASSUME PagesInv, UNCHANGED vars,
         \A l \in Borders, c \in Nat : Held(l, c)' => Held(l, c),
         \A k \in Page, c \in Nat : Ahead(k, c)' => Ahead(k, c)
  PROVE  Behind' /\ Apart'
<1>1. Behind'
  BY SameChain DEF PagesInv, Behind
<1>2. Apart'
  BY SameChain DEF PagesInv, Apart
<1>3. QED
  BY <1>1, <1>2

-----------------------------------------------------------------------------
(* A step that moves the page and its cursors.                             *)

\* A step that moves the page and its cursors, and may ask for the page it comes to.
LEMMA Looks ==
  ASSUME PagesInv, UNCHANGED <<vars, data, fresh>>, at' \in Page \cup {Away},
         stack' \in [0..(MaxPage + 1) -> Nat], stack'[0] = 0,
         \A l \in Borders : stack'[l] \in {0, stack[l]} \/ (Has(l - 1) /\ stack'[l] = data[l - 1].next),
         \/ request' = request
         \/ /\ at' \in Page /\ request[at'] = Absent
            /\ at' # 0 => /\ stack[at'] # 0
                          /\ stack'[at'] = stack[at'] \/ stack'[at'] = 0
                          /\ Has(at' - 1) => stack[at'] = data[at' - 1].next
            /\ request' = [request EXCEPT ![at'] = Asked(at')],
         Visited'
  PROVE  PagesInv'
<1>1. ViewTypes /\ Starts /\ PagesSound /\ Behind /\ Apart /\ Later /\ Ended /\ Joined
  BY DEF PagesInv
<1>2. \A k : Has(k)' <=> Has(k)
  BY DEF Has
<1>3. ASSUME NEW k \in Page
      PROVE  /\ Asking(k) => Asking(k)' /\ request'[k] = request[k]
             /\ Served(k)' <=> Served(k)
             /\ Asking(k)' /\ ~ Asking(k) => request'[k].from = stack[k] /\ ~ Served(k)'
                                             /\ (k = 0 <=> stack[k] = 0)
                                             /\ (k # 0 => stack'[k] \in {0, stack[k]})
                                             /\ (k # 0 /\ Has(k - 1) => stack[k] = data[k - 1].next)
  <2>1. CASE request' = request
    BY <2>1 DEF Asking, Served
  <2>2. CASE at' \in Page /\ request[at'] = Absent /\ request' = [request EXCEPT ![at'] = Asked(at')]
             /\ (at' # 0 => /\ stack[at'] # 0
                            /\ stack'[at'] = stack[at'] \/ stack'[at'] = 0
                            /\ Has(at' - 1) => stack[at'] = data[at' - 1].next)
    <3>1. request'[k] = IF k = at' THEN Asked(k) ELSE request[k]
      BY <1>1, <2>2 DEF ViewTypes
    <3>2. Asked(k).from = stack[k] /\ Asked(k).answer = Absent
      BY DEF Asked
    <3>3. QED
      BY <1>1, <2>2, <3>1, <3>2 DEF Asking, Served, Starts
  <2>3. QED
    BY <2>1, <2>2
<1>4. ViewTypes'
  <2>1. ASSUME NEW k \in Page PROVE Asked(k) \in Requests
    BY <1>1, PageNumbers DEF Asked, Requests, ViewTypes
  <2>2. request' \in [Page -> Requests \cup {Absent}]
    BY <1>1, <2>1 DEF ViewTypes
  <2>3. QED
    BY <1>1, <2>2, <1>2 DEF ViewTypes
<1>5. Starts'
  BY <1>1, <1>2, <1>3 DEF Starts
<1>6. PagesSound'
  BY <1>1, <1>2, <1>3, SameChain DEF PagesSound, Served
<1>7. ASSUME NEW l \in Borders, NEW c \in Nat
      PROVE  /\ (Sent(l, c)' /\ c # 0) => (Sent(l, c) \/ (Has(l - 1) /\ c = data[l - 1].next))
             /\ (Made(l, c)' => Made(l, c))
  BY <1>2, <1>3, PageNumbers DEF Sent, Made, Asking, Served
<1>8. \A l \in Borders, c \in Nat : Held(l, c)' => Held(l, c)
  BY <1>7 DEF Held, Made
<1>9. ASSUME NEW k \in Page, NEW c \in Nat, Ahead(k, c)' PROVE Ahead(k, c)
  <2>1. CASE k = 0
    BY <1>1, <1>9, <2>1, PageNumbers DEF Ahead, Starts
  <2>2. CASE k # 0
    BY <1>2, <1>3, <1>9, <2>2, PageNumbers DEF Ahead, Made, Asking, Served
  <2>3. QED
    BY <2>1, <2>2
<1>10. Behind' /\ Apart'
  <2>1. UNCHANGED vars /\ \A k \in Page, c \in Nat : Ahead(k, c)' => Ahead(k, c)
    BY <1>9
  <2>2. QED
    BY <1>8, <2>1, NoneMade
<1>11. Later'
  <2>1. ASSUME NEW k \in Page, NEW d \in Nat, Has(k), data[k].next # 0, d # 0, Sent(k + 1, d)'
        PROVE  AtLeast(data[k].next, d)
    <3>1. k + 1 \in Borders /\ (k + 1) - 1 = k
      BY PageNumbers
    <3>2. Sent(k + 1, d) \/ d = data[k].next
      BY <1>7, <2>1, <3>1
    <3>3. QED
      BY <1>1, <2>1, <3>2 DEF Later, AtLeast
  <2>2. ASSUME NEW k \in Page, NEW d \in Nat, Served(k), request[k].answer.next # 0, Held(k + 1, d)'
        PROVE  AtLeast(request[k].answer.next, d)
    BY <1>1, <1>8, <2>2, PageNumbers DEF Later
  <2>3. ASSUME NEW k \in Page \ {0}, stack'[k] # 0, Asking(k)' PROVE AtLeast(stack'[k], request'[k].from)
    <3>1. k \in Borders /\ k - 1 \in Page /\ k - 1 + 1 = k
      BY PageNumbers
    <3>2. CASE ~ Asking(k)
      BY <1>3, <2>3, <3>2 DEF AtLeast
    <3>3. CASE Asking(k) /\ stack'[k] = stack[k]
      BY <1>1, <1>3, <2>3, <3>3 DEF Later
    <3>4. CASE Asking(k) /\ Has(k - 1) /\ stack'[k] = data[k - 1].next
      <4>1. request[k].from \in Nat /\ request[k].from # 0 /\ Sent(k, request[k].from)
        BY <1>1, <3>4, Fields DEF Starts, Sent
      <4>2. QED
        BY <1>1, <1>3, <2>3, <3>1, <3>4, <4>1 DEF Later
    <3>5. QED
      BY <2>3, <3>1, <3>2, <3>3, <3>4
  <2>4. QED
    BY <1>2, <1>3, <2>1, <2>2, <2>3, SameChain DEF Later, Served
<1>12. Ended'
  <2>1. ASSUME NEW k \in Page, Has(k), data[k].next = 0, NEW l \in Borders, NEW d \in Nat \ {0}, k < l
        PROVE  ~ Sent(l, d)' /\ (k + 1 < l => ~ Made(l, d)')
    <3>1. ~ Sent(l, d) /\ (k + 1 < l => ~ Made(l, d))
      BY <1>1, <2>1 DEF Ended
    <3>2. ~ (Has(l - 1) /\ d = data[l - 1].next)
      <4>1. CASE l = k + 1
        BY <2>1, <4>1, PageNumbers
      <4>2. CASE k + 1 < l
        BY <3>1, <4>2 DEF Made
      <4>3. QED
        BY <2>1, <4>1, <4>2, PageNumbers
    <3>3. QED
      BY <1>7, <3>1, <3>2
  <2>2. ASSUME NEW k \in Page, Served(k), request[k].answer.next = 0, NEW l \in Borders, NEW d \in Nat, k < l
        PROVE  ~ Held(l, d)'
    BY <1>1, <1>8, <2>2 DEF Ended
  <2>3. QED
    BY <1>2, <1>3, <2>1, <2>2 DEF Ended, Served
<1>13. Joined'
  <2>1. ASSUME NEW k \in Page \ {0}, Has(k - 1), Asking(k)', request'[k].after
        PROVE  request'[k].from = data[k - 1].next
    BY <1>1, <1>3, <2>1 DEF Joined
  <2>2. QED
    BY <1>1, <1>2, <2>1 DEF Joined
<1>14. QED
  BY <1>4, <1>5, <1>6, <1>10, <1>11, <1>12, <1>13 DEF PagesInv

-----------------------------------------------------------------------------
(* Opening, closing, turning, asking again.                                *)

\* The cursors with the one that page k gave.
LEMMA NoteIs ==
  ASSUME ViewTypes, NEW s \in [0..(MaxPage + 1) -> Nat], NEW k \in Page
  PROVE  /\ Note(s, k, data) \in [0..(MaxPage + 1) -> Nat]
         /\ \A l \in 0..(MaxPage + 1) : Note(s, k, data)[l] =
              IF l = k + 1 /\ Has(k) /\ data[k].next # 0 THEN data[k].next ELSE s[l]
<1>1. k + 1 \in 0..(MaxPage + 1)
  BY PageNumbers
<1>2. CASE Has(k) /\ data[k].next # 0
  <2>1. Note(s, k, data) = [s EXCEPT ![k + 1] = data[k].next] /\ data[k].next \in Nat
    BY <1>2, Fields DEF Note, Has
  <2>2. QED
    BY <1>1, <1>2, <2>1
<1>3. CASE ~ (Has(k) /\ data[k].next # 0)
  <2>1. Note(s, k, data) = s
    BY <1>3 DEF Note, Has
  <2>2. QED
    BY <1>3, <2>1
<1>4. QED
  BY <1>2, <1>3

\* The request of the page that comes onto the screen, or none.
LEMMA ObserveIs ==
  ASSUME NEW k \in Page, Observe(k)
  PROVE  \/ request' = request
         \/ request[k] = Absent /\ request' = [request EXCEPT ![k] = Asked(k)]
BY DEF Observe, Ask

\* The feed is opened.
LEMMA Opened == PagesInv /\ OpenFeed => PagesInv'
<1> SUFFICES ASSUME PagesInv, OpenFeed PROVE PagesInv'
  OBVIOUS
<1>1. /\ at' = 0 /\ stack' = Note(NoCursors, 0, data) /\ Observe(0)
      /\ UNCHANGED <<vars, data, fresh>>
  BY DEF OpenFeed
<1>2. ViewTypes /\ 0 \in Page /\ NoCursors \in [0..(MaxPage + 1) -> Nat]
  BY PageNumbers DEF PagesInv, NoCursors
<1>3. /\ stack' \in [0..(MaxPage + 1) -> Nat]
      /\ \A l \in 0..(MaxPage + 1) : stack'[l] = IF l = 1 /\ Has(0) /\ data[0].next # 0 THEN data[0].next ELSE 0
  <2>1. \A l \in 0..(MaxPage + 1) : NoCursors[l] = 0
    BY DEF NoCursors
  <2>2. \A l \in 0..(MaxPage + 1) : Note(NoCursors, 0, data)[l] =
              IF l = 0 + 1 /\ Has(0) /\ data[0].next # 0 THEN data[0].next ELSE NoCursors[l]
    BY <1>2, NoteIs
  <2>3. Note(NoCursors, 0, data) \in [0..(MaxPage + 1) -> Nat]
    BY <1>2, NoteIs
  <2>4. QED
    BY <1>1, <2>1, <2>2, <2>3
<1>4. stack'[0] = 0 /\ \A l \in Borders : stack'[l] \in {0, stack[l]} \/ (Has(l - 1) /\ stack'[l] = data[l - 1].next)
  BY <1>3, PageNumbers
<1>5. \A k : Has(k)' <=> Has(k)
  BY <1>1 DEF Has
<1>6. Visited'
  BY <1>1, <1>3, <1>5, PageNumbers DEF Visited
<1>7. QED
  BY <1>1, <1>2, <1>3, <1>4, <1>6, ObserveIs, Looks

\* The feed is closed.
LEMMA Closed == PagesInv /\ CloseFeed => PagesInv'
<1> SUFFICES ASSUME PagesInv, CloseFeed PROVE PagesInv'
  OBVIOUS
<1>1. at' = Away /\ stack' = NoCursors /\ request' = request /\ UNCHANGED <<vars, data, fresh>>
  BY DEF CloseFeed
<1>2. stack' \in [0..(MaxPage + 1) -> Nat] /\ \A l \in 0..(MaxPage + 1) : stack'[l] = 0
  BY <1>1 DEF NoCursors
<1>3. stack'[0] = 0 /\ \A l \in Borders : stack'[l] = 0
  BY <1>2, PageNumbers
<1>4. Visited'
  BY <1>1 DEF Visited
<1>5. QED
  BY <1>1, <1>2, <1>3, <1>4, Looks

\* The pages before the one that is shown, and that one.
LEMMA Seen ==
  ASSUME PagesInv, at # Away
  PROVE  /\ at \in Page
         /\ \A k \in Page : k < at => request[k] = Absent /\ (Has(k) => stack[k + 1] = data[k].next)
         /\ \A l \in Borders : l <= at => stack[l] # 0
         /\ Has(at) /\ data[at].next # 0 => stack[at + 1] = data[at].next
BY DEF PagesInv, ViewTypes, Visited

\* A page is turned to whose cursor is known.
LEMMA Turned ==
  ASSUME PagesInv, at # Away, NEW k \in Page, Turn(k),
         k < at \/ (k = at + 1 /\ Has(at) /\ data[at].next # 0 /\ request[at] = Absent)
  PROVE  PagesInv'
<1>1. /\ at' = k /\ stack' = Note(stack, k, data) /\ Observe(k)
      /\ UNCHANGED <<vars, data, fresh>>
  BY DEF Turn
<1>2. ViewTypes /\ Starts /\ stack \in [0..(MaxPage + 1) -> Nat]
  BY DEF PagesInv, ViewTypes
<1>3. /\ stack' \in [0..(MaxPage + 1) -> Nat]
      /\ \A l \in 0..(MaxPage + 1) : stack'[l] = IF l = k + 1 /\ Has(k) /\ data[k].next # 0 THEN data[k].next ELSE stack[l]
  BY <1>1, <1>2, NoteIs
<1>4. stack'[0] = 0 /\ \A l \in Borders : stack'[l] \in {0, stack[l]} \/ (Has(l - 1) /\ stack'[l] = data[l - 1].next)
  BY <1>2, <1>3, PageNumbers DEF Starts
<1>5. \A j : Has(j)' <=> Has(j)
  BY <1>1 DEF Has
<1> at \in Nat /\ at \in Page /\ k \in Nat
  BY Seen, PageNumbers
<1>6. ASSUME NEW j \in Page, j < k
      PROVE  request[j] = Absent /\ (Has(j) => stack[j + 1] = data[j].next)
  <2>1. CASE j < at
    BY <2>1, Seen
  <2>2. CASE ~ (j < at)
    <3>1. j = at /\ k = at + 1
      BY <1>6, <2>2, PageNumbers
    <3>2. QED
      BY <3>1, Seen
  <2>3. QED
    BY <2>1, <2>2
<1>7. ASSUME NEW l \in Borders, l <= k PROVE stack[l] # 0
  <2>1. CASE l <= at
    BY <2>1, Seen
  <2>2. CASE ~ (l <= at)
    <3>1. l = at + 1 /\ k = at + 1
      BY <1>7, <2>2, PageNumbers
    <3>2. QED
      BY <3>1, Seen
  <2>3. QED
    BY <2>1, <2>2
<1>8. \A j \in Page : request'[j] = request[j] \/ j = k
  BY <1>1, <1>2, ObserveIs DEF ViewTypes
<1>9. Visited'
  <2>1. ASSUME NEW j \in Page, j < k
        PROVE  request'[j] = Absent /\ (Has(j) => stack'[j + 1] = data[j].next)
    <3>1. j + 1 \in 0..(MaxPage + 1) /\ j + 1 # k + 1 /\ j # k
      BY <2>1, PageNumbers
    <3>2. stack'[j + 1] = stack[j + 1] /\ request'[j] = request[j]
      BY <1>3, <1>8, <3>1
    <3>3. QED
      BY <1>6, <2>1, <3>2
  <2>2. \A l \in Borders : l <= k => stack'[l] # 0
    BY <1>3, <1>7, PageNumbers
  <2>3. Has(k) /\ data[k].next # 0 => stack'[k + 1] = data[k].next
    BY <1>3, PageNumbers
  <2>4. QED
    BY <1>1, <1>5, <2>1, <2>2, <2>3 DEF Visited
<1>10. k # 0 => /\ stack[k] # 0 /\ stack'[k] = stack[k]
                /\ Has(k - 1) => stack[k] = data[k - 1].next
  BY <1>3, <1>6, <1>7, PageNumbers
<1>11. \/ request' = request
       \/ /\ at' \in Page /\ request[at'] = Absent
          /\ at' # 0 => /\ stack[at'] # 0
                        /\ stack'[at'] = stack[at'] \/ stack'[at'] = 0
                        /\ Has(at' - 1) => stack[at'] = data[at' - 1].next
          /\ request' = [request EXCEPT ![at'] = Asked(at')]
  BY <1>1, <1>10, ObserveIs
<1>12. QED
  BY <1>1, <1>3, <1>4, <1>9, <1>11, Looks

\* The next page.
LEMMA TurnedOn == PagesInv /\ NextPage => PagesInv'
<1> SUFFICES ASSUME PagesInv, NextPage PROVE PagesInv'
  OBVIOUS
<1>1. /\ at # Away /\ data[at] # Absent /\ request[at] = Absent /\ at < MaxPage /\ data[at].next # 0
      /\ Turn(at + 1)
  BY DEF NextPage, Buttons
<1>2. at \in Page
  BY <1>1, Seen
<1>3. at + 1 \in Page /\ Has(at)
  BY <1>1, <1>2, PagesAssumption DEF Page, Has
<1>4. QED
  BY <1>1, <1>3, Turned

\* The page before.
LEMMA TurnedBack == PagesInv /\ PreviousPage => PagesInv'
<1> SUFFICES ASSUME PagesInv, PreviousPage PROVE PagesInv'
  OBVIOUS
<1>1. at # Away /\ at > 0 /\ Turn(at - 1)
  BY DEF PreviousPage, Buttons
<1>2. at \in Page
  BY <1>1, Seen
<1>3. at - 1 \in Page /\ at - 1 < at
  BY <1>1, <1>2, PagesAssumption DEF Page
<1>4. QED
  BY <1>1, <1>3, Turned

\* A page is asked for again.
LEMMA AskedAgain == PagesInv /\ AskAgain => PagesInv'
<1> SUFFICES ASSUME PagesInv, AskAgain PROVE PagesInv'
  OBVIOUS
<1>1. /\ at # Away /\ request[at] = Absent /\ request' = [request EXCEPT ![at] = Asked(at)]
      /\ UNCHANGED <<vars, at, stack, data, fresh>>
  BY DEF AskAgain, Ask
<1>2. ViewTypes /\ Starts /\ at \in Page
  BY <1>1, Seen DEF PagesInv
<1>3. stack' \in [0..(MaxPage + 1) -> Nat] /\ stack'[0] = 0
  BY <1>1, <1>2 DEF ViewTypes, Starts
<1>4. at # 0 => /\ stack[at] # 0
                /\ Has(at - 1) => stack[at] = data[at - 1].next
  BY <1>1, <1>2, Seen, PageNumbers
<1>5. \A j \in Page : request'[j] = request[j] \/ j = at
  BY <1>1, <1>2 DEF ViewTypes
<1>6. \A j : Has(j)' <=> Has(j)
  BY <1>1 DEF Has
<1>7. Visited'
  <2>1. \A j \in Page : j < at => request'[j] = Absent
    BY <1>1, <1>2, <1>5, Seen, PageNumbers
  <2>2. QED
    BY <1>1, <1>6, <2>1, Seen DEF Visited
<1>8. \/ request' = request
      \/ /\ at' \in Page /\ request[at'] = Absent
         /\ at' # 0 => /\ stack[at'] # 0
                       /\ stack'[at'] = stack[at'] \/ stack'[at'] = 0
                       /\ Has(at' - 1) => stack[at'] = data[at' - 1].next
         /\ request' = [request EXCEPT ![at'] = Asked(at')]
  BY <1>1, <1>2, <1>4
<1>9. at' \in Page \cup {Away} /\ \A l \in Borders : stack'[l] \in {0, stack[l]}
  BY <1>1, <1>2
<1>10. QED
  BY <1>1, <1>3, <1>7, <1>8, <1>9, Looks

-----------------------------------------------------------------------------
(* Failing, dropping, growing stale.                                       *)

\* A step that only drops data and requests.
LEMMA Lost ==
  ASSUME PagesInv, UNCHANGED <<vars, at, stack>>,
         data' \in [Page -> Queries \cup {Absent}], request' \in [Page -> Requests \cup {Absent}],
         \A k \in Page : data'[k] \in {data[k], Absent} /\ request'[k] \in {request[k], Absent},
         fresh' \in Seq(Page), \A k \in Page : Contains(fresh', k) => Has(k)'
  PROVE  PagesInv'
<1>1. ViewTypes /\ Starts /\ PagesSound /\ Behind /\ Apart /\ Later /\ Ended /\ Visited /\ Joined
  BY DEF PagesInv
<1>2. ASSUME NEW k \in Page
      PROVE  /\ Has(k)' => Has(k) /\ data'[k] = data[k]
             /\ Asking(k)' => Asking(k) /\ request'[k] = request[k]
             /\ Served(k)' => Served(k) /\ request'[k] = request[k]
             /\ (Asking(k)' /\ ~ Served(k)') => ~ Served(k)
  BY DEF Has, Asking, Served
<1>3. ViewTypes'
  BY <1>1 DEF ViewTypes
<1>4. Starts' /\ PagesSound' /\ Joined'
  BY <1>1, <1>2, SameChain, PageNumbers, ZenonT(60) DEF Starts, PagesSound, Joined
<1>5. ASSUME NEW l \in Borders, NEW c \in Nat
      PROVE  (Sent(l, c)' => Sent(l, c)) /\ (Made(l, c)' => Made(l, c))
  BY <1>2, PageNumbers DEF Sent, Made, Has, Asking, Served
<1>6. \A l \in Borders, c \in Nat : Held(l, c)' => Held(l, c)
  BY <1>5 DEF Held
<1>7. ASSUME NEW k \in Page, NEW c \in Nat, Ahead(k, c)' PROVE Ahead(k, c)
  <2>1. CASE k = 0
    BY <1>1, <1>7, <2>1 DEF Ahead, Starts
  <2>2. CASE k # 0
    BY <1>2, <1>5, <1>7, <2>2, PageNumbers DEF Ahead
  <2>3. QED
    BY <2>1, <2>2
<1>8. Behind' /\ Apart'
  <2>1. UNCHANGED vars /\ \A k \in Page, c \in Nat : Ahead(k, c)' => Ahead(k, c)
    BY <1>7
  <2>2. QED
    BY <1>6, <2>1, NoneMade
<1>9. Later'
  <2>1. ASSUME NEW k \in Page, NEW d \in Nat
        PROVE  (Sent(k + 1, d)' => Sent(k + 1, d)) /\ (Held(k + 1, d)' => Held(k + 1, d))
    BY <1>5, <1>6, PageNumbers
  <2>2. QED
    BY <1>1, <1>2, <2>1, SameChain DEF Later
<1>10. Ended'
  BY <1>1, <1>2, <1>5, <1>6 DEF Ended
<1>11. Visited'
  <2>1. \A k \in Page : request[k] = Absent => request'[k] = Absent
    OBVIOUS
  <2>2. at # Away => at \in Page
    BY <1>1 DEF ViewTypes
  <2>3. QED
    BY <1>1, <1>2, <2>1, <2>2 DEF Visited
<1>12. QED
  BY <1>3, <1>4, <1>8, <1>9, <1>10, <1>11 DEF PagesInv

\* A request fails.
LEMMA Failed == ASSUME PagesInv, NEW k \in Page, RequestFails(k) PROVE PagesInv'
<1>1. request' = [request EXCEPT ![k] = Absent] /\ UNCHANGED <<vars, at, stack, data, fresh>>
  BY DEF RequestFails
<1>2. ViewTypes
  BY DEF PagesInv
<1>3. /\ request' \in [Page -> Requests \cup {Absent}]
      /\ \A j \in Page : request'[j] \in {request[j], Absent}
  BY <1>1, <1>2 DEF ViewTypes
<1>4. /\ data' \in [Page -> Queries \cup {Absent}] /\ fresh' \in Seq(Page)
      /\ \A j \in Page : Contains(fresh', j) => Has(j)'
  BY <1>1, <1>2 DEF ViewTypes, Has
<1>5. QED
  BY <1>1, <1>3, <1>4, Lost

\* A query is dropped.
LEMMA Dropped == ASSUME PagesInv, NEW k \in Page, DropQuery(k) PROVE PagesInv'
<1>1. /\ ~ Contains(fresh, k) /\ data' = [data EXCEPT ![k] = Absent]
      /\ UNCHANGED <<vars, at, stack, request, fresh>>
  BY DEF DropQuery
<1>2. ViewTypes
  BY DEF PagesInv
<1>3. /\ data' \in [Page -> Queries \cup {Absent}]
      /\ \A j \in Page : data'[j] \in {data[j], Absent} /\ (j # k => data'[j] = data[j])
  BY <1>1, <1>2 DEF ViewTypes
<1>4. \A j \in Page : Contains(fresh, j) => Has(j)'
  BY <1>1, <1>2, <1>3 DEF ViewTypes, Has
<1>5. /\ request' \in [Page -> Requests \cup {Absent}] /\ fresh' \in Seq(Page)
      /\ \A j \in Page : Contains(fresh', j) => Has(j)'
  BY <1>1, <1>2, <1>4 DEF ViewTypes
<1>6. QED
  BY <1>1, <1>3, <1>5, Lost

\* Data grow stale.
LEMMA Staled == PagesInv /\ GoStale => PagesInv'
<1> SUFFICES ASSUME PagesInv, GoStale PROVE PagesInv'
  OBVIOUS
<1>1. fresh # <<>> /\ fresh' = Tail(fresh) /\ UNCHANGED <<vars, at, stack, data, request>>
  BY DEF GoStale
<1>2. ViewTypes
  BY DEF PagesInv
<1>3. /\ fresh' \in Seq(Page)
      /\ \A j \in Page : Contains(fresh', j) => Contains(fresh, j)
  <2>1. fresh \in Seq(Page)
    BY <1>2 DEF ViewTypes
  <2>2. QED
    BY <1>1, <2>1 DEF Contains
<1>4. \A j \in Page : Contains(fresh', j) => Has(j)'
  BY <1>1, <1>2, <1>3 DEF ViewTypes, Has
<1>5. data' \in [Page -> Queries \cup {Absent}] /\ request' \in [Page -> Requests \cup {Absent}]
  BY <1>1, <1>2 DEF ViewTypes
<1>6. QED
  BY <1>1, <1>3, <1>4, <1>5, Lost

-----------------------------------------------------------------------------
(* Room for the pages.                                                     *)

\* Of the pages that l - k pages hold there is one.
LEMMA PagesBetween ==
  ASSUME NEW k \in Page, NEW l \in Borders, k < l
  PROVE  /\ (l - k) * PAGE_SIZE \in Nat /\ (l - k) * PAGE_SIZE >= PAGE_SIZE /\ PAGE_SIZE \in Nat /\ PAGE_SIZE >= 1
         /\ (l - k) * PAGE_SIZE - PAGE_SIZE = (l - (k + 1)) * PAGE_SIZE
<1>1. PAGE_SIZE \in Nat /\ PAGE_SIZE >= 1 /\ k \in Nat /\ l \in Nat
  BY PagesAssumption, PageNumbers
<1>2. l - k \in Nat /\ l - k >= 1
  BY <1>1
<1>3. \A m \in Nat, p \in Nat : m >= 1 => m * p \in Nat /\ m * p >= p /\ m * p - p = (m - 1) * p
  OBVIOUS
<1>4. (l - k) - 1 = l - (k + 1)
  BY <1>1
<1>5. QED
  BY <1>1, <1>2, <1>3, <1>4

\* A cursor that is sent or given is behind one an earlier answer is made from.
LEMMA Between ==
  ASSUME PagesInv, TypeOK, NEW k \in Page, NEW l \in Borders, k < l,
         NEW e \in Nat, NEW d \in Nat, Ahead(k, e), Held(l, d)
  PROVE  /\ Cardinality(Gap(e, d)) \in Nat /\ Cardinality(Gap(e, d)) >= (l - k) * PAGE_SIZE
         /\ Cardinality(Gap(e, d)) >= PAGE_SIZE /\ Below(e, d)
<1>1. Cardinality(Gap(e, d)) \in Nat /\ Cardinality(Gap(e, d)) >= (l - k) * PAGE_SIZE
  BY GapFinite DEF PagesInv, Apart
<1>2. Cardinality(Gap(e, d)) >= PAGE_SIZE /\ Cardinality(Gap(e, d)) # 0
  BY <1>1, PagesBetween
<1>3. Gap(e, d) # {}
  BY <1>2, FS_EmptySet
<1>4. d \in Table
  BY DEF PagesInv, Behind
<1>5. Below(e, d)
  <2>1. SUFFICES ASSUME e # 0 PROVE Newer(e, d)
    BY DEF Below
  <2>2. k # 0
    BY <2>1 DEF Ahead
  <2>3. e \in Table
    <3>1. CASE Asking(k) /\ e = request[k].from
      <4>1. Sent(k, e) /\ Held(k, e) /\ k \in Borders
        BY <2>1, <2>2, <3>1, PageNumbers DEF Held, Sent
      <4>2. QED
        BY <4>1 DEF PagesInv, Behind
    <3>2. CASE e = stack[k] \/ Made(k, e)
      <4>1. Held(k, e) /\ k \in Borders
        BY <2>1, <2>2, <3>2, PageNumbers DEF Held, Sent
      <4>2. QED
        BY <4>1 DEF PagesInv, Behind
    <3>3. QED
      BY <3>1, <3>2 DEF Ahead
  <2>4. PICK r \in Table : Newer(e, r) /\ AtLeast(r, d)
    BY <1>3, <2>1 DEF Gap, Below
  <2>5. QED
    BY <1>4, <2>3, <2>4, TableRows, NewerTransitive DEF AtLeast
<1>6. QED
  BY <1>1, <1>2, <1>5

-----------------------------------------------------------------------------
(* A page is made.                                                         *)

\* The page behind the cursor of a request is made.
LEMMA ServedIs ==
  ASSUME PagesInv, TypeOK, Distinct, NEW k \in Page, ServeRequest(k)
  PROVE  PagesInv'
<1> DEFINE f == request[k].from
           p == PageFrom(f)
           n == p.next
<1>1. ViewTypes /\ Starts /\ PagesSound /\ Behind /\ Apart /\ Later /\ Ended /\ Visited /\ Joined
  BY DEF PagesInv
<1>2. /\ Asking(k) /\ ~ Served(k)
      /\ request' = [request EXCEPT ![k].answer = p]
      /\ UNCHANGED <<vars, at, stack, data, fresh>>
  BY DEF ServeRequest, Asking, Served
<1>3. f \in Nat /\ request[k].after \in BOOLEAN /\ request[k] \in Requests
  BY <1>1, <1>2, Fields
<1>4. f = 0 <=> k = 0
  BY <1>1, <1>2 DEF Starts
<1>5. f # 0 => k \in Borders /\ Held(k, f) /\ f \in Table
  BY <1>1, <1>2, <1>3, <1>4, PageNumbers DEF Behind, Held, Sent
<1>6. Ahead(k, f)
  BY <1>2, <1>4 DEF Ahead
<1>7. /\ p \in Answers /\ PageSound(p.rows, f, n) /\ n \in Nat
      /\ n = 0 => Cardinality({r \in Table : Below(f, r)}) <= PAGE_SIZE
      /\ n # 0 => /\ n \in Table /\ Below(f, n)
                  /\ Cardinality(Gap(f, n)) = PAGE_SIZE
                  /\ \E r \in Table : Newer(n, r)
  <2>1. f \in Table \cup {0}
    BY <1>5
  <2> HIDE DEF f
  <2>2. p \in Answers
    BY <2>1, PageFromIs
  <2>3. n \in Nat
    BY <2>2 DEF Answers
  <2>4. QED
    BY <2>1, <2>2, <2>3, PageFromIs
<1> HIDE DEF n, p, f
<1>8. /\ request' \in [Page -> Requests \cup {Absent}]
      /\ \A j \in Page : j # k => request'[j] = request[j]
      /\ request'[k].from = f /\ request'[k].after = request[k].after /\ request'[k].answer = p
      /\ request'[k] # Absent
  <2>1. request'[k] = [request[k] EXCEPT !.answer = p]
    BY <1>1, <1>2 DEF ViewTypes
  <2>2. request'[k] \in Requests
    BY <1>3, <1>7, <2>1 DEF Requests
  <2>3. request'[k].from = f /\ request'[k].after = request[k].after /\ request'[k].answer = p
    BY <1>3, <2>1 DEF Requests, f
  <2>4. Requests \cup {Absent} = Requests \cup {Absent} /\ Absent \notin Requests
    BY PagesAssumption
  <2>5. QED
    BY <1>1, <1>2, <2>2, <2>3, <2>4 DEF ViewTypes
<1>9. p # Absent
  BY <1>7, PagesAssumption
<1>10. ASSUME NEW j \in Page
       PROVE  /\ Has(j)' <=> Has(j)
              /\ Asking(j)' <=> Asking(j)
              /\ request'[j].from = request[j].from /\ request'[j].after = request[j].after
              /\ Served(j)' <=> Served(j) \/ j = k
              /\ j # k => request'[j] = request[j]
  BY <1>2, <1>8, <1>9 DEF Has, Asking, Served, f
<1>11. ViewTypes' /\ Starts' /\ Joined'
  <2>1. ViewTypes'
    BY <1>1, <1>2, <1>8, <1>10 DEF ViewTypes
  <2>2. Starts' /\ Joined'
    BY <1>1, <1>2, <1>10, PageNumbers, ZenonT(60) DEF Starts, Joined
  <2>3. QED
    BY <2>1, <2>2
<1>12. PagesSound'
  <2>1. ASSUME NEW j \in Page, Served(j)'
        PROVE  PageSound(request'[j].answer.rows, request'[j].from, request'[j].answer.next)
    <3>1. CASE j = k
      BY <1>7, <1>8, <3>1 DEF n
    <3>2. CASE j # k
      BY <1>1, <1>10, <2>1, <3>2 DEF PagesSound
    <3>3. QED
      BY <3>1, <3>2
  <2>2. QED
    BY <1>1, <1>2, <1>10, <2>1, SameChain DEF PagesSound
<1>13. ASSUME NEW l \in Borders, NEW c \in Nat
       PROVE  /\ Sent(l, c)' <=> Sent(l, c)
              /\ (Made(l, c)' => (Made(l, c) \/ (l = k + 1 /\ c = n)))
  <2>1. l - 1 \in Page /\ l - 1 + 1 = l
    BY PageNumbers
  <2>2. (l \in Page => request'[l].from = request[l].from)
    BY <1>10
  <2>3. Sent(l, c)' <=> Sent(l, c)
    BY <1>2, <1>10, <2>2 DEF Sent, Has, Asking
  <2>4. Made(l, c)' => (Made(l, c) \/ (l = k + 1 /\ c = n))
    <3>1. CASE l - 1 = k
      BY <1>2, <1>8, <2>1, <3>1 DEF Made, Has, n
    <3>2. CASE l - 1 # k
      BY <1>2, <1>10, <2>1, <3>2 DEF Made, Has
    <3>3. QED
      BY <3>1, <3>2
  <2>5. QED
    BY <2>3, <2>4
<1>14. ASSUME NEW l \in Borders, NEW c \in Nat, Held(l, c)'
       PROVE  Held(l, c) \/ (l = k + 1 /\ c = n /\ n # 0)
  BY <1>13, <1>14 DEF Held
<1>15. ASSUME NEW j \in Page, NEW c \in Nat, Ahead(j, c)'
       PROVE  Ahead(j, c) \/ (j = k + 1 /\ c = n /\ n # 0)
  <2>1. CASE j = 0
    BY <1>1, <1>15, <2>1 DEF Ahead, Starts
  <2>2. CASE j # 0
    <3>1. j \in Borders
      BY <2>2, PageNumbers
    <3>2. c # 0 /\ (c = stack[j] \/ Made(j, c)' \/ (Asking(j) /\ ~ Served(j) /\ c = request[j].from))
      BY <1>2, <1>10, <1>15, <2>2 DEF Ahead
    <3>3. c = stack[j] \/ Made(j, c) \/ (j = k + 1 /\ c = n) \/ (Asking(j) /\ ~ Served(j) /\ c = request[j].from)
      BY <1>13, <3>1, <3>2
    <3>4. QED
      BY <2>2, <3>2, <3>3 DEF Ahead
  <2>3. QED
    BY <2>1, <2>2
<1>16. Behind'
  BY <1>1, <1>2, <1>7, <1>14, SameChain DEF Behind
<1>17. k \in Nat /\ PAGE_SIZE \in Nat /\ PAGE_SIZE >= 1
  BY PageNumbers, PagesAssumption
\* The rows up to a cursor that is held further on.
<1>18. ASSUME NEW l \in Borders, NEW d \in Nat, k < l, Held(l, d)
       PROVE  /\ d \in Table /\ Cardinality(Gap(f, d)) \in Nat /\ Cardinality(Gap(f, d)) >= (l - k) * PAGE_SIZE
              /\ Cardinality(Gap(f, d)) >= PAGE_SIZE /\ Below(f, d)
              /\ n # 0 => AtLeast(n, d)
  <2>1. /\ Cardinality(Gap(f, d)) \in Nat /\ Cardinality(Gap(f, d)) >= (l - k) * PAGE_SIZE
        /\ Cardinality(Gap(f, d)) >= PAGE_SIZE /\ Below(f, d)
    BY <1>3, <1>6, <1>18, Between
  <2>2. d \in Table
    BY <1>1, <1>18 DEF Behind
  <2>3. n # 0 => AtLeast(n, d)
    BY <1>5, <1>7, <1>17, <2>1, <2>2, GapOver
  <2>4. QED
    BY <2>1, <2>2, <2>3
<1>19. Apart'
  <2>1. SUFFICES ASSUME NEW j \in Page, NEW l \in Borders, NEW e \in Nat, NEW d \in Nat,
                        j < l, Ahead(j, e)', Held(l, d)'
                 PROVE  Cardinality(Gap(e, d)) >= (l - j) * PAGE_SIZE
    BY <1>2, SameChain DEF Apart
  <2>2. CASE Ahead(j, e) /\ Held(l, d)
    BY <1>1, <2>1, <2>2 DEF Apart
  <2>3. CASE j = k + 1 /\ e = n /\ n # 0 /\ Held(l, d)
    <3>1. k < l /\ k + 1 < l /\ l \in Nat
      BY <2>1, <2>3, <1>17, PageNumbers
    <3>2. d \in Table /\ Cardinality(Gap(f, d)) \in Nat /\ Cardinality(Gap(f, d)) >= (l - k) * PAGE_SIZE /\ AtLeast(n, d)
      BY <1>18, <2>3, <3>1
    <3>3. Cardinality(Gap(f, d)) = Cardinality(Gap(f, n)) + Cardinality(Gap(n, d))
      BY <1>5, <1>7, <2>3, <3>2, GapSplit
    <3>4. Cardinality(Gap(n, d)) \in Nat /\ Cardinality(Gap(f, n)) = PAGE_SIZE
      BY <1>7, <2>3, GapFinite
    <3>5. (l - k) * PAGE_SIZE - PAGE_SIZE = (l - (k + 1)) * PAGE_SIZE /\ (l - k) * PAGE_SIZE \in Nat
      BY <3>1, PagesBetween
    <3>6. QED
      BY <1>17, <2>3, <3>2, <3>3, <3>4, <3>5
  <2>4. CASE Ahead(j, e) /\ l = k + 1 /\ d = n /\ n # 0
    <3>1. j \in Nat /\ j <= k /\ Cardinality(Gap(f, n)) = PAGE_SIZE /\ Cardinality(Gap(e, n)) \in Nat
      BY <1>7, <1>17, <2>1, <2>4, PageNumbers, GapFinite
    <3>2. CASE j = k
      <4>1. e = f \/ (f \in Table /\ e \in Table /\ AtLeast(e, f) /\ e # 0 /\ f # 0)
        <5>1. CASE k = 0
          BY <1>4, <2>4, <3>2, <5>1 DEF Ahead
        <5>2. CASE k # 0
          <6>1. f # 0 /\ e # 0 /\ k \in Borders /\ Held(k, f) /\ f \in Table /\ k - 1 \in Page /\ (k - 1) + 1 = k /\ Sent(k, f)
            BY <1>2, <1>4, <1>5, <2>4, <3>2, <5>2, PageNumbers DEF Ahead, Sent, f
          <6>2. CASE e = stack[k]
            <7>1. Held(k, e)
              BY <6>1, <6>2 DEF Held, Sent
            <7>2. AtLeast(e, f)
              BY <1>1, <1>2, <6>1, <6>2, <5>2 DEF Later, f
            <7>3. QED
              BY <1>1, <6>1, <7>1, <7>2 DEF Behind
          <6>3. CASE Made(k, e)
            <7>1. Held(k, e)
              BY <6>1, <6>3 DEF Held
            <7>2. AtLeast(e, f)
              BY <1>1, <1>3, <6>1, <6>3 DEF Later, Made
            <7>3. QED
              BY <1>1, <6>1, <7>1, <7>2 DEF Behind
          <6>4. QED
            BY <2>4, <3>2, <6>2, <6>3 DEF Ahead, f
        <5>3. QED
          BY <5>1, <5>2
      <4>2. Gap(f, n) \subseteq Gap(e, n)
        <5>1. CASE e = f
          BY <5>1
        <5>2. CASE f \in Table /\ e \in Table /\ AtLeast(e, f) /\ e # 0 /\ f # 0
          <6>1. Table \in SUBSET (1..Len(txs))
            BY TableRows
          <6>2. ASSUME NEW r \in Table, Newer(f, r) PROVE Newer(e, r)
            BY <5>2, <6>1, <6>2, NewerTransitive DEF AtLeast
          <6>3. QED
            BY <5>2, <6>2 DEF Gap, Below
        <5>3. QED
          BY <4>1, <5>1, <5>2
      <4>3. Cardinality(Gap(f, n)) <= Cardinality(Gap(e, n))
        BY <4>2, GapFinite, FS_Subset
      <4>4. (l - j) * PAGE_SIZE = PAGE_SIZE
        <5>1. l - j = 1
          BY <1>17, <2>4, <3>2
        <5>2. QED
          BY <1>17, <5>1
      <4>5. QED
        BY <2>4, <3>1, <4>3, <4>4
    <3>3. CASE j < k
      <4>1. k # 0 /\ f # 0 /\ k \in Borders /\ Held(k, f) /\ f \in Table
        BY <1>4, <1>5, <3>1, <3>3
      <4>2. /\ Cardinality(Gap(e, f)) \in Nat /\ Cardinality(Gap(e, f)) >= (k - j) * PAGE_SIZE /\ Below(e, f)
        BY <1>3, <2>4, <3>3, <4>1, Between
      <4>3. e \in Table \cup {0}
        <5>1. SUFFICES ASSUME e # 0 PROVE e \in Table
          OBVIOUS
        <5>2. j \in Borders /\ Held(j, e)
          BY <2>4, <5>1, PageNumbers DEF Ahead, Held, Sent
        <5>3. QED
          BY <1>1, <5>2 DEF Behind
      <4>4. AtLeast(f, n) /\ n \in Table
        BY <1>7, <2>4, <4>1 DEF Below, AtLeast
      <4>5. Cardinality(Gap(e, n)) = Cardinality(Gap(e, f)) + Cardinality(Gap(f, n))
        BY <4>1, <4>2, <4>3, <4>4, GapSplit
      <4>6. (l - j) * PAGE_SIZE = (k - j) * PAGE_SIZE + PAGE_SIZE
        <5>1. (l - j) * PAGE_SIZE - PAGE_SIZE = (l - (j + 1)) * PAGE_SIZE /\ (l - j) * PAGE_SIZE \in Nat
          BY <2>1, PagesBetween
        <5>2. l - (j + 1) = k - j
          BY <1>17, <2>4, <3>1
        <5>3. (k - j) * PAGE_SIZE \in Nat
          BY <3>3, <4>1, PagesBetween
        <5>4. (l - j) * PAGE_SIZE - PAGE_SIZE = (k - j) * PAGE_SIZE
          BY <5>1, <5>2, Zenon
        <5> DEFINE X == (l - j) * PAGE_SIZE
                   Y == (k - j) * PAGE_SIZE
        <5>5. X \in Nat /\ Y \in Nat /\ X - PAGE_SIZE = Y
          BY <5>1, <5>3, <5>4
        <5> HIDE DEF X, Y
        <5>6. X = Y + PAGE_SIZE
          BY <1>17, <5>5
        <5>7. QED
          BY <5>6 DEF X, Y
      <4>7. (k - j) * PAGE_SIZE \in Nat
        BY <3>3, <4>1, PagesBetween
      <4>8. QED
        BY <1>17, <2>4, <3>1, <4>2, <4>5, <4>6, <4>7
    <3>4. QED
      BY <1>17, <3>1, <3>2, <3>3
  <2>5. ~ (j = k + 1 /\ l = k + 1)
    BY <2>1, <1>17
  <2>6. QED
    BY <1>14, <1>15, <2>1, <2>2, <2>3, <2>4, <2>5
<1>20. Later'
  <2>1. ASSUME NEW j \in Page, NEW d \in Nat, Has(j), data[j].next # 0, d # 0, Sent(j + 1, d)'
        PROVE  AtLeast(data[j].next, d)
    BY <1>1, <1>13, <2>1, PageNumbers DEF Later
  <2>2. ASSUME NEW j \in Page, NEW d \in Nat, Served(j)', request'[j].answer.next # 0, Held(j + 1, d)'
        PROVE  AtLeast(request'[j].answer.next, d)
    <3>1. j + 1 \in Borders /\ j \in Nat
      BY PageNumbers
    <3>2. CASE j # k
      <4>1. Held(j + 1, d)
        BY <1>14, <1>17, <2>2, <3>1, <3>2
      <4>2. QED
        BY <1>1, <1>10, <2>2, <3>2, <4>1 DEF Later
    <3>3. CASE j = k
      <4>1. request'[j].answer.next = n /\ k < k + 1
        BY <1>8, <1>17, <3>3 DEF n
      <4>2. CASE Held(k + 1, d)
        BY <1>18, <2>2, <3>1, <3>3, <4>1, <4>2
      <4>3. CASE d = n
        BY <4>1, <4>3 DEF AtLeast
      <4>4. QED
        BY <1>14, <2>2, <3>1, <3>3, <4>2, <4>3
    <3>4. QED
      BY <3>2, <3>3
  <2>3. \A j \in Page \ {0} : stack[j] # 0 /\ Asking(j)' => AtLeast(stack[j], request'[j].from)
    BY <1>1, <1>10 DEF Later
  <2>4. QED
    BY <1>2, <1>10, <2>1, <2>2, <2>3, SameChain DEF Later
<1>21. Ended'
  <2>1. ASSUME NEW j \in Page, Has(j), data[j].next = 0, NEW l \in Borders, NEW d \in Nat \ {0}, j < l
        PROVE  ~ Sent(l, d)' /\ (j + 1 < l => ~ Made(l, d)')
    <3>1. ~ Sent(l, d) /\ (j + 1 < l => ~ Made(l, d))
      BY <1>1, <2>1 DEF Ended
    <3>2. ASSUME j + 1 < l, l = k + 1, d = n PROVE FALSE
      <4>1. j \in Nat /\ j < k /\ k # 0
        BY <1>17, <3>2, PageNumbers
      <4>2. k \in Borders /\ f # 0 /\ Sent(k, f)
        BY <1>2, <1>4, <1>5, <4>1 DEF Sent, f
      <4>3. QED
        BY <1>1, <1>3, <2>1, <4>1, <4>2 DEF Ended
    <3>3. QED
      BY <1>13, <3>1, <3>2
  <2>2. ASSUME NEW j \in Page, Served(j)', request'[j].answer.next = 0, NEW l \in Borders, NEW d \in Nat, j < l, Held(l, d)'
        PROVE  FALSE
    <3>1. CASE j # k
      <4>1. Served(j) /\ request[j].answer.next = 0
        BY <1>10, <2>2, <3>1
      <4>2. ~ Held(l, d)
        BY <1>1, <2>2, <4>1 DEF Ended
      <4>3. l = k + 1 /\ j \in Nat
        BY <1>14, <2>2, <4>2, PageNumbers
      <4>4. j < k /\ k # 0
        BY <1>17, <2>2, <3>1, <4>3
      <4>5. QED
        BY <1>1, <1>3, <1>4, <1>5, <4>1, <4>4 DEF Ended
    <3>2. CASE j = k
      <4>1. n = 0
        BY <1>8, <2>2, <3>2 DEF n
      <4>2. Held(l, d)
        BY <1>14, <2>2, <4>1
      <4>3. d \in Table /\ Cardinality(Gap(f, d)) \in Nat /\ Cardinality(Gap(f, d)) >= PAGE_SIZE /\ Below(f, d)
        BY <1>18, <2>2, <3>2, <4>2
      <4>4. PICK r \in Table : Newer(d, r)
        BY <1>1, <2>2, <4>2 DEF Behind
      <4> DEFINE rest == {x \in Table : Below(f, x)}
      <4>5. rest \in SUBSET (1..Len(txs)) /\ IsFiniteSet(rest) /\ Cardinality(rest) \in Nat
        BY TableRows, RowsFinite, FS_CardinalityType
      <4>6. Gap(f, d) \subseteq rest /\ r \in rest /\ r \notin Gap(f, d)
        <5>1. Table \in SUBSET (1..Len(txs))
          BY TableRows
        <5>2. Below(f, r)
          BY <1>5, <4>3, <4>4, <5>1, NewerTransitive DEF Below
        <5>3. ~ AtLeast(r, d)
          BY <4>3, <4>4, <5>1, NewerTransitive, NewerIrreflexive DEF AtLeast
        <5>4. QED
          BY <5>2, <5>3 DEF Gap
      <4>7. Cardinality(rest) <= PAGE_SIZE
        BY <1>7, <4>1
      <4> HIDE DEF rest
      <4>8. IsFiniteSet(rest \ {r}) /\ Cardinality(rest \ {r}) = Cardinality(rest) - 1
        BY <4>5, <4>6, FS_RemoveElement
      <4>9. Cardinality(Gap(f, d)) <= Cardinality(rest \ {r})
        BY <4>6, <4>8, FS_Subset
      <4>10. QED
        BY <1>17, <4>3, <4>5, <4>7, <4>8, <4>9
    <3>3. QED
      BY <3>1, <3>2
  <2>3. QED
    BY <1>2, <1>10, <2>1, <2>2 DEF Ended
<1>22. Visited'
  <2>1. at # Away => at \in Page
    BY <1>1 DEF ViewTypes
  <2>2. \A j \in Page : request[j] = Absent => request'[j] = Absent
    BY <1>2, <1>8 DEF Asking
  <2>3. QED
    BY <1>1, <1>2, <1>10, <2>1, <2>2 DEF Visited
<1>23. QED
  BY <1>11, <1>12, <1>16, <1>19, <1>20, <1>21, <1>22 DEF PagesInv

-----------------------------------------------------------------------------
(* An answer comes.                                                        *)

\* What Before leaves of the data, and of the requests.
LEMMA DataBefore ==
  ASSUME NEW k \in Page, NEW q \in [Page -> Queries \cup {Absent}]
  PROVE  /\ Before(k, q) \in [Page -> Queries \cup {Absent}]
         /\ \A j \in Page :
              /\ Before(k, q)[j] = Absent <=> q[j] = Absent
              /\ j # k + 1 => Before(k, q)[j] = q[j]
              /\ q[j] # Absent => /\ Before(k, q)[j].from = q[j].from /\ Before(k, q)[j].rows = q[j].rows
                                  /\ Before(k, q)[j].next = q[j].next
                                  /\ j = k + 1 => Before(k, q)[j].after = FALSE
<1> SUFFICES ASSUME NEW j \in Page
             PROVE  /\ Before(k, q)[j] \in Queries \cup {Absent}
                    /\ Before(k, q)[j] = Absent <=> q[j] = Absent
                    /\ j # k + 1 => Before(k, q)[j] = q[j]
                    /\ q[j] # Absent => /\ Before(k, q)[j].from = q[j].from /\ Before(k, q)[j].rows = q[j].rows
                                        /\ Before(k, q)[j].next = q[j].next
                                        /\ j = k + 1 => Before(k, q)[j].after = FALSE
  BY DEF Before
<1>1. CASE j = k + 1 /\ q[j] # Absent
  <2>1. q[j] \in Queries /\ Before(k, q)[j] = [q[j] EXCEPT !.after = FALSE]
    BY <1>1 DEF Before
  <2>2. Before(k, q)[j] \in Queries
    BY <2>1 DEF Queries
  <2>3. QED
    BY <1>1, <2>1, <2>2, PagesAssumption DEF Queries
<1>2. CASE ~ (j = k + 1 /\ q[j] # Absent)
  <2>1. Before(k, q)[j] = q[j]
    BY <1>2 DEF Before
  <2>2. QED
    BY <1>2, <2>1
<1>3. QED
  BY <1>1, <1>2

\* What Before leaves of the requests.
LEMMA RequestsBefore ==
  ASSUME NEW k \in Page, NEW q \in [Page -> Requests \cup {Absent}]
  PROVE  /\ Before(k, q) \in [Page -> Requests \cup {Absent}]
         /\ \A j \in Page :
              /\ Before(k, q)[j] = Absent <=> q[j] = Absent
              /\ j # k + 1 => Before(k, q)[j] = q[j]
              /\ q[j] # Absent => /\ Before(k, q)[j].from = q[j].from /\ Before(k, q)[j].answer = q[j].answer
                                  /\ j = k + 1 => Before(k, q)[j].after = FALSE
<1> SUFFICES ASSUME NEW j \in Page
             PROVE  /\ Before(k, q)[j] \in Requests \cup {Absent}
                    /\ Before(k, q)[j] = Absent <=> q[j] = Absent
                    /\ j # k + 1 => Before(k, q)[j] = q[j]
                    /\ q[j] # Absent => /\ Before(k, q)[j].from = q[j].from /\ Before(k, q)[j].answer = q[j].answer
                                        /\ j = k + 1 => Before(k, q)[j].after = FALSE
  BY DEF Before
<1>1. CASE j = k + 1 /\ q[j] # Absent
  <2>1. q[j] \in Requests /\ Before(k, q)[j] = [q[j] EXCEPT !.after = FALSE]
    BY <1>1 DEF Before
  <2>2. Before(k, q)[j] \in Requests
    BY <2>1 DEF Requests
  <2>3. QED
    BY <1>1, <2>1, <2>2, PagesAssumption DEF Requests
<1>2. CASE ~ (j = k + 1 /\ q[j] # Absent)
  <2>1. Before(k, q)[j] = q[j]
    BY <1>2 DEF Before
  <2>2. QED
    BY <1>2, <2>1
<1>3. QED
  BY <1>1, <1>2

\* The pages that are fresh once page k's answer is there.
LEMMA FreshIs ==
  ASSUME fresh \in Seq(Page), NEW k \in Page,
         fresh' = Append(Picked(fresh, {i \in DOMAIN fresh : fresh[i] # k}), k)
  PROVE  fresh' \in Seq(Page) /\ \A j \in Page : Contains(fresh', j) => j = k \/ Contains(fresh, j)
<1> DEFINE at0 == {i \in DOMAIN fresh : fresh[i] # k}
           p == Picked(fresh, at0)
<1>1. at0 \in SUBSET (1..Len(fresh))
  OBVIOUS
<1>2. p \in Seq(Page) /\ \E e : Onto(e, p, fresh, at0)
  <2> HIDE DEF at0
  <2>1. QED
    BY <1>1, PickedIs
<1>3. PICK e : Onto(e, p, fresh, at0)
  BY <1>2
<1>4. \A i \in 1..Len(p) : e[i] \in 1..Len(fresh) /\ p[i] = fresh[e[i]]
  BY <1>1, <1>3 DEF Onto
<1> HIDE DEF p, at0
<1>5. fresh' = Append(p, k)
  BY DEF p, at0
<1>6. /\ fresh' \in Seq(Page) /\ Len(fresh') = Len(p) + 1 /\ fresh'[Len(p) + 1] = k /\ Len(p) \in Nat
      /\ \A i \in 1..Len(p) : fresh'[i] = p[i]
  <2> DEFINE q == fresh'
  <2>1. p \in Seq(Page) /\ k \in Page /\ q = Append(p, k)
    BY <1>2, <1>5
  <2> HIDE DEF q
  <2>2. /\ q \in Seq(Page) /\ Len(q) = Len(p) + 1 /\ q[Len(p) + 1] = k /\ Len(p) \in Nat
        /\ \A i \in 1..Len(p) : q[i] = p[i]
    BY <2>1
  <2>3. QED
    BY <2>2 DEF q
<1>7. ASSUME NEW j \in Page, Contains(fresh', j), j # k PROVE Contains(fresh, j)
  <2>1. PICK i \in 1..Len(fresh') : fresh'[i] = j
    BY <1>7 DEF Contains
  <2>2. i \in 1..Len(p)
    BY <1>6, <1>7, <2>1
  <2>3. QED
    BY <1>4, <1>6, <2>1, <2>2 DEF Contains
<1>8. QED
  BY <1>6, <1>7

\* The answer of page k comes.
LEMMA Answered ==
  ASSUME PagesInv, NEW k \in Page, AnswerComes(k)
  PROVE  PagesInv'
<1> DEFINE a == request[k].answer
           new == [from |-> request[k].from, after |-> request[k].after, rows |-> a.rows, next |-> a.next]
           d0 == [data EXCEPT ![k] = new]
           r0 == [request EXCEPT ![k] = Absent]
           n == a.next
<1>1. ViewTypes /\ Starts /\ PagesSound /\ Behind /\ Apart /\ Later /\ Ended /\ Visited /\ Joined
  BY DEF PagesInv
<1>2. /\ Asking(k) /\ Served(k) /\ k \in Nat
      /\ data' = Before(k, d0) /\ request' = Before(k, r0)
      /\ fresh' = Append(Picked(fresh, {i \in DOMAIN fresh : fresh[i] # k}), k)
      /\ stack' = IF at = k THEN Note(stack, k, data') ELSE stack
      /\ UNCHANGED <<vars, at>>
  BY PageNumbers DEF AnswerComes, Asking, Served
<1>3. request[k].from \in Nat /\ request[k].after \in BOOLEAN /\ a.rows \in SUBSET Nat /\ n \in Nat
  BY <1>1, <1>2, Fields
<1>4. /\ new \in Queries /\ new.from = request[k].from /\ new.after = request[k].after
      /\ new.rows = a.rows /\ new.next = n
  <2> DEFINE f == request[k].from
             g == request[k].after
             r == a.rows
             m == a.next
  <2>1. new = [from |-> f, after |-> g, rows |-> r, next |-> m]
    OBVIOUS
  <2> HIDE DEF f, g, r, m
  <2>2. f \in Nat /\ g \in BOOLEAN /\ r \in SUBSET Nat /\ m \in Nat
    BY <1>3 DEF f, g, r, m
  <2>3. [from |-> f, after |-> g, rows |-> r, next |-> m] \in Queries
    BY <2>2 DEF Queries
  <2>4. QED
    BY <2>1, <2>3 DEF f, g, r, m
<1> HIDE DEF new, a
<1>5. /\ d0 \in [Page -> Queries \cup {Absent}] /\ d0[k] = new /\ new # Absent
      /\ \A j \in Page : j # k => d0[j] = data[j]
  BY <1>1, <1>4, PagesAssumption DEF ViewTypes
<1>6. /\ r0 \in [Page -> Requests \cup {Absent}] /\ r0[k] = Absent
      /\ \A j \in Page : j # k => r0[j] = request[j]
  BY <1>1 DEF ViewTypes
<1> HIDE DEF d0, r0
<1>7. /\ data' \in [Page -> Queries \cup {Absent}] /\ request' \in [Page -> Requests \cup {Absent}]
      /\ k # k + 1
      /\ \A j \in Page :
           /\ data'[j] = Absent <=> d0[j] = Absent
           /\ j # k + 1 => data'[j] = d0[j]
           /\ d0[j] # Absent => /\ data'[j].from = d0[j].from /\ data'[j].rows = d0[j].rows
                                /\ data'[j].next = d0[j].next
                                /\ j = k + 1 => data'[j].after = FALSE
      /\ \A j \in Page :
           /\ request'[j] = Absent <=> r0[j] = Absent
           /\ j # k + 1 => request'[j] = r0[j]
           /\ r0[j] # Absent => /\ request'[j].from = r0[j].from /\ request'[j].answer = r0[j].answer
                                /\ j = k + 1 => request'[j].after = FALSE
  <2>1. data' = Before(k, d0) /\ request' = Before(k, r0) /\ k # k + 1
    BY <1>2
  <2>2. d0 \in [Page -> Queries \cup {Absent}] /\ r0 \in [Page -> Requests \cup {Absent}]
    BY <1>5, <1>6
  <2>3. QED
    BY <2>1, <2>2, DataBefore, RequestsBefore, ZenonT(60)
<1>8. Has(k)' /\ data'[k] = new /\ ~ Asking(k)' /\ ~ Served(k)' /\ request'[k] = Absent
  BY <1>5, <1>6, <1>7 DEF Has, Asking, Served
<1>9. ASSUME NEW j \in Page, j # k
      PROVE  /\ Has(j)' <=> Has(j)
             /\ request[j] = Absent => request'[j] = Absent
             /\ Asking(j)' <=> Asking(j)
             /\ Served(j)' <=> Served(j)
             /\ Has(j) => /\ data'[j].from = data[j].from /\ data'[j].rows = data[j].rows /\ data'[j].next = data[j].next
                          /\ IF j = k + 1 THEN data'[j].after = FALSE ELSE data'[j].after = data[j].after
             /\ Asking(j) => /\ request'[j].from = request[j].from /\ request'[j].answer = request[j].answer
                             /\ IF j = k + 1 THEN request'[j].after = FALSE ELSE request'[j].after = request[j].after
  <2>1. d0[j] = data[j] /\ r0[j] = request[j]
    BY <1>5, <1>6, <1>9
  <2>2. /\ data'[j] = Absent <=> data[j] = Absent
        /\ j # k + 1 => data'[j] = data[j]
        /\ data[j] # Absent => /\ data'[j].from = data[j].from /\ data'[j].rows = data[j].rows
                               /\ data'[j].next = data[j].next
                               /\ j = k + 1 => data'[j].after = FALSE
    BY <1>7, <2>1
  <2>3. /\ request'[j] = Absent <=> request[j] = Absent
        /\ j # k + 1 => request'[j] = request[j]
        /\ request[j] # Absent => /\ request'[j].from = request[j].from /\ request'[j].answer = request[j].answer
                                  /\ j = k + 1 => request'[j].after = FALSE
    BY <1>7, <2>1
  <2>4. QED
    BY <2>2, <2>3 DEF Has, Asking, Served
<1>10. /\ stack' \in [0..(MaxPage + 1) -> Nat]
       /\ \A l \in 0..(MaxPage + 1) : stack'[l] = IF l = k + 1 /\ at = k /\ n # 0 THEN n ELSE stack[l]
  <2>1. k + 1 \in 0..(MaxPage + 1) /\ stack \in [0..(MaxPage + 1) -> Nat]
    BY <1>1, PageNumbers DEF ViewTypes
  <2>2. CASE at = k /\ n # 0
    <3>1. stack' = [stack EXCEPT ![k + 1] = n]
      BY <1>2, <1>4, <1>8, <2>2 DEF Note, Has
    <3>2. QED
      BY <1>3, <2>1, <2>2, <3>1
  <2>3. CASE ~ (at = k /\ n # 0)
    <3>1. stack' = stack
      BY <1>2, <1>4, <1>8, <2>3 DEF Note, Has
    <3>2. QED
      BY <2>1, <2>3, <3>1
  <2>4. QED
    BY <2>2, <2>3
<1> HIDE DEF n
<1>11. ViewTypes'
  <2>1. fresh' \in Seq(Page) /\ \A j \in Page : Contains(fresh', j) => j = k \/ Contains(fresh, j)
    BY <1>1, <1>2, FreshIs DEF ViewTypes
  <2>2. \A j \in Page : Contains(fresh', j) => Has(j)'
    BY <1>1, <1>8, <1>9, <2>1 DEF ViewTypes
  <2>3. QED
    BY <1>1, <1>2, <1>7, <1>10, <2>1, <2>2 DEF ViewTypes
<1>12. Starts'
  <2>1. stack'[0] = 0
    BY <1>1, <1>2, <1>10, PageNumbers DEF Starts
  <2>2. ASSUME NEW j \in Page
        PROVE  (Has(j)' => (data'[j].from = 0 <=> j = 0)) /\ (Asking(j)' => (request'[j].from = 0 <=> j = 0))
    BY <1>1, <1>2, <1>4, <1>8, <1>9, ZenonT(60) DEF Starts
  <2>3. QED
    BY <2>1, <2>2 DEF Starts
<1>13. PagesSound'
  <2>1. ASSUME NEW j \in Page, Has(j)'
        PROVE  PageSound(data'[j].rows, data'[j].from, data'[j].next)
    <3>1. CASE j = k
      BY <1>1, <1>2, <1>4, <1>8, <3>1 DEF PagesSound, n, a
    <3>2. CASE j # k
      BY <1>1, <1>9, <2>1, <3>2 DEF PagesSound
    <3>3. QED
      BY <3>1, <3>2
  <2>2. ASSUME NEW j \in Page, Served(j)'
        PROVE  PageSound(request'[j].answer.rows, request'[j].from, request'[j].answer.next)
    BY <1>1, <1>8, <1>9, <2>2 DEF PagesSound, Served, Asking
  <2>3. QED
    BY <1>2, <2>1, <2>2, SameChain DEF PagesSound
<1>14. Made(k + 1, n)
  BY <1>2, PageNumbers DEF Made, n, a
<1>15. ASSUME NEW l \in Borders, NEW c \in Nat
       PROVE  /\ (Sent(l, c)' => (Sent(l, c) \/ (l = k + 1 /\ c = n /\ at = k /\ n # 0)))
              /\ (Made(l, c)' => Made(l, c))
  <2>1. l - 1 \in Page /\ l - 1 + 1 = l /\ l \in 0..(MaxPage + 1)
    BY PageNumbers
  <2>2. ASSUME Sent(l, c)' PROVE Sent(l, c) \/ (l = k + 1 /\ c = n /\ at = k /\ n # 0)
    <3>1. CASE c = stack'[l]
      BY <1>10, <2>1, <3>1 DEF Sent
    <3>2. CASE Has(l)' /\ c = data'[l].from
      <4>1. CASE l = k
        BY <1>2, <1>4, <1>8, <3>2, <4>1 DEF Sent
      <4>2. CASE l # k
        BY <1>9, <3>2, <4>2 DEF Sent, Has
      <4>3. QED
        BY <4>1, <4>2
    <3>3. CASE Asking(l)' /\ c = request'[l].from
      BY <1>8, <1>9, <3>3 DEF Sent, Asking
    <3>4. QED
      BY <2>2, <3>1, <3>2, <3>3 DEF Sent
  <2>3. ASSUME Made(l, c)' PROVE Made(l, c)
    <3>1. CASE l - 1 = k
      BY <1>2, <1>4, <1>8, <2>3, <3>1 DEF Made, n, a
    <3>2. CASE l - 1 # k
      BY <1>9, <2>1, <2>3, <3>2 DEF Made, Served, Asking
    <3>3. QED
      BY <3>1, <3>2
  <2>4. QED
    BY <2>2, <2>3
<1>16. \A l \in Borders, c \in Nat : Held(l, c)' => Held(l, c)
  BY <1>14, <1>15 DEF Held
<1>17. ASSUME NEW j \in Page, NEW c \in Nat, Ahead(j, c)' PROVE Ahead(j, c)
  <2>1. CASE j = 0
    BY <1>1, <1>17, <2>1 DEF Ahead, Starts
  <2>2. CASE j # 0
    <3>1. j \in Borders /\ c # 0 /\ j \in 0..(MaxPage + 1)
      BY <1>17, <2>2, PageNumbers DEF Ahead
    <3>2. CASE c = stack'[j]
      BY <1>10, <1>14, <3>1, <3>2, <2>2 DEF Ahead
    <3>3. CASE Made(j, c)'
      BY <1>15, <3>1, <3>3, <2>2 DEF Ahead
    <3>4. CASE Asking(j)' /\ ~ Served(j)' /\ c = request'[j].from
      BY <1>8, <1>9, <3>1, <3>4, <2>2 DEF Ahead
    <3>5. QED
      BY <1>17, <3>2, <3>3, <3>4 DEF Ahead
  <2>3. QED
    BY <2>1, <2>2
<1>18. Behind' /\ Apart'
  <2>1. UNCHANGED vars /\ \A j \in Page, c \in Nat : Ahead(j, c)' => Ahead(j, c)
    BY <1>2, <1>17
  <2>2. QED
    BY <1>16, <2>1, NoneMade
\* What is held behind page k is at least as far as its new cursor.
<1>19. ASSUME NEW d \in Nat, n # 0, Held(k + 1, d) PROVE AtLeast(n, d)
  BY <1>1, <1>2, <1>19 DEF Later, n, a
<1>20. Later'
  <2>1. ASSUME NEW j \in Page, NEW d \in Nat, Has(j)', data'[j].next # 0, d # 0, Sent(j + 1, d)'
        PROVE  AtLeast(data'[j].next, d)
    <3>1. j + 1 \in Borders /\ j \in Nat
      BY PageNumbers
    <3>2. CASE j = k
      <4>1. data'[j].next = n
        BY <1>4, <1>8, <3>2
      <4>2. Held(k + 1, d)
        BY <1>14, <1>15, <2>1, <3>1, <3>2 DEF Held
      <4>3. QED
        BY <1>19, <2>1, <4>1, <4>2
    <3>3. CASE j # k
      <4>1. Sent(j + 1, d)
        BY <1>2, <1>15, <2>1, <3>1, <3>3
      <4>2. QED
        BY <1>1, <1>9, <2>1, <3>3, <4>1 DEF Later
    <3>4. QED
      BY <3>2, <3>3
  <2>2. ASSUME NEW j \in Page, NEW d \in Nat, Served(j)', request'[j].answer.next # 0, Held(j + 1, d)'
        PROVE  AtLeast(request'[j].answer.next, d)
    <3>1. j # k /\ Served(j) /\ Asking(j) /\ j + 1 \in Borders
      BY <1>8, <1>9, <2>2, PageNumbers DEF Served
    <3>2. QED
      BY <1>1, <1>9, <1>16, <2>2, <3>1 DEF Later
  <2>3. ASSUME NEW j \in Page \ {0}, stack'[j] # 0, Asking(j)'
        PROVE  AtLeast(stack'[j], request'[j].from)
    <3>1. j # k /\ Asking(j) /\ j \in Borders /\ request'[j].from = request[j].from /\ j \in 0..(MaxPage + 1)
      BY <1>8, <1>9, <2>3, PageNumbers
    <3>2. CASE stack'[j] = stack[j]
      BY <1>1, <2>3, <3>1, <3>2 DEF Later
    <3>3. CASE j = k + 1 /\ stack'[j] = n
      <4>1. request[j].from \in Nat /\ request[j].from # 0
        BY <1>1, <3>1, Fields DEF Starts
      <4>2. Held(k + 1, request[j].from)
        BY <3>1, <3>3, <4>1 DEF Held, Sent
      <4>3. QED
        BY <1>19, <2>3, <3>1, <3>3, <4>1, <4>2
    <3>4. QED
      BY <1>10, <3>1, <3>2, <3>3
  <2>4. QED
    BY <1>2, <2>1, <2>2, <2>3, SameChain DEF Later
<1>21. Ended'
  <2>1. ASSUME NEW j \in Page, Has(j)', data'[j].next = 0, NEW l \in Borders, NEW d \in Nat \ {0}, j < l
        PROVE  ~ Sent(l, d)' /\ (j + 1 < l => ~ Made(l, d)')
    <3>1. CASE j = k
      <4>1. n = 0
        BY <1>4, <1>8, <2>1, <3>1
      <4>2. ~ Held(l, d)
        BY <1>1, <1>2, <2>1, <3>1, <4>1 DEF Ended, n, a
      <4>3. QED
        BY <1>15, <4>1, <4>2 DEF Held
    <3>2. CASE j # k
      <4>1. Has(j) /\ data[j].next = 0 /\ j \in Nat
        BY <1>9, <2>1, <3>2, PageNumbers
      <4>2. ~ Sent(l, d) /\ (j + 1 < l => ~ Made(l, d))
        BY <1>1, <2>1, <4>1 DEF Ended
      <4>3. ~ (l = k + 1 /\ d = n)
        BY <1>2, <1>14, <2>1, <3>2, <4>1, <4>2
      <4>4. QED
        BY <1>15, <4>2, <4>3
    <3>3. QED
      BY <3>1, <3>2
  <2>2. ASSUME NEW j \in Page, Served(j)', request'[j].answer.next = 0, NEW l \in Borders, NEW d \in Nat, j < l
        PROVE  ~ Held(l, d)'
    <3>1. j # k /\ Served(j) /\ Asking(j)
      BY <1>8, <1>9, <2>2 DEF Served
    <3>2. QED
      BY <1>1, <1>9, <1>16, <2>2, <3>1 DEF Ended
  <2>3. QED
    BY <1>2, <2>1, <2>2 DEF Ended
<1>22. Visited'
  <2>1. SUFFICES ASSUME at # Away
        PROVE  /\ \A l \in Borders : l <= at => stack'[l] # 0
               /\ \A j \in Page : j < at => request'[j] = Absent /\ (Has(j)' => stack'[j + 1] = data'[j].next)
               /\ Has(at)' /\ data'[at].next # 0 => stack'[at + 1] = data'[at].next
    BY <1>2 DEF Visited
  <2>2. at \in Page /\ at \in Nat
    BY <2>1, Seen, PageNumbers
  <2>3. \A l \in Borders : l <= at => stack'[l] # 0
    BY <1>10, <2>1, Seen, PageNumbers
  <2>4. ASSUME NEW j \in Page, j < at
        PROVE  request'[j] = Absent /\ (Has(j)' => stack'[j + 1] = data'[j].next)
    <3>1. request[j] = Absent /\ (Has(j) => stack[j + 1] = data[j].next)
      BY <2>1, <2>4, Seen
    <3>2. j # k /\ j \in Nat /\ j + 1 \in 0..(MaxPage + 1)
      BY <1>2, <3>1, PageNumbers DEF Asking
    <3>3. stack'[j + 1] = stack[j + 1]
      BY <1>2, <1>10, <3>2
    <3>4. QED
      BY <1>9, <3>1, <3>2, <3>3
  <2>5. ASSUME Has(at)', data'[at].next # 0 PROVE stack'[at + 1] = data'[at].next
    <3>1. at + 1 \in 0..(MaxPage + 1)
      BY <2>2, PageNumbers
    <3>2. CASE at = k
      BY <1>4, <1>8, <1>10, <2>5, <3>1, <3>2
    <3>3. CASE at # k
      <4>1. Has(at) /\ data'[at].next = data[at].next
        BY <1>2, <1>9, <2>2, <2>5, <3>3 DEF Has
      <4>2. stack'[at + 1] = stack[at + 1]
        BY <1>10, <3>1, <3>3
      <4>3. QED
        BY <2>1, <2>5, <4>1, <4>2, Seen
    <3>4. QED
      BY <3>2, <3>3
  <2>6. QED
    BY <2>3, <2>4, <2>5
<1>23. Joined'
  <2>1. ASSUME NEW j \in Page \ {0}, Has(j - 1)'
        PROVE  /\ Has(j)' /\ data'[j].after => data'[j].from = data'[j - 1].next
               /\ Asking(j)' /\ request'[j].after => request'[j].from = data'[j - 1].next
    <3>1. j - 1 \in Page /\ (j - 1) + 1 = j /\ j - 1 # j
      BY PageNumbers
    <3>2. CASE j - 1 = k
      BY <1>9, <3>1, <3>2
    <3>3. CASE j - 1 # k
      <4>1. Has(j - 1) /\ data'[j - 1].next = data[j - 1].next
        BY <1>9, <2>1, <3>1, <3>3
      <4>2. j # k + 1
        BY <1>2, <3>1, <3>3, PageNumbers
      <4>3. CASE j = k
        BY <1>1, <1>2, <1>4, <1>8, <4>1, <4>3 DEF Joined
      <4>4. CASE j # k
        BY <1>1, <1>9, <4>1, <4>2, <4>4, ZenonT(60) DEF Joined
      <4>5. QED
        BY <4>3, <4>4
    <3>4. QED
      BY <3>2, <3>3
  <2>2. QED
    BY <2>1 DEF Joined
<1>24. QED
  BY <1>11, <1>12, <1>13, <1>18, <1>20, <1>21, <1>22, <1>23 DEF PagesInv

-----------------------------------------------------------------------------
(* The chain and the table grow.                                           *)

\* The cursors, and what is made from them, are rows of the table.
LEMMA CursorsAreRows ==
  ASSUME PagesInv
  PROVE  /\ \A l \in 0..(MaxPage + 1) : stack[l] \in Table \cup {0}
         /\ \A l \in Borders, c \in Nat : Held(l, c) => c \in Table
         /\ \A k \in Page, c \in Nat : Ahead(k, c) => c \in Table \cup {0}
         /\ \A k \in Page : Has(k) => data[k].from \in Table \cup {0} /\ data[k].next \in Table \cup {0}
         /\ \A k \in Page : Asking(k) => request[k].from \in Table \cup {0}
         /\ \A k \in Page : Served(k) => request[k].answer.next \in Table \cup {0}
<1>1. ViewTypes /\ Starts /\ Behind
  BY DEF PagesInv
<1>2. ASSUME NEW l \in Borders, NEW c \in Nat, Held(l, c) PROVE c \in Table
  BY <1>1, <1>2 DEF Behind
<1>3. ASSUME NEW l \in 0..(MaxPage + 1) PROVE stack[l] \in Table \cup {0}
  <2>1. l = 0 \/ l \in Borders
    BY PagesAssumption DEF Borders
  <2>2. stack[l] \in Nat
    BY <1>1, Fields
  <2>3. CASE l # 0 /\ stack[l] # 0
    BY <1>2, <2>1, <2>2, <2>3 DEF Held, Sent
  <2>4. QED
    BY <1>1, <2>1, <2>3 DEF Starts
<1>4. ASSUME NEW k \in Page, NEW c \in Nat, Ahead(k, c) PROVE c \in Table \cup {0}
  <2>1. CASE c = 0
    BY <2>1
  <2>2. CASE c # 0
    <3>1. k \in Borders
      BY <1>4, <2>2, PageNumbers DEF Ahead
    <3>2. Held(k, c)
      BY <1>4, <2>2, <3>1 DEF Ahead, Held, Sent
    <3>3. QED
      BY <1>2, <3>1, <3>2
  <2>3. QED
    BY <2>1, <2>2
<1>5. ASSUME NEW k \in Page, Has(k) PROVE data[k].from \in Table \cup {0} /\ data[k].next \in Table \cup {0}
  <2>1. data[k].from \in Nat /\ data[k].next \in Nat
    BY <1>1, <1>5, Fields
  <2>2. data[k].from # 0 => data[k].from \in Table
    BY <1>1, <1>2, <1>5, <2>1, PageNumbers DEF Starts, Held, Sent
  <2>3. ASSUME data[k].next # 0 PROVE data[k].next \in Table
    <3>1. k + 1 \in Borders /\ Held(k + 1, data[k].next)
      BY <1>5, <2>3, PageNumbers DEF Held, Made
    <3>2. QED
      BY <1>2, <2>1, <3>1
  <2>4. QED
    BY <2>2, <2>3
<1>6. ASSUME NEW k \in Page, Asking(k) PROVE request[k].from \in Table \cup {0}
  <2>1. request[k].from \in Nat
    BY <1>1, <1>6, Fields
  <2>2. CASE request[k].from # 0
    BY <1>1, <1>2, <1>6, <2>1, <2>2, PageNumbers DEF Starts, Held, Sent
  <2>3. QED
    BY <2>2
<1>7. ASSUME NEW k \in Page, Served(k) PROVE request[k].answer.next \in Table \cup {0}
  <2>1. request[k].answer.next \in Nat
    BY <1>1, <1>7, Fields
  <2>2. CASE request[k].answer.next # 0
    <3>1. k + 1 \in Borders /\ Held(k + 1, request[k].answer.next)
      BY <1>7, <2>2, PageNumbers DEF Held, Made
    <3>2. QED
      BY <1>2, <2>1, <3>1
  <2>3. QED
    BY <2>2
<1>8. QED
  BY <1>2, <1>3, <1>4, <1>5, <1>6, <1>7

\* The chain and the table grow at their ends: the order of the rows that are there stays.
LEMMA Grows ==
  ASSUME TypeOK, Execute \/ Index
  PROVE  /\ Table \subseteq Table'
         /\ \A i, j \in 1..Len(txs) : Newer(i, j)' <=> Newer(i, j)
<1>1. CASE Execute
  <2>1. PICK ts \in 1..MaxTs, dg \in 1..MaxTx : txs' = Append(txs, [ts |-> ts, dg |-> dg])
    BY <1>1 DEF Execute
  <2>2. indexed' = indexed
    BY <1>1 DEF Execute
  <2> DEFINE T == [ts : Nat, dg : Nat]
             row == [ts |-> ts, dg |-> dg]
  <2>3. txs \in Seq(T) /\ row \in T
    BY FeedAssumption DEF TypeOK
  <2>4. txs' = Append(txs, row)
    BY <2>1
  <2> HIDE DEF T, row
  <2>5. \A i \in 1..Len(txs) : txs'[i] = txs[i]
    BY <2>3, <2>4
  <2>6. QED
    BY <2>2, <2>5 DEF Table, Newer
<1>2. CASE Index
  <2>1. txs' = txs /\ indexed' \in (indexed + 1)..Len(txs)
    BY <1>2 DEF Index
  <2>2. Table \subseteq Table'
    BY <2>1, FeedAssumption DEF TypeOK, Table
  <2>3. QED
    BY <2>1, <2>2 DEF Newer
<1>3. QED
  BY <1>1, <1>2

\* The chain or the table grows.
LEMMA Grown ==
  ASSUME PagesInv, TypeOK, TypeOK', Execute \/ Index, UNCHANGED viewVars
  PROVE  PagesInv'
<1>1. ViewTypes /\ Starts /\ PagesSound /\ Behind /\ Apart /\ Later /\ Ended /\ Visited /\ Joined
  BY DEF PagesInv
<1>2. UNCHANGED <<at, stack, data, request, fresh>>
  BY DEF viewVars
<1>3. Table \subseteq Table' /\ \A i, j \in 1..Len(txs) : Newer(i, j)' <=> Newer(i, j)
  BY Grows
<1>4. Table \in SUBSET (1..Len(txs)) /\ 0 \notin Table /\ 0 \notin Table'
  BY TableRows, FeedAssumption DEF Table
<1>5. ASSUME NEW c \in Table \cup {0}, NEW r \in Table PROVE Below(c, r)' <=> Below(c, r)
  BY <1>3, <1>4 DEF Below
<1>6. ASSUME NEW c \in Table, NEW r \in Table PROVE AtLeast(c, r)' <=> AtLeast(c, r)
  BY <1>3, <1>4 DEF AtLeast
<1>7. \A k : (Has(k)' <=> Has(k)) /\ (Asking(k)' <=> Asking(k)) /\ (Served(k)' <=> Served(k))
  BY <1>2 DEF Has, Asking, Served
<1>8. \A l, c : (Sent(l, c)' <=> Sent(l, c)) /\ (Made(l, c)' <=> Made(l, c))
  BY <1>2, <1>7 DEF Sent, Made
<1>9. \A l, c : (Held(l, c)' <=> Held(l, c)) /\ (Ahead(l, c)' <=> Ahead(l, c))
  BY <1>2, <1>7, <1>8 DEF Held, Ahead
<1>10. ViewTypes' /\ Starts' /\ Ended' /\ Visited' /\ Joined'
  <2>1. ViewTypes'
    BY <1>1, <1>2, <1>7 DEF ViewTypes
  <2>2. Starts' /\ Joined'
    BY <1>1, <1>2, <1>7 DEF Starts, Joined
  <2>3. Ended'
    BY <1>1, <1>2, <1>7, <1>8, <1>9 DEF Ended
  <2>4. Visited'
    <3>1. Has(at)' <=> Has(at)
      BY <1>2 DEF Has
    <3>2. QED
      BY <1>1, <1>2, <1>7, <3>1 DEF Visited
  <2>5. QED
    BY <2>1, <2>2, <2>3, <2>4
<1>11. PagesSound'
  <2>1. ASSUME NEW rows, NEW c \in Table \cup {0}, NEW d \in Table \cup {0}, PageSound(rows, c, d)
        PROVE  PageSound(rows, c, d)'
    BY <1>3, <1>5, <1>6, <2>1 DEF PageSound
  <2>2. ASSUME NEW k \in Page, Has(k) PROVE PageSound(data[k].rows, data[k].from, data[k].next)'
    <3>1. PageSound(data[k].rows, data[k].from, data[k].next)
      BY <1>1, <2>2 DEF PagesSound
    <3>2. data[k].from \in Table \cup {0} /\ data[k].next \in Table \cup {0}
      BY <2>2, CursorsAreRows
    <3>3. QED
      BY <1>2, <2>1, <3>1, <3>2 DEF PageSound
  <2>3. ASSUME NEW k \in Page, Served(k)
        PROVE  PageSound(request[k].answer.rows, request[k].from, request[k].answer.next)'
    <3>1. PageSound(request[k].answer.rows, request[k].from, request[k].answer.next)
      BY <1>1, <2>3 DEF PagesSound
    <3>2. request[k].from \in Table \cup {0} /\ request[k].answer.next \in Table \cup {0}
      BY <2>3, CursorsAreRows DEF Served
    <3>3. PICK rs, f, n : rs = request[k].answer.rows /\ f = request[k].from /\ n = request[k].answer.next
      OBVIOUS
    <3>4. PageSound(rs, f, n)'
      BY <2>1, <3>1, <3>2, <3>3
    <3>5. rs = request'[k].answer.rows /\ f = request'[k].from /\ n = request'[k].answer.next
      BY <1>2, <3>3
    <3>6. QED
      BY <3>4, <3>5 DEF PageSound
  <2>4. QED
    BY <1>2, <1>7, <2>2, <2>3 DEF PagesSound
<1>12. Behind'
  <2>1. ASSUME NEW l \in Borders, NEW c \in Nat, Held(l, c)
        PROVE  c \in Table' /\ \E r \in Table' : Newer(c, r)'
    BY <1>1, <1>3, <1>4, <2>1 DEF Behind
  <2>2. QED
    BY <1>9, <2>1 DEF Behind
<1>13. Apart'
  <2>1. ASSUME NEW k \in Page, NEW l \in Borders, NEW e \in Nat, NEW d \in Nat, k < l, Ahead(k, e), Held(l, d)
        PROVE  Cardinality(Gap(e, d)') >= (l - k) * PAGE_SIZE
    <3>1. e \in Table \cup {0} /\ d \in Table
      BY <2>1, CursorsAreRows
    <3>2. Gap(e, d) \subseteq Gap(e, d)'
      BY <1>3, <1>5, <1>6, <3>1 DEF Gap
    <3>3. IsFiniteSet(Gap(e, d)') /\ Cardinality(Gap(e, d)') \in Nat
      <4>1. FirstIndexed \in Int /\ indexed' \in Int /\ Table' = FirstIndexed..indexed' /\ Gap(e, d)' \subseteq Table'
        BY FeedAssumption DEF TypeOK, Table, Gap
      <4>2. IsFiniteSet(Table')
        BY <4>1, FS_Interval
      <4>3. QED
        BY <4>1, <4>2, FS_Subset, FS_CardinalityType
    <3>4. Cardinality(Gap(e, d)) <= Cardinality(Gap(e, d)')
      BY <3>2, <3>3, FS_Subset
    <3>5. Cardinality(Gap(e, d)) >= (l - k) * PAGE_SIZE
      BY <1>1, <2>1 DEF Apart
    <3>6. Cardinality(Gap(e, d)) \in Nat /\ (l - k) * PAGE_SIZE \in Nat
      BY <2>1, GapFinite, PagesBetween
    <3>7. QED
      BY <3>3, <3>4, <3>5, <3>6
  <2>2. QED
    BY <1>9, <2>1 DEF Apart
<1>14. Later'
  <2>1. ASSUME NEW k \in Page, NEW d \in Nat, Has(k), data[k].next # 0, d # 0, Sent(k + 1, d)
        PROVE  AtLeast(data[k].next, d)'
    <3>1. d \in Table /\ data[k].next \in Table /\ AtLeast(data[k].next, d)
      BY <1>1, <2>1, CursorsAreRows, PageNumbers DEF Held, Later
    <3> DEFINE n == data[k].next
    <3>2. data' = data /\ AtLeast(n, d)'
      BY <1>2, <1>6, <3>1
    <3>3. QED
      BY <3>2 DEF AtLeast
  <2>2. ASSUME NEW k \in Page, NEW d \in Nat, Served(k), request[k].answer.next # 0, Held(k + 1, d)
        PROVE  AtLeast(request[k].answer.next, d)'
    <3>1. d \in Table /\ request[k].answer.next \in Table /\ AtLeast(request[k].answer.next, d)
      BY <1>1, <2>2, CursorsAreRows, PageNumbers DEF Later
    <3> DEFINE n == request[k].answer.next
    <3>2. request' = request /\ AtLeast(n, d)'
      BY <1>2, <1>6, <3>1
    <3>3. QED
      BY <3>2 DEF AtLeast
  <2>3. ASSUME NEW k \in Page \ {0}, stack[k] # 0, Asking(k) PROVE AtLeast(stack[k], request[k].from)'
    <3>1. request[k].from # 0 /\ request[k].from \in Table /\ stack[k] \in Table /\ AtLeast(stack[k], request[k].from)
      BY <1>1, <2>3, CursorsAreRows, PageNumbers DEF Later, Starts
    <3> DEFINE f == request[k].from
               s == stack[k]
    <3>2. request' = request /\ stack' = stack /\ AtLeast(s, f)'
      BY <1>2, <1>6, <3>1
    <3>3. QED
      BY <3>2 DEF AtLeast
  <2>4. QED
    BY <1>2, <1>7, <1>8, <1>9, <2>1, <2>2, <2>3 DEF Later
<1>15. QED
  BY <1>10, <1>11, <1>12, <1>13, <1>14 DEF PagesInv

-----------------------------------------------------------------------------
(* The page's feed.                                                        *)

\* The feed before it is opened.
LEMMA PagesStart == FeedInit => FeedInv /\ PagesInv
<1> SUFFICES ASSUME FeedInit PROVE FeedInv /\ PagesInv
  OBVIOUS
<1>1. FeedInv
  BY FeedStart DEF FeedInit
<1>2. /\ at = Away /\ stack = NoCursors /\ data = AllAbsent /\ request = AllAbsent /\ fresh = <<>>
      /\ \A l \in 0..(MaxPage + 1) : stack[l] = 0
  BY DEF FeedInit, NoCursors
<1>3. \A k : ~ Has(k) /\ ~ Asking(k) /\ ~ Served(k)
  BY <1>2 DEF Has, Asking, Served, AllAbsent
<1>4. \A l \in Borders, c \in Nat : ~ Held(l, c) /\ ~ Made(l, c) /\ (Sent(l, c) => c = 0)
  BY <1>2, <1>3, PageNumbers DEF Held, Sent, Made
<1>5. ViewTypes
  <2>1. stack \in [0..(MaxPage + 1) -> Nat] /\ fresh \in Seq(Page) /\ \A k \in Page : ~ Contains(fresh, k)
    BY <1>2 DEF NoCursors, Contains
  <2>2. data \in [Page -> Queries \cup {Absent}] /\ request \in [Page -> Requests \cup {Absent}]
    BY <1>2 DEF AllAbsent
  <2>3. QED
    BY <1>2, <2>1, <2>2 DEF ViewTypes
<1>6. Starts /\ PagesSound /\ Behind /\ Apart /\ Ended /\ Visited /\ Joined
  BY <1>2, <1>3, <1>4, PageNumbers DEF Starts, PagesSound, Behind, Apart, Ended, Visited, Joined
<1>7. Later
  BY <1>3 DEF Later
<1>8. QED
  BY <1>1, <1>5, <1>6, <1>7 DEF PagesInv

\* Every step keeps the invariant.
LEMMA PagesStep == FeedInv /\ PagesInv /\ [FeedNext]_feedVars => (FeedInv /\ PagesInv)'
<1> SUFFICES ASSUME FeedInv, PagesInv, [FeedNext]_feedVars PROVE FeedInv' /\ PagesInv'
  OBVIOUS
<1>1. FeedInv'
  <2>1. [Next]_vars
    BY DEF FeedNext, feedVars, Next, OpenFeed, CloseFeed, NextPage, PreviousPage, Turn, AskAgain, GoStale,
           ServeRequest, AnswerComes, RequestFails, DropQuery
  <2>2. QED
    BY <2>1, FeedStep
<1>2. TypeOK /\ Distinct /\ TypeOK'
  BY <1>1 DEF FeedInv
<1> SUFFICES PagesInv'
  BY <1>1
<1>3. CASE (Execute \/ Index) /\ UNCHANGED viewVars
  BY <1>2, <1>3, Grown
<1>4. CASE OpenFeed
  BY <1>4, Opened
<1>5. CASE CloseFeed
  BY <1>5, Closed
<1>6. CASE NextPage
  BY <1>6, TurnedOn
<1>7. CASE PreviousPage
  BY <1>7, TurnedBack
<1>8. CASE AskAgain
  BY <1>8, AskedAgain
<1>9. CASE GoStale
  BY <1>9, Staled
<1>10. ASSUME NEW k \in Page, ServeRequest(k) PROVE PagesInv'
  BY <1>2, <1>10, ServedIs
<1>11. ASSUME NEW k \in Page, AnswerComes(k) PROVE PagesInv'
  BY <1>11, Answered
<1>12. ASSUME NEW k \in Page, RequestFails(k) PROVE PagesInv'
  BY <1>12, Failed
<1>13. ASSUME NEW k \in Page, DropQuery(k) PROVE PagesInv'
  BY <1>13, Dropped
<1>14. CASE UNCHANGED feedVars
  <2>1. UNCHANGED vars /\ UNCHANGED <<at, stack>> /\ data' = data /\ request' = request /\ fresh' = fresh
    BY <1>14 DEF feedVars, viewVars
  <2>2. ViewTypes
    BY DEF PagesInv
  <2>3. /\ data' \in [Page -> Queries \cup {Absent}] /\ request' \in [Page -> Requests \cup {Absent}]
        /\ fresh' \in Seq(Page) /\ \A k \in Page : Contains(fresh', k) => Has(k)'
    BY <2>1, <2>2 DEF ViewTypes, Has
  <2>4. QED
    BY <2>1, <2>3, Lost
<1>15. QED
  BY <1>3, <1>4, <1>5, <1>6, <1>7, <1>8, <1>9, <1>10, <1>11, <1>12, <1>13, <1>14 DEF FeedNext

\* What the invariant says of the pages that are kept.
LEMMA PagesKept == FeedInv /\ PagesInv => PagesHonest
<1> SUFFICES ASSUME FeedInv, PagesInv PROVE PagesHonest
  OBVIOUS
<1>1. ViewTypes /\ Starts /\ PagesSound /\ Behind /\ Apart /\ Later /\ Ended /\ Visited /\ Joined
  BY DEF PagesInv
<1>2. TypeOK /\ Distinct
  BY DEF FeedInv
<1>3. FeedTypeOK
  <2>1. DOMAIN stack = 0..(MaxPage + 1)
    BY <1>1 DEF ViewTypes
  <2>2. QED
    BY <1>1, <2>1, CursorsAreRows DEF ViewTypes, PagesSound, PageSound, FeedTypeOK, Has
<1>4. PagesJoin
  <2>1. ASSUME NEW k \in Page \ {0}, data[k] # Absent, data[k - 1] # Absent, data[k].after
        PROVE  data[k].from = data[k - 1].next
    <3>1. k - 1 \in Page
      BY PageNumbers
    <3>2. Has(k) /\ Has(k - 1)
      BY <2>1, <3>1 DEF Has
    <3>3. QED
      BY <1>1, <2>1, <3>2 DEF Joined
  <2>2. QED
    BY <2>1 DEF PagesJoin
<1>5. RowsOnce
  <2>1. SUFFICES ASSUME NEW k \in Page, NEW l \in Page, k < l, data[k] # Absent, data[l] # Absent,
                        NEW i \in data[k].rows, NEW j \in data[l].rows
                 PROVE  Newer(i, j)
    BY DEF RowsOnce
  <2> DEFINE f == data[l].from
             n == data[k].next
  <2>2. Has(k) /\ Has(l) /\ k \in Nat /\ l \in Nat /\ k + 1 \in Page /\ k + 1 \in Borders /\ l \in Borders
        /\ (k + 1) - 1 = k
    BY <2>1, PageNumbers, PagesAssumption DEF Has, Page
  <2>3. f \in Nat /\ f # 0 /\ n \in Nat
    BY <1>1, <2>1, <2>2, Fields DEF Starts
  <2>4. Sent(l, f) /\ Held(l, f)
    BY <2>2, <2>3 DEF Sent, Held
  <2>5. n # 0
    BY <1>1, <2>1, <2>2, <2>3, <2>4 DEF Ended
  <2>6. Made(k + 1, n) /\ Held(k + 1, n) /\ Ahead(k + 1, n)
    BY <2>2, <2>5 DEF Made, Held, Ahead
  <2>7. AtLeast(n, f)
    <3>1. CASE l = k + 1
      BY <1>1, <2>2, <2>3, <2>4, <2>5, <3>1 DEF Later
    <3>2. CASE k + 1 < l
      <4>1. Below(n, f)
        BY <1>2, <2>2, <2>3, <2>4, <2>6, <3>2, Between
      <4>2. QED
        BY <2>5, <4>1 DEF Below, AtLeast
    <3>3. QED
      BY <2>1, <2>2, <3>1, <3>2
  <2>8. n \in Table /\ f \in Table /\ Table \in SUBSET (1..Len(txs))
    BY <1>1, <1>2, <2>2, <2>3, <2>4, <2>6, TableRows DEF Behind
  <2>9. i \in Table /\ AtLeast(i, n) /\ j \in Table /\ Newer(f, j)
    BY <1>1, <2>2, <2>3, <2>5 DEF PagesSound, PageSound, Below
  <2>10. QED
    BY <1>2, <2>7, <2>8, <2>9, NewerTransitive DEF AtLeast
<1>6. QED
  BY <1>3, <1>4, <1>5 DEF PagesHonest

\* The pages of the feed that are kept join, and have no row twice (ActivityFeed.tsx:39-47):
\* for every size and number of pages, and whatever is asked, dropped or closed in whichever order.
THEOREM FeedPagesAreHonest == FeedSpec => []PagesHonest
<1>1. FeedInv /\ PagesInv => PagesHonest
  BY PagesKept
<1>2. QED
  BY <1>1, PagesStart, PagesStep, PTL DEF FeedSpec
=============================================================================
