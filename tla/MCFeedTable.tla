---------------------------- MODULE MCFeedTable ----------------------------
(***************************************************************************)
(* The feed served from the table: to a reader who follows the cursors     *)
(* (ActivityFeed), and to a user of the page that goes back and forth      *)
(* (FeedPages, with smaller pages and a shorter history).  The two share   *)
(* the chain and the table; `part` says who reads.                         *)
(***************************************************************************)
EXTENDS FeedPages

CONSTANTS PageTx, PageTs \* bounds of the user's history, as MaxTx and MaxTs

VARIABLE part

TableInit == FeedInit /\ part \in {"reader", "page"}

\* The user's feed does not see the digests of what the indexer has not seen.
Shorter ==
  /\ Len(txs) <= PageTx
  /\ \A i \in DOMAIN txs :
       txs[i].ts <= PageTs /\ txs[i].dg <= PageTx /\ (txs[i].dg = PageTx <=> i < FirstIndexed)

TableNext ==
  /\ UNCHANGED part
  /\ \/ part = "reader" /\ Next /\ UNCHANGED viewVars
     \/ part = "page" /\ FeedNext /\ Shorter'

TableSpec == TableInit /\ [][TableNext]_<<part, feedVars>>
=============================================================================
