------------------------------ MODULE Discovery ------------------------------
(***************************************************************************)
(* apps/api/src/lib/defiPositions.ts: which DeFi positions a wallet owns.  *)
(* One discovery asks an RPC node for the objects of every known type (the *)
(* filters), then for all its objects (the scan), page by page, goes on to *)
(* the next node under different conditions in each part, and merges.      *)
(* Meanwhile objects come and go, calls fail, and callers who ask join the *)
(* discovery under way.  A step is one answer of a node.                   *)
(***************************************************************************)
EXTENDS Integers, FiniteSets

CONSTANTS
  Callers,
  Objects,      \* a wallet's possible objects, in the order nodes list them
  Positions,    \* those classifyType knows
  Filters,      \* listOwnedObjectFilters: 1..Filters
  FilterOf,     \* FilterOf[o]: the filters o matches
  Nodes,        \* defiRpcUrls: 1..Nodes
  PageSize,     \* PAGE_LIMIT
  FilterPages,  \* FILTER_MAX_PAGES
  ScanPages,    \* MAX_PAGES
  MaxMoves,     \* bound: objects that come or go
  MaxRuns       \* bound: discoveries

ASSUME ObjectAssumption == Objects \subseteq Nat \ {0} /\ IsFiniteSet(Objects)
ASSUME PositionAssumption ==
  /\ Positions \subseteq Objects
  /\ FilterOf \in [Objects -> SUBSET (1..Filters)]
ASSUME CountAssumption ==
  \A n \in {Filters, Nodes, PageSize, FilterPages, ScanPages} : n \in Nat \ {0}
ASSUME BoundAssumption == MaxMoves \in Nat /\ MaxRuns \in Nat

VARIABLES
  owned,         \* the wallet's objects
  moves,         \* how often they changed
  stage,         \* "idle", or the part the discovery is in
  node, filter,  \* the node and the filter asked
  page, cursor,  \* the page, and the last object of the one before
  hits,          \* positions of the filter or scan under way
  found,         \* positions of the filters before
  waiting,       \* the callers who await discoveryInflight
  answer,        \* answer[c]: what c was last given, if anything
  runs,          \* discoveries so far
  kept, ever,    \* owned throughout, and at some time, since the last one began
  missed         \* how many of its calls failed, 2 for more: [filters, scan]

progress == <<node, filter, page, cursor, hits, found>>
witness == <<kept, ever, missed>>
vars == <<owned, moves, stage, progress, waiting, answer, runs, witness>>

Failures == [filters : 0..2, scan : 0..2]

TypeOK ==
  /\ owned \subseteq Objects
  /\ moves \in Nat
  /\ stage \in {"idle", "filters", "scan"}
  /\ node \in 1..Nodes
  /\ filter \in 1..Filters
  /\ page \in 0..(FilterPages + ScanPages)
  /\ cursor \in Objects \cup {0}
  /\ hits \subseteq Positions
  /\ found \subseteq Positions
  /\ waiting \subseteq Callers
  /\ answer \in [Callers -> SUBSET Positions]
  /\ runs \in Nat
  /\ kept \subseteq Objects
  /\ ever \subseteq Objects
  /\ missed \in Failures

Init ==
  /\ owned \in SUBSET Objects
  /\ moves = 0
  /\ stage = "idle"
  /\ node = 1 /\ filter = 1 /\ page = 0 /\ cursor = 0
  /\ hits = {} /\ found = {}
  /\ waiting = {}
  /\ answer = [c \in Callers |-> {}]
  /\ runs = 0
  /\ kept = {} /\ ever = {}
  /\ missed = [filters |-> 0, scan |-> 0]

-----------------------------------------------------------------------------
(* Callers, and the wallet.                                                *)

\* getDefiPositions without a discovery under way.
Start(c) ==
  /\ stage = "idle"
  /\ runs < MaxRuns
  /\ runs' = runs + 1
  /\ stage' = "filters"
  /\ waiting' = {c}
  /\ kept' = owned /\ ever' = owned
  /\ missed' = [filters |-> 0, scan |-> 0]
  /\ UNCHANGED <<owned, moves, progress, answer>>

\* getDefiPositions finds a promise and awaits it.
Join(c) ==
  /\ stage # "idle"
  /\ c \notin waiting
  /\ waiting' = waiting \cup {c}
  /\ UNCHANGED <<owned, moves, stage, progress, answer, runs, witness>>

\* The wallet receives or sends an object.
Move(o) ==
  /\ moves < MaxMoves
  /\ moves' = moves + 1
  /\ owned' = IF o \in owned THEN owned \ {o} ELSE owned \cup {o}
  /\ kept' = kept \cap owned'
  /\ ever' = ever \cup owned'
  /\ UNCHANGED <<stage, progress, waiting, answer, runs, missed>>

-----------------------------------------------------------------------------
(* Pages.                                                                  *)

\* A node's page of S behind the cursor (suix_getOwnedObjects).
Rest(S) == {o \in S : o > cursor}
PageOf(S) == {o \in Rest(S) : Cardinality({q \in Rest(S) : q <= o}) <= PageSize}

\* The next page of S, if there is one and the cap allows it.
TurnPage(S, maxPages) ==
  /\ Rest(S) # PageOf(S)
  /\ page + 1 < maxPages
  /\ page' = page + 1
  /\ cursor' \in PageOf(S) /\ \A o \in PageOf(S) : o <= cursor'
  /\ hits' = hits \cup (PageOf(S) \cap Positions)
  /\ UNCHANGED <<owned, moves, stage, node, filter, found, waiting, answer, runs, witness>>

LastPage(S, maxPages) == Rest(S) = PageOf(S) \/ page + 1 >= maxPages

FromFirstPage == page' = 0 /\ cursor' = 0 /\ hits' = {}

\* One more call of that part failed.
Missed(part) == missed' = [missed EXCEPT ![part] = IF @ < 2 THEN @ + 1 ELSE 2]

-----------------------------------------------------------------------------
(* Filters.                                                                *)

Matching == {o \in owned : filter \in FilterOf[o]}

\* Faulty: the scan is for wallets the filters found nothing of.
FilterEndsAll(h) ==
  /\ found' = found \cup h
  /\ FromFirstPage
  /\ IF filter < Filters
       THEN filter' = filter + 1 /\ UNCHANGED <<stage, node, waiting, answer>>
       ELSE /\ filter' = 1
            /\ IF found' # {}
                 THEN /\ stage' = "idle" /\ node' = 1 /\ waiting' = {}
                      /\ answer' = [c \in Callers |->
                           IF c \in waiting THEN found' ELSE answer[c]]
                 ELSE IF node = Nodes
                   THEN stage' = "scan" /\ node' = 1 /\ UNCHANGED <<waiting, answer>>
                   ELSE node' = node + 1 /\ UNCHANGED <<stage, waiting, answer>>
  /\ UNCHANGED <<owned, moves, runs, kept, ever>>

\* collectFiltered is over with hits h: the next filter; after the last one
\* the scan if this node gave any hits, else the next node.
FilterEnds(h) ==
  /\ found' = found \cup h
  /\ FromFirstPage
  /\ IF filter < Filters
       THEN filter' = filter + 1 /\ UNCHANGED <<stage, node>>
       ELSE /\ filter' = 1
            /\ IF found' # {} \/ node = Nodes
                 THEN stage' = "scan" /\ node' = 1
                 ELSE node' = node + 1 /\ stage' = stage
  /\ UNCHANGED <<owned, moves, waiting, answer, runs, kept, ever>>

FilterPage ==
  /\ stage = "filters"
  /\ \/ TurnPage(Matching, FilterPages)
     \/ /\ LastPage(Matching, FilterPages)
        /\ FilterEnds(hits \cup (PageOf(Matching) \cap Positions))
        /\ UNCHANGED missed

\* A JSON-RPC error ends the filter with the pages it has; a call that throws
\* loses them.
FilterFails ==
  /\ stage = "filters"
  /\ FilterEnds(hits) \/ FilterEnds({})
  /\ Missed("filters")

-----------------------------------------------------------------------------
(* The scan.                                                               *)

\* Faulty: what the scan found replaces what the filters found.
FinishScanOnly(h) ==
  /\ stage' = "idle"
  /\ node' = 1 /\ found' = {}
  /\ answer' = [c \in Callers |->
       IF c \notin waiting THEN answer[c] ELSE IF h # {} THEN h ELSE found]
  /\ waiting' = {}

\* mergePositions of the two parts; .finally ends the promise and everyone
\* who awaits it is answered.
Finish(h) ==
  /\ stage' = "idle"
  /\ node' = 1 /\ found' = {}
  /\ answer' = [c \in Callers |-> IF c \in waiting THEN found \cup h ELSE answer[c]]
  /\ waiting' = {}

ScanPage ==
  /\ stage = "scan"
  /\ \/ TurnPage(owned, ScanPages)
     \/ /\ LastPage(owned, ScanPages)
        /\ Finish(hits \cup (PageOf(owned) \cap Positions))
        /\ FromFirstPage
        /\ UNCHANGED <<owned, moves, filter, runs, witness>>

\* Faulty: the node is asked again.
ScanFailsAgain ==
  /\ stage = "scan"
  /\ IF hits # {}
       THEN Finish(hits)
       ELSE UNCHANGED <<stage, node, found, waiting, answer>>
  /\ FromFirstPage
  /\ Missed("scan")
  /\ UNCHANGED <<owned, moves, filter, runs, kept, ever>>

\* An error of either kind ends the scan with the pages it has; the next node
\* is asked only if they show no position.
ScanFails ==
  /\ stage = "scan"
  /\ IF hits # {} \/ node = Nodes
       THEN Finish(hits)
       ELSE node' = node + 1 /\ UNCHANGED <<stage, found, waiting, answer>>
  /\ FromFirstPage
  /\ Missed("scan")
  /\ UNCHANGED <<owned, moves, filter, runs, kept, ever>>

Answered == FilterPage \/ FilterFails \/ ScanPage \/ ScanFails

Next ==
  \/ \E c \in Callers : Start(c) \/ Join(c)
  \/ \E o \in Objects : Move(o)
  \/ Answered

Spec == Init /\ [][Next]_vars

\* Every call has a timeout and bounded retries (lib/http.ts).
FairSpec == Spec /\ WF_vars(Answered)

-----------------------------------------------------------------------------
(* Properties.                                                             *)

Ends == stage # "idle" /\ stage' = "idle"

\* As many objects up to p, over the whole discovery, as a scan or a filter
\* may read: p is not behind a page cap, whatever came before it.
ScanReaches(p) ==
  Cardinality({o \in ever : o <= p}) <= ScanPages * PageSize
FilterReaches(p) ==
  \E f \in FilterOf[p] :
    Cardinality({o \in ever : o <= p /\ f \in FilterOf[o]}) <= FilterPages * PageSize

\* "a protocol isn't lost just because one filter failed"
\* (defiPositions.ts:324-327): unless the scan fails, however many filters
\* do, every position the wallet kept is in every caller's answer, whatever
\* else came and went between the pages.
FilterFailuresHarmless ==
  [][Ends /\ missed'.scan = 0 =>
       \A c \in waiting, p \in kept \cap Positions :
         ScanReaches(p) => p \in answer'[c]]_vars

\* A single failure, wherever it is, loses no position a filter is for: the
\* filters cover the scan and the scan covers the filters.
OneFailureTolerated ==
  [][Ends /\ missed'.filters + missed'.scan <= 1 =>
       \A c \in waiting, p \in kept \cap Positions :
         ScanReaches(p) /\ FilterReaches(p) => p \in answer'[c]]_vars

\* Whoever asks is answered, however many nodes fail, and a joiner is not
\* left behind by a promise that is over: a time comes when nobody waits.
EveryoneAnswered == waiting # {} ~> waiting = {}
=============================================================================
