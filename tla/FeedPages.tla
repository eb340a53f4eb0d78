----------------------------- MODULE FeedPages -----------------------------
(***************************************************************************)
(* The feed as a page shows it (ActivityFeed.tsx): its user goes back and  *)
(* forth between pages that come from the table and are kept by their      *)
(* number, not by the cursor they were asked with (useQuery, which asks    *)
(* again for data older than 30 s).  The page remembers a cursor for every *)
(* number; it is closed and opened again while the queries live on.        *)
(***************************************************************************)
EXTENDS ActivityFeed, SequencesExt, Filters

CONSTANTS
  PAGE_SIZE, \* rows of a page (20)
  MaxPage,   \* bound: the last page that is opened; pages are 0..MaxPage
  Away,      \* the feed is not on the screen
  Absent     \* no data, no request, no answer yet

VARIABLES
  at,       \* page: the number of the page that is shown, or Away
  stack,    \* cursorByPage: a row, or 0 for undefined
  data,     \* data[k]: what page k's query has, or Absent
  request,  \* request[k]: what it is waiting for, or Absent
  fresh,    \* the pages whose data are not stale, the oldest first
  broken    \* the pages whose last request failed

Page == 0..MaxPage
Answers == [rows : SUBSET Nat, next : Nat]
Requests == [from : Nat, answer : Answers \cup {Absent}, after : BOOLEAN]
Queries == [from : Nat, after : BOOLEAN, rows : SUBSET Nat, next : Nat]

\* What is not there is no page, no answer and no data.
ASSUME PagesAssumption ==
  /\ PAGE_SIZE \in Nat \ {0} /\ MaxPage \in Nat
  /\ Away \notin Nat
  /\ Absent \notin Answers \cup Requests \cup Queries

viewVars == <<at, stack, data, request, fresh, broken>>
feedVars == <<vars, viewVars>>

NoCursors == [k \in 0..(MaxPage + 1) |-> 0]
AllAbsent == [k \in Page |-> Absent]

FeedInit ==
  /\ Init
  /\ at = Away /\ stack = NoCursors
  /\ data = AllAbsent /\ request = AllAbsent
  /\ fresh = <<>> /\ broken = {}

-----------------------------------------------------------------------------
\* Faulty: a cursor that is known is not replaced.
NoteOnce(cursors, k, kept) ==
  IF kept[k] = Absent \/ kept[k].next = 0 \/ cursors[k + 1] # 0 THEN cursors
  ELSE [cursors EXCEPT ![k + 1] = kept[k].next]

\* The effect on [data.nextCursor, page].
Note(cursors, k, kept) ==
  IF kept[k] = Absent \/ kept[k].next = 0 THEN cursors
  ELSE [cursors EXCEPT ![k + 1] = kept[k].next]

\* getActivity(address, cursorByPage[page]).  after: no answer for the page
\* before has come since.
Asked(k) == [from |-> stack[k], answer |-> Absent, after |-> TRUE]

Ask(k) == request' = [request EXCEPT ![k] = Asked(k)]

\* useQuery of a page that comes onto the screen: what is there is shown, and
\* asked for again if it is stale; a request under way is awaited.  A failed
\* one with data that are not stale may be repeated, as the library has it.
Observe(k) ==
  \/ request[k] = Absent /\ ~ (Contains(fresh, k) /\ k \notin broken) /\ Ask(k)
  \/ request[k] # Absent /\ UNCHANGED request
  \/ data[k] # Absent /\ Contains(fresh, k) /\ UNCHANGED request

\* The tab "Activity" is opened; the first page's cursor is undefined.
OpenFeed ==
  /\ at = Away /\ Table # {}
  /\ at' = 0 /\ stack' = Note(NoCursors, 0, data)
  /\ Observe(0)
  /\ UNCHANGED <<vars, data, fresh, broken>>

CloseFeed ==
  /\ at # Away
  /\ at' = Away /\ stack' = NoCursors
  /\ UNCHANGED <<vars, data, request, fresh, broken>>

\* The buttons are there with items, and not disabled while a request is under
\* way; an error hides them.
Buttons ==
  /\ at # Away
  /\ data[at] # Absent /\ data[at].rows # {}
  /\ request[at] = Absent /\ at \notin broken

Turn(k) ==
  /\ at' = k /\ stack' = Note(stack, k, data)
  /\ Observe(k)
  /\ UNCHANGED <<vars, data, fresh, broken>>

NextPage == Buttons /\ at < MaxPage /\ data[at].next # 0 /\ Turn(at + 1)
PreviousPage == Buttons /\ at > 0 /\ Turn(at - 1)

\* "Retry"; or the browser reconnects, and the data are stale.
AskAgain ==
  /\ at # Away /\ request[at] = Absent
  /\ at \in broken \/ (data[at] # Absent /\ ~ Contains(fresh, at))
  /\ Ask(at)
  /\ UNCHANGED <<vars, at, stack, data, fresh, broken>>

-----------------------------------------------------------------------------
(* Requests end, time passes.                                              *)

\* The route, as in DbPage.
PageFrom(c) ==
  LET rest == {i \in Table : c # 0 => Newer(c, i)}
      rows == Top(rest, PAGE_SIZE)
  IN [rows |-> rows,
      next |-> IF Cardinality(rest) > PAGE_SIZE
                 THEN CHOOSE last \in rows : \A i \in rows : i = last \/ Newer(i, last)
                 ELSE 0]

ServeRequest(k) ==
  /\ request[k] # Absent /\ request[k].answer = Absent
  /\ request' = [request EXCEPT ![k].answer = PageFrom(request[k].from)]
  /\ UNCHANGED <<vars, at, stack, data, fresh, broken>>

\* What was asked for behind page k was not asked with its new cursor.
Before(k, queries) ==
  [j \in Page |-> IF j = k + 1 /\ queries[j] # Absent THEN [queries[j] EXCEPT !.after = FALSE]
                  ELSE queries[j]]

\* The answer arrives, whether or not its page is still shown.
AnswerComes(k) ==
  /\ request[k] # Absent /\ request[k].answer # Absent
  /\ data' = Before(k, [data EXCEPT ![k] =
       [from |-> request[k].from, after |-> request[k].after,
        rows |-> request[k].answer.rows, next |-> request[k].answer.next]])
  /\ request' = Before(k, [request EXCEPT ![k] = Absent])
  /\ fresh' = Append(Picked(fresh, {i \in DOMAIN fresh : fresh[i] # k}), k)
  /\ broken' = broken \ {k}
  /\ stack' = IF at = k THEN Note(stack, k, data') ELSE stack
  /\ UNCHANGED <<vars, at>>

\* The request fails, and its one retry: the data stay.
RequestFails(k) ==
  /\ request[k] # Absent
  /\ request' = [request EXCEPT ![k] = Absent]
  /\ broken' = broken \cup {k}
  /\ UNCHANGED <<vars, at, stack, data, fresh>>

\* 30 s have passed since the oldest answer.
GoStale ==
  /\ fresh # <<>>
  /\ fresh' = Tail(fresh)
  /\ UNCHANGED <<vars, at, stack, data, request, broken>>

\* A query that nobody has looked at for five minutes is dropped.
DropQuery(k) ==
  /\ k # at /\ data[k] # Absent /\ request[k] = Absent /\ ~ Contains(fresh, k)
  /\ data' = [data EXCEPT ![k] = Absent]
  /\ broken' = broken \ {k}
  /\ UNCHANGED <<vars, at, stack, request, fresh>>

FeedNext ==
  \/ (Execute \/ Index) /\ UNCHANGED viewVars
  \/ OpenFeed \/ CloseFeed \/ NextPage \/ PreviousPage \/ AskAgain \/ GoStale
  \/ \E k \in Page : ServeRequest(k) \/ AnswerComes(k) \/ RequestFails(k) \/ DropQuery(k)

FeedSpec == FeedInit /\ [][FeedNext]_feedVars

-----------------------------------------------------------------------------
FeedTypeOK ==
  /\ at \in Page \cup {Away}
  /\ \A k \in DOMAIN stack : stack[k] \in Table \cup {0}
  /\ \A k \in Page :
       /\ data[k] # Absent => data[k].rows \subseteq Table
       /\ Contains(fresh, k) => data[k] # Absent

\* Pages join: one that was asked for after the page before it had come goes on
\* where that one ends, however often either was asked for, dropped or closed.
\* Only a page that is older than the one before it leaves rows out between
\* the two: it is shown for 30 s although the cursor has changed.
PagesJoin ==
  \A k \in Page \ {0} :
    data[k] # Absent /\ data[k - 1] # Absent /\ data[k].after =>
      data[k].from = data[k - 1].next

\* Whatever is kept of whichever time, no row is on two pages, and a later page
\* has only older rows.
RowsOnce ==
  \A k, l \in Page :
    k < l /\ data[k] # Absent /\ data[l] # Absent =>
      \A i \in data[k].rows, j \in data[l].rows : Newer(i, j)

\* What the page of the feed promises of the pages it keeps.
PagesHonest == FeedTypeOK /\ PagesJoin /\ RowsOnce
=============================================================================
