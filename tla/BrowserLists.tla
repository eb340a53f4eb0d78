---------------------------- MODULE BrowserLists ----------------------------
(***************************************************************************)
(* The lists the pages keep in the browser's storage: searches, watched    *)
(* wallets and badges.  Every tab has copies in its components' states;    *)
(* a handler reads, changes and writes a list in one turn, the writing tab *)
(* hears of it at once, the others by a storage event.  What is known of a *)
(* searched wallet, and the signature for a badge, come later.             *)
(***************************************************************************)
EXTENDS Naturals, Sequences, FiniteSetsExt, Filters, Browser

CONSTANTS
  Wallets,
  HistoryMax,    \* SEARCH_HISTORY_MAX (20)
  MaxSearches,   \* bound: searches
  MaxChanges     \* bound: other things a user does

ASSUME ListsAssumption == HistoryMax \in Nat

Lists == {"history", "watch", "badges"}
NoLists == [history |-> <<>>, watch |-> {}, badges |-> [w \in Wallets |-> 0]]

VARIABLES
  storage,    \* localStorage: one value per list
  screen,     \* screen[t]: the lists as the tab has them
  late,       \* late[t]: the lists with a storage event on its way to the tab
  enriching,  \* enriching[t]: the wallets enrichHistoryEntry is waiting for
  page,       \* page[t]: the wallet whose profile is open
  account,    \* account[t]: the wallet that is connected, or None
  pending,    \* pending[t]: pendingAdd, the wish to watch before connecting
  signing,    \* signing[t]: the wallet that signs for its badge, or None
  searches, changes,
  searched    \* the wallets searched since the history was cleared

listVars == <<storage, screen, late, enriching, page, account, pending, signing,
              searches, changes, searched>>
pageVars == <<page, account, pending, signing>>

ListsInit ==
  /\ storage = NoLists
  /\ screen = [t \in Tabs |-> NoLists]
  /\ late = [t \in Tabs |-> {}]
  /\ enriching = [t \in Tabs |-> {}]
  /\ page \in [Tabs -> Wallets]
  /\ \E w \in Wallets \cup {None} : account = [t \in Tabs |-> w]
  /\ pending = [t \in Tabs |-> FALSE]
  /\ signing = [t \in Tabs |-> None]
  /\ searches = 0 /\ changes = 0 /\ searched = {}

\* localStorage.setItem, and the event the tab sends itself.
Write(t, list, value) ==
  /\ storage' = [storage EXCEPT ![list] = value]
  /\ screen' = [screen EXCEPT ![t][list] = value]
  /\ late' = [u \in Tabs |-> IF u # t /\ value # storage[list] THEN late[u] \cup {list} ELSE late[u]]

Change == changes < MaxChanges /\ changes' = changes + 1

\* onStorage: the list is read again, as it is by then.
Deliver(t, list) ==
  /\ list \in late[t]
  /\ screen' = [screen EXCEPT ![t][list] = storage[list]]
  /\ late' = [late EXCEPT ![t] = @ \ {list}]
  /\ UNCHANGED <<storage, enriching, pageVars, searches, changes, searched>>

\* The tab is loaded again.
Reload(t) ==
  /\ Change
  /\ screen' = [screen EXCEPT ![t] = storage]
  /\ late' = [late EXCEPT ![t] = {}]
  /\ enriching' = [enriching EXCEPT ![t] = {}]
  /\ pending' = [pending EXCEPT ![t] = FALSE]
  /\ signing' = [signing EXCEPT ![t] = None]
  /\ UNCHANGED <<storage, page, account, searches, searched>>

-----------------------------------------------------------------------------
(* The searches.                                                           *)

Totals == {"known", "null"}

\* The positions at which a wallet is in the history; `prior` is at the first.
Prior(w) == {i \in DOMAIN storage.history : storage.history[i].wallet = w}

\* addSearchHistoryEntry
Added(w) ==
  LET total == IF Prior(w) = {} THEN "null" ELSE storage.history[Min(Prior(w))].total
      entries == <<[wallet |-> w, total |-> total, at |-> searches + 1]>>
                   \o Picked(storage.history, DOMAIN storage.history \ Prior(w))
  IN SubSeq(entries, 1, IF Len(entries) < HistoryMax THEN Len(entries) ELSE HistoryMax)

\* commitAddress
Search(t, w) ==
  /\ searches < MaxSearches /\ searches' = searches + 1
  /\ Write(t, "history", Added(w))
  /\ enriching' = [enriching EXCEPT ![t] = @ \cup {w}]
  /\ page' = [page EXCEPT ![t] = w]
  /\ searched' = searched \cup {w}
  /\ UNCHANGED <<account, pending, signing, changes>>

\* Faulty: an entry that is not there is put in front.
UpdatedOrAdded(w, total) ==
  IF Prior(w) = {} THEN <<[wallet |-> w, total |-> total, at |-> searches]>> \o storage.history
  ELSE [i \in DOMAIN storage.history |->
         IF storage.history[i].wallet = w THEN [storage.history[i] EXCEPT !.total = total]
         ELSE storage.history[i]]

\* updateSearchHistoryEntry: only an entry that is still there.
Updated(w, total) ==
  [i \in DOMAIN storage.history |->
    IF storage.history[i].wallet = w THEN [storage.history[i] EXCEPT !.total = total]
    ELSE storage.history[i]]

\* enrichHistoryEntry: a total that could not be had replaces a known one.
Enriched(t, w) ==
  /\ w \in enriching[t]
  /\ \E total \in Totals : Write(t, "history", Updated(w, total))
  /\ enriching' = [enriching EXCEPT ![t] = @ \ {w}]
  /\ UNCHANGED <<pageVars, searches, changes, searched>>

\* handleClearHistory
ClearHistory(t) ==
  /\ Change
  /\ Write(t, "history", <<>>)
  /\ searched' = {}
  /\ UNCHANGED <<enriching, pageVars, searches>>

-----------------------------------------------------------------------------
(* The watched wallets and the badges.                                     *)

\* addWatchlistAddress, with the owner that must not watch itself.
Watch(t, w, owner) ==
  IF w = owner \/ w \in storage.watch THEN UNCHANGED <<storage, screen, late>>
  ELSE Write(t, "watch", storage.watch \cup {w})

\* removeWatchlistAddress
Unwatch(t, w) ==
  IF w \notin storage.watch THEN UNCHANGED <<storage, screen, late>>
  ELSE Write(t, "watch", storage.watch \ {w})

\* handleClick of WatchlistToggleButton: what it does depends on the copy.
Toggle(t) ==
  /\ Change
  /\ IF page[t] \in screen[t].watch THEN Unwatch(t, page[t]) /\ UNCHANGED pending
     ELSE IF account[t] = None
       THEN pending' = [pending EXCEPT ![t] = TRUE] /\ UNCHANGED <<storage, screen, late>>
       ELSE Watch(t, page[t], account[t]) /\ UNCHANGED pending
  /\ UNCHANGED <<enriching, page, account, signing, searches, searched>>

\* The page of the list: any wallet can be added there, one's own as well.
EditList(t, w) ==
  /\ Change
  /\ Watch(t, w, None) \/ Unwatch(t, w)
  /\ UNCHANGED <<enriching, pageVars, searches, searched>>

\* A wallet connects: the page that is open by then is watched.
Connect(t, w) ==
  /\ Change /\ account[t] # w
  /\ account' = [account EXCEPT ![t] = w]
  /\ IF pending[t] THEN Watch(t, page[t], w) ELSE UNCHANGED <<storage, screen, late>>
  /\ pending' = [pending EXCEPT ![t] = FALSE]
  /\ UNCHANGED <<enriching, page, signing, searches, searched>>

\* performMint, up to the signature.
Mint(t) ==
  /\ Change /\ account[t] # None /\ signing[t] = None
  /\ screen[t].badges[account[t]] = 0 /\ storage.badges[account[t]] = 0
  /\ signing' = [signing EXCEPT ![t] = account[t]]
  /\ UNCHANGED <<storage, screen, late, enriching, page, account, pending, searches, searched>>

\* mintWalletBadge looks again: another tab may have been faster.
Signed(t) ==
  /\ signing[t] # None
  /\ IF storage.badges[signing[t]] > 0 THEN UNCHANGED <<storage, screen, late>>
     ELSE Write(t, "badges", [storage.badges EXCEPT ![signing[t]] = @ + 1])
  /\ signing' = [signing EXCEPT ![t] = None]
  /\ UNCHANGED <<enriching, page, account, pending, searches, changes, searched>>

\* The signature is refused.
Unsigned(t) ==
  /\ signing[t] # None
  /\ signing' = [signing EXCEPT ![t] = None]
  /\ UNCHANGED <<storage, screen, late, enriching, page, account, pending, searches, changes, searched>>

ListsNext ==
  \E t \in Tabs :
    \/ Reload(t) \/ ClearHistory(t) \/ Toggle(t) \/ Mint(t) \/ Signed(t) \/ Unsigned(t)
    \/ \E w \in Wallets : Search(t, w) \/ Enriched(t, w) \/ EditList(t, w) \/ Connect(t, w)
    \/ \E list \in Lists : Deliver(t, list)

ListsSpec == ListsInit /\ [][ListsNext]_listVars

-----------------------------------------------------------------------------
\* The history has a wallet once, the newest search first, and never one that
\* was cleared: an answer that comes after "Clear all" brings nothing back.
HistoryHonest ==
  /\ Len(storage.history) <= HistoryMax
  /\ \A i, j \in DOMAIN storage.history : i < j =>
       /\ storage.history[i].at > storage.history[j].at
       /\ storage.history[i].wallet # storage.history[j].wallet
  /\ \A i \in DOMAIN storage.history : storage.history[i].wallet \in searched

\* A wallet has a badge at most once, although two tabs may have it signed for
\* at the same time.
OneBadge == \A w \in Wallets : storage.badges[w] <= 1

\* A tab that no event is on its way to shows what is stored, whichever tab wrote.
TabsAgree ==
  \A t \in Tabs, list \in Lists : list \notin late[t] => screen[t][list] = storage[list]

\* What the lists kept in the browser promise.
ListsHonest == HistoryHonest /\ OneBadge /\ TabsAgree
=============================================================================
