------------------------------ MODULE Gallery ------------------------------
(***************************************************************************)
(* The NFTs of a wallet: a page is the wallet's own objects read from a    *)
(* cursor on, behind the items of its kiosks, cut at the limit (nfts.ts);  *)
(* the gallery merges the pages it is given and asks for more while there  *)
(* is a cursor (NftGallery.tsx).  An object moves between the wallet and a *)
(* kiosk while the pages are read.                                         *)
(***************************************************************************)
EXTENDS Integers, Sequences, FiniteSetsExt, Functions, Filters

CONSTANTS
  Objects,     \* the ids, numbered in the order a node lists them
  PageSize,    \* objects a call of suix_getOwnedObjects returns (50)
  Limit,       \* items of an answer: PAGE_SIZE, also pageLimit (24)
  MaxPages,    \* calls for one answer (6)
  MaxFields,   \* dynamic fields of a kiosk that are looked at (200)
  MaxMoves     \* bound: moves of an object

ASSUME ObjectAssumption == IsFiniteSet(Objects) /\ Objects = 1..Cardinality(Objects)
ASSUME GalleryBounds ==
  /\ PageSize \in Nat \ {0} /\ Limit \in Nat \ {0} /\ MaxPages \in Nat \ {0}
  /\ MaxFields \in Nat /\ MaxMoves \in Nat

Places == {"wallet", "kiosk", "listed"}
First(s, n) == SubSeq(s, 1, Min({n, Len(s)}))

VARIABLES
  nfts,       \* the objects with a display or a name, no coins or positions
  place,      \* where each object is
  cursor,     \* the cursor of the gallery's query; 0 is undefined
  phase,      \* of the query: "wallet" and "kiosks" are being read
  read,       \* what was read of the wallet, while its kiosks are
  items,      \* what the gallery shows
  nextCursor, \* 0 is null
  moves,
  disturbed,  \* a call has failed, or an object has moved
  cut         \* an answer, or a kiosk, had more than its limit

galleryVars == <<nfts, place, cursor, phase, read, items, nextCursor, moves, disturbed, cut>>

GalleryInit ==
  /\ nfts \in SUBSET Objects /\ place \in [Objects -> Places \ {"kiosk"}]
  /\ cursor = 0 /\ phase = "wallet" /\ read = [items |-> <<>>, next |-> 0]
  /\ items = <<>> /\ nextCursor = 0
  /\ moves = 0 /\ disturbed = FALSE /\ cut = FALSE

Listing == [o \in Objects |-> o]

\* extractNftItems
Nfts(s) == Picked(s, {i \in DOMAIN s : s[i] \in nfts})

-----------------------------------------------------------------------------
(* getOwnedNfts                                                            *)

\* The wallet's objects from a cursor on, a page at a time, until there are
\* enough, none are left, or a call fails: the cursor is then where it was.
Pages(from, failing) ==
  LET after(c) == Picked(Listing, {o \in Objects : place[o] = "wallet" /\ o > c})
      upTo[p \in 0 .. MaxPages] ==
        IF p = 0 THEN [items |-> <<>>, next |-> from, more |-> TRUE]
        ELSE LET before == upTo[p - 1]
                 page == First(after(before.next), PageSize)
                 more == Len(after(before.next)) > PageSize
             IN IF ~ before.more \/ p = failing \/ Len(before.items) >= Limit
                  THEN [before EXCEPT !.more = FALSE]
                  ELSE [items |-> before.items \o Nfts(page),
                        next |-> IF more THEN page[Len(page)] ELSE 0, more |-> more]
  IN [items |-> upTo[MaxPages].items, next |-> upTo[MaxPages].next]

\* The fields of the kiosks.  That of a listing also names its item, which is
\* then loaded again.
KioskFields ==
  Picked([i \in 1 .. 2 * Cardinality(Objects) |-> (i + 1) \div 2],
         {i \in 1 .. 2 * Cardinality(Objects) :
            LET p == place[(i + 1) \div 2] IN p = "listed" \/ (p = "kiosk" /\ i % 2 = 1)})

\* discoverKioskIds and loadKioskNfts: fields, items and whole kiosks whose
\* calls fail are missing.
KioskItems(lost) ==
  LET found == Nfts(First(KioskFields, MaxFields))
  IN Picked(found, {i \in DOMAIN found : found[i] \notin lost})

\* mergeUnique, and what getOwnedNfts does with `seen`.
MergeUnique(prev, next) ==
  prev \o Picked(next, {i \in DOMAIN next :
                         next[i] \notin Range(prev) /\ \A j \in 1 .. i - 1 : next[j] # next[i]})

\* The calls for the wallet's own objects.
ReadWallet ==
  /\ phase = "wallet"
  /\ \E failing \in 1 .. MaxPages + 1 :
       /\ read' = Pages(cursor, failing)
       /\ disturbed' = (disturbed \/ Pages(cursor, failing) # Pages(cursor, MaxPages + 1))
  /\ phase' = "kiosks"
  /\ UNCHANGED <<nfts, place, cursor, items, nextCursor, moves, cut>>

\* Faulty: the gallery appends what it is given.
RespondAppending ==
  /\ phase = "kiosks"
  /\ LET found == First(KioskItems({}), Limit) \o read.items
     IN /\ items' = items \o First(MergeUnique(<<>>, found), Limit)
        /\ cut' = (cut \/ Len(KioskFields) > MaxFields
                      \/ Len(KioskItems({}) \o read.items) > Limit)
  /\ nextCursor' = read.next /\ phase' = "shown"
  /\ UNCHANGED <<nfts, place, cursor, read, moves, disturbed>>

\* The calls for its kiosks; the answer arrives and is merged.
Respond ==
  /\ phase = "kiosks"
  /\ \E lost \in SUBSET {o \in nfts : place[o] # "wallet"} :
       LET found == First(KioskItems(lost), Limit) \o read.items
       IN /\ items' = MergeUnique(items, First(MergeUnique(<<>>, found), Limit))
          /\ cut' = (cut \/ Len(KioskFields) > MaxFields
                      \/ Len(KioskItems({}) \o read.items) > Limit)
          /\ disturbed' = (disturbed \/ KioskItems(lost) # KioskItems({}))
  /\ nextCursor' = read.next /\ phase' = "shown"
  /\ UNCHANGED <<nfts, place, cursor, read, moves>>

-----------------------------------------------------------------------------
(* NftGallery                                                              *)

\* The request fails, and its one retry.
RequestFails ==
  /\ phase \in {"wallet", "kiosks"}
  /\ phase' = "error" /\ disturbed' = TRUE
  /\ UNCHANGED <<nfts, place, cursor, read, items, nextCursor, moves, cut>>

\* "Retry", which is there while nothing is shown; or the browser reconnects.
Refetch ==
  /\ phase \in {"shown", "error"}
  /\ phase' = "wallet"
  /\ UNCHANGED <<nfts, place, cursor, read, items, nextCursor, moves, disturbed, cut>>

\* "Load more".  A cursor that did not move is the key of the same query.
LoadMore ==
  /\ phase \in {"shown", "error"} /\ nextCursor \notin {0, cursor}
  /\ cursor' = nextCursor /\ phase' = "wallet"
  /\ UNCHANGED <<nfts, place, read, items, nextCursor, moves, disturbed, cut>>

\* Its owner puts an object into a kiosk, lists it there, or takes it out.
Move ==
  /\ moves < MaxMoves /\ moves' = moves + 1
  /\ \E o \in Objects, p \in Places : p # place[o] /\ place' = [place EXCEPT ![o] = p]
  /\ disturbed' = TRUE
  /\ UNCHANGED <<nfts, cursor, phase, read, items, nextCursor, cut>>

GalleryNext == ReadWallet \/ Respond \/ RequestFails \/ Refetch \/ LoadMore \/ Move

GallerySpec == GalleryInit /\ [][GalleryNext]_galleryVars

-----------------------------------------------------------------------------
AllLoaded == phase = "shown" /\ nextCursor = 0

\* An item that comes with every page, or that is moved into a kiosk after its
\* page was read, is shown once.
ItemsOnce == \A i, j \in DOMAIN items : items[i] = items[j] => i = j

\* When the gallery says that all is loaded, all is shown, unless a call
\* failed, an object moved, or an answer was cut at the limit: what is cut off
\* is behind the cursor and does not come back.
NothingPassedOver == AllLoaded /\ ~ disturbed /\ ~ cut => Range(items) = nfts

\* What the gallery promises.
GalleryHonest == ItemsOnce /\ NothingPassedOver
=============================================================================
