--------------------------- MODULE DiscoveryProofs ---------------------------
(***************************************************************************)
(* The discovery for any wallet, any nodes, filters and page caps, and any *)
(* number of failures: what a caller's answer cannot lack.  The argument   *)
(* is a count: after k full pages at least k * PageSize of the objects the *)
(* wallet ever had are behind the cursor, so that a position within the    *)
(* cap is on a page before the cap stops the reading.  Then what resolve.ts*)
(* makes of the positions that were found: none is lost on its way to the  *)
(* payload, however many sources report it and whatever fails, none is     *)
(* said to be worth more than it is, the totals and the profile that are   *)
(* made of the rows count nothing twice, and if every call was answered,   *)
(* the rows say exactly what there is.                                     *)
(***************************************************************************)
EXTENDS Discovery, Analysis, ListLemmas, WellFoundedInduction

\* Enough of E is behind the cursor for the pages read.
Behind(E) == page * PageSize <= Cardinality({o \in E : o <= cursor})

\* The wallet's objects that filter f is for.
ObjectsFor(f, E) == {o \in E : f \in FilterOf[o]}

\* p is one of the positions filter f finds within its cap.
InReach(f, p) ==
  /\ p \in kept \cap Positions /\ f \in FilterOf[p]
  /\ Cardinality({o \in ObjectsFor(f, ever) : o <= p}) <= FilterPages * PageSize

\* The wallet's objects while a discovery is under way.
Witnessed == stage # "idle" => kept \subseteq owned /\ owned \subseteq ever

\* What the filters have found if none of their calls failed.
FilterInv ==
  missed.filters = 0 =>
    /\ stage = "filters" =>
         /\ page < FilterPages /\ Behind(ObjectsFor(filter, ever))
         /\ \A f \in 1..(filter - 1), p \in Objects : InReach(f, p) => p \in found
         /\ \A p \in kept \cap Positions :
              filter \in FilterOf[p] /\ p <= cursor => p \in hits
    /\ stage = "scan" =>
         \A f \in 1..Filters, p \in Objects : InReach(f, p) => p \in found

\* What the scan has found if none of its calls failed.
ScanInv ==
  /\ stage = "filters" => missed.scan = 0
  /\ stage = "scan" /\ missed.scan = 0 =>
       /\ page < ScanPages /\ Behind(ever)
       /\ \A p \in kept \cap Positions : p <= cursor => p \in hits

\* A discovery begins at the first page of the first filter.
Rested ==
  /\ stage # "filters" => filter = 1
  /\ stage = "idle" => page = 0 /\ cursor = 0

\* The inductive invariant.
DiscoveryInv ==
  /\ TypeOK
  /\ Witnessed
  /\ Rested
  /\ FilterInv
  /\ ScanInv

-----------------------------------------------------------------------------
(* Pages.                                                                  *)

\* A set of naturals has a least element.
LEMMA LeastElement ==
  ASSUME NEW S \in SUBSET Nat, S # {}
  PROVE  \E m \in S : \A n \in S : m <= n
<1>1. PICK m \in S : \A n \in S : ~ (<<n, m>> \in OpToRel(<, Nat))
  BY NatLessThanWellFounded, WFMin
<1>2. ASSUME NEW n \in S, n < m
      PROVE  FALSE
  <2>1. n \in Nat /\ m \in Nat
    OBVIOUS
  <2>2. <<n, m>> \in OpToRel(<, Nat)
    BY <1>2, <2>1, Zenon DEF OpToRel
  <2> QED  BY <2>2, <1>1, Zenon
<1>3. \A n \in S : n \in Nat
  OBVIOUS
<1> QED  BY <1>2, <1>3

\* Sets of objects are finite sets of naturals.
LEMMA ObjectSets ==
  ASSUME NEW S \in SUBSET Objects
  PROVE  IsFiniteSet(S) /\ Cardinality(S) \in Nat /\ S \in SUBSET Nat
<1>1. IsFiniteSet(S)
  BY FS_Subset, ObjectAssumption
<1> QED  BY <1>1, FS_CardinalityType, ObjectAssumption

\* Up to the last one on a page that is not the last page there are n.
LEMMA FullPage ==
  ASSUME NEW R \in SUBSET Objects, NEW n \in Nat \ {0}, NEW m \in Nat,
         NEW o \in R, n < Cardinality({q \in R : q <= o}),
         \A r \in R : Cardinality({q \in R : q <= r}) <= n => r <= m
  PROVE  n <= Cardinality({q \in R : q <= m})
<1> DEFINE UpTo(r) == {q \in R : q <= r}
           B == {q \in R : q > m}
<1>1. R \in SUBSET Nat /\ B \in SUBSET Nat /\ IsFiniteSet(R)
  BY ObjectSets
<1>2. \A r : IsFiniteSet(UpTo(r)) /\ Cardinality(UpTo(r)) \in Nat
  BY ObjectSets
<1>3. \A r \in R : r \in Nat
  BY <1>1
<1>4. SUFFICES ASSUME Cardinality(UpTo(m)) < n PROVE FALSE
  <2>1. Cardinality(UpTo(m)) \in Nat
    BY <1>2
  <2> HIDE DEF UpTo
  <2> QED  BY <2>1 DEF UpTo
<1>5. B # {}
  <2>1. SUFFICES ASSUME o <= m PROVE FALSE
    BY <1>3
  <2>2. UpTo(o) \in SUBSET UpTo(m)
    BY <1>3, <2>1
  <2>3. Cardinality(UpTo(o)) <= Cardinality(UpTo(m))
    BY <1>2, <2>2, FS_Subset
  <2>4. n < Cardinality(UpTo(o)) /\ Cardinality(UpTo(o)) \in Nat /\ Cardinality(UpTo(m)) \in Nat
    BY <1>2
  <2> HIDE DEF UpTo
  <2> QED  BY <1>4, <2>3, <2>4
<1>6. PICK b \in B : \A q \in B : b <= q
  BY <1>1, <1>5, LeastElement
<1>7. m < b /\ b \in R /\ b \in Nat
  BY <1>1, <1>6
<1>8. UpTo(b) = UpTo(m) \cup {b}
  <2>1. ASSUME NEW q \in R
        PROVE  q <= b <=> q <= m \/ q = b
    <3>1. q \in Nat /\ (q > m => b <= q)
      BY <1>3, <1>6
    <3> QED  BY <1>7, <3>1
  <2> QED  BY <1>7, <2>1
<1>9. b \notin UpTo(m)
  BY <1>7
<1>10. Cardinality(UpTo(b)) = Cardinality(UpTo(m)) + 1
  <2>1. IsFiniteSet(UpTo(m))
    BY <1>2
  <2> HIDE DEF UpTo
  <2> QED  BY <1>8, <1>9, <2>1, FS_AddElement
<1>11. Cardinality(UpTo(b)) <= n
  <2>1. Cardinality(UpTo(m)) \in Nat
    BY <1>2
  <2> HIDE DEF UpTo
  <2> QED  BY <1>4, <1>10, <2>1
<1> QED  BY <1>7, <1>11

\* What is behind the cursor and what comes after it up to m add up.
LEMMA CountTo ==
  ASSUME NEW E \in SUBSET Objects, NEW S \in SUBSET E, NEW c \in Nat, NEW m \in Nat,
         c < m
  PROVE  Cardinality({o \in E : o <= c})
           + Cardinality({q \in {o \in S : o > c} : q <= m})
         <= Cardinality({o \in E : o <= m})
<1> DEFINE A == {o \in E : o <= c}
           B == {q \in {o \in S : o > c} : q <= m}
           C == {o \in E : o <= m}
<1>1. /\ IsFiniteSet(A) /\ IsFiniteSet(B) /\ IsFiniteSet(C)
      /\ Cardinality(A) \in Nat /\ Cardinality(B) \in Nat /\ Cardinality(C) \in Nat
  BY ObjectSets
<1>2. A \cap B = {} /\ A \cup B \in SUBSET C
  <2>1. \A o \in E : o \in Nat
    BY ObjectSets
  <2> QED  BY <2>1
<1>3. Cardinality(A \cup B) = Cardinality(A) + Cardinality(B) - Cardinality(A \cap B)
  BY <1>1, FS_Union
<1>4. Cardinality(A \cap B) = 0
  BY <1>2, FS_EmptySet
<1>5. Cardinality(A \cup B) <= Cardinality(C)
  BY <1>1, <1>2, FS_Subset
<1> HIDE DEF A, B, C
<1>6. Cardinality(A) + Cardinality(B) <= Cardinality(C)
  BY <1>1, <1>3, <1>4, <1>5
<1> QED  BY <1>6 DEF A, B, C

\* The sorts of what a page is made of.
LEMMA Sorts ==
  ASSUME TypeOK, NEW S \in SUBSET Objects
  PROVE  /\ cursor \in Nat /\ page \in Nat /\ PageSize \in Nat \ {0}
         /\ S \in SUBSET Nat /\ Rest(S) \in SUBSET S
         /\ \A r \in S : r \in Nat /\ (r \in Rest(S) <=> cursor < r)
<1>1. PageSize \in Nat \ {0} /\ FilterPages \in Nat /\ ScanPages \in Nat
  BY CountAssumption
<1>2. page \in Nat
  BY <1>1 DEF TypeOK
<1>3. cursor \in Nat
  BY ObjectAssumption DEF TypeOK
<1>4. \A r \in S : r \in Nat
  BY ObjectAssumption
<1> QED  BY <1>1, <1>2, <1>3, <1>4 DEF Rest

\* Turning a page of S keeps the count of what is behind the cursor and
\* takes every element of S up to the new cursor.
LEMMA TurnKeeps ==
  ASSUME TypeOK, NEW E \in SUBSET Objects, NEW S \in SUBSET E, NEW max \in Nat,
         Behind(E), TurnPage(S, max)
  PROVE  /\ page' = page + 1 /\ page' < max
         /\ cursor' \in Objects
         /\ (page + 1) * PageSize <= Cardinality({o \in E : o <= cursor'})
         /\ \A p \in S : p <= cursor' => p <= cursor \/ p \in PageOf(S)
<1>1. /\ Rest(S) \in SUBSET Objects /\ cursor \in Nat /\ page \in Nat
      /\ PageSize \in Nat \ {0} /\ \A r \in S : r \in Nat
  BY Sorts
<1>2. /\ cursor' \in PageOf(S) /\ \A o \in PageOf(S) : o <= cursor'
      /\ Rest(S) # PageOf(S) /\ page' = page + 1 /\ page + 1 < max
  BY DEF TurnPage
<1>3. cursor' \in Rest(S) /\ cursor' \in Nat /\ cursor < cursor'
  <2>1. cursor' \in Rest(S)
    BY <1>2 DEF PageOf
  <2> QED  BY <2>1, Sorts
<1>4. PageSize <= Cardinality({q \in Rest(S) : q <= cursor'})
  <2>1. PICK o \in Rest(S) : o \notin PageOf(S)
    BY <1>2 DEF PageOf
  <2>2. Cardinality({q \in Rest(S) : q <= o}) \in Nat
    BY <1>1, ObjectSets
  <2>3. PageSize < Cardinality({q \in Rest(S) : q <= o})
    BY <1>1, <2>1, <2>2 DEF PageOf
  <2>4. \A r \in Rest(S) : Cardinality({q \in Rest(S) : q <= r}) <= PageSize
                           => r <= cursor'
    BY <1>2 DEF PageOf
  <2> QED  BY <1>1, <1>3, <2>3, <2>4, FullPage
<1>5. Cardinality({o \in E : o <= cursor})
        + Cardinality({q \in {o \in S : o > cursor} : q <= cursor'})
      <= Cardinality({o \in E : o <= cursor'})
  BY <1>1, <1>3, CountTo
<1>6. /\ Cardinality({o \in E : o <= cursor}) \in Nat
      /\ Cardinality({o \in E : o <= cursor'}) \in Nat
      /\ Cardinality({q \in Rest(S) : q <= cursor'}) \in Nat
  BY <1>1, ObjectSets
<1>7. (page + 1) * PageSize = page * PageSize + PageSize /\ page * PageSize \in Nat
  BY <1>1
<1>8. (page + 1) * PageSize <= Cardinality({o \in E : o <= cursor'})
  BY <1>1, <1>4, <1>5, <1>6, <1>7 DEF Behind, Rest
<1>9. ASSUME NEW p \in S, p <= cursor', ~ (p <= cursor)
      PROVE  p \in PageOf(S)
  <2>1. p \in Rest(S) /\ p \in Nat
    BY <1>1, <1>9, Sorts
  <2>2. {q \in Rest(S) : q <= p} \in SUBSET {q \in Rest(S) : q <= cursor'}
    <3>1. \A q \in Rest(S) : q \in Nat
      BY <1>1 DEF Rest
    <3>2. \A q \in Rest(S) : q <= p => q <= cursor'
      BY <1>3, <1>9, <2>1, <3>1
    <3> QED  BY <3>2
  <2>3. Cardinality({q \in Rest(S) : q <= p})
          <= Cardinality({q \in Rest(S) : q <= cursor'})
    BY <1>1, <2>2, ObjectSets, FS_Subset
  <2>4. Cardinality({q \in Rest(S) : q <= cursor'}) <= PageSize
    BY <1>2 DEF PageOf
  <2>5. Cardinality({q \in Rest(S) : q <= p}) \in Nat
    BY <1>1, ObjectSets
  <2>6. Cardinality({q \in Rest(S) : q <= p}) <= PageSize
    BY <1>1, <1>6, <2>3, <2>4, <2>5
  <2> QED  BY <2>1, <2>6 DEF PageOf
<1> QED  BY <1>1, <1>2, <1>3, <1>8, <1>9

\* The last page of S leaves nothing behind that the cap allows to read.
LEMMA LastTakes ==
  ASSUME TypeOK, NEW E \in SUBSET Objects, NEW S \in SUBSET E, NEW max \in Nat,
         Behind(E), page < max, LastPage(S, max),
         NEW p \in S, Cardinality({o \in E : o <= p}) <= max * PageSize
  PROVE  p <= cursor \/ p \in PageOf(S)
<1> SUFFICES ASSUME ~ (p <= cursor), p \notin PageOf(S)
             PROVE  FALSE
  OBVIOUS
<1>1. /\ Rest(S) \in SUBSET Objects /\ cursor \in Nat /\ page \in Nat
      /\ PageSize \in Nat \ {0} /\ p \in Nat
  BY Sorts
<1>2. cursor < p /\ p \in Rest(S)
  BY <1>1, Sorts
<1>3. max = page + 1
  BY <1>1, <1>2 DEF LastPage
<1>4. Cardinality({q \in Rest(S) : q <= p}) \in Nat
      /\ Cardinality({o \in E : o <= cursor}) \in Nat
      /\ Cardinality({o \in E : o <= p}) \in Nat
  BY <1>1, ObjectSets
<1>5. PageSize < Cardinality({q \in Rest(S) : q <= p})
  BY <1>1, <1>2, <1>4 DEF PageOf
<1>6. Cardinality({o \in E : o <= cursor})
        + Cardinality({q \in {o \in S : o > cursor} : q <= p})
      <= Cardinality({o \in E : o <= p})
  BY <1>1, <1>2, CountTo
<1>7. max * PageSize = page * PageSize + PageSize /\ page * PageSize \in Nat
  BY <1>1, <1>3
<1> QED  BY <1>1, <1>4, <1>5, <1>6, <1>7 DEF Behind, Rest

\* A larger set has no fewer members up to x.
LEMMA CountGrows ==
  ASSUME NEW B \in SUBSET Objects, NEW A \in SUBSET B, NEW x
  PROVE  /\ Cardinality({o \in A : o <= x}) <= Cardinality({o \in B : o <= x})
         /\ Cardinality({o \in A : o <= x}) \in Nat
         /\ Cardinality({o \in B : o <= x}) \in Nat
<1> DEFINE a == Cardinality({o \in A : o <= x})
           b == Cardinality({o \in B : o <= x})
<1>1. {o \in A : o <= x} \in SUBSET {o \in B : o <= x}
  OBVIOUS
<1>2. IsFiniteSet({o \in B : o <= x})
  BY ObjectSets
<1>3. a <= b /\ a \in Nat /\ b \in Nat
  BY <1>1, <1>2, ObjectSets, FS_Subset
<1> QED  BY <1>3

\* At the first page nothing has to be behind the cursor.
LEMMA FirstPage ==
  ASSUME NEW n \in Nat, NEW E \in SUBSET Objects, NEW x
  PROVE  0 * n <= Cardinality({o \in E : o <= x})
<1>1. Cardinality({o \in E : o <= x}) \in Nat
  BY ObjectSets
<1> QED  BY <1>1

\* The constants' sorts.
LEMMA Caps ==
  /\ FilterPages \in Nat \ {0} /\ ScanPages \in Nat \ {0} /\ PageSize \in Nat \ {0}
  /\ Filters \in Nat \ {0} /\ Nodes \in Nat \ {0}
  /\ \A o \in Objects : o \in Nat \ {0} /\ FilterOf[o] \in SUBSET (1..Filters)
  BY CountAssumption, ObjectAssumption, PositionAssumption

\* A failure is counted where it was.
LEMMA MissedCounts ==
  ASSUME TypeOK
  PROVE  /\ Missed("filters") => /\ missed' \in Failures
                                 /\ missed'.filters > 0 /\ missed'.scan = missed.scan
         /\ Missed("scan") => /\ missed' \in Failures
                              /\ missed'.scan > 0 /\ missed'.filters = missed.filters
<1>1. missed \in [filters : 0..2, scan : 0..2]
  BY DEF TypeOK, Failures
<1> QED  BY <1>1 DEF Missed, Failures

-----------------------------------------------------------------------------
(* Types.                                                                  *)

LEMMA TypeInit == Init => TypeOK
  BY Caps DEF Init, TypeOK, Failures

\* The end of a filter keeps every variable in its type.
LEMMA FilterEndsType ==
  ASSUME TypeOK, NEW h \in SUBSET Positions, FilterEnds(h), missed' \in Failures,
         stage = "filters"
  PROVE  TypeOK'
<1>1. /\ stage' \in {"filters", "scan"} /\ node' \in 1..Nodes /\ filter' \in 1..Filters
  BY Caps DEF TypeOK, FilterEnds
<1>2. /\ found' \subseteq Positions /\ hits' = {} /\ page' = 0 /\ cursor' = 0
      /\ UNCHANGED <<owned, moves, waiting, answer, runs, kept, ever>>
  BY DEF TypeOK, FilterEnds, FromFirstPage
<1> QED  BY <1>1, <1>2, Caps DEF TypeOK

\* So does the end of the scan.
LEMMA FinishType ==
  ASSUME TypeOK, NEW h \in SUBSET Positions, Finish(h), FromFirstPage,
         missed' \in Failures, UNCHANGED <<owned, moves, filter, runs, kept, ever>>
  PROVE  TypeOK'
<1>1. /\ stage' = "idle" /\ node' = 1 /\ found' = {} /\ waiting' = {}
      /\ hits' = {} /\ page' = 0 /\ cursor' = 0
  BY DEF Finish, FromFirstPage
<1>2. answer' \in [Callers -> SUBSET Positions]
  BY DEF TypeOK, Finish
<1> QED  BY <1>1, <1>2, Caps DEF TypeOK

\* And the turn of a page.
LEMMA TurnType ==
  ASSUME TypeOK, NEW S \in SUBSET Objects, NEW max \in {FilterPages, ScanPages},
         TurnPage(S, max)
  PROVE  TypeOK'
<1>1. page' \in 0..(FilterPages + ScanPages)
  BY Caps, Sorts DEF TurnPage
<1>2. cursor' \in Objects
  BY DEF TurnPage, PageOf, Rest
<1>3. /\ hits' \subseteq Positions
      /\ UNCHANGED <<owned, moves, stage, node, filter, found, waiting, answer, runs, witness>>
  BY DEF TypeOK, TurnPage
<1> QED  BY <1>1, <1>2, <1>3 DEF TypeOK, witness

\* Every step keeps the variables in their types.
LEMMA TypeStep ==
  ASSUME TypeOK, [Next]_vars
  PROVE  TypeOK'
<1>1. CASE \E c \in Callers : Start(c) \/ Join(c)
  <2>1. PICK c \in Callers : Start(c) \/ Join(c)
    BY <1>1
  <2>2. CASE Start(c)
    BY <2>2 DEF TypeOK, Start, progress, Failures
  <2>3. CASE Join(c)
    BY <2>3 DEF TypeOK, Join, progress, witness
  <2> QED  BY <2>1, <2>2, <2>3
<1>2. CASE \E o \in Objects : Move(o)
  <2>1. PICK o \in Objects : Move(o)
    BY <1>2
  <2> QED  BY <2>1 DEF TypeOK, Move, progress
<1>3. CASE FilterPage
  <2>1. Matching \in SUBSET Objects
    BY DEF TypeOK, Matching
  <2>2. CASE TurnPage(Matching, FilterPages)
    BY <2>1, <2>2, TurnType
  <2>3. CASE FilterEnds(hits \cup (PageOf(Matching) \cap Positions)) /\ UNCHANGED missed
    <3>1. hits \cup (PageOf(Matching) \cap Positions) \in SUBSET Positions
      BY DEF TypeOK
    <3>2. missed' \in Failures /\ stage = "filters"
      BY <1>3, <2>3 DEF TypeOK, FilterPage
    <3> QED  BY <2>3, <3>1, <3>2, FilterEndsType
  <2> QED  BY <1>3, <2>2, <2>3 DEF FilterPage
<1>4. CASE FilterFails
  <2>1. missed' \in Failures /\ stage = "filters"
    BY <1>4, MissedCounts DEF FilterFails
  <2>2. hits \in SUBSET Positions /\ {} \in SUBSET Positions
    BY DEF TypeOK
  <2> QED  BY <1>4, <2>1, <2>2, FilterEndsType DEF FilterFails
<1>5. CASE ScanPage
  <2>1. CASE TurnPage(owned, ScanPages)
    <3>1. owned \in SUBSET Objects
      BY DEF TypeOK
    <3> QED  BY <2>1, <3>1, TurnType
  <2>2. CASE /\ Finish(hits \cup (PageOf(owned) \cap Positions)) /\ FromFirstPage
             /\ UNCHANGED <<owned, moves, filter, runs, witness>>
    <3>1. hits \cup (PageOf(owned) \cap Positions) \in SUBSET Positions
      BY DEF TypeOK
    <3>2. missed' \in Failures /\ UNCHANGED <<owned, moves, filter, runs, kept, ever>>
      BY <2>2 DEF TypeOK, witness
    <3> QED  BY <2>2, <3>1, <3>2, FinishType
  <2> QED  BY <1>5, <2>1, <2>2 DEF ScanPage
<1>6. CASE ScanFails
  <2>1. missed' \in Failures /\ hits \in SUBSET Positions
    BY <1>6, MissedCounts DEF ScanFails, TypeOK
  <2>2. CASE Finish(hits)
    BY <1>6, <2>1, <2>2, FinishType DEF ScanFails
  <2>3. CASE node # Nodes /\ node' = node + 1 /\ UNCHANGED <<stage, found, waiting, answer>>
    <3>1. node' \in 1..Nodes
      BY <2>3, Caps DEF TypeOK
    <3>2. /\ hits' = {} /\ page' = 0 /\ cursor' = 0
          /\ UNCHANGED <<owned, moves, filter, runs, kept, ever>>
      BY <1>6 DEF ScanFails, FromFirstPage
    <3> QED  BY <2>1, <2>3, <3>1, <3>2, Caps DEF TypeOK
  <2> QED  BY <1>6, <2>2, <2>3 DEF ScanFails
<1>7. CASE UNCHANGED vars
  BY <1>7 DEF TypeOK, vars, progress, witness
<1> QED  BY <1>1, <1>2, <1>3, <1>4, <1>5, <1>6, <1>7 DEF Next, Answered

\* Every variable of the discovery keeps its type.
THEOREM DiscoveryTypeCorrect == Spec => []TypeOK
  BY TypeInit, TypeStep, PTL DEF Spec

-----------------------------------------------------------------------------
(* The inductive invariant.                                                *)

\* The sets the counts are about are sets of objects.
LEMMA Sets ==
  ASSUME DiscoveryInv
  PROVE  /\ owned \in SUBSET Objects /\ ever \in SUBSET Objects
         /\ kept \in SUBSET Objects
         /\ ObjectsFor(filter, ever) \in SUBSET Objects
         /\ stage # "idle" => /\ kept \subseteq owned /\ owned \in SUBSET ever
                              /\ Matching \in SUBSET ObjectsFor(filter, ever)
  BY DEF DiscoveryInv, TypeOK, Witnessed, ObjectsFor, Matching

LEMMA InvInit == Init => DiscoveryInv
  BY TypeInit DEF Init, DiscoveryInv, Witnessed, Rested, FilterInv, ScanInv

\* Beginning a discovery.
LEMMA StartInv ==
  ASSUME DiscoveryInv, TypeOK', NEW c \in Callers, Start(c)
  PROVE  DiscoveryInv'
<1>1. /\ stage = "idle" /\ stage' = "filters" /\ owned' = owned
      /\ kept' = owned /\ ever' = owned
      /\ filter' = 1 /\ page' = 0 /\ cursor' = 0 /\ missed'.scan = 0
  BY DEF Start, progress, DiscoveryInv, Rested
<1>2. Behind(ObjectsFor(filter, ever))'
  <2>1. ObjectsFor(1, owned) \in SUBSET Objects
    BY Sets DEF ObjectsFor
  <2>2. 0 * PageSize <= Cardinality({o \in ObjectsFor(1, owned) : o <= 0})
    BY <2>1, Caps, FirstPage
  <2> QED  BY <1>1, <2>2 DEF Behind, ObjectsFor
<1>3. FilterInv'
  <2>1. \A f : f \notin 1..(filter' - 1)
    BY <1>1
  <2>2. \A p \in (kept \cap Positions)' : ~ (p <= cursor')
    BY <1>1, Caps, Sets
  <2> QED  BY <1>1, <1>2, <2>1, <2>2, Caps DEF FilterInv
<1> QED  BY <1>1, <1>3 DEF DiscoveryInv, Witnessed, Rested, ScanInv

\* The wallet changes: more may be behind the cursor, less is to be found.
LEMMA MoveInv ==
  ASSUME DiscoveryInv, TypeOK', NEW o \in Objects, Move(o)
  PROVE  DiscoveryInv'
<1>1. /\ kept' = kept \cap owned' /\ ever' = ever \cup owned'
      /\ UNCHANGED <<stage, node, filter, page, cursor, hits, found, missed>>
  BY DEF Move, progress
<1>2. /\ kept' \subseteq kept /\ kept' \subseteq owned' /\ owned' \subseteq ever'
      /\ ever \subseteq ever' /\ ever' \in SUBSET Objects
  BY <1>1 DEF TypeOK
<1>3. \A f : ObjectsFor(f, ever) \in SUBSET ObjectsFor(f, ever') /\ ObjectsFor(f, ever') \in SUBSET Objects
  BY <1>2 DEF ObjectsFor
<1>4. page * PageSize \in Nat
  <2>1. TypeOK /\ owned \in SUBSET Objects
    BY Sets DEF DiscoveryInv
  <2>2. page \in Nat /\ PageSize \in Nat
    BY <2>1, Sorts
  <2> QED  BY <2>2
<1>5. \A f : Behind(ObjectsFor(f, ever)) => Behind(ObjectsFor(f, ever))'
  <2> SUFFICES ASSUME NEW f, page * PageSize <= Cardinality({q \in ObjectsFor(f, ever) : q <= cursor})
               PROVE  page * PageSize <= Cardinality({q \in ObjectsFor(f, ever') : q <= cursor})
    BY <1>1 DEF Behind, ObjectsFor
  <2>1. ObjectsFor(f, ever) \in SUBSET ObjectsFor(f, ever') /\ ObjectsFor(f, ever') \in SUBSET Objects
    BY <1>3
  <2> DEFINE a == Cardinality({q \in ObjectsFor(f, ever) : q <= cursor})
             b == Cardinality({q \in ObjectsFor(f, ever') : q <= cursor})
  <2>2. a <= b /\ a \in Nat /\ b \in Nat /\ page * PageSize <= a
    BY <2>1, CountGrows
  <2> HIDE DEF a, b
  <2>3. page * PageSize <= b
    BY <1>4, <2>2
  <2> QED  BY <2>3 DEF b
<1>6. Behind(ever) => Behind(ever)'
  <2> SUFFICES ASSUME page * PageSize <= Cardinality({q \in ever : q <= cursor})
               PROVE  page * PageSize <= Cardinality({q \in ever' : q <= cursor})
    BY <1>1 DEF Behind
  <2>1. ever \in SUBSET ever'
    BY <1>2
  <2> DEFINE a == Cardinality({q \in ever : q <= cursor})
             b == Cardinality({q \in ever' : q <= cursor})
  <2>2. a <= b /\ a \in Nat /\ b \in Nat /\ page * PageSize <= a
    BY <1>2, <2>1, CountGrows
  <2> HIDE DEF a, b
  <2>3. page * PageSize <= b
    BY <1>4, <2>2
  <2> QED  BY <2>3 DEF b
<1>7. \A f, p : InReach(f, p)' => InReach(f, p)
  <2> SUFFICES ASSUME NEW f, NEW p, p \in kept' \cap Positions, f \in FilterOf[p],
                      Cardinality({q \in ObjectsFor(f, ever') : q <= p}) <= FilterPages * PageSize
               PROVE  Cardinality({q \in ObjectsFor(f, ever) : q <= p}) <= FilterPages * PageSize
    BY <1>2 DEF InReach, ObjectsFor
  <2>1. FilterPages * PageSize \in Nat
    BY Caps
  <2>2. ObjectsFor(f, ever) \in SUBSET ObjectsFor(f, ever') /\ ObjectsFor(f, ever') \in SUBSET Objects
    BY <1>3
  <2> DEFINE a == Cardinality({q \in ObjectsFor(f, ever) : q <= p})
             b == Cardinality({q \in ObjectsFor(f, ever') : q <= p})
  <2>3. a <= b /\ a \in Nat /\ b \in Nat /\ b <= FilterPages * PageSize
    BY <2>2, CountGrows
  <2> HIDE DEF a, b
  <2>4. a <= FilterPages * PageSize
    BY <2>1, <2>3
  <2> QED  BY <2>4 DEF a
<1>8. FilterInv'
  <2> SUFFICES ASSUME missed.filters = 0
               PROVE  FilterInv'
    BY <1>1 DEF FilterInv
  <2>1. stage = "filters" =>
          /\ page < FilterPages /\ Behind(ObjectsFor(filter, ever))'
          /\ \A f \in 1..(filter - 1), p \in Objects : InReach(f, p)' => p \in found
          /\ \A p \in kept' \cap Positions :
               filter \in FilterOf[p] /\ p <= cursor => p \in hits
    <3>1. Behind(ObjectsFor(filter, ever)) => Behind(ObjectsFor(filter, ever))'
      BY <1>1, <1>5 DEF Behind, ObjectsFor
    <3> QED  BY <1>2, <1>7, <3>1 DEF DiscoveryInv, FilterInv
  <2>2. stage = "scan" =>
          \A f \in 1..Filters, p \in Objects : InReach(f, p)' => p \in found
    BY <1>7 DEF DiscoveryInv, FilterInv
  <2> QED  BY <1>1, <2>1, <2>2 DEF FilterInv
<1>9. ScanInv'
  BY <1>1, <1>2, <1>6 DEF DiscoveryInv, ScanInv
<1> QED  BY <1>1, <1>2, <1>8, <1>9 DEF DiscoveryInv, Witnessed, Rested

\* A filter turns a page.
LEMMA FilterTurnInv ==
  ASSUME DiscoveryInv, TypeOK', stage = "filters", TurnPage(Matching, FilterPages)
  PROVE  DiscoveryInv'
<1>1. /\ UNCHANGED <<owned, stage, filter, found, kept, ever, missed>>
      /\ hits' = hits \cup (PageOf(Matching) \cap Positions)
  BY DEF TurnPage, witness
<1>2. ASSUME missed.filters = 0
      PROVE  /\ page' < FilterPages /\ Behind(ObjectsFor(filter, ever))'
             /\ \A p \in kept \cap Positions :
                  filter \in FilterOf[p] /\ p <= cursor' => p \in hits'
  <2>1. /\ TypeOK /\ Behind(ObjectsFor(filter, ever)) /\ FilterPages \in Nat
        /\ ObjectsFor(filter, ever) \in SUBSET Objects /\ Matching \in SUBSET ObjectsFor(filter, ever)
    BY <1>2, Sets, Caps DEF DiscoveryInv, FilterInv
  <2>2. /\ page' = page + 1 /\ page' < FilterPages
        /\ (page + 1) * PageSize <= Cardinality({o \in ObjectsFor(filter, ever) : o <= cursor'})
        /\ \A p \in Matching : p <= cursor' => p <= cursor \/ p \in PageOf(Matching)
    BY <2>1, TurnKeeps
  <2>3. Behind(ObjectsFor(filter, ever))'
    BY <1>1, <2>2 DEF Behind, ObjectsFor
  <2>4. ASSUME NEW p \in kept \cap Positions, filter \in FilterOf[p], p <= cursor'
        PROVE  p \in hits'
    <3>1. p \in Matching
      BY <2>4, Sets DEF Matching
    <3> QED  BY <1>1, <1>2, <2>2, <2>4, <3>1 DEF DiscoveryInv, FilterInv
  <2> QED  BY <2>2, <2>3, <2>4
<1>3. \A f, p : InReach(f, p)' <=> InReach(f, p)
  BY <1>1 DEF InReach, ObjectsFor
<1>4. FilterInv'
  BY <1>1, <1>2, <1>3 DEF DiscoveryInv, FilterInv
<1> QED  BY <1>1, <1>4 DEF DiscoveryInv, Witnessed, Rested, ScanInv

\* A filter ends with hits h, which hold what it is to find unless one failed.
LEMMA FilterEndsInv ==
  ASSUME DiscoveryInv, TypeOK', stage = "filters", NEW h, FilterEnds(h),
         missed'.scan = missed.scan,
         missed'.filters = 0 =>
           missed.filters = 0 /\ \A p \in Objects : InReach(filter, p) => p \in h
  PROVE  DiscoveryInv'
<1>1. /\ found' = found \cup h /\ page' = 0 /\ cursor' = 0 /\ hits' = {}
      /\ UNCHANGED <<owned, kept, ever>>
      /\ \/ filter < Filters /\ filter' = filter + 1 /\ stage' = "filters"
         \/ filter = Filters /\ filter' = 1 /\ stage' \in {"filters", "scan"}
  BY Caps DEF FilterEnds, FromFirstPage, DiscoveryInv, TypeOK
<1>2. \A E \in SUBSET Objects : 0 * PageSize <= Cardinality({o \in E : o <= 0})
  BY Caps, FirstPage
<1>3. Behind(ObjectsFor(filter, ever))' /\ Behind(ever)'
  <2>1. ever' \in SUBSET Objects /\ ObjectsFor(filter', ever') \in SUBSET Objects
    BY <1>1, Sets DEF ObjectsFor
  <2> QED  BY <1>1, <1>2, <2>1 DEF Behind, ObjectsFor
<1>4. \A p \in (kept \cap Positions)' : ~ (p <= cursor')
  BY <1>1, Caps, Sets
<1>5. \A f, p : InReach(f, p)' <=> InReach(f, p)
  BY <1>1 DEF InReach, ObjectsFor
<1>6. ASSUME missed'.filters = 0, NEW f \in 1..filter, NEW p \in Objects, InReach(f, p)
      PROVE  p \in found'
  <2>1. CASE f = filter
    BY <1>1, <1>6, <2>1
  <2>2. CASE f \in 1..(filter - 1)
    BY <1>1, <1>6, <2>2 DEF DiscoveryInv, FilterInv
  <2>3. filter \in Nat
    BY Caps DEF DiscoveryInv, TypeOK
  <2> QED  BY <2>1, <2>2, <2>3
<1>7. FilterInv'
  <2> SUFFICES ASSUME missed'.filters = 0
               PROVE  FilterInv'
    BY DEF FilterInv
  <2>1. CASE filter < Filters /\ filter' = filter + 1 /\ stage' = "filters"
    <3>1. \A f : f \in 1..(filter' - 1) <=> f \in 1..filter
      BY <2>1, Caps DEF DiscoveryInv, TypeOK
    <3> QED  BY <1>1, <1>3, <1>4, <1>5, <1>6, <2>1, <3>1, Caps DEF FilterInv
  <2>2. CASE filter = Filters /\ filter' = 1 /\ stage' \in {"filters", "scan"}
    <3>1. \A f : f \notin 1..(filter' - 1)
      BY <2>2
    <3> QED  BY <1>1, <1>3, <1>4, <1>5, <1>6, <2>2, <3>1, Caps DEF FilterInv
  <2> QED  BY <1>1, <2>1, <2>2
<1>8. ScanInv'
  BY <1>1, <1>3, <1>4, Caps DEF DiscoveryInv, ScanInv
<1> QED  BY <1>1, <1>7, <1>8 DEF DiscoveryInv, Witnessed, Rested

\* The last page of a filter completes what it is to find.
LEMMA FilterComplete ==
  ASSUME DiscoveryInv, stage = "filters", missed.filters = 0,
         LastPage(Matching, FilterPages), NEW p \in Objects, InReach(filter, p)
  PROVE  p \in hits \cup (PageOf(Matching) \cap Positions)
<1>1. /\ TypeOK /\ Behind(ObjectsFor(filter, ever)) /\ page < FilterPages /\ FilterPages \in Nat
      /\ ObjectsFor(filter, ever) \in SUBSET Objects /\ Matching \in SUBSET ObjectsFor(filter, ever)
  BY Sets, Caps DEF DiscoveryInv, FilterInv
<1>2. p \in kept \cap Positions /\ filter \in FilterOf[p] /\ p \in Matching
  BY Sets DEF InReach, Matching
<1>3. Cardinality({o \in ObjectsFor(filter, ever) : o <= p}) <= FilterPages * PageSize
  BY DEF InReach
<1>4. p <= cursor \/ p \in PageOf(Matching)
  BY <1>1, <1>2, <1>3, LastTakes
<1> QED  BY <1>2, <1>4 DEF DiscoveryInv, FilterInv

\* The scan turns a page.
LEMMA ScanTurnInv ==
  ASSUME DiscoveryInv, TypeOK', stage = "scan", TurnPage(owned, ScanPages)
  PROVE  DiscoveryInv'
<1>1. /\ UNCHANGED <<owned, stage, filter, found, kept, ever, missed>>
      /\ hits' = hits \cup (PageOf(owned) \cap Positions)
  BY DEF TurnPage, witness
<1>2. ASSUME missed.scan = 0
      PROVE  /\ page' < ScanPages /\ Behind(ever)'
             /\ \A p \in kept \cap Positions : p <= cursor' => p \in hits'
  <2>1. /\ TypeOK /\ Behind(ever) /\ ScanPages \in Nat
        /\ ever \in SUBSET Objects /\ owned \in SUBSET ever /\ kept \subseteq owned
    BY <1>2, Sets, Caps DEF DiscoveryInv, ScanInv
  <2>2. /\ page' = page + 1 /\ page' < ScanPages
        /\ (page + 1) * PageSize <= Cardinality({o \in ever : o <= cursor'})
        /\ \A p \in owned : p <= cursor' => p <= cursor \/ p \in PageOf(owned)
    BY <2>1, TurnKeeps
  <2>3. Behind(ever)'
    BY <1>1, <2>2 DEF Behind
  <2> QED  BY <1>1, <1>2, <2>1, <2>2, <2>3 DEF DiscoveryInv, ScanInv
<1>3. \A f, p : InReach(f, p)' <=> InReach(f, p)
  BY <1>1 DEF InReach, ObjectsFor
<1>4. FilterInv'
  BY <1>1, <1>3 DEF DiscoveryInv, FilterInv
<1> QED  BY <1>1, <1>2, <1>4 DEF DiscoveryInv, Witnessed, Rested, ScanInv

\* The last page of the scan completes what it is to find.
LEMMA ScanComplete ==
  ASSUME DiscoveryInv, stage = "scan", missed.scan = 0, LastPage(owned, ScanPages),
         NEW p \in kept \cap Positions, ScanReaches(p)
  PROVE  p \in hits \cup (PageOf(owned) \cap Positions)
<1>1. /\ TypeOK /\ Behind(ever) /\ page < ScanPages /\ ScanPages \in Nat
      /\ ever \in SUBSET Objects /\ owned \in SUBSET ever /\ p \in owned
  BY Sets, Caps DEF DiscoveryInv, ScanInv
<1>2. p <= cursor \/ p \in PageOf(owned)
  BY <1>1, LastTakes DEF ScanReaches
<1> QED  BY <1>2 DEF DiscoveryInv, ScanInv

\* The discovery is over: the invariant says nothing of it any more.
LEMMA FinishInv ==
  ASSUME DiscoveryInv, TypeOK', stage = "scan", NEW h, Finish(h), FromFirstPage,
         UNCHANGED filter
  PROVE  DiscoveryInv'
<1>1. /\ stage' = "idle" /\ filter' = 1 /\ page' = 0 /\ cursor' = 0
  BY DEF Finish, FromFirstPage, DiscoveryInv, Rested
<1> QED  BY <1>1 DEF DiscoveryInv, Witnessed, Rested, FilterInv, ScanInv

LEMMA InvStep ==
  ASSUME DiscoveryInv, [Next]_vars
  PROVE  DiscoveryInv'
<1>1. TypeOK /\ TypeOK'
  BY TypeStep DEF DiscoveryInv
<1>2. CASE \E c \in Callers : Start(c) \/ Join(c)
  <2>1. PICK c \in Callers : Start(c) \/ Join(c)
    BY <1>2
  <2>2. CASE Start(c)
    BY <1>1, <2>2, StartInv
  <2>3. CASE Join(c)
    BY <1>1, <2>3 DEF Join, progress, witness, DiscoveryInv, Witnessed, Rested,
                      FilterInv, ScanInv, Behind, ObjectsFor, InReach
  <2> QED  BY <2>1, <2>2, <2>3
<1>3. CASE \E o \in Objects : Move(o)
  BY <1>1, <1>3, MoveInv
<1>4. CASE FilterPage
  <2>1. CASE TurnPage(Matching, FilterPages)
    BY <1>1, <1>4, <2>1, FilterTurnInv DEF FilterPage
  <2> DEFINE h == hits \cup (PageOf(Matching) \cap Positions)
  <2>2. CASE LastPage(Matching, FilterPages) /\ FilterEnds(h) /\ UNCHANGED missed
    <3>1. missed.filters = 0 => \A p \in Objects : InReach(filter, p) => p \in h
      BY <1>4, <2>2, FilterComplete DEF FilterPage
    <3>2. stage = "filters" /\ UNCHANGED missed
      BY <1>4, <2>2 DEF FilterPage
    <3> HIDE DEF h
    <3> QED  BY <1>1, <2>2, <3>1, <3>2, FilterEndsInv
  <2> QED  BY <1>4, <2>1, <2>2 DEF FilterPage
<1>5. CASE FilterFails
  <2>1. stage = "filters" /\ missed'.filters > 0 /\ missed'.scan = missed.scan
    BY <1>1, <1>5, MissedCounts DEF FilterFails
  <2>2. missed'.filters # 0
    BY <2>1
  <2>3. \A h : FilterEnds(h) => DiscoveryInv'
    BY <1>1, <2>1, <2>2, FilterEndsInv
  <2> QED  BY <1>5, <2>3 DEF FilterFails
<1>6. CASE ScanPage
  <2>1. CASE TurnPage(owned, ScanPages)
    BY <1>1, <1>6, <2>1, ScanTurnInv DEF ScanPage
  <2>2. CASE /\ Finish(hits \cup (PageOf(owned) \cap Positions)) /\ FromFirstPage
             /\ UNCHANGED <<owned, moves, filter, runs, witness>>
    BY <1>1, <1>6, <2>2, FinishInv DEF ScanPage
  <2> QED  BY <1>6, <2>1, <2>2 DEF ScanPage
<1>7. CASE ScanFails
  <2>1. CASE Finish(hits)
    BY <1>1, <1>7, <2>1, FinishInv DEF ScanFails
  <2>2. CASE UNCHANGED <<stage, found, waiting, answer>>
    <3>1. missed'.scan # 0 /\ missed'.filters = missed.filters
      BY <1>1, <1>7, MissedCounts DEF ScanFails
    <3>2. stage = "scan" /\ UNCHANGED <<owned, stage, filter, found, kept, ever>>
      BY <1>7, <2>2 DEF ScanFails
    <3>3. \A f, p : InReach(f, p)' <=> InReach(f, p)
      BY <3>2 DEF InReach, ObjectsFor
    <3> QED  BY <1>1, <3>1, <3>2, <3>3
             DEF DiscoveryInv, Witnessed, Rested, FilterInv, ScanInv
  <2> QED  BY <1>7, <2>1, <2>2 DEF ScanFails
<1>8. CASE UNCHANGED vars
  BY <1>1, <1>8 DEF vars, progress, witness, DiscoveryInv, Witnessed, Rested,
                    FilterInv, ScanInv, Behind, ObjectsFor, InReach
<1> QED  BY <1>2, <1>3, <1>4, <1>5, <1>6, <1>7, <1>8 DEF Next, Answered

\* What the filters and the scan have found so far, whatever failed.
THEOREM DiscoveryProgress == Spec => []DiscoveryInv
  BY InvInit, InvStep, PTL DEF Spec

-----------------------------------------------------------------------------
(* What the callers are given.                                             *)

\* A discovery ends with the scan, and gives what the filters found and what
\* the scan did.
LEMMA EndGives ==
  ASSUME DiscoveryInv, [Next]_vars, Ends
  PROVE  /\ stage = "scan"
         /\ \E h : /\ \A c \in waiting : answer'[c] = found \cup h
                   /\ \/ ScanFails
                      \/ /\ LastPage(owned, ScanPages) /\ UNCHANGED missed
                         /\ h = hits \cup (PageOf(owned) \cap Positions)
<1>1. waiting \subseteq Callers
  BY DEF DiscoveryInv, TypeOK
<1>2. \A h : Finish(h) => \A c \in waiting : answer'[c] = found \cup h
  BY <1>1 DEF Finish
<1>3. ScanPage \/ ScanFails
  BY DEF Ends, Next, Answered, Start, Join, Move, FilterPage, FilterFails, FilterEnds,
         TurnPage, vars, progress
<1>4. CASE ScanPage
  <2>1. /\ stage = "scan" /\ LastPage(owned, ScanPages) /\ UNCHANGED missed
        /\ Finish(hits \cup (PageOf(owned) \cap Positions))
    BY <1>4 DEF Ends, ScanPage, TurnPage, witness
  <2> QED  BY <1>2, <2>1
<1>5. CASE ScanFails
  <2>1. stage = "scan" /\ Finish(hits)
    BY <1>5 DEF Ends, ScanFails
  <2> QED  BY <1>2, <1>5, <2>1
<1> QED  BY <1>3, <1>4, <1>5

\* Unless the scan fails every position the wallet kept is in every answer.
LEMMA HarmlessStep ==
  ASSUME DiscoveryInv, [Next]_vars, Ends, missed'.scan = 0,
         NEW c \in waiting, NEW p \in kept \cap Positions, ScanReaches(p)
  PROVE  p \in answer'[c]
<1>1. PICK h : /\ answer'[c] = found \cup h
               /\ \/ ScanFails
                  \/ /\ LastPage(owned, ScanPages) /\ UNCHANGED missed
                     /\ h = hits \cup (PageOf(owned) \cap Positions)
  BY EndGives
<1>2. ScanFails => missed'.scan > 0
  BY MissedCounts DEF ScanFails, DiscoveryInv
<1>3. /\ LastPage(owned, ScanPages) /\ missed.scan = 0 /\ stage = "scan"
      /\ h = hits \cup (PageOf(owned) \cap Positions)
  BY <1>1, <1>2, EndGives
<1> QED  BY <1>1, <1>3, ScanComplete

\* "a protocol isn't lost just because one filter failed": however many
\* filters fail, for any wallet, nodes, pages and changes meanwhile.
THEOREM DiscoveryFilterFailuresHarmless == Spec => FilterFailuresHarmless
<1>1. DiscoveryInv /\ [Next]_vars =>
        [Ends /\ missed'.scan = 0 =>
           \A c \in waiting, p \in kept \cap Positions :
             ScanReaches(p) => p \in answer'[c]]_vars
  BY HarmlessStep
<1> QED  BY <1>1, DiscoveryProgress, PTL DEF Spec, FilterFailuresHarmless

\* One failure, in a filter or in the scan, loses no position that both read.
LEMMA ToleratedStep ==
  ASSUME DiscoveryInv, [Next]_vars, Ends, missed'.filters + missed'.scan <= 1,
         NEW c \in waiting, NEW p \in kept \cap Positions,
         ScanReaches(p), FilterReaches(p)
  PROVE  p \in answer'[c]
<1>1. missed' \in Failures
  BY TypeStep DEF DiscoveryInv, TypeOK
<1>2. CASE missed'.scan = 0
  BY <1>2, HarmlessStep
<1>3. CASE missed'.filters = 0 /\ missed'.scan = 1
  <2>1. missed.filters = 0
    <3>1. CASE ScanFails
      BY <1>3, <3>1, MissedCounts DEF ScanFails, DiscoveryInv
    <3>2. CASE UNCHANGED missed
      BY <1>3, <3>2
    <3> QED  BY <3>1, <3>2, EndGives
  <2>2. PICK f \in FilterOf[p] :
          Cardinality({o \in ever : o <= p /\ f \in FilterOf[o]}) <= FilterPages * PageSize
    BY DEF FilterReaches
  <2>3. p \in Objects /\ f \in 1..Filters
    BY Sets, Caps
  <2>4. {o \in ever : o <= p /\ f \in FilterOf[o]} = {o \in ObjectsFor(f, ever) : o <= p}
    BY DEF ObjectsFor
  <2>5. InReach(f, p)
    BY <2>2, <2>4 DEF InReach
  <2>6. p \in found
    BY <2>1, <2>3, <2>5, EndGives DEF DiscoveryInv, FilterInv
  <2> QED  BY <2>6, EndGives
<1> QED  BY <1>1, <1>2, <1>3 DEF Failures

\* The filters cover a failed scan and the scan covers a failed filter.
THEOREM DiscoveryOneFailureTolerated == Spec => OneFailureTolerated
<1>1. DiscoveryInv /\ [Next]_vars =>
        [Ends /\ missed'.filters + missed'.scan <= 1 =>
           \A c \in waiting, p \in kept \cap Positions :
             ScanReaches(p) /\ FilterReaches(p) => p \in answer'[c]]_vars
  BY ToleratedStep
<1> QED  BY <1>1, DiscoveryProgress, PTL DEF Spec, OneFailureTolerated

-----------------------------------------------------------------------------
(* From the positions found to those shown: what the merge, the decoders   *)
(* and the filters leave of the rows of the owned scan.  Rows keep to the  *)
(* keys of the position they are about, and only positions of one pool     *)
(* have a key in common.                                                   *)

\* A finite set as a list.
LEMMA SetToSeqIs ==
  ASSUME NEW S, IsFiniteSet(S)
  PROVE  SetToSeq(S) \in Seq(S) /\ Range(SetToSeq(S)) = S
<1> DEFINE n == Cardinality(S)
           Lists1(f) == f \in [1..n -> S] /\ IsInjective(f)
<1>1. n \in Nat /\ ExistsBijection(1..n, S)
  BY FS_CardinalityType
<1>2. PICK f \in Bijection(1..n, S) : TRUE
  BY <1>1 DEF ExistsBijection
<1>3. f \in [1..n -> S] /\ IsInjective(f)
  BY <1>2 DEF Bijection, Injection, IsInjective
<1>4. SetToSeq(S) = CHOOSE g \in [1..n -> S] : IsInjective(g)
  BY DEF SetToSeq
<1> DEFINE s == SetToSeq(S)
<1>5. s \in [1..n -> S] /\ IsInjective(s)
  <2> HIDE DEF n
  <2>1. QED
    BY <1>3, <1>4
<1> HIDE DEF s
<1>6. s \in Injection(1..n, S)
  BY <1>5 DEF Injection, IsInjective
<1>7. IsFiniteSet(1..n) /\ Cardinality(1..n) = n
  BY <1>1, FS_Interval
<1>8. s \in Surjection(1..n, S)
  BY <1>6, <1>7, FS_Injection
<1>9. \A x \in S : \E i \in 1..n : s[i] = x
  BY <1>8 DEF Surjection
<1>10. s \in Seq(S) /\ Range(s) = S
  <2>1. s \in Seq(S) /\ DOMAIN s = 1..n
    BY <1>1, <1>5
  <2>2. QED
    BY <1>5, <1>9, <2>1 DEF Range
<1>11. QED
  BY <1>10 DEF s

\* A set of rows that has what the merge makes of two of one key, which keeps it.
Closed(T) ==
  \A r, new \in T : r.key = new.key => Better(r, new) \in T /\ Better(r, new).key = new.key

\* A row joins rows of a set that is closed under the merge.
LEMMA PutIs ==
  ASSUME NEW T, Closed(T), NEW rs \in SUBSET T, NEW new \in T
  PROVE  Put(rs, new) \in SUBSET T
BY DEF Put, Closed

\* The merge goes through the rows one after the other.
LEMMA MergeSteps ==
  ASSUME NEW T, Closed(T), NEW s \in Seq(T)
  PROVE  \E g \in [0..Len(s) -> SUBSET T] :
           /\ g[0] = {} /\ Merge(s) = g[Len(s)]
           /\ \A i \in 1..Len(s) : g[i] = Put(g[i - 1], s[i])
<1> DEFINE n == Len(s)
           none == {}
           S == SUBSET T
           Step(i, r) == Put(r, s[i])
           step == [i \in 1..n |-> [r \in S |-> Step(i, r)]]
           F(g) == [i \in 0..n |-> IF i = 0 THEN none ELSE Step(i, g[i - 1])]
           Def(g) == g = F(g)
<1>0. n \in Nat
  OBVIOUS
<1>1. step \in [1..n -> [S -> S]] /\ none \in S
  <2>1. \A i \in 1..n, r \in S : Step(i, r) \in S
    BY PutIs
  <2> HIDE DEF Step
  <2>2. QED
    BY <2>1
<1>2. PICK g \in [0..n -> S] : g[0] = none /\ \A i \in 1..n : g[i] = step[i][g[i - 1]]
  <2> HIDE DEF step, n, S, none
  <2>2. \E g : Recursive(g, n, S, none, step)
    BY <1>0, <1>1, Recursion
  <2>3. QED
    BY <2>2 DEF Recursive
<1>3. \A i \in 1..n : g[i] = Step(i, g[i - 1])
  <2> SUFFICES ASSUME NEW i \in 1..n PROVE g[i] = Step(i, g[i - 1])
    OBVIOUS
  <2>1. g[i - 1] \in S
    BY <1>0, <1>2, SMTT(30)
  <2> HIDE DEF n, Step, S
  <2>2. QED
    BY <1>2, <2>1
<1>4. Def(g)
  <2> HIDE DEF Step, n
  <2>1. \A i \in 0..n : g[i] = F(g)[i]
    BY <1>0, <1>2, <1>3
  <2>2. QED
    BY <2>1
<1>5. Merge(s) = (CHOOSE h : Def(h))[n]
  BY DEF Merge
<1>6. Def(CHOOSE h : Def(h))
  BY <1>4
<1> DEFINE f == CHOOSE h : Def(h)
<1>7. f = F(f)
  BY <1>6
<1> HIDE DEF f, Step, n, S, none
<1>8. f[0] = none /\ \A i \in 1..n : f[i] = Step(i, f[i - 1])
  BY <1>0, <1>7
<1>9. f \in [0..n -> S]
  <2> DEFINE P == {i \in Nat : i \in 0..n => f[i] \in S}
  <2>1. 0 \in P
    BY <1>8, <1>1
  <2>2. ASSUME NEW i \in Nat, i \in P PROVE i + 1 \in P
    <3> SUFFICES ASSUME i + 1 \in 1..n PROVE f[i + 1] \in S
      OBVIOUS
    <3>1. f[i] \in S /\ f[i + 1] = Step(i + 1, f[i])
      BY <1>0, <1>8, <2>2
    <3>2. s[i + 1] \in T
      BY DEF n
    <3>3. Put(f[i], s[i + 1]) \in SUBSET T
      BY <3>1, <3>2, PutIs DEF S
    <3>4. QED
      BY <3>1, <3>3 DEF Step, S
  <2>3. \A i \in 0..n : f[i] \in S
    <3> HIDE DEF P
    <3>1. Nat \subseteq P
      BY <2>1, <2>2, NatInd
    <3>2. QED
      BY <1>0, <3>1 DEF P
  <2>4. f = [i \in 0..n |-> f[i]]
    BY <1>7
  <2>5. QED
    BY <2>3, <2>4
<1>10. f \in [0..Len(s) -> SUBSET T] /\ Merge(s) = f[Len(s)]
  BY <1>5, <1>9 DEF f, n, S
<1>11. f[0] = {} /\ \A i \in 1..Len(s) : f[i] = Put(f[i - 1], s[i])
  BY <1>8 DEF Step, n, none
<1>12. QED
  BY <1>10, <1>11

OnePerKey(rs) == \A r, q \in rs : r.key = q.key => r = q
HasKey(rs, k) == \E r \in rs : r.key = k


\* A row that joins leaves one row per key, and a row for every key there was.
LEMMA PutKeys ==
  ASSUME NEW T, Closed(T), NEW rs \in SUBSET T, NEW new \in T, OnePerKey(rs), IsFiniteSet(rs)
  PROVE  /\ OnePerKey(Put(rs, new)) /\ IsFiniteSet(Put(rs, new))
         /\ HasKey(Put(rs, new), new.key)
         /\ \A r \in rs : HasKey(Put(rs, new), r.key)
<1> DEFINE old == {r \in rs : r.key = new.key}
<1>1. CASE old = {}
  <2>1. Put(rs, new) = rs \cup {new}
    BY <1>1 DEF Put
  <2>2. IsFiniteSet(rs \cup {new})
    BY FS_AddElement
  <2>3. QED
    BY <1>1, <2>1, <2>2 DEF OnePerKey, HasKey
<1>2. ASSUME NEW r \in rs, r.key = new.key
      PROVE  /\ OnePerKey(Put(rs, new)) /\ IsFiniteSet(Put(rs, new))
             /\ HasKey(Put(rs, new), new.key)
             /\ \A q \in rs : HasKey(Put(rs, new), q.key)
  <2> DEFINE b == Better(r, new)
  <2>1. old = {r}
    BY <1>2 DEF OnePerKey
  <2>2. Put(rs, new) = (rs \ {r}) \cup {b}
    <3> DEFINE B(x) == Better(x, new)
    <3>1. Put(rs, new) = (rs \ old) \cup IF old = {} THEN {new} ELSE {B(x) : x \in old}
      BY DEF Put
    <3> HIDE DEF B, old
    <3>2. Put(rs, new) = (rs \ {r}) \cup {B(r)}
      BY <2>1, <3>1
    <3>3. QED
      BY <3>2 DEF B
  <2>3. b.key = new.key
    BY <1>2 DEF Closed
  <2> HIDE DEF b
  <2>4. IsFiniteSet(Put(rs, new))
    <3>1. IsFiniteSet(rs \ {r})
      BY FS_RemoveElement
    <3>2. QED
      BY <2>2, <3>1, FS_AddElement
  <2>5. \A q \in rs \ {r} : q.key # new.key
    BY <1>2 DEF OnePerKey
  <2>6. QED
    BY <1>2, <2>2, <2>3, <2>4, <2>5 DEF OnePerKey, HasKey
<1>3. QED
  BY <1>1, <1>2

\* What a merge leaves: one row per key, and one for every key.
LEMMA MergeIsWhole ==
  ASSUME NEW T, Closed(T), NEW s \in Seq(T)
  PROVE  /\ Merge(s) \in SUBSET T /\ IsFiniteSet(Merge(s)) /\ OnePerKey(Merge(s))
         /\ \A r \in Range(s) : HasKey(Merge(s), r.key)
<1>1. PICK g \in [0..Len(s) -> SUBSET T] :
           /\ g[0] = {} /\ Merge(s) = g[Len(s)]
           /\ \A i \in 1..Len(s) : g[i] = Put(g[i - 1], s[i])
  BY MergeSteps
<1> DEFINE Fine(i) == /\ g[i] \in SUBSET T /\ IsFiniteSet(g[i]) /\ OnePerKey(g[i])
                      /\ \A j \in 1..i : HasKey(g[i], s[j].key)
           P == {i \in Nat : i \in 0..Len(s) => Fine(i)}
<1>2. 0 \in P
  <2> DEFINE none == {}
  <2>1. g[0] = none /\ none \in SUBSET T /\ IsFiniteSet(none) /\ OnePerKey(none)
    BY <1>1, FS_EmptySet DEF OnePerKey
  <2> HIDE DEF none
  <2>2. \A j \in 1..0 : HasKey(none, s[j].key)
    OBVIOUS
  <2>3. QED
    BY <2>1, <2>2
<1>3. ASSUME NEW i \in Nat, i \in P PROVE i + 1 \in P
  <2> SUFFICES ASSUME i + 1 \in 1..Len(s) PROVE Fine(i + 1)
    OBVIOUS
  <2>1. Fine(i) /\ g[i + 1] = Put(g[i], s[i + 1]) /\ s[i + 1] \in T /\ g[i + 1] \in SUBSET T
    <3>1. i \in 0..Len(s) /\ i + 1 \in 1..Len(s) /\ i + 1 \in 0..Len(s)
      OBVIOUS
    <3>2. Fine(i)
      BY <1>3, <3>1
    <3>3. g[i + 1] = Put(g[(i + 1) - 1], s[i + 1]) /\ (i + 1) - 1 = i
      BY <1>1, <3>1
    <3>4. QED
      BY <1>1, <3>1, <3>2, <3>3
  <2> DEFINE new == s[i + 1]
             r == g[i + 1]
  <2> HIDE DEF r, new
  <2>2. /\ OnePerKey(r) /\ IsFiniteSet(r) /\ HasKey(r, new.key)
        /\ \A q \in g[i] : HasKey(r, q.key)
    BY <2>1, PutKeys DEF r, new
  <2>3. \A j \in 1..i : HasKey(r, s[j].key)
    BY <2>1, <2>2 DEF HasKey
  <2>4. \A j \in 1..(i + 1) : j = i + 1 \/ j \in 1..i
    OBVIOUS
  <2>5. \A j \in 1..(i + 1) : HasKey(r, s[j].key)
    BY <2>2, <2>3, <2>4 DEF new
  <2>6. QED
    BY <2>1, <2>2, <2>5 DEF r
<1>4. Fine(Len(s))
  <2> HIDE DEF Fine
  <2>1. Nat \subseteq P
    <3> HIDE DEF P
    <3>1. QED
      BY <1>2, <1>3, NatInd
  <2>2. Len(s) \in Nat
    OBVIOUS
  <2>3. QED
    BY <2>1, <2>2
<1>5. \A r \in Range(s) : \E j \in 1..Len(s) : s[j] = r
  BY DEF Range
<1>6. QED
  BY <1>1, <1>4, <1>5

\* What details hold, and the keys that rows about a position may have.
Legs == UNION {[D -> Int] : D \in SUBSET Coins}
KeysOf(p) == {<<p.id>>, PoolKey(p), <<p.id, "pool">>, <<p.id, "debts">>} \cup {<<p.id, c>> : c \in DOMAIN p.legs}

RowsAbout(p, V) ==
  [of : {p.id}, key : KeysOf(p), source : {"rpc", "native", "blockvision"}, legs : Legs, value : V,
   protocol : {p.protocol}, cat : {p.cat}]

RowsOn(w, V) == UNION {RowsAbout(p, V) : p \in w}

\* A row that an adapter, the owned scan or the merge may make for this wallet.
IsRow(r, w) == r \in RowsOn(w, {r.value})

AreRows(rs, w) == IsFiniteSet(rs) /\ \A r \in rs : IsRow(r, w)

\* A row of the wallet is one whatever values are allowed.
LEMMA RowIs ==
  ASSUME NEW w, NEW V, NEW r
  PROVE  r \in RowsOn(w, V) <=> r.value \in V /\ IsRow(r, w)
<1>1. ASSUME NEW p \in w PROVE r \in RowsAbout(p, V) <=> r.value \in V /\ r \in RowsAbout(p, {r.value})
  BY DEF RowsAbout
<1> DEFINE A(p) == RowsAbout(p, V)
           B(p) == RowsAbout(p, {r.value})
<1> HIDE DEF A, B
<1>2. \A p \in w : r \in A(p) <=> r.value \in V /\ r \in B(p)
  BY <1>1 DEF A, B
<1>3. RowsOn(w, V) = UNION {A(p) : p \in w} /\ RowsOn(w, {r.value}) = UNION {B(p) : p \in w}
  BY DEF RowsOn, A, B
<1>4. QED
  BY <1>2, <1>3 DEF IsRow

\* A row is about one of the positions and has its protocol and category.
LEMMA RowFields ==
  ASSUME NEW w, NEW r, IsRow(r, w)
  PROVE  \E p \in w : r.of = p.id /\ r.key \in KeysOf(p) /\ r.protocol = p.protocol /\ r.cat = p.cat
BY DEF IsRow, RowsOn, RowsAbout

\* Rows of a wallet, with values of a set, stay so when two are merged.
LEMMA RowsJoin ==
  ASSUME NEW w, NEW V
  PROVE  Closed(RowsOn(w, V))
<1> SUFFICES ASSUME NEW r \in RowsOn(w, V), NEW new \in RowsOn(w, V), r.key = new.key
             PROVE  Better(r, new) \in RowsOn(w, V) /\ Better(r, new).key = new.key
  BY DEF Closed
<1>1. PICK p \in w : new \in RowsAbout(p, V)
  BY DEF RowsOn
<1>2. PICK q \in w : r \in RowsAbout(q, V)
  BY DEF RowsOn
<1> DEFINE both == Spread(r.legs, new.legs)
<1>3. both \in Legs
  <2>1. PICK D \in SUBSET Coins : new.legs \in [D -> Int]
    BY <1>1 DEF RowsAbout, Legs
  <2>2. PICK E \in SUBSET Coins : r.legs \in [E -> Int]
    BY <1>2 DEF RowsAbout, Legs
  <2>3. both \in [D \cup E -> Int]
    BY <2>1, <2>2 DEF Spread
  <2>4. QED
    BY <2>3 DEF Legs
<1> DEFINE mixed == [new EXCEPT !.legs = both]
<1>4. mixed \in RowsAbout(p, V) /\ mixed.key = new.key
  <2> HIDE DEF both
  <2>1. QED
    BY <1>1, <1>3 DEF RowsAbout
<1>5. Better(r, new) \in {new, mixed, r}
  BY DEF Better
<1>6. mixed \in RowsOn(w, V)
  BY <1>4 DEF RowsOn
<1> HIDE DEF mixed
<1>7. QED
  BY <1>4, <1>5, <1>6

\* A merge of a wallet's rows.
LEMMA MergeRows ==
  ASSUME NEW w, NEW A, NEW s \in Seq(A), \A r \in A : IsRow(r, w)
  PROVE  /\ AreRows(Merge(s), w) /\ OnePerKey(Merge(s))
         /\ \A r \in Range(s) : HasKey(Merge(s), r.key)
<1> DEFINE V == {r.value : r \in A}
           T == RowsOn(w, V)
<1>1. \A r \in A : r \in T
  BY RowIs
<1>2. Closed(T)
  BY RowsJoin
<1> HIDE DEF T
<1>3. s \in Seq(T)
  BY <1>1
<1>4. /\ Merge(s) \in SUBSET T /\ IsFiniteSet(Merge(s)) /\ OnePerKey(Merge(s))
      /\ \A r \in Range(s) : HasKey(Merge(s), r.key)
  BY <1>2, <1>3, MergeIsWhole
<1>5. \A r \in T : IsRow(r, w)
  BY RowIs DEF T
<1>6. QED
  BY <1>4, <1>5 DEF AreRows

\* Positions that may show each other.
SameKind(p, q) == p = q \/ SamePool(p, q)

\* Only positions of one pool can have a key in common.
LEMMA KeysMeet ==
  ASSUME NEW p \in Held, NEW q \in Held, NEW k, k \in KeysOf(p), k \in KeysOf(q)
  PROVE  SameKind(p, q)
<1>1. k \in {<<p.id>>, <<p.pool>>} \/ \E x : k = <<p.id, x>>
  BY DEF KeysOf, PoolKey
<1>2. k \in {<<q.id>>, <<q.pool>>} \/ \E x : k = <<q.id, x>>
  BY DEF KeysOf, PoolKey
<1>3. ASSUME NEW x, k = <<p.id, x>> PROVE p = q
  <2>1. k # <<q.id>> /\ k # <<q.pool>>
    BY <1>3
  <2>2. PICK y : k = <<q.id, y>>
    BY <1>2, <2>1
  <2>3. QED
    BY <1>3, <2>2, HeldAssumption
<1>4. ASSUME NEW x, k = <<q.id, x>> PROVE p = q
  <2>1. k # <<p.id>> /\ k # <<p.pool>>
    BY <1>4
  <2>2. PICK y : k = <<p.id, y>>
    BY <1>1, <2>1
  <2>3. QED
    BY <1>4, <2>2, HeldAssumption
<1>5. CASE k = <<p.id>> /\ k \in {<<q.id>>, <<q.pool>>}
  BY <1>5, HeldAssumption DEF SameKind
<1>6. CASE k = <<q.id>> /\ k \in {<<p.id>>, <<p.pool>>}
  BY <1>6, HeldAssumption DEF SameKind
<1>7. CASE k # <<p.id>> /\ k # <<q.id>> /\ k = <<p.pool>> /\ k = <<q.pool>>
  <2>1. p.pool # NoPool
    <3> SUFFICES ASSUME p.pool = NoPool PROVE FALSE
      OBVIOUS
    <3>1. \E x : k = <<p.id, x>>
      BY <1>7 DEF KeysOf, PoolKey
    <3>2. QED
      BY <1>7, <3>1
  <2>2. p.pool = q.pool
    BY <1>7
  <2>3. QED
    BY <2>1, <2>2 DEF SameKind, SamePool
<1>8. QED
  BY <1>1, <1>2, <1>3, <1>4, <1>5, <1>6, <1>7 DEF SameKind

\* A function has finitely many values on a finite set.
LEMMA FiniteImage ==
  ASSUME NEW S, IsFiniteSet(S), NEW f
  PROVE  IsFiniteSet({f[x] : x \in S})
<1> DEFINE T == {f[x] : x \in S}
           g == [x \in S |-> f[x]]
<1>1. g \in Surjection(S, T)
  BY DEF Surjection
<1>2. IsFiniteSet(T)
  BY <1>1, FS_Surjection
<1>3. QED
  BY <1>2

\* What Row makes of a position with a key of its own.
LEMMA RowIsOne ==
  ASSUME NEW w, NEW p \in w, NEW key \in KeysOf(p), NEW source \in {"rpc", "native", "blockvision"},
         NEW legs \in Legs, NEW value
  PROVE  IsRow(Row(p, key, source, legs, value), w)
<1> DEFINE r == Row(p, key, source, legs, value)
<1>1. r \in RowsAbout(p, {r.value})
  BY DEF RowsAbout, Row
<1>2. QED
  BY <1>1 DEF IsRow, RowsOn

\* Details stay details in part, at their principal, and at once for a position.
LEMMA LegsPart ==
  ASSUME NEW legs \in Legs, NEW S \in SUBSET DOMAIN legs
  PROVE  Restrict(legs, S) \in Legs
BY DEF Legs, Restrict

LEMMA LegsAccrued ==
  ASSUME NEW legs \in Legs, NEW up
  PROVE  Accrued(legs, up) \in Legs
<1>1. PICK D \in SUBSET Coins : legs \in [D -> Int]
  BY DEF Legs
<1>2. \A c \in D : legs[c] \in Int /\ legs[c] \div 2 \in Int
  BY <1>1
<1> DEFINE half(c) == legs[c] \div 2
<1>3. Accrued(legs, up) = [c \in D |-> IF Market(c) \in up THEN legs[c] ELSE half(c)]
  BY <1>1 DEF Accrued
<1>4. \A c \in D : half(c) \in Int
  BY <1>2
<1> HIDE DEF half
<1>5. Accrued(legs, up) \in [D -> Int]
  BY <1>2, <1>3, <1>4
<1>6. QED
  BY <1>5 DEF Legs

LEMMA LegsOf ==
  ASSUME NEW p \in Held
  PROVE  p.legs \in Legs /\ NoLegs \in Legs /\ IsFiniteSet(DOMAIN p.legs)
<1>1. p.legs \in [DOMAIN p.legs -> Int] /\ IsFiniteSet(DOMAIN p.legs)
  BY HeldAssumption
<1>2. DOMAIN p.legs \in SUBSET Coins
  BY DEF Coins
<1>3. NoLegs \in [{} -> Int]
  BY DEF NoLegs
<1>4. QED
  BY <1>1, <1>2, <1>3 DEF Legs

\* Rows made one per element, or a set of rows per element; several and none.
LEMMA RowsMade ==
  ASSUME NEW w, NEW S, IsFiniteSet(S), NEW f, \A x \in S : IsRow(f[x], w)
  PROVE  AreRows({f[x] : x \in S}, w)
BY FiniteImage DEF AreRows

LEMMA RowsBoth ==
  ASSUME NEW w, NEW A, NEW B, AreRows(A, w), AreRows(B, w)
  PROVE  AreRows(A \cup B, w)
BY FS_Union DEF AreRows

LEMMA RowsSome ==
  ASSUME NEW w, NEW A, AreRows(A, w), NEW B \in SUBSET A
  PROVE  AreRows(B, w)
BY FS_Subset DEF AreRows

LEMMA RowsNone ==
  ASSUME NEW w
  PROVE  AreRows({}, w)
BY FS_EmptySet DEF AreRows

LEMMA RowsOfMany ==
  ASSUME NEW w, NEW S, IsFiniteSet(S), NEW f, \A x \in S : AreRows(f[x], w)
  PROVE  AreRows(UNION {f[x] : x \in S}, w)
<1> DEFINE T == {f[x] : x \in S}
<1>1. IsFiniteSet(T)
  BY FiniteImage
<1>2. \A A \in T : AreRows(A, w)
  OBVIOUS
<1> HIDE DEF T
<1>3. IsFiniteSet(UNION T)
  BY <1>1, <1>2, FS_UNION DEF AreRows
<1>4. AreRows(UNION T, w)
  BY <1>2, <1>3 DEF AreRows
<1>5. QED
  BY <1>4 DEF T

\* The sets of positions an adapter makes rows of.
LEMMA WalletParts ==
  ASSUME NEW w \in SUBSET Held, NEW a, NEW up
  PROVE  /\ IsFiniteSet(w)
         /\ Of(w, a) \in SUBSET w /\ IsFiniteSet(Of(w, a))
         /\ Listed(w, a, up) \in SUBSET w /\ IsFiniteSet(Listed(w, a, up))
         /\ Found(w, a, up) \in SUBSET w /\ IsFiniteSet(Found(w, a, up))
<1>1. IsFiniteSet(w)
  BY FS_Subset, HeldAssumption
<1>2. Of(w, a) \in SUBSET w /\ Listed(w, a, up) \in SUBSET w /\ Found(w, a, up) \in SUBSET w
  BY DEF Of, Listed, Found
<1>3. QED
  BY <1>1, <1>2, FS_Subset

\* Adapter by adapter: whatever is read and priced, its rows are about the wallet.
LEMMA StakingRowsAre ==
  ASSUME NEW w \in SUBSET Held, NEW up, NEW priced
  PROVE  AreRows(StakingRows(w, up), w)
<1> DEFINE S == Listed(w, "staking", up)
           value(p) == Null
           legs(p) == p.legs
           f == [p \in S |-> Row(p, <<p.id>>, "native", legs(p), value(p))]
<1>1. S \in SUBSET w /\ IsFiniteSet(S)
  BY WalletParts
<1>2. \A p \in S : legs(p) \in Legs
  BY <1>1, LegsOf, LegsAccrued
<1>3. StakingRows(w, up) = {f[p] : p \in S}
  BY DEF StakingRows
<1> HIDE DEF legs, value, S
<1>4. \A p \in S : <<p.id>> \in KeysOf(p)
  BY DEF KeysOf
<1>5. \A p \in S : IsRow(f[p], w)
  BY <1>1, <1>2, <1>4, RowIsOne
<1> HIDE DEF f
<1>6. QED
  BY <1>1, <1>3, <1>5, RowsMade

LEMMA NaviRowsAre ==
  ASSUME NEW w \in SUBSET Held, NEW up, NEW priced
  PROVE  AreRows(NaviRows(w, up), w)
<1> DEFINE S == Found(w, "navi", up)
           value(p) == Null
           legs(p) == Accrued(p.legs, up)
           f == [p \in S |-> Row(p, <<p.id>>, "native", legs(p), value(p))]
<1>1. S \in SUBSET w /\ IsFiniteSet(S)
  BY WalletParts
<1>2. \A p \in S : legs(p) \in Legs
  BY <1>1, LegsOf, LegsAccrued
<1>3. NaviRows(w, up) = {f[p] : p \in S}
  BY DEF NaviRows
<1> HIDE DEF legs, value, S
<1>4. \A p \in S : <<p.id>> \in KeysOf(p)
  BY DEF KeysOf
<1>5. \A p \in S : IsRow(f[p], w)
  BY <1>1, <1>2, <1>4, RowIsOne
<1> HIDE DEF f
<1>6. QED
  BY <1>1, <1>3, <1>5, RowsMade

LEMMA ScoinRowsAre ==
  ASSUME NEW w \in SUBSET Held, NEW up, NEW priced
  PROVE  AreRows(ScoinRows(w, up), w)
<1> DEFINE S == Listed(w, "scoin", up)
           value(p) == Null
           legs(p) == Accrued(p.legs, up)
           f == [p \in S |-> Row(p, <<p.id>>, "native", legs(p), value(p))]
<1>1. S \in SUBSET w /\ IsFiniteSet(S)
  BY WalletParts
<1>2. \A p \in S : legs(p) \in Legs
  BY <1>1, LegsOf, LegsAccrued
<1>3. ScoinRows(w, up) = {f[p] : p \in S}
  BY DEF ScoinRows
<1> HIDE DEF legs, value, S
<1>4. \A p \in S : <<p.id>> \in KeysOf(p)
  BY DEF KeysOf
<1>5. \A p \in S : IsRow(f[p], w)
  BY <1>1, <1>2, <1>4, RowIsOne
<1> HIDE DEF f
<1>6. QED
  BY <1>1, <1>3, <1>5, RowsMade

LEMMA BluefinRowsAre ==
  ASSUME NEW w \in SUBSET Held, NEW up, NEW priced
  PROVE  AreRows(BluefinRows(w, up, priced), w)
<1> DEFINE S == Listed(w, "bluefin", up)
           value(p) == AllPriced(p.legs, priced)
           legs(p) == NoLegs
           f == [p \in S |-> Row(p, <<p.id>>, "native", legs(p), value(p))]
<1>1. S \in SUBSET w /\ IsFiniteSet(S)
  BY WalletParts
<1>2. \A p \in S : legs(p) \in Legs
  BY <1>1, LegsOf, LegsAccrued
<1>3. BluefinRows(w, up, priced) = {f[p] : p \in S}
  BY DEF BluefinRows
<1> HIDE DEF legs, value, S
<1>4. \A p \in S : <<p.id>> \in KeysOf(p)
  BY DEF KeysOf
<1>5. \A p \in S : IsRow(f[p], w)
  BY <1>1, <1>2, <1>4, RowIsOne
<1> HIDE DEF f
<1>6. QED
  BY <1>1, <1>3, <1>5, RowsMade

LEMMA HaedalRowsAre ==
  ASSUME NEW w \in SUBSET Held, NEW up, NEW priced
  PROVE  AreRows(HaedalRows(w, up, priced), w)
<1> DEFINE S == Found(w, "haedal", up)
           value(p) == AllPriced(p.legs, priced)
           legs(p) == NoLegs
           f == [p \in S |-> Row(p, <<p.id>>, "native", legs(p), value(p))]
<1>1. S \in SUBSET w /\ IsFiniteSet(S)
  BY WalletParts
<1>2. \A p \in S : legs(p) \in Legs
  BY <1>1, LegsOf, LegsAccrued
<1>3. HaedalRows(w, up, priced) = {f[p] : p \in S}
  BY DEF HaedalRows
<1> HIDE DEF legs, value, S
<1>4. \A p \in S : <<p.id>> \in KeysOf(p)
  BY DEF KeysOf
<1>5. \A p \in S : IsRow(f[p], w)
  BY <1>1, <1>2, <1>4, RowIsOne
<1> HIDE DEF f
<1>6. QED
  BY <1>1, <1>3, <1>5, RowsMade

LEMMA AlphaLendRowsAre ==
  ASSUME NEW w \in SUBSET Held, NEW up, NEW priced
  PROVE  AreRows(AlphaLendRows(w, up, priced), w)
<1> DEFINE S == Found(w, "alphalend", up)
           value(p) == Net(PricedLegs(p.legs, {c \in priced : Market(c) \in up}))
           legs(p) == NoLegs
           f == [p \in S |-> Row(p, <<p.id>>, "native", legs(p), value(p))]
<1>1. S \in SUBSET w /\ IsFiniteSet(S)
  BY WalletParts
<1>2. \A p \in S : legs(p) \in Legs
  BY <1>1, LegsOf, LegsAccrued
<1>3. AlphaLendRows(w, up, priced) = {f[p] : p \in S}
  BY DEF AlphaLendRows
<1> HIDE DEF legs, value, S
<1>4. \A p \in S : <<p.id>> \in KeysOf(p)
  BY DEF KeysOf
<1>5. \A p \in S : IsRow(f[p], w)
  BY <1>1, <1>2, <1>4, RowIsOne
<1> HIDE DEF f
<1>6. QED
  BY <1>1, <1>3, <1>5, RowsMade

LEMMA MomentumRowsAre ==
  ASSUME NEW w \in SUBSET Held, NEW up, NEW priced
  PROVE  AreRows(MomentumRows(w, up, priced), w)
<1> DEFINE S == Found(w, "momentum", up)
           value(p) == LET known == PricedLegs(p.legs, priced) IN IF DOMAIN known = {} THEN Null ELSE Net(known)
           legs(p) == p.legs
           f == [p \in S |-> Row(p, PoolKey(p), "native", legs(p), value(p))]
<1>1. S \in SUBSET w /\ IsFiniteSet(S)
  BY WalletParts
<1>2. \A p \in S : legs(p) \in Legs
  BY <1>1, LegsOf, LegsAccrued
<1>3. MomentumRows(w, up, priced) = {f[p] : p \in S}
  BY DEF MomentumRows
<1> HIDE DEF legs, value, S
<1>4. \A p \in S : PoolKey(p) \in KeysOf(p)
  BY DEF KeysOf
<1>5. \A p \in S : IsRow(f[p], w)
  BY <1>1, <1>2, <1>4, RowIsOne
<1> HIDE DEF f
<1>6. QED
  BY <1>1, <1>3, <1>5, RowsMade

LEMMA BucketRowsAre ==
  ASSUME NEW w \in SUBSET Held, NEW up, NEW priced
  PROVE  AreRows(BucketRows(w, up, priced), w)
<1> DEFINE S == Found(w, "bucket", up)
           value(p) == AllPriced(p.legs, priced \cup {"usdb"})
           legs(p) == NoLegs
           f == [p \in S |-> Row(p, <<p.id>>, "native", legs(p), value(p))]
<1>1. S \in SUBSET w /\ IsFiniteSet(S)
  BY WalletParts
<1>2. \A p \in S : legs(p) \in Legs
  BY <1>1, LegsOf, LegsAccrued
<1>3. BucketRows(w, up, priced) \subseteq {f[p] : p \in S}
  BY DEF BucketRows
<1> HIDE DEF legs, value, S
<1>4. \A p \in S : <<p.id>> \in KeysOf(p)
  BY DEF KeysOf
<1>5. \A p \in S : IsRow(f[p], w)
  BY <1>1, <1>2, <1>4, RowIsOne
<1> HIDE DEF f
<1>6. AreRows({f[p] : p \in S}, w)
  BY <1>1, <1>5, RowsMade
<1> DEFINE all == {f[p] : p \in S}
<1> HIDE DEF all
<1>7. QED
  BY <1>3, <1>6, RowsSome DEF all

LEMMA DeepbookRowsAre ==
  ASSUME NEW w \in SUBSET Held, NEW up, NEW priced
  PROVE  AreRows(DeepbookRows(w, up, priced), w)
<1> DEFINE S == {p \in Listed(w, "deepbook", up) : \A c \in DOMAIN p.legs : Market(c) \in up}
           value(p) == AllPriced(p.legs, priced)
           legs(p) == NoLegs
           f == [p \in S |-> Row(p, <<p.id, "pool">>, "native", legs(p), value(p))]
<1>1. S \in SUBSET w /\ IsFiniteSet(S)
  BY WalletParts, FS_Subset
<1>2. \A p \in S : legs(p) \in Legs
  BY <1>1, LegsOf, LegsAccrued
<1>3. DeepbookRows(w, up, priced) \subseteq {f[p] : p \in S}
  BY DEF DeepbookRows
<1> HIDE DEF legs, value, S
<1>4. \A p \in S : <<p.id, "pool">> \in KeysOf(p)
  BY DEF KeysOf
<1>5. \A p \in S : IsRow(f[p], w)
  BY <1>1, <1>2, <1>4, RowIsOne
<1> HIDE DEF f
<1>6. AreRows({f[p] : p \in S}, w)
  BY <1>1, <1>5, RowsMade
<1> DEFINE all == {f[p] : p \in S}
<1> HIDE DEF all
<1>7. QED
  BY <1>3, <1>6, RowsSome DEF all

LEMMA BlockvisionRowsAre ==
  ASSUME NEW w \in SUBSET Held, NEW up, NEW priced
  PROVE  AreRows(BlockvisionRows(w, up, priced), w)
<1> DEFINE S == {q \in w : q.bv /\ List("blockvision") \in up}
           value(p) == AllPriced(p.legs, priced)
           legs(p) == p.legs
           f == [p \in S |-> Row(p, EnvelopeKey(p), "blockvision", legs(p), value(p))]
<1>1. S \in SUBSET w /\ IsFiniteSet(S)
  BY WalletParts, FS_Subset
<1>2. \A p \in S : legs(p) \in Legs
  BY <1>1, LegsOf, LegsAccrued
<1>3. BlockvisionRows(w, up, priced) = {f[p] : p \in S}
  BY DEF BlockvisionRows
<1> HIDE DEF legs, value, S
<1>4. \A p \in S : EnvelopeKey(p) \in KeysOf(p)
  BY DEF KeysOf, EnvelopeKey
<1>5. \A p \in S : IsRow(f[p], w)
  BY <1>1, <1>2, <1>4, RowIsOne
<1> HIDE DEF f
<1>6. QED
  BY <1>1, <1>3, <1>5, RowsMade

LEMMA EmberRowsAre ==
  ASSUME NEW w \in SUBSET Held, NEW up, NEW priced
  PROVE  AreRows(EmberRows(w, up), w)
<1> DEFINE S == Found(w, "ember", up)
           R == Listed(w, "ember", up)
           value(p) == Net(p.legs)
           f == [p \in S |-> Row(p, <<p.id>>, "native", p.legs, value(p))]
           g == [p \in R |-> Row(p, <<p.id>>, "native", p.legs, Null)]
<1>1. S \in SUBSET w /\ IsFiniteSet(S) /\ R \in SUBSET w /\ IsFiniteSet(R)
  BY WalletParts
<1>2. \A p \in S \cup R : p.legs \in Legs /\ <<p.id>> \in KeysOf(p)
  BY <1>1, LegsOf DEF KeysOf
<1>3. EmberRows(w, up) = {f[p] : p \in S} \/ EmberRows(w, up) = {g[p] : p \in R}
  BY DEF EmberRows
<1> HIDE DEF value, S, R
<1>4. (\A p \in S : IsRow(f[p], w)) /\ (\A p \in R : IsRow(g[p], w))
  BY <1>1, <1>2, RowIsOne
<1> HIDE DEF f, g
<1>5. QED
  BY <1>1, <1>3, <1>4, RowsMade

LEMMA SuilendRowsAre ==
  ASSUME NEW w \in SUBSET Held, NEW up
  PROVE  AreRows(SuilendRows(w, up), w)
<1> DEFINE S == Found(w, "suilend", up)
           legs(p, c) == IF p.legs[c] > 0 THEN Accrued(One(p.legs, c), up) ELSE One(p.legs, c)
           row(p, c) == Row(p, <<p.id, c>>, "native", legs(p, c), Null)
           all(p) == {row(p, c) : c \in DOMAIN p.legs}
           f == [p \in S |-> all(p)]
<1>1. S \in SUBSET w /\ IsFiniteSet(S)
  BY WalletParts
<1>2. SuilendRows(w, up) = UNION {f[p] : p \in S}
  BY DEF SuilendRows
<1>3. ASSUME NEW p \in S PROVE AreRows(f[p], w)
  <2> DEFINE D == DOMAIN p.legs
             g == [c \in D |-> row(p, c)]
  <2>1. p.legs \in Legs /\ IsFiniteSet(D)
    BY <1>1, LegsOf
  <2>2. \A c \in D : One(p.legs, c) \in Legs
    BY <2>1, LegsPart DEF One
  <2>3. \A c \in D : legs(p, c) \in Legs
    BY <2>2, LegsAccrued
  <2>4. \A c \in D : <<p.id, c>> \in KeysOf(p)
    BY DEF KeysOf
  <2>5. f[p] = {g[c] : c \in D}
    OBVIOUS
  <2> HIDE DEF legs, S
  <2>6. \A c \in D : IsRow(g[c], w)
    BY <1>1, <2>3, <2>4, RowIsOne
  <2> HIDE DEF g, f, D
  <2>7. QED
    BY <2>1, <2>5, <2>6, RowsMade
<1> HIDE DEF f, S
<1>4. QED
  BY <1>1, <1>2, <1>3, RowsOfMany

LEMMA ScallopRowsAre ==
  ASSUME NEW w \in SUBSET Held, NEW up
  PROVE  AreRows(ScallopRows(w, up), w)
<1> DEFINE S == Found(w, "scallop", up)
           debts(p) == {c \in DOMAIN p.legs : p.legs[c] < 0}
           gain(p, c) == Row(p, <<p.id, c>>, "native", One(p.legs, c), Null)
           loan(p) == Row(p, <<p.id, "debts">>, "native", Restrict(p.legs, debts(p)), Null)
           all(p) == {gain(p, c) : c \in DOMAIN p.legs \ debts(p)} \cup {loan(p) : d \in debts(p)}
           f == [p \in S |-> all(p)]
<1>1. S \in SUBSET w /\ IsFiniteSet(S)
  BY WalletParts
<1>2. ScallopRows(w, up) = UNION {f[p] : p \in S}
  BY DEF ScallopRows
<1>3. ASSUME NEW p \in S PROVE AreRows(f[p], w)
  <2> DEFINE D == DOMAIN p.legs
             N == debts(p)
             g == [c \in D \ N |-> gain(p, c)]
             h == [d \in N |-> loan(p)]
  <2>1. p.legs \in Legs /\ IsFiniteSet(D) /\ N \in SUBSET D
    BY <1>1, LegsOf
  <2>2. f[p] = {g[c] : c \in D \ N} \cup {h[d] : d \in N}
    OBVIOUS
  <2> HIDE DEF N
  <2>3. IsFiniteSet(D \ N) /\ IsFiniteSet(N)
    BY <2>1, FS_Subset
  <2>4. \A c \in D : One(p.legs, c) \in Legs /\ <<p.id, c>> \in KeysOf(p)
    BY <2>1, LegsPart DEF One, KeysOf
  <2>5. <<p.id, "debts">> \in KeysOf(p)
    BY DEF KeysOf
  <2>6. \A c \in D \ N : IsRow(g[c], w)
    <3> HIDE DEF S
    <3>1. QED
      BY <1>1, <2>4, RowIsOne
  <2>7. \A d \in N : IsRow(h[d], w)
    <3>1. Restrict(p.legs, N) \in Legs
      BY <2>1, LegsPart
    <3>2. IsRow(Row(p, <<p.id, "debts">>, "native", Restrict(p.legs, N), Null), w)
      <4> HIDE DEF S
      <4>1. QED
        BY <1>1, <2>5, <3>1, RowIsOne
    <3>3. QED
      BY <3>2 DEF N
  <2> HIDE DEF g, h, f, D
  <2>8. AreRows({g[c] : c \in D \ N}, w) /\ AreRows({h[d] : d \in N}, w)
    BY <2>3, <2>6, <2>7, RowsMade
  <2>9. QED
    BY <2>2, <2>8, RowsBoth
<1> HIDE DEF f, S
<1>4. QED
  BY <1>1, <1>2, <1>3, RowsOfMany

\* The rows of the owned scan.
LEMMA OwnedRowsAre ==
  ASSUME NEW w \in SUBSET Held
  PROVE  /\ AreRows(OwnedRows(w), w)
         /\ \A p \in w : p.owned => \E r \in OwnedRows(w) : r.key \in KeysOf(p)
<1> DEFINE S == {q \in w : q.owned}
           legs(p) == IF p.adapter = "staking" THEN p.legs ELSE NoLegs
           key(p) == IF p.wrapped THEN <<p.id>> ELSE PoolKey(p)
           f == [p \in S |-> Row(p, key(p), "rpc", legs(p), Null)]
<1>1. S \in SUBSET w /\ IsFiniteSet(S)
  BY WalletParts, FS_Subset
<1>2. \A p \in S : legs(p) \in Legs
  BY <1>1, LegsOf
<1>3. OwnedRows(w) = {f[p] : p \in S}
  BY DEF OwnedRows
<1>4. \A p \in S : key(p) \in KeysOf(p)
  BY DEF KeysOf
<1>5. \A p \in w : p.owned => p \in S
  OBVIOUS
<1> HIDE DEF legs, key, S
<1>6. \A p \in S : IsRow(f[p], w)
  BY <1>1, <1>2, <1>4, RowIsOne
<1>7. \A p \in S : f[p].key \in KeysOf(p)
  BY <1>4 DEF Row
<1> HIDE DEF f
<1>8. AreRows({f[p] : p \in S}, w)
  BY <1>1, <1>6, RowsMade
<1>9. \A p \in S : f[p] \in OwnedRows(w)
  BY <1>3
<1>10. QED
  BY <1>3, <1>5, <1>7, <1>8, <1>9

LEMMA AnswersAre ==
  ASSUME NEW w \in SUBSET Held, NEW a, NEW up, NEW priced
  PROVE  AreRows(RowsOf(a, w, up, priced), w)
BY RowsNone, StakingRowsAre, NaviRowsAre, ScoinRowsAre, ScallopRowsAre, SuilendRowsAre, EmberRowsAre,
   BluefinRowsAre, BucketRowsAre, HaedalRowsAre, AlphaLendRowsAre, DeepbookRowsAre, MomentumRowsAre,
   BlockvisionRowsAre
   DEF RowsOf

\* All that arrived is in the list that is merged.
LEMMA ListsAre ==
  ASSUME NEW A, scanned \in SUBSET A, IsFiniteSet(scanned),
         \A a \in DOMAIN list : list[a] \in SUBSET A /\ IsFiniteSet(list[a])
  PROVE  /\ Lists \in Seq(A) /\ scanned \subseteq Range(Lists)
         /\ \A a \in DOMAIN list \cap ToSet(Adapter) : list[a] \subseteq Range(Lists)
<1> DEFINE n == Len(Adapter)
           first == SetToSeq(scanned)
           S == {s \in Seq(A) : scanned \subseteq Range(s)}
           Step(i, r) == IF Adapter[i] \in DOMAIN list THEN r \o SetToSeq(list[Adapter[i]]) ELSE r
           step == [i \in 1..n |-> [r \in S |-> Step(i, r)]]
           F(g) == [i \in 0..n |-> IF i = 0 THEN first ELSE Step(i, g[i - 1])]
           Def(g) == g = F(g)
           Has(i, r) == Adapter[i] \in DOMAIN list => list[Adapter[i]] \subseteq Range(r)
<1>0. n \in Nat
  BY DEF Adapter
<1>1. ASSUME NEW i \in 1..n, NEW r \in S
      PROVE  Step(i, r) \in S /\ Range(r) \subseteq Range(Step(i, r)) /\ Has(i, Step(i, r))
  <2>1. CASE Adapter[i] \notin DOMAIN list
    BY <2>1
  <2>2. CASE Adapter[i] \in DOMAIN list
    <3> DEFINE B == list[Adapter[i]]
               t == SetToSeq(B)
    <3>1. B \in SUBSET A /\ IsFiniteSet(B)
      BY <2>2
    <3> HIDE DEF B
    <3>2. t \in Seq(B) /\ Range(t) = B
      BY <3>1, SetToSeqIs
    <3> HIDE DEF t
    <3>3. t \in Seq(A)
      BY <3>1, <3>2
    <3>4. r \in Seq(A) /\ scanned \subseteq Range(r)
      OBVIOUS
    <3>5. r \o t \in Seq(A) /\ Range(r \o t) = Range(r) \cup B
      BY <3>2, <3>3, <3>4, RangeOfBoth
    <3>6. Step(i, r) = r \o t
      BY <2>2 DEF t, B
    <3>7. Has(i, r \o t)
      BY <3>5 DEF B
    <3> HIDE DEF Has, Step
    <3>8. QED
      BY <3>4, <3>5, <3>6, <3>7
  <2>3. QED
    BY <2>1, <2>2
<1>2. first \in S
  BY SetToSeqIs
<1>3. step \in [1..n -> [S -> S]]
  <2> HIDE DEF Step, n, S, Has
  <2>1. QED
    BY <1>1
<1>4. PICK g \in [0..n -> S] : g[0] = first /\ \A i \in 1..n : g[i] = step[i][g[i - 1]]
  <2> HIDE DEF step, n, S, first
  <2>1. \E g : Recursive(g, n, S, first, step)
    BY <1>0, <1>2, <1>3, Recursion
  <2>2. QED
    BY <2>1 DEF Recursive
<1>5. \A i \in 1..n : g[i] = Step(i, g[i - 1])
  <2> SUFFICES ASSUME NEW i \in 1..n PROVE g[i] = Step(i, g[i - 1])
    OBVIOUS
  <2> HIDE DEF n, Step, S
  <2>1. g[i - 1] \in S
    BY <1>0, <1>4, SMTT(30)
  <2>2. QED
    BY <1>4, <2>1
<1>6. Def(g)
  <2> HIDE DEF Step, n, first
  <2>1. \A i \in 0..n : g[i] = F(g)[i]
    BY <1>0, <1>4, <1>5
  <2>2. QED
    BY <2>1
<1>7. Lists = (CHOOSE h : Def(h))[n]
  BY DEF Lists
<1>8. Def(CHOOSE h : Def(h))
  BY <1>6
<1> DEFINE f == CHOOSE h : Def(h)
<1>9. f = F(f)
  BY <1>8
<1> HIDE DEF f, Step, n, S, first, Has
<1>10. f[0] = first /\ \A i \in 1..n : f[i] = Step(i, f[i - 1])
  BY <1>0, <1>9
<1> DEFINE Got(i) == f[i] \in S /\ \A j \in 1..i : Has(j, f[i])
           P == {i \in Nat : i \in 0..n => Got(i)}
<1>11. 0 \in P
  BY <1>2, <1>10
<1>12. ASSUME NEW i \in Nat, i \in P PROVE i + 1 \in P
  <2> SUFFICES ASSUME i + 1 \in 1..n PROVE Got(i + 1)
    OBVIOUS
  <2>1. Got(i) /\ i + 1 \in 1..n
    <3>1. i \in 0..n
      BY <1>0
    <3> HIDE DEF Got
    <3>2. QED
      BY <1>12, <3>1
  <2> DEFINE r == f[i]
             m == i + 1
  <2>2. r \in S /\ m \in 1..n
    BY <2>1
  <2>3. f[m] = Step(m, r)
    BY <1>10, <2>1
  <2> HIDE DEF r, m
  <2>4. f[m] \in S /\ Range(r) \subseteq Range(f[m]) /\ Has(m, f[m])
    BY <1>1, <2>2, <2>3
  <2>5. \A j \in 1..i : Has(j, f[m])
    BY <2>1, <2>4 DEF Has, r
  <2>6. \A j \in 1..(i + 1) : j = i + 1 \/ j \in 1..i
    OBVIOUS
  <2>7. QED
    BY <2>4, <2>5, <2>6 DEF m
<1>13. n \in P
  <2> HIDE DEF P
  <2>1. QED
    BY <1>0, <1>11, <1>12, NatInd
<1>14. f[n] \in S /\ \A j \in 1..n : Has(j, f[n])
  BY <1>0, <1>13
<1>15. \A a \in ToSet(Adapter) : \E j \in 1..n : Adapter[j] = a
  BY DEF ToSet, Adapter, n
<1>16. Lists = f[n]
  BY <1>7 DEF f
<1>17. QED
  BY <1>14, <1>15, <1>16 DEF S, Has

\* A row about p, or about one that shares its pool.
Shown(rs, w, p) == \E q \in w, r \in rs : SameKind(p, q) /\ r.of = q.id

\* The scan came back with a row of p.
InScan(sc, p) == \E r \in sc : r.of = p.id

\* What became of the owned scan: after the merges, after the LP filter, and
\* after the lending filter, which is what EvidenceKept says.
Kept(rs, w, sc) == \A p \in w : InScan(sc, p) => Shown(rs, w, p)

RichLp(rs) == \E r \in rs : Rich(r) /\ r.cat = "amm_lp"

KeptOrLp(rs, w, sc) == \A p \in w : InScan(sc, p) => Shown(rs, w, p) \/ (p.cat = "amm_lp" /\ RichLp(rs))

Evidence(rs, w, sc) ==
  \A p \in w :
    InScan(sc, p) /\ ~ (\E r \in rs : r.of = p.id) =>
      \/ p.protocol \in NativeValued
      \/ \E r \in rs : Rich(r) /\ r.cat = p.cat /\ (p.cat = "amm_lp" \/ r.protocol = p.protocol)
      \/ \E q \in w, r \in rs : SamePool(p, q) /\ r.of = q.id

\* Only LPs share a pool, and who shares it shares it with all the others.
LEMMA SameKinds ==
  ASSUME NEW p \in Held, NEW q \in Held, SameKind(p, q)
  PROVE  /\ p = q \/ (p.cat = "amm_lp" /\ q.cat = "amm_lp")
         /\ \A o \in Held : SameKind(q, o) => SameKind(p, o)
BY HeldAssumption DEF SameKind, SamePool

\* What has a row before a merge has one after it, its own or one of its pool.
LEMMA MergeShows ==
  ASSUME NEW w \in SUBSET Held, NEW A, NEW s \in Seq(A), \A r \in A : IsRow(r, w),
         NEW q \in w, NEW d \in Range(s), d.key \in KeysOf(q)
  PROVE  Shown(Merge(s), w, q)
<1>1. PICK r \in Merge(s) : r.key = d.key
  BY MergeRows DEF HasKey
<1>2. IsRow(r, w)
  BY MergeRows DEF AreRows
<1>3. PICK o \in w : r.of = o.id /\ r.key \in KeysOf(o)
  BY <1>2, RowFields
<1>4. SameKind(q, o)
  BY <1>1, <1>3, KeysMeet
<1>5. QED
  BY <1>3, <1>4 DEF Shown

\* However much of it failed, a scan has rows of the wallet.
LEMMA ScansAre ==
  ASSUME NEW w \in SUBSET Held, NEW sc \in Scans(w)
  PROVE  /\ AreRows(sc, w)
         /\ \A p \in w : InScan(sc, p) => \E r \in sc : r.key \in KeysOf(p)
<1>1. PICK had \in SUBSET w : sc = OwnedRows(had)
  BY DEF Scans
<1>2. AreRows(sc, had)
  BY <1>1, OwnedRowsAre
<1>3. \A r : IsRow(r, had) => IsRow(r, w)
  BY DEF IsRow, RowsOn
<1>4. AreRows(sc, w)
  BY <1>2, <1>3 DEF AreRows
<1>5. ASSUME NEW p \in w, InScan(sc, p) PROVE \E r \in sc : r.key \in KeysOf(p)
  <2>1. PICK r \in sc : r.of = p.id
    BY <1>5 DEF InScan
  <2>2. PICK o \in w : r.of = o.id /\ r.key \in KeysOf(o)
    BY <1>4, RowFields DEF AreRows
  <2>3. o = p
    BY <2>1, <2>2, HeldAssumption
  <2>4. QED
    BY <2>2, <2>3
<1>6. QED
  BY <1>4, <1>5

\* The first merge shows all that the scan found.
LEMMA CollectKeeps ==
  ASSUME NEW w \in SUBSET Held, NEW A, NEW s \in Seq(A), \A r \in A : IsRow(r, w),
         NEW sc \in Scans(w), sc \subseteq Range(s)
  PROVE  Kept(Merge(s), w, sc)
<1> SUFFICES ASSUME NEW p \in w, InScan(sc, p) PROVE Shown(Merge(s), w, p)
  BY DEF Kept
<1>1. PICK d \in sc : d.key \in KeysOf(p)
  BY ScansAre
<1>2. QED
  BY <1>1, MergeShows

\* Merged once more, with the rows changed or joined by others, what is shown stays shown.
LEMMA RemergeKeeps ==
  ASSUME NEW w \in SUBSET Held, NEW A, NEW s \in Seq(A), \A r \in A : IsRow(r, w),
         NEW rs, NEW sc, Kept(rs, w, sc), \A r \in rs : \E d \in Range(s) : d.of = r.of
  PROVE  Kept(Merge(s), w, sc)
<1> SUFFICES ASSUME NEW p \in w, InScan(sc, p) PROVE Shown(Merge(s), w, p)
  BY DEF Kept
<1>1. PICK q \in w, r \in rs : SameKind(p, q) /\ r.of = q.id
  BY DEF Kept, Shown
<1>2. PICK d \in Range(s) : d.of = q.id
  BY <1>1
<1>3. d \in A
  BY <1>2, RangeType
<1>4. PICK o \in w : d.of = o.id /\ d.key \in KeysOf(o)
  BY <1>3, RowFields
<1>5. o = q
  BY <1>2, <1>4, HeldAssumption
<1>6. Shown(Merge(s), w, q)
  BY <1>4, <1>5, MergeShows
<1>7. PICK u \in w, t \in Merge(s) : SameKind(q, u) /\ t.of = u.id
  BY <1>6 DEF Shown
<1>8. SameKind(p, u)
  BY <1>1, <1>7, SameKinds
<1>9. QED
  BY <1>7, <1>8 DEF Shown

\* The LP filter drops a row only where a decoded LP is left.
LEMMA LpFilterKeeps ==
  ASSUME NEW w \in SUBSET Held, NEW rs, \A r \in rs : IsRow(r, w), NEW sc, Kept(rs, w, sc)
  PROVE  DropWeakLp(rs) \subseteq rs /\ KeptOrLp(DropWeakLp(rs), w, sc)
<1> DEFINE new == DropWeakLp(rs)
<1>1. new \subseteq rs
  BY DEF DropWeakLp
<1> SUFFICES ASSUME NEW p \in w, InScan(sc, p)
             PROVE  Shown(new, w, p) \/ (p.cat = "amm_lp" /\ RichLp(new))
  BY <1>1 DEF KeptOrLp
<1>2. PICK q \in w, r \in rs : SameKind(p, q) /\ r.of = q.id
  BY DEF Kept, Shown
<1>3. CASE r \in new
  BY <1>2, <1>3 DEF Shown
<1>4. CASE r \notin new
  <2>1. PICK t \in rs : Rich(t) /\ t.cat = "amm_lp"
    BY <1>2, <1>4 DEF DropWeakLp
  <2>2. t \in new
    BY <2>1 DEF DropWeakLp, Bare, Rich
  <2>3. r.cat = "amm_lp"
    BY <1>2, <1>4 DEF DropWeakLp
  <2>4. PICK o \in w : r.of = o.id /\ r.cat = o.cat
    BY <1>2, RowFields
  <2>5. o = q
    BY <1>2, <2>4, HeldAssumption
  <2>6. p.cat = "amm_lp"
    BY <1>2, <2>3, <2>4, <2>5, SameKinds
  <2>7. QED
    BY <2>1, <2>2, <2>6 DEF RichLp
<1>5. QED
  BY <1>3, <1>4

\* The lending filter drops a cap only for a rich row of its protocol, or none is due.
LEMMA LendingFilterKeeps ==
  ASSUME NEW w \in SUBSET Held, NEW rs, \A r \in rs : IsRow(r, w), NEW sc, KeptOrLp(rs, w, sc)
  PROVE  DropWeakLending(rs) \subseteq rs /\ Evidence(DropWeakLending(rs), w, sc)
<1> DEFINE new == DropWeakLending(rs)
<1>1. new \subseteq rs
  BY DEF DropWeakLending
<1> SUFFICES ASSUME NEW p \in w, InScan(sc, p), ~ \E r \in new : r.of = p.id
             PROVE  \/ p.protocol \in NativeValued
                    \/ \E r \in new : Rich(r) /\ r.cat = p.cat /\ (p.cat = "amm_lp" \/ r.protocol = p.protocol)
                    \/ \E q \in w, r \in new : SamePool(p, q) /\ r.of = q.id
  BY <1>1 DEF Evidence
<1>2. \A r \in rs : Rich(r) => r \in new
  BY DEF DropWeakLending, Bare, Rich
<1>3. CASE p.cat = "amm_lp" /\ RichLp(rs)
  BY <1>2, <1>3 DEF RichLp
<1>4. CASE Shown(rs, w, p)
  <2>1. PICK q \in w, r \in rs : SameKind(p, q) /\ r.of = q.id
    BY <1>4 DEF Shown
  <2>2. CASE r \in new
    BY <2>1, <2>2 DEF SameKind
  <2>3. CASE r \notin new
    <3>1. /\ r.cat = "lending"
          /\ \/ r.protocol \in NativeValued
             \/ \E t \in rs : Rich(t) /\ t.cat = "lending" /\ t.protocol = r.protocol
      BY <2>1, <2>3 DEF DropWeakLending
    <3>2. PICK o \in w : r.of = o.id /\ r.cat = o.cat /\ r.protocol = o.protocol
      BY <2>1, RowFields
    <3>3. o = q
      BY <2>1, <3>2, HeldAssumption
    <3>4. p = q
      BY <2>1, <3>1, <3>2, <3>3, SameKinds
    <3>5. QED
      BY <1>2, <3>1, <3>2, <3>3, <3>4
  <2>4. QED
    BY <2>2, <2>3
<1>5. QED
  BY <1>3, <1>4 DEF KeptOrLp

\* Row for row the same but for the values.
SameRows(rs, new) ==
  /\ \A r \in rs : \E n \in new : n.of = r.of /\ n.source = r.source /\ n.cat = r.cat /\ n.protocol = r.protocol
  /\ OnePerKey(rs) => OnePerKey(new)

\* New values change nothing of what is shown.
LEMMA EvidenceStays ==
  ASSUME NEW w, NEW rs, NEW new, SameRows(rs, new), NEW sc, Evidence(rs, w, sc)
  PROVE  Evidence(new, w, sc)
<1> SUFFICES ASSUME NEW p \in w, InScan(sc, p), ~ \E r \in new : r.of = p.id
             PROVE  \/ p.protocol \in NativeValued
                    \/ \E r \in new : Rich(r) /\ r.cat = p.cat /\ (p.cat = "amm_lp" \/ r.protocol = p.protocol)
                    \/ \E q \in w, r \in new : SamePool(p, q) /\ r.of = q.id
  BY DEF Evidence
<1>1. ~ \E r \in rs : r.of = p.id
  BY DEF SameRows
<1>2. CASE \E r \in rs : Rich(r) /\ r.cat = p.cat /\ (p.cat = "amm_lp" \/ r.protocol = p.protocol)
  BY <1>2 DEF SameRows, Rich
<1>3. CASE \E q \in w, r \in rs : SamePool(p, q) /\ r.of = q.id
  BY <1>3 DEF SameRows
<1>4. QED
  BY <1>1, <1>2, <1>3 DEF Evidence

\* Prices change only values.
LEMMA ValuedIs ==
  ASSUME NEW w, NEW rs, AreRows(rs, w), NEW priced
  PROVE  LET new == {Valued(r, priced) : r \in rs}
         IN /\ AreRows(new, w)
            /\ OnePerKey(rs) => OnePerKey(new)
            /\ \A sc : KeptOrLp(rs, w, sc) => KeptOrLp(new, w, sc)
<1> DEFINE v(r) == Valued(r, priced)
           new == {v(r) : r \in rs}
           f == [r \in rs |-> v(r)]
<1>1. ASSUME NEW r \in rs
      PROVE  /\ IsRow(v(r), w) /\ v(r).key = r.key /\ v(r).of = r.of /\ v(r).source = r.source
             /\ v(r).cat = r.cat
  <2> DEFINE n == Net(PricedLegs(r.legs, priced))
             u == [r EXCEPT !.value = n]
  <2>1. PICK p \in w : r \in RowsAbout(p, {r.value})
    BY DEF AreRows, IsRow, RowsOn
  <2>2. v(r) \in {r, u}
    BY DEF Valued
  <2> HIDE DEF n, v
  <2>3. /\ u \in RowsAbout(p, {u.value}) /\ u.key = r.key /\ u.of = r.of /\ u.source = r.source
        /\ u.cat = r.cat
    BY <2>1 DEF RowsAbout
  <2>4. IsRow(u, w) /\ IsRow(r, w)
    BY <2>3 DEF IsRow, RowsOn, AreRows
  <2> HIDE DEF u
  <2>5. QED
    BY <2>2, <2>3, <2>4
<1>2. {f[r] : r \in rs} = new /\ IsFiniteSet(rs)
  BY DEF AreRows
<1> HIDE DEF v
<1>3. \A r \in rs : IsRow(f[r], w)
  BY <1>1
<1> HIDE DEF f
<1>4. AreRows(new, w)
  BY <1>2, <1>3, RowsMade
<1>5. OnePerKey(rs) => OnePerKey(new)
  BY <1>1 DEF OnePerKey
<1>6. ASSUME NEW sc, KeptOrLp(rs, w, sc) PROVE KeptOrLp(new, w, sc)
  <2>1. RichLp(rs) => RichLp(new)
    BY <1>1 DEF RichLp, Rich
  <2>2. \A p \in w : Shown(rs, w, p) => Shown(new, w, p)
    BY <1>1 DEF Shown
  <2>3. QED
    BY <1>6, <2>1, <2>2 DEF KeptOrLp
<1>7. QED
  BY <1>4, <1>5, <1>6 DEF v

\* So does what positionsPayload makes of LPs without one.
LEMMA EstimatedIs ==
  ASSUME NEW w, NEW rs, AreRows(rs, w), NEW live
  PROVE  SameRows(rs, Estimated(rs, live))
         /\ \A n \in Estimated(rs, live) : \E r \in rs : n.of = r.of /\ n.key = r.key
<1> DEFINE lp == {r \in rs : r.cat = "amm_lp"}
           closed == {r \in lp : r.value = Null /\ ShownClosed(r)}
           open == {r \in lp : r.value = Null} \ closed
           guess == IF lp = open THEN live ELSE Null
           new == Estimated(rs, live)
           e(r) == IF r \in closed THEN [r EXCEPT !.value = 0]
                   ELSE IF r \in open THEN [r EXCEPT !.value = guess] ELSE r
<1>1. /\ new = (rs \ (open \cup closed)) \cup {[r EXCEPT !.value = 0] : r \in closed}
                 \cup {[r EXCEPT !.value = guess] : r \in open}
      /\ open \subseteq rs /\ closed \subseteq rs /\ open \cap closed = {}
  BY DEF Estimated
<1> HIDE DEF open, closed, guess, new
<1>2. new = {e(r) : r \in rs}
  <2>1. \A r \in rs : e(r) \in new
    BY <1>1
  <2>2. \A n \in new : \E r \in rs : n = e(r)
    BY <1>1
  <2> HIDE DEF e
  <2>3. QED
    BY <2>1, <2>2
<1>3. ASSUME NEW r \in rs
      PROVE  /\ e(r).of = r.of /\ e(r).source = r.source /\ e(r).cat = r.cat /\ e(r).protocol = r.protocol
             /\ e(r).key = r.key
  <2>1. PICK p \in w : r \in RowsAbout(p, {r.value})
    BY DEF AreRows, IsRow, RowsOn
  <2>2. QED
    BY <2>1 DEF RowsAbout
<1> HIDE DEF e
<1>4. QED
  BY <1>2, <1>3 DEF SameRows, OnePerKey, new

\* A decoded row is about the position the row was about.
LEMMA DecodedIs ==
  ASSUME NEW w \in SUBSET Held, NEW rs, AreRows(rs, w), NEW up
  PROVE  LET new == {Decoded(r, w, up) : r \in rs}
         IN AreRows(new, w) /\ \A r \in rs : \E n \in new : n.of = r.of
<1> DEFINE d(r) == Decoded(r, w, up)
           new == {d(r) : r \in rs}
           f == [r \in rs |-> d(r)]
<1>1. ASSUME NEW r \in rs PROVE IsRow(d(r), w) /\ d(r).of = r.of
  <2> DEFINE can == {p \in CetusDecodable(w) \cup TurbosDecodable(w) : p.id = r.of /\ Read(p) \in up}
             p == CHOOSE q \in can : TRUE
             value == IF Net(p.legs) = 0 THEN 0 ELSE Null
             one == Row(p, PoolKey(p), "native", p.legs, value)
  <2>1. d(r) \in {r} \/ (can # {} /\ d(r) = one)
    BY DEF Decoded
  <2>2. CASE can # {} /\ d(r) = one
    <3>1. p \in can
      BY <2>2
    <3>2. p \in w /\ p.id = r.of
      BY <3>1 DEF CetusDecodable, TurbosDecodable, Of
    <3> HIDE DEF p, value
    <3>3. p.legs \in Legs /\ PoolKey(p) \in KeysOf(p)
      BY <3>2, LegsOf DEF KeysOf
    <3>4. IsRow(one, w)
      BY <3>2, <3>3, RowIsOne
    <3>5. one.of = r.of
      BY <3>2 DEF Row
    <3>6. QED
      BY <2>2, <3>4, <3>5
  <2>3. CASE d(r) = r
    BY <2>3 DEF AreRows
  <2>4. QED
    BY <2>1, <2>2, <2>3
<1>2. {f[r] : r \in rs} = new /\ IsFiniteSet(rs)
  BY DEF AreRows
<1> HIDE DEF d
<1>3. \A r \in rs : IsRow(f[r], w)
  BY <1>1
<1>4. \A r \in rs : \E n \in new : n.of = r.of
  BY <1>1
<1> HIDE DEF f
<1>5. AreRows(new, w)
  BY <1>2, <1>3, RowsMade
<1>6. QED
  BY <1>4, <1>5 DEF d

\* The adapters' answers are rows of the wallet.
ListsOK == \A a \in DOMAIN list : list[a] = Pending \/ AreRows(list[a], wallet)

\* What the rows say of the owned scan, step by step.
ScanKept ==
  /\ phase # "fetching" => scanned # Pending
  /\ scanned # Pending =>
       /\ scanned \in Scans(wallet)
       /\ phase \in {"merged", "retried"} => Kept(merged, wallet, scanned)
       /\ phase = "decoded" => KeptOrLp(merged, wallet, scanned)
       /\ Replied => Evidence(merged, wallet, scanned)

\* One row per key, all of them about the wallet until the indexer adds its own.
RowsKept ==
  /\ OnePerKey(merged)
  /\ phase # "paid" => AreRows(merged, wallet)

\* The inductive invariant.
ResolveInv == wallet \in SUBSET Held /\ ListsOK /\ ScanKept /\ RowsKept

\* It holds at the start, and each step of the resolution keeps it.
LEMMA ResolveStarts ==
  AnalysisInit => ResolveInv
<1> SUFFICES ASSUME AnalysisInit PROVE ResolveInv
  OBVIOUS
<1> USE DEF AnalysisInit, OverviewInit, ResolveInit
<1>1. wallet \in SUBSET Held
  BY WalletAssumption
<1>2. AreRows(merged, wallet)
  BY RowsNone
<1>3. QED
  BY <1>1, <1>2 DEF ResolveInv, ListsOK, ScanKept, RowsKept, OnePerKey

LEMMA CollectOK ==
  ASSUME ResolveInv, Collect
  PROVE  ResolveInv'
<1> USE DEF Collect
<1> DEFINE A == scanned \cup UNION {list[a] : a \in DOMAIN list}
<1>1. /\ wallet \in SUBSET Held /\ wallet' = wallet /\ list' = list /\ scanned' = scanned
      /\ phase' = "merged" /\ merged' = Merge(Lists)
      /\ scanned # Pending /\ scanned \in Scans(wallet) /\ AreRows(scanned, wallet)
      /\ \A a \in DOMAIN list : AreRows(list[a], wallet)
  BY ScansAre DEF ResolveInv, ScanKept, ListsOK
<1>2. \A r \in A : IsRow(r, wallet)
  BY <1>1 DEF AreRows
<1>3. scanned \in SUBSET A /\ \A a \in DOMAIN list : list[a] \in SUBSET A
  OBVIOUS
<1> HIDE DEF A, Collect
<1>4. Lists \in Seq(A) /\ scanned \subseteq Range(Lists)
  BY <1>1, <1>3, ListsAre DEF AreRows
<1>5. Kept(Merge(Lists), wallet, scanned)
  BY <1>1, <1>2, <1>4, CollectKeeps
<1>6. AreRows(Merge(Lists), wallet) /\ OnePerKey(Merge(Lists))
  BY <1>2, <1>4, MergeRows
<1>7. QED
  BY <1>1, <1>5, <1>6 DEF ResolveInv, ScanKept, ListsOK, RowsKept, Replied

LEMMA RetryOK ==
  ASSUME ResolveInv, RetryBlockvision
  PROVE  ResolveInv'
<1>1. /\ wallet \in SUBSET Held /\ wallet' = wallet /\ list' = list /\ scanned' = scanned
      /\ phase = "merged" /\ phase' = "retried" /\ AreRows(merged, wallet) /\ OnePerKey(merged)
      /\ scanned # Pending /\ scanned \in Scans(wallet) /\ Kept(merged, wallet, scanned)
  BY DEF ResolveInv, ScanKept, RowsKept, RetryBlockvision
<1>2. ASSUME NEW up, NEW priced,
             merged' = Merge(SetToSeq(merged) \o SetToSeq(BlockvisionRows(Of(wallet, "cetus"), up, priced)))
      PROVE  /\ AreRows(merged', wallet) /\ OnePerKey(merged')
             /\ Kept(merged, wallet, scanned) => Kept(merged', wallet, scanned)
  <2> DEFINE w == Of(wallet, "cetus")
             B == BlockvisionRows(w, up, priced)
             m == merged
             A == m \cup B
             s == SetToSeq(m)
             t == SetToSeq(B)
  <2>1. w \in SUBSET wallet /\ w \in SUBSET Held
    BY <1>1, WalletParts
  <2> HIDE DEF w
  <2>2. AreRows(B, w)
    BY <2>1, BlockvisionRowsAre
  <2>3. \A r : IsRow(r, w) => IsRow(r, wallet)
    BY <2>1 DEF IsRow, RowsOn
  <2> HIDE DEF B, m
  <2>4. \A r \in A : IsRow(r, wallet)
    BY <1>1, <2>2, <2>3 DEF AreRows, m
  <2>5. s \in Seq(m) /\ Range(s) = m /\ t \in Seq(B) /\ Range(t) = B
    BY <1>1, <2>2, SetToSeqIs DEF AreRows, m
  <2> HIDE DEF s, t
  <2>6. s \in Seq(A) /\ t \in Seq(A)
    BY <2>5
  <2> HIDE DEF A
  <2>7. s \o t \in Seq(A) /\ Range(s \o t) = m \cup B
    BY <2>5, <2>6, RangeOfBoth
  <2> DEFINE both == s \o t
  <2> HIDE DEF both
  <2>8. merged' = Merge(both)
    BY <1>2 DEF both, s, t, m, B, w
  <2>9. both \in Seq(A) /\ \A r \in m : \E d \in Range(both) : d.of = r.of
    BY <2>7 DEF both
  <2>10. AreRows(Merge(both), wallet) /\ OnePerKey(Merge(both))
    BY <2>4, <2>9, MergeRows
  <2>11. Kept(m, wallet, scanned) => Kept(Merge(both), wallet, scanned)
    BY <1>1, <2>4, <2>9, RemergeKeeps
  <2>12. QED
    BY <2>8, <2>10, <2>11 DEF m
<1>3. CASE merged' = merged
  BY <1>1, <1>3 DEF ResolveInv, ScanKept, ListsOK, RowsKept, Replied
<1>4. CASE merged' # merged
  <2>1. /\ AreRows(merged', wallet) /\ OnePerKey(merged')
        /\ Kept(merged, wallet, scanned) => Kept(merged', wallet, scanned)
    BY <1>2, <1>4 DEF RetryBlockvision
  <2>2. QED
    BY <1>1, <2>1 DEF ResolveInv, ScanKept, ListsOK, RowsKept, Replied
<1>5. QED
  BY <1>3, <1>4

LEMMA DecodeOK ==
  ASSUME ResolveInv, Decode
  PROVE  ResolveInv'
<1>1. /\ wallet \in SUBSET Held /\ wallet' = wallet /\ list' = list /\ scanned' = scanned
      /\ phase = "retried" /\ phase' = "decoded" /\ AreRows(merged, wallet)
      /\ scanned # Pending /\ scanned \in Scans(wallet) /\ Kept(merged, wallet, scanned)
  BY DEF ResolveInv, ScanKept, RowsKept, Decode
<1>2. PICK up : merged' = DropWeakLp(Merge(SetToSeq({Decoded(r, wallet, up) : r \in merged})))
  BY DEF Decode
<1> DEFINE A == {Decoded(r, wallet, up) : r \in merged}
           s == SetToSeq(A)
           all == Merge(s)
<1>0. wallet \in SUBSET Held /\ AreRows(merged, wallet)
  BY <1>1
<1>3. AreRows(A, wallet) /\ \A r \in merged : \E d \in A : d.of = r.of
  BY <1>0, DecodedIs
<1>4. merged' = DropWeakLp(all)
  BY <1>2
<1> HIDE DEF A
<1>5. s \in Seq(A) /\ Range(s) = A /\ \A r \in A : IsRow(r, wallet)
  BY <1>3, SetToSeqIs DEF AreRows
<1> HIDE DEF s
<1>6. AreRows(all, wallet) /\ OnePerKey(all)
  BY <1>5, MergeRows
<1>7. Kept(merged, wallet, scanned) => Kept(all, wallet, scanned)
  BY <1>1, <1>3, <1>5, RemergeKeeps
<1> HIDE DEF all
<1>8. DropWeakLp(all) \in SUBSET all
  BY DEF DropWeakLp
<1>9. AreRows(merged', wallet) /\ OnePerKey(merged')
  BY <1>4, <1>6, <1>8, RowsSome DEF OnePerKey
<1>10. Kept(merged, wallet, scanned) => KeptOrLp(merged', wallet, scanned)
  BY <1>1, <1>4, <1>6, <1>7, LpFilterKeeps DEF AreRows
<1>11. QED
  BY <1>1, <1>9, <1>10 DEF ResolveInv, ScanKept, ListsOK, RowsKept, Replied

LEMMA PriceOK ==
  ASSUME ResolveInv, Price
  PROVE  ResolveInv'
<1>1. /\ wallet \in SUBSET Held /\ wallet' = wallet /\ list' = list /\ scanned' = scanned
      /\ phase = "decoded" /\ phase' = "answered" /\ AreRows(merged, wallet) /\ OnePerKey(merged)
      /\ scanned # Pending /\ scanned \in Scans(wallet) /\ KeptOrLp(merged, wallet, scanned)
  BY DEF ResolveInv, ScanKept, RowsKept, Price
<1>2. PICK priced : merged' = DropWeakLending({Valued(r, priced) : r \in merged})
  BY DEF Price
<1> DEFINE all == {Valued(r, priced) : r \in merged}
<1>3. /\ AreRows(all, wallet) /\ OnePerKey(all)
      /\ KeptOrLp(merged, wallet, scanned) => KeptOrLp(all, wallet, scanned)
  BY <1>1, ValuedIs
<1>4. merged' = DropWeakLending(all)
  BY <1>2
<1> HIDE DEF all
<1>5. DropWeakLending(all) \in SUBSET all
  BY DEF DropWeakLending
<1>6. AreRows(merged', wallet) /\ OnePerKey(merged')
  BY <1>3, <1>4, <1>5, RowsSome DEF OnePerKey
<1>7. KeptOrLp(all, wallet, scanned) => Evidence(merged', wallet, scanned)
  BY <1>1, <1>3, <1>4, LendingFilterKeeps DEF AreRows
<1>8. QED
  BY <1>1, <1>3, <1>6, <1>7 DEF ResolveInv, ScanKept, ListsOK, RowsKept, Replied

LEMMA CatchOK ==
  ASSUME ResolveInv, Catch
  PROVE  ResolveInv'
<1>1. /\ wallet \in SUBSET Held /\ wallet' = wallet /\ list' = list /\ scanned' = scanned
      /\ phase' = "answered" /\ AreRows(merged, wallet) /\ OnePerKey(merged)
      /\ scanned # Pending /\ scanned \in Scans(wallet) /\ KeptOrLp(merged, wallet, scanned)
  BY DEF ResolveInv, ScanKept, RowsKept, Catch, Kept, KeptOrLp
<1>2. merged' = DropWeakLending(merged)
  BY DEF Catch
<1>3. DropWeakLending(merged) \in SUBSET merged
  BY DEF DropWeakLending
<1>4. AreRows(merged', wallet) /\ OnePerKey(merged')
  BY <1>1, <1>2, <1>3, RowsSome DEF OnePerKey
<1>5. KeptOrLp(merged, wallet, scanned) => Evidence(merged', wallet, scanned)
  BY <1>1, <1>2, LendingFilterKeeps DEF AreRows
<1>6. QED
  BY <1>1, <1>4, <1>5 DEF ResolveInv, ScanKept, ListsOK, RowsKept, Replied

\* The payload values rows anew and adds those of stakes that have none.
LEMMA PayloadOK ==
  ASSUME ResolveInv, Payload
  PROVE  ResolveInv'
<1>1. /\ wallet \in SUBSET Held /\ wallet' = wallet /\ list' = list /\ scanned' = scanned
      /\ phase' = "paid" /\ AreRows(merged, wallet) /\ OnePerKey(merged)
      /\ scanned # Pending /\ scanned \in Scans(wallet) /\ Evidence(merged, wallet, scanned)
  BY DEF ResolveInv, ScanKept, RowsKept, Payload, Replied
<1>2. PICK indexed \in SUBSET Of(wallet, "staking"), price \in BOOLEAN, live \in {Null, Holdings} :
        merged' = Estimated(merged, live) \cup
          {Row(p, <<p.id, "indexer">>, "indexer", NoLegs, IF price THEN Net(p.legs) ELSE Null) :
             p \in {q \in indexed : \A r \in merged : r.of # q.id}}
  BY DEF Payload
<1> DEFINE value(p) == IF price THEN Net(p.legs) ELSE Null
           P == {q \in indexed : \A r \in merged : r.of # q.id}
           row(p) == Row(p, <<p.id, "indexer">>, "indexer", NoLegs, value(p))
           new == Estimated(merged, live)
           added == {row(p) : p \in P}
<1>3. /\ SameRows(merged, new)
      /\ \A n \in new : \E r \in merged : n.of = r.of /\ n.key = r.key
  BY <1>1, EstimatedIs
<1>4. merged' = new \cup added
  BY <1>2
<1>5. P \subseteq wallet /\ \A p \in P, r \in merged : r.of # p.id
  BY <1>2 DEF Of
<1>6. \A p \in P : row(p).key = <<p.id, "indexer">>
  BY DEF Row
<1> HIDE DEF new, value, P
<1>7. OnePerKey(new)
  BY <1>1, <1>3 DEF SameRows
<1>8. \A p, q \in P : row(p).key = row(q).key => row(p) = row(q)
  <2> HIDE DEF row
  <2> SUFFICES ASSUME NEW p \in P, NEW q \in P, row(p).key = row(q).key PROVE p = q
    OBVIOUS
  <2>1. <<p.id, "indexer">> = <<q.id, "indexer">>
    BY <1>6
  <2>2. p.id = q.id
    BY <2>1
  <2>3. p \in Held /\ q \in Held
    BY <1>1, <1>5
  <2>4. QED
    BY <2>2, <2>3, HeldAssumption
<1>9. \A n \in new, p \in P : n.key # row(p).key
  <2> HIDE DEF row
  <2> SUFFICES ASSUME NEW n \in new, NEW p \in P, n.key = row(p).key PROVE FALSE
    OBVIOUS
  <2>1. PICK r \in merged : r.key = n.key
    BY <1>3
  <2>2. r.key = <<p.id, "indexer">>
    BY <1>6, <2>1
  <2>3. PICK q \in wallet : r.of = q.id /\ r.key \in KeysOf(q)
    BY <1>1, RowFields DEF AreRows
  <2>4. PICK x : r.key = <<q.id, x>>
    <3>1. r.key # <<q.id>> /\ r.key # <<q.pool>>
      BY <2>2
    <3>2. QED
      BY <2>3, <3>1 DEF KeysOf, PoolKey
  <2>5. q.id = p.id
    BY <2>2, <2>4
  <2>6. QED
    BY <1>5, <2>3, <2>5
<1> HIDE DEF row
<1>10. OnePerKey(merged')
  BY <1>4, <1>7, <1>8, <1>9 DEF OnePerKey
<1>11. SameRows(merged, merged')
  BY <1>3, <1>4, <1>10 DEF SameRows
<1>12. Evidence(merged, wallet, scanned) => Evidence(merged', wallet, scanned)
  BY <1>11, EvidenceStays
<1>13. QED
  BY <1>1, <1>10, <1>12 DEF ResolveInv, ScanKept, ListsOK, RowsKept, Replied

LEMMA AnswerOK ==
  ASSUME ResolveInv, NEW a \in DOMAIN list, Answer(a) \/ TimeOut(a)
  PROVE  ResolveInv'
<1>1. /\ wallet \in SUBSET Held /\ wallet' = wallet /\ scanned' = scanned /\ merged' = merged
      /\ phase = "fetching" /\ phase' = phase
  BY DEF ResolveInv, Answer, TimeOut
<1>2. PICK rs : list' = [list EXCEPT ![a] = rs] /\ AreRows(rs, wallet)
  BY <1>1, AnswersAre, RowsNone DEF Answer, TimeOut
<1>3. ListsOK'
  BY <1>1, <1>2 DEF ResolveInv, ListsOK
<1>4. QED
  BY <1>1, <1>3 DEF ResolveInv, ScanKept, RowsKept, Replied

LEMMA OtherOK ==
  ASSUME ResolveInv,
         \/ OwnedAnswers
         \/ UNCHANGED <<wallet, scanned, list, merged, phase>>
  PROVE  ResolveInv'
<1>1. CASE OwnedAnswers
  BY <1>1 DEF OwnedAnswers, ResolveInv, ListsOK, ScanKept, RowsKept, Replied
<1>2. CASE UNCHANGED <<wallet, scanned, list, merged, phase>>
  BY <1>2 DEF ResolveInv, ListsOK, ScanKept, RowsKept, Replied
<1>3. QED
  BY <1>1, <1>2

LEMMA ResolveKeeps ==
  ResolveInv /\ [AnalysisNext]_analysisVars => ResolveInv'
<1> SUFFICES ASSUME ResolveInv, [AnalysisNext]_analysisVars PROVE ResolveInv'
  OBVIOUS
<1>1. CASE Balances \/ ShowWallet \/ Summarise \/ Analyse \/ UNCHANGED allVars \/ UNCHANGED analysisVars
  BY <1>1, OtherOK DEF Balances, ShowWallet, Summarise, Analyse, analysisVars, allVars, resolveVars
<1>2. CASE Serve
  BY <1>2, PayloadOK DEF Serve
<1>3. CASE Resolving
  BY <1>3, CollectOK, RetryOK, DecodeOK, PriceOK, CatchOK DEF Resolving
<1>4. CASE OwnedAnswers
  BY <1>4, OtherOK
<1>5. CASE \E a \in DOMAIN list : Answer(a) \/ TimeOut(a)
  BY <1>5, AnswerOK
<1>6. QED
  BY <1>1, <1>2, <1>3, <1>4, <1>5 DEF AnalysisNext, OverviewNext

\* The overview and the analysis around the resolution change none of it.
LEMMA ResolveInvariant ==
  AnalysisSpec => []ResolveInv
BY ResolveStarts, ResolveKeeps, PTL DEF AnalysisSpec

\* EvidenceKept of any wallet, whatever part of it the owned scan came back with, and
\* whatever else fails, times out or has no price: a position the scan found leaves
\* resolveDefiPositions and the payload with a row, unless a richer row of its kind
\* stands for it.
THEOREM EvidenceIsKept ==
  AnalysisSpec => []EvidenceKept
<1>1. ResolveInv => EvidenceKept
  BY DEF ResolveInv, ScanKept, Replied, Evidence, EvidenceKept, InScan, Detected
<1>2. QED
  BY <1>1, ResolveInvariant, PTL

\* No two rows of the answer have one key, whatever the owned scan and the adapters came
\* back with: the merges of resolve.ts leave one row per key, and the stakes the indexer
\* adds meet none of them.
THEOREM RowsAreOfOneKey ==
  AnalysisSpec => []OneRowPerKey
<1>1. ResolveInv => OneRowPerKey
  BY DEF ResolveInv, RowsKept, OnePerKey, OneRowPerKey
<1>2. QED
  BY <1>1, ResolveInvariant, PTL

-----------------------------------------------------------------------------
(* Resolve: rows that say no more of a position than its assets come to.   *)

\* What a coin of some details is worth as an asset.
Gain(legs, c) == IF c \in DOMAIN legs /\ legs[c] > 0 THEN legs[c] ELSE 0

\* A sum of no more than the assets, coin by coin.
LEMMA AssetsCover ==
  ASSUME NEW D, IsFiniteSet(D), NEW legs \in [D -> Int], NEW E, IsFiniteSet(E), NEW g \in [E -> Int],
         \A c \in E : g[c] <= Gain(legs, c)
  PROVE  SumFunction(g) <= Assets(legs) /\ Assets(legs) \in Int /\ 0 <= Assets(legs)
         /\ SumFunction(g) \in Int
<1> DEFINE P == {c \in D : legs[c] > 0}
           F == E \cap P
           G == E \ F
<1>1. DOMAIN legs = D
  OBVIOUS
<1>2. Assets(legs) = Total(legs, P)
  BY <1>1 DEF Assets, Total
<1>3. IsFiniteSet(P) /\ IsFiniteSet(F) /\ IsFiniteSet(G)
  BY FS_Subset
<1>4. \A c \in P : legs[c] \in Int /\ 0 <= legs[c]
  OBVIOUS
<1>5. \A c \in F : g[c] \in Int /\ legs[c] \in Int /\ g[c] <= legs[c]
  BY DEF Gain
<1>6. \A c \in G : g[c] \in Int /\ g[c] <= 0
  BY DEF Gain
<1>7. F \in SUBSET E /\ E \ F = G /\ F \in SUBSET P /\ E \in SUBSET E
  OBVIOUS
<1> HIDE DEF P, F, G
<1>8. SumFunction(g) = Total(g, F) + Total(g, G)
  <2>1. SumFunction(g) = Total(g, E)
    BY TotalOfAll
  <2>2. Total(g, E) = Total(g, F) + Total(g, E \ F)
    BY <1>7, TotalBoth
  <2>3. QED
    BY <1>7, <2>1, <2>2
<1>9. Total(g, F) <= Total(legs, F)
  BY <1>3, <1>5, TotalMono
<1>10. Total(g, G) <= 0
  BY <1>3, <1>6, NoneCounts
<1>11. Total(legs, F) <= Total(legs, P) /\ 0 <= Total(legs, P) /\ Total(legs, P) \in Int
  BY <1>3, <1>4, <1>7, TotalNat
<1>12. Total(g, F) \in Int /\ Total(g, G) \in Int /\ Total(legs, F) \in Int
  BY <1>3, <1>4, <1>5, <1>6, <1>7, TotalSteps
<1>13. QED
  BY <1>2, <1>8, <1>9, <1>10, <1>11, <1>12

\* The rows of an obligation at Scallop or Suilend are about a coin each, those
\* of the others about the whole position, under the adapter's own key.
Split(p) == p.adapter \in {"scallop", "suilend"}
WholeRow(p) == ~ Split(p) \/ Doubled(p)

MainKey(p) ==
  CASE p.adapter \in {"momentum", "cetus", "turbos"} -> PoolKey(p)
    [] p.adapter = "deepbook" -> <<p.id, "pool">>
    [] p.adapter = "scallop" -> <<p.id, "debts">>
    [] OTHER -> <<p.id>>

\* What a row of this key may count of a coin, and what it may be worth.
Share(p, k, c) ==
  IF (k = MainKey(p) /\ WholeRow(p)) \/ (Split(p) /\ k = <<p.id, c>>) THEN Gain(p.legs, c) ELSE 0

Bound(p, k) ==
  IF k = MainKey(p) /\ WholeRow(p) THEN Assets(p.legs)
  ELSE IF Split(p) /\ k = <<p.id, k[2]>> THEN Gain(p.legs, k[2]) ELSE 0

\* A row that says no more of its position than it may, and of one in a pool,
\* of all its coins or of none; a stake's has its principal.
Fair(r, p) ==
  /\ r \in RowsAbout(p, {r.value})
  /\ \A c \in DOMAIN r.legs : r.legs[c] <= Share(p, r.key, c)
  /\ r.value = Null \/ (r.value \in Int /\ r.value <= Bound(p, r.key))
  /\ p.pool # NoPool =>
       /\ r.source = "rpc" => r.legs = NoLegs
       /\ r.source # "rpc" /\ r.key = <<p.pool>> => DOMAIN r.legs = DOMAIN p.legs
  /\ p.adapter = "staking" => r.legs = p.legs

FairIn(r, w) == \E p \in w : Fair(r, p)

\* What a part of a position's coins is worth together.
LEMMA PartNet ==
  ASSUME NEW p \in Held, NEW S \in SUBSET DOMAIN p.legs
  PROVE  /\ Net(Restrict(p.legs, S)) \in Int /\ Net(Restrict(p.legs, S)) <= Assets(p.legs)
         /\ Assets(p.legs) \in Int /\ 0 <= Assets(p.legs)
<1> DEFINE D == DOMAIN p.legs
           legs == p.legs
           g == Restrict(legs, S)
<1>1. IsFiniteSet(D) /\ legs \in [D -> Int]
  BY HeldAssumption
<1>2. S \in SUBSET D
  OBVIOUS
<1>3. IsFiniteSet(S)
  BY <1>1, <1>2, FS_Subset
<1> HIDE DEF D, legs
<1>4. g \in [S -> Int] /\ \A c \in S : g[c] <= Gain(legs, c)
  BY <1>1, <1>2 DEF Restrict, Gain
<1> HIDE DEF g
<1>5. /\ SumFunction(g) \in Int /\ SumFunction(g) <= Assets(legs)
      /\ Assets(legs) \in Int /\ 0 <= Assets(legs)
  BY <1>1, <1>3, <1>4, AssetsCover
<1>6. QED
  BY <1>5 DEF Net, g, legs

\* A value that is no more than the assets, or none.
Sound(p, v) == v = Null \/ (v \in Int /\ v <= Assets(p.legs))

LEMMA SoundValues ==
  ASSUME NEW p \in Held, NEW priced
  PROVE  /\ Net(p.legs) \in Int /\ Sound(p, Net(p.legs)) /\ Sound(p, Null) /\ Sound(p, 0)
         /\ Sound(p, AllPriced(p.legs, priced))
         /\ Sound(p, Net(PricedLegs(p.legs, priced)))
<1>1. Restrict(p.legs, DOMAIN p.legs) = p.legs
  BY HeldAssumption DEF Restrict
<1>2. Net(p.legs) \in Int /\ Net(p.legs) <= Assets(p.legs) /\ Assets(p.legs) \in Int /\ 0 <= Assets(p.legs)
  <2>1. DOMAIN p.legs \in SUBSET DOMAIN p.legs
    OBVIOUS
  <2>2. QED
    BY <1>1, <2>1, PartNet
<1>3. Sound(p, Net(PricedLegs(p.legs, priced)))
  <2>1. DOMAIN p.legs \cap priced \in SUBSET DOMAIN p.legs
    OBVIOUS
  <2>2. QED
    BY <2>1, PartNet DEF Sound, PricedLegs
<1>4. QED
  BY <1>2, <1>3 DEF Sound, AllPriced

\* A row of a whole position, as an adapter makes it.
LEMMA WholeIsFair ==
  ASSUME NEW p \in Held, NEW k, k = MainKey(p), WholeRow(p), NEW source \in {"rpc", "native", "blockvision"},
         NEW legs \in Legs, NEW value, Sound(p, value),
         \A c \in DOMAIN legs : legs[c] <= Gain(p.legs, c),
         p.pool # NoPool => source # "rpc" /\ DOMAIN legs = DOMAIN p.legs,
         p.adapter = "staking" => legs = p.legs
  PROVE  Fair(Row(p, k, source, legs, value), p)
<1> DEFINE r == Row(p, k, source, legs, value)
<1>1. k \in KeysOf(p)
  BY DEF MainKey, KeysOf
<1>2. /\ r \in RowsAbout(p, {r.value}) /\ r.key = k /\ r.legs = legs /\ r.value = value /\ r.source = source
  BY <1>1 DEF Row, RowsAbout
<1> HIDE DEF r
<1>3. \A c : Share(p, k, c) = Gain(p.legs, c)
  BY DEF Share
<1>4. Bound(p, k) = Assets(p.legs)
  BY DEF Bound
<1>5. Fair(r, p)
  BY <1>2, <1>3, <1>4 DEF Fair, Sound
<1>6. QED
  BY <1>5 DEF r

\* Details that hold no more than the position, coin by coin.
Modest(legs, p) == legs \in Legs /\ \A c \in DOMAIN legs : legs[c] <= Gain(p.legs, c)

LEMMA HalfIs ==
  ASSUME NEW n \in Int
  PROVE  n \div 2 \in Int /\ n \div 2 <= IF n > 0 THEN n ELSE 0
OBVIOUS

LEMMA ModestLegs ==
  ASSUME NEW p \in Held, NEW up
  PROVE  /\ Modest(p.legs, p) /\ Modest(NoLegs, p) /\ Modest(Accrued(p.legs, up), p)
         /\ DOMAIN Accrued(p.legs, up) = DOMAIN p.legs
<1> DEFINE D == DOMAIN p.legs
           half(c) == p.legs[c] \div 2
<1>1. p.legs \in [D -> Int] /\ p.legs \in Legs /\ NoLegs \in Legs
  BY HeldAssumption, LegsOf
<1>2. Accrued(p.legs, up) \in Legs
  BY <1>1, LegsAccrued
<1>3. Accrued(p.legs, up) = [c \in D |-> IF Market(c) \in up THEN p.legs[c] ELSE half(c)]
  BY DEF Accrued
<1>4. \A c \in D : half(c) \in Int /\ half(c) <= Gain(p.legs, c) /\ p.legs[c] <= Gain(p.legs, c)
  <2> SUFFICES ASSUME NEW c \in D
               PROVE  half(c) \in Int /\ half(c) <= Gain(p.legs, c) /\ p.legs[c] <= Gain(p.legs, c)
    OBVIOUS
  <2> DEFINE n == p.legs[c]
  <2>1. n \in Int
    BY <1>1
  <2>2. Gain(p.legs, c) = IF n > 0 THEN n ELSE 0
    BY DEF Gain
  <2> HIDE DEF n
  <2>3. n \div 2 \in Int /\ n \div 2 <= IF n > 0 THEN n ELSE 0
    BY <2>1, HalfIs
  <2>4. half(c) = n \div 2
    BY DEF n
  <2> HIDE DEF half
  <2>5. QED
    BY <2>1, <2>2, <2>3, <2>4 DEF n
<1> HIDE DEF half
<1>5. QED
  BY <1>1, <1>2, <1>3, <1>4 DEF Modest, NoLegs

\* Adapter by adapter: whatever is read and priced, its rows are fair.
LEMMA StakingFair ==
  ASSUME NEW w \in SUBSET Held, NEW up, NEW priced, NEW r \in StakingRows(w, up)
  PROVE  FairIn(r, w)
<1> DEFINE S == Listed(w, "staking", up)
           value(p) == Null
           legs(p) == p.legs
<1>1. S \in SUBSET w
  BY WalletParts
<1>2. PICK p \in S : r = Row(p, <<p.id>>, "native", legs(p), value(p))
  BY DEF StakingRows
<1>3. p \in w /\ p \in Held /\ p.adapter = "staking"
  BY <1>1, <1>2 DEF Listed, Found, Of
<1>4. <<p.id>> = MainKey(p) /\ WholeRow(p)
  BY <1>3 DEF MainKey, WholeRow, Split
<1>5. p.pool = NoPool
  BY <1>3, HeldAssumption
<1>6. Modest(legs(p), p)
  BY <1>3, ModestLegs
<1>7. Sound(p, value(p))
  BY <1>3, SoundValues
<1> HIDE DEF legs, value, S
<1>8. Fair(r, p)
  BY <1>2, <1>3, <1>4, <1>5, <1>6, <1>7, WholeIsFair DEF Modest, legs
<1>9. QED
  BY <1>3, <1>8 DEF FairIn

LEMMA NaviFair ==
  ASSUME NEW w \in SUBSET Held, NEW up, NEW priced, NEW r \in NaviRows(w, up)
  PROVE  FairIn(r, w)
<1> DEFINE S == Found(w, "navi", up)
           value(p) == Null
           legs(p) == Accrued(p.legs, up)
<1>1. S \in SUBSET w
  BY WalletParts
<1>2. PICK p \in S : r = Row(p, <<p.id>>, "native", legs(p), value(p))
  BY DEF NaviRows
<1>3. p \in w /\ p \in Held /\ p.adapter = "navi"
  BY <1>1, <1>2 DEF Listed, Found, Of
<1>4. <<p.id>> = MainKey(p) /\ WholeRow(p)
  BY <1>3 DEF MainKey, WholeRow, Split
<1>5. p.pool = NoPool
  BY <1>3, HeldAssumption
<1>6. Modest(legs(p), p)
  BY <1>3, ModestLegs
<1>7. Sound(p, value(p))
  BY <1>3, SoundValues
<1> HIDE DEF legs, value, S
<1>8. Fair(r, p)
  BY <1>2, <1>3, <1>4, <1>5, <1>6, <1>7, WholeIsFair DEF Modest
<1>9. QED
  BY <1>3, <1>8 DEF FairIn

LEMMA ScoinFair ==
  ASSUME NEW w \in SUBSET Held, NEW up, NEW priced, NEW r \in ScoinRows(w, up)
  PROVE  FairIn(r, w)
<1> DEFINE S == Listed(w, "scoin", up)
           value(p) == Null
           legs(p) == Accrued(p.legs, up)
<1>1. S \in SUBSET w
  BY WalletParts
<1>2. PICK p \in S : r = Row(p, <<p.id>>, "native", legs(p), value(p))
  BY DEF ScoinRows
<1>3. p \in w /\ p \in Held /\ p.adapter = "scoin"
  BY <1>1, <1>2 DEF Listed, Found, Of
<1>4. <<p.id>> = MainKey(p) /\ WholeRow(p)
  BY <1>3 DEF MainKey, WholeRow, Split
<1>5. p.pool = NoPool
  BY <1>3, HeldAssumption
<1>6. Modest(legs(p), p)
  BY <1>3, ModestLegs
<1>7. Sound(p, value(p))
  BY <1>3, SoundValues
<1> HIDE DEF legs, value, S
<1>8. Fair(r, p)
  BY <1>2, <1>3, <1>4, <1>5, <1>6, <1>7, WholeIsFair DEF Modest
<1>9. QED
  BY <1>3, <1>8 DEF FairIn

LEMMA BluefinFair ==
  ASSUME NEW w \in SUBSET Held, NEW up, NEW priced, NEW r \in BluefinRows(w, up, priced)
  PROVE  FairIn(r, w)
<1> DEFINE S == Listed(w, "bluefin", up)
           value(p) == AllPriced(p.legs, priced)
           legs(p) == NoLegs
<1>1. S \in SUBSET w
  BY WalletParts
<1>2. PICK p \in S : r = Row(p, <<p.id>>, "native", legs(p), value(p))
  BY DEF BluefinRows
<1>3. p \in w /\ p \in Held /\ p.adapter = "bluefin"
  BY <1>1, <1>2 DEF Listed, Found, Of
<1>4. <<p.id>> = MainKey(p) /\ WholeRow(p)
  BY <1>3 DEF MainKey, WholeRow, Split
<1>5. p.pool = NoPool
  BY <1>3, HeldAssumption
<1>6. Modest(legs(p), p)
  BY <1>3, ModestLegs
<1>7. Sound(p, value(p))
  BY <1>3, SoundValues
<1> HIDE DEF legs, value, S
<1>8. Fair(r, p)
  BY <1>2, <1>3, <1>4, <1>5, <1>6, <1>7, WholeIsFair DEF Modest
<1>9. QED
  BY <1>3, <1>8 DEF FairIn

LEMMA HaedalFair ==
  ASSUME NEW w \in SUBSET Held, NEW up, NEW priced, NEW r \in HaedalRows(w, up, priced)
  PROVE  FairIn(r, w)
<1> DEFINE S == Found(w, "haedal", up)
           value(p) == AllPriced(p.legs, priced)
           legs(p) == NoLegs
<1>1. S \in SUBSET w
  BY WalletParts
<1>2. PICK p \in S : r = Row(p, <<p.id>>, "native", legs(p), value(p))
  BY DEF HaedalRows
<1>3. p \in w /\ p \in Held /\ p.adapter = "haedal"
  BY <1>1, <1>2 DEF Listed, Found, Of
<1>4. <<p.id>> = MainKey(p) /\ WholeRow(p)
  BY <1>3 DEF MainKey, WholeRow, Split
<1>5. p.pool = NoPool
  BY <1>3, HeldAssumption
<1>6. Modest(legs(p), p)
  BY <1>3, ModestLegs
<1>7. Sound(p, value(p))
  BY <1>3, SoundValues
<1> HIDE DEF legs, value, S
<1>8. Fair(r, p)
  BY <1>2, <1>3, <1>4, <1>5, <1>6, <1>7, WholeIsFair DEF Modest
<1>9. QED
  BY <1>3, <1>8 DEF FairIn

LEMMA BucketFair ==
  ASSUME NEW w \in SUBSET Held, NEW up, NEW priced, NEW r \in BucketRows(w, up, priced)
  PROVE  FairIn(r, w)
<1> DEFINE S == Found(w, "bucket", up)
           value(p) == AllPriced(p.legs, priced \cup {"usdb"})
           legs(p) == NoLegs
<1>1. S \in SUBSET w
  BY WalletParts
<1>2. PICK p \in S : r = Row(p, <<p.id>>, "native", legs(p), value(p))
  BY DEF BucketRows
<1>3. p \in w /\ p \in Held /\ p.adapter = "bucket"
  BY <1>1, <1>2 DEF Listed, Found, Of
<1>4. <<p.id>> = MainKey(p) /\ WholeRow(p)
  BY <1>3 DEF MainKey, WholeRow, Split
<1>5. p.pool = NoPool
  BY <1>3, HeldAssumption
<1>6. Modest(legs(p), p)
  BY <1>3, ModestLegs
<1>7. Sound(p, value(p))
  BY <1>3, SoundValues
<1> HIDE DEF legs, value, S
<1>8. Fair(r, p)
  BY <1>2, <1>3, <1>4, <1>5, <1>6, <1>7, WholeIsFair DEF Modest
<1>9. QED
  BY <1>3, <1>8 DEF FairIn

LEMMA AlphaLendFair ==
  ASSUME NEW w \in SUBSET Held, NEW up, NEW priced, NEW r \in AlphaLendRows(w, up, priced)
  PROVE  FairIn(r, w)
<1> DEFINE S == Found(w, "alphalend", up)
           value(p) == Net(PricedLegs(p.legs, {c \in priced : Market(c) \in up}))
           legs(p) == NoLegs
<1>1. S \in SUBSET w
  BY WalletParts
<1>2. PICK p \in S : r = Row(p, <<p.id>>, "native", legs(p), value(p))
  BY DEF AlphaLendRows
<1>3. p \in w /\ p \in Held /\ p.adapter = "alphalend"
  BY <1>1, <1>2 DEF Listed, Found, Of
<1>4. <<p.id>> = MainKey(p) /\ WholeRow(p)
  BY <1>3 DEF MainKey, WholeRow, Split
<1>5. p.pool = NoPool
  BY <1>3, HeldAssumption
<1>6. Modest(legs(p), p)
  BY <1>3, ModestLegs
<1>7. Sound(p, value(p))
  BY <1>3, SoundValues
<1> HIDE DEF legs, value, S
<1>8. Fair(r, p)
  BY <1>2, <1>3, <1>4, <1>5, <1>6, <1>7, WholeIsFair DEF Modest
<1>9. QED
  BY <1>3, <1>8 DEF FairIn

LEMMA DeepbookFair ==
  ASSUME NEW w \in SUBSET Held, NEW up, NEW priced, NEW r \in DeepbookRows(w, up, priced)
  PROVE  FairIn(r, w)
<1> DEFINE S == Listed(w, "deepbook", up)
           value(p) == AllPriced(p.legs, priced)
           legs(p) == NoLegs
<1>1. S \in SUBSET w
  BY WalletParts
<1>2. PICK p \in S : r = Row(p, <<p.id, "pool">>, "native", legs(p), value(p))
  BY DEF DeepbookRows
<1>3. p \in w /\ p \in Held /\ p.adapter = "deepbook"
  BY <1>1, <1>2 DEF Listed, Found, Of
<1>4. <<p.id, "pool">> = MainKey(p) /\ WholeRow(p)
  BY <1>3 DEF MainKey, WholeRow, Split
<1>5. p.pool = NoPool
  BY <1>3, HeldAssumption
<1>6. Modest(legs(p), p)
  BY <1>3, ModestLegs
<1>7. Sound(p, value(p))
  BY <1>3, SoundValues
<1> HIDE DEF legs, value, S
<1>8. Fair(r, p)
  BY <1>2, <1>3, <1>4, <1>5, <1>6, <1>7, WholeIsFair DEF Modest
<1>9. QED
  BY <1>3, <1>8 DEF FairIn

LEMMA MomentumFair ==
  ASSUME NEW w \in SUBSET Held, NEW up, NEW priced, NEW r \in MomentumRows(w, up, priced)
  PROVE  FairIn(r, w)
<1> DEFINE S == Found(w, "momentum", up)
           value(p) == IF DOMAIN PricedLegs(p.legs, priced) = {} THEN Null ELSE Net(PricedLegs(p.legs, priced))
           legs(p) == p.legs
<1>1. S \in SUBSET w
  BY WalletParts
<1>2. PICK p \in S : r = Row(p, PoolKey(p), "native", legs(p), value(p))
  BY DEF MomentumRows
<1>3. p \in w /\ p \in Held /\ p.adapter = "momentum"
  BY <1>1, <1>2 DEF Listed, Found, Of
<1>4. PoolKey(p) = MainKey(p) /\ WholeRow(p)
  BY <1>3 DEF MainKey, WholeRow, Split
<1>5. p.adapter # "staking"
  BY <1>3, HeldAssumption
<1>6. Modest(legs(p), p) /\ DOMAIN legs(p) = DOMAIN p.legs
  BY <1>3, ModestLegs
<1>7. Sound(p, value(p))
  BY <1>3, SoundValues
<1> HIDE DEF legs, value, S
<1>8. Fair(r, p)
  BY <1>2, <1>3, <1>4, <1>5, <1>6, <1>7, WholeIsFair DEF Modest
<1>9. QED
  BY <1>3, <1>8 DEF FairIn

LEMMA EmberFair ==
  ASSUME NEW w \in SUBSET Held, NEW up, NEW priced, NEW r \in EmberRows(w, up)
  PROVE  FairIn(r, w)
<1>1. PICK p \in Of(w, "ember") :
        \E v : v \in {Null, Net(p.legs)} /\ r = Row(p, <<p.id>>, "native", p.legs, v)
  BY DEF EmberRows, Found, Listed
<1>0. PICK v : v \in {Null, Net(p.legs)} /\ r = Row(p, <<p.id>>, "native", p.legs, v)
  BY <1>1
<1>2. p \in w /\ p \in Held /\ p.adapter = "ember"
  BY DEF Of
<1>3. <<p.id>> = MainKey(p) /\ WholeRow(p)
  BY <1>2 DEF MainKey, WholeRow, Split
<1>4. p.pool = NoPool
  BY <1>2, HeldAssumption
<1>5. Modest(p.legs, p) /\ Sound(p, v)
  BY <1>0, <1>2, ModestLegs, SoundValues
<1>6. Fair(r, p)
  BY <1>0, <1>2, <1>3, <1>4, <1>5, WholeIsFair DEF Modest
<1>7. QED
  BY <1>2, <1>6 DEF FairIn

LEMMA BlockvisionFair ==
  ASSUME NEW w \in SUBSET Held, NEW up, NEW priced, NEW r \in BlockvisionRows(w, up, priced)
  PROVE  FairIn(r, w)
<1> DEFINE value(p) == AllPriced(p.legs, priced)
<1>1. PICK p \in w : p.bv /\ r = Row(p, EnvelopeKey(p), "blockvision", p.legs, value(p))
  BY DEF BlockvisionRows
<1>2. p \in Held /\ p.adapter \in {"cetus", "navi", "scallop"}
  BY <1>1, HeldAssumption
<1>3. EnvelopeKey(p) = MainKey(p) /\ WholeRow(p)
  BY <1>1, <1>2 DEF MainKey, WholeRow, Split, EnvelopeKey, Doubled
<1>4. p.adapter # "staking"
  BY <1>2
<1>5. Modest(p.legs, p) /\ Sound(p, value(p))
  BY <1>2, ModestLegs, SoundValues
<1> HIDE DEF value
<1>6. Fair(r, p)
  BY <1>1, <1>2, <1>3, <1>4, <1>5, WholeIsFair DEF Modest
<1>7. QED
  BY <1>6 DEF FairIn

\* A row of one coin of an obligation, or of its debts.
LEMMA SplitIsFair ==
  ASSUME NEW p \in Held, Split(p), NEW k \in KeysOf(p), NEW legs \in Legs,
         \A c \in DOMAIN legs : legs[c] <= 0 \/ (k = <<p.id, c>> /\ legs[c] <= Gain(p.legs, c))
  PROVE  Fair(Row(p, k, "native", legs, Null), p)
<1> DEFINE r == Row(p, k, "native", legs, Null)
<1>1. /\ r \in RowsAbout(p, {r.value}) /\ r.key = k /\ r.legs = legs /\ r.value = Null
  BY DEF Row, RowsAbout
<1> HIDE DEF r
<1>2. \A c \in DOMAIN legs : legs[c] \in Int
  BY DEF Legs
<1>3. p.pool = NoPool /\ p.adapter # "staking"
  BY HeldAssumption DEF Split
<1>4. ASSUME NEW c PROVE 0 <= Gain(p.legs, c) /\ Gain(p.legs, c) \in Int
  <2>1. c \in DOMAIN p.legs => p.legs[c] \in Int
    BY HeldAssumption
  <2>2. QED
    BY <2>1 DEF Gain
<1>5. \A c : 0 <= Share(p, k, c) /\ Share(p, k, c) \in Int
  BY <1>4 DEF Share
<1>6. \A c \in DOMAIN legs : legs[c] <= Share(p, k, c)
  <2> SUFFICES ASSUME NEW c \in DOMAIN legs PROVE legs[c] <= Share(p, k, c)
    OBVIOUS
  <2>1. CASE k = <<p.id, c>> /\ legs[c] <= Gain(p.legs, c)
    BY <2>1 DEF Share
  <2>2. CASE legs[c] <= 0
    BY <1>2, <1>5, <2>2
  <2>3. QED
    BY <2>1, <2>2
<1>7. Fair(r, p)
  BY <1>1, <1>3, <1>6 DEF Fair
<1>8. QED
  BY <1>7 DEF r

LEMMA ScallopFair ==
  ASSUME NEW w \in SUBSET Held, NEW up, NEW r \in ScallopRows(w, up)
  PROVE  FairIn(r, w)
<1> DEFINE debts(p) == {c \in DOMAIN p.legs : p.legs[c] < 0}
<1>1. PICK p \in Found(w, "scallop", up) :
        \/ \E c \in DOMAIN p.legs \ debts(p) : r = Row(p, <<p.id, c>>, "native", One(p.legs, c), Null)
        \/ r = Row(p, <<p.id, "debts">>, "native", Restrict(p.legs, debts(p)), Null)
  BY DEF ScallopRows
<1>2. p \in w /\ p \in Held /\ Split(p)
  BY DEF Found, Listed, Of, Split
<1>3. p.legs \in Legs /\ \A c \in DOMAIN p.legs : p.legs[c] \in Int
  BY <1>2, LegsOf, HeldAssumption
<1>4. ASSUME NEW c \in DOMAIN p.legs, r = Row(p, <<p.id, c>>, "native", One(p.legs, c), Null)
      PROVE  Fair(r, p)
  <2> DEFINE legs == One(p.legs, c)
  <2>1. legs \in Legs /\ DOMAIN legs = {c} /\ legs[c] = p.legs[c]
    BY <1>3, LegsPart DEF One, Restrict
  <2> HIDE DEF legs
  <2>2. legs[c] <= Gain(p.legs, c)
    BY <1>3, <2>1 DEF Gain
  <2>3. <<p.id, c>> \in KeysOf(p)
    BY DEF KeysOf
  <2>4. \A d \in DOMAIN legs : <<p.id, c>> = <<p.id, d>> /\ legs[d] <= Gain(p.legs, d)
    BY <2>1, <2>2
  <2> DEFINE k == <<p.id, c>>
  <2> HIDE DEF k
  <2>5. Fair(Row(p, k, "native", legs, Null), p)
    BY <1>2, <2>1, <2>3, <2>4, SplitIsFair DEF k
  <2>6. QED
    BY <1>4, <2>5 DEF legs, k
<1>5. ASSUME r = Row(p, <<p.id, "debts">>, "native", Restrict(p.legs, debts(p)), Null)
      PROVE  Fair(r, p)
  <2> DEFINE N == debts(p)
             legs == Restrict(p.legs, N)
             k == <<p.id, "debts">>
  <2>1. N \in SUBSET DOMAIN p.legs /\ \A c \in N : p.legs[c] <= 0
    BY <1>3
  <2> HIDE DEF N
  <2>2. legs \in Legs /\ \A d \in DOMAIN legs : legs[d] <= 0
    BY <1>3, <2>1, LegsPart DEF Restrict
  <2>3. k \in KeysOf(p)
    BY DEF KeysOf
  <2>4. r = Row(p, k, "native", legs, Null)
    BY <1>5 DEF N
  <2> HIDE DEF legs, k
  <2>5. Fair(Row(p, k, "native", legs, Null), p)
    BY <1>2, <2>2, <2>3, SplitIsFair
  <2>6. QED
    BY <2>4, <2>5
<1>6. QED
  BY <1>1, <1>2, <1>4, <1>5 DEF FairIn

LEMMA SuilendFair ==
  ASSUME NEW w \in SUBSET Held, NEW up, NEW r \in SuilendRows(w, up)
  PROVE  FairIn(r, w)
<1> DEFINE legs(p, c) == IF p.legs[c] > 0 THEN Accrued(One(p.legs, c), up) ELSE One(p.legs, c)
<1>1. PICK p \in Found(w, "suilend", up) :
        \E c \in DOMAIN p.legs : r = Row(p, <<p.id, c>>, "native", legs(p, c), Null)
  BY DEF SuilendRows
<1>0. PICK c \in DOMAIN p.legs : r = Row(p, <<p.id, c>>, "native", legs(p, c), Null)
  BY <1>1
<1>2. p \in w /\ p \in Held /\ Split(p)
  BY DEF Found, Listed, Of, Split
<1>3. p.legs \in Legs /\ p.legs[c] \in Int
  BY <1>2, LegsOf, HeldAssumption
<1> DEFINE one == One(p.legs, c)
           half == p.legs[c] \div 2
           k == <<p.id, c>>
           all == legs(p, c)
<1>4. one \in Legs /\ DOMAIN one = {c} /\ one[c] = p.legs[c]
  BY <1>3, LegsPart DEF One, Restrict
<1>5. half \in Int /\ half <= IF p.legs[c] > 0 THEN p.legs[c] ELSE 0
  BY <1>3, HalfIs
<1>6. Accrued(one, up) \in Legs /\ DOMAIN Accrued(one, up) = {c} /\ Accrued(one, up)[c] \in {p.legs[c], half}
  <2> HIDE DEF one
  <2>1. Accrued(one, up) \in Legs
    BY <1>4, LegsAccrued
  <2>2. Accrued(one, up) = [d \in {c} |-> IF Market(d) \in up THEN one[d] ELSE one[d] \div 2]
    BY <1>4 DEF Accrued
  <2>3. QED
    BY <1>4, <2>1, <2>2
<1>7. all \in {one, Accrued(one, up)}
  OBVIOUS
<1> HIDE DEF one, half, legs, all
<1>8. all \in Legs /\ DOMAIN all = {c} /\ all[c] \in {p.legs[c], half}
  BY <1>4, <1>6, <1>7
<1>9. all[c] <= Gain(p.legs, c)
  BY <1>3, <1>5, <1>8 DEF Gain
<1>10. k \in KeysOf(p) /\ \A d \in DOMAIN all : k = <<p.id, d>> /\ all[d] <= Gain(p.legs, d)
  BY <1>8, <1>9 DEF KeysOf
<1> HIDE DEF k
<1>11. Fair(Row(p, k, "native", all, Null), p)
  BY <1>2, <1>8, <1>10, SplitIsFair
<1>12. QED
  BY <1>0, <1>2, <1>11 DEF FairIn, all, k

LEMMA AnswersFair ==
  ASSUME NEW w \in SUBSET Held, NEW a, NEW up, NEW priced, NEW r \in RowsOf(a, w, up, priced)
  PROVE  FairIn(r, w)
BY StakingFair, NaviFair, ScoinFair, ScallopFair, SuilendFair, EmberFair, BluefinFair, BucketFair,
   HaedalFair, AlphaLendFair, DeepbookFair, MomentumFair, BlockvisionFair
   DEF RowsOf

\* The owned scan has nothing but keys, and the principal of a stake.
LEMMA OwnedFair ==
  ASSUME NEW w \in SUBSET Held, NEW r \in OwnedRows(w)
  PROVE  FairIn(r, w)
<1> DEFINE legs(p) == IF p.adapter = "staking" THEN p.legs ELSE NoLegs
           key(p) == IF p.wrapped THEN <<p.id>> ELSE PoolKey(p)
<1>1. PICK p \in w : r = Row(p, key(p), "rpc", legs(p), Null)
  BY DEF OwnedRows
<1>2. key(p) \in KeysOf(p)
  BY DEF KeysOf
<1>3. CASE p.adapter = "staking"
  <2>1. p \in Held /\ p.pool = NoPool
    BY <1>3, HeldAssumption
  <2>2. key(p) = MainKey(p) /\ WholeRow(p) /\ legs(p) = p.legs
    BY <1>3, <2>1 DEF MainKey, WholeRow, Split, PoolKey
  <2>3. Modest(p.legs, p) /\ Sound(p, Null)
    BY <2>1, ModestLegs, SoundValues
  <2> DEFINE k == key(p)
  <2> HIDE DEF legs, key
  <2>4. Fair(Row(p, k, "rpc", p.legs, Null), p)
    BY <2>1, <2>2, <2>3, WholeIsFair DEF Modest
  <2>5. QED
    BY <1>1, <2>2, <2>4 DEF FairIn
<1>4. CASE p.adapter # "staking"
  <2>1. legs(p) = NoLegs /\ NoLegs \in Legs /\ DOMAIN NoLegs = {}
    BY <1>4, LegsOf DEF NoLegs
  <2> DEFINE k == key(p)
  <2> HIDE DEF key, legs
  <2>2. /\ r \in RowsAbout(p, {r.value}) /\ r.source = "rpc" /\ r.legs = NoLegs /\ r.value = Null
    BY <1>1, <1>2, <2>1 DEF Row, RowsAbout
  <2>3. Fair(r, p)
    BY <1>4, <2>1, <2>2 DEF Fair
  <2>4. QED
    BY <2>3 DEF FairIn
<1>5. QED
  BY <1>3, <1>4

\* So has a scan that came back in part.
LEMMA ScansFair ==
  ASSUME NEW w \in SUBSET Held, NEW sc \in Scans(w), NEW r \in sc
  PROVE  FairIn(r, w)
<1>1. PICK had \in SUBSET w : sc = OwnedRows(had)
  BY DEF Scans
<1>2. FairIn(r, had)
  BY <1>1, OwnedFair
<1>3. QED
  BY <1>2 DEF FairIn

\* The key that positions of one pool share is the pool's.
LEMMA SharedKey ==
  ASSUME NEW p \in Held, NEW q \in Held, p # q, NEW k, k \in KeysOf(p), k \in KeysOf(q)
  PROVE  k = <<p.pool>> /\ q.pool = p.pool /\ p.pool # NoPool
<1>1. q.pool = p.pool /\ p.pool # NoPool
  BY KeysMeet DEF SameKind, SamePool
<1>2. k \in {<<p.id>>, <<p.pool>>} \/ \E x : k = <<p.id, x>>
  BY DEF KeysOf, PoolKey
<1>3. k \in {<<q.id>>, <<q.pool>>} \/ \E x : k = <<q.id, x>>
  BY DEF KeysOf, PoolKey
<1>4. p.id # q.id /\ p.id # q.pool
  BY HeldAssumption
<1>5. ASSUME k = <<p.id>> PROVE FALSE
  BY <1>3, <1>4, <1>5
<1>6. ASSUME NEW x, k = <<p.id, x>> PROVE FALSE
  <2>1. k # <<q.id>> /\ k # <<q.pool>>
    BY <1>6
  <2>2. PICK y : k = <<q.id, y>>
    BY <1>3, <2>1
  <2>3. QED
    BY <1>4, <1>6, <2>2
<1>7. QED
  BY <1>1, <1>2, <1>5, <1>6

\* What a fair row knows of its position.
LEMMA FairFields ==
  ASSUME NEW p, NEW r, Fair(r, p)
  PROVE  /\ r.of = p.id /\ r.key \in KeysOf(p) /\ r.source \in {"rpc", "native", "blockvision"}
         /\ r.legs \in Legs /\ r.protocol = p.protocol /\ r.cat = p.cat
BY DEF Fair, RowsAbout

\* Fair rows of one key make a fair one.
LEMMA FairClosed ==
  ASSUME NEW w \in SUBSET Held, NEW V
  PROVE  Closed({r \in RowsOn(w, V) : FairIn(r, w)})
<1> DEFINE T == {r \in RowsOn(w, V) : FairIn(r, w)}
<1> SUFFICES ASSUME NEW r \in T, NEW new \in T, r.key = new.key
             PROVE  Better(r, new) \in T /\ Better(r, new).key = new.key
  BY DEF Closed
<1>1. Better(r, new) \in RowsOn(w, V) /\ Better(r, new).key = new.key
  BY RowsJoin DEF Closed
<1>2. PICK p \in w : Fair(new, p)
  BY DEF FairIn
<1>3. PICK q \in w : Fair(r, q)
  BY DEF FairIn
<1> DEFINE k == new.key
           both == Spread(r.legs, new.legs)
           mixed == [new EXCEPT !.legs = both]
           b == Better(r, new)
<1>4. b \in {r, new} \/ (b = mixed /\ new.source # "rpc")
  BY DEF Better
<1>5. p \in Held /\ q \in Held /\ k \in KeysOf(p) /\ k \in KeysOf(q)
  BY <1>2, <1>3, FairFields
<1>6. both = [c \in DOMAIN r.legs \cup DOMAIN new.legs |-> IF c \in DOMAIN new.legs THEN new.legs[c] ELSE r.legs[c]]
  BY DEF Spread
<1>7. /\ \A c \in DOMAIN new.legs : new.legs[c] <= Share(p, k, c)
      /\ \A c \in DOMAIN r.legs : r.legs[c] <= Share(q, k, c)
  BY <1>2, <1>3 DEF Fair
<1>8. ASSUME p.pool # NoPool, k = <<p.pool>>, q.pool = p.pool, new.source # "rpc"
      PROVE  both = new.legs
  <2>1. DOMAIN q.legs = DOMAIN p.legs
    BY <1>5, <1>8, HeldAssumption
  <2>2. DOMAIN new.legs = DOMAIN p.legs
    BY <1>2, <1>8 DEF Fair
  <2>3. DOMAIN r.legs = {} \/ DOMAIN r.legs = DOMAIN q.legs
    BY <1>3, <1>8 DEF Fair, NoLegs
  <2>4. new.legs \in Legs
    BY <1>2, FairFields
  <2>5. PICK D : new.legs \in [D -> Int]
    BY <2>4 DEF Legs
  <2>6. DOMAIN r.legs \cup DOMAIN new.legs = DOMAIN new.legs
    BY <2>1, <2>2, <2>3
  <2>7. QED
    BY <1>6, <2>5, <2>6
<1>9. ASSUME p = q PROVE \A c \in DOMAIN both : both[c] <= Share(p, k, c)
  BY <1>6, <1>7, <1>9
<1>10. ASSUME p = q, p.adapter = "staking" PROVE both = p.legs
  <2>1. r.legs = p.legs /\ new.legs = p.legs
    BY <1>2, <1>3, <1>10 DEF Fair
  <2>2. p.legs \in [DOMAIN p.legs -> Int]
    BY <1>5, HeldAssumption
  <2>3. QED
    BY <1>6, <2>1, <2>2
<1>11. PICK D \in SUBSET Coins : new.legs \in [D -> Int]
  BY <1>2, FairFields DEF Legs
<1>12. PICK E \in SUBSET Coins : r.legs \in [E -> Int]
  BY <1>3, FairFields DEF Legs
<1>13. both \in Legs
  <2>1. both \in [E \cup D -> Int]
    BY <1>6, <1>11, <1>12
  <2>2. QED
    BY <2>1 DEF Legs
<1> HIDE DEF both
<1>14. ASSUME b = mixed, new.source # "rpc" PROVE FairIn(b, w)
  <2>1. CASE both = new.legs
    <3>1. mixed = new
      BY <1>2, <2>1 DEF Fair, RowsAbout
    <3>2. QED
      BY <1>14, <3>1
  <2>2. CASE both # new.legs
    <3>1. p = q
      <4>1. p # q => k = <<p.pool>> /\ q.pool = p.pool /\ p.pool # NoPool
        BY <1>5, SharedKey
      <4>2. QED
        BY <1>8, <1>14, <2>2, <4>1
    <3>2. /\ mixed \in RowsAbout(p, {mixed.value}) /\ mixed.key = k /\ mixed.legs = both
          /\ mixed.value = new.value /\ mixed.source = new.source
      BY <1>2, <1>13 DEF Fair, RowsAbout
    <3> HIDE DEF mixed
    <3>3. new.value = Null \/ (new.value \in Int /\ new.value <= Bound(p, k))
      BY <1>2 DEF Fair
    <3>4. p.pool # NoPool => k # <<p.pool>>
      BY <1>8, <1>14, <2>2, <3>1
    <3>5. Fair(mixed, p)
      BY <1>9, <1>10, <1>14, <3>1, <3>2, <3>3, <3>4 DEF Fair
    <3>6. QED
      BY <1>14, <3>5 DEF FairIn
  <2>3. QED
    BY <2>1, <2>2
<1>15. FairIn(b, w)
  <2> HIDE DEF mixed, b
  <2>1. QED
    BY <1>4, <1>14
<1>16. QED
  BY <1>1, <1>15

\* The merge of a wallet's fair rows.
LEMMA FairMerge ==
  ASSUME NEW w \in SUBSET Held, NEW A, NEW s \in Seq(A), \A r \in A : FairIn(r, w)
  PROVE  \A r \in Merge(s) : FairIn(r, w)
<1> DEFINE V == {r.value : r \in A}
           T == {r \in RowsOn(w, V) : FairIn(r, w)}
<1>1. ASSUME NEW r \in A PROVE r \in T
  <2>1. PICK p \in w : Fair(r, p)
    BY DEF FairIn
  <2>2. IsRow(r, w)
    BY <2>1 DEF Fair, IsRow, RowsOn
  <2>3. r \in RowsOn(w, V)
    BY <2>2, RowIs
  <2>4. QED
    BY <2>3
<1>2. Closed(T)
  BY FairClosed
<1>3. \A r \in T : FairIn(r, w)
  OBVIOUS
<1> HIDE DEF T
<1>4. s \in Seq(T)
  BY <1>1
<1>5. Merge(s) \in SUBSET T
  BY <1>2, <1>4, MergeIsWhole
<1>6. QED
  BY <1>3, <1>5

LEMMA CoinsFinite ==
  IsFiniteSet(Coins) /\ \A legs \in Legs : IsFiniteSet(DOMAIN legs) /\ legs \in [DOMAIN legs -> Int]
<1> DEFINE f == [p \in Held |-> DOMAIN p.legs]
           T == {f[p] : p \in Held}
<1>1. IsFiniteSet(Held) /\ \A p \in Held : IsFiniteSet(f[p])
  BY HeldAssumption
<1>2. Coins = UNION T
  BY DEF Coins
<1>3. \A d \in T : IsFiniteSet(d)
  BY <1>1
<1> HIDE DEF f
<1>4. IsFiniteSet(T)
  BY <1>1, FiniteImage
<1> HIDE DEF T
<1>5. IsFiniteSet(Coins)
  BY <1>2, <1>3, <1>4, FS_UNION
<1>6. ASSUME NEW legs \in Legs PROVE IsFiniteSet(DOMAIN legs) /\ legs \in [DOMAIN legs -> Int]
  <2>1. PICK D \in SUBSET Coins : legs \in [D -> Int]
    BY DEF Legs
  <2>2. IsFiniteSet(D)
    BY <1>5, FS_Subset
  <2>3. QED
    BY <2>1, <2>2
<1>7. QED
  BY <1>5, <1>6

LEMMA GainIs ==
  ASSUME NEW p \in Held, NEW c
  PROVE  Gain(p.legs, c) \in Int /\ 0 <= Gain(p.legs, c)
<1>1. c \in DOMAIN p.legs => p.legs[c] \in Int
  BY HeldAssumption
<1>2. QED
  BY <1>1 DEF Gain

LEMMA AssetsIs ==
  ASSUME NEW p \in Held
  PROVE  Assets(p.legs) \in Int /\ 0 <= Assets(p.legs)
<1>1. {} \in SUBSET DOMAIN p.legs
  OBVIOUS
<1>2. QED
  BY <1>1, PartNet

LEMMA BoundIs ==
  ASSUME NEW p \in Held, NEW k
  PROVE  Bound(p, k) \in Int /\ 0 <= Bound(p, k)
BY GainIs, AssetsIs DEF Bound

\* What the details of a fair row come to.
LEMMA FairNet ==
  ASSUME NEW p \in Held, NEW r, Fair(r, p), NEW S \in SUBSET DOMAIN r.legs
  PROVE  Net(Restrict(r.legs, S)) \in Int /\ Net(Restrict(r.legs, S)) <= Bound(p, r.key)
<1> DEFINE g == Restrict(r.legs, S)
           k == r.key
<1>1. r.legs \in Legs
  BY FairFields
<1>2. IsFiniteSet(DOMAIN r.legs) /\ \A c \in DOMAIN r.legs : r.legs[c] \in Int
  BY <1>1, CoinsFinite
<1>3. IsFiniteSet(S)
  BY <1>2, FS_Subset
<1>4. g \in [S -> Int] /\ \A c \in S : g[c] \in Int /\ g[c] <= Share(p, k, c)
  BY <1>2 DEF Restrict, Fair
<1> HIDE DEF g
<1>5. SumFunction(g) = Total(g, S)
  BY <1>4, TotalOfAll
<1>6. Total(g, S) \in Int
  <2>1. S \in SUBSET S
    OBVIOUS
  <2>2. QED
    BY <1>3, <1>4, <2>1, TotalSteps
<1>7. CASE k = MainKey(p) /\ WholeRow(p)
  <2>1. \A c \in S : g[c] <= Gain(p.legs, c)
    BY <1>4, <1>7 DEF Share
  <2> DEFINE D == DOMAIN p.legs
             legs == p.legs
  <2>2. IsFiniteSet(D) /\ legs \in [D -> Int]
    BY HeldAssumption
  <2>3. \A c \in S : g[c] <= Gain(legs, c)
    BY <2>1
  <2> HIDE DEF D, legs
  <2>4. SumFunction(g) <= Assets(legs)
    BY <1>3, <1>4, <2>2, <2>3, AssetsCover
  <2>5. QED
    BY <1>5, <1>6, <1>7, <2>4 DEF Bound, Net, g, legs
<1>8. CASE ~ (k = MainKey(p) /\ WholeRow(p))
  <2> DEFINE y == k[2]
             b == Bound(p, k)
  <2>1. ASSUME NEW c \in S PROVE g[c] <= IF c = y THEN b ELSE 0
    <3>1. CASE Split(p) /\ k = <<p.id, c>>
      <4>1. c = y /\ k = <<p.id, y>>
        BY <3>1
      <4>2. b = Gain(p.legs, c)
        BY <1>8, <3>1, <4>1 DEF Bound
      <4>3. QED
        BY <1>4, <1>8, <3>1, <4>1, <4>2 DEF Share
    <3>2. CASE ~ (Split(p) /\ k = <<p.id, c>>)
      <4>1. g[c] <= 0 /\ g[c] \in Int
        BY <1>4, <1>8, <3>2 DEF Share
      <4>2. b \in Int /\ 0 <= b
        BY BoundIs
      <4>3. QED
        BY <4>1, <4>2
    <3>3. QED
      BY <3>1, <3>2
  <2>2. b \in Int /\ 0 <= b
    BY BoundIs
  <2>3. \A c \in S : g[c] \in Int
    BY <1>4
  <2> HIDE DEF b, y
  <2>4. Total(g, S) <= b
    BY <1>3, <2>1, <2>2, <2>3, OneCounts
  <2>5. QED
    BY <1>5, <1>6, <2>4 DEF Net, g, b
<1>9. QED
  BY <1>7, <1>8

\* Prices leave a fair row fair.
LEMMA ValuedFair ==
  ASSUME NEW p \in Held, NEW r, Fair(r, p), NEW priced
  PROVE  Fair(Valued(r, priced), p)
<1> DEFINE S == DOMAIN r.legs \cap priced
           n == Net(PricedLegs(r.legs, priced))
           u == [r EXCEPT !.value = n]
<1>1. PricedLegs(r.legs, priced) = Restrict(r.legs, S) /\ S \in SUBSET DOMAIN r.legs
  BY DEF PricedLegs
<1>2. n \in Int /\ n <= Bound(p, r.key)
  <2> HIDE DEF S
  <2>1. QED
    BY <1>1, FairNet
<1>3. Valued(r, priced) \in {r, u}
  BY DEF Valued
<1> HIDE DEF n
<1>4. /\ u \in RowsAbout(p, {u.value}) /\ u.key = r.key /\ u.legs = r.legs /\ u.source = r.source
      /\ u.value = n
  BY DEF Fair, RowsAbout
<1> HIDE DEF u
<1>5. Fair(u, p)
  BY <1>2, <1>4 DEF Fair
<1>6. QED
  BY <1>3, <1>5

\* So do the decoders.
LEMMA DecodedFair ==
  ASSUME NEW w \in SUBSET Held, NEW r, FairIn(r, w), NEW up
  PROVE  FairIn(Decoded(r, w, up), w)
<1> DEFINE can == {p \in CetusDecodable(w) \cup TurbosDecodable(w) : p.id = r.of /\ Read(p) \in up}
           p == CHOOSE q \in can : TRUE
           value == IF Net(p.legs) = 0 THEN 0 ELSE Null
           one == Row(p, PoolKey(p), "native", p.legs, value)
           d == Decoded(r, w, up)
<1>1. d = r \/ (can # {} /\ d = one)
  BY DEF Decoded
<1>2. CASE can # {} /\ d = one
  <2>1. p \in can
    BY <1>2
  <2>2. p \in w /\ p \in Held /\ p.adapter \in {"cetus", "turbos"}
    BY <2>1 DEF CetusDecodable, TurbosDecodable, Of
  <2> HIDE DEF p
  <2>3. PoolKey(p) = MainKey(p) /\ WholeRow(p) /\ p.adapter # "staking"
    BY <2>2 DEF MainKey, WholeRow, Split
  <2>4. Modest(p.legs, p) /\ Sound(p, value)
    BY <2>2, ModestLegs, SoundValues
  <2> HIDE DEF value
  <2>5. Fair(one, p)
    BY <2>2, <2>3, <2>4, WholeIsFair DEF Modest
  <2> HIDE DEF one, d
  <2>6. QED
    BY <1>2, <2>2, <2>5 DEF FairIn, d
<1>3. CASE d = r
  BY <1>3
<1>4. QED
  BY <1>1, <1>2, <1>3

\* What a row adds to a wallet.
Plus(r) == IF r.value # Null /\ r.value > 0 THEN r.value ELSE 0

\* A position's rows, one per key and each of them fair, come to no more than it may.
LEMMA RowsBounded ==
  ASSUME NEW p \in Held, NEW R, IsFiniteSet(R), OnePerKey(R), \A r \in R : Fair(r, p),
         NEW f \in [R -> Int], \A r \in R : f[r] = Plus(r)
  PROVE  Total(f, R) \in Int /\ Total(f, R) <= AtMost(p)
<1> DEFINE most == Assets(p.legs)
           M == {r \in R : r.key = MainKey(p) /\ WholeRow(p)}
           C == {r \in R \ M : Split(p) /\ r.key = <<p.id, r.key[2]>> /\ r.key[2] \in DOMAIN p.legs}
           N == (R \ M) \ C
<1>1. most \in Int /\ 0 <= most
  BY AssetsIs
<1>2. \A r \in R : f[r] \in Int /\ 0 <= f[r] /\ f[r] <= Bound(p, r.key)
  <2> SUFFICES ASSUME NEW r \in R PROVE f[r] \in Int /\ 0 <= f[r] /\ f[r] <= Bound(p, r.key)
    OBVIOUS
  <2>1. r.value = Null \/ (r.value \in Int /\ r.value <= Bound(p, r.key))
    BY DEF Fair
  <2>2. Bound(p, r.key) \in Int /\ 0 <= Bound(p, r.key)
    BY BoundIs
  <2>3. f[r] = IF r.value # Null /\ r.value > 0 THEN r.value ELSE 0
    BY DEF Plus
  <2>4. QED
    BY <2>1, <2>2, <2>3
<1>3. \A r \in M : f[r] <= most
  BY <1>2 DEF Bound
<1>4. \A r \in C : f[r] <= Gain(p.legs, r.key[2])
  BY <1>2 DEF Bound
<1>5. \A r \in N : f[r] <= 0
  BY <1>2 DEF Bound, Gain
<1>6. /\ M \in SUBSET R /\ R \ M \in SUBSET R /\ C \in SUBSET (R \ M) /\ N = (R \ M) \ C
      /\ IsFiniteSet(M) /\ IsFiniteSet(R \ M) /\ IsFiniteSet(C) /\ IsFiniteSet(N)
  <2>1. M \in SUBSET R /\ R \ M \in SUBSET R /\ C \in SUBSET (R \ M) /\ C \in SUBSET R /\ N \in SUBSET R
    OBVIOUS
  <2> DEFINE L == R \ M
  <2>2. IsFiniteSet(M) /\ IsFiniteSet(L) /\ IsFiniteSet(C) /\ IsFiniteSet(N)
    <3> HIDE DEF M, C, N, L
    <3>1. L \in SUBSET R
      BY <2>1 DEF L
    <3>2. QED
      BY <2>1, <3>1, FS_Subset
  <2>3. QED
    BY <2>1, <2>2
<1>7. \A r, q \in M : r = q
  BY DEF OnePerKey
<1>8. M # {} => ~ Split(p) \/ Doubled(p)
  BY DEF WholeRow
<1>9. C # {} => Split(p)
  OBVIOUS
<1>10. \A r \in C : r.key = <<p.id, r.key[2]>> /\ r.key[2] \in DOMAIN p.legs
  OBVIOUS
<1>11. Total(f, M) <= most
  <2>1. PICK m : \A r \in M : r = m
    <3> HIDE DEF M
    <3>1. QED
      BY <1>7
  <2>2. \A r \in M : f[r] \in Int /\ f[r] <= IF r = m THEN most ELSE 0
    BY <1>2, <1>3, <2>1
  <2> HIDE DEF M, most
  <2>3. QED
    BY <1>1, <1>6, <2>2, OneCounts
<1> HIDE DEF M, C, N
<1>12. Total(f, C) <= most
  <2> DEFINE D == DOMAIN p.legs
             h == [r \in C |-> r.key[2]]
             G(c) == {r \in C : h[r] = c}
             t == [c \in D |-> Total(f, G(c))]
  <2>1. IsFiniteSet(D) /\ p.legs \in [D -> Int]
    BY HeldAssumption
  <2>2. \A r \in C : h[r] \in D /\ f[r] \in Int
    BY <1>2, <1>6, <1>10
  <2>3. Total(f, C) = Total(t, D)
    <3> HIDE DEF h, D
    <3>1. Total(f, C) = Total([c \in D |-> Total(f, {r \in C : h[r] = c})], D)
      BY <1>6, <2>1, <2>2, TotalGroups
    <3>2. QED
      BY <3>1
  <2>4. ASSUME NEW c \in D PROVE Total(f, G(c)) \in Int /\ Total(f, G(c)) <= Gain(p.legs, c)
    <3>1. G(c) \in SUBSET C /\ IsFiniteSet(G(c))
      <4>1. G(c) \in SUBSET C
        OBVIOUS
      <4> HIDE DEF G
      <4>2. QED
        BY <1>6, <4>1, FS_Subset
    <3>2. \A r \in G(c) : r.key = <<p.id, c>> /\ r \in R
      BY <1>6, <1>10
    <3>3. \A r, q \in G(c) : r = q
      BY <3>2 DEF OnePerKey
    <3>4. \A r \in G(c) : f[r] <= Gain(p.legs, c)
      BY <1>4
    <3> DEFINE b == Gain(p.legs, c)
    <3>5. b \in Int /\ 0 <= b
      BY GainIs
    <3>6. PICK m : \A r \in G(c) : r = m
      <4> HIDE DEF G
      <4>1. QED
        BY <3>3
    <3>7. \A r \in G(c) : f[r] \in Int /\ f[r] <= IF r = m THEN b ELSE 0
      BY <2>2, <3>4, <3>6
    <3> HIDE DEF G, b
    <3>8. Total(f, G(c)) <= b
      BY <3>1, <3>5, <3>7, OneCounts
    <3>9. Total(f, G(c)) \in Int
      <4>1. G(c) \in SUBSET G(c)
        OBVIOUS
      <4>2. \A r \in G(c) : f[r] \in Int
        BY <3>7
      <4>3. QED
        BY <3>1, <4>1, <4>2, TotalSteps
    <3>10. QED
      BY <3>8, <3>9 DEF b
  <2> HIDE DEF G, h
  <2>5. t \in [D -> Int] /\ \A c \in D : t[c] <= Gain(p.legs, c)
    BY <2>4
  <2> HIDE DEF t, D
  <2> DEFINE legs == p.legs
  <2>6. legs \in [D -> Int] /\ \A c \in D : t[c] <= Gain(legs, c)
    BY <2>1, <2>5
  <2> HIDE DEF legs
  <2>7. SumFunction(t) <= Assets(legs)
    BY <2>1, <2>5, <2>6, AssetsCover
  <2>8. SumFunction(t) = Total(t, D)
    BY <2>5, TotalOfAll
  <2>9. QED
    BY <2>3, <2>7, <2>8 DEF legs
<1>13. Total(f, N) <= 0
  <2>1. \A r \in N : f[r] \in Int /\ f[r] <= 0
    BY <1>2, <1>5, <1>6
  <2>2. QED
    BY <1>6, <2>1, NoneCounts
<1> DEFINE L == R \ M
<1>14. Total(f, R) = Total(f, M) + Total(f, L) /\ Total(f, L) = Total(f, C) + Total(f, N)
  <2>1. \A r \in R : f[r] \in Int
    BY <1>2
  <2>2. Total(f, R) = Total(f, M) + Total(f, R \ M)
    BY <1>6, <2>1, TotalBoth
  <2>3. IsFiniteSet(L) /\ (\A r \in L : f[r] \in Int) /\ C \in SUBSET L /\ N = L \ C
    BY <1>6, <2>1
  <2> HIDE DEF L
  <2>4. Total(f, L) = Total(f, C) + Total(f, L \ C)
    BY <2>3, TotalBoth
  <2>5. QED
    BY <2>2, <2>3, <2>4 DEF L
<1>15. \A T \in SUBSET R : Total(f, T) \in Int
  <2>1. \A r \in R : f[r] \in Int
    BY <1>2
  <2>2. QED
    BY <2>1, TotalSteps
<1>16. Total(f, M) \in Int /\ Total(f, C) \in Int /\ Total(f, N) \in Int /\ Total(f, R) \in Int
  <2>1. C \in SUBSET R /\ N \in SUBSET R /\ R \in SUBSET R
    BY <1>6
  <2>2. QED
    BY <1>6, <1>15, <2>1
<1>17. Total(f, {}) = 0
  <2>1. \A r \in R : f[r] \in Int
    BY <1>2
  <2>2. QED
    BY <2>1, TotalSteps
<1> HIDE DEF L, most
<1>18. CASE Doubled(p)
  <2>1. AtMost(p) = 2 * most
    BY <1>18 DEF AtMost, most
  <2>2. QED
    BY <1>1, <1>11, <1>12, <1>13, <1>14, <1>16, <2>1
<1>19. CASE ~ Doubled(p)
  <2>1. AtMost(p) = most
    BY <1>19 DEF AtMost, most
  <2>2. M = {} \/ C = {}
    BY <1>8, <1>9, <1>19
  <2>3. QED
    BY <1>1, <1>11, <1>12, <1>13, <1>14, <1>16, <1>17, <2>1, <2>2
<1>20. QED
  BY <1>16, <1>18, <1>19

\* The rows that have a value are worth no more than what the rows add.
LEMMA ValueBelow ==
  ASSUME NEW R, IsFiniteSet(R), \A r \in R : r.value = Null \/ r.value \in Int,
         NEW f \in [R -> Int], \A r \in R : f[r] = Plus(r)
  PROVE  ValueOf(R) \in Int /\ ValueOf(R) <= Total(f, R)
<1> DEFINE N == {r \in R : r.value # Null}
           v == [r \in N |-> r.value]
<1>1. N \in SUBSET R /\ v \in [N -> Int] /\ ValueOf(R) = SumFunction(v)
  BY DEF ValueOf
<1>2. \A r \in N : v[r] \in Int /\ f[r] \in Int /\ v[r] <= f[r]
  BY DEF Plus
<1>3. \A r \in R : f[r] \in Int /\ 0 <= f[r]
  BY DEF Plus
<1> HIDE DEF N, v
<1>4. IsFiniteSet(N)
  BY <1>1, FS_Subset
<1>5. SumFunction(v) = Total(v, N)
  BY <1>1, TotalOfAll
<1>6. Total(v, N) <= Total(f, N)
  BY <1>2, <1>4, TotalMono
<1>7. Total(f, N) <= Total(f, R) /\ Total(f, R) \in Int
  BY <1>1, <1>3, TotalNat
<1>8. Total(v, N) \in Int /\ Total(f, N) \in Int
  <2>1. N \in SUBSET N /\ (\A r \in N : v[r] \in Int) /\ (\A r \in N : f[r] \in Int)
    BY <1>2
  <2>2. QED
    BY <1>4, <2>1, TotalSteps
<1>9. QED
  BY <1>1, <1>5, <1>6, <1>7, <1>8

\* What rows add together.
PlusOf(R) == SumFunction([r \in R |-> Plus(r)])

\* Values that can be added up.
Typed(R) == IsFiniteSet(R) /\ \A r \in R : r.value = Null \/ r.value \in Int

LEMMA PlusIs ==
  ASSUME NEW R, Typed(R)
  PROVE  /\ [r \in R |-> Plus(r)] \in [R -> Int] /\ \A r \in R : Plus(r) \in Int /\ 0 <= Plus(r)
         /\ PlusOf(R) = Total([r \in R |-> Plus(r)], R) /\ PlusOf(R) \in Int /\ 0 <= PlusOf(R)
         /\ ValueOf(R) \in Int /\ ValueOf(R) <= PlusOf(R)
<1> DEFINE f == [r \in R |-> Plus(r)]
<1>1. \A r \in R : Plus(r) \in Int /\ 0 <= Plus(r)
  BY DEF Typed, Plus
<1>2. f \in [R -> Int] /\ \A r \in R : f[r] = Plus(r)
  BY <1>1
<1>3. PlusOf(R) = SumFunction(f)
  BY DEF PlusOf
<1> HIDE DEF f
<1>4. SumFunction(f) = Total(f, R)
  BY <1>2, TotalOfAll
<1>5. Total(f, R) \in Int /\ 0 <= Total(f, R)
  <2>1. IsFiniteSet(R) /\ \A r \in R : f[r] \in Int /\ 0 <= f[r]
    BY <1>1, <1>2 DEF Typed
  <2>2. QED
    BY <2>1, TotalNat
<1>6. ValueOf(R) \in Int /\ ValueOf(R) <= Total(f, R)
  BY <1>2, ValueBelow DEF Typed
<1>7. QED
  BY <1>1, <1>2, <1>3, <1>4, <1>5, <1>6 DEF f

\* A position that no more is said of than it may be worth.
Paid(p, R) == Typed(R) /\ PlusOf(R) <= AtMost(p)

LEMMA FairIsPaid ==
  ASSUME NEW p \in Held, NEW R, IsFiniteSet(R), OnePerKey(R), \A r \in R : Fair(r, p)
  PROVE  Paid(p, R)
<1> DEFINE f == [r \in R |-> Plus(r)]
<1>1. Typed(R)
  BY DEF Typed, Fair
<1>2. f \in [R -> Int] /\ PlusOf(R) = Total(f, R) /\ \A r \in R : f[r] = Plus(r)
  BY <1>1, PlusIs
<1> HIDE DEF f
<1>3. Total(f, R) <= AtMost(p)
  BY <1>2, RowsBounded
<1>4. QED
  BY <1>1, <1>2, <1>3 DEF Paid

\* A row that is about a position and fair is fair to it.
LEMMA FairTo ==
  ASSUME NEW w \in SUBSET Held, NEW p \in w, NEW r, FairIn(r, w), r.of = p.id
  PROVE  Fair(r, p)
<1>1. PICK q \in w : Fair(r, q)
  BY DEF FairIn
<1>2. q.id = p.id /\ q \in Held /\ p \in Held
  BY <1>1, FairFields
<1>3. q = p
  BY <1>2, HeldAssumption
<1>4. QED
  BY <1>1, <1>3

\* The rows of a wallet, position by position.
LEMMA FairPays ==
  ASSUME NEW w \in SUBSET Held, NEW rs, IsFiniteSet(rs), OnePerKey(rs), \A r \in rs : FairIn(r, w),
         NEW p \in w
  PROVE  Paid(p, {r \in rs : r.of = p.id})
<1> DEFINE R == {r \in rs : r.of = p.id}
<1>1. \A r \in R : Fair(r, p)
  BY FairTo
<1>2. OnePerKey(R) /\ R \in SUBSET rs /\ p \in Held
  BY DEF OnePerKey
<1> HIDE DEF R
<1>3. IsFiniteSet(R)
  BY <1>2, FS_Subset
<1>4. QED
  BY <1>1, <1>2, <1>3, FairIsPaid DEF R

\* Rows that LPs without a value are given the holdings for, or nothing.
LEMMA EstimatedFair ==
  ASSUME NEW w \in SUBSET Held, NEW rs, IsFiniteSet(rs), \A r \in rs : FairIn(r, w),
         NEW live \in {Null, Holdings}
  PROVE  /\ IsFiniteSet(Estimated(rs, live))
         /\ \A n \in Estimated(rs, live) : \E r \in rs : n.of = r.of /\ n.protocol = r.protocol
         /\ \A p \in w :
              \/ \A n \in Estimated(rs, live) : n.of = p.id => Fair(n, p)
              \/ p.cat = "amm_lp" /\ \A n \in Estimated(rs, live) : n.of = p.id => n.value = Holdings
<1> DEFINE lp == {r \in rs : r.cat = "amm_lp"}
           closed == {r \in lp : r.value = Null /\ ShownClosed(r)}
           open == {r \in lp : r.value = Null} \ closed
           guess == IF lp = open THEN live ELSE Null
           new == Estimated(rs, live)
           e(r) == IF r \in closed THEN [r EXCEPT !.value = 0]
                   ELSE IF r \in open THEN [r EXCEPT !.value = guess] ELSE r
           f == [r \in rs |-> e(r)]
<1>1. /\ new = (rs \ (open \cup closed)) \cup {[r EXCEPT !.value = 0] : r \in closed}
                 \cup {[r EXCEPT !.value = guess] : r \in open}
      /\ open \subseteq rs /\ closed \subseteq rs /\ open \cap closed = {}
  BY DEF Estimated
<1>2. /\ \A r \in open : r.value = Null /\ r.cat = "amm_lp"
      /\ \A r \in rs : r.cat = "amm_lp" => r \in lp
      /\ guess = Null \/ (lp = open /\ guess = Holdings)
  OBVIOUS
<1> HIDE DEF lp, open, closed, guess, new
<1>3. new = {e(r) : r \in rs}
  <2>1. \A r \in rs : e(r) \in new
    BY <1>1
  <2>2. \A n \in new : \E r \in rs : n = e(r)
    BY <1>1
  <2> HIDE DEF e
  <2>3. QED
    BY <2>1, <2>2
<1>4. IsFiniteSet(new)
  <2>1. new = {f[r] : r \in rs}
    BY <1>3
  <2> HIDE DEF f
  <2>2. QED
    BY <2>1, FiniteImage
<1>5. ASSUME NEW p \in w, NEW r \in rs, r.of = p.id
      PROVE  /\ e(r).of = p.id /\ e(r).protocol = p.protocol
             /\ r \notin open \/ guess = Null => Fair(e(r), p)
             /\ r \in open => e(r).value = guess
             /\ r.cat = p.cat
  <2>1. Fair(r, p) /\ p \in Held
    BY <1>5, FairTo
  <2>2. r \in RowsAbout(p, {r.value})
    BY <2>1 DEF Fair
  <2>3. CASE r \in closed
    <3> DEFINE u == [r EXCEPT !.value = 0]
    <3>1. e(r) = u /\ r \notin open
      BY <1>1, <2>3
    <3>2. /\ u \in RowsAbout(p, {u.value}) /\ u.key = r.key /\ u.legs = r.legs /\ u.source = r.source
          /\ u.value = 0 /\ u.of = p.id /\ u.protocol = p.protocol /\ r.cat = p.cat
      BY <2>2 DEF RowsAbout
    <3>3. Bound(p, r.key) \in Int /\ 0 <= Bound(p, r.key)
      BY <2>1, BoundIs
    <3> HIDE DEF u, e
    <3>4. Fair(u, p)
      BY <2>1, <3>2, <3>3 DEF Fair
    <3>5. QED
      BY <3>1, <3>2, <3>4
  <2>4. CASE r \in open
    <3> DEFINE u == [r EXCEPT !.value = guess]
    <3>1. e(r) = u /\ r.value = Null
      BY <1>1, <1>2, <2>4
    <3>2. u.of = p.id /\ u.protocol = p.protocol /\ r.cat = p.cat /\ u.value = guess /\ (guess = Null => u = r)
      BY <2>2, <3>1 DEF RowsAbout
    <3> HIDE DEF u, e
    <3>3. QED
      BY <2>1, <2>4, <3>1, <3>2
  <2>5. CASE r \notin open /\ r \notin closed
    BY <1>5, <2>1, <2>5, FairFields
  <2>6. QED
    BY <2>3, <2>4, <2>5
<1>6. ASSUME NEW n \in new PROVE \E r \in rs : n.of = r.of /\ n.protocol = r.protocol /\ n = e(r)
  <2>1. PICK r \in rs : n = e(r)
    BY <1>3
  <2>2. PICK p \in w : r.of = p.id /\ r.protocol = p.protocol
    BY FairFields DEF FairIn
  <2>3. e(r).of = p.id /\ e(r).protocol = p.protocol
    BY <1>5, <2>2
  <2> HIDE DEF e
  <2>4. QED
    BY <2>1, <2>2, <2>3
<1> HIDE DEF e
<1>7. ASSUME NEW p \in w
      PROVE  \/ \A n \in new : n.of = p.id => Fair(n, p)
             \/ p.cat = "amm_lp" /\ \A n \in new : n.of = p.id => n.value = Holdings
  <2>1. CASE guess = Null \/ p.cat # "amm_lp"
    <3> SUFFICES ASSUME NEW n \in new, n.of = p.id PROVE Fair(n, p)
      OBVIOUS
    <3>1. PICK r \in rs : n.of = r.of /\ n = e(r)
      BY <1>6
    <3>2. r \in open => guess = Null
      BY <1>2, <1>5, <2>1, <3>1
    <3>3. QED
      BY <1>5, <3>1, <3>2
  <2>2. CASE guess # Null /\ p.cat = "amm_lp"
    <3> SUFFICES ASSUME NEW n \in new, n.of = p.id PROVE n.value = Holdings
      BY <2>2
    <3>1. PICK r \in rs : n.of = r.of /\ n = e(r)
      BY <1>6
    <3>2. r.cat = "amm_lp" /\ r \in open
      BY <1>2, <1>5, <2>2, <3>1
    <3>3. e(r).value = guess /\ guess = Holdings
      BY <1>2, <1>5, <2>2, <3>1, <3>2
    <3>4. QED
      BY <3>1, <3>3
  <2>3. QED
    BY <2>1, <2>2
<1>8. QED
  BY <1>4, <1>6, <1>7 DEF new

\* An adapter's answer, and the rows of each phase, are fair; in the end no
\* position is paid for more than it may be, unless the holdings stand in.
AnswersOK == \A a \in DOMAIN list : list[a] = Pending \/ \A r \in list[a] : FairIn(r, wallet)

RowsFair == phase # "paid" => \A r \in merged : FairIn(r, wallet)

AllPaid ==
  phase = "paid" =>
    /\ IsFiniteSet(merged)
    /\ \A r \in merged : \E p \in wallet : r.of = p.id /\ r.protocol = p.protocol
    /\ \A p \in wallet : Paid(p, RowsFor(p)) \/ StoodIn(p)

FairInv == ResolveInv /\ AnswersOK /\ RowsFair /\ AllPaid

LEMMA FairStarts ==
  AnalysisInit => FairInv
<1> SUFFICES ASSUME AnalysisInit PROVE FairInv
  OBVIOUS
<1>1. ResolveInv
  BY ResolveStarts
<1>2. phase = "fetching" /\ merged = {} /\ \A a \in DOMAIN list : list[a] = Pending
  BY DEF AnalysisInit, OverviewInit, ResolveInit
<1>3. QED
  BY <1>1, <1>2 DEF FairInv, AnswersOK, RowsFair, AllPaid

LEMMA CollectFair ==
  ASSUME FairInv, Collect
  PROVE  AnswersOK' /\ RowsFair' /\ AllPaid'
<1> USE DEF Collect
<1> DEFINE A == scanned \cup UNION {list[a] : a \in DOMAIN list}
<1>1. /\ wallet \in SUBSET Held /\ wallet' = wallet /\ list' = list
      /\ phase' = "merged" /\ merged' = Merge(Lists)
      /\ scanned \in Scans(wallet) /\ AreRows(scanned, wallet)
      /\ \A a \in DOMAIN list : AreRows(list[a], wallet)
      /\ \A a \in DOMAIN list : \A r \in list[a] : FairIn(r, wallet)
  BY ScansAre DEF FairInv, AnswersOK, ResolveInv, ScanKept, ListsOK
<1>2. \A r \in A : FairIn(r, wallet)
  BY <1>1, ScansFair
<1>3. scanned \in SUBSET A /\ \A a \in DOMAIN list : list[a] \in SUBSET A
  OBVIOUS
<1> HIDE DEF A, Collect
<1>4. Lists \in Seq(A)
  BY <1>1, <1>3, ListsAre DEF AreRows
<1>5. \A r \in Merge(Lists) : FairIn(r, wallet)
  BY <1>1, <1>2, <1>4, FairMerge
<1>6. QED
  BY <1>1, <1>5 DEF AnswersOK, RowsFair, AllPaid

LEMMA RetryFair ==
  ASSUME FairInv, RetryBlockvision
  PROVE  AnswersOK' /\ RowsFair' /\ AllPaid'
<1>1. /\ wallet \in SUBSET Held /\ wallet' = wallet /\ list' = list
      /\ phase = "merged" /\ phase' = "retried" /\ AreRows(merged, wallet)
      /\ (\A r \in merged : FairIn(r, wallet)) /\ AnswersOK
  BY DEF FairInv, RowsFair, ResolveInv, RowsKept, RetryBlockvision
<1>2. ASSUME NEW up, NEW priced,
             merged' = Merge(SetToSeq(merged) \o SetToSeq(BlockvisionRows(Of(wallet, "cetus"), up, priced)))
      PROVE  \A r \in merged' : FairIn(r, wallet)
  <2> DEFINE w == Of(wallet, "cetus")
             B == BlockvisionRows(w, up, priced)
             m == merged
             A == m \cup B
             s == SetToSeq(m)
             t == SetToSeq(B)
  <2>1. w \in SUBSET wallet /\ w \in SUBSET Held
    BY <1>1, WalletParts
  <2> HIDE DEF w
  <2>2. AreRows(B, w) /\ \A r \in B : FairIn(r, w)
    BY <2>1, BlockvisionRowsAre, BlockvisionFair
  <2>3. \A r : FairIn(r, w) => FairIn(r, wallet)
    BY <2>1 DEF FairIn
  <2> HIDE DEF B, m
  <2>4. \A r \in A : FairIn(r, wallet)
    BY <1>1, <2>2, <2>3 DEF m
  <2>5. s \in Seq(m) /\ t \in Seq(B)
    BY <1>1, <2>2, SetToSeqIs DEF AreRows, m
  <2> HIDE DEF s, t
  <2>6. s \in Seq(A) /\ t \in Seq(A)
    BY <2>5
  <2> HIDE DEF A
  <2> DEFINE both == s \o t
  <2>7. both \in Seq(A)
    BY <2>6
  <2> HIDE DEF both
  <2>8. merged' = Merge(both)
    BY <1>2 DEF both, s, t, m, B, w
  <2>9. \A r \in Merge(both) : FairIn(r, wallet)
    BY <1>1, <2>4, <2>7, FairMerge
  <2>10. QED
    BY <2>8, <2>9
<1>3. \A r \in merged' : FairIn(r, wallet)
  <2>1. CASE merged' = merged
    BY <1>1, <2>1
  <2>2. CASE merged' # merged
    BY <1>2, <2>2 DEF RetryBlockvision
  <2>3. QED
    BY <2>1, <2>2
<1>4. QED
  BY <1>1, <1>3 DEF AnswersOK, RowsFair, AllPaid

LEMMA DecodeFair ==
  ASSUME FairInv, Decode
  PROVE  AnswersOK' /\ RowsFair' /\ AllPaid'
<1>1. /\ wallet \in SUBSET Held /\ wallet' = wallet /\ list' = list
      /\ phase = "retried" /\ phase' = "decoded" /\ AreRows(merged, wallet)
      /\ (\A r \in merged : FairIn(r, wallet)) /\ AnswersOK
  BY DEF FairInv, RowsFair, ResolveInv, RowsKept, Decode
<1>2. PICK up : merged' = DropWeakLp(Merge(SetToSeq({Decoded(r, wallet, up) : r \in merged})))
  BY DEF Decode
<1> DEFINE A == {Decoded(r, wallet, up) : r \in merged}
           s == SetToSeq(A)
           all == Merge(s)
<1>3. AreRows(A, wallet)
  BY <1>1, DecodedIs
<1>4. \A r \in A : FairIn(r, wallet)
  BY <1>1, DecodedFair
<1>5. merged' = DropWeakLp(all)
  BY <1>2
<1> HIDE DEF A
<1>6. s \in Seq(A)
  BY <1>3, SetToSeqIs DEF AreRows
<1> HIDE DEF s
<1>7. \A r \in all : FairIn(r, wallet)
  BY <1>1, <1>4, <1>6, FairMerge
<1> HIDE DEF all
<1>8. \A r \in merged' : FairIn(r, wallet)
  BY <1>5, <1>7 DEF DropWeakLp
<1>9. QED
  BY <1>1, <1>8 DEF AnswersOK, RowsFair, AllPaid

LEMMA PriceFair ==
  ASSUME FairInv, Price \/ Catch
  PROVE  AnswersOK' /\ RowsFair' /\ AllPaid'
<1>1. /\ wallet \in SUBSET Held /\ wallet' = wallet /\ list' = list
      /\ phase # "paid" /\ phase' = "answered"
      /\ (\A r \in merged : FairIn(r, wallet)) /\ AnswersOK
  BY DEF FairInv, RowsFair, ResolveInv, Price, Catch
<1>2. \A r \in merged' : FairIn(r, wallet)
  <2>1. CASE Catch
    BY <1>1, <2>1 DEF Catch, DropWeakLending
  <2>2. CASE Price
    <3>1. PICK priced : merged' = DropWeakLending({Valued(r, priced) : r \in merged})
      BY <2>2 DEF Price
    <3>2. \A r \in merged : FairIn(Valued(r, priced), wallet)
      <4> SUFFICES ASSUME NEW r \in merged PROVE FairIn(Valued(r, priced), wallet)
        OBVIOUS
      <4>1. PICK p \in wallet : Fair(r, p)
        BY <1>1 DEF FairIn
      <4>2. p \in Held
        BY <1>1
      <4>3. Fair(Valued(r, priced), p)
        BY <4>1, <4>2, ValuedFair
      <4>4. QED
        BY <4>3 DEF FairIn
    <3>3. QED
      BY <3>1, <3>2 DEF DropWeakLending
  <2>3. QED
    BY <2>1, <2>2
<1>3. QED
  BY <1>1, <1>2 DEF AnswersOK, RowsFair, AllPaid

LEMMA AnswerFair ==
  ASSUME FairInv, NEW a \in DOMAIN list, Answer(a) \/ TimeOut(a)
  PROVE  AnswersOK' /\ RowsFair' /\ AllPaid'
<1>1. /\ wallet \in SUBSET Held /\ wallet' = wallet /\ merged' = merged
      /\ phase = "fetching" /\ phase' = phase /\ AnswersOK /\ RowsFair
  BY DEF FairInv, ResolveInv, Answer, TimeOut
<1>2. PICK rs : list' = [list EXCEPT ![a] = rs] /\ \A r \in rs : FairIn(r, wallet)
  BY <1>1, AnswersFair DEF Answer, TimeOut
<1>3. AnswersOK'
  BY <1>1, <1>2 DEF AnswersOK
<1>4. QED
  BY <1>1, <1>3 DEF RowsFair, AllPaid

LEMMA OtherFair ==
  ASSUME FairInv,
         \/ OwnedAnswers
         \/ UNCHANGED <<wallet, scanned, list, merged, phase>>
  PROVE  AnswersOK' /\ RowsFair' /\ AllPaid'
<1>1. CASE OwnedAnswers
  BY <1>1 DEF OwnedAnswers, FairInv, AnswersOK, RowsFair, AllPaid
<1>2. CASE UNCHANGED <<wallet, scanned, list, merged, phase>>
  BY <1>2 DEF FairInv, AnswersOK, RowsFair, AllPaid, RowsFor, StoodIn
<1>3. QED
  BY <1>1, <1>2

\* A single row of a sound value.
LEMMA OneIsPaid ==
  ASSUME NEW p \in Held, NEW r, Sound(p, r.value)
  PROVE  Paid(p, {r})
<1> DEFINE R == {r}
           most == Assets(p.legs)
           f == [q \in R |-> Plus(q)]
<1>1. most \in Int /\ 0 <= most /\ most <= AtMost(p)
  BY AssetsIs DEF AtMost
<1>2. Typed(R)
  BY FS_Singleton DEF Typed, Sound
<1>3. \A q \in R : f[q] \in Int /\ f[q] <= IF q = r THEN most ELSE 0
  BY <1>1 DEF Sound, Plus
<1> HIDE DEF R, most
<1>4. PlusOf(R) = Total(f, R) /\ PlusOf(R) \in Int /\ IsFiniteSet(R)
  BY <1>2, PlusIs DEF Typed
<1> HIDE DEF f
<1>5. Total(f, R) <= most
  BY <1>1, <1>3, <1>4, OneCounts
<1>6. AtMost(p) \in Int
  BY AssetsIs DEF AtMost
<1>7. QED
  BY <1>1, <1>2, <1>4, <1>5, <1>6 DEF Paid, R

\* The payload: what it makes of the rows there were, and of the stakes it adds.
LEMMA PayloadFair ==
  ASSUME FairInv, Payload
  PROVE  AnswersOK' /\ RowsFair' /\ AllPaid'
<1>1. /\ wallet \in SUBSET Held /\ wallet' = wallet /\ list' = list
      /\ phase' = "paid" /\ AreRows(merged, wallet) /\ OnePerKey(merged) /\ OnePerKey(merged')
      /\ (\A r \in merged : FairIn(r, wallet)) /\ AnswersOK
  BY PayloadOK DEF FairInv, RowsFair, ResolveInv, RowsKept, Payload
<1>2. PICK indexed \in SUBSET Of(wallet, "staking"), price \in BOOLEAN, live \in {Null, Holdings} :
        merged' = Estimated(merged, live) \cup
          {Row(p, <<p.id, "indexer">>, "indexer", NoLegs, IF price THEN Net(p.legs) ELSE Null) :
             p \in {q \in indexed : \A r \in merged : r.of # q.id}}
  BY DEF Payload
<1> DEFINE value(p) == IF price THEN Net(p.legs) ELSE Null
           P == {q \in indexed : \A r \in merged : r.of # q.id}
           row(p) == Row(p, <<p.id, "indexer">>, "indexer", NoLegs, value(p))
           new == Estimated(merged, live)
           added == {row(p) : p \in P}
           f == [p \in P |-> row(p)]
<1>3. /\ IsFiniteSet(new) /\ \A n \in new : \E r \in merged : n.of = r.of /\ n.protocol = r.protocol
      /\ \A p \in wallet :
           \/ \A n \in new : n.of = p.id => Fair(n, p)
           \/ p.cat = "amm_lp" /\ \A n \in new : n.of = p.id => n.value = Holdings
  BY <1>1, EstimatedFair DEF AreRows
<1>4. merged' = new \cup added
  BY <1>2
<1>5. P \in SUBSET wallet /\ \A p \in P, r \in merged : r.of # p.id
  BY <1>2 DEF Of
<1>6. \A p \in P : row(p).of = p.id /\ row(p).protocol = p.protocol /\ row(p).value = value(p)
  BY DEF Row
<1>7. \A p \in P : Sound(p, value(p))
  BY <1>1, <1>5, SoundValues
<1>8. IsFiniteSet(added)
  <2>1. IsFiniteSet(wallet)
    BY <1>1, FS_Subset, HeldAssumption
  <2>2. IsFiniteSet(P)
    BY <1>5, <2>1, FS_Subset
  <2>3. added = {f[p] : p \in P}
    OBVIOUS
  <2> HIDE DEF f, added, P
  <2>4. QED
    BY <2>2, <2>3, FiniteImage
<1> HIDE DEF new, value, P, row
<1>9. IsFiniteSet(merged')
  BY <1>3, <1>4, <1>8, FS_Union
<1>10. \A r \in merged' : \E p \in wallet : r.of = p.id /\ r.protocol = p.protocol
  <2>1. \A r \in merged : \E p \in wallet : r.of = p.id /\ r.protocol = p.protocol
    BY <1>1, FairFields DEF FairIn
  <2>2. QED
    BY <1>3, <1>4, <1>5, <1>6, <2>1
<1>11. ASSUME NEW p \in wallet
       PROVE  Paid(p, {r \in merged' : r.of = p.id})
              \/ (p.cat = "amm_lp" /\ \A r \in {q \in merged' : q.of = p.id} : r.value = Holdings)
  <2> DEFINE R == {r \in merged' : r.of = p.id}
  <2>0. p \in Held
    BY <1>1
  <2>1. CASE p \in P
    <3>1. \A n \in new : n.of # p.id
      BY <1>3, <1>5, <2>1
    <3>2. \A q \in P : row(q).of = p.id => q = p
      BY <1>1, <1>5, <1>6, <2>0, HeldAssumption
    <3>3. R = {row(p)}
      BY <1>4, <1>6, <2>1, <3>1, <3>2
    <3>4. Sound(p, row(p).value)
      BY <1>6, <1>7, <2>1
    <3>5. Paid(p, {row(p)})
      BY <2>0, <3>4, OneIsPaid
    <3>6. QED
      BY <3>3, <3>5
  <2>2. CASE p \notin P
    <3>1. \A r \in R : r \in new
      BY <1>1, <1>4, <1>5, <1>6, <2>0, <2>2, HeldAssumption
    <3>2. CASE \A n \in new : n.of = p.id => Fair(n, p)
      <4>1. \A r \in R : Fair(r, p)
        BY <3>1, <3>2
      <4>2. OnePerKey(R) /\ R \in SUBSET merged'
        BY <1>1 DEF OnePerKey
      <4> HIDE DEF R
      <4>3. IsFiniteSet(R)
        BY <1>9, <4>2, FS_Subset
      <4>4. Paid(p, R)
        BY <2>0, <4>1, <4>2, <4>3, FairIsPaid
      <4>5. QED
        BY <4>4 DEF R
    <3>3. CASE p.cat = "amm_lp" /\ \A n \in new : n.of = p.id => n.value = Holdings
      BY <3>1, <3>3
    <3>4. QED
      BY <1>3, <3>2, <3>3
  <2>3. QED
    BY <2>1, <2>2
<1>12. \A p \in wallet' : Paid(p, RowsFor(p)') \/ StoodIn(p)'
  BY <1>1, <1>11 DEF RowsFor, StoodIn
<1>13. AllPaid'
  BY <1>1, <1>9, <1>10, <1>12 DEF AllPaid
<1>14. QED
  BY <1>1, <1>13 DEF AnswersOK, RowsFair

LEMMA FairKeeps ==
  FairInv /\ [AnalysisNext]_analysisVars => FairInv'
<1> SUFFICES ASSUME FairInv, [AnalysisNext]_analysisVars PROVE FairInv'
  OBVIOUS
<1>0. ResolveInv'
  BY ResolveKeeps DEF FairInv
<1>1. CASE Balances \/ ShowWallet \/ Summarise \/ Analyse \/ UNCHANGED allVars \/ UNCHANGED analysisVars
  BY <1>0, <1>1, OtherFair DEF Balances, ShowWallet, Summarise, Analyse, analysisVars, allVars, resolveVars, FairInv
<1>2. CASE Serve
  BY <1>0, <1>2, PayloadFair DEF Serve, FairInv
<1>3. CASE Resolving
  BY <1>0, <1>3, CollectFair, RetryFair, DecodeFair, PriceFair DEF Resolving, FairInv
<1>4. CASE OwnedAnswers
  BY <1>0, <1>4, OtherFair DEF FairInv
<1>5. CASE \E a \in DOMAIN list : Answer(a) \/ TimeOut(a)
  BY <1>0, <1>5, AnswerFair DEF FairInv
<1>6. QED
  BY <1>1, <1>2, <1>3, <1>4, <1>5 DEF AnalysisNext, OverviewNext

LEMMA FairInvariant ==
  AnalysisSpec => []FairInv
BY FairStarts, FairKeeps, PTL DEF AnalysisSpec

\* What a position's rows come to once there is an answer.
LEMMA RepliedPays ==
  ASSUME FairInv, Replied, NEW p \in wallet
  PROVE  p \in Held /\ (Paid(p, RowsFor(p)) \/ StoodIn(p))
<1>1. wallet \in SUBSET Held /\ OnePerKey(merged)
  BY DEF FairInv, ResolveInv, RowsKept
<1>2. CASE phase = "paid"
  BY <1>1, <1>2 DEF FairInv, AllPaid
<1>3. CASE phase # "paid"
  <2>1. IsFiniteSet(merged) /\ \A r \in merged : FairIn(r, wallet)
    BY <1>3 DEF FairInv, RowsFair, ResolveInv, RowsKept, AreRows
  <2>2. Paid(p, {r \in merged : r.of = p.id})
    BY <1>1, <2>1, FairPays
  <2>3. QED
    BY <1>1, <2>2 DEF RowsFor
<1>4. QED
  BY <1>2, <1>3

LEMMA AnswersBounded ==
  FairInv => NeverOverstated
<1> SUFFICES ASSUME FairInv, Replied, NEW p \in wallet, Paid(p, RowsFor(p)) PROVE Worth(p) <= AtMost(p)
  BY RepliedPays DEF NeverOverstated
<1> DEFINE R == RowsFor(p)
<1>1. p \in Held
  BY RepliedPays
<1>2. AtMost(p) \in Int
  BY <1>1, AssetsIs DEF AtMost
<1>3. Typed(R) /\ PlusOf(R) <= AtMost(p)
  BY DEF Paid
<1> HIDE DEF R
<1>4. ValueOf(R) \in Int /\ ValueOf(R) <= PlusOf(R) /\ PlusOf(R) \in Int
  BY <1>3, PlusIs
<1>5. QED
  BY <1>2, <1>3, <1>4 DEF Worth, R

\* NeverOverstated of any wallet: whatever sources report a position, the owned scan in
\* full, in part or not at all, in whatever order mergePositions meets their rows, and
\* whatever is not read or has no price, the answer of resolveDefiPositions and the payload
\* say no more of it than its assets come to.
THEOREM NothingOverstated ==
  AnalysisSpec => []NeverOverstated
BY AnswersBounded, FairInvariant, PTL

-----------------------------------------------------------------------------
(* Overview: every coin and every position is counted once.                *)

\* Powers of ten up to n.
Powers(g, n) == g \in [0..n -> Nat] /\ g[0] = 1 /\ \A i \in 1..n : g[i] = 10 * g[i - 1]

LEMMA UnitsPower ==
  ASSUME NEW n \in Nat
  PROVE  \E g : Powers(g, n) /\ Units(n) = g[n]
<1> DEFINE S == Nat
           one == 1
           Step(r) == 10 * r
           step == [i \in 1..n |-> [r \in S |-> Step(r)]]
           F(g) == [i \in 0..n |-> IF i = 0 THEN one ELSE Step(g[i - 1])]
           Def(g) == g = F(g)
<1>1. step \in [1..n -> [S -> S]] /\ one \in S
  OBVIOUS
<1>2. PICK g \in [0..n -> S] : g[0] = one /\ \A i \in 1..n : g[i] = step[i][g[i - 1]]
  <2> HIDE DEF step, S, one
  <2>1. \E g : Recursive(g, n, S, one, step)
    BY <1>1, Recursion
  <2>2. QED
    BY <2>1 DEF Recursive
<1>3. \A i \in 1..n : g[i] = Step(g[i - 1])
  <2> SUFFICES ASSUME NEW i \in 1..n PROVE g[i] = Step(g[i - 1])
    OBVIOUS
  <2>1. g[i - 1] \in S
    <3>1. i - 1 \in 0..n
      OBVIOUS
    <3>2. QED
      BY <1>2, <3>1
  <2> HIDE DEF Step, S
  <2>2. QED
    BY <1>2, <2>1
<1>4. Def(g)
  <2> HIDE DEF Step
  <2>1. \A i \in 0..n : g[i] = F(g)[i]
    BY <1>2, <1>3
  <2>2. QED
    BY <1>2, <2>1
<1>5. Units(n) = (CHOOSE h : Def(h))[n]
  BY DEF Units
<1>6. Def(CHOOSE h : Def(h))
  BY <1>4
<1> DEFINE f == CHOOSE h : Def(h)
<1>7. f = F(f)
  BY <1>6
<1> HIDE DEF f, Step, one
<1>8. f[0] = one /\ \A i \in 1..n : f[i] = Step(f[i - 1])
  BY <1>7
<1>9. f \in [0..n -> S]
  <2> DEFINE P == {i \in Nat : i \in 0..n => f[i] \in S}
  <2>1. 0 \in P
    BY <1>1, <1>8
  <2>2. ASSUME NEW i \in Nat, i \in P PROVE i + 1 \in P
    <3> SUFFICES ASSUME i + 1 \in 1..n PROVE f[i + 1] \in S
      OBVIOUS
    <3>1. f[i] \in S /\ f[i + 1] = Step(f[i])
      BY <1>8, <2>2
    <3>2. QED
      BY <3>1 DEF Step
  <2>3. \A i \in 0..n : f[i] \in S
    <3> HIDE DEF P
    <3>1. Nat \subseteq P
      BY <2>1, <2>2, NatInd
    <3>2. QED
      BY <3>1 DEF P
  <2>4. f = [i \in 0..n |-> f[i]]
    BY <1>7
  <2>5. QED
    BY <2>3, <2>4
<1>10. Powers(f, n)
  BY <1>8, <1>9 DEF Powers, Step, one
<1>11. QED
  BY <1>5, <1>10 DEF f

\* More decimals, more units.
LEMMA UnitsGrow ==
  ASSUME NEW m \in Nat, NEW n \in Nat
  PROVE  Units(n) \in Nat /\ 1 <= Units(n) /\ (m <= n => Units(m) <= Units(n))
<1>1. PICK g : Powers(g, n) /\ Units(n) = g[n]
  BY UnitsPower
<1>2. PICK h : Powers(h, m) /\ Units(m) = h[m]
  BY UnitsPower
<1> DEFINE P == {i \in Nat : i \in 0..n =>
                   /\ 1 <= g[i] /\ (i <= m => g[i] = h[i]) /\ (m <= i => h[m] <= g[i])}
<1>3. /\ g \in [0..n -> Nat] /\ g[0] = 1 /\ (\A i \in 1..n : g[i] = 10 * g[i - 1])
      /\ h \in [0..m -> Nat] /\ h[0] = 1 /\ (\A i \in 1..m : h[i] = 10 * h[i - 1])
  BY <1>1, <1>2 DEF Powers
<1>4. 0 \in P
  BY <1>3
<1>5. ASSUME NEW i \in Nat, i \in P PROVE i + 1 \in P
  <2> SUFFICES ASSUME i + 1 \in 0..n
               PROVE  /\ 1 <= g[i + 1] /\ (i + 1 <= m => g[i + 1] = h[i + 1])
                      /\ (m <= i + 1 => h[m] <= g[i + 1])
    OBVIOUS
  <2>1. i \in 0..n /\ i + 1 \in 1..n /\ (i + 1) - 1 = i /\ (m <= i + 1 => m <= i \/ m = i + 1)
    OBVIOUS
  <2>2. g[i + 1] = 10 * g[i] /\ g[i] \in Nat /\ 1 <= g[i] /\ (i <= m => g[i] = h[i]) /\ (m <= i => h[m] <= g[i])
    <3>1. g[i + 1] = 10 * g[(i + 1) - 1] /\ g[i] \in Nat
      BY <1>3, <2>1
    <3>2. QED
      BY <1>5, <2>1, <3>1
  <2>3. i + 1 <= m => h[i + 1] = 10 * h[i]
    <3>1. i + 1 <= m => h[i + 1] = 10 * h[(i + 1) - 1]
      BY <1>3
    <3>2. QED
      BY <2>1, <3>1
  <2>4. h[m] \in Nat
    BY <1>3
  <2>5. i + 1 <= m => g[i + 1] = h[i + 1]
    BY <2>2, <2>3
  <2>6. m <= i => h[m] <= g[i + 1]
    BY <2>2, <2>4
  <2>7. m = i + 1 => h[m] <= g[i + 1]
    BY <2>2, <2>5, <2>4
  <2>8. QED
    BY <2>1, <2>2, <2>5, <2>6, <2>7
<1>6. n \in P
  <2> HIDE DEF P
  <2>1. QED
    BY <1>4, <1>5, NatInd
<1>7. QED
  BY <1>1, <1>2, <1>3, <1>6

\* What is left of n in a scale that is no smaller: no more than n, and all of
\* it in the same one.
LEMMA Scaled ==
  ASSUME NEW n \in Nat, NEW u \in Nat, NEW v \in Nat, 1 <= u, u <= v
  PROVE  (n * u) \div v \in Nat /\ (n * u) \div v <= n /\ (u = v => (n * u) \div v = n)
<1> DEFINE q == (n * u) \div v
           a == n * u
<1>1. a \in Nat /\ a <= n * v
  OBVIOUS
<1>2. q \in Int /\ v * q <= a /\ a < v * q + v
  OBVIOUS
<1> HIDE DEF q
<1>3. 0 <= q
  <2>1. CASE q <= -1
    <3>1. v * q <= - v
      BY <1>2, <2>1
    <3>2. QED
      BY <1>1, <1>2, <3>1
  <2>2. QED
    BY <1>2, <2>1
<1>4. q <= n
  <2>1. CASE n + 1 <= q
    <3>1. v * (n + 1) <= v * q
      BY <1>2, <2>1
    <3>2. v * (n + 1) = v * n + v
      OBVIOUS
    <3>3. QED
      BY <1>1, <1>2, <3>1, <3>2
  <2>2. QED
    BY <1>2, <2>1
<1>5. u = v => n <= q
  <2>1. CASE q + 1 <= n /\ u = v
    <3>1. v * (q + 1) <= v * n
      BY <1>2, <2>1
    <3>2. v * (q + 1) = v * q + v
      BY <1>2
    <3>3. QED
      BY <1>2, <2>1, <3>1, <3>2
  <2>2. QED
    BY <1>2, <2>1
<1>6. QED
  BY <1>2, <1>3, <1>4, <1>5 DEF q

\* Where nothing is owed, assets are what there is.
LEMMA NoDebts ==
  ASSUME NEW p \in Held, \A c \in DOMAIN p.legs : p.legs[c] >= 0
  PROVE  Net(p.legs) \in Nat /\ Assets(p.legs) = Net(p.legs)
<1> DEFINE D == DOMAIN p.legs
           legs == p.legs
           P == {c \in D : legs[c] > 0}
           N == D \ P
<1>1. IsFiniteSet(D) /\ legs \in [D -> Int] /\ \A c \in D : legs[c] >= 0
  BY HeldAssumption
<1>2. Assets(legs) = Total(legs, P)
  BY <1>1 DEF Assets, Total
<1>3. P \in SUBSET D /\ (\A c \in N : legs[c] <= 0) /\ N \in SUBSET D
  BY <1>1
<1> HIDE DEF D, legs, P
<1>4. Net(legs) = Total(legs, D)
  BY <1>1, TotalOfAll DEF Net
<1>5. \A c \in D : legs[c] \in Int /\ 0 <= legs[c]
  BY <1>1
<1>6. Total(legs, D) \in Int /\ 0 <= Total(legs, D) /\ 0 <= Total(legs, N) /\ Total(legs, N) \in Int
      /\ Total(legs, P) \in Int
  <2>1. \A T \in SUBSET D : Total(legs, T) \in Int
    BY <1>1, <1>5, TotalSteps
  <2> HIDE DEF N
  <2>2. QED
    BY <1>1, <1>3, <1>5, <2>1, TotalNat
<1>7. Total(legs, D) = Total(legs, P) + Total(legs, N)
  BY <1>1, <1>3, <1>5, TotalBoth
<1>8. Total(legs, N) <= 0
  <2>1. IsFiniteSet(N) /\ \A c \in N : legs[c] \in Int /\ legs[c] <= 0
    BY <1>1, <1>3, <1>5, FS_Subset
  <2> HIDE DEF N
  <2>2. QED
    BY <2>1, NoneCounts
<1>9. QED
  BY <1>2, <1>4, <1>6, <1>7, <1>8 DEF legs

\* Nothing is owed on what there is a receipt for.
LEMMA OwedNothing ==
  ASSUME NEW p \in Held, p.adapter = "staking" \/ HasReceipt(p)
  PROVE  Net(p.legs) \in Nat /\ Assets(p.legs) = Net(p.legs)
BY NoDebts, PurseAssumption

\* What getAllBalances has.
LEMMA CoinsAre ==
  ASSUME wallet \in SUBSET Held
  PROVE  /\ DOMAIN InWallet = ReceiptsOf(wallet) \cup DOMAIN Purse /\ IsFiniteSet(DOMAIN InWallet)
         /\ \A c \in DOMAIN InWallet : InWallet[c] \in Nat /\ Decimals[c] \in Nat /\ Default[c] \in Nat
         /\ \A c \in DOMAIN Purse : InWallet[c] = Purse[c]
         /\ \A c \in ReceiptsOf(wallet) \ DOMAIN Purse :
              \E p \in wallet : HasReceipt(p) /\ p.receipt = c /\ InWallet[c] = Net(p.legs)
<1> DEFINE R == ReceiptsOf(wallet)
           P == DOMAIN Purse
           w == {q \in wallet : HasReceipt(q)}
           f == [p \in w |-> p.receipt]
           chosen(c) == Net((CHOOSE p \in wallet : p.receipt = c).legs)
<1>1. /\ DOMAIN InWallet = R \cup P
      /\ \A c \in P : InWallet[c] = Purse[c]
      /\ \A c \in R \ P : InWallet[c] = chosen(c)
  BY DEF InWallet, Spread
<1>2. R = {f[p] : p \in w} /\ w \in SUBSET Held
  BY DEF ReceiptsOf
<1>3. IsFiniteSet(P) /\ \A c \in P : Purse[c] \in Nat
  BY PurseAssumption
<1>4. IsFiniteSet(R)
  <2>1. IsFiniteSet(w)
    BY <1>2, HeldAssumption, FS_Subset
  <2> HIDE DEF f, w, R
  <2>2. QED
    BY <1>2, <2>1, FiniteImage
<1>5. IsFiniteSet(R \cup P)
  BY <1>3, <1>4, FS_Union
<1>6. ASSUME NEW c \in R \ P
      PROVE  \E p \in wallet : HasReceipt(p) /\ p.receipt = c /\ InWallet[c] = Net(p.legs)
  <2>1. c # NoPool /\ \E p \in wallet : p.receipt = c
    BY DEF ReceiptsOf, HasReceipt
  <2> DEFINE p == CHOOSE q \in wallet : q.receipt = c
  <2>2. p \in wallet /\ p.receipt = c
    BY <2>1
  <2>3. InWallet[c] = Net(p.legs)
    BY <1>1
  <2> HIDE DEF p
  <2>4. QED
    BY <2>1, <2>2, <2>3 DEF HasReceipt
<1>7. \A c \in R \ P : InWallet[c] \in Nat
  BY <1>6, OwedNothing
<1>8. R \subseteq ReceiptsOf(Held)
  BY DEF ReceiptsOf
<1>9. \A c \in R \cup P : Decimals[c] \in Nat /\ Default[c] \in Nat
  BY <1>8, PurseAssumption
<1> HIDE DEF R, P, chosen
<1>10. \A c \in R \cup P : InWallet[c] \in Nat
  BY <1>1, <1>3, <1>7
<1>11. QED
  BY <1>1, <1>5, <1>6, <1>9, <1>10 DEF R, P

\* The receipts that are counted.
LEMMA ReceiptsCover ==
  ASSUME wallet \in SUBSET Held, NEW hidden,
         NEW B \in SUBSET ((ReceiptsOf(wallet) \ DOMAIN Purse) \ hidden)
  PROVE  /\ InReceipts(hidden) \in Nat /\ InReceipts(hidden) <= InReceipts({})
         /\ Total(InWallet, B) <= InReceipts(hidden)
<1> DEFINE Q == {q \in wallet : HasReceipt(q) /\ q.receipt \notin hidden}
           f == [p \in Q |-> Net(p.legs)]
           h == [p \in Q |-> p.receipt]
           R == {h[p] : p \in Q}
           G(c) == {p \in Q : h[p] = c}
           t == [c \in R |-> Total(f, G(c))]
           A == {q \in wallet : HasReceipt(q) /\ q.receipt \notin {}}
           a == [p \in A |-> Net(p.legs)]
<1>1. /\ f \in [Q -> Int] /\ a \in [A -> Int]
      /\ \A p \in Q : f[p] \in Int /\ 0 <= f[p] /\ h[p] \in R
      /\ \A p \in A : a[p] \in Int /\ 0 <= a[p]
      /\ Q \in SUBSET A /\ A \in SUBSET wallet /\ Q \in SUBSET wallet /\ \A p \in Q : a[p] = f[p]
  BY OwedNothing
<1>2. IsFiniteSet(Q) /\ IsFiniteSet(A)
  BY <1>1, HeldAssumption, FS_Subset
<1>3. IsFiniteSet(R)
  <2> HIDE DEF h, Q
  <2>1. QED
    BY <1>2, FiniteImage
<1>4. \A c \in R : G(c) \in SUBSET Q
  OBVIOUS
<1>5. InReceipts(hidden) = SumFunction(f) /\ InReceipts({}) = SumFunction(a)
  BY DEF InReceipts
<1>6. \A c \in B : \E p \in Q : p \in G(c) /\ f[p] = InWallet[c]
  <2> SUFFICES ASSUME NEW c \in B PROVE \E p \in Q : p \in G(c) /\ f[p] = InWallet[c]
    OBVIOUS
  <2>1. PICK p \in wallet : HasReceipt(p) /\ p.receipt = c /\ InWallet[c] = Net(p.legs)
    BY CoinsAre
  <2>2. QED
    BY <2>1
<1>7. \A c \in R : t[c] = Total(f, G(c))
  OBVIOUS
<1>8. B \in SUBSET R
  <2>1. \A c \in B : \E p \in Q : h[p] = c
    BY <1>6
  <2>2. QED
    BY <2>1
<1>9. Total(f, Q) = Total(t, R)
  <2> HIDE DEF h, Q, f, R
  <2>1. \A p \in Q : f[p] \in Int /\ h[p] \in R
    BY <1>1
  <2>2. Total(f, Q) = Total([c \in R |-> Total(f, {x \in Q : h[x] = c})], R)
    BY <1>2, <1>3, <2>1, TotalGroups
  <2>3. QED
    BY <2>2
<1> HIDE DEF G, t, R, h, f, Q, A, a
<1>10. SumFunction(f) = Total(f, Q) /\ SumFunction(a) = Total(a, A)
  BY <1>1, TotalOfAll
<1>11. \A T \in SUBSET Q : Total(f, T) \in Int /\ 0 <= Total(f, T)
  <2>1. \A p \in Q : f[p] \in Int /\ 0 <= f[p]
    BY <1>1
  <2>2. QED
    BY <1>2, <2>1, TotalNat, TotalSteps
<1>12. Total(f, Q) \in Nat /\ Total(f, Q) <= Total(a, A)
  <2>1. Total(a, Q) <= Total(a, A)
    BY <1>1, <1>2, TotalNat
  <2>2. Total(a, Q) = Total(f, Q)
    BY <1>1, TotalSame
  <2>3. Q \in SUBSET Q
    OBVIOUS
  <2>4. QED
    BY <1>11, <2>1, <2>2, <2>3
<1>13. \A c \in R : t[c] \in Int /\ 0 <= t[c]
  BY <1>4, <1>7, <1>11
<1>14. \A c \in B : InWallet[c] \in Int /\ InWallet[c] <= t[c]
  <2> SUFFICES ASSUME NEW c \in B PROVE InWallet[c] \in Int /\ InWallet[c] <= t[c]
    OBVIOUS
  <2>1. PICK p \in Q : p \in G(c) /\ f[p] = InWallet[c]
    BY <1>6
  <2> DEFINE g == G(c)
             u == g \ {p}
  <2>2. c \in R /\ g \in SUBSET Q /\ p \in g /\ u \in SUBSET Q
    BY <1>4, <1>8, <2>1
  <2> HIDE DEF g
  <2>3. Total(f, g) = f[p] + Total(f, g \ {p})
    BY <1>1, <1>2, <2>2, TotalSteps
  <2> HIDE DEF u
  <2>4. 0 <= Total(f, u) /\ Total(f, u) \in Int
    BY <1>11, <2>2
  <2>5. f[p] \in Int /\ t[c] = Total(f, g)
    BY <1>1, <1>7, <2>2 DEF g
  <2>6. QED
    BY <2>1, <2>3, <2>4, <2>5 DEF u
<1>15. Total(InWallet, B) <= Total(t, B)
  <2>1. IsFiniteSet(B)
    BY <1>3, <1>8, FS_Subset
  <2>2. \A c \in B : t[c] \in Int
    BY <1>8, <1>13
  <2> DEFINE bag == InWallet
  <2>3. \A c \in B : bag[c] \in Int /\ bag[c] <= t[c]
    BY <1>14
  <2> HIDE DEF bag
  <2>4. Total(bag, B) <= Total(t, B)
    BY <2>1, <2>2, <2>3, TotalMono
  <2>5. QED
    BY <2>4 DEF bag
<1>16. Total(t, B) <= Total(t, R) /\ Total(t, B) \in Int
  BY <1>3, <1>8, <1>13, TotalNat, TotalSteps
<1>17. Total(InWallet, B) \in Int
  <2> DEFINE bag == InWallet
  <2>1. IsFiniteSet(B) /\ B \in SUBSET B
    BY <1>3, <1>8, FS_Subset
  <2>2. \A c \in B : bag[c] \in Int
    BY <1>14
  <2> HIDE DEF bag
  <2>3. Total(bag, B) \in Int
    BY <2>1, <2>2, TotalSteps
  <2>4. QED
    BY <2>3 DEF bag
<1>18. QED
  BY <1>5, <1>9, <1>10, <1>12, <1>15, <1>16, <1>17

\* Some of the wallet's balances.
Part(b) == DOMAIN b \subseteq DOMAIN InWallet /\ \A c \in DOMAIN b : b[c] = InWallet[c]

\* Without a guess that is too low, a balance is shown for no more than it is.
LEMMA UsdIs ==
  ASSUME wallet \in SUBSET Held, NEW c \in DOMAIN InWallet, NEW n \in Nat, NEW known
  PROVE  Usd(c, n, known) \in Nat /\ (~ Inflated => Usd(c, n, known) <= n)
<1> DEFINE u == Units(Decimals[c])
           v == Units(Dec(c, known))
<1>1. Decimals[c] \in Nat /\ Default[c] \in Nat /\ (~ Inflated => Decimals[c] <= Default[c])
  BY CoinsAre DEF Inflated
<1>2. Dec(c, known) \in Nat /\ (~ Inflated => Decimals[c] <= Dec(c, known))
  BY <1>1 DEF Dec
<1>3. u \in Nat /\ 1 <= u /\ v \in Nat /\ 1 <= v /\ (~ Inflated => u <= v)
  BY <1>1, <1>2, UnitsGrow
<1>4. Usd(c, n, known) = (n * u) \div v
  BY DEF Usd
<1> HIDE DEF u, v
<1>5. (n * u) \div v \in Nat
  <2> DEFINE a == n * u
  <2>1. a \in Nat
    BY <1>3
  <2> HIDE DEF a
  <2>2. a \div v \in Int /\ a < v * (a \div v) + v
    BY <1>3, <2>1
  <2>3. 0 <= a \div v
    BY <1>3, <2>1, <2>2
  <2>4. QED
    BY <2>2, <2>3 DEF a
<1>6. ~ Inflated => (n * u) \div v <= n
  BY <1>3, Scaled
<1>7. QED
  BY <1>4, <1>5, <1>6

\* Values for some of the coins.
LEMMA CoinsCover ==
  ASSUME wallet \in SUBSET Held, NEW hidden \in SUBSET ReceiptsOf(wallet),
         NEW D \in SUBSET (DOMAIN InWallet \ hidden), NEW l \in [D -> Nat]
  PROVE  /\ SumFunction(l) \in Nat /\ Plain \in Nat /\ InReceipts(hidden) \in Nat
         /\ InReceipts(hidden) <= InReceipts({}) /\ InReceipts({}) \in Nat
         /\ (\A c \in D : l[c] <= InWallet[c]) => SumFunction(l) <= Plain + InReceipts(hidden)
<1> DEFINE P == DOMAIN Purse
           A == D \cap P
           B == D \ P
           all == DOMAIN InWallet
           bag == InWallet
<1>1. /\ DOMAIN bag = ReceiptsOf(wallet) \cup P /\ IsFiniteSet(all) /\ \A c \in all : bag[c] \in Nat
      /\ \A c \in P : bag[c] = Purse[c]
  BY CoinsAre
<1>2. IsFiniteSet(P) /\ Purse \in [P -> Nat]
  BY PurseAssumption
<1>3. D \in SUBSET all /\ A \in SUBSET D /\ B \in SUBSET D /\ D \ A = B /\ A \in SUBSET P
  OBVIOUS
<1>4. B \in SUBSET ((ReceiptsOf(wallet) \ P) \ hidden)
  BY <1>1
<1>5. /\ InReceipts(hidden) \in Nat /\ InReceipts(hidden) <= InReceipts({})
      /\ Total(bag, B) <= InReceipts(hidden)
  BY <1>4, ReceiptsCover
<1>6. InReceipts({}) \in Nat
  <2>1. {} \in SUBSET ((ReceiptsOf(wallet) \ P) \ {})
    OBVIOUS
  <2>2. QED
    BY <2>1, ReceiptsCover
<1> HIDE DEF A, B, all, bag, P
<1>7. IsFiniteSet(D) /\ IsFiniteSet(A) /\ IsFiniteSet(B)
  <2>1. IsFiniteSet(D)
    BY <1>1, <1>3, FS_Subset
  <2>2. QED
    BY <1>3, <2>1, FS_Subset
<1>8. Plain = Total(Purse, P) /\ Plain \in Nat
  <2>1. Purse \in [P -> Int] /\ \A c \in P : Purse[c] \in Int /\ 0 <= Purse[c]
    BY <1>2
  <2>2. Plain = Total(Purse, P)
    BY <2>1, TotalOfAll DEF Plain
  <2>3. Total(Purse, P) \in Int /\ 0 <= Total(Purse, P)
    BY <1>2, <2>1, TotalNat
  <2>4. QED
    BY <2>2, <2>3
<1>9. SumFunction(l) = Total(l, D) /\ Total(l, D) \in Nat
  <2>1. l \in [D -> Int] /\ \A c \in D : l[c] \in Int /\ 0 <= l[c]
    OBVIOUS
  <2>2. SumFunction(l) = Total(l, D)
    BY <2>1, TotalOfAll
  <2>3. Total(l, D) \in Int /\ 0 <= Total(l, D)
    BY <1>7, <2>1, TotalNat
  <2>4. QED
    BY <2>2, <2>3
<1>10. ASSUME \A c \in D : l[c] <= bag[c] PROVE Total(l, D) <= Plain + InReceipts(hidden)
  <2>1. \A c \in D : l[c] \in Int /\ bag[c] \in Int /\ 0 <= bag[c] /\ l[c] <= bag[c]
    BY <1>1, <1>3, <1>10
  <2>2. Total(l, D) <= Total(bag, D)
    BY <1>7, <2>1, TotalMono
  <2>3. Total(bag, D) = Total(bag, A) + Total(bag, B)
    BY <1>3, <1>7, <2>1, TotalBoth
  <2>4. Total(bag, A) <= Plain /\ Total(bag, A) \in Int
    <3>1. Total(bag, A) = Total(Purse, A)
      <4>1. \A c \in A : bag[c] = Purse[c]
        BY <1>1, <1>3
      <4>2. QED
        BY <4>1, TotalSame
    <3>2. \A c \in P : Purse[c] \in Int /\ 0 <= Purse[c]
      BY <1>2
    <3>3. Total(Purse, A) <= Total(Purse, P)
      BY <1>2, <1>3, <3>2, TotalNat
    <3>4. Total(Purse, A) \in Int
      BY <1>2, <1>3, <3>2, TotalSteps
    <3>5. QED
      BY <1>8, <3>1, <3>3, <3>4
  <2>5. Total(bag, B) \in Int /\ Total(bag, D) \in Int
    <3>1. \A c \in D : bag[c] \in Int
      BY <2>1
    <3>2. D \in SUBSET D
      OBVIOUS
    <3>3. QED
      BY <1>3, <1>7, <3>1, <3>2, TotalSteps
  <2>6. QED
    BY <1>5, <1>8, <1>9, <2>2, <2>3, <2>4, <2>5
<1>11. QED
  BY <1>5, <1>6, <1>8, <1>9, <1>10 DEF bag

\* A list of coins that is built of the balances.
LEMMA UsdOfIs ==
  ASSUME wallet \in SUBSET Held, NEW b, Part(b), NEW priced, NEW known
  PROVE  /\ UsdOf(b, priced, known) \in [DOMAIN b \cap priced -> Nat]
         /\ DOMAIN b \cap priced \in SUBSET DOMAIN InWallet
         /\ ~ Inflated => \A c \in DOMAIN b \cap priced : UsdOf(b, priced, known)[c] <= InWallet[c]
<1> DEFINE D == DOMAIN b \cap priced
           usd(c) == Usd(c, b[c], known)
<1>1. \A c \in D : c \in DOMAIN InWallet /\ b[c] = InWallet[c] /\ InWallet[c] \in Nat
  BY CoinsAre DEF Part
<1>2. \A c \in D : usd(c) \in Nat /\ (~ Inflated => usd(c) <= InWallet[c])
  BY <1>1, UsdIs
<1>3. UsdOf(b, priced, known) = [c \in D |-> usd(c)]
  BY DEF UsdOf
<1>4. D \in SUBSET DOMAIN InWallet
  BY <1>1
<1> HIDE DEF usd
<1>5. QED
  BY <1>2, <1>3, <1>4

\* Balances are handed on as they are, in part or not at all.
LEMMA PartsAre ==
  ASSUME NEW b, NEW S
  PROVE  /\ Part(InWallet) /\ Part(NoLegs)
         /\ S \subseteq DOMAIN InWallet => Part(Restrict(InWallet, S))
         /\ Part(b) => Part(Restrict(b, DOMAIN b \ S)) /\ DOMAIN Restrict(b, DOMAIN b \ S) = DOMAIN b \ S
<1> DEFINE bag == InWallet
           D == DOMAIN bag
<1>1. Part(b) <=> DOMAIN b \subseteq D /\ \A c \in DOMAIN b : b[c] = bag[c]
  BY DEF Part
<1>2. DOMAIN NoLegs = {}
  BY DEF NoLegs
<1>3. DOMAIN Restrict(bag, S) = S /\ \A c \in S : Restrict(bag, S)[c] = bag[c]
  BY DEF Restrict
<1>4. DOMAIN Restrict(b, DOMAIN b \ S) = DOMAIN b \ S
      /\ \A c \in DOMAIN b \ S : Restrict(b, DOMAIN b \ S)[c] = b[c]
  BY DEF Restrict
<1> HIDE DEF bag
<1>5. QED
  BY <1>1, <1>2, <1>3, <1>4 DEF Part, bag

\* What rows add is what they add position by position.
LEMMA RowsCover ==
  ASSUME NEW w \in SUBSET Held, NEW rs, Typed(rs), \A r \in rs : \E p \in w : r.of = p.id,
         NEW b \in [w -> Int], \A p \in w : PlusOf({r \in rs : r.of = p.id}) <= b[p]
  PROVE  PlusOf(rs) <= SumFunction(b) /\ SumFunction(b) \in Int
<1> DEFINE f == [r \in rs |-> Plus(r)]
           owner(r) == CHOOSE p \in w : r.of = p.id
           h == [r \in rs |-> owner(r)]
           G(p) == {r \in rs : h[r] = p}
           t == [p \in w |-> Total(f, G(p))]
<1>1. IsFiniteSet(w) /\ IsFiniteSet(rs)
  BY HeldAssumption, FS_Subset DEF Typed
<1>2. \A r \in rs : h[r] \in w /\ r.of = h[r].id
  <2> SUFFICES ASSUME NEW r \in rs PROVE owner(r) \in w /\ r.of = owner(r).id
    OBVIOUS
  <2>1. \E p \in w : r.of = p.id
    OBVIOUS
  <2>2. QED
    BY <2>1
<1> HIDE DEF owner
<1>3. \A p \in w : G(p) = {r \in rs : r.of = p.id}
  <2> SUFFICES ASSUME NEW p \in w, NEW r \in rs PROVE h[r] = p <=> r.of = p.id
    OBVIOUS
  <2>1. p \in Held /\ h[r] \in Held /\ r.of = h[r].id
    BY <1>2
  <2> HIDE DEF h
  <2>2. QED
    BY <2>1, HeldAssumption
<1>4. PlusOf(rs) = Total(f, rs) /\ f \in [rs -> Int]
  BY PlusIs
<1>5. Total(f, rs) = Total(t, w)
  <2> HIDE DEF f, h
  <2>1. \A r \in rs : f[r] \in Int /\ h[r] \in w
    BY <1>2, <1>4
  <2>2. Total(f, rs) = Total([p \in w |-> Total(f, {r \in rs : h[r] = p})], w)
    BY <1>1, <2>1, TotalGroups
  <2>3. QED
    BY <2>2
<1>6. ASSUME NEW p \in w PROVE t[p] \in Int /\ t[p] <= b[p]
  <2> DEFINE g == G(p)
             e == [r \in g |-> Plus(r)]
  <2>1. g \in SUBSET rs /\ g = {r \in rs : r.of = p.id}
    BY <1>3
  <2>2. IsFiniteSet(g)
    <3> HIDE DEF g
    <3>1. QED
      BY <1>1, <2>1, FS_Subset
  <2>3. t[p] = Total(f, g) /\ \A r \in g : f[r] = e[r]
    OBVIOUS
  <2> HIDE DEF g, t, f
  <2>4. Typed(g)
    BY <2>1, <2>2 DEF Typed
  <2>5. PlusOf(g) = Total(e, g) /\ PlusOf(g) \in Int
    BY <2>4, PlusIs
  <2> HIDE DEF e
  <2>6. Total(f, g) = Total(e, g)
    BY <2>3, TotalSame
  <2>7. PlusOf(g) <= b[p]
    BY <2>1
  <2>8. QED
    BY <2>3, <2>5, <2>6, <2>7
<1> HIDE DEF t, f
<1>7. \A p \in w : t[p] \in Int /\ b[p] \in Int /\ t[p] <= b[p]
  BY <1>6
<1>8. Total(t, w) <= Total(b, w)
  BY <1>1, <1>7, TotalMono
<1>9. SumFunction(b) = Total(b, w)
  BY TotalOfAll
<1>10. Total(b, w) \in Int
  <2>1. w \in SUBSET w
    OBVIOUS
  <2>2. QED
    BY <1>1, <1>7, <2>1, TotalSteps
<1>11. QED
  BY <1>4, <1>5, <1>8, <1>9, <1>10

\* What a position may at most be worth.
LEMMA MostIs ==
  ASSUME NEW p \in Held
  PROVE  /\ AtMost(p) \in Int /\ 0 <= AtMost(p) /\ Net(p.legs) <= AtMost(p) /\ Net(p.legs) \in Int
         /\ Paid(p, {})
<1>1. Assets(p.legs) \in Int /\ 0 <= Assets(p.legs)
  BY AssetsIs
<1>2. Net(p.legs) \in Int /\ Net(p.legs) <= Assets(p.legs)
  <2>1. Net(p.legs) \in Int /\ Sound(p, Net(p.legs))
    BY SoundValues
  <2>2. Restrict(p.legs, DOMAIN p.legs) = p.legs /\ DOMAIN p.legs \in SUBSET DOMAIN p.legs
    BY HeldAssumption DEF Restrict
  <2>3. Net(Restrict(p.legs, DOMAIN p.legs)) <= Assets(p.legs)
    BY <2>2, PartNet
  <2>4. QED
    BY <2>1, <2>2, <2>3
<1>3. AtMost(p) \in Int /\ Assets(p.legs) <= AtMost(p)
  BY <1>1 DEF AtMost
<1>4. \A r \in {} : Fair(r, p)
  OBVIOUS
<1>5. IsFiniteSet({}) /\ OnePerKey({})
  BY FS_EmptySet DEF OnePerKey
<1>6. Paid(p, {})
  BY <1>4, <1>5, FairIsPaid
<1>7. QED
  BY <1>1, <1>2, <1>3, <1>6

\* The rows of a stake count nothing if the adapters have no stake.
LEMMA StakeSeen ==
  ASSUME wallet \in SUBSET Held, IsFiniteSet(merged), \A r \in merged : FairIn(r, wallet),
         OnePerKey(merged), NEW p \in Of(wallet, "staking"), RpcStake = 0
  PROVE  PlusOf({r \in merged : r.of = p.id}) <= 0
<1> DEFINE staked == {q \in merged : \E o \in Of(wallet, "staking") : o.id = q.of}
           g == [r \in staked |-> Net(r.legs)]
<1>0. p \in wallet /\ p \in Held /\ p.adapter = "staking"
  BY DEF Of
<1>1. CASE \A r \in merged : r.of # p.id
  <2>1. {r \in merged : r.of = p.id} = {}
    BY <1>1
  <2>2. PlusOf({}) = 0
    <3> DEFINE none == {}
               e == [r \in none |-> Plus(r)]
    <3>1. Typed(none)
      BY FS_EmptySet DEF Typed
    <3>2. e \in [none -> Int] /\ PlusOf(none) = SumFunction(e) /\ none = {}
      BY DEF PlusOf
    <3> HIDE DEF e, none
    <3>3. SumFunction(e) = 0
      BY <3>2, SmallSums
    <3>4. QED
      BY <3>2, <3>3
  <2>3. QED
    BY <2>1, <2>2
<1>2. CASE \E r \in merged : r.of = p.id
  <2>1. PICK r \in merged : r.of = p.id
    BY <1>2
  <2>2. r \in staked
    BY <1>0, <2>1
  <2>3. \A q \in staked : \E o \in Of(wallet, "staking") : q.legs = o.legs /\ q.of = o.id
    <3> SUFFICES ASSUME NEW q \in staked, NEW o \in Of(wallet, "staking"), o.id = q.of PROVE q.legs = o.legs
      OBVIOUS
    <3>1. o \in wallet /\ o.adapter = "staking"
      BY DEF Of
    <3>2. Fair(q, o)
      BY <3>1, FairTo
    <3>3. QED
      BY <3>1, <3>2 DEF Fair
  <2>4. \A q \in staked : g[q] \in Int /\ 0 <= g[q]
    <3> SUFFICES ASSUME NEW q \in staked PROVE Net(q.legs) \in Int /\ 0 <= Net(q.legs)
      OBVIOUS
    <3>1. PICK o \in Of(wallet, "staking") : q.legs = o.legs
      BY <2>3
    <3>2. o \in Held /\ o.adapter = "staking"
      BY DEF Of
    <3>3. Net(o.legs) \in Nat
      BY <3>2, OwedNothing
    <3>4. QED
      BY <3>1, <3>3
  <2>5. RpcStake = SumFunction(g)
    BY DEF RpcStake
  <2>6. staked \in SUBSET merged /\ g \in [staked -> Int] /\ g[r] = Net(r.legs) /\ r.legs = p.legs
    <3>1. \A o \in Of(wallet, "staking") : o.id = p.id => o = p
      BY <1>0, HeldAssumption DEF Of
    <3>2. r.legs = p.legs
      BY <2>1, <2>2, <2>3, <3>1
    <3>3. QED
      BY <2>2, <2>4, <3>2
  <2> HIDE DEF staked, g
  <2>7. IsFiniteSet(staked)
    BY <2>6, FS_Subset
  <2>8. SumFunction(g) = Total(g, staked)
    BY <2>6, TotalOfAll
  <2>9. g[r] <= Total(g, staked)
    BY <2>2, <2>4, <2>7, TotalOfOne
  <2>10. Net(p.legs) <= 0
    BY <2>5, <2>6, <2>8, <2>9
  <2>11. p.adapter = "staking"
    BY <1>0
  <2>12. AtMost(p) = Net(p.legs)
    BY <1>0, <2>11, OwedNothing DEF AtMost, Doubled
  <2>13. PlusOf({q \in merged : q.of = p.id}) <= AtMost(p)
    BY <1>0, FairPays DEF Paid
  <2>14. PlusOf({q \in merged : q.of = p.id}) \in Int
    <3> DEFINE R == {q \in merged : q.of = p.id}
    <3>1. Paid(p, R)
      BY <1>0, FairPays
    <3> HIDE DEF R
    <3>2. PlusOf(R) \in Int
      BY <3>1, PlusIs DEF Paid
    <3>3. QED
      BY <3>2 DEF R
  <2> DEFINE v == PlusOf({q \in merged : q.of = p.id})
  <2>15. Net(p.legs) \in Int
    BY <1>0, MostIs
  <2>16. v <= AtMost(p) /\ v \in Int
    BY <2>13, <2>14
  <2> HIDE DEF v
  <2>17. v <= 0
    BY <2>10, <2>12, <2>15, <2>16
  <2>18. QED
    BY <2>17 DEF v
<1>3. QED
  BY <1>1, <1>2

\* The indexer's stake is added only where no row counts it.
LEMMA StakeOnce ==
  ASSUME wallet \in SUBSET Held, IsFiniteSet(merged), \A r \in merged : FairIn(r, wallet),
         OnePerKey(merged), NEW indexed \in SUBSET Of(wallet, "staking"), NEW priced
  PROVE  /\ AddedStake(indexed, priced) \in Nat /\ ValueOf(merged) \in Int /\ AllAssets \in Int
         /\ AddedStake(indexed, priced) + ValueOf(merged) <= AllAssets
<1> DEFINE most == [p \in wallet |-> AtMost(p)]
           net == [p \in indexed |-> Net(p.legs)]
           b == [p \in wallet |-> IF p \in indexed /\ RpcStake = 0 THEN 0 ELSE AtMost(p)]
           rest == wallet \ indexed
           plus == PlusOf(merged)
<1>1. /\ IsFiniteSet(wallet) /\ indexed \in SUBSET wallet /\ rest \in SUBSET wallet
      /\ \A p \in indexed : p \in Held /\ p.adapter = "staking"
  BY HeldAssumption, FS_Subset DEF Of
<1>2. Typed(merged) /\ \A r \in merged : \E p \in wallet : r.of = p.id
  <2>1. \A r \in merged : r.value = Null \/ r.value \in Int
    BY DEF FairIn, Fair
  <2>2. QED
    BY <2>1, FairFields DEF FairIn, Typed
<1>3. ValueOf(merged) \in Int /\ ValueOf(merged) <= plus /\ plus \in Int
  BY <1>2, PlusIs
<1>4. \A p \in wallet : most[p] \in Int /\ 0 <= most[p] /\ b[p] \in Int
  BY MostIs
<1>5. \A p \in indexed : net[p] \in Int /\ 0 <= net[p] /\ net[p] <= most[p]
  BY <1>1, OwedNothing, MostIs
<1>6. ASSUME NEW p \in wallet PROVE PlusOf({r \in merged : r.of = p.id}) <= AtMost(p)
  BY FairPays DEF Paid
<1>7. ASSUME NEW p \in indexed, RpcStake = 0 PROVE PlusOf({r \in merged : r.of = p.id}) <= 0
  BY <1>7, StakeSeen
<1>8. \A p \in wallet : PlusOf({r \in merged : r.of = p.id}) <= b[p]
  BY <1>6, <1>7
<1>9. AllAssets = SumFunction(most) /\ IndexedStake(indexed) = SumFunction(net)
  BY DEF AllAssets, IndexedStake
<1>10. /\ b \in [wallet -> Int] /\ most \in [wallet -> Int] /\ net \in [indexed -> Int]
       /\ \A p \in wallet : b[p] = IF p \in indexed /\ RpcStake = 0 THEN 0 ELSE most[p]
  BY <1>4, <1>5
<1> HIDE DEF b, most, net
<1>11. plus <= SumFunction(b) /\ SumFunction(b) \in Int
  <2>1. wallet \in SUBSET Held
    OBVIOUS
  <2>2. QED
    BY <1>2, <1>8, <1>10, <2>1, RowsCover
<1>12. SumFunction(b) = Total(b, wallet) /\ SumFunction(most) = Total(most, wallet)
       /\ SumFunction(net) = Total(net, indexed)
  BY <1>10, TotalOfAll
<1>13. Total(most, wallet) \in Int /\ Total(most, indexed) \in Int /\ Total(most, rest) \in Int
       /\ Total(b, indexed) \in Int /\ Total(b, rest) \in Int
  <2>1. wallet \in SUBSET wallet
    OBVIOUS
  <2>2. \A T \in SUBSET wallet : Total(most, T) \in Int /\ Total(b, T) \in Int
    BY <1>1, <1>4, TotalSteps
  <2>3. QED
    BY <1>1, <2>1, <2>2
<1>14. IsFiniteSet(indexed) /\ IsFiniteSet(rest)
  BY <1>1, FS_Subset
<1>15. Total(net, indexed) \in Int /\ 0 <= Total(net, indexed)
  BY <1>5, <1>14, TotalNat
<1>16. CASE RpcStake = 0
  <2>1. Total(b, wallet) = Total(b, indexed) + Total(b, rest)
    BY <1>1, <1>4, TotalBoth
  <2>2. Total(most, wallet) = Total(most, indexed) + Total(most, rest)
    BY <1>1, <1>4, TotalBoth
  <2>3. Total(b, indexed) <= 0
    <3>1. \A p \in indexed : b[p] \in Int /\ b[p] <= 0
      BY <1>1, <1>10, <1>16
    <3>2. QED
      BY <1>14, <3>1, NoneCounts
  <2>4. Total(b, rest) = Total(most, rest)
    <3>1. \A p \in rest : b[p] = most[p]
      BY <1>10
    <3> HIDE DEF rest
    <3>2. QED
      BY <3>1, TotalSame
  <2>5. Total(net, indexed) <= Total(most, indexed)
    <3>1. \A p \in indexed : net[p] \in Int /\ most[p] \in Int /\ net[p] <= most[p]
      BY <1>1, <1>4, <1>5
    <3>2. QED
      BY <1>14, <3>1, TotalMono
  <2>6. AddedStake(indexed, priced) \in {0, SumFunction(net)}
    BY <1>9 DEF AddedStake
  <2> HIDE DEF plus, rest
  <2>7. QED
    BY <1>3, <1>9, <1>11, <1>12, <1>13, <1>15, <2>1, <2>2, <2>3, <2>4, <2>5, <2>6
<1>17. CASE RpcStake # 0
  <2>1. AddedStake(indexed, priced) = 0
    BY <1>17 DEF AddedStake
  <2>2. Total(b, wallet) = Total(most, wallet)
    <3>1. \A p \in wallet : b[p] = most[p]
      BY <1>10, <1>17
    <3>2. QED
      BY <3>1, TotalSame
  <2> HIDE DEF plus
  <2>3. QED
    BY <1>3, <1>9, <1>11, <1>12, <1>13, <2>1, <2>2
<1>18. QED
  BY <1>16, <1>17

\* What each part of the state is.
Shape ==
  /\ wallet \in Wallets
  /\ phase \in Phases
  /\ calm \in BOOLEAN
  /\ DOMAIN list = Asked(wallet)

\* The token list has some of the balances without the receipts it hides, none
\* for more than it is; the headline has each of them and each position once.
ListInv(t) ==
  /\ t.hidden \in SUBSET ReceiptsOf(wallet)
  /\ t.list \in [DOMAIN t.list -> Nat]
  /\ DOMAIN t.list \in SUBSET (DOMAIN InWallet \ t.hidden)
  /\ ~ Inflated => \A c \in DOMAIN t.list : t.list[c] <= InWallet[c]

SumInv(t) ==
  /\ t.tokens \in Nat /\ t.positions \in Int
  /\ ~ Inflated => t.tokens + t.positions <= Plain + AllAssets + InReceipts({})

MineInv ==
  /\ rows # Pending => Part(rows)
  /\ tokens # Pending => ListInv(tokens)
  /\ total # Pending => SumInv(total)

CountInv == FairInv /\ Shape /\ MineInv

\* The state that the sums are about stays.
LEMMA WalletStays ==
  ASSUME wallet' = wallet
  PROVE  /\ InWallet' = InWallet /\ Inflated' = Inflated /\ AllAssets' = AllAssets
         /\ InReceipts({})' = InReceipts({}) /\ ReceiptsOf(wallet)' = ReceiptsOf(wallet)
         /\ Plain' = Plain
<1>1. ReceiptsOf(wallet)' = ReceiptsOf(wallet)
  BY DEF ReceiptsOf
<1>2. InWallet' = InWallet
  BY <1>1 DEF InWallet
<1>3. Inflated' = Inflated
  BY <1>2 DEF Inflated
<1>4. AllAssets' = AllAssets /\ InReceipts({})' = InReceipts({})
  BY DEF AllAssets, InReceipts
<1>5. Plain' = Plain
  BY DEF Plain
<1>6. QED
  BY <1>1, <1>2, <1>3, <1>4, <1>5

LEMMA MineStays ==
  ASSUME MineInv, wallet' = wallet, UNCHANGED mine
  PROVE  MineInv'
<1>1. rows' = rows /\ tokens' = tokens /\ total' = total
  BY DEF mine
<1>2. (rows # Pending => Part(rows))'
  BY <1>1, WalletStays DEF MineInv, Part
<1>3. (tokens # Pending => ListInv(tokens))'
  BY <1>1, WalletStays DEF MineInv, ListInv
<1>4. (total # Pending => SumInv(total))'
  BY <1>1, WalletStays DEF MineInv, SumInv
<1>5. QED
  BY <1>2, <1>3, <1>4 DEF MineInv

LEMMA BalancesCount ==
  ASSUME CountInv, Balances
  PROVE  MineInv'
<1>1. wallet' = wallet /\ tokens' = tokens /\ total' = total
  BY DEF Balances
<1>2. Part(rows')
  <2>1. \/ \E stored \in SUBSET DOMAIN InWallet : rows' = Restrict(InWallet, stored)
        \/ rows' = InWallet \/ rows' = NoLegs
    BY DEF Balances
  <2>2. ASSUME NEW stored \in SUBSET DOMAIN InWallet, rows' = Restrict(InWallet, stored) PROVE Part(rows')
    BY <2>2, PartsAre
  <2>3. Part(InWallet) /\ Part(NoLegs)
    BY PartsAre
  <2>4. QED
    BY <2>1, <2>2, <2>3
<1>3. Part(rows)'
  BY <1>1, <1>2, WalletStays DEF Part
<1>4. (tokens # Pending => ListInv(tokens))'
  BY <1>1, WalletStays DEF CountInv, MineInv, ListInv
<1>5. (total # Pending => SumInv(total))'
  BY <1>1, WalletStays DEF CountInv, MineInv, SumInv
<1>6. QED
  BY <1>3, <1>4, <1>5 DEF MineInv

LEMMA ShowWalletCounts ==
  ASSUME CountInv, ShowWallet
  PROVE  MineInv'
<1>1. wallet' = wallet /\ rows' = rows /\ total' = total /\ Part(rows) /\ wallet \in SUBSET Held
  BY DEF ShowWallet, CountInv, MineInv, FairInv, ResolveInv
<1>2. PICK priced \in SUBSET DOMAIN InWallet, known \in SUBSET DOMAIN InWallet,
           registries \in SUBSET {"scoin", "ember"} :
        tokens' = [list |-> UsdOf(Restrict(rows, DOMAIN rows \ ReceiptsOf({p \in wallet : p.adapter \in registries})),
                                  priced, known),
                   hidden |-> ReceiptsOf({p \in wallet : p.adapter \in registries})]
  BY DEF ShowWallet
<1> DEFINE hidden == ReceiptsOf({p \in wallet : p.adapter \in registries})
           b == Restrict(rows, DOMAIN rows \ hidden)
           l == UsdOf(b, priced, known)
<1>3. hidden \in SUBSET ReceiptsOf(wallet)
  BY DEF ReceiptsOf
<1>4. tokens' = [list |-> l, hidden |-> hidden]
  BY <1>2
<1> HIDE DEF hidden
<1>5. Part(b) /\ DOMAIN b = DOMAIN rows \ hidden
  BY <1>1, PartsAre
<1> HIDE DEF b
<1>6. /\ l \in [DOMAIN b \cap priced -> Nat] /\ DOMAIN b \cap priced \in SUBSET DOMAIN InWallet
      /\ ~ Inflated => \A c \in DOMAIN b \cap priced : l[c] <= InWallet[c]
  BY <1>1, <1>5, UsdOfIs
<1> HIDE DEF l
<1>7. DOMAIN l = DOMAIN b \cap priced /\ DOMAIN l \in SUBSET (DOMAIN InWallet \ hidden)
  BY <1>5, <1>6
<1>8. tokens'.list = l /\ tokens'.hidden = hidden
  BY <1>4
<1>9. ListInv(tokens')
  BY <1>3, <1>6, <1>7, <1>8 DEF ListInv
<1>10. ListInv(tokens)'
  BY <1>1, <1>9, WalletStays DEF ListInv
<1>11. Part(rows)'
  BY <1>1, WalletStays DEF Part
<1>12. (total # Pending => SumInv(total))'
  BY <1>1, WalletStays DEF CountInv, MineInv, SumInv
<1>13. QED
  BY <1>10, <1>11, <1>12 DEF MineInv

LEMMA SummariseCounts ==
  ASSUME CountInv, Summarise
  PROVE  MineInv'
<1>1. /\ wallet' = wallet /\ rows' = rows /\ tokens' = tokens /\ Part(rows) /\ wallet \in SUBSET Held
      /\ phase = "answered"
  BY DEF Summarise, CountInv, MineInv, FairInv, ResolveInv
<1>2. PICK priced \in SUBSET DOMAIN InWallet, known \in SUBSET DOMAIN InWallet,
           indexed \in SUBSET Of(wallet, "staking") :
        total' = [tokens |-> TokensUsd(rows, priced, known) + AddedStake(indexed, priced),
                  positions |-> ValueOf(merged)]
  BY DEF Summarise
<1> DEFINE l == UsdOf(rows, priced, known)
           D == DOMAIN rows \cap priced
           stake == AddedStake(indexed, priced)
           valued == ValueOf(merged)
<1>3. IsFiniteSet(merged) /\ OnePerKey(merged) /\ \A r \in merged : FairIn(r, wallet)
  BY <1>1 DEF CountInv, FairInv, RowsFair, ResolveInv, RowsKept, AreRows
<1>4. stake \in Nat /\ valued \in Int /\ AllAssets \in Int /\ stake + valued <= AllAssets
  BY <1>1, <1>3, StakeOnce
<1>5. /\ l \in [D -> Nat] /\ D \in SUBSET DOMAIN InWallet
      /\ ~ Inflated => \A c \in D : l[c] <= InWallet[c]
  BY <1>1, UsdOfIs
<1>6. TokensUsd(rows, priced, known) = SumFunction(l)
  BY DEF TokensUsd
<1> HIDE DEF l, D
<1> DEFINE none == {}
<1>7. none \in SUBSET ReceiptsOf(wallet) /\ D \in SUBSET (DOMAIN InWallet \ none)
  BY <1>5
<1> HIDE DEF none
<1>8. /\ SumFunction(l) \in Nat /\ Plain \in Nat /\ InReceipts(none) \in Nat
      /\ (\A c \in D : l[c] <= InWallet[c]) => SumFunction(l) <= Plain + InReceipts(none)
  BY <1>1, <1>5, <1>7, CoinsCover
<1> HIDE DEF stake, valued
<1>9. total'.tokens = SumFunction(l) + stake /\ total'.positions = valued
  BY <1>2, <1>6 DEF stake, valued
<1>10. ~ Inflated => total'.tokens + total'.positions <= Plain + AllAssets + InReceipts(none)
  <2> SUFFICES ASSUME ~ Inflated PROVE total'.tokens + total'.positions <= Plain + AllAssets + InReceipts(none)
    OBVIOUS
  <2>1. SumFunction(l) <= Plain + InReceipts(none)
    BY <1>5, <1>8
  <2>2. QED
    BY <1>4, <1>8, <1>9, <2>1
<1>11. total'.tokens \in Nat /\ total'.positions \in Int
  BY <1>4, <1>8, <1>9
<1>12. SumInv(total')
  BY <1>10, <1>11 DEF SumInv, none
<1>13. SumInv(total)'
  BY <1>1, <1>12, WalletStays DEF SumInv
<1>14. Part(rows)'
  BY <1>1, WalletStays DEF Part
<1>15. (tokens # Pending => ListInv(tokens))'
  BY <1>1, WalletStays DEF CountInv, MineInv, ListInv
<1>16. QED
  BY <1>13, <1>14, <1>15 DEF MineInv

LEMMA ShapeStarts ==
  AnalysisInit => CountInv
<1> SUFFICES ASSUME AnalysisInit PROVE CountInv
  OBVIOUS
<1>1. FairInv
  BY FairStarts
<1>2. wallet \in Wallets /\ phase = "fetching" /\ calm = TRUE /\ DOMAIN list = Asked(wallet)
      /\ rows = Pending /\ tokens = Pending /\ total = Pending
  BY DEF AnalysisInit, OverviewInit, ResolveInit
<1>3. Shape
  BY <1>2 DEF Shape, Phases
<1>4. MineInv
  BY <1>2 DEF MineInv
<1>5. QED
  BY <1>1, <1>3, <1>4 DEF CountInv

\* All steps but those of the list of adapters leave it as it is.
LEMMA ListStays ==
  ASSUME [AnalysisNext]_analysisVars
  PROVE  wallet' = wallet /\ DOMAIN list' = DOMAIN list
<1>1. CASE Analyse \/ Balances \/ ShowWallet \/ Summarise \/ UNCHANGED allVars \/ UNCHANGED analysisVars
  BY <1>1 DEF Analyse, Balances, ShowWallet, Summarise, analysisVars, allVars, resolveVars
<1>2. CASE Serve
  BY <1>2 DEF Serve, Payload
<1>3. CASE OwnedAnswers
  BY <1>3 DEF OwnedAnswers
<1>4. CASE Resolving
  BY <1>4 DEF Resolving, Collect, RetryBlockvision, Decode, Price, Catch
<1>5. CASE \E a \in DOMAIN list : Answer(a) \/ TimeOut(a)
  BY <1>5 DEF Answer, TimeOut
<1>6. QED
  BY <1>1, <1>2, <1>3, <1>4, <1>5 DEF AnalysisNext, OverviewNext

LEMMA PhaseIs ==
  ASSUME phase \in Phases, [AnalysisNext]_analysisVars
  PROVE  phase' \in Phases
<1>1. CASE Analyse \/ Balances \/ ShowWallet \/ Summarise \/ UNCHANGED allVars \/ UNCHANGED analysisVars
  BY <1>1 DEF Analyse, Balances, ShowWallet, Summarise, analysisVars, allVars, resolveVars, Phases
<1>2. CASE Serve
  BY <1>2 DEF Serve, Payload, Phases
<1>3. CASE OwnedAnswers
  BY <1>3 DEF OwnedAnswers, Phases
<1>4. CASE Resolving
  BY <1>4 DEF Resolving, Collect, RetryBlockvision, Decode, Price, Catch, Phases
<1>5. CASE \E a \in DOMAIN list : Answer(a) \/ TimeOut(a)
  BY <1>5 DEF Answer, TimeOut
<1>6. QED
  BY <1>1, <1>2, <1>3, <1>4, <1>5 DEF AnalysisNext, OverviewNext

LEMMA CalmIs ==
  ASSUME calm \in BOOLEAN, [AnalysisNext]_analysisVars
  PROVE  calm' \in BOOLEAN /\ (calm' => calm)
<1>1. CASE Balances
  <2>1. PICK b : calm' = (calm /\ b)
    BY <1>1, Zenon DEF Balances
  <2>2. QED
    BY <2>1, Zenon
<1>2. CASE ShowWallet
  <2>1. PICK b : calm' = (calm /\ b)
    BY <1>2, Zenon DEF ShowWallet
  <2>2. QED
    BY <2>1, Zenon
<1>3. CASE Summarise
  <2>1. PICK b : calm' = (calm /\ b)
    BY <1>3, Zenon DEF Summarise
  <2>2. QED
    BY <2>1, Zenon
<1>4. CASE UNCHANGED calm
  BY <1>4
<1>5. CASE (\E a \in DOMAIN list : TimeOut(a)) \/ Catch
  BY <1>5 DEF TimeOut, Catch
<1>6. CASE \E a \in DOMAIN list : Answer(a)
  <2>1. PICK b : calm' = (calm /\ b)
    BY <1>6, Zenon DEF Answer
  <2>2. QED
    BY <2>1, Zenon
<1>7. CASE RetryBlockvision
  <2>1. calm' = calm \/ \E b : calm' = (calm /\ b)
    BY <1>7, Zenon DEF RetryBlockvision
  <2>2. ASSUME NEW b, calm' = (calm /\ b) PROVE calm' \in BOOLEAN /\ (calm' => calm)
    BY <2>2, Zenon
  <2>3. CASE calm' = calm
    BY <2>3
  <2>4. QED
    BY <2>1, <2>2, <2>3, Zenon
<1>8. CASE Decode
  <2>1. PICK b : calm' = (calm /\ b)
    BY <1>8, Zenon DEF Decode
  <2>2. QED
    BY <2>1, Zenon
<1>9. CASE Price
  <2>1. PICK b : calm' = (calm /\ b)
    BY <1>9, Zenon DEF Price
  <2>2. QED
    BY <2>1, Zenon
<1>10. CASE OwnedAnswers
  <2>1. PICK b : calm' = (calm /\ b)
    BY <1>10, Zenon DEF OwnedAnswers
  <2>2. QED
    BY <2>1, Zenon
<1>11. CASE Analyse \/ Collect \/ Serve \/ UNCHANGED allVars \/ UNCHANGED analysisVars
  <2>1. UNCHANGED calm
    BY <1>11 DEF Analyse, Collect, Serve, Payload, analysisVars, allVars, resolveVars
  <2>2. QED
    BY <1>4, <2>1
<1>12. QED
  BY <1>1, <1>2, <1>3, <1>5, <1>6, <1>7, <1>8, <1>9, <1>10, <1>11 DEF AnalysisNext, OverviewNext, Resolving

LEMMA CountKeeps ==
  CountInv /\ [AnalysisNext]_analysisVars => CountInv'
<1> SUFFICES ASSUME CountInv, [AnalysisNext]_analysisVars PROVE CountInv'
  OBVIOUS
<1>1. FairInv'
  BY FairKeeps DEF CountInv
<1>2. wallet' = wallet
  BY ListStays
<1>3. Shape'
  <2>1. Asked(wallet') = Asked(wallet)
    BY <1>2
  <2>2. phase' \in Phases /\ calm' \in BOOLEAN
    BY PhaseIs, CalmIs DEF CountInv, Shape
  <2>3. DOMAIN list' = DOMAIN list
    BY ListStays
  <2> HIDE DEF Asked, Phases
  <2>4. QED
    BY <1>2, <2>1, <2>2, <2>3 DEF CountInv, Shape
<1>4. MineInv'
  <2>1. CASE Balances
    BY <2>1, BalancesCount
  <2>2. CASE ShowWallet
    BY <2>2, ShowWalletCounts
  <2>3. CASE Summarise
    BY <2>3, SummariseCounts
  <2>4. CASE UNCHANGED mine
    BY <1>2, <2>4, MineStays DEF CountInv
  <2>5. CASE Serve \/ Analyse \/ UNCHANGED allVars \/ UNCHANGED analysisVars
    <3>1. UNCHANGED mine
      BY <2>5 DEF Serve, Analyse, allVars, analysisVars
    <3>2. QED
      BY <2>4, <3>1
  <2>6. QED
    BY <2>1, <2>2, <2>3, <2>4, <2>5 DEF AnalysisNext, OverviewNext
<1>5. QED
  BY <1>1, <1>3, <1>4 DEF CountInv

LEMMA CountInvariant ==
  AnalysisSpec => []CountInv
BY ShapeStarts, CountKeeps, PTL DEF AnalysisSpec

\* Where the holdings stand in for nothing, every position is paid for.
LEMMA AllArePaid ==
  ASSUME FairInv, phase = "paid", ~ \E r \in merged : r.value = Holdings
  PROVE  /\ Typed(merged) /\ \A r \in merged : \E p \in wallet : r.of = p.id
         /\ \A p \in wallet : p \in Held /\ Paid(p, RowsFor(p))
<1>1. /\ IsFiniteSet(merged) /\ wallet \in SUBSET Held
      /\ \A r \in merged : \E p \in wallet : r.of = p.id
      /\ \A p \in wallet : Paid(p, RowsFor(p)) \/ StoodIn(p)
  BY DEF FairInv, AllPaid, ResolveInv
<1>2. ASSUME NEW p \in wallet, StoodIn(p) PROVE Paid(p, RowsFor(p))
  <2>1. RowsFor(p) = {}
    BY <1>2 DEF StoodIn, RowsFor
  <2>2. p \in Held
    BY <1>1
  <2>3. Paid(p, {})
    BY <2>2, MostIs
  <2>4. QED
    BY <2>1, <2>3
<1>3. \A p \in wallet : p \in Held /\ Paid(p, RowsFor(p))
  BY <1>1, <1>2
<1>4. \A r \in merged : r.value = Null \/ r.value \in Int
  <2> SUFFICES ASSUME NEW r \in merged PROVE r.value = Null \/ r.value \in Int
    OBVIOUS
  <2>1. PICK p \in wallet : r.of = p.id
    BY <1>1
  <2>2. r \in RowsFor(p)
    BY <2>1 DEF RowsFor
  <2>3. QED
    BY <1>3, <2>2 DEF Paid, Typed
<1>5. QED
  BY <1>1, <1>3, <1>4 DEF Typed

\* So that the page shows no more of the positions than they may be worth.
LEMMA PageCovers ==
  ASSUME FairInv, phase = "paid", ~ \E r \in merged : r.value = Holdings
  PROVE  /\ AllWorth \in Int /\ AllAssets \in Int /\ AllWorth <= AllAssets
         /\ PlusOf(merged) \in Int /\ 0 <= PlusOf(merged) /\ PlusOf(merged) <= AllAssets
<1> DEFINE most == [p \in wallet |-> AtMost(p)]
           value == [p \in wallet |-> Worth(p)]
<1>1. /\ wallet \in SUBSET Held /\ Typed(merged) /\ \A r \in merged : \E p \in wallet : r.of = p.id
      /\ \A p \in wallet : p \in Held /\ Paid(p, RowsFor(p))
  BY AllArePaid DEF FairInv, ResolveInv
<1>2. ASSUME NEW p \in wallet
      PROVE  /\ most[p] \in Int /\ value[p] \in Int /\ value[p] <= most[p]
             /\ PlusOf({r \in merged : r.of = p.id}) <= most[p]
  <2> DEFINE R == RowsFor(p)
  <2>1. Typed(R) /\ PlusOf(R) <= AtMost(p) /\ p \in Held
    BY <1>1 DEF Paid
  <2>2. R = {r \in merged : r.of = p.id} /\ value[p] = ValueOf(R) /\ most[p] = AtMost(p)
    BY DEF RowsFor, Worth
  <2> HIDE DEF R, value, most
  <2>3. ValueOf(R) \in Int /\ ValueOf(R) <= PlusOf(R) /\ PlusOf(R) \in Int
    BY <2>1, PlusIs
  <2>4. AtMost(p) \in Int
    BY <2>1, MostIs
  <2>5. QED
    BY <2>1, <2>2, <2>3, <2>4
<1>3. AllWorth = SumFunction(value) /\ AllAssets = SumFunction(most)
  BY DEF AllWorth, AllAssets
<1>4. value \in [wallet -> Int] /\ most \in [wallet -> Int]
  BY <1>2
<1>5. IsFiniteSet(wallet)
  BY <1>1, HeldAssumption, FS_Subset
<1> HIDE DEF value, most
<1>6. SumFunction(value) = Total(value, wallet) /\ SumFunction(most) = Total(most, wallet)
  BY <1>4, TotalOfAll
<1>7. Total(value, wallet) <= Total(most, wallet)
  <2>1. \A p \in wallet : value[p] \in Int /\ most[p] \in Int /\ value[p] <= most[p]
    BY <1>2
  <2>2. QED
    BY <1>5, <2>1, TotalMono
<1>8. Total(value, wallet) \in Int /\ Total(most, wallet) \in Int
  <2>1. wallet \in SUBSET wallet /\ (\A p \in wallet : value[p] \in Int) /\ (\A p \in wallet : most[p] \in Int)
    BY <1>2
  <2>2. QED
    BY <1>5, <2>1, TotalSteps
<1>9. PlusOf(merged) <= SumFunction(most)
  <2>1. \A p \in wallet : PlusOf({r \in merged : r.of = p.id}) <= most[p]
    BY <1>2
  <2>2. QED
    BY <1>1, <1>4, <2>1, RowsCover
<1>10. PlusOf(merged) \in Int /\ 0 <= PlusOf(merged)
  BY <1>1, PlusIs
<1>11. QED
  BY <1>3, <1>6, <1>7, <1>8, <1>9, <1>10

LEMMA NothingTwice ==
  CountInv => CountedOnce
<1> SUFFICES ASSUME CountInv PROVE CountedOnce
  OBVIOUS
<1>1. FairInv /\ Shape /\ MineInv /\ wallet \in SUBSET Held /\ OnePerKey(merged)
  BY DEF CountInv, FairInv, ResolveInv, RowsKept
<1>2. ResolveTypeOK
  <2>1. CASE phase = "paid"
    BY <1>1, <2>1 DEF ResolveTypeOK, Shape, FairInv, AllPaid
  <2>2. CASE phase # "paid"
    <3>1. \A r \in merged : \E p \in wallet : r.of = p.id /\ r.protocol = p.protocol
      BY <1>1, <2>2, FairFields DEF FairInv, RowsFair, FairIn
    <3>2. QED
      BY <1>1, <3>1 DEF ResolveTypeOK, Shape
  <2>3. QED
    BY <2>1, <2>2
<1>3. OverviewTypeOK
  <2>1. rows # Pending => DOMAIN rows \subseteq DOMAIN InWallet
    BY <1>1 DEF MineInv, Part
  <2>2. tokens # Pending =>
          DOMAIN tokens.list \subseteq DOMAIN InWallet /\ tokens.hidden \subseteq ReceiptsOf(wallet)
    BY <1>1 DEF MineInv, ListInv
  <2>3. total # Pending => total.tokens \in Nat /\ total.positions \in Int
    BY <1>1 DEF MineInv, SumInv
  <2>4. QED
    BY <1>2, <2>1, <2>2, <2>3 DEF OverviewTypeOK
<1>4. OneRowPerKey
  BY <1>1 DEF OneRowPerKey, OnePerKey
<1>5. HeadlineOnce
  BY <1>1 DEF HeadlineOnce, MineInv, SumInv
<1>6. ShownOnce
  <2> SUFFICES ASSUME phase = "paid", tokens # Pending, ~ Inflated, ~ \E r \in merged : r.value = Holdings
               PROVE  SumFunction(tokens.list) + AllWorth <= Plain + AllAssets + InReceipts(tokens.hidden)
    BY DEF ShownOnce
  <2> DEFINE l == tokens.list
             D == DOMAIN l
             hidden == tokens.hidden
  <2>1. /\ hidden \in SUBSET ReceiptsOf(wallet) /\ l \in [D -> Nat]
        /\ D \in SUBSET (DOMAIN InWallet \ hidden) /\ \A c \in D : l[c] <= InWallet[c]
    BY <1>1 DEF MineInv, ListInv
  <2>2. AllWorth \in Int /\ AllAssets \in Int /\ AllWorth <= AllAssets
    BY <1>1, PageCovers
  <2> HIDE DEF D, l, hidden
  <2>3. /\ SumFunction(l) \in Nat /\ Plain \in Nat /\ InReceipts(hidden) \in Nat
        /\ SumFunction(l) <= Plain + InReceipts(hidden)
    BY <1>1, <2>1, CoinsCover
  <2>4. SumFunction(l) + AllWorth <= Plain + AllAssets + InReceipts(hidden)
    BY <2>2, <2>3
  <2>5. QED
    BY <2>4 DEF l, hidden
<1>7. QED
  BY <1>3, <1>4, <1>5, <1>6 DEF CountedOnce

\* CountedOnce of any wallet, balances and decimals: a stake that the owned scan, its
\* adapter and the indexer report is in getPortfolioSummary's headline once, a deposit
\* beside its receipt only where the receipt is not hidden, and every key has one row.
THEOREM NothingCountedTwice ==
  AnalysisSpec => []CountedOnce
BY NothingTwice, CountInvariant, PTL

-----------------------------------------------------------------------------
(* Analysis: a profile of what there is.                                   *)

\* A profile is made of what was shown, and stays what it was.
ProfileInv ==
  /\ tokens # Pending => rows # Pending /\ phase \in {"answered", "paid"}
  /\ phase = "paid" => tokens # Pending /\ total # Pending
  /\ profile # Pending => phase = "paid" /\ \E failed : profile = Profile(failed)

HonestInv == CountInv /\ ProfileInv

LEMMA ProfileStays ==
  ASSUME UNCHANGED allVars
  PROVE  /\ phase' = phase /\ rows' = rows /\ tokens' = tokens /\ total' = total
         /\ \A failed : Profile(failed)' = Profile(failed)
<1>1. tokens' = tokens /\ merged' = merged /\ total' = total
  BY DEF allVars, mine, resolveVars
<1>2. \A failed : Profile(failed)' = Profile(failed)
  BY <1>1 DEF Profile
<1>3. QED
  BY <1>2 DEF allVars, mine, resolveVars

\* Once the page is served, nothing changes but the profile.
LEMMA ServedStays ==
  ASSUME ProfileInv, phase = "paid", OverviewNext
  PROVE  UNCHANGED allVars
<1>1. rows # Pending /\ tokens # Pending /\ total # Pending
  BY DEF ProfileInv
<1>2. ~ Balances /\ ~ ShowWallet /\ ~ Summarise /\ ~ Serve
  BY <1>1 DEF Balances, ShowWallet, Summarise, Serve, Payload
<1>3. ~ OwnedAnswers /\ ~ Resolving /\ ~ \E a \in DOMAIN list : Answer(a) \/ TimeOut(a)
  BY DEF OwnedAnswers, Resolving, Collect, RetryBlockvision, Decode, Price, Catch, Answer, TimeOut
<1>4. QED
  BY <1>2, <1>3 DEF OverviewNext

LEMMA HonestKeeps ==
  HonestInv /\ [AnalysisNext]_analysisVars => HonestInv'
<1> SUFFICES ASSUME HonestInv, [AnalysisNext]_analysisVars PROVE HonestInv'
  OBVIOUS
<1>1. CountInv'
  BY CountKeeps DEF HonestInv
<1>2. ProfileInv'
  <2>0. ProfileInv
    BY DEF HonestInv
  <2>1. CASE Analyse
    <3>1. phase = "paid" /\ UNCHANGED allVars
      BY <2>1 DEF Analyse
    <3>2. PICK failed : profile' = Profile(failed)
      BY <2>1 DEF Analyse
    <3>3. profile' = Profile(failed)'
      BY <3>1, <3>2, ProfileStays
    <3>4. phase' = phase /\ rows' = rows /\ tokens' = tokens /\ total' = total
      BY <3>1, ProfileStays
    <3>5. QED
      BY <2>0, <3>1, <3>3, <3>4 DEF ProfileInv
  <2>2. CASE UNCHANGED allVars /\ UNCHANGED profile
    <3>1. phase' = phase /\ rows' = rows /\ tokens' = tokens /\ total' = total
      BY <2>2, ProfileStays
    <3>2. \A failed : Profile(failed)' = Profile(failed)
      BY <2>2, ProfileStays
    <3>3. profile' = profile
      BY <2>2
    <3>4. profile # Pending => \E failed : profile' = Profile(failed)'
      BY <2>0, <3>2, <3>3 DEF ProfileInv
    <3>5. QED
      BY <2>0, <3>1, <3>3, <3>4 DEF ProfileInv
  <2>3. CASE OverviewNext /\ UNCHANGED profile /\ phase # "paid"
    <3>1. profile = Pending /\ profile' = profile
      BY <2>0, <2>3 DEF ProfileInv
    <3>2. phase' = "paid" => tokens' # Pending /\ total' # Pending
      <4>1. CASE Serve
        BY <4>1 DEF Serve, mine
      <4>2. CASE Balances \/ ShowWallet \/ Summarise
        BY <2>3, <4>2 DEF Balances, ShowWallet, Summarise
      <4>3. CASE OwnedAnswers \/ Resolving
        BY <2>3, <4>3 DEF OwnedAnswers, Resolving, Collect, RetryBlockvision, Decode, Price, Catch
      <4>4. CASE \E a \in DOMAIN list : Answer(a) \/ TimeOut(a)
        BY <2>3, <4>4 DEF Answer, TimeOut
      <4>5. QED
        BY <2>3, <4>1, <4>2, <4>3, <4>4 DEF OverviewNext
    <3>3. tokens' # Pending => rows' # Pending /\ phase' \in {"answered", "paid"}
      <4>1. CASE ShowWallet \/ Summarise
        BY <2>0, <4>1 DEF ShowWallet, Summarise, ProfileInv
      <4>2. CASE Serve
        BY <2>0, <4>2 DEF Serve, mine, Payload, ProfileInv
      <4>3. CASE Balances
        BY <2>0, <4>3 DEF Balances, ProfileInv
      <4>4. CASE UNCHANGED mine /\ (OwnedAnswers \/ Resolving)
        BY <2>0, <4>4 DEF OwnedAnswers, Resolving, Collect, RetryBlockvision, Decode, Price, Catch,
             ProfileInv, mine
      <4>5. CASE UNCHANGED mine /\ \E a \in DOMAIN list : Answer(a) \/ TimeOut(a)
        BY <2>0, <4>5 DEF Answer, TimeOut, ProfileInv, mine
      <4>6. QED
        BY <2>3, <4>1, <4>2, <4>3, <4>4, <4>5 DEF OverviewNext
    <3>4. QED
      BY <3>1, <3>2, <3>3 DEF ProfileInv
  <2>4. CASE OverviewNext /\ UNCHANGED profile /\ phase = "paid"
    BY <2>0, <2>2, <2>4, ServedStays
  <2>5. QED
    BY <2>1, <2>2, <2>3, <2>4 DEF AnalysisNext, analysisVars
<1>3. QED
  BY <1>1, <1>2 DEF HonestInv

LEMMA HonestStarts ==
  AnalysisInit => HonestInv
<1> SUFFICES ASSUME AnalysisInit PROVE HonestInv
  OBVIOUS
<1>1. CountInv
  BY ShapeStarts
<1>2. phase = "fetching" /\ tokens = Pending /\ profile = Pending
  BY DEF AnalysisInit, OverviewInit, ResolveInit
<1>3. QED
  BY <1>1, <1>2 DEF HonestInv, ProfileInv

LEMMA HonestInvariant ==
  AnalysisSpec => []HonestInv
BY HonestStarts, HonestKeeps, PTL DEF AnalysisSpec

\* The sum over the five classes.
LEMMA OfClasses ==
  ASSUME NEW f \in [Classes -> Int]
  PROVE  /\ SumFunction(f) = f["sui"] + f["staking"] + f["stable"] + f["defi"] + f["other"]
         /\ SumFunction(f) = Total(f, Classes) /\ SumFunction(f) \in Int /\ IsFiniteSet(Classes)
<1> DEFINE A == {"other"}
           B == A \cup {"defi"}
           C == B \cup {"stable"}
           D == C \cup {"staking"}
           S == Classes
<1>1. IsFiniteSet(S)
  <2>1. IsFiniteSet(A)
    BY FS_Singleton
  <2>2. IsFiniteSet(B)
    BY <2>1, FS_AddElement
  <2>3. IsFiniteSet(C)
    BY <2>2, FS_AddElement
  <2>4. IsFiniteSet(D)
    BY <2>3, FS_AddElement
  <2>5. S = D \cup {"sui"}
    BY DEF Classes
  <2>6. QED
    BY <2>4, <2>5, FS_AddElement
<1>2. /\ S \in SUBSET S /\ "sui" \in S /\ S \ {"sui"} = D
      /\ D \in SUBSET S /\ "staking" \in D /\ D \ {"staking"} = C
      /\ C \in SUBSET S /\ "stable" \in C /\ C \ {"stable"} = B
      /\ B \in SUBSET S /\ "defi" \in B /\ B \ {"defi"} = A
      /\ A \in SUBSET S /\ "other" \in A /\ A \ {"other"} = {}
  BY DEF Classes
<1>3. \A c \in S : f[c] \in Int
  OBVIOUS
<1>4. SumFunction(f) = Total(f, S)
  BY TotalOfAll
<1> HIDE DEF A, B, C, D, S
<1>5. /\ Total(f, {}) = 0
      /\ \A T \in SUBSET S : Total(f, T) \in Int
      /\ \A T \in SUBSET S : \A x \in T : Total(f, T) = f[x] + Total(f, T \ {x})
  BY <1>1, <1>3, TotalSteps
<1>6. /\ Total(f, S) = f["sui"] + Total(f, D) /\ Total(f, D) = f["staking"] + Total(f, C)
      /\ Total(f, C) = f["stable"] + Total(f, B) /\ Total(f, B) = f["defi"] + Total(f, A)
      /\ Total(f, A) = f["other"]
  <2>1. /\ Total(f, S) = f["sui"] + Total(f, D) /\ Total(f, D) = f["staking"] + Total(f, C)
        /\ Total(f, C) = f["stable"] + Total(f, B) /\ Total(f, B) = f["defi"] + Total(f, A)
        /\ Total(f, A) = f["other"] + Total(f, {})
    BY <1>2, <1>5
  <2>2. f["other"] \in Int
    BY <1>2, <1>3
  <2>3. QED
    BY <1>5, <2>1, <2>2
<1>7. /\ f["sui"] \in Int /\ f["staking"] \in Int /\ f["stable"] \in Int /\ f["defi"] \in Int
      /\ f["other"] \in Int
  BY <1>2, <1>3
<1>8. SumFunction(f) = f["sui"] + f["staking"] + f["stable"] + f["defi"] + f["other"]
  BY <1>4, <1>6, <1>7
<1>9. SumFunction(f) \in Int
  BY <1>7, <1>8
<1>10. QED
  BY <1>1, <1>4, <1>8, <1>9 DEF S

\* q is the number of tenths of a per cent nearest to n of the whole.
Rounded(q, n, whole) ==
  q \in Int /\ 2 * (whole * q) <= 2000 * n + whole /\ 2000 * n < 2 * (whole * q) + whole

LEMMA PctIs ==
  ASSUME NEW n \in Int, NEW whole \in Nat, whole > 0
  PROVE  Rounded(Pct(n, whole), n, whole)
<1> DEFINE a == 2000 * n + whole
           d == 2 * whole
           q == a \div d
<1>1. Pct(n, whole) = q
  BY DEF Pct
<1>2. a \in Int /\ d \in Nat /\ d > 0
  OBVIOUS
<1> HIDE DEF a, d
<1>3. q \in Int /\ d * q <= a /\ a < d * q + d
  BY <1>2
<1> HIDE DEF q
<1>4. d * q = 2 * (whole * q)
  BY <1>3 DEF d
<1>5. whole * q \in Int
  BY <1>3
<1> DEFINE m == whole * q
<1> HIDE DEF m
<1>6. 2 * m <= a /\ a < 2 * m + d /\ m \in Int
  BY <1>3, <1>4, <1>5 DEF m
<1>7. 2 * m <= 2000 * n + whole /\ 2000 * n + whole < 2 * m + 2 * whole
  BY <1>6 DEF a, d
<1>8. QED
  BY <1>1, <1>3, <1>6, <1>7 DEF m, Rounded

\* Five shares of a whole are a thousand tenths, two more or less.
LEMMA SharesSum ==
  ASSUME NEW b \in [Classes -> Int], NEW whole \in Nat, whole = SumFunction(b), whole > 0
  PROVE  SumFunction([c \in Classes |-> Pct(b[c], whole)]) \in 998..1002
<1> DEFINE s == [c \in Classes |-> Pct(b[c], whole)]
           Near(c) == /\ s[c] \in Int /\ b[c] \in Int
                      /\ 2 * (whole * s[c]) <= 2000 * b[c] + whole
                      /\ 2000 * b[c] < 2 * (whole * s[c]) + whole
<1>1. \A c \in Classes : Near(c)
  <2> SUFFICES ASSUME NEW c \in Classes PROVE Near(c)
    OBVIOUS
  <2> DEFINE n == b[c]
  <2>1. n \in Int /\ s[c] = Pct(n, whole)
    OBVIOUS
  <2> HIDE DEF n, s
  <2>2. Rounded(Pct(n, whole), n, whole)
    BY <2>1, PctIs
  <2>3. Rounded(s[c], n, whole)
    BY <2>1, <2>2
  <2>4. QED
    BY <2>1, <2>3 DEF n, Rounded
<1>2. s \in [Classes -> Int]
  BY <1>1
<1> HIDE DEF s
<1> DEFINE v == s["sui"]
           w == s["staking"]
           x == s["stable"]
           y == s["defi"]
           z == s["other"]
           t == SumFunction(s)
<1>3. Near("sui") /\ Near("staking") /\ Near("stable") /\ Near("defi") /\ Near("other")
  BY <1>1 DEF Classes
<1>4. t = v + w + x + y + z /\ t \in Int
  BY <1>2, OfClasses
<1>5. whole = b["sui"] + b["staking"] + b["stable"] + b["defi"] + b["other"]
  BY OfClasses
<1>6. whole * t = whole * v + whole * w + whole * x + whole * y + whole * z
  <2>1. v \in Int /\ w \in Int /\ x \in Int /\ y \in Int /\ z \in Int
    BY <1>3
  <2> HIDE DEF t, v, w, x, y, z
  <2>2. QED
    BY <1>4, <2>1
<1>7. 2 * (whole * t) <= 2005 * whole /\ 1995 * whole < 2 * (whole * t)
  <2> DEFINE wv == whole * v
             ww == whole * w
             wx == whole * x
             wy == whole * y
             wz == whole * z
             wt == whole * t
  <2>1. wv \in Int /\ ww \in Int /\ wx \in Int /\ wy \in Int /\ wz \in Int
    BY <1>3
  <2>2. wt = wv + ww + wx + wy + wz
    BY <1>6
  <2>3. /\ 2 * wv <= 2000 * b["sui"] + whole /\ 2000 * b["sui"] < 2 * wv + whole
        /\ 2 * ww <= 2000 * b["staking"] + whole /\ 2000 * b["staking"] < 2 * ww + whole
        /\ 2 * wx <= 2000 * b["stable"] + whole /\ 2000 * b["stable"] < 2 * wx + whole
        /\ 2 * wy <= 2000 * b["defi"] + whole /\ 2000 * b["defi"] < 2 * wy + whole
        /\ 2 * wz <= 2000 * b["other"] + whole /\ 2000 * b["other"] < 2 * wz + whole
    BY <1>3
  <2>4. b["sui"] \in Int /\ b["staking"] \in Int /\ b["stable"] \in Int /\ b["defi"] \in Int /\ b["other"] \in Int
    BY <1>3
  <2> HIDE DEF wv, ww, wx, wy, wz, wt
  <2>5. 2 * wt <= 2005 * whole /\ 1995 * whole < 2 * wt
    BY <1>5, <2>1, <2>2, <2>3, <2>4
  <2>6. QED
    BY <2>5 DEF wt
<1> HIDE DEF t
<1>8. t <= 1002
  <2>1. CASE t >= 1003
    <3>1. whole * t >= whole * 1003
      BY <1>4, <2>1
    <3>2. QED
      BY <1>4, <1>7, <3>1
  <2>2. QED
    BY <1>4, <2>1
<1>9. 998 <= t
  <2>1. CASE t <= 997
    <3>1. whole * t <= whole * 997
      BY <1>4, <2>1
    <3>2. QED
      BY <1>4, <1>7, <3>1
  <2>2. QED
    BY <1>4, <2>1
<1>10. QED
  BY <1>4, <1>8, <1>9 DEF t, s

\* Rows that are worth something, added up.
LEMMA GainsAre ==
  ASSUME NEW rs, Typed(rs), NEW X \in SUBSET rs
  PROVE  SumUsd(Gains(X)) \in Nat /\ SumUsd(Gains(X)) <= Total([r \in rs |-> Plus(r)], X)
<1> DEFINE f == [r \in rs |-> Plus(r)]
           G == Gains(X)
           u == [r \in G |-> UsdIn(r)]
<1>1. \A r \in rs : f[r] \in Int /\ 0 <= f[r]
  BY PlusIs
<1>2. G \in SUBSET X /\ \A r \in G : UsdIn(r) = Plus(r) /\ Plus(r) \in Int
  BY <1>1 DEF Gains, UsdIn, Plus, Typed
<1>3. u \in [G -> Int] /\ \A r \in G : u[r] = f[r]
  BY <1>2
<1>4. SumUsd(G) = SumFunction(u)
  BY DEF SumUsd
<1>5. IsFiniteSet(rs)
  BY DEF Typed
<1> HIDE DEF f, G, u
<1>6. IsFiniteSet(X)
  BY <1>5, FS_Subset
<1>7. SumFunction(u) = Total(u, G)
  BY <1>3, TotalOfAll
<1>8. Total(u, G) = Total(f, G)
  BY <1>3, TotalSame
<1>9. \A r \in X : f[r] \in Int /\ 0 <= f[r]
  BY <1>1
<1>10. 0 <= Total(f, G) /\ Total(f, G) <= Total(f, X)
  BY <1>2, <1>6, <1>9, TotalNat
<1>11. Total(f, G) \in Int
  BY <1>2, <1>6, <1>9, TotalSteps
<1>12. QED
  BY <1>4, <1>7, <1>8, <1>10, <1>11 DEF f, G

\* Exposure is all there is to the coins and the rows.
LEMMA BucketsAre ==
  ASSUME NEW D, IsFiniteSet(D), NEW coins \in [D -> Nat], \A t \in D : ClassOf[t] \in Classes,
         NEW rs, Typed(rs)
  PROVE  /\ Buckets(coins, rs) \in [Classes -> Nat]
         /\ SumFunction(Buckets(coins, rs)) <= SumFunction(coins) + PlusOf(rs)
<1> DEFINE f == [r \in rs |-> Plus(r)]
           T(c) == {t \in D : ClassOf[t] = c}
           h == [t \in D |-> ClassOf[t]]
           sums == [c \in Classes |-> Total(coins, T(c))]
           X == Staked(rs)
           Y == rs \ X
           staked == SumUsd(Gains(X))
           others == SumUsd(Gains(Y))
           extra(c) == CASE c = "staking" -> staked [] c = "defi" -> others [] OTHER -> 0
           b == Buckets(coins, rs)
<1>1. b = [c \in Classes |-> sums[c] + extra(c)]
  <2>1. \A c \in Classes : SumFunction(Restrict(coins, {t \in DOMAIN coins : ClassOf[t] = c})) = sums[c]
    BY DEF Total
  <2>2. QED
    BY <2>1 DEF Buckets
<1>2. X \in SUBSET rs /\ Y \in SUBSET rs /\ Y = rs \ X
  BY DEF Staked
<1>3. staked \in Nat /\ staked <= Total(f, X) /\ others \in Nat /\ others <= Total(f, Y)
  BY <1>2, GainsAre
<1>4. \A r \in rs : f[r] \in Int /\ 0 <= f[r]
  BY PlusIs
<1>5. PlusOf(rs) = Total(f, rs) /\ IsFiniteSet(rs)
  BY PlusIs DEF Typed
<1>6. \A t \in D : coins[t] \in Int /\ 0 <= coins[t] /\ h[t] \in Classes
  OBVIOUS
<1>7. IsFiniteSet(Classes)
  <2>1. [c \in Classes |-> 0] \in [Classes -> Int]
    OBVIOUS
  <2>2. QED
    BY <2>1, OfClasses
<1>8. Total(coins, D) = Total(sums, Classes)
  <2> HIDE DEF h
  <2>1. Total(coins, D) = Total([c \in Classes |-> Total(coins, {t \in D : h[t] = c})], Classes)
    BY <1>6, <1>7, TotalGroups
  <2>2. \A c \in Classes : {t \in D : h[t] = c} = T(c)
    BY DEF h
  <2>3. [c \in Classes |-> Total(coins, {t \in D : h[t] = c})] = sums
    BY <2>2
  <2>4. QED
    BY <2>1, <2>3
<1>9. \A c \in Classes : T(c) \in SUBSET D /\ sums[c] = Total(coins, T(c))
  OBVIOUS
<1> HIDE DEF f, T, sums, X, Y, staked, others, b
<1>10. \A c \in Classes : sums[c] \in Nat
  <2>1. \A c \in Classes : Total(coins, T(c)) \in Int /\ 0 <= Total(coins, T(c))
    BY <1>6, <1>9, TotalNat, TotalSteps
  <2>2. QED
    BY <1>9, <2>1
<1>11. \A c \in Classes : extra(c) \in Nat
  BY <1>3
<1>12. b \in [Classes -> Nat] /\ b \in [Classes -> Int] /\ \A c \in Classes : b[c] = sums[c] + extra(c)
  <2> HIDE DEF extra
  <2>1. \A c \in Classes : sums[c] + extra(c) \in Nat
    BY <1>10, <1>11
  <2>2. QED
    BY <1>1, <2>1
<1>13. SumFunction(b) = b["sui"] + b["staking"] + b["stable"] + b["defi"] + b["other"]
  BY <1>12, OfClasses
<1>14. sums \in [Classes -> Int]
  <2>1. DOMAIN sums = Classes /\ sums = [c \in Classes |-> sums[c]]
    BY DEF sums
  <2>2. QED
    BY <1>10, <2>1
<1>15. /\ SumFunction(sums) = sums["sui"] + sums["staking"] + sums["stable"] + sums["defi"] + sums["other"]
       /\ SumFunction(sums) = Total(sums, Classes)
  BY <1>14, OfClasses
<1>16. /\ b["sui"] = sums["sui"] /\ b["staking"] = sums["staking"] + staked
       /\ b["stable"] = sums["stable"] /\ b["defi"] = sums["defi"] + others /\ b["other"] = sums["other"]
       /\ sums["sui"] \in Nat /\ sums["staking"] \in Nat /\ sums["stable"] \in Nat /\ sums["defi"] \in Nat
       /\ sums["other"] \in Nat
  BY <1>10, <1>12 DEF Classes
<1>17. SumFunction(coins) = Total(coins, D) /\ Total(coins, D) \in Int
  <2>1. coins \in [D -> Int] /\ D \in SUBSET D
    OBVIOUS
  <2>2. QED
    BY <1>6, <2>1, TotalOfAll, TotalSteps
<1>18. Total(f, rs) = Total(f, X) + Total(f, Y)
  BY <1>2, <1>4, <1>5, TotalBoth
<1>19. Total(f, X) \in Int /\ Total(f, Y) \in Int
  BY <1>2, <1>4, <1>5, TotalSteps
<1>20. SumFunction(b) <= SumFunction(coins) + PlusOf(rs)
  BY <1>3, <1>5, <1>8, <1>13, <1>15, <1>16, <1>17, <1>18, <1>19
<1>21. QED
  BY <1>12, <1>20 DEF b

\* All values are numbers, the holdings' too.
LEMMA PaidIsTyped ==
  ASSUME FairInv, phase = "paid"
  PROVE  Typed(merged)
<1>1. /\ IsFiniteSet(merged) /\ \A r \in merged : \E p \in wallet : r.of = p.id
      /\ \A p \in wallet : Paid(p, RowsFor(p)) \/ StoodIn(p)
  BY DEF FairInv, AllPaid
<1>2. ASSUME NEW r \in merged PROVE r.value = Null \/ r.value \in Int
  <2>1. PICK p \in wallet : r.of = p.id
    BY <1>1
  <2>2. r \in RowsFor(p)
    BY <2>1 DEF RowsFor
  <2>3. CASE StoodIn(p)
    BY <2>2, <2>3, WalletAssumption DEF StoodIn
  <2>4. CASE Paid(p, RowsFor(p))
    BY <2>2, <2>4 DEF Paid, Typed
  <2>5. QED
    BY <1>1, <2>3, <2>4
<1>3. QED
  BY <1>1, <1>2 DEF Typed

LEMMA NothingIsAdded ==
  Typed({}) /\ PlusOf({}) = 0
<1> DEFINE none == {}
           e == [r \in none |-> Plus(r)]
<1>1. Typed(none)
  BY FS_EmptySet DEF Typed
<1>2. e \in [none -> Int] /\ PlusOf(none) = SumFunction(e) /\ none = {}
  BY DEF PlusOf
<1> HIDE DEF e, none
<1>3. SumFunction(e) = 0
  BY <1>2, SmallSums
<1>4. QED
  BY <1>1, <1>2, <1>3

\* What a profile says, of whatever payloads it is made.
LEMMA ProfileIs ==
  ASSUME HonestInv, Profiled
  PROVE  \E b \in [Classes -> Nat] :
           /\ profile.whole = SumFunction(b)
           /\ profile.share = [c \in Classes |-> Pct(b[c], profile.whole)]
           /\ ~ Inflated /\ ~ (\E r \in merged : r.value = Holdings) =>
                /\ profile.whole <= Plain + AllAssets + InReceipts(tokens.hidden)
                /\ profile.worth <= Plain + AllAssets + InReceipts({})
<1>1. /\ phase = "paid" /\ ListInv(tokens) /\ SumInv(total) /\ wallet \in SUBSET Held /\ FairInv
      /\ \E failed : profile = Profile(failed)
  BY DEF HonestInv, ProfileInv, CountInv, MineInv, FairInv, ResolveInv, Profiled
<1>2. PICK failed : profile = Profile(failed)
  BY <1>1
<1> DEFINE coins == IF "wallet" \in failed THEN NoLegs ELSE tokens.list
           rs == IF "positions" \in failed THEN {} ELSE merged
           headline == IF "portfolio" \in failed THEN 0 ELSE total.tokens + total.positions
           b == Buckets(coins, rs)
           D == DOMAIN coins
           hidden == tokens.hidden
<1>3. /\ profile.whole = SumFunction(b)
      /\ profile.share = [c \in Classes |-> Pct(b[c], SumFunction(b))]
      /\ profile.worth = IF headline = 0 THEN SumFunction(b) ELSE headline
  BY <1>2 DEF Profile
<1>4. /\ coins \in [D -> Nat] /\ D \in SUBSET (DOMAIN InWallet \ hidden)
      /\ hidden \in SUBSET ReceiptsOf(wallet)
      /\ ~ Inflated => \A c \in D : coins[c] <= InWallet[c]
  <2>1. CASE "wallet" \in failed
    BY <1>1, <2>1 DEF NoLegs, ListInv
  <2>2. CASE "wallet" \notin failed
    BY <1>1, <2>2 DEF ListInv
  <2>3. QED
    BY <2>1, <2>2
<1>5. Typed(rs) /\ rs \in {{}, merged}
  BY <1>1, PaidIsTyped, NothingIsAdded
<1>6. headline \in {0, total.tokens + total.positions}
  OBVIOUS
<1> HIDE DEF coins, rs, headline, b, D, hidden
<1>7. IsFiniteSet(D) /\ \A t \in D : ClassOf[t] \in Classes
  <2>1. DOMAIN InWallet = ReceiptsOf(wallet) \cup DOMAIN Purse /\ IsFiniteSet(DOMAIN InWallet)
    BY <1>1, CoinsAre
  <2>2. ReceiptsOf(wallet) \subseteq ReceiptsOf(Held)
    BY <1>1 DEF ReceiptsOf
  <2>3. \A t \in D : ClassOf[t] \in Classes
    BY <1>4, <2>1, <2>2, ClassAssumption
  <2>4. D \in SUBSET DOMAIN InWallet
    BY <1>4
  <2>5. QED
    BY <2>1, <2>3, <2>4, FS_Subset
<1>8. b \in [Classes -> Nat] /\ SumFunction(b) <= SumFunction(coins) + PlusOf(rs)
  BY <1>4, <1>5, <1>7, BucketsAre DEF b
<1>9. /\ SumFunction(coins) \in Nat /\ Plain \in Nat /\ InReceipts(hidden) \in Nat
      /\ InReceipts(hidden) <= InReceipts({}) /\ InReceipts({}) \in Nat
      /\ ~ Inflated => SumFunction(coins) <= Plain + InReceipts(hidden)
  BY <1>1, <1>4, CoinsCover
<1>10. ASSUME ~ Inflated, ~ \E r \in merged : r.value = Holdings
       PROVE  /\ profile.whole <= Plain + AllAssets + InReceipts(hidden)
              /\ profile.worth <= Plain + AllAssets + InReceipts({})
  <2>1. /\ AllAssets \in Int /\ PlusOf(merged) \in Int /\ 0 <= PlusOf(merged) /\ PlusOf(merged) <= AllAssets
    BY <1>1, <1>10, PageCovers
  <2>2. PlusOf(rs) \in Int /\ PlusOf(rs) <= AllAssets
    BY <1>5, <2>1, NothingIsAdded
  <2>3. SumFunction(b) \in Int
    BY <1>8, OfClasses
  <2>4. SumFunction(b) <= Plain + AllAssets + InReceipts(hidden)
    BY <1>8, <1>9, <1>10, <2>1, <2>2, <2>3
  <2>5. SumFunction(b) <= Plain + AllAssets + InReceipts({})
    BY <1>9, <2>1, <2>3, <2>4
  <2>6. headline # 0 => headline <= Plain + AllAssets + InReceipts({})
    BY <1>1, <1>6, <1>10 DEF SumInv
  <2>7. QED
    BY <1>3, <2>4, <2>5, <2>6
<1>11. QED
  BY <1>3, <1>8, <1>10 DEF hidden

LEMMA ProfilesHonest ==
  HonestInv => AnalysisHonest
<1> SUFFICES ASSUME HonestInv, Profiled PROVE NothingInvented /\ SharesAddUp
  BY DEF AnalysisHonest, NothingInvented, SharesAddUp
<1>1. PICK b \in [Classes -> Nat] :
        /\ profile.whole = SumFunction(b)
        /\ profile.share = [c \in Classes |-> Pct(b[c], profile.whole)]
        /\ ~ Inflated /\ ~ (\E r \in merged : r.value = Holdings) =>
             /\ profile.whole <= Plain + AllAssets + InReceipts(tokens.hidden)
             /\ profile.worth <= Plain + AllAssets + InReceipts({})
  BY ProfileIs
<1>2. NothingInvented
  BY <1>1 DEF NothingInvented
<1>3. SharesAddUp
  <2> SUFFICES ASSUME profile.whole > 0 PROVE SumFunction(profile.share) \in 998..1002
    BY DEF SharesAddUp
  <2> DEFINE whole == profile.whole
             share == profile.share
  <2>1. b \in [Classes -> Int] /\ whole = SumFunction(b) /\ whole \in Int /\ whole > 0
    BY <1>1, OfClasses
  <2>2. share = [c \in Classes |-> Pct(b[c], whole)]
    BY <1>1
  <2> HIDE DEF whole, share
  <2>3. whole \in Nat
    BY <2>1
  <2>4. SumFunction([c \in Classes |-> Pct(b[c], whole)]) \in 998..1002
    BY <2>1, <2>3, SharesSum
  <2>5. QED
    BY <2>2, <2>4 DEF share
<1>4. QED
  BY <1>2, <1>3

\* AnalysisHonest of any wallet: whichever of the three payloads buildWalletAnalysis is
\* given, and whatever they lack, its exposure and its net worth are none that the wallet
\* does not have, and its five shares are those of one whole.
THEOREM NothingIsInvented ==
  AnalysisSpec => []AnalysisHonest
BY ProfilesHonest, HonestInvariant, PTL

-----------------------------------------------------------------------------
(* Resolve: if everything was read, rows that say what a position is worth. *)

\* Some adapters give a value alone.
Valuer(p) == p.adapter \in {"bluefin", "bucket", "haedal", "alphalend", "deepbook"}
Open(p) == p.adapter = "cetus" \/ (p.adapter = "turbos" /\ Net(p.legs) # 0)
Shut(p) == p.adapter = "turbos" /\ Net(p.legs) = 0

\* The key of the row that has coin c of a position, if BlockVision does not
\* double it, and the keys of its rows.
KeyFor(p, c) ==
  CASE p.adapter = "suilend" \/ (p.adapter = "scallop" /\ p.legs[c] >= 0) -> <<p.id, c>>
    [] OTHER -> MainKey(p)

Meant(p) == IF Split(p) THEN {KeyFor(p, c) : c \in DOMAIN p.legs} ELSE {MainKey(p)}

\* What such a row has of the position, and what it is worth.
CoinsAt(p, k) == {c \in DOMAIN p.legs : KeyFor(p, c) = k}
PartAt(p, k) == Restrict(p.legs, CoinsAt(p, k))
LegsAt(p, k) == IF Valuer(p) THEN NoLegs ELSE PartAt(p, k)
Due(p, k) == Net(PartAt(p, k))

\* A row that an adapter, or a decoder, made of a position when everything was
\* read, and one that the owned scan made.
Entire(r, p) ==
  /\ r \in RowsAbout(p, {r.value}) /\ r.key \in Meant(p) /\ r.legs = LegsAt(p, r.key)
  /\ r.value = Due(p, r.key) \/ (r.value = Null /\ ~ Valuer(p))
  /\ r.source # "rpc" \/ p.adapter = "staking"
  /\ ~ Shut(p)

OwnedKey(p) == IF p.wrapped THEN <<p.id>> ELSE PoolKey(p)

Hollow(r, p) ==
  /\ r \in RowsAbout(p, {Null}) /\ r.key = OwnedKey(p)
  /\ r.source = "rpc" /\ r.legs = NoLegs /\ p.owned /\ p.adapter # "staking"

\* A row of a wallet of whose positions only those in E may have an empty one.
Told(r, p, E) ==
  IF Doubled(p) THEN r \in RowsAbout(p, {r.value}) ELSE Entire(r, p) \/ (p \in E /\ Hollow(r, p))

ToldIn(r, w, E) == \E p \in w : Told(r, p, E)

\* A whole row that no empty one takes the place of.
Firm(r, w) == Rank(r) >= -1 \/ \A q \in w : q.owned => OwnedKey(q) # r.key
Strong(r, w) == Firm(r, w) /\ \E p \in w : ~ Doubled(p) /\ Entire(r, p)
HasStrong(rs, k, w) == \E r \in rs : r.key = k /\ Strong(r, w)

LEMMA TextNotCoin ==
  ASSUME NEW p \in Held, NEW c \in DOMAIN p.legs
  PROVE  c # "debts"
BY SourceAssumption

LEMMA MeantKeys ==
  ASSUME NEW p \in Held
  PROVE  Meant(p) \subseteq KeysOf(p) /\ OwnedKey(p) \in KeysOf(p) /\ MainKey(p) \in KeysOf(p)
<1>1. OwnedKey(p) \in KeysOf(p) /\ MainKey(p) \in KeysOf(p)
  BY DEF OwnedKey, KeysOf, MainKey
<1>2. \A c \in DOMAIN p.legs : KeyFor(p, c) \in {MainKey(p), <<p.id, c>>}
  BY DEF KeyFor
<1>3. \A c \in DOMAIN p.legs : <<p.id, c>> \in KeysOf(p)
  BY DEF KeysOf
<1>4. QED
  BY <1>1, <1>2, <1>3 DEF Meant

\* A part of a position's coins.
LEMMA PartIs ==
  ASSUME NEW p \in Held, NEW k
  PROVE  /\ CoinsAt(p, k) \in SUBSET DOMAIN p.legs /\ DOMAIN PartAt(p, k) = CoinsAt(p, k)
         /\ PartAt(p, k) \in Legs /\ LegsAt(p, k) \in Legs /\ Due(p, k) \in Int
<1>1. CoinsAt(p, k) \in SUBSET DOMAIN p.legs
  BY DEF CoinsAt
<1>2. Due(p, k) \in Int
  BY <1>1, PartNet DEF Due, PartAt
<1>3. DOMAIN PartAt(p, k) = CoinsAt(p, k)
  BY DEF PartAt, Restrict
<1>4. p.legs \in [DOMAIN p.legs -> Int] /\ DOMAIN p.legs \in SUBSET Coins
  BY HeldAssumption DEF Coins
<1>5. PartAt(p, k) \in [CoinsAt(p, k) -> Int] /\ CoinsAt(p, k) \in SUBSET Coins
  BY <1>1, <1>4 DEF PartAt, Restrict
<1>6. PartAt(p, k) \in Legs
  BY <1>5 DEF Legs
<1>7. NoLegs \in Legs
  BY LegsOf
<1>8. QED
  BY <1>1, <1>2, <1>3, <1>6, <1>7 DEF LegsAt

\* One that is not split has one row, for all of it.
LEMMA MainPart ==
  ASSUME NEW p \in Held, ~ Split(p)
  PROVE  /\ CoinsAt(p, MainKey(p)) = DOMAIN p.legs /\ PartAt(p, MainKey(p)) = p.legs
         /\ Due(p, MainKey(p)) = Net(p.legs) /\ Meant(p) = {MainKey(p)}
<1>1. \A c \in DOMAIN p.legs : KeyFor(p, c) = MainKey(p)
  BY DEF KeyFor, Split
<1>2. CoinsAt(p, MainKey(p)) = DOMAIN p.legs
  BY <1>1 DEF CoinsAt
<1>3. Restrict(p.legs, DOMAIN p.legs) = p.legs
  BY HeldAssumption DEF Restrict
<1>4. QED
  BY <1>2, <1>3 DEF PartAt, Due, Meant

LEMMA LpIs ==
  ASSUME NEW p \in Held, p.cat = "amm_lp"
  PROVE  /\ ~ Split(p) /\ ~ Doubled(p) /\ ~ Valuer(p) /\ MainKey(p) = PoolKey(p) /\ p.adapter # "staking"
         /\ LegsAt(p, PoolKey(p)) = p.legs /\ p.legs # NoLegs /\ p.legs \in Legs
         /\ Net(p.legs) \in Int /\ Net(p.legs) >= 0
<1>1. p.adapter \in {"cetus", "turbos", "momentum"} /\ DOMAIN p.legs # {} /\ \A c \in DOMAIN p.legs : p.legs[c] >= 0
  BY SourceAssumption
<1>2. ~ Split(p) /\ ~ Doubled(p) /\ ~ Valuer(p) /\ MainKey(p) = PoolKey(p) /\ p.adapter # "staking"
  BY <1>1 DEF Split, Doubled, Valuer, MainKey
<1>3. LegsAt(p, PoolKey(p)) = p.legs
  BY <1>2, MainPart DEF LegsAt
<1>4. p.legs # NoLegs
  BY <1>1 DEF NoLegs
<1>5. p.legs \in Legs
  BY LegsOf
<1> DEFINE D == DOMAIN p.legs
           f == p.legs
<1>6. IsFiniteSet(D) /\ f \in [D -> Int] /\ \A c \in D : f[c] \in Int /\ 0 <= f[c]
  BY <1>1, HeldAssumption
<1> HIDE DEF D, f
<1>7. SumFunction(f) = Total(f, D) /\ Total(f, D) \in Int /\ 0 <= Total(f, D)
  BY <1>6, TotalOfAll, TotalNat
<1>8. Net(p.legs) \in Int /\ Net(p.legs) >= 0
  BY <1>7 DEF Net, f
<1>9. QED
  BY <1>2, <1>3, <1>4, <1>5, <1>8

\* Positions of one pool are one protocol's, and have the same key.
LEMMA SameKindIs ==
  ASSUME NEW p \in Held, NEW q \in Held, SameKind(p, q)
  PROVE  /\ p.adapter = q.adapter /\ PoolKey(p) = PoolKey(q) /\ p.cat = q.cat
         /\ p.cat # "amm_lp" => p = q
BY HeldAssumption, SourceAssumption DEF SameKind, SamePool, PoolKey

\* Details that are there already add nothing.
LEMMA SpreadSame ==
  ASSUME NEW old, NEW new \in Legs, DOMAIN old \subseteq DOMAIN new
  PROVE  Spread(old, new) = new
<1>1. PICK D : new \in [D -> Int]
  BY DEF Legs
<1>2. DOMAIN old \cup DOMAIN new = DOMAIN new
  OBVIOUS
<1>3. QED
  BY <1>1, <1>2 DEF Spread

LEMMA EntireFields ==
  ASSUME NEW p \in Held, NEW r, Entire(r, p) \/ Hollow(r, p)
  PROVE  /\ r.of = p.id /\ r.key \in KeysOf(p) /\ r.cat = p.cat /\ r.protocol = p.protocol
         /\ r.source \in {"rpc", "native", "blockvision"}
         /\ r.legs \in Legs /\ r \in RowsAbout(p, {r.value}) /\ Rank(r) \in Int
         /\ Hollow(r, p) => Rank(r) = -1 /\ r.value = Null /\ r.source = "rpc" /\ DOMAIN r.legs = {}
<1>1. OwnedKey(p) \in KeysOf(p)
  BY MeantKeys
<1>2. Due(p, r.key) \in Int
  BY PartIs
<1>3. r \in RowsAbout(p, {r.value})
  BY DEF Entire, Hollow, RowsAbout
<1>4. Rank(r) \in Int /\ (Hollow(r, p) => Rank(r) = -1 /\ r.value = Null)
  BY <1>2 DEF Rank, Entire, Hollow, RowsAbout
<1>5. Hollow(r, p) => r.source = "rpc" /\ DOMAIN r.legs = {}
  BY DEF Hollow, NoLegs
<1>6. QED
  BY <1>3, <1>4, <1>5 DEF RowsAbout

\* Entire rows of one key hold the same coins.
LEMMA EntireCoins ==
  ASSUME NEW p \in Held, NEW q \in Held, NEW r, NEW new, Entire(new, p), Entire(r, q) \/ Hollow(r, q), r.key = new.key
  PROVE  Spread(r.legs, new.legs) = new.legs
<1> DEFINE k == new.key
<1>1. new.legs \in Legs /\ k \in KeysOf(p) /\ k \in KeysOf(q)
  BY EntireFields
<1>2. DOMAIN r.legs \subseteq DOMAIN new.legs
  <2>1. CASE Hollow(r, q)
    BY <2>1, EntireFields
  <2>2. CASE Entire(r, q) /\ p = q
    BY <2>2 DEF Entire
  <2>3. CASE Entire(r, q) /\ p # q
    <3>1. q.pool = p.pool /\ p.pool # NoPool /\ k = <<p.pool>>
      BY <1>1, <2>3, SharedKey
    <3>2. p.cat = "amm_lp" /\ q.cat = "amm_lp" /\ DOMAIN p.legs = DOMAIN q.legs
      BY <3>1, HeldAssumption
    <3>3. k = PoolKey(p) /\ k = PoolKey(q)
      BY <3>1 DEF PoolKey
    <3>4. r.legs = q.legs /\ new.legs = p.legs
      BY <2>3, <3>2, <3>3, LpIs DEF Entire
    <3>5. QED
      BY <3>2, <3>4
  <2>4. QED
    BY <2>1, <2>2, <2>3
<1>3. QED
  BY <1>1, <1>2, SpreadSame

\* Of two such rows the merge keeps one, a strong one if there is one.
LEMMA BetterIs ==
  ASSUME NEW w \in SUBSET Held, NEW E, NEW p \in w, NEW q \in w, ~ Doubled(p), ~ Doubled(q), NEW r, NEW new,
         Told(new, p, E), Told(r, q, E), r.key = new.key
  PROVE  /\ Better(r, new) \in {r, new}
         /\ Strong(r, w) \/ Strong(new, w) => Strong(Better(r, new), w)
<1> DEFINE b == Better(r, new)
           mixed == [new EXCEPT !.legs = Spread(r.legs, new.legs)]
<1>1. p \in Held /\ q \in Held /\ (Entire(new, p) \/ Hollow(new, p)) /\ (Entire(r, q) \/ Hollow(r, q))
  BY DEF Told
<1>2. /\ new \in RowsAbout(p, {new.value}) /\ Rank(new) \in Int /\ Rank(r) \in Int
      /\ Hollow(new, p) => Rank(new) = -1 /\ new.source = "rpc"
      /\ Hollow(r, q) => Rank(r) = -1 /\ r.source = "rpc"
      /\ new.key \in KeysOf(p) /\ r.key \in KeysOf(q)
  BY <1>1, EntireFields
<1>3. new.source # "rpc" => mixed = new
  <2> SUFFICES ASSUME new.source # "rpc" PROVE mixed = new
    OBVIOUS
  <2>1. Entire(new, p)
    BY <1>1, <1>2
  <2>2. Spread(r.legs, new.legs) = new.legs
    BY <1>1, <2>1, EntireCoins
  <2>3. QED
    BY <1>2, <2>2 DEF RowsAbout
<1>4. /\ b \in {r, new}
      /\ b = new => Rank(new) > Rank(r) \/ (Rank(new) = Rank(r) /\ new.source # "rpc") \/ b = r
      /\ b = r => (Rank(new) <= Rank(r) /\ ~ (Rank(new) = Rank(r) /\ new.source # "rpc" /\ r.source # "native")) \/ b = new
  BY <1>2, <1>3 DEF Better
<1>5. \A x : Strong(x, w) <=> Firm(x, w) /\ \E y \in w : ~ Doubled(y) /\ Entire(x, y)
  BY DEF Strong
<1>6. (Entire(new, p) /\ Firm(new, w) => Strong(new, w)) /\ (Entire(r, q) /\ Firm(r, w) => Strong(r, w))
  BY <1>5
<1>7. CASE \A y \in w : y.owned => OwnedKey(y) # new.key
  <2>1. Entire(new, p) /\ Entire(r, q)
    BY <1>1, <1>7 DEF Hollow
  <2>2. Firm(new, w) /\ Firm(r, w)
    BY <1>7 DEF Firm
  <2>3. QED
    BY <1>4, <1>6, <2>1, <2>2
<1>8. CASE ~ \A y \in w : y.owned => OwnedKey(y) # new.key
  <2>1. (Firm(new, w) <=> Rank(new) >= -1) /\ (Firm(r, w) <=> Rank(r) >= -1)
    BY <1>8 DEF Firm
  <2>2. ASSUME Strong(r, w), b = new PROVE Strong(new, w) \/ b = r
    <3>1. Rank(r) >= -1
      BY <1>5, <2>1, <2>2
    <3>2. (Entire(new, p) /\ Rank(new) >= -1) \/ b = r
      BY <1>1, <1>2, <1>4, <2>2, <3>1
    <3>3. QED
      BY <1>6, <2>1, <3>2
  <2>3. ASSUME Strong(new, w), b = r PROVE Strong(r, w) \/ b = new
    <3>1. Rank(new) >= -1
      BY <1>5, <2>1, <2>3
    <3>2. CASE Entire(r, q)
      BY <1>2, <1>4, <1>6, <2>1, <2>3, <3>1, <3>2
    <3>3. CASE Hollow(r, q)
      <4>1. new.source = "rpc" \/ b = new
        BY <1>2, <1>4, <2>3, <3>1, <3>3
      <4>2. PICK y \in w : Entire(new, y)
        BY <1>5, <2>3
      <4>3. new.source = "rpc" => y.adapter = "staking" /\ y \in Held
        BY <4>2 DEF Entire
      <4>4. new.key \in KeysOf(y) /\ y \in Held
        BY <4>2, EntireFields
      <4>5. SameKind(q, y)
        BY <1>1, <1>2, <4>4, KeysMeet
      <4>6. q.adapter # "staking"
        BY <3>3 DEF Hollow
      <4>7. y.adapter # "staking"
        BY <1>1, <4>4, <4>5, <4>6, SameKindIs
      <4>8. QED
        BY <4>1, <4>3, <4>7
    <3>4. QED
      BY <1>1, <3>2, <3>3
  <2>4. QED
    BY <1>4, <2>2, <2>3
<1>9. QED
  BY <1>4, <1>7, <1>8

LEMMA ToldIs ==
  ASSUME NEW w \in SUBSET Held, NEW E, NEW p \in w, NEW r, Told(r, p, E)
  PROVE  /\ p \in Held /\ r.of = p.id /\ r.key \in KeysOf(p) /\ r.cat = p.cat /\ r.protocol = p.protocol
         /\ r \in RowsAbout(p, {r.value}) /\ IsRow(r, w)
<1>1. p \in Held
  OBVIOUS
<1>2. r \in RowsAbout(p, {r.value})
  BY <1>1, EntireFields DEF Told
<1>3. QED
  BY <1>1, <1>2 DEF RowsAbout, IsRow, RowsOn

\* A doubled position has its keys for itself.
LEMMA DoubledAlone ==
  ASSUME NEW p \in Held, NEW q \in Held, NEW k, k \in KeysOf(p), k \in KeysOf(q), Doubled(p)
  PROVE  p = q
<1>1. p.cat # "amm_lp"
  BY SourceAssumption DEF Doubled
<1>2. SameKind(p, q)
  BY KeysMeet
<1>3. QED
  BY <1>1, <1>2, SameKindIs

LEMMA StrongIs ==
  ASSUME NEW w \in SUBSET Held, NEW E, NEW p \in w, NEW r, Told(r, p, E), Strong(r, w)
  PROVE  ~ Doubled(p) /\ Entire(r, p) /\ Firm(r, w)
<1>1. PICK q \in w : ~ Doubled(q) /\ Entire(r, q)
  BY DEF Strong
<1>2. p \in Held /\ r.of = p.id
  BY ToldIs
<1>3. q \in Held /\ r.of = q.id
  BY <1>1, EntireFields
<1>4. p = q
  BY <1>2, <1>3, HeldAssumption
<1>5. QED
  BY <1>1, <1>4 DEF Strong

\* What the merge makes of two rows of one key.
LEMMA BetterTells ==
  ASSUME NEW w \in SUBSET Held, NEW E, NEW r, NEW new, ToldIn(r, w, E), ToldIn(new, w, E), r.key = new.key
  PROVE  /\ ToldIn(Better(r, new), w, E)
         /\ Strong(r, w) \/ Strong(new, w) => Strong(Better(r, new), w)
<1>1. PICK p \in w : Told(new, p, E)
  BY DEF ToldIn
<1>2. PICK q \in w : Told(r, q, E)
  BY DEF ToldIn
<1>3. /\ p \in Held /\ q \in Held /\ new.key \in KeysOf(p) /\ r.key \in KeysOf(q)
      /\ r \in RowsAbout(q, {r.value}) /\ new \in RowsAbout(p, {new.value})
  BY <1>1, <1>2, ToldIs
<1>4. CASE Doubled(p) \/ Doubled(q)
  <2>1. p = q /\ Doubled(p)
    BY <1>3, <1>4, DoubledAlone
  <2> DEFINE V == {r.value, new.value}
             b == Better(r, new)
  <2>2. RowsOn({p}, V) = RowsAbout(p, V)
    BY DEF RowsOn
  <2>3. r \in RowsAbout(p, V) /\ new \in RowsAbout(p, V)
    BY <1>3, <2>1 DEF RowsAbout
  <2>4. Better(r, new) \in RowsAbout(p, V)
    BY <2>2, <2>3, RowsJoin DEF Closed
  <2> HIDE DEF V
  <2>5. b \in RowsAbout(p, {b.value})
    <3> HIDE DEF b
    <3>1. b \in RowsAbout(p, V)
      BY <2>4 DEF b
    <3>2. QED
      BY <3>1 DEF RowsAbout
  <2>6. ToldIn(b, w, E)
    BY <2>1, <2>5 DEF Told, ToldIn
  <2>7. ~ Strong(r, w) /\ ~ Strong(new, w)
    BY <1>1, <1>2, <2>1, StrongIs
  <2>8. QED
    BY <2>6, <2>7
<1>5. CASE ~ Doubled(p) /\ ~ Doubled(q)
  <2>1. /\ Better(r, new) \in {r, new}
        /\ Strong(r, w) \/ Strong(new, w) => Strong(Better(r, new), w)
    BY <1>1, <1>2, <1>5, BetterIs
  <2>2. QED
    BY <2>1
<1>6. QED
  BY <1>4, <1>5

\* Told rows stay told, and a strong one's key keeps one.
LEMMA PutTells ==
  ASSUME NEW w \in SUBSET Held, NEW E, NEW rs, NEW new, ToldIn(new, w, E), \A r \in rs : ToldIn(r, w, E)
  PROVE  /\ Strong(new, w) => HasStrong(Put(rs, new), new.key, w)
         /\ \A k : HasStrong(rs, k, w) => HasStrong(Put(rs, new), k, w)
<1> DEFINE old == {r \in rs : r.key = new.key}
           B(x) == Better(x, new)
<1>1. Put(rs, new) = (rs \ old) \cup IF old = {} THEN {new} ELSE {B(x) : x \in old}
  BY DEF Put
<1>2. ASSUME NEW r \in old, Strong(r, w) \/ Strong(new, w)
      PROVE  Strong(B(r), w) /\ B(r).key = new.key /\ B(r) \in Put(rs, new)
  <2>1. Strong(B(r), w) /\ ToldIn(B(r), w, E)
    BY <1>2, BetterTells
  <2>2. B(r).key = new.key
    <3>1. PICK p \in w : Told(new, p, E)
      BY DEF ToldIn
    <3>2. PICK q \in w : Told(r, q, E)
      BY DEF ToldIn
    <3>3. ~ Doubled(p) /\ ~ Doubled(q)
      <4>1. new.key \in KeysOf(p) /\ r.key \in KeysOf(q) /\ r.key = new.key /\ p \in Held /\ q \in Held
        BY <3>1, <3>2, ToldIs
      <4>2. ~ (Doubled(p) /\ Doubled(q))
        BY <1>2, <3>1, <3>2, StrongIs
      <4>3. QED
        BY <4>1, <4>2, DoubledAlone
    <3>4. B(r) \in {r, new}
      BY <3>1, <3>2, <3>3, BetterIs
    <3>5. QED
      BY <3>4
  <2> HIDE DEF B
  <2>3. B(r) \in Put(rs, new)
    BY <1>1
  <2>4. QED
    BY <2>1, <2>2, <2>3
<1> HIDE DEF B
<1>3. Strong(new, w) => HasStrong(Put(rs, new), new.key, w)
  <2>1. CASE old = {}
    BY <1>1, <2>1 DEF HasStrong
  <2>2. CASE old # {}
    BY <1>2, <2>2 DEF HasStrong
  <2>3. QED
    BY <2>1, <2>2
<1>4. ASSUME NEW k, HasStrong(rs, k, w) PROVE HasStrong(Put(rs, new), k, w)
  <2>1. PICK r \in rs : r.key = k /\ Strong(r, w)
    BY <1>4 DEF HasStrong
  <2>2. CASE k = new.key
    BY <1>2, <2>1, <2>2 DEF HasStrong
  <2>3. CASE k # new.key
    BY <1>1, <2>1, <2>3 DEF HasStrong
  <2>4. QED
    BY <2>2, <2>3
<1>5. QED
  BY <1>3, <1>4

LEMMA MergeTells ==
  ASSUME NEW w \in SUBSET Held, NEW E, NEW A, NEW s \in Seq(A), \A r \in A : ToldIn(r, w, E)
  PROVE  /\ \A r \in Merge(s) : ToldIn(r, w, E)
         /\ \A r \in Range(s) : Strong(r, w) => HasStrong(Merge(s), r.key, w)
<1> DEFINE V == {r.value : r \in A}
           T == {r \in RowsOn(w, V) : ToldIn(r, w, E)}
<1>1. ASSUME NEW r \in A PROVE r \in T
  <2>1. PICK p \in w : Told(r, p, E)
    BY DEF ToldIn
  <2>2. IsRow(r, w)
    BY <2>1, ToldIs
  <2>3. r \in RowsOn(w, V)
    BY <2>2, RowIs
  <2>4. QED
    BY <2>3
<1>2. Closed(T)
  <2> SUFFICES ASSUME NEW r \in T, NEW new \in T, r.key = new.key
               PROVE  Better(r, new) \in T /\ Better(r, new).key = new.key
    BY DEF Closed
  <2>1. Better(r, new) \in RowsOn(w, V) /\ Better(r, new).key = new.key
    BY RowsJoin DEF Closed
  <2>2. ToldIn(Better(r, new), w, E)
    BY BetterTells
  <2>3. QED
    BY <2>1, <2>2
<1>3. \A r \in T : ToldIn(r, w, E)
  OBVIOUS
<1> HIDE DEF T
<1>4. s \in Seq(T)
  BY <1>1
<1>5. PICK g \in [0..Len(s) -> SUBSET T] :
           /\ g[0] = {} /\ Merge(s) = g[Len(s)]
           /\ \A i \in 1..Len(s) : g[i] = Put(g[i - 1], s[i])
  BY <1>2, <1>4, MergeSteps
<1>6. Len(s) \in Nat
  OBVIOUS
<1> DEFINE n == Len(s)
           Good(i) == \A j \in 1..i : Strong(s[j], w) => HasStrong(g[i], s[j].key, w)
           P == {i \in Nat : i \in 0..n => Good(i)}
<1>7. 0 \in P
  OBVIOUS
<1>8. ASSUME NEW i \in Nat, i \in P PROVE i + 1 \in P
  <2> SUFFICES ASSUME i + 1 \in 1..n PROVE Good(i + 1)
    OBVIOUS
  <2>1. i \in 0..n /\ i + 1 \in 1..n /\ (i + 1) - 1 = i
    OBVIOUS
  <2>2. Good(i) /\ g[i + 1] = Put(g[i], s[i + 1]) /\ s[i + 1] \in T /\ g[i] \in SUBSET T
    BY <1>4, <1>5, <1>8, <2>1
  <2> DEFINE new == s[i + 1]
             rs == g[i]
             next == g[i + 1]
  <2>3. ToldIn(new, w, E) /\ \A r \in rs : ToldIn(r, w, E)
    BY <1>3, <2>2
  <2>4. next = Put(rs, new)
    BY <2>2
  <2> HIDE DEF new, rs, next
  <2>5. /\ Strong(new, w) => HasStrong(next, new.key, w)
        /\ \A k : HasStrong(rs, k, w) => HasStrong(next, k, w)
    BY <2>3, <2>4, PutTells
  <2>6. \A j \in 1..i : Strong(s[j], w) => HasStrong(next, s[j].key, w)
    BY <2>2, <2>5 DEF rs
  <2>7. \A j \in 1..(i + 1) : j = i + 1 \/ j \in 1..i
    OBVIOUS
  <2>8. \A j \in 1..(i + 1) : Strong(s[j], w) => HasStrong(next, s[j].key, w)
    BY <2>5, <2>6, <2>7 DEF new
  <2>9. QED
    BY <2>8 DEF next
<1>9. Good(n)
  <2> HIDE DEF Good
  <2>1. Nat \subseteq P
    <3> HIDE DEF P
    <3>1. QED
      BY <1>7, <1>8, NatInd
  <2>2. QED
    BY <1>6, <2>1
<1>10. Merge(s) \in SUBSET T
  BY <1>5, <1>6
<1>11. \A r \in Range(s) : \E j \in 1..n : s[j] = r
  BY DEF Range
<1>12. QED
  BY <1>3, <1>5, <1>9, <1>10, <1>11

\* What every read and every price gives.
LEMMA CalmReads ==
  ASSUME NEW w \in SUBSET Held, NEW a
  PROVE  LET all == ReadsOf(a, w)
         IN /\ Listed(w, a, all) = Of(w, a) /\ Found(w, a, all) = Of(w, a) /\ List(a) \in all
            /\ \A p \in Of(w, a) : Read(p) \in all /\ \A c \in DOMAIN p.legs : Market(c) \in all
<1> DEFINE all == ReadsOf(a, w)
<1>1. List(a) \in all
  BY DEF ReadsOf
<1>2. \A p \in Of(w, a) : Read(p) \in all
  BY DEF ReadsOf
<1>3. ASSUME NEW p \in Of(w, a), NEW c \in DOMAIN p.legs PROVE Market(c) \in all
  <2> DEFINE C == UNION {DOMAIN q.legs : q \in Of(w, a)}
             M(x) == Market(x)
  <2>1. c \in C
    BY <1>3
  <2>2. all = {List(a)} \cup {Read(q) : q \in Of(w, a)} \cup {M(x) : x \in C}
    BY DEF ReadsOf
  <2> HIDE DEF C, M, all
  <2>3. M(c) \in all
    BY <2>1, <2>2
  <2>4. QED
    BY <2>3 DEF M
<1> HIDE DEF all
<1>4. Listed(w, a, all) = Of(w, a)
  BY <1>1 DEF Listed
<1>5. Found(w, a, all) = Of(w, a)
  BY <1>2, <1>4 DEF Found
<1>6. QED
  BY <1>1, <1>2, <1>3, <1>4, <1>5 DEF all

LEMMA AllAccrued ==
  ASSUME NEW legs \in Legs, NEW up, \A c \in DOMAIN legs : Market(c) \in up
  PROVE  Accrued(legs, up) = legs
<1>1. PICK D : legs \in [D -> Int]
  BY DEF Legs
<1> DEFINE half(c) == legs[c] \div 2
<1>2. Accrued(legs, up) = [c \in DOMAIN legs |-> IF Market(c) \in up THEN legs[c] ELSE half(c)]
  BY DEF Accrued
<1> HIDE DEF half
<1>3. QED
  BY <1>1, <1>2

LEMMA AllHavePrices ==
  ASSUME NEW legs \in Legs, NEW priced, Coins \subseteq priced
  PROVE  PricedLegs(legs, priced) = legs /\ AllPriced(legs, priced) = Net(legs)
<1>1. PICK D \in SUBSET Coins : legs \in [D -> Int]
  BY DEF Legs
<1>2. DOMAIN legs \cap priced = DOMAIN legs /\ DOMAIN legs \subseteq priced
  BY <1>1
<1>3. Restrict(legs, DOMAIN legs) = legs
  BY <1>1 DEF Restrict
<1>4. QED
  BY <1>2, <1>3 DEF PricedLegs, AllPriced

\* A row of a whole position.
Fits(p, v) == v = IF p.adapter \in {"staking", "navi", "scoin"} THEN Null ELSE Net(p.legs)
IsMain(r, p) == \E v : Fits(p, v) /\ r = Row(p, MainKey(p), "native", IF Valuer(p) THEN NoLegs ELSE p.legs, v)

\* One for each of an adapter's positions.
Answers(R, w, a) ==
  (\A r \in R : \E p \in Of(w, a) : IsMain(r, p)) /\ \A p \in Of(w, a) : \E r \in R : IsMain(r, p)

\* A row of a position that is not split, as its adapter or BlockVision makes it.
LEMMA MainRow ==
  ASSUME NEW w \in SUBSET Held, NEW p \in w, ~ Split(p), ~ Shut(p), NEW source \in {"native", "blockvision"}, NEW v,
         v = Net(p.legs) \/ (v = Null /\ ~ Valuer(p))
  PROVE  LET r == Row(p, MainKey(p), source, IF Valuer(p) THEN NoLegs ELSE p.legs, v)
         IN /\ Entire(r, p) /\ r.key = MainKey(p) /\ ~ Doubled(p)
            /\ v = Null \/ Net(p.legs) >= 0 \/ (Valuer(p) /\ ~ Sunk(p)) \/ (p.adapter = "ember" /\ ~ Sunk(p)) => Strong(r, w)
<1> DEFINE r == Row(p, MainKey(p), source, IF Valuer(p) THEN NoLegs ELSE p.legs, v)
           legs == IF Valuer(p) THEN NoLegs ELSE p.legs
<1>1. p \in Held /\ ~ Doubled(p)
  BY DEF Split, Doubled
<1>2. LegsAt(p, MainKey(p)) = legs /\ Due(p, MainKey(p)) = Net(p.legs) /\ MainKey(p) \in Meant(p)
  BY <1>1, MainPart DEF LegsAt
<1>3. legs \in Legs /\ MainKey(p) \in KeysOf(p)
  BY <1>1, LegsOf, MeantKeys
<1>4. /\ r \in RowsAbout(p, {r.value}) /\ r.key = MainKey(p) /\ r.legs = legs /\ r.value = v /\ r.source = source
  BY <1>3 DEF Row, RowsAbout
<1> HIDE DEF r, legs
<1>5. Entire(r, p)
  BY <1>2, <1>4 DEF Entire
<1>6. Net(p.legs) \in Int
  BY <1>1, SoundValues
<1>7. ASSUME v = Null \/ Net(p.legs) >= 0 PROVE Firm(r, w)
  BY <1>4, <1>6, <1>7 DEF Firm, Rank
<1>8. ASSUME Valuer(p) \/ p.adapter = "ember", ~ Sunk(p) PROVE Firm(r, w)
  <2>1. CASE Net(p.legs) >= 0
    BY <1>7, <2>1
  <2>2. CASE Net(p.legs) < 0
    <3> SUFFICES ASSUME NEW q \in w, q.owned, OwnedKey(q) = MainKey(p) PROVE FALSE
      BY <1>4 DEF Firm
    <3>1. q \in Held /\ OwnedKey(q) \in KeysOf(q) /\ MainKey(p) \in KeysOf(p)
      BY <1>1, MeantKeys
    <3>2. p.cat # "amm_lp"
      BY <1>1, <1>8, SourceAssumption DEF Valuer
    <3>3. p = q
      BY <1>1, <3>1, <3>2, KeysMeet, SameKindIs
    <3>4. p.adapter = "deepbook"
      BY <1>8, <2>2, <3>3 DEF Sunk, Valuer
    <3>5. MainKey(p) = <<p.id, "pool">> /\ OwnedKey(q) \in {<<q.id>>, <<q.pool>>}
      BY <3>4 DEF MainKey, OwnedKey, PoolKey
    <3>6. QED
      BY <3>5
  <2>3. QED
    BY <1>6, <2>1, <2>2
<1>9. QED
  BY <1>1, <1>4, <1>5, <1>7, <1>8 DEF Strong, r, legs

LEMMA AnswersTell ==
  ASSUME NEW w \in SUBSET Held, NEW E, NEW a, a \notin {"scallop", "suilend", "cetus", "turbos"}, NEW R, Answers(R, w, a)
  PROVE  /\ \A r \in R : ToldIn(r, w, E)
         /\ \A p \in Of(w, a) : Sunk(p) \/ \A k \in Meant(p) : HasStrong(R, k, w)
<1>1. ASSUME NEW p \in Of(w, a), NEW r, IsMain(r, p)
      PROVE  ToldIn(r, w, E) /\ (Sunk(p) \/ (Strong(r, w) /\ Meant(p) = {r.key}))
  <2>1. p \in w /\ p \in Held /\ p.adapter = a
    BY DEF Of
  <2>2. ~ Split(p) /\ ~ Shut(p)
    BY <2>1 DEF Split, Shut
  <2>3. PICK v : Fits(p, v) /\ r = Row(p, MainKey(p), "native", IF Valuer(p) THEN NoLegs ELSE p.legs, v)
    BY <1>1 DEF IsMain
  <2>4. v = Net(p.legs) \/ (v = Null /\ ~ Valuer(p))
    BY <2>3 DEF Fits, Valuer
  <2>5. /\ Entire(r, p) /\ r.key = MainKey(p) /\ ~ Doubled(p)
        /\ v = Null \/ Net(p.legs) >= 0 \/ (Valuer(p) /\ ~ Sunk(p)) \/ (p.adapter = "ember" /\ ~ Sunk(p)) => Strong(r, w)
    BY <2>1, <2>2, <2>3, <2>4, MainRow
  <2>6. p.adapter = "momentum" => Net(p.legs) >= 0
    BY <2>1, SourceAssumption, LpIs
  <2>7. p.adapter \in {"staking", "navi", "scoin"} => v = Null
    BY <2>3 DEF Fits
  <2>8. p.adapter \in {"staking", "navi", "scoin", "momentum", "ember"} \/ Valuer(p)
    BY <2>1, SourceAssumption DEF Adapter, ToSet, Valuer
  <2>9. Strong(r, w) \/ Sunk(p)
    BY <2>5, <2>6, <2>7, <2>8
  <2>10. ToldIn(r, w, E)
    BY <2>1, <2>5 DEF ToldIn, Told
  <2>11. Meant(p) = {r.key}
    BY <2>2, <2>5 DEF Meant
  <2>12. QED
    BY <2>9, <2>10, <2>11
<1>2. QED
  BY <1>1 DEF Answers, HasStrong

\* What a position's own adapter has of it, when all of it was read.
Markets(a, w) == {c \in Coins : Market(c) \in ReadsOf(a, w)}

AllRead(p, a, w) ==
  /\ Accrued(p.legs, ReadsOf(a, w)) = p.legs
  /\ AllPriced(p.legs, Coins) = Net(p.legs) /\ AllPriced(p.legs, Coins \cup {"usdb"}) = Net(p.legs)
  /\ PricedLegs(p.legs, Coins) = p.legs /\ PricedLegs(p.legs, Markets(a, w)) = p.legs

AsMain(p, a) ==
  /\ a \in {"staking", "navi", "scoin"} => IsMain(Row(p, <<p.id>>, "native", p.legs, Null), p)
  /\ a = "ember" => IsMain(Row(p, <<p.id>>, "native", p.legs, Net(p.legs)), p)
  /\ a \in {"bluefin", "bucket", "haedal", "alphalend"} =>
       IsMain(Row(p, <<p.id>>, "native", NoLegs, Net(p.legs)), p)
  /\ a = "deepbook" => IsMain(Row(p, <<p.id, "pool">>, "native", NoLegs, Net(p.legs)), p)
  /\ a = "momentum" => IsMain(Row(p, PoolKey(p), "native", p.legs, Net(p.legs)), p)

LEMMA MainOf ==
  ASSUME NEW w \in SUBSET Held, NEW a, NEW p \in Of(w, a)
  PROVE  AllRead(p, a, w) /\ AsMain(p, a)
<1> DEFINE U == ReadsOf(a, w)
<1>1. p \in Held /\ p.adapter = a /\ p.legs \in Legs /\ DOMAIN p.legs \subseteq Coins
  BY LegsOf DEF Of, Coins
<1>2. \A c \in DOMAIN p.legs : Market(c) \in U
  BY CalmReads
<1> HIDE DEF U
<1>3. Accrued(p.legs, U) = p.legs
  BY <1>1, <1>2, AllAccrued
<1>4. /\ AllPriced(p.legs, Coins) = Net(p.legs) /\ AllPriced(p.legs, Coins \cup {"usdb"}) = Net(p.legs)
      /\ PricedLegs(p.legs, Coins) = p.legs
  BY <1>1, AllHavePrices
<1>5. PricedLegs(p.legs, Markets(a, w)) = p.legs
  <2> DEFINE K == Markets(a, w)
  <2>1. DOMAIN p.legs \cap K = DOMAIN p.legs
    BY <1>1, <1>2 DEF Markets, U
  <2> HIDE DEF K
  <2>2. Restrict(p.legs, DOMAIN p.legs) = p.legs
    BY <1>1, HeldAssumption DEF Restrict
  <2>3. PricedLegs(p.legs, K) = p.legs
    BY <2>1, <2>2 DEF PricedLegs
  <2>4. QED
    BY <2>3 DEF K
<1>6. a \in {"staking", "navi", "scoin"} => IsMain(Row(p, <<p.id>>, "native", p.legs, Null), p)
  <2> SUFFICES ASSUME a \in {"staking", "navi", "scoin"} PROVE IsMain(Row(p, <<p.id>>, "native", p.legs, Null), p)
    OBVIOUS
  <2>1. MainKey(p) = <<p.id>> /\ ~ Valuer(p) /\ Fits(p, Null)
    BY <1>1 DEF MainKey, Valuer, Fits
  <2>2. QED
    BY <2>1 DEF IsMain
<1>7. a = "ember" => IsMain(Row(p, <<p.id>>, "native", p.legs, Net(p.legs)), p)
  <2> SUFFICES ASSUME a = "ember" PROVE IsMain(Row(p, <<p.id>>, "native", p.legs, Net(p.legs)), p)
    OBVIOUS
  <2>1. MainKey(p) = <<p.id>> /\ ~ Valuer(p) /\ Fits(p, Net(p.legs))
    BY <1>1 DEF MainKey, Valuer, Fits
  <2>2. QED
    BY <2>1 DEF IsMain
<1>8. a \in {"bluefin", "bucket", "haedal", "alphalend"} =>
        IsMain(Row(p, <<p.id>>, "native", NoLegs, Net(p.legs)), p)
  <2> SUFFICES ASSUME a \in {"bluefin", "bucket", "haedal", "alphalend"}
               PROVE IsMain(Row(p, <<p.id>>, "native", NoLegs, Net(p.legs)), p)
    OBVIOUS
  <2>1. MainKey(p) = <<p.id>> /\ Valuer(p) /\ Fits(p, Net(p.legs))
    BY <1>1 DEF MainKey, Valuer, Fits
  <2>2. QED
    BY <2>1 DEF IsMain
<1>9. a = "deepbook" => IsMain(Row(p, <<p.id, "pool">>, "native", NoLegs, Net(p.legs)), p)
  <2> SUFFICES ASSUME a = "deepbook" PROVE IsMain(Row(p, <<p.id, "pool">>, "native", NoLegs, Net(p.legs)), p)
    OBVIOUS
  <2>1. MainKey(p) = <<p.id, "pool">> /\ Valuer(p) /\ Fits(p, Net(p.legs))
    BY <1>1 DEF MainKey, Valuer, Fits
  <2>2. QED
    BY <2>1 DEF IsMain
<1>10. a = "momentum" => IsMain(Row(p, PoolKey(p), "native", p.legs, Net(p.legs)), p)
  <2> SUFFICES ASSUME a = "momentum" PROVE IsMain(Row(p, PoolKey(p), "native", p.legs, Net(p.legs)), p)
    OBVIOUS
  <2>1. MainKey(p) = PoolKey(p) /\ ~ Valuer(p) /\ Fits(p, Net(p.legs))
    BY <1>1 DEF MainKey, Valuer, Fits
  <2>2. QED
    BY <2>1 DEF IsMain
<1>11. QED
  BY <1>3, <1>4, <1>5, <1>6, <1>7, <1>8, <1>9, <1>10 DEF U, AllRead, AsMain

\* Adapter by adapter: a row for every position.
LEMMA RowsAnswer ==
  ASSUME NEW w \in SUBSET Held, NEW a \in ToSet(Adapter) \ {"scallop", "suilend", "blockvision"}
  PROVE  Answers(RowsOf(a, w, ReadsOf(a, w), Coins), w, a)
<1> DEFINE U == ReadsOf(a, w)
           S == Of(w, a)
           R == RowsOf(a, w, U, Coins)
<1>1. /\ Listed(w, a, U) = S /\ Found(w, a, U) = S
      /\ \A p \in S : Read(p) \in U /\ \A c \in DOMAIN p.legs : Market(c) \in U
  BY CalmReads
<1>2. \A p \in S : AllRead(p, a, w) /\ AsMain(p, a)
  BY MainOf
<1>3. SUFFICES \E f : R = {f[p] : p \in S} /\ \A p \in S : IsMain(f[p], p)
  <2> HIDE DEF R
  <2>1. Answers(R, w, a)
    BY <1>3 DEF Answers
  <2>2. QED
    BY <2>1 DEF R
<1>4. CASE a = "staking"
  <2> DEFINE g(p) == Row(p, <<p.id>>, "native", p.legs, Null)
             f == [p \in S |-> Row(p, <<p.id>>, "native", p.legs, Null)]
  <2>1. R = {g(p) : p \in S}
    BY <1>1, <1>4 DEF RowsOf, StakingRows
  <2>2. \A p \in S : g(p) = f[p]
    BY <1>2 DEF AllRead
  <2>3. \A p \in S : IsMain(f[p], p)
    BY <1>4, <1>2 DEF AsMain
  <2> HIDE DEF f, g, R, S, U
  <2>4. QED
    BY <2>1, <2>2, <2>3
<1>5. CASE a = "navi"
  <2> DEFINE g(p) == Row(p, <<p.id>>, "native", Accrued(p.legs, U), Null)
             f == [p \in S |-> Row(p, <<p.id>>, "native", p.legs, Null)]
  <2>1. R = {g(p) : p \in S}
    BY <1>1, <1>5 DEF RowsOf, NaviRows
  <2>2. \A p \in S : g(p) = f[p]
    BY <1>2 DEF AllRead
  <2>3. \A p \in S : IsMain(f[p], p)
    BY <1>5, <1>2 DEF AsMain
  <2> HIDE DEF f, g, R, S, U
  <2>4. QED
    BY <2>1, <2>2, <2>3
<1>6. CASE a = "scoin"
  <2> DEFINE g(p) == Row(p, <<p.id>>, "native", Accrued(p.legs, U), Null)
             f == [p \in S |-> Row(p, <<p.id>>, "native", p.legs, Null)]
  <2>1. R = {g(p) : p \in S}
    BY <1>1, <1>6 DEF RowsOf, ScoinRows
  <2>2. \A p \in S : g(p) = f[p]
    BY <1>2 DEF AllRead
  <2>3. \A p \in S : IsMain(f[p], p)
    BY <1>6, <1>2 DEF AsMain
  <2> HIDE DEF f, g, R, S, U
  <2>4. QED
    BY <2>1, <2>2, <2>3
<1>7. CASE a = "bluefin"
  <2> DEFINE g(p) == Row(p, <<p.id>>, "native", NoLegs, AllPriced(p.legs, Coins))
             f == [p \in S |-> Row(p, <<p.id>>, "native", NoLegs, Net(p.legs))]
  <2>1. R = {g(p) : p \in S}
    BY <1>1, <1>7 DEF RowsOf, BluefinRows
  <2>2. \A p \in S : g(p) = f[p]
    BY <1>2 DEF AllRead
  <2>3. \A p \in S : IsMain(f[p], p)
    BY <1>7, <1>2 DEF AsMain
  <2> HIDE DEF f, g, R, S, U
  <2>4. QED
    BY <2>1, <2>2, <2>3
<1>8. CASE a = "haedal"
  <2> DEFINE g(p) == Row(p, <<p.id>>, "native", NoLegs, AllPriced(p.legs, Coins))
             f == [p \in S |-> Row(p, <<p.id>>, "native", NoLegs, Net(p.legs))]
  <2>1. R = {g(p) : p \in S}
    BY <1>1, <1>8 DEF RowsOf, HaedalRows
  <2>2. \A p \in S : g(p) = f[p]
    BY <1>2 DEF AllRead
  <2>3. \A p \in S : IsMain(f[p], p)
    BY <1>8, <1>2 DEF AsMain
  <2> HIDE DEF f, g, R, S, U
  <2>4. QED
    BY <2>1, <2>2, <2>3
<1>9. CASE a = "bucket"
  <2> DEFINE g(p) == Row(p, <<p.id>>, "native", NoLegs, AllPriced(p.legs, Coins \cup {"usdb"}))
             f == [p \in S |-> Row(p, <<p.id>>, "native", NoLegs, Net(p.legs))]
  <2>0. \A p \in Of(w, "bucket") : \A c \in DOMAIN p.legs : Market(c) \in U
    BY <1>1, <1>9
  <2>1. R = {g(p) : p \in S}
    <3> HIDE DEF U
    <3>1. QED
      BY <1>1, <1>9, <2>0 DEF RowsOf, BucketRows
  <2>2. \A p \in S : g(p) = f[p]
    BY <1>2 DEF AllRead
  <2>3. \A p \in S : IsMain(f[p], p)
    BY <1>9, <1>2 DEF AsMain
  <2> HIDE DEF f, g, R, S, U
  <2>4. QED
    BY <2>1, <2>2, <2>3
<1>10. CASE a = "alphalend"
  <2> DEFINE g(p) == Row(p, <<p.id>>, "native", NoLegs, Net(PricedLegs(p.legs, Markets(a, w))))
             f == [p \in S |-> Row(p, <<p.id>>, "native", NoLegs, Net(p.legs))]
  <2>1. R = {g(p) : p \in S}
    BY <1>1, <1>10 DEF RowsOf, AlphaLendRows, Markets
  <2>2. \A p \in S : g(p) = f[p]
    BY <1>2 DEF AllRead
  <2>3. \A p \in S : IsMain(f[p], p)
    BY <1>10, <1>2 DEF AsMain
  <2> HIDE DEF f, g, R, S, U
  <2>4. QED
    BY <2>1, <2>2, <2>3
<1>11. CASE a = "deepbook"
  <2> DEFINE g(p) == Row(p, <<p.id, "pool">>, "native", NoLegs, AllPriced(p.legs, Coins))
             f == [p \in S |-> Row(p, <<p.id, "pool">>, "native", NoLegs, Net(p.legs))]
  <2> DEFINE probed == {p \in Listed(w, "deepbook", U) : \A c \in DOMAIN p.legs : Market(c) \in U}
  <2>0. probed = S /\ \A p \in probed : Read(p) \in U
    BY <1>1, <1>11
  <2>1. R = {g(p) : p \in S}
    <3>1. R = IF \A p \in probed : Read(p) \in U THEN {g(p) : p \in probed} ELSE {}
      BY <1>11 DEF RowsOf, DeepbookRows
    <3> HIDE DEF probed, g, U, R
    <3>2. QED
      BY <2>0, <3>1
  <2>2. \A p \in S : g(p) = f[p]
    BY <1>2 DEF AllRead
  <2>3. \A p \in S : IsMain(f[p], p)
    BY <1>11, <1>2 DEF AsMain
  <2> HIDE DEF f, g, R, S, U
  <2>4. QED
    BY <2>1, <2>2, <2>3
<1>12. CASE a = "momentum"
  <2> DEFINE g(p) == Row(p, PoolKey(p), "native", p.legs, LET known == PricedLegs(p.legs, Coins) IN IF DOMAIN known = {} THEN Null ELSE Net(known))
             f == [p \in S |-> Row(p, PoolKey(p), "native", p.legs, Net(p.legs))]
  <2>1. R = {g(p) : p \in S}
    BY <1>1, <1>12 DEF RowsOf, MomentumRows
  <2>2. ASSUME NEW p \in S PROVE g(p) = f[p]
    <3>1. DOMAIN p.legs # {}
      BY <1>12, SourceAssumption DEF Of
    <3>2. QED
      BY <1>2, <3>1 DEF AllRead
  <2>3. \A p \in S : IsMain(f[p], p)
    BY <1>12, <1>2 DEF AsMain
  <2> HIDE DEF f, g, R, S, U
  <2>4. QED
    BY <2>1, <2>2, <2>3
<1>13. CASE a = "ember"
  <2> DEFINE f == [p \in S |-> Row(p, <<p.id>>, "native", p.legs, Net(p.legs))]
             api == {Row(p, <<p.id>>, "native", p.legs, Net(p.legs)) : p \in Found(w, "ember", U)}
             receipts == {Row(p, <<p.id>>, "native", p.legs, Null) : p \in Listed(w, "ember", U)}
  <2>1. R = IF api # {} THEN api ELSE receipts
    BY <1>13 DEF RowsOf, EmberRows
  <2>2. api = {f[p] : p \in S} /\ (S = {} => receipts = {})
    BY <1>1, <1>13
  <2>3. \A p \in S : IsMain(f[p], p)
    BY <1>13, <1>2 DEF AsMain
  <2> HIDE DEF f, api, receipts, R, S, U
  <2>4. R = {f[p] : p \in S}
    BY <2>1, <2>2
  <2>5. QED
    BY <2>3, <2>4
<1>14. QED
  BY <1>4, <1>5, <1>6, <1>7, <1>8, <1>9, <1>10, <1>11, <1>12, <1>13 DEF Adapter, ToSet

\* A row of one that is split, with the coins of its key.
SplitRow(p, k) == Row(p, k, "native", PartAt(p, k), Null)

LEMMA SplitTells ==
  ASSUME NEW w \in SUBSET Held, NEW p \in w, Split(p), NEW k \in Meant(p), NEW E
  PROVE  /\ Told(SplitRow(p, k), p, E) /\ SplitRow(p, k).key = k
         /\ ~ Doubled(p) => Strong(SplitRow(p, k), w)
<1> DEFINE r == SplitRow(p, k)
<1>1. p \in Held /\ k \in KeysOf(p) /\ PartAt(p, k) \in Legs
  BY MeantKeys, PartIs
<1>2. ~ Valuer(p) /\ ~ Shut(p)
  BY DEF Split, Valuer, Shut
<1>3. r \in RowsAbout(p, {r.value}) /\ r.key = k /\ r.legs = PartAt(p, k) /\ r.value = Null /\ r.source = "native"
  BY <1>1 DEF SplitRow, Row, RowsAbout
<1> HIDE DEF r
<1>4. Entire(r, p)
  BY <1>2, <1>3 DEF Entire, LegsAt
<1>5. Firm(r, w)
  BY <1>3 DEF Firm, Rank
<1>6. QED
  BY <1>3, <1>4, <1>5 DEF Told, Strong, r

LEMMA SplitKeys ==
  ASSUME NEW p \in Held, Split(p), NEW c \in DOMAIN p.legs
  PROVE  LET debts == {d \in DOMAIN p.legs : p.legs[d] < 0}
         IN /\ p.adapter = "suilend" \/ c \notin debts =>
                 <<p.id, c>> = KeyFor(p, c) /\ <<p.id, c>> \in Meant(p) /\ PartAt(p, <<p.id, c>>) = One(p.legs, c)
            /\ p.adapter = "scallop" /\ c \in debts =>
                 /\ <<p.id, "debts">> = KeyFor(p, c) /\ <<p.id, "debts">> \in Meant(p)
                 /\ PartAt(p, <<p.id, "debts">>) = Restrict(p.legs, debts)
<1> DEFINE debts == {d \in DOMAIN p.legs : p.legs[d] < 0}
<1>1. KeyFor(p, c) \in Meant(p)
  BY DEF Meant
<1>2. \A d \in DOMAIN p.legs : p.legs[d] \in Int /\ d # "debts"
  BY HeldAssumption, TextNotCoin
<1>3. \A d \in DOMAIN p.legs :
        KeyFor(p, d) = IF p.adapter = "suilend" \/ d \notin debts THEN <<p.id, d>> ELSE <<p.id, "debts">>
  BY <1>2 DEF KeyFor, MainKey, Split
<1> HIDE DEF debts
<1>4. ASSUME p.adapter = "suilend" \/ c \notin debts
      PROVE  CoinsAt(p, <<p.id, c>>) = {c}
  BY <1>2, <1>3, <1>4 DEF CoinsAt
<1>5. ASSUME p.adapter = "scallop", c \in debts
      PROVE  CoinsAt(p, <<p.id, "debts">>) = debts
  BY <1>2, <1>3, <1>5 DEF CoinsAt, debts
<1>6. QED
  BY <1>1, <1>3, <1>4, <1>5 DEF PartAt, One, debts

\* Suilend: a row for every key.
LEMMA SuilendTells ==
  ASSUME NEW w \in SUBSET Held, NEW E
  PROVE  LET R == RowsOf("suilend", w, ReadsOf("suilend", w), Coins)
         IN /\ \A r \in R : ToldIn(r, w, E)
            /\ \A p \in Of(w, "suilend") : \A k \in Meant(p) : HasStrong(R, k, w)
<1> DEFINE U == ReadsOf("suilend", w)
           S == Of(w, "suilend")
           R == RowsOf("suilend", w, U, Coins)
           g(p, c) == Row(p, <<p.id, c>>, "native",
                          IF p.legs[c] > 0 THEN Accrued(One(p.legs, c), U) ELSE One(p.legs, c), Null)
           row(p) == {g(p, c) : c \in DOMAIN p.legs}
<1>1. Found(w, "suilend", U) = S /\ \A p \in S : \A c \in DOMAIN p.legs : Market(c) \in U
  BY CalmReads
<1>2. R = UNION {row(p) : p \in S}
  BY <1>1 DEF RowsOf, SuilendRows
<1>3. ASSUME NEW p \in S
      PROVE  p \in w /\ p \in Held /\ p.adapter = "suilend" /\ Split(p) /\ ~ Doubled(p)
  BY DEF Of, Split, Doubled
<1>4. ASSUME NEW p \in S, NEW c \in DOMAIN p.legs
      PROVE  g(p, c) = SplitRow(p, <<p.id, c>>) /\ <<p.id, c>> \in Meant(p) /\ <<p.id, c>> = KeyFor(p, c)
  <2> DEFINE k == <<p.id, c>>
             one == One(p.legs, c)
  <2>1. k \in Meant(p) /\ PartAt(p, k) = one /\ k = KeyFor(p, c)
    BY <1>3, SplitKeys
  <2>2. one \in Legs /\ DOMAIN one \subseteq {c}
    <3>1. PartAt(p, k) \in Legs
      BY <1>3, PartIs
    <3>2. DOMAIN one \subseteq {c}
      BY DEF One, Restrict
    <3> HIDE DEF one
    <3>3. QED
      BY <2>1, <3>1, <3>2
  <2> HIDE DEF one, U
  <2>3. \A x \in DOMAIN one : Market(x) \in U
    BY <1>1, <2>2
  <2>4. Accrued(one, U) = one
    BY <2>2, <2>3, AllAccrued
  <2>5. g(p, c) = SplitRow(p, k)
    BY <2>1, <2>4 DEF SplitRow, one
  <2>6. QED
    BY <2>1, <2>5
<1>5. \A p \in S : Meant(p) = {KeyFor(p, c) : c \in DOMAIN p.legs}
  BY <1>3 DEF Meant
<1> HIDE DEF g, U, S
<1>6. ASSUME NEW r \in R PROVE ToldIn(r, w, E)
  <2>1. PICK p \in S : r \in row(p)
    <3> HIDE DEF row, R
    <3>1. QED
      BY <1>2
  <2>2. PICK c \in DOMAIN p.legs : r = g(p, c)
    BY <2>1
  <2>3. r = SplitRow(p, <<p.id, c>>) /\ <<p.id, c>> \in Meant(p)
    BY <1>4, <2>2
  <2>4. Told(r, p, E)
    BY <1>3, <2>3, SplitTells
  <2>5. QED
    BY <1>3, <2>4 DEF ToldIn
<1>7. ASSUME NEW p \in S, NEW k \in Meant(p) PROVE HasStrong(R, k, w)
  <2>1. PICK c \in DOMAIN p.legs : k = KeyFor(p, c)
    BY <1>5
  <2>2. g(p, c) = SplitRow(p, k)
    BY <1>4, <2>1
  <2>3. g(p, c) \in row(p)
    OBVIOUS
  <2> HIDE DEF row, R
  <2>4. g(p, c) \in R
    BY <1>2, <2>3
  <2>5. Strong(SplitRow(p, k), w) /\ SplitRow(p, k).key = k
    BY <1>3, SplitTells
  <2>6. QED
    BY <2>2, <2>4, <2>5 DEF HasStrong
<1>8. QED
  BY <1>6, <1>7 DEF U, S

\* Scallop: a row for every key, if BlockVision does not have it too.
LEMMA ScallopTells ==
  ASSUME NEW w \in SUBSET Held, NEW E
  PROVE  LET R == RowsOf("scallop", w, ReadsOf("scallop", w), Coins)
         IN /\ \A r \in R : ToldIn(r, w, E)
            /\ \A p \in Of(w, "scallop") : ~ Doubled(p) => \A k \in Meant(p) : HasStrong(R, k, w)
<1> DEFINE U == ReadsOf("scallop", w)
           S == Of(w, "scallop")
           R == RowsOf("scallop", w, U, Coins)
           debts(p) == {c \in DOMAIN p.legs : p.legs[c] < 0}
           g(p, c) == Row(p, <<p.id, c>>, "native", One(p.legs, c), Null)
           h(p) == Row(p, <<p.id, "debts">>, "native", Restrict(p.legs, debts(p)), Null)
           row(p) == {g(p, c) : c \in DOMAIN p.legs \ debts(p)} \cup {h(p) : d \in debts(p)}
<1>1. Found(w, "scallop", U) = S
  BY CalmReads
<1>2. R = UNION {row(p) : p \in S}
  BY <1>1 DEF RowsOf, ScallopRows
<1>3. ASSUME NEW p \in S
      PROVE  p \in w /\ p \in Held /\ p.adapter = "scallop" /\ Split(p)
  BY DEF Of, Split
<1>4. ASSUME NEW p \in S, NEW c \in DOMAIN p.legs \ debts(p)
      PROVE  g(p, c) = SplitRow(p, <<p.id, c>>) /\ <<p.id, c>> \in Meant(p) /\ <<p.id, c>> = KeyFor(p, c)
  <2>1. <<p.id, c>> = KeyFor(p, c) /\ <<p.id, c>> \in Meant(p) /\ PartAt(p, <<p.id, c>>) = One(p.legs, c)
    BY <1>3, SplitKeys
  <2>2. QED
    BY <2>1 DEF SplitRow
<1>5. ASSUME NEW p \in S, NEW c \in debts(p)
      PROVE  h(p) = SplitRow(p, <<p.id, "debts">>) /\ <<p.id, "debts">> \in Meant(p)
             /\ <<p.id, "debts">> = KeyFor(p, c)
  <2>1. /\ <<p.id, "debts">> = KeyFor(p, c) /\ <<p.id, "debts">> \in Meant(p)
        /\ PartAt(p, <<p.id, "debts">>) = Restrict(p.legs, debts(p))
    BY <1>3, SplitKeys
  <2>2. QED
    BY <2>1 DEF SplitRow
<1>6. \A p \in S : Meant(p) = {KeyFor(p, c) : c \in DOMAIN p.legs}
  BY <1>3 DEF Meant
<1>7. ASSUME NEW p \in S PROVE debts(p) \subseteq DOMAIN p.legs
  OBVIOUS
<1> HIDE DEF g, h, U, S, debts
<1>8. ASSUME NEW r \in R PROVE ToldIn(r, w, E)
  <2>1. PICK p \in S : r \in row(p)
    <3> HIDE DEF row, R
    <3>1. QED
      BY <1>2
  <2>2. (\E c \in DOMAIN p.legs \ debts(p) : r = g(p, c)) \/ (\E c \in debts(p) : r = h(p))
    BY <2>1
  <2>3. \E k \in Meant(p) : r = SplitRow(p, k)
    BY <1>4, <1>5, <2>2
  <2>4. Told(r, p, E)
    BY <1>3, <2>3, SplitTells
  <2>5. QED
    BY <1>3, <2>4 DEF ToldIn
<1>9. ASSUME NEW p \in S, ~ Doubled(p), NEW k \in Meant(p) PROVE HasStrong(R, k, w)
  <2>1. PICK c \in DOMAIN p.legs : k = KeyFor(p, c)
    BY <1>6
  <2>2. SplitRow(p, k) \in row(p)
    <3>1. CASE c \in debts(p)
      BY <1>5, <2>1, <3>1
    <3>2. CASE c \notin debts(p)
      BY <1>4, <2>1, <3>2
    <3>3. QED
      BY <3>1, <3>2
  <2> HIDE DEF row, R
  <2>3. SplitRow(p, k) \in R
    BY <1>2, <2>2
  <2>4. Strong(SplitRow(p, k), w) /\ SplitRow(p, k).key = k
    BY <1>3, <1>9, SplitTells
  <2>5. QED
    BY <2>3, <2>4 DEF HasStrong
<1>10. QED
  BY <1>8, <1>9 DEF U, S

\* BlockVision: at least one for every one at Cetus that it has.
LEMMA BlockvisionTells ==
  ASSUME NEW w \in SUBSET Held, NEW E, NEW up, List("blockvision") \in up
  PROVE  LET R == BlockvisionRows(w, up, Coins)
         IN /\ \A r \in R : ToldIn(r, w, E)
            /\ \A p \in w : p.bv /\ p.adapter = "cetus" => HasStrong(R, PoolKey(p), w)
<1> DEFINE S == {q \in w : q.bv}
           R == BlockvisionRows(w, up, Coins)
           g(p) == Row(p, EnvelopeKey(p), "blockvision", p.legs, AllPriced(p.legs, Coins))
<1>1. R = {g(p) : p \in S}
  BY DEF BlockvisionRows
<1>2. ASSUME NEW p \in S
      PROVE  /\ Told(g(p), p, E) /\ p \in w
             /\ p.adapter = "cetus" => Strong(g(p), w) /\ g(p).key = PoolKey(p)
  <2>1. p \in w /\ p \in Held /\ p.adapter \in {"cetus", "navi", "scallop"} /\ p.bv
    BY HeldAssumption
  <2>2. p.legs \in Legs
    BY <2>1, LegsOf
  <2>3. AllPriced(p.legs, Coins) = Net(p.legs)
    BY <2>2, AllHavePrices
  <2> DEFINE r == g(p)
  <2>4. CASE p.adapter = "scallop"
    <3>1. EnvelopeKey(p) \in KeysOf(p)
      BY <2>4 DEF EnvelopeKey, KeysOf
    <3>2. r \in RowsAbout(p, {r.value})
      BY <2>2, <3>1 DEF Row, RowsAbout
    <3> HIDE DEF r
    <3>3. Told(r, p, E)
      BY <2>1, <2>4, <3>2 DEF Told, Doubled
    <3>4. QED
      BY <2>1, <2>4, <3>3 DEF r
  <2>5. CASE p.adapter # "scallop"
    <3>1. ~ Split(p) /\ ~ Shut(p) /\ ~ Valuer(p) /\ EnvelopeKey(p) = MainKey(p)
      BY <2>1, <2>5 DEF Split, Shut, Valuer, EnvelopeKey, MainKey
    <3>2. r = Row(p, MainKey(p), "blockvision", IF Valuer(p) THEN NoLegs ELSE p.legs, Net(p.legs))
      BY <2>3, <3>1
    <3> HIDE DEF r
    <3>3. /\ Entire(r, p) /\ r.key = MainKey(p) /\ ~ Doubled(p)
          /\ Net(p.legs) >= 0 => Strong(r, w)
      BY <2>1, <3>1, <3>2, MainRow
    <3>4. p.adapter = "cetus" => Net(p.legs) >= 0 /\ MainKey(p) = PoolKey(p)
      BY <2>1, SourceAssumption, LpIs
    <3>5. QED
      BY <2>1, <3>3, <3>4 DEF Told, r
  <2>6. QED
    BY <2>4, <2>5
<1> HIDE DEF g, S
<1>3. \A r \in R : ToldIn(r, w, E)
  BY <1>1, <1>2 DEF ToldIn
<1>4. ASSUME NEW p \in w, p.bv, p.adapter = "cetus" PROVE HasStrong(R, PoolKey(p), w)
  <2>1. p \in S
    BY <1>4 DEF S
  <2>2. g(p) \in R
    BY <1>1, <2>1
  <2>3. QED
    BY <1>2, <1>4, <2>1, <2>2 DEF HasStrong
<1>5. QED
  BY <1>3, <1>4

\* The owned scan: an empty row, or a stake's.
LEMMA OwnedTells ==
  ASSUME NEW w \in SUBSET Held
  PROVE  /\ \A r \in OwnedRows(w) : ToldIn(r, w, w)
         /\ \A p \in w : p.owned => HasKey(OwnedRows(w), OwnedKey(p))
<1> DEFINE S == {q \in w : q.owned}
           g(p) == Row(p, IF p.wrapped THEN <<p.id>> ELSE PoolKey(p), "rpc",
                       IF p.adapter = "staking" THEN p.legs ELSE NoLegs, Null)
<1>1. OwnedRows(w) = {g(p) : p \in S}
  BY DEF OwnedRows
<1>2. ASSUME NEW p \in S PROVE Told(g(p), p, w) /\ g(p).key = OwnedKey(p) /\ p \in w
  <2>1. p \in Held /\ p.owned /\ p \in w
    OBVIOUS
  <2>2. p.legs \in Legs /\ NoLegs \in Legs /\ OwnedKey(p) \in KeysOf(p)
    BY <2>1, LegsOf, MeantKeys
  <2> DEFINE r == g(p)
  <2>3. /\ r.key = OwnedKey(p) /\ r \in RowsAbout(p, {Null}) /\ r.source = "rpc" /\ r.value = Null
        /\ r.legs = IF p.adapter = "staking" THEN p.legs ELSE NoLegs
    BY <2>2 DEF Row, RowsAbout, OwnedKey
  <2> HIDE DEF r
  <2>4. CASE p.adapter # "staking"
    <3>1. Hollow(r, p)
      BY <2>1, <2>3, <2>4 DEF Hollow
    <3>2. r \in RowsAbout(p, {r.value})
      BY <2>3
    <3>3. QED
      BY <2>1, <2>3, <3>1, <3>2 DEF Told, r
  <2>5. CASE p.adapter = "staking"
    <3>1. ~ Split(p) /\ ~ Shut(p) /\ ~ Valuer(p) /\ ~ Doubled(p) /\ MainKey(p) = <<p.id>>
      BY <2>5 DEF Split, Shut, Valuer, Doubled, MainKey
    <3>2. p.pool = NoPool
      BY <2>1, <2>5, HeldAssumption
    <3>3. OwnedKey(p) = MainKey(p)
      BY <3>1, <3>2 DEF OwnedKey, PoolKey
    <3>4. PartAt(p, MainKey(p)) = p.legs /\ MainKey(p) \in Meant(p)
      BY <2>1, <3>1, MainPart
    <3>5. Entire(r, p)
      BY <2>3, <2>5, <3>1, <3>3, <3>4 DEF Entire, LegsAt
    <3>6. QED
      BY <2>1, <2>3, <3>1, <3>5 DEF Told, r
  <2>6. QED
    BY <2>4, <2>5
<1> HIDE DEF g
<1>3. \A r \in OwnedRows(w) : ToldIn(r, w, w)
  BY <1>1, <1>2 DEF ToldIn
<1>4. \A p \in S : HasKey(OwnedRows(w), OwnedKey(p))
  BY <1>1, <1>2 DEF HasKey
<1>5. QED
  BY <1>3, <1>4

\* What the adapters answer if nothing fails: rows of the positions, and one for
\* every key that the merge looks for.
LEMMA CalmAnswer ==
  ASSUME NEW w \in SUBSET Held, NEW E, NEW a \in ToSet(Adapter)
  PROVE  LET R == RowsOf(a, w, ReadsOf(a, w), Coins)
         IN /\ \A r \in R : ToldIn(r, w, E)
            /\ \A p \in Of(w, a) : ~ Doubled(p) /\ ~ Sunk(p) => \A k \in Meant(p) : HasStrong(R, k, w)
            /\ a = "blockvision" => \A p \in w : p.bv /\ p.adapter = "cetus" => HasStrong(R, PoolKey(p), w)
<1> DEFINE R == RowsOf(a, w, ReadsOf(a, w), Coins)
<1>1. CASE a = "scallop"
  BY <1>1, ScallopTells
<1>2. CASE a = "suilend"
  BY <1>2, SuilendTells
<1>3. CASE a = "blockvision"
  <2>1. R = BlockvisionRows(w, ReadsOf(a, w), Coins)
    BY <1>3 DEF RowsOf
  <2>2. List("blockvision") \in ReadsOf(a, w)
    BY <1>3, CalmReads
  <2>3. /\ \A r \in R : ToldIn(r, w, E)
        /\ \A p \in w : p.bv /\ p.adapter = "cetus" => HasStrong(R, PoolKey(p), w)
    BY <2>1, <2>2, BlockvisionTells
  <2>4. Of(w, a) = {}
    BY <1>3, SourceAssumption DEF Of, Adapter, ToSet
  <2>5. QED
    BY <2>3, <2>4
<1>4. CASE a \notin {"scallop", "suilend", "blockvision"}
  <2>1. Answers(R, w, a)
    BY <1>4, RowsAnswer
  <2>2. a \notin {"cetus", "turbos"}
    BY DEF Adapter, ToSet
  <2> HIDE DEF R
  <2>3. /\ \A r \in R : ToldIn(r, w, E)
        /\ \A p \in Of(w, a) : Sunk(p) \/ \A k \in Meant(p) : HasStrong(R, k, w)
    BY <1>4, <2>1, <2>2, AnswersTell
  <2>4. QED
    BY <1>4, <2>3 DEF R
<1>5. QED
  BY <1>1, <1>2, <1>3, <1>4

\* There is a row for every key, if only an empty one of a position that is to
\* be decoded.
Clear(p) == ~ Doubled(p) /\ ~ Sunk(p)
Undecoded(p) == p.adapter \in {"cetus", "turbos"}

Covered(rs, w) ==
  \A p \in w : Clear(p) =>
    IF Undecoded(p)
      THEN (p.owned /\ HasKey(rs, OwnedKey(p))) \/ HasStrong(rs, PoolKey(p), w)
      ELSE \A k \in Meant(p) : HasStrong(rs, k, w)

\* A merge keeps that.
LEMMA MergeCovers ==
  ASSUME NEW w \in SUBSET Held, NEW A, NEW s \in Seq(A), \A r \in A : ToldIn(r, w, w),
         NEW rs, rs \subseteq Range(s), Covered(rs, w)
  PROVE  (\A r \in Merge(s) : ToldIn(r, w, w)) /\ Covered(Merge(s), w)
<1>1. /\ \A r \in Merge(s) : ToldIn(r, w, w)
      /\ \A r \in Range(s) : Strong(r, w) => HasStrong(Merge(s), r.key, w)
  BY MergeTells
<1>2. \A r \in A : IsRow(r, w)
  BY ToldIs DEF ToldIn
<1>3. \A r \in Range(s) : HasKey(Merge(s), r.key)
  BY <1>2, MergeRows
<1>4. \A k : HasStrong(rs, k, w) => HasStrong(Merge(s), k, w)
  BY <1>1 DEF HasStrong
<1>5. \A k : HasKey(rs, k) => HasKey(Merge(s), k)
  BY <1>3 DEF HasKey
<1>6. QED
  BY <1>1, <1>4, <1>5 DEF Covered

\* All adapters answered all they have.
Complete(l, w) == \A a \in DOMAIN l : l[a] = RowsOf(a, w, ReadsOf(a, w), Coins)

LEMMA CollectTells ==
  ASSUME wallet \in SUBSET Held, DOMAIN list = Asked(wallet), scanned = OwnedRows(wallet), Complete(list, wallet)
  PROVE  (\A r \in Merge(Lists) : ToldIn(r, wallet, wallet)) /\ Covered(Merge(Lists), wallet)
<1> DEFINE A == scanned \cup UNION {list[a] : a \in DOMAIN list}
           w == wallet
           s == Lists
<1>1. DOMAIN list \subseteq ToSet(Adapter)
  BY DEF Asked, Adapter, ToSet
<1>2. ASSUME NEW a \in DOMAIN list
      PROVE  /\ IsFiniteSet(list[a]) /\ list[a] \in SUBSET A
             /\ \A r \in list[a] : ToldIn(r, w, w)
             /\ \A p \in Of(w, a) : Clear(p) => \A k \in Meant(p) : HasStrong(list[a], k, w)
             /\ a = "blockvision" => \A p \in w : p.bv /\ p.adapter = "cetus" => HasStrong(list[a], PoolKey(p), w)
  <2>1. list[a] = RowsOf(a, w, ReadsOf(a, w), Coins) /\ a \in ToSet(Adapter)
    BY <1>1 DEF Complete
  <2>2. AreRows(list[a], w)
    BY <2>1, AnswersAre
  <2>3. list[a] \in SUBSET A
    OBVIOUS
  <2> HIDE DEF A
  <2>4. QED
    BY <2>1, <2>2, <2>3, CalmAnswer DEF AreRows, Clear
<1>3. /\ \A r \in scanned : ToldIn(r, w, w)
      /\ \A p \in w : p.owned => HasKey(scanned, OwnedKey(p))
  BY OwnedTells
<1>4. \A r \in A : ToldIn(r, w, w)
  BY <1>2, <1>3
<1>5. IsFiniteSet(scanned) /\ scanned \in SUBSET A
  BY OwnedRowsAre DEF AreRows
<1>6. Covered(A, w)
  <2> SUFFICES ASSUME NEW p \in w, Clear(p)
               PROVE  IF Undecoded(p)
                        THEN (p.owned /\ HasKey(A, OwnedKey(p))) \/ HasStrong(A, PoolKey(p), w)
                        ELSE \A k \in Meant(p) : HasStrong(A, k, w)
    BY DEF Covered
  <2>1. p \in Held
    OBVIOUS
  <2>2. CASE Undecoded(p) /\ p.owned
    BY <1>3, <1>5, <2>2 DEF HasKey
  <2>3. CASE Undecoded(p) /\ ~ p.owned
    <3>1. p.bv /\ p.adapter = "cetus"
      BY <2>1, <2>3, HeldAssumption, SourceAssumption DEF Undecoded
    <3>2. "blockvision" \in DOMAIN list
      BY <3>1 DEF Asked, Configured
    <3>3. HasStrong(list["blockvision"], PoolKey(p), w)
      BY <1>2, <3>1, <3>2
    <3>4. QED
      BY <1>2, <2>3, <3>2, <3>3 DEF HasStrong
  <2>4. CASE ~ Undecoded(p)
    <3>1. p.adapter \in ToSet(Adapter) /\ p \in Of(w, p.adapter)
      BY <2>1, <2>4, SourceAssumption DEF Undecoded, Of
    <3>2. p.adapter \in DOMAIN list
      BY <3>1 DEF Asked
    <3>3. \A k \in Meant(p) : HasStrong(list[p.adapter], k, w)
      BY <1>2, <3>1, <3>2
    <3>4. QED
      BY <1>2, <2>4, <3>2, <3>3 DEF HasStrong
  <2>5. QED
    BY <2>2, <2>3, <2>4
<1>7. \A x \in A : x \in scanned \/ \E a \in DOMAIN list : x \in list[a]
  OBVIOUS
<1> HIDE DEF A
<1>8. /\ s \in Seq(A) /\ scanned \subseteq Range(s)
      /\ \A a \in DOMAIN list : list[a] \subseteq Range(s)
  <2>1. \A a \in DOMAIN list : list[a] \in SUBSET A /\ IsFiniteSet(list[a])
    BY <1>2
  <2>2. DOMAIN list \cap ToSet(Adapter) = DOMAIN list
    BY <1>1
  <2>3. QED
    BY <1>5, <2>1, <2>2, ListsAre
<1>9. A \subseteq Range(s)
  BY <1>7, <1>8
<1> HIDE DEF s, w
<1>10. (\A r \in Merge(s) : ToldIn(r, w, w)) /\ Covered(Merge(s), w)
  <2>1. w \in SUBSET Held
    BY DEF w
  <2>2. QED
    BY <1>4, <1>6, <1>8, <1>9, <2>1, MergeCovers
<1>11. QED
  BY <1>10 DEF s, w

\* Cetus asked once more.
LEMMA RetryTells ==
  ASSUME NEW w \in SUBSET Held, NEW m, AreRows(m, w), \A r \in m : ToldIn(r, w, w), Covered(m, w),
         NEW up, List("blockvision") \in up
  PROVE  LET s == SetToSeq(m) \o SetToSeq(BlockvisionRows(Of(w, "cetus"), up, Coins))
         IN (\A r \in Merge(s) : ToldIn(r, w, w)) /\ Covered(Merge(s), w)
<1> DEFINE v == Of(w, "cetus")
           B == BlockvisionRows(v, up, Coins)
           A == m \cup B
           s == SetToSeq(m)
           t == SetToSeq(B)
<1>1. v \in SUBSET w /\ v \in SUBSET Held
  BY WalletParts
<1> HIDE DEF v
<1>2. AreRows(B, v) /\ \A r \in B : ToldIn(r, v, w)
  BY <1>1, BlockvisionRowsAre, BlockvisionTells
<1>3. \A r : ToldIn(r, v, w) => ToldIn(r, w, w)
  BY <1>1 DEF ToldIn
<1> HIDE DEF B
<1>4. \A r \in A : ToldIn(r, w, w)
  BY <1>2, <1>3
<1>5. s \in Seq(m) /\ Range(s) = m /\ t \in Seq(B) /\ Range(t) = B
  BY <1>2, SetToSeqIs DEF AreRows
<1> HIDE DEF s, t
<1>6. s \in Seq(A) /\ t \in Seq(A)
  BY <1>5
<1> HIDE DEF A
<1>7. s \o t \in Seq(A) /\ Range(s \o t) = m \cup B
  BY <1>5, <1>6, RangeOfBoth
<1> DEFINE both == s \o t
<1>8. both \in Seq(A) /\ m \subseteq Range(both)
  BY <1>7
<1> HIDE DEF both
<1>9. (\A r \in Merge(both) : ToldIn(r, w, w)) /\ Covered(Merge(both), w)
  BY <1>4, <1>8, MergeCovers
<1>10. QED
  BY <1>9 DEF both, s, t, B, v

-----------------------------------------------------------------------------
\* Once LPs are decoded, only other positions have an empty row, and one at
\* Turbos that is closed.
Faint(w) == {p \in w : p.cat # "amm_lp" \/ Shut(p)}

HasWhole(rs, k, w) == \E r \in rs : r.key = k /\ \E p \in w : ~ Doubled(p) /\ Entire(r, p)

Traced(rs, w) ==
  \A p \in w : Clear(p) =>
    (\A k \in Meant(p) : HasWhole(rs, k, w)) \/ \E q \in w : SameKind(p, q) /\ Shut(q)

\* An LP's row, with what is in it.
LEMMA LpRow ==
  ASSUME NEW w \in SUBSET Held, NEW p \in w, p.cat = "amm_lp", NEW r
  PROVE  /\ Meant(p) = {PoolKey(p)} /\ Clear(p)
         /\ Entire(r, p) => /\ r.key = PoolKey(p) /\ r.legs = p.legs /\ r.legs # NoLegs
                            /\ ~ Bare(r) /\ Rich(r) /\ r.cat = "amm_lp" /\ Strong(r, w)
<1>1. /\ p \in Held /\ ~ Split(p) /\ ~ Doubled(p) /\ ~ Valuer(p) /\ MainKey(p) = PoolKey(p) /\ p.adapter # "staking"
      /\ LegsAt(p, PoolKey(p)) = p.legs /\ p.legs # NoLegs
      /\ Net(p.legs) \in Int /\ Net(p.legs) >= 0
  BY LpIs
<1>2. Meant(p) = {PoolKey(p)} /\ Due(p, PoolKey(p)) = Net(p.legs)
  BY <1>1, MainPart
<1>3. Clear(p)
  BY <1>1, SourceAssumption DEF Clear, Sunk
<1>4. ASSUME Entire(r, p)
      PROVE  /\ r.key = PoolKey(p) /\ r.legs = p.legs /\ r.legs # NoLegs
             /\ ~ Bare(r) /\ Rich(r) /\ r.cat = "amm_lp" /\ Strong(r, w)
  <2>1. r.key = PoolKey(p) /\ r.legs = p.legs
    BY <1>1, <1>2, <1>4 DEF Entire
  <2>2. r.source # "rpc" /\ (r.value = Net(p.legs) \/ r.value = Null)
    BY <1>1, <1>2, <1>4, <2>1 DEF Entire
  <2>3. r.cat = "amm_lp"
    BY <1>1, <1>4, EntireFields
  <2>4. Rank(r) >= -1
    BY <1>1, <2>2 DEF Rank
  <2>5. Strong(r, w)
    BY <1>1, <1>4, <2>4 DEF Strong, Firm
  <2>6. QED
    BY <1>1, <2>1, <2>2, <2>3, <2>5 DEF Bare, Rich
<1>5. QED
  BY <1>2, <1>3, <1>4

\* What the decoders make of a row.
LEMMA DecodeTells ==
  ASSUME NEW w \in SUBSET Held, NEW r, ToldIn(r, w, w), NEW up, \A p \in Clmm(w) : Read(p) \in up
  PROVE  LET d == Decoded(r, w, up)
         IN /\ IsRow(d, w) /\ ToldIn(d, w, {p \in w : ~ Open(p)})
            /\ Strong(r, w) => d = r
            /\ \A p \in w : Open(p) /\ Hollow(r, p) => Strong(d, w) /\ d.key = PoolKey(p)
<1> DEFINE can == {q \in CetusDecodable(w) \cup TurbosDecodable(w) : q.id = r.of /\ Read(q) \in up}
           p0 == CHOOSE q \in can : TRUE
           one == Row(p0, PoolKey(p0), "native", p0.legs, IF Net(p0.legs) = 0 THEN 0 ELSE Null)
           d == Decoded(r, w, up)
           E == {q \in w : ~ Open(q)}
<1>1. d = IF r.cat = "amm_lp" /\ r.legs = NoLegs /\ can # {} THEN one ELSE r
  BY DEF Decoded
<1>2. PICK p \in w : Told(r, p, w)
  BY DEF ToldIn
<1>3. p \in Held /\ r.of = p.id /\ r.cat = p.cat /\ IsRow(r, w)
  BY <1>2, ToldIs
<1>4. can = IF Open(p) THEN {p} ELSE {}
  <2>1. \A q \in w : q.id = r.of => q = p
    BY <1>3, HeldAssumption
  <2>2. Open(p) => p \in can
    BY <1>3 DEF Open, CetusDecodable, TurbosDecodable, Of, Clmm
  <2>3. \A q \in can : q \in w /\ q.id = r.of /\ Open(q)
    BY DEF Open, CetusDecodable, TurbosDecodable, Of
  <2> HIDE DEF can
  <2>4. QED
    BY <2>1, <2>2, <2>3
<1>5. \A q \in w : Entire(r, q) \/ Hollow(r, q) => q = p
  <2> SUFFICES ASSUME NEW q \in w, Entire(r, q) \/ Hollow(r, q) PROVE q = p
    OBVIOUS
  <2>1. q \in Held /\ r.of = q.id
    BY EntireFields
  <2>2. QED
    BY <1>3, <2>1, HeldAssumption
<1> HIDE DEF can
<1>6. CASE Open(p) /\ Hollow(r, p)
  <2>1. p.cat = "amm_lp" /\ ~ Shut(p)
    BY <1>3, <1>6, SourceAssumption DEF Open, Shut
  <2>2. p0 = p
    BY <1>4, <1>6
  <2>3. d = one
    BY <1>1, <1>3, <1>4, <1>6, <2>1 DEF Hollow
  <2>4. /\ ~ Split(p) /\ ~ Doubled(p) /\ ~ Valuer(p) /\ MainKey(p) = PoolKey(p)
        /\ Net(p.legs) \in Int
    BY <1>3, <2>1, LpIs
  <2> HIDE DEF p0, d
  <2> DEFINE v == IF Net(p.legs) = 0 THEN 0 ELSE Null
  <2>5. d = Row(p, MainKey(p), "native", IF Valuer(p) THEN NoLegs ELSE p.legs, v)
    BY <2>2, <2>3, <2>4
  <2>6. v = Net(p.legs) \/ (v = Null /\ ~ Valuer(p))
    BY <2>4
  <2> HIDE DEF v, one
  <2>7. Entire(d, p) /\ d.key = MainKey(p)
    BY <2>1, <2>4, <2>5, <2>6, MainRow
  <2>8. Strong(d, w)
    BY <2>1, <2>7, LpRow
  <2>9. Told(d, p, E)
    BY <2>4, <2>7 DEF Told
  <2>10. IsRow(d, w) /\ ToldIn(d, w, E)
    BY <2>9, ToldIs DEF ToldIn
  <2>11. Strong(r, w) => d = r
    <3>1. \A q \in w : ~ Entire(r, q)
      BY <1>5, <1>6, <2>1, <2>4, LpRow DEF Hollow, Rich
    <3>2. QED
      BY <3>1 DEF Strong
  <2>12. QED
    BY <1>5, <2>4, <2>7, <2>8, <2>10, <2>11 DEF d, E
<1>7. CASE ~ (Open(p) /\ Hollow(r, p))
  <2>1. d = r
    <3>1. CASE ~ Open(p)
      BY <1>1, <1>4, <3>1
    <3>2. CASE Open(p)
      <4>1. p.cat = "amm_lp" /\ ~ Doubled(p)
        BY <1>3, <3>2, SourceAssumption, LpIs DEF Open
      <4>2. Entire(r, p)
        BY <1>2, <1>7, <3>2, <4>1 DEF Told
      <4>3. r.legs # NoLegs
        BY <4>1, <4>2, LpRow
      <4>4. QED
        BY <1>1, <4>3
    <3>3. QED
      BY <3>1, <3>2
  <2>2. Told(r, p, E)
    BY <1>2, <1>7 DEF Told
  <2>3. \A q \in w : ~ (Open(q) /\ Hollow(r, q))
    BY <1>5, <1>7
  <2> HIDE DEF E, d
  <2>4. QED
    BY <1>3, <2>1, <2>2, <2>3 DEF ToldIn, E, d
<1>8. QED
  BY <1>6, <1>7

\* After the decoders every position that is clear has its rows, unless a
\* closed one of its pool may have taken the place of it.
LEMMA DecodeTraces ==
  ASSUME NEW w \in SUBSET Held, NEW rs, AreRows(rs, w), \A r \in rs : ToldIn(r, w, w), Covered(rs, w),
         NEW up, \A p \in Clmm(w) : Read(p) \in up
  PROVE  LET new == DropWeakLp(Merge(SetToSeq({Decoded(r, w, up) : r \in rs})))
         IN (\A r \in new : ToldIn(r, w, Faint(w))) /\ Traced(new, w)
<1> DEFINE D(r) == Decoded(r, w, up)
           A == {D(r) : r \in rs}
           E == {p \in w : ~ Open(p)}
           s == SetToSeq(A)
           all == Merge(s)
           new == DropWeakLp(all)
<1>1. ASSUME NEW r \in rs
      PROVE  /\ ToldIn(D(r), w, E) /\ (Strong(r, w) => D(r) = r)
             /\ \A p \in w : Open(p) /\ Hollow(r, p) => Strong(D(r), w) /\ D(r).key = PoolKey(p)
  BY DecodeTells
<1>2. AreRows(A, w)
  BY DecodedIs
<1> HIDE DEF D, E
<1>3. \A a \in A : ToldIn(a, w, E)
  BY <1>1
<1>4. \A r \in rs : D(r) \in A
  OBVIOUS
<1> HIDE DEF A
<1>5. s \in Seq(A) /\ Range(s) = A
  BY <1>2, SetToSeqIs DEF AreRows
<1> HIDE DEF s
<1>6. /\ \A r \in all : ToldIn(r, w, E)
      /\ \A a \in A : Strong(a, w) => HasStrong(all, a.key, w)
  BY <1>3, <1>5, MergeTells
<1> HIDE DEF all
<1>7. ASSUME NEW k, HasStrong(rs, k, w) PROVE HasStrong(all, k, w)
  <2>1. PICK r \in rs : r.key = k /\ Strong(r, w)
    BY <1>7 DEF HasStrong
  <2>2. D(r) = r /\ D(r) \in A
    BY <1>1, <1>4, <2>1
  <2>3. QED
    BY <1>6, <2>1, <2>2
<1>8. ASSUME NEW p \in w, Clear(p)
      PROVE  (\A k \in Meant(p) : HasStrong(all, k, w)) \/ \E q \in w : SameKind(p, q) /\ Shut(q)
  <2>1. p \in Held
    OBVIOUS
  <2>2. CASE ~ Undecoded(p)
    BY <1>7, <1>8, <2>2 DEF Covered
  <2>3. CASE Undecoded(p)
    <3>1. p.cat = "amm_lp"
      BY <2>1, <2>3, SourceAssumption DEF Undecoded
    <3>2. Meant(p) = {PoolKey(p)}
      BY <3>1, LpRow
    <3>3. CASE HasStrong(rs, PoolKey(p), w)
      BY <1>7, <3>2, <3>3
    <3>4. CASE HasKey(rs, OwnedKey(p))
      <4>1. PICK r \in rs : r.key = OwnedKey(p)
        BY <3>4 DEF HasKey
      <4>2. PICK q \in w : Told(r, q, w)
        BY DEF ToldIn
      <4>3. q \in Held /\ r.key \in KeysOf(q) /\ OwnedKey(p) \in KeysOf(p)
        BY <2>1, <4>2, ToldIs, MeantKeys
      <4>4. SameKind(p, q)
        BY <2>1, <4>1, <4>3, KeysMeet
      <4>5. q.adapter = p.adapter /\ PoolKey(p) = PoolKey(q) /\ q.cat = "amm_lp"
        BY <2>1, <3>1, <4>3, <4>4, SameKindIs
      <4>6. ~ Doubled(q)
        BY <4>3, <4>5, LpIs
      <4>7. CASE Entire(r, q)
        <5>1. Strong(r, w) /\ r.key = PoolKey(p)
          BY <4>5, <4>7, LpRow
        <5>2. HasStrong(rs, PoolKey(p), w)
          BY <5>1 DEF HasStrong
        <5>3. QED
          BY <3>3, <5>2
      <4>8. CASE Hollow(r, q) /\ ~ Shut(q)
        <5>1. Open(q)
          BY <2>3, <4>5, <4>8 DEF Undecoded, Open, Shut
        <5>2. Strong(D(r), w) /\ D(r).key = PoolKey(p) /\ D(r) \in A
          BY <1>1, <1>4, <4>5, <4>8, <5>1
        <5>3. HasStrong(all, PoolKey(p), w)
          BY <1>6, <5>2
        <5>4. QED
          BY <3>2, <5>3
      <4>9. QED
        BY <4>2, <4>4, <4>6, <4>7, <4>8 DEF Told
    <3>5. QED
      BY <1>8, <2>3, <3>3, <3>4 DEF Covered
  <2>4. QED
    BY <2>2, <2>3
<1>9. ASSUME NEW k, HasStrong(all, k, w) PROVE HasWhole(new, k, w)
  <2>1. PICK r \in all : r.key = k /\ Strong(r, w)
    BY <1>9 DEF HasStrong
  <2>2. PICK p \in w : ~ Doubled(p) /\ Entire(r, p)
    BY <2>1 DEF Strong
  <2>3. ~ (Bare(r) /\ r.cat = "amm_lp")
    <3>1. p \in Held /\ r.cat = p.cat
      BY <2>2, EntireFields
    <3>2. QED
      BY <2>2, <3>1, LpRow
  <2>4. r \in new
    BY <2>3 DEF DropWeakLp
  <2>5. QED
    BY <2>1, <2>2, <2>4 DEF HasWhole
<1>10. Traced(new, w)
  BY <1>8, <1>9 DEF Traced
<1>11. ASSUME NEW r \in new PROVE ToldIn(r, w, Faint(w))
  <2>1. r \in all
    BY DEF DropWeakLp
  <2>2. PICK p \in w : Told(r, p, E)
    BY <1>6, <2>1 DEF ToldIn
  <2>3. p \in Held
    OBVIOUS
  <2>4. CASE Doubled(p) \/ Entire(r, p) \/ p \in Faint(w)
    <3>1. Told(r, p, Faint(w))
      BY <2>2, <2>4 DEF Told
    <3>2. QED
      BY <3>1 DEF ToldIn
  <2>5. CASE Hollow(r, p) /\ p \in E /\ p \notin Faint(w)
    <3>1. p.adapter = "momentum" /\ p.cat = "amm_lp"
      BY <2>3, <2>5, SourceAssumption DEF E, Faint, Open, Shut
    <3>2. Clear(p) /\ Meant(p) = {PoolKey(p)}
      BY <3>1, LpRow
    <3>3. \A q \in w : SameKind(p, q) => ~ Shut(q)
      BY <2>3, <3>1, SameKindIs DEF Shut
    <3>4. HasStrong(all, PoolKey(p), w)
      BY <1>8, <3>2, <3>3
    <3>5. PICK t \in all : t.key = PoolKey(p) /\ Strong(t, w)
      BY <3>4 DEF HasStrong
    <3>6. PICK q \in w : ~ Doubled(q) /\ Entire(t, q)
      BY <3>5 DEF Strong
    <3>7. q \in Held /\ t.key \in KeysOf(q) /\ PoolKey(p) \in KeysOf(p)
      BY <3>6, EntireFields DEF KeysOf
    <3>8. q.cat = "amm_lp"
      BY <2>3, <3>1, <3>5, <3>7, KeysMeet, SameKindIs
    <3>9. Rich(t) /\ t.cat = "amm_lp" /\ t.legs # NoLegs
      BY <3>6, <3>8, LpRow
    <3>10. ~ (Bare(r) /\ r.cat = "amm_lp")
      BY <3>9 DEF DropWeakLp
    <3>11. r.cat = "amm_lp" /\ Bare(r)
      BY <2>3, <2>5, <3>1, EntireFields DEF Hollow, Bare
    <3>12. QED
      BY <3>10, <3>11
  <2>6. QED
    BY <2>2, <2>4, <2>5 DEF Told
<1>12. QED
  BY <1>10, <1>11 DEF new, all, s, A, D

\* In the answer: a row with the value that is due to it, and an empty one,
\* which may have the value of the holdings if its position is closed.
Settled(r, p) == Entire(r, p) /\ (r.value = Null => Due(p, r.key) = 0 /\ DOMAIN r.legs = {})

Blank(r, p) ==
  /\ r \in RowsAbout(p, {r.value}) /\ r.key = OwnedKey(p) /\ Bare(r)
  /\ r.value = Null \/ (r.value = Holdings /\ Shut(p))
  /\ p.cat = "amm_lp" => Shut(p)

Said(r, p) == IF Doubled(p) THEN r.of = p.id /\ r.cat = p.cat ELSE Settled(r, p) \/ Blank(r, p)

SaidIn(r, w) == \E p \in w : Said(r, p)

\* Nothing is due for no coins.
LEMMA NothingDue ==
  ASSUME NEW p \in Held, NEW k, DOMAIN PartAt(p, k) = {}
  PROVE  Due(p, k) = 0
<1> DEFINE f == PartAt(p, k)
           none == {}
<1>0. f \in Legs
  BY PartIs
<1> HIDE DEF f
<1>1. PICK D \in SUBSET Coins : f \in [D -> Int]
  BY <1>0 DEF Legs
<1>2. D = none
  BY <1>1 DEF f
<1>3. IsFiniteSet(none) /\ f \in [none -> Int] /\ \A x \in none : f[x] \in Int
  BY <1>1, <1>2, FS_EmptySet
<1>4. SumFunction(f) = Total(f, none)
  BY <1>3, TotalOfAll
<1>5. Total(f, none) = 0
  BY <1>3, TotalSteps
<1>6. QED
  BY <1>4, <1>5 DEF Due, Net, f

\* With every price, a row is given what is due to it.
LEMMA ValuedTells ==
  ASSUME NEW w \in SUBSET Held, NEW p \in w, NEW r, Told(r, p, Faint(w))
  PROVE  LET v == Valued(r, Coins)
         IN /\ Said(v, p) /\ v.key = r.key /\ v.cat = r.cat
            /\ ~ Doubled(p) /\ Entire(r, p) => Entire(v, p)
<1> DEFINE v == Valued(r, Coins)
           n == Net(r.legs)
           u == [r EXCEPT !.value = n]
<1>1. p \in Held /\ r \in RowsAbout(p, {r.value})
  BY ToldIs
<1>2. r.legs \in Legs
  BY <1>1 DEF RowsAbout
<1>3. PricedLegs(r.legs, Coins) = r.legs
  BY <1>2, AllHavePrices
<1>4. v = IF DOMAIN r.legs = {} THEN r ELSE u
  BY <1>3 DEF Valued
<1> HIDE DEF v, n
<1>5. /\ u \in RowsAbout(p, {u.value}) /\ u.key = r.key /\ u.legs = r.legs /\ u.source = r.source
      /\ u.value = n /\ u.cat = r.cat /\ u.of = r.of
  BY <1>1 DEF RowsAbout
<1> HIDE DEF u
<1>6. r.of = p.id /\ r.cat = p.cat
  BY ToldIs
<1>7. CASE Doubled(p)
  <2>1. v.of = r.of /\ v.cat = r.cat /\ v.key = r.key
    BY <1>4, <1>5
  <2>2. QED
    BY <1>6, <1>7, <2>1 DEF Said, v
<1>8. CASE ~ Doubled(p) /\ Entire(r, p)
  <2>1. /\ r.key \in Meant(p) /\ r.legs = LegsAt(p, r.key)
        /\ r.value = Due(p, r.key) \/ (r.value = Null /\ ~ Valuer(p))
        /\ r.source # "rpc" \/ p.adapter = "staking"
        /\ ~ Shut(p)
    BY <1>8 DEF Entire
  <2>2. Due(p, r.key) \in Int /\ Null \notin Int
    BY <1>1, PartIs, SourceAssumption
  <2>3. CASE Valuer(p)
    <3>1. DOMAIN r.legs = {}
      BY <2>1, <2>3 DEF LegsAt, NoLegs
    <3>2. v = r /\ r.value # Null
      BY <1>4, <2>1, <2>2, <2>3, <3>1
    <3>3. QED
      BY <1>8, <3>2 DEF Said, Settled, v
  <2>4. CASE ~ Valuer(p)
    <3>1. r.legs = PartAt(p, r.key) /\ n = Due(p, r.key)
      BY <2>1, <2>4 DEF LegsAt, n, Due
    <3>2. CASE DOMAIN r.legs = {}
      <4>1. v = r
        BY <1>4, <3>2
      <4>2. Due(p, r.key) = 0
        BY <1>1, <3>1, <3>2, NothingDue
      <4>3. QED
        BY <1>8, <3>2, <4>1, <4>2 DEF Said, Settled, v
    <3>3. CASE DOMAIN r.legs # {}
      <4>1. v = u
        BY <1>4, <3>3
      <4>2. Entire(u, p)
        BY <1>5, <2>1, <3>1 DEF Entire
      <4>3. u.value # Null
        BY <1>5, <2>2, <3>1
      <4>4. QED
        BY <1>5, <1>8, <4>1, <4>2, <4>3 DEF Said, Settled, v
    <3>4. QED
      BY <3>2, <3>3
  <2>5. QED
    BY <2>3, <2>4
<1>9. CASE ~ Doubled(p) /\ ~ Entire(r, p)
  <2>1. Hollow(r, p) /\ p \in Faint(w)
    BY <1>9 DEF Told
  <2>2. v = r
    BY <1>1, <1>4, <2>1, EntireFields
  <2>3. Blank(r, p)
    BY <2>1, <1>1, EntireFields DEF Hollow, Blank, Bare, Faint
  <2>4. QED
    BY <1>9, <2>2, <2>3 DEF Said, v
<1>10. QED
  BY <1>7, <1>8, <1>9

\* The answer, if every coin has a price.
LEMMA PriceSays ==
  ASSUME NEW w \in SUBSET Held, NEW rs, \A r \in rs : ToldIn(r, w, Faint(w)), Traced(rs, w)
  PROVE  LET new == DropWeakLending({Valued(r, Coins) : r \in rs})
         IN (\A r \in new : SaidIn(r, w)) /\ Traced(new, w)
<1> DEFINE V(r) == Valued(r, Coins)
           all == {V(r) : r \in rs}
           new == DropWeakLending(all)
<1>1. ASSUME NEW r \in rs
      PROVE  /\ SaidIn(V(r), w) /\ V(r).key = r.key
             /\ \A q \in w : ~ Doubled(q) /\ Entire(r, q) => Entire(V(r), q)
  <2>1. PICK p \in w : Told(r, p, Faint(w))
    BY DEF ToldIn
  <2>2. /\ Said(V(r), p) /\ V(r).key = r.key
        /\ ~ Doubled(p) /\ Entire(r, p) => Entire(V(r), p)
    BY <2>1, ValuedTells
  <2>3. \A q \in w : Entire(r, q) => q = p
    <3>1. p \in Held /\ r.of = p.id
      BY <2>1, ToldIs
    <3>2. \A q \in w : Entire(r, q) => r.of = q.id
      BY EntireFields
    <3>3. QED
      BY <3>1, <3>2, HeldAssumption
  <2>4. QED
    BY <2>2, <2>3 DEF SaidIn
<1>2. \A r \in rs : V(r) \in all
  OBVIOUS
<1> HIDE DEF V
<1>3. \A r \in all : SaidIn(r, w)
  BY <1>1
<1> HIDE DEF all
<1>4. \A r \in new : SaidIn(r, w)
  BY <1>3 DEF DropWeakLending
<1>5. ASSUME NEW k, HasWhole(rs, k, w) PROVE HasWhole(new, k, w)
  <2>1. PICK r \in rs : r.key = k /\ \E p \in w : ~ Doubled(p) /\ Entire(r, p)
    BY <1>5 DEF HasWhole
  <2>2. PICK p \in w : ~ Doubled(p) /\ Entire(r, p)
    BY <2>1
  <2>3. Entire(V(r), p) /\ V(r).key = k /\ V(r) \in all /\ p \in Held
    BY <1>1, <1>2, <2>1, <2>2
  <2> DEFINE v == V(r)
  <2> HIDE DEF v
  <2>4. v.source # "rpc" \/ (p.adapter = "staking" /\ v.cat = p.cat)
    BY <2>3, EntireFields DEF Entire, v
  <2>5. ~ (Bare(v) /\ v.cat = "lending")
    BY <2>3, <2>4, SourceAssumption DEF Bare
  <2>6. v \in new
    BY <2>3, <2>5 DEF DropWeakLending, v
  <2>7. QED
    BY <2>2, <2>3, <2>6 DEF HasWhole, v
<1>6. Traced(new, w)
  BY <1>5 DEF Traced
<1>7. QED
  BY <1>4, <1>6 DEF all, V

\* Of LPs only a closed one has a row without a value, and nothing shows that
\* it is closed.
LEMMA NullLp ==
  ASSUME wallet \in SUBSET Held, NEW r, SaidIn(r, wallet), r.cat = "amm_lp", r.value = Null
  PROVE  /\ ~ ShownClosed(r) /\ ~ Rich(r)
         /\ \A guess \in {Null, Holdings} : SaidIn([r EXCEPT !.value = guess], wallet)
<1>1. PICK p \in wallet : Said(r, p)
  BY DEF SaidIn
<1>2. p \in Held
  OBVIOUS
<1>3. r.cat = p.cat /\ r.of = p.id
  BY <1>1, <1>2, EntireFields DEF Said, Settled, Blank, RowsAbout
<1>4. ~ Doubled(p)
  BY <1>2, <1>3, LpIs
<1>5. ~ Settled(r, p)
  <2> SUFFICES ASSUME Settled(r, p) PROVE FALSE
    OBVIOUS
  <2>1. Entire(r, p) /\ DOMAIN r.legs = {}
    BY DEF Settled
  <2>2. r.legs = p.legs
    BY <1>3, <2>1, LpRow
  <2>3. QED
    BY <1>2, <1>3, <2>1, <2>2, SourceAssumption
<1>6. Blank(r, p) /\ Shut(p)
  BY <1>1, <1>3, <1>4, <1>5 DEF Said, Blank
<1>7. ~ ShownClosed(r)
  <2> SUFFICES ASSUME NEW q \in wallet, q.id = r.of, ~ ((q.wrapped \/ q.adapter = "turbos") /\ Bare(r)) PROVE FALSE
    BY DEF ShownClosed
  <2>1. q = p
    BY <1>2, <1>3, HeldAssumption
  <2>2. QED
    BY <1>6, <2>1 DEF Blank, Shut
<1>8. ASSUME NEW guess \in {Null, Holdings} PROVE SaidIn([r EXCEPT !.value = guess], wallet)
  <2> DEFINE u == [r EXCEPT !.value = guess]
  <2>1. /\ u \in RowsAbout(p, {u.value}) /\ u.key = r.key /\ u.value = guess
        /\ Bare(u) <=> Bare(r)
    BY <1>6 DEF Blank, RowsAbout, Bare
  <2> HIDE DEF u
  <2>2. Blank(u, p)
    BY <1>6, <2>1 DEF Blank
  <2>3. Said(u, p)
    BY <1>4, <2>2 DEF Said
  <2>4. QED
    BY <2>3 DEF SaidIn, u
<1>9. QED
  BY <1>6, <1>7, <1>8 DEF Blank, Bare, Rich

\* The payload adds no stake, as each has its row, and changes at most the
\* value of a closed LP.
LEMMA PayloadSays ==
  ASSUME wallet \in SUBSET Held, \A r \in merged : SaidIn(r, wallet), Traced(merged, wallet), Payload
  PROVE  (\A r \in merged' : SaidIn(r, wallet)) /\ Traced(merged', wallet)
<1>1. PICK indexed \in SUBSET Of(wallet, "staking"), price \in BOOLEAN, live \in {Null, Holdings} :
        merged' = Estimated(merged, live) \cup
          {Row(p, <<p.id, "indexer">>, "indexer", NoLegs, IF price THEN Net(p.legs) ELSE Null) :
             p \in {q \in indexed : \A r \in merged : r.of # q.id}}
  BY DEF Payload
<1> DEFINE P == {q \in indexed : \A r \in merged : r.of # q.id}
           row(p) == Row(p, <<p.id, "indexer">>, "indexer", NoLegs, IF price THEN Net(p.legs) ELSE Null)
           lp == {r \in merged : r.cat = "amm_lp"}
           closed == {r \in lp : r.value = Null /\ ShownClosed(r)}
           open == {r \in lp : r.value = Null} \ closed
           guess == IF lp = open THEN live ELSE Null
           new == Estimated(merged, live)
<1>2. ASSUME NEW q \in P PROVE FALSE
  <2>1. q \in wallet /\ q \in Held /\ q.adapter = "staking" /\ \A r \in merged : r.of # q.id
    BY <1>1 DEF Of
  <2>2. Clear(q) /\ ~ Split(q) /\ q.cat # "amm_lp"
    BY <2>1, SourceAssumption DEF Clear, Doubled, Sunk, Split
  <2>3. \A o \in wallet : SameKind(q, o) => ~ Shut(o)
    BY <2>1, SameKindIs DEF Shut
  <2>4. HasWhole(merged, MainKey(q), wallet)
    BY <2>1, <2>2, <2>3, MainPart DEF Traced
  <2>5. PICK r \in merged, o \in wallet : r.key = MainKey(q) /\ Entire(r, o)
    BY <2>4 DEF HasWhole
  <2>6. o \in Held /\ r.of = o.id /\ r.key \in KeysOf(o) /\ MainKey(q) \in KeysOf(q)
    BY <2>1, <2>5, EntireFields, MeantKeys
  <2>7. q = o
    BY <2>1, <2>2, <2>5, <2>6, KeysMeet, SameKindIs
  <2>8. QED
    BY <2>1, <2>5, <2>6, <2>7
<1>3. merged' = new
  <2>1. merged' = new \cup {row(p) : p \in P}
    BY <1>1
  <2> HIDE DEF new, row, P
  <2>2. QED
    BY <1>2, <2>1
<1>4. /\ new = (merged \ (open \cup closed)) \cup {[r EXCEPT !.value = 0] : r \in closed}
                 \cup {[r EXCEPT !.value = guess] : r \in open}
      /\ guess \in {Null, Holdings}
  BY DEF Estimated
<1>5. \A r \in open \cup closed : r \in merged /\ ~ ShownClosed(r) /\ ~ Rich(r) /\ r.cat = "amm_lp"
  BY NullLp
<1>6. closed = {}
  BY <1>5
<1>7. \A r \in open : SaidIn([r EXCEPT !.value = guess], wallet)
  <2> HIDE DEF guess
  <2>1. QED
    BY <1>4, NullLp
<1> HIDE DEF new, closed, open, guess
<1>8. \A r \in new : SaidIn(r, wallet)
  BY <1>4, <1>6, <1>7
<1>9. ASSUME NEW k, HasWhole(merged, k, wallet) PROVE HasWhole(new, k, wallet)
  <2>1. PICK r \in merged, p \in wallet : r.key = k /\ ~ Doubled(p) /\ Entire(r, p)
    BY <1>9 DEF HasWhole
  <2>2. r \notin open
    <3> SUFFICES ASSUME r \in open PROVE FALSE
      OBVIOUS
    <3>1. p \in Held /\ r.cat = p.cat /\ ~ Rich(r) /\ r.cat = "amm_lp"
      BY <1>5, <2>1, EntireFields
    <3>2. QED
      BY <2>1, <3>1, LpRow
  <2>3. r \in new
    BY <1>4, <1>6, <2>2
  <2>4. QED
    BY <2>1, <2>3 DEF HasWhole
<1>10. Traced(new, wallet)
  BY <1>9 DEF Traced
<1>11. QED
  BY <1>3, <1>8, <1>10

LEMMA EntireSettled ==
  ASSUME NEW p \in Held, ~ Doubled(p), NEW r, Said(r, p), Entire(r, p)
  PROVE  Settled(r, p) /\ (r.value # Null => r.value = Due(p, r.key)) /\ (r.value = Null => Due(p, r.key) = 0)
<1>1. CASE Settled(r, p)
  BY <1>1 DEF Settled, Entire
<1>2. CASE Blank(r, p) /\ ~ Settled(r, p)
  <2>1. ~ Shut(p) /\ r.legs = LegsAt(p, r.key) /\ (r.value = Due(p, r.key) \/ (r.value = Null /\ ~ Valuer(p)))
    BY DEF Entire
  <2>2. r.value = Null /\ DOMAIN r.legs = {}
    BY <1>2, <2>1 DEF Blank, Bare, NoLegs
  <2>3. Due(p, r.key) \in Int /\ Null \notin Int
    BY PartIs, SourceAssumption
  <2>4. DOMAIN PartAt(p, r.key) = {}
    BY <2>1, <2>2, <2>3 DEF LegsAt
  <2>5. Due(p, r.key) = 0
    BY <2>4, NothingDue
  <2>6. QED
    BY <2>2, <2>5 DEF Settled
<1>3. QED
  BY <1>1, <1>2 DEF Said

\* Rows without a value are worth nothing.
LEMMA NullCounts ==
  ASSUME NEW R, \A r \in R : r.value = Null
  PROVE  ValueOf(R) = 0
<1> DEFINE N == {r \in R : r.value # Null}
           v == [r \in N |-> r.value]
           none == {}
<1>1. N = none /\ ValueOf(R) = SumFunction(v)
  BY DEF ValueOf
<1>2. v \in [none -> Int]
  BY <1>1
<1> HIDE DEF v, N
<1>3. SumFunction(v) = Total(v, none)
  BY <1>2, TotalOfAll
<1>4. IsFiniteSet(none) /\ \A x \in none : v[x] \in Int
  BY FS_EmptySet
<1>5. Total(v, none) = 0
  BY <1>4, TotalSteps
<1>6. QED
  BY <1>1, <1>3, <1>5

\* What the rows of a position come to that has one for every key.
LEMMA AllCounts ==
  ASSUME NEW p \in Held, ~ Doubled(p), ~ Shut(p), NEW R, IsFiniteSet(R), OnePerKey(R), \A r \in R : Said(r, p),
         \A k \in Meant(p) : \E r \in R : r.key = k /\ Entire(r, p)
  PROVE  ValueOf(R) = Net(p.legs)
<1> DEFINE D == DOMAIN p.legs
           f == p.legs
           S == {r \in R : Entire(r, p)}
           N == {r \in R : r.value # Null}
           v == [r \in N |-> r.value]
           h == [c \in D |-> CHOOSE r \in S : r.key = KeyFor(p, c)]
           G(q) == {c \in D : h[c] = q}
           t == [q \in S |-> Total(f, G(q))]
<1>1. IsFiniteSet(D) /\ f \in [D -> Int] /\ Net(p.legs) = SumFunction(f)
  BY HeldAssumption DEF Net
<1>2. \A c \in D : h[c] \in S /\ h[c].key = KeyFor(p, c)
  <2> SUFFICES ASSUME NEW c \in D PROVE h[c] \in S /\ h[c].key = KeyFor(p, c)
    OBVIOUS
  <2>1. KeyFor(p, c) \in Meant(p)
    BY DEF Meant, KeyFor, Split
  <2>2. \E r \in S : r.key = KeyFor(p, c)
    BY <2>1
  <2> HIDE DEF S
  <2>3. QED
    BY <2>2
<1>3. \A r \in N : r \in S
  <2> SUFFICES ASSUME NEW r \in N PROVE r \in S
    OBVIOUS
  <2>1. Said(r, p) /\ r.value # Null
    OBVIOUS
  <2>2. Settled(r, p)
    BY <2>1 DEF Said, Blank
  <2>3. QED
    BY <2>2 DEF Settled
<1>4. \A r \in S : /\ r.value # Null => r.value = Due(p, r.key)
                   /\ r.value = Null => Due(p, r.key) = 0
  BY EntireSettled
<1>5. OnePerKey(S) /\ IsFiniteSet(S) /\ N \in SUBSET S
  BY <1>3, FS_Subset DEF OnePerKey
<1>6. ValueOf(R) = SumFunction(v)
  BY DEF ValueOf
<1>7. \A r \in S : r \in N <=> r.value # Null
  OBVIOUS
<1>8. \A r \in N : v[r] = r.value
  OBVIOUS
<1>9. v \in [N -> Int]
  BY <1>3, <1>4, PartIs
<1> HIDE DEF S, N, v, h
<1>10. \A q \in S : G(q) = CoinsAt(p, q.key)
  BY <1>2, <1>5 DEF CoinsAt, OnePerKey
<1>11. \A q \in S : t[q] = Due(p, q.key)
  BY <1>10 DEF Due, Net, PartAt, Total
<1>12. \A q \in S : t[q] \in Int
  BY <1>11, PartIs
<1> HIDE DEF f, D
<1>13. (\A c \in D : f[c] \in Int) /\ \A c \in D : h[c] \in S
  BY <1>1, <1>2
<1>14. Total(f, D) = Total([q \in S |-> Total(f, {x \in D : h[x] = q})], S)
  BY <1>1, <1>5, <1>13, TotalGroups
<1>15. Total(f, D) = Total(t, S)
  BY <1>14
<1> HIDE DEF t
<1>16. Total(t, S) = Total(t, N) + Total(t, S \ N)
  BY <1>5, <1>12, TotalBoth
<1>17. Total(t, S \ N) = 0
  <2> DEFINE Z == S \ N
             zero == 0
  <2>1. IsFiniteSet(Z) /\ \A q \in Z : t[q] = 0
    BY <1>4, <1>5, <1>7, <1>11, FS_Subset
  <2> HIDE DEF Z
  <2>2. Total(t, Z) \in Int /\ 0 <= Total(t, Z)
    BY <2>1, TotalNat
  <2>3. (\A q \in Z : t[q] \in Int) /\ zero \in Int /\ 0 <= zero /\ \A q \in Z : t[q] <= IF q = zero THEN zero ELSE 0
    BY <2>1
  <2> HIDE DEF zero
  <2>4. Total(t, Z) <= zero
    BY <2>1, <2>3, OneCounts
  <2>5. QED
    BY <2>2, <2>4 DEF zero, Z
<1>18. Total(t, N) = Total(v, N)
  <2>1. \A q \in N : t[q] = v[q]
    BY <1>3, <1>4, <1>5, <1>7, <1>8, <1>11
  <2>2. QED
    BY <2>1, TotalSame
<1>19. SumFunction(f) = Total(f, D) /\ SumFunction(v) = Total(v, N)
  BY <1>1, <1>9, TotalOfAll
<1>20. Total(t, N) \in Int
  BY <1>5, <1>12, TotalSteps
<1>21. QED
  BY <1>1, <1>6, <1>15, <1>16, <1>17, <1>18, <1>19, <1>20

\* A closed one at Turbos has no more than one row, which may be given the holdings.
LEMMA ShutCounts ==
  ASSUME NEW p \in Held, Shut(p), NEW R, OnePerKey(R), \A r \in R : Said(r, p)
  PROVE  ValueOf(R) = 0 \/ ValueOf(R) = Holdings
<1>1. ~ Doubled(p)
  BY DEF Shut, Doubled
<1>2. \A r \in R : Blank(r, p)
  BY <1>1 DEF Said, Settled, Entire
<1>3. \A r, q \in R : r = q
  BY <1>2 DEF Blank, OnePerKey
<1>4. CASE \A r \in R : r.value = Null
  BY <1>4, NullCounts
<1>5. CASE ~ \A r \in R : r.value = Null
  <2>1. PICK r \in R : r.value # Null
    BY <1>5
  <2>2. R = {r} /\ r.value = Holdings
    BY <1>2, <1>3, <2>1 DEF Blank
  <2> DEFINE N == {q \in R : q.value # Null}
             v == [q \in N |-> q.value]
             one == {r}
             none == {}
  <2>3. N = one /\ v \in [one -> Int] /\ v[r] = Holdings /\ Holdings \in Int
    BY <2>1, <2>2, WalletAssumption
  <2>4. ValueOf(R) = SumFunction(v)
    BY DEF ValueOf
  <2> HIDE DEF N, v
  <2>5. SumFunction(v) = Total(v, one)
    BY <2>3, TotalOfAll
  <2>6. IsFiniteSet(one) /\ (\A x \in one : v[x] \in Int) /\ one \in SUBSET one /\ r \in one /\ one \ {r} = none
    BY <2>3, FS_Singleton
  <2> HIDE DEF one
  <2>7. Total(v, none) = 0 /\ Total(v, one) = v[r] + Total(v, one \ {r})
    BY <2>6, TotalSteps
  <2> HIDE DEF none
  <2>8. Total(v, one) = Holdings + 0
    BY <2>3, <2>6, <2>7
  <2>9. QED
    BY <2>3, <2>4, <2>5, <2>8
<1>6. QED
  BY <1>4, <1>5

\* What such rows say of each position.
LEMMA RowsExact ==
  ASSUME wallet \in SUBSET Held, IsFiniteSet(merged), OnePerKey(merged),
         \A r \in merged : SaidIn(r, wallet), Traced(merged, wallet), NEW p \in wallet
  PROVE  \/ Worth(p) = Net(p.legs) \/ Doubled(p) \/ Revived(p)
         \/ Worth(p) = 0 /\ Sunk(p)
         \/ Worth(p) = 0 /\ \E q \in wallet : SamePool(p, q) /\ (Worth(q) = Net(q.legs) \/ Revived(q))
<1> DEFINE Own(q) == \E r \in RowsFor(q) : Entire(r, q)
           All(q) == \A k \in Meant(q) : \E r \in RowsFor(q) : r.key = k /\ Entire(r, q)
<1>1. ASSUME NEW q \in wallet
      PROVE  /\ q \in Held /\ IsFiniteSet(RowsFor(q)) /\ OnePerKey(RowsFor(q))
             /\ \A r \in RowsFor(q) : Said(r, q)
             /\ Worth(q) = ValueOf(RowsFor(q))
  <2>1. RowsFor(q) \in SUBSET merged
    BY DEF RowsFor
  <2>2. IsFiniteSet(RowsFor(q)) /\ OnePerKey(RowsFor(q))
    BY <2>1, FS_Subset DEF OnePerKey
  <2>3. ASSUME NEW r \in RowsFor(q) PROVE Said(r, q)
    <3>1. r \in merged /\ r.of = q.id
      BY DEF RowsFor
    <3>2. PICK o \in wallet : Said(r, o)
      BY <3>1 DEF SaidIn
    <3>3. o \in Held /\ q \in Held /\ r.of = o.id
      BY <3>2, EntireFields DEF Said, Settled, Blank, RowsAbout
    <3>4. o = q
      BY <3>1, <3>3, HeldAssumption
    <3>5. QED
      BY <3>2, <3>4
  <2>4. QED
    BY <2>2, <2>3 DEF Worth
<1>2. ASSUME NEW q \in wallet, ~ Doubled(q), ~ Shut(q), All(q) PROVE Worth(q) = Net(q.legs)
  BY <1>1, <1>2, AllCounts
<1>3. ASSUME NEW q \in wallet, Shut(q) PROVE Worth(q) = Net(q.legs) \/ Revived(q)
  <2>1. Worth(q) = 0 \/ Worth(q) = Holdings
    BY <1>1, <1>3, ShutCounts
  <2>2. q.cat = "amm_lp" /\ Net(q.legs) = 0 /\ q.adapter = "turbos"
    BY <1>1, <1>3, SourceAssumption DEF Shut
  <2>3. QED
    BY <2>1, <2>2 DEF Revived, Resurrected
<1>4. ASSUME NEW q \in wallet, ~ Doubled(q), ~ Shut(q), ~ Own(q) PROVE Worth(q) = 0
  <2>1. \A r \in RowsFor(q) : r.value = Null
    BY <1>1, <1>4 DEF Said, Settled, Blank
  <2>2. QED
    BY <1>1, <2>1, NullCounts
<1>5. ASSUME NEW q \in wallet, Own(q), Meant(q) = {MainKey(q)} PROVE All(q)
  BY <1>5 DEF Entire
<1>6. ASSUME NEW q \in wallet, NEW r \in merged, Entire(r, q) PROVE r \in RowsFor(q)
  BY <1>1, <1>6, EntireFields DEF RowsFor
<1>7. ASSUME NEW q \in wallet, q.cat = "amm_lp"
      PROVE  Meant(q) = {MainKey(q)} /\ MainKey(q) = PoolKey(q) /\ ~ Doubled(q)
  BY <1>1, <1>7, LpIs, MainPart
<1> HIDE DEF Own, All
<1>8. CASE Doubled(p) \/ Shut(p)
  BY <1>3, <1>8
<1>9. CASE ~ Doubled(p) /\ ~ Shut(p) /\ Sunk(p)
  <2>1. Meant(p) = {MainKey(p)}
    BY <1>1, <1>9, MainPart DEF Sunk, Split
  <2>2. QED
    BY <1>2, <1>4, <1>5, <1>9, <2>1
<1>10. CASE Clear(p) /\ ~ Shut(p)
  <2>0. ~ Doubled(p)
    BY <1>10 DEF Clear
  <2>1. CASE \E q \in wallet : SameKind(p, q) /\ Shut(q)
    <3>1. PICK q \in wallet : SameKind(p, q) /\ Shut(q)
      BY <2>1
    <3>2. SamePool(p, q)
      BY <1>10, <3>1 DEF SameKind
    <3>3. p.cat = "amm_lp"
      BY <1>1, <3>2, HeldAssumption DEF SamePool
    <3>4. QED
      BY <1>2, <1>3, <1>4, <1>5, <1>7, <1>10, <3>1, <3>2, <3>3
  <2>2. CASE \A k \in Meant(p) : HasWhole(merged, k, wallet)
    <3>1. CASE All(p)
      BY <1>2, <1>10, <2>0, <3>1
    <3>2. CASE ~ All(p)
      <4>1. PICK k \in Meant(p) : ~ \E r \in RowsFor(p) : r.key = k /\ Entire(r, p)
        BY <3>2 DEF All
      <4>2. PICK r \in merged, q \in wallet : r.key = k /\ ~ Doubled(q) /\ Entire(r, q)
        BY <2>2 DEF HasWhole
      <4>3. q # p
        BY <1>6, <4>1, <4>2
      <4>4. p \in Held /\ q \in Held /\ k \in KeysOf(p) /\ k \in KeysOf(q)
        BY <1>1, <4>2, EntireFields, MeantKeys
      <4>5. SamePool(p, q)
        BY <4>3, <4>4, KeysMeet DEF SameKind
      <4>6. p.cat = "amm_lp" /\ q.cat = "amm_lp"
        BY <4>4, <4>5, HeldAssumption DEF SamePool
      <4>7. ~ Own(p)
        BY <1>5, <1>7, <4>1, <4>6 DEF All
      <4>8. Worth(p) = 0
        BY <1>4, <1>10, <2>0, <4>7
      <4>9. Own(q) /\ ~ Shut(q)
        BY <1>6, <4>2 DEF Own, Entire
      <4>10. Worth(q) = Net(q.legs)
        BY <1>2, <1>5, <1>7, <4>2, <4>6, <4>9
      <4>11. QED
        BY <4>5, <4>8, <4>10
    <3>3. QED
      BY <3>1, <3>2
  <2>3. QED
    BY <1>10, <2>1, <2>2 DEF Traced
<1>11. QED
  BY <1>8, <1>9, <1>10 DEF Clear

-----------------------------------------------------------------------------
\* Step by step, while every call is answered in time.
Untroubled ==
  calm =>
    /\ scanned # Pending => scanned = OwnedRows(wallet)
    /\ phase = "fetching" =>
         \A a \in DOMAIN list : list[a] = Pending \/ list[a] = RowsOf(a, wallet, ReadsOf(a, wallet), Coins)
    /\ phase \in {"merged", "retried"} => (\A r \in merged : ToldIn(r, wallet, wallet)) /\ Covered(merged, wallet)
    /\ phase = "decoded" => (\A r \in merged : ToldIn(r, wallet, Faint(wallet))) /\ Traced(merged, wallet)
    /\ Replied => (\A r \in merged : SaidIn(r, wallet)) /\ Traced(merged, wallet)

CalmInv == CountInv /\ Untroubled

LEMMA CalmHas ==
  ASSUME CalmInv
  PROVE  /\ wallet \in SUBSET Held /\ DOMAIN list = Asked(wallet) /\ OnePerKey(merged) /\ IsFiniteSet(merged)
         /\ phase # "paid" => AreRows(merged, wallet)
         /\ Untroubled
<1>1. wallet \in SUBSET Held /\ OnePerKey(merged) /\ (phase # "paid" => AreRows(merged, wallet))
  BY DEF CalmInv, CountInv, FairInv, ResolveInv, RowsKept
<1>2. phase = "paid" => IsFiniteSet(merged)
  BY DEF CalmInv, CountInv, FairInv, AllPaid
<1>3. IsFiniteSet(merged)
  BY <1>1, <1>2 DEF AreRows
<1>4. DOMAIN list = Asked(wallet) /\ Untroubled
  BY DEF CalmInv, CountInv, Shape
<1>5. QED
  BY <1>1, <1>3, <1>4

LEMMA CalmExact ==
  CalmInv => Exact
<1> SUFFICES ASSUME CalmInv, Replied, calm, NEW p \in wallet
             PROVE  \/ Worth(p) = Net(p.legs) \/ Doubled(p) \/ Revived(p)
                    \/ Worth(p) = 0 /\ Sunk(p)
                    \/ Worth(p) = 0 /\ \E q \in wallet : SamePool(p, q) /\ (Worth(q) = Net(q.legs) \/ Revived(q))
  BY DEF Exact
<1>1. (\A r \in merged : SaidIn(r, wallet)) /\ Traced(merged, wallet)
  BY CalmHas DEF Untroubled
<1>2. QED
  BY <1>1, CalmHas, RowsExact

LEMMA CalmStarts ==
  AnalysisInit => CalmInv
<1> SUFFICES ASSUME AnalysisInit PROVE CalmInv
  OBVIOUS
<1>1. CountInv
  BY ShapeStarts
<1>2. phase = "fetching" /\ scanned = Pending /\ \A a \in DOMAIN list : list[a] = Pending
  BY DEF AnalysisInit, OverviewInit, ResolveInit
<1>3. QED
  BY <1>1, <1>2 DEF CalmInv, Untroubled, Replied

\* What the owned scan came back with stays what it was.
LEMMA ScanStays ==
  ASSUME CalmInv, calm, UNCHANGED <<wallet, scanned>>
  PROVE  (scanned # Pending => scanned = OwnedRows(wallet))'
<1>1. OwnedRows(wallet)' = OwnedRows(wallet)
  BY DEF OwnedRows
<1>2. QED
  BY <1>1, CalmHas DEF Untroubled

LEMMA AnswerCalm ==
  ASSUME CalmInv, NEW a \in DOMAIN list, Answer(a)
  PROVE  Untroubled'
<1>1. PICK up, priced : /\ list' = [list EXCEPT ![a] = RowsOf(a, wallet, up, priced)]
                        /\ calm' = (calm /\ up = ReadsOf(a, wallet) /\ priced = Coins)
  BY DEF Answer
<1>2. /\ phase = "fetching" /\ phase' = phase /\ wallet' = wallet /\ merged' = merged /\ scanned' = scanned
      /\ Untroubled
  BY CalmHas DEF Answer
<1>3. CASE calm'
  <2>1. calm /\ up = ReadsOf(a, wallet) /\ priced = Coins
    BY <1>1, <1>3, Zenon
  <2>2. list' = [list EXCEPT ![a] = RowsOf(a, wallet, ReadsOf(a, wallet), Coins)]
    BY <1>1, <2>1
  <2> HIDE DEF RowsOf, ReadsOf, Coins, OwnedRows
  <2>3. \A b \in DOMAIN list : list[b] = Pending \/ list[b] = RowsOf(b, wallet, ReadsOf(b, wallet), Coins)
    BY <1>2, <2>1 DEF Untroubled
  <2>4. \A b \in DOMAIN list' : list'[b] = Pending \/ list'[b] = RowsOf(b, wallet, ReadsOf(b, wallet), Coins)
    BY <2>2, <2>3
  <2>5. (scanned # Pending => scanned = OwnedRows(wallet))'
    BY <1>2, <2>1, ScanStays
  <2>6. QED
    BY <1>2, <2>4, <2>5 DEF Untroubled, Replied
<1>4. QED
  BY <1>3 DEF Untroubled

LEMMA CollectCalm ==
  ASSUME CalmInv, Collect
  PROVE  Untroubled'
<1>1. /\ phase = "fetching" /\ phase' = "merged" /\ wallet' = wallet /\ merged' = Merge(Lists)
      /\ calm' = calm /\ scanned # Pending /\ scanned' = scanned
      /\ \A a \in DOMAIN list : list[a] # Pending
  BY DEF Collect
<1>2. CASE calm
  <2>1. Complete(list, wallet)
    BY <1>1, <1>2, CalmHas DEF Untroubled, Complete
  <2>2. wallet \in SUBSET Held /\ DOMAIN list = Asked(wallet) /\ scanned = OwnedRows(wallet)
    BY <1>1, <1>2, CalmHas DEF Untroubled
  <2>3. (\A r \in Merge(Lists) : ToldIn(r, wallet, wallet)) /\ Covered(Merge(Lists), wallet)
    BY <2>1, <2>2, CollectTells
  <2>4. (scanned # Pending => scanned = OwnedRows(wallet))'
    BY <1>1, <1>2, ScanStays
  <2>5. QED
    BY <1>1, <2>3, <2>4 DEF Untroubled, Replied
<1>3. QED
  BY <1>1, <1>2 DEF Untroubled

LEMMA RetryCalm ==
  ASSUME CalmInv, RetryBlockvision
  PROVE  Untroubled'
<1>1. phase = "merged" /\ phase' = "retried" /\ wallet' = wallet /\ scanned' = scanned
  BY DEF RetryBlockvision
<1>2. CASE UNCHANGED <<merged, calm>>
  <2>1. calm => (scanned # Pending => scanned = OwnedRows(wallet))'
    BY <1>1, ScanStays
  <2>2. QED
    BY <1>1, <1>2, <2>1, CalmHas DEF Untroubled, Replied
<1>3. CASE ~ UNCHANGED <<merged, calm>>
  <2>1. PICK up \in SUBSET {List("blockvision")}, priced \in SUBSET Coins :
           /\ merged' = Merge(SetToSeq(merged) \o SetToSeq(BlockvisionRows(Of(wallet, "cetus"), up, priced)))
           /\ calm' = (calm /\ up # {} /\ priced = Coins)
    BY <1>3 DEF RetryBlockvision
  <2>2. CASE calm'
    <3>1. calm /\ up # {} /\ priced = Coins
      BY <2>1, <2>2, Zenon
    <3>2. List("blockvision") \in up
      BY <3>1
    <3>3. (\A r \in merged : ToldIn(r, wallet, wallet)) /\ Covered(merged, wallet) /\ AreRows(merged, wallet)
      BY <1>1, <3>1, CalmHas DEF Untroubled
    <3>4. (\A r \in merged' : ToldIn(r, wallet, wallet)) /\ Covered(merged', wallet)
      BY <2>1, <3>1, <3>2, <3>3, CalmHas, RetryTells
    <3>5. (scanned # Pending => scanned = OwnedRows(wallet))'
      BY <1>1, <3>1, ScanStays
    <3>6. QED
      BY <1>1, <3>4, <3>5 DEF Untroubled, Replied
  <2>3. QED
    BY <2>2 DEF Untroubled
<1>4. QED
  BY <1>2, <1>3

LEMMA DecodeCalm ==
  ASSUME CalmInv, Decode
  PROVE  Untroubled'
<1>1. phase = "retried" /\ phase' = "decoded" /\ wallet' = wallet /\ scanned' = scanned
  BY DEF Decode
<1>2. PICK up : /\ merged' = DropWeakLp(Merge(SetToSeq({Decoded(r, wallet, up) : r \in merged})))
                /\ calm' = (calm /\ \A p \in Clmm(wallet) : Read(p) \in up)
  BY DEF Decode
<1>3. CASE calm'
  <2>1. calm /\ \A p \in Clmm(wallet) : Read(p) \in up
    BY <1>2, <1>3, Zenon
  <2>2. (\A r \in merged : ToldIn(r, wallet, wallet)) /\ Covered(merged, wallet) /\ AreRows(merged, wallet)
    BY <1>1, <2>1, CalmHas DEF Untroubled
  <2>3. (\A r \in merged' : ToldIn(r, wallet, Faint(wallet))) /\ Traced(merged', wallet)
    BY <1>2, <2>1, <2>2, CalmHas, DecodeTraces
  <2>4. (scanned # Pending => scanned = OwnedRows(wallet))'
    BY <1>1, <2>1, ScanStays
  <2>5. QED
    BY <1>1, <2>3, <2>4 DEF Untroubled, Replied
<1>4. QED
  BY <1>3 DEF Untroubled

LEMMA PriceCalm ==
  ASSUME CalmInv, Price
  PROVE  Untroubled'
<1>1. phase = "decoded" /\ phase' = "answered" /\ wallet' = wallet /\ scanned' = scanned
  BY DEF Price
<1>2. PICK priced : /\ merged' = DropWeakLending({Valued(r, priced) : r \in merged})
                    /\ calm' = (calm /\ priced = Coins)
  BY DEF Price
<1>3. CASE calm'
  <2>1. calm /\ priced = Coins
    BY <1>2, <1>3, Zenon
  <2>2. (\A r \in merged : ToldIn(r, wallet, Faint(wallet))) /\ Traced(merged, wallet)
    BY <1>1, <2>1, CalmHas DEF Untroubled
  <2>3. (\A r \in merged' : SaidIn(r, wallet)) /\ Traced(merged', wallet)
    BY <1>2, <2>1, <2>2, CalmHas, PriceSays
  <2>4. (scanned # Pending => scanned = OwnedRows(wallet))'
    BY <1>1, <2>1, ScanStays
  <2>5. QED
    BY <1>1, <2>3, <2>4 DEF Untroubled, Replied
<1>4. QED
  BY <1>3 DEF Untroubled

LEMMA ServeCalm ==
  ASSUME CalmInv, Payload
  PROVE  Untroubled'
<1>1. phase = "answered" /\ phase' = "paid" /\ wallet' = wallet /\ calm' = calm /\ scanned' = scanned
  BY DEF Payload
<1>2. CASE calm
  <2>1. (\A r \in merged : SaidIn(r, wallet)) /\ Traced(merged, wallet)
    BY <1>1, <1>2, CalmHas DEF Untroubled, Replied
  <2>2. (\A r \in merged' : SaidIn(r, wallet)) /\ Traced(merged', wallet)
    BY <2>1, CalmHas, PayloadSays
  <2>3. (scanned # Pending => scanned = OwnedRows(wallet))'
    BY <1>1, <1>2, ScanStays
  <2>4. QED
    BY <1>1, <2>2, <2>3 DEF Untroubled, Replied
<1>3. QED
  BY <1>1, <1>2 DEF Untroubled

\* A failure ends the calm; the steps around the resolution change nothing of it.
LEMMA OtherCalm ==
  ASSUME CalmInv, calm' => calm, UNCHANGED <<wallet, list, merged, phase>>,
         calm /\ calm' => (scanned # Pending => scanned = OwnedRows(wallet))'
  PROVE  Untroubled'
BY CalmHas DEF Untroubled, Replied

LEMMA CalmKeeps ==
  CalmInv /\ [AnalysisNext]_analysisVars => CalmInv'
<1> SUFFICES ASSUME CalmInv, [AnalysisNext]_analysisVars PROVE CalmInv'
  OBVIOUS
<1>0. CountInv'
  BY CountKeeps DEF CalmInv
<1>1. CASE Balances
  <2>1. UNCHANGED <<wallet, scanned, list, merged, phase>> /\ \E b : calm' = (calm /\ b)
    BY <1>1, Zenon DEF Balances
  <2>2. calm' => calm
    BY <2>1, Zenon
  <2>3. calm => (scanned # Pending => scanned = OwnedRows(wallet))'
    BY <2>1, ScanStays
  <2>4. QED
    BY <1>0, <2>1, <2>2, <2>3, OtherCalm DEF CalmInv
<1>2. CASE ShowWallet
  <2>1. UNCHANGED <<wallet, scanned, list, merged, phase>> /\ \E b : calm' = (calm /\ b)
    BY <1>2, Zenon DEF ShowWallet
  <2>2. calm' => calm
    BY <2>1, Zenon
  <2>3. calm => (scanned # Pending => scanned = OwnedRows(wallet))'
    BY <2>1, ScanStays
  <2>4. QED
    BY <1>0, <2>1, <2>2, <2>3, OtherCalm DEF CalmInv
<1>3. CASE Summarise
  <2>1. UNCHANGED <<wallet, scanned, list, merged, phase>> /\ \E b : calm' = (calm /\ b)
    BY <1>3, Zenon DEF Summarise
  <2>2. calm' => calm
    BY <2>1, Zenon
  <2>3. calm => (scanned # Pending => scanned = OwnedRows(wallet))'
    BY <2>1, ScanStays
  <2>4. QED
    BY <1>0, <2>1, <2>2, <2>3, OtherCalm DEF CalmInv
<1>4. CASE Analyse \/ UNCHANGED allVars \/ UNCHANGED analysisVars
  <2>1. UNCHANGED <<wallet, scanned, list, merged, phase>> /\ calm' = calm
    BY <1>4 DEF Analyse, analysisVars, allVars, resolveVars
  <2>2. calm => (scanned # Pending => scanned = OwnedRows(wallet))'
    BY <2>1, ScanStays
  <2>3. QED
    BY <1>0, <2>1, <2>2, OtherCalm DEF CalmInv
<1>5. CASE Catch \/ \E a \in DOMAIN list : TimeOut(a)
  <2>1. ~ calm'
    BY <1>5 DEF Catch, TimeOut
  <2>2. QED
    BY <1>0, <2>1 DEF CalmInv, Untroubled
<1>6. CASE OwnedAnswers
  <2>1. UNCHANGED <<wallet, list, merged, phase>>
    BY <1>6 DEF OwnedAnswers
  <2>2. calm' => calm /\ scanned' = OwnedRows(wallet)
    BY <1>6, Zenon DEF OwnedAnswers
  <2>3. OwnedRows(wallet)' = OwnedRows(wallet)
    BY <2>1 DEF OwnedRows
  <2>4. QED
    BY <1>0, <2>1, <2>2, <2>3, OtherCalm DEF CalmInv
<1>7. CASE Serve
  BY <1>0, <1>7, ServeCalm DEF Serve, CalmInv
<1>8. CASE Collect \/ RetryBlockvision \/ Decode \/ Price
  BY <1>0, <1>8, CollectCalm, RetryCalm, DecodeCalm, PriceCalm DEF CalmInv
<1>9. CASE \E a \in DOMAIN list : Answer(a)
  BY <1>0, <1>9, AnswerCalm DEF CalmInv
<1>10. QED
  BY <1>1, <1>2, <1>3, <1>4, <1>5, <1>6, <1>7, <1>8, <1>9 DEF AnalysisNext, OverviewNext, Resolving

LEMMA CalmInvariant ==
  AnalysisSpec => []CalmInv
BY CalmStarts, CalmKeeps, PTL DEF AnalysisSpec

\* Exact of any wallet: if every call that resolveDefiPositions waited for was answered
\* in time and every coin had its price, the rows of each position in its payload come
\* to what the position is worth, debts included, however many sources report it.  The
\* exceptions are those of Exact: an obligation that BlockVision has too; a closed LP at
\* Turbos, which may be given the holdings; one whose adapter has no value for it because
\* more is owed than it has; and, of the positions in one pool, those whose row gave way
\* to that of another.
THEOREM AnswersAreExact ==
  AnalysisSpec => []Exact
BY CalmExact, CalmInvariant, PTL

-----------------------------------------------------------------------------
(* If everything was read: the totals, the chart's state and the profile.  *)

\* All that a wallet has, and without the receipts.
LEMMA BagCounts ==
  ASSUME wallet \in Wallets
  PROVE  /\ SumFunction(InWallet) = Plain + InReceipts({})
         /\ Plain \in Nat /\ InReceipts({}) \in Nat
         /\ DOMAIN InWallet \ ReceiptsOf(wallet) = DOMAIN Purse
<1> DEFINE P == DOMAIN Purse
           R == ReceiptsOf(wallet)
           all == DOMAIN InWallet
           bag == InWallet
           Q == {q \in wallet : HasReceipt(q) /\ q.receipt \notin {}}
           f == [p \in Q |-> Net(p.legs)]
           h == [p \in Q |-> p.receipt]
           G(c) == {p \in Q : h[p] = c}
           t == [c \in R |-> Total(f, G(c))]
<1>0. wallet \in SUBSET Held
  BY WalletAssumption
<1>1. /\ all = R \cup P /\ IsFiniteSet(all) /\ \A c \in all : bag[c] \in Nat
      /\ \A c \in P : bag[c] = Purse[c]
      /\ \A c \in R \ P : \E p \in wallet : HasReceipt(p) /\ p.receipt = c /\ bag[c] = Net(p.legs)
  BY <1>0, CoinsAre
<1>2. IsFiniteSet(P) /\ Purse \in [P -> Nat] /\ bag = [c \in all |-> bag[c]]
  BY PurseAssumption DEF InWallet, Spread
<1>3. R \subseteq ReceiptsOf(Held)
  BY <1>0 DEF ReceiptsOf
<1>4. R \cap P = {}
  BY <1>3, PurseAssumption
<1>5. all \ R = P /\ all \ P = R /\ P \in SUBSET all /\ R \in SUBSET all
  BY <1>1, <1>4
<1>6. Q \in SUBSET wallet /\ IsFiniteSet(Q) /\ \A p \in Q : f[p] \in Int /\ 0 <= f[p] /\ h[p] \in R
  BY <1>0, HeldAssumption, FS_Subset, OwedNothing DEF ReceiptsOf
<1>7. ASSUME NEW c \in R PROVE t[c] = bag[c]
  <2>1. PICK p \in wallet : HasReceipt(p) /\ p.receipt = c /\ bag[c] = Net(p.legs)
    BY <1>1, <1>4
  <2>2. \A q \in Q : h[q] = c => q = p
    BY <2>1, PurseAssumption
  <2> DEFINE one == {p}
             none == {}
  <2>3. G(c) = one /\ p \in Q /\ f[p] = bag[c]
    BY <2>1, <2>2
  <2>4. t[c] = Total(f, one)
    BY <2>3
  <2>5. IsFiniteSet(one) /\ (\A x \in one : f[x] \in Int) /\ one \in SUBSET one /\ p \in one /\ one \ {p} = none
    BY <1>6, <2>3, FS_Singleton
  <2>6. f[p] \in Int
    BY <1>6, <2>3
  <2> HIDE DEF one, f, t, Q, h, G, bag
  <2>7. Total(f, none) = 0 /\ Total(f, one) = f[p] + Total(f, one \ {p})
    BY <2>5, TotalSteps
  <2> HIDE DEF none
  <2>8. QED
    BY <2>3, <2>4, <2>5, <2>6, <2>7
<1>8. InReceipts({}) = SumFunction(f) /\ f \in [Q -> Int]
  BY <1>6 DEF InReceipts
<1>9. Total(f, Q) = Total(t, R)
  <2>1. IsFiniteSet(R)
    BY <1>1, <1>5, FS_Subset
  <2> HIDE DEF h, Q, f, R
  <2>2. \A p \in Q : f[p] \in Int /\ h[p] \in R
    BY <1>6
  <2>3. Total(f, Q) = Total([c \in R |-> Total(f, {x \in Q : h[x] = c})], R)
    BY <1>6, <2>1, <2>2, TotalGroups
  <2>4. QED
    BY <2>3
<1> HIDE DEF G, t, R, h, f, Q, bag, all, P
<1>10. SumFunction(f) = Total(f, Q) /\ Total(t, R) = Total(bag, R)
  BY <1>7, <1>8, TotalOfAll, TotalSame
<1>11. bag \in [all -> Int] /\ \A c \in all : bag[c] \in Int
  <2>1. \A c \in all : bag[c] \in Int
    BY <1>1
  <2> DEFINE e == [c \in all |-> bag[c]]
  <2>2. e \in [all -> Int]
    BY <2>1
  <2>3. bag = e
    BY <1>2
  <2> HIDE DEF e
  <2>4. QED
    BY <2>1, <2>2, <2>3
<1>12. SumFunction(bag) = Total(bag, all) /\ Total(bag, all) = Total(bag, P) + Total(bag, R)
  BY <1>1, <1>5, <1>11, TotalOfAll, TotalBoth
<1>13. Total(bag, P) = Total(Purse, P)
  BY <1>1, TotalSame
<1>14. Plain = Total(Purse, P) /\ Plain \in Nat
  <2>1. Purse \in [P -> Int] /\ \A c \in P : Purse[c] \in Int /\ 0 <= Purse[c]
    BY <1>2
  <2>2. Plain = Total(Purse, P)
    BY <2>1, TotalOfAll DEF Plain
  <2>3. Total(Purse, P) \in Int /\ 0 <= Total(Purse, P)
    BY <1>2, <2>1, TotalNat
  <2>4. QED
    BY <2>2, <2>3
<1>15. InReceipts({}) \in Nat
  <2>1. \A p \in Q : f[p] \in Int /\ 0 <= f[p]
    BY <1>6
  <2>2. Total(f, Q) \in Int /\ 0 <= Total(f, Q)
    BY <1>6, <2>1, TotalNat
  <2>3. QED
    BY <1>8, <1>10, <2>2
<1>16. InReceipts({}) = Total(bag, R)
  BY <1>8, <1>9, <1>10
<1>17. QED
  BY <1>5, <1>12, <1>13, <1>14, <1>15, <1>16 DEF bag, all, R, P

\* With its decimals and its price known, a balance is shown for what it is.
LEMMA UsdExact ==
  ASSUME wallet \in SUBSET Held, NEW b, Part(b), NEW priced, NEW known, DOMAIN b \subseteq priced \cap known
  PROVE  UsdOf(b, priced, known) = [c \in DOMAIN b |-> b[c]]
<1> DEFINE usd(c) == Usd(c, b[c], known)
<1>1. ASSUME NEW c \in DOMAIN b PROVE usd(c) = b[c]
  <2> DEFINE u == Units(Decimals[c])
             n == b[c]
  <2>1. n \in Nat /\ Decimals[c] \in Nat
    BY CoinsAre DEF Part
  <2>2. u \in Nat /\ 1 <= u
    BY <2>1, UnitsGrow
  <2>3. usd(c) = (n * u) \div u
    BY DEF Usd, Dec
  <2> HIDE DEF u, n, usd
  <2>4. (n * u) \div u = n
    BY <2>1, <2>2
  <2>5. QED
    BY <2>3, <2>4 DEF n
<1>2. UsdOf(b, priced, known) = [c \in DOMAIN b |-> usd(c)]
  BY DEF UsdOf
<1> HIDE DEF usd
<1>3. QED
  BY <1>1, <1>2

\* Both lists of coins when everything was read.
LEMMA ListsExact ==
  ASSUME wallet \in Wallets, NEW priced, NEW known, DOMAIN InWallet \subseteq priced \cap known
  PROVE  /\ TokensUsd(InWallet, priced, known) = Plain + InReceipts({})
         /\ SumFunction(UsdOf(Restrict(InWallet, DOMAIN InWallet \ ReceiptsOf(wallet)), priced, known)) = Plain
<1> DEFINE bag == InWallet
           R == ReceiptsOf(wallet)
           b == Restrict(bag, DOMAIN bag \ R)
<1>0. wallet \in SUBSET Held
  BY WalletAssumption
<1>1. Part(bag)
  BY PartsAre
<1>2. UsdOf(bag, priced, known) = bag
  <2>1. bag = [c \in DOMAIN bag |-> bag[c]]
    BY DEF InWallet, Spread
  <2> HIDE DEF bag
  <2>2. DOMAIN bag \subseteq priced \cap known
    BY DEF bag
  <2>3. QED
    BY <1>0, <1>1, <2>1, <2>2, UsdExact
<1>3. Part(b) /\ DOMAIN b = DOMAIN bag \ R
  <2> HIDE DEF bag, R
  <2>1. QED
    BY <1>1, PartsAre
<1>4. DOMAIN b = DOMAIN Purse /\ DOMAIN b \subseteq priced \cap known
  BY <1>3, BagCounts
<1>5. b = Purse
  <2>1. Purse = [c \in DOMAIN Purse |-> Purse[c]]
    BY PurseAssumption
  <2>2. b = [c \in DOMAIN b |-> b[c]]
    BY DEF Restrict
  <2>3. \A c \in DOMAIN Purse : bag[c] = Purse[c]
    BY <1>0, CoinsAre
  <2> HIDE DEF b, bag
  <2>4. \A c \in DOMAIN b : b[c] = bag[c]
    BY <1>3 DEF Part, bag
  <2>5. QED
    BY <1>4, <2>1, <2>2, <2>3, <2>4
<1>6. UsdOf(b, priced, known) = b
  <2>1. b = [c \in DOMAIN b |-> b[c]]
    BY DEF Restrict
  <2> HIDE DEF b
  <2>2. QED
    BY <1>0, <1>3, <1>4, <2>1, UsdExact
<1>7. SumFunction(bag) = Plain + InReceipts({})
  BY BagCounts
<1>8. QED
  BY <1>2, <1>5, <1>6, <1>7 DEF TokensUsd, Plain

\* What the rows say together is what they say of each position.
LEMMA ValueGroups ==
  ASSUME wallet \in SUBSET Held, Typed(merged), \A r \in merged : \E p \in wallet : r.of = p.id
  PROVE  ValueOf(merged) = AllWorth
<1> DEFINE N == {r \in merged : r.value # Null}
           v == [r \in N |-> r.value]
           owner(r) == CHOOSE p \in wallet : r.of = p.id
           h == [r \in N |-> owner(r)]
           G(p) == {r \in N : h[r] = p}
           t == [p \in wallet |-> Total(v, G(p))]
           worth == [p \in wallet |-> Worth(p)]
<1>1. IsFiniteSet(wallet) /\ IsFiniteSet(N) /\ \A r \in N : v[r] \in Int
  BY HeldAssumption, FS_Subset DEF Typed
<1>2. \A r \in N : h[r] \in wallet /\ r.of = h[r].id
  <2> SUFFICES ASSUME NEW r \in N PROVE owner(r) \in wallet /\ r.of = owner(r).id
    OBVIOUS
  <2>1. \E p \in wallet : r.of = p.id
    OBVIOUS
  <2>2. QED
    BY <2>1
<1> HIDE DEF owner
<1>3. ASSUME NEW p \in wallet PROVE G(p) = {r \in RowsFor(p) : r.value # Null}
  <2>1. \A r \in N : h[r] = p <=> r.of = p.id
    <3> SUFFICES ASSUME NEW r \in N PROVE h[r] = p <=> r.of = p.id
      OBVIOUS
    <3>1. p \in Held /\ h[r] \in Held /\ r.of = h[r].id
      BY <1>2
    <3> HIDE DEF h
    <3>2. QED
      BY <3>1, HeldAssumption
  <2> HIDE DEF h
  <2>2. QED
    BY <2>1 DEF RowsFor
<1>4. ASSUME NEW p \in wallet PROVE t[p] = Worth(p)
  <2> DEFINE S == {r \in RowsFor(p) : r.value # Null}
  <2>1. S \subseteq N
    BY DEF RowsFor
  <2>2. t[p] = SumFunction(Restrict(v, S))
    BY <1>3 DEF Total
  <2>3. Worth(p) = SumFunction([r \in S |-> r.value])
    BY DEF Worth, ValueOf
  <2>4. Restrict(v, S) = [r \in S |-> r.value]
    BY <2>1 DEF Restrict
  <2>5. QED
    BY <2>2, <2>3, <2>4
<1>5. Total(v, N) = Total(t, wallet)
  <2> HIDE DEF v, h, N
  <2>1. \A r \in N : v[r] \in Int /\ h[r] \in wallet
    BY <1>1, <1>2
  <2>2. Total(v, N) = Total([p \in wallet |-> Total(v, {r \in N : h[r] = p})], wallet)
    BY <1>1, <2>1, TotalGroups
  <2>3. QED
    BY <2>2
<1>6. t = worth
  BY <1>4
<1>7. ValueOf(merged) = SumFunction(v) /\ v \in [N -> Int]
  BY <1>1 DEF ValueOf
<1> HIDE DEF v, t, G, N
<1>8. SumFunction(v) = Total(v, N)
  BY <1>7, TotalOfAll
<1>9. Total(worth, wallet) = SumFunction(worth)
  <2>1. Restrict(worth, wallet) = worth
    BY DEF Restrict
  <2>2. QED
    BY <2>1 DEF Total
<1>10. QED
  BY <1>5, <1>6, <1>7, <1>8, <1>9 DEF AllWorth

\* When everything was answered each position is worth what it is.
LEMMA AloneExact ==
  ASSUME CalmInv, calm, Replied, Alone, NEW p \in wallet
  PROVE  Worth(p) = Net(p.legs) \/ (phase = "paid" /\ Resurrected(p))
<1>1. Worth(p) = Net(p.legs) \/ Revived(p)
  BY CalmExact DEF Exact, Alone
<1>2. CASE phase = "answered" /\ Revived(p)
  <2>1. FairInv /\ p \in Held
    BY DEF CalmInv, CountInv, FairInv, ResolveInv
  <2>2. p.cat = "amm_lp" /\ Net(p.legs) = 0 /\ Worth(p) = Holdings /\ p.adapter = "turbos"
    BY <1>2 DEF Revived, Resurrected
  <2>3. Worth(p) <= AtMost(p)
    BY <1>2, <2>1, AnswersBounded, Replied DEF NeverOverstated, StoodIn
  <2>4. AtMost(p) = Net(p.legs)
    BY <2>1, <2>2, NoDebts, SourceAssumption DEF AtMost, Doubled
  <2>5. QED
    BY <2>2, <2>3, <2>4, WalletAssumption
<1>3. QED
  BY <1>1, <1>2 DEF Replied, Revived

\* What is shown of a wallet that was read in full.
Full ==
  calm =>
    /\ rows # Pending => rows = InWallet
    /\ tokens # Pending => tokens.hidden = ReceiptsOf(wallet) /\ SumFunction(tokens.list) = Plain
    /\ total # Pending /\ Alone => total.tokens + total.positions = Plain + AllNet + InReceipts({})

\* The answer's rows come to what there is, and no stake is missing.
LEMMA AnsweredExact ==
  ASSUME CalmInv, calm, phase = "answered", Alone, NEW indexed \in SUBSET Of(wallet, "staking"), NEW priced
  PROVE  ValueOf(merged) = AllNet /\ AllNet \in Int /\ AddedStake(indexed, priced) = 0
<1> DEFINE net == [p \in indexed |-> Net(p.legs)]
           all == [p \in wallet |-> Net(p.legs)]
           worth == [p \in wallet |-> Worth(p)]
<1>1. /\ wallet \in SUBSET Held /\ IsFiniteSet(merged) /\ OnePerKey(merged) /\ Replied
      /\ \A r \in merged : FairIn(r, wallet)
  BY CalmHas DEF CalmInv, CountInv, FairInv, RowsFair, ResolveInv, RowsKept, AreRows, Replied
<1>2. Typed(merged) /\ \A r \in merged : \E p \in wallet : r.of = p.id
  <2>1. \A r \in merged : r.value = Null \/ r.value \in Int
    BY <1>1 DEF FairIn, Fair
  <2>2. QED
    BY <1>1, <2>1, FairFields DEF FairIn, Typed
<1>3. \A p \in wallet : Worth(p) = Net(p.legs)
  BY <1>1, AloneExact
<1>4. worth = all
  BY <1>3
<1>5. ValueOf(merged) = AllNet
  BY <1>1, <1>2, <1>4, ValueGroups DEF AllWorth, AllNet
<1>6. \A p \in wallet : Net(p.legs) \in Int
  BY <1>1, MostIs
<1>7. AllNet \in Int
  <2>1. all \in [wallet -> Int] /\ IsFiniteSet(wallet)
    BY <1>1, <1>6, HeldAssumption, FS_Subset
  <2>2. AllNet = SumFunction(all)
    BY DEF AllNet
  <2> HIDE DEF all
  <2>3. QED
    BY <2>1, <2>2, SmallSums
<1>8. AddedStake(indexed, priced) = 0
  <2>1. CASE RpcStake # 0
    BY <2>1 DEF AddedStake
  <2>2. CASE RpcStake = 0
    <3>1. ASSUME NEW p \in indexed PROVE net[p] = 0
      <4> DEFINE R == {r \in merged : r.of = p.id}
      <4>1. p \in Of(wallet, "staking") /\ p \in wallet /\ p \in Held /\ p.adapter = "staking"
        BY <1>1 DEF Of
      <4>2. PlusOf(R) <= 0
        BY <1>1, <2>2, <4>1, StakeSeen
      <4>3. Typed(R)
        BY <1>2, FS_Subset DEF Typed
      <4>4. R = RowsFor(p) /\ Worth(p) = ValueOf(R)
        BY DEF RowsFor, Worth
      <4> HIDE DEF R
      <4>5. ValueOf(R) \in Int /\ ValueOf(R) <= PlusOf(R) /\ PlusOf(R) \in Int
        BY <4>3, PlusIs
      <4>6. Net(p.legs) \in Nat
        BY <4>1, OwedNothing
      <4>7. Net(p.legs) = 0
        BY <1>3, <4>1, <4>2, <4>4, <4>5, <4>6
      <4>8. QED
        BY <4>7
    <3>2. IsFiniteSet(indexed) /\ indexed \subseteq wallet
      BY <1>1, HeldAssumption, FS_Subset DEF Of
    <3>3. net \in [indexed -> Int] /\ IndexedStake(indexed) = SumFunction(net)
      BY <3>1 DEF IndexedStake
    <3> HIDE DEF net
    <3>4. SumFunction(net) = Total(net, indexed)
      BY <3>3, TotalOfAll
    <3>5. Total(net, indexed) \in Int /\ 0 <= Total(net, indexed)
      BY <3>1, <3>2, TotalNat
    <3>6. Total(net, indexed) <= 0
      BY <3>1, <3>2, NoneCounts
    <3>7. QED
      BY <3>3, <3>4, <3>5, <3>6 DEF AddedStake
  <2>3. QED
    BY <2>1, <2>2
<1>9. QED
  BY <1>5, <1>7, <1>8

LEMMA FullStays ==
  ASSUME Full, wallet' = wallet, UNCHANGED mine, calm' => calm
  PROVE  Full'
<1>1. rows' = rows /\ tokens' = tokens /\ total' = total
  BY DEF mine
<1>2. InWallet' = InWallet /\ InReceipts({})' = InReceipts({}) /\ ReceiptsOf(wallet)' = ReceiptsOf(wallet) /\ Plain' = Plain
  BY WalletStays
<1>3. AllNet' = AllNet /\ Alone' = Alone
  BY DEF AllNet, Alone
<1>4. QED
  BY <1>1, <1>2, <1>3 DEF Full

LEMMA FullStarts ==
  AnalysisInit => Full
BY DEF AnalysisInit, OverviewInit, Full

LEMMA BalancesFull ==
  ASSUME Full, Balances
  PROVE  Full'
<1>1. wallet' = wallet /\ tokens' = tokens /\ total' = total
  BY DEF Balances
<1>2. PICK b : calm' = (calm /\ b) /\ (b => rows' = InWallet)
  BY Zenon DEF Balances
<1>3. calm' => calm /\ rows' = InWallet
  BY <1>2, Zenon
<1>4. InWallet' = InWallet /\ InReceipts({})' = InReceipts({}) /\ ReceiptsOf(wallet)' = ReceiptsOf(wallet) /\ Plain' = Plain
  BY <1>1, WalletStays
<1>5. AllNet' = AllNet /\ Alone' = Alone
  BY <1>1 DEF AllNet, Alone
<1>6. QED
  BY <1>1, <1>3, <1>4, <1>5 DEF Full

LEMMA ShowWalletFull ==
  ASSUME CalmInv, Full, ShowWallet
  PROVE  Full'
<1>1. wallet' = wallet /\ rows' = rows /\ total' = total /\ rows # Pending
  BY DEF ShowWallet
<1>2. PICK priced \in SUBSET DOMAIN InWallet, known \in SUBSET DOMAIN InWallet,
           registries \in SUBSET {"scoin", "ember"} :
        LET hidden == ReceiptsOf({p \in wallet : p.adapter \in registries})
        IN /\ tokens' = [list |-> UsdOf(Restrict(rows, DOMAIN rows \ hidden), priced, known),
                         hidden |-> hidden]
           /\ calm' = (calm /\ DOMAIN rows \subseteq priced \cap known
                            /\ hidden = ReceiptsOf(wallet))
  BY DEF ShowWallet
<1> DEFINE hidden == ReceiptsOf({p \in wallet : p.adapter \in registries})
<1>3. tokens'.list = UsdOf(Restrict(rows, DOMAIN rows \ hidden), priced, known) /\ tokens'.hidden = hidden
  BY <1>2
<1>4. calm' => calm /\ DOMAIN rows \subseteq priced \cap known /\ hidden = ReceiptsOf(wallet)
  BY <1>2, Zenon
<1> HIDE DEF hidden
<1>5. ASSUME calm' PROVE rows = InWallet /\ tokens'.hidden = ReceiptsOf(wallet) /\ SumFunction(tokens'.list) = Plain
  <2>1. rows = InWallet
    BY <1>1, <1>4, <1>5 DEF Full
  <2>2. wallet \in Wallets
    BY DEF CalmInv, CountInv, Shape
  <2>3. QED
    BY <1>3, <1>4, <1>5, <2>1, <2>2, ListsExact
<1>6. InWallet' = InWallet /\ InReceipts({})' = InReceipts({}) /\ ReceiptsOf(wallet)' = ReceiptsOf(wallet) /\ Plain' = Plain
  BY <1>1, WalletStays
<1>7. AllNet' = AllNet /\ Alone' = Alone
  BY <1>1 DEF AllNet, Alone
<1>8. QED
  BY <1>1, <1>4, <1>5, <1>6, <1>7 DEF Full

LEMMA SummariseFull ==
  ASSUME CalmInv, Full, Summarise
  PROVE  Full'
<1>1. wallet' = wallet /\ rows' = rows /\ tokens' = tokens /\ rows # Pending /\ phase = "answered"
  BY DEF Summarise
<1>2. PICK priced \in SUBSET DOMAIN InWallet, known \in SUBSET DOMAIN InWallet,
           indexed \in SUBSET Of(wallet, "staking") :
        /\ total' = [tokens |-> TokensUsd(rows, priced, known) + AddedStake(indexed, priced),
                     positions |-> ValueOf(merged)]
        /\ calm' = (calm /\ DOMAIN rows \subseteq priced \cap known)
  BY DEF Summarise
<1>3. /\ total'.tokens = TokensUsd(rows, priced, known) + AddedStake(indexed, priced)
      /\ total'.positions = ValueOf(merged)
  BY <1>2
<1>4. calm' => calm /\ DOMAIN rows \subseteq priced \cap known
  BY <1>2, Zenon
<1>5. ASSUME calm', Alone PROVE total'.tokens + total'.positions = Plain + AllNet + InReceipts({})
  <2>1. rows = InWallet /\ calm
    BY <1>1, <1>4, <1>5 DEF Full
  <2>2. wallet \in Wallets
    BY DEF CalmInv, CountInv, Shape
  <2>3. TokensUsd(rows, priced, known) = Plain + InReceipts({})
    BY <1>4, <1>5, <2>1, <2>2, ListsExact
  <2>4. ValueOf(merged) = AllNet /\ AllNet \in Int /\ AddedStake(indexed, priced) = 0
    BY <1>1, <1>5, <2>1, AnsweredExact
  <2>5. Plain \in Nat /\ InReceipts({}) \in Nat
    BY <2>2, BagCounts
  <2>6. QED
    BY <1>3, <2>3, <2>4, <2>5
<1>6. InWallet' = InWallet /\ InReceipts({})' = InReceipts({}) /\ ReceiptsOf(wallet)' = ReceiptsOf(wallet) /\ Plain' = Plain
  BY <1>1, WalletStays
<1>7. AllNet' = AllNet /\ Alone' = Alone
  BY <1>1 DEF AllNet, Alone
<1>8. QED
  BY <1>1, <1>4, <1>5, <1>6, <1>7 DEF Full

LEMMA FullKeeps ==
  CalmInv /\ Full /\ [AnalysisNext]_analysisVars => Full'
<1> SUFFICES ASSUME CalmInv, Full, [AnalysisNext]_analysisVars PROVE Full'
  OBVIOUS
<1>1. CASE Balances \/ ShowWallet \/ Summarise
  BY <1>1, BalancesFull, ShowWalletFull, SummariseFull
<1>2. CASE UNCHANGED mine
  <2>1. wallet' = wallet
    BY ListStays
  <2>2. calm' => calm
    BY CalmIs DEF CalmInv, CountInv, Shape
  <2>3. QED
    BY <1>2, <2>1, <2>2, FullStays
<1>3. CASE Serve \/ Analyse \/ UNCHANGED allVars \/ UNCHANGED analysisVars
  <2>1. UNCHANGED mine
    BY <1>3 DEF Serve, Analyse, allVars, analysisVars
  <2>2. QED
    BY <1>2, <2>1
<1>4. QED
  BY <1>1, <1>2, <1>3 DEF AnalysisNext, OverviewNext

LEMMA FullInvariant ==
  AnalysisSpec => []Full
BY FullStarts, FullKeeps, CalmInvariant, PTL DEF AnalysisSpec

LEMMA TotalsAreExact ==
  CalmInv /\ ProfileInv /\ Full => TotalsExact
<1> SUFFICES ASSUME CalmInv, ProfileInv, Full, calm, phase = "paid", Alone
             PROVE  /\ total.tokens + total.positions = Plain + AllNet + InReceipts({})
                    /\ (~ \E p \in wallet : Resurrected(p)) => SumFunction(tokens.list) + AllWorth = Plain + AllNet
  BY DEF TotalsExact
<1>1. tokens # Pending /\ total # Pending
  BY DEF ProfileInv
<1>2. ASSUME ~ \E p \in wallet : Resurrected(p) PROVE AllWorth = AllNet
  <2>1. \A p \in wallet : Worth(p) = Net(p.legs)
    BY <1>2, AloneExact DEF Replied
  <2>2. [p \in wallet |-> Worth(p)] = [p \in wallet |-> Net(p.legs)]
    BY <2>1
  <2>3. QED
    BY <2>2 DEF AllWorth, AllNet
<1>3. QED
  BY <1>1, <1>2 DEF Full

\* A power of ten is the product of two.
LEMMA UnitsAdd ==
  ASSUME NEW m \in Nat, NEW n \in Nat
  PROVE  Units(0) = 1 /\ Units(m + n) = Units(m) * Units(n)
<1> DEFINE s == m + n
<1>1. PICK g : Powers(g, s) /\ Units(s) = g[s]
  BY UnitsPower
<1>2. PICK h : Powers(h, n) /\ Units(n) = h[n]
  BY UnitsPower
<1>3. PICK e : Powers(e, m) /\ Units(m) = e[m]
  BY UnitsPower
<1>4. PICK z : Powers(z, 0) /\ Units(0) = z[0]
  BY UnitsPower
<1>5. /\ g \in [0..s -> Nat] /\ g[0] = 1 /\ (\A i \in 1..s : g[i] = 10 * g[i - 1])
      /\ h \in [0..n -> Nat] /\ h[0] = 1 /\ (\A i \in 1..n : h[i] = 10 * h[i - 1])
      /\ e \in [0..m -> Nat] /\ e[0] = 1 /\ (\A i \in 1..m : e[i] = 10 * e[i - 1])
  BY <1>1, <1>2, <1>3 DEF Powers
<1>6. s \in Nat /\ m <= s
  OBVIOUS
<1> DEFINE P == {i \in Nat : i \in 0..m => g[i] = e[i]}
           Q == {i \in Nat : i \in 0..n => g[m + i] = e[m] * h[i]}
<1> HIDE DEF s
<1>7. m \in P
  <2>1. 0 \in P
    BY <1>5
  <2>2. ASSUME NEW i \in Nat, i \in P PROVE i + 1 \in P
    <3> SUFFICES ASSUME i + 1 \in 0..m PROVE g[i + 1] = e[i + 1]
      OBVIOUS
    <3>1. i \in 0..m /\ i + 1 \in 1..m /\ i + 1 \in 1..s /\ (i + 1) - 1 = i
      BY <1>6
    <3>2. g[i + 1] = 10 * g[(i + 1) - 1] /\ e[i + 1] = 10 * e[(i + 1) - 1]
      BY <1>5, <3>1
    <3>3. QED
      BY <2>2, <3>1, <3>2
  <2> HIDE DEF P
  <2>3. QED
    BY <2>1, <2>2, NatInd
<1>8. g[m] = e[m] /\ e[m] \in Nat
  BY <1>5, <1>7
<1>9. n \in Q
  <2>1. 0 \in Q
    BY <1>5, <1>8
  <2>2. ASSUME NEW i \in Nat, i \in Q PROVE i + 1 \in Q
    <3> SUFFICES ASSUME i + 1 \in 0..n PROVE g[m + (i + 1)] = e[m] * h[i + 1]
      OBVIOUS
    <3>1. i \in 0..n /\ i + 1 \in 1..n /\ (i + 1) - 1 = i
      OBVIOUS
    <3>2. m + (i + 1) \in 1..s /\ (m + (i + 1)) - 1 = m + i
      BY DEF s
    <3>3. g[m + (i + 1)] = 10 * g[m + i]
      <4>1. g[m + (i + 1)] = 10 * g[(m + (i + 1)) - 1]
        BY <1>5, <3>2
      <4>2. QED
        BY <3>2, <4>1
    <3>4. h[i + 1] = 10 * h[i] /\ h[i] \in Nat
      <4>1. h[i + 1] = 10 * h[(i + 1) - 1] /\ h[i] \in Nat
        BY <1>5, <3>1
      <4>2. QED
        BY <3>1, <4>1
    <3>5. g[m + i] = e[m] * h[i]
      BY <2>2, <3>1
    <3> DEFINE a == e[m]
               b == h[i]
    <3>6. g[m + (i + 1)] = 10 * (a * b) /\ e[m] * h[i + 1] = a * (10 * b) /\ a \in Nat /\ b \in Nat
      BY <1>8, <3>3, <3>4, <3>5
    <3> HIDE DEF a, b
    <3>7. 10 * (a * b) = a * (10 * b)
      BY <3>6
    <3>8. QED
      BY <3>6, <3>7
  <2> HIDE DEF Q
  <2>3. QED
    BY <2>1, <2>2, NatInd
<1>10. Units(0) = 1
  BY <1>4 DEF Powers
<1>11. QED
  BY <1>1, <1>2, <1>3, <1>9, <1>10 DEF s

\* An amount that is written in one scale comes out in another.
LEMMA RescaleBack ==
  ASSUME NEW n \in Nat, NEW from \in Nat, NEW to \in Nat
  PROVE  Rescale(n * Units(from), from, to) = n * Units(to)
<1>1. CASE from > to
  <2> DEFINE d == from - to
             u == Units(to)
             v == Units(d)
  <2>1. d \in Nat /\ from = to + d
    BY <1>1
  <2>2. Units(from) = u * v /\ u \in Nat /\ v \in Nat /\ 1 <= v
    BY <2>1, UnitsAdd, UnitsGrow
  <2>3. Rescale(n * Units(from), from, to) = (n * (u * v)) \div v
    BY <1>1, <2>2 DEF Rescale
  <2> HIDE DEF u, v, d
  <2> DEFINE a == n * u
  <2>4. a \in Nat /\ n * (u * v) = a * v
    BY <2>2
  <2> HIDE DEF a
  <2>5. (a * v) \div v = a
    BY <2>2, <2>4
  <2>6. QED
    BY <2>3, <2>4, <2>5 DEF a, u
<1>2. CASE ~ (from > to)
  <2> DEFINE d == to - from
             u == Units(from)
             v == Units(d)
  <2>1. d \in Nat /\ to = from + d
    BY <1>2
  <2>2. Units(to) = u * v /\ u \in Nat /\ v \in Nat
    BY <2>1, UnitsAdd, UnitsGrow
  <2>3. Rescale(n * Units(from), from, to) = (n * u) * v
    BY <1>2 DEF Rescale
  <2> HIDE DEF u, v, d
  <2>4. (n * u) * v = n * (u * v)
    BY <2>2
  <2>5. QED
    BY <2>2, <2>3, <2>4
<1>3. QED
  BY <1>1, <1>2

Fields(r, p) == r.of = p.id /\ r.protocol = p.protocol /\ r.cat = p.cat

\* The rows of a wallet that was read in full: each is of one of the positions,
\* and each position has one for every key it is meant to have.
ReadAll ==
  /\ wallet \in SUBSET Held /\ IsFiniteSet(wallet) /\ IsFiniteSet(merged) /\ OnePerKey(merged)
  /\ \A p \in wallet : ~ Doubled(p)
  /\ \A r \in merged : \E p \in wallet : Fields(r, p) /\ (Settled(r, p) \/ Blank(r, p))
  /\ \A p \in wallet : Shut(p) \/ \A k \in Meant(p) : \E r \in merged : Fields(r, p) /\ r.key = k /\ Settled(r, p)

LEMMA AllAreRead ==
  ASSUME CalmInv, calm, Replied, Alone
  PROVE  ReadAll
<1>1. /\ wallet \in SUBSET Held /\ OnePerKey(merged) /\ IsFiniteSet(merged)
      /\ (\A r \in merged : SaidIn(r, wallet)) /\ Traced(merged, wallet)
  BY CalmHas DEF Untroubled
<1>2. IsFiniteSet(wallet)
  BY <1>1, HeldAssumption, FS_Subset
<1>3. \A p \in wallet : p \in Held /\ ~ Doubled(p) /\ Clear(p)
  BY <1>1 DEF Alone, Clear
<1>4. ASSUME NEW r \in merged PROVE \E p \in wallet : Fields(r, p) /\ (Settled(r, p) \/ Blank(r, p))
  <2>1. PICK p \in wallet : Said(r, p)
    BY <1>1 DEF SaidIn
  <2>2. Settled(r, p) \/ Blank(r, p)
    BY <1>3, <2>1 DEF Said
  <2>3. r \in RowsAbout(p, {r.value})
    BY <2>2 DEF Settled, Entire, Blank
  <2>4. QED
    BY <2>2, <2>3 DEF RowsAbout, Fields
<1>5. ASSUME NEW p \in wallet, ~ Shut(p), NEW k \in Meant(p)
      PROVE  \E r \in merged : Fields(r, p) /\ r.key = k /\ Settled(r, p)
  <2>1. \A q \in wallet : SameKind(p, q) => q = p
    BY DEF Alone, SameKind
  <2>2. HasWhole(merged, k, wallet)
    BY <1>1, <1>3, <1>5, <2>1 DEF Traced
  <2>3. PICK r \in merged, q \in wallet : r.key = k /\ Entire(r, q)
    BY <2>2 DEF HasWhole
  <2>4. k \in KeysOf(p) /\ k \in KeysOf(q) /\ r.of = q.id
    BY <1>3, <2>3, EntireFields, MeantKeys
  <2>5. q = p
    BY <1>3, <2>1, <2>4, KeysMeet
  <2>6. PICK o \in wallet : Fields(r, o) /\ Said(r, o)
    BY <1>3, <1>4 DEF Said
  <2>7. o = p
    BY <1>3, <2>4, <2>5, <2>6, HeldAssumption DEF Fields
  <2>8. Settled(r, p)
    BY <1>3, <2>3, <2>5, <2>6, <2>7, EntireSettled
  <2>9. QED
    BY <2>3, <2>6, <2>7, <2>8
<1>6. QED
  BY <1>1, <1>2, <1>3, <1>4, <1>5 DEF ReadAll

\* A row's details are those of its position.
LEMMA RowOfCoin ==
  ASSUME ReadAll, NEW r \in merged, NEW c \in DOMAIN r.legs
  PROVE  \E p \in wallet : /\ Fields(r, p) /\ Entire(r, p) /\ ~ Valuer(p)
                           /\ c \in DOMAIN p.legs /\ r.legs[c] = p.legs[c] /\ r.key = KeyFor(p, c)
<1>1. PICK p \in wallet : Fields(r, p) /\ (Settled(r, p) \/ Blank(r, p))
  BY DEF ReadAll
<1>2. Settled(r, p)
  BY <1>1 DEF Blank, Bare, NoLegs
<1>3. Entire(r, p) /\ r.legs = LegsAt(p, r.key)
  BY <1>2 DEF Settled, Entire
<1>4. ~ Valuer(p) /\ r.legs = PartAt(p, r.key)
  BY <1>3 DEF LegsAt, NoLegs
<1>5. c \in CoinsAt(p, r.key) /\ r.legs[c] = p.legs[c]
  BY <1>4 DEF PartAt, Restrict
<1>6. QED
  BY <1>1, <1>3, <1>4, <1>5 DEF CoinsAt

\* What there is of a coin has a row, unless its adapter gives values alone.
LEMMA CoinHasRow ==
  ASSUME ReadAll, NEW p \in wallet, ~ Valuer(p), NEW c \in DOMAIN p.legs, p.legs[c] # 0
  PROVE  \E r \in merged : Fields(r, p) /\ c \in DOMAIN r.legs /\ r.legs[c] = p.legs[c]
<1>1. p \in Held
  BY DEF ReadAll
<1>2. ~ Shut(p)
  <2> SUFFICES ASSUME Shut(p) PROVE FALSE
    OBVIOUS
  <2> DEFINE D == DOMAIN p.legs
             f == p.legs
  <2>1. p.cat = "amm_lp" /\ Net(p.legs) = 0
    BY <1>1, SourceAssumption DEF Shut
  <2>2. IsFiniteSet(D) /\ f \in [D -> Int] /\ (\A x \in D : f[x] \in Int /\ 0 <= f[x]) /\ c \in D /\ f[c] # 0
    BY <1>1, <2>1, HeldAssumption, SourceAssumption
  <2>3. Net(p.legs) = SumFunction(f)
    BY DEF Net
  <2> HIDE DEF D, f
  <2>4. f[c] <= Total(f, D) /\ SumFunction(f) = Total(f, D)
    BY <2>2, TotalOfOne, TotalOfAll
  <2>5. QED
    BY <2>1, <2>2, <2>3, <2>4
<1>3. KeyFor(p, c) \in Meant(p)
  BY DEF Meant, KeyFor, Split
<1>4. PICK r \in merged : Fields(r, p) /\ r.key = KeyFor(p, c) /\ Settled(r, p)
  BY <1>2, <1>3 DEF ReadAll
<1>5. r.legs = PartAt(p, r.key)
  BY <1>4 DEF Settled, Entire, LegsAt
<1>6. QED
  BY <1>4, <1>5 DEF CoinsAt, PartAt, Restrict

\* All adapters but these give amounts.
LEMMA CountedOrValued ==
  ASSUME NEW p \in Held
  PROVE  Counted(p) <=> ~ Valuer(p)
BY SourceAssumption DEF Adapter, ToSet, Valuer, Counted

\* What the chart takes from a row is what its position has in the chain's decimals.
LEMMA RowScales ==
  ASSUME ReadAll, NEW r \in merged, NEW c \in DOMAIN r.legs, NEW sign \in {-1, 1}, r.legs[c] * sign > 0,
         sign = 1 \/ Decimals[c] = Default[c] \/ Of(wallet, "scallop") = {}
  PROVE  Rescale(Raw(r, c), From(r, c), Decimals[c]) = (sign * Units(Decimals[c])) * r.legs[c]
<1>1. PICK p \in wallet : Fields(r, p) /\ c \in DOMAIN p.legs /\ r.legs[c] = p.legs[c]
  BY RowOfCoin
<1>2. p \in Held /\ c \in Coins /\ r.legs[c] \in Int
  BY <1>1, HeldAssumption DEF ReadAll, Coins
<1>3. Decimals[c] \in Nat /\ NaviScale \in Nat
  BY <1>2, PurseAssumption DEF NaviScale
<1> DEFINE n == IF r.legs[c] < 0 THEN - r.legs[c] ELSE r.legs[c]
           from == From(r, c)
           to == Decimals[c]
<1>4. n \in Nat /\ n = sign * r.legs[c]
  BY <1>2
<1>5. from \in Nat /\ Raw(r, c) = n * Units(from)
  <2>1. CASE r.protocol = "Navi"
    BY <1>3, <2>1 DEF From, Raw
  <2>2. CASE r.protocol = "Scallop" /\ r.legs[c] < 0
    <3>1. p.adapter \in {"scoin", "scallop"}
      BY <1>1, <1>2, <2>2, SourceAssumption DEF Fields
    <3>2. p.adapter = "scallop"
      BY <1>1, <1>2, <2>2, <3>1, SourceAssumption
    <3>3. Of(wallet, "scallop") # {}
      BY <3>2 DEF Of
    <3>4. Decimals[c] = Default[c]
      BY <1>2, <2>2, <3>3
    <3>5. QED
      BY <1>3, <2>2, <3>4 DEF From, Raw
  <2>3. CASE r.protocol # "Navi" /\ ~ (r.protocol = "Scallop" /\ r.legs[c] < 0)
    BY <1>3, <2>3 DEF From, Raw
  <2>4. QED
    BY <2>1, <2>2, <2>3
<1>6. to \in Nat
  BY <1>3
<1> HIDE DEF n, from, to
<1>7. Rescale(n * Units(from), from, to) = n * Units(to)
  BY <1>4, <1>5, <1>6, RescaleBack
<1> DEFINE u == Units(to)
           m == r.legs[c]
<1>8. u \in Nat /\ m \in Int /\ n = sign * m
  BY <1>2, <1>4, <1>6, UnitsGrow
<1> HIDE DEF u, m
<1>9. n * u = (sign * u) * m
  BY <1>8
<1>10. QED
  BY <1>5, <1>7, <1>9 DEF u, m, from, to

\* All rows of a coin, owned or owed.
LEMMA LineIs ==
  ASSUME ReadAll, NEW c, NEW sign \in {-1, 1}, Decimals[c] \in Nat,
         sign = 1 \/ Decimals[c] = Default[c] \/ Of(wallet, "scallop") = {}
  PROVE  FromRows(c, sign) = (sign * Units(Decimals[c])) * InUnits(c, sign) /\ InUnits(c, sign) \in Int
<1> DEFINE R == {q \in merged : c \in DOMAIN q.legs /\ q.legs[c] * sign > 0}
           Q == {q \in wallet : Counted(q) /\ c \in DOMAIN q.legs /\ q.legs[c] * sign > 0}
           a == sign * Units(Decimals[c])
           amount == [p \in Q |-> p.legs[c]]
           scaled == [p \in Q |-> a * amount[p]]
           f == [r \in R |-> Rescale(Raw(r, c), From(r, c), Decimals[c])]
           owner(r) == CHOOSE p \in wallet : r.of = p.id
           h == [r \in R |-> owner(r)]
<1>1. wallet \in SUBSET Held /\ IsFiniteSet(R) /\ IsFiniteSet(Q)
  BY FS_Subset DEF ReadAll
<1>2. a \in Int
  <2>1. Units(Decimals[c]) \in Nat
    BY UnitsGrow
  <2>2. QED
    BY <2>1
<1>3. \A p \in Q : amount[p] \in Int
  BY <1>1, HeldAssumption
<1>4. \A r \in R : f[r] = a * r.legs[c]
  BY RowScales
<1> HIDE DEF a
<1>5. ASSUME NEW r \in R
      PROVE  /\ h[r] \in Q /\ r.of = h[r].id /\ r.legs[c] = h[r].legs[c]
             /\ Entire(r, h[r]) /\ r.key = KeyFor(h[r], c)
  <2>1. PICK p \in wallet : /\ Fields(r, p) /\ Entire(r, p) /\ ~ Valuer(p)
                            /\ c \in DOMAIN p.legs /\ r.legs[c] = p.legs[c] /\ r.key = KeyFor(p, c)
    BY RowOfCoin
  <2>2. owner(r) \in wallet /\ r.of = owner(r).id
    BY <2>1 DEF Fields
  <2>3. h[r] = owner(r)
    OBVIOUS
  <2> HIDE DEF owner, h
  <2>4. h[r] = p
    BY <1>1, <2>1, <2>2, <2>3, HeldAssumption DEF Fields
  <2>5. p \in Q
    BY <1>1, <2>1, CountedOrValued
  <2>6. QED
    BY <2>1, <2>2, <2>3, <2>4, <2>5
<1>6. ASSUME NEW q \in Q PROVE \E r \in R : h[r] = q
  <2>1. q \in Held /\ q \in wallet /\ ~ Valuer(q) /\ c \in DOMAIN q.legs /\ q.legs[c] * sign > 0 /\ q.legs[c] \in Int
    BY <1>1, CountedOrValued, HeldAssumption
  <2>2. q.legs[c] # 0
    BY <2>1
  <2>3. PICK r \in merged : Fields(r, q) /\ c \in DOMAIN r.legs /\ r.legs[c] = q.legs[c]
    BY <2>1, <2>2, CoinHasRow
  <2>4. r \in R
    BY <2>1, <2>3
  <2>5. h[r] \in Held /\ r.of = h[r].id
    BY <1>1, <1>5, <2>4
  <2> HIDE DEF h
  <2>6. h[r] = q
    BY <2>1, <2>3, <2>5, HeldAssumption DEF Fields
  <2>7. QED
    BY <2>4, <2>6
<1>7. FromRows(c, sign) = SumFunction(f) /\ InUnits(c, sign) = SumFunction(amount)
  BY DEF FromRows, InUnits
<1>8. /\ f = [r \in R |-> f[r]] /\ amount \in [Q -> Int]
      /\ \A p \in Q : scaled[p] = a * amount[p] /\ amount[p] = p.legs[c]
  BY <1>3
<1>9. \A r \in R : r \in merged
  OBVIOUS
<1> HIDE DEF h, f, amount, scaled, R, Q
<1>10. \A r \in R : h[r] \in Q /\ f[r] = scaled[h[r]] /\ f[r] \in Int
  BY <1>2, <1>3, <1>4, <1>5, <1>8
<1>11. \A r, q \in R : h[r] = h[q] => r = q
  <2>1. ASSUME NEW r \in R, NEW q \in R, h[r] = h[q] PROVE r = q
    <3>1. r.key = q.key /\ r \in merged /\ q \in merged
      BY <1>5, <1>9, <2>1
    <3>2. QED
      BY <3>1 DEF ReadAll, OnePerKey
  <2>2. QED
    BY <2>1
<1>12. Total(f, R) = Total(scaled, Q)
  <2>1. (\A x \in R : f[x] \in Int) /\ (\A x \in R : h[x] \in Q /\ f[x] = scaled[h[x]])
    BY <1>10
  <2>2. QED
    BY <1>1, <1>6, <1>11, <2>1, TotalVia
<1>13. Total(scaled, Q) = a * Total(amount, Q)
  BY <1>1, <1>2, <1>3, <1>8, TotalTimes
<1>14. SumFunction(f) = Total(f, R)
  <2> DEFINE e == [r \in R |-> f[r]]
  <2>1. e \in [R -> Int]
    BY <1>10
  <2>2. f = e
    BY <1>8
  <2> HIDE DEF e
  <2>3. QED
    BY <2>1, <2>2, TotalOfAll
<1>15. SumFunction(amount) = Total(amount, Q) /\ Total(amount, Q) \in Int
  BY <1>1, <1>3, <1>8, TotalOfAll, TotalSteps
<1>16. QED
  BY <1>7, <1>12, <1>13, <1>14, <1>15 DEF a

LEMMA SnapshotsFaithful ==
  CalmInv /\ Full => SnapshotFaithful
<1> SUFFICES ASSUME CalmInv, Full, phase = "answered", calm, rows # Pending, Alone,
                    NEW c \in Coins \cup DOMAIN Purse
             PROVE  /\ AssetLine(c) = (InUnits(c, 1) + (IF c \in DOMAIN Purse THEN Purse[c] ELSE 0)) * Units(Decimals[c])
                    /\ \/ DebtLine(c) = - InUnits(c, -1) * Units(Decimals[c])
                       \/ Decimals[c] # Default[c] /\ Of(wallet, "scallop") # {}
  BY DEF SnapshotFaithful
<1> DEFINE u == Units(Decimals[c])
           plain == IF c \in DOMAIN Purse THEN Purse[c] ELSE 0
           one == 1
           minus == -1
<1>1. ReadAll
  BY AllAreRead DEF Replied
<1>2. Decimals[c] \in Nat
  BY PurseAssumption
<1>3. u \in Nat
  BY <1>2, UnitsGrow
<1>4. rows = InWallet /\ wallet \in Wallets /\ wallet \in SUBSET Held
  BY <1>1 DEF Full, CalmInv, CountInv, Shape, ReadAll
<1>5. plain \in Nat /\ (IF c \in DOMAIN rows \ ReceiptsOf(wallet) THEN rows[c] * u ELSE 0) = plain * u
  <2>1. DOMAIN rows \ ReceiptsOf(wallet) = DOMAIN Purse
    BY <1>4, BagCounts
  <2>2. \A x \in DOMAIN Purse : rows[x] = Purse[x] /\ Purse[x] \in Nat
    BY <1>4, CoinsAre, PurseAssumption
  <2> HIDE DEF u
  <2>3. QED
    BY <1>3, <2>1, <2>2
<1>6. FromRows(c, one) = (one * u) * InUnits(c, one) /\ InUnits(c, one) \in Int
  <2>1. one \in {-1, 1}
    OBVIOUS
  <2> HIDE DEF one
  <2>2. one = 1
    BY DEF one
  <2>3. QED
    BY <1>1, <1>2, <2>1, <2>2, LineIs
<1>7. AssetLine(c) = (InUnits(c, 1) + plain) * u
  <2> DEFINE i == InUnits(c, 1)
  <2>1. AssetLine(c) = u * i + plain * u /\ i \in Int
    BY <1>3, <1>5, <1>6 DEF AssetLine
  <2> HIDE DEF i, u, plain
  <2>2. u * i + plain * u = (i + plain) * u
    BY <1>3, <1>5, <2>1
  <2>3. QED
    BY <2>1, <2>2 DEF i
<1>8. ASSUME ~ (Decimals[c] # Default[c] /\ Of(wallet, "scallop") # {})
      PROVE  DebtLine(c) = - InUnits(c, -1) * u
  <2> DEFINE i == InUnits(c, minus)
  <2>1. minus \in {-1, 1} /\ minus \in Int
    OBVIOUS
  <2> HIDE DEF minus
  <2>2. FromRows(c, minus) = (minus * u) * i /\ i \in Int
    BY <1>1, <1>2, <1>8, <2>1, LineIs
  <2> HIDE DEF i
  <2>3. minus = -1
    BY DEF minus
  <2>4. DebtLine(c) = (minus * u) * i
    BY <2>2, <2>3 DEF DebtLine
  <2> HIDE DEF u
  <2>5. (minus * u) * i = - i * u
    BY <1>3, <2>2, <2>3
  <2>6. QED
    BY <2>3, <2>4, <2>5 DEF i
<1>9. QED
  BY <1>7, <1>8

\* What a profile sees of a position, owned or owed.
Seen(p, sign) == IF sign = 1 THEN SeenCollateral(p) ELSE - SeenDebt(p)

\* The keys whose rows show something of this sign, and what.
KeysIn(p, sign) == {k \in Meant(p) : Due(p, k) * sign > 0}
DueTo(p) == [k \in Meant(p) |-> Due(p, k)]

LEMMA MeantFinite ==
  ASSUME NEW p \in Held
  PROVE  /\ IsFiniteSet(Meant(p)) /\ \A k \in Meant(p) : DueTo(p)[k] = Due(p, k) /\ Due(p, k) \in Int
         /\ \A sign : IsFiniteSet(KeysIn(p, sign)) /\ KeysIn(p, sign) \in SUBSET Meant(p)
<1> DEFINE D == DOMAIN p.legs
           h == [c \in D |-> KeyFor(p, c)]
           K == {h[c] : c \in D}
<1>1. IsFiniteSet(D)
  BY HeldAssumption
<1>2. K = {KeyFor(p, c) : c \in D}
  OBVIOUS
<1> HIDE DEF h
<1>3. IsFiniteSet(K)
  BY <1>1, FiniteImage
<1>4. IsFiniteSet(Meant(p))
  BY <1>2, <1>3, FS_Singleton DEF Meant
<1>5. \A sign : IsFiniteSet(KeysIn(p, sign)) /\ KeysIn(p, sign) \in SUBSET Meant(p)
  BY <1>4, FS_Subset DEF KeysIn
<1>6. QED
  BY <1>4, <1>5, PartIs DEF DueTo

\* The coins of one row are all owned or all owed, if a debt has a row of its own.
LEMMA RowsOfSign ==
  ASSUME NEW p \in Held, ~ Doubled(p), Itemised(p), NEW k
  PROVE  (\A c \in CoinsAt(p, k) : p.legs[c] >= 0) \/ (\A c \in CoinsAt(p, k) : p.legs[c] <= 0)
<1>1. \A c \in DOMAIN p.legs : p.legs[c] \in Int
  BY HeldAssumption
<1>2. CASE p.adapter = "navi"
  BY <1>1, <1>2, SourceAssumption DEF CoinsAt
<1>3. CASE p.adapter = "scoin"
  BY <1>3, SourceAssumption DEF CoinsAt
<1>4. CASE p.adapter = "suilend"
  <2>1. \A c \in CoinsAt(p, k) : k = <<p.id, c>>
    BY <1>4 DEF CoinsAt, KeyFor
  <2>2. \A c, d \in CoinsAt(p, k) : c = d
    BY <2>1
  <2>3. \A c \in CoinsAt(p, k) : p.legs[c] \in Int
    BY <1>1 DEF CoinsAt
  <2>4. QED
    BY <2>2, <2>3
<1>5. CASE p.adapter = "scallop"
  <2>1. \A c \in CoinsAt(p, k) : p.legs[c] \in Int /\ k = IF p.legs[c] >= 0 THEN <<p.id, c>> ELSE <<p.id, "debts">>
    BY <1>1, <1>5 DEF CoinsAt, KeyFor, MainKey
  <2>2. \A c \in CoinsAt(p, k) : c # "debts"
    BY TextNotCoin DEF CoinsAt
  <2>3. QED
    BY <2>1, <2>2
<1>6. QED
  BY <1>2, <1>3, <1>4, <1>5 DEF Itemised

\* What the rows of a position come to.
LEMMA KeysShow ==
  ASSUME NEW p \in Held, ~ Doubled(p), NEW sign \in {-1, 1}
  PROVE  Total(DueTo(p), KeysIn(p, sign)) = Seen(p, sign) /\ Seen(p, sign) \in Int
<1> DEFINE D == DOMAIN p.legs
           f == p.legs
           M == Meant(p)
           K == KeysIn(p, sign)
           due == DueTo(p)
           P == {c \in D : f[c] * sign > 0}
           G == {c \in D : f[c] > 0}
<1>1. IsFiniteSet(D) /\ f \in [D -> Int] /\ \A c \in D : f[c] \in Int
  BY HeldAssumption
<1>2. /\ IsFiniteSet(M) /\ IsFiniteSet(K) /\ K \in SUBSET M
      /\ \A k \in M : due[k] = Due(p, k) /\ due[k] \in Int
  BY MeantFinite
<1>3. Net(p.legs) = Total(f, D) /\ Total(f, D) \in Int
  BY <1>1, TotalOfAll, TotalSteps DEF Net
<1>4. Assets(p.legs) = Total(f, G) /\ Total(f, G) \in Int
  <2>1. G \in SUBSET D
    OBVIOUS
  <2>2. Total(f, G) \in Int
    BY <1>1, <2>1, TotalSteps
  <2>3. Assets(p.legs) = Total(f, G)
    BY DEF Assets, Total
  <2>4. QED
    BY <2>2, <2>3
<1>5. CASE ~ Itemised(p)
  <2> DEFINE m == MainKey(p)
             n == Net(p.legs)
  <2>1. M = {m} /\ due[m] = n /\ n \in Int
    BY <1>2, <1>3, <1>5, MainPart DEF Itemised, Split
  <2>2. K = IF n * sign > 0 THEN {m} ELSE {}
    BY <1>2, <2>1 DEF KeysIn
  <2>3. Seen(p, sign) = (IF n * sign > 0 THEN n ELSE 0)
    BY <1>5, <2>1 DEF Seen, SeenCollateral, SeenDebt
  <2> HIDE DEF n, due, K, m
  <2>4. Total(due, {m}) = n
    BY <2>1, TotalOfSingle
  <2>5. Total(due, {}) = 0
    BY <1>2, TotalSteps
  <2>6. QED
    BY <2>1, <2>2, <2>3, <2>4, <2>5 DEF due, K
<1>6. CASE Itemised(p)
  <2> DEFINE h == [c \in P |-> KeyFor(p, c)]
             H(k) == {c \in P : h[c] = k}
             t == [k \in M |-> Total(f, H(k))]
  <2>1. \A c \in P : h[c] \in M
    BY DEF Meant, KeyFor, Split
  <2>2. P \in SUBSET D /\ IsFiniteSet(P) /\ \A c \in P : f[c] \in Int
    BY <1>1, FS_Subset
  <2>3. ASSUME NEW k \in M PROVE t[k] = IF due[k] * sign > 0 THEN due[k] ELSE 0
    <3> DEFINE C == CoinsAt(p, k)
               S == {c \in C : f[c] * sign > 0}
    <3>1. C \in SUBSET D /\ H(k) = S
      BY DEF CoinsAt
    <3>2. due[k] = Total(f, C)
      BY <1>2 DEF Due, Net, PartAt, Total
    <3>3. (\A c \in C : f[c] >= 0) \/ (\A c \in C : f[c] <= 0)
      BY <1>6, RowsOfSign
    <3>4. IsFiniteSet(C) /\ \A c \in C : f[c] \in Int
      BY <1>1, <3>1, FS_Subset
    <3>5. t[k] = Total(f, S)
      BY <3>1
    <3> HIDE DEF C, t, due, f
    <3>6. Total(f, {c \in C : f[c] * sign > 0}) = IF Total(f, C) * sign > 0 THEN Total(f, C) ELSE 0
      BY <3>3, <3>4, TotalOfSign
    <3>7. QED
      BY <3>2, <3>5, <3>6
  <2>4. Total(f, P) = Total(t, M)
    <3> HIDE DEF h, f, P, M
    <3>1. Total(f, P) = Total([k \in M |-> Total(f, {c \in P : h[c] = k})], M)
      BY <1>2, <2>1, <2>2, TotalGroups
    <3>2. QED
      BY <3>1
  <2>5. \A k \in M : k \in K <=> due[k] * sign > 0
    BY <1>2 DEF KeysIn
  <2> HIDE DEF t, due, K, M
  <2>6. (\A k \in K : t[k] = due[k]) /\ (\A k \in M \ K : t[k] = 0) /\ \A k \in M : t[k] \in Int
    BY <1>2, <2>3, <2>5
  <2>7. Total(t, M) = Total(t, K) + Total(t, M \ K) /\ Total(t, K) \in Int
    BY <1>2, <2>6, TotalBoth, TotalSteps
  <2>8. Total(t, M \ K) = 0
    <3>1. IsFiniteSet(M \ K)
      BY <1>2, FS_Subset
    <3>2. QED
      BY <2>6, <3>1, TotalZero
  <2>9. Total(t, K) = Total(due, K)
    BY <2>6, TotalSame
  <2>10. Total(due, K) = Total(f, P) /\ Total(f, P) \in Int
    BY <2>4, <2>7, <2>8, <2>9
  <2>11. CASE sign = 1
    <3>1. P = G
      BY <1>1, <2>11
    <3>2. Seen(p, sign) = Assets(p.legs)
      BY <1>6, <2>11 DEF Seen, SeenCollateral
    <3> HIDE DEF P, G, f
    <3>3. QED
      BY <1>4, <2>10, <3>1, <3>2 DEF K, due
  <2>12. CASE sign = -1
    <3> DEFINE N == D \ G
               Z == N \ P
    <3>1. Seen(p, sign) = - Owed(p)
      BY <1>6, <2>12 DEF Seen, SeenDebt
    <3>2. G \in SUBSET D /\ N \in SUBSET D /\ P \in SUBSET N /\ \A c \in Z : f[c] = 0
      BY <1>1, <2>12
    <3>3. IsFiniteSet(N) /\ IsFiniteSet(Z) /\ \A c \in N : f[c] \in Int
      BY <1>1, FS_Subset
    <3> HIDE DEF P, G, f, D
    <3>4. Total(f, D) = Total(f, G) + Total(f, N)
      BY <1>1, <3>2, TotalBoth
    <3> HIDE DEF N
    <3>5. Total(f, N) = Total(f, P) + Total(f, Z)
      BY <3>2, <3>3, TotalBoth
    <3> HIDE DEF Z
    <3>6. Total(f, Z) = 0
      BY <3>2, <3>3, TotalZero
    <3>7. Owed(p) = Total(f, G) - Total(f, D)
      BY <1>3, <1>4 DEF Owed
    <3>8. QED
      BY <1>3, <1>4, <2>10, <3>1, <3>4, <3>5, <3>6, <3>7 DEF K, due
  <2>13. QED
    BY <2>11, <2>12
<1>7. QED
  BY <1>5, <1>6

\* The rows of some positions that show something of this sign.
ShownOf(W, sign) == {r \in merged : (\E p \in W : r.of = p.id) /\ UsdIn(r) * sign > 0}

\* A row shows what is due to it, or is an empty one.
LEMMA RowShows ==
  ASSUME ReadAll, NEW p \in wallet, NEW r \in merged, r.of = p.id
  PROVE  /\ Settled(r, p) => r.key \in Meant(p) /\ UsdIn(r) = Due(p, r.key) /\ UsdIn(r) \in Int
         /\ ~ Settled(r, p) => UsdIn(r) = 0 \/ (UsdIn(r) = Holdings /\ Shut(p))
<1>1. p \in Held /\ ~ Doubled(p) /\ wallet \in SUBSET Held
  BY DEF ReadAll
<1>2. PICK q \in wallet : Fields(r, q) /\ (Settled(r, q) \/ Blank(r, q))
  BY DEF ReadAll
<1>3. q = p
  <2>1. q \in Held /\ q.id = p.id
    BY <1>1, <1>2 DEF Fields
  <2>2. QED
    BY <1>1, <2>1, HeldAssumption
<1>4. Due(p, r.key) \in Int /\ Null \notin Int /\ Holdings \in Nat
  BY <1>1, PartIs, SourceAssumption, WalletAssumption
<1>5. ASSUME Settled(r, p) PROVE r.key \in Meant(p) /\ UsdIn(r) = Due(p, r.key)
  <2>1. Entire(r, p) /\ (r.value = Null => Due(p, r.key) = 0)
    BY <1>5 DEF Settled
  <2>2. r.key \in Meant(p) /\ (r.value = Null \/ r.value = Due(p, r.key))
    BY <2>1 DEF Entire
  <2>3. QED
    BY <1>4, <2>1, <2>2 DEF UsdIn
<1>6. ASSUME ~ Settled(r, p) PROVE UsdIn(r) = 0 \/ (UsdIn(r) = Holdings /\ Shut(p))
  <2>1. r.value = Null \/ (r.value = Holdings /\ Shut(p))
    BY <1>2, <1>3, <1>6 DEF Blank
  <2>2. QED
    BY <1>4, <2>1 DEF UsdIn
<1>7. QED
  BY <1>4, <1>5, <1>6

\* The rows of one position.
LEMMA RowsShow ==
  ASSUME ReadAll, NEW p \in wallet, NEW sign \in {-1, 1}, sign = -1 \/ ~ Shut(p),
         NEW usd, \A r \in merged : usd[r] = UsdIn(r)
  PROVE  Total(usd, {r \in merged : r.of = p.id /\ UsdIn(r) * sign > 0}) = Seen(p, sign)
<1> DEFINE R == {r \in merged : r.of = p.id /\ UsdIn(r) * sign > 0}
           K == KeysIn(p, sign)
           due == DueTo(p)
           h == [r \in R |-> r.key]
<1>1. p \in Held /\ ~ Doubled(p) /\ IsFiniteSet(merged) /\ OnePerKey(merged)
  BY DEF ReadAll
<1>2. /\ IsFiniteSet(K) /\ K = {k \in Meant(p) : Due(p, k) * sign > 0}
      /\ \A k \in K : due[k] = Due(p, k) /\ Due(p, k) \in Int
  BY <1>1, MeantFinite DEF KeysIn
<1>3. IsFiniteSet(R) /\ R \in SUBSET merged
  BY <1>1, FS_Subset
<1>4. ASSUME NEW r \in R PROVE h[r] \in K /\ usd[r] = due[h[r]] /\ usd[r] \in Int
  <2>1. r \in merged /\ r.of = p.id /\ UsdIn(r) * sign > 0 /\ usd[r] = UsdIn(r)
    OBVIOUS
  <2>2. Holdings \in Nat
    BY WalletAssumption
  <2>3. Settled(r, p)
    BY <2>1, <2>2, RowShows
  <2>4. r.key \in Meant(p) /\ UsdIn(r) = Due(p, r.key) /\ UsdIn(r) \in Int
    BY <2>1, <2>3, RowShows
  <2>5. r.key \in K
    BY <1>2, <2>1, <2>4
  <2> HIDE DEF K, due
  <2>6. QED
    BY <1>2, <2>1, <2>4, <2>5
<1>5. \A x, y \in R : h[x] = h[y] => x = y
  BY <1>1 DEF OnePerKey
<1>6. ASSUME NEW k \in K PROVE \E r \in R : h[r] = k
  <2>1. k \in Meant(p) /\ Due(p, k) * sign > 0 /\ Due(p, k) \in Int
    BY <1>2
  <2>2. ~ Shut(p)
    <3> SUFFICES ASSUME Shut(p) PROVE FALSE
      OBVIOUS
    <3>1. ~ Split(p) /\ Net(p.legs) = 0
      BY DEF Shut, Split
    <3>2. Due(p, k) = 0
      BY <1>1, <2>1, <3>1, MainPart
    <3>3. QED
      BY <2>1, <3>2
  <2>3. PICK r \in merged : Fields(r, p) /\ r.key = k /\ Settled(r, p)
    BY <2>1, <2>2 DEF ReadAll
  <2>4. UsdIn(r) = Due(p, k) /\ r.of = p.id
    BY <2>3, RowShows DEF Fields
  <2>5. r \in R
    BY <2>1, <2>3, <2>4
  <2>6. QED
    BY <2>3, <2>5
<1> HIDE DEF R, K, due, h
<1>7. Total(usd, R) = Total(due, K)
  <2>1. (\A x \in R : usd[x] \in Int) /\ \A x \in R : h[x] \in K /\ usd[x] = due[h[x]]
    BY <1>4
  <2>2. QED
    BY <1>2, <1>3, <1>5, <1>6, <2>1, TotalVia
<1>8. Total(due, K) = Seen(p, sign)
  BY <1>1, KeysShow DEF due, K
<1>9. QED
  BY <1>7, <1>8 DEF R

\* The rows of some positions.
LEMMA LoansShow ==
  ASSUME ReadAll, NEW W \in SUBSET wallet, NEW sign \in {-1, 1}, sign = -1 \/ \A p \in W : ~ Shut(p)
  PROVE  /\ SumUsd(ShownOf(W, sign)) = SumFunction([p \in W |-> Seen(p, sign)])
         /\ SumUsd(ShownOf(W, sign)) \in Int
<1> DEFINE R == ShownOf(W, sign)
           usd == [r \in merged |-> UsdIn(r)]
           v == [r \in R |-> UsdIn(r)]
           seen == [p \in W |-> Seen(p, sign)]
           owner(r) == CHOOSE p \in W : r.of = p.id
           h == [r \in R |-> owner(r)]
           G(p) == {r \in R : h[r] = p}
           t == [p \in W |-> Total(v, G(p))]
<1>1. wallet \in SUBSET Held /\ IsFiniteSet(W) /\ IsFiniteSet(R) /\ \A p \in W : p \in Held /\ ~ Doubled(p)
  BY FS_Subset DEF ReadAll, ShownOf
<1>2. ASSUME NEW r \in R PROVE v[r] \in Int /\ v[r] = usd[r]
  <2>1. r \in merged /\ \E p \in wallet : r.of = p.id
    BY DEF ShownOf
  <2>2. Holdings \in Int
    BY WalletAssumption
  <2>3. UsdIn(r) \in Int
    BY <2>1, <2>2, RowShows
  <2>4. QED
    BY <2>1, <2>3
<1>3. \A r \in R : h[r] \in W /\ r.of = h[r].id
  <2> SUFFICES ASSUME NEW r \in R PROVE owner(r) \in W /\ r.of = owner(r).id
    OBVIOUS
  <2>1. \E p \in W : r.of = p.id
    BY DEF ShownOf
  <2>2. QED
    BY <2>1
<1> HIDE DEF owner
<1>4. ASSUME NEW p \in W PROVE t[p] = seen[p] /\ seen[p] \in Int
  <2> DEFINE S == {r \in merged : r.of = p.id /\ UsdIn(r) * sign > 0}
  <2>1. G(p) = S
    <3>1. ASSUME NEW r \in R PROVE h[r] = p <=> r.of = p.id
      <4>1. p \in Held /\ h[r] \in Held /\ r.of = h[r].id
        BY <1>1, <1>3
      <4> HIDE DEF h
      <4>2. QED
        BY <4>1, HeldAssumption
    <3>2. S \subseteq R
      BY DEF ShownOf
    <3>3. \A r \in R : r \in S <=> r.of = p.id
      BY DEF ShownOf
    <3> HIDE DEF R, S, h
    <3>4. QED
      BY <3>1, <3>2, <3>3
  <2>2. Total(v, S) = Total(usd, S)
    <3>1. \A r \in S : v[r] = usd[r]
      BY <1>2, <2>1
    <3> HIDE DEF v, usd, S
    <3>2. QED
      BY <3>1, TotalSame
  <2>3. Total(usd, S) = Seen(p, sign)
    <3>1. \A r \in merged : usd[r] = UsdIn(r)
      OBVIOUS
    <3> HIDE DEF usd
    <3>2. sign = -1 \/ ~ Shut(p)
      OBVIOUS
    <3>3. QED
      BY <3>1, <3>2, RowsShow
  <2>4. Seen(p, sign) \in Int
    BY <1>1, KeysShow
  <2>5. t[p] = Total(v, S) /\ seen[p] = Seen(p, sign)
    BY <2>1
  <2> HIDE DEF t, v, S, seen, usd
  <2>6. QED
    BY <2>2, <2>3, <2>4, <2>5
<1>5. SumUsd(R) = SumFunction(v)
  BY DEF SumUsd
<1>6. v \in [R -> Int] /\ seen \in [W -> Int]
  BY <1>2, <1>4
<1>7. Total(v, R) = Total(t, W)
  <2> HIDE DEF v, h, R
  <2>1. (\A r \in R : v[r] \in Int) /\ \A r \in R : h[r] \in W
    BY <1>2, <1>3
  <2>2. Total(v, R) = Total([p \in W |-> Total(v, {r \in R : h[r] = p})], W)
    BY <1>1, <2>1, TotalGroups
  <2>3. QED
    BY <2>2
<1> HIDE DEF v, t, seen, R, G, h, usd
<1>8. Total(t, W) = Total(seen, W)
  BY <1>4, TotalSame
<1>9. SumFunction(v) = Total(v, R) /\ SumFunction(seen) = Total(seen, W)
  BY <1>6, TotalOfAll
<1>10. Total(v, R) \in Int
  BY <1>1, <1>2, TotalSteps
<1>11. QED
  BY <1>5, <1>7, <1>8, <1>9, <1>10 DEF R, seen

\* Debts and collateral of some positions.
LEMMA DebtsShow ==
  ASSUME ReadAll, NEW W \in SUBSET wallet, NEW M \in SUBSET merged,
         \A r \in merged : r \in M <=> \E p \in W : r.of = p.id
  PROVE  /\ - SumUsd(Debts(M)) = SumFunction([p \in W |-> SeenDebt(p)]) /\ SumUsd(Debts(M)) \in Int
         /\ (\A p \in W : ~ Shut(p)) =>
              SumUsd(Gains(M)) = SumFunction([p \in W |-> SeenCollateral(p)]) /\ SumUsd(Gains(M)) \in Int
<1> DEFINE one == 1
           minus == -1
           debt == [p \in W |-> SeenDebt(p)]
           coll == [p \in W |-> SeenCollateral(p)]
           owed == [p \in W |-> Seen(p, minus)]
<1>1. ASSUME NEW r \in M PROVE UsdIn(r) \in Int
  <2>1. r \in merged /\ \E p \in wallet : r.of = p.id
    OBVIOUS
  <2>2. Holdings \in Int
    BY WalletAssumption
  <2>3. QED
    BY <2>1, <2>2, RowShows
<1>2. Debts(M) = ShownOf(W, minus) /\ Gains(M) = ShownOf(W, one)
  BY <1>1 DEF Debts, Gains, ShownOf
<1>3. one \in {-1, 1} /\ minus \in {-1, 1} /\ minus = -1 /\ one = 1 /\ minus \in Int
  OBVIOUS
<1>4. IsFiniteSet(W) /\ \A p \in W : p \in Held /\ ~ Doubled(p)
  BY FS_Subset DEF ReadAll
<1>5. ASSUME NEW p \in W
      PROVE  /\ coll[p] = Seen(p, one) /\ coll[p] \in Int
             /\ owed[p] = minus * debt[p] /\ debt[p] \in Int
  <2>1. Seen(p, one) = SeenCollateral(p) /\ Seen(p, minus) = - SeenDebt(p)
    BY DEF Seen
  <2>2. Net(p.legs) \in Int /\ Assets(p.legs) \in Int
    BY <1>4, MostIs, AssetsIs
  <2>3. SeenDebt(p) \in Int /\ SeenCollateral(p) \in Int
    BY <2>2 DEF SeenDebt, SeenCollateral, Owed
  <2>4. QED
    BY <2>1, <2>3
<1>6. coll = [p \in W |-> Seen(p, one)]
  BY <1>5
<1>7. (\A p \in W : ~ Shut(p)) =>
        SumUsd(Gains(M)) = SumFunction(coll) /\ SumUsd(Gains(M)) \in Int
  <2> HIDE DEF coll, one
  <2>1. QED
    BY <1>2, <1>3, <1>6, LoansShow
<1>8. SumUsd(Debts(M)) = SumFunction(owed) /\ SumUsd(Debts(M)) \in Int
  <2> HIDE DEF minus
  <2>1. QED
    BY <1>2, <1>3, LoansShow
<1>9. debt \in [W -> Int] /\ owed \in [W -> Int]
  BY <1>5
<1> HIDE DEF debt, owed, coll, minus, one
<1>10. SumFunction(debt) = Total(debt, W) /\ SumFunction(owed) = Total(owed, W)
  BY <1>9, TotalOfAll
<1>11. Total(owed, W) = minus * Total(debt, W) /\ Total(debt, W) \in Int
  <2>1. \A p \in W : debt[p] \in Int /\ owed[p] = minus * debt[p]
    BY <1>5
  <2>2. Total(debt, W) \in Int
    BY <1>4, <2>1, TotalSteps
  <2>3. QED
    BY <1>3, <1>4, <2>1, <2>2, TotalTimes
<1>12. - SumUsd(Debts(M)) = SumFunction(debt)
  BY <1>3, <1>8, <1>10, <1>11
<1>13. QED
  BY <1>7, <1>8, <1>12 DEF debt, coll

\* A protocol's loans as the profile adds them up.
LendOf(q, rs) ==
  [protocol |-> q,
   coll |-> SumUsd(Gains({r \in Lent(rs) : r.protocol = q})),
   borrow |-> - SumUsd(Debts({r \in Lent(rs) : r.protocol = q}))]

\* The health of loans with a debt and something to liquidate, each under its protocol.
LEMMA HealthIs ==
  ASSUME NEW lends
  PROVE  /\ \A h \in HealthOf(lends) :
              \E l \in lends : l.borrow > 0 /\ l.coll > 0
                               /\ h.protocol = l.protocol /\ h.coll = l.coll /\ h.borrow = l.borrow
         /\ \A l \in lends : l.borrow > 0 /\ l.coll > 0 =>
              \E h \in HealthOf(lends) : h.protocol = l.protocol /\ h.coll = l.coll /\ h.borrow = l.borrow
BY DEF HealthOf

\* What there is at a protocol to be shown.
CollateralAt(q) == SumFunction([p \in Loans(q) |-> SeenCollateral(p)])
DebtAt(q) == SumFunction([p \in Loans(q) |-> SeenDebt(p)])

LEMMA HealthShown ==
  ASSUME ReadAll, NEW q
  PROVE  IF CollateralAt(q) > 0 /\ DebtAt(q) > 0
           THEN \E h \in HealthOf(Lends(merged)) : h.protocol = q /\ h.coll = CollateralAt(q) /\ h.borrow = DebtAt(q)
           ELSE \A h \in HealthOf(Lends(merged)) : h.protocol # q
<1> DEFINE coll == CollateralAt(q)
           debt == DebtAt(q)
           health == HealthOf(Lends(merged))
           M == {r \in Lent(merged) : r.protocol = q}
           W == Loans(q)
           lend == LendOf(q, merged)
           Q == {r.protocol : r \in Lent(merged)}
<1>1. M \in SUBSET merged /\ W \in SUBSET wallet /\ \A p \in wallet : p \in Held
  BY DEF Lent, Loans, ReadAll
<1>2. \A r \in merged : r \in M <=> \E p \in W : r.of = p.id
  <2> SUFFICES ASSUME NEW r \in merged PROVE r \in M <=> \E p \in W : r.of = p.id
    OBVIOUS
  <2>1. PICK p \in wallet : Fields(r, p)
    BY DEF ReadAll
  <2>2. r \in M <=> p \in W
    BY <2>1 DEF Fields, Lent, Loans, Lender
  <2>3. \A o \in W : r.of = o.id => o = p
    <3>1. \A o \in wallet : r.of = o.id => o = p
      BY <1>1, <2>1, HeldAssumption DEF Fields
    <3>2. QED
      BY <1>1, <3>1
  <2> HIDE DEF M, W
  <2>4. QED
    BY <2>1, <2>2, <2>3 DEF Fields
<1>3. \A p \in W : ~ Shut(p)
  <2> SUFFICES ASSUME NEW p \in W, Shut(p) PROVE FALSE
    OBVIOUS
  <2>1. p.cat \in {"lending", "cdp"} /\ p.adapter = "turbos" /\ p \in Held
    BY <1>1 DEF Loans, Lender, Shut
  <2>2. QED
    BY <2>1, SourceAssumption
<1>4. SumUsd(Gains(M)) = coll /\ - SumUsd(Debts(M)) = debt
  <2> HIDE DEF M, W
  <2>1. QED
    BY <1>1, <1>2, <1>3, DebtsShow DEF W, CollateralAt, DebtAt
<1>5. lend.protocol = q /\ lend.coll = coll /\ lend.borrow = debt
  BY <1>4 DEF LendOf
<1>6. Lends(merged) = {LendOf(x, merged) : x \in Q} /\ \A x : LendOf(x, merged).protocol = x
  BY DEF Lends, LendOf
<1>7. coll > 0 => q \in Q
  <2> SUFFICES ASSUME q \notin Q PROVE ~ (coll > 0)
    OBVIOUS
  <2> DEFINE none == {}
             f == [r \in none |-> UsdIn(r)]
  <2>1. Gains(M) = none
    BY DEF Gains
  <2>2. coll = SumFunction(f)
    BY <1>4, <2>1 DEF SumUsd
  <2>3. f \in [none -> Int] /\ IsFiniteSet(none) /\ \A x \in none : f[x] \in Int
    BY FS_EmptySet
  <2> HIDE DEF f
  <2>4. SumFunction(f) = Total(f, none)
    BY <2>3, TotalOfAll
  <2>5. Total(f, none) = 0
    BY <2>3, TotalSteps
  <2>6. QED
    BY <2>2, <2>4, <2>5
<1> HIDE DEF M, W, lend, Q, coll, debt
<1>8. CASE coll > 0 /\ debt > 0
  <2>1. lend \in Lends(merged)
    BY <1>6, <1>7, <1>8 DEF lend
  <2>2. PICK h \in health : h.protocol = lend.protocol /\ h.coll = lend.coll /\ h.borrow = lend.borrow
    BY <1>5, <1>8, <2>1, HealthIs
  <2>3. QED
    BY <1>5, <1>8, <2>2 DEF coll, debt
<1>9. CASE ~ (coll > 0 /\ debt > 0)
  <2>1. ASSUME NEW h \in health, h.protocol = q PROVE FALSE
    <3>1. PICK l \in Lends(merged) : l.borrow > 0 /\ l.coll > 0 /\ h.protocol = l.protocol
      BY HealthIs
    <3>2. PICK x \in Q : l = LendOf(x, merged)
      BY <1>6
    <3>3. l = lend
      BY <1>6, <2>1, <3>1, <3>2 DEF lend
    <3>4. QED
      BY <1>5, <1>9, <3>1, <3>3
  <2>2. QED
    BY <1>9, <2>1 DEF coll, debt
<1>10. QED
  BY <1>8, <1>9

\* What a profile has of the loans, if it was given the positions.
LEMMA ProfileLoans ==
  ASSUME NEW failed, "positions" \notin failed
  PROVE  /\ Profile(failed).failed = failed
         /\ Profile(failed).borrow = - SumUsd(Debts(merged \ Staked(merged)))
         /\ Profile(failed).health = HealthOf(Lends(merged))
BY DEF Profile

LEMMA LoansAreSeen ==
  CalmInv /\ ProfileInv => LoansSeen
<1> SUFFICES ASSUME CalmInv, ProfileInv, Whole PROVE LoansSeen
  BY DEF LoansSeen
<1>1. PICK failed : profile = Profile(failed)
  BY DEF ProfileInv, Whole, Profiled
<1>2. "positions" \notin failed
  <2>1. profile.failed = failed
    BY <1>1 DEF Profile
  <2>2. QED
    BY <2>1 DEF Whole
<1>3. profile.borrow = - SumUsd(Debts(merged \ Staked(merged))) /\ profile.health = HealthOf(Lends(merged))
  BY <1>1, <1>2, ProfileLoans
<1>4. ReadAll
  BY AllAreRead DEF Whole, Profiled, ProfileInv, Replied
<1> DEFINE W == {o \in wallet : o.cat # "staking"}
           M == merged \ Staked(merged)
<1>5. profile.borrow = SumFunction([p \in W |-> SeenDebt(p)])
  <2>1. M \in SUBSET merged /\ W \in SUBSET wallet /\ \A p \in wallet : p \in Held
    BY <1>4 DEF ReadAll
  <2>2. \A r \in merged : r \in M <=> \E p \in W : r.of = p.id
    <3> SUFFICES ASSUME NEW r \in merged PROVE r \in M <=> \E p \in W : r.of = p.id
      OBVIOUS
    <3>1. PICK p \in wallet : Fields(r, p)
      BY <1>4 DEF ReadAll
    <3>2. r \in M <=> p \in W
      BY <3>1 DEF Fields, Staked
    <3>3. \A o \in W : r.of = o.id => o = p
      BY <2>1, <3>1, HeldAssumption DEF Fields
    <3> HIDE DEF M, W
    <3>4. QED
      BY <3>1, <3>2, <3>3 DEF Fields
  <2> HIDE DEF M, W
  <2>3. - SumUsd(Debts(M)) = SumFunction([p \in W |-> SeenDebt(p)])
    BY <1>4, <2>1, <2>2, DebtsShow
  <2>4. QED
    BY <1>3, <2>3 DEF M
<1>6. ASSUME NEW q
      PROVE  LET coll == SumFunction([p \in Loans(q) |-> SeenCollateral(p)])
                 debt == SumFunction([p \in Loans(q) |-> SeenDebt(p)])
                 seen == {h \in profile.health : h.protocol = q}
             IN IF coll > 0 /\ debt > 0
                  THEN \E h \in seen : h.coll = coll /\ h.borrow = debt
                  ELSE seen = {}
  <2> DEFINE health == profile.health
             seen == {h \in health : h.protocol = q}
  <2>1. health = HealthOf(Lends(merged))
    BY <1>3
  <2> HIDE DEF health
  <2>2. IF CollateralAt(q) > 0 /\ DebtAt(q) > 0
          THEN \E h \in seen : h.coll = CollateralAt(q) /\ h.borrow = DebtAt(q)
          ELSE seen = {}
    BY <1>4, <2>1, HealthShown
  <2>3. QED
    BY <2>2 DEF CollateralAt, DebtAt, health
<1>7. QED
  BY <1>5, <1>6 DEF LoansSeen

\* TotalsExact and LoansSeen of any wallet whose every call was answered: getPortfolioSummary's
\* headline is its coins, its positions, debts included, and the receipts beside the deposits
\* they stand for; buildWalletPayload's list and the positions of buildPositionsPayload are the
\* same without the receipts, unless the holdings stand in for a closed LP; and
\* buildWalletAnalysis shows every debt that has a row, and each protocol's health of all its
\* loans.
THEOREM AllIsShown ==
  AnalysisSpec => []ReadInFull
<1>1. CalmInv /\ HonestInv /\ Full => ReadInFull
  BY TotalsAreExact, LoansAreSeen DEF HonestInv, ReadInFull
<1>2. QED
  BY <1>1, CalmInvariant, HonestInvariant, FullInvariant, PTL

\* SnapshotFaithful of any wallet whose every call was answered: the lines that
\* buildPortfolioSnapshotState keeps for the chart are the wallet's amounts of each coin, plain
\* and in positions, in the decimals of the chain, through Navi's own scale too; what is owed in
\* it is as exact, but at Scallop in a coin of other decimals than those assumed.
THEOREM SnapshotsAreFaithful ==
  AnalysisSpec => []SnapshotFaithful
BY SnapshotsFaithful, CalmInvariant, FullInvariant, PTL
=============================================================================
