---------------------------- MODULE ListingProofs ----------------------------
(***************************************************************************)
(* Theorems about Listing, for any number of events, dates, projects and   *)
(* types, and pages of any size.                                           *)
(***************************************************************************)
EXTENDS Listing, FiniteSetTheorems, WellFoundedInduction, TLAPS

----------------------------------------------------------------------------
(* Orders.                                                                 *)

LEMMA LeastNat ==
    ASSUME NEW T, T \subseteq Nat, T # {}
    PROVE  \E m \in T : \A n \in T : m <= n
<1> DEFINE R == {ss \in Nat \X Nat : ss[1] < ss[2]}
<1>1. IsWellFoundedOn(R, Nat)
  BY NatLessThanWellFounded, Zenon DEF OpToRel
<1>2. \A m, n \in Nat : <<n, m>> \in R <=> n < m
  OBVIOUS
<1> HIDE DEF R
<1>3. PICK m \in T : \A n \in T : ~ (<<n, m>> \in R)
  BY <1>1, WFMin, Zenon
<1>4. ASSUME NEW n \in T PROVE m <= n
  <2>1. m \in Nat /\ n \in Nat /\ ~ (<<n, m>> \in R)
    BY <1>3
  <2>2. ~ (n < m)
    BY <1>2, <2>1, Zenon
  <2> QED BY <2>1, <2>2
<1> QED BY <1>4

(* The first of a set of events by one number, and another between equals. *)
LEMMA LexicallyLeast ==
    ASSUME NEW S, S \subseteq Ids, S # {},
           NEW a \in [Ids -> Nat], NEW b \in [Ids -> Nat],
           \A e, f \in Ids : b[e] = b[f] => e = f
    PROVE  \E e \in S : \A f \in S :
                f = e \/ a[e] < a[f] \/ (a[e] = a[f] /\ b[e] < b[f])
<1>1. PICK m \in {a[e] : e \in S} : \A n \in {a[e] : e \in S} : m <= n
  <2>1. {a[e] : e \in S} \subseteq Nat /\ {a[e] : e \in S} # {} OBVIOUS
  <2> HIDE DEF Ids
  <2> QED BY <2>1, LeastNat
<1> DEFINE T == {e \in S : a[e] = m}
<1>2. PICK k \in {b[e] : e \in T} : \A n \in {b[e] : e \in T} : k <= n
  <2>1. {b[e] : e \in T} \subseteq Nat /\ {b[e] : e \in T} # {} OBVIOUS
  <2> QED BY <2>1, LeastNat
<1>3. PICK e \in T : b[e] = k BY <1>2
<1>4. ASSUME NEW f \in S PROVE f = e \/ a[e] < a[f] \/ (a[e] = a[f] /\ b[e] < b[f])
  <2>1. a[e] <= a[f] /\ a[e] \in Nat /\ a[f] \in Nat BY <1>1, <1>3
  <2>2. CASE a[e] = a[f]
    <3>1. f \in T BY <1>3, <2>2
    <3>2. b[e] <= b[f] /\ b[e] \in Nat /\ b[f] \in Nat BY <1>2, <1>3, <3>1
    <3> QED BY <1>3, <2>2, <3>2
  <2>3. CASE a[e] # a[f] BY <2>1, <2>3
  <2> QED BY <2>2, <2>3
<1> QED BY <1>3, <1>4

Dates == createdAt \in [Ids -> 0..MaxTime]

LEMMA BeforeIsAnOrder ==
    ASSUME Dates, NEW e \in Ids, NEW f \in Ids
    PROVE  /\ ~ Before(e, e)
           /\ e = f \/ Before(e, f) \/ Before(f, e)
           /\ ~ (Before(e, f) /\ Before(f, e))
           /\ \A g \in Ids : Before(e, f) /\ Before(f, g) => Before(e, g)
  BY SizesAssumption DEF Dates, Before, Ids

LEMMA TheFirst ==
    ASSUME Dates, NEW S \in SUBSET Ids, S # {}
    PROVE  \E e \in S : \A f \in S : f = e \/ Before(e, f)
<1> DEFINE a == [e \in Ids |-> MaxTime - createdAt[e]]
           b == [e \in Ids |-> MaxEvents - e]
<1>1. a \in [Ids -> Nat] /\ b \in [Ids -> Nat] /\ \A e, f \in Ids : b[e] = b[f] => e = f
  BY SizesAssumption DEF Dates, Ids
<1>2. \A e, f \in Ids : a[e] < a[f] \/ (a[e] = a[f] /\ b[e] < b[f]) => Before(e, f)
  BY SizesAssumption DEF Dates, Ids, Before
<1> HIDE DEF a, b
<1>3. \E e \in S : \A f \in S : f = e \/ a[e] < a[f] \/ (a[e] = a[f] /\ b[e] < b[f])
  BY <1>1, LexicallyLeast
<1> QED BY <1>2, <1>3

LEMMA TheLast ==
    ASSUME Dates, NEW S \in SUBSET Ids, S # {}
    PROVE  /\ Last(S) \in S
           /\ \A f \in S : f = Last(S) \/ Before(f, Last(S))
<1> DEFINE b == [e \in Ids |-> e]
<1>1. /\ createdAt \in [Ids -> Nat] /\ b \in [Ids -> Nat]
      /\ \A e, f \in Ids : b[e] = b[f] => e = f
  BY SizesAssumption DEF Dates, Ids
<1>2. \A e, f \in Ids :
        createdAt[e] < createdAt[f] \/ (createdAt[e] = createdAt[f] /\ b[e] < b[f])
            => Before(f, e)
  BY <1>1, SizesAssumption DEF Ids, Before
<1> HIDE DEF b
<1>3. \E e \in S : \A f \in S :
        f = e \/ createdAt[e] < createdAt[f] \/ (createdAt[e] = createdAt[f] /\ b[e] < b[f])
  BY <1>1, LexicallyLeast
<1>4. \E e \in S : \A f \in S : f = e \/ Before(f, e)
  BY <1>2, <1>3
<1> QED BY <1>4 DEF Last

----------------------------------------------------------------------------
(* Pages: LIMIT n of an ordered set of rows.                               *)

LEMMA RowsAreFinite ==
    ASSUME NEW S \in SUBSET Ids
    PROVE  IsFiniteSet(S) /\ Cardinality(S) \in Nat
<1>1. IsFiniteSet(Ids)
  BY SizesAssumption, FS_Interval DEF Ids
<1>2. IsFiniteSet(S)
  BY <1>1, FS_Subset
<1> QED BY <1>2, FS_CardinalityType

LEMMA PageOf ==
    ASSUME Dates, NEW S \in SUBSET Ids, NEW n \in Nat \ {0}
    PROVE  /\ First(n, S) \subseteq S
           /\ S # {} => First(n, S) # {}
           /\ \A e \in First(n, S), f \in S : Before(f, e) => f \in First(n, S)
           /\ Cardinality(S) <= n => First(n, S) = S
           /\ Cardinality(S) > n => First(n, S) # S
<1> DEFINE ahead(e) == {f \in S : Before(f, e)}
<1>1. \A e : IsFiniteSet(ahead(e)) /\ Cardinality(ahead(e)) \in Nat
  BY RowsAreFinite
<1>2. IsFiniteSet(S) /\ Cardinality(S) \in Nat
  BY RowsAreFinite
<1>3. First(n, S) = {e \in S : Cardinality(ahead(e)) < n}
  BY DEF First
<1>4. First(n, S) \subseteq S
  BY <1>3
<1>5. ASSUME S # {} PROVE First(n, S) # {}
  <2>1. PICK e \in S : \A f \in S : f = e \/ Before(e, f)
    BY <1>5, TheFirst
  <2>2. ahead(e) = {}
    BY <2>1, BeforeIsAnOrder
  <2>3. Cardinality(ahead(e)) = 0
    BY <2>2, FS_EmptySet
  <2> HIDE DEF ahead
  <2> QED BY <1>3, <2>1, <2>3
<1>6. ASSUME NEW e \in First(n, S), NEW f \in S, Before(f, e)
      PROVE  f \in First(n, S)
  <2>1. ahead(f) \in SUBSET ahead(e)
    BY <1>4, <1>6, BeforeIsAnOrder
  <2> HIDE DEF ahead
  <2>2. Cardinality(ahead(f)) <= Cardinality(ahead(e))
    BY <1>1, <2>1, FS_Subset
  <2> QED BY <1>1, <1>3, <2>2
<1>7. ASSUME Cardinality(S) <= n PROVE First(n, S) = S
  <2>1. ASSUME NEW e \in S PROVE Cardinality(ahead(e)) < n
    <3>1. ahead(e) \in SUBSET S /\ ahead(e) # S
      BY BeforeIsAnOrder
    <3> HIDE DEF ahead
    <3>2. /\ Cardinality(ahead(e)) <= Cardinality(S)
          /\ Cardinality(ahead(e)) # Cardinality(S)
      BY <1>2, <3>1, FS_Subset
    <3> QED BY <1>1, <1>2, <1>7, <3>2
  <2> QED BY <1>3, <2>1
<1>8. ASSUME Cardinality(S) > n PROVE First(n, S) # S
  <2>1. S # {} BY <1>8, FS_EmptySet
  <2>2. PICK e \in S : \A f \in S : f = e \/ Before(f, e)
    BY <2>1, TheLast
  <2>3. ahead(e) = S \ {e}
    BY <2>2, BeforeIsAnOrder
  <2>4. Cardinality(ahead(e)) = Cardinality(S) - 1
    BY <1>2, <2>3, FS_RemoveElement
  <2> HIDE DEF ahead
  <2> QED BY <1>2, <1>3, <1>8, <2>4
<1> QED BY <1>4, <1>5, <1>6, <1>7, <1>8

----------------------------------------------------------------------------
(* The invariant: while the client reads, what it has been given ends at   *)
(* the cursor, and what is missing of what was there lies beyond it.       *)

ListedAhead == reading /\ cursor # 0 => \A e \in listed : e = cursor \/ Before(e, cursor)

ToListBeyond ==
    reading /\ cursor # 0 => \A e \in toList : e \in listed \/ Before(cursor, e)

SomethingBeyond == reading /\ cursor # 0 => \E e \in Matching : Before(cursor, e)

NothingYet == reading /\ cursor = 0 => listed = {}

ListInv ==
    /\ TypeOK
    /\ toList \subseteq Matching
    /\ NothingYet
    /\ ListedAhead
    /\ ToListBeyond
    /\ SomethingBeyond
    /\ NothingTwice
    /\ NothingMissed

LEMMA MatchingHere == Matching \subseteq Ids
  BY DEF Matching

LEMMA ListedMatch ==
    ASSUME TypeOK
    PROVE  listed \subseteq Matching /\ (cursor # 0 => cursor \in listed)
  BY DEF TypeOK, Matching

(* A skip: 1 leaves out the cursor and nothing else.                       *)
LEMMA RowsBeyond ==
    ASSUME TypeOK
    PROVE  /\ Rows \in SUBSET Ids
           /\ cursor = 0 => Rows = Matching
           /\ cursor # 0 => Rows = {e \in Matching : Before(cursor, e)}
<1>1. CASE cursor = 0
  BY <1>1, MatchingHere DEF Rows
<1>2. CASE cursor # 0
  <2> DEFINE from == {e \in Matching : cursor = e \/ Before(cursor, e)}
  <2>1. Dates BY DEF TypeOK, Dates
  <2>2. cursor \in Matching BY <1>2, ListedMatch
  <2>3. cursor \in from /\ from \in SUBSET Ids BY <2>2, MatchingHere
  <2>4. \A e : /\ IsFiniteSet({f \in from : Before(f, e)})
               /\ Cardinality({f \in from : Before(f, e)}) \in Nat
    BY <2>3, RowsAreFinite
  <2>5. {f \in from : Before(f, cursor)} = {}
    BY <2>1, <2>3, BeforeIsAnOrder
  <2>6. cursor \in First(1, from)
    <3>1. Cardinality({f \in from : Before(f, cursor)}) = 0
      BY <2>5, FS_EmptySet
    <3> HIDE DEF from
    <3> QED BY <2>3, <3>1 DEF First
  <2>7. ASSUME NEW e \in from, e # cursor PROVE e \notin First(1, from)
    <3>1. cursor \in {f \in from : Before(f, e)}
      BY <2>3, <2>7
    <3>2. Cardinality({f \in from : Before(f, e)}) # 0
      BY <2>4, <3>1, FS_EmptySet
    <3> HIDE DEF from
    <3> QED BY <2>4, <3>2 DEF First
  <2>8. Rows = from \ First(1, from)
    BY <1>2 DEF Rows
  <2>9. First(1, from) = {cursor}
    <3>1. First(1, from) \subseteq from BY DEF First
    <3> HIDE DEF from
    <3> QED BY <2>6, <2>7, <3>1
  <2>10. ~ Before(cursor, cursor)
    BY <2>1, <2>3, BeforeIsAnOrder
  <2>11. Rows = {e \in Matching : Before(cursor, e)}
    BY <2>8, <2>9, <2>10
  <2> QED BY <1>2, <2>11, MatchingHere
<1> QED BY <1>1, <1>2

(* A publication hides no row and moves none.                              *)
LEMMA Publication ==
    ASSUME TypeOK, NEW e \in Ids, Insert(e) \/ Commit(e)
    PROVE  /\ Matching \subseteq Matching'
           /\ \A f, g \in Matching : Before(f, g)' <=> Before(f, g)
           /\ TypeOK'
<1>1. CASE Insert(e)
  <2>1. e \notin Matching BY <1>1 DEF Insert, Matching
  <2>2. PICK kind \in Kinds :
            /\ project' = [project EXCEPT ![e] = kind[1]]
            /\ eventType' = [eventType EXCEPT ![e] = kind[2]]
    BY <1>1 DEF Insert
  <2>3. kind[1] \in Projects /\ kind[2] \in Types BY ProjectsAssumption
  <2>4. \A f \in Ids : f # e => /\ status'[f] = status[f] /\ createdAt'[f] = createdAt[f]
                                /\ project'[f] = project[f] /\ eventType'[f] = eventType[f]
    BY <1>1, <2>2 DEF Insert, TypeOK
  <2>5. Matching \subseteq Matching'
    BY <1>1, <2>1, <2>4 DEF Insert, Matching, client
  <2>6. \A f, g \in Matching : Before(f, g)' <=> Before(f, g)
    BY <2>1, <2>4, MatchingHere DEF Before
  <2>7. TypeOK'
    <3>1. /\ clock' \in 0..MaxTime /\ reading' \in BOOLEAN /\ filter' \in TypeOrAny
          /\ limit' \in 1..MaxLimit /\ cursor' \in listed' \cup {0}
          /\ listed' \subseteq Ids /\ twice' \subseteq listed' /\ toList' \subseteq Ids
      BY <1>1 DEF Insert, TypeOK, client
    <3>2. /\ status' \in [Ids -> {"absent", "inserted", "stored"}]
          /\ createdAt' \in [Ids -> 0..MaxTime]
      BY <1>1 DEF Insert, TypeOK
    <3>3. project' \in [Ids -> Projects] /\ eventType' \in [Ids -> TypeOrAny]
      BY <2>2, <2>3 DEF TypeOK, TypeOrAny
    <3>4. \A f \in listed' : /\ status'[f] = "stored" /\ project'[f] = Mine
                             /\ filter' \in {AnyType, eventType'[f]}
      <4>1. listed' = listed /\ filter' = filter BY <1>1 DEF Insert, client
      <4>2. e \notin listed BY <2>1, ListedMatch
      <4> QED BY <2>4, <4>1, <4>2 DEF TypeOK
    <3> QED BY <3>1, <3>2, <3>3, <3>4 DEF TypeOK
  <2> QED BY <2>5, <2>6, <2>7
<1>2. CASE Commit(e)
  <2>1. Matching \subseteq Matching' /\ \A f, g \in Matching : Before(f, g)' <=> Before(f, g)
    BY <1>2 DEF Commit, Matching, Before, client, TypeOK
  <2>2. TypeOK'
    BY <1>2 DEF Commit, TypeOK, client
  <2> QED BY <2>1, <2>2
<1> QED BY <1>1, <1>2

(* What has been listed is ahead of every row that comes.                  *)
LEMMA ListedBeforeRows ==
    ASSUME TypeOK, reading, NothingYet, ListedAhead,
           NEW e \in listed, NEW r \in Rows
    PROVE  Before(e, r)
<1>1. cursor # 0 BY DEF NothingYet
<1>2. cursor \in Ids /\ e \in Ids /\ r \in Ids /\ Before(cursor, r)
  BY <1>1, RowsBeyond, ListedMatch, MatchingHere
<1>3. e = cursor \/ Before(e, cursor) BY <1>1 DEF ListedAhead
<1>4. Dates BY DEF TypeOK, Dates
<1> QED BY <1>2, <1>3, <1>4, BeforeIsAnOrder

(* A page of it, and what it leaves.                                       *)
LEMMA NextPage ==
    ASSUME TypeOK
    PROVE  LET page == First(limit, Rows) IN
           /\ page \subseteq Rows
           /\ ~ HasMore => page = Rows
           /\ HasMore => /\ Last(page) \in page
                         /\ \A f \in page : f = Last(page) \/ Before(f, Last(page))
                         /\ \A g \in Rows \ page : Before(Last(page), g)
                         /\ Rows \ page # {}
<1> DEFINE page == First(limit, Rows)
<1>1. Rows \in SUBSET Ids BY RowsBeyond
<1>2. Dates /\ limit \in Nat \ {0} BY SizesAssumption DEF TypeOK, Dates
<1>3. /\ page \subseteq Rows
      /\ Rows # {} => page # {}
      /\ \A e \in page, f \in Rows : Before(f, e) => f \in page
      /\ Cardinality(Rows) <= limit => page = Rows
      /\ Cardinality(Rows) > limit => page # Rows
  BY <1>1, <1>2, PageOf
<1>4. Cardinality(Rows) \in Nat BY <1>1, RowsAreFinite
<1> HIDE DEF page
<1>5. CASE ~ HasMore
  BY <1>2, <1>3, <1>4, <1>5 DEF HasMore, page
<1>6. CASE HasMore
  <2>1. page # Rows BY <1>3, <1>6 DEF HasMore
  <2>2. page # {} /\ page \in SUBSET Ids BY <1>1, <1>3, <2>1
  <2>3. Last(page) \in page /\ \A f \in page : f = Last(page) \/ Before(f, Last(page))
    BY <1>2, <2>2, TheLast
  <2>4. ASSUME NEW g \in Rows \ page PROVE Before(Last(page), g)
    BY <1>1, <1>2, <1>3, <2>2, <2>3, BeforeIsAnOrder
  <2>5. Rows \ page # {} BY <1>3, <2>1
  <2> QED BY <1>3, <1>6, <2>3, <2>4, <2>5 DEF page
<1> QED BY <1>5, <1>6

LEMMA GetPageKeeps ==
    ASSUME ListInv, GetPage
    PROVE  ListInv'
<1> DEFINE page == First(limit, Rows)
<1>1. /\ reading
      /\ twice' = twice \cup (listed \cap page)
      /\ listed' = listed \cup page
      /\ reading' = HasMore
      /\ cursor' = IF HasMore THEN Last(page) ELSE cursor
      /\ UNCHANGED <<clock, status, createdAt, project, eventType, filter, limit, toList>>
  BY DEF GetPage, table
<1>2. /\ TypeOK /\ toList \subseteq Matching /\ NothingYet /\ ListedAhead
      /\ ToListBeyond /\ NothingTwice
  BY DEF ListInv
<1>3. /\ page \subseteq Rows
      /\ ~ HasMore => page = Rows
      /\ HasMore => /\ Last(page) \in page
                    /\ \A f \in page : f = Last(page) \/ Before(f, Last(page))
                    /\ \A g \in Rows \ page : Before(Last(page), g)
                    /\ Rows \ page # {}
  BY <1>2, NextPage
<1>4. /\ Rows \in SUBSET Ids /\ Rows \subseteq Matching
      /\ cursor = 0 => Rows = Matching
      /\ cursor # 0 => Rows = {e \in Matching : Before(cursor, e)}
  BY <1>2, RowsBeyond
<1>5. \A e \in listed, r \in Rows : Before(e, r)
  BY <1>1, <1>2, ListedBeforeRows
<1>6. Matching' = Matching /\ \A e, f : Before(e, f)' <=> Before(e, f)
  BY <1>1 DEF Matching, Before
<1>7. \A e \in toList : e \in listed \cup Rows
  BY <1>1, <1>2, <1>4 DEF ToListBeyond
<1>8. HasMore \in BOOLEAN BY DEF HasMore
<1> HIDE DEF page
<1>9. TypeOK'
  <2>1. /\ clock' \in 0..MaxTime
        /\ status' \in [Ids -> {"absent", "inserted", "stored"}]
        /\ createdAt' \in [Ids -> 0..MaxTime]
        /\ project' \in [Ids -> Projects]
        /\ eventType' \in [Ids -> TypeOrAny]
        /\ filter' \in TypeOrAny /\ limit' \in 1..MaxLimit /\ toList' \subseteq Ids
    BY <1>1, <1>2 DEF TypeOK
  <2>2. reading' \in BOOLEAN BY <1>1, <1>8
  <2>3. listed' \subseteq Matching
    BY <1>1, <1>2, <1>3, <1>4, ListedMatch
  <2>4. \A e \in listed' : /\ status'[e] = "stored" /\ project'[e] = Mine
                           /\ filter' \in {AnyType, eventType'[e]}
    BY <1>1, <2>3 DEF Matching
  <2>5. cursor' \in listed' \cup {0}
    <3>1. cursor \in listed \cup {0} BY <1>2 DEF TypeOK
    <3> QED BY <1>1, <1>3, <3>1
  <2>6. twice' \subseteq listed' BY <1>1, <1>2 DEF TypeOK
  <2> QED BY <2>1, <2>2, <2>3, <2>4, <2>5, <2>6, MatchingHere DEF TypeOK
<1>10. (toList \subseteq Matching)' BY <1>1, <1>2, <1>6
<1>11. NothingTwice'
  <2>1. Dates BY <1>2 DEF TypeOK, Dates
  <2>2. listed \cap page = {}
    BY <1>3, <1>4, <1>5, <2>1, BeforeIsAnOrder
  <2> QED BY <1>1, <1>2, <2>2 DEF NothingTwice
<1>12. CASE HasMore
  <2>1. cursor' = Last(page) /\ Last(page) \in page /\ cursor' # 0 /\ reading'
    BY <1>1, <1>3, <1>4, <1>12 DEF Ids
  <2>2. NothingYet' BY <2>1 DEF NothingYet
  <2>3. ListedAhead'
    BY <1>1, <1>3, <1>5, <1>6, <1>12, <2>1 DEF ListedAhead
  <2>4. ToListBeyond'
    BY <1>1, <1>3, <1>6, <1>7, <1>12, <2>1 DEF ToListBeyond
  <2>5. SomethingBeyond'
    BY <1>3, <1>4, <1>6, <1>12, <2>1 DEF SomethingBeyond
  <2>6. NothingMissed' BY <2>1 DEF NothingMissed
  <2> QED BY <1>9, <1>10, <1>11, <2>2, <2>3, <2>4, <2>5, <2>6 DEF ListInv
<1>13. CASE ~ HasMore
  <2>1. ~ reading' /\ page = Rows BY <1>1, <1>3, <1>13
  <2>2. NothingYet' /\ ListedAhead' /\ ToListBeyond' /\ SomethingBeyond'
    BY <2>1 DEF NothingYet, ListedAhead, ToListBeyond, SomethingBeyond
  <2>3. NothingMissed' BY <1>1, <1>7, <2>1 DEF NothingMissed
  <2> QED BY <1>9, <1>10, <1>11, <2>2, <2>3 DEF ListInv
<1> QED BY <1>12, <1>13

LEMMA ListInvHolds == Spec => []ListInv
<1>1. Init => ListInv
  <2> SUFFICES ASSUME Init PROVE ListInv
    OBVIOUS
  <2>1. reading = FALSE /\ listed = {} /\ twice = {} /\ toList = {} BY DEF Init
  <2>2. /\ createdAt \in [Ids -> 0..MaxTime]
        /\ clock \in 0..MaxTime /\ limit \in 1..MaxLimit
    BY SizesAssumption DEF Init
  <2>3. /\ status \in [Ids -> {"absent", "inserted", "stored"}]
        /\ project \in [Ids -> Projects] /\ eventType \in [Ids -> TypeOrAny]
        /\ filter \in TypeOrAny /\ cursor = 0
    BY ProjectsAssumption DEF Init, TypeOrAny
  <2>4. TypeOK BY <2>1, <2>2, <2>3 DEF TypeOK
  <2> QED
    BY <2>1, <2>4
    DEF ListInv, NothingYet, ListedAhead, ToListBeyond, SomethingBeyond, NothingTwice,
        NothingMissed
<1>2. ListInv /\ [Next]_vars => ListInv'
  <2> SUFFICES ASSUME ListInv, [Next]_vars PROVE ListInv'
    OBVIOUS
  <2> USE DEF ListInv
  <2>1. ASSUME NEW e \in Ids, Insert(e) \/ Commit(e) PROVE ListInv'
    <3>1. UNCHANGED client BY <2>1 DEF Insert, Commit
    <3>2. /\ Matching \subseteq Matching'
          /\ \A f, g \in Matching : Before(f, g)' <=> Before(f, g)
          /\ TypeOK'
      BY <2>1, Publication
    <3>3. listed \subseteq Matching /\ (cursor # 0 => cursor \in Matching)
      BY ListedMatch
    <3>4. (toList \subseteq Matching)' BY <3>1, <3>2 DEF client
    <3>5. NothingYet' /\ NothingTwice' /\ NothingMissed'
      BY <3>1 DEF client, NothingYet, NothingTwice, NothingMissed
    <3>6. ListedAhead' BY <3>1, <3>2, <3>3 DEF client, ListedAhead
    <3>7. ToListBeyond' BY <3>1, <3>2, <3>3 DEF client, ToListBeyond
    <3>8. SomethingBeyond' BY <3>1, <3>2, <3>3 DEF client, SomethingBeyond
    <3> QED BY <3>2, <3>4, <3>5, <3>6, <3>7, <3>8
  <2>2. CASE Tick
    BY <2>2, SizesAssumption
    DEF Tick, table, client, TypeOK, Matching, Before, NothingYet, ListedAhead, ToListBeyond,
        SomethingBeyond, NothingTwice, NothingMissed
  <2>3. CASE StartListing
    <3>1. UNCHANGED <<clock, status, createdAt, project, eventType, filter, limit>>
      BY <2>3 DEF StartListing, table
    <3>2. /\ reading' = TRUE /\ cursor' = 0 /\ listed' = {} /\ twice' = {}
          /\ toList' = Matching
      BY <2>3 DEF StartListing
    <3>3. Matching' = Matching BY <3>1 DEF Matching
    <3>4. TypeOK' BY <3>1, <3>2, MatchingHere DEF TypeOK
    <3> QED
      BY <3>2, <3>3, <3>4
      DEF NothingYet, ListedAhead, ToListBeyond, SomethingBeyond, NothingTwice, NothingMissed
  <2>4. CASE GetPage BY <2>4, GetPageKeeps
  <2>5. CASE UNCHANGED vars
    BY <2>5
    DEF vars, table, client, TypeOK, Matching, Before, NothingYet, ListedAhead, ToListBeyond,
        SomethingBeyond, NothingTwice, NothingMissed
  <2> QED BY <2>1, <2>2, <2>3, <2>4, <2>5 DEF Next
<1> QED BY <1>1, <1>2, PTL DEF Spec

----------------------------------------------------------------------------

(* What is listed is stored, of the project and of the type asked for.     *)
THEOREM TypeCorrect == Spec => []TypeOK
<1>1. ListInv => TypeOK BY DEF ListInv
<1> QED BY <1>1, ListInvHolds, PTL

(* No event comes on two pages, wherever new ones appear in between.       *)
THEOREM NoneTwice == Spec => []NothingTwice
<1>1. ListInv => NothingTwice BY DEF ListInv
<1> QED BY <1>1, ListInvHolds, PTL

(* Whoever reads to the end has been given all that was there at first.    *)
THEOREM NoneMissed == Spec => []NothingMissed
<1>1. ListInv => NothingMissed BY DEF ListInv
<1> QED BY <1>1, ListInvHolds, PTL

(* A nextCursor is not given for an empty page.                            *)
THEOREM NoEmptyPage == Spec => []MoreToCome
<1>1. ListInv => MoreToCome
  BY RowsBeyond DEF ListInv, MoreToCome, SomethingBeyond
<1> QED BY <1>1, ListInvHolds, PTL

(* Page after page the list goes back in time.                             *)
THEOREM BackInTime == Spec => GoesBack
<1> DEFINE A == \A e \in listed' \ listed, f \in listed : createdAt[f] >= createdAt[e]
<1>1. ListInv /\ [Next]_vars => [A]_vars
  <2> SUFFICES ASSUME ListInv, Next PROVE A
    OBVIOUS
  <2>1. CASE GetPage
    <3>1. TypeOK /\ NothingYet /\ ListedAhead /\ reading
      BY <2>1 DEF ListInv, GetPage
    <3>2. First(limit, Rows) \subseteq Rows BY DEF First
    <3>3. \A e \in listed' \ listed, f \in listed : Before(f, e)
      BY <2>1, <3>1, <3>2, ListedBeforeRows DEF GetPage
    <3>4. listed' \subseteq Ids /\ listed \subseteq Ids
      BY <2>1, <3>1, <3>2, RowsBeyond DEF GetPage, TypeOK
    <3>5. \A e \in Ids : createdAt[e] \in Nat
      BY <3>1, SizesAssumption DEF TypeOK
    <3> QED BY <3>3, <3>4, <3>5 DEF Before
  <2>2. CASE ~ GetPage
    <3>1. listed' \subseteq listed
      BY <2>2 DEF Next, Insert, Commit, Tick, StartListing, client
    <3> QED BY <3>1
  <2> QED BY <2>1, <2>2
<1> QED BY <1>1, ListInvHolds, PTL DEF Spec, GoesBack

=============================================================================
