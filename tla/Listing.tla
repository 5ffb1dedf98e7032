------------------------------ MODULE Listing ------------------------------
(***************************************************************************)
(* The list of a project's events (listProjectEvents,                      *)
(* src/services/event-query.service.ts), which a client reads page by page *)
(* with the cursor of the last one, while events are being published.      *)
(*                                                                         *)
(* An event is dated when its transaction begins and seen when it commits: *)
(* events may appear below others that are there already.  Ids are random, *)
(* and decide between equal dates.                                         *)
(***************************************************************************)
EXTENDS FiniteSets, Integers

CONSTANTS
    MaxEvents,      \* bound: events are 1..MaxEvents
    MaxTime,        \* bound: how many different dates there are
    MaxLimit,       \* bound: the rows of a page (100 in listQuerySchema)
    Projects,
    Mine,           \* the project whose events are listed
    Types,
    Kinds,          \* the projects and types of the events there are
    AnyType         \* no eventType is asked for

ASSUME SizesAssumption ==
    MaxEvents \in Nat /\ MaxTime \in Nat /\ MaxLimit \in Nat \ {0}
ASSUME AnyTypeAssumption == AnyType \notin Types
ASSUME ProjectsAssumption == Mine \in Projects /\ Kinds \subseteq Projects \X Types

VARIABLES
    clock,          \* the database's clock
    status,         \* of each event: its transaction, or the row
    createdAt,      \* table events: column createdAt
    project,        \*   column projectId
    eventType,      \*   column eventType
    reading,        \* the client is in the middle of the list
    filter,         \* the eventType it asks for
    limit,          \* how many rows it asks for
    cursor,         \* the nextCursor it was given, 0 before the first page
    listed,         \* history: the events it has been given
    twice,          \* history: those it has been given more than once
    toList          \* history: those that were there when it began

table == <<status, createdAt, project, eventType>>
client == <<reading, filter, limit, cursor, listed, twice, toList>>
vars == <<clock, table, client>>

Ids == 1..MaxEvents
TypeOrAny == Types \cup {AnyType}

Init ==
    /\ clock = 0
    /\ status = [e \in Ids |-> "absent"]
    /\ createdAt = [e \in Ids |-> 0]
    /\ project = [e \in Ids |-> Mine]
    /\ eventType = [e \in Ids |-> AnyType]
    /\ reading = FALSE
    /\ filter \in TypeOrAny
    /\ limit \in 1..MaxLimit
    /\ cursor = 0
    /\ listed = {} /\ twice = {} /\ toList = {}

----------------------------------------------------------------------------
(* Publications.                                                           *)

(* INSERT; the transaction is open.                                        *)
Insert(e) ==
    /\ status[e] = "absent"
    /\ status' = [status EXCEPT ![e] = "inserted"]
    /\ createdAt' = [createdAt EXCEPT ![e] = clock]
    /\ \E kind \in Kinds :
            /\ project' = [project EXCEPT ![e] = kind[1]]
            /\ eventType' = [eventType EXCEPT ![e] = kind[2]]
    /\ UNCHANGED <<clock, client>>

(* COMMIT; one that is rolled back is one that never comes to this.        *)
Commit(e) ==
    /\ status[e] = "inserted"
    /\ status' = [status EXCEPT ![e] = "stored"]
    /\ UNCHANGED <<clock, createdAt, project, eventType, client>>

Tick ==
    /\ clock < MaxTime
    /\ clock' = clock + 1
    /\ UNCHANGED <<table, client>>

----------------------------------------------------------------------------
(* The query.                                                              *)

(* Mutant of Before: the newest last.                                      *)
BeforeOldest(e, f) ==
    createdAt[e] < createdAt[f] \/ (createdAt[e] = createdAt[f] /\ e > f)

(* ORDER BY createdAt DESC, id DESC.                                       *)
Before(e, f) ==
    createdAt[e] > createdAt[f] \/ (createdAt[e] = createdAt[f] /\ e > f)

(* Mutant of Matching: of every project.                                   *)
MatchingAnywhere ==
    {e \in Ids : /\ status[e] = "stored"
                 /\ filter \in {AnyType, eventType[e]}}

(* WHERE.                                                                  *)
Matching ==
    {e \in Ids : /\ status[e] = "stored"
                 /\ project[e] = Mine
                 /\ filter \in {AnyType, eventType[e]}}

(* LIMIT.                                                                  *)
First(n, rows) == {e \in rows : Cardinality({f \in rows : Before(f, e)}) < n}

(* Mutants of Rows: OFFSET instead of a cursor; a cursor that is a date;   *)
(* without skip.                                                           *)
RowsByOffset == Matching \ First(Cardinality(listed), Matching)
RowsByDate == {e \in Matching : cursor = 0 \/ createdAt[e] < createdAt[cursor]}

RowsFromCursor == {e \in Matching : cursor \in {0, e} \/ Before(cursor, e)}

(* The rows from the cursor on, which skip: 1 leaves out itself.           *)
Rows ==
    LET from == {e \in Matching : cursor = e \/ Before(cursor, e)} IN
    IF cursor = 0 THEN Matching ELSE from \ First(1, from)

(* Mutant of HasMore: without the row beyond the page.                     *)
FullPage == Cardinality(Rows) >= limit

(* limit + 1 rows are asked for: if that many come, there is another page. *)
HasMore == Cardinality(Rows) > limit

(* nextCursor.                                                             *)
Last(page) == CHOOSE e \in page : \A f \in page : f = e \/ Before(f, e)

----------------------------------------------------------------------------
(* The client.                                                             *)

StartListing ==
    /\ ~reading
    /\ reading' = TRUE
    /\ cursor' = 0
    /\ listed' = {} /\ twice' = {}
    /\ toList' = Matching
    /\ UNCHANGED <<clock, table, filter, limit>>

(* It asks for a page and gets it; asking again for one it has not got     *)
(* changes nothing.  Without a nextCursor the list is over.                *)
GetPage ==
    LET page == First(limit, Rows) IN
    /\ reading
    /\ twice' = twice \cup (listed \cap page)
    /\ listed' = listed \cup page
    /\ reading' = HasMore
    /\ cursor' = IF HasMore THEN Last(page) ELSE cursor
    /\ UNCHANGED <<clock, table, filter, limit, toList>>

Next ==
    \/ \E e \in Ids : Insert(e) \/ Commit(e)
    \/ Tick
    \/ StartListing
    \/ GetPage

Spec == Init /\ [][Next]_vars

(* A client that has begun goes on to the end.                             *)
FairSpec == Spec /\ WF_vars(GetPage)

----------------------------------------------------------------------------

(* What is listed is stored, and what was asked for.                       *)
TypeOK ==
    /\ clock \in 0..MaxTime
    /\ status \in [Ids -> {"absent", "inserted", "stored"}]
    /\ createdAt \in [Ids -> 0..MaxTime]
    /\ project \in [Ids -> Projects]
    /\ eventType \in [Ids -> TypeOrAny]
    /\ reading \in BOOLEAN
    /\ filter \in TypeOrAny
    /\ limit \in 1..MaxLimit
    /\ cursor \in listed \cup {0}
    /\ listed \subseteq Ids
    /\ \A e \in listed : /\ status[e] = "stored" /\ project[e] = Mine
                        /\ filter \in {AnyType, eventType[e]}
    /\ twice \subseteq listed
    /\ toList \subseteq Ids

(***************************************************************************)
(* However many events arrive while a client pages, and wherever they      *)
(* appear, it is given none twice (routes/v1/event-query.routes.ts:54).    *)
(***************************************************************************)
NothingTwice == twice = {}

(***************************************************************************)
(* And none that was there when it began is left out, neither between two  *)
(* pages nor by a list that ends too soon.                                 *)
(***************************************************************************)
NothingMissed == ~reading => toList \subseteq listed

(***************************************************************************)
(* A nextCursor is given only if there is something after it: no client    *)
(* asks for a page to find it empty (event-query.service.ts:38).           *)
(***************************************************************************)
MoreToCome == reading /\ cursor # 0 => Rows # {}

(***************************************************************************)
(* Page after page the list goes back in time: what has been listed is     *)
(* newer than, or as old as, whatever follows.                             *)
(***************************************************************************)
GoesBack ==
    [][\A e \in listed' \ listed, f \in listed : createdAt[f] >= createdAt[e]]_vars

(***************************************************************************)
(* A client that goes on asking comes to the end of the list.              *)
(***************************************************************************)
ListingEnds == reading ~> ~reading

=============================================================================
