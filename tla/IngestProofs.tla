---------------------------- MODULE IngestProofs ----------------------------
(***************************************************************************)
(* Theorems about Ingest, for any number of clients, keys, webhooks and    *)
(* projects, and any number of failures.                                   *)
(***************************************************************************)
EXTENDS Ingest, FiniteSetTheorems, TLAPS

(* What the proofs need of the types: how updated functions are read back. *)
Shape ==
    /\ webhooks \in [Webhooks -> {"unregistered", "active", "inactive", "deleted"}]
    /\ pc \in [Clients -> {"idle", "lookup", "list", "create", "relookup",
                           "reply", "failed"}]
    /\ key \in [Clients -> KeyOrNone]
    /\ listed \in [Clients -> SUBSET Webhooks]
    /\ DOMAIN result = Clients

IngestInv == Shape /\ OneEventPerKey /\ AnswersAreTrue /\ EventsAreWhole

LEMMA InitHolds == Init => IngestInv
  BY DEF Init, IngestInv, Shape, OneEventPerKey, AnswersAreTrue, EventsAreWhole,
         KeyOrNone

(* A step that only reads, of one request, preserves the invariant.        *)
LEMMA ReadingSafe ==
    ASSUME IngestInv,
           NEW c \in Clients,
           RequestStep(c) \/ Fail(c) \/ \E k \in KeyOrNone : Publish(c, k),
           UNCHANGED tables
    PROVE  IngestInv'
<1> USE DEF IngestInv, tables
<1>1. CASE \E k \in KeyOrNone : Publish(c, k)
  BY <1>1 DEF Publish, Begins, Goes, tables, Shape, OneEventPerKey,
              AnswersAreTrue, EventsAreWhole
<1>2. CASE Retry(c)
  BY <1>2 DEF Retry, Begins, Goes, Shape, OneEventPerKey, AnswersAreTrue,
              EventsAreWhole
<1>3. CASE Lookup(c)
  BY <1>3 DEF Lookup, FindByKey, Goes, Shape, OneEventPerKey, AnswersAreTrue,
              EventsAreWhole
<1>4. CASE List(c)
  BY <1>4 DEF List, ActiveWebhooks, Goes, Shape, OneEventPerKey, AnswersAreTrue,
              EventsAreWhole
<1>5. CASE Duplicate(c)
  BY <1>5 DEF Duplicate, Goes, Shape, OneEventPerKey, AnswersAreTrue, EventsAreWhole
<1>6. CASE WebhookGone(c)
  BY <1>6 DEF WebhookGone, Ends, Goes, Shape, OneEventPerKey, AnswersAreTrue,
              EventsAreWhole
<1>7. CASE Relookup(c)
  BY <1>7 DEF Relookup, FindByKey, Goes, Shape, OneEventPerKey, AnswersAreTrue,
              EventsAreWhole
<1>8. CASE Reply(c)
  BY <1>8 DEF Reply, Ends, Goes, Shape, OneEventPerKey, AnswersAreTrue,
              EventsAreWhole, KeyOrNone
<1>9. CASE Fail(c)
  BY <1>9 DEF Fail, Ends, Goes, Shape, OneEventPerKey, AnswersAreTrue, EventsAreWhole
<1>10. CASE Create(c)
  <2>1. [id |-> Cardinality(events) + 1, project |-> project[c], key |-> key[c],
         targets |-> listed[c]] \in events
    BY <1>10 DEF Create
  <2>2. \E e \in events :
            /\ e.id = Cardinality(events) + 1
            /\ e.project = project[c]
            /\ e.key = key[c]
    BY <2>1
  <2> QED
    BY <1>10, <2>2 DEF Create, Goes, Shape, OneEventPerKey, AnswersAreTrue,
                       EventsAreWhole
<1> QED
  BY <1>1, <1>2, <1>3, <1>4, <1>5, <1>6, <1>7, <1>8, <1>9, <1>10 DEF RequestStep

(* The transaction that creates an event preserves it.                     *)
LEMMA CreateSafe ==
    ASSUME IngestInv, NEW c \in Clients, Create(c)
    PROVE  IngestInv'
<1> DEFINE new == [id |-> Cardinality(events) + 1, project |-> project[c],
                   key |-> key[c], targets |-> listed[c]]
<1>1. /\ events' = events \cup {new}
      /\ deliveries' = deliveries \cup ({new.id} \X new.targets)
      /\ result' = [result EXCEPT ![c] = new.id]
  BY DEF Create
<1>2. /\ new.project = project[c]
      /\ new.key = key[c]
      /\ new.targets = listed[c]
  OBVIOUS
<1> HIDE DEF new
<1>3. Shape'
  BY DEF Create, Goes, IngestInv, Shape
<1>4. OneEventPerKey'
  <2> SUFFICES ASSUME NEW e \in events', NEW f \in events',
                      e.project = f.project, e.key = f.key, e.key # NoKey
               PROVE  e.id = f.id
    BY DEF OneEventPerKey
  <2>1. ~Conflict(project[c], key[c])
    BY DEF Create
  <2>2. ASSUME NEW g \in events, g.project = new.project, g.key = new.key
        PROVE  g.key = NoKey
    BY <1>2, <2>1, <2>2 DEF Conflict
  <2> QED
    BY <1>1, <2>2 DEF IngestInv, OneEventPerKey
<1>5. AnswersAreTrue'
  <2> SUFFICES ASSUME NEW b \in Clients, pc'[b] = "reply"
               PROVE  \E e \in events' : /\ e.id = result'[b]
                                         /\ e.project = project[b]
                                         /\ e.key = key[b]
    BY DEF AnswersAreTrue, Create
  <2>1. CASE b = c
    BY <1>1, <1>2, <2>1 DEF IngestInv, Shape
  <2>2. CASE b # c
    BY <1>1, <2>2 DEF Create, Goes, IngestInv, Shape, AnswersAreTrue
  <2> QED BY <2>1, <2>2
<1>6. EventsAreWhole'
  <2> SUFFICES ASSUME NEW e \in events', NEW w \in e.targets,
                      webhooks[w] # "deleted"
               PROVE  <<e.id, w>> \in deliveries'
    BY DEF EventsAreWhole, Create
  <2>1. CASE e = new
    BY <1>1, <2>1
  <2>2. CASE e \in events
    BY <1>1, <2>2 DEF IngestInv, EventsAreWhole
  <2> QED BY <1>1, <2>1, <2>2
<1> QED BY <1>3, <1>4, <1>5, <1>6 DEF IngestInv

(* So does every change of a webhook.                                      *)
LEMMA WebhookSafe ==
    ASSUME IngestInv, NEW w \in Webhooks, WebhookStep(w)
    PROVE  IngestInv'
<1> USE DEF IngestInv, request
<1>1. CASE RegisterWebhook(w)
  BY <1>1 DEF RegisterWebhook, Shape, OneEventPerKey, AnswersAreTrue, EventsAreWhole
<1>2. CASE ModifyWebhook(w)
  BY <1>2 DEF ModifyWebhook, Shape, OneEventPerKey, AnswersAreTrue, EventsAreWhole
<1>3. CASE RemoveWebhook(w)
  <2>1. Shape' /\ OneEventPerKey' /\ AnswersAreTrue'
    BY <1>3 DEF RemoveWebhook, Shape, OneEventPerKey, AnswersAreTrue
  <2>2. EventsAreWhole'
    BY <1>3 DEF RemoveWebhook, Shape, EventsAreWhole
  <2> QED BY <2>1, <2>2
<1> QED BY <1>1, <1>2, <1>3 DEF WebhookStep

LEMMA NextSafe == IngestInv /\ [Next]_vars => IngestInv'
<1> SUFFICES ASSUME IngestInv, [Next]_vars PROVE IngestInv'
  OBVIOUS
<1>1. ASSUME NEW c \in Clients, RequestStep(c) \/ Fail(c) PROVE IngestInv'
  <2>1. CASE Create(c) BY <2>1, CreateSafe
  <2>2. CASE ~Create(c)
    <3>1. UNCHANGED tables
      BY <1>1, <2>2 DEF RequestStep, Retry, Begins, Lookup, List, Duplicate,
                        WebhookGone, Relookup, Reply, Fail, tables
    <3> QED BY <1>1, <3>1, ReadingSafe
  <2> QED BY <2>1, <2>2
<1>2. ASSUME NEW c \in Clients, NEW k \in KeyOrNone, Publish(c, k) PROVE IngestInv'
  <2>1. UNCHANGED tables BY <1>2 DEF Publish, Begins
  <2> QED BY <1>2, <2>1, ReadingSafe
<1>3. ASSUME NEW w \in Webhooks, WebhookStep(w) PROVE IngestInv'
  BY <1>3, WebhookSafe
<1>4. CASE UNCHANGED vars
  BY <1>4 DEF vars, tables, request, IngestInv, Shape, OneEventPerKey,
              AnswersAreTrue, EventsAreWhole
<1> QED BY <1>1, <1>2, <1>3, <1>4 DEF Next

THEOREM IngestInvariant == Spec => []IngestInv
  BY InitHolds, NextSafe, PTL DEF Spec

(***************************************************************************)
(* A project never has two events with one idempotency key, however many   *)
(* requests race and whatever fails: the unique constraint does it alone.  *)
(***************************************************************************)
THEOREM KeysAreUnique == Spec => []OneEventPerKey
<1>1. IngestInv => OneEventPerKey BY DEF IngestInv
<1> QED BY <1>1, IngestInvariant, PTL

(***************************************************************************)
(* Every 202 names a stored event of the caller's project and key.         *)
(***************************************************************************)
THEOREM AnswersHold == Spec => []AnswersAreTrue
<1>1. IngestInv => AnswersAreTrue BY DEF IngestInv
<1> QED BY <1>1, IngestInvariant, PTL

(***************************************************************************)
(* A stored event has all its deliveries but those of deleted webhooks.    *)
(***************************************************************************)
THEOREM NothingHalfDone == Spec => []EventsAreWhole
<1>1. IngestInv => EventsAreWhole BY DEF IngestInv
<1> QED BY <1>1, IngestInvariant, PTL

----------------------------------------------------------------------------
(* The rows there are, and those that requests in progress may add: each   *)
(* adds one at most, and one more for every failure it may still have.     *)
InHand == {c \in Clients : pc[c] # "idle"}
Unwritten == {"lookup", "list", "create", "failed"}
Pending == {c \in Clients : pc[c] \in Unwritten}

EventsAreNumbered ==
    /\ IsFiniteSet(events)
    /\ {e.id : e \in events} = 1..Cardinality(events)

ThereIsRoom ==
    /\ IsFiniteSet(InHand)
    /\ InHand # {} =>
        Cardinality(events) + Cardinality(Pending) + MaxFailures - failures <= MaxEvents

(* Between the list and the transaction that uses it webhooks change: what *)
(* was active all along is on the list, and all on it was active once.     *)
ListIsFair ==
    \A c \in Clients :
        /\ \A w \in listed[c] : webhooks[w] # "unregistered"
        /\ pc[c] \notin {"idle", "failed"} =>
                /\ steady[c] \subseteq Live(webhooks, project[c])
                /\ Live(webhooks, project[c]) \subseteq seen[c]
        /\ pc[c] = "create" => steady[c] \subseteq listed[c] /\ listed[c] \subseteq seen[c]

FanOutInv == TypeOK /\ EventsAreNumbered /\ ThereIsRoom /\ ListIsFair

LEMMA FanOutInit == Init => FanOutInv
<1> SUFFICES ASSUME Init PROVE FanOutInv
  OBVIOUS
<1>1. TypeOK
  BY BoundsAssumption, NoKeyAssumption DEF Init, TypeOK, KeyOrNone
<1>2. EventsAreNumbered
  BY FS_EmptySet DEF Init, EventsAreNumbered
<1>3. InHand = {} BY DEF Init, InHand
<1>4. ThereIsRoom BY <1>3, FS_EmptySet DEF ThereIsRoom
<1>5. ListIsFair BY DEF Init, ListIsFair
<1> QED BY <1>1, <1>2, <1>4, <1>5 DEF FanOutInv

(* What becomes of these sets when one request goes on.                    *)
LEMMA HandsMove ==
    ASSUME IsFiniteSet(InHand), DOMAIN pc = Clients, NEW c \in Clients, NEW place,
           Goes(c, place)
    PROVE  /\ IsFiniteSet(InHand')
           /\ Cardinality(Pending) \in Nat /\ Cardinality(Pending) <= Cardinality(InHand)
           /\ Cardinality(InHand) \in Nat
           /\ Cardinality(Pending') =
                Cardinality(Pending) + (IF place \in Unwritten THEN 1 ELSE 0)
                                     - (IF pc[c] \in Unwritten THEN 1 ELSE 0)
<1>1. pc'[c] = place /\ \A d \in Clients : d # c => pc'[d] = pc[d]
  BY DEF Goes
<1>2. Pending \subseteq InHand BY DEF Pending, InHand, Unwritten
<1>3. /\ IsFiniteSet(Pending)
      /\ Cardinality(Pending) \in Nat /\ Cardinality(InHand) \in Nat
      /\ Cardinality(Pending) <= Cardinality(InHand)
  BY <1>2, FS_Subset, FS_CardinalityType
<1>4. IsFiniteSet(InHand')
  <2>1. InHand' \subseteq InHand \cup {c} BY <1>1 DEF InHand
  <2>2. IsFiniteSet(InHand \cup {c}) BY FS_AddElement
  <2> QED BY <2>1, <2>2, FS_Subset
<1>5. Pending' = IF place \in Unwritten THEN Pending \cup {c} ELSE Pending \ {c}
  BY <1>1 DEF Pending
<1>6. c \in Pending <=> pc[c] \in Unwritten BY DEF Pending
<1>7. /\ Cardinality(Pending \cup {c}) =
            Cardinality(Pending) + (IF pc[c] \in Unwritten THEN 0 ELSE 1)
      /\ Cardinality(Pending \ {c}) =
            Cardinality(Pending) - (IF pc[c] \in Unwritten THEN 1 ELSE 0)
  <2>1. /\ Cardinality(Pending \cup {c}) =
                IF c \in Pending THEN Cardinality(Pending) ELSE Cardinality(Pending) + 1
        /\ Cardinality(Pending \ {c}) =
                IF c \in Pending THEN Cardinality(Pending) - 1 ELSE Cardinality(Pending)
    BY <1>3, FS_AddElement, FS_RemoveElement
  <2> QED BY <1>3, <1>6, <2>1
<1>8. Cardinality(Pending') =
            Cardinality(Pending) + (IF place \in Unwritten THEN 1 ELSE 0)
                                 - (IF pc[c] \in Unwritten THEN 1 ELSE 0)
  <2>1. CASE place \in Unwritten
    <3>1. Pending' = Pending \cup {c} BY <1>5, <2>1
    <3> QED BY <1>3, <1>7, <2>1, <3>1
  <2>2. CASE place \notin Unwritten
    <3>1. Pending' = Pending \ {c} BY <1>5, <2>2
    <3> QED BY <1>3, <1>7, <2>2, <3>1
  <2> QED BY <2>1, <2>2
<1> QED BY <1>3, <1>4, <1>8

(* A request that is in progress goes on, with the rows as they are.       *)
LEMMA RoomGoesOn ==
    ASSUME FanOutInv, NEW c \in Clients, NEW place, Goes(c, place), pc[c] # "idle",
           UNCHANGED events,
           \/ UNCHANGED failures /\ (place \in Unwritten => pc[c] \in Unwritten)
           \/ failures' = failures + 1
    PROVE  EventsAreNumbered' /\ ThereIsRoom'
<1>1. EventsAreNumbered' BY DEF FanOutInv, EventsAreNumbered
<1>2. /\ IsFiniteSet(InHand')
      /\ Cardinality(Pending) \in Nat
      /\ Cardinality(Pending') =
                Cardinality(Pending) + (IF place \in Unwritten THEN 1 ELSE 0)
                                     - (IF pc[c] \in Unwritten THEN 1 ELSE 0)
  BY HandsMove DEF FanOutInv, ThereIsRoom, TypeOK
<1>3. /\ Cardinality(events) + Cardinality(Pending) + MaxFailures - failures <= MaxEvents
      /\ failures \in Nat /\ MaxFailures \in Nat /\ MaxEvents \in Nat
      /\ Cardinality(events) \in Nat
  <2>1. c \in InHand BY DEF InHand
  <2>2. Cardinality(events) \in Nat
    BY FS_CardinalityType DEF FanOutInv, EventsAreNumbered
  <2> QED BY <2>1, <2>2, BoundsAssumption DEF FanOutInv, ThereIsRoom, TypeOK
<1>4. Cardinality(events') + Cardinality(Pending') + MaxFailures - failures' <= MaxEvents
  BY <1>2, <1>3
<1>5. ThereIsRoom' BY <1>2, <1>4 DEF ThereIsRoom
<1> QED BY <1>1, <1>5

(* A request ends or begins with nothing in hand.                          *)
LEMMA FairStart ==
    ASSUME FanOutInv, NEW c \in Clients, UNCHANGED <<webhooks, project>>,
           pc' \in [Clients -> {"idle", "lookup", "list", "create", "relookup",
                                "reply", "failed"}],
           \A d \in Clients : d # c =>
                /\ pc'[d] = pc[d] /\ listed'[d] = listed[d]
                /\ steady'[d] = steady[d] /\ seen'[d] = seen[d],
           listed'[c] \subseteq listed[c],
           \/ pc'[c] \in {"idle", "failed"}
           \/ /\ pc'[c] # "create"
              /\ steady'[c] \subseteq Live(webhooks, project[c])
              /\ Live(webhooks, project[c]) \subseteq seen'[c]
    PROVE  ListIsFair'
<1> SUFFICES ASSUME NEW d \in Clients
             PROVE  /\ \A w \in listed'[d] : webhooks[w] # "unregistered"
                    /\ pc'[d] \notin {"idle", "failed"} =>
                            /\ steady'[d] \subseteq Live(webhooks, project[d])
                            /\ Live(webhooks, project[d]) \subseteq seen'[d]
                    /\ pc'[d] = "create" =>
                            steady'[d] \subseteq listed'[d] /\ listed'[d] \subseteq seen'[d]
  BY DEF ListIsFair, Live
<1>1. CASE d = c BY <1>1 DEF FanOutInv, ListIsFair
<1>2. CASE d # c BY <1>2 DEF FanOutInv, ListIsFair
<1> QED BY <1>1, <1>2

LEMMA BeginsFairly ==
    ASSUME FanOutInv, NEW c \in Clients, NEW k \in KeyOrNone, Begins(c, k),
           pc[c] = "failed" \/ (pc[c] = "idle" /\ RoomForOneMore)
    PROVE  FanOutInv'
<1> DEFINE place == IF k = NoKey THEN "list" ELSE "lookup"
<1>1. /\ Goes(c, place)
      /\ key' = [key EXCEPT ![c] = k]
      /\ steady' = [steady EXCEPT ![c] = Live(webhooks, project[c])]
      /\ seen' = [seen EXCEPT ![c] = Live(webhooks, project[c])]
      /\ UNCHANGED <<webhooks, events, deliveries, project, listed, result, failures>>
  BY DEF Begins, tables
<1>2. TypeOK'
  BY <1>1 DEF FanOutInv, TypeOK, Goes, Live
<1>3. ListIsFair'
  <2>1. /\ pc' \in [Clients -> {"idle", "lookup", "list", "create", "relookup",
                                "reply", "failed"}]
        /\ pc'[c] \in {"list", "lookup"}
        /\ steady'[c] = Live(webhooks, project[c])
        /\ seen'[c] = Live(webhooks, project[c])
        /\ \A d \in Clients : d # c =>
                pc'[d] = pc[d] /\ steady'[d] = steady[d] /\ seen'[d] = seen[d]
    BY <1>1 DEF FanOutInv, TypeOK, Goes
  <2> QED BY <1>1, <2>1, FairStart
<1>4. EventsAreNumbered' /\ ThereIsRoom'
  <2>1. CASE pc[c] = "failed"
    BY <1>1, <2>1, RoomGoesOn DEF Unwritten
  <2>2. CASE pc[c] = "idle" /\ RoomForOneMore
    <3>1. EventsAreNumbered' BY <1>1 DEF FanOutInv, EventsAreNumbered
    <3>2. /\ IsFiniteSet(InHand')
          /\ Cardinality(Pending) \in Nat /\ Cardinality(InHand) \in Nat
          /\ Cardinality(Pending) <= Cardinality(InHand)
          /\ Cardinality(Pending') = Cardinality(Pending) + 1
      BY <1>1, <2>2, HandsMove DEF FanOutInv, ThereIsRoom, TypeOK, Unwritten
    <3>3. Cardinality(events) + Cardinality(InHand) + MaxFailures - failures < MaxEvents
      BY <2>2 DEF RoomForOneMore, InHand
    <3>4. /\ Cardinality(events) \in Nat /\ failures \in Nat
          /\ MaxFailures \in Nat /\ MaxEvents \in Nat
      BY FS_CardinalityType, BoundsAssumption DEF FanOutInv, EventsAreNumbered, TypeOK
    <3>5. Cardinality(events') + Cardinality(Pending') + MaxFailures - failures' <= MaxEvents
      BY <1>1, <3>2, <3>3, <3>4
    <3> QED BY <3>1, <3>2, <3>5 DEF ThereIsRoom
  <2> QED BY <2>1, <2>2
<1> QED BY <1>2, <1>3, <1>4 DEF FanOutInv

(* A request ends, or goes on with what it has.                            *)
LEMMA GoesFairly ==
    ASSUME FanOutInv, NEW c \in Clients,
           \/ Lookup(c) \/ List(c) \/ Duplicate(c) \/ WebhookGone(c) \/ Relookup(c)
           \/ Reply(c) \/ Fail(c)
    PROVE  FanOutInv'
<1>0. /\ pc[c] # "idle" /\ UNCHANGED <<webhooks, events, deliveries, project>>
  BY DEF Lookup, List, Duplicate, WebhookGone, Relookup, Reply, Fail, tables
<1>1. ASSUME Lookup(c) \/ Relookup(c)
      PROVE  TypeOK' /\ ListIsFair' /\ EventsAreNumbered' /\ ThereIsRoom'
  <2>1. PICK place \in {"list", "reply"} :
            Goes(c, place) /\ (place = "list" => pc[c] = "lookup")
    BY <1>1 DEF Lookup, Relookup
  <2>2. \/ UNCHANGED result
        \/ \E e \in events : result' = [result EXCEPT ![c] = e.id]
    BY <1>1 DEF Lookup, Relookup, FindByKey
  <2>3. result' \in [Clients -> Ids \cup {0}]
    BY <2>2 DEF FanOutInv, TypeOK, Event
  <2>4. /\ UNCHANGED <<key, listed, failures, steady, seen>>
        /\ pc[c] \in {"lookup", "relookup"}
    BY <1>1 DEF Lookup, Relookup
  <2>5. TypeOK'
    BY <1>0, <2>1, <2>3, <2>4 DEF FanOutInv, TypeOK, Goes
  <2>6. ListIsFair'
    BY <1>0, <2>1, <2>4 DEF FanOutInv, TypeOK, ListIsFair, Goes, Live
  <2>7. EventsAreNumbered' /\ ThereIsRoom'
    BY <1>0, <2>1, <2>4, RoomGoesOn DEF Unwritten
  <2> QED BY <2>5, <2>6, <2>7
<1>2. ASSUME List(c)
      PROVE  TypeOK' /\ ListIsFair' /\ EventsAreNumbered' /\ ThereIsRoom'
  <2>1. /\ pc[c] = "list" /\ Goes(c, "create")
        /\ listed' = [listed EXCEPT ![c] = Live(webhooks, project[c])]
        /\ UNCHANGED <<key, result, failures, steady, seen>>
    BY <1>2 DEF List, ActiveWebhooks, Live
  <2>2. TypeOK'
    BY <1>0, <2>1 DEF FanOutInv, TypeOK, Goes, Live
  <2>3. ListIsFair'
    <3> SUFFICES ASSUME NEW d \in Clients
                 PROVE  /\ \A w \in listed'[d] : webhooks[w] # "unregistered"
                        /\ pc'[d] \notin {"idle", "failed"} =>
                                /\ steady[d] \subseteq Live(webhooks, project[d])
                                /\ Live(webhooks, project[d]) \subseteq seen[d]
                        /\ pc'[d] = "create" =>
                                steady[d] \subseteq listed'[d] /\ listed'[d] \subseteq seen[d]
      BY <1>0, <2>1 DEF ListIsFair, Live
    <3>1. CASE d = c
      <4>1. listed'[c] = Live(webhooks, project[c])
        BY <2>1 DEF FanOutInv, TypeOK
      <4>2. /\ steady[c] \subseteq Live(webhooks, project[c])
            /\ Live(webhooks, project[c]) \subseteq seen[c]
        BY <2>1 DEF FanOutInv, ListIsFair
      <4>3. \A w \in Live(webhooks, project[c]) : webhooks[w] # "unregistered"
        BY DEF Live
      <4> QED BY <3>1, <4>1, <4>2, <4>3
    <3>2. CASE d # c
      BY <2>1, <3>2 DEF FanOutInv, TypeOK, ListIsFair, Goes
    <3> QED BY <3>1, <3>2
  <2>4. EventsAreNumbered' /\ ThereIsRoom'
    BY <1>0, <2>1, RoomGoesOn DEF Unwritten
  <2> QED BY <2>2, <2>3, <2>4
<1>3. ASSUME Duplicate(c)
      PROVE  TypeOK' /\ ListIsFair' /\ EventsAreNumbered' /\ ThereIsRoom'
  <2>1. /\ pc[c] = "create" /\ Goes(c, "relookup")
        /\ UNCHANGED <<key, listed, result, failures, steady, seen>>
    BY <1>3 DEF Duplicate
  <2>2. TypeOK' BY <1>0, <2>1 DEF FanOutInv, TypeOK, Goes
  <2>3. ListIsFair'
    BY <1>0, <2>1 DEF FanOutInv, TypeOK, ListIsFair, Goes, Live
  <2>4. EventsAreNumbered' /\ ThereIsRoom'
    BY <1>0, <2>1, RoomGoesOn DEF Unwritten
  <2> QED BY <2>2, <2>3, <2>4
<1>4. ASSUME WebhookGone(c) \/ Reply(c) \/ Fail(c)
      PROVE  TypeOK' /\ ListIsFair' /\ EventsAreNumbered' /\ ThereIsRoom'
  <2>1. PICK place \in {"idle", "failed"} :
            /\ Ends(c, place)
            /\ \/ UNCHANGED failures /\ (place = "failed" => pc[c] = "create")
               \/ failures' = failures + 1 /\ failures < MaxFailures
    BY <1>4 DEF WebhookGone, Reply, Fail
  <2>2. key' \in [Clients -> KeyOrNone]
    BY <1>4 DEF WebhookGone, Reply, Fail, FanOutInv, TypeOK, KeyOrNone
  <2>3. failures' \in 0..MaxFailures
    BY <2>1, BoundsAssumption DEF FanOutInv, TypeOK
  <2>4. TypeOK'
    BY <1>0, <2>1, <2>2, <2>3 DEF FanOutInv, TypeOK, Ends, Goes
  <2>5. ListIsFair'
    <3>1. /\ pc' \in [Clients -> {"idle", "lookup", "list", "create", "relookup",
                                  "reply", "failed"}]
          /\ pc'[c] = place /\ listed'[c] = {}
          /\ \A d \in Clients : d # c =>
                /\ pc'[d] = pc[d] /\ listed'[d] = listed[d]
                /\ steady'[d] = steady[d] /\ seen'[d] = seen[d]
      BY <2>1 DEF FanOutInv, TypeOK, Ends, Goes
    <3> QED BY <1>0, <3>1, FairStart
  <2>6. EventsAreNumbered' /\ ThereIsRoom'
    BY <1>0, <2>1, RoomGoesOn DEF Ends, Unwritten
  <2> QED BY <2>4, <2>5, <2>6
<1> QED BY <1>1, <1>2, <1>3, <1>4 DEF FanOutInv

(* The transaction: its event is a new one, and there is room for it.      *)
LEMMA CreatesFairly ==
    ASSUME FanOutInv, NEW c \in Clients, Create(c)
    PROVE  FanOutInv'
<1> DEFINE n == Cardinality(events)
           new == [id |-> n + 1, project |-> project[c], key |-> key[c],
                   targets |-> listed[c]]
<1>1. /\ pc[c] = "create" /\ Goes(c, "reply")
      /\ events' = events \cup {new}
      /\ deliveries' = deliveries \cup ({n + 1} \X listed[c])
      /\ result' = [result EXCEPT ![c] = n + 1]
      /\ Referable(listed[c])
      /\ UNCHANGED <<webhooks, project, key, listed, failures, steady, seen>>
  BY DEF Create
<1>2. IsFiniteSet(events) /\ n \in Nat /\ {e.id : e \in events} = 1..n
  BY FS_CardinalityType DEF FanOutInv, EventsAreNumbered
<1>3. new.id = n + 1 /\ new \notin events
  <2>1. new.id = n + 1 OBVIOUS
  <2>2. \A e \in events : e.id \in 1..n BY <1>2
  <2> HIDE DEF n, new
  <2> QED BY <1>2, <2>1, <2>2
<1>4. IsFiniteSet(events') /\ Cardinality(events') = n + 1
  <2> HIDE DEF n, new
  <2>1. n = Cardinality(events) BY DEF n
  <2> QED BY <1>1, <1>2, <1>3, <2>1, FS_AddElement
<1>5. /\ IsFiniteSet(InHand')
      /\ Cardinality(Pending) \in Nat
      /\ Cardinality(Pending') = Cardinality(Pending) - 1
  BY <1>1, HandsMove DEF FanOutInv, ThereIsRoom, TypeOK, Unwritten
<1>6. /\ n + Cardinality(Pending) + MaxFailures - failures <= MaxEvents
      /\ failures \in 0..MaxFailures /\ MaxFailures \in Nat /\ MaxEvents \in Nat
  <2>1. c \in InHand BY <1>1 DEF InHand
  <2> QED BY <2>1, BoundsAssumption DEF FanOutInv, ThereIsRoom, TypeOK
<1>7. Cardinality(Pending') \in Nat
  <2>1. Pending' \subseteq InHand' BY DEF Pending, InHand, Unwritten
  <2> QED BY <1>5, <2>1, FS_Subset, FS_CardinalityType
<1>8. n + 1 \in Ids
  <2> HIDE DEF n
  <2> QED BY <1>2, <1>5, <1>6, <1>7 DEF Ids
<1>9. TypeOK'
  <2>1. events' \subseteq Event
    BY <1>1, <1>8 DEF FanOutInv, TypeOK, Event
  <2>2. /\ pc' \in [Clients -> {"idle", "lookup", "list", "create", "relookup",
                                "reply", "failed"}]
        /\ result' \in [Clients -> Ids \cup {0}]
    BY <1>1, <1>8 DEF FanOutInv, TypeOK, Goes
  <2>3. \A w \in listed[c] : w \in Webhooks /\ webhooks[w] \in {"active", "inactive"}
    BY <1>1 DEF FanOutInv, TypeOK, ListIsFair, Referable
  <2>4. deliveries' \subseteq {e.id : e \in events'} \X
                        {w \in Webhooks : webhooks[w] \in {"active", "inactive"}}
    <3>1. n + 1 \in {e.id : e \in events'} BY <1>1, <1>3
    <3>2. {e.id : e \in events} \subseteq {e.id : e \in events'} BY <1>1
    <3> HIDE DEF n, new
    <3> QED BY <1>1, <2>3, <3>1, <3>2 DEF FanOutInv, TypeOK
  <2> QED BY <1>1, <2>1, <2>2, <2>4 DEF FanOutInv, TypeOK
<1>10. ListIsFair'
  BY <1>1 DEF FanOutInv, TypeOK, ListIsFair, Goes, Live
<1>11. EventsAreNumbered'
  <2>1. {e.id : e \in events'} = {e.id : e \in events} \cup {n + 1}
    BY <1>1, <1>3
  <2> HIDE DEF n, new
  <2>2. {e.id : e \in events'} = 1..(n + 1)
    BY <1>2, <2>1
  <2> QED BY <1>4, <2>2 DEF EventsAreNumbered
<1>12. ThereIsRoom'
  <2>1. Cardinality(events') + Cardinality(Pending') + MaxFailures - failures' <= MaxEvents
    <3> HIDE DEF n
    <3> QED BY <1>1, <1>2, <1>4, <1>5, <1>6
  <2> QED BY <1>5, <2>1 DEF ThereIsRoom
<1> QED BY <1>9, <1>10, <1>11, <1>12 DEF FanOutInv

(* A webhook changes: every request in progress takes note of it.          *)
LEMMA WebhookFair ==
    ASSUME FanOutInv, NEW w \in Webhooks, WebhookStep(w)
    PROVE  FanOutInv'
<1>1. /\ webhooks' \in [Webhooks -> {"unregistered", "active", "inactive", "deleted"}]
      /\ \A v \in Webhooks : webhooks[v] # "unregistered" => webhooks'[v] # "unregistered"
      /\ deliveries' \subseteq {e.id : e \in events} \X
                        {v \in Webhooks : webhooks'[v] \in {"active", "inactive"}}
  <2>1. CASE RegisterWebhook(w) BY <2>1 DEF RegisterWebhook, FanOutInv, TypeOK
  <2>2. CASE ModifyWebhook(w) BY <2>2 DEF ModifyWebhook, FanOutInv, TypeOK
  <2>3. CASE RemoveWebhook(w)
    <3>1. /\ webhooks' = [webhooks EXCEPT ![w] = "deleted"]
          /\ deliveries' = {d \in deliveries : d[2] # w}
          /\ webhooks \in [Webhooks -> {"unregistered", "active", "inactive", "deleted"}]
          /\ deliveries \subseteq {e.id : e \in events} \X
                        {v \in Webhooks : webhooks[v] \in {"active", "inactive"}}
      BY <2>3 DEF RemoveWebhook, FanOutInv, TypeOK
    <3> QED BY <3>1
  <2> QED BY <2>1, <2>2, <2>3 DEF WebhookStep
<1>2. /\ UNCHANGED <<events, project, pc, key, listed, result, failures>>
      /\ Notice
  BY DEF WebhookStep, RegisterWebhook, ModifyWebhook, RemoveWebhook, request
<1>3. /\ \A c \in Clients : steady'[c] = steady[c] \cap Live(webhooks', project[c])
      /\ \A c \in Clients : pc[c] \notin {"idle", "failed"} =>
                seen'[c] = seen[c] \cup Live(webhooks', project[c])
      /\ steady' \in [Clients -> SUBSET Webhooks]
      /\ seen' \in [Clients -> SUBSET Webhooks]
  <2>1. \A c \in Clients : /\ Live(webhooks', project[c]) \in SUBSET Webhooks
                           /\ steady[c] \in SUBSET Webhooks
                           /\ seen[c] \in SUBSET Webhooks
    BY DEF Live, FanOutInv, TypeOK
  <2> QED BY <1>2, <2>1 DEF Notice
<1>4. TypeOK' BY <1>1, <1>2, <1>3 DEF FanOutInv, TypeOK
<1>5. EventsAreNumbered' /\ ThereIsRoom'
  BY <1>2 DEF FanOutInv, EventsAreNumbered, ThereIsRoom, InHand, Pending
<1>6. ListIsFair'
  <2> SUFFICES ASSUME NEW c \in Clients
               PROVE  /\ \A v \in listed[c] : webhooks'[v] # "unregistered"
                      /\ pc[c] \notin {"idle", "failed"} =>
                            /\ steady'[c] \subseteq Live(webhooks', project[c])
                            /\ Live(webhooks', project[c]) \subseteq seen'[c]
                      /\ pc[c] = "create" =>
                            steady'[c] \subseteq listed[c] /\ listed[c] \subseteq seen'[c]
    BY <1>2 DEF ListIsFair, Live
  <2>1. listed[c] \subseteq Webhooks BY DEF FanOutInv, TypeOK
  <2> QED BY <1>1, <1>3, <2>1 DEF FanOutInv, ListIsFair
<1> QED BY <1>4, <1>5, <1>6 DEF FanOutInv

LEMMA FanOutNext == FanOutInv /\ [Next]_vars => FanOutInv'
<1> SUFFICES ASSUME FanOutInv, [Next]_vars PROVE FanOutInv'
  OBVIOUS
<1>1. ASSUME NEW c \in Clients, RequestStep(c) \/ Fail(c) PROVE FanOutInv'
  <2>1. CASE Create(c) BY <2>1, CreatesFairly
  <2>2. CASE Retry(c)
    <3>1. key[c] \in KeyOrNone BY DEF FanOutInv, TypeOK
    <3> QED BY <2>2, <3>1, BeginsFairly DEF Retry
  <2> QED BY <1>1, <2>1, <2>2, GoesFairly DEF RequestStep
<1>2. ASSUME NEW c \in Clients, NEW k \in KeyOrNone, Publish(c, k) PROVE FanOutInv'
  BY <1>2, BeginsFairly DEF Publish
<1>3. ASSUME NEW w \in Webhooks, WebhookStep(w) PROVE FanOutInv'
  BY <1>3, WebhookFair
<1>4. CASE UNCHANGED vars
  BY <1>4 DEF vars, tables, request, FanOutInv, TypeOK, EventsAreNumbered, ThereIsRoom,
              ListIsFair, InHand, Pending, Live
<1> QED BY <1>1, <1>2, <1>3, <1>4 DEF Next

LEMMA FanOutAlways == Spec => []FanOutInv
  BY FanOutInit, FanOutNext, PTL DEF Spec

(***************************************************************************)
(* Every reachable state is well typed: a delivery has its event and its   *)
(* webhook, and the model's bound on events never blocks a request that    *)
(* has begun.                                                              *)
(***************************************************************************)
THEOREM TypeCorrect == Spec => []TypeOK
<1>1. FanOutInv => TypeOK BY DEF FanOutInv
<1> QED BY <1>1, FanOutAlways, PTL

(* The only step that adds an event is the transaction of its request.     *)
LEMMA FanOutIsFair ==
    ASSUME FanOutInv, [Next]_vars, NEW c \in Clients
    PROVE  FanOut(c)
<1> SUFFICES ASSUME events' # events, pc[c] = "create", pc'[c] = "reply",
                    NEW e \in events' \ events
             PROVE  LET targets == {w \in Webhooks : <<e.id, w>> \in deliveries'} IN
                    steady[c] \subseteq targets /\ targets \subseteq seen[c]
  BY DEF FanOut
<1> DEFINE n == Cardinality(events)
<1>1. PICK d \in Clients : Create(d)
  BY DEF Next, vars, tables, RequestStep, Lookup, List, Duplicate, WebhookGone, Relookup, Reply,
         Retry, Begins, Fail, Publish, WebhookStep, RegisterWebhook, ModifyWebhook, RemoveWebhook
<1>2. d = c
  BY <1>1 DEF Create, Goes, FanOutInv, TypeOK
<1>3. /\ e.id = n + 1
      /\ deliveries' = deliveries \cup ({n + 1} \X listed[c])
  BY <1>1, <1>2 DEF Create
<1>4. n \in Nat /\ {f.id : f \in events} = 1..n
  BY FS_CardinalityType DEF FanOutInv, EventsAreNumbered
<1>5. \A w : <<n + 1, w>> \notin deliveries
  <2>1. n + 1 \notin {f.id : f \in events} BY <1>4
  <2> HIDE DEF n
  <2> QED BY <2>1 DEF FanOutInv, TypeOK
<1>6. \A w \in Webhooks : <<e.id, w>> \in deliveries' <=> w \in listed[c]
  <2> HIDE DEF n
  <2> QED BY <1>3, <1>5
<1>7. /\ steady[c] \subseteq listed[c] /\ listed[c] \subseteq seen[c]
      /\ listed[c] \subseteq Webhooks
  BY DEF FanOutInv, TypeOK, ListIsFair
<1> QED BY <1>6, <1>7

(***************************************************************************)
(* An event goes to every webhook of its project that was active all the   *)
(* time its request took, and to none that was active at no time in it,    *)
(* though the list is read before the transaction and webhooks change.     *)
(***************************************************************************)
THEOREM FansOutFairly == Spec => FansOutToTheActive
<1>1. FanOutInv /\ [Next]_vars => [\A c \in Clients : FanOut(c)]_vars
  BY FanOutIsFair
<1> QED BY <1>1, FanOutAlways, PTL DEF Spec, FansOutToTheActive

=============================================================================
