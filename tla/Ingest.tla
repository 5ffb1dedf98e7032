------------------------------- MODULE Ingest -------------------------------
(***************************************************************************)
(* Publication of events: publishEvent (src/services/event.service.ts) in  *)
(* any number of API processes, called by clients that send a publication  *)
(* again with its Idempotency-Key until they are answered, while webhooks  *)
(* are registered, switched on and off and deleted.                        *)
(*                                                                         *)
(* One action per SQL statement or transaction.  Between two of them every *)
(* other request may run, and the process may die.  An event is a record   *)
(* of the columns decisions depend on, with the webhooks its publisher had *)
(* listed; its type and payload are left out.                              *)
(***************************************************************************)
EXTENDS FiniteSets, Integers

CONSTANTS
    Clients,        \* each has at most one request at a time
    Keys,           \* values of the Idempotency-Key header
    NoKey,          \* the header is missing
    Webhooks,       \* webhook ids (uuids: none is used twice)
    Projects,
    Owner,          \* the project of each webhook
    MaxEvents,      \* bound: rows in the table of events
    MaxFailures     \* bound: requests that fail for no reason of their own

ASSUME OwnerAssumption == Owner \in [Webhooks -> Projects]
ASSUME NoKeyAssumption == NoKey \notin Keys
ASSUME BoundsAssumption == MaxEvents \in Nat /\ MaxFailures \in Nat

VARIABLES
    webhooks,       \* table webhooks: the state of each row
    events,         \* table events
    deliveries,     \* table deliveries: pairs of an event id and a webhook
    pc,             \* the next statement of each client's request
    project,        \* the project of each client's API key
    key,            \* its Idempotency-Key
    listed,         \* its webhookIds
    result,         \* id of the event it will answer with, 0 if none yet
    failures,       \* history: how many requests have failed
    steady,         \* history: webhooks active ever since a request began
    seen            \* history: webhooks active at some time since

tables == <<webhooks, events, deliveries>>
request == <<pc, key, listed, result>>
vars == <<tables, project, request, failures, steady, seen>>

Ids == 1..MaxEvents
KeyOrNone == Keys \cup {NoKey}
Event == [id : Ids, project : Projects, key : KeyOrNone, targets : SUBSET Webhooks]

Init ==
    /\ webhooks = [w \in Webhooks |-> "unregistered"]
    /\ events = {}
    /\ deliveries = {}
    /\ pc = [c \in Clients |-> "idle"]
    /\ project \in [Clients -> Projects]
    /\ key = [c \in Clients |-> NoKey]
    /\ listed = [c \in Clients |-> {}]
    /\ result = [c \in Clients |-> 0]
    /\ failures = 0
    /\ steady = [c \in Clients |-> {}]
    /\ seen = [c \in Clients |-> {}]

----------------------------------------------------------------------------
(* Statements.                                                             *)

(* Mutant of FindByKey: not scoped to the project.                         *)
FindByKeyAnywhere(p, k) == {e \in events : e.key = k}

(* findEventByIdempotencyKey.                                              *)
FindByKey(p, k) == {e \in events : e.project = p /\ e.key = k}

(* Mutant of ActiveWebhooks: isActive is not asked for.                    *)
EveryWebhook(p) ==
    {w \in Webhooks : Owner[w] = p /\ webhooks[w] \in {"active", "inactive"}}

(* listActiveWebhookIds.                                                   *)
ActiveWebhooks(p) ==
    {w \in Webhooks : Owner[w] = p /\ webhooks[w] = "active"}

(* Mutants of Conflict: there is no constraint; it ignores the project.    *)
NoConflict(p, k) == FALSE
ConflictAnywhere(p, k) == k # NoKey /\ \E e \in events : e.key = k

(* @@unique([projectId, idempotencyKey]), in which NULLs are distinct.     *)
Conflict(p, k) ==
    k # NoKey /\ \E e \in events : e.project = p /\ e.key = k

(* The foreign key of deliveries.webhookId.                                *)
Referable(set) == \A w \in set : webhooks[w] # "deleted"

----------------------------------------------------------------------------
(* One request.                                                            *)

Goes(c, place) == pc' = [pc EXCEPT ![c] = place]

(* For the history: the active webhooks of a project.                      *)
Live(table, p) == {w \in Webhooks : Owner[w] = p /\ table[w] = "active"}

(* The request is over, answered or not: what it has read is gone.         *)
Ends(c, place) ==
    /\ Goes(c, place)
    /\ listed' = [listed EXCEPT ![c] = {}]
    /\ result' = [result EXCEPT ![c] = 0]
    /\ steady' = [steady EXCEPT ![c] = {}]
    /\ seen' = [seen EXCEPT ![c] = {}]

(* publishEvent begins; without a key there is nothing to look up.         *)
Begins(c, k) ==
    /\ key' = [key EXCEPT ![c] = k]
    /\ Goes(c, IF k = NoKey THEN "list" ELSE "lookup")
    /\ steady' = [steady EXCEPT ![c] = Live(webhooks, project[c])]
    /\ seen' = [seen EXCEPT ![c] = Live(webhooks, project[c])]
    /\ UNCHANGED <<tables, project, listed, result, failures>>

(* MaxEvents leaves a row for every request there is, for this one, and    *)
(* for what failures can make of them without a key.                       *)
RoomForOneMore ==
    Cardinality(events) + Cardinality({c \in Clients : pc[c] # "idle"})
        + MaxFailures - failures < MaxEvents

Publish(c, k) == pc[c] = "idle" /\ RoomForOneMore /\ Begins(c, k)

(* The client did not get its 202 and sends the publication again.         *)
Retry(c) == pc[c] = "failed" /\ Begins(c, key[c])

(* The fast path for a client retrying what has already succeeded.         *)
Lookup(c) ==
    /\ pc[c] = "lookup"
    /\ \/ /\ FindByKey(project[c], key[c]) = {}
          /\ Goes(c, "list")
          /\ UNCHANGED result
       \/ \E e \in FindByKey(project[c], key[c]) :
            /\ Goes(c, "reply")
            /\ result' = [result EXCEPT ![c] = e.id]
    /\ UNCHANGED <<tables, project, key, listed, failures, steady, seen>>

List(c) ==
    /\ pc[c] = "list"
    /\ Goes(c, "create")
    /\ listed' = [listed EXCEPT ![c] = ActiveWebhooks(project[c])]
    /\ UNCHANGED <<tables, project, key, result, failures, steady, seen>>

(* createEventWithDeliveries, which commits: the event with a delivery for *)
(* every webhook listed.                                                   *)
Create(c) ==
    LET id == Cardinality(events) + 1 IN
    /\ pc[c] = "create"
    /\ ~Conflict(project[c], key[c])
    /\ Referable(listed[c])
    /\ events' = events \cup {[id |-> id, project |-> project[c], key |-> key[c],
                               targets |-> listed[c]]}
    /\ deliveries' = deliveries \cup ({id} \X listed[c])
    /\ Goes(c, "reply")
    /\ result' = [result EXCEPT ![c] = id]
    /\ UNCHANGED <<webhooks, project, key, listed, failures, steady, seen>>

(* It violates the unique constraint (P2002) at its first statement: the   *)
(* catch looks the event up that was there first.                          *)
Duplicate(c) ==
    /\ pc[c] = "create"
    /\ Conflict(project[c], key[c])
    /\ Goes(c, "relookup")
    /\ UNCHANGED <<tables, project, key, listed, result, failures, steady, seen>>

(* Mutant of WebhookGone: without a transaction the event stays.           *)
WebhookGoneHalfway(c) ==
    LET id == Cardinality(events) + 1 IN
    /\ pc[c] = "create"
    /\ ~Conflict(project[c], key[c])
    /\ ~Referable(listed[c])
    /\ events' = events \cup {[id |-> id, project |-> project[c], key |-> key[c],
                               targets |-> listed[c]]}
    /\ Ends(c, "failed")
    /\ UNCHANGED <<webhooks, deliveries, project, key, failures>>

(* It violates the foreign key at its second statement: a webhook it had   *)
(* listed is gone.  The event is rolled back and the error thrown.         *)
WebhookGone(c) ==
    /\ pc[c] = "create"
    /\ ~Conflict(project[c], key[c])
    /\ ~Referable(listed[c])
    /\ Ends(c, "failed")
    /\ UNCHANGED <<tables, project, key, failures>>

(* Events are never deleted: what was in the way is still there.           *)
Relookup(c) ==
    /\ pc[c] = "relookup"
    /\ \E e \in FindByKey(project[c], key[c]) : result' = [result EXCEPT ![c] = e.id]
    /\ Goes(c, "reply")
    /\ UNCHANGED <<tables, project, key, listed, failures, steady, seen>>

(* The 202 reaches the client.                                             *)
Reply(c) ==
    /\ pc[c] = "reply"
    /\ key' = [key EXCEPT ![c] = NoKey]
    /\ Ends(c, "idle")
    /\ UNCHANGED <<tables, project, failures>>

(* The process dies, a statement throws, or the answer is lost: whatever   *)
(* has been committed stays, and the client does not know.                 *)
Fail(c) ==
    /\ pc[c] \notin {"idle", "failed"}
    /\ failures < MaxFailures
    /\ failures' = failures + 1
    /\ Ends(c, "failed")
    /\ UNCHANGED <<tables, project, key>>

----------------------------------------------------------------------------
(* Webhooks.                                                               *)

(* Every request that has begun notices, for the history.                  *)
Notice ==
    /\ steady' = [c \in Clients |-> steady[c] \cap Live(webhooks', project[c])]
    /\ seen' = [c \in Clients |-> IF pc[c] \in {"idle", "failed"} THEN {}
                                  ELSE seen[c] \cup Live(webhooks', project[c])]

(* registerWebhook: isActive is true by default.                           *)
RegisterWebhook(w) ==
    /\ webhooks[w] = "unregistered"
    /\ webhooks' = [webhooks EXCEPT ![w] = "active"]
    /\ Notice
    /\ UNCHANGED <<events, deliveries, project, request, failures>>

(* modifyWebhook with isActive; it neither adds nor removes deliveries.    *)
ModifyWebhook(w) ==
    /\ webhooks[w] \in {"active", "inactive"}
    /\ \E state \in {"active", "inactive"} \ {webhooks[w]} :
            webhooks' = [webhooks EXCEPT ![w] = state]
    /\ Notice
    /\ UNCHANGED <<events, deliveries, project, request, failures>>

(* Mutant of RemoveWebhook: without the cascade.                           *)
RemoveWebhookAlone(w) ==
    /\ webhooks[w] \in {"active", "inactive"}
    /\ webhooks' = [webhooks EXCEPT ![w] = "deleted"]
    /\ Notice
    /\ UNCHANGED <<events, deliveries, project, request, failures>>

(* removeWebhook; its deliveries go with it (onDelete: Cascade).           *)
RemoveWebhook(w) ==
    /\ webhooks[w] \in {"active", "inactive"}
    /\ webhooks' = [webhooks EXCEPT ![w] = "deleted"]
    /\ deliveries' = {d \in deliveries : d[2] # w}
    /\ Notice
    /\ UNCHANGED <<events, project, request, failures>>

----------------------------------------------------------------------------

RequestStep(c) ==
    \/ Lookup(c) \/ List(c) \/ Create(c) \/ Duplicate(c) \/ WebhookGone(c)
    \/ Relookup(c) \/ Reply(c) \/ Retry(c)

WebhookStep(w) == RegisterWebhook(w) \/ ModifyWebhook(w) \/ RemoveWebhook(w)

Next ==
    \/ \E c \in Clients : RequestStep(c) \/ Fail(c)
    \/ \E c \in Clients, k \in KeyOrNone : Publish(c, k)
    \/ \E w \in Webhooks : WebhookStep(w)

Spec == Init /\ [][Next]_vars

(* Node runs every request to its end, and a client retries until it has   *)
(* its 202.  Nothing is assumed of those who change webhooks.              *)
FairSpec == Spec /\ \A c \in Clients : WF_vars(RequestStep(c))

----------------------------------------------------------------------------

(* A delivery's event and webhook exist.                                   *)
TypeOK ==
    /\ webhooks \in [Webhooks -> {"unregistered", "active", "inactive", "deleted"}]
    /\ events \subseteq Event
    /\ deliveries \subseteq {e.id : e \in events} \X
                        {w \in Webhooks : webhooks[w] \in {"active", "inactive"}}
    /\ pc \in [Clients -> {"idle", "lookup", "list", "create", "relookup",
                           "reply", "failed"}]
    /\ project \in [Clients -> Projects]
    /\ key \in [Clients -> KeyOrNone]
    /\ listed \in [Clients -> SUBSET Webhooks]
    /\ result \in [Clients -> Ids \cup {0}]
    /\ failures \in 0..MaxFailures
    /\ steady \in [Clients -> SUBSET Webhooks]
    /\ seen \in [Clients -> SUBSET Webhooks]

(***************************************************************************)
(* However many requests carry a key at once, and however often clients    *)
(* retry, a project has one event with that key.                           *)
(***************************************************************************)
OneEventPerKey ==
    \A e, f \in events :
        e.project = f.project /\ e.key = f.key /\ e.key # NoKey => e.id = f.id

(***************************************************************************)
(* A client is told 202 of an event that is stored, in its own project and *)
(* under its own key.  With OneEventPerKey: all who publish with one key   *)
(* are told of the same event, whichever of them created it.               *)
(***************************************************************************)
AnswersAreTrue ==
    \A c \in Clients : pc[c] = "reply" =>
        \E e \in events :
            e.id = result[c] /\ e.project = project[c] /\ e.key = key[c]

(***************************************************************************)
(* An event and its deliveries both exist or neither does: a delivery is   *)
(* missing only when its webhook has been deleted.                         *)
(***************************************************************************)
EventsAreWhole ==
    \A e \in events : \A w \in e.targets :
        webhooks[w] # "deleted" => <<e.id, w>> \in deliveries

(***************************************************************************)
(* An event goes to every webhook of its project that was active all the   *)
(* time its request took, and to none that was active at no time in it.    *)
(***************************************************************************)
FanOut(c) ==
    events' # events /\ pc[c] = "create" /\ pc'[c] = "reply" =>
        \A e \in events' \ events :
            LET targets == {w \in Webhooks : <<e.id, w>> \in deliveries'} IN
            steady[c] \subseteq targets /\ targets \subseteq seen[c]

FansOutToTheActive == [][\A c \in Clients : FanOut(c)]_vars

(***************************************************************************)
(* A client that keeps retrying is told 202 in the end.                    *)
(***************************************************************************)
RetriesAreAnswered == \A c \in Clients : pc[c] # "idle" ~> pc[c] = "idle"

=============================================================================
