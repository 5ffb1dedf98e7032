-------------------------- MODULE ExecutionWindow --------------------------
(***************************************************************************)
(* The bounded execution window of Relay: src/queue/RedisWindowQueue.ts    *)
(* and the Lua scripts of src/queue/scripts.ts.                            *)
(*                                                                         *)
(* Redis runs one command or one script at a time, so every operation of   *)
(* the class is one atomic action here.  The exception is occupancy(),     *)
(* which sends two LLEN commands: its callers model it as two reads.       *)
(*                                                                         *)
(* The operators below constrain only the three Redis keys.  A module that *)
(* composes the window with its clients conjoins them with the client's    *)
(* own variables (WindowClients, Relay).                                   *)
(***************************************************************************)
EXTENDS Integers, Sequences, FiniteSets

CONSTANTS
    Deliveries,     \* the delivery IDs
    Capacity        \* the configured size of the window

ASSUME DeliveriesAssumption == IsFiniteSet(Deliveries)
ASSUME CapacityAssumption == Capacity \in Nat \ {0}

VARIABLES
    ready,          \* LIST relay:window    jobs ready to execute, oldest first
    inFlight,       \* LIST relay:inflight  jobs claimed, outcome not yet known
    dedupe          \* SET  relay:enqueued  guard against queueing an ID twice

windowVars == <<ready, inFlight, dedupe>>

(* The elements of a list. *)
Elements(list) == {list[i] : i \in DOMAIN list}

(* The sublist of list at the positions in keep, in their order.           *)
Rank(i, keep) == Cardinality({j \in keep : j <= i})
Sublist(list, keep) ==
    [k \in 1..Cardinality(keep) |-> list[CHOOSE i \in keep : Rank(i, keep) = k]]

(* Mutant of Lrem: entries are overwritten (LSET) instead of removed.      *)
LremByTombstone(list, ids) ==
    [i \in DOMAIN list |-> IF list[i] \in ids THEN "deleted" ELSE list[i]]

(* LREM with count 0: every occurrence of every one of ids goes.           *)
Lrem(list, ids) == Sublist(list, {i \in DOMAIN list : list[i] \notin ids})

Resident == Elements(ready) \cup Elements(inFlight)

Occupancy == Len(ready) + Len(inFlight)

(* Mutant of RoomBeside: the loop breaks on > instead of >=.               *)
RoomBesidePlusOne(occupied) ==
    IF occupied > Capacity THEN 0 ELSE Capacity + 1 - occupied

(* What is left of the window; never negative, even if Capacity shrank.    *)
RoomBeside(occupied) == IF occupied >= Capacity THEN 0 ELSE Capacity - occupied

WindowInit ==
    /\ ready = <<>>
    /\ inFlight = <<>>
    /\ dedupe = {}

(***************************************************************************)
(* ENQUEUE_LUA.  Each offered ID that the guard set does not hold is       *)
(* pushed, until the window is full; the reply lists exactly those.  ids   *)
(* has no duplicates: it is the result of a SELECT over primary keys.      *)
(***************************************************************************)
AcceptedInto(room, ids) ==
    LET fresh == Sublist(ids, {i \in DOMAIN ids : ids[i] \notin dedupe})
    IN  SubSeq(fresh, 1, IF Len(fresh) <= room THEN Len(fresh) ELSE room)

(* Mutant of Accepted: jobs in flight are not counted as occupying slots.  *)
AcceptedBesideReady(ids) == AcceptedInto(RoomBeside(Len(ready)), ids)

Accepted(ids) == AcceptedInto(RoomBeside(Occupancy), ids)

Enqueue(ids) ==
    /\ ready' = ready \o Accepted(ids)
    /\ dedupe' = dedupe \cup Elements(Accepted(ids))
    /\ UNCHANGED inFlight

(***************************************************************************)
(* claim(): BLMOVE takes from the left of the ready list and appends to    *)
(* the right of the in-flight list, in one step.  It blocks (is disabled)  *)
(* while nothing is ready; its timeout returns null and changes nothing.   *)
(***************************************************************************)
Claim(d) ==
    /\ ready # <<>>
    /\ d = Head(ready)
    /\ ready' = Tail(ready)
    /\ inFlight' = Append(inFlight, d)
    /\ UNCHANGED dedupe

(* Mutant of Complete: the script without its SREM.                        *)
CompleteKeepsGuard(d) ==
    /\ inFlight' = Lrem(inFlight, {d})
    /\ UNCHANGED <<ready, dedupe>>

(* COMPLETE_LUA: the slot and the guard entry go together.                 *)
Complete(d) ==
    /\ inFlight' = Lrem(inFlight, {d})
    /\ dedupe' = dedupe \ {d}
    /\ UNCHANGED ready

(* Mutants of Release: the script without its SREM, and a script that      *)
(* does what the name REQUEUE_LUA says.                                    *)
ReleaseKeepsGuard(ids) ==
    /\ inFlight' = Lrem(inFlight, ids)
    /\ UNCHANGED <<ready, dedupe>>

ReleaseRequeues(ids) ==
    /\ ready' = ready \o Sublist(inFlight, {i \in DOMAIN inFlight : inFlight[i] \in ids})
    /\ inFlight' = Lrem(inFlight, ids)
    /\ UNCHANGED dedupe

(* REQUEUE_LUA, called by release(): the same for a batch of IDs.          *)
Release(ids) ==
    /\ inFlight' = Lrem(inFlight, ids)
    /\ dedupe' = dedupe \ ids
    /\ UNCHANGED ready

(* notInWindow(): SMISMEMBER on the guard set, one command per batch.      *)
NotInWindow(ids) == ids \ dedupe

(* Redis has no volume: a restarted container comes back with empty keys.  *)
RedisRestart ==
    /\ ready' = <<>>
    /\ inFlight' = <<>>
    /\ dedupe' = {}

----------------------------------------------------------------------------

WindowTypeOK ==
    /\ ready \in Seq(Deliveries)
    /\ inFlight \in Seq(Deliveries)
    /\ dedupe \subseteq Deliveries

(***************************************************************************)
(* Relay's central claim: Redis never holds more than Capacity jobs, ready *)
(* and in flight together, whoever calls the window and in whatever order. *)
(***************************************************************************)
WindowBounded == Occupancy <= Capacity

(***************************************************************************)
(* The guard set is exactly the set of IDs resident in the window, and no  *)
(* ID occupies two slots (RedisWindowQueue.ts:131, scripts.ts:83).         *)
(***************************************************************************)
DedupeExact ==
    /\ dedupe = Resident
    /\ Cardinality(Resident) = Occupancy

=============================================================================
