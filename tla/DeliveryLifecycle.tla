-------------------------- MODULE DeliveryLifecycle --------------------------
(***************************************************************************)
(* What the pipeline promises about a delivery: the state machine of enum  *)
(* DeliveryStatus (prisma/schema.prisma:209-228), and who may move it.     *)
(* A delivery has at most one sender, only its sender can give it an       *)
(* outcome, and it is taken back only when it has no sender any more.      *)
(* Redis, schedulers and the steps of a worker are not visible.            *)
(***************************************************************************)
EXTENDS Naturals

CONSTANTS
    Deliveries,
    Workers

VARIABLES
    status,     \* as in the table; "ABSENT" before and "DELETED" after the row exists
    attempt,    \* attempts counted
    sender      \* the workers (one at most) that are attempting each delivery

vars == <<status, attempt, sender>>

Init ==
    /\ status = [d \in Deliveries |-> "ABSENT"]
    /\ attempt = [d \in Deliveries |-> 0]
    /\ sender = [d \in Deliveries |-> {}]

(* All of some deliveries move to a status.                                *)
Move(some, newStatus) ==
    status' = [d \in Deliveries |-> IF d \in some THEN newStatus ELSE status[d]]

Count(some) ==
    attempt' = [d \in Deliveries |-> IF d \in some THEN attempt[d] + 1 ELSE attempt[d]]

Create(d) ==
    /\ status[d] = "ABSENT"
    /\ Move({d}, "PENDING")
    /\ UNCHANGED <<attempt, sender>>

Queue(some) ==
    /\ \A d \in some : status[d] \in {"PENDING", "WAITING"}
    /\ Move(some, "QUEUED")
    /\ UNCHANGED <<attempt, sender>>

Unqueue(some) ==
    /\ \A d \in some : status[d] = "QUEUED"
    /\ Move(some, "PENDING")
    /\ UNCHANGED <<attempt, sender>>

Begin(d, w) ==
    /\ status[d] = "QUEUED"
    /\ sender[d] = {}
    /\ Move({d}, "PROCESSING")
    /\ sender' = [sender EXCEPT ![d] = {w}]
    /\ UNCHANGED attempt

Conclude(d, w) ==
    /\ status[d] = "PROCESSING"
    /\ sender[d] = {w}
    /\ \E outcome \in {"DELIVERED", "WAITING", "FAILED"} : Move({d}, outcome)
    /\ Count({d})
    /\ sender' = [sender EXCEPT ![d] = {}]

(* The sender dies, or gives up for an error, without an outcome.          *)
Abandon(d, w) ==
    /\ sender[d] = {w}
    /\ sender' = [sender EXCEPT ![d] = {}]
    /\ UNCHANGED <<status, attempt>>

Reclaim(some) ==
    /\ \A d \in some : status[d] = "PROCESSING" /\ sender[d] = {}
    /\ Move(some, "WAITING")
    /\ Count(some)
    /\ UNCHANGED sender

Replay(d) ==
    /\ status[d] \in {"DELIVERED", "FAILED"}
    /\ Move({d}, "PENDING")
    /\ attempt' = [attempt EXCEPT ![d] = 0]
    /\ UNCHANGED sender

Delete(d) ==
    /\ status[d] # "ABSENT"
    /\ Move({d}, "DELETED")
    /\ attempt' = [attempt EXCEPT ![d] = 0]
    /\ UNCHANGED sender

Next ==
    \/ \E some \in SUBSET Deliveries : Queue(some) \/ Unqueue(some) \/ Reclaim(some)
    \/ \E d \in Deliveries : Create(d) \/ Replay(d) \/ Delete(d)
    \/ \E d \in Deliveries, w \in Workers :
            Begin(d, w) \/ Conclude(d, w) \/ Abandon(d, w)

Spec == Init /\ [][Next]_vars

=============================================================================
