---------------------------- MODULE BoundedPool ----------------------------
(***************************************************************************)
(* What the execution window promises (src/queue/QueueAdapter.ts): "put    *)
(* jobs in, take jobs out", never more than Capacity of them.  A job is a  *)
(* member of one set; lists, guard set and commands are not visible.       *)
(***************************************************************************)
EXTENDS Naturals, FiniteSets

CONSTANTS
    Jobs,
    Capacity

VARIABLE pool       \* the jobs that occupy the window

Init == pool = {}

(* An offer is taken as far as there is room: jobs already in the pool are *)
(* passed over, and a new one is refused only if the pool ends up full.    *)
Admit(offered) ==
    \E taken \in SUBSET (offered \ pool) :
        /\ pool' = pool \cup taken
        /\ Cardinality(pool') <= Capacity
        /\ \/ taken = offered \ pool
           \/ Cardinality(pool') = Capacity

(* Jobs leave once their outcome is decided, or all at once if Redis dies. *)
Free(gone) ==
    /\ gone \subseteq pool
    /\ pool' = pool \ gone

Next == \E some \in SUBSET Jobs : Admit(some) \/ Free(some)

Spec == Init /\ [][Next]_pool

=============================================================================
