--------------------------- MODULE WindowClients ---------------------------
(***************************************************************************)
(* The execution window under arbitrary clients: any number of schedulers  *)
(* that offer batches, workers that claim and complete, reapers that       *)
(* release, and one caller of occupancy(), whose two LLEN commands are two *)
(* steps between which every other client may run.                         *)
(*                                                                         *)
(* Clients do not coordinate.  They complete and release jobs that are in  *)
(* flight; what becomes of a command that comes too late (an overtaken     *)
(* reaper, a command sent twice) is a matter of Relay.                     *)
(***************************************************************************)
EXTENDS ExecutionWindow

VARIABLES
    phase,          \* "idle", "half" (the first LLEN is in), "done"
    firstLen,       \* reply of the first LLEN, relay:window
    secondLen,      \* reply of the second LLEN, relay:inflight
    stayed          \* history: jobs that never left the window since the first LLEN

probeVars == <<phase, firstLen, secondLen>>
vars == <<windowVars, probeVars, stayed>>

Init ==
    /\ WindowInit
    /\ phase = "idle"
    /\ firstLen = 0
    /\ secondLen = 0
    /\ stayed = {}

(* The SELECT lists a set of rows in some order, each of them once.        *)
Orderings(set) ==
    {list \in [1..Cardinality(set) -> set] :
        \A i, j \in DOMAIN list : list[i] = list[j] => i = j}

Offer == \E set \in SUBSET Deliveries : \E ids \in Orderings(set) : Enqueue(ids)
Take == \E d \in Deliveries : Claim(d)
Finish == \E d \in Elements(inFlight) : Complete(d)
Reap == \E ids \in SUBSET Elements(inFlight) : Release(ids)

ClientStep ==
    /\ Offer \/ Take \/ Finish \/ Reap \/ RedisRestart
    /\ stayed' = stayed \cap (Elements(ready') \cup Elements(inFlight'))
    /\ UNCHANGED probeVars

(* Mutant of Llen: the in-flight list is asked for first.                  *)
LlenSwapped(k) == Len(<<inFlight, ready>>[k])

(* The k-th LLEN command of occupancy().                                   *)
Llen(k) == Len(<<ready, inFlight>>[k])

(* Its two replies.                                                        *)
FirstLlen ==
    /\ phase = "idle"
    /\ phase' = "half"
    /\ firstLen' = Llen(1)
    /\ stayed' = Resident
    /\ UNCHANGED <<windowVars, secondLen>>

SecondLlen ==
    /\ phase = "half"
    /\ phase' = "done"
    /\ secondLen' = Llen(2)
    /\ UNCHANGED <<windowVars, firstLen, stayed>>

(* The reply has been used; the next call starts afresh.                   *)
Forget ==
    /\ phase = "done"
    /\ phase' = "idle"
    /\ firstLen' = 0
    /\ secondLen' = 0
    /\ stayed' = {}
    /\ UNCHANGED windowVars

Next == ClientStep \/ FirstLlen \/ SecondLlen \/ Forget

Spec == Init /\ [][Next]_vars

----------------------------------------------------------------------------

TypeOK ==
    /\ WindowTypeOK
    /\ phase \in {"idle", "half", "done"}
    /\ firstLen \in Nat
    /\ secondLen \in Nat
    /\ stayed \subseteq Deliveries

(***************************************************************************)
(* occupancy() is not a snapshot: a job that BLMOVE moves between the two  *)
(* LLENs is counted twice.  But it never under-reports: every job that was *)
(* in the window from the first LLEN to the second is counted, so the room *)
(* the scheduler computes from it (availableCapacity) is never more than   *)
(* what those jobs leave.  It depends on the order of the two commands.    *)
(***************************************************************************)
ReadingCoversResidents ==
    phase = "done" => firstLen + secondLen >= Cardinality(stayed)

(***************************************************************************)
(* The window implements a bounded pool of jobs: offers are admitted as    *)
(* far as there is room and no further, claims are invisible, and only     *)
(* completed or released jobs leave.                                       *)
(***************************************************************************)
Pool == INSTANCE BoundedPool WITH Jobs <- Deliveries, pool <- Resident

ImplementsPool == Pool!Spec

=============================================================================
