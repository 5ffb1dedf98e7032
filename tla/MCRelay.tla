------------------------------- MODULE MCRelay -------------------------------
(* Relay on small instances.  Workers are interchangeable, and so are       *)
(* deliveries and schedulers; the symmetry is used by the runs that check   *)
(* no liveness.                                                             *)
EXTENDS Relay, TLC

AllWorkerPCs == WorkerPCs
AllSchedulerPCs == SchedulerPCs
Symmetry ==
    Permutations(Deliveries) \cup Permutations(Workers) \cup Permutations(Schedulers)

=============================================================================
