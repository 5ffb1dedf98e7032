-------------------------- MODULE RelayWindowProofs --------------------------
(***************************************************************************)
(* Theorems about Relay that relate Redis to the rows: what the guard set  *)
(* holds, who frees a slot, and where a QUEUED or a WAITING row is, for    *)
(* every number of deliveries and workers and every size of the window.    *)
(*                                                                         *)
(*   SlotsReturned      every slot in flight has somebody who will free it *)
(*   FaultsCostOneSlot  a fault costs the window one slot at most          *)
(*   QueuedSeen         no QUEUED row is invisible to everything           *)
(*   GuardExact         the guard set holds exactly what is in the window  *)
(*   WaitingOutside     a WAITING row is not in Redis                      *)
(*                                                                         *)
(* The assumptions differ: each theorem has those without which it is      *)
(* false (README, section 4).                                              *)
(***************************************************************************)
EXTENDS RelayProofs

(***************************************************************************)
(* Slots, whatever fails: any number of schedulers, timers that end early, *)
(* replies that are lost, Redis restarted.  Two deaths lose a slot, the    *)
(* one between a record and complete() and the one between the reaper's    *)
(* update and its release.                                                 *)
(***************************************************************************)
SlotsSurvive ==
    /\ WorkerCrashPoints \subseteq {"idle", "claim", "read", "send"}
    /\ "release" \notin SchedulerAbortPoints

(* A worker that will not let go of its job before the row is PROCESSING   *)
(* or the slot is free.                                                    *)
Attended(d) == \E w \in Workers : job[w] = d /\ wpc[w] \in {"claim", "complete"}

Reaped(d) == \E s \in Schedulers : spc[s] = "release" /\ d \in found[s]

SlotsAttended ==
    \A d \in Elements(inFlight) :
        \/ Attended(d)
        \/ status[d] \in {"PROCESSING", "DELETED"}
        \/ Reaped(d)

(* LREM with count 0: whoever lets go of an ID frees all its slots.        *)
LEMMA InFlightShrinks ==
    ASSUME TypeInv, NEW ids, Release(ids)
    PROVE  Elements(inFlight') = Elements(inFlight) \ ids
  BY LremProperties DEF Release, TypeInv, TypeOK, WindowTypeOK

LEMMA AttendedTake ==
    ASSUME TypeInv, SlotsAttended, NEW w \in Workers, TakeJob(w)
    PROVE  SlotsAttended'
<1>1. PICK d \in Deliveries : Claim(d) /\ job' = [job EXCEPT ![w] = d]
  BY DEF TakeJob
<1>2. /\ wpc[w] = "idle" /\ wpc' = [wpc EXCEPT ![w] = "claim"]
      /\ wpc \in [Workers -> WorkerPCs] /\ job \in [Workers -> Deliveries \cup {NoJob}]
      /\ status' = status /\ spc' = spc /\ found' = found
  BY DEF TakeJob, rowVars, schedulerVars, TypeInv, TypeOK, WorkerTypeOK
<1>3. Elements(inFlight') = Elements(inFlight) \cup {d}
  BY <1>1, ClaimMoves DEF TypeInv, TypeOK
<1>4. Attended(d)' /\ \A e : Attended(e) => Attended(e)'
  BY <1>1, <1>2 DEF Attended
<1> QED BY <1>2, <1>3, <1>4 DEF SlotsAttended, Reaped

(* A worker goes on with its job.  What it leaves undone is PROCESSING.    *)
LEMMA AttendedMoves ==
    ASSUME TypeInv, SlotsAttended, NEW w \in Workers, wpc[w] # "idle",
           NEW pc, WorkerGoes(w, pc), UNCHANGED <<windowVars, schedulerVars>>,
           \A d \in Deliveries \ {job[w]} : status'[d] = status[d],
           \/ pc = "complete"
           \/ status'[job[w]] = "PROCESSING"
           \/ wpc[w] \in {"read", "send"} /\ status' = status
    PROVE  SlotsAttended'
<1>1. /\ wpc' = [wpc EXCEPT ![w] = pc] /\ wpc \in [Workers -> WorkerPCs]
      /\ job' = job /\ spc' = spc /\ found' = found /\ inFlight' = inFlight
      /\ Elements(inFlight) \subseteq Deliveries
  BY ElementsCounted
  DEF WorkerGoes, windowVars, schedulerVars, TypeInv, TypeOK, WorkerTypeOK, WindowTypeOK
<1>2. \A d \in Elements(inFlight) \ {job[w]} : Attended(d) => Attended(d)'
  BY <1>1 DEF Attended
<1>3. CASE pc = "complete"
  <2>1. Attended(job[w])'
    BY <1>1, <1>3 DEF Attended
  <2> QED BY <1>1, <1>2, <2>1 DEF SlotsAttended, Reaped
<1>4. CASE status'[job[w]] = "PROCESSING"
  BY <1>1, <1>2, <1>4 DEF SlotsAttended, Reaped
<1>5. CASE wpc[w] \in {"read", "send"} /\ status' = status
  <2>1. Attended(job[w]) => Attended(job[w])'
    BY <1>1, <1>5 DEF Attended
  <2> QED BY <1>1, <1>2, <1>5, <2>1 DEF SlotsAttended, Reaped
<1> QED BY <1>3, <1>4, <1>5

(* A worker that lets go of its job frees the slot, or was reading or      *)
(* sending, when it is not the worker's any more.                          *)
LEMMA AttendedLeaves ==
    ASSUME TypeInv, SlotsAttended, NEW w \in Workers, wpc[w] # "idle",
           WorkerIdles(w), UNCHANGED <<rowVars, schedulerVars>>,
           \/ Complete(job[w])
           \/ UNCHANGED windowVars /\ wpc[w] \in {"read", "send"}
    PROVE  SlotsAttended'
<1>1. /\ wpc' = [wpc EXCEPT ![w] = "idle"] /\ job' = [job EXCEPT ![w] = NoJob]
      /\ wpc \in [Workers -> WorkerPCs] /\ job \in [Workers -> Deliveries \cup {NoJob}]
      /\ status' = status /\ spc' = spc /\ found' = found
  BY DEF WorkerIdles, rowVars, schedulerVars, TypeInv, TypeOK, WorkerTypeOK
<1>2. \A d : Attended(d) => Attended(d)' \/ (d = job[w] /\ wpc[w] \notin {"read", "send"})
  BY <1>1 DEF Attended
<1>3. CASE Complete(job[w])
  <2>1. Release({job[w]})
    BY <1>3 DEF Complete, Release
  <2> QED BY <1>1, <1>2, <2>1, InFlightShrinks DEF SlotsAttended, Reaped
<1>4. CASE UNCHANGED windowVars /\ wpc[w] \in {"read", "send"}
  BY <1>1, <1>2, <1>4 DEF SlotsAttended, Reaped, windowVars
<1> QED BY <1>3, <1>4

LEMMA AttendedWorker ==
    ASSUME TypeInv, SlotsAttended, SlotsSurvive, "claim" \notin WorkerCrashPoints,
           NEW w \in Workers,
           \/ WorkerStep(w)
           \/ QueryFails(w)
           \/ CompleteReplyLost(w)
           \/ WorkerCrash(w)
    PROVE  SlotsAttended'
<1> USE DEF rowVars
<1>1. wpc[w] # "idle" => job[w] \in Deliveries
  BY DEF TypeInv, TypeOK, WorkerTypeOK
<1>2. CASE TakeJob(w)
  BY <1>2, AttendedTake
<1>3. CASE ClaimRow(w)
  <2>1. /\ \A d \in Deliveries \ {job[w]} : status'[d] = status[d]
        /\ status'[job[w]] = "PROCESSING"
    BY <1>1, <1>3 DEF ClaimRow, Put
  <2> QED BY <1>3, <2>1, AttendedMoves DEF ClaimRow
<1>4. CASE SkipRow(w)
  BY <1>4, AttendedMoves DEF SkipRow
<1>5. CASE ReadRow(w)
  <2>1. \E pc : WorkerGoes(w, pc)
    BY <1>5 DEF ReadRow
  <2> QED BY <1>5, <2>1, AttendedMoves DEF ReadRow
<1>6. CASE RecordSuccess(w) \/ RecordRetry(w) \/ RecordFailed(w)
  <2>1. /\ wpc[w] = "send" /\ WorkerGoes(w, "complete")
        /\ UNCHANGED <<windowVars, schedulerVars>>
        /\ \A d \in Deliveries \ {job[w]} : status'[d] = status[d]
    BY <1>6 DEF RecordSuccess, RecordRetry, RecordFailed, RecordRow, Put
  <2> QED BY <2>1, AttendedMoves
<1>7. CASE RecordGone(w)
  BY <1>7, AttendedMoves DEF RecordGone
<1>8. CASE CompleteJob(w)
  BY <1>8, AttendedLeaves DEF CompleteJob
<1>9. CASE QueryFails(w)
  BY <1>9, AttendedMoves DEF QueryFails
<1>10. CASE CompleteReplyLost(w)
  <2>1. Release({job[w]}) /\ UNCHANGED <<rowVars, workerVars, schedulerVars>>
    BY <1>10 DEF CompleteReplyLost, ReplyLost, Complete, Release
  <2> QED
    BY <2>1, InFlightShrinks
    DEF SlotsAttended, Attended, Reaped, workerVars, schedulerVars
<1>11. CASE WorkerCrash(w)
  BY <1>11, AttendedLeaves DEF WorkerCrash, SlotsSurvive
<1> QED
  BY <1>2, <1>3, <1>4, <1>5, <1>6, <1>7, <1>8, <1>9, <1>10, <1>11 DEF WorkerStep

(* A step of a tick: it takes no row out of PROCESSING but on the way to   *)
(* the release, and only a release forgets what was found.                 *)
LEMMA AttendedTick ==
    ASSUME TypeInv, SlotsAttended, NEW s \in Schedulers, spc[s] # "release",
           NEW pc, SchedulerGoes(s, pc), workerVars' = workerVars, inFlight' = inFlight,
           \A t \in Schedulers \ {s} : found'[t] = found[t],
           \A d \in Deliveries : status[d] \in {"PROCESSING", "DELETED"} =>
                status'[d] = status[d] \/ (pc = "release" /\ d \in found'[s])
    PROVE  SlotsAttended'
<1>1. /\ spc'[s] = pc /\ \A t \in Schedulers \ {s} : spc'[t] = spc[t]
      /\ Elements(inFlight) \subseteq Deliveries
  BY ElementsCounted
  DEF SchedulerGoes, TypeInv, TypeOK, SchedulerTypeOK, WindowTypeOK
<1>2. \A d : (Attended(d) => Attended(d)') /\ (Reaped(d) => Reaped(d)')
  BY <1>1 DEF Attended, Reaped, workerVars
<1> QED BY <1>1, <1>2 DEF SlotsAttended, Reaped

LEMMA AttendedScheduler ==
    ASSUME TypeInv, SlotsAttended, SlotsSurvive, NEW s \in Schedulers,
           \/ SchedulerStep(s)
           \/ OfferFails(s)
           \/ OfferReplyLost(s)
           \/ ReleaseReplyLost(s)
           \/ SchedulerAbort(s)
    PROVE  SlotsAttended'
<1> USE DEF rowVars, windowVars
<1>1. /\ found \in [Schedulers -> SUBSET Deliveries] /\ spc \in [Schedulers -> SchedulerPCs]
      /\ batch[s] \in Seq(Deliveries)
  BY DEF TypeInv, TypeOK, SchedulerTypeOK
<1>2. ASSUME spc[s] # "release", \E pc : SchedulerGoes(s, pc),
             workerVars' = workerVars, inFlight' = inFlight,
             found' = found \/ \E ids : found' = [found EXCEPT ![s] = ids],
             status' = status \/ ResetToPending(found[s])
      PROVE  SlotsAttended'
  <2>1. \A d \in Deliveries :
            status[d] \in {"PROCESSING", "DELETED"} => status'[d] = status[d]
    BY <1>2 DEF ResetToPending, Put, Having
  <2>2. \A t \in Schedulers \ {s} : found'[t] = found[t]
    BY <1>1, <1>2
  <2> QED BY <1>2, <2>1, <2>2, AttendedTick
<1>3. CASE ReapFind(s) \/ SweepFind(s) \/ CheckWindow(s)
  BY <1>2, <1>3 DEF ReapFind, SweepFind, CheckWindow, SchedulerFinds
<1>4. CASE ReapUpdate(s)
  <2>1. /\ spc[s] = "reapUpdate" /\ SchedulerGoes(s, "release") /\ found' = found
        /\ workerVars' = workerVars /\ inFlight' = inFlight
    BY <1>4 DEF ReapUpdate
  <2>2. \A d \in Deliveries : status'[d] = status[d] \/ d \in found'[s]
    BY <1>4 DEF ReapUpdate, Put
  <2> QED BY <2>1, <2>2, AttendedTick
<1>5. CASE ReleaseSlots(s)
  <2>1. /\ Release(found[s]) /\ status' = status /\ workerVars' = workerVars
        /\ spc' = [spc EXCEPT ![s] = "sweepFind"] /\ found' = [found EXCEPT ![s] = {}]
    BY <1>5 DEF ReleaseSlots, SchedulerFinds, SchedulerGoes
  <2>2. Elements(inFlight') = Elements(inFlight) \ found[s]
    BY <2>1, InFlightShrinks
  <2>3. \A d : (Attended(d) => Attended(d)') /\ (Reaped(d) => Reaped(d)' \/ d \in found[s])
    BY <1>1, <2>1 DEF Attended, Reaped, workerVars
  <2> QED BY <2>1, <2>2, <2>3 DEF SlotsAttended
<1>6. CASE ResetOrphans(s)
  BY <1>2, <1>6 DEF ResetOrphans, SchedulerFinds
<1>7. CASE MeasureReady(s)
  BY <1>2, <1>7 DEF MeasureReady
<1>8. CASE MeasureInFlight(s)
  BY <1>2, <1>8 DEF MeasureInFlight, Refill
<1>9. CASE ClaimBatch(s)
  <2>1. PICK ids \in Selections(Lesser(room[s], BatchSize)) :
            status' = Put(status, Elements(ids), "QUEUED")
    BY <1>9 DEF ClaimBatch
  <2>2. Lesser(room[s], BatchSize) \in Nat
    BY SizesAssumption, LesserProperties DEF TypeInv, TypeOK, SchedulerTypeOK
  <2>3. \A d \in Elements(ids) : status[d] \in {"PENDING", "WAITING"}
    BY <2>2, SelectionProperties DEF Eligible, Having
  <2>4. \A d \in Deliveries :
            status[d] \in {"PROCESSING", "DELETED"} => status'[d] = status[d]
    BY <2>1, <2>3 DEF Put
  <2>5. /\ spc[s] = "claimBatch" /\ SchedulerGoes(s, "publish") /\ found' = found
        /\ workerVars' = workerVars /\ inFlight' = inFlight
    BY <1>9 DEF ClaimBatch
  <2> QED BY <2>4, <2>5, AttendedTick
<1>10. CASE NothingEligible(s)
  BY <1>2, <1>10 DEF NothingEligible, SchedulerSleeps
<1>11. CASE Publish(s)
  <2>1. /\ spc[s] = "publish" /\ workerVars' = workerVars /\ status' = status
        /\ inFlight' = inFlight
    BY <1>11 DEF Publish, Enqueue
  <2>2. /\ \E pc : SchedulerGoes(s, pc)
        /\ \E ids : found' = [found EXCEPT ![s] = ids]
    BY <1>11 DEF Publish, Refill
  <2> QED BY <1>2, <2>1, <2>2
<1>12. CASE ResetRejected(s)
  BY <1>2, <1>12 DEF ResetRejected, Refill
<1>13. CASE OfferFails(s)
  BY <1>2, <1>13 DEF OfferFails
<1>14. CASE OfferReplyLost(s)
  BY <1>14
  DEF OfferReplyLost, ReplyLost, Enqueue, SlotsAttended, Attended, Reaped, workerVars,
      schedulerVars
<1>15. CASE ReleaseReplyLost(s)
  <2>1. Release(found[s]) /\ UNCHANGED <<rowVars, workerVars, schedulerVars>>
    BY <1>15 DEF ReleaseReplyLost, ReplyLost
  <2> QED
    BY <2>1, InFlightShrinks
    DEF SlotsAttended, Attended, Reaped, workerVars, schedulerVars
<1>16. CASE SchedulerAbort(s)
  BY <1>2, <1>16 DEF SchedulerAbort, SchedulerSleeps, SlotsSurvive
<1> QED
  BY <1>3, <1>4, <1>5, <1>6, <1>7, <1>8, <1>9, <1>10, <1>11, <1>12, <1>13, <1>14, <1>15, <1>16
  DEF SchedulerStep

LEMMA AttendedStep ==
    ASSUME SlotsSurvive, "claim" \notin WorkerCrashPoints
    PROVE  TypeInv /\ SlotsAttended /\ [Next]_vars => SlotsAttended'
<1> SUFFICES ASSUME TypeInv, SlotsAttended, [Next]_vars PROVE SlotsAttended'
  OBVIOUS
<1>0. Elements(inFlight) \subseteq Deliveries
  BY ElementsCounted DEF TypeInv, TypeOK, WindowTypeOK
<1>1. ASSUME UNCHANGED <<inFlight, workerVars, schedulerVars>>,
             \A d \in Deliveries : status[d] \in {"PROCESSING", "DELETED"} =>
                status'[d] \in {"PROCESSING", "DELETED"}
      PROVE  SlotsAttended'
  BY <1>0, <1>1 DEF SlotsAttended, Attended, Reaped, workerVars, schedulerVars
<1>2. ASSUME NEW d \in Deliveries, ApiCall(d) \/ TimePasses(d)
      PROVE  SlotsAttended'
  <2>1. CASE CreateDelivery(d) \/ Replay(d) \/ DeleteDelivery(d)
    BY <1>1, <2>1 DEF CreateDelivery, Replay, DeleteDelivery, Put, windowVars
  <2>2. CASE TimePasses(d)
    BY <1>1, <2>2 DEF TimePasses, RetryFallsDue, LeaseExpires, GraceElapses, windowVars
  <2> QED BY <1>2, <2>1, <2>2 DEF ApiCall
<1>3. CASE RedisFlushed
  BY <1>3 DEF RedisFlushed, RedisRestart, SlotsAttended, Elements
<1>4. CASE UNCHANGED vars
  BY <1>1, <1>4 DEF vars, windowVars, rowVars
<1> QED BY <1>2, <1>3, <1>4, AttendedWorker, AttendedScheduler DEF Next

LEMMA AttendedAlways ==
    ASSUME SlotsSurvive, "claim" \notin WorkerCrashPoints
    PROVE  Spec => [](TypeInv /\ SlotsAttended)
<1>1. Init => SlotsAttended
  BY DEF Init, WindowInit, SlotsAttended, Elements
<1>2. TypeInv /\ SlotsAttended /\ [Next]_vars => SlotsAttended'
  BY AttendedStep
<1> QED BY <1>1, <1>2, TypeInitially, TypeStep, PTL DEF Spec

(* Only the API deletes rows.                                              *)
LEMMA DeletedByApi ==
    ASSUME [Next]_vars, NEW d \in Deliveries, status'[d] = "DELETED"
    PROVE  status[d] = "DELETED" \/ d \in Deletable
<1>1. ASSUME NEW w \in Workers, WorkerStep(w)
      PROVE  status'[d] = status[d]
  BY <1>1 DEF WorkerStep, TakeJob, ClaimRow, SkipRow, ReadRow, RecordRow, RecordSuccess,
     RecordRetry, RecordFailed, RecordGone, CompleteJob, Put, rowVars
<1>2. ASSUME NEW s \in Schedulers, SchedulerStep(s)
      PROVE  status'[d] = status[d]
  BY <1>2 DEF SchedulerStep, ReapFind, ReapUpdate, ReleaseSlots, SweepFind, CheckWindow,
     ResetOrphans, MeasureReady, MeasureInFlight, ClaimBatch, NothingEligible, Publish,
     ResetRejected, ResetToPending, Put, rowVars
<1>3. ASSUME NEW w \in Workers, QueryFails(w) \/ CompleteReplyLost(w) \/ WorkerCrash(w)
      PROVE  status'[d] = status[d]
  BY <1>3 DEF QueryFails, CompleteReplyLost, WorkerCrash, ReplyLost, rowVars
<1>4. ASSUME NEW s \in Schedulers,
             \/ OfferFails(s)
             \/ OfferReplyLost(s)
             \/ ReleaseReplyLost(s)
             \/ SchedulerAbort(s)
      PROVE  status'[d] = status[d]
  BY <1>4
  DEF OfferFails, OfferReplyLost, ReleaseReplyLost, SchedulerAbort, ReplyLost, rowVars
<1>5. ASSUME NEW e \in Deliveries, ApiCall(e) \/ TimePasses(e)
      PROVE  status'[d] = status[d] \/ d \in Deletable
  BY <1>5 DEF ApiCall, CreateDelivery, Replay, DeleteDelivery, TimePasses, RetryFallsDue,
     LeaseExpires, GraceElapses, Put
<1>6. CASE UNCHANGED vars \/ RedisFlushed
  BY <1>6 DEF vars, RedisFlushed, rowVars
<1> QED BY <1>1, <1>2, <1>3, <1>4, <1>5, <1>6 DEF Next

(***************************************************************************)
(* Every slot of the in-flight list has somebody who will free it: its     *)
(* worker, the reaper that will find its PROCESSING row, or the reaper     *)
(* that has found it and is about to release it.  Neither late workers nor *)
(* several reapers nor commands sent twice leak a slot; a death between    *)
(* two of the steps that belong together does, and so does a deletion.     *)
(***************************************************************************)
THEOREM SlotsReturned ==
    ASSUME SlotsSurvive, "claim" \notin WorkerCrashPoints, Deletable = {}
    PROVE  Spec => []SlotsComeBack
<1> DEFINE NoneDeleted == \A d \in Deliveries : status[d] # "DELETED"
<1>1. Init => NoneDeleted
  BY DEF Init
<1>2. TypeInv /\ NoneDeleted /\ [Next]_vars => NoneDeleted'
  BY DeletedByApi
<1>3. TypeInv /\ SlotsAttended /\ NoneDeleted => SlotsComeBack
  <2> SUFFICES ASSUME TypeInv, SlotsAttended, NoneDeleted PROVE SlotsComeBack
    OBVIOUS
  <2>1. Elements(inFlight) \subseteq Deliveries
    BY ElementsCounted DEF TypeInv, TypeOK, WindowTypeOK
  <2> QED BY <2>1 DEF SlotsAttended, Attended, Reaped, SlotsComeBack
<1> HIDE DEF NoneDeleted
<1> QED BY <1>1, <1>2, <1>3, AttendedAlways, PTL DEF Spec

----------------------------------------------------------------------------
(* What a fault costs.  Whose a slot is, is told by InHand alone.          *)

LEMMA UnheldFinite ==
    ASSUME TypeInv
    PROVE  Unheld \subseteq Deliveries /\ IsFiniteSet(Unheld)
<1>1. Unheld \subseteq Deliveries
  BY ElementsCounted DEF Unheld, TypeInv, TypeOK, WindowTypeOK
<1> QED BY <1>1, DeliveriesAssumption, FS_Subset

(* A step, a fault or not, that takes no slot from its worker.             *)
LEMMA NoSlotLost ==
    ASSUME TypeInv, OneSlotPerFault, faults' = faults \/ Fault, Unheld' \subseteq Unheld
    PROVE  OneSlotPerFault'
<1>1. Cardinality(Unheld') <= Cardinality(Unheld) /\ Cardinality(Unheld') \in Nat
  BY UnheldFinite, FS_Subset, FS_CardinalityType
<1>2. Cardinality(Unheld) \in Nat BY UnheldFinite, FS_CardinalityType
<1>3. faults \in Nat BY DEF TypeInv, TypeOK, HistoryTypeOK
<1>4. faults' \in Nat /\ faults <= faults'
  BY <1>3 DEF Fault
<1> QED BY <1>1, <1>2, <1>3, <1>4 DEF OneSlotPerFault

(* The workers keep their jobs, and the list its slots or some of them.    *)
LEMMA JobsKept ==
    ASSUME TypeInv, OneSlotPerFault, faults' = faults \/ Fault, job' = job,
           inFlight' = inFlight \/ \E ids : Release(ids)
    PROVE  OneSlotPerFault'
<1>1. Elements(inFlight') \subseteq Elements(inFlight)
  BY InFlightShrinks
<1>2. Unheld' \subseteq Unheld
  BY <1>1 DEF Unheld, InHand
<1> QED BY <1>2, NoSlotLost

LEMMA SlotsOfWorkers ==
    ASSUME TypeInv, OneSlotPerFault, NEW w \in Workers,
           WorkerStep(w) \/ QueryFails(w) \/ CompleteReplyLost(w) \/ WorkerCrash(w)
    PROVE  OneSlotPerFault'
<1>0. /\ job \in [Workers -> Deliveries \cup {NoJob}]
      /\ wpc[w] = "idle" => job[w] = NoJob
      /\ Elements(inFlight) \subseteq Deliveries
  BY ElementsCounted DEF TypeInv, TypeOK, WorkerTypeOK, WindowTypeOK
<1>1. CASE TakeJob(w)
  <2>1. PICK d \in Deliveries : Claim(d) /\ job' = [job EXCEPT ![w] = d]
    BY <1>1 DEF TakeJob
  <2>2. Elements(inFlight') = Elements(inFlight) \cup {d}
    BY <2>1, ClaimMoves DEF TypeInv, TypeOK
  <2>3. job'[w] = d /\ \A v \in Workers \ {w} : job'[v] = job[v]
    BY <1>0, <2>1
  <2>4. job[w] = NoJob /\ faults' = faults
    BY <1>0, <1>1 DEF TakeJob, historyVars
  <2>5. Unheld' \subseteq Unheld
    BY <1>0, <2>2, <2>3, <2>4, NoJobAssumption DEF Unheld, InHand
  <2> QED BY <2>4, <2>5, NoSlotLost
<1>2. CASE \/ ClaimRow(w) \/ SkipRow(w) \/ ReadRow(w) \/ RecordSuccess(w)
           \/ RecordRetry(w) \/ RecordFailed(w) \/ RecordGone(w) \/ QueryFails(w)
  <2>1. job' = job /\ inFlight' = inFlight /\ (faults' = faults \/ Fault)
    BY <1>2
    DEF ClaimRow, SkipRow, ReadRow, RecordSuccess, RecordRetry, RecordFailed, RecordRow,
        RecordGone, QueryFails, WorkerGoes, windowVars, historyVars
  <2> QED BY <2>1, JobsKept
<1>3. CASE CompleteJob(w)
  <2>1. Release({job[w]}) /\ job' = [job EXCEPT ![w] = NoJob] /\ faults' = faults
    BY <1>3 DEF CompleteJob, Complete, Release, WorkerIdles, historyVars
  <2>2. Elements(inFlight') = Elements(inFlight) \ {job[w]}
    BY <2>1, InFlightShrinks
  <2>3. \A v \in Workers \ {w} : job'[v] = job[v]
    BY <1>0, <2>1
  <2>4. Unheld' \subseteq Unheld
    BY <2>2, <2>3 DEF Unheld, InHand
  <2> QED BY <2>1, <2>4, NoSlotLost
<1>4. CASE CompleteReplyLost(w)
  <2>1. Release({job[w]}) /\ job' = job /\ Fault
    BY <1>4 DEF CompleteReplyLost, ReplyLost, Complete, Release, workerVars
  <2> QED BY <2>1, JobsKept
<1>5. CASE WorkerCrash(w)
  <2>1. /\ Fault /\ inFlight' = inFlight
        /\ job' = [job EXCEPT ![w] = NoJob]
    BY <1>5 DEF WorkerCrash, WorkerIdles, windowVars
  <2>2. \A v \in Workers \ {w} : job'[v] = job[v]
    BY <1>0, <2>1
  <2>3. Unheld' \subseteq Unheld \cup {job[w]}
    BY <2>1, <2>2 DEF Unheld, InHand
  <2>4. /\ IsFiniteSet(Unheld \cup {job[w]})
        /\ Cardinality(Unheld \cup {job[w]}) \in {Cardinality(Unheld), Cardinality(Unheld) + 1}
    BY UnheldFinite, FS_AddElement
  <2>5. /\ Cardinality(Unheld') <= Cardinality(Unheld \cup {job[w]})
        /\ Cardinality(Unheld') \in Nat
    BY <2>3, <2>4, FS_Subset, FS_CardinalityType
  <2>6. Cardinality(Unheld) \in Nat BY UnheldFinite, FS_CardinalityType
  <2>7. faults \in Nat BY DEF TypeInv, TypeOK, HistoryTypeOK
  <2> QED BY <2>1, <2>4, <2>5, <2>6, <2>7 DEF OneSlotPerFault, Fault
<1> QED BY <1>1, <1>2, <1>3, <1>4, <1>5 DEF WorkerStep

LEMMA SlotsOfTicks ==
    ASSUME TypeInv, OneSlotPerFault, NEW s \in Schedulers,
           \/ SchedulerStep(s)
           \/ OfferFails(s)
           \/ OfferReplyLost(s)
           \/ ReleaseReplyLost(s)
           \/ SchedulerAbort(s)
    PROVE  OneSlotPerFault'
<1>1. job' = job /\ (faults' = faults \/ Fault)
  BY DEF SchedulerStep, ReapFind, ReapUpdate, ReleaseSlots, SweepFind, CheckWindow,
         ResetOrphans, MeasureReady, MeasureInFlight, ClaimBatch, NothingEligible, Publish,
         ResetRejected, OfferFails, OfferReplyLost, ReleaseReplyLost, ReplyLost,
         SchedulerAbort, workerVars, historyVars
<1>2. inFlight' = inFlight \/ \E ids : Release(ids)
  BY DEF SchedulerStep, ReapFind, ReapUpdate, ReleaseSlots, SweepFind, CheckWindow,
         ResetOrphans, MeasureReady, MeasureInFlight, ClaimBatch, NothingEligible, Publish,
         ResetRejected, OfferFails, OfferReplyLost, ReleaseReplyLost, SchedulerAbort,
         Enqueue, windowVars
<1> QED BY <1>1, <1>2, JobsKept

LEMMA SlotsPerFaultStep == TypeInv /\ OneSlotPerFault /\ [Next]_vars => OneSlotPerFault'
<1> SUFFICES ASSUME TypeInv, OneSlotPerFault, [Next]_vars PROVE OneSlotPerFault'
  OBVIOUS
<1>1. ASSUME NEW d \in Deliveries, ApiCall(d) \/ TimePasses(d)
      PROVE  OneSlotPerFault'
  <2>1. job' = job /\ inFlight' = inFlight /\ (faults' = faults \/ Fault)
    BY <1>1
    DEF ApiCall, CreateDelivery, Replay, DeleteDelivery, TimePasses, RetryFallsDue,
        LeaseExpires, GraceElapses, OutlastsWorkers, windowVars, workerVars, historyVars
  <2> QED BY <2>1, JobsKept
<1>2. CASE RedisFlushed
  <2>1. Unheld' = {} /\ Fault
    BY <1>2 DEF RedisFlushed, RedisRestart, Unheld, Elements
  <2> QED BY <2>1, NoSlotLost
<1>3. CASE UNCHANGED vars
  BY <1>3, JobsKept DEF vars, windowVars, workerVars, historyVars
<1> QED BY <1>1, <1>2, <1>3, SlotsOfWorkers, SlotsOfTicks DEF Next

(***************************************************************************)
(* For any number of schedulers and whatever fails: the deliveries in      *)
(* flight that no worker has are no more than there have been faults.  So  *)
(* what SlotsComeBack loses with a death is bounded, and neither an error, *)
(* a reaper, a command sent twice nor a deletion adds to it.               *)
(***************************************************************************)
THEOREM FaultsCostOneSlot == Spec => []OneSlotPerFault
<1>1. Init => OneSlotPerFault
  <2> SUFFICES ASSUME Init PROVE OneSlotPerFault
    OBVIOUS
  <2>1. Unheld = {} /\ faults = 0
    BY DEF Init, WindowInit, Unheld, Elements
  <2> QED BY <2>1, FS_EmptySet DEF OneSlotPerFault
<1> QED BY <1>1, SlotsPerFaultStep, TypeInitially, TypeStep, PTL DEF Spec

----------------------------------------------------------------------------
(* Whatever the guard set holds is in the window, if perhaps twice: an ID  *)
(* leaves both lists only together with its entry.                         *)
GuardHasPlace == dedupe \subseteq Resident

LEMMA GuardStep ==
    ASSUME TypeInv, GuardHasPlace, [Next]_vars
    PROVE  GuardHasPlace'
<1> USE DEF GuardHasPlace, Resident
<1>1. WindowTypeOK /\ ready \in Seq(Deliveries) /\ inFlight \in Seq(Deliveries)
  BY DEF TypeInv, TypeOK, WindowTypeOK
<1>2. CASE UNCHANGED windowVars
  BY <1>2 DEF windowVars
<1>3. ASSUME NEW d \in Deliveries, Claim(d)
      PROVE  GuardHasPlace'
  BY <1>1, <1>3, ClaimMoves DEF Claim
<1>4. ASSUME NEW ids, Release(ids)
      PROVE  GuardHasPlace'
  <2>1. Elements(inFlight') = Elements(inFlight) \ ids
    BY <1>4, InFlightShrinks
  <2> QED BY <1>4, <2>1 DEF Release
<1>5. ASSUME NEW s \in Schedulers, Enqueue(batch[s])
      PROVE  GuardHasPlace'
  <2> DEFINE accepted == Accepted(batch[s])
  <2>1. batch[s] \in Seq(Deliveries)
    BY DEF TypeInv, TypeOK, SchedulerTypeOK
  <2>2. accepted \in Seq(Deliveries)
    BY <1>1, <2>1, AcceptedProperties
  <2>3. /\ ready' = ready \o accepted /\ inFlight' = inFlight
        /\ dedupe' = dedupe \cup Elements(accepted)
    BY <1>5 DEF Enqueue
  <2> HIDE DEF accepted
  <2>4. Elements(ready') = Elements(ready) \cup Elements(accepted)
    BY <1>1, <2>2, <2>3, ConcatDistinct
  <2> QED BY <2>3, <2>4
<1>6. ASSUME NEW w \in Workers, Complete(job[w])
      PROVE  GuardHasPlace'
  <2>1. Release({job[w]})
    BY <1>6 DEF Complete, Release
  <2> QED BY <1>4, <2>1
<1>7. CASE RedisRestart
  BY <1>7 DEF RedisRestart
<1> QED BY <1>2, <1>3, <1>4, <1>5, <1>6, <1>7, OneCommand

(* From the reaper's query to its release none of the rows is claimed for  *)
(* the window: it is this scheduler that would do it.                      *)
FoundNotQueued ==
    \A s \in Schedulers : spc[s] \in {"reapUpdate", "release"} =>
        \A d \in found[s] : status[d] # "QUEUED"

LEMMA FoundStep ==
    ASSUME OneScheduler
    PROVE  TypeInv /\ FoundNotQueued /\ [Next]_vars => FoundNotQueued'
<1> SUFFICES ASSUME TypeInv, FoundNotQueued, [Next]_vars PROVE FoundNotQueued'
  OBVIOUS
<1>1. /\ spc \in [Schedulers -> SchedulerPCs] /\ found \in [Schedulers -> SUBSET Deliveries]
      /\ \A w \in Workers : wpc[w] # "idle" => job[w] \in Deliveries
  BY DEF TypeInv, TypeOK, SchedulerTypeOK, WorkerTypeOK
<1>2. ASSUME UNCHANGED <<spc, found>>,
             \A d \in Deliveries : status'[d] = "QUEUED" => status[d] = "QUEUED"
      PROVE  FoundNotQueued'
  BY <1>1, <1>2 DEF FoundNotQueued
<1>3. ASSUME NEW s \in Schedulers, NEW pc, pc \notin {"reapUpdate", "release"},
             SchedulerGoes(s, pc)
      PROVE  FoundNotQueued'
  BY <1>1, <1>3 DEF FoundNotQueued, SchedulerGoes, OneScheduler
<1>4. ASSUME NEW w \in Workers,
             \/ WorkerStep(w)
             \/ QueryFails(w)
             \/ CompleteReplyLost(w)
             \/ WorkerCrash(w)
      PROVE  FoundNotQueued'
  BY <1>2, <1>4
  DEF WorkerStep, TakeJob, ClaimRow, SkipRow, ReadRow, RecordRow, RecordSuccess,
      RecordRetry, RecordFailed, RecordGone, CompleteJob, QueryFails, CompleteReplyLost,
      ReplyLost, WorkerCrash, Put, rowVars, schedulerVars
<1>5. ASSUME NEW s \in Schedulers, SchedulerStep(s)
      PROVE  FoundNotQueued'
  <2>1. CASE ReapFind(s)
    <3>1. /\ found'[s] \subseteq Having({"PROCESSING"}) /\ status' = status
          /\ \A t \in Schedulers : t = s
      BY <1>1, <2>1 DEF ReapFind, SchedulerFinds, rowVars, OneScheduler
    <3> QED BY <3>1 DEF FoundNotQueued, Having
  <2>2. CASE ReapUpdate(s)
    <3>1. /\ spc[s] = "reapUpdate" /\ found' = found
          /\ \A d \in Deliveries : status'[d] = "QUEUED" => status[d] = "QUEUED"
          /\ \A t \in Schedulers : t = s
      BY <2>2 DEF ReapUpdate, Put, OneScheduler
    <3> QED BY <1>1, <3>1 DEF FoundNotQueued
  <2>3. CASE ~ReapFind(s) /\ ~ReapUpdate(s)
    <3>1. \E pc : pc \notin {"reapUpdate", "release"} /\ SchedulerGoes(s, pc)
      BY <1>5, <2>3
      DEF SchedulerStep, ReleaseSlots, SweepFind, CheckWindow, ResetOrphans, MeasureReady,
          MeasureInFlight, ClaimBatch, NothingEligible, Publish, ResetRejected, Refill,
          SchedulerFinds, SchedulerSleeps
    <3> QED BY <1>3, <3>1
  <2> QED BY <2>1, <2>2, <2>3
<1>6. ASSUME NEW s \in Schedulers, OfferFails(s) \/ SchedulerAbort(s)
      PROVE  FoundNotQueued'
  BY <1>3, <1>6 DEF OfferFails, SchedulerAbort, SchedulerSleeps
<1>7. ASSUME NEW s \in Schedulers, OfferReplyLost(s) \/ ReleaseReplyLost(s)
      PROVE  FoundNotQueued'
  BY <1>2, <1>7 DEF OfferReplyLost, ReleaseReplyLost, ReplyLost, rowVars, schedulerVars
<1>8. ASSUME NEW d \in Deliveries, ApiCall(d) \/ TimePasses(d)
      PROVE  FoundNotQueued'
  BY <1>2, <1>8
  DEF ApiCall, CreateDelivery, Replay, DeleteDelivery, TimePasses, RetryFallsDue,
      LeaseExpires, GraceElapses, Put, schedulerVars
<1>9. CASE UNCHANGED vars \/ RedisFlushed
  BY <1>2, <1>9 DEF vars, RedisFlushed, rowVars, schedulerVars
<1> QED BY <1>4, <1>5, <1>6, <1>7, <1>8, <1>9 DEF Next

(***************************************************************************)
(* A QUEUED row is ready, with a worker, or outside the guard set, where   *)
(* the orphan sweep finds it: never "invisible to everything"              *)
(* (scheduler.ts:139), even if its worker is late, Redis restarts or the   *)
(* row is deleted.  With two schedulers it can be claimed again between    *)
(* the other's update and release, and then nobody looks for it.           *)
(***************************************************************************)
THEOREM QueuedSeen ==
    ASSUME OneScheduler, SlotsSurvive, "claim" \notin WorkerCrashPoints
    PROVE  Spec => []QueuedIsVisible
<1>1. Init => GuardHasPlace /\ FoundNotQueued
  BY DEF Init, WindowInit, GuardHasPlace, FoundNotQueued
<1>2. TypeInv /\ GuardHasPlace /\ [Next]_vars => GuardHasPlace'
  BY GuardStep
<1>3. TypeInv /\ FoundNotQueued /\ [Next]_vars => FoundNotQueued'
  BY FoundStep
<1>4. SlotsAttended /\ GuardHasPlace /\ FoundNotQueued => QueuedIsVisible
  BY DEF SlotsAttended, Attended, Reaped, GuardHasPlace, Resident, FoundNotQueued, Having,
         QueuedIsVisible
<1> QED BY <1>1, <1>2, <1>3, <1>4, AttendedAlways, PTL DEF Spec

----------------------------------------------------------------------------
(* Redis and the rows in step, as long as every command is answered.       *)

(***************************************************************************)
(* A statement that fails changes nothing, every command is answered, and  *)
(* no timer ends early.  Processes may die anywhere, and webhooks be       *)
(* deleted.                                                                *)
(***************************************************************************)
OnlyRollbacks == Faults \subseteq {"query", "offer"}

ReadyIsQueued == \A d \in Elements(ready) : status[d] \in {"QUEUED", "DELETED"}

(* A worker's job is in the in-flight list, and no other worker's.         *)
JobInFlight ==
    \A w \in Workers : wpc[w] # "idle" => job[w] \in Elements(inFlight)

JobOnce ==
    \A v, w \in Workers : wpc[v] # "idle" /\ job[v] = job[w] => v = w

TakenIsQueued ==
    \A w \in Workers : wpc[w] = "claim" => status[job[w]] \in {"QUEUED", "DELETED"}

LapsedIsFree ==
    \A d \in Deliveries :
        status[d] = "PROCESSING" /\ lockedAt[d] = "expired" => ~InHand(d)

(* A row the scheduler has claimed, until it is offered or reset: it is    *)
(* QUEUED, but neither ready nor about to be claimed by a worker.          *)
Apart(d) ==
    /\ status[d] \in {"QUEUED", "DELETED"}
    /\ d \notin Elements(ready)
    /\ \A w \in Workers : wpc[w] = "claim" => job[w] # d

BatchApart ==
    \A s \in Schedulers : spc[s] = "publish" =>
        Distinct(batch[s]) /\ \A d \in Elements(batch[s]) : Apart(d)

RejectedApart ==
    \A s \in Schedulers : spc[s] = "resetRejected" => \A d \in found[s] : Apart(d)

(* What the sweep did not find in the window does not get there before the *)
(* reset.                                                                  *)
OrphansOutside ==
    \A s \in Schedulers : spc[s] = "resetOrphans" => found[s] \cap dedupe = {}

(* What the reaper has found is out of everybody's reach until its release *)
(* has run.                                                                *)
OutOfReach(d) == d \notin Elements(ready) /\ ~InHand(d)

LapsedOutOfReach ==
    \A s \in Schedulers : spc[s] = "reapUpdate" =>
        \A d \in found[s] : status[d] \in {"PROCESSING", "DELETED"} /\ OutOfReach(d)

ReapedOutOfReach ==
    \A s \in Schedulers : spc[s] = "release" =>
        \A d \in found[s] : status[d] \in {"WAITING", "DELETED"} /\ OutOfReach(d)

RowInv == ReadyIsQueued /\ TakenIsQueued /\ LapsedIsFree

JobInv == JobInFlight /\ JobOnce

TickInv ==
    /\ BatchApart
    /\ RejectedApart
    /\ OrphansOutside
    /\ LapsedOutOfReach
    /\ ReapedOutOfReach

PipelineInv == WindowInv /\ RowInv /\ JobInv /\ TickInv

AllInv == TypeInv /\ OwnerInv /\ PipelineInv

(* The sets that the window's clients reason about.                        *)
LEMMA WindowSets ==
    ASSUME WindowInv
    PROVE  /\ Elements(ready) \subseteq Deliveries
           /\ Elements(inFlight) \subseteq Deliveries
           /\ Elements(ready) \cap Elements(inFlight) = {}
           /\ dedupe = Elements(ready) \cup Elements(inFlight)
  BY ElementsCounted DEF WindowInv, WindowTypeOK, ExactInv, Resident

LEMMA WindowSame ==
    ASSUME WindowInv, UNCHANGED windowVars
    PROVE  /\ WindowInv'
           /\ Elements(ready') = Elements(ready)
           /\ Elements(inFlight') = Elements(inFlight)
           /\ dedupe' = dedupe
  BY DEF windowVars, WindowInv, WindowTypeOK, WindowBounded, Occupancy, ExactInv,
         Resident

----------------------------------------------------------------------------
(* Workers.                                                                *)

(* A worker goes on with its job, and changes at most the row of it, which *)
(* it has claimed or is claiming.                                          *)
LEMMA WorkerMoves ==
    ASSUME AllInv, NEW w \in Workers, wpc[w] \in {"claim", "read", "send"},
           NEW pc \in {"read", "send", "complete"}, WorkerGoes(w, pc),
           UNCHANGED <<windowVars, schedulerVars>>,
           \A d \in Deliveries \ {job[w]} :
               status'[d] = status[d] /\ lockedAt'[d] = lockedAt[d],
           \/ status'[job[w]] = status[job[w]] /\ lockedAt'[job[w]] = lockedAt[job[w]]
           \/ /\ status[job[w]] # "DELETED"
              /\ status'[job[w]] \notin {"QUEUED", "DELETED"}
              /\ lockedAt'[job[w]] # "expired"
    PROVE  PipelineInv'
<1> DEFINE j == job[w]
<1>1. /\ wpc' = [wpc EXCEPT ![w] = pc] /\ job' = job
      /\ spc' = spc /\ found' = found /\ batch' = batch
      /\ wpc \in [Workers -> WorkerPCs]
      /\ \A v \in Workers : wpc[v] # "idle" => job[v] \in Deliveries
      /\ \A v \in Workers : job[v] \in Deliveries => wpc[v] # "idle"
      /\ j \in Deliveries
      /\ \A s \in Schedulers : found[s] \subseteq Deliveries
  BY NoJobAssumption
  DEF AllInv, TypeInv, TypeOK, WorkerTypeOK, SchedulerTypeOK, WorkerGoes, schedulerVars
<1>2. /\ WindowInv' /\ dedupe' = dedupe
      /\ Elements(ready') = Elements(ready) /\ Elements(ready) \subseteq Deliveries
      /\ Elements(inFlight') = Elements(inFlight) /\ Elements(inFlight) \subseteq Deliveries
      /\ Elements(ready) \cap Elements(inFlight) = {}
  BY WindowSame, WindowSets DEF AllInv, PipelineInv
<1>3. RowInv /\ JobInv /\ TickInv
  BY DEF AllInv, PipelineInv
<1>4. j \in Elements(inFlight) /\ j \notin Elements(ready)
  BY <1>2, <1>3 DEF JobInv, JobInFlight
<1>5. status'[j] = status[j] \/ wpc[w] = "claim" \/ status[j] = "PROCESSING"
  BY <1>1, <1>3 DEF AllInv, OwnerInv, HeldIsProcessing, Holding, j
<1> HIDE DEF j
<1>6. RowInv'
  <2>2. ReadyIsQueued'
    BY <1>2, <1>3, <1>4 DEF RowInv, ReadyIsQueued, j
  <2>3. TakenIsQueued'
    BY <1>1, <1>3 DEF RowInv, TakenIsQueued, JobInv, JobOnce, j
  <2>4. LapsedIsFree'
    BY <1>1, <1>3 DEF RowInv, LapsedIsFree, InHand, j
  <2> QED BY <2>2, <2>3, <2>4 DEF RowInv
<1>7. JobInv'
  BY <1>1, <1>2, <1>3 DEF JobInv, JobInFlight, JobOnce
<1>8. \A d \in Deliveries : Apart(d) => Apart(d)'
  <2> SUFFICES ASSUME NEW d \in Deliveries, Apart(d) PROVE Apart(d)'
    OBVIOUS
  <2>1. status'[d] = status[d]
    BY <1>5 DEF Apart, j
  <2> QED BY <1>1, <1>2, <2>1 DEF Apart
<1>9. TickInv'
  <2>1. \A s \in Schedulers : Elements(batch[s]) \subseteq Deliveries
    BY ElementsCounted DEF AllInv, TypeInv, TypeOK, SchedulerTypeOK
  <2>2. BatchApart' /\ RejectedApart'
    BY <1>1, <1>3, <1>8, <2>1 DEF TickInv, BatchApart, RejectedApart
  <2>3. OrphansOutside'
    BY <1>1, <1>2, <1>3 DEF TickInv, OrphansOutside
  <2>4. LapsedOutOfReach' /\ ReapedOutOfReach'
    BY <1>1, <1>2, <1>3
    DEF TickInv, LapsedOutOfReach, ReapedOutOfReach, OutOfReach, InHand, j
  <2> QED BY <2>2, <2>3, <2>4 DEF TickInv
<1> QED BY <1>2, <1>6, <1>7, <1>9 DEF PipelineInv

(* Steps that touch neither the row of a worker's job nor the ticks.       *)
LEMMA PipelineTake ==
    ASSUME AllInv, NEW w \in Workers, TakeJob(w)
    PROVE  PipelineInv'
<1>1. PICK d \in Deliveries : Claim(d) /\ job' = [job EXCEPT ![w] = d]
  BY DEF TakeJob
<1>2. /\ wpc[w] = "idle" /\ wpc' = [wpc EXCEPT ![w] = "claim"]
      /\ status' = status /\ lockedAt' = lockedAt
      /\ spc' = spc /\ found' = found /\ batch' = batch
      /\ wpc \in [Workers -> WorkerPCs] /\ job \in [Workers -> Deliveries \cup {NoJob}]
      /\ \A v \in Workers : job[v] \in Deliveries => wpc[v] # "idle"
      /\ \A s \in Schedulers :
            found[s] \subseteq Deliveries /\ Elements(batch[s]) \subseteq Deliveries
  BY NoJobAssumption, ElementsCounted
  DEF TakeJob, rowVars, schedulerVars, AllInv, TypeInv, TypeOK, WorkerTypeOK, SchedulerTypeOK
<1>3. /\ WindowInv' /\ d \in Elements(ready)
      /\ Elements(ready') = Elements(ready) \ {d}
      /\ Elements(inFlight') = Elements(inFlight) \cup {d}
      /\ dedupe' = dedupe
  BY <1>1, ClaimExact DEF AllInv, PipelineInv, Claim
<1>4. RowInv /\ JobInv /\ TickInv
      /\ Elements(ready) \cap Elements(inFlight) = {}
  BY WindowSets DEF AllInv, PipelineInv
<1>5. status[d] \in {"QUEUED", "DELETED"}
  BY <1>3, <1>4 DEF RowInv, ReadyIsQueued
<1>6. \A v \in Workers : wpc[v] # "idle" => job[v] # d
  BY <1>3, <1>4 DEF JobInv, JobInFlight
<1>7. RowInv'
  BY <1>1, <1>2, <1>3, <1>4, <1>5
  DEF RowInv, ReadyIsQueued, TakenIsQueued, LapsedIsFree, InHand
<1>8. JobInv'
  BY <1>1, <1>2, <1>3, <1>4, <1>6 DEF JobInv, JobInFlight, JobOnce
<1>9. TickInv'
  <2>1. \A e \in Deliveries : Apart(e) => Apart(e)'
    BY <1>1, <1>2, <1>3 DEF Apart
  <2>2. BatchApart' /\ RejectedApart' /\ OrphansOutside'
    BY <1>2, <1>3, <1>4, <2>1 DEF TickInv, BatchApart, RejectedApart, OrphansOutside
  <2>3. LapsedOutOfReach' /\ ReapedOutOfReach'
    BY <1>1, <1>2, <1>3, <1>4
    DEF TickInv, LapsedOutOfReach, ReapedOutOfReach, OutOfReach, InHand
  <2> QED BY <2>2, <2>3 DEF TickInv
<1> QED BY <1>3, <1>7, <1>8, <1>9 DEF PipelineInv

(* A worker lets go of its job, and the slot goes with it; or it dies.     *)
LEMMA WorkerLeaves ==
    ASSUME AllInv, NEW w \in Workers, wpc[w] # "idle", WorkerIdles(w),
           UNCHANGED <<rowVars, schedulerVars>>,
           Complete(job[w]) \/ UNCHANGED windowVars
    PROVE  PipelineInv'
<1> DEFINE j == job[w]
<1>1. /\ wpc' = [wpc EXCEPT ![w] = "idle"] /\ job' = [job EXCEPT ![w] = NoJob]
      /\ status' = status /\ lockedAt' = lockedAt
      /\ spc' = spc /\ found' = found /\ batch' = batch
      /\ wpc \in [Workers -> WorkerPCs] /\ job \in [Workers -> Deliveries \cup {NoJob}]
      /\ j \in Deliveries /\ NoJob \notin Deliveries
      /\ \A s \in Schedulers :
            found[s] \subseteq Deliveries /\ Elements(batch[s]) \subseteq Deliveries
  BY NoJobAssumption, ElementsCounted
  DEF WorkerIdles, rowVars, schedulerVars, AllInv, TypeInv, TypeOK, WorkerTypeOK,
      SchedulerTypeOK
<1>2. /\ WindowInv /\ RowInv /\ JobInv /\ TickInv
      /\ Elements(ready) \cap Elements(inFlight) = {}
      /\ Elements(ready) \subseteq Deliveries /\ Elements(inFlight) \subseteq Deliveries
  BY WindowSets DEF AllInv, PipelineInv
<1>3. j \in Elements(inFlight)
  BY <1>2 DEF JobInv, JobInFlight
<1>4. /\ WindowInv' /\ Elements(ready') = Elements(ready)
      /\ Elements(inFlight') \in {Elements(inFlight) \ {j}, Elements(inFlight)}
      /\ dedupe' \subseteq dedupe
  <2>1. CASE Complete(job[w])
    <3>1. Release({j}) /\ {j} \cap Elements(ready) = {}
      BY <1>2, <1>3, <2>1 DEF Complete, Release
    <3>2. WindowInv' /\ Elements(inFlight') = Elements(inFlight) \ {j}
      BY <1>2, <3>1, ReleaseExact
    <3> QED BY <2>1, <3>2 DEF Complete
  <2>2. CASE UNCHANGED windowVars
    BY <1>2, <2>2, WindowSame
  <2> QED BY <2>1, <2>2
<1> HIDE DEF j
<1>5. RowInv'
  BY <1>1, <1>2, <1>4
  DEF RowInv, ReadyIsQueued, TakenIsQueued, LapsedIsFree, InHand
<1>6. JobInv'
  BY <1>1, <1>2, <1>4 DEF JobInv, JobInFlight, JobOnce, j
<1>7. TickInv'
  <2>1. \A e \in Deliveries : Apart(e) => Apart(e)'
    BY <1>1, <1>4 DEF Apart
  <2>2. BatchApart' /\ RejectedApart' /\ OrphansOutside'
    BY <1>1, <1>2, <1>4, <2>1 DEF TickInv, BatchApart, RejectedApart, OrphansOutside
  <2>3. LapsedOutOfReach' /\ ReapedOutOfReach'
    BY <1>1, <1>2, <1>4
    DEF TickInv, LapsedOutOfReach, ReapedOutOfReach, OutOfReach, InHand
  <2> QED BY <2>2, <2>3 DEF TickInv
<1> QED BY <1>4, <1>5, <1>6, <1>7 DEF PipelineInv

LEMMA PipelineWorker ==
    ASSUME AllInv, OnlyRollbacks, NEW w \in Workers,
           \/ WorkerStep(w)
           \/ QueryFails(w)
           \/ CompleteReplyLost(w)
           \/ WorkerCrash(w)
    PROVE  PipelineInv'
<1>1. /\ wpc[w] # "idle" => job[w] \in Deliveries
      /\ status \in [Deliveries -> Statuses]
      /\ lockedAt \in [Deliveries -> {"null", "fresh", "expired"}]
  BY DEF AllInv, TypeInv, TypeOK, WorkerTypeOK, RowTypeOK
<1>2. ASSUME wpc[w] \in {"claim", "read", "send"}, NEW pc \in {"read", "send", "complete"},
             WorkerGoes(w, pc), UNCHANGED <<windowVars, rowVars, schedulerVars>>
      PROVE  PipelineInv'
  BY <1>2, WorkerMoves DEF rowVars
<1>3. ASSUME wpc[w] \in {"claim", "send"}, NEW pc \in {"read", "complete"},
             WorkerGoes(w, pc), UNCHANGED <<windowVars, schedulerVars>>,
             status[job[w]] # "DELETED", NEW newStatus, newStatus \notin {"QUEUED", "DELETED"},
             NEW lease, lease # "expired",
             status' = Put(status, {job[w]}, newStatus),
             lockedAt' = Put(lockedAt, {job[w]}, lease)
      PROVE  PipelineInv'
  <2>1. /\ \A d \in Deliveries \ {job[w]} :
              status'[d] = status[d] /\ lockedAt'[d] = lockedAt[d]
        /\ status'[job[w]] = newStatus /\ lockedAt'[job[w]] = lease
    BY <1>1, <1>3 DEF Put
  <2> QED BY <1>3, <2>1, WorkerMoves
<1>4. CASE TakeJob(w)
  BY <1>4, PipelineTake
<1>5. CASE ClaimRow(w)
  BY <1>3, <1>5 DEF ClaimRow
<1>6. CASE SkipRow(w)
  BY <1>2, <1>6 DEF SkipRow
<1>7. CASE ReadRow(w)
  <2>1. \E pc \in {"send", "complete"} : WorkerGoes(w, pc)
    BY <1>7 DEF ReadRow
  <2> QED BY <1>2, <1>7, <2>1 DEF ReadRow
<1>8. CASE RecordSuccess(w) \/ RecordRetry(w) \/ RecordFailed(w)
  BY <1>3, <1>8 DEF RecordSuccess, RecordRetry, RecordFailed, RecordRow
<1>9. CASE RecordGone(w)
  BY <1>2, <1>9 DEF RecordGone
<1>10. CASE CompleteJob(w)
  BY <1>10, WorkerLeaves DEF CompleteJob
<1>11. CASE QueryFails(w)
  BY <1>2, <1>11 DEF QueryFails
<1>12. CASE CompleteReplyLost(w)
  BY <1>12 DEF CompleteReplyLost, ReplyLost, OnlyRollbacks
<1>13. CASE WorkerCrash(w)
  BY <1>13, WorkerLeaves DEF WorkerCrash
<1> QED
  BY <1>4, <1>5, <1>6, <1>7, <1>8, <1>9, <1>10, <1>11, <1>12, <1>13 DEF WorkerStep

----------------------------------------------------------------------------
(* The scheduler.  What it has to keep to depends on where its tick is; at *)
(* these places there is nothing.                                          *)
QuietPCs ==
    {"sleep", "sweepFind", "checkWindow", "measureReady",
     "measureInFlight", "claimBatch"}

LEMMA TickQuiet ==
    ASSUME AllInv, OneScheduler, NEW s \in Schedulers, NEW pc \in QuietPCs,
           SchedulerGoes(s, pc)
    PROVE  TickInv'
<1>1. \A t \in Schedulers : spc'[t] \in QuietPCs
  BY DEF SchedulerGoes, OneScheduler, AllInv, TypeInv, TypeOK, SchedulerTypeOK
<1> QED
  BY <1>1
  DEF TickInv, BatchApart, RejectedApart, OrphansOutside, LapsedOutOfReach, ReapedOutOfReach,
      QuietPCs

(* A step of the tick that changes neither Redis nor a row.                *)
LEMMA SchedulerReads ==
    ASSUME AllInv, TickInv', UNCHANGED <<windowVars, rowVars, workerVars>>
    PROVE  PipelineInv'
<1>1. /\ WindowInv' /\ dedupe' = dedupe
      /\ Elements(ready') = Elements(ready) /\ Elements(inFlight') = Elements(inFlight)
  BY WindowSame DEF AllInv, PipelineInv
<1>2. RowInv' /\ JobInv'
  BY <1>1 DEF AllInv, PipelineInv, RowInv, JobInv, ReadyIsQueued, TakenIsQueued,
      LapsedIsFree, InHand, JobInFlight, JobOnce, rowVars, workerVars
<1> QED BY <1>1, <1>2 DEF PipelineInv

(* A step of the tick that changes rows, none of which a worker is about   *)
(* to claim, and none of which is ready.                                   *)
LEMMA SchedulerWrites ==
    ASSUME AllInv, TickInv', UNCHANGED <<windowVars, workerVars>>,
           NEW hit \in SUBSET Deliveries, NEW newStatus,
           newStatus # "PROCESSING",
           status' = Put(status, hit, newStatus),
           \A d \in Deliveries : lockedAt'[d] \in {lockedAt[d], "null"},
           \A d \in hit :
                /\ d \notin Elements(ready)
                /\ \A w \in Workers : wpc[w] = "claim" => job[w] # d
    PROVE  PipelineInv'
<1>1. /\ WindowInv' /\ dedupe' = dedupe
      /\ Elements(ready') = Elements(ready) /\ Elements(ready) \subseteq Deliveries
      /\ Elements(inFlight') = Elements(inFlight) /\ Elements(inFlight) \subseteq Deliveries
  BY WindowSame, WindowSets DEF AllInv, PipelineInv
<1>2. /\ wpc' = wpc /\ job' = job
      /\ \A w \in Workers : wpc[w] # "idle" => job[w] \in Deliveries
      /\ \A d \in Deliveries : status'[d] = IF d \in hit THEN newStatus ELSE status[d]
      /\ RowInv /\ JobInv
  BY DEF workerVars, AllInv, TypeInv, TypeOK, WorkerTypeOK, PipelineInv, Put
<1>3. RowInv'
  BY <1>1, <1>2 DEF RowInv, ReadyIsQueued, TakenIsQueued, LapsedIsFree, InHand
<1>4. JobInv'
  BY <1>1, <1>2 DEF JobInv, JobInFlight, JobOnce
<1> QED BY <1>1, <1>3, <1>4 DEF PipelineInv

LEMMA ResetKeeps ==
    ASSUME AllInv, OneScheduler, NEW s \in Schedulers,
           NEW pc \in QuietPCs, SchedulerGoes(s, pc),
           NEW ids \in SUBSET Deliveries, ResetToPending(ids),
           UNCHANGED <<windowVars, workerVars>>,
           \A d \in ids : status[d] = "QUEUED" =>
                /\ d \notin Elements(ready)
                /\ \A w \in Workers : wpc[w] = "claim" => job[w] # d
    PROVE  PipelineInv'
<1> DEFINE hit == ids \cap Having({"QUEUED"})
<1>1. /\ hit \in SUBSET Deliveries
      /\ status' = Put(status, hit, "PENDING")
      /\ \A d \in Deliveries : lockedAt'[d] \in {lockedAt[d], "null"}
      /\ \A d \in hit :
            /\ d \notin Elements(ready)
            /\ \A w \in Workers : wpc[w] = "claim" => job[w] # d
  BY DEF ResetToPending, Having, Put
<1> HIDE DEF hit
<1>2. TickInv'
  BY TickQuiet
<1> QED BY <1>1, <1>2, SchedulerWrites

(* The three queries of the reaper, the sweep and its check.               *)
LEMMA PipelineQueries ==
    ASSUME AllInv, OneScheduler, NEW s \in Schedulers,
           ReapFind(s) \/ SweepFind(s) \/ CheckWindow(s)
    PROVE  PipelineInv'
<1>1. CASE ReapFind(s)
  <2> DEFINE lapsed == {d \in Having({"PROCESSING"}) : lockedAt[d] = "expired"}
  <2>1. /\ SchedulerFinds(s, lapsed, "reapUpdate", "sweepFind")
        /\ UNCHANGED <<windowVars, rowVars, workerVars>>
    BY <1>1 DEF ReapFind
  <2>2. \A d \in lapsed : status[d] = "PROCESSING" /\ OutOfReach(d)
    BY DEF AllInv, PipelineInv, RowInv, ReadyIsQueued, LapsedIsFree, OutOfReach, Having
  <2> HIDE DEF lapsed
  <2>3. CASE lapsed = {}
    BY <2>1, <2>3, TickQuiet, SchedulerReads DEF SchedulerFinds, QuietPCs
  <2>4. CASE lapsed # {}
    <3>1. \A t \in Schedulers : spc'[t] = "reapUpdate" /\ found'[t] = lapsed
      BY <2>1, <2>4 DEF SchedulerFinds, SchedulerGoes, OneScheduler, AllInv, TypeInv,
                        TypeOK, SchedulerTypeOK
    <3>2. \A d \in lapsed : status'[d] = "PROCESSING" /\ OutOfReach(d)'
      BY <2>1, <2>2 DEF OutOfReach, InHand, windowVars, rowVars, workerVars
    <3>3. TickInv'
      BY <3>1, <3>2 DEF TickInv, BatchApart, RejectedApart, OrphansOutside,
                        LapsedOutOfReach, ReapedOutOfReach
    <3> QED BY <2>1, <3>3, SchedulerReads
  <2> QED BY <2>3, <2>4
<1>2. CASE SweepFind(s)
  <2>1. \E pc \in QuietPCs : SchedulerGoes(s, pc)
    BY <1>2 DEF SweepFind, SchedulerFinds, QuietPCs
  <2> QED BY <1>2, <2>1, TickQuiet, SchedulerReads DEF SweepFind
<1>3. CASE CheckWindow(s)
  <2> DEFINE outside == NotInWindow(found[s])
  <2>1. /\ spc[s] = "checkWindow"
        /\ SchedulerFinds(s, outside, "resetOrphans", "measureReady")
        /\ UNCHANGED <<windowVars, rowVars, workerVars>>
    BY <1>3 DEF CheckWindow
  <2>2. outside \cap dedupe = {} /\ dedupe' = dedupe
    BY <2>1 DEF NotInWindow, windowVars
  <2> HIDE DEF outside
  <2>3. CASE outside = {}
    BY <2>1, <2>3, TickQuiet, SchedulerReads DEF SchedulerFinds, QuietPCs
  <2>4. CASE outside # {}
    <3>1. \A t \in Schedulers : spc'[t] = "resetOrphans" /\ found'[t] = outside
      BY <2>1, <2>4 DEF SchedulerFinds, SchedulerGoes, OneScheduler, AllInv, TypeInv,
                        TypeOK, SchedulerTypeOK
    <3>2. TickInv'
      BY <2>2, <3>1 DEF TickInv, BatchApart, RejectedApart, OrphansOutside,
                        LapsedOutOfReach, ReapedOutOfReach
    <3> QED BY <2>1, <3>2, SchedulerReads
  <2> QED BY <2>3, <2>4
<1> QED BY <1>1, <1>2, <1>3

(* The reaper's update: what it takes, nobody has, and it holds on to it   *)
(* until the release.                                                      *)
LEMMA PipelineReaps ==
    ASSUME AllInv, OneScheduler, NEW s \in Schedulers, ReapUpdate(s)
    PROVE  PipelineInv'
<1> DEFINE hit == found[s] \cap Having({"PROCESSING"})
<1>1. /\ spc[s] = "reapUpdate" /\ SchedulerGoes(s, "release") /\ found' = found
      /\ UNCHANGED <<windowVars, workerVars>>
      /\ status' = Put(status, hit, "WAITING")
      /\ lockedAt' = Put(lockedAt, hit, "null")
  BY DEF ReapUpdate
<1>2. /\ RowInv /\ TickInv /\ found[s] \subseteq Deliveries
      /\ spc \in [Schedulers -> SchedulerPCs]
  BY DEF AllInv, PipelineInv, TypeInv, TypeOK, SchedulerTypeOK
<1>3. \A d \in found[s] : status[d] \in {"PROCESSING", "DELETED"} /\ OutOfReach(d)
  BY <1>1, <1>2 DEF TickInv, LapsedOutOfReach
<1>4. \A t \in Schedulers : t = s
  BY DEF OneScheduler
<1>5. TickInv'
  <2>1. spc'[s] = "release"
    BY <1>1, <1>2 DEF SchedulerGoes
  <2>2. BatchApart' /\ RejectedApart' /\ OrphansOutside' /\ LapsedOutOfReach'
    BY <1>4, <2>1 DEF BatchApart, RejectedApart, OrphansOutside, LapsedOutOfReach
  <2>3. \A d \in found[s] : status'[d] \in {"WAITING", "DELETED"} /\ OutOfReach(d)'
    BY <1>1, <1>2, <1>3 DEF Put, Having, OutOfReach, InHand, windowVars, workerVars
  <2>4. ReapedOutOfReach'
    BY <1>1, <1>4, <2>3 DEF ReapedOutOfReach
  <2> QED BY <2>2, <2>4 DEF TickInv
<1>6. \A d \in hit :
          /\ d \in Deliveries /\ d \notin Elements(ready)
          /\ \A w \in Workers : wpc[w] = "claim" => job[w] # d
  BY <1>2, <1>3 DEF OutOfReach, InHand
<1>7. \A d \in Deliveries : lockedAt'[d] \in {lockedAt[d], "null"}
  BY <1>1 DEF Put
<1>8. hit \in SUBSET Deliveries
  BY DEF Having
<1> HIDE DEF hit
<1> QED BY <1>1, <1>5, <1>6, <1>7, <1>8, SchedulerWrites

(* The release: the slots of those rows, which no worker has a job in.     *)
LEMMA PipelineReleases ==
    ASSUME AllInv, OneScheduler, NEW s \in Schedulers, ReleaseSlots(s)
    PROVE  PipelineInv'
<1>1. /\ spc[s] = "release" /\ Release(found[s])
      /\ SchedulerGoes(s, "sweepFind")
      /\ status' = status /\ lockedAt' = lockedAt /\ wpc' = wpc /\ job' = job
  BY DEF ReleaseSlots, SchedulerFinds, rowVars, workerVars
<1>2. /\ WindowInv /\ RowInv /\ JobInv /\ TickInv
      /\ \A w \in Workers : wpc[w] # "idle" => InHand(job[w])
  BY DEF AllInv, PipelineInv, InHand
<1>3. \A d \in found[s] : OutOfReach(d)
  BY <1>1, <1>2 DEF TickInv, ReapedOutOfReach
<1>4. /\ WindowInv' /\ Elements(ready') = Elements(ready)
      /\ Elements(inFlight') = Elements(inFlight) \ found[s]
  <2>1. found[s] \cap Elements(ready) = {}
    BY <1>3 DEF OutOfReach
  <2> QED BY <1>1, <1>2, <2>1, ReleaseExact DEF Release
<1>5. TickInv'
  BY <1>1, TickQuiet DEF QuietPCs
<1>6. RowInv'
  BY <1>1, <1>2, <1>4 DEF RowInv, ReadyIsQueued, TakenIsQueued, LapsedIsFree, InHand
<1>7. JobInv'
  BY <1>1, <1>2, <1>3, <1>4 DEF JobInv, JobInFlight, JobOnce, OutOfReach
<1> QED BY <1>4, <1>5, <1>6, <1>7 DEF PipelineInv

LEMMA SelectionDistinct ==
    ASSUME NEW limit \in Nat, NEW ids \in Selections(limit)
    PROVE  Distinct(ids)
<1> DEFINE size == Lesser(limit, Cardinality(Eligible))
<1>1. size \in Nat
  BY EligibleFinite, LesserProperties
<1>2. /\ DOMAIN ids = 1..size
      /\ \A i, j \in DOMAIN ids : i < j => ids[i] # ids[j]
  BY DEF Selections
<1> HIDE DEF size
<1> QED BY <1>1, <1>2 DEF Distinct

(* A batch is claimed: nothing in it is in the hands of a worker that is   *)
(* about to claim it, or ready, for both are QUEUED already.               *)
LEMMA PipelineClaims ==
    ASSUME AllInv, OneScheduler, NEW s \in Schedulers, ClaimBatch(s)
    PROVE  PipelineInv'
<1>1. PICK ids \in Selections(Lesser(room[s], BatchSize)) :
          /\ status' = Put(status, Elements(ids), "QUEUED")
          /\ batch' = [batch EXCEPT ![s] = ids]
  BY DEF ClaimBatch
<1>2. Lesser(room[s], BatchSize) \in Nat
  BY SizesAssumption, LesserProperties DEF AllInv, TypeInv, TypeOK, SchedulerTypeOK
<1> DEFINE hit == Elements(ids)
<1>3. /\ hit \in SUBSET Deliveries /\ Distinct(ids)
      /\ \A d \in hit : status[d] \in {"PENDING", "WAITING"}
  BY <1>2, SelectionProperties, SelectionDistinct DEF Eligible, Having
<1>4. /\ spc[s] = "claimBatch" /\ SchedulerGoes(s, "publish")
      /\ UNCHANGED <<windowVars, workerVars, lockedAt>>
  BY DEF ClaimBatch
<1>5. /\ RowInv
      /\ spc \in [Schedulers -> SchedulerPCs] /\ batch \in [Schedulers -> Seq(Deliveries)]
  BY DEF AllInv, PipelineInv, TypeInv, TypeOK, SchedulerTypeOK
<1>6. \A d \in hit :
          /\ d \notin Elements(ready)
          /\ \A w \in Workers : wpc[w] = "claim" => job[w] # d
  BY <1>3, <1>5 DEF RowInv, ReadyIsQueued, TakenIsQueued
<1>7. TickInv'
  <2>1. \A t \in Schedulers : t = s
    BY DEF OneScheduler
  <2>2. spc'[s] = "publish" /\ batch'[s] = ids
    BY <1>1, <1>4, <1>5 DEF SchedulerGoes
  <2>3. \A d \in hit : Apart(d)'
    BY <1>1, <1>3, <1>4, <1>6 DEF Apart, Put, windowVars, workerVars
  <2>4. BatchApart'
    BY <1>3, <2>1, <2>2, <2>3 DEF BatchApart
  <2>5. RejectedApart' /\ OrphansOutside' /\ LapsedOutOfReach' /\ ReapedOutOfReach'
    BY <2>1, <2>2 DEF RejectedApart, OrphansOutside, LapsedOutOfReach, ReapedOutOfReach
  <2> QED BY <2>4, <2>5 DEF TickInv
<1> HIDE DEF hit
<1>8. status' = Put(status, hit, "QUEUED")
  BY <1>1 DEF hit
<1> QED BY <1>3, <1>4, <1>6, <1>7, <1>8, SchedulerWrites

(* The offer: what is accepted becomes ready, the rest is going to be      *)
(* reset, and either was QUEUED and in nobody's way.                       *)
LEMMA PipelinePublishes ==
    ASSUME AllInv, OneScheduler, NEW s \in Schedulers, Publish(s)
    PROVE  PipelineInv'
<1> DEFINE taken == Elements(Accepted(batch[s]))
           rejected == Elements(batch[s]) \ taken
<1>1. /\ spc[s] = "publish" /\ Enqueue(batch[s])
      /\ status' = status /\ lockedAt' = lockedAt /\ wpc' = wpc /\ job' = job
  BY DEF Publish, rowVars, workerVars
<1>2. /\ WindowInv /\ RowInv /\ JobInv /\ TickInv
      /\ WindowTypeOK /\ Elements(ready) \cap Elements(inFlight) = {}
      /\ spc \in [Schedulers -> SchedulerPCs] /\ found \in [Schedulers -> SUBSET Deliveries]
      /\ batch[s] \in Seq(Deliveries)
  BY WindowSets DEF AllInv, PipelineInv, TypeInv, TypeOK, SchedulerTypeOK
<1>3. Distinct(batch[s]) /\ \A d \in Elements(batch[s]) : Apart(d)
  BY <1>1, <1>2 DEF TickInv, BatchApart
<1>4. /\ WindowInv' /\ Elements(ready') = Elements(ready) \cup taken
      /\ Elements(inFlight') = Elements(inFlight)
  BY <1>1, <1>2, <1>3, EnqueueExact
<1>5. taken \subseteq Elements(batch[s])
  BY <1>2, AcceptedProperties
<1>6. TickInv'
  <2>1. CASE rejected = {}
    <3>1. \E pc \in QuietPCs : SchedulerGoes(s, pc)
      BY <2>1 DEF Publish, Refill, QuietPCs
    <3> QED BY <3>1, TickQuiet
  <2>2. CASE rejected # {}
    <3>1. /\ SchedulerGoes(s, "resetRejected")
          /\ found' = [found EXCEPT ![s] = rejected]
      BY <2>2 DEF Publish
    <3> HIDE DEF taken
    <3>2. \A d \in rejected : Apart(d)'
      BY <1>1, <1>3, <1>4 DEF Apart
    <3> HIDE DEF rejected
    <3>3. \A t \in Schedulers : spc'[t] = "resetRejected" /\ found'[t] = rejected
      BY <1>2, <3>1 DEF SchedulerGoes, OneScheduler
    <3> QED
      BY <3>2, <3>3
      DEF TickInv, BatchApart, RejectedApart, OrphansOutside, LapsedOutOfReach, ReapedOutOfReach
  <2> QED BY <2>1, <2>2
<1> HIDE DEF taken
<1>7. RowInv'
  <2>1. ReadyIsQueued'
    BY <1>1, <1>2, <1>3, <1>4, <1>5 DEF RowInv, ReadyIsQueued, Apart
  <2> QED
    BY <1>1, <1>2, <2>1 DEF RowInv, TakenIsQueued, LapsedIsFree, InHand
<1>8. JobInv'
  BY <1>1, <1>2, <1>4 DEF JobInv, JobInFlight, JobOnce
<1> QED BY <1>4, <1>6, <1>7, <1>8 DEF PipelineInv

LEMMA PipelineScheduler ==
    ASSUME AllInv, OnlyRollbacks, OneScheduler, NEW s \in Schedulers,
           \/ SchedulerStep(s)
           \/ OfferFails(s)
           \/ OfferReplyLost(s)
           \/ ReleaseReplyLost(s)
           \/ SchedulerAbort(s)
    PROVE  PipelineInv'
<1>1. /\ found[s] \in SUBSET Deliveries
      /\ spc \in [Schedulers -> SchedulerPCs] /\ found \in [Schedulers -> SUBSET Deliveries]
      /\ Elements(batch[s]) \subseteq Deliveries
      /\ TickInv /\ WindowInv /\ RowInv /\ JobInv
  BY ElementsCounted DEF AllInv, PipelineInv, TypeInv, TypeOK, SchedulerTypeOK
<1>2. ASSUME NEW remaining, Refill(s, remaining)
      PROVE  \E pc \in QuietPCs : SchedulerGoes(s, pc)
  BY <1>2 DEF Refill, QuietPCs
<1>3. ASSUME NEW pc \in QuietPCs, SchedulerGoes(s, pc),
             UNCHANGED <<windowVars, rowVars, workerVars>>
      PROVE  PipelineInv'
  BY <1>3, TickQuiet, SchedulerReads
<1>4. CASE ReapFind(s) \/ SweepFind(s) \/ CheckWindow(s)
  BY <1>4, PipelineQueries
<1>5. CASE ReapUpdate(s)
  BY <1>5, PipelineReaps
<1>6. CASE ReleaseSlots(s)
  BY <1>6, PipelineReleases
<1>7. CASE ResetOrphans(s)
  <2>1. /\ spc[s] = "resetOrphans" /\ ResetToPending(found[s])
        /\ SchedulerGoes(s, "measureReady") /\ UNCHANGED <<windowVars, workerVars>>
    BY <1>7 DEF ResetOrphans, SchedulerFinds
  <2>2. \A d \in found[s] : d \notin dedupe
    BY <1>1, <2>1 DEF TickInv, OrphansOutside
  <2>3. \A d \in found[s] :
            /\ d \notin Elements(ready)
            /\ \A w \in Workers : wpc[w] = "claim" => job[w] # d
    BY <1>1, <2>2, WindowSets DEF JobInv, JobInFlight
  <2> QED BY <1>1, <2>1, <2>3, ResetKeeps DEF QuietPCs
<1>8. CASE MeasureReady(s)
  BY <1>3, <1>8 DEF MeasureReady, QuietPCs
<1>9. CASE MeasureInFlight(s)
  BY <1>2, <1>3, <1>9 DEF MeasureInFlight
<1>10. CASE ClaimBatch(s)
  BY <1>10, PipelineClaims
<1>11. CASE NothingEligible(s)
  BY <1>3, <1>11 DEF NothingEligible, SchedulerSleeps, QuietPCs
<1>12. CASE Publish(s)
  BY <1>12, PipelinePublishes
<1>13. CASE ResetRejected(s)
  <2>1. /\ spc[s] = "resetRejected" /\ ResetToPending(found[s])
        /\ Refill(s, room[s]) /\ UNCHANGED <<windowVars, workerVars>>
    BY <1>13 DEF ResetRejected
  <2>2. \A d \in found[s] :
            /\ d \notin Elements(ready)
            /\ \A w \in Workers : wpc[w] = "claim" => job[w] # d
    BY <1>1, <2>1 DEF TickInv, RejectedApart, Apart
  <2> QED BY <1>1, <1>2, <2>1, <2>2, ResetKeeps
<1>14. CASE OfferFails(s)
  <2>1. /\ spc[s] = "publish" /\ SchedulerGoes(s, "resetRejected")
        /\ found' = [found EXCEPT ![s] = Elements(batch[s])]
        /\ UNCHANGED <<windowVars, rowVars, workerVars>>
    BY <1>14 DEF OfferFails
  <2>2. \A d \in Elements(batch[s]) : Apart(d)'
    BY <1>1, <2>1, WindowSame
    DEF TickInv, BatchApart, Apart, rowVars, workerVars
  <2>3. \A t \in Schedulers : spc'[t] = "resetRejected" /\ found'[t] = Elements(batch[s])
    BY <1>1, <2>1 DEF SchedulerGoes, OneScheduler
  <2>4. TickInv'
    BY <2>2, <2>3
    DEF TickInv, BatchApart, RejectedApart, OrphansOutside, LapsedOutOfReach, ReapedOutOfReach
  <2> QED BY <2>1, <2>4, SchedulerReads
<1>15. CASE OfferReplyLost(s) \/ ReleaseReplyLost(s)
  BY <1>15 DEF OfferReplyLost, ReleaseReplyLost, ReplyLost, OnlyRollbacks
<1>16. CASE SchedulerAbort(s)
  BY <1>3, <1>16 DEF SchedulerAbort, SchedulerSleeps, QuietPCs
<1> QED
  BY <1>4, <1>5, <1>6, <1>7, <1>8, <1>9, <1>10, <1>11, <1>12, <1>13, <1>14, <1>15, <1>16
  DEF SchedulerStep

----------------------------------------------------------------------------
(* The API and time.                                                       *)

(* A settled or unborn row becomes PENDING, a row is deleted, or the lease *)
(* of a row changes that no worker has in hand.                            *)
LEMMA EnvironmentMoves ==
    ASSUME AllInv, UNCHANGED <<windowVars, workerVars, schedulerVars>>, NEW d \in Deliveries,
           \A e \in Deliveries \ {d} : status'[e] = status[e] /\ lockedAt'[e] = lockedAt[e],
           \/ /\ status[d] \in {"ABSENT", "DELIVERED", "FAILED"}
              /\ status'[d] = "PENDING"
           \/ status'[d] = "DELETED"
           \/ status'[d] = status[d] /\ ~InHand(d)
           \/ status'[d] = status[d] /\ lockedAt'[d] = lockedAt[d]
    PROVE  PipelineInv'
<1>1. /\ WindowInv' /\ dedupe' = dedupe
      /\ Elements(ready') = Elements(ready) /\ Elements(ready) \subseteq Deliveries
      /\ Elements(inFlight') = Elements(inFlight) /\ Elements(inFlight) \subseteq Deliveries
  BY WindowSame, WindowSets DEF AllInv, PipelineInv
<1>2. /\ wpc' = wpc /\ job' = job /\ spc' = spc /\ found' = found /\ batch' = batch
      /\ \A w \in Workers : wpc[w] # "idle" => job[w] \in Deliveries
      /\ \A s \in Schedulers :
            found[s] \subseteq Deliveries /\ Elements(batch[s]) \subseteq Deliveries
      /\ RowInv /\ JobInv /\ TickInv
  BY ElementsCounted
  DEF workerVars, schedulerVars, AllInv, PipelineInv, TypeInv, TypeOK, WorkerTypeOK,
      SchedulerTypeOK
<1>3. \A e \in Deliveries :
          \/ status'[e] \in {status[e], "DELETED"}
          \/ status[e] \notin {"QUEUED", "PROCESSING", "WAITING"} /\ status'[e] = "PENDING"
  OBVIOUS
<1>4. RowInv'
  <2>1. LapsedIsFree'
    BY <1>2, <1>3 DEF RowInv, LapsedIsFree, InHand
  <2> QED BY <1>1, <1>2, <1>3, <2>1 DEF RowInv, ReadyIsQueued, TakenIsQueued
<1>5. JobInv'
  BY <1>1, <1>2 DEF JobInv, JobInFlight, JobOnce
<1>6. TickInv'
  <2>1. \A e \in Deliveries : Apart(e) => Apart(e)'
    BY <1>1, <1>2, <1>3 DEF Apart
  <2>2. BatchApart' /\ RejectedApart' /\ OrphansOutside'
    BY <1>1, <1>2, <2>1 DEF TickInv, BatchApart, RejectedApart, OrphansOutside
  <2>3. LapsedOutOfReach' /\ ReapedOutOfReach'
    BY <1>1, <1>2, <1>3
    DEF TickInv, LapsedOutOfReach, ReapedOutOfReach, OutOfReach, InHand
  <2> QED BY <2>2, <2>3 DEF TickInv
<1> QED BY <1>1, <1>4, <1>5, <1>6 DEF PipelineInv

LEMMA PipelineEnvironment ==
    ASSUME AllInv, OnlyRollbacks,
           \/ \E d \in Deliveries : ApiCall(d) \/ TimePasses(d)
           \/ RedisFlushed
    PROVE  PipelineInv'
<1> USE DEF rowVars
<1>1. ASSUME NEW d \in Deliveries, CreateDelivery(d)
      PROVE  PipelineInv'
  BY <1>1, EnvironmentMoves
  DEF CreateDelivery, Put, AllInv, TypeInv, TypeOK, RowTypeOK
<1>2. ASSUME NEW d \in Deliveries, Replay(d)
      PROVE  PipelineInv'
  BY <1>2, EnvironmentMoves DEF Replay, Put
<1>3. ASSUME NEW d \in Deliveries, DeleteDelivery(d)
      PROVE  PipelineInv'
  BY <1>3, EnvironmentMoves DEF DeleteDelivery, Put
<1>4. ASSUME NEW d \in Deliveries, RetryFallsDue(d) \/ GraceElapses(d)
      PROVE  PipelineInv'
  BY <1>4, EnvironmentMoves DEF RetryFallsDue, GraceElapses
<1>5. ASSUME NEW d \in Deliveries, LeaseExpires(d)
      PROVE  PipelineInv'
  <2>1. ~InHand(d)
    BY <1>5 DEF LeaseExpires, OutlastsWorkers, OnlyRollbacks
  <2> QED BY <1>5, <2>1, EnvironmentMoves DEF LeaseExpires, Put
<1>6. CASE RedisFlushed
  BY <1>6 DEF RedisFlushed, OnlyRollbacks
<1> QED BY <1>1, <1>2, <1>3, <1>4, <1>5, <1>6 DEF ApiCall, TimePasses

LEMMA PipelineInitially == Init => AllInv
<1> SUFFICES ASSUME Init PROVE AllInv
  OBVIOUS
<1>1. WindowInv /\ Elements(ready) = {} /\ Elements(inFlight) = {}
  BY EmptyExact DEF Init, WindowInit, Elements
<1>2. PipelineInv
  BY <1>1 DEF Init, PipelineInv, RowInv, JobInv, TickInv, ReadyIsQueued,
     TakenIsQueued, LapsedIsFree, JobInFlight, JobOnce, BatchApart, RejectedApart,
     OrphansOutside, LapsedOutOfReach, ReapedOutOfReach
<1> QED BY <1>2, TypeInitially, OwnerInitially DEF AllInv

LEMMA PipelineStep ==
    ASSUME OneScheduler, OnlyRollbacks
    PROVE  AllInv /\ [Next]_vars => AllInv'
<1> SUFFICES ASSUME AllInv, [Next]_vars PROVE AllInv'
  OBVIOUS
<1>1. TypeInv' /\ OwnerInv'
  BY TypeStep, OwnerStep DEF AllInv, OnlyRollbacks, TimersOutlastWorkers
<1>2. PipelineInv'
  <2>1. CASE UNCHANGED vars
    <3>1. WindowInv' /\ Elements(ready') = Elements(ready)
          /\ Elements(inFlight') = Elements(inFlight) /\ dedupe' = dedupe
      BY <2>1, WindowSame DEF vars, AllInv, PipelineInv
    <3> QED
      BY <2>1, <3>1 DEF vars, rowVars, workerVars, schedulerVars, AllInv, PipelineInv,
         RowInv, JobInv, TickInv, ReadyIsQueued, TakenIsQueued, LapsedIsFree, InHand,
         JobInFlight, JobOnce, BatchApart, RejectedApart, Apart, OrphansOutside,
         LapsedOutOfReach, ReapedOutOfReach, OutOfReach
  <2> QED BY <2>1, PipelineWorker, PipelineScheduler, PipelineEnvironment DEF Next
<1> QED BY <1>1, <1>2 DEF AllInv

LEMMA PipelineAlways ==
    ASSUME OneScheduler, OnlyRollbacks
    PROVE  Spec => []AllInv
<1>1. AllInv /\ [Next]_vars => AllInv'
  BY PipelineStep
<1> QED BY <1>1, PipelineInitially, PTL DEF Spec

(***************************************************************************)
(* The guard set is exactly the set of IDs in the window, and no ID is in  *)
(* it twice (scripts.ts:83), wherever workers and ticks die and whatever   *)
(* is deleted: nobody completes or releases an ID that is ready again.     *)
(***************************************************************************)
THEOREM GuardExact ==
    ASSUME OneScheduler, OnlyRollbacks
    PROVE  Spec => []DedupeExact
<1>1. AllInv => DedupeExact
  BY ExactIsExact DEF AllInv, PipelineInv, WindowInv
<1> QED BY <1>1, PipelineAlways, PTL

----------------------------------------------------------------------------
(* Slots, as long as every command is answered.                            *)
Accounted(d) ==
    \/ InHand(d)
    \/ status[d] = "PROCESSING"
    \/ \E s \in Schedulers : spc[s] = "release" /\ d \in found[s]

(* A worker that dies before its UPDATE leaves a QUEUED row with its slot, *)
(* and a deletion a slot without a row.                                    *)
SlotsKnown ==
    \A d \in Elements(inFlight) :
        \/ Accounted(d)
        \/ status[d] \in {"QUEUED", "DELETED"}

(* A row that is claimed while its slot is taken has a worker that is      *)
(* about to release it.                                                    *)
ClaimedInHand ==
    \A s \in Schedulers : \A d \in Elements(inFlight) :
        \/ spc[s] = "publish" /\ d \in Elements(batch[s])
        \/ spc[s] = "resetRejected" /\ d \in found[s]
        => InHand(d) \/ status[d] = "DELETED"

SlotsInv == SlotsKnown /\ ClaimedInHand

(* A step outside the scheduler that leaves every slot with its worker.    *)
LEMMA SlotsStay ==
    ASSUME AllInv, SlotsInv, UNCHANGED <<windowVars, job, schedulerVars>>,
           \A d \in Deliveries :
                \/ status'[d] = status[d]
                \/ InHand(d) /\ status'[d] # "DELETED"
                \/ status[d] \in {"ABSENT", "DELIVERED", "FAILED"} /\ status'[d] = "PENDING"
                \/ status'[d] = "DELETED"
    PROVE  SlotsInv'
<1>1. /\ Elements(inFlight') = Elements(inFlight) /\ Elements(inFlight) \subseteq Deliveries
      /\ job' = job /\ spc' = spc /\ found' = found /\ batch' = batch
  BY WindowSame, WindowSets DEF AllInv, PipelineInv, schedulerVars
<1>2. SlotsKnown'
  BY <1>1 DEF SlotsInv, SlotsKnown, Accounted, InHand
<1>3. ClaimedInHand'
  BY <1>1 DEF SlotsInv, ClaimedInHand, InHand
<1> QED BY <1>2, <1>3 DEF SlotsInv

LEMMA SlotsTake ==
    ASSUME AllInv, SlotsInv, NEW w \in Workers, TakeJob(w)
    PROVE  SlotsInv'
<1>1. PICK d \in Deliveries : Claim(d) /\ job' = [job EXCEPT ![w] = d]
  BY DEF TakeJob
<1>2. /\ status' = status /\ spc' = spc /\ found' = found /\ batch' = batch
      /\ Elements(inFlight') = Elements(inFlight) \cup {d}
      /\ Elements(inFlight) \subseteq Deliveries
  BY <1>1, ClaimExact, WindowSets
  DEF TakeJob, rowVars, schedulerVars, AllInv, PipelineInv, Claim
<1>3. /\ wpc[w] = "idle" /\ job \in [Workers -> Deliveries \cup {NoJob}]
      /\ \A v \in Workers : job[v] \in Deliveries => wpc[v] # "idle"
  BY NoJobAssumption DEF TakeJob, AllInv, TypeInv, TypeOK, WorkerTypeOK
<1>4. InHand(d)' /\ \A e \in Deliveries : InHand(e) => InHand(e)'
  BY <1>1, <1>3 DEF InHand
<1>5. SlotsKnown'
  BY <1>2, <1>4 DEF SlotsInv, SlotsKnown, Accounted
<1>6. ClaimedInHand'
  BY <1>2, <1>4 DEF SlotsInv, ClaimedInHand
<1> QED BY <1>5, <1>6 DEF SlotsInv

(* A worker lets go of its job with its slot, or dies before its record.   *)
LEMMA SlotsLeave ==
    ASSUME AllInv, SlotsInv, NEW w \in Workers, wpc[w] # "idle", WorkerIdles(w),
           UNCHANGED <<rowVars, schedulerVars>>,
           \/ Complete(job[w])
           \/ UNCHANGED windowVars /\ wpc[w] \in {"claim", "read", "send"}
    PROVE  SlotsInv'
<1> DEFINE j == job[w]
<1>1. /\ job' = [job EXCEPT ![w] = NoJob] /\ job \in [Workers -> Deliveries \cup {NoJob}]
      /\ status' = status /\ spc' = spc /\ found' = found /\ batch' = batch
      /\ j \in Deliveries
  BY DEF WorkerIdles, rowVars, schedulerVars, AllInv, TypeInv, TypeOK, WorkerTypeOK
<1>2. /\ WindowInv /\ RowInv /\ JobInv /\ TickInv
      /\ Elements(ready) \cap Elements(inFlight) = {}
      /\ Elements(inFlight) \subseteq Deliveries
  BY WindowSets DEF AllInv, PipelineInv
<1>3. \A e \in Deliveries \ {j} : InHand(e) => InHand(e)'
  BY <1>1 DEF InHand
<1>5. CASE Complete(job[w])
  <2>1. Release({j}) /\ {j} \cap Elements(ready) = {}
    BY <1>2, <1>5 DEF Complete, Release, JobInv, JobInFlight
  <2>2. Elements(inFlight') = Elements(inFlight) \ {j}
    BY <1>2, <2>1, ReleaseExact
  <2> HIDE DEF j
  <2>3. SlotsKnown' /\ ClaimedInHand'
    BY <1>1, <1>2, <1>3, <2>2 DEF SlotsInv, SlotsKnown, ClaimedInHand, Accounted
  <2> QED BY <2>3 DEF SlotsInv
<1>6. CASE UNCHANGED windowVars /\ wpc[w] \in {"claim", "read", "send"}
  <2>1. Elements(inFlight') = Elements(inFlight)
    BY <1>2, <1>6, WindowSame
  <2>2. \/ wpc[w] = "claim" /\ status[j] \in {"QUEUED", "DELETED"}
        \/ status[j] \in {"PROCESSING", "DELETED"}
    BY <1>2, <1>6
    DEF RowInv, TakenIsQueued, AllInv, OwnerInv, HeldIsProcessing, Holding
  <2>3. Apart(j) => status[j] = "DELETED"
    BY <1>1, <2>2 DEF Apart
  <2>4. SlotsKnown'
    BY <1>1, <1>2, <1>3, <2>1, <2>2 DEF SlotsInv, SlotsKnown, Accounted, j
  <2>5. ClaimedInHand'
    BY <1>1, <1>2, <1>3, <2>1, <2>3
    DEF SlotsInv, ClaimedInHand, TickInv, BatchApart, RejectedApart, j
  <2> QED BY <2>4, <2>5 DEF SlotsInv
<1> QED BY <1>5, <1>6

LEMMA SlotsWorker ==
    ASSUME AllInv, SlotsInv, OnlyRollbacks, SlotsSurvive, NEW w \in Workers,
           \/ WorkerStep(w)
           \/ QueryFails(w)
           \/ CompleteReplyLost(w)
           \/ WorkerCrash(w)
    PROVE  SlotsInv'
<1>1. /\ wpc \in [Workers -> WorkerPCs]
      /\ wpc[w] # "idle" => job[w] \in Deliveries /\ InHand(job[w])
  BY DEF AllInv, TypeInv, TypeOK, WorkerTypeOK, InHand
<1>2. ASSUME wpc[w] # "idle", NEW pc, WorkerGoes(w, pc),
             UNCHANGED <<windowVars, schedulerVars>>,
             \/ status' = status
             \/ \E new : new # "DELETED" /\ status' = Put(status, {job[w]}, new)
      PROVE  SlotsInv'
  <2>1. /\ UNCHANGED <<windowVars, job, schedulerVars>>
        /\ \A d \in Deliveries :
                status'[d] = status[d] \/ (d = job[w] /\ status'[d] # "DELETED")
    BY <1>2 DEF WorkerGoes, Put
  <2> QED BY <1>1, <1>2, <2>1, SlotsStay
<1>3. CASE TakeJob(w)
  BY <1>3, SlotsTake
<1>4. CASE ClaimRow(w)
  BY <1>2, <1>4 DEF ClaimRow
<1>5. CASE SkipRow(w)
  BY <1>2, <1>5 DEF SkipRow, rowVars
<1>6. CASE ReadRow(w)
  <2>1. \E pc : WorkerGoes(w, pc)
    BY <1>6 DEF ReadRow
  <2> QED BY <1>2, <1>6, <2>1 DEF ReadRow, rowVars
<1>7. CASE RecordSuccess(w) \/ RecordRetry(w) \/ RecordFailed(w)
  BY <1>2, <1>7 DEF RecordSuccess, RecordRetry, RecordFailed, RecordRow
<1>8. CASE RecordGone(w)
  BY <1>2, <1>8 DEF RecordGone, rowVars
<1>9. CASE CompleteJob(w)
  BY <1>9, SlotsLeave DEF CompleteJob
<1>10. CASE QueryFails(w)
  BY <1>2, <1>10 DEF QueryFails, rowVars
<1>11. CASE CompleteReplyLost(w)
  BY <1>11 DEF CompleteReplyLost, ReplyLost, OnlyRollbacks
<1>12. CASE WorkerCrash(w)
  BY <1>12, SlotsLeave DEF WorkerCrash, SlotsSurvive
<1> QED
  BY <1>3, <1>4, <1>5, <1>6, <1>7, <1>8, <1>9, <1>10, <1>11, <1>12 DEF WorkerStep

(* A step of the tick that frees no slot: the rows it changes are out of   *)
(* the window, in a worker's hands, or on their way to the release.        *)
LEMMA SlotsTick ==
    ASSUME AllInv, SlotsInv, OneScheduler, NEW s \in Schedulers, spc[s] # "release",
           NEW pc, SchedulerGoes(s, pc), job' = job,
           Elements(inFlight') = Elements(inFlight),
           \A d \in Deliveries :
                \/ status'[d] = status[d]
                \/ /\ status'[d] # "DELETED"
                   /\ \/ d \notin Elements(inFlight)
                      \/ InHand(d)
                      \/ pc = "release" /\ d \in found'[s],
           \A d \in Elements(inFlight) :
                \/ pc = "publish" /\ d \in Elements(batch'[s])
                \/ pc = "resetRejected" /\ d \in found'[s]
                => InHand(d) \/ status'[d] = "DELETED"
    PROVE  SlotsInv'
<1>1. /\ \A t \in Schedulers : t = s
      /\ spc'[s] = pc
      /\ Elements(inFlight) \subseteq Deliveries
  BY WindowSets
  DEF OneScheduler, SchedulerGoes, AllInv, PipelineInv, TypeInv, TypeOK, SchedulerTypeOK
<1>2. SlotsKnown'
  BY <1>1 DEF SlotsInv, SlotsKnown, Accounted, InHand
<1>3. ClaimedInHand'
  BY <1>1 DEF ClaimedInHand, InHand
<1> QED BY <1>2, <1>3 DEF SlotsInv

(* Redis drops the slots of reclaimed rows.                                *)
LEMMA SlotsRelease ==
    ASSUME AllInv, SlotsInv, OneScheduler, NEW s \in Schedulers, ReleaseSlots(s)
    PROVE  SlotsInv'
<1>1. /\ spc[s] = "release" /\ Release(found[s]) /\ status' = status /\ job' = job
      /\ spc' = [spc EXCEPT ![s] = "sweepFind"] /\ spc \in [Schedulers -> SchedulerPCs]
      /\ \A t \in Schedulers : t = s
  BY DEF ReleaseSlots, SchedulerFinds, SchedulerGoes, rowVars, workerVars, OneScheduler,
         AllInv, TypeInv, TypeOK, SchedulerTypeOK
<1>2. found[s] \cap Elements(ready) = {}
  BY <1>1 DEF AllInv, PipelineInv, TickInv, ReapedOutOfReach, OutOfReach
<1>3. Elements(inFlight') = Elements(inFlight) \ found[s]
  BY <1>1, <1>2, ReleaseExact DEF AllInv, PipelineInv
<1> QED
  BY <1>1, <1>3
  DEF SlotsInv, SlotsKnown, ClaimedInHand, Accounted, InHand

LEMMA SlotsScheduler ==
    ASSUME AllInv, SlotsInv, OnlyRollbacks, SlotsSurvive, OneScheduler, NEW s \in Schedulers,
           \/ SchedulerStep(s)
           \/ OfferFails(s)
           \/ OfferReplyLost(s)
           \/ ReleaseReplyLost(s)
           \/ SchedulerAbort(s)
    PROVE  SlotsInv'
<1>1. /\ found[s] \in SUBSET Deliveries /\ batch[s] \in Seq(Deliveries)
      /\ spc \in [Schedulers -> SchedulerPCs] /\ found \in [Schedulers -> SUBSET Deliveries]
      /\ Elements(inFlight) \subseteq Deliveries
      /\ Elements(inFlight) \subseteq dedupe
      /\ TickInv /\ WindowInv
      /\ UNCHANGED windowVars => Elements(inFlight') = Elements(inFlight)
  BY WindowSets, WindowSame
  DEF AllInv, PipelineInv, TypeInv, TypeOK, SchedulerTypeOK
<1>2. ASSUME spc[s] # "release", NEW pc, pc \notin {"publish", "resetRejected"},
             SchedulerGoes(s, pc), UNCHANGED <<windowVars, rowVars, workerVars>>
      PROVE  SlotsInv'
  BY <1>1, <1>2, SlotsTick DEF rowVars, workerVars
<1>3. ASSUME spc[s] # "release", NEW pc, pc \notin {"publish", "resetRejected"},
             SchedulerGoes(s, pc), UNCHANGED <<windowVars, workerVars>>,
             ResetToPending(found[s]),
             \A d \in found[s] \cap Elements(inFlight) : status[d] = "QUEUED" => InHand(d)
      PROVE  SlotsInv'
  <2>1. \A d \in Deliveries :
            \/ status'[d] = status[d]
            \/ /\ status'[d] # "DELETED"
               /\ d \notin Elements(inFlight) \/ InHand(d)
    BY <1>3 DEF ResetToPending, Put, Having
  <2> QED BY <1>1, <1>3, <2>1, SlotsTick DEF workerVars
<1>4. ASSUME NEW remaining, Refill(s, remaining)
      PROVE  \E pc : pc \notin {"publish", "resetRejected"} /\ SchedulerGoes(s, pc)
  BY <1>4 DEF Refill
<1>5. CASE ReapFind(s) \/ SweepFind(s) \/ CheckWindow(s)
  <2>1. \E pc : pc \notin {"publish", "resetRejected"} /\ SchedulerGoes(s, pc)
    BY <1>5 DEF ReapFind, SweepFind, CheckWindow, SchedulerFinds
  <2> QED BY <1>2, <1>5, <2>1 DEF ReapFind, SweepFind, CheckWindow
<1>6. CASE ReapUpdate(s)
  <2>1. /\ spc[s] = "reapUpdate" /\ SchedulerGoes(s, "release") /\ found' = found
        /\ UNCHANGED <<windowVars, workerVars>>
        /\ \A d \in Deliveries :
              status'[d] = status[d] \/ (status'[d] # "DELETED" /\ d \in found[s])
    BY <1>6 DEF ReapUpdate, Put, Having
  <2> QED BY <1>1, <2>1, SlotsTick DEF workerVars
<1>7. CASE ReleaseSlots(s)
  BY <1>7, SlotsRelease
<1>8. CASE ResetOrphans(s)
  BY <1>1, <1>3, <1>8 DEF ResetOrphans, SchedulerFinds, TickInv, OrphansOutside
<1>9. CASE MeasureReady(s)
  BY <1>2, <1>9 DEF MeasureReady
<1>10. CASE MeasureInFlight(s)
  BY <1>2, <1>4, <1>10 DEF MeasureInFlight
<1>11. CASE ClaimBatch(s)
  <2>1. PICK ids \in Selections(Lesser(room[s], BatchSize)) :
            /\ status' = Put(status, Elements(ids), "QUEUED")
            /\ batch' = [batch EXCEPT ![s] = ids]
    BY <1>11 DEF ClaimBatch
  <2>2. Lesser(room[s], BatchSize) \in Nat /\ DOMAIN batch = Schedulers
    BY SizesAssumption, LesserProperties DEF AllInv, TypeInv, TypeOK, SchedulerTypeOK
  <2>3. /\ spc[s] = "claimBatch" /\ SchedulerGoes(s, "publish")
        /\ UNCHANGED <<windowVars, workerVars>>
        /\ batch'[s] = ids
    BY <1>11, <2>1, <2>2 DEF ClaimBatch
  <2>4. \A d \in Elements(ids) : status[d] \in {"PENDING", "WAITING"}
    BY <2>2, SelectionProperties DEF Eligible, Having
  <2>5. \A d \in Elements(ids) \cap Elements(inFlight) : InHand(d)
    BY <2>3, <2>4 DEF SlotsInv, SlotsKnown, Accounted, OneScheduler
  <2>6. \A d \in Deliveries :
            status'[d] = status[d] \/ (status'[d] # "DELETED" /\ d \in Elements(ids))
    BY <2>1 DEF Put
  <2> QED BY <1>1, <2>3, <2>5, <2>6, SlotsTick DEF workerVars
<1>12. CASE NothingEligible(s)
  BY <1>2, <1>12 DEF NothingEligible, SchedulerSleeps
<1>13. CASE Publish(s)
  <2>1. /\ spc[s] = "publish" /\ UNCHANGED <<rowVars, workerVars>>
        /\ inFlight' = inFlight
    BY <1>13 DEF Publish, Enqueue
  <2>2. CASE \E pc : pc \notin {"publish", "resetRejected"} /\ SchedulerGoes(s, pc)
    BY <2>1, <2>2, SlotsTick DEF rowVars, workerVars
  <2>3. CASE /\ SchedulerGoes(s, "resetRejected")
             /\ found'[s] \subseteq Elements(batch[s])
    <3>1. \A d \in Elements(inFlight) : d \in found'[s] => InHand(d) \/ status[d] = "DELETED"
      BY <2>1, <2>3 DEF SlotsInv, ClaimedInHand
    <3> QED BY <2>1, <2>3, <3>1, SlotsTick DEF rowVars, workerVars
  <2> QED BY <1>1, <1>4, <1>13, <2>2, <2>3 DEF Publish
<1>14. CASE ResetRejected(s)
  <2>1. /\ spc[s] = "resetRejected" /\ ResetToPending(found[s])
        /\ Refill(s, room[s]) /\ UNCHANGED <<windowVars, workerVars>>
    BY <1>14 DEF ResetRejected
  <2>2. \A d \in found[s] \cap Elements(inFlight) : status[d] = "QUEUED" => InHand(d)
    BY <2>1 DEF SlotsInv, ClaimedInHand
  <2> QED BY <1>3, <1>4, <2>1, <2>2
<1>15. CASE OfferFails(s)
  <2>1. /\ spc[s] = "publish" /\ SchedulerGoes(s, "resetRejected")
        /\ found'[s] = Elements(batch[s])
        /\ UNCHANGED <<windowVars, rowVars, workerVars>>
    BY <1>1, <1>15 DEF OfferFails
  <2>2. \A d \in Elements(inFlight) : d \in found'[s] => InHand(d) \/ status[d] = "DELETED"
    BY <2>1 DEF SlotsInv, ClaimedInHand
  <2> QED BY <1>1, <2>1, <2>2, SlotsTick DEF rowVars, workerVars
<1>16. CASE OfferReplyLost(s) \/ ReleaseReplyLost(s)
  BY <1>16 DEF OfferReplyLost, ReleaseReplyLost, ReplyLost, OnlyRollbacks
<1>17. CASE SchedulerAbort(s)
  BY <1>2, <1>17 DEF SchedulerAbort, SchedulerSleeps, SlotsSurvive
<1> QED
  BY <1>5, <1>6, <1>7, <1>8, <1>9, <1>10, <1>11, <1>12, <1>13, <1>14, <1>15, <1>16, <1>17
  DEF SchedulerStep

LEMMA SlotsEnvironment ==
    ASSUME AllInv, SlotsInv, OnlyRollbacks,
           \/ \E d \in Deliveries : ApiCall(d) \/ TimePasses(d)
           \/ RedisFlushed
    PROVE  SlotsInv'
<1>1. ASSUME NEW d \in Deliveries, CreateDelivery(d) \/ Replay(d) \/ DeleteDelivery(d)
      PROVE  SlotsInv'
  <2>1. /\ UNCHANGED <<windowVars, job, schedulerVars>>
        /\ \A e \in Deliveries :
              \/ status'[e] = status[e]
              \/ /\ status[e] \in {"ABSENT", "DELIVERED", "FAILED"}
                 /\ status'[e] = "PENDING"
              \/ status'[e] = "DELETED"
    BY <1>1 DEF CreateDelivery, Replay, DeleteDelivery, Put, workerVars
  <2> QED BY <2>1, SlotsStay
<1>2. ASSUME NEW d \in Deliveries, TimePasses(d)
      PROVE  SlotsInv'
  <2>1. UNCHANGED <<windowVars, job, schedulerVars>> /\ status' = status
    BY <1>2 DEF TimePasses, RetryFallsDue, LeaseExpires, GraceElapses, workerVars
  <2> QED BY <2>1, SlotsStay
<1>3. CASE RedisFlushed
  BY <1>3 DEF RedisFlushed, OnlyRollbacks
<1> QED BY <1>1, <1>2, <1>3 DEF ApiCall

LEMMA SlotsStep ==
    ASSUME OneScheduler, OnlyRollbacks, SlotsSurvive
    PROVE  AllInv /\ SlotsInv /\ [Next]_vars => SlotsInv'
<1> SUFFICES ASSUME AllInv, SlotsInv, [Next]_vars PROVE SlotsInv'
  OBVIOUS
<1>1. CASE UNCHANGED vars
  BY <1>1, SlotsStay DEF vars, rowVars, workerVars
<1> QED BY <1>1, SlotsWorker, SlotsScheduler, SlotsEnvironment DEF Next

LEMMA SlotsAlways ==
    ASSUME OneScheduler, OnlyRollbacks, SlotsSurvive
    PROVE  Spec => [](AllInv /\ SlotsInv)
<1>1. Init => SlotsInv
  <2> SUFFICES ASSUME Init PROVE SlotsInv
    OBVIOUS
  <2>1. Elements(inFlight) = {}
    BY DEF Init, WindowInit, Elements
  <2> QED BY <2>1 DEF Init, SlotsInv, SlotsKnown, ClaimedInHand
<1>2. AllInv /\ SlotsInv /\ [Next]_vars => SlotsInv'
  BY SlotsStep
<1> QED BY <1>1, <1>2, PipelineAlways, PTL DEF Spec

(***************************************************************************)
(* A WAITING row is "NOT in Redis while in this state" (schema.prisma),    *)
(* but for the slot its worker or the reaper is about to release.          *)
(***************************************************************************)
THEOREM WaitingOutside ==
    ASSUME OneScheduler, OnlyRollbacks, SlotsSurvive
    PROVE  Spec => []WaitingOutsideWindow
<1>1. AllInv /\ SlotsInv => WaitingOutsideWindow
  <2> SUFFICES ASSUME AllInv, SlotsInv, NEW d \in Having({"WAITING"}), d \in Resident
               PROVE  \/ \E w \in Workers : job[w] = d /\ wpc[w] = "complete"
                      \/ \E s \in Schedulers : spc[s] = "release" /\ d \in found[s]
    BY DEF WaitingOutsideWindow
  <2>1. d \in Deliveries /\ status[d] = "WAITING"
    BY DEF Having
  <2>2. d \in Elements(inFlight)
    BY <2>1 DEF Resident, AllInv, PipelineInv, RowInv, ReadyIsQueued
  <2>3. ASSUME NEW w \in Workers, job[w] = d
        PROVE  wpc[w] = "complete"
    <3>1. wpc[w] # "idle" /\ wpc[w] \in WorkerPCs
      BY <2>1, <2>3, NoJobAssumption DEF AllInv, TypeInv, TypeOK, WorkerTypeOK
    <3>2. wpc[w] # "claim" /\ ~Holding(w)
      BY <2>1, <2>3
      DEF AllInv, PipelineInv, RowInv, TakenIsQueued, OwnerInv, HeldIsProcessing
    <3> QED BY <3>1, <3>2 DEF Holding, WorkerPCs
  <2> QED BY <2>1, <2>2, <2>3 DEF SlotsInv, SlotsKnown, Accounted, InHand
<1> QED BY <1>1, SlotsAlways, PTL

=============================================================================
