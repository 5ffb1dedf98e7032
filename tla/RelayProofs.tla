----------------------------- MODULE RelayProofs -----------------------------
(***************************************************************************)
(* Theorems about Relay, for every number of deliveries, workers and       *)
(* schedulers, every capacity and every combination of faults, unless a    *)
(* theorem names an assumption.                                            *)
(*                                                                         *)
(*   TypeCorrect      every variable keeps its type                        *)
(*   CapacityHeld     Redis never holds more than Capacity jobs            *)
(*   SingleSender, LifecycleImplemented, SettledStays                      *)
(*                    with one scheduler and timers that outlast the       *)
(*                    workers: no delivery is sent by two workers at once, *)
(*                    the pipeline implements DeliveryLifecycle, and only  *)
(*                    a replay leads out of DELIVERED and FAILED           *)
(***************************************************************************)
EXTENDS Relay, WindowTheorems

(* A batch never exceeds the room it was claimed for.  It makes the type   *)
(* of room inductive: `remaining` is never negative.                       *)
BatchFits ==
    \A s \in Schedulers : spc[s] = "publish" => Len(batch[s]) <= room[s]

TypeInv == TypeOK /\ BatchFits

(* The part of it that is not about Redis.                                 *)
ProcessInv ==
    /\ RowTypeOK
    /\ WorkerTypeOK
    /\ SchedulerTypeOK
    /\ HistoryTypeOK
    /\ BatchFits

(* The size of the next batch, and the batch itself.                       *)
LEMMA LesserProperties ==
    ASSUME NEW m \in Nat, NEW n \in Nat
    PROVE  Lesser(m, n) \in Nat /\ Lesser(m, n) <= m /\ Lesser(m, n) <= n
  BY DEF Lesser

LEMMA EligibleFinite == IsFiniteSet(Eligible) /\ Cardinality(Eligible) \in Nat
<1>1. Eligible \in SUBSET Deliveries
  BY DEF Eligible, Having
<1>2. QED
  BY <1>1, DeliveriesAssumption, FS_Subset, FS_CardinalityType

LEMMA SelectionProperties ==
    ASSUME NEW limit \in Nat, NEW ids \in Selections(limit)
    PROVE  /\ ids \in Seq(Deliveries)
           /\ Len(ids) <= limit
           /\ Elements(ids) \subseteq Eligible
<1> DEFINE size == Lesser(limit, Cardinality(Eligible))
<1>1. size \in Nat /\ size <= limit
  BY EligibleFinite, LesserProperties
<1>2. ids \in [1..size -> Eligible]
  BY DEF Selections
<1>3. Eligible \subseteq Deliveries
  BY DEF Eligible, Having
<1> HIDE DEF size
<1>4. ids \in Seq(Deliveries) /\ Len(ids) = size /\ DOMAIN ids = 1..size
  BY <1>1, <1>2, <1>3
<1>5. QED
  BY <1>1, <1>2, <1>4 DEF Elements

(* A step leaves Redis alone, or runs one of its commands.                 *)
LEMMA OneCommand ==
    ASSUME [Next]_vars
    PROVE  \/ UNCHANGED windowVars
           \/ \E d \in Deliveries : Claim(d)
           \/ \E w \in Workers : wpc[w] = "complete" /\ Complete(job[w])
           \/ \E s \in Schedulers : Release(found[s]) \/ Enqueue(batch[s])
           \/ RedisRestart
<1>1. ASSUME NEW w \in Workers, WorkerStep(w)
      PROVE  \/ UNCHANGED windowVars
             \/ \E d \in Deliveries : Claim(d)
             \/ CompleteJob(w)
  BY <1>1 DEF WorkerStep, TakeJob, ClaimRow, SkipRow, ReadRow, RecordRow,
              RecordSuccess, RecordRetry, RecordFailed, RecordGone
<1>2. ASSUME NEW s \in Schedulers, SchedulerStep(s)
      PROVE  \/ UNCHANGED windowVars
             \/ Release(found[s])
             \/ Enqueue(batch[s])
  BY <1>2 DEF SchedulerStep, ReapFind, ReapUpdate, ReleaseSlots, SweepFind,
              CheckWindow, ResetOrphans, MeasureReady, MeasureInFlight,
              ClaimBatch, NothingEligible, Publish, ResetRejected
<1>3. ASSUME NEW d \in Deliveries, ApiCall(d) \/ TimePasses(d)
      PROVE  UNCHANGED windowVars
  BY <1>3 DEF ApiCall, CreateDelivery, Replay, DeleteDelivery, TimePasses,
              RetryFallsDue, LeaseExpires, GraceElapses
<1>4. ASSUME NEW w \in Workers, QueryFails(w) \/ WorkerCrash(w)
      PROVE  UNCHANGED windowVars
  BY <1>4 DEF QueryFails, WorkerCrash
<1>5. ASSUME NEW s \in Schedulers,
             \/ OfferFails(s)
             \/ OfferReplyLost(s)
             \/ ReleaseReplyLost(s)
             \/ SchedulerAbort(s)
      PROVE  \/ UNCHANGED windowVars
             \/ Release(found[s])
             \/ Enqueue(batch[s])
  BY <1>5 DEF OfferFails, OfferReplyLost, ReleaseReplyLost, SchedulerAbort
<1>6. CASE UNCHANGED vars
  BY <1>6 DEF vars
<1> QED
  BY <1>1, <1>2, <1>3, <1>4, <1>5, <1>6
  DEF Next, CompleteJob, CompleteReplyLost, RedisFlushed

LEMMA WindowStep ==
    ASSUME TypeInv, [Next]_vars
    PROVE  WindowTypeOK' /\ (WindowBounded => WindowBounded')
  BY OneCommand, UnchangedWindowSafe, ClaimSafe, CompleteSafe, ReleaseSafe, EnqueueSafe,
     EmptyWindowSafe
  DEF TypeInv, TypeOK, SchedulerTypeOK

(* Worker steps keep the types.                                            *)
LEMMA WorkerTypes ==
    ASSUME TypeInv, NEW w \in Workers,
           \/ WorkerStep(w)
           \/ QueryFails(w)
           \/ CompleteReplyLost(w)
           \/ WorkerCrash(w)
    PROVE  ProcessInv'
<1> USE DEF TypeInv, TypeOK, ProcessInv, RowTypeOK, WorkerTypeOK,
            SchedulerTypeOK, HistoryTypeOK, BatchFits, Statuses,
            rowVars, schedulerVars, historyVars
<1>1. CASE TakeJob(w)
  <2>1. PICK d \in Deliveries : Claim(d) /\ job' = [job EXCEPT ![w] = d]
    BY <1>1 DEF TakeJob
  <2>2. QED
    BY <1>1, <2>1, NoJobAssumption DEF TakeJob, WorkerPCs
<1>2. wpc[w] # "idle" => job[w] \in Deliveries
  OBVIOUS
<1>3. CASE ClaimRow(w)
  BY <1>2, <1>3 DEF ClaimRow, WorkerGoes, Put, WorkerPCs
<1>4. CASE SkipRow(w)
  BY <1>2, <1>4 DEF SkipRow, WorkerGoes, WorkerPCs
<1>5. CASE ReadRow(w)
  <2>1. wpc[w] = "read" /\ UNCHANGED <<windowVars, rowVars, schedulerVars, historyVars>>
    BY <1>5 DEF ReadRow
  <2>2. CASE status[job[w]] = "DELETED"
    <3>1. WorkerGoes(w, "complete") /\ UNCHANGED attemptRead
      BY <1>5, <2>2 DEF ReadRow
    <3>2. QED
      BY <1>2, <2>1, <3>1 DEF WorkerGoes, WorkerPCs
  <2>3. CASE status[job[w]] # "DELETED"
    <3>1. /\ WorkerGoes(w, "send")
          /\ attemptRead' = [attemptRead EXCEPT ![w] = attempt[job[w]]]
      BY <1>5, <2>3 DEF ReadRow
    <3>2. job[w] \in Deliveries /\ attempt[job[w]] \in Nat
      BY <1>2, <2>1
    <3>3. attemptRead' \in [Workers -> Nat]
      BY <3>1, <3>2
    <3>4. QED
      BY <1>2, <2>1, <3>1, <3>3 DEF WorkerGoes, WorkerPCs
  <2>4. QED
    BY <2>2, <2>3
<1>6. CASE RecordGone(w)
  BY <1>2, <1>6 DEF RecordGone, WorkerGoes, WorkerPCs
<1>7. CASE CompleteJob(w)
  BY <1>2, <1>7 DEF CompleteJob, WorkerIdles, WorkerPCs
<1>8. CASE QueryFails(w)
  BY <1>2, <1>8 DEF QueryFails, Fault, WorkerGoes, WorkerPCs
<1>9. CASE WorkerCrash(w)
  BY <1>2, <1>9 DEF WorkerCrash, Fault, WorkerIdles, WorkerPCs
<1>10. ASSUME NEW newStatus \in Statuses, NEW retryAt \in {"null", "future"},
             RecordRow(w, newStatus, retryAt)
      PROVE  ProcessInv'
  BY <1>2, <1>10 DEF RecordRow, WorkerGoes, Put, WorkerPCs
<1>11. CASE RecordSuccess(w) \/ RecordRetry(w) \/ RecordFailed(w)
  BY <1>10, <1>11 DEF RecordSuccess, RecordRetry, RecordFailed
<1>12. CASE CompleteReplyLost(w)
  BY <1>12 DEF CompleteReplyLost, ReplyLost, Fault, workerVars
<1>13. QED
  BY <1>1, <1>3, <1>4, <1>5, <1>6, <1>7, <1>8, <1>9, <1>11, <1>12 DEF WorkerStep

(* Scheduler steps keep the types, and a batch within its room.            *)
LEMMA SchedulerTypes ==
    ASSUME TypeInv, NEW s \in Schedulers,
           \/ SchedulerStep(s)
           \/ OfferFails(s)
           \/ OfferReplyLost(s)
           \/ ReleaseReplyLost(s)
           \/ SchedulerAbort(s)
    PROVE  ProcessInv'
<1> USE DEF TypeInv, TypeOK, ProcessInv, RowTypeOK, WorkerTypeOK,
            SchedulerTypeOK, HistoryTypeOK, BatchFits, Statuses, SchedulerPCs,
            rowVars, workerVars, schedulerVars, historyVars
<1>1. <<>> \in Seq(Deliveries) /\ Len(<<>>) = 0
  BY EmptySeq
<1>2. Len(ready) \in Nat /\ Len(inFlight) \in Nat
  BY LenProperties DEF WindowTypeOK
<1>3. CASE ReapFind(s)
  BY <1>3 DEF ReapFind, SchedulerFinds, SchedulerGoes, Having
<1>4. CASE ReapUpdate(s)
  BY <1>4 DEF ReapUpdate, SchedulerGoes, Having, Put
<1>5. CASE ReleaseSlots(s)
  BY <1>5 DEF ReleaseSlots, SchedulerFinds, SchedulerGoes
<1>6. CASE SweepFind(s)
  BY <1>6 DEF SweepFind, SchedulerFinds, SchedulerGoes, Having
<1>7. CASE CheckWindow(s)
  BY <1>7 DEF CheckWindow, SchedulerFinds, SchedulerGoes, NotInWindow
<1>8. CASE ResetOrphans(s)
  BY <1>8 DEF ResetOrphans, ResetToPending, SchedulerFinds, SchedulerGoes, Having, Put
<1>9. CASE MeasureReady(s)
  BY <1>2, <1>9 DEF MeasureReady, SchedulerGoes
<1>10. CASE MeasureInFlight(s)
  <2> DEFINE measured == RoomBeside(readyLen[s] + Len(inFlight))
  <2>1. measured \in Nat
    <3>1. readyLen[s] \in Nat
      OBVIOUS
    <3>2. readyLen[s] + Len(inFlight) \in Nat
      BY ONLY <1>2, <3>1
    <3>3. QED
      BY ONLY <3>2, RoomBesideNat
  <2> HIDE DEF measured
  <2>2. Refill(s, measured) /\ readyLen' = [readyLen EXCEPT ![s] = 0]
    BY <1>10 DEF MeasureInFlight, measured
  <2>3. UNCHANGED <<rowVars, workerVars, historyVars>>
    BY <1>10 DEF MeasureInFlight
  <2>4. QED
    BY <1>1, <2>1, <2>2, <2>3 DEF Refill, SchedulerGoes
<1>11. CASE ClaimBatch(s)
  <2> DEFINE limit == Lesser(room[s], BatchSize)
  <2>1. limit \in Nat /\ limit <= room[s]
    BY SizesAssumption, LesserProperties
  <2> HIDE DEF limit
  <2>2. PICK ids \in Selections(limit) :
            /\ status' = Put(status, Elements(ids), "QUEUED")
            /\ updatedAt' = Put(updatedAt, Elements(ids), "recent")
            /\ batch' = [batch EXCEPT ![s] = ids]
    BY <1>11 DEF ClaimBatch, limit
  <2>3. ids \in Seq(Deliveries) /\ Len(ids) <= limit
    BY <2>1, SelectionProperties
  <2>4. /\ SchedulerGoes(s, "publish")
        /\ UNCHANGED <<attempt, nextRetryAt, lockedAt, workerVars, found,
                       readyLen, room, historyVars>>
    BY <1>11 DEF ClaimBatch
  <2>5. Len(ids) \in Nat /\ Len(ids) <= room[s]
    BY <2>1, <2>3, LenProperties
  <2>6. QED
    BY <2>2, <2>3, <2>4, <2>5 DEF SchedulerGoes, Put
<1>12. CASE NothingEligible(s)
  BY <1>1, <1>12 DEF NothingEligible, SchedulerSleeps, SchedulerGoes
<1>13. CASE Publish(s)
  <2> DEFINE taken == Accepted(batch[s])
             remaining == Remaining(s, taken)
             rejected == Elements(batch[s]) \ Elements(taken)
  <2>1. Len(taken) \in Nat /\ Len(taken) <= Len(batch[s])
    BY AcceptedProperties
  <2>2. Len(batch[s]) \in Nat /\ Len(batch[s]) <= room[s]
    BY <1>13, LenProperties DEF Publish
  <2>3. remaining \in Nat
    BY <2>1, <2>2 DEF Remaining
  <2>4. rejected \subseteq Deliveries
    BY LenProperties, ElementOfSeq DEF Elements
  <2> HIDE DEF taken, remaining, rejected
  <2>5. UNCHANGED <<rowVars, workerVars, readyLen, historyVars>>
    BY <1>13 DEF Publish
  <2>6. \/ Refill(s, remaining)
        \/ /\ SchedulerGoes(s, "resetRejected")
           /\ found' = [found EXCEPT ![s] = rejected]
           /\ room' = [room EXCEPT ![s] = remaining]
           /\ batch' = [batch EXCEPT ![s] = <<>>]
    BY <1>13 DEF Publish, taken, remaining, rejected
  <2>7. CASE Refill(s, remaining)
    BY <1>1, <2>3, <2>5, <2>7 DEF Refill, SchedulerGoes
  <2>8. CASE ~Refill(s, remaining)
    <3>1. /\ SchedulerGoes(s, "resetRejected")
          /\ found' = [found EXCEPT ![s] = rejected]
          /\ room' = [room EXCEPT ![s] = remaining]
          /\ batch' = [batch EXCEPT ![s] = <<>>]
      BY <2>6, <2>8
    <3>2. QED
      BY <1>1, <2>3, <2>4, <2>5, <3>1 DEF SchedulerGoes
  <2>9. QED
    BY <2>7, <2>8
<1>14. CASE ResetRejected(s)
  BY <1>1, <1>14 DEF ResetRejected, ResetToPending, Refill, SchedulerGoes, Having, Put
<1>15. CASE OfferFails(s)
  <2>1. Elements(batch[s]) \subseteq Deliveries
    BY LenProperties, ElementOfSeq DEF Elements
  <2>2. QED
    BY <1>1, <1>15, <2>1 DEF OfferFails, Fault, SchedulerGoes
<1>16. CASE OfferReplyLost(s) \/ ReleaseReplyLost(s)
  BY <1>16 DEF OfferReplyLost, ReleaseReplyLost, ReplyLost, Fault
<1>17. CASE SchedulerAbort(s)
  BY <1>1, <1>17 DEF SchedulerAbort, Fault, SchedulerSleeps, SchedulerGoes
<1>18. QED
  BY <1>3, <1>4, <1>5, <1>6, <1>7, <1>8, <1>9, <1>10, <1>11, <1>12, <1>13, <1>14, <1>15,
     <1>16, <1>17 DEF SchedulerStep

(* So do the API, time and Redis.                                          *)
LEMMA EnvironmentTypes ==
    ASSUME TypeInv,
           \/ \E d \in Deliveries : ApiCall(d) \/ TimePasses(d)
           \/ RedisFlushed
    PROVE  ProcessInv'
<1> USE DEF TypeInv, TypeOK, ProcessInv, RowTypeOK, WorkerTypeOK,
            SchedulerTypeOK, HistoryTypeOK, BatchFits, Statuses,
            rowVars, workerVars, schedulerVars, historyVars
<1>1. ASSUME NEW d \in Deliveries, CreateDelivery(d)
      PROVE  ProcessInv'
  BY <1>1 DEF CreateDelivery, Put
<1>2. ASSUME NEW d \in Deliveries, Replay(d)
      PROVE  ProcessInv'
  BY <1>2 DEF Replay, Put
<1>3. ASSUME NEW d \in Deliveries, DeleteDelivery(d)
      PROVE  ProcessInv'
  BY <1>3 DEF DeleteDelivery, Put
<1>4. ASSUME NEW d \in Deliveries, RetryFallsDue(d)
      PROVE  ProcessInv'
  BY <1>4 DEF RetryFallsDue, Put
<1>5. ASSUME NEW d \in Deliveries, LeaseExpires(d)
      PROVE  ProcessInv'
  BY <1>5 DEF LeaseExpires, OutlastsWorkers, Fault, Put
<1>6. ASSUME NEW d \in Deliveries, GraceElapses(d)
      PROVE  ProcessInv'
  BY <1>6 DEF GraceElapses, OutlastsWorkers, Fault, Put
<1>7. CASE RedisFlushed
  BY <1>7 DEF RedisFlushed, Fault
<1>8. QED
  BY <1>1, <1>2, <1>3, <1>4, <1>5, <1>6, <1>7 DEF ApiCall, TimePasses

LEMMA TypeInitially == Init => TypeInv
<1> SUFFICES ASSUME Init PROVE TypeInv
  OBVIOUS
<1>1. WindowTypeOK
  BY EmptyWindowSafe DEF Init
<1>2. <<>> \in Seq(Deliveries)
  BY EmptySeq
<1>3. QED
  BY <1>1, <1>2, NoJobAssumption
  DEF Init, TypeInv, TypeOK, RowTypeOK, WorkerTypeOK, SchedulerTypeOK,
      HistoryTypeOK, BatchFits, Statuses, WorkerPCs, SchedulerPCs

LEMMA TypeStep == TypeInv /\ [Next]_vars => TypeInv'
<1> SUFFICES ASSUME TypeInv, [Next]_vars PROVE TypeInv'
  OBVIOUS
<1>1. WindowTypeOK'
  BY WindowStep
<1>2. ProcessInv'
  <2>1. CASE UNCHANGED vars
    BY <2>1 DEF TypeInv, TypeOK, ProcessInv, RowTypeOK, WorkerTypeOK,
                SchedulerTypeOK, HistoryTypeOK, BatchFits, vars, rowVars,
                workerVars, schedulerVars, historyVars
  <2>2. QED
    BY <2>1, WorkerTypes, SchedulerTypes, EnvironmentTypes DEF Next
<1>3. QED
  BY <1>1, <1>2 DEF TypeInv, TypeOK, ProcessInv

(***************************************************************************)
(* Every variable of the pipeline keeps its type; in particular the        *)
(* scheduler's `remaining` (scheduler.ts:101) is never negative.           *)
(***************************************************************************)
THEOREM TypeCorrect == Spec => []TypeOK
<1>1. TypeInv => TypeOK
  BY DEF TypeInv
<1>2. QED
  BY <1>1, TypeInitially, TypeStep, PTL DEF Spec

(***************************************************************************)
(* Relay's central claim: ready and in-flight jobs together never exceed   *)
(* the capacity, with any number of schedulers and workers, whatever fails *)
(* and whatever the schedulers believe the occupancy to be.                *)
(***************************************************************************)
THEOREM CapacityHeld == Spec => []WindowBounded
<1>1. Init => WindowBounded
  BY EmptyWindowSafe DEF Init
<1>2. TypeInv /\ WindowBounded /\ [Next]_vars => WindowBounded'
  BY WindowStep
<1>3. QED
  BY <1>1, <1>2, TypeInitially, TypeStep, PTL DEF Spec

----------------------------------------------------------------------------
(***************************************************************************)
(* Two workers never send the same delivery.  Nothing in the code says who *)
(* owns a row, so the invariant has to: a row is PROCESSING while a worker *)
(* holds it, two workers never hold the same one, a held row is not        *)
(* expired, and what the reaper has found is expired (or gone).  With one  *)
(* scheduler nothing can happen to those rows between the reaper's query   *)
(* and its update: only a holder or a reaper moves a PROCESSING row.       *)
(***************************************************************************)
Holding(w) == wpc[w] \in {"read", "send"}

HeldIsProcessing ==
    \A w \in Workers : Holding(w) => status[job[w]] \in {"PROCESSING", "DELETED"}

HeldOnce ==
    \A v, w \in Workers : Holding(v) /\ Holding(w) /\ job[v] = job[w] => v = w

HeldIsLive ==
    \A w \in Workers : Holding(w) => lockedAt[job[w]] # "expired"

FoundIsExpired ==
    \A s \in Schedulers : spc[s] = "reapUpdate" =>
        \A d \in found[s] :
            \/ status[d] = "PROCESSING" /\ lockedAt[d] = "expired"
            \/ status[d] = "DELETED"

OwnerInv ==
    /\ HeldIsProcessing
    /\ HeldOnce
    /\ HeldIsLive
    /\ FoundIsExpired

OneScheduler == \A s, t \in Schedulers : s = t
TimersOutlastWorkers == "late" \notin Faults

LEMMA OwnerWorker ==
    ASSUME TypeInv, OwnerInv, NEW w \in Workers,
           \/ WorkerStep(w)
           \/ QueryFails(w)
           \/ CompleteReplyLost(w)
           \/ WorkerCrash(w)
    PROVE  OwnerInv'
<1> USE DEF TypeInv, TypeOK, RowTypeOK, WorkerTypeOK, SchedulerTypeOK, Holding,
            OwnerInv, HeldIsProcessing, HeldOnce, HeldIsLive, FoundIsExpired,
            rowVars, schedulerVars
<1>1. wpc[w] # "idle" => job[w] \in Deliveries
  OBVIOUS
<1>2. CASE TakeJob(w)
  <2>1. PICK d \in Deliveries : job' = [job EXCEPT ![w] = d]
    BY <1>2 DEF TakeJob
  <2>2. QED
    BY <1>2, <2>1 DEF TakeJob
<1>3. CASE ClaimRow(w)
  <2> DEFINE d == job[w]
  <2>1. /\ d \in Deliveries
        /\ status[d] = "QUEUED"
        /\ status' = [status EXCEPT ![d] = "PROCESSING"]
        /\ lockedAt' = [lockedAt EXCEPT ![d] = "fresh"]
        /\ wpc' = [wpc EXCEPT ![w] = "read"]
        /\ UNCHANGED <<job, schedulerVars>>
    BY <1>1, <1>3 DEF ClaimRow, WorkerGoes, Put
  <2>2. \A v \in Workers : v # w /\ Holding(v) => job[v] \in Deliveries \ {d}
    <3> TAKE v \in Workers
    <3> HAVE v # w /\ Holding(v)
    <3>1. job[v] \in Deliveries
      OBVIOUS
    <3>2. status[job[v]] # "QUEUED"
      OBVIOUS
    <3>3. QED
      BY ONLY <2>1, <3>1, <3>2
  <2> HIDE DEF d
  <2>3. HeldIsProcessing' /\ HeldIsLive'
    BY <2>1, <2>2 DEF d
  <2>4. HeldOnce'
    BY <2>1, <2>2 DEF d
  <2>5. FoundIsExpired'
    BY <2>1
  <2>6. QED
    BY <2>3, <2>4, <2>5
<1>4. CASE SkipRow(w)
  BY <1>4 DEF SkipRow, WorkerGoes
<1>5. CASE ReadRow(w)
  <2>1. /\ wpc[w] = "read"
        /\ \E pc \in {"complete", "send"} : wpc' = [wpc EXCEPT ![w] = pc]
        /\ UNCHANGED <<rowVars, job, schedulerVars>>
    BY <1>5 DEF ReadRow, WorkerGoes
  <2>2. \A v \in Workers : Holding(v)' => Holding(v)
    BY <2>1
  <2>3. QED
    BY <2>1, <2>2
<1>6. ASSUME NEW newStatus, NEW retryAt, RecordRow(w, newStatus, retryAt)
      PROVE  OwnerInv'
  BY <1>1, <1>6 DEF RecordRow, WorkerGoes, Put
<1>7. CASE RecordGone(w)
  BY <1>7 DEF RecordGone, WorkerGoes
<1>8. CASE CompleteJob(w)
  BY <1>8 DEF CompleteJob, WorkerIdles
<1>9. CASE QueryFails(w)
  BY <1>9 DEF QueryFails, WorkerGoes
<1>10. CASE WorkerCrash(w)
  BY <1>10 DEF WorkerCrash, WorkerIdles
<1>11. CASE CompleteReplyLost(w)
  BY <1>11 DEF CompleteReplyLost, ReplyLost, workerVars
<1>12. QED
  BY <1>2, <1>3, <1>4, <1>5, <1>6, <1>7, <1>8, <1>9, <1>10, <1>11
  DEF WorkerStep, RecordSuccess, RecordRetry, RecordFailed

(* A scheduler step that changes only the status of rows nobody holds, to  *)
(* a status that is not PROCESSING, and does not enter "reapUpdate".       *)
LEMMA OwnerMove ==
    ASSUME TypeInv, OwnerInv, NEW s \in Schedulers, NEW pc, pc # "reapUpdate",
           SchedulerGoes(s, pc), UNCHANGED workerVars, OneScheduler,
           NEW hit \in SUBSET Deliveries, NEW newStatus,
           \A d \in hit : status[d] \in {"PENDING", "WAITING", "QUEUED"},
           status' = Put(status, hit, newStatus),
           \A d \in Deliveries : lockedAt'[d] \in {lockedAt[d], "null"}
    PROVE  OwnerInv'
<1> USE DEF TypeInv, TypeOK, RowTypeOK, WorkerTypeOK, SchedulerTypeOK, Holding,
            OwnerInv, HeldIsProcessing, HeldOnce, HeldIsLive, FoundIsExpired,
            workerVars
<1>1. \A w \in Workers : Holding(w) =>
          /\ job[w] \in Deliveries
          /\ status'[job[w]] = status[job[w]]
          /\ lockedAt'[job[w]] # "expired"
  <2> TAKE w \in Workers
  <2> HAVE Holding(w)
  <2>1. job[w] \in Deliveries
    OBVIOUS
  <2>2. job[w] \notin hit
    OBVIOUS
  <2>3. QED
    BY <2>1, <2>2 DEF Put
<1>2. FoundIsExpired'
  BY DEF OneScheduler, SchedulerGoes
<1>3. QED
  BY <1>1, <1>2

LEMMA OwnerScheduler ==
    ASSUME TypeInv, OwnerInv, OneScheduler, NEW s \in Schedulers,
           \/ SchedulerStep(s)
           \/ OfferFails(s)
           \/ OfferReplyLost(s)
           \/ ReleaseReplyLost(s)
           \/ SchedulerAbort(s)
    PROVE  OwnerInv'
<1> USE DEF rowVars, schedulerVars, workerVars
<1>1. ASSUME NEW pc, pc # "reapUpdate", SchedulerGoes(s, pc),
             UNCHANGED <<rowVars, workerVars>>
      PROVE  OwnerInv'
  <2>1. status' = Put(status, {}, "PENDING")
    BY <1>1 DEF Put, TypeInv, TypeOK, RowTypeOK
  <2>2. QED
    BY <1>1, <2>1, OwnerMove
<1>2. ASSUME NEW pc, pc # "reapUpdate", SchedulerGoes(s, pc),
             NEW ids \in SUBSET Deliveries, ResetToPending(ids),
             UNCHANGED workerVars
      PROVE  OwnerInv'
  <2> DEFINE hit == ids \cap Having({"QUEUED"})
  <2>1. /\ hit \in SUBSET Deliveries
        /\ \A d \in hit : status[d] \in {"PENDING", "WAITING", "QUEUED"}
    BY DEF Having
  <2>2. status' = Put(status, hit, "PENDING") /\ lockedAt' = Put(lockedAt, hit, "null")
    BY <1>2 DEF ResetToPending
  <2>3. \A d \in Deliveries : lockedAt'[d] \in {lockedAt[d], "null"}
    BY <2>2 DEF Put
  <2> HIDE DEF hit
  <2>4. QED
    BY <1>2, <2>1, <2>2, <2>3, OwnerMove
<1>3. found[s] \in SUBSET Deliveries
  BY DEF TypeInv, TypeOK, SchedulerTypeOK
<1>4. CASE ReapFind(s)
  BY <1>4 DEF ReapFind, SchedulerFinds, SchedulerGoes, Having, Holding, OwnerInv,
              HeldIsProcessing, HeldOnce, HeldIsLive, FoundIsExpired, TypeInv,
              TypeOK, SchedulerTypeOK, OneScheduler
<1>5. CASE ReapUpdate(s)
  <2> DEFINE hit == found[s] \cap Having({"PROCESSING"})
  <2>1. /\ spc[s] = "reapUpdate"
        /\ SchedulerGoes(s, "release")
        /\ status' = Put(status, hit, "WAITING")
        /\ lockedAt' = Put(lockedAt, hit, "null")
        /\ UNCHANGED <<workerVars, found>>
    BY <1>5 DEF ReapUpdate
  <2>2. \A w \in Workers : Holding(w) => job[w] \notin hit /\ job[w] \in Deliveries
    BY <2>1 DEF Having, Holding, OwnerInv, HeldIsLive, FoundIsExpired, TypeInv,
                TypeOK, WorkerTypeOK
  <2>3. FoundIsExpired'
    BY <2>1 DEF FoundIsExpired, SchedulerGoes, OneScheduler, TypeInv, TypeOK,
                SchedulerTypeOK
  <2> HIDE DEF hit
  <2>4. QED
    BY <2>1, <2>2, <2>3 DEF OwnerInv, HeldIsProcessing, HeldOnce, HeldIsLive,
                            Holding, Put
<1>6. CASE ReleaseSlots(s)
  BY <1>1, <1>6 DEF ReleaseSlots, SchedulerFinds
<1>7. CASE SweepFind(s)
  <2>1. \E pc \in {"checkWindow", "measureReady"} : SchedulerGoes(s, pc)
    BY <1>7 DEF SweepFind, SchedulerFinds
  <2>2. QED
    BY <1>1, <1>7, <2>1 DEF SweepFind
<1>8. CASE CheckWindow(s)
  <2>1. \E pc \in {"resetOrphans", "measureReady"} : SchedulerGoes(s, pc)
    BY <1>8 DEF CheckWindow, SchedulerFinds
  <2>2. QED
    BY <1>1, <1>8, <2>1 DEF CheckWindow
<1>9. CASE ResetOrphans(s)
  BY <1>2, <1>3, <1>9 DEF ResetOrphans, SchedulerFinds
<1>10. CASE MeasureReady(s)
  BY <1>1, <1>10 DEF MeasureReady
<1>11. ASSUME NEW remaining, Refill(s, remaining)
       PROVE  \E pc \in {"sleep", "claimBatch"} : SchedulerGoes(s, pc)
  BY <1>11 DEF Refill
<1>12. CASE MeasureInFlight(s)
  BY <1>1, <1>11, <1>12 DEF MeasureInFlight
<1>13. CASE ClaimBatch(s)
  <2>1. PICK ids \in Selections(Lesser(room[s], BatchSize)) :
            status' = Put(status, Elements(ids), "QUEUED")
    BY <1>13 DEF ClaimBatch
  <2>2. Lesser(room[s], BatchSize) \in Nat
    BY SizesAssumption, LesserProperties DEF TypeInv, TypeOK, SchedulerTypeOK
  <2>3. Elements(ids) \subseteq Eligible
    BY <2>1, <2>2, SelectionProperties
  <2>4. /\ Elements(ids) \in SUBSET Deliveries
        /\ \A d \in Elements(ids) : status[d] \in {"PENDING", "WAITING", "QUEUED"}
    BY <2>3 DEF Eligible, Having
  <2>5. SchedulerGoes(s, "publish") /\ UNCHANGED <<workerVars, lockedAt>>
    BY <1>13 DEF ClaimBatch
  <2>6. QED
    BY <2>1, <2>4, <2>5, OwnerMove
<1>14. CASE NothingEligible(s)
  BY <1>1, <1>14 DEF NothingEligible, SchedulerSleeps
<1>15. CASE Publish(s)
  <2>1. \E pc \in {"sleep", "claimBatch", "resetRejected"} : SchedulerGoes(s, pc)
    BY <1>11, <1>15 DEF Publish
  <2>2. QED
    BY <1>1, <1>15, <2>1 DEF Publish
<1>16. CASE ResetRejected(s)
  <2>1. \E pc \in {"sleep", "claimBatch"} : SchedulerGoes(s, pc)
    BY <1>11, <1>16 DEF ResetRejected
  <2>2. QED
    BY <1>2, <1>3, <1>16, <2>1 DEF ResetRejected
<1>17. CASE OfferFails(s)
  BY <1>1, <1>17 DEF OfferFails
<1>18. CASE OfferReplyLost(s) \/ ReleaseReplyLost(s)
  BY <1>18 DEF OfferReplyLost, ReleaseReplyLost, ReplyLost, Holding, OwnerInv,
               HeldIsProcessing, HeldOnce, HeldIsLive, FoundIsExpired
<1>19. CASE SchedulerAbort(s)
  BY <1>1, <1>19 DEF SchedulerAbort, SchedulerSleeps
<1>20. QED
  BY <1>4, <1>5, <1>6, <1>7, <1>8, <1>9, <1>10, <1>12, <1>13, <1>14, <1>15,
     <1>16, <1>17, <1>18, <1>19 DEF SchedulerStep

LEMMA OwnerEnvironment ==
    ASSUME TypeInv, OwnerInv, TimersOutlastWorkers,
           \/ \E d \in Deliveries : ApiCall(d) \/ TimePasses(d)
           \/ RedisFlushed
    PROVE  OwnerInv'
<1> USE DEF TypeInv, TypeOK, RowTypeOK, WorkerTypeOK, SchedulerTypeOK, Holding,
            OwnerInv, HeldIsProcessing, HeldOnce, HeldIsLive, FoundIsExpired,
            rowVars, workerVars, schedulerVars
<1>1. \A w \in Workers : Holding(w) => job[w] \in Deliveries
  OBVIOUS
<1>2. \A s \in Schedulers : found[s] \subseteq Deliveries
  OBVIOUS
<1>3. ASSUME NEW d \in Deliveries, CreateDelivery(d)
      PROVE  OwnerInv'
  BY <1>1, <1>2, <1>3 DEF CreateDelivery, Put
<1>4. ASSUME NEW d \in Deliveries, Replay(d)
      PROVE  OwnerInv'
  BY <1>1, <1>2, <1>4 DEF Replay, Put
<1>5. ASSUME NEW d \in Deliveries, DeleteDelivery(d)
      PROVE  OwnerInv'
  BY <1>1, <1>2, <1>5 DEF DeleteDelivery, Put
<1>6. ASSUME NEW d \in Deliveries, RetryFallsDue(d)
      PROVE  OwnerInv'
  BY <1>1, <1>2, <1>6 DEF RetryFallsDue, Put
<1>7. ASSUME NEW d \in Deliveries, GraceElapses(d)
      PROVE  OwnerInv'
  BY <1>1, <1>2, <1>7 DEF GraceElapses, Put
<1>8. ASSUME NEW d \in Deliveries, LeaseExpires(d)
      PROVE  OwnerInv'
  <2>1. \A w \in Workers : job[w] # d
    BY <1>8 DEF LeaseExpires, OutlastsWorkers, InHand, TimersOutlastWorkers
  <2>2. QED
    BY <1>1, <1>2, <1>8, <2>1 DEF LeaseExpires, Put
<1>9. CASE RedisFlushed
  BY <1>9 DEF RedisFlushed
<1>10. QED
  BY <1>3, <1>4, <1>5, <1>6, <1>7, <1>8, <1>9 DEF ApiCall, TimePasses

LEMMA OwnerInitially == Init => OwnerInv
  BY DEF Init, OwnerInv, Holding, HeldIsProcessing, HeldOnce, HeldIsLive,
         FoundIsExpired

LEMMA OwnerStep ==
    ASSUME OneScheduler, TimersOutlastWorkers
    PROVE  TypeInv /\ OwnerInv /\ [Next]_vars => OwnerInv'
<1> SUFFICES ASSUME TypeInv, OwnerInv, [Next]_vars PROVE OwnerInv'
  OBVIOUS
<1>1. CASE UNCHANGED vars
  BY <1>1 DEF vars, rowVars, workerVars, schedulerVars, OwnerInv, Holding,
              HeldIsProcessing, HeldOnce, HeldIsLive, FoundIsExpired
<1>2. QED
  BY <1>1, OwnerWorker, OwnerScheduler, OwnerEnvironment DEF Next

(***************************************************************************)
(* "Two workers must never send the same webhook" (walkthrough-m4.md:165), *)
(* whatever crashes, fails, is deleted or replayed and even if Redis       *)
(* forgets everything: with one scheduler, and timers that outlast the     *)
(* workers.  Neither can be left out: the run TwoSchedulers, README 3.     *)
(***************************************************************************)
THEOREM SingleSender ==
    ASSUME OneScheduler, TimersOutlastWorkers
    PROVE  Spec => []NoConcurrentSend
<1>1. OwnerInv => NoConcurrentSend
  BY DEF OwnerInv, HeldOnce, Holding, NoConcurrentSend
<1>2. TypeInv /\ OwnerInv /\ [Next]_vars => OwnerInv'
  BY OwnerStep
<1>3. QED
  BY <1>1, <1>2, TypeInitially, TypeStep, OwnerInitially, PTL DEF Spec

----------------------------------------------------------------------------
(***************************************************************************)
(* The pipeline implements DeliveryLifecycle.  Beside OwnerInv this needs  *)
(* that the attempt a sender has read is still the attempt of its row: the *)
(* number it is going to write is the next one.                            *)
(***************************************************************************)
AttemptKnown ==
    \A w \in Workers : wpc[w] = "send" =>
        attemptRead[w] = attempt[job[w]] \/ status[job[w]] = "DELETED"

LifecycleInv == TypeInv /\ OwnerInv /\ AttemptKnown

(* Who sends what is unchanged, or one worker leaves, or one comes.        *)
LEMMA SenderSame ==
    ASSUME \A v \in Workers : /\ Holding(v)' <=> Holding(v)
                              /\ Holding(v) => job'[v] = job[v]
    PROVE  Sender' = Sender
  BY DEF Sender, Holding

LEMMA SenderLeaves ==
    ASSUME TypeInv, OwnerInv, NEW w \in Workers, Holding(w), ~Holding(w)',
           \A v \in Workers \ {w} : /\ Holding(v)' <=> Holding(v)
                                    /\ job'[v] = job[v]
    PROVE  /\ job[w] \in Deliveries
           /\ Sender[job[w]] = {w}
           /\ Sender' = [Sender EXCEPT ![job[w]] = {}]
<1>1. job[w] \in Deliveries
  BY DEF TypeInv, TypeOK, WorkerTypeOK, Holding
<1>2. \A v \in Workers : Holding(v) /\ job[v] = job[w] => v = w
  BY DEF OwnerInv, HeldOnce
<1> QED BY <1>1, <1>2 DEF Sender, Holding

LEMMA SenderComes ==
    ASSUME TypeInv, OwnerInv, NEW w \in Workers, ~Holding(w), Holding(w)',
           wpc[w] # "idle", status[job[w]] = "QUEUED", job' = job,
           \A v \in Workers \ {w} : Holding(v)' <=> Holding(v)
    PROVE  /\ job[w] \in Deliveries
           /\ Sender[job[w]] = {}
           /\ Sender' = [Sender EXCEPT ![job[w]] = {w}]
<1>1. job[w] \in Deliveries
  BY DEF TypeInv, TypeOK, WorkerTypeOK
<1>2. \A v \in Workers : Holding(v) => job[v] # job[w]
  BY DEF OwnerInv, HeldIsProcessing
<1> QED BY <1>1, <1>2 DEF Sender, Holding

(* Nobody sends what is neither PROCESSING nor deleted, nor what the lease *)
(* has run out for.                                                        *)
LEMMA NobodySends ==
    ASSUME TypeInv, OwnerInv, NEW d \in Deliveries,
           status[d] \notin {"PROCESSING", "DELETED"} \/ lockedAt[d] = "expired"
    PROVE  Sender[d] = {} /\ \A w \in Workers : Holding(w) => job[w] # d
  BY DEF OwnerInv, HeldIsProcessing, HeldIsLive, Sender, Holding

LifecycleStep == [Lifecycle!Next]_(Lifecycle!vars)

LEMMA LifecycleWorker ==
    ASSUME LifecycleInv, NEW w \in Workers,
           \/ WorkerStep(w)
           \/ QueryFails(w)
           \/ CompleteReplyLost(w)
           \/ WorkerCrash(w)
    PROVE  LifecycleStep /\ AttemptKnown'
<1> USE DEF rowVars
<1>0. /\ TypeInv /\ OwnerInv /\ AttemptKnown
      /\ wpc[w] # "idle" => job[w] \in Deliveries
      /\ wpc \in [Workers -> WorkerPCs]
      /\ status \in [Deliveries -> Statuses] /\ attempt \in [Deliveries -> Nat]
  BY DEF LifecycleInv, TypeInv, TypeOK, WorkerTypeOK, RowTypeOK
<1>1. ASSUME UNCHANGED rowVars,
             \A v \in Workers : /\ Holding(v)' <=> Holding(v)
                                /\ Holding(v) => job'[v] = job[v]
      PROVE  LifecycleStep
  BY <1>1, SenderSame DEF LifecycleStep, Lifecycle!vars
<1>2. ASSUME UNCHANGED rowVars, Holding(w), ~Holding(w)',
             \A v \in Workers \ {w} : /\ Holding(v)' <=> Holding(v)
                                      /\ job'[v] = job[v]
      PROVE  LifecycleStep
  <2>1. job[w] \in Deliveries /\ Lifecycle!Abandon(job[w], w)
    BY <1>0, <1>2, SenderLeaves DEF Lifecycle!Abandon
  <2> QED BY <2>1 DEF LifecycleStep, Lifecycle!Next
<1>3. CASE TakeJob(w)
  <2>1. PICK d \in Deliveries : job' = [job EXCEPT ![w] = d]
    BY <1>3 DEF TakeJob
  <2>2. /\ wpc[w] = "idle" /\ wpc' = [wpc EXCEPT ![w] = "claim"]
        /\ UNCHANGED <<rowVars, attemptRead>>
    BY <1>3 DEF TakeJob
  <2>3. LifecycleStep
    BY <1>0, <1>1, <2>1, <2>2 DEF Holding, TypeInv, TypeOK, WorkerTypeOK
  <2>4. AttemptKnown'
    BY <1>0, <2>1, <2>2 DEF AttemptKnown, TypeInv, TypeOK, WorkerTypeOK
  <2> QED BY <2>3, <2>4
<1>4. CASE ClaimRow(w)
  <2>1. /\ wpc[w] = "claim" /\ wpc' = [wpc EXCEPT ![w] = "read"] /\ job' = job
        /\ status[job[w]] = "QUEUED"
        /\ status' = Put(status, {job[w]}, "PROCESSING")
        /\ UNCHANGED <<attempt, attemptRead>>
    BY <1>4 DEF ClaimRow, WorkerGoes
  <2>2. Lifecycle!Begin(job[w], w)
    BY <1>0, <2>1, SenderComes DEF Holding, Lifecycle!Begin, Lifecycle!Move, Put
  <2>3. LifecycleStep
    BY <1>0, <2>1, <2>2 DEF LifecycleStep, Lifecycle!Next
  <2>4. AttemptKnown'
    <3>1. \A v \in Workers : wpc'[v] = "send" => v # w /\ wpc[v] = "send"
      BY <1>0, <2>1
    <3>2. \A d \in Deliveries : status[d] = "DELETED" => status'[d] = "DELETED"
      BY <1>0, <2>1 DEF Put
    <3>3. \A v \in Workers : wpc[v] = "send" => job[v] \in Deliveries
      BY <1>0 DEF TypeInv, TypeOK, WorkerTypeOK
    <3> QED BY <1>0, <2>1, <3>1, <3>2, <3>3 DEF AttemptKnown
  <2> QED BY <2>3, <2>4
<1>5. CASE SkipRow(w)
  BY <1>0, <1>1, <1>5 DEF SkipRow, WorkerGoes, Holding, AttemptKnown
<1>6. CASE ReadRow(w)
  <2>1. /\ wpc[w] = "read" /\ job' = job /\ UNCHANGED rowVars
        /\ \/ /\ wpc' = [wpc EXCEPT ![w] = "complete"] /\ UNCHANGED attemptRead
           \/ /\ wpc' = [wpc EXCEPT ![w] = "send"]
              /\ attemptRead' = [attemptRead EXCEPT ![w] = attempt[job[w]]]
    BY <1>6 DEF ReadRow, WorkerGoes
  <2>2. AttemptKnown'
    BY <1>0, <2>1 DEF AttemptKnown, TypeInv, TypeOK, WorkerTypeOK
  <2>3. LifecycleStep
    BY <1>0, <1>1, <1>2, <2>1 DEF Holding
  <2> QED BY <2>2, <2>3
<1>7. ASSUME NEW outcome \in {"DELIVERED", "WAITING", "FAILED"}, NEW retryAt,
             RecordRow(w, outcome, retryAt)
      PROVE  LifecycleStep /\ AttemptKnown'
  <2> DEFINE d == job[w]
  <2>1. /\ wpc[w] = "send" /\ wpc' = [wpc EXCEPT ![w] = "complete"] /\ job' = job
        /\ status[d] # "DELETED"
        /\ status' = Put(status, {d}, outcome)
        /\ attempt' = Put(attempt, {d}, attemptRead[w] + 1)
        /\ attemptRead' = [attemptRead EXCEPT ![w] = 0]
    BY <1>7 DEF RecordRow, WorkerGoes
  <2>2. d \in Deliveries /\ Sender[d] = {w} /\ Sender' = [Sender EXCEPT ![d] = {}]
    BY <1>0, <2>1, SenderLeaves DEF Holding
  <2>3. status[d] = "PROCESSING" /\ attemptRead[w] = attempt[d]
    BY <1>0, <2>1 DEF Holding, OwnerInv, HeldIsProcessing, AttemptKnown
  <2>4. Lifecycle!Conclude(d, w)
    BY <2>1, <2>2, <2>3 DEF Lifecycle!Conclude, Lifecycle!Move, Lifecycle!Count, Put
  <2>5. LifecycleStep
    BY <2>2, <2>4 DEF LifecycleStep, Lifecycle!Next
  <2>6. \A v \in Workers : wpc'[v] = "send" =>
            /\ v # w /\ wpc[v] = "send"
            /\ job[v] \in Deliveries \ {d}
            /\ attemptRead'[v] = attemptRead[v]
    BY <1>0, <2>1 DEF Holding, OwnerInv, HeldOnce, TypeInv, TypeOK, WorkerTypeOK
  <2>7. AttemptKnown'
    BY <1>0, <2>1, <2>6 DEF AttemptKnown, Put
  <2> QED BY <2>5, <2>7
<1>8. ASSUME wpc[w] # "idle", UNCHANGED rowVars, job' = job,
             wpc' = [wpc EXCEPT ![w] = "complete"],
             attemptRead' = [attemptRead EXCEPT ![w] = 0]
      PROVE  LifecycleStep /\ AttemptKnown'
  <2>1. AttemptKnown'
    BY <1>0, <1>8 DEF AttemptKnown, TypeInv, TypeOK, WorkerTypeOK
  <2>2. LifecycleStep
    BY <1>0, <1>1, <1>2, <1>8 DEF Holding
  <2> QED BY <2>1, <2>2
<1>9. ASSUME UNCHANGED rowVars, WorkerIdles(w)
      PROVE  LifecycleStep /\ AttemptKnown'
  <2>1. AttemptKnown'
    BY <1>0, <1>9 DEF WorkerIdles, AttemptKnown, TypeInv, TypeOK, WorkerTypeOK
  <2>2. LifecycleStep
    BY <1>0, <1>1, <1>2, <1>9 DEF WorkerIdles, Holding, TypeInv, TypeOK, WorkerTypeOK
  <2> QED BY <2>1, <2>2
<1>10. CASE RecordSuccess(w) \/ RecordRetry(w) \/ RecordFailed(w)
  BY <1>7, <1>10 DEF RecordSuccess, RecordRetry, RecordFailed
<1>11. CASE RecordGone(w)
  BY <1>8, <1>11 DEF RecordGone, WorkerGoes
<1>12. CASE CompleteJob(w)
  BY <1>9, <1>12 DEF CompleteJob
<1>13. CASE QueryFails(w)
  BY <1>8, <1>13 DEF QueryFails, WorkerGoes
<1>14. CASE WorkerCrash(w)
  BY <1>9, <1>14 DEF WorkerCrash
<1>15. CASE CompleteReplyLost(w)
  BY <1>0, <1>1, <1>15
  DEF CompleteReplyLost, ReplyLost, workerVars, Holding, AttemptKnown
<1> QED BY <1>3, <1>4, <1>5, <1>6, <1>10, <1>11, <1>12, <1>13, <1>14, <1>15 DEF WorkerStep

(* What a scheduler or the API does to rows no worker has in hand.         *)
LEMMA AttemptStays ==
    ASSUME LifecycleInv, UNCHANGED workerVars,
           \A d \in Deliveries :
               \/ attempt'[d] = attempt[d] /\ status'[d] = status[d]
               \/ \A w \in Workers : wpc[w] = "send" => job[w] # d
               \/ status'[d] = "DELETED"
    PROVE  AttemptKnown' /\ Sender' = Sender
<1>1. \A w \in Workers : wpc[w] = "send" => job[w] \in Deliveries
  BY DEF LifecycleInv, TypeInv, TypeOK, WorkerTypeOK
<1> QED BY <1>1, SenderSame DEF LifecycleInv, AttemptKnown, workerVars, Holding

LEMMA LifecycleScheduler ==
    ASSUME LifecycleInv, NEW s \in Schedulers,
           \/ SchedulerStep(s)
           \/ OfferFails(s)
           \/ OfferReplyLost(s)
           \/ ReleaseReplyLost(s)
           \/ SchedulerAbort(s)
    PROVE  LifecycleStep /\ AttemptKnown'
<1> USE DEF rowVars
<1>1. /\ TypeInv /\ OwnerInv
      /\ status \in [Deliveries -> Statuses] /\ attempt \in [Deliveries -> Nat]
      /\ found[s] \in SUBSET Deliveries
  BY DEF LifecycleInv, TypeInv, TypeOK, RowTypeOK, SchedulerTypeOK
<1>2. UNCHANGED workerVars
  BY DEF SchedulerStep, ReapFind, ReapUpdate, ReleaseSlots, SweepFind, CheckWindow,
         ResetOrphans, MeasureReady, MeasureInFlight, ClaimBatch, NothingEligible,
         Publish, ResetRejected, OfferFails, OfferReplyLost, ReleaseReplyLost,
         ReplyLost, SchedulerAbort
<1>3. ASSUME UNCHANGED rowVars
      PROVE  LifecycleStep /\ AttemptKnown'
  BY <1>2, <1>3, AttemptStays DEF LifecycleStep, Lifecycle!vars
<1>4. ASSUME NEW ids \in SUBSET Deliveries, ResetToPending(ids)
      PROVE  LifecycleStep /\ AttemptKnown'
  <2> DEFINE hit == ids \cap Having({"QUEUED"})
  <2>1. /\ hit \in SUBSET Deliveries
        /\ \A d \in hit : status[d] = "QUEUED"
        /\ status' = Put(status, hit, "PENDING")
        /\ attempt' = attempt
    BY <1>4 DEF ResetToPending, Having
  <2> HIDE DEF hit
  <2>2. AttemptKnown' /\ Sender' = Sender
    BY <1>1, <1>2, <2>1, NobodySends, AttemptStays DEF Put, Holding
  <2>3. Lifecycle!Unqueue(hit)
    BY <2>1, <2>2 DEF Lifecycle!Unqueue, Lifecycle!Move, Put
  <2> QED BY <2>1, <2>2, <2>3 DEF LifecycleStep, Lifecycle!Next
<1>5. CASE ReapUpdate(s)
  <2> DEFINE hit == found[s] \cap Having({"PROCESSING"})
  <2>1. /\ hit \in SUBSET Deliveries
        /\ \A d \in hit : status[d] = "PROCESSING" /\ lockedAt[d] = "expired"
        /\ status' = Put(status, hit, "WAITING")
        /\ attempt' = [d \in Deliveries |->
                            IF d \in hit THEN attempt[d] + 1 ELSE attempt[d]]
    BY <1>1, <1>5 DEF ReapUpdate, Having, OwnerInv, FoundIsExpired
  <2> HIDE DEF hit
  <2>2. \A d \in hit : Sender[d] = {} /\ \A w \in Workers : Holding(w) => job[w] # d
    BY <1>1, <2>1, NobodySends
  <2>3. AttemptKnown' /\ Sender' = Sender
    BY <1>1, <1>2, <2>1, <2>2, AttemptStays DEF Put, Holding
  <2>4. Lifecycle!Reclaim(hit)
    BY <2>1, <2>2, <2>3 DEF Lifecycle!Reclaim, Lifecycle!Move, Lifecycle!Count, Put
  <2> QED BY <2>1, <2>3, <2>4 DEF LifecycleStep, Lifecycle!Next
<1>6. CASE ClaimBatch(s)
  <2>1. PICK ids \in Selections(Lesser(room[s], BatchSize)) :
            status' = Put(status, Elements(ids), "QUEUED")
    BY <1>6 DEF ClaimBatch
  <2>2. Lesser(room[s], BatchSize) \in Nat
    BY SizesAssumption, LesserProperties DEF LifecycleInv, TypeInv, TypeOK, SchedulerTypeOK
  <2> DEFINE hit == Elements(ids)
  <2>3. /\ hit \in SUBSET Deliveries
        /\ \A d \in hit : status[d] \in {"PENDING", "WAITING"}
    BY <2>1, <2>2, SelectionProperties DEF Eligible, Having
  <2>4. status' = Put(status, hit, "QUEUED") /\ attempt' = attempt
    BY <1>6, <2>1 DEF ClaimBatch
  <2> HIDE DEF hit
  <2>5. AttemptKnown' /\ Sender' = Sender
    BY <1>1, <1>2, <2>3, <2>4, NobodySends, AttemptStays DEF Put, Holding
  <2>6. Lifecycle!Queue(hit)
    BY <2>3, <2>4, <2>5 DEF Lifecycle!Queue, Lifecycle!Move, Put
  <2> QED BY <2>3, <2>5, <2>6 DEF LifecycleStep, Lifecycle!Next
<1>7. CASE ResetOrphans(s) \/ ResetRejected(s)
  BY <1>1, <1>4, <1>7 DEF ResetOrphans, ResetRejected
<1>8. CASE \/ ReapFind(s) \/ ReleaseSlots(s) \/ SweepFind(s) \/ CheckWindow(s)
           \/ MeasureReady(s) \/ MeasureInFlight(s) \/ NothingEligible(s) \/ Publish(s)
           \/ OfferFails(s) \/ OfferReplyLost(s) \/ ReleaseReplyLost(s)
           \/ SchedulerAbort(s)
  BY <1>3, <1>8 DEF ReapFind, ReleaseSlots, SweepFind, CheckWindow, MeasureReady,
                    MeasureInFlight, NothingEligible, Publish, OfferFails,
                    OfferReplyLost, ReleaseReplyLost, ReplyLost, SchedulerAbort
<1> QED BY <1>5, <1>6, <1>7, <1>8 DEF SchedulerStep

LEMMA LifecycleEnvironment ==
    ASSUME LifecycleInv,
           \/ \E d \in Deliveries : ApiCall(d) \/ TimePasses(d)
           \/ RedisFlushed
    PROVE  LifecycleStep /\ AttemptKnown'
<1> USE DEF rowVars
<1>1. /\ TypeInv /\ OwnerInv
      /\ status \in [Deliveries -> Statuses] /\ attempt \in [Deliveries -> Nat]
  BY DEF LifecycleInv, TypeInv, TypeOK, RowTypeOK
<1>2. UNCHANGED workerVars
  BY DEF ApiCall, CreateDelivery, Replay, DeleteDelivery, TimePasses, RetryFallsDue,
         LeaseExpires, GraceElapses, RedisFlushed
<1>3. ASSUME status' = status, attempt' = attempt
      PROVE  LifecycleStep /\ AttemptKnown'
  BY <1>2, <1>3, AttemptStays DEF LifecycleStep, Lifecycle!vars
<1>4. ASSUME NEW d \in Deliveries, CreateDelivery(d)
      PROVE  LifecycleStep /\ AttemptKnown'
  <2>1. /\ status[d] = "ABSENT" /\ status' = Put(status, {d}, "PENDING")
        /\ attempt' = attempt
    BY <1>4 DEF CreateDelivery
  <2>2. AttemptKnown' /\ Sender' = Sender
    BY <1>1, <1>2, <2>1, NobodySends, AttemptStays DEF Put, Holding
  <2>3. Lifecycle!Create(d)
    BY <2>1, <2>2 DEF Lifecycle!Create, Lifecycle!Move, Put
  <2> QED BY <2>2, <2>3 DEF LifecycleStep, Lifecycle!Next
<1>5. ASSUME NEW d \in Deliveries, Replay(d)
      PROVE  LifecycleStep /\ AttemptKnown'
  <2>1. /\ status[d] \in {"DELIVERED", "FAILED"} /\ status' = Put(status, {d}, "PENDING")
        /\ attempt' = Put(attempt, {d}, 0)
    BY <1>5 DEF Replay
  <2>2. AttemptKnown' /\ Sender' = Sender
    BY <1>1, <1>2, <2>1, NobodySends, AttemptStays DEF Put, Holding
  <2>3. Lifecycle!Replay(d)
    BY <1>1, <2>1, <2>2 DEF Lifecycle!Replay, Lifecycle!Move, Put
  <2> QED BY <2>2, <2>3 DEF LifecycleStep, Lifecycle!Next
<1>6. ASSUME NEW d \in Deliveries, DeleteDelivery(d)
      PROVE  LifecycleStep /\ AttemptKnown'
  <2>1. /\ status[d] # "ABSENT" /\ status' = Put(status, {d}, "DELETED")
        /\ attempt' = Put(attempt, {d}, 0)
    BY <1>6 DEF DeleteDelivery
  <2>2. AttemptKnown' /\ Sender' = Sender
    BY <1>1, <1>2, <2>1, AttemptStays DEF Put
  <2>3. Lifecycle!Delete(d)
    BY <1>1, <2>1, <2>2 DEF Lifecycle!Delete, Lifecycle!Move, Put
  <2> QED BY <2>2, <2>3 DEF LifecycleStep, Lifecycle!Next
<1>7. CASE (\E d \in Deliveries : TimePasses(d)) \/ RedisFlushed
  BY <1>3, <1>7 DEF TimePasses, RetryFallsDue, LeaseExpires, GraceElapses, RedisFlushed
<1> QED BY <1>4, <1>5, <1>6, <1>7 DEF ApiCall

LEMMA LifecycleInitially == Init => LifecycleInv /\ Lifecycle!Init
<1>1. Init => AttemptKnown
  BY DEF Init, AttemptKnown
<1>2. Init => Lifecycle!Init
  BY DEF Init, Lifecycle!Init, Sender
<1> QED BY <1>1, <1>2, TypeInitially, OwnerInitially DEF LifecycleInv

LEMMA LifecycleHolds ==
    ASSUME OneScheduler, TimersOutlastWorkers
    PROVE  /\ LifecycleInv /\ [Next]_vars => LifecycleInv'
           /\ LifecycleInv /\ [Next]_vars => LifecycleStep
<1> SUFFICES ASSUME LifecycleInv, [Next]_vars PROVE LifecycleInv' /\ LifecycleStep
  OBVIOUS
<1>1. TypeInv' /\ OwnerInv'
  BY TypeStep, OwnerStep DEF LifecycleInv
<1>2. LifecycleStep /\ AttemptKnown'
  <2>1. CASE UNCHANGED vars
    BY <2>1, AttemptStays
    DEF vars, rowVars, LifecycleStep, Lifecycle!vars
  <2> QED
    BY <2>1, LifecycleWorker, LifecycleScheduler, LifecycleEnvironment DEF Next
<1> QED BY <1>1, <1>2 DEF LifecycleInv

(***************************************************************************)
(* The pipeline keeps what DeliveryLifecycle promises of every delivery:   *)
(* one sender at most, an outcome from it alone and counted once, and a    *)
(* reaper that never takes a delivery from a sender.                       *)
(***************************************************************************)
THEOREM LifecycleImplemented ==
    ASSUME OneScheduler, TimersOutlastWorkers
    PROVE  Spec => ImplementsLifecycle
<1>1. /\ LifecycleInv /\ [Next]_vars => LifecycleInv'
      /\ LifecycleInv /\ [Next]_vars => [Lifecycle!Next]_(Lifecycle!vars)
  BY LifecycleHolds DEF LifecycleStep
<1> QED
  BY <1>1, LifecycleInitially, PTL DEF Spec, ImplementsLifecycle, Lifecycle!Spec

(***************************************************************************)
(* DELIVERED and FAILED are left only by a replay, or with the row: in the *)
(* life cycle a record needs a sender, and what has one is PROCESSING.     *)
(***************************************************************************)
THEOREM SettledStays ==
    ASSUME OneScheduler, TimersOutlastWorkers
    PROVE  Spec => TerminalUntilReplayed
<1> DEFINE stays(d) ==
        \/ status'[d] = status[d] /\ attempt'[d] = attempt[d]
        \/ status'[d] = "PENDING" /\ attempt'[d] = 0
        \/ status'[d] = "DELETED"
    Stays == \A d \in Having({"DELIVERED", "FAILED"}) : stays(d)
<1>1. LifecycleInv /\ LifecycleStep => Stays
  <2> SUFFICES ASSUME LifecycleInv, LifecycleStep,
                      NEW d \in Deliveries, status[d] \in {"DELIVERED", "FAILED"}
               PROVE  stays(d)
    BY DEF Having
  <2>1. status \in [Deliveries -> Statuses] /\ attempt \in [Deliveries -> Nat]
    BY DEF LifecycleInv, TypeInv, TypeOK, RowTypeOK
  <2> QED
    BY <2>1 DEF LifecycleStep, Lifecycle!vars, Lifecycle!Next, Lifecycle!Queue,
        Lifecycle!Unqueue, Lifecycle!Reclaim, Lifecycle!Create, Lifecycle!Replay,
        Lifecycle!Delete, Lifecycle!Begin, Lifecycle!Conclude, Lifecycle!Abandon,
        Lifecycle!Move, Lifecycle!Count
<1>2. LifecycleInv /\ [Next]_vars => LifecycleInv' /\ [Stays]_vars
  BY <1>1, LifecycleHolds
<1> QED BY <1>2, LifecycleInitially, PTL DEF Spec, TerminalUntilReplayed

=============================================================================
