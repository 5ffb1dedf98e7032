-------------------------------- MODULE Relay --------------------------------
(***************************************************************************)
(* The delivery pipeline of Relay: delivery rows in Postgres, the          *)
(* execution window in Redis (ExecutionWindow), scheduler processes that   *)
(* refill it and workers that empty it.                                    *)
(*                                                                         *)
(*   src/scheduler/scheduler.ts             tick and what it calls         *)
(*   src/workers/worker.ts                  processOne, loop               *)
(*   src/repositories/delivery*.ts          the SQL of both                *)
(*                                                                         *)
(* A step is one SQL statement or transaction, or one Redis command or     *)
(* script: what runs between two awaits of the code is never interrupted.  *)
(* The HTTP request is the interval in which a worker's pc is "send".      *)
(*                                                                         *)
(* Times are coarse: a timestamp is only ever compared with "now", so a    *)
(* column holds on which side of that comparison it lies.                  *)
(***************************************************************************)
EXTENDS ExecutionWindow

CONSTANTS
    Workers,                \* the loops of all worker pools
    Schedulers,             \* the scheduler processes
    NoJob,                  \* the job of a worker that has none
    BatchSize,              \* rows claimed by one transaction
    MaxAttempts,            \* MAX_ATTEMPTS
    Deletable,              \* deliveries whose webhook may be deleted
    MaxReplays,             \* bound: replays in a behaviour
    MaxFaults,              \* bound: faults in a behaviour
    Faults,                 \* which of FaultKinds can occur
    WorkerCrashPoints,      \* worker pcs at which its process can die
    SchedulerAbortPoints    \* scheduler pcs at which its tick can be cut short

(***************************************************************************)
(*   "query"      a worker's SQL statement fails and rolls back            *)
(*   "offer"      the scheduler's ENQUEUE call rejects                     *)
(*   "reply"      the reply of a script is lost and ioredis sends it again *)
(*   "late"       a lease or grace period ends while a worker has the job  *)
(*   "redis"      Redis restarts empty                                     *)
(***************************************************************************)
FaultKinds == {"query", "offer", "reply", "late", "redis"}

WorkerPCs == {"idle", "claim", "read", "send", "complete"}

SchedulerPCs ==
    {"sleep", "reapUpdate", "release", "sweepFind", "checkWindow",
     "resetOrphans", "measureReady", "measureInFlight", "claimBatch",
     "publish", "resetRejected"}

ASSUME SizesAssumption ==
    /\ BatchSize \in Nat \ {0}
    /\ MaxAttempts \in Nat \ {0}
    /\ MaxReplays \in Nat
    /\ MaxFaults \in Nat
ASSUME NoJobAssumption == NoJob \notin Deliveries
ASSUME FaultsAssumption ==
    /\ Faults \subseteq FaultKinds
    /\ WorkerCrashPoints \subseteq WorkerPCs
    /\ SchedulerAbortPoints \subseteq SchedulerPCs
    /\ Deletable \subseteq Deliveries

VARIABLES
    \* the columns of table deliveries
    status,         \* DeliveryStatus; "ABSENT" before, "DELETED" after the row exists
    attempt,        \* attempts counted so far
    nextRetryAt,    \* "null", "future" or "due"
    lockedAt,       \* "null", "fresh" or "expired" (older than the lease)
    updatedAt,      \* "recent" or "old" (older than the orphan grace period)
    \* each worker loop
    wpc, job, attemptRead,
    \* each scheduler's tick
    spc,
    found,          \* ids returned by its last query, still to be acted on
    batch,          \* ids it has claimed and not yet published
    readyLen,       \* reply of the first LLEN
    room,           \* `remaining` of the refill loop
    \* history, for the bounds
    replays, faults

rowVars == <<status, attempt, nextRetryAt, lockedAt, updatedAt>>
workerVars == <<wpc, job, attemptRead>>
schedulerVars == <<spc, found, batch, readyLen, room>>
historyVars == <<replays, faults>>
vars == <<windowVars, rowVars, workerVars, schedulerVars, historyVars>>

Init ==
    /\ WindowInit
    /\ status = [d \in Deliveries |-> "ABSENT"]
    /\ attempt = [d \in Deliveries |-> 0]
    /\ nextRetryAt = [d \in Deliveries |-> "null"]
    /\ lockedAt = [d \in Deliveries |-> "null"]
    /\ updatedAt = [d \in Deliveries |-> "recent"]
    /\ wpc = [w \in Workers |-> "idle"]
    /\ job = [w \in Workers |-> NoJob]
    /\ attemptRead = [w \in Workers |-> 0]
    /\ spc = [s \in Schedulers |-> "sleep"]
    /\ found = [s \in Schedulers |-> {}]
    /\ batch = [s \in Schedulers |-> <<>>]
    /\ readyLen = [s \in Schedulers |-> 0]
    /\ room = [s \in Schedulers |-> 0]
    /\ replays = 0
    /\ faults = 0

(* UPDATE ... SET column = value WHERE id IN ids.                          *)
Put(column, ids, value) ==
    [d \in Deliveries |-> IF d \in ids THEN value ELSE column[d]]

Having(some) == {d \in Deliveries : status[d] \in some}

(* A fault happens, if the bound on their number allows one more.          *)
Fault ==
    /\ faults < MaxFaults
    /\ faults' = faults + 1
    /\ UNCHANGED replays

(***************************************************************************)
(* Workers                                                                 *)
(***************************************************************************)

WorkerGoes(w, pc) ==
    /\ wpc' = [wpc EXCEPT ![w] = pc]
    /\ UNCHANGED job

WorkerIdles(w) ==
    /\ wpc' = [wpc EXCEPT ![w] = "idle"]
    /\ job' = [job EXCEPT ![w] = NoJob]
    /\ attemptRead' = [attemptRead EXCEPT ![w] = 0]

(* loop: claim() answers with an ID.                                       *)
TakeJob(w) ==
    /\ wpc[w] = "idle"
    /\ \E d \in Deliveries :
        /\ Claim(d)
        /\ job' = [job EXCEPT ![w] = d]
    /\ wpc' = [wpc EXCEPT ![w] = "claim"]
    /\ UNCHANGED <<rowVars, attemptRead, schedulerVars, historyVars>>

(* Mutant of ClaimRow: the update does not check the status.               *)
ClaimRowUnchecked(w) ==
    /\ wpc[w] = "claim"
    /\ status' = Put(status, {job[w]}, "PROCESSING")
    /\ lockedAt' = Put(lockedAt, {job[w]}, "fresh")
    /\ updatedAt' = Put(updatedAt, {job[w]}, "recent")
    /\ WorkerGoes(w, "read")
    /\ UNCHANGED <<windowVars, attempt, nextRetryAt, attemptRead, schedulerVars, historyVars>>

(* claimForProcessing: UPDATE ... WHERE id = job AND status = 'QUEUED'.    *)
ClaimRow(w) ==
    /\ wpc[w] = "claim"
    /\ status[job[w]] = "QUEUED"
    /\ status' = Put(status, {job[w]}, "PROCESSING")
    /\ lockedAt' = Put(lockedAt, {job[w]}, "fresh")
    /\ updatedAt' = Put(updatedAt, {job[w]}, "recent")
    /\ WorkerGoes(w, "read")
    /\ UNCHANGED <<windowVars, attempt, nextRetryAt, attemptRead, schedulerVars, historyVars>>

(* Mutant of SkipRow: the early return is before the try.                  *)
SkipRowAtOnce(w) ==
    /\ wpc[w] = "claim"
    /\ status[job[w]] # "QUEUED"
    /\ WorkerIdles(w)
    /\ UNCHANGED <<windowVars, rowVars, schedulerVars, historyVars>>

(* The row is not QUEUED: an early return, but inside the try.             *)
SkipRow(w) ==
    /\ wpc[w] = "claim"
    /\ status[job[w]] # "QUEUED"
    /\ WorkerGoes(w, "complete")
    /\ UNCHANGED <<windowVars, rowVars, attemptRead, schedulerVars, historyVars>>

(* claimForProcessing's second query, findUnique.  The row may be gone.    *)
ReadRow(w) ==
    /\ wpc[w] = "read"
    /\ IF status[job[w]] = "DELETED"
       THEN /\ WorkerGoes(w, "complete")
            /\ UNCHANGED attemptRead
       ELSE /\ WorkerGoes(w, "send")
            /\ attemptRead' = [attemptRead EXCEPT ![w] = attempt[job[w]]]
    /\ UNCHANGED <<windowVars, rowVars, schedulerVars, historyVars>>

(***************************************************************************)
(* The response, or its absence, and recordSuccess / recordFailure.  Both  *)
(* update the row by its id alone, whatever its status has become.         *)
(***************************************************************************)
RecordRow(w, newStatus, retryAt) ==
    /\ wpc[w] = "send"
    /\ status[job[w]] # "DELETED"
    /\ status' = Put(status, {job[w]}, newStatus)
    /\ attempt' = Put(attempt, {job[w]}, attemptRead[w] + 1)
    /\ nextRetryAt' = Put(nextRetryAt, {job[w]}, retryAt)
    /\ lockedAt' = Put(lockedAt, {job[w]}, "null")
    /\ updatedAt' = Put(updatedAt, {job[w]}, "recent")
    /\ WorkerGoes(w, "complete")
    /\ attemptRead' = [attemptRead EXCEPT ![w] = 0]
    /\ UNCHANGED <<windowVars, schedulerVars, historyVars>>

(***************************************************************************)
(* deliver(): what comes of the request, by the classes of status that     *)
(* isSuccessStatus and isRetryableStatus tell apart.  Without a response,  *)
(* as with a 5xx, the next attempt may fare better.                        *)
(***************************************************************************)
Answers == {"2xx", "5xx", "408 425 429", "3xx 4xx", "none"}
IsSuccessStatus(answer) == answer = "2xx"
IsRetryableStatus(answer) == answer \in {"5xx", "408 425 429"}
Retryable(answer) == IsRetryableStatus(answer) \/ answer = "none"

(* shouldRetry: attempts, this one included, are not used up.              *)
ShouldRetry(n) == n < MaxAttempts

(* processOne's `retrying`.                                                *)
Retrying(w, answer) == Retryable(answer) /\ ShouldRetry(attemptRead[w] + 1)

RecordSuccess(w) ==
    /\ \E answer \in Answers : IsSuccessStatus(answer)
    /\ RecordRow(w, "DELIVERED", "null")

RecordRetry(w) ==
    /\ \E answer \in Answers : ~IsSuccessStatus(answer) /\ Retrying(w, answer)
    /\ RecordRow(w, "WAITING", "future")

RecordFailed(w) ==
    /\ \E answer \in Answers : ~IsSuccessStatus(answer) /\ ~Retrying(w, answer)
    /\ RecordRow(w, "FAILED", "null")

(* The record transaction throws: there is no row of that id to update.    *)
RecordGone(w) ==
    /\ wpc[w] = "send"
    /\ status[job[w]] = "DELETED"
    /\ WorkerGoes(w, "complete")
    /\ attemptRead' = [attemptRead EXCEPT ![w] = 0]
    /\ UNCHANGED <<windowVars, rowVars, schedulerVars, historyVars>>

(* The finally block: complete(), on every path of processOne.             *)
CompleteJob(w) ==
    /\ wpc[w] = "complete"
    /\ Complete(job[w])
    /\ WorkerIdles(w)
    /\ UNCHANGED <<rowVars, schedulerVars, historyVars>>

WorkerStep(w) ==
    \/ TakeJob(w)
    \/ ClaimRow(w)
    \/ SkipRow(w)
    \/ ReadRow(w)
    \/ RecordSuccess(w)
    \/ RecordRetry(w)
    \/ RecordFailed(w)
    \/ RecordGone(w)
    \/ CompleteJob(w)

(* A statement of processOne throws and has no effect; finally still runs. *)
QueryFails(w) ==
    /\ "query" \in Faults
    /\ Fault
    /\ wpc[w] \in {"claim", "read", "send"}
    /\ WorkerGoes(w, "complete")
    /\ attemptRead' = [attemptRead EXCEPT ![w] = 0]
    /\ UNCHANGED <<windowVars, rowVars, schedulerVars>>

(***************************************************************************)
(* The process dies: finally does not run.  At "claim" this is also a      *)
(* BLMOVE whose reply is lost, at "complete" a complete() that rejects     *)
(* (it is caught and logged): the loop goes on, the ID is forgotten.       *)
(***************************************************************************)
WorkerCrash(w) ==
    /\ wpc[w] \in WorkerCrashPoints \ {"idle"}
    /\ Fault
    /\ WorkerIdles(w)
    /\ UNCHANGED <<windowVars, rowVars, schedulerVars>>

(***************************************************************************)
(* Schedulers: one tick, statement by statement                            *)
(***************************************************************************)

SchedulerGoes(s, pc) == spc' = [spc EXCEPT ![s] = pc]

SchedulerSleeps(s) ==
    /\ SchedulerGoes(s, "sleep")
    /\ found' = [found EXCEPT ![s] = {}]
    /\ batch' = [batch EXCEPT ![s] = <<>>]
    /\ readyLen' = [readyLen EXCEPT ![s] = 0]
    /\ room' = [room EXCEPT ![s] = 0]

(* A query of the tick: what it found, and where the tick goes with it.    *)
SchedulerFinds(s, ids, onSome, onNone) ==
    /\ SchedulerGoes(s, IF ids = {} THEN onNone ELSE onSome)
    /\ found' = [found EXCEPT ![s] = ids]
    /\ UNCHANGED <<batch, readyLen, room>>

(* reclaimExpiredLeases, the findMany.  Here the tick starts.              *)
ReapFind(s) ==
    /\ spc[s] = "sleep"
    /\ SchedulerFinds(s, {d \in Having({"PROCESSING"}) : lockedAt[d] = "expired"},
                      "reapUpdate", "sweepFind")
    /\ UNCHANGED <<windowVars, rowVars, workerVars, historyVars>>

(***************************************************************************)
(* reclaimExpiredLeases, the updateMany: it checks the status again and    *)
(* not the lease, and all the ids found are returned to the caller.        *)
(***************************************************************************)
ReapUpdate(s) ==
    /\ spc[s] = "reapUpdate"
    /\ LET hit == found[s] \cap Having({"PROCESSING"})
       IN  /\ status' = Put(status, hit, "WAITING")
           /\ nextRetryAt' = Put(nextRetryAt, hit, "due")
           /\ lockedAt' = Put(lockedAt, hit, "null")
           /\ updatedAt' = Put(updatedAt, hit, "recent")
           /\ attempt' = [d \in Deliveries |->
                            IF d \in hit THEN attempt[d] + 1 ELSE attempt[d]]
    /\ SchedulerGoes(s, "release")
    /\ UNCHANGED <<windowVars, workerVars, found, batch, readyLen, room, historyVars>>

(* Mutant of ReleaseSlots: the reaper forgets Redis.                       *)
ReleaseNoSlots(s) ==
    /\ spc[s] = "release"
    /\ SchedulerFinds(s, {}, "sweepFind", "sweepFind")
    /\ UNCHANGED <<windowVars, rowVars, workerVars, historyVars>>

(* reclaimAbandoned: the slots of the reclaimed rows.                      *)
ReleaseSlots(s) ==
    /\ spc[s] = "release"
    /\ Release(found[s])
    /\ SchedulerFinds(s, {}, "sweepFind", "sweepFind")
    /\ UNCHANGED <<rowVars, workerVars, historyVars>>

(* Mutant of SweepFind: there is no orphan sweep.                          *)
SweepNothing(s) ==
    /\ spc[s] = "sweepFind"
    /\ SchedulerFinds(s, {}, "checkWindow", "measureReady")
    /\ UNCHANGED <<windowVars, rowVars, workerVars, historyVars>>

(* recoverOrphans: findOrphanedQueued.                                     *)
SweepFind(s) ==
    /\ spc[s] = "sweepFind"
    /\ SchedulerFinds(s, {d \in Having({"QUEUED"}) : updatedAt[d] = "old"},
                      "checkWindow", "measureReady")
    /\ UNCHANGED <<windowVars, rowVars, workerVars, historyVars>>

(* recoverOrphans: notInWindow.                                            *)
CheckWindow(s) ==
    /\ spc[s] = "checkWindow"
    /\ SchedulerFinds(s, NotInWindow(found[s]), "resetOrphans", "measureReady")
    /\ UNCHANGED <<windowVars, rowVars, workerVars, historyVars>>

(* Mutant of ResetToPending: WHERE id IN ids, without the status.          *)
ResetUnchecked(ids) ==
    /\ status' = Put(status, ids, "PENDING")
    /\ lockedAt' = Put(lockedAt, ids, "null")
    /\ updatedAt' = Put(updatedAt, ids, "recent")
    /\ UNCHANGED <<attempt, nextRetryAt>>

(* resetToPending; nextRetryAt keeps its value.                            *)
ResetToPending(ids) ==
    LET hit == ids \cap Having({"QUEUED"})
    IN  /\ status' = Put(status, hit, "PENDING")
        /\ lockedAt' = Put(lockedAt, hit, "null")
        /\ updatedAt' = Put(updatedAt, hit, "recent")
        /\ UNCHANGED <<attempt, nextRetryAt>>

ResetOrphans(s) ==
    /\ spc[s] = "resetOrphans"
    /\ ResetToPending(found[s])
    /\ SchedulerFinds(s, {}, "measureReady", "measureReady")
    /\ UNCHANGED <<windowVars, workerVars, historyVars>>

(* availableCapacity: two LLENs, then the subtraction.                     *)
MeasureReady(s) ==
    /\ spc[s] = "measureReady"
    /\ SchedulerGoes(s, "measureInFlight")
    /\ readyLen' = [readyLen EXCEPT ![s] = Len(ready)]
    /\ UNCHANGED <<windowVars, rowVars, workerVars, found, batch, room, historyVars>>

(* The refill loop goes on, or the tick is over.                           *)
Refill(s, remaining) ==
    /\ SchedulerGoes(s, IF remaining = 0 THEN "sleep" ELSE "claimBatch")
    /\ room' = [room EXCEPT ![s] = remaining]
    /\ found' = [found EXCEPT ![s] = {}]
    /\ batch' = [batch EXCEPT ![s] = <<>>]

MeasureInFlight(s) ==
    /\ spc[s] = "measureInFlight"
    /\ Refill(s, RoomBeside(readyLen[s] + Len(inFlight)))
    /\ readyLen' = [readyLen EXCEPT ![s] = 0]
    /\ UNCHANGED <<windowVars, rowVars, workerVars, historyVars>>

(***************************************************************************)
(* claimEligibleDeliveries, the transaction.  Rows come in the order of    *)
(* nextRetryAt, nulls first; among rows this model cannot tell apart (the  *)
(* order of createdAt) any order.  SKIP LOCKED passes over rows of a       *)
(* transaction still open, which is the same as running after it.          *)
(***************************************************************************)
Eligible ==
    Having({"PENDING"}) \cup {d \in Having({"WAITING"}) : nextRetryAt[d] = "due"}

Urgency(d) ==
    CASE nextRetryAt[d] = "null" -> 0
      [] nextRetryAt[d] = "due" -> 1
      [] nextRetryAt[d] = "future" -> 2

Lesser(m, n) == IF m <= n THEN m ELSE n

Selections(limit) ==
    {ids \in [1..Lesser(limit, Cardinality(Eligible)) -> Eligible] :
        /\ \A i, j \in DOMAIN ids : i < j =>
              ids[i] # ids[j] /\ Urgency(ids[i]) <= Urgency(ids[j])
        /\ \A i \in DOMAIN ids : \A d \in Eligible \ Elements(ids) :
              Urgency(ids[i]) <= Urgency(d)}

ClaimBatch(s) ==
    /\ spc[s] = "claimBatch"
    /\ Eligible # {}
    /\ \E ids \in Selections(Lesser(room[s], BatchSize)) :
        /\ status' = Put(status, Elements(ids), "QUEUED")
        /\ updatedAt' = Put(updatedAt, Elements(ids), "recent")
        /\ batch' = [batch EXCEPT ![s] = ids]
    /\ SchedulerGoes(s, "publish")
    /\ UNCHANGED <<windowVars, attempt, nextRetryAt, lockedAt, workerVars,
                   found, readyLen, room, historyVars>>

NothingEligible(s) ==
    /\ spc[s] = "claimBatch"
    /\ Eligible = {}
    /\ SchedulerSleeps(s)
    /\ UNCHANGED <<windowVars, rowVars, workerVars, historyVars>>

(* Mutant of Remaining: the loop subtracts what it asked for.              *)
RemainingByBatchSize(s, accepted) ==
    IF accepted = <<>> THEN 0 ELSE room[s] - BatchSize

(* tick's `remaining`; the loop also breaks when nothing was accepted.     *)
Remaining(s, accepted) == IF accepted = <<>> THEN 0 ELSE room[s] - Len(accepted)

(***************************************************************************)
(* claimEligibleDeliveries, the offer.  Rejected rows are returned to      *)
(* PENDING before the refill loop goes on.                                 *)
(***************************************************************************)
Publish(s) ==
    /\ spc[s] = "publish"
    /\ Enqueue(batch[s])
    /\ LET rejected == Elements(batch[s]) \ Elements(Accepted(batch[s]))
           remaining == Remaining(s, Accepted(batch[s]))
       IN  IF rejected = {}
           THEN Refill(s, remaining)
           ELSE /\ SchedulerGoes(s, "resetRejected")
                /\ found' = [found EXCEPT ![s] = rejected]
                /\ room' = [room EXCEPT ![s] = remaining]
                /\ batch' = [batch EXCEPT ![s] = <<>>]
    /\ UNCHANGED <<rowVars, workerVars, readyLen, historyVars>>

ResetRejected(s) ==
    /\ spc[s] = "resetRejected"
    /\ ResetToPending(found[s])
    /\ Refill(s, room[s])
    /\ UNCHANGED <<windowVars, workerVars, readyLen, historyVars>>

SchedulerStep(s) ==
    \/ ReapFind(s)
    \/ ReapUpdate(s)
    \/ ReleaseSlots(s)
    \/ SweepFind(s)
    \/ CheckWindow(s)
    \/ ResetOrphans(s)
    \/ MeasureReady(s)
    \/ MeasureInFlight(s)
    \/ ClaimBatch(s)
    \/ NothingEligible(s)
    \/ Publish(s)
    \/ ResetRejected(s)

(* The offer rejects: every claimed row is reset, and the tick ends.       *)
OfferFails(s) ==
    /\ "offer" \in Faults
    /\ Fault
    /\ spc[s] = "publish"
    /\ SchedulerGoes(s, "resetRejected")
    /\ found' = [found EXCEPT ![s] = Elements(batch[s])]
    /\ batch' = [batch EXCEPT ![s] = <<>>]
    /\ room' = [room EXCEPT ![s] = 0]
    /\ UNCHANGED <<windowVars, rowVars, workerVars, readyLen>>

(***************************************************************************)
(* A script has run, the connection is lost before its reply, and ioredis  *)
(* will send it again when it has reconnected, as often as it takes.       *)
(***************************************************************************)
ReplyLost ==
    /\ "reply" \in Faults
    /\ Fault
    /\ UNCHANGED <<rowVars, workerVars, schedulerVars>>

OfferReplyLost(s) ==
    /\ spc[s] = "publish"
    /\ Enqueue(batch[s])
    /\ ReplyLost

ReleaseReplyLost(s) ==
    /\ spc[s] = "release"
    /\ Release(found[s])
    /\ ReplyLost

CompleteReplyLost(w) ==
    /\ wpc[w] = "complete"
    /\ Complete(job[w])
    /\ ReplyLost

(***************************************************************************)
(* The tick ends here: its process dies and is started again, or the call  *)
(* it was about to make throws and loop() catches it.                      *)
(***************************************************************************)
SchedulerAbort(s) ==
    /\ spc[s] \in SchedulerAbortPoints \ {"sleep"}
    /\ Fault
    /\ SchedulerSleeps(s)
    /\ UNCHANGED <<windowVars, rowVars, workerVars>>

(***************************************************************************)
(* The API, time, and the Redis container                                  *)
(***************************************************************************)

(* publishEvent creates the row: PENDING, eligible at once.                *)
CreateDelivery(d) ==
    /\ status[d] = "ABSENT"
    /\ status' = Put(status, {d}, "PENDING")
    /\ UNCHANGED <<windowVars, attempt, nextRetryAt, lockedAt, updatedAt,
                   workerVars, schedulerVars, historyVars>>

(* replayDelivery: only a settled delivery, and it starts over.            *)
Replay(d) ==
    /\ replays < MaxReplays
    /\ status[d] \in {"DELIVERED", "FAILED"}
    /\ status' = Put(status, {d}, "PENDING")
    /\ attempt' = Put(attempt, {d}, 0)
    /\ nextRetryAt' = Put(nextRetryAt, {d}, "null")
    /\ lockedAt' = Put(lockedAt, {d}, "null")
    /\ updatedAt' = Put(updatedAt, {d}, "recent")
    /\ replays' = replays + 1
    /\ UNCHANGED <<windowVars, workerVars, schedulerVars, faults>>

(* deleteWebhook: its deliveries go with it, whatever they are doing.      *)
DeleteDelivery(d) ==
    /\ d \in Deletable
    /\ status[d] \notin {"ABSENT", "DELETED"}
    /\ status' = Put(status, {d}, "DELETED")
    /\ attempt' = Put(attempt, {d}, 0)
    /\ nextRetryAt' = Put(nextRetryAt, {d}, "null")
    /\ lockedAt' = Put(lockedAt, {d}, "null")
    /\ updatedAt' = Put(updatedAt, {d}, "recent")
    /\ UNCHANGED <<windowVars, workerVars, schedulerVars, historyVars>>

RetryFallsDue(d) ==
    /\ nextRetryAt[d] = "future"
    /\ nextRetryAt' = Put(nextRetryAt, {d}, "due")
    /\ UNCHANGED <<windowVars, status, attempt, lockedAt, updatedAt,
                   workerVars, schedulerVars, historyVars>>

(* A worker has this job: from its BLMOVE to its complete().               *)
InHand(d) == \E w \in Workers : job[w] = d

(* A timer that is longer than a worker has a job for; or it is not.       *)
OutlastsWorkers(d) ==
    IF InHand(d) THEN "late" \in Faults /\ Fault ELSE UNCHANGED historyVars

(* Mutant of LeaseExpires: loadEnv does not compare it with the timeout.   *)
LeaseExpiresAnyTime(d) ==
    /\ lockedAt[d] = "fresh"
    /\ lockedAt' = Put(lockedAt, {d}, "expired")
    /\ UNCHANGED <<windowVars, status, attempt, nextRetryAt, updatedAt,
                   workerVars, schedulerVars, historyVars>>

(***************************************************************************)
(* env.ts:173 requires the lease to be longer than the delivery timeout,   *)
(* so a lease runs out only after its worker is gone.  It takes a fault    *)
(* for it to run out earlier: the timeouts of deliver() bound the wait for *)
(* headers and for each chunk of the body, not the whole request, and a    *)
(* release waits for as long as Redis cannot be reached.                   *)
(***************************************************************************)
LeaseExpires(d) ==
    /\ lockedAt[d] = "fresh"
    /\ OutlastsWorkers(d)
    /\ lockedAt' = Put(lockedAt, {d}, "expired")
    /\ UNCHANGED <<windowVars, status, attempt, nextRetryAt, updatedAt,
                   workerVars, schedulerVars>>

(***************************************************************************)
(* ORPHAN_GRACE_MS have passed since the row became QUEUED: half a minute, *)
(* far more than a worker needs from BLMOVE to its UPDATE.                 *)
(***************************************************************************)
GraceElapses(d) ==
    /\ status[d] = "QUEUED"
    /\ updatedAt[d] = "recent"
    /\ OutlastsWorkers(d)
    /\ updatedAt' = Put(updatedAt, {d}, "old")
    /\ UNCHANGED <<windowVars, status, attempt, nextRetryAt, lockedAt,
                   workerVars, schedulerVars>>

RedisFlushed ==
    /\ "redis" \in Faults
    /\ Fault
    /\ RedisRestart
    /\ UNCHANGED <<rowVars, workerVars, schedulerVars>>

TimePasses(d) == RetryFallsDue(d) \/ LeaseExpires(d) \/ GraceElapses(d)

ApiCall(d) == CreateDelivery(d) \/ Replay(d) \/ DeleteDelivery(d)

Next ==
    \/ \E w \in Workers :
            \/ WorkerStep(w)
            \/ QueryFails(w)
            \/ CompleteReplyLost(w)
            \/ WorkerCrash(w)
    \/ \E s \in Schedulers :
            \/ SchedulerStep(s)
            \/ OfferFails(s)
            \/ OfferReplyLost(s)
            \/ ReleaseReplyLost(s)
            \/ SchedulerAbort(s)
    \/ \E d \in Deliveries : ApiCall(d) \/ TimePasses(d)
    \/ RedisFlushed

Spec == Init /\ [][Next]_vars

(***************************************************************************)
(* Fairness: the event loops run (a worker's BLMOVE is served while there  *)
(* is something to take, every request ends by its timeouts, the scheduler *)
(* polls forever), and time passes.  Nothing is assumed of the API, and    *)
(* no fault has to happen.                                                 *)
(***************************************************************************)
FairSpec ==
    /\ Spec
    /\ \A w \in Workers : WF_vars(WorkerStep(w))
    /\ \A s \in Schedulers : WF_vars(SchedulerStep(s))
    /\ \A d \in Deliveries : WF_vars(TimePasses(d))

----------------------------------------------------------------------------

Statuses ==
    {"ABSENT", "PENDING", "QUEUED", "PROCESSING", "WAITING", "DELIVERED",
     "FAILED", "DELETED"}

RowTypeOK ==
    /\ status \in [Deliveries -> Statuses]
    /\ attempt \in [Deliveries -> Nat]
    /\ nextRetryAt \in [Deliveries -> {"null", "future", "due"}]
    /\ lockedAt \in [Deliveries -> {"null", "fresh", "expired"}]
    /\ updatedAt \in [Deliveries -> {"recent", "old"}]

WorkerTypeOK ==
    /\ wpc \in [Workers -> WorkerPCs]
    /\ job \in [Workers -> Deliveries \cup {NoJob}]
    /\ \A w \in Workers : job[w] = NoJob <=> wpc[w] = "idle"
    /\ attemptRead \in [Workers -> Nat]

SchedulerTypeOK ==
    /\ spc \in [Schedulers -> SchedulerPCs]
    /\ found \in [Schedulers -> SUBSET Deliveries]
    /\ batch \in [Schedulers -> Seq(Deliveries)]
    /\ readyLen \in [Schedulers -> Nat]
    /\ room \in [Schedulers -> Nat]

HistoryTypeOK == replays \in Nat /\ faults \in Nat

TypeOK ==
    /\ WindowTypeOK
    /\ RowTypeOK
    /\ WorkerTypeOK
    /\ SchedulerTypeOK
    /\ HistoryTypeOK

(***************************************************************************)
(* "Two workers must never send the same webhook" (walkthrough-m4.md): no  *)
(* delivery is being sent by two workers at once, although nothing but the *)
(* status of its row keeps a second worker from it, and although the       *)
(* reaper gives a row away while a worker may still have it.               *)
(***************************************************************************)
NoConcurrentSend ==
    \A v, w \in Workers :
        wpc[v] = "send" /\ wpc[w] = "send" /\ job[v] = job[w] => v = w

(***************************************************************************)
(* A slot of the in-flight list always has somebody who will free it: the  *)
(* worker that holds it, or the reaper, which sees the row (PROCESSING) or *)
(* is between its update and its release.                                  *)
(***************************************************************************)
SlotsComeBack ==
    \A d \in Elements(inFlight) :
        \/ \E w \in Workers : job[w] = d
        \/ status[d] = "PROCESSING"
        \/ \E s \in Schedulers : spc[s] = "release" /\ d \in found[s]

(***************************************************************************)
(* A fault costs the window one slot at most, and nothing else costs any:  *)
(* the deliveries in flight that no worker has are no more than there have *)
(* been faults, whichever process died where, whatever was sent twice and  *)
(* whatever rows were deleted meanwhile (worker.ts:150, the finally).      *)
(***************************************************************************)
Unheld == {d \in Elements(inFlight) : ~InHand(d)}

OneSlotPerFault == Cardinality(Unheld) <= faults

(***************************************************************************)
(* A QUEUED row is never "invisible to everything" (scheduler.ts:139): it  *)
(* waits in the ready list, or a worker has just taken it out, or the      *)
(* guard set lacks it, so that the orphan sweep will find it.              *)
(***************************************************************************)
QueuedIsVisible ==
    \A d \in Having({"QUEUED"}) :
        \/ d \in Elements(ready)
        \/ \E w \in Workers : job[w] = d
        \/ d \notin dedupe

(***************************************************************************)
(* A WAITING row is "NOT in Redis while in this state" (schema.prisma),    *)
(* but for the slot its worker or the reaper is about to release.          *)
(***************************************************************************)
WaitingOutsideWindow ==
    \A d \in Having({"WAITING"}) :
        d \in Resident =>
            \/ \E w \in Workers : job[w] = d /\ wpc[w] = "complete"
            \/ \E s \in Schedulers : spc[s] = "release" /\ d \in found[s]

(***************************************************************************)
(* DELIVERED and FAILED are terminal: only a replay, which starts the      *)
(* attempts over, or the end of the row leads out of them.  recordSuccess  *)
(* and recordFailure do not check it: a late record could.                 *)
(***************************************************************************)
TerminalUntilReplayed ==
    [][\A d \in Having({"DELIVERED", "FAILED"}) :
          \/ status'[d] = status[d] /\ attempt'[d] = attempt[d]
          \/ status'[d] = "PENDING" /\ attempt'[d] = 0
          \/ status'[d] = "DELETED"]_vars

(***************************************************************************)
(* The pipeline implements the life cycle of a delivery: at most one       *)
(* sender, outcomes recorded by it alone and counted once, and a reaper    *)
(* that never takes a delivery from a sender, although neither the record  *)
(* nor the reaper's update checks who has the row.                         *)
(***************************************************************************)
Sender == [d \in Deliveries |->
              {w \in Workers : job[w] = d /\ wpc[w] \in {"read", "send"}}]

Lifecycle == INSTANCE DeliveryLifecycle WITH sender <- Sender

ImplementsLifecycle == Lifecycle!Spec

(***************************************************************************)
(* Every delivery that exists reaches an outcome, whatever faults occurred *)
(* on the way.                                                             *)
(***************************************************************************)
EventuallySettled ==
    \A d \in Deliveries :
        status[d] \in {"PENDING", "QUEUED", "PROCESSING", "WAITING"}
            ~> status[d] \in {"DELIVERED", "FAILED", "DELETED"}

----------------------------------------------------------------------------
(* What the repository says of itself, and the code does not do.           *)

(***************************************************************************)
(* "Counting the attempt means such a delivery eventually reaches FAILED   *)
(* instead of becoming a permanent hazard" (delivery.repository.ts:157):   *)
(* once its attempts are used up, a delivery is not offered again.  The    *)
(* reaper counts the attempt and returns the row to WAITING all the same.  *)
(***************************************************************************)
ExhaustedIsSettled ==
    \A d \in Having({"PENDING", "QUEUED", "PROCESSING", "WAITING"}) :
        attempt[d] < MaxAttempts

=============================================================================
