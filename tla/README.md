# Relay in TLA+

Relay accepts events over HTTP, stores one *delivery* per event and webhook in
Postgres, and sends them. Redis holds a bounded *execution window* of the
deliveries that can be sent now; everything else waits in Postgres. This
directory holds TLA+ modules of the delivery pipeline, of the publication and
the listing of events, of dashboard sessions and of the life of a process, the
TLC configurations that check them on small instances, and theorems that TLAPS
proves for every size.

Paths such as `src/scheduler/scheduler.ts` are relative to the repository.

## 1. The system

### Components, their state and operations

| Component | State | Operations | Hard part |
|---|---|---|---|
| Execution window `src/queue/` | Redis: ready list, in-flight list, guard set | enqueue, claim (BLMOVE), complete, release, notInWindow, occupancy | three keys in step, callers that overlap or act on old ids |
| Delivery rows `src/repositories/delivery*.ts`, `prisma/schema.prisma` | status, attempt, nextRetryAt, lockedAt, updatedAt | claimEligibleDeliveries, reclaimExpiredLeases, findOrphanedQueued, resetToPending, claimForProcessing, recordSuccess, recordFailure | conditional updates by several processes; ids read earlier |
| Scheduler `src/scheduler/scheduler.ts` | where its tick is; ids and numbers it has read | tick: reap, sweep, measure, refill; start, stop, sleep | crash between two statements; several replicas |
| Worker pool `src/workers/worker.ts`, `deliver.ts`, `backoff.ts` | per loop: the job and the attempt it read | loop, processOne, stop | crash, failing statements, slow requests |
| Ingestion `src/services/event.service.ts` | events, deliveries | publishEvent (idempotency key, fan-out) | concurrent publications of one key |
| Replay and queries `src/services/event-query.service.ts` | - (the client keeps a cursor) | replay, lists with cursors | replay beside the last worker's release; rows that appear while a client pages |
| Webhooks `src/services/webhook.service.ts` | webhooks | create, update, delete (cascades to deliveries) | deletion of what is in flight |
| Sessions `src/services/session.service.ts`, `src/repositories/refresh-token.repository.ts`, `src/routes/v1/auth.routes.ts` | refresh tokens: owner, revokedAt, expiresAt, replacedById | issue, refresh (rotation, reuse alarm), end | two uses of one token, lost answers, several devices |
| Dashboard `web/src/` | a page's phase, user and access token; the browser's cookie | restore, sign in, call (refresh on 401), sign out | polls that overlap, reloads |
| Registration and login `src/services/auth.service.ts` | users | register, login | one email registered twice at once |
| API keys, projects | rows | plain reads and single updates | - |
| Process roles `src/main.ts` | running components | start, shutdown with a watchdog | order of stopping |
| Signatures, URL safety, crypto | none | pure functions | - |
| Monitoring, HTTP plumbing | none of their own | reads, formatting | torn occupancy reading |

### How they interact

    API --INSERT--> Postgres <--claim/reset/reap-- Scheduler --ENQUEUE/RELEASE--> Redis
                       ^                                                           |
                       +------claim/record------ Worker <----BLMOVE / COMPLETE-----+

Postgres is the source of truth. The scheduler marks eligible rows QUEUED,
commits, and then offers their ids to Redis; what Redis refuses is reset. A
worker moves an id from the ready to the in-flight list, claims the row with
`UPDATE ... WHERE status = 'QUEUED'`, sends, records, and releases the slot in a
`finally`. Two sweeps repair what crashes leave: the reaper (PROCESSING rows
whose lease is over) and the orphan sweep (QUEUED rows Redis does not hold).

The dashboard reaches the API with a short-lived access token and, when that is
refused, exchanges the refresh token in its cookie for a new pair
(`web/src/api.ts`). The cookie is the browser's, not the page's: a call presents
the cookie of the moment it is sent and its answer replaces the cookie of the
moment it arrives.

Nothing spans the two stores: every step from one to the other is a place where
a process can die, and every list of ids a process carries from one to the
other can be out of date when it is used.

### What makes it correct

* Window: never more than `Capacity` jobs, ready and in flight together; the
  guard set is the set of resident ids; no id occupies two slots.
* Pipeline: no delivery is sent by two workers at once; every slot has somebody
  who will free it; every QUEUED row has somebody who will find it; WAITING rows
  are not in Redis; settled deliveries stay settled until replayed; every
  delivery is eventually settled.
* Ingestion: one event per idempotency key; all deliveries of an event or none;
  nobody is told 202 of what is not stored.
* Process: a shutdown that is not forced cuts off no request, tick or job, and it
  ends.
* Sessions: an exchanged token is dead; nobody's sessions are all revoked while
  every browser's calls come one at a time and are answered; signing out ends
  that session and no other; a page acts for the user whose token is in its
  cookie.
* Lists: read page by page, none twice, none left out, from new to old.

## 2. Modules

| Module | Models |
|---|---|
| `ExecutionWindow` | the three Redis keys and every script and command on them |
| `BoundedPool` | abstract: a set of jobs that never exceeds a capacity |
| `WindowClients` | the window under arbitrary clients, and a caller of `occupancy()` |
| `DeliveryLifecycle` | abstract: status, attempts and sender of each delivery |
| `Relay` | window + rows + workers + schedulers + API + time + faults |
| `Ingest` | publishEvent in many requests, client retries, webhook changes |
| `Shutdown` | one process of any role: API, scheduler loop, worker loops, shutdown |
| `Sessions` | refresh tokens, the auth routes, and the dashboard pages that use them |
| `Listing` | a client that pages through a project's events while more are published |
| `MCWindowClients`, `MCRelay`, `MCIngest`, `MCSessions`, `MCListing` | symmetry and the constants a cfg cannot write |
| `WindowTheorems` | lemmas about the window's operators and actions |
| `WindowClientsProofs`, `RelayProofs`, `IngestProofs`, `ShutdownProofs`, `SessionsProofs`, `ListingProofs` | theorems about the modules they are named for |
| `RelayWindowProofs` | theorems about `Relay` that relate Redis to the rows |

`WindowClients` and `Relay` EXTEND `ExecutionWindow`; each INSTANCEs the
abstract specification it implements. `Ingest` and `Shutdown` meet `Relay` at one
point each: what `Ingest` commits is `Relay`'s `CreateDelivery`, and what
`Shutdown` ends by force is `Relay`'s crash. `Listing` reads the table `Ingest`
writes; `Sessions` shares no state with the others.

### ExecutionWindow

`ready`, `inFlight` and `dedupe` are the keys `relay:window`, `relay:inflight`
and `relay:enqueued`. Redis runs one command or script at a time, so `Enqueue`,
`Claim`, `Complete` and `Release` are atomic. `REQUEUE_LUA` despite its name and
comment requeues nothing: `Release` frees. `Accepted(ids)` is the reply of
`ENQUEUE_LUA`: ids the guard set lacks, as many as fit. Lists are sequences,
ids model values. `occupancy()` is two `LLEN`s and is split by its callers.

### WindowClients

Any client may offer any list of distinct ids, take, and complete or release what
is in flight, at any time, and Redis may restart. A command that names an id
that has come back since (sent twice, or by an overtaken reaper) is a matter of
`Relay`. A probe reads the two lengths with other steps in between; `stayed` is
a history variable, the jobs that never left since the first read.

### Relay

One action per SQL statement (or transaction) and per Redis command, in the
order of the code; a worker's `wpc` and a scheduler's `spc` say which comes
next.

| `wpc` | next step | | `spc` | next step |
|---|---|---|---|---|
| `idle` | BLMOVE | | `sleep` | find expired leases |
| `claim` | UPDATE ... WHERE QUEUED | | `reapUpdate` | update them |
| `read` | findUnique | | `release` | release their slots |
| `send` | HTTP, then record | | `sweepFind`, `checkWindow`, `resetOrphans` | the orphan sweep |
| `complete` | COMPLETE | | `measureReady`, `measureInFlight` | availableCapacity |
| | | | `claimBatch`, `publish`, `resetRejected` | the refill loop |

Data is abstracted to what decisions depend on. A timestamp is a side of its
comparison: `nextRetryAt` is null, in the future or due; `lockedAt` null, within
the lease or expired; `updatedAt` within the grace period or older. Time passes
by `RetryFallsDue`, `LeaseExpires`, `GraceElapses`. `Answers` are the classes of
HTTP status that `isSuccessStatus` and `isRetryableStatus` tell apart, and no
response at all; any of them may come. `ABSENT` and `DELETED` stand for a row
that does not exist yet or any more.

`FOR UPDATE SKIP LOCKED`: the transaction is one step, since skipping the rows
of an open transaction gives what running after it gives. The order of
`createdAt` among rows with the same `nextRetryAt` is left open.

Faults, each counted against `MaxFaults`:

| Fault | What happens |
|---|---|
| `WorkerCrash` at a `WorkerCrashPoints` pc | the process dies; also a lost BLMOVE reply (`claim`), a rejected complete() (`complete`) |
| `SchedulerAbort` at a `SchedulerAbortPoints` pc | the tick ends: death, or a statement that throws |
| `"query"` | a worker's statement throws, `finally` runs |
| `"offer"` | ENQUEUE rejects, all claimed rows are reset |
| `"reply"` | ENQUEUE, COMPLETE or RELEASE runs, its reply is lost, ioredis sends it again (`redis.ts:15`: without limit) |
| `"late"` | a lease or grace period ends while a worker has the job |
| `"redis"` | Redis restarts empty (it has no volume, `docker-compose.yml:30`) |

Without `"late"`, timers outlast workers. `src/config/env.ts:173` refuses a
lease that is not longer than the delivery timeout, and `ORPHAN_GRACE_MS` is
thirty seconds for the two commands between BLMOVE and the claim. It is an
assumption all the same; the list of disagreements in section 3 says what it is
worth.

### Ingest

A client's `pc` is the next SQL statement of its request:

    idle -> lookup -> list -> create -> reply -> idle
               |                |  \-> relookup -> reply
               +-> reply        +-> failed -> (sends it again)

`lookup` is skipped without an Idempotency-Key. `Create` is the transaction of
`createEventWithDeliveries`; it is one step because nothing of it is visible
before it commits. It has three ends: it commits, it violates the unique
constraint (`Duplicate`), or a webhook it had listed is gone (`WebhookGone`, a
foreign-key error, everything rolled back). `Fail` is a crash, a statement that
throws or a 202 that is lost, at any point: what was committed stays, and the
client sends the same publication again. Events are records of `id`, `project`,
`key` and the webhooks listed for them; `deliveries` are pairs. Nothing deletes
an event: no service calls `deleteProject`. `steady` and `seen` are history:
the webhooks active all through a request, and at some time in it.

### Shutdown

Node runs one callback at a time, so an action is what runs between two awaits.
`turn` is how far `shutdown()` has come: 0 before the signal, then the index of the
component whose `stop()` it awaits, then the closing of the connections.
`stopping` holds the components whose flag is set. The scheduler's `spc` goes
`tick -> refill -> sleep`, a worker loop's `wpc` goes `claim -> job`. `timer` tells
a sleep that `stop()` has resolved from one that only its timer ends, and
`midTick` that `stop()` found no sleep to resolve. A tick is its refill
iterations and a job is one step; what they do is in `Relay`. `Accidents`
says whether the watchdog may fire and `app.close()` may reject.

### Sessions

A call's `at` is the next SQL statement (or transaction) of its handler, or the
answer on its way back:

    /refresh   find -> rotate -> link -> granted          /register  emailExists -> createUser -> issue -> granted
                 |-> revokeAll -> refused                 /login     issue -> granted
                 \-> refused                              /logout    findEnded -> revoke -> ended

`for` is what the page wants of it: to restore the session (App's first effect,
a refresh followed by `me`), an API call that was answered 401, the sign-in form,
or to sign out. `presented` is the cookie of the moment the call was sent.
Tokens are numbered as they are issued; `revoked`, `expired`, `userId` and
`replacedById` are columns. Hashes, passwords and JWTs are left out: an access
token is the user it names, and it may expire at any time, since a call that is
granted with it touches nothing here.

A browser has one cookie and one page. A page that is reloaded abandons its
calls: the server goes on with them, and the browser may or may not take the
cookie of an answer that nobody waits for. `Throws` is a statement that fails or
the rate limiter. `AnswerLost` is a server that dies, with the call, or only the
connection, while the handler runs on to an answer that nobody waits for
(`Unheard`): what has been committed stays. The cookie and its token expire together
(`refreshCookieOptions`).

`disturbed` is history: the browsers that have had two calls in progress at once
or a call that failed. What the properties promise, they promise to the others,
whatever the disturbed ones do. `device` and `origin` are history as well: whom a
token was sent to and what it was exchanged for.

### Listing

`Insert` dates an event and `Commit` makes it visible, in any order, so that an
event can appear below others that were seen before. `Rows` is what the query of
`listEvents` returns before its LIMIT: all that match, or those from the cursor
on without the first (`skip: 1`). `GetPage` asks for one more than `limit`;
`HasMore` is that it came. A page is one statement. Ids are compared only between
equal dates. Ownership is part of `Matching`: a project of somebody else's is
not found at all.

### Abstract specifications

`BoundedPool` sees only the set of resident jobs: an offer is admitted as far as
there is room and no further, and a claim is invisible. `DeliveryLifecycle` sees
status, attempts and the set of workers between claiming and recording a
delivery: only the sender of a delivery gives it an outcome, each outcome counts
one attempt, and a delivery is reclaimed only when it has no sender. The code
checks neither of the last two (`recordFailure` updates by id, the reaper by
status); that the pipeline implements them is a consequence of the leases.

## 3. Runs

Passing runs:

| Run | Instance | Checks |
|---|---|---|
| `Window` | 4 ids, capacity 3 | `TypeOK`, `DedupeExact`, `ReadingCoversResidents`, `ImplementsPool` |
| `RelayFaults` | 3 deliveries, 2 slots, 2 workers, 1 scheduler, 2 faults, 1 replay | `DedupeExact`, `SlotsComeBack`, `QueuedIsVisible`, `WaitingOutsideWindow`, `TerminalUntilReplayed` |
| `RelayAnyFault` | 2 deliveries, 2 slots, 2 workers, 1 scheduler, 2 faults of every kind but `late`, deletions, 1 replay | `TypeOK`, `NoConcurrentSend`, `WindowBounded`, `OneSlotPerFault`, `ImplementsLifecycle` |
| `RelaySettles` | 2 deliveries, 1 slot, 2 workers, 1 scheduler, 2 faults, fairness | `EventuallySettled` |
| `Ingest` | 2 clients, 1 key or none, 2 webhooks, 2 projects, 3 events, 1 failure, fairness | `TypeOK`, `OneEventPerKey`, `AnswersAreTrue`, `EventsAreWhole`, `FansOutToTheActive`, `RetriesAreAnswered` |
| `Shutdown` | all four roles, 2 worker loops, 2 requests, 2 batches, both accidents, fairness | `TypeOK`, `ClosedMeansIdle`, `OneJobAfterStop`, `PromptBetweenTicks`, `ShutdownEnds` |
| `Sessions` | 2 users, a laptop with 2 calls and a phone with 1, 3 tokens, 1 trouble, 1 expiry | `TypeOK`, `ExchangedIsDead`, `HonestAreBelieved`, `CookieStaysGood`, `NothingLeftBehind`, `PageMatchesCookie`, `LoadingIsWaiting` |
| `Listing` | 4 events, 2 dates, pages of 1 and 2, 2 projects, 2 types, fairness | `TypeOK`, `NothingTwice`, `NothingMissed`, `MoreToCome`, `GoesBack`, `ListingEnds` |

`RelayFaults` leaves out what takes rows and slots out of step, most of it shown
in the next table and the list below it: a worker that dies between BLMOVE and
the claim or between the record and the release, a scheduler that dies before
the reaper's release, resent commands, late workers, a Redis restart, deletions
and a second scheduler. The table in section 4 says which of them breaks which
property, and what holds without them for every size. `RelayAnyFault` has all of
them but late workers and the second scheduler; with those `WindowBounded` is a
theorem (`CapacityHeld`), so is `OneSlotPerFault` (`FaultsCostOneSlot`), and
`NoConcurrentSend` and `ImplementsLifecycle` do not hold. What the deaths left out
of `RelayFaults` cost is for `OneSlotPerFault` to bound: a slot each. `RelaySettles`
leaves out the three crashes for the same reason, and deletions and the second
scheduler for size.

Runs that TLC must find violated, each a statement of the repository about
itself. `findings` in `PROJECT.json` quotes the lines.

| Run | Property | What happens |
|---|---|---|
| `DiedTaking` | `EventuallySettled` | worker dies after BLMOVE, before its UPDATE: QUEUED and guarded for ever |
| `TwoSchedulers` | `NoConcurrentSend` | two reapers find the same row; the slower takes it from its new worker |
| `AttemptsExhausted` | `ExhaustedIsSettled` | the reaper counts attempts and never stops |
| `HonestAlarm` | `NoFalseAlarm` | a reloaded page presents a cookie that its own earlier refresh is exchanging |

`ExhaustedIsSettled` and `NoFalseAlarm` are stated for their runs only.

More disagreements came up while modelling; they have no run of their own.

* A worker that dies after recording and before complete() leaks its slot for
  good: no sweep looks at a settled row (`worker.ts:160-163` leaves a dead
  process to the reaper). `RelayFaults` with `"complete"` among its
  `WorkerCrashPoints` shows it as a violation of `SlotsComeBack`.
* A scheduler that dies between the reaper's update and its release leaves a
  WAITING row whose id stays in the guard set: it is offered, refused and reset
  for ever (`scheduler.ts:169-173` chose the order so that nothing is lost).
  `RelaySettles` with `"release"` among its `SchedulerAbortPoints` shows it.
* `headersTimeout` and `bodyTimeout` are no "hard ceiling on the whole request"
  (`deliver.ts:77`): a body that comes slowly outlasts the lease, and the reaper
  gives the delivery to a second worker. `RelayAnyFault` with `"late"` among its
  `Faults` shows it (`NoConcurrentSend`, `ImplementsLifecycle`).
* A webhook deleted while a dead worker's delivery is PROCESSING takes the row
  with it, and the slot is never reclaimed. `RelayFaults` with a `Deletable`
  delivery shows it.
* The reading of `occupancy()` can exceed the capacity, since a job moved between
  the two LLENs is counted twice (`RedisWindowQueue.ts:17` calls the arithmetic
  exact).
* The slower of two reapers releases ids that have been queued again and drops
  their guard entries.
* A command sent twice can push an id whose row is WAITING, or drop the guard
  entry of a ready one.
* `resetToPending` keeps `nextRetryAt`, which `schema.prisma:159` says is null
  while PENDING.
* A `stop()` that arrives during a tick resolves no sleep, and the loop then
  sleeps a whole poll interval before it looks at its flag;
  `scheduler.ts:230-231` says the sleep resolves early when stop() is called.
* `docs/walkthrough.md:466` speaks of a ten-second watchdog; `main.ts:102` gives
  it the delivery timeout and ten seconds.
* `docs/milestone.md:123` says that on SIGTERM workers stop claiming; in the role
  `all` they go on until the API and the scheduler have stopped.
* The alarm is given for any revoked token, `replacedById` is never read: a page
  left open with a cookie that was signed out elsewhere, or that an earlier alarm
  has revoked, gives another alarm at its next call and ends the session its user
  has begun since. `session.service.ts:83` says of such a token that it "was
  already exchanged".
* `rotateRefreshToken` does not look at `revokedAt` again: two rotations that
  overlap both succeed and leave two live successors, and a rotation beside an
  alarm survives it.
* `App.tsx:32` awaits `tryRefresh()` outside its `try`: if the request itself
  fails, the page says "Loading..." until it is reloaded. It is the reason why
  `LoadingIsWaiting` excuses a disturbed browser: any that has had a call that
  failed, or calls that overlapped. For the others it says that the call the page
  waits for is one that will reach it, not one of a page that was reloaded.
* `logout()` does not look at the response: the page is signed out although the
  token is not, if the server answered 500. A 429 of `/refresh` signs a page out.
* Signing in over a cookie that is still good leaves the old token live until it
  expires. Nothing calls `deleteExpiredTokens`.
* Two registrations of one email at once: the second ends in a 500, not in the 409
  of `auth.service.ts:42`.

### Bounds, and why they are enough

* Three deliveries for two slots (two for one): a full window, a batch that is
  partly refused, a row that has to wait.
* Two workers: one that holds an id while another takes the same id. A third
  would repeat the second.
* `MaxAttempts = 2`: a first attempt that may be retried and a last one. The
  reaper can raise `attempt` further, at most once per fault.
* `MaxFaults = 2`: a fault and another during its repair. Each violation above
  needs one or two.
* `MaxReplays = 1`: a delivery that is settled, replayed and settled again.
* `BatchSize = 2`: a refill loop with one and with several iterations, and a
  batch larger than the room.
* `Ingest`: two clients race for one key, in one project or in two (the projects
  of the keys are free). `MaxEvents = 3` leaves room for both and for the second
  event a retry without a key makes; one failure, since each request that has
  failed starts again. Two webhooks of one project: one that stays while the
  other comes and goes.
* `Shutdown`: two loops, one busy and one blocked; two refill iterations, so that
  `stop()` falls between them; two requests in progress.

* `Sessions`: the laptop has two calls, so that two can overlap, and the phone
  shows what others notice. Three tokens are a sign-in and two exchanges, or two
  devices and one exchange. One trouble: an overlap, an error or a lost answer; the
  properties are about browsers that had none, and one other browser is in
  trouble or not.
* `Listing`: four events on pages of at most two: two full pages, or three when
  limit is 1, with events that appear before, at and behind the cursor; two dates,
  so that ids decide as well.

Symmetry over deliveries, workers, schedulers and users is used in the runs without
liveness; no action or property names a particular one. Deadlock is checked in
every run of the window and the pipeline: schedulers poll for ever. It is not in
`Ingest`, `Sessions` and `Listing`, where nobody has to publish or call and the
bounds run out, and not in `Shutdown`, where the process ends.

### Fairness

`FairSpec` assumes weak fairness of each worker's and each scheduler's next step
and of the passing of time for each delivery. The event loop runs `loop()` until
the process is stopped and catches every error (`worker.ts:184-206`,
`scheduler.ts:207-225`); BLMOVE serves whichever worker waits; a request ends
through its timeouts (without `late`). No fairness is assumed of the API and none
of faults. The scheduler is not assumed to take the ids in any order beyond the
`ORDER BY` of its query.

In `Ingest` each client's next statement is weakly fair, its retry included: Node
runs a request to its end, and a client without a 202 sends again. Those who
change webhooks owe nothing. A request need not be answered at its first
attempt: a webhook deleted between `List` and `Create` makes it start over, and
webhook ids are not used twice.

In `Shutdown` what is fair are responses, the scheduler's next step, a blocked
BLMOVE's time-out, the end of a job, and `shutdown()` itself; requests and jobs end
through their timeouts. The watchdog need not fire: `ShutdownEnds` does not
lean on it.

In `Listing` the client's next page is fair, and nothing else: it comes to the end
of the list because there is an end to what is published while it reads.
`Sessions` has no liveness property: calls may be lost, and pages owe nothing.

## 4. Proofs

`WindowTheorems` proves, about the sequences the window is built from, that
`Sublist` keeps order and length (`RankStrict`, `RankOnto`,
`SublistProperties`), what LREM leaves (`LremProperties`) and what ENQUEUE
accepts (`AcceptedProperties`: at most the room, only offered ids); then that
each of the window's actions preserves its type and its bound (`EnqueueSafe`,
`ClaimSafe`, `CompleteSafe`, `ReleaseSafe`, ...), and what each does to the sets of
ids and to the guard set (`EnqueueExact`, `ClaimMoves`, `ClaimExact`,
`ReleaseExact`). The clients of the window and the pipeline both lean on these.

`WindowClientsProofs`, for any number of clients, any finite set of IDs and any
capacity:

* **`GuardIsExact`** : `Spec => []DedupeExact`. Cardinalities are not inductive; the
  invariant behind it, `ExactInv`, says that neither list has a duplicate
  (`Distinct`), that the lists are disjoint, and that the guard set is their union.
  `ElementsCounted` turns that into the count: a list has as many elements as
  positions exactly if it is `Distinct`.
* **`ReadingCovers`** : `Spec => []ReadingCoversResidents`. The missing conjunct,
  `HalfCounted`, is about the time between the two LLENs: what stayed and is not in
  flight by now has been counted by the first, because a job leaves `inFlight` only
  with its slot.
* **`PoolImplemented`** : `Spec => ImplementsPool`, the refinement: an ENQUEUE is an
  `Admit` that is cut short only by a full window, every other command a `Free` or
  a stutter.
* **`TypeCorrect`** : `Spec => []TypeOK`, from the same `ClientsInv`.

`RelayProofs`:

* **`TypeCorrect`** : `Spec => []TypeOK`. The type of `room` is not inductive:
  `remaining` is a natural number only because Redis accepts no more than it was
  offered and the scheduler offers no more than `remaining`. The strengthening is
  `TypeInv == TypeOK /\ BatchFits`.
* **`CapacityHeld`** : `Spec => []WindowBounded`, for every number of
  schedulers and workers and every combination of faults, by `TypeInv` and the
  window's lemmas.
* **`SingleSender`** : `Spec => []NoConcurrentSend`, assuming one scheduler
  (`OneScheduler`) and `"late" \notin Faults` (`TimersOutlastWorkers`). The run
  `TwoSchedulers` shows that the first is needed, the slow body of section 3 that
  the second is. The invariant is
  `OwnerInv`: a row held by a worker between claim and record is PROCESSING or
  deleted (`HeldIsProcessing`), by one worker (`HeldOnce`), its lease has not
  expired (`HeldIsLive`), and what the reaper has found is expired or no longer
  PROCESSING (`FoundIsExpired`), so that its update never hits a held row.
* **`LifecycleImplemented`** : `Spec => ImplementsLifecycle`, the refinement of
  `DeliveryLifecycle`, and **`SettledStays`** : `Spec => TerminalUntilReplayed`,
  under the same two assumptions. Beside `OwnerInv` they need `AttemptKnown`: the
  attempt a sender has read is still the attempt of its row, so that the number
  it writes, which the statement does not check, is the next one. A step maps to
  a stutter, to the one action of `DeliveryLifecycle` that its change of rows is, or
  to a sender that comes or leaves (`SenderComes`, `SenderLeaves`). A record
  is of a row that is PROCESSING, hence not settled.

`RelayWindowProofs` relates the two stores. Each property breaks under some faults,
and each theorem assumes exactly the others away: with one cause in addition to
what its theorem allows, TLC finds every property marked x violated in an instance
of the size of `RelayFaults`.

| | `DedupeExact` | `WaitingOutsideWindow` | `QueuedIsVisible` | `SlotsComeBack` |
|---|---|---|---|---|
| a worker dies before its UPDATE (`"claim"`) | holds | holds | x | x |
| a worker dies before complete() (`"complete"`) | holds | x | x | x |
| a tick ends before the reaper's release (`"release"`) | holds | x | x | x |
| any other death, `"query"`, `"offer"` | holds | holds | holds | holds |
| a delivery is deleted | holds | holds | holds | x |
| `"reply"` | x | x | holds | holds |
| `"late"` | x | x | holds | holds |
| `"redis"` | x | x | holds | holds |
| two schedulers | x | x | x | holds |

So the slots and the guard set fail in opposite ways: what two processes do to each
other, late or twice, costs entries of the guard set but never a slot, and a death
costs slots but never an entry. (The capacity is kept in every row:
`CapacityHeld`.)

* **`SlotsReturned`** : `Spec => []SlotsComeBack`, assuming `SlotsSurvive` (no death
  at `"complete"` or `"release"`), none at `"claim"`, and `Deletable = {}`; any number
  of schedulers and all faults. The invariant `SlotsAttended` leaves no worker
  but those at `claim` and `complete` responsible for a slot: one that reads or sends
  may lose its row to a reaper, and then the reaper is. It is inductive because
  LREM is called with count 0: whoever lets go of an id frees all its slots,
  somebody else's included (`InFlightShrinks`).
* **`FaultsCostOneSlot`** : `Spec => []OneSlotPerFault`, assuming nothing: all faults,
  deletions and any number of schedulers. It bounds what the marks in the column of
  `SlotsComeBack` mean. The in-flight list grows by BLMOVE alone, and BLMOVE gives
  what it moves to a worker; a worker parts with its job in the step that frees the
  slot, or it dies, which is one fault and leaves one delivery more without a worker
  (`SlotsOfWorkers`). Nobody else changes who has which job (`JobsKept`).
* **`QueuedSeen`** : `Spec => []QueuedIsVisible`, assuming one scheduler and no
  death at the same three places; all faults, and deletions. From `SlotsAttended`
  and two invariants more. `GuardHasPlace`: what the guard set holds is in one of
  the lists; it is inductive for everybody, since every script that takes an
  id off the lists takes the entry with it. `FoundNotQueued`: from the reaper's
  query to its release, its rows are not claimed for the window, because
  the scheduler that would claim them is itself.
* **`GuardExact`** : `Spec => []DedupeExact`, assuming one scheduler and
  `OnlyRollbacks` (statements and offers may fail; no command is sent twice, no timer
  ends early, Redis stays). An id that is completed or released must not be ready
  again, and a slot must not be taken twice, so the invariant
  `AllInv` follows a delivery round the pipeline: what is ready is QUEUED
  (`ReadyIsQueued`), a worker's job is in flight and no other worker's
  (`JobInFlight`, `JobOnce`), a PROCESSING row whose lease is over has no worker
  (`LapsedIsFree`), what the scheduler has claimed and not yet offered is
  QUEUED and neither ready nor about to be claimed (`BatchApart`, `RejectedApart`),
  what the sweep is about to reset is still outside the window (`OrphansOutside`),
  and what the reaper has found or updated is out of everybody's reach
  (`LapsedOutOfReach`, `ReapedOutOfReach`).
* **`WaitingOutside`** : `Spec => []WaitingOutsideWindow`, assuming these and
  `SlotsSurvive`. Beside `AllInv`, `SlotsInv` says who is left to free a slot
  (`SlotsKnown`), and that a row that is claimed again while its slot is still taken
  has a worker about to release it (`ClaimedInHand`).

`IngestProofs`, for any number of clients, keys, webhooks and failures:

* **`KeysAreUnique`** : `Spec => []OneEventPerKey`,
* **`AnswersHold`** : `Spec => []AnswersAreTrue`,
* **`NothingHalfDone`** : `Spec => []EventsAreWhole`,

all three from `IngestInvariant`, whose invariant `IngestInv` is the three
together with `Shape`, the types that updated functions are read back by.
`EventsAreWhole` is inductive because a webhook's deliveries
go only when it is deleted, and a deleted one never comes back.

* **`TypeCorrect`** : `Spec => []TypeOK`. The ids of events stay within the bound of
  the model only because publications are counted before they are begun: the
  rows, the requests that have not written theirs and the failures that may
  still make one of them start again are together at most `MaxEvents` (`ThereIsRoom`),
  and events are numbered without gaps (`EventsAreNumbered`).
* **`FansOutFairly`** : `Spec => FansOutToTheActive`, an action property. Until its
  transaction, a request's list holds what was active all along and nothing that was
  active at no time, although webhooks change meanwhile (`ListIsFair`).

`ShutdownProofs`:

* **`NothingStranded`** : `Spec => []ClosedMeansIdle`, for any number of loops and
  both accidents. The invariant `ShutdownInv` says, beside the types, that what the
  role does not run is off (`OthersAreOff`), that components whose turn has come
  are told to stop (`CalledAreStopping`), that a server told to stop does not
  listen (`ClosedAreDeaf`), and that what shutdown has gone past stays stopped
  (`PastAreStopped`): the order of `running` does not matter to it.
* **`TypeCorrect`** : `Spec => []TypeOK`.
* **`OneJobAtMost`** : `Spec => []OneJobAfterStop`, by `LateLoopsEnd`: a loop that has
  taken a job since it was told to stop is doing that job or has ended.
* **`SleepIsResolved`** : `Spec => []PromptBetweenTicks`, by `TicksAreSeen`: a tick
  that runs while the scheduler is told to stop was running when it was told.

`SessionsProofs`, for any number of users, browsers, calls and tokens:

* **`TypeCorrect`** : `Spec => []TypeOK`, with `CallsAreSound`: what a call
  presents has been issued, what it is about to hand out has been issued too.
* **`ExchangedStaysDead`** : `Spec => []ExchangedIsDead`, inductive beside `TypeInv`.
* **`TheHonestAreBelieved`** : `Spec => []HonestAreBelieved`, and
  **`CookiesStayGood`** : `Spec => []CookieStaysGood`, from one invariant,
  `HonestInv`. An undisturbed browser has one call at a time (`OneAtATime`); a
  token in its cookie, presented by its call or on its way to it was issued to
  it (`TokensStayHome`); and each of these is live, or its user has been alarmed
  (`CookieIsGood`, `PresentedIsGood`, `NextIsGood`). So the call that finds a revoked
  token is of a disturbed browser, or of a user alarmed before.
* **`LoadingWaits`** : `Spec => []LoadingIsWaiting`, from `HonestInv` and
  `RestoringHasACall`, which is the property without its "and the page has not given
  that call up": only disturbed browsers have calls that were given up
  (`OneAtATime`).
* **`NothingIsLeft`** : `Spec => []NothingLeftBehind`, and **`PagesMatchCookies`** :
  `Spec => []PageMatchesCookie`, from `CalmInv` beside `HonestInv`. Of an undisturbed
  browser's call it says where on its course it is (`CalmCall`): the token it
  presents is the cookie's until it is spent, and spent before the next one is on
  its way or the page is refused; of its page, that it is signed out only over
  a spent cookie, and signed in as the cookie's user (`CalmPage`).

`ListingProofs`, for any number of events, dates, projects and types and any page
size:

* **`NoneTwice`**, **`NoneMissed`**, **`NoEmptyPage`**, **`BackInTime`** and
  **`TypeCorrect`**, from `ListInv`: while the client reads, what it has been given
  ends at the cursor (`ListedAhead`), what it has still to be given of what was
  there lies beyond it (`ToListBeyond`), and there is something beyond it
  (`SomethingBeyond`). The lemmas are about the order and about pages of it: any
  set of events has a first and a last (`TheFirst`, `TheLast`, by
  `LexicallyLeast`), a page is a prefix and leaves something exactly if there are
  more rows than it may have (`PageOf`), a `skip: 1` leaves out the cursor and
  nothing else (`RowsBeyond`), and a publication hides and moves no row
  (`Publication`).

The constants are assumed finite and positive where they are sizes
(`DeliveriesAssumption`, `CapacityAssumption`, `SizesAssumption`), `NoJob` is no
delivery, and the fault sets are subsets of what is defined.

Only model-checked are the liveness properties (`EventuallySettled`,
`RetriesAreAnswered`, `ShutdownEnds`, `ListingEnds`): liveness under fairness and
ENABLED are beyond the prover, as is induction over data; no module uses a
RECURSIVE operator. Every invariant, action property and refinement of the passing
runs is a theorem. What the theorems about `Relay` assume away and the table
marks with an x is false; the counterexamples are TLC's.

## 5. Not modelled

* Rows of `delivery_attempts`: they are written with the outcome, in one
  transaction, and read by nothing that decides. That the reaper counts attempts of
  which there is no row is seen in `DeliveryLifecycle`, not in a property.
* The delay arithmetic of `backoff.ts`: `Relay` knows a delay as a time in the
  future.
* API keys: created, listed, revoked and looked up by single statements.
  Projects likewise. Their checks stand in front of the services that are
  modelled.
* Signatures, `url-safety.ts`, hashing: pure functions of strings and addresses.
* HTTP plumbing, health checks, logging, Swagger, the load test: wiring and
  formatting. What the dashboard draws.
* `stopResolvers` of the scheduler grows with every poll; nothing bounds it, and
  nothing here counts it.
* Of what is modelled, left out are payloads, the text of errors, and rate limits
  beyond the refusal they end in.

## 6. Plan

Done: `ExecutionWindow`, `WindowClients`, `BoundedPool`, `Relay`,
`DeliveryLifecycle`, `Ingest`, `Shutdown`, `Sessions`, `Listing`, and the proof
modules.

What would come next:

1. `AttemptHistory`: `delivery_attempts` beside `delivery.attempt` under reaping
   and late records.
2. `RetryPolicy`: `computeBackoffMs` as an operator against a reference definition
   over bounded inputs.

Theorems to come: those of the new modules, and what can be said of the pipeline
where the table of section 4 has an x in the other columns, as `OneSlotPerFault`
does for that of `SlotsComeBack`.
