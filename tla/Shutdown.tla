------------------------------ MODULE Shutdown ------------------------------
(***************************************************************************)
(* One Relay process (src/main.ts) from its start to its end: the API, the *)
(* loop of the scheduler, the loops of the worker pool, and the shutdown   *)
(* that a signal begins, which stops them one after the other and then     *)
(* closes the connections, under a watchdog.                               *)
(*                                                                         *)
(* Node runs one callback at a time: an action is what runs between two    *)
(* awaits.  What the scheduler and the workers do to rows and slots is a   *)
(* matter of Relay; here a tick is its refill iterations and a job is one  *)
(* step.  A process that ends in the middle of them is Relay's crash.      *)
(***************************************************************************)
EXTENDS Integers, Sequences

CONSTANTS
    Workers,        \* the loops of the pool (WORKER_CONCURRENCY)
    Roles,          \* values of RELAY_ROLE to look at
    MaxRequests,    \* bound: HTTP requests in progress
    MaxBatches,     \* bound: refill iterations of a tick
    Accidents       \* of "watchdog" (it fires), "close" (app.close() rejects)

ASSUME RolesAssumption == Roles \subseteq {"api", "scheduler", "worker", "all"}
ASSUME BoundsAssumption == MaxRequests \in Nat /\ MaxBatches \in Nat
ASSUME AccidentsAssumption == Accidents \subseteq {"watchdog", "close"}

VARIABLES
    role,
    turn,           \* shutdown: 0 before the signal, then the component it awaits
    exit,           \* "no", or how the process has ended
    watchdog,       \* its timer is set
    listening,      \* the server accepts requests
    requests,       \* how many it is answering
    stopping,       \* components whose stop() has been called
    spc,            \* scheduler: "off", "tick", "refill", "sleep", "ended"
    batches,        \* refill iterations its tick still has room for
    timer,          \* of its sleep: "set", or "resolved" by stop()
    wpc,            \* worker loops: "off", "claim", "job", "ended"
    connected,      \* Postgres and Redis
    midTick,        \* history: stop() came while a tick was running
    late            \* history: jobs a loop was given after pool.stop()

main == <<role, turn, exit, watchdog>>
api == <<listening, requests>>
scheduler == <<spc, batches, timer>>
history == <<midTick, late>>
vars == <<main, api, stopping, scheduler, wpc, connected, history>>

(* Mutant of Running: the pool is started and not pushed.                  *)
RunningButWorkers ==
    CASE role = "all" -> <<"api", "scheduler">>
      [] OTHER -> <<role>>

(* `running`, in the order main() pushes what the role calls for.          *)
Running ==
    CASE role = "all" -> <<"api", "scheduler", "worker">>
      [] OTHER -> <<role>>

Runs(component) == role \in {component, "all"}

(* main() has started what there is; no signal has come.                   *)
Init ==
    /\ role \in Roles
    /\ turn = 0
    /\ exit = "no"
    /\ watchdog = FALSE
    /\ listening = Runs("api")
    /\ requests = 0
    /\ stopping = {}
    /\ spc = IF Runs("scheduler") THEN "tick" ELSE "off"
    /\ batches = 0
    /\ timer = "set"
    /\ wpc = [w \in Workers |-> IF Runs("worker") THEN "claim" ELSE "off"]
    /\ connected = TRUE
    /\ midTick = FALSE
    /\ late = [w \in Workers |-> 0]

Alive == exit = "no"

----------------------------------------------------------------------------
(* The API.                                                                *)

Request ==
    /\ Alive /\ listening
    /\ requests < MaxRequests
    /\ requests' = requests + 1
    /\ UNCHANGED <<main, listening, stopping, scheduler, wpc, connected, history>>

Respond ==
    /\ Alive
    /\ requests > 0
    /\ requests' = requests - 1
    /\ UNCHANGED <<main, listening, stopping, scheduler, wpc, connected, history>>

----------------------------------------------------------------------------
(* The scheduler.                                                          *)

SchedulerOnly == UNCHANGED <<main, api, stopping, wpc, connected, history>>

(* !this.stopping, of the scheduler and of the pool.                       *)
GoesOn(component) == component \notin stopping

(* tick() up to availableCapacity(); then the refill loop, if there is     *)
(* room and nobody has called stop().                                      *)
Measure ==
    /\ Alive /\ spc = "tick"
    /\ batches' \in 0..MaxBatches
    /\ spc' = IF batches' > 0 /\ GoesOn("scheduler") THEN "refill" ELSE "sleep"
    /\ timer' = "set"
    /\ SchedulerOnly

(* One batch is claimed and offered: fewer remain, or nothing is eligible. *)
Refill ==
    /\ Alive /\ spc = "refill"
    /\ batches' \in 0..(batches - 1)
    /\ spc' = IF batches' > 0 /\ GoesOn("scheduler") THEN "refill" ELSE "sleep"
    /\ timer' = "set"
    /\ SchedulerOnly

(* A statement throws: the loop logs it and sleeps.                        *)
TickFails ==
    /\ Alive /\ spc \in {"tick", "refill"}
    /\ spc' = "sleep"
    /\ batches' = 0
    /\ timer' = "set"
    /\ SchedulerOnly

(* Mutant of Wake: a sleep that begins after stop() has no timer.          *)
WakeByStop ==
    /\ Alive /\ spc = "sleep"
    /\ GoesOn("scheduler") \/ timer = "resolved"
    /\ spc' = IF GoesOn("scheduler") THEN "tick" ELSE "ended"
    /\ UNCHANGED <<batches, timer>>
    /\ SchedulerOnly

(* The poll interval is over, or stop() has resolved the sleep.            *)
Wake ==
    /\ Alive /\ spc = "sleep"
    /\ spc' = IF GoesOn("scheduler") THEN "tick" ELSE "ended"
    /\ UNCHANGED <<batches, timer>>
    /\ SchedulerOnly

SchedulerStep == Measure \/ Refill \/ TickFails \/ Wake

----------------------------------------------------------------------------
(* The worker pool.                                                        *)

WorkerOnly == UNCHANGED <<main, api, stopping, scheduler, connected, midTick>>

(* BLMOVE has moved a job: one that blocks when stop() is called is not    *)
(* interrupted, and its job is done like any other.                        *)
GivenJob(w) ==
    /\ Alive /\ wpc[w] = "claim"
    /\ wpc' = [wpc EXCEPT ![w] = "job"]
    /\ late' = [late EXCEPT ![w] = IF GoesOn("worker") THEN @ ELSE @ + 1]
    /\ WorkerOnly

(* BLMOVE times out or throws: round again, or out.                        *)
GivenNothing(w) ==
    /\ Alive /\ wpc[w] = "claim"
    /\ ~GoesOn("worker")
    /\ wpc' = [wpc EXCEPT ![w] = "ended"]
    /\ UNCHANGED late
    /\ WorkerOnly

(* Mutant of JobEnds: only an idle loop looks at stopping.                 *)
JobEndsAndOn(w) ==
    /\ Alive /\ wpc[w] = "job"
    /\ wpc' = [wpc EXCEPT ![w] = "claim"]
    /\ UNCHANGED late
    /\ WorkerOnly

(* processOne returns or throws.                                           *)
JobEnds(w) ==
    /\ Alive /\ wpc[w] = "job"
    /\ wpc' = [wpc EXCEPT ![w] = IF GoesOn("worker") THEN "claim" ELSE "ended"]
    /\ UNCHANGED late
    /\ WorkerOnly

WorkerStep(w) == GivenJob(w) \/ GivenNothing(w) \/ JobEnds(w)

----------------------------------------------------------------------------
(* shutdown().                                                             *)

(* Mutant of CallStop: stop() does not resolve the sleep.                  *)
CallStopQuietly(i) ==
    /\ stopping' = stopping \cup {Running[i]}
    /\ listening' = (listening /\ Running[i] # "api")
    /\ midTick' = (midTick \/ (Running[i] = "scheduler" /\ spc \in {"tick", "refill"}))
    /\ UNCHANGED <<timer, connected>>

(* The i-th component's stop() up to its first await: close() stops        *)
(* listening; Scheduler.stop() resolves the sleep there is, if any.        *)
CallStop(i) ==
    /\ stopping' = stopping \cup {Running[i]}
    /\ listening' = (listening /\ Running[i] # "api")
    /\ timer' = IF Running[i] = "scheduler" /\ spc = "sleep" THEN "resolved" ELSE timer
    /\ midTick' = (midTick \/ (Running[i] = "scheduler" /\ spc \in {"tick", "refill"}))
    /\ UNCHANGED connected

(* Mutant of Stopped: the jobs of the pool are not waited for.             *)
StoppedButWorkers(component) ==
    CASE component = "api" -> requests = 0
      [] component = "scheduler" -> spc = "ended"
      [] OTHER -> TRUE

(* What its stop() waits for: requests in progress, loopFinished, loops.   *)
Stopped(component) ==
    CASE component = "api" -> requests = 0
      [] component = "scheduler" -> spc = "ended"
      [] OTHER -> \A w \in Workers : wpc[w] = "ended"

(* SIGTERM or SIGINT; shuttingDown makes any further one do nothing.       *)
Signal ==
    /\ Alive /\ turn = 0
    /\ turn' = 1
    /\ watchdog' = TRUE
    /\ CallStop(1)
    /\ UNCHANGED <<role, exit, requests, spc, batches, wpc, late>>

(* The component it awaits has stopped: the next one's turn.               *)
StopNext ==
    /\ Alive /\ turn \in 1..(Len(Running) - 1)
    /\ Stopped(Running[turn])
    /\ turn' = turn + 1
    /\ CallStop(turn + 1)
    /\ UNCHANGED <<role, exit, watchdog, requests, spc, batches, wpc, late>>

(* All have: disconnectDatabase() and disconnectRedis().                   *)
Disconnect ==
    /\ Alive /\ turn = Len(Running)
    /\ Stopped(Running[turn])
    /\ turn' = turn + 1
    /\ connected' = FALSE
    /\ UNCHANGED <<role, exit, watchdog, api, stopping, scheduler, wpc, history>>

(* Both have settled, whatever came of them: process.exit(0).              *)
Exit ==
    /\ Alive /\ turn = Len(Running) + 1
    /\ exit' = "clean"
    /\ watchdog' = FALSE
    /\ UNCHANGED <<role, turn, api, stopping, scheduler, wpc, connected, history>>

(* The only stop() that can reject; the rest is not stopped: exit(1).      *)
CloseFails ==
    /\ Alive /\ "close" \in Accidents
    /\ turn \in 1..Len(Running)
    /\ Running[turn] = "api"
    /\ exit' = "error"
    /\ watchdog' = FALSE
    /\ UNCHANGED <<role, turn, api, stopping, scheduler, wpc, connected, history>>

(* DELIVERY_TIMEOUT_MS and ten seconds have passed: exit(1).               *)
WatchdogFires ==
    /\ Alive /\ "watchdog" \in Accidents
    /\ watchdog
    /\ exit' = "forced"
    /\ UNCHANGED <<role, turn, watchdog, api, stopping, scheduler, wpc, connected,
                   history>>

ShutdownStep == StopNext \/ Disconnect \/ Exit

----------------------------------------------------------------------------

Next ==
    \/ Request \/ Respond
    \/ SchedulerStep
    \/ \E w \in Workers : WorkerStep(w)
    \/ Signal \/ ShutdownStep
    \/ CloseFails \/ WatchdogFires

Spec == Init /\ [][Next]_vars

(* Requests and jobs end through their timeouts, statements are answered,  *)
(* timers expire, BLMOVE returns.  Nothing is assumed of the watchdog, nor *)
(* of jobs to be had.                                                      *)
FairSpec ==
    /\ Spec
    /\ WF_vars(Respond)
    /\ WF_vars(SchedulerStep)
    /\ \A w \in Workers : WF_vars(GivenNothing(w)) /\ WF_vars(JobEnds(w))
    /\ WF_vars(ShutdownStep)

----------------------------------------------------------------------------

(* What runs is what shutdown() knows of.                                  *)
TypeOK ==
    /\ role \in Roles
    /\ turn \in 0..(Len(Running) + 1)
    /\ exit \in {"no", "clean", "forced", "error"}
    /\ watchdog \in BOOLEAN
    /\ listening \in BOOLEAN
    /\ requests \in 0..MaxRequests
    /\ stopping \subseteq {Running[i] : i \in DOMAIN Running}
    /\ spc \in {"off", "tick", "refill", "sleep", "ended"}
    /\ batches \in 0..MaxBatches
    /\ timer \in {"set", "resolved"}
    /\ wpc \in [Workers -> {"off", "claim", "job", "ended"}]
    /\ connected \in BOOLEAN
    /\ midTick \in BOOLEAN
    /\ late \in [Workers -> Nat]
    /\ (\E i \in DOMAIN Running : Running[i] = "scheduler") <=> (spc # "off")
    /\ \A w \in Workers :
          (\E i \in DOMAIN Running : Running[i] = "worker") <=> (wpc[w] # "off")

(***************************************************************************)
(* The connections are closed only when no request, no tick and no job is  *)
(* under way: a shutdown that runs to its end strands no delivery in       *)
(* QUEUED without a slot or in PROCESSING without a worker.                *)
(***************************************************************************)
ClosedMeansIdle ==
    ~connected =>
        /\ ~listening /\ requests = 0
        /\ spc \in {"off", "ended"}
        /\ \A w \in Workers : wpc[w] \in {"off", "ended"}

(***************************************************************************)
(* Once the pool is told to stop, each of its loops takes at most the one  *)
(* job its BLMOVE was already waiting for.                                 *)
(***************************************************************************)
OneJobAfterStop == \A w \in Workers : late[w] <= 1

(***************************************************************************)
(* Shutdown waits for a poll interval only if the stop() came during a     *)
(* tick: then nothing resolves the sleep that follows it.  A sleep that is *)
(* in progress ends at once.                                               *)
(***************************************************************************)
PromptBetweenTicks ==
    spc = "sleep" /\ "scheduler" \in stopping => timer = "resolved" \/ midTick

(***************************************************************************)
(* A shutdown that has begun ends, even if its watchdog never fires.       *)
(***************************************************************************)
ShutdownEnds == turn > 0 ~> ~Alive

=============================================================================
