--------------------------- MODULE ShutdownProofs ---------------------------
(***************************************************************************)
(* Theorems about Shutdown, for every role and any number of workers,      *)
(* requests and batches, whatever goes wrong.                              *)
(***************************************************************************)
EXTENDS Shutdown, TLAPS

Components == 1..Len(Running)

(* How far the shutdown has come, and what it has left behind it.          *)
Shape ==
    /\ role \in {"api", "scheduler", "worker", "all"}
    /\ turn \in 0..(Len(Running) + 1)
    /\ requests \in Nat
    /\ wpc \in [Workers -> {"off", "claim", "job", "ended"}]
    /\ connected \/ turn = Len(Running) + 1

(* Components that main() has not started do nothing.                      *)
OthersAreOff ==
    /\ ~Runs("api") => ~listening /\ requests = 0
    /\ ~Runs("scheduler") => spc = "off"
    /\ ~Runs("worker") => \A w \in Workers : wpc[w] = "off"

(* Components whose stop() was called know it, and whose stop() has        *)
(* returned do nothing any more.                                           *)
CalledAreStopping == \A i \in Components : i <= turn => Running[i] \in stopping
ClosedAreDeaf == "api" \in stopping => ~listening
PastAreStopped == \A i \in Components : i < turn => Stopped(Running[i])

ShutdownInv ==
    Shape /\ OthersAreOff /\ CalledAreStopping /\ ClosedAreDeaf /\ PastAreStopped

LEMMA RunningFacts ==
    ASSUME role \in {"api", "scheduler", "worker", "all"}
    PROVE  /\ role = "all" => /\ Len(Running) = 3
                              /\ Running[1] = "api"
                              /\ Running[2] = "scheduler"
                              /\ Running[3] = "worker"
           /\ role # "all" => Len(Running) = 1 /\ Running[1] = role
  BY DEF Running

LEMMA InitHolds == Init => ShutdownInv
<1> SUFFICES ASSUME Init PROVE ShutdownInv
  OBVIOUS
<1>1. role \in {"api", "scheduler", "worker", "all"}
  BY RolesAssumption DEF Init
<1>2. Len(Running) \in {1, 3}
  BY <1>1, RunningFacts
<1>3. Shape /\ OthersAreOff /\ ClosedAreDeaf
  BY <1>1, <1>2 DEF Init, Shape, OthersAreOff, ClosedAreDeaf
<1>4. CalledAreStopping /\ PastAreStopped
  BY <1>2 DEF Init, CalledAreStopping, PastAreStopped, Components
<1> QED BY <1>3, <1>4 DEF ShutdownInv

(* A component that is in work has its turn still to come or to end.       *)
LEMMA RequestsSafe ==
    ASSUME ShutdownInv, Request \/ Respond
    PROVE  ShutdownInv'
<1>1. /\ Shape' /\ OthersAreOff' /\ CalledAreStopping' /\ ClosedAreDeaf'
  BY DEF ShutdownInv, Request, Respond, main, history, scheduler, Shape, OthersAreOff,
         CalledAreStopping, ClosedAreDeaf, Components, Runs, Running
<1>2. PastAreStopped'
  <2> SUFFICES ASSUME NEW i \in Components', (i < turn)'
               PROVE  Stopped(Running[i])'
    BY DEF PastAreStopped
  <2>1. i \in Components /\ i < turn /\ Running' = Running
    BY DEF Request, Respond, main, Components, Running
  <2>2. Stopped(Running[i]) /\ Running[i] \in stopping
    BY <2>1 DEF ShutdownInv, PastAreStopped, CalledAreStopping, Shape, Components
  <2>3. CASE Running[i] = "api"
    <3>1. requests = 0 /\ ~listening
      BY <2>2, <2>3 DEF Stopped, ShutdownInv, ClosedAreDeaf
    <3> QED BY <3>1 DEF Request, Respond
  <2>4. CASE Running[i] # "api"
    BY <2>1, <2>2, <2>4 DEF Stopped, Request, Respond, scheduler
  <2> QED BY <2>3, <2>4
<1> QED BY <1>1, <1>2 DEF ShutdownInv

LEMMA SchedulerSafe ==
    ASSUME ShutdownInv, SchedulerStep
    PROVE  ShutdownInv'
<1>1. /\ spc \notin {"off", "ended"}
      /\ SchedulerOnly
  BY DEF SchedulerStep, Measure, Refill, TickFails, Wake
<1>2. Shape' /\ OthersAreOff' /\ CalledAreStopping' /\ ClosedAreDeaf'
  BY <1>1 DEF ShutdownInv, SchedulerOnly, main, api, Shape, OthersAreOff,
              CalledAreStopping, ClosedAreDeaf, Components, Runs, Running
<1>3. PastAreStopped'
  <2> SUFFICES ASSUME NEW i \in Components', (i < turn)'
               PROVE  Stopped(Running[i])'
    BY DEF PastAreStopped
  <2>1. i \in Components /\ i < turn /\ Running' = Running
    BY <1>1 DEF SchedulerOnly, main, Components, Running
  <2>2. Stopped(Running[i])
    BY <2>1 DEF ShutdownInv, PastAreStopped
  <2>3. Running[i] # "scheduler"
    BY <1>1, <2>2 DEF Stopped
  <2> QED BY <1>1, <2>1, <2>2, <2>3 DEF Stopped, SchedulerOnly, api
<1> QED BY <1>2, <1>3 DEF ShutdownInv

LEMMA WorkerSafe ==
    ASSUME ShutdownInv, NEW w \in Workers, WorkerStep(w)
    PROVE  ShutdownInv'
<1>1. /\ wpc[w] \in {"claim", "job"}
      /\ WorkerOnly
      /\ \E place \in {"claim", "job", "ended"} : wpc' = [wpc EXCEPT ![w] = place]
  BY DEF WorkerStep, GivenJob, GivenNothing, JobEnds
<1>2. Runs("worker")
  BY <1>1 DEF ShutdownInv, OthersAreOff
<1>3. Shape' /\ OthersAreOff' /\ CalledAreStopping' /\ ClosedAreDeaf'
  BY <1>1, <1>2 DEF ShutdownInv, WorkerOnly, main, api, scheduler, Shape, OthersAreOff,
                    CalledAreStopping, ClosedAreDeaf, Components, Runs, Running
<1>4. PastAreStopped'
  <2> SUFFICES ASSUME NEW i \in Components', (i < turn)'
               PROVE  Stopped(Running[i])'
    BY DEF PastAreStopped
  <2>1. i \in Components /\ i < turn /\ Running' = Running
    BY <1>1 DEF WorkerOnly, main, Components, Running
  <2>2. Stopped(Running[i])
    BY <2>1 DEF ShutdownInv, PastAreStopped
  <2>3. Running[i] \in {"api", "scheduler"}
    BY <1>1, <2>2 DEF Stopped
  <2> QED BY <1>1, <2>1, <2>2, <2>3 DEF Stopped, WorkerOnly, api, scheduler
<1> QED BY <1>3, <1>4 DEF ShutdownInv

(* The signal, and each stop() that returns.                               *)
LEMMA ShutdownSafe ==
    ASSUME ShutdownInv, Signal \/ ShutdownStep \/ CloseFails \/ WatchdogFires
    PROVE  ShutdownInv'
<1>1. role' = role /\ Running' = Running
  BY DEF Signal, ShutdownStep, StopNext, Disconnect, Exit, CloseFails, WatchdogFires,
         Running
<1>2. /\ Len(Running) \in {1, 3}
      /\ turn \in 0..(Len(Running) + 1)
      /\ turn' \in 0..(Len(Running) + 1)
  <2>1. Len(Running) \in {1, 3} /\ turn \in 0..(Len(Running) + 1)
    BY RunningFacts DEF ShutdownInv, Shape
  <2> QED BY <2>1 DEF Signal, ShutdownStep, StopNext, Disconnect, Exit, CloseFails,
                      WatchdogFires
<1>3. /\ spc' = spc
      /\ wpc' = wpc
      /\ requests' = requests
      /\ listening' => listening
  <2>1. spc' = spc /\ wpc' = wpc /\ requests' = requests
    BY DEF Signal, ShutdownStep, StopNext, Disconnect, Exit, CloseFails, WatchdogFires,
           api, scheduler
  <2>2. Signal \/ StopNext => (listening' => listening)
    BY DEF Signal, StopNext, CallStop
  <2>3. Disconnect \/ Exit \/ CloseFails \/ WatchdogFires => listening' = listening
    BY DEF Disconnect, Exit, CloseFails, WatchdogFires, api
  <2> QED BY <2>1, <2>2, <2>3 DEF ShutdownStep
<1>4. /\ stopping \subseteq stopping'
      /\ "api" \in stopping' /\ "api" \notin stopping => ~listening'
  BY DEF Signal, ShutdownStep, StopNext, Disconnect, Exit, CloseFails, WatchdogFires,
         CallStop, api
<1>5. /\ turn' \in {turn, turn + 1}
      /\ turn' # turn /\ turn' <= Len(Running) => Running[turn'] \in stopping'
      /\ turn' # turn /\ turn > 0 => Stopped(Running[turn])
  BY <1>2 DEF Signal, ShutdownStep, StopNext, Disconnect, Exit, CloseFails,
              WatchdogFires, CallStop
<1>6. connected' \/ turn' = Len(Running) + 1
  BY <1>2 DEF ShutdownInv, Shape, Signal, ShutdownStep, StopNext, Disconnect, Exit,
              CloseFails, WatchdogFires, CallStop
<1>7. Shape' /\ OthersAreOff' /\ ClosedAreDeaf'
  BY <1>1, <1>2, <1>3, <1>4, <1>6
     DEF ShutdownInv, Shape, OthersAreOff, ClosedAreDeaf, Runs
<1>8. CalledAreStopping'
  BY <1>1, <1>2, <1>4, <1>5 DEF ShutdownInv, CalledAreStopping, Components
<1>9. PastAreStopped'
  <2> SUFFICES ASSUME NEW i \in Components, i < turn'
               PROVE  Stopped(Running[i])'
    BY <1>1 DEF PastAreStopped, Components
  <2>1. Stopped(Running[i])
    BY <1>2, <1>5 DEF ShutdownInv, PastAreStopped, Components
  <2> QED BY <1>1, <1>3, <2>1 DEF Stopped
<1> QED BY <1>7, <1>8, <1>9 DEF ShutdownInv

LEMMA NextSafe == ShutdownInv /\ [Next]_vars => ShutdownInv'
<1> SUFFICES ASSUME ShutdownInv, [Next]_vars PROVE ShutdownInv'
  OBVIOUS
<1>1. CASE Request \/ Respond BY <1>1, RequestsSafe
<1>2. CASE SchedulerStep BY <1>2, SchedulerSafe
<1>3. CASE \E w \in Workers : WorkerStep(w) BY <1>3, WorkerSafe
<1>4. CASE Signal \/ ShutdownStep \/ CloseFails \/ WatchdogFires
  BY <1>4, ShutdownSafe
<1>5. CASE UNCHANGED vars
  BY <1>5 DEF vars, main, api, scheduler, ShutdownInv, Shape, OthersAreOff,
              CalledAreStopping, ClosedAreDeaf, PastAreStopped, Components, Runs,
              Running, Stopped
<1> QED BY <1>1, <1>2, <1>3, <1>4, <1>5 DEF Next

LEMMA InvImpliesIdle == ShutdownInv => ClosedMeansIdle
<1> SUFFICES ASSUME ShutdownInv, ~connected
             PROVE  /\ ~listening /\ requests = 0
                    /\ spc \in {"off", "ended"}
                    /\ \A w \in Workers : wpc[w] \in {"off", "ended"}
  BY DEF ClosedMeansIdle
<1>1. turn = Len(Running) + 1 /\ Len(Running) \in {1, 3}
  BY RunningFacts DEF ShutdownInv, Shape
<1>2. \A i \in 1..Len(Running) : Stopped(Running[i]) /\ Running[i] \in stopping
  BY <1>1 DEF ShutdownInv, PastAreStopped, CalledAreStopping, Components
<1>3. ASSUME NEW c \in {"api", "scheduler", "worker"}, Runs(c)
      PROVE  Stopped(c) /\ c \in stopping
  BY <1>2, <1>3, RunningFacts DEF ShutdownInv, Shape, Runs
<1>4. ~listening /\ requests = 0
  BY <1>3 DEF ShutdownInv, OthersAreOff, ClosedAreDeaf, Stopped
<1>5. spc \in {"off", "ended"}
  BY <1>3 DEF ShutdownInv, OthersAreOff, Stopped
<1>6. \A w \in Workers : wpc[w] \in {"off", "ended"}
  BY <1>3 DEF ShutdownInv, OthersAreOff, Stopped
<1> QED BY <1>4, <1>5, <1>6

(***************************************************************************)
(* Whatever the role, the number of workers and the accidents: shutdown()  *)
(* closes the connections only when nothing uses them any more.            *)
(***************************************************************************)
THEOREM NothingStranded == Spec => []ClosedMeansIdle
  BY InitHolds, NextSafe, InvImpliesIdle, PTL DEF Spec

----------------------------------------------------------------------------

(* What shutdown() knows of is what main() has started.                    *)
LEMMA RunningIsWhatRuns ==
    ASSUME role \in Roles
    PROVE  /\ Len(Running) \in {1, 3} /\ DOMAIN Running = 1..Len(Running)
           /\ \A component \in {"api", "scheduler", "worker"} :
                (\E i \in DOMAIN Running : Running[i] = component) <=> Runs(component)
<1>1. role \in {"api", "scheduler", "worker", "all"} BY RolesAssumption
<1>2. CASE role = "all"
  <2>1. Running = <<"api", "scheduler", "worker">> BY <1>2 DEF Running
  <2>2. 1 \in DOMAIN Running /\ 2 \in DOMAIN Running /\ 3 \in DOMAIN Running
    BY <2>1
  <2> QED BY <1>2, <2>1, <2>2 DEF Runs
<1>3. CASE role # "all"
  <2>1. Running = <<role>> BY <1>3 DEF Running
  <2>2. DOMAIN Running = {1} /\ Running[1] = role BY <2>1
  <2> QED BY <1>1, <1>3, <2>1, <2>2 DEF Runs
<1> QED BY <1>2, <1>3

LEMMA TypeInit == Init => TypeOK
<1> SUFFICES ASSUME Init PROVE TypeOK
  OBVIOUS
<1>1. /\ Len(Running) \in {1, 3} /\ DOMAIN Running = 1..Len(Running)
      /\ \A component \in {"api", "scheduler", "worker"} :
           (\E i \in DOMAIN Running : Running[i] = component) <=> Runs(component)
  BY RunningIsWhatRuns DEF Init
<1>2. watchdog \in BOOLEAN /\ connected \in BOOLEAN /\ midTick \in BOOLEAN
  BY DEF Init
<1>3. listening \in BOOLEAN
  <2>1. listening = Runs("api") BY DEF Init
  <2> QED BY <2>1 DEF Runs
<1>4. /\ role \in Roles
      /\ turn \in 0..(Len(Running) + 1)
      /\ exit \in {"no", "clean", "forced", "error"}
      /\ requests \in 0..MaxRequests
      /\ stopping \subseteq {Running[i] : i \in DOMAIN Running}
      /\ spc \in {"off", "tick", "refill", "sleep", "ended"}
      /\ batches \in 0..MaxBatches
      /\ timer \in {"set", "resolved"}
      /\ wpc \in [Workers -> {"off", "claim", "job", "ended"}]
      /\ late \in [Workers -> Nat]
  BY <1>1, BoundsAssumption DEF Init
<1>5. (\E i \in DOMAIN Running : Running[i] = "scheduler") <=> (spc # "off")
  BY <1>1 DEF Init
<1>6. \A w \in Workers :
          (\E i \in DOMAIN Running : Running[i] = "worker") <=> (wpc[w] # "off")
  BY <1>1 DEF Init
<1> QED BY <1>2, <1>3, <1>4, <1>5, <1>6 DEF TypeOK

LEMMA TypeNext == TypeOK /\ [Next]_vars => TypeOK'
<1> SUFFICES ASSUME TypeOK, [Next]_vars PROVE TypeOK'
  OBVIOUS
<1> USE BoundsAssumption
<1>0. Len(Running) \in {1, 3} /\ DOMAIN Running = 1..Len(Running)
  BY RunningIsWhatRuns DEF TypeOK
<1>1. CASE Request \/ Respond
  BY <1>1 DEF Request, Respond, TypeOK, Running, main, scheduler, history
<1>2. CASE SchedulerStep
  <2>1. /\ spc' \in {"tick", "refill", "sleep", "ended"}
        /\ batches' \in 0..MaxBatches
        /\ timer' \in {"set", "resolved"}
        /\ spc # "off"
    BY <1>2 DEF SchedulerStep, Measure, Refill, TickFails, Wake, TypeOK
  <2>2. SchedulerOnly /\ Running' = Running
    BY <1>2
    DEF SchedulerStep, Measure, Refill, TickFails, Wake, SchedulerOnly, main, Running
  <2> QED BY <2>1, <2>2 DEF TypeOK, SchedulerOnly, main, api, history
<1>3. ASSUME NEW w \in Workers, WorkerStep(w) PROVE TypeOK'
  <2>1. /\ wpc' \in [Workers -> {"off", "claim", "job", "ended"}]
        /\ \A v \in Workers : wpc'[v] # "off" <=> wpc[v] # "off"
        /\ late' \in [Workers -> Nat]
    BY <1>3 DEF WorkerStep, GivenJob, GivenNothing, JobEnds, TypeOK
  <2>2. WorkerOnly /\ Running' = Running
    BY <1>3 DEF WorkerStep, GivenJob, GivenNothing, JobEnds, WorkerOnly, main, Running
  <2> QED BY <2>1, <2>2 DEF TypeOK, WorkerOnly, main, api, scheduler
<1>4. CASE Signal \/ ShutdownStep \/ CloseFails \/ WatchdogFires
  <2>1. /\ role' = role /\ Running' = Running
        /\ UNCHANGED <<requests, spc, batches, wpc, late>>
    BY <1>4 DEF Signal, ShutdownStep, StopNext, Disconnect, Exit, CloseFails,
                WatchdogFires, Running, api, scheduler, history
  <2>2. turn' \in 0..(Len(Running) + 1)
    <3>1. Len(Running) \in {1, 3} /\ turn \in 0..(Len(Running) + 1)
      BY <1>0 DEF TypeOK
    <3>2. \/ turn' = turn
          \/ turn' = 1
          \/ turn \in 1..(Len(Running) - 1) /\ turn' = turn + 1
          \/ turn = Len(Running) /\ turn' = turn + 1
      BY <1>4 DEF Signal, ShutdownStep, StopNext, Disconnect, Exit, CloseFails,
                  WatchdogFires
    <3> QED BY <3>1, <3>2
  <2>3. /\ exit' \in {"no", "clean", "forced", "error"}
        /\ watchdog' \in BOOLEAN
        /\ connected' \in BOOLEAN
    <3>1. /\ exit' \in {exit, "clean", "forced", "error"}
          /\ watchdog' \in {watchdog, TRUE, FALSE}
          /\ connected' \in {connected, FALSE}
      BY <1>4 DEF Signal, ShutdownStep, StopNext, Disconnect, Exit, CloseFails,
                  WatchdogFires, CallStop
    <3> QED BY <3>1 DEF TypeOK
  <2>4. /\ stopping' \subseteq {Running[i] : i \in DOMAIN Running}
        /\ listening' \in BOOLEAN
        /\ timer' \in {"set", "resolved"}
        /\ midTick' \in BOOLEAN
    <3>1. ASSUME NEW i \in 1..Len(Running), CallStop(i)
          PROVE  /\ stopping' \subseteq {Running[j] : j \in DOMAIN Running}
                 /\ listening' \in BOOLEAN
                 /\ timer' \in {"set", "resolved"}
                 /\ midTick' \in BOOLEAN
      BY <1>0, <3>1 DEF CallStop, TypeOK
    <3>2. CASE Signal BY <1>0, <3>1, <3>2 DEF Signal
    <3>3. CASE StopNext BY <1>0, <3>1, <3>3 DEF StopNext
    <3>4. CASE Disconnect \/ Exit \/ CloseFails \/ WatchdogFires
      BY <3>4 DEF Disconnect, Exit, CloseFails, WatchdogFires, api, scheduler, history, TypeOK
    <3> QED BY <1>4, <3>2, <3>3, <3>4 DEF ShutdownStep
  <2> QED BY <2>1, <2>2, <2>3, <2>4 DEF TypeOK
<1>5. CASE UNCHANGED vars
  BY <1>5 DEF vars, main, api, scheduler, history, TypeOK, Running
<1> QED BY <1>1, <1>2, <1>3, <1>4, <1>5 DEF Next

(***************************************************************************)
(* Every reachable state is well typed; in particular, what runs is what   *)
(* shutdown() stops, and nothing else has been told to stop.               *)
(***************************************************************************)
THEOREM TypeCorrect == Spec => []TypeOK
  BY TypeInit, TypeNext, PTL DEF Spec

----------------------------------------------------------------------------

(* A loop given a job after stop() is done with it or about to end.        *)
LateLoopsEnd ==
    \A w \in Workers :
        /\ late[w] <= 1
        /\ late[w] > 0 => "worker" \in stopping /\ wpc[w] \in {"job", "ended"}

(* A tick that goes on after stop() was there before it.                   *)
TicksAreSeen == spc \in {"tick", "refill"} /\ "scheduler" \in stopping => midTick

StopInv == LateLoopsEnd /\ TicksAreSeen /\ PromptBetweenTicks

LEMMA StopInit == Init => StopInv
  BY DEF Init, StopInv, LateLoopsEnd, TicksAreSeen, PromptBetweenTicks

LEMMA StopNextSafe == TypeOK /\ StopInv /\ [Next]_vars => StopInv'
<1> SUFFICES ASSUME TypeOK, StopInv, [Next]_vars PROVE StopInv'
  OBVIOUS
<1>0. late \in [Workers -> Nat] /\ wpc \in [Workers -> {"off", "claim", "job", "ended"}]
  BY DEF TypeOK
<1>1. CASE SchedulerStep
  <2>1. SchedulerOnly
    BY <1>1 DEF SchedulerStep, Measure, Refill, TickFails, Wake
  <2>2. LateLoopsEnd'
    BY <2>1 DEF SchedulerOnly, history, StopInv, LateLoopsEnd
  <2>3. TicksAreSeen' /\ PromptBetweenTicks'
    BY <1>1, <2>1
    DEF SchedulerStep, Measure, Refill, TickFails, Wake, SchedulerOnly, history, GoesOn,
        StopInv, TicksAreSeen, PromptBetweenTicks
  <2> QED BY <2>2, <2>3 DEF StopInv
<1>2. ASSUME NEW w \in Workers, WorkerStep(w) PROVE StopInv'
  <2>1. WorkerOnly
    BY <1>2 DEF WorkerStep, GivenJob, GivenNothing, JobEnds
  <2>2. ASSUME NEW v \in Workers
        PROVE  /\ late'[v] <= 1
               /\ late'[v] > 0 => "worker" \in stopping /\ wpc'[v] \in {"job", "ended"}
    <3>1. CASE v # w
      BY <1>0, <1>2, <3>1
      DEF WorkerStep, GivenJob, GivenNothing, JobEnds, StopInv, LateLoopsEnd
    <3>2. CASE v = w
      <4>1. late[w] > 0 => "worker" \in stopping /\ wpc[w] \in {"job", "ended"}
        BY DEF StopInv, LateLoopsEnd
      <4>2. late[w] \in Nat /\ late[w] <= 1
        BY <1>0 DEF StopInv, LateLoopsEnd
      <4>3. CASE GivenJob(w)
        BY <1>0, <3>2, <4>1, <4>2, <4>3 DEF GivenJob, GoesOn
      <4>4. CASE GivenNothing(w)
        BY <1>0, <3>2, <4>1, <4>2, <4>4 DEF GivenNothing
      <4>5. CASE JobEnds(w)
        BY <1>0, <3>2, <4>1, <4>2, <4>5 DEF JobEnds, GoesOn
      <4> QED BY <1>2, <4>3, <4>4, <4>5 DEF WorkerStep
    <3> QED BY <3>1, <3>2
  <2>3. LateLoopsEnd' BY <2>1, <2>2 DEF LateLoopsEnd, WorkerOnly
  <2>4. TicksAreSeen' /\ PromptBetweenTicks'
    BY <2>1 DEF WorkerOnly, scheduler, StopInv, TicksAreSeen, PromptBetweenTicks
  <2> QED BY <2>3, <2>4 DEF StopInv
<1>3. CASE Signal \/ StopNext
  <2>1. PICK i : CallStop(i) /\ UNCHANGED <<spc, wpc, late>>
    BY <1>3 DEF Signal, StopNext
  <2>2. LateLoopsEnd'
    BY <2>1 DEF CallStop, StopInv, LateLoopsEnd
  <2>3. TicksAreSeen' /\ PromptBetweenTicks'
    BY <2>1 DEF CallStop, StopInv, TicksAreSeen, PromptBetweenTicks
  <2> QED BY <2>2, <2>3 DEF StopInv
<1>4. ASSUME UNCHANGED <<stopping, spc, timer, wpc, midTick, late>> PROVE StopInv'
  BY <1>4 DEF StopInv, LateLoopsEnd, TicksAreSeen, PromptBetweenTicks
<1>5. \/ Request \/ Respond \/ Disconnect \/ Exit \/ CloseFails \/ WatchdogFires
      \/ UNCHANGED vars
      => UNCHANGED <<stopping, spc, timer, wpc, midTick, late>>
  BY DEF Request, Respond, Disconnect, Exit, CloseFails, WatchdogFires, vars, scheduler,
         history
<1> QED BY <1>1, <1>2, <1>3, <1>4, <1>5 DEF Next, ShutdownStep

LEMMA StopAlways == Spec => [](TypeOK /\ StopInv)
  BY TypeInit, TypeNext, StopInit, StopNextSafe, PTL DEF Spec

(***************************************************************************)
(* Once the pool is told to stop, each of its loops takes at most the job  *)
(* its BLMOVE was waiting for: shutdown waits for one job per loop.        *)
(***************************************************************************)
THEOREM OneJobAtMost == Spec => []OneJobAfterStop
<1>1. StopInv => OneJobAfterStop BY DEF StopInv, LateLoopsEnd, OneJobAfterStop
<1> QED BY <1>1, StopAlways, PTL

(***************************************************************************)
(* A sleep of the scheduler that stop() finds in progress is resolved; it  *)
(* is only the sleep after a tick that stop() interrupted that is not.     *)
(***************************************************************************)
THEOREM SleepIsResolved == Spec => []PromptBetweenTicks
<1>1. StopInv => PromptBetweenTicks BY DEF StopInv
<1> QED BY <1>1, StopAlways, PTL

=============================================================================
