-------------------------- MODULE MachineTypeProofs --------------------------
(***************************************************************************)
(* Machine is type correct for every bound and every kind of driver.  The  *)
(* types are proved part by part: the state that fail_sync may change, the *)
(* run's generations, the request slots, and each thread's own state.      *)
(***************************************************************************)
EXTENDS Machine, TLAPS

\* The types of the state the two threads share, of the run's generations, of
\* the request slots, and of each thread's own state, with what a thread's point
\* says of its locals.
FailTypes ==
    /\ state \in States
    /\ flag \in [Flags -> BOOLEAN]
    /\ input \in [accepting : BOOLEAN, events : Seq(Nat)]
    /\ Len(input.events) <= InputCapacity
    /\ driver \in [stop : BOOLEAN, heartbeat : BOOLEAN, capture : {None, "busy", "ready"}]
    /\ cancelled \in BOOLEAN
    /\ faults \in 0..MaxFaults

RunTypes ==
    run_generation \in Nat /\ frame_generation \in Nat /\ lease_current \in BOOLEAN

RequestTypes ==
    /\ req \in [requested : SUBSET Requests, armed : BOOLEAN, ready : BOOLEAN,
                waiting : BOOLEAN, continuing : BOOLEAN, debugged : BOOLEAN]
    /\ signaled \subseteq Events
    /\ facts \in Seq([kind : FactKinds, run : Nat])

WorkerTypes ==
    /\ wpc \in WorkerPoints
    /\ w \in [ok : BOOLEAN, suppress : BOOLEAN, terminal : States, why : Whys,
              notified : BOOLEAN]
    /\ wpc \in {"settle", "notify"} => w.why # None
    /\ wpc = "notify" => w.why # "restart"
    /\ wpc \in {"settle", "notify"} /\ w.why = "unwind" => w.terminal \in {"STOPPED", "ERROR"}

ControlTypes ==
    /\ cpc \in ControlPoints
    /\ op \in {None, "stop", "reset", "quit", "exit"} \cup Requests
    /\ monitor \in States /\ pending \in {None} \cup Lifecycle
    /\ calls \in 0..MaxRuns
    /\ cpc \in {"submit", "await", "join"} => op \in Requests

Typed == FailTypes /\ RunTypes /\ RequestTypes /\ WorkerTypes /\ ControlTypes

-----------------------------------------------------------------------------
\* What the helpers of the model preserve.

\* A fault is counted within its bound.
LEMMA FaultTypes ==
    ASSUME faults \in 0..MaxFaults, Fault
    PROVE  faults' \in 0..MaxFaults
  BY MaxFaultsAssumption DEF Fault

\* close_input keeps the type of the queue.
LEMMA CloseInputTypes ==
    ASSUME FailTypes, CloseInput
    PROVE  /\ input' \in [accepting : BOOLEAN, events : Seq(Nat)]
           /\ Len(input'.events) <= InputCapacity
  BY DEF FailTypes, CloseInput

\* A flag, or several, set to a Boolean.
LEMMA FlagTypes ==
    ASSUME NEW f \in [Flags -> BOOLEAN], NEW k, NEW b \in BOOLEAN
    PROVE  [f EXCEPT ![k] = b] \in [Flags -> BOOLEAN]
  OBVIOUS

\* emulator_machine_fail_sync closes the input and stores ERROR.
LEMMA FailSyncTypes ==
    ASSUME FailTypes, NEW f \in [Flags -> BOOLEAN], Fault, FailSyncAfter(f)
    PROVE  FailTypes'
<1>1. flag' \in [Flags -> BOOLEAN]
  BY DEF FailSyncAfter
<1>2. state' \in States /\ cancelled' \in BOOLEAN
  BY DEF FailSyncAfter, States
<1>3. driver' \in [stop : BOOLEAN, heartbeat : BOOLEAN, capture : {None, "busy", "ready"}]
  BY DEF FailSyncAfter, FailTypes
<1> QED BY <1>1, <1>2, <1>3, CloseInputTypes, FaultTypes DEF FailTypes, FailSyncAfter

\* complete_request signals the caller's events, or fails.
LEMMA CompleteTypes ==
    ASSUME FailTypes, signaled \subseteq Events, NEW es \in SUBSET Events, Complete(es)
    PROVE  FailTypes' /\ signaled' \subseteq Events
<1>1. CASE signaled' = signaled \cup es /\ UNCHANGED failVars
  BY <1>1 DEF FailTypes, failVars
<1>2. CASE Fault /\ FailSync /\ UNCHANGED signaled
  BY <1>2, FailSyncTypes DEF FailSync, FailTypes
<1> QED BY <1>1, <1>2 DEF Complete

\* begin_cold_run empties the queue and publishes a new generation.
LEMMA BeginRunTypes ==
    ASSUME FailTypes, RunTypes, signaled \subseteq Events, NEW kind, BeginRun(kind)
    PROVE  FailTypes' /\ RunTypes' /\ signaled' \subseteq Events
<1>1. RunTypes'
  <2>1. lease_current' \in BOOLEAN
    BY DEF BeginRun
  <2>2. run_generation' = run_generation + 1 /\ frame_generation' = 0
    BY DEF BeginRun
  <2>3. run_generation' \in Nat /\ frame_generation' \in Nat
    BY <2>2 DEF RunTypes
  <2> QED BY <2>1, <2>3 DEF RunTypes
<1>2. faults' \in 0..MaxFaults
  BY FaultTypes DEF BeginRun, FailTypes
<1>3. flag' \in [Flags -> BOOLEAN]
  <2>1. PICK fails \in BOOLEAN :
          flag' = [flag EXCEPT !["pause"] = kind # "start", !["start"] = TRUE,
                     !["restored"] = @ \/ kind = "load",
                     !["reset_active"] = IF kind = "reset" THEN ~fails ELSE @,
                     !["reset"] = @ /\ ~fails, !["stop"] = fails,
                     !["terminate"] = @ \/ fails]
    BY DEF BeginRun
  <2> QED BY <2>1 DEF FailTypes, Flags
<1>4. /\ input' \in [accepting : BOOLEAN, events : Seq(Nat)]
      /\ Len(input'.events) <= InputCapacity
  BY InputCapacityAssumption DEF BeginRun, FailTypes, ClearedQueue
<1>5. driver' \in [stop : BOOLEAN, heartbeat : BOOLEAN, capture : {None, "busy", "ready"}]
  BY DEF BeginRun, FailTypes
<1>6. state' \in States /\ cancelled' \in BOOLEAN /\ signaled' \subseteq Events
  BY DEF BeginRun, FailTypes, States, Events
<1> QED BY <1>1, <1>2, <1>3, <1>4, <1>5, <1>6 DEF FailTypes

\* emulator_machine_notify_state queues a fact of this run.
LEMMA NotifyTypes ==
    ASSUME RunTypes, RequestTypes, NEW k \in FactKinds, Notify(k)
    PROVE  facts' \in Seq([kind : FactKinds, run : Nat])
  BY DEF RunTypes, RequestTypes, Notify

\* A capture is absent, busy or ready, and asks for a pause only through a flag.
LEMMA StateReadTypes ==
    ASSUME FailTypes, RequestTypes, NEW capture \in Captures,
           NEW f \in [Flags -> BOOLEAN], ServiceStateRead(capture, f)
    PROVE  /\ flag' \in [Flags -> BOOLEAN]
           /\ driver' \in [stop : BOOLEAN, heartbeat : BOOLEAN,
                           capture : {None, "busy", "ready"}]
           /\ req' \in [requested : SUBSET Requests, armed : BOOLEAN, ready : BOOLEAN,
                        waiting : BOOLEAN, continuing : BOOLEAN, debugged : BOOLEAN]
<1>1. capture \in {None, "busy", "ready"}
  BY DEF Captures, FailTypes
<1> DEFINE r == req.ready \/ capture = "ready"
<1>2. r \in BOOLEAN
  OBVIOUS
<1> HIDE DEF r
<1>3. CASE Taken("state_read")
  <2>1. /\ req' = [req EXCEPT !.armed = TRUE, !.ready = r]
        /\ driver' = [driver EXCEPT !.capture = IF r THEN None ELSE capture]
        /\ flag' = [f EXCEPT !["pause"] = @ \/ r]
    BY <1>3 DEF ServiceStateRead, PausesWhen, r
  <2>2. req' \in [requested : SUBSET Requests, armed : BOOLEAN, ready : BOOLEAN,
                  waiting : BOOLEAN, continuing : BOOLEAN, debugged : BOOLEAN]
    BY <2>1, <1>2 DEF RequestTypes
  <2>3. driver' \in [stop : BOOLEAN, heartbeat : BOOLEAN, capture : {None, "busy", "ready"}]
    BY <2>1, <1>1 DEF FailTypes
  <2> QED BY <2>1, <2>2, <2>3
<1>4. CASE ~Taken("state_read")
  BY <1>4 DEF ServiceStateRead, FailTypes, RequestTypes
<1> QED BY <1>3, <1>4

\* The first of a queue of facts is one of them.
LEMMA HeadTypes ==
    ASSUME NEW S, NEW q \in Seq(S), q # <<>>
    PROVE  Head(q) \in S
  OBVIOUS

-----------------------------------------------------------------------------
\* A thread's step leaves the other thread's own state alone.
LEMMA WorkerKeepsControl ==
    ASSUME WorkerThread \/ DriverCheckpoint
    PROVE  UNCHANGED controlVars
<1>1. CASE Worker
  BY <1>1 DEF Worker, WorkerWait, WorkerWoken, WorkerServe, WorkerBoot, WorkerEnter,
              WorkerAnnounce, WorkerUnwind, WorkerSettle, WorkerNotify, WorkerRestart,
              WorkerExit, WorkerGoto, Finish
<1>2. CASE ExecutorEvent
  BY <1>2 DEF ExecutorEvent, CallbackEntry, CallbackPublish, CallbackPark, CallbackParkFact,
              CallbackParked, CallbackParkWait, CallbackWoken, CallbackParkServe,
              CallbackParkRead, CallbackUnpark, CallbackResumeFact, WorkerGoto
<1>3. CASE Driver \/ DriverCheckpoint
  BY <1>3 DEF Driver, RunQuantum, RunLoop, DriverCheckpoint, WorkerGoto
<1> QED BY <1>1, <1>2, <1>3 DEF WorkerThread

\* The control thread leaves the worker's point and locals alone.
LEMMA ControlKeepsWorker ==
    ASSUME TakeFact \/ User \/ ControlProgress
    PROVE  UNCHANGED workerVars
<1>1. CASE TakeFact \/ User
  BY <1>1 DEF TakeFact, User, Refuse, CallStart, CallPause, CallResume, CallStop, CallReset,
              CallRequest, EnqueueInput, DebugCancel, Quit, Dispatch, ControlGoto, BeginStop
<1>2. CASE ControlProgress
  BY <1>2 DEF ControlProgress, ResetStop, StopPause, StopDriver, Submit, Await, Join, Exit,
              Terminate, TerminateJoin, ControlGoto, BeginStop
<1> QED BY <1>1, <1>2

\* A run's generation changes only where a run begins.
LEMMA RunTypesKept ==
    ASSUME Typed, Next
    PROVE  RunTypes'
<1>0. FailTypes /\ RunTypes /\ signaled \subseteq Events
  BY DEF Typed, RequestTypes
<1>1. CASE \E kind \in {"load", "restart", "start", "reset"} : BeginRun(kind)
  BY <1>0, <1>1, BeginRunTypes
<1>2. CASE UNCHANGED runVars
  BY <1>0, <1>2 DEF RunTypes, runVars
<1>3. CASE /\ lease_current' \in {FALSE, lease_current, state = "PAUSED"}
           /\ frame_generation' \in {frame_generation, run_generation}
           /\ UNCHANGED run_generation
  BY <1>0, <1>3 DEF RunTypes
<1>4. CASE Worker
  BY <1>1, <1>2, <1>3, <1>4
  DEF Worker, WorkerWait, WorkerWoken, WorkerServe, WorkerBoot, WorkerEnter, WorkerAnnounce,
      WorkerUnwind, WorkerSettle, WorkerNotify, WorkerRestart, WorkerExit
<1>5. CASE ExecutorEvent \/ Driver \/ DriverCheckpoint
  BY <1>2, <1>3, <1>5
  DEF ExecutorEvent, CallbackEntry, CallbackPublish, CallbackPark, CallbackParkFact,
      CallbackParked, CallbackParkWait, CallbackWoken, CallbackParkServe, CallbackParkRead,
      CallbackUnpark, CallbackResumeFact, Driver, RunQuantum, RunLoop, DriverCheckpoint,
      machineVars
<1>6. CASE TakeFact \/ User
  BY <1>1, <1>2, <1>3, <1>6
  DEF TakeFact, User, Refuse, CallStart, CallPause, CallResume, CallStop, CallReset, CallRequest,
      EnqueueInput, DebugCancel, Quit, BeginStop
<1>7. CASE ControlProgress \/ Ended
  BY <1>2, <1>3, <1>7
  DEF ControlProgress, ResetStop, StopPause, StopDriver, Submit, Await, Join, Exit, Terminate,
      TerminateJoin, BeginStop, Ended, vars, machineVars
<1> QED BY <1>4, <1>5, <1>6, <1>7 DEF Next, WorkerThread

\* The shared state keeps its types: the worker outside a run, ...
LEMMA WorkerFailTypes ==
    ASSUME Typed, Worker
    PROVE  FailTypes'
<1> USE DEF Typed, FailTypes, States
<1>0. RunTypes /\ signaled \subseteq Events
  BY DEF RequestTypes
<1>1. CASE WorkerWait
  BY <1>1, CloseInputTypes, FaultTypes DEF WorkerWait, WorkerGoto, Finish
<1>2. CASE WorkerWoken
  BY <1>2, FailSyncTypes DEF WorkerWoken, WorkerGoto, Set, FailSync
<1>3. CASE WorkerServe
  <2>1. \/ UNCHANGED failVars
        \/ \E es \in SUBSET Events : Complete(es)
        \/ BeginRun("load")
        \/ Set("start", FALSE) /\ UNCHANGED <<state, input, driver, cancelled, faults>>
    BY <1>3 DEF WorkerServe, ServiceDebug, ServiceMedia, Events
  <2>2. CASE UNCHANGED failVars
    BY <2>2 DEF failVars
  <2>3. CASE \E es \in SUBSET Events : Complete(es)
    BY <2>3, <1>0, CompleteTypes
  <2>4. CASE BeginRun("load")
    BY <2>4, <1>0, BeginRunTypes
  <2>5. CASE Set("start", FALSE) /\ UNCHANGED <<state, input, driver, cancelled, faults>>
    BY <2>5 DEF Set
  <2> QED BY <2>1, <2>2, <2>3, <2>4, <2>5
<1>4. CASE WorkerBoot
  BY <1>4, CloseInputTypes DEF WorkerBoot, WorkerGoto, Finish, Set
<1>5. CASE WorkerEnter
  BY <1>5 DEF WorkerEnter, WorkerGoto, Exchange
<1>6. CASE WorkerAnnounce
  BY <1>6 DEF WorkerAnnounce, WorkerGoto
<1>7. CASE WorkerUnwind
  BY <1>7, CloseInputTypes DEF WorkerUnwind, Finish, Set, Succeeded
<1>8. CASE WorkerSettle
  <2>1. CASE state' = w.terminal /\ UNCHANGED <<flag, input, driver, cancelled, faults>>
    BY <2>1 DEF WorkerTypes
  <2>2. CASE Fault /\ FailSync
    BY <2>2, FailSyncTypes DEF FailSync
  <2> QED BY <1>8, <2>1, <2>2 DEF WorkerSettle
<1>9. CASE WorkerNotify
  BY <1>9 DEF WorkerNotify, WorkerGoto, TerminalFact, Locals, failVars
<1>10. CASE WorkerRestart
  BY <1>10, <1>0, BeginRunTypes DEF WorkerRestart
<1>11. CASE WorkerExit
  BY <1>11, CloseInputTypes DEF WorkerExit, Finish, Set
<1> QED BY <1>1, <1>2, <1>3, <1>4, <1>5, <1>6, <1>7, <1>8, <1>9, <1>10, <1>11 DEF Worker

\* ...in the executor callback, ...
LEMMA ExecutorFailTypes ==
    ASSUME Typed, ExecutorEvent
    PROVE  FailTypes'
<1> USE DEF Typed, FailTypes, States
<1>0. RunTypes /\ signaled \subseteq Events
  BY DEF RequestTypes
<1>1. CASE CallbackEntry
  <2>1. PICK hit \in {FALSE, DebugStops /\ ~flag["debug_cancel"]}, capture \in Captures :
          ServiceStateRead(capture, [flag EXCEPT !["debug_cancel"] = FALSE,
                                                 !["pause"] = @ \/ hit])
    BY <1>1 DEF CallbackEntry
  <2>2. [flag EXCEPT !["debug_cancel"] = FALSE, !["pause"] = @ \/ hit] \in [Flags -> BOOLEAN]
    OBVIOUS
  <2>3. /\ flag' \in [Flags -> BOOLEAN]
        /\ driver' \in [stop : BOOLEAN, heartbeat : BOOLEAN, capture : {None, "busy", "ready"}]
    BY <2>1, <2>2, StateReadTypes
  <2>4. /\ input' \in [accepting : BOOLEAN, events : Seq(Nat)]
        /\ Len(input'.events) <= InputCapacity
    <3>1. CASE CloseInput
      BY <3>1, CloseInputTypes
    <3>2. CASE input' = [input EXCEPT !.events = Tail(@)] /\ input.events # <<>>
      <4>1. input.events \in Seq(Nat) /\ input.events # <<>>
        BY <3>2
      <4>2. Tail(input.events) \in Seq(Nat) /\ Len(Tail(input.events)) = Len(input.events) - 1
        BY <4>1
      <4>3. Len(Tail(input.events)) <= InputCapacity
        BY <4>1, <4>2, InputCapacityAssumption
      <4> QED BY <3>2, <4>2, <4>3
    <3>3. CASE input' = input
      BY <3>3
    <3> QED BY <1>1, <3>1, <3>2, <3>3 DEF CallbackEntry
  <2> QED BY <1>1, <2>3, <2>4 DEF CallbackEntry
<1>2. CASE CallbackPublish
  BY <1>2, CloseInputTypes DEF CallbackPublish, CaptureEnds
<1>3. CASE CallbackPark
  BY <1>3, CloseInputTypes DEF CallbackPark, Exchange
<1>4. CASE CallbackParkFact
  BY <1>4, FailSyncTypes DEF CallbackParkFact, WorkerGoto, ReportsPause, Set
<1>5. CASE CallbackParked
  BY <1>5 DEF CallbackParked, WorkerGoto, machineVars, failVars
<1>6. CASE CallbackParkWait
  BY <1>6, FaultTypes DEF CallbackParkWait, WorkerGoto
<1>7. CASE CallbackWoken
  BY <1>7, FailSyncTypes DEF CallbackWoken, WorkerGoto, Set, FailSync, failVars
<1>8. CASE CallbackParkServe
  <2>1. CASE \E es \in SUBSET Events : Complete(es)
    BY <2>1, <1>0, CompleteTypes
  <2>2. CASE /\ \E capture \in Captures : ServiceStateRead(capture, flag)
             /\ UNCHANGED <<state, input, signaled, cancelled, faults>>
    BY <2>2, StateReadTypes
  <2> QED BY <1>8, <2>1, <2>2 DEF CallbackParkServe, ServiceMedia, ServiceDebug, Events
<1>9. CASE CallbackParkRead
  <2>1. CASE UNCHANGED failVars
    BY <2>1 DEF failVars
  <2>2. CASE Complete({"state"})
    BY <2>2, <1>0, CompleteTypes DEF Events
  <2>3. CASE Set("pause", FALSE) /\ UNCHANGED <<state, input, driver, cancelled, faults>>
    BY <2>3 DEF Set
  <2> QED BY <1>9, <2>1, <2>2, <2>3 DEF CallbackParkRead
<1>10. CASE CallbackUnpark
  BY <1>10 DEF CallbackUnpark, Exchange
<1>11. CASE CallbackResumeFact
  BY <1>11 DEF CallbackResumeFact, WorkerGoto
<1> QED BY <1>1, <1>2, <1>3, <1>4, <1>5, <1>6, <1>7, <1>8, <1>9, <1>10, <1>11 DEF ExecutorEvent

\* ...in the run hook, ...
LEMMA DriverFailTypes ==
    ASSUME Typed, Driver \/ DriverCheckpoint
    PROVE  FailTypes'
<1> USE DEF Typed, FailTypes, States
<1>0. RunTypes /\ signaled \subseteq Events
  BY DEF RequestTypes
<1>1. CASE RunQuantum
  BY <1>1 DEF RunQuantum, WorkerGoto
<1>2. CASE RunLoop
  BY <1>2 DEF RunLoop, WorkerGoto, machineVars, failVars
<1>3. CASE DriverCheckpoint
  BY <1>3 DEF DriverCheckpoint
<1> QED BY <1>1, <1>2, <1>3 DEF Driver

\* ...the control thread beginning a call, ...
LEMMA UserFailTypes ==
    ASSUME Typed, User \/ TakeFact
    PROVE  FailTypes'
<1> USE DEF Typed, FailTypes, States
<1>0. RunTypes /\ signaled \subseteq Events
  BY DEF RequestTypes
<1>1. CASE \E o \in Lifecycle : Refuse(o)
  BY <1>1 DEF Refuse, Dispatch, Returns, failVars
<1>2. CASE CallStart
  BY <1>2, <1>0, BeginRunTypes DEF CallStart
<1>3. CASE CallPause
  BY <1>3 DEF CallPause, Dispatch, Accepted, Set, Returns
<1>4. CASE CallResume
  BY <1>4, FailSyncTypes DEF CallResume, Dispatch, Accepted, ReleasePause, Set, WakeParked,
                             Returns
<1>5. CASE CallStop
  BY <1>5 DEF CallStop, Dispatch, Accepted, Set, Returns, failVars
<1>6. CASE CallReset
  BY <1>6, <1>0, BeginRunTypes DEF CallReset, Set
<1>7. CASE \E r \in Requests : CallRequest(r)
  BY <1>7 DEF CallRequest, failVars
<1>8. CASE EnqueueInput
  <2>1. CASE input' = input
    BY <1>8, <2>1 DEF EnqueueInput
  <2>2. CASE ~QueueFull /\ input' = [input EXCEPT !.events = Append(@, run_generation)]
    <3>1. run_generation \in Nat /\ input.events \in Seq(Nat)
      BY DEF RunTypes
    <3>2. Append(input.events, run_generation) \in Seq(Nat)
      BY <3>1
    <3>3. Len(Append(input.events, run_generation)) <= InputCapacity
      BY <2>2, <3>1, InputCapacityAssumption DEF QueueFull
    <3> QED BY <1>8, <2>2, <3>2, <3>3 DEF EnqueueInput
  <2> QED BY <1>8, <2>1, <2>2 DEF EnqueueInput
<1>9. CASE DebugCancel
  BY <1>9, FailSyncTypes DEF DebugCancel, ControlGoto, Set, FailSync
<1>10. CASE Quit
  BY <1>10 DEF Quit, BeginStop, Set
<1>11. CASE TakeFact
  BY <1>11 DEF TakeFact, failVars
<1> QED BY <1>1, <1>2, <1>3, <1>4, <1>5, <1>6, <1>7, <1>8, <1>9, <1>10, <1>11 DEF User

\* ...and going on with one.
LEMMA ControlFailTypes ==
    ASSUME Typed, ControlProgress
    PROVE  FailTypes'
<1> USE DEF Typed, FailTypes, States
<1>0. RunTypes /\ signaled \subseteq Events
  BY DEF RequestTypes
<1>1. CASE ResetStop
  BY <1>1 DEF ResetStop, ControlGoto
<1>2. CASE StopPause
  BY <1>2, FailSyncTypes DEF StopPause, ReleasePause, Set, WakeParked
<1>3. CASE StopDriver
  BY <1>3 DEF StopDriver, ControlGoto
<1>4. CASE Submit
  BY <1>4, FaultTypes DEF Submit, Admitted, ControlGoto, Returns
<1>5. CASE Await
  BY <1>5, FailSyncTypes DEF Await, ControlGoto, FailSync, Returns, failVars
<1>6. CASE Join
  BY <1>6 DEF Join, ControlGoto, Returns, machineVars, failVars
<1>7. CASE Exit
  BY <1>7 DEF Exit, BeginStop, Set
<1>8. CASE Terminate
  BY <1>8 DEF Terminate, ControlGoto, Set
<1>9. CASE TerminateJoin
  BY <1>9 DEF TerminateJoin, ControlGoto, machineVars, failVars
<1> QED BY <1>1, <1>2, <1>3, <1>4, <1>5, <1>6, <1>7, <1>8, <1>9 DEF ControlProgress
-----------------------------------------------------------------------------
\* The request slots, the events and the facts keep their types in the steps of
\* the worker, ...
LEMMA WorkerRequestTypes ==
    ASSUME Typed, Worker
    PROVE  RequestTypes'
<1> USE DEF Typed, RequestTypes
<1>1. CASE WorkerWait
  BY <1>1 DEF WorkerWait, WorkerGoto, runVars
<1>2. CASE WorkerWoken
  BY <1>2 DEF WorkerWoken, WorkerGoto, EventReset, runVars, Events
<1>3. CASE WorkerServe
  <2>1. req' \in [requested : SUBSET Requests, armed : BOOLEAN, ready : BOOLEAN,
                  waiting : BOOLEAN, continuing : BOOLEAN, debugged : BOOLEAN]
    BY <1>3 DEF WorkerServe, ServiceDebug, ServiceMedia, DebugAllowed
  <2>2. \/ UNCHANGED signaled
        \/ \E es \in SUBSET Events : Complete(es)
        \/ BeginRun("load")
    BY <1>3 DEF WorkerServe, ServiceDebug, ServiceMedia, Events
  <2> QED BY <1>3, <2>1, <2>2, CompleteTypes, BeginRunTypes DEF WorkerServe
<1>4. CASE WorkerBoot
  BY <1>4 DEF WorkerBoot, WorkerGoto, runVars
<1>5. CASE WorkerEnter
  BY <1>5 DEF WorkerEnter, WorkerGoto, runVars
<1>6. CASE WorkerAnnounce
  BY <1>6, NotifyTypes DEF WorkerAnnounce, FactKinds
<1>7. CASE WorkerUnwind
  BY <1>7 DEF WorkerUnwind
<1>8. CASE WorkerSettle
  <2>1. req' \in [requested : SUBSET Requests, armed : BOOLEAN, ready : BOOLEAN,
                  waiting : BOOLEAN, continuing : BOOLEAN, debugged : BOOLEAN]
    BY <1>8 DEF WorkerSettle, ReadDone
  <2>2. Waiters \subseteq Events
    BY DEF Waiters, Completion, Requests, Events
  <2> QED BY <1>8, <2>1, <2>2 DEF WorkerSettle
<1>9. CASE WorkerNotify
  <2>1. TerminalFact \in FactKinds \cup {None}
    BY <1>9 DEF WorkerNotify, WorkerGoto, TerminalFact, WorkerTypes, Whys, FactKinds, None
  <2> QED BY <1>9, <2>1, NotifyTypes DEF WorkerNotify
<1>10. CASE WorkerRestart
  BY <1>10, BeginRunTypes DEF WorkerRestart
<1>11. CASE WorkerExit
  BY <1>11 DEF WorkerExit, runVars
<1> QED BY <1>1, <1>2, <1>3, <1>4, <1>5, <1>6, <1>7, <1>8, <1>9, <1>10, <1>11 DEF Worker

\* ...of the executor callback, ...
LEMMA ExecutorRequestTypes ==
    ASSUME Typed, ExecutorEvent
    PROVE  RequestTypes'
<1> USE DEF Typed, RequestTypes
<1>1. CASE CallbackEntry
  <2>1. PICK hit \in {FALSE, DebugStops /\ ~flag["debug_cancel"]}, capture \in Captures :
          ServiceStateRead(capture, [flag EXCEPT !["debug_cancel"] = FALSE,
                                                 !["pause"] = @ \/ hit])
    BY <1>1 DEF CallbackEntry
  <2>2. [flag EXCEPT !["debug_cancel"] = FALSE, !["pause"] = @ \/ hit] \in [Flags -> BOOLEAN]
    BY DEF FailTypes
  <2> QED BY <1>1, <2>1, <2>2, StateReadTypes DEF CallbackEntry
<1>2. CASE CallbackPublish
  BY <1>2 DEF CallbackPublish, CaptureEnds
<1>3. CASE CallbackPark
  BY <1>3 DEF CallbackPark, runVars
<1>4. CASE CallbackParkFact
  <2>1. req' \in [requested : SUBSET Requests, armed : BOOLEAN, ready : BOOLEAN,
                  waiting : BOOLEAN, continuing : BOOLEAN, debugged : BOOLEAN]
    BY <1>4 DEF CallbackParkFact, ReadDone
  <2>2. signaled' \subseteq Events
    BY <1>4 DEF CallbackParkFact, Events
  <2>3. facts' \in Seq([kind : FactKinds, run : Nat])
    BY <1>4, NotifyTypes DEF CallbackParkFact, FactKinds
  <2> QED BY <2>1, <2>2, <2>3
<1>5. CASE CallbackParked
  BY <1>5 DEF CallbackParked, WorkerGoto, machineVars, failVars, runVars
<1>6. CASE CallbackParkWait
  BY <1>6 DEF CallbackParkWait, WorkerGoto, runVars
<1>7. CASE CallbackWoken
  BY <1>7 DEF CallbackWoken, WorkerGoto, EventReset, failVars, runVars
<1>8. CASE CallbackParkServe
  <2>1. CASE ServiceMedia \/ ServiceDebug
    <3>1. req' \in [requested : SUBSET Requests, armed : BOOLEAN, ready : BOOLEAN,
                    waiting : BOOLEAN, continuing : BOOLEAN, debugged : BOOLEAN]
      BY <2>1 DEF ServiceMedia, ServiceDebug, DebugAllowed
    <3>2. \E es \in SUBSET Events : Complete(es)
      BY <2>1 DEF ServiceMedia, ServiceDebug, Events
    <3> QED BY <1>8, <3>1, <3>2, CompleteTypes DEF CallbackParkServe
  <2>2. CASE /\ \E capture \in Captures : ServiceStateRead(capture, flag)
             /\ UNCHANGED signaled
    BY <1>8, <2>2, StateReadTypes DEF CallbackParkServe, FailTypes
  <2> QED BY <1>8, <2>1, <2>2 DEF CallbackParkServe
<1>9. CASE CallbackParkRead
  <2>1. req' \in [requested : SUBSET Requests, armed : BOOLEAN, ready : BOOLEAN,
                  waiting : BOOLEAN, continuing : BOOLEAN, debugged : BOOLEAN]
    BY <1>9 DEF CallbackParkRead, ReadDone
  <2>2. UNCHANGED signaled \/ Complete({"state"})
    BY <1>9 DEF CallbackParkRead
  <2> QED BY <1>9, <2>1, <2>2, CompleteTypes DEF CallbackParkRead, Events
<1>10. CASE CallbackUnpark
  BY <1>10 DEF CallbackUnpark, runVars
<1>11. CASE CallbackResumeFact
  BY <1>11, NotifyTypes DEF CallbackResumeFact, FactKinds
<1> QED BY <1>1, <1>2, <1>3, <1>4, <1>5, <1>6, <1>7, <1>8, <1>9, <1>10, <1>11 DEF ExecutorEvent

\* ...of the run hook, ...
LEMMA DriverRequestTypes ==
    ASSUME Typed, Driver \/ DriverCheckpoint
    PROVE  RequestTypes'
<1> USE DEF Typed, RequestTypes
<1>1. CASE RunQuantum
  BY <1>1 DEF RunQuantum, WorkerGoto, runVars
<1>2. CASE RunLoop
  BY <1>2 DEF RunLoop, WorkerGoto, machineVars, failVars, runVars
<1>3. CASE DriverCheckpoint
  BY <1>3 DEF DriverCheckpoint, runVars
<1> QED BY <1>1, <1>2, <1>3 DEF Driver

\* ...of a call that begins, ...
LEMMA UserRequestTypes ==
    ASSUME Typed, User \/ TakeFact
    PROVE  RequestTypes'
<1> USE DEF Typed, RequestTypes
<1>1. CASE \E o \in Lifecycle : Refuse(o)
  BY <1>1 DEF Refuse, Dispatch, failVars, runVars
<1>2. CASE CallStart
  BY <1>2, BeginRunTypes DEF CallStart, Dispatch
<1>3. CASE CallPause
  BY <1>3 DEF CallPause, Dispatch, runVars
<1>4. CASE CallResume
  BY <1>4 DEF CallResume, Dispatch, ReleasePause, WakeParked, Events
<1>5. CASE CallStop
  BY <1>5 DEF CallStop, Dispatch, failVars
<1>6. CASE CallReset
  BY <1>6, BeginRunTypes DEF CallReset, Dispatch
<1>7. CASE \E r \in Requests : CallRequest(r)
  BY <1>7 DEF CallRequest, failVars
<1>8. CASE EnqueueInput
  BY <1>8 DEF EnqueueInput, QueueFull, ControlGoto, runVars
<1>9. CASE DebugCancel
  BY <1>9 DEF DebugCancel, ControlGoto, runVars, Events
<1>10. CASE Quit
  BY <1>10 DEF Quit, BeginStop
<1>11. CASE TakeFact
  BY <1>11 DEF TakeFact, failVars, runVars
<1> QED BY <1>1, <1>2, <1>3, <1>4, <1>5, <1>6, <1>7, <1>8, <1>9, <1>10, <1>11 DEF User

\* ...and of one in progress.
LEMMA ControlRequestTypes ==
    ASSUME Typed, ControlProgress
    PROVE  RequestTypes'
<1> USE DEF Typed, RequestTypes
<1>1. CASE ResetStop
  BY <1>1 DEF ResetStop, ControlGoto, runVars
<1>2. CASE StopPause
  BY <1>2 DEF StopPause, ReleasePause, WakeParked, runVars, Events
<1>3. CASE StopDriver
  BY <1>3 DEF StopDriver, ControlGoto, runVars
<1>4. CASE Submit
  <2>1. op \in Requests
    BY <1>4 DEF Submit, ControlTypes
  <2>2. req' \in [requested : SUBSET Requests, armed : BOOLEAN, ready : BOOLEAN,
                  waiting : BOOLEAN, continuing : BOOLEAN, debugged : BOOLEAN]
    <3>1. \/ req' = req
          \/ req' = [req EXCEPT !.requested = @ \cup {op}, !.debugged = FALSE]
      BY <1>4 DEF Submit
    <3>2. req.requested \cup {op} \in SUBSET Requests
      BY <2>1
    <3> QED BY <3>1, <3>2
  <2>3. signaled' \subseteq Events
    BY <1>4 DEF Submit, Events
  <2> QED BY <1>4, <2>2, <2>3 DEF Submit
<1>5. CASE Await
  BY <1>5 DEF Await, ControlGoto, Completion, failVars, runVars
<1>6. CASE Join
  BY <1>6 DEF Join, ControlGoto, machineVars, failVars, runVars
<1>7. CASE Exit
  BY <1>7 DEF Exit, BeginStop
<1>8. CASE Terminate
  BY <1>8 DEF Terminate, ControlGoto, runVars, Events
<1>9. CASE TerminateJoin
  BY <1>9 DEF TerminateJoin, ControlGoto, machineVars, failVars, runVars
<1> QED BY <1>1, <1>2, <1>3, <1>4, <1>5, <1>6, <1>7, <1>8, <1>9 DEF ControlProgress
-----------------------------------------------------------------------------
\* The worker knows why it settles, and a run ends STOPPED or in ERROR.
LEMMA WorkerWorkerTypes ==
    ASSUME Typed, Worker
    PROVE  WorkerTypes'
<1> USE DEF Typed, WorkerTypes, None, Whys, WorkerPoints, OuterPoints, GuestPoints,
        CallbackPoints, ParkPoints
<1>1. CASE WorkerWait
  BY <1>1 DEF WorkerWait, WorkerGoto, Finish, FailTypes, States
<1>2. CASE WorkerWoken
  BY <1>2 DEF WorkerWoken, WorkerGoto
<1>3. CASE WorkerServe
  BY <1>3 DEF WorkerServe
<1>4. CASE WorkerBoot
  BY <1>4 DEF WorkerBoot, WorkerGoto, Finish, FailTypes, States
<1>5. CASE WorkerEnter
  BY <1>5 DEF WorkerEnter, WorkerGoto
<1>6. CASE WorkerAnnounce
  BY <1>6 DEF WorkerAnnounce, WorkerGoto
<1>7. CASE WorkerUnwind
  BY <1>7 DEF WorkerUnwind, Finish, Succeeded, FailTypes, States
<1>8. CASE WorkerSettle
  BY <1>8 DEF WorkerSettle, WorkerGoto
<1>9. CASE WorkerNotify
  BY <1>9 DEF WorkerNotify, WorkerGoto, TerminalFact, Locals, States
<1>10. CASE WorkerRestart
  BY <1>10 DEF WorkerRestart, WorkerGoto, Locals, States
<1>11. CASE WorkerExit
  BY <1>11 DEF WorkerExit, Finish, FailTypes, States
<1> QED BY <1>1, <1>2, <1>3, <1>4, <1>5, <1>6, <1>7, <1>8, <1>9, <1>10, <1>11 DEF Worker

\* The callback leaves the worker's reason alone.
LEMMA ExecutorWorkerTypes ==
    ASSUME Typed, ExecutorEvent
    PROVE  WorkerTypes'
<1> USE DEF Typed, WorkerTypes, None, Whys, WorkerPoints, OuterPoints, GuestPoints,
        CallbackPoints, ParkPoints
<1>1. CASE CallbackEntry
  BY <1>1 DEF CallbackEntry, WorkerGoto
<1>2. CASE CallbackPublish
  BY <1>2 DEF CallbackPublish, CaptureEnds
<1>3. CASE CallbackPark
  BY <1>3 DEF CallbackPark
<1>4. CASE CallbackParkFact
  BY <1>4 DEF CallbackParkFact, WorkerGoto
<1>5. CASE CallbackParked
  BY <1>5 DEF CallbackParked, WorkerGoto
<1>6. CASE CallbackParkWait
  BY <1>6 DEF CallbackParkWait, WorkerGoto
<1>7. CASE CallbackWoken
  BY <1>7 DEF CallbackWoken, WorkerGoto
<1>8. CASE CallbackParkServe
  BY <1>8 DEF CallbackParkServe, WorkerGoto
<1>9. CASE CallbackParkRead
  BY <1>9 DEF CallbackParkRead, WorkerGoto
<1>10. CASE CallbackUnpark
  BY <1>10 DEF CallbackUnpark
<1>11. CASE CallbackResumeFact
  BY <1>11 DEF CallbackResumeFact, WorkerGoto
<1> QED BY <1>1, <1>2, <1>3, <1>4, <1>5, <1>6, <1>7, <1>8, <1>9, <1>10, <1>11 DEF ExecutorEvent

\* So does the run hook.
LEMMA DriverWorkerTypes ==
    ASSUME Typed, Driver \/ DriverCheckpoint
    PROVE  WorkerTypes'
<1> USE DEF Typed, WorkerTypes, None, Whys, WorkerPoints, OuterPoints, GuestPoints,
        CallbackPoints, ParkPoints
<1>1. CASE RunQuantum
  BY <1>1 DEF RunQuantum, WorkerGoto
<1>2. CASE RunLoop
  BY <1>2 DEF RunLoop, WorkerGoto
<1>3. CASE DriverCheckpoint
  BY <1>3 DEF DriverCheckpoint, workerVars
<1> QED BY <1>1, <1>2, <1>3 DEF Driver
\* A caller of a synchronous request remembers which one.
LEMMA UserControlTypes ==
    ASSUME Typed, User \/ TakeFact
    PROVE  ControlTypes'
<1> USE MaxRunsAssumption DEF Typed, ControlTypes, None, Lifecycle, ControlPoints
<1>1. CASE \E o \in Lifecycle : Refuse(o)
  BY <1>1 DEF Refuse, Dispatch, Returns, workerVars
<1>2. CASE CallStart
  BY <1>2 DEF CallStart, Dispatch, Accepted, Returns, workerVars
<1>3. CASE CallPause
  BY <1>3 DEF CallPause, Dispatch, Accepted, Returns, workerVars
<1>4. CASE CallResume
  BY <1>4 DEF CallResume, Dispatch, Accepted, ReleasePause, WakeParked, Returns, workerVars
<1>5. CASE CallStop
  BY <1>5 DEF CallStop, Dispatch, Accepted, Returns, workerVars
<1>6. CASE CallReset
  <2>1. cpc' \in {"idle", "refused", "reset_stop"} /\ op' \in {None, "reset"}
    BY <1>6 DEF CallReset, Returns
  <2>2. /\ monitor' = monitor /\ pending' \in {None, "reset"}
        /\ calls' = calls + 1 /\ calls' <= MaxRuns
    BY <1>6 DEF CallReset, Dispatch
  <2> QED BY <2>1, <2>2
<1>7. CASE \E r \in Requests : CallRequest(r)
  BY <1>7 DEF CallRequest, workerVars, Requests
<1>8. CASE EnqueueInput
  BY <1>8 DEF EnqueueInput, ControlGoto, workerVars, sessionVars
<1>9. CASE DebugCancel
  BY <1>9 DEF DebugCancel, ControlGoto, workerVars, sessionVars
<1>10. CASE Quit
  BY <1>10 DEF Quit, BeginStop, workerVars, sessionVars
<1>11. CASE TakeFact
  <2>1. Head(facts) \in [kind : FactKinds, run : Nat]
    BY <1>11, HeadTypes DEF TakeFact, RequestTypes
  <2>2. monitor' \in States /\ pending' \in {None, pending}
    BY <1>11, <2>1 DEF TakeFact, FactKinds, States
  <2> QED BY <1>11, <2>2 DEF TakeFact
<1> QED BY <1>1, <1>2, <1>3, <1>4, <1>5, <1>6, <1>7, <1>8, <1>9, <1>10, <1>11 DEF User

\* A call in progress returns to the session loop or ends the session.
LEMMA ControlControlTypes ==
    ASSUME Typed, ControlProgress
    PROVE  ControlTypes'
<1> USE MaxRunsAssumption DEF Typed, ControlTypes, None, Lifecycle, ControlPoints
<1>1. CASE ResetStop
  BY <1>1 DEF ResetStop, ControlGoto, workerVars, sessionVars
<1>2. CASE StopPause
  BY <1>2 DEF StopPause, ReleasePause, WakeParked, workerVars, sessionVars
<1>3. CASE StopDriver
  BY <1>3 DEF StopDriver, ControlGoto, workerVars, sessionVars, Requests
<1>4. CASE Submit
  BY <1>4 DEF Submit, Admitted, ControlGoto, Returns, workerVars, sessionVars
<1>5. CASE Await
  BY <1>5 DEF Await, ControlGoto, Returns, workerVars, sessionVars
<1>6. CASE Join
  BY <1>6 DEF Join, ControlGoto, Returns, workerVars, sessionVars
<1>7. CASE Exit
  BY <1>7 DEF Exit, BeginStop, workerVars, sessionVars
<1>8. CASE Terminate
  BY <1>8 DEF Terminate, ControlGoto, workerVars, sessionVars
<1>9. CASE TerminateJoin
  BY <1>9 DEF TerminateJoin, ControlGoto, workerVars, sessionVars
<1> QED BY <1>1, <1>2, <1>3, <1>4, <1>5, <1>6, <1>7, <1>8, <1>9 DEF ControlProgress
-----------------------------------------------------------------------------
\* Every step keeps the types.
LEMMA TypedNext ==
    ASSUME Typed, [Next]_vars
    PROVE  Typed'
<1>1. CASE UNCHANGED vars
  BY <1>1 DEF Typed, FailTypes, RunTypes, RequestTypes, WorkerTypes, ControlTypes, vars,
              machineVars, failVars, runVars, workerVars, controlVars, sessionVars
<1>2. CASE WorkerThread \/ DriverCheckpoint
  <2>1. FailTypes' /\ RequestTypes' /\ WorkerTypes'
    BY <1>2, WorkerFailTypes, ExecutorFailTypes, DriverFailTypes, WorkerRequestTypes,
       ExecutorRequestTypes, DriverRequestTypes, WorkerWorkerTypes, ExecutorWorkerTypes,
       DriverWorkerTypes DEF WorkerThread
  <2>2. ControlTypes'
    BY <1>2, WorkerKeepsControl DEF Typed, ControlTypes, controlVars, sessionVars
  <2> QED BY <1>2, <2>1, <2>2, RunTypesKept DEF Typed, Next
<1>3. CASE TakeFact \/ User \/ ControlProgress
  <2>1. FailTypes' /\ RequestTypes' /\ ControlTypes'
    BY <1>3, UserFailTypes, ControlFailTypes, UserRequestTypes, ControlRequestTypes,
       UserControlTypes, ControlControlTypes
  <2>2. WorkerTypes'
    BY <1>3, ControlKeepsWorker DEF Typed, WorkerTypes, workerVars
  <2> QED BY <1>3, <2>1, <2>2, RunTypesKept DEF Typed, Next
<1> QED BY <1>1, <1>2, <1>3 DEF Next, Ended

\* The types, with what the threads' points say of their locals, are invariant.
LEMMA TypedInvariant == Spec => []Typed
<1>1. Init => Typed
  <2> SUFFICES ASSUME Init
               PROVE  Typed
    OBVIOUS
  <2>1. FailTypes
    <3>1. flag \in [Flags -> BOOLEAN] /\ state \in States /\ cancelled \in BOOLEAN
      BY DEF Init, States
    <3>2. input \in [accepting : BOOLEAN, events : Seq(Nat)] /\ Len(input.events) = 0
      BY DEF Init
    <3>3. driver \in [stop : BOOLEAN, heartbeat : BOOLEAN, capture : {None, "busy", "ready"}]
      BY DEF Init
    <3>4. faults \in 0..MaxFaults
      BY MaxFaultsAssumption DEF Init
    <3> QED BY <3>1, <3>2, <3>3, <3>4, InputCapacityAssumption DEF FailTypes
  <2>2. RunTypes /\ RequestTypes
    <3>1. run_generation \in Nat /\ frame_generation \in Nat
      BY DEF Init
    <3>2. lease_current \in BOOLEAN /\ signaled \subseteq Events
      BY DEF Init
    <3>3. facts \in Seq([kind : FactKinds, run : Nat])
      BY DEF Init
    <3>4. req \in [requested : SUBSET Requests, armed : BOOLEAN, ready : BOOLEAN,
                   waiting : BOOLEAN, continuing : BOOLEAN, debugged : BOOLEAN]
      BY DEF Init
    <3> QED BY <3>1, <3>2, <3>3, <3>4 DEF RunTypes, RequestTypes
  <2>3. WorkerTypes /\ ControlTypes
    BY MaxRunsAssumption
    DEF Init, WorkerTypes, ControlTypes, Locals, WorkerPoints, OuterPoints, ControlPoints,
        States, Whys, None
  <2> QED BY <2>1, <2>2, <2>3 DEF Typed
<1>2. Typed /\ [Next]_vars => Typed'
  BY TypedNext
<1> QED BY <1>1, <1>2, PTL DEF Spec

\* Every variable of the machine, its queues within their capacity, has its type
\* in every reachable state (machine.c, all of the worker, the callback and the API).
THEOREM TypeCorrect == Spec => []TypeOK
<1>1. Typed => TypeOK
  BY DEF Typed, FailTypes, RunTypes, RequestTypes, WorkerTypes, ControlTypes, TypeOK
<1> QED BY <1>1, TypedInvariant, PTL
=============================================================================
