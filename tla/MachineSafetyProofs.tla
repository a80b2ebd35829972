------------------------- MODULE MachineSafetyProofs -------------------------
(***************************************************************************)
(* The safety of Machine for every bound and every kind of driver.  The    *)
(* inductive invariant has one layer per concern: who waits for what       *)
(* (OneCaller), when a start may be outstanding (Starting), what the state *)
(* says about the worker's point (Phases) and about a capture (Capturing), *)
(* which wakes are owed (Wakes), which facts are on their way (Reported),  *)
(* and what holds as long as nothing has failed natively (Faultless).      *)
(* Every layer is kept by every action, given the layers before it.        *)
(***************************************************************************)
EXTENDS MachineProofs, MachineStepProofs

-----------------------------------------------------------------------------
\* Some caller has no answer yet.
Outstanding == req.requested # {} \/ req.waiting

\* The worker has refused every later request and will be done.
Exiting == wpc \in {"settle", "notify"} /\ w.why = "exit"

\* There is one caller: what is registered is its request, a signaled completion
\* means that nothing is outstanding, and a worker that is done has answered.
OneCaller ==
    /\ req.requested # {} => cpc \in {"await", "join"} /\ req.requested = {op}
    /\ req.waiting => cpc \in {"await", "join"} /\ op = "state_write" /\ req.requested = {}
    /\ cpc = "await" => \/ Completion(op) \in signaled \/ cancelled
                        \/ op \in req.requested
                        \/ op = "state_write" /\ req.waiting
    /\ cpc = "await" /\ Completion(op) \in signaled => ~Outstanding
    /\ cpc = "join" => cancelled
    /\ wpc = "done" \/ Exiting => flag["terminate"]
    /\ wpc = "done" \/ (wpc = "notify" /\ w.why = "exit") => ~Outstanding

\* A request is claimed, answered or handed on, never forgotten: the worker's
\* steps outside a run, ...
LEMMA WorkerOneCaller ==
    ASSUME Typed, OneCaller, Worker
    PROVE  OneCaller'
<1> USE DEF OneCaller, Outstanding, Exiting
<1>1. CASE WorkerWait
  BY <1>1, FinishEffect DEF WorkerWait, WorkerGoto, controlVars
<1>2. CASE WorkerWoken
  BY <1>2, WorkerWokenStep, CompletionEvents DEF Fails, Keeps
<1>3. CASE WorkerServe
  BY <1>3, WorkerServeStep, BeginRunEffect, CompletionEvents DEF Answers, Completes, Fails,
                                                                 Keeps, KeepsSlots,
                                                                 failVars, Flags
<1>4. CASE WorkerBoot
  BY <1>4, WorkerBootStep DEF Settles, Keeps
<1>5. CASE WorkerEnter
  BY <1>5 DEF WorkerEnter, WorkerGoto, controlVars, Exchange
<1>6. CASE WorkerAnnounce
  BY <1>6 DEF WorkerAnnounce, WorkerGoto, controlVars
<1>7. CASE WorkerUnwind
  BY <1>7, WorkerUnwindStep DEF Settles, Keeps
<1>8. CASE WorkerSettle
  BY <1>8, WorkerSettleStep DEF Fails, Waiters, Completion, Keeps
<1>9. CASE WorkerNotify
  BY <1>9 DEF WorkerNotify, WorkerGoto, controlVars, failVars, Locals
<1>10. CASE WorkerRestart
  BY <1>10, BeginRunEffect, CompletionEvents DEF WorkerRestart, WorkerGoto, controlVars,
                                                 Locals
<1>11. CASE WorkerExit
  BY <1>11, WorkerExitStep DEF Settles, Keeps
<1> QED BY <1>1, <1>2, <1>3, <1>4, <1>5, <1>6, <1>7, <1>8, <1>9, <1>10, <1>11 DEF Worker

\* ...in the callback and in a pause, ...
LEMMA ExecutorOneCaller ==
    ASSUME Typed, OneCaller, ExecutorEvent
    PROVE  OneCaller'
<1> USE DEF OneCaller, Outstanding, Exiting
<1>1. CASE CallbackEntry
  BY <1>1, CallbackEntryStep DEF Keeps
<1>2. CASE CallbackPublish
  BY <1>2, CallbackPublishStep DEF Keeps
<1>3. CASE CallbackPark
  BY <1>3 DEF CallbackPark, controlVars, Exchange
<1>4. CASE CallbackParkFact
  BY <1>4, CallbackParkFactStep DEF Fails, Keeps, Completion
<1>5. CASE CallbackParked
  BY <1>5 DEF CallbackParked, WorkerGoto, machineVars, failVars, controlVars
<1>6. CASE CallbackParkWait
  BY <1>6, CallbackParkWaitStep DEF Keeps
<1>7. CASE CallbackWoken
  BY <1>7, CallbackWokenStep, CompletionEvents DEF Fails, Keeps, failVars
<1>8. CASE CallbackParkServe
  BY <1>8, CallbackParkServeStep DEF Answers, Completes, Fails, Keeps, KeepsSlots, failVars,
                                     Flags, Completion
<1>9. CASE CallbackParkRead
  BY <1>9, CallbackParkReadStep DEF Completes, Fails, Keeps, failVars, Flags, Completion
<1>10. CASE CallbackUnpark
  BY <1>10 DEF CallbackUnpark, controlVars, Exchange
<1>11. CASE CallbackResumeFact
  BY <1>11 DEF CallbackResumeFact, WorkerGoto, controlVars
<1> QED BY <1>1, <1>2, <1>3, <1>4, <1>5, <1>6, <1>7, <1>8, <1>9, <1>10, <1>11 DEF ExecutorEvent

\* ...and in the run hook.
LEMMA DriverOneCaller ==
    ASSUME Typed, OneCaller, Driver \/ DriverCheckpoint
    PROVE  OneCaller'
<1> USE DEF OneCaller, Outstanding, Exiting
<1>1. CASE RunQuantum
  BY <1>1 DEF RunQuantum, WorkerGoto, controlVars
<1>2. CASE RunLoop
  BY <1>2 DEF RunLoop, WorkerGoto, machineVars, failVars, controlVars
<1>3. CASE DriverCheckpoint
  BY <1>3 DEF DriverCheckpoint, workerVars, controlVars
<1> QED BY <1>1, <1>2, <1>3 DEF Driver

\* A call registers nothing before submit_request.
LEMMA UserOneCaller ==
    ASSUME Typed, OneCaller, User \/ TakeFact
    PROVE  OneCaller'
<1> USE DEF OneCaller, Outstanding, Exiting
<1>1. CASE \E o \in Lifecycle : Refuse(o)
  BY <1>1 DEF Refuse, Dispatch, failVars, workerVars
<1>2. CASE CallStart
  BY <1>2, BeginRunEffect DEF CallStart, Dispatch, workerVars, Accepted
<1>3. CASE CallPause
  BY <1>3, CallPauseStep DEF Keeps
<1>4. CASE CallResume
  BY <1>4, CallResumeStep DEF Released, Keeps, Fails
<1>5. CASE CallStop
  BY <1>5, CallStopStep DEF Keeps
<1>6. CASE CallReset
  BY <1>6, CallResetStep, BeginRunEffect DEF Keeps
<1>7. CASE \E r \in Requests : CallRequest(r)
  BY <1>7 DEF CallRequest, failVars, workerVars
<1>8. CASE EnqueueInput
  BY <1>8 DEF EnqueueInput, ControlGoto, workerVars
<1>9. CASE DebugCancel
  BY <1>9, DebugCancelStep DEF Keeps, Fails
<1>10. CASE Quit
  BY <1>10, BeginStopStep DEF Quit, Keeps
<1>11. CASE TakeFact
  BY <1>11 DEF TakeFact, workerVars, failVars
<1> QED BY <1>1, <1>2, <1>3, <1>4, <1>5, <1>6, <1>7, <1>8, <1>9, <1>10, <1>11 DEF User

\* A caller waits for one answer and leaves with it.
LEMMA ControlOneCaller ==
    ASSUME Typed, OneCaller, ControlProgress
    PROVE  OneCaller'
<1> USE DEF OneCaller, Outstanding, Exiting
<1>1. CASE ResetStop
  BY <1>1, ResetStopStep DEF Keeps
<1>2. CASE StopPause
  BY <1>2, StopPauseStep DEF Released, Keeps, Fails
<1>3. CASE StopDriver
  BY <1>3 DEF StopDriver, ControlGoto, workerVars
<1>4. CASE Submit
  BY <1>4, SubmitStep, CompletionEvents DEF KeepsSlots, Admitted, workerVars
<1>5. CASE Await
  BY <1>5, AwaitStep DEF Keeps, Fails, failVars
<1>6. CASE Join
  BY <1>6 DEF Join, ControlGoto, machineVars, failVars, workerVars
<1>7. CASE Exit
  BY <1>7, BeginStopStep DEF Exit, Keeps
<1>8. CASE Terminate
  BY <1>8, TerminateStep DEF Keeps
<1>9. CASE TerminateJoin
  BY <1>9 DEF TerminateJoin, ControlGoto, machineVars, failVars, workerVars
<1> QED BY <1>1, <1>2, <1>3, <1>4, <1>5, <1>6, <1>7, <1>8, <1>9 DEF ControlProgress
-----------------------------------------------------------------------------
\* The points outside the driver's run hook, and those inside a run.
Outside == {"wait", "woken", "serve", "boot", "enter", "notify", "restart", "exit", "done"}
Inside == GuestPoints \cup CallbackPoints \cup ParkPoints \cup {"announce"}

\* A start is outstanding only in a STARTING or failed machine without requests,
\* and never in a run; outside a run the machine is neither RUNNING nor PAUSED.
Starting ==
    /\ flag["start"] => state \in {"STARTING", "ERROR"} \/ flag["terminate"]
    /\ flag["start"] => req.requested = {}
    /\ wpc \in {"boot", "enter"} =>
          state \in {"STARTING", "ERROR"} /\ ~flag["start"] /\ req.requested = {}
    /\ wpc = "settle" /\ w.why \notin {"wait", "exit"} => ~flag["start"] /\ state # "STOPPED"
    /\ wpc \notin Outside \cup {"settle"} => ~flag["start"]
    /\ wpc = "settle" =>
          /\ w.terminal \notin {"RUNNING", "PAUSED"}
          /\ w.why = "wait" => w.terminal = "ERROR"
          /\ w.why = "restart" => w.terminal = "STARTING"
    /\ wpc = "restart" => state \in {"STARTING", "ERROR"} /\ req.requested = {}
    /\ wpc \in Outside => state \notin {"RUNNING", "PAUSED"} /\ "state_read" \notin req.requested
    /\ wpc \in Inside => "state_write" \notin req.requested

\* Booting consumes the start; settling and restarting leave none behind.
LEMMA WorkerStarting ==
    ASSUME Typed, LiveFromEnter, OneCaller, Starting, Worker
    PROVE  Starting'
<1> USE DEF Starting, Outside, Inside, GuestPoints, CallbackPoints, ParkPoints
<1>1. CASE WorkerWait
  BY <1>1, FinishEffect DEF WorkerWait, WorkerGoto, controlVars
<1>2. CASE WorkerWoken
  BY <1>2, WorkerWokenStep, CompletionEvents DEF Fails, Keeps
<1>3. CASE WorkerServe
  BY <1>3, WorkerServeStep, BeginRunEffect, CompletionEvents DEF Answers, Completes, Fails,
                                                                 Keeps, KeepsSlots,
                                                                 failVars, Flags, OneCaller,
                                                                 Outstanding, Exiting
<1>4. CASE WorkerBoot
  BY <1>4, WorkerBootStep DEF Settles, Keeps
<1>5. CASE WorkerEnter
  BY <1>5 DEF WorkerEnter, WorkerGoto, controlVars, Exchange
<1>6. CASE WorkerAnnounce
  BY <1>6 DEF WorkerAnnounce, WorkerGoto, controlVars
<1>7. CASE WorkerUnwind
  BY <1>7, WorkerUnwindStep DEF Settles, Keeps, LiveFromEnter, OuterPoints
<1>8. CASE WorkerSettle
  BY <1>8, WorkerSettleStep DEF Fails, Waiters, Completion, Keeps, OneCaller, Outstanding,
                                Exiting
<1>9. CASE WorkerNotify
  BY <1>9 DEF WorkerNotify, WorkerGoto, controlVars, failVars, Locals
<1>10. CASE WorkerRestart
  BY <1>10, BeginRunEffect, CompletionEvents DEF WorkerRestart, WorkerGoto, controlVars,
                                                 Locals
<1>11. CASE WorkerExit
  BY <1>11, WorkerExitStep DEF Settles, Keeps
<1> QED BY <1>1, <1>2, <1>3, <1>4, <1>5, <1>6, <1>7, <1>8, <1>9, <1>10, <1>11 DEF Worker

\* Nothing in the callback or a pause asks for a start.
LEMMA ExecutorStarting ==
    ASSUME Typed, LiveFromEnter, OneCaller, Starting, ExecutorEvent
    PROVE  Starting'
<1> USE DEF Starting, Outside, Inside, GuestPoints, CallbackPoints, ParkPoints
<1>1. CASE CallbackEntry
  BY <1>1, CallbackEntryStep DEF Keeps
<1>2. CASE CallbackPublish
  BY <1>2, CallbackPublishStep DEF Keeps
<1>3. CASE CallbackPark
  BY <1>3 DEF CallbackPark, controlVars, Exchange
<1>4. CASE CallbackParkFact
  BY <1>4, CallbackParkFactStep DEF Fails, Keeps, Completion
<1>5. CASE CallbackParked
  BY <1>5 DEF CallbackParked, WorkerGoto, machineVars, failVars, controlVars
<1>6. CASE CallbackParkWait
  BY <1>6, CallbackParkWaitStep DEF Keeps
<1>7. CASE CallbackWoken
  BY <1>7, CallbackWokenStep, CompletionEvents DEF Fails, Keeps, failVars
<1>8. CASE CallbackParkServe
  BY <1>8, CallbackParkServeStep DEF Answers, Completes, Fails, Keeps, KeepsSlots, failVars,
                                     Flags, Completion
<1>9. CASE CallbackParkRead
  BY <1>9, CallbackParkReadStep DEF Completes, Fails, Keeps, failVars, Flags, Completion
<1>10. CASE CallbackUnpark
  BY <1>10 DEF CallbackUnpark, controlVars, Exchange
<1>11. CASE CallbackResumeFact
  BY <1>11 DEF CallbackResumeFact, WorkerGoto, controlVars
<1> QED BY <1>1, <1>2, <1>3, <1>4, <1>5, <1>6, <1>7, <1>8, <1>9, <1>10, <1>11 DEF ExecutorEvent

\* Nor does the run hook.
LEMMA DriverStarting ==
    ASSUME Typed, LiveFromEnter, OneCaller, Starting, Driver \/ DriverCheckpoint
    PROVE  Starting'
<1> USE DEF Starting, Outside, Inside, GuestPoints, CallbackPoints, ParkPoints
<1>1. CASE RunQuantum
  BY <1>1 DEF RunQuantum, WorkerGoto, controlVars
<1>2. CASE RunLoop
  BY <1>2 DEF RunLoop, WorkerGoto, machineVars, failVars, controlVars
<1>3. CASE DriverCheckpoint
  BY <1>3 DEF DriverCheckpoint, workerVars, controlVars
<1> QED BY <1>1, <1>2, <1>3 DEF Driver

\* A start or a reset of a stopped machine finds the worker outside the run hook.
LEMMA UserStarting ==
    ASSUME Typed, LiveFromEnter, OneCaller, Starting, User \/ TakeFact
    PROVE  Starting'
<1> USE DEF Starting, Outside, Inside, GuestPoints, CallbackPoints, ParkPoints
<1>1. CASE \E o \in Lifecycle : Refuse(o)
  BY <1>1 DEF Refuse, Dispatch, failVars, workerVars
<1>2. CASE CallStart
  BY <1>2, BeginRunEffect DEF CallStart, Dispatch, workerVars, Accepted, OneCaller,
                              Outstanding, Exiting, LiveFromEnter, OuterPoints
<1>3. CASE CallPause
  BY <1>3, CallPauseStep DEF Keeps
<1>4. CASE CallResume
  BY <1>4, CallResumeStep DEF Released, Keeps, Fails
<1>5. CASE CallStop
  BY <1>5, CallStopStep DEF Keeps
<1>6. CASE CallReset
  BY <1>6, CallResetStep, BeginRunEffect DEF Keeps, OneCaller, Outstanding, Exiting,
                                             LiveFromEnter, OuterPoints
<1>7. CASE \E r \in Requests : CallRequest(r)
  BY <1>7 DEF CallRequest, failVars, workerVars
<1>8. CASE EnqueueInput
  BY <1>8 DEF EnqueueInput, ControlGoto, workerVars
<1>9. CASE DebugCancel
  BY <1>9, DebugCancelStep DEF Keeps, Fails
<1>10. CASE Quit
  BY <1>10, BeginStopStep DEF Quit, Keeps
<1>11. CASE TakeFact
  BY <1>11 DEF TakeFact, workerVars, failVars
<1> QED BY <1>1, <1>2, <1>3, <1>4, <1>5, <1>6, <1>7, <1>8, <1>9, <1>10, <1>11 DEF User

\* submit_request admits each request only in its states.
LEMMA ControlStarting ==
    ASSUME Typed, LiveFromEnter, OneCaller, Starting, ControlProgress
    PROVE  Starting'
<1> USE DEF Starting, Outside, Inside, GuestPoints, CallbackPoints, ParkPoints
<1>1. CASE ResetStop
  BY <1>1, ResetStopStep DEF Keeps
<1>2. CASE StopPause
  BY <1>2, StopPauseStep DEF Released, Keeps, Fails
<1>3. CASE StopDriver
  BY <1>3 DEF StopDriver, ControlGoto, workerVars
<1>4. CASE Submit
  BY <1>4, SubmitStep, CompletionEvents DEF KeepsSlots, Admitted, workerVars, OneCaller,
                                            Outstanding, Exiting, Allowed, Requests,
                                            LiveFromEnter, OuterPoints
<1>5. CASE Await
  BY <1>5, AwaitStep DEF Keeps, Fails, failVars
<1>6. CASE Join
  BY <1>6 DEF Join, ControlGoto, machineVars, failVars, workerVars
<1>7. CASE Exit
  BY <1>7, BeginStopStep DEF Exit, Keeps
<1>8. CASE Terminate
  BY <1>8, TerminateStep DEF Keeps
<1>9. CASE TerminateJoin
  BY <1>9 DEF TerminateJoin, ControlGoto, machineVars, failVars, workerVars
<1> QED BY <1>1, <1>2, <1>3, <1>4, <1>5, <1>6, <1>7, <1>8, <1>9 DEF ControlProgress
-----------------------------------------------------------------------------
\* Inside a run the state is the one the worker's point stands for, or a stop is
\* wanted, which is what a concurrent failure leaves behind.
Phases ==
    /\ wpc \in {"announce", "resume_fact"} => state = "RUNNING" \/ flag["stop"]
    /\ wpc \in {"callback", "publish", "quantum", "loop"} =>
          state = "RUNNING" \/ flag["stop"] \/ (state = "PAUSED" /\ req.continuing)
    /\ wpc = "park" => \/ state = "RUNNING" \/ flag["stop"]
                       \/ state = "PAUSED" /\ (req.continuing \/ w.suppress)
    /\ wpc \in {"park_fact", "unpark"} \cup ParkPoints => state = "PAUSED" \/ flag["stop"]

\* The state the parking exchange expects.
Expected == IF w.suppress THEN "PAUSED" ELSE "RUNNING"

\* A capture exists only while its request is registered; once it has its result
\* the guest does not run and the way to the pause, or a stop, is taken.
Capturing ==
    /\ req.ready \/ req.continuing \/ req.armed => "state_read" \in req.requested
    /\ wpc \in {"callback", "quantum", "loop"} /\ req.ready => flag["stop"]
    /\ wpc = "publish" /\ req.ready => flag["pause"] \/ flag["stop"]
    /\ wpc = "park" /\ req.ready /\ ~flag["stop"] => state = Expected
    /\ wpc \in (ParkPoints \ {"park_read"}) \cup {"unpark", "resume_fact", "announce"} => ~req.ready
    /\ wpc \in {"callback", "publish", "quantum", "loop", "park"} /\ req.continuing =>
          state = "PAUSED" \/ flag["stop"]
    /\ wpc = "park" /\ req.continuing => ~w.suppress
    /\ wpc \in (ParkPoints \ {"parked"}) \cup {"park_fact", "resume_fact", "announce"} =>
          ~req.continuing
    /\ wpc = "parked" /\ req.continuing => ~flag["pause"] \/ flag["stop"]
    /\ wpc \in Inside /\ req.requested # {} /\ flag["terminate"] => flag["stop"]

\* The worker enters RUNNING.
LEMMA WorkerPhases ==
    ASSUME Typed, LiveFromEnter, Starting, Phases, Capturing, Worker
    PROVE  Phases'
<1> USE DEF Phases, ParkPoints
<1>1. CASE WorkerWait
  BY <1>1, FinishEffect DEF WorkerWait, WorkerGoto, controlVars
<1>2. CASE WorkerWoken
  BY <1>2, WorkerWokenStep, CompletionEvents DEF Fails, Keeps
<1>3. CASE WorkerServe
  BY <1>3, WorkerServeStep, BeginRunEffect, CompletionEvents DEF Answers, Completes, Fails,
                                                                 Keeps, KeepsSlots,
                                                                 failVars, Flags
<1>4. CASE WorkerBoot
  BY <1>4, WorkerBootStep DEF Settles, Keeps
<1>5. CASE WorkerEnter
  BY <1>5 DEF WorkerEnter, WorkerGoto, controlVars, Exchange
<1>6. CASE WorkerAnnounce
  BY <1>6 DEF WorkerAnnounce, WorkerGoto, controlVars
<1>7. CASE WorkerUnwind
  BY <1>7, WorkerUnwindStep DEF Settles, Keeps
<1>8. CASE WorkerSettle
  BY <1>8, WorkerSettleStep DEF Fails, Waiters, Completion, Keeps
<1>9. CASE WorkerNotify
  BY <1>9 DEF WorkerNotify, WorkerGoto, controlVars, failVars, Locals
<1>10. CASE WorkerRestart
  BY <1>10, BeginRunEffect, CompletionEvents DEF WorkerRestart, WorkerGoto, controlVars,
                                                 Locals
<1>11. CASE WorkerExit
  BY <1>11, WorkerExitStep DEF Settles, Keeps
<1> QED BY <1>1, <1>2, <1>3, <1>4, <1>5, <1>6, <1>7, <1>8, <1>9, <1>10, <1>11 DEF Worker

\* The callback leaves and reaches the pause through an exchange, or with a stop.
LEMMA ExecutorPhases ==
    ASSUME Typed, LiveFromEnter, Starting, Phases, Capturing, ExecutorEvent
    PROVE  Phases'
<1> USE DEF Phases, ParkPoints
<1>1. CASE CallbackEntry
  BY <1>1, CallbackEntryStep DEF Keeps
<1>2. CASE CallbackPublish
  <2>1. req.continuing \in BOOLEAN /\ req.ready \in BOOLEAN
    BY DEF Typed, RequestTypes
  <2>2. wpc = "publish" /\ (state = "RUNNING" \/ flag["stop"] \/ (state = "PAUSED" /\ req.continuing))
    BY <1>2, CallbackPublishStep
  <2>3. req.ready => flag["pause"] \/ flag["stop"]
    BY <2>2 DEF Capturing
  <2> QED BY <1>2, <2>1, <2>2, <2>3, CallbackPublishStep DEF Keeps
<1>3. CASE CallbackPark
  BY <1>3 DEF CallbackPark, controlVars, Exchange
<1>4. CASE CallbackParkFact
  BY <1>4, CallbackParkFactStep DEF Fails, Keeps, Completion
<1>5. CASE CallbackParked
  BY <1>5 DEF CallbackParked, WorkerGoto, machineVars, failVars, controlVars
<1>6. CASE CallbackParkWait
  BY <1>6, CallbackParkWaitStep DEF Keeps
<1>7. CASE CallbackWoken
  BY <1>7, CallbackWokenStep, CompletionEvents DEF Fails, Keeps, failVars
<1>8. CASE CallbackParkServe
  BY <1>8, CallbackParkServeStep DEF Answers, Completes, Fails, Keeps, KeepsSlots, failVars,
                                     Flags, Completion
<1>9. CASE CallbackParkRead
  BY <1>9, CallbackParkReadStep DEF Completes, Fails, Keeps, failVars, Flags, Completion
<1>10. CASE CallbackUnpark
  BY <1>10 DEF CallbackUnpark, controlVars, Exchange
<1>11. CASE CallbackResumeFact
  BY <1>11 DEF CallbackResumeFact, WorkerGoto, controlVars
<1> QED BY <1>1, <1>2, <1>3, <1>4, <1>5, <1>6, <1>7, <1>8, <1>9, <1>10, <1>11 DEF ExecutorEvent

\* The run hook leaves the state alone.
LEMMA DriverPhases ==
    ASSUME Typed, LiveFromEnter, Starting, Phases, Capturing, Driver \/ DriverCheckpoint
    PROVE  Phases'
<1> USE DEF Phases, ParkPoints
<1>1. CASE RunQuantum
  BY <1>1 DEF RunQuantum, WorkerGoto, controlVars
<1>2. CASE RunLoop
  BY <1>2 DEF RunLoop, WorkerGoto, machineVars, failVars, controlVars
<1>3. CASE DriverCheckpoint
  BY <1>3 DEF DriverCheckpoint, workerVars, controlVars
<1> QED BY <1>1, <1>2, <1>3 DEF Driver

\* A new run begins only where the worker is outside the run hook.
LEMMA UserPhases ==
    ASSUME Typed, LiveFromEnter, Starting, Phases, Capturing, User \/ TakeFact
    PROVE  Phases'
<1> USE DEF Phases, ParkPoints
<1>1. CASE \E o \in Lifecycle : Refuse(o)
  BY <1>1 DEF Refuse, Dispatch, failVars, workerVars
<1>2. CASE CallStart
  BY <1>2, BeginRunEffect DEF CallStart, Dispatch, workerVars, Accepted, LiveFromEnter,
                              OuterPoints
<1>3. CASE CallPause
  BY <1>3, CallPauseStep DEF Keeps
<1>4. CASE CallResume
  BY <1>4, CallResumeStep DEF Released, Keeps, Fails
<1>5. CASE CallStop
  BY <1>5, CallStopStep DEF Keeps
<1>6. CASE CallReset
  BY <1>6, CallResetStep, BeginRunEffect DEF Keeps, LiveFromEnter, OuterPoints
<1>7. CASE \E r \in Requests : CallRequest(r)
  BY <1>7 DEF CallRequest, failVars, workerVars
<1>8. CASE EnqueueInput
  BY <1>8 DEF EnqueueInput, ControlGoto, workerVars
<1>9. CASE DebugCancel
  BY <1>9, DebugCancelStep DEF Keeps, Fails
<1>10. CASE Quit
  BY <1>10, BeginStopStep DEF Quit, Keeps
<1>11. CASE TakeFact
  BY <1>11 DEF TakeFact, workerVars, failVars
<1> QED BY <1>1, <1>2, <1>3, <1>4, <1>5, <1>6, <1>7, <1>8, <1>9, <1>10, <1>11 DEF User

\* A call in progress changes the state only by failing, with a stop.
LEMMA ControlPhases ==
    ASSUME Typed, LiveFromEnter, Starting, Phases, Capturing, ControlProgress
    PROVE  Phases'
<1> USE DEF Phases, ParkPoints
<1>1. CASE ResetStop
  BY <1>1, ResetStopStep DEF Keeps
<1>2. CASE StopPause
  BY <1>2, StopPauseStep DEF Released, Keeps, Fails
<1>3. CASE StopDriver
  BY <1>3 DEF StopDriver, ControlGoto, workerVars
<1>4. CASE Submit
  BY <1>4, SubmitStep, CompletionEvents DEF KeepsSlots, Admitted, workerVars
<1>5. CASE Await
  BY <1>5, AwaitStep DEF Keeps, Fails, failVars
<1>6. CASE Join
  BY <1>6 DEF Join, ControlGoto, machineVars, failVars, workerVars
<1>7. CASE Exit
  BY <1>7, BeginStopStep DEF Exit, Keeps
<1>8. CASE Terminate
  BY <1>8, TerminateStep DEF Keeps
<1>9. CASE TerminateJoin
  BY <1>9 DEF TerminateJoin, ControlGoto, machineVars, failVars, workerVars
<1> QED BY <1>1, <1>2, <1>3, <1>4, <1>5, <1>6, <1>7, <1>8, <1>9 DEF ControlProgress
\* A run is entered without a capture, and settling ends one.
LEMMA WorkerCapturing ==
    ASSUME Typed, LiveFromEnter, OneCaller, Starting, Phases, Capturing, Worker
    PROVE  Capturing'
<1> USE DEF Capturing, Expected, Inside, GuestPoints, CallbackPoints, ParkPoints
<1>1. CASE WorkerWait
  BY <1>1, FinishEffect DEF WorkerWait, WorkerGoto, controlVars
<1>2. CASE WorkerWoken
  BY <1>2, WorkerWokenStep, CompletionEvents DEF Fails, Keeps
<1>3. CASE WorkerServe
  BY <1>3, WorkerServeStep, BeginRunEffect, CompletionEvents DEF Answers, Completes, Fails,
                                                                 Keeps, KeepsSlots,
                                                                 failVars, Flags
<1>4. CASE WorkerBoot
  BY <1>4, WorkerBootStep DEF Settles, Keeps
<1>5. CASE WorkerEnter
  BY <1>5 DEF WorkerEnter, WorkerGoto, controlVars, Exchange, Starting
<1>6. CASE WorkerAnnounce
  BY <1>6 DEF WorkerAnnounce, WorkerGoto, controlVars
<1>7. CASE WorkerUnwind
  BY <1>7, WorkerUnwindStep DEF Settles, Keeps
<1>8. CASE WorkerSettle
  BY <1>8, WorkerSettleStep DEF Fails, Waiters, Completion, Keeps
<1>9. CASE WorkerNotify
  BY <1>9 DEF WorkerNotify, WorkerGoto, controlVars, failVars, Locals
<1>10. CASE WorkerRestart
  BY <1>10, BeginRunEffect, CompletionEvents DEF WorkerRestart, WorkerGoto, controlVars,
                                                 Locals
<1>11. CASE WorkerExit
  BY <1>11, WorkerExitStep DEF Settles, Keeps
<1> QED BY <1>1, <1>2, <1>3, <1>4, <1>5, <1>6, <1>7, <1>8, <1>9, <1>10, <1>11 DEF Worker

\* A capture is armed, finished and answered in the callback and in the pause.
LEMMA ExecutorCapturing ==
    ASSUME Typed, LiveFromEnter, OneCaller, Starting, Phases, Capturing, ExecutorEvent
    PROVE  Capturing'
<1> USE DEF Capturing, Expected, Inside, GuestPoints, CallbackPoints, ParkPoints
<1>1. CASE CallbackEntry
  BY <1>1, CallbackEntryStep DEF Keeps
<1>2. CASE CallbackPublish
  <2>1. req.continuing \in BOOLEAN /\ req.ready \in BOOLEAN /\ flag["stop"] \in BOOLEAN
    BY DEF Typed, RequestTypes, FailTypes, Flags
  <2>2. wpc = "publish" /\ (state = "RUNNING" \/ flag["stop"] \/ (state = "PAUSED" /\ req.continuing))
    BY <1>2, CallbackPublishStep DEF Phases
  <2>3. CASE /\ wpc' = IF flag["pause"] /\ ~flag["stop"] THEN "park" ELSE "quantum"
             /\ UNCHANGED <<state, flag, input>>
             /\ w'.suppress = (req.continuing /\ req.ready)
             /\ req'.continuing = (req.continuing /\ ~req.ready)
    <3>1. /\ req'.requested = req.requested /\ req'.armed = req.armed /\ req'.ready = req.ready
      BY <1>2, CallbackPublishStep
    <3> QED BY <2>1, <2>2, <2>3, <3>1
  <2>4. CASE /\ wpc' = "quantum" /\ state' = "ERROR" /\ flag'["stop"] /\ req' = req
    BY <2>2, <2>4
  <2> QED BY <1>2, <2>3, <2>4, CallbackPublishStep
<1>3. CASE CallbackPark
  BY <1>3 DEF CallbackPark, controlVars, Exchange
<1>4. CASE CallbackParkFact
  BY <1>4, CallbackParkFactStep DEF Fails, Keeps, Completion
<1>5. CASE CallbackParked
  BY <1>5 DEF CallbackParked, WorkerGoto, machineVars, failVars, controlVars
<1>6. CASE CallbackParkWait
  BY <1>6, CallbackParkWaitStep DEF Keeps
<1>7. CASE CallbackWoken
  BY <1>7, CallbackWokenStep, CompletionEvents DEF Fails, Keeps, failVars
<1>8. CASE CallbackParkServe
  BY <1>8, CallbackParkServeStep DEF Answers, Completes, Fails, Keeps, KeepsSlots, failVars,
                                     Flags, Completion
<1>9. CASE CallbackParkRead
  BY <1>9, CallbackParkReadStep DEF Completes, Fails, Keeps, failVars, Flags, Completion
<1>10. CASE CallbackUnpark
  BY <1>10 DEF CallbackUnpark, controlVars, Exchange, Phases
<1>11. CASE CallbackResumeFact
  BY <1>11 DEF CallbackResumeFact, WorkerGoto, controlVars
<1> QED BY <1>1, <1>2, <1>3, <1>4, <1>5, <1>6, <1>7, <1>8, <1>9, <1>10, <1>11 DEF ExecutorEvent

\* The run hook leaves the slots alone.
LEMMA DriverCapturing ==
    ASSUME Typed, LiveFromEnter, OneCaller, Starting, Phases, Capturing, Driver \/ DriverCheckpoint
    PROVE  Capturing'
<1> USE DEF Capturing, Expected, Inside, GuestPoints, CallbackPoints, ParkPoints
<1>1. CASE RunQuantum
  BY <1>1 DEF RunQuantum, WorkerGoto, controlVars
<1>2. CASE RunLoop
  BY <1>2 DEF RunLoop, WorkerGoto, machineVars, failVars, controlVars
<1>3. CASE DriverCheckpoint
  BY <1>3 DEF DriverCheckpoint, workerVars, controlVars
<1> QED BY <1>1, <1>2, <1>3 DEF Driver

\* No capture is there while the session loop is idle.
LEMMA UserCapturing ==
    ASSUME Typed, LiveFromEnter, OneCaller, Starting, Phases, Capturing, User \/ TakeFact
    PROVE  Capturing'
<1> USE DEF Capturing, Expected, Inside, GuestPoints, CallbackPoints, ParkPoints
<1>1. CASE \E o \in Lifecycle : Refuse(o)
  BY <1>1 DEF Refuse, Dispatch, failVars, workerVars
<1>2. CASE CallStart
  BY <1>2, BeginRunEffect DEF CallStart, Dispatch, workerVars, Accepted, OneCaller,
                              Outstanding
<1>3. CASE CallPause
  BY <1>3, CallPauseStep DEF Keeps, OneCaller, Outstanding
<1>4. CASE CallResume
  BY <1>4, CallResumeStep DEF Released, Keeps, Fails, OneCaller, Outstanding
<1>5. CASE CallStop
  BY <1>5, CallStopStep DEF Keeps
<1>6. CASE CallReset
  BY <1>6, CallResetStep, BeginRunEffect DEF Keeps, OneCaller, Outstanding
<1>7. CASE \E r \in Requests : CallRequest(r)
  BY <1>7 DEF CallRequest, failVars, workerVars
<1>8. CASE EnqueueInput
  BY <1>8 DEF EnqueueInput, ControlGoto, workerVars
<1>9. CASE DebugCancel
  BY <1>9, DebugCancelStep DEF Keeps, Fails
<1>10. CASE Quit
  BY <1>10, BeginStopStep DEF Quit, Keeps
<1>11. CASE TakeFact
  BY <1>11 DEF TakeFact, workerVars, failVars
<1> QED BY <1>1, <1>2, <1>3, <1>4, <1>5, <1>6, <1>7, <1>8, <1>9, <1>10, <1>11 DEF User

\* submit_request registers a capture that is not yet armed.
LEMMA ControlCapturing ==
    ASSUME Typed, LiveFromEnter, OneCaller, Starting, Phases, Capturing, ControlProgress
    PROVE  Capturing'
<1> USE DEF Capturing, Expected, Inside, GuestPoints, CallbackPoints, ParkPoints
<1>1. CASE ResetStop
  BY <1>1, ResetStopStep DEF Keeps
<1>2. CASE StopPause
  BY <1>2, StopPauseStep DEF Released, Keeps, Fails, OneCaller, Outstanding
<1>3. CASE StopDriver
  BY <1>3 DEF StopDriver, ControlGoto, workerVars
<1>4. CASE Submit
  BY <1>4, SubmitStep, CompletionEvents DEF KeepsSlots, Admitted, workerVars
<1>5. CASE Await
  BY <1>5, AwaitStep DEF Keeps, Fails, failVars
<1>6. CASE Join
  BY <1>6 DEF Join, ControlGoto, machineVars, failVars, workerVars
<1>7. CASE Exit
  BY <1>7, BeginStopStep DEF Exit, Keeps
<1>8. CASE Terminate
  BY <1>8, TerminateStep DEF Keeps, OneCaller, Outstanding
<1>9. CASE TerminateJoin
  BY <1>9 DEF TerminateJoin, ControlGoto, machineVars, failVars, workerVars
<1> QED BY <1>1, <1>2, <1>3, <1>4, <1>5, <1>6, <1>7, <1>8, <1>9 DEF ControlProgress
-----------------------------------------------------------------------------
\* What the worker still has to look at has its event signaled, or the worker is
\* cancelled, or it is about to look.
Wakes ==
    /\ flag["terminate"] => cancelled \/ wpc = "done" \/ Exiting
    /\ \/ wpc \in {"wait", "woken", "restart"} \/ (wpc = "notify" /\ w.why \notin {"wait", "exit"})
       => (flag["start"] \/ req.requested # {} => "command" \in signaled \/ cancelled)
    /\ wpc \in {"wait", "woken", "serve"} /\ req.waiting => flag["start"]
    /\ wpc \in {"notify", "restart", "done"} \cup ParkPoints => ~req.waiting
    /\ wpc \in Inside /\ req.requested # {} =>
         \/ "command" \in signaled \/ cancelled
         \/ wpc = "park_serve"
         \/ wpc = "park_read" /\ req.requested = {"state_read"}
         \/ req.continuing \/ req.ready
    /\ wpc = "park_wait" => \/ flag["pause"] /\ ~flag["stop"]
                            \/ "resume" \in signaled \/ cancelled \/ cpc = "stop_pause"

\* The command event is reset before the requests are looked at.
LEMMA WorkerWakes ==
    ASSUME Typed, LiveFromEnter, OneCaller, Starting, Phases, Capturing, Wakes, Worker
    PROVE  Wakes'
<1> USE DEF Wakes, Exiting, Inside, GuestPoints, CallbackPoints, ParkPoints
<1>1. CASE WorkerWait
  BY <1>1, FinishEffect DEF WorkerWait, WorkerGoto, controlVars
<1>2. CASE WorkerWoken
  BY <1>2, WorkerWokenStep, CompletionEvents DEF Fails, Keeps
<1>3. CASE WorkerServe
  BY <1>3, WorkerServeStep, BeginRunEffect, CompletionEvents DEF Answers, Completes, Fails,
                                                                 Keeps, KeepsSlots,
                                                                 failVars, Flags, OneCaller,
                                                                 Outstanding, Starting,
                                                                 Outside, Typed,
                                                                 RequestTypes, Requests
<1>4. CASE WorkerBoot
  BY <1>4, WorkerBootStep DEF Settles, Keeps
<1>5. CASE WorkerEnter
  BY <1>5 DEF WorkerEnter, WorkerGoto, controlVars, Exchange, Starting, Outside
<1>6. CASE WorkerAnnounce
  BY <1>6 DEF WorkerAnnounce, WorkerGoto, controlVars
<1>7. CASE WorkerUnwind
  BY <1>7, WorkerUnwindStep DEF Settles, Keeps
<1>8. CASE WorkerSettle
  BY <1>8, WorkerSettleStep DEF Fails, Waiters, Completion, Keeps, Starting, Outside
<1>9. CASE WorkerNotify
  BY <1>9 DEF WorkerNotify, WorkerGoto, controlVars, failVars, Locals
<1>10. CASE WorkerRestart
  BY <1>10, BeginRunEffect, CompletionEvents DEF WorkerRestart, WorkerGoto, controlVars,
                                                 Locals
<1>11. CASE WorkerExit
  BY <1>11, WorkerExitStep DEF Settles, Keeps
<1> QED BY <1>1, <1>2, <1>3, <1>4, <1>5, <1>6, <1>7, <1>8, <1>9, <1>10, <1>11 DEF Worker

\* So it is in the pause; a request that is not served leaves the event signaled.
LEMMA ExecutorWakes ==
    ASSUME Typed, LiveFromEnter, OneCaller, Starting, Phases, Capturing, Wakes, ExecutorEvent
    PROVE  Wakes'
<1> USE DEF Wakes, Exiting, Inside, GuestPoints, CallbackPoints, ParkPoints
<1>1. CASE CallbackEntry
  BY <1>1, CallbackEntryStep DEF Keeps
<1>2. CASE CallbackPublish
  BY <1>2, CallbackPublishStep DEF Keeps
<1>3. CASE CallbackPark
  BY <1>3 DEF CallbackPark, controlVars, Exchange
<1>4. CASE CallbackParkFact
  BY <1>4, CallbackParkFactStep DEF Fails, Keeps, Completion, OneCaller, Outstanding,
                                    Capturing
<1>5. CASE CallbackParked
  BY <1>5 DEF CallbackParked, WorkerGoto, machineVars, failVars, controlVars
<1>6. CASE CallbackParkWait
  BY <1>6, CallbackParkWaitStep DEF Keeps
<1>7. CASE CallbackWoken
  BY <1>7, CallbackWokenStep, CompletionEvents DEF Fails, Keeps, failVars
<1>8. CASE CallbackParkServe
  <2>1. /\ wpc = "park_serve" /\ wpc' = "park_read" /\ cpc' = cpc
        /\ flag["terminate"] => cancelled
        /\ ~req.waiting /\ "state_write" \notin req.requested
        /\ req.requested # {} => req.requested = {op}
    BY <1>8, CallbackParkServeStep DEF Starting, OneCaller, Outstanding
  <2>2. CASE Answers("media") \/ Answers("debug")
    <3>1. req'.requested = {} /\ req'.waiting = req.waiting
      BY <2>1, <2>2 DEF Answers, KeepsSlots
    <3>2. flag'["terminate"] => cancelled'
      BY <2>1, <2>2 DEF Answers, Completes, Fails, failVars
    <3> QED BY <2>1, <3>1, <3>2
  <2>3. CASE /\ flag["terminate"] \/ ("media" \notin req.requested /\ "debug" \notin req.requested)
             /\ UNCHANGED <<state, input, signaled, cancelled, faults>>
             /\ req'.requested = req.requested /\ req'.waiting = req.waiting
             /\ Keeps({"stop", "start", "reset", "terminate"})
    <3>1. flag'["terminate"] = flag["terminate"]
      BY <2>3 DEF Keeps
    <3>2. req.requested \subseteq Requests
      BY DEF Typed, RequestTypes
    <3>3. req.requested # {} => cancelled \/ req.requested = {"state_read"}
      BY <2>1, <2>3, <3>2 DEF Requests
    <3> QED BY <2>1, <2>3, <3>1, <3>3
  <2> QED BY <1>8, <2>2, <2>3, CallbackParkServeStep
<1>9. CASE CallbackParkRead
  BY <1>9, CallbackParkReadStep DEF Completes, Fails, Keeps, failVars, Flags, Completion,
                                    OneCaller, Outstanding, Capturing
<1>10. CASE CallbackUnpark
  BY <1>10 DEF CallbackUnpark, controlVars, Exchange
<1>11. CASE CallbackResumeFact
  BY <1>11 DEF CallbackResumeFact, WorkerGoto, controlVars
<1> QED BY <1>1, <1>2, <1>3, <1>4, <1>5, <1>6, <1>7, <1>8, <1>9, <1>10, <1>11 DEF ExecutorEvent

\* The run hook resets no event.
LEMMA DriverWakes ==
    ASSUME Typed, LiveFromEnter, OneCaller, Starting, Phases, Capturing, Wakes, Driver \/ DriverCheckpoint
    PROVE  Wakes'
<1> USE DEF Wakes, Exiting, Inside, GuestPoints, CallbackPoints, ParkPoints
<1>1. CASE RunQuantum
  BY <1>1 DEF RunQuantum, WorkerGoto, controlVars
<1>2. CASE RunLoop
  BY <1>2 DEF RunLoop, WorkerGoto, machineVars, failVars, controlVars
<1>3. CASE DriverCheckpoint
  BY <1>3 DEF DriverCheckpoint, workerVars, controlVars
<1> QED BY <1>1, <1>2, <1>3 DEF Driver

\* A start and a reset signal the worker, or fail and cancel it.
LEMMA UserWakes ==
    ASSUME Typed, LiveFromEnter, OneCaller, Starting, Phases, Capturing, Wakes, User \/ TakeFact
    PROVE  Wakes'
<1> USE DEF Wakes, Exiting, Inside, GuestPoints, CallbackPoints, ParkPoints
<1>1. CASE \E o \in Lifecycle : Refuse(o)
  BY <1>1 DEF Refuse, Dispatch, failVars, workerVars
<1>2. CASE CallStart
  BY <1>2, BeginRunEffect DEF CallStart, Dispatch, workerVars, Accepted, OneCaller,
                              Outstanding, LiveFromEnter, OuterPoints
<1>3. CASE CallPause
  BY <1>3, CallPauseStep DEF Keeps
<1>4. CASE CallResume
  BY <1>4, CallResumeStep DEF Released, Keeps, Fails
<1>5. CASE CallStop
  BY <1>5, CallStopStep DEF Keeps
<1>6. CASE CallReset
  BY <1>6, CallResetStep, BeginRunEffect DEF Keeps, OneCaller, Outstanding, LiveFromEnter,
                                             OuterPoints
<1>7. CASE \E r \in Requests : CallRequest(r)
  BY <1>7 DEF CallRequest, failVars, workerVars
<1>8. CASE EnqueueInput
  BY <1>8 DEF EnqueueInput, ControlGoto, workerVars
<1>9. CASE DebugCancel
  BY <1>9, DebugCancelStep DEF Keeps, Fails
<1>10. CASE Quit
  BY <1>10, BeginStopStep DEF Quit, Keeps
<1>11. CASE TakeFact
  BY <1>11 DEF TakeFact, workerVars, failVars
<1> QED BY <1>1, <1>2, <1>3, <1>4, <1>5, <1>6, <1>7, <1>8, <1>9, <1>10, <1>11 DEF User

\* submit_request signals with the registration; stop_pause signals the resume.
LEMMA ControlWakes ==
    ASSUME Typed, LiveFromEnter, OneCaller, Starting, Phases, Capturing, Wakes, ControlProgress
    PROVE  Wakes'
<1> USE DEF Wakes, Exiting, Inside, GuestPoints, CallbackPoints, ParkPoints
<1>1. CASE ResetStop
  BY <1>1, ResetStopStep DEF Keeps
<1>2. CASE StopPause
  BY <1>2, StopPauseStep DEF Released, Keeps, Fails
<1>3. CASE StopDriver
  BY <1>3 DEF StopDriver, ControlGoto, workerVars
<1>4. CASE Submit
  BY <1>4, SubmitStep, CompletionEvents DEF KeepsSlots, Admitted, workerVars
<1>5. CASE Await
  BY <1>5, AwaitStep DEF Keeps, Fails, failVars
<1>6. CASE Join
  BY <1>6 DEF Join, ControlGoto, machineVars, failVars, workerVars
<1>7. CASE Exit
  BY <1>7, BeginStopStep DEF Exit, Keeps
<1>8. CASE Terminate
  BY <1>8, TerminateStep DEF Keeps
<1>9. CASE TerminateJoin
  BY <1>9 DEF TerminateJoin, ControlGoto, machineVars, failVars, workerVars
<1> QED BY <1>1, <1>2, <1>3, <1>4, <1>5, <1>6, <1>7, <1>8, <1>9 DEF ControlProgress
-----------------------------------------------------------------------------
\* What the session shows once it has taken the facts fs in run g, when it shows
\* m now: the last fact of that run, or m.
Facts == Seq([kind : FactKinds, run : Nat])
ShownBy(kind) == IF kind = "RESET_COMPLETED" THEN "PAUSED" ELSE kind
Shown(s, fs, m, g) ==
    \/ m = s /\ \A i \in 1..Len(fs) : fs[i].run \notin {0, g}
    \/ \E i \in 1..Len(fs) :
          /\ fs[i].run \in {0, g} /\ ShownBy(fs[i].kind) = s
          /\ \A j \in 1..Len(fs) : j > i => fs[j].run \notin {0, g}

\* Outside a run, in a pause and in a capture that left it, the session has the
\* state or the fact that says it is on its way.
WillShow(s) == Shown(s, facts, monitor, run_generation)

Reported == ~cancelled =>
    /\ wpc \in {"wait", "woken", "serve"} /\ ~flag["start"] => WillShow(state)
    /\ wpc = "notify" /\ ~flag["start"] =>
          /\ w.why = "boot" => state = "ERROR"
          /\ w.why = "stopped" => state \in {"STOPPED", "ERROR"}
          /\ w.why = "unwind" => state = w.terminal
    /\ wpc = "settle" /\ w.why = "boot" => w.terminal = "ERROR"
    /\ wpc = "settle" /\ w.why = "stopped" => w.terminal \in {"STOPPED", "ERROR"}
    /\ wpc \in ParkPoints => WillShow("PAUSED")
    /\ wpc \in {"unpark", "callback", "publish", "quantum", "loop", "park"} /\ req.continuing
          => WillShow("PAUSED")
    /\ wpc \in {"park", "park_fact"} /\ w.suppress => WillShow("PAUSED")

\* A notified fact is the last of the current run.
LEMMA NotifyShown ==
    ASSUME NEW fs \in Facts, NEW kind, NEW m, NEW g
    PROVE  Shown(ShownBy(kind), Append(fs, [kind |-> kind, run |-> g]), m, g)
<1> DEFINE gs == Append(fs, [kind |-> kind, run |-> g])
           n == Len(fs) + 1
<1>1. Len(gs) = n /\ gs[n] = [kind |-> kind, run |-> g] /\ n \in Nat \ {0}
  BY DEF Facts
<1>2. n \in 1..Len(gs) /\ \A j \in 1..Len(gs) : ~(j > n)
  BY <1>1
<1>3. gs[n].run \in {0, g} /\ ShownBy(gs[n].kind) = ShownBy(kind)
  BY <1>1
<1> HIDE DEF n, gs
<1>4. Shown(ShownBy(kind), gs, m, g)
  BY <1>2, <1>3 DEF Shown
<1> QED BY <1>4 DEF gs

\* Taking a fact shows what the queue already said would be shown.
LEMMA TakeShown ==
    ASSUME NEW fs \in Facts, fs # <<>>, NEW s, NEW m, NEW g, Shown(s, fs, m, g)
    PROVE  Shown(s, Tail(fs), IF Head(fs).run \in {0, g} THEN ShownBy(Head(fs).kind) ELSE m, g)
<1> DEFINE gs == Tail(fs)
           l == IF Head(fs).run \in {0, g} THEN ShownBy(Head(fs).kind) ELSE m
<1>1. /\ Len(fs) \in Nat \ {0} /\ Len(gs) = Len(fs) - 1
      /\ \A i \in 1..Len(gs) : gs[i] = fs[i + 1]
      /\ Head(fs) = fs[1]
  BY DEF Facts
<1>2. l = IF fs[1].run \in {0, g} THEN ShownBy(fs[1].kind) ELSE m
  BY <1>1
<1> HIDE DEF gs, l
<1>3. CASE m = s /\ \A i \in 1..Len(fs) : fs[i].run \notin {0, g}
  <2>1. \A i \in 1..Len(gs) : gs[i].run \notin {0, g}
    BY <1>1, <1>3
  <2>2. l = s
    BY <1>1, <1>2, <1>3
  <2>3. Shown(s, gs, l, g)
    BY <2>1, <2>2 DEF Shown
  <2> QED BY <2>3 DEF gs, l
<1>4. ASSUME NEW i \in 1..Len(fs), fs[i].run \in {0, g}, ShownBy(fs[i].kind) = s,
             \A j \in 1..Len(fs) : j > i => fs[j].run \notin {0, g}
      PROVE  Shown(s, gs, l, g)
  <2>1. CASE i = 1
    <3>1. \A j \in 1..Len(gs) : gs[j].run \notin {0, g}
      BY <1>1, <1>4, <2>1
    <3>2. l = s
      BY <1>2, <1>4, <2>1
    <3> QED BY <3>1, <3>2 DEF Shown
  <2>2. CASE i # 1
    <3> DEFINE k == i - 1
    <3>1. k \in 1..Len(gs) /\ k + 1 = i
      BY <1>1, <2>2
    <3>2. gs[k] = fs[i] /\ \A j \in 1..Len(gs) : j > k => gs[j].run \notin {0, g}
      BY <1>1, <1>4, <3>1
    <3> HIDE DEF k
    <3> QED BY <1>4, <3>1, <3>2 DEF Shown
  <2> QED BY <2>1, <2>2
<1> QED BY <1>3, <1>4 DEF Shown, gs, l

\* Only the taking of a fact changes what the session shows.
LEMMA MonitorKept ==
    ASSUME Worker \/ ExecutorEvent \/ Driver \/ DriverCheckpoint \/ User \/ ControlProgress
    PROVE  monitor' = monitor
<1>1. CASE Worker \/ ExecutorEvent \/ Driver \/ DriverCheckpoint
  BY <1>1, WorkerKeepsControl DEF WorkerThread, controlVars, sessionVars
<1>2. CASE User
  BY <1>2 DEF User, Refuse, CallStart, CallPause, CallResume, CallStop, CallReset,
              CallRequest, EnqueueInput, DebugCancel, Quit, Dispatch, ControlGoto, BeginStop,
              sessionVars
<1>3. CASE ControlProgress
  BY <1>3 DEF ControlProgress, ResetStop, StopPause, StopDriver, Submit, Await, Join, Exit,
              Terminate, TerminateJoin, ControlGoto, BeginStop, sessionVars
<1> QED BY <1>1, <1>2, <1>3

\* The worker reports the end of every run it does not restart.
LEMMA WorkerReported ==
    ASSUME Typed, LiveFromEnter, OneCaller, Starting, Phases, Capturing, Reported, Worker
    PROVE  Reported'
<1> USE DEF Reported, WillShow, ParkPoints, runVars
<1>m. monitor' = monitor
  BY MonitorKept
<1>1. CASE WorkerWait
  BY <1>1, FinishEffect, <1>m DEF WorkerWait, WorkerGoto, controlVars
<1>2. CASE WorkerWoken
  BY <1>2, WorkerWokenStep, CompletionEvents, <1>m DEF Fails, Keeps
<1>3. CASE WorkerServe
  BY <1>3, WorkerServeStep, BeginRunEffect, CompletionEvents, <1>m DEF Answers, Completes,
                                                                       Fails, Keeps,
                                                                       KeepsSlots, failVars,
                                                                       Flags
<1>4. CASE WorkerBoot
  BY <1>4, WorkerBootStep, <1>m DEF Settles, Keeps
<1>5. CASE WorkerEnter
  BY <1>5, <1>m DEF WorkerEnter, WorkerGoto, controlVars, Exchange
<1>6. CASE WorkerAnnounce
  BY <1>6, <1>m DEF WorkerAnnounce, WorkerGoto, controlVars, Capturing
<1>7. CASE WorkerUnwind
  BY <1>7, WorkerUnwindStep, <1>m DEF Settles, Keeps
<1>8. CASE WorkerSettle
  BY <1>8, WorkerSettleStep, <1>m DEF Fails, Waiters, Completion, Keeps
<1>9. CASE WorkerNotify
  <2>1. facts \in Facts
    BY DEF Typed, RequestTypes, Facts
  <2>2. /\ wpc = "notify" /\ UNCHANGED <<failVars, run_generation, req>>
        /\ wpc' = CASE w.why = "wait" -> "exit" [] w.why = "exit" -> "done" [] OTHER -> "wait"
        /\ IF TerminalFact = None THEN UNCHANGED facts ELSE Notify(TerminalFact)
    BY <1>9 DEF WorkerNotify, WorkerGoto
  <2>3. w.why \in {"boot", "stopped", "unwind", "wait", "exit"}
    BY <2>2 DEF Typed, WorkerTypes, Whys, None
  <2>4. CASE w.why \in {"wait", "exit"}
    BY <2>2, <2>4
  <2>5. CASE w.why \in {"boot", "stopped", "unwind"} /\ ~cancelled /\ ~flag["start"]
    <3>1. TerminalFact = state /\ state \in {"STOPPED", "ERROR"}
      BY <2>2, <2>5 DEF TerminalFact, Typed, WorkerTypes
    <3>2. Notify(state) /\ ShownBy(state) = state
      BY <2>2, <3>1 DEF ShownBy, None
    <3>3. WillShow(state)'
      BY <1>m, <2>1, <2>2, <3>2, NotifyShown DEF Notify, failVars
    <3> QED BY <2>2, <2>5, <3>3
  <2> QED BY <2>2, <2>3, <2>4, <2>5 DEF failVars
<1>10. CASE WorkerRestart
  BY <1>10, BeginRunEffect, CompletionEvents, <1>m DEF WorkerRestart, WorkerGoto,
                                                       controlVars, Locals
<1>11. CASE WorkerExit
  BY <1>11, WorkerExitStep, <1>m DEF Settles, Keeps
<1> QED BY <1>1, <1>2, <1>3, <1>4, <1>5, <1>6, <1>7, <1>8, <1>9, <1>10, <1>11 DEF Worker

\* Every pause is reported, except the return to a pause already reported.
LEMMA ExecutorReported ==
    ASSUME Typed, LiveFromEnter, OneCaller, Starting, Phases, Capturing, Reported, ExecutorEvent
    PROVE  Reported'
<1> USE DEF Reported, WillShow, ParkPoints, runVars
<1>m. monitor' = monitor
  BY MonitorKept
<1>1. CASE CallbackEntry
  BY <1>1, CallbackEntryStep, <1>m DEF Keeps
<1>2. CASE CallbackPublish
  BY <1>2, CallbackPublishStep, <1>m DEF Keeps
<1>3. CASE CallbackPark
  BY <1>3, <1>m DEF CallbackPark, controlVars, Exchange
<1>4. CASE CallbackParkFact
  <2>1. facts \in Facts
    BY DEF Typed, RequestTypes, Facts
  <2>2. /\ wpc' = "parked" /\ wpc = "park_fact" /\ monitor' = monitor /\ run_generation' = run_generation
        /\ cancelled' \/ cancelled' = cancelled
    BY <1>4, CallbackParkFactStep, <1>m DEF Fails
  <2>3. \/ Notify("RESET_COMPLETED") \/ Notify("PAUSED") \/ (w.suppress /\ facts' = facts)
    BY <1>4 DEF CallbackParkFact, ReportsPause
  <2>4. Notify("RESET_COMPLETED") \/ Notify("PAUSED") => WillShow("PAUSED")'
    BY <2>1, <2>2, NotifyShown DEF Notify, ShownBy
  <2> QED BY <2>2, <2>3, <2>4
<1>5. CASE CallbackParked
  BY <1>5, <1>m DEF CallbackParked, WorkerGoto, machineVars, failVars, controlVars
<1>6. CASE CallbackParkWait
  BY <1>6, CallbackParkWaitStep, <1>m DEF Keeps
<1>7. CASE CallbackWoken
  BY <1>7, CallbackWokenStep, CompletionEvents, <1>m DEF Fails, Keeps, failVars
<1>8. CASE CallbackParkServe
  BY <1>8, CallbackParkServeStep, <1>m DEF Answers, Completes, Fails, Keeps, KeepsSlots,
                                           failVars, Flags, Completion
<1>9. CASE CallbackParkRead
  BY <1>9, CallbackParkReadStep, <1>m DEF Completes, Fails, Keeps, failVars, Flags,
                                          Completion
<1>10. CASE CallbackUnpark
  BY <1>10, <1>m DEF CallbackUnpark, controlVars, Exchange
<1>11. CASE CallbackResumeFact
  BY <1>11, <1>m DEF CallbackResumeFact, WorkerGoto, controlVars, Capturing
<1> QED BY <1>1, <1>2, <1>3, <1>4, <1>5, <1>6, <1>7, <1>8, <1>9, <1>10, <1>11 DEF ExecutorEvent

\* The run hook reports nothing.
LEMMA DriverReported ==
    ASSUME Typed, LiveFromEnter, OneCaller, Starting, Phases, Capturing, Reported, Driver \/ DriverCheckpoint
    PROVE  Reported'
<1> USE DEF Reported, WillShow, ParkPoints, runVars
<1>m. monitor' = monitor
  BY MonitorKept
<1>1. CASE RunQuantum
  BY <1>1, <1>m DEF RunQuantum, WorkerGoto, controlVars
<1>2. CASE RunLoop
  BY <1>2, <1>m DEF RunLoop, WorkerGoto, machineVars, failVars, controlVars
<1>3. CASE DriverCheckpoint
  BY <1>3, <1>m DEF DriverCheckpoint, workerVars, controlVars
<1> QED BY <1>1, <1>2, <1>3 DEF Driver

\* A call that begins a run asks for its start at once.
LEMMA UserReported ==
    ASSUME Typed, LiveFromEnter, OneCaller, Starting, Phases, Capturing, Reported, User
    PROVE  Reported'
<1> USE DEF Reported, WillShow, ParkPoints, runVars
<1>m. monitor' = monitor
  BY MonitorKept
<1>1. CASE \E o \in Lifecycle : Refuse(o)
  BY <1>1, <1>m DEF Refuse, Dispatch, failVars, workerVars
<1>2. CASE CallStart
  BY <1>2, BeginRunEffect, <1>m DEF CallStart, Dispatch, workerVars, Accepted,
                                    LiveFromEnter, OuterPoints
<1>3. CASE CallPause
  BY <1>3, CallPauseStep, <1>m DEF Keeps
<1>4. CASE CallResume
  BY <1>4, CallResumeStep, <1>m DEF Released, Keeps, Fails
<1>5. CASE CallStop
  BY <1>5, CallStopStep, <1>m DEF Keeps
<1>6. CASE CallReset
  BY <1>6, CallResetStep, BeginRunEffect, <1>m DEF Keeps, LiveFromEnter, OuterPoints
<1>7. CASE \E r \in Requests : CallRequest(r)
  BY <1>7, <1>m DEF CallRequest, failVars, workerVars
<1>8. CASE EnqueueInput
  BY <1>8, <1>m DEF EnqueueInput, ControlGoto, workerVars
<1>9. CASE DebugCancel
  BY <1>9, DebugCancelStep, <1>m DEF Keeps, Fails
<1>10. CASE Quit
  BY <1>10, BeginStopStep, <1>m DEF Quit, Keeps
<1> QED BY <1>1, <1>2, <1>3, <1>4, <1>5, <1>6, <1>7, <1>8, <1>9, <1>10 DEF User

\* A call in progress reports nothing and begins nothing.
LEMMA ControlReported ==
    ASSUME Typed, LiveFromEnter, OneCaller, Starting, Phases, Capturing, Reported, ControlProgress
    PROVE  Reported'
<1> USE DEF Reported, WillShow, ParkPoints, runVars
<1>m. monitor' = monitor
  BY MonitorKept
<1>1. CASE ResetStop
  BY <1>1, ResetStopStep, <1>m DEF Keeps
<1>2. CASE StopPause
  BY <1>2, StopPauseStep, <1>m DEF Released, Keeps, Fails
<1>3. CASE StopDriver
  BY <1>3, <1>m DEF StopDriver, ControlGoto, workerVars
<1>4. CASE Submit
  BY <1>4, SubmitStep, CompletionEvents, <1>m DEF KeepsSlots, Admitted, workerVars
<1>5. CASE Await
  BY <1>5, AwaitStep, <1>m DEF Keeps, Fails, failVars
<1>6. CASE Join
  BY <1>6, <1>m DEF Join, ControlGoto, machineVars, failVars, workerVars
<1>7. CASE Exit
  BY <1>7, BeginStopStep, <1>m DEF Exit, Keeps
<1>8. CASE Terminate
  BY <1>8, TerminateStep, <1>m DEF Keeps
<1>9. CASE TerminateJoin
  BY <1>9, <1>m DEF TerminateJoin, ControlGoto, machineVars, failVars, workerVars
<1> QED BY <1>1, <1>2, <1>3, <1>4, <1>5, <1>6, <1>7, <1>8, <1>9 DEF ControlProgress
\* Taking a fact brings the session to what it was going to show.
LEMMA TakeFactReported ==
    ASSUME Typed, Reported, TakeFact
    PROVE  Reported'
<1> USE DEF Reported, WillShow, ParkPoints, runVars
  <1>1. facts \in Facts /\ facts # <<>> /\ facts' = Tail(facts)
  BY DEF Typed, RequestTypes, Facts, TakeFact
<1>2. run_generation' = run_generation /\ UNCHANGED <<wpc, w, failVars, req>>
  BY DEF TakeFact, workerVars
<1>3. monitor' = IF Head(facts).run \in {0, run_generation}
                 THEN ShownBy(Head(facts).kind) ELSE monitor
  BY DEF TakeFact, ShownBy
<1>4. \A s : WillShow(s) => Shown(s, facts', monitor', run_generation')
  BY <1>1, <1>2, <1>3, TakeShown
<1> QED BY <1>2, <1>4 DEF failVars

-----------------------------------------------------------------------------
\* As long as no native call has failed the state is exactly what the worker's
\* point stands for, input is closed on every way out of RUNNING, and a debug
\* answer keeps the pause it was given in.
Faultless == faults = 0 =>
    /\ cancelled => cpc \in {"terminate_join", "ended"}
    /\ wpc \in {"park_wait", "command_woken", "park_serve"} /\ flag["stop"] =>
          ~flag["pause"] \/ cpc = "stop_pause"
    /\ cpc = "await" /\ op = "debug" /\ req.debugged =>
          wpc \in ParkPoints /\ state = "PAUSED" /\ flag["pause"] /\ ~flag["stop"]
    /\ wpc \in {"announce", "resume_fact"} => state = "RUNNING"
    /\ wpc \in {"park_fact", "unpark"} \cup ParkPoints => state = "PAUSED"
    /\ wpc = "settle" => ~input.accepting
    /\ InputOnlyWhileRunning
    /\ wpc = "settle" /\ state = "ERROR" => w.terminal = "ERROR"
    /\ wpc = "restart" => state = "STARTING"
    /\ "state_write" \in req.requested => state = "STOPPED"

\* Without failures the worker finds the state as it left it.
LEMMA WorkerFaultless ==
    ASSUME Typed, LiveFromEnter, OneCaller, Starting, Phases, Capturing, Faultless, Worker
    PROVE  Faultless'
<1> USE DEF Faultless, InputOnlyWhileRunning, ParkPoints
<1>1. CASE WorkerWait
  BY <1>1, FinishEffect, FaultCounts DEF WorkerWait, WorkerGoto, controlVars
<1>2. CASE WorkerWoken
  BY <1>2, WorkerWokenStep, CompletionEvents, FaultCounts DEF Fails, Keeps
<1>3. CASE WorkerServe
  BY <1>3, WorkerServeStep, BeginRunEffect, CompletionEvents, FaultCounts DEF Answers,
                                                                              Completes,
                                                                              Fails, Keeps,
                                                                              KeepsSlots,
                                                                              failVars,
                                                                              Flags,
                                                                              OneCaller,
                                                                              Outstanding,
                                                                              Starting,
                                                                              Outside,
                                                                              DebugAllowed
<1>4. CASE WorkerBoot
  BY <1>4, WorkerBootStep DEF Settles, Keeps
<1>5. CASE WorkerEnter
  BY <1>5 DEF WorkerEnter, WorkerGoto, controlVars, Exchange
<1>6. CASE WorkerAnnounce
  BY <1>6 DEF WorkerAnnounce, WorkerGoto, controlVars
<1>7. CASE WorkerUnwind
  BY <1>7, WorkerUnwindStep DEF Settles, Keeps
<1>8. CASE WorkerSettle
  BY <1>8, WorkerSettleStep, FaultCounts DEF Fails, Waiters, Completion, Keeps, Starting,
                                             Outside
<1>9. CASE WorkerNotify
  BY <1>9 DEF WorkerNotify, WorkerGoto, controlVars, failVars, Locals
<1>10. CASE WorkerRestart
  BY <1>10, BeginRunEffect, CompletionEvents, FaultCounts DEF WorkerRestart, WorkerGoto,
                                                              controlVars, Locals
<1>11. CASE WorkerExit
  BY <1>11, WorkerExitStep DEF Settles, Keeps
<1> QED BY <1>1, <1>2, <1>3, <1>4, <1>5, <1>6, <1>7, <1>8, <1>9, <1>10, <1>11 DEF Worker

\* In a pause nothing but a stop ends the pause.
LEMMA ExecutorFaultless ==
    ASSUME Typed, LiveFromEnter, OneCaller, Starting, Phases, Capturing, Faultless, ExecutorEvent
    PROVE  Faultless'
<1> USE DEF Faultless, InputOnlyWhileRunning, ParkPoints
<1>1. CASE CallbackEntry
  BY <1>1, CallbackEntryStep DEF Keeps
<1>2. CASE CallbackPublish
  BY <1>2, CallbackPublishStep DEF Keeps, Starting, Inside, GuestPoints, CallbackPoints
<1>3. CASE CallbackPark
  BY <1>3, CloseInputEffect DEF CallbackPark, controlVars, Exchange, Starting, Inside,
                                GuestPoints, CallbackPoints
<1>4. CASE CallbackParkFact
  BY <1>4, CallbackParkFactStep, FaultCounts DEF Fails, Keeps, Completion, Starting, Inside,
                                                 GuestPoints, CallbackPoints
<1>5. CASE CallbackParked
  BY <1>5 DEF CallbackParked, WorkerGoto, machineVars, failVars, controlVars
<1>6. CASE CallbackParkWait
  BY <1>6, CallbackParkWaitStep, FaultCounts DEF Keeps, Starting, Inside, GuestPoints,
                                                 CallbackPoints
<1>7. CASE CallbackWoken
  BY <1>7, CallbackWokenStep, CompletionEvents, FaultCounts DEF Fails, Keeps, failVars
<1>8. CASE CallbackParkServe
  BY <1>8, CallbackParkServeStep, FaultCounts DEF Answers, Completes, Fails, Keeps,
                                                  KeepsSlots, failVars, Flags, Completion,
                                                  Starting, Inside, GuestPoints,
                                                  CallbackPoints, OneCaller, Outstanding,
                                                  DebugAllowed
<1>9. CASE CallbackParkRead
  BY <1>9, CallbackParkReadStep, FaultCounts DEF Completes, Fails, Keeps, failVars, Flags,
                                                 Completion, Starting, Inside, GuestPoints,
                                                 CallbackPoints, OneCaller, Outstanding
<1>10. CASE CallbackUnpark
  BY <1>10 DEF CallbackUnpark, controlVars, Exchange, Starting, Inside, GuestPoints,
               CallbackPoints
<1>11. CASE CallbackResumeFact
  BY <1>11 DEF CallbackResumeFact, WorkerGoto, controlVars
<1> QED BY <1>1, <1>2, <1>3, <1>4, <1>5, <1>6, <1>7, <1>8, <1>9, <1>10, <1>11 DEF ExecutorEvent

\* The run hook leaves the state and the requests alone.
LEMMA DriverFaultless ==
    ASSUME Typed, LiveFromEnter, OneCaller, Starting, Phases, Capturing, Faultless, Driver \/ DriverCheckpoint
    PROVE  Faultless'
<1> USE DEF Faultless, InputOnlyWhileRunning, ParkPoints
<1>1. CASE RunQuantum
  BY <1>1 DEF RunQuantum, WorkerGoto, controlVars
<1>2. CASE RunLoop
  BY <1>2 DEF RunLoop, WorkerGoto, machineVars, failVars, controlVars
<1>3. CASE DriverCheckpoint
  BY <1>3 DEF DriverCheckpoint, workerVars, controlVars
<1> QED BY <1>1, <1>2, <1>3 DEF Driver

\* The session stops, resumes or resets only when no request is outstanding.
LEMMA UserFaultless ==
    ASSUME Typed, LiveFromEnter, OneCaller, Starting, Phases, Capturing, Faultless, User \/ TakeFact
    PROVE  Faultless'
<1> USE DEF Faultless, InputOnlyWhileRunning, ParkPoints
<1>1. CASE \E o \in Lifecycle : Refuse(o)
  BY <1>1 DEF Refuse, Dispatch, failVars, workerVars
<1>2. CASE CallStart
  BY <1>2, BeginRunEffect, FaultCounts DEF CallStart, Dispatch, workerVars, Accepted,
                                           OneCaller, Outstanding, LiveFromEnter,
                                           OuterPoints
<1>3. CASE CallPause
  BY <1>3, CallPauseStep DEF Keeps, Starting, Inside, GuestPoints, CallbackPoints,
                             OneCaller, Outstanding
<1>4. CASE CallResume
  BY <1>4, CallResumeStep, FaultCounts DEF Released, Keeps, Fails, Starting, Inside,
                                           GuestPoints, CallbackPoints, OneCaller,
                                           Outstanding
<1>5. CASE CallStop
  BY <1>5, CallStopStep DEF Keeps
<1>6. CASE CallReset
  BY <1>6, CallResetStep, BeginRunEffect, FaultCounts DEF Keeps, OneCaller, Outstanding,
                                                          LiveFromEnter, OuterPoints
<1>7. CASE \E r \in Requests : CallRequest(r)
  BY <1>7 DEF CallRequest, failVars, workerVars
<1>8. CASE EnqueueInput
  BY <1>8 DEF EnqueueInput, ControlGoto, workerVars
<1>9. CASE DebugCancel
  BY <1>9, DebugCancelStep, FaultCounts DEF Keeps, Fails
<1>10. CASE Quit
  BY <1>10, BeginStopStep DEF Quit, Keeps
<1>11. CASE TakeFact
  BY <1>11 DEF TakeFact, workerVars, failVars
<1> QED BY <1>1, <1>2, <1>3, <1>4, <1>5, <1>6, <1>7, <1>8, <1>9, <1>10, <1>11 DEF User

\* Only shutdown cancels the worker.
LEMMA ControlFaultless ==
    ASSUME Typed, LiveFromEnter, OneCaller, Starting, Phases, Capturing, Faultless, ControlProgress
    PROVE  Faultless'
<1> USE DEF Faultless, InputOnlyWhileRunning, ParkPoints
<1>1. CASE ResetStop
  BY <1>1, ResetStopStep DEF Keeps
<1>2. CASE StopPause
  BY <1>2, StopPauseStep, FaultCounts DEF Released, Keeps, Fails
<1>3. CASE StopDriver
  BY <1>3 DEF StopDriver, ControlGoto, workerVars
<1>4. CASE Submit
  BY <1>4, SubmitStep, CompletionEvents, FaultCounts DEF KeepsSlots, Admitted, workerVars,
                                                         Allowed, Requests
<1>5. CASE Await
  BY <1>5, AwaitStep, FaultCounts DEF Keeps, Fails, failVars
<1>6. CASE Join
  BY <1>6 DEF Join, ControlGoto, machineVars, failVars, workerVars
<1>7. CASE Exit
  BY <1>7, BeginStopStep DEF Exit, Keeps
<1>8. CASE Terminate
  BY <1>8, TerminateStep DEF Keeps
<1>9. CASE TerminateJoin
  BY <1>9 DEF TerminateJoin, ControlGoto, machineVars, failVars, workerVars
<1> QED BY <1>1, <1>2, <1>3, <1>4, <1>5, <1>6, <1>7, <1>8, <1>9 DEF ControlProgress
-----------------------------------------------------------------------------
\* A step keeps the queued events, begins a run, or is one of the two that
\* deliver and admit events.
KeepsInput ==
    \/ input'.events = input.events
    \/ run_generation' = run_generation + 1
    \/ CallbackEntry \/ EnqueueInput

\* A step leaves a machine in ERROR there, if nothing has failed natively before.
KeepsError == faults = 0 /\ state = "ERROR" => state' = "ERROR"

\* The worker touches the queued events only where a run begins.
LEMMA WorkerKeepsInput ==
    ASSUME Typed, Worker
    PROVE  KeepsInput
<1> USE DEF KeepsInput, runVars
<1>1. CASE WorkerWait
  BY <1>1, FinishEffect DEF WorkerWait, WorkerGoto, controlVars
<1>2. CASE WorkerWoken
  BY <1>2, WorkerWokenStep, CompletionEvents DEF Fails, Keeps
<1>3. CASE WorkerServe
  BY <1>3, WorkerServeStep, BeginRunEffect, CompletionEvents DEF Answers, Completes, Fails,
                                                                 Keeps, KeepsSlots,
                                                                 failVars, Flags
<1>4. CASE WorkerBoot
  BY <1>4, WorkerBootStep DEF Settles, Keeps
<1>5. CASE WorkerEnter
  BY <1>5 DEF WorkerEnter, WorkerGoto, controlVars, Exchange
<1>6. CASE WorkerAnnounce
  BY <1>6 DEF WorkerAnnounce, WorkerGoto, controlVars
<1>7. CASE WorkerUnwind
  BY <1>7, WorkerUnwindStep DEF Settles, Keeps
<1>8. CASE WorkerSettle
  BY <1>8, WorkerSettleStep DEF Fails, Waiters, Completion, Keeps
<1>9. CASE WorkerNotify
  BY <1>9 DEF WorkerNotify, WorkerGoto, controlVars, failVars, Locals
<1>10. CASE WorkerRestart
  BY <1>10, BeginRunEffect, CompletionEvents DEF WorkerRestart, WorkerGoto, controlVars,
                                                 Locals
<1>11. CASE WorkerExit
  BY <1>11, WorkerExitStep DEF Settles, Keeps
<1> QED BY <1>1, <1>2, <1>3, <1>4, <1>5, <1>6, <1>7, <1>8, <1>9, <1>10, <1>11 DEF Worker

\* The callback delivers events only at its entry.
LEMMA ExecutorKeepsInput ==
    ASSUME Typed, ExecutorEvent
    PROVE  KeepsInput
<1> USE DEF KeepsInput, runVars
<1>1. CASE CallbackEntry
  BY <1>1 DEF KeepsInput
<1>2. CASE CallbackPublish
  BY <1>2, CallbackPublishStep DEF Keeps
<1>3. CASE CallbackPark
  BY <1>3, CloseInputEffect DEF CallbackPark, controlVars, Exchange
<1>4. CASE CallbackParkFact
  BY <1>4, CallbackParkFactStep DEF Fails, Keeps, Completion
<1>5. CASE CallbackParked
  BY <1>5 DEF CallbackParked, WorkerGoto, machineVars, failVars, controlVars
<1>6. CASE CallbackParkWait
  BY <1>6, CallbackParkWaitStep DEF Keeps
<1>7. CASE CallbackWoken
  BY <1>7, CallbackWokenStep, CompletionEvents DEF Fails, Keeps, failVars
<1>8. CASE CallbackParkServe
  BY <1>8, CallbackParkServeStep DEF Answers, Completes, Fails, Keeps, KeepsSlots, failVars,
                                     Flags, Completion
<1>9. CASE CallbackParkRead
  BY <1>9, CallbackParkReadStep DEF Completes, Fails, Keeps, failVars, Flags, Completion
<1>10. CASE CallbackUnpark
  BY <1>10 DEF CallbackUnpark, controlVars, Exchange
<1>11. CASE CallbackResumeFact
  BY <1>11 DEF CallbackResumeFact, WorkerGoto, controlVars
<1> QED BY <1>1, <1>2, <1>3, <1>4, <1>5, <1>6, <1>7, <1>8, <1>9, <1>10, <1>11 DEF ExecutorEvent

\* The run hook delivers none.
LEMMA DriverKeepsInput ==
    ASSUME Typed, Driver \/ DriverCheckpoint
    PROVE  KeepsInput
<1> USE DEF KeepsInput, runVars
<1>1. CASE RunQuantum
  BY <1>1 DEF RunQuantum, WorkerGoto, controlVars
<1>2. CASE RunLoop
  BY <1>2 DEF RunLoop, WorkerGoto, machineVars, failVars, controlVars
<1>3. CASE DriverCheckpoint
  BY <1>3 DEF DriverCheckpoint, workerVars, controlVars
<1> QED BY <1>1, <1>2, <1>3 DEF Driver

\* The session adds events, or begins a run.
LEMMA UserKeepsInput ==
    ASSUME Typed, User \/ TakeFact
    PROVE  KeepsInput
<1> USE DEF KeepsInput, runVars
<1>1. CASE \E o \in Lifecycle : Refuse(o)
  BY <1>1 DEF Refuse, Dispatch, failVars, workerVars
<1>2. CASE CallStart
  BY <1>2, BeginRunEffect DEF CallStart, Dispatch, workerVars, Accepted
<1>3. CASE CallPause
  BY <1>3, CallPauseStep DEF Keeps
<1>4. CASE CallResume
  BY <1>4, CallResumeStep DEF Released, Keeps, Fails
<1>5. CASE CallStop
  BY <1>5, CallStopStep DEF Keeps
<1>6. CASE CallReset
  BY <1>6, CallResetStep, BeginRunEffect DEF Keeps
<1>7. CASE \E r \in Requests : CallRequest(r)
  BY <1>7 DEF CallRequest, failVars, workerVars
<1>8. CASE EnqueueInput
  BY <1>8 DEF KeepsInput
<1>9. CASE DebugCancel
  BY <1>9, DebugCancelStep DEF Keeps, Fails
<1>10. CASE Quit
  BY <1>10, BeginStopStep DEF Quit, Keeps
<1>11. CASE TakeFact
  BY <1>11 DEF TakeFact, workerVars, failVars
<1> QED BY <1>1, <1>2, <1>3, <1>4, <1>5, <1>6, <1>7, <1>8, <1>9, <1>10, <1>11 DEF User

\* A call in progress leaves the queue alone.
LEMMA ControlKeepsInput ==
    ASSUME Typed, ControlProgress
    PROVE  KeepsInput
<1> USE DEF KeepsInput, runVars
<1>1. CASE ResetStop
  BY <1>1, ResetStopStep DEF Keeps
<1>2. CASE StopPause
  BY <1>2, StopPauseStep DEF Released, Keeps, Fails
<1>3. CASE StopDriver
  BY <1>3 DEF StopDriver, ControlGoto, workerVars
<1>4. CASE Submit
  BY <1>4, SubmitStep, CompletionEvents DEF KeepsSlots, Admitted, workerVars
<1>5. CASE Await
  BY <1>5, AwaitStep DEF Keeps, Fails, failVars
<1>6. CASE Join
  BY <1>6 DEF Join, ControlGoto, machineVars, failVars, workerVars
<1>7. CASE Exit
  BY <1>7, BeginStopStep DEF Exit, Keeps
<1>8. CASE Terminate
  BY <1>8, TerminateStep DEF Keeps
<1>9. CASE TerminateJoin
  BY <1>9 DEF TerminateJoin, ControlGoto, machineVars, failVars, workerVars
<1> QED BY <1>1, <1>2, <1>3, <1>4, <1>5, <1>6, <1>7, <1>8, <1>9 DEF ControlProgress
\* The worker keeps an ERROR it settles on.
LEMMA WorkerKeepsError ==
    ASSUME Typed, Faultless, Worker
    PROVE  KeepsError
<1> USE DEF KeepsError
<1>1. CASE WorkerWait
  BY <1>1, FinishEffect DEF WorkerWait, WorkerGoto, controlVars
<1>2. CASE WorkerWoken
  BY <1>2, WorkerWokenStep, CompletionEvents DEF Fails, Keeps
<1>3. CASE WorkerServe
  BY <1>3, WorkerServeStep, BeginRunEffect, CompletionEvents DEF Answers, Completes, Fails,
                                                                 Keeps, KeepsSlots,
                                                                 failVars, Flags, Faultless
<1>4. CASE WorkerBoot
  BY <1>4, WorkerBootStep DEF Settles, Keeps
<1>5. CASE WorkerEnter
  BY <1>5 DEF WorkerEnter, WorkerGoto, controlVars, Exchange
<1>6. CASE WorkerAnnounce
  BY <1>6 DEF WorkerAnnounce, WorkerGoto, controlVars
<1>7. CASE WorkerUnwind
  BY <1>7, WorkerUnwindStep DEF Settles, Keeps
<1>8. CASE WorkerSettle
  BY <1>8, WorkerSettleStep DEF Fails, Waiters, Completion, Keeps, Faultless
<1>9. CASE WorkerNotify
  BY <1>9 DEF WorkerNotify, WorkerGoto, controlVars, failVars, Locals
<1>10. CASE WorkerRestart
  BY <1>10, BeginRunEffect, CompletionEvents DEF WorkerRestart, WorkerGoto, controlVars,
                                                 Locals, Faultless
<1>11. CASE WorkerExit
  BY <1>11, WorkerExitStep DEF Settles, Keeps
<1> QED BY <1>1, <1>2, <1>3, <1>4, <1>5, <1>6, <1>7, <1>8, <1>9, <1>10, <1>11 DEF Worker

\* The callback leaves an ERROR alone.
LEMMA ExecutorKeepsError ==
    ASSUME Typed, Faultless, ExecutorEvent
    PROVE  KeepsError
<1> USE DEF KeepsError
<1>1. CASE CallbackEntry
  BY <1>1, CallbackEntryStep DEF Keeps
<1>2. CASE CallbackPublish
  BY <1>2, CallbackPublishStep DEF Keeps
<1>3. CASE CallbackPark
  BY <1>3 DEF CallbackPark, controlVars, Exchange
<1>4. CASE CallbackParkFact
  BY <1>4, CallbackParkFactStep DEF Fails, Keeps, Completion
<1>5. CASE CallbackParked
  BY <1>5 DEF CallbackParked, WorkerGoto, machineVars, failVars, controlVars
<1>6. CASE CallbackParkWait
  BY <1>6, CallbackParkWaitStep DEF Keeps
<1>7. CASE CallbackWoken
  BY <1>7, CallbackWokenStep, CompletionEvents DEF Fails, Keeps, failVars
<1>8. CASE CallbackParkServe
  BY <1>8, CallbackParkServeStep DEF Answers, Completes, Fails, Keeps, KeepsSlots, failVars,
                                     Flags, Completion
<1>9. CASE CallbackParkRead
  BY <1>9, CallbackParkReadStep DEF Completes, Fails, Keeps, failVars, Flags, Completion
<1>10. CASE CallbackUnpark
  BY <1>10 DEF CallbackUnpark, controlVars, Exchange
<1>11. CASE CallbackResumeFact
  BY <1>11 DEF CallbackResumeFact, WorkerGoto, controlVars
<1> QED BY <1>1, <1>2, <1>3, <1>4, <1>5, <1>6, <1>7, <1>8, <1>9, <1>10, <1>11 DEF ExecutorEvent

\* So does the run hook.
LEMMA DriverKeepsError ==
    ASSUME Typed, Faultless, Driver \/ DriverCheckpoint
    PROVE  KeepsError
<1> USE DEF KeepsError
<1>1. CASE RunQuantum
  BY <1>1 DEF RunQuantum, WorkerGoto, controlVars
<1>2. CASE RunLoop
  BY <1>2 DEF RunLoop, WorkerGoto, machineVars, failVars, controlVars
<1>3. CASE DriverCheckpoint
  BY <1>3 DEF DriverCheckpoint, workerVars, controlVars
<1> QED BY <1>1, <1>2, <1>3 DEF Driver

\* A call that begins a run finds the machine STOPPED.
LEMMA UserKeepsError ==
    ASSUME Typed, Faultless, User \/ TakeFact
    PROVE  KeepsError
<1> USE DEF KeepsError
<1>1. CASE \E o \in Lifecycle : Refuse(o)
  BY <1>1 DEF Refuse, Dispatch, failVars, workerVars
<1>2. CASE CallStart
  BY <1>2, BeginRunEffect DEF CallStart, Dispatch, workerVars, Accepted
<1>3. CASE CallPause
  BY <1>3, CallPauseStep DEF Keeps
<1>4. CASE CallResume
  BY <1>4, CallResumeStep DEF Released, Keeps, Fails
<1>5. CASE CallStop
  BY <1>5, CallStopStep DEF Keeps
<1>6. CASE CallReset
  BY <1>6, CallResetStep, BeginRunEffect DEF Keeps
<1>7. CASE \E r \in Requests : CallRequest(r)
  BY <1>7 DEF CallRequest, failVars, workerVars
<1>8. CASE EnqueueInput
  BY <1>8 DEF EnqueueInput, ControlGoto, workerVars
<1>9. CASE DebugCancel
  BY <1>9, DebugCancelStep DEF Keeps, Fails
<1>10. CASE Quit
  BY <1>10, BeginStopStep DEF Quit, Keeps
<1>11. CASE TakeFact
  BY <1>11 DEF TakeFact, workerVars, failVars
<1> QED BY <1>1, <1>2, <1>3, <1>4, <1>5, <1>6, <1>7, <1>8, <1>9, <1>10, <1>11 DEF User

\* A call in progress only fails.
LEMMA ControlKeepsError ==
    ASSUME Typed, Faultless, ControlProgress
    PROVE  KeepsError
<1> USE DEF KeepsError
<1>1. CASE ResetStop
  BY <1>1, ResetStopStep DEF Keeps
<1>2. CASE StopPause
  BY <1>2, StopPauseStep DEF Released, Keeps, Fails
<1>3. CASE StopDriver
  BY <1>3 DEF StopDriver, ControlGoto, workerVars
<1>4. CASE Submit
  BY <1>4, SubmitStep, CompletionEvents DEF KeepsSlots, Admitted, workerVars
<1>5. CASE Await
  BY <1>5, AwaitStep DEF Keeps, Fails, failVars
<1>6. CASE Join
  BY <1>6 DEF Join, ControlGoto, machineVars, failVars, workerVars
<1>7. CASE Exit
  BY <1>7, BeginStopStep DEF Exit, Keeps
<1>8. CASE Terminate
  BY <1>8, TerminateStep DEF Keeps
<1>9. CASE TerminateJoin
  BY <1>9 DEF TerminateJoin, ControlGoto, machineVars, failVars, workerVars
<1> QED BY <1>1, <1>2, <1>3, <1>4, <1>5, <1>6, <1>7, <1>8, <1>9 DEF ControlProgress
-----------------------------------------------------------------------------
\* The inductive invariant.
Safe ==
    /\ OneCaller /\ Starting /\ Phases /\ Capturing
    /\ Wakes /\ Reported /\ Faultless

\* Every layer holds of the new machine.
LEMMA SafeInit == Init => Safe
<1> SUFFICES ASSUME Init PROVE Safe
  OBVIOUS
<1>1. /\ state = "STOPPED" /\ wpc = "wait" /\ cpc = "idle" /\ signaled = {} /\ ~cancelled
      /\ req.requested = {} /\ ~req.armed /\ ~req.ready /\ ~req.waiting /\ ~req.continuing
      /\ ~input.accepting /\ facts = <<>> /\ monitor = "STOPPED" /\ run_generation = 0
  BY DEF Init
<1>2. ~flag["start"] /\ ~flag["terminate"] /\ ~flag["stop"] /\ ~flag["pause"]
  BY DEF Init, Flags
<1>3. OneCaller /\ Starting
  BY <1>1, <1>2 DEF OneCaller, Outstanding, Exiting, Starting, Outside, Inside, GuestPoints,
                    CallbackPoints, ParkPoints
<1>4. Phases /\ Capturing /\ Wakes
  BY <1>1, <1>2 DEF Phases, Capturing, Wakes, Exiting, Inside, GuestPoints, CallbackPoints,
                    ParkPoints
<1>5. Reported
  <2>1. Shown("STOPPED", <<>>, "STOPPED", 0)
    BY DEF Shown
  <2> QED BY <1>1, <2>1 DEF Reported, WillShow, ParkPoints
<1>6. Faultless
  BY <1>1 DEF Faultless, InputOnlyWhileRunning, ParkPoints
<1> QED BY <1>3, <1>4, <1>5, <1>6 DEF Safe

\* Every action keeps every layer.
LEMMA SafeNext ==
    ASSUME Typed, LiveFromEnter, Safe, [Next]_vars
    PROVE  Safe'
<1>1. CASE Worker
  BY <1>1, WorkerOneCaller, WorkerStarting, WorkerPhases, WorkerCapturing, WorkerWakes,
     WorkerReported, WorkerFaultless DEF Safe
<1>2. CASE ExecutorEvent
  BY <1>2, ExecutorOneCaller, ExecutorStarting, ExecutorPhases, ExecutorCapturing,
     ExecutorWakes, ExecutorReported, ExecutorFaultless DEF Safe
<1>3. CASE Driver \/ DriverCheckpoint
  BY <1>3, DriverOneCaller, DriverStarting, DriverPhases, DriverCapturing, DriverWakes,
     DriverReported, DriverFaultless DEF Safe
<1>4. CASE User
  BY <1>4, UserOneCaller, UserStarting, UserPhases, UserCapturing, UserWakes, UserReported,
     UserFaultless DEF Safe
<1>5. CASE TakeFact
  BY <1>5, UserOneCaller, UserStarting, UserPhases, UserCapturing, UserWakes,
     TakeFactReported, UserFaultless DEF Safe
<1>6. CASE ControlProgress
  BY <1>6, ControlOneCaller, ControlStarting, ControlPhases, ControlCapturing, ControlWakes,
     ControlReported, ControlFaultless DEF Safe
<1>7. CASE UNCHANGED vars
  <2> USE <1>7 DEF vars, machineVars, failVars, runVars, workerVars, controlVars, sessionVars
  <2>1. OneCaller' /\ Starting'
    BY DEF Safe, OneCaller, Outstanding, Exiting, Starting
  <2>2. Phases' /\ Capturing' /\ Wakes'
    BY DEF Safe, Phases, Capturing, Expected, Wakes, Exiting
  <2>3. Reported' /\ Faultless'
    BY DEF Safe, Reported, WillShow, Faultless, InputOnlyWhileRunning
  <2> QED BY <2>1, <2>2, <2>3 DEF Safe
<1> QED BY <1>1, <1>2, <1>3, <1>4, <1>5, <1>6, <1>7 DEF Next, WorkerThread, Ended

\* So they hold of every behaviour of the machine.
LEMMA SafeInvariant == Spec => [](Typed /\ LiveFromEnter /\ Safe)
<1>1. Typed /\ LiveFromEnter /\ Safe /\ [Next]_vars => Safe'
  BY SafeNext
<1> QED BY <1>1, SafeInit, TypedInvariant, LiveFromEnterInvariant, PTL DEF Spec

-----------------------------------------------------------------------------
\* No wake is lost (NoLostCommand): while the worker sleeps in wait_any, outside
\* a run or in a pause, no start, request or released pause is left for it.
THEOREM WakesReachTheWorker == Spec => []NoLostCommand
<1>1. Typed /\ Safe => NoLostCommand
  <2> SUFFICES ASSUME Typed, Safe PROVE NoLostCommand
    OBVIOUS
  <2>1. BlockedIdle => ~flag["start"] /\ req.requested = {} /\ ~req.waiting
    BY DEF Safe, Wakes, BlockedIdle
  <2>2. BlockedParked => /\ req.requested = {} /\ ~req.waiting
                         /\ (flag["pause"] /\ ~flag["stop"]) \/ cpc = "stop_pause"
    BY DEF Safe, Wakes, Capturing, BlockedParked, Inside, ParkPoints
  <2> QED BY <2>1, <2>2 DEF NoLostCommand
<1> QED BY <1>1, SafeInvariant, PTL

\* A caller blocked in wait_request is answered (CallerIsAnswered): its request
\* is registered with a worker that has not exited, or the answer is signaled.
THEOREM CallersAreAnswered == Spec => []CallerIsAnswered
<1>1. Safe => CallerIsAnswered
  BY DEF Safe, OneCaller, Outstanding, CallerIsAnswered
<1> QED BY <1>1, SafeInvariant, PTL

\* The guest executes only in a RUNNING machine, for a capture that left the
\* pause, or to unwind for a stop (GuestRunsOnlyWhenAllowed).
THEOREM GuestIsAllowed == Spec => []GuestRunsOnlyWhenAllowed
<1>1. Safe => GuestRunsOnlyWhenAllowed
  BY DEF Safe, Phases, GuestRunsOnlyWhenAllowed
<1> QED BY <1>1, SafeInvariant, PTL

\* A capture that has its result is not overtaken by the guest (CaptureIsStable).
THEOREM CapturesAreStable == Spec => []CaptureIsStable
<1>1. Safe => CaptureIsStable
  BY DEF Safe, Capturing, CaptureIsStable
<1> QED BY <1>1, SafeInvariant, PTL

\* When machine and session are at rest the session shows the machine's state
\* (MonitorSettles), whatever failed on the way.
THEOREM MonitorAgrees == Spec => []MonitorSettles
<1>1. Typed /\ Safe /\ NoLostCommand => MonitorSettles
  <2> SUFFICES ASSUME Typed, Safe, NoLostCommand, cpc = "idle", facts = <<>>,
                      BlockedIdle \/ BlockedParked
               PROVE  monitor = state
    BY DEF MonitorSettles
  <2>1. ASSUME NEW s, WillShow(s) PROVE monitor = s
    BY <2>1 DEF WillShow, Shown
  <2>2. CASE BlockedIdle
    BY <2>1, <2>2 DEF Safe, Reported, NoLostCommand, BlockedIdle
  <2>3. CASE BlockedParked
    BY <2>1, <2>3 DEF Safe, Reported, Phases, NoLostCommand, BlockedParked, ParkPoints
  <2> QED BY <2>2, <2>3
<1> QED BY <1>1, SafeInvariant, WakesReachTheWorker, PTL

\* The callback delivers no input once a capture has its result.
LEMMA EntryFreezesInput ==
    ASSUME Typed, Capturing, CallbackEntry,
           req.ready \/ req'.ready \/ (req.armed /\ driver.capture = "ready")
    PROVE  input'.events = input.events
<1>1. /\ wpc = "callback"
      /\ flag["stop"] \/ flag'["pause"] => input'.events = input.events
      /\ \/ /\ "state_read" \in req.requested /\ ~flag["terminate"]
            /\ req.ready \/ (req.armed /\ driver.capture = "ready") => req'.ready
            /\ req'.ready => flag'["pause"]
         \/ /\ ~("state_read" \in req.requested /\ ~flag["terminate"])
            /\ req'.ready = req.ready
  BY CallbackEntryStep
<1> QED BY <1>1 DEF Capturing, Inside, CallbackPoints

\* No event is delivered to the devices after a capture's checkpoint
\* (CaptureFreezesInput): the queue shrinks only where a new run empties it.
THEOREM CapturesFreezeInput == Spec => CaptureFreezesInput
<1> DEFINE Finished == req.ready \/ req'.ready \/ (req.armed /\ driver.capture = "ready")
           Kept == Len(input'.events) >= Len(input.events) \/ run_generation' # run_generation
<1>1. ASSUME Typed, Safe, [Next]_vars, Finished
      PROVE  Kept
  <2>1. Len(input.events) \in Nat /\ input.events \in Seq(Nat) /\ run_generation \in Nat
    BY <1>1 DEF Typed, FailTypes, RunTypes
  <2>2. CASE input'.events = input.events
    BY <2>1, <2>2
  <2>3. CASE run_generation' = run_generation + 1
    BY <2>1, <2>3
  <2>4. CASE CallbackEntry
    BY <1>1, <2>2, <2>4, EntryFreezesInput DEF Safe
  <2>5. CASE EnqueueInput
    <3>1. input'.events = input.events \/ input'.events = Append(input.events, run_generation)
      BY <1>1, <2>5 DEF EnqueueInput, Typed, FailTypes
    <3> QED BY <2>1, <2>2, <3>1
  <2>6. CASE UNCHANGED vars
    BY <2>2, <2>6 DEF vars, machineVars, failVars
  <2>7. CASE Ended
    BY <2>6, <2>7 DEF Ended
  <2>8. Next => KeepsInput \/ Ended
    BY <1>1, WorkerKeepsInput, ExecutorKeepsInput, DriverKeepsInput, UserKeepsInput,
       ControlKeepsInput DEF Next, WorkerThread
  <2> QED BY <1>1, <2>2, <2>3, <2>4, <2>5, <2>6, <2>7, <2>8 DEF KeepsInput
<1>2. Typed /\ Safe /\ [Next]_vars => [Finished => Kept]_vars
  BY <1>1
<1> QED BY <1>2, SafeInvariant, PTL DEF Spec, CaptureFreezesInput

-----------------------------------------------------------------------------
\* Input is admitted only to a RUNNING machine (InputOnlyWhileRunning) as long as
\* no native call has failed; fail_sync of one thread can cross an admission of
\* the other.
THEOREM InputNeedsRunning == Spec => [](faults = 0 => InputOnlyWhileRunning)
<1>1. Safe => (faults = 0 => InputOnlyWhileRunning)
  BY DEF Safe, Faultless
<1> QED BY <1>1, SafeInvariant, PTL

\* A debug answer is read while the guest is still parked (DebugAnswerIsFresh),
\* as long as no native call has failed.
THEOREM DebugAnswersAreFresh == Spec => [](faults = 0 => DebugAnswerIsFresh)
<1>1. Safe => (faults = 0 => DebugAnswerIsFresh)
  BY DEF Safe, Faultless, DebugAnswerIsFresh
<1> QED BY <1>1, SafeInvariant, PTL

\* No step takes a machine out of ERROR before something has failed natively.
LEMMA ErrorIsKept == Spec => [][KeepsError]_vars
<1>1. ASSUME Typed, Safe, Next PROVE KeepsError
  <2>1. CASE Ended
    BY <2>1 DEF Ended, KeepsError, vars, machineVars, failVars
  <2> QED BY <1>1, <2>1, WorkerKeepsError, ExecutorKeepsError, DriverKeepsError,
             UserKeepsError, ControlKeepsError DEF Next, WorkerThread, Safe
<1>2. Typed /\ Safe /\ [Next]_vars => [KeepsError]_vars
  BY <1>1
<1> QED BY <1>2, SafeInvariant, PTL DEF Spec

\* A machine in ERROR stays there (ErrorIsTerminal), whatever publication, driver
\* or image failure brought it there, when the native calls do not fail.
THEOREM ErrorsAreTerminal == MaxFaults = 0 => (Spec => ErrorIsTerminal)
<1> SUFFICES ASSUME MaxFaults = 0 PROVE Spec => ErrorIsTerminal
  OBVIOUS
<1>1. Typed => faults = 0
  BY DEF Typed, FailTypes
<1>2. Typed /\ [KeepsError]_vars => [state = "ERROR" => state' = "ERROR"]_vars
  BY <1>1 DEF KeepsError
<1> QED BY <1>2, ErrorIsKept, SafeInvariant, PTL DEF ErrorIsTerminal
=============================================================================
