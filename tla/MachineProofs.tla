--------------------------- MODULE MachineProofs ---------------------------
(***************************************************************************)
(* What Machine guarantees for every number of runs, of queued events and  *)
(* of native failures, and for every kind of driver.                       *)
(***************************************************************************)
EXTENDS Machine, TLAPS

\* Once the worker has made STARTING to RUNNING it is on its way into the run
\* hook: the point "announce" is live although it is outside.
LiveFromEnter == state \in {"STOPPED", "STARTING"} => wpc \in OuterPoints \ {"announce"}

-----------------------------------------------------------------------------
\* The worker's own steps enter the run hook only with a live state, and leave
\* it before they store a stopped one.
LEMMA WorkerLive ==
    ASSUME LiveFromEnter, Worker
    PROVE  LiveFromEnter'
<1> USE DEF LiveFromEnter, OuterPoints, WorkerGoto, Finish
<1>1. CASE WorkerWait
  BY <1>1 DEF WorkerWait
<1>2. CASE WorkerWoken
  BY <1>2 DEF WorkerWoken, FailSync, FailSyncAfter
<1>3. CASE WorkerServe
  BY <1>3 DEF WorkerServe
<1>4. CASE WorkerBoot
  BY <1>4 DEF WorkerBoot
<1>5. CASE WorkerEnter
  BY <1>5 DEF WorkerEnter, Exchange
<1>6. CASE WorkerAnnounce
  BY <1>6 DEF WorkerAnnounce
<1>7. CASE WorkerUnwind
  BY <1>7 DEF WorkerUnwind
<1>8. CASE WorkerSettle
  BY <1>8 DEF WorkerSettle
<1>9. CASE WorkerNotify
  BY <1>9 DEF WorkerNotify
<1>10. CASE WorkerRestart
  BY <1>10 DEF WorkerRestart
<1>11. CASE WorkerExit
  BY <1>11 DEF WorkerExit
<1> QED BY <1>1, <1>2, <1>3, <1>4, <1>5, <1>6, <1>7, <1>8, <1>9, <1>10, <1>11 DEF Worker

\* The executor callback stores only PAUSED, RUNNING and ERROR.
LEMMA ExecutorLive ==
    ASSUME LiveFromEnter, ExecutorEvent
    PROVE  LiveFromEnter'
<1> USE DEF LiveFromEnter, OuterPoints, WorkerGoto
<1>1. CASE CallbackEntry
  BY <1>1 DEF CallbackEntry
<1>2. CASE CallbackPublish
  BY <1>2 DEF CallbackPublish
<1>3. CASE CallbackPark
  BY <1>3 DEF CallbackPark, Exchange
<1>4. CASE CallbackParkFact
  BY <1>4 DEF CallbackParkFact, FailSyncAfter
<1>5. CASE CallbackParked
  BY <1>5 DEF CallbackParked, machineVars, failVars
<1>6. CASE CallbackParkWait
  BY <1>6 DEF CallbackParkWait
<1>7. CASE CallbackWoken
  BY <1>7 DEF CallbackWoken, failVars, FailSync, FailSyncAfter
<1>8. CASE CallbackParkServe
  BY <1>8 DEF CallbackParkServe, ServiceMedia, ServiceDebug, Complete, failVars, FailSync,
              FailSyncAfter
<1>9. CASE CallbackParkRead
  BY <1>9 DEF CallbackParkRead, Complete, failVars, FailSync, FailSyncAfter
<1>10. CASE CallbackUnpark
  BY <1>10 DEF CallbackUnpark, Exchange
<1>11. CASE CallbackResumeFact
  BY <1>11 DEF CallbackResumeFact
<1> QED BY <1>1, <1>2, <1>3, <1>4, <1>5, <1>6, <1>7, <1>8, <1>9, <1>10, <1>11
        DEF ExecutorEvent

\* The driver's steps leave the state alone; the run hook returns inside.
LEMMA DriverLive ==
    ASSUME LiveFromEnter, Driver \/ DriverCheckpoint
    PROVE  LiveFromEnter'
<1> USE DEF LiveFromEnter, OuterPoints, WorkerGoto
<1>1. CASE RunQuantum
  BY <1>1 DEF RunQuantum
<1>2. CASE RunLoop
  BY <1>2 DEF RunLoop, machineVars, failVars
<1>3. CASE DriverCheckpoint
  BY <1>3 DEF DriverCheckpoint, workerVars
<1> QED BY <1>1, <1>2, <1>3 DEF Driver

\* The control thread begins a run only where the state is STOPPED.
LEMMA UserLive ==
    ASSUME LiveFromEnter, User \/ TakeFact
    PROVE  LiveFromEnter'
<1> USE DEF LiveFromEnter, Dispatch, Accepted, workerVars
<1>1. CASE \E o \in Lifecycle : Refuse(o)
  BY <1>1 DEF Refuse, failVars
<1>2. CASE CallStart
  BY <1>2 DEF CallStart
<1>3. CASE CallPause
  BY <1>3 DEF CallPause
<1>4. CASE CallResume
  BY <1>4 DEF CallResume, ReleasePause, FailSyncAfter
<1>5. CASE CallStop
  BY <1>5 DEF CallStop, failVars
<1>6. CASE CallReset
  BY <1>6 DEF CallReset
<1>7. CASE \E r \in Requests : CallRequest(r)
  BY <1>7 DEF CallRequest, failVars
<1>8. CASE EnqueueInput
  BY <1>8 DEF EnqueueInput, ControlGoto
<1>9. CASE DebugCancel
  BY <1>9 DEF DebugCancel, ControlGoto, FailSync, FailSyncAfter
<1>10. CASE Quit
  BY <1>10 DEF Quit, BeginStop
<1>11. CASE TakeFact
  BY <1>11 DEF TakeFact, failVars
<1> QED BY <1>1, <1>2, <1>3, <1>4, <1>5, <1>6, <1>7, <1>8, <1>9, <1>10, <1>11 DEF User

\* A call in progress changes the state only by failing.
LEMMA ControlLive ==
    ASSUME LiveFromEnter, ControlProgress
    PROVE  LiveFromEnter'
<1> USE DEF LiveFromEnter, ControlGoto, workerVars
<1>1. CASE ResetStop
  BY <1>1 DEF ResetStop
<1>2. CASE StopPause
  BY <1>2 DEF StopPause, ReleasePause, FailSyncAfter
<1>3. CASE StopDriver
  BY <1>3 DEF StopDriver
<1>4. CASE Submit
  BY <1>4 DEF Submit
<1>5. CASE Await
  BY <1>5 DEF Await, failVars, FailSync, FailSyncAfter
<1>6. CASE Join
  BY <1>6 DEF Join, machineVars, failVars
<1>7. CASE Exit
  BY <1>7 DEF Exit, BeginStop
<1>8. CASE Terminate
  BY <1>8 DEF Terminate
<1>9. CASE TerminateJoin
  BY <1>9 DEF TerminateJoin, machineVars, failVars
<1> QED BY <1>1, <1>2, <1>3, <1>4, <1>5, <1>6, <1>7, <1>8, <1>9 DEF ControlProgress

\* The strengthened invariant holds in every reachable state.
LEMMA LiveFromEnterInvariant == Spec => []LiveFromEnter
<1>1. Init => LiveFromEnter
  BY DEF Init, LiveFromEnter, OuterPoints
<1>2. LiveFromEnter /\ [Next]_vars => LiveFromEnter'
  <2> SUFFICES ASSUME LiveFromEnter, [Next]_vars
               PROVE  LiveFromEnter'
    OBVIOUS
  <2>1. CASE UNCHANGED vars
    BY <2>1 DEF LiveFromEnter, vars, machineVars, failVars, workerVars
  <2>2. CASE Next
    BY <2>2, WorkerLive, ExecutorLive, DriverLive, UserLive, ControlLive, <2>1
    DEF Next, WorkerThread, Ended
  <2> QED BY <2>1, <2>2
<1> QED BY <1>1, <1>2, PTL DEF Spec

\* In STOPPED and STARTING the driver has unwound, whatever the threads do:
\* media, images and configuration never change under an executing guest.
THEOREM StoppedQuiet == Spec => []StoppedIsQuiet
<1>1. LiveFromEnter => StoppedIsQuiet
  BY DEF LiveFromEnter, StoppedIsQuiet
<1> QED BY <1>1, LiveFromEnterInvariant, PTL

-----------------------------------------------------------------------------
\* RunIsolation, with what the queue's operations need to know of its type.
Isolated ==
    /\ input \in [accepting : BOOLEAN, events : Seq(Nat)]
    /\ run_generation \in Nat
    /\ RunIsolation

\* A step that leaves the queued events, the generation and the frame alone.
KeepsRun ==
    /\ input' \in [accepting : BOOLEAN, events : Seq(Nat)]
    /\ input'.events = input.events
    /\ run_generation' = run_generation /\ frame_generation' = frame_generation

\* Such a step keeps the isolation.
LEMMA KeepsRunIsolated ==
    ASSUME Isolated, KeepsRun
    PROVE  Isolated'
  BY DEF Isolated, KeepsRun, RunIsolation

\* Closing or opening admission leaves the queued events alone.
LEMMA AdmissionKeepsEvents ==
    ASSUME Isolated, NEW b \in BOOLEAN, input' = [input EXCEPT !.accepting = b]
    PROVE  input' \in [accepting : BOOLEAN, events : Seq(Nat)] /\ input'.events = input.events
  BY DEF Isolated

\* The same for close_input.
LEMMA CloseKeepsEvents ==
    ASSUME Isolated, CloseInput
    PROVE  input' \in [accepting : BOOLEAN, events : Seq(Nat)] /\ input'.events = input.events
  BY DEF Isolated, CloseInput

\* A new run starts with an empty queue, no frame and a generation of its own.
LEMMA BeginRunIsolated ==
    ASSUME Isolated, NEW kind, BeginRun(kind)
    PROVE  Isolated'
<1>1. PICK fails \in BOOLEAN :
        input' = [accepting |-> kind = "load" /\ input.accepting /\ ~fails, events |-> <<>>]
  BY DEF BeginRun, ClearedQueue
<1>2. run_generation' = run_generation + 1 /\ frame_generation' = 0
  BY DEF BeginRun
<1>3. input' \in [accepting : BOOLEAN, events : Seq(Nat)] /\ input'.events = <<>>
  BY <1>1 DEF Isolated
<1> QED BY <1>2, <1>3 DEF Isolated, RunIsolation

\* A completion that fails closes admission, and nothing else of the run.
LEMMA CompleteKeepsEvents ==
    ASSUME Isolated, NEW events, Complete(events)
    PROVE  input' \in [accepting : BOOLEAN, events : Seq(Nat)] /\ input'.events = input.events
  BY CloseKeepsEvents DEF Isolated, Complete, FailSync, FailSyncAfter, failVars

\* The worker's steps keep the run, or begin the next one.
LEMMA WorkerIsolated ==
    ASSUME Isolated, Worker
    PROVE  Isolated'
<1> USE CloseKeepsEvents, KeepsRunIsolated DEF KeepsRun, WorkerGoto, Finish, runVars
<1>0. input \in [accepting : BOOLEAN, events : Seq(Nat)]
  BY DEF Isolated
<1>1. CASE WorkerWait
  BY <1>0, <1>1 DEF WorkerWait
<1>2. CASE WorkerWoken
  BY <1>0, <1>2 DEF WorkerWoken, FailSync, FailSyncAfter
<1>3. CASE WorkerServe
  BY <1>0, <1>3, BeginRunIsolated, CompleteKeepsEvents
  DEF WorkerServe, ServiceDebug, ServiceMedia, failVars
<1>4. CASE WorkerBoot
  BY <1>0, <1>4 DEF WorkerBoot
<1>5. CASE WorkerEnter
  BY <1>0, <1>5 DEF WorkerEnter
<1>6. CASE WorkerAnnounce
  <2>1. input' = [input EXCEPT !.accepting = ~flag["pause"]]
    BY <1>6 DEF WorkerAnnounce
  <2>2. (~flag["pause"]) \in BOOLEAN
    OBVIOUS
  <2> QED BY <1>6, <2>1, <2>2, AdmissionKeepsEvents DEF WorkerAnnounce
<1>7. CASE WorkerUnwind
  BY <1>0, <1>7 DEF WorkerUnwind
<1>8. CASE WorkerSettle
  BY <1>0, <1>8 DEF WorkerSettle, FailSync, FailSyncAfter
<1>9. CASE WorkerNotify
  BY <1>0, <1>9 DEF WorkerNotify, failVars
<1>10. CASE WorkerRestart
  BY <1>10, BeginRunIsolated DEF WorkerRestart
<1>11. CASE WorkerExit
  BY <1>0, <1>11 DEF WorkerExit
<1> QED BY <1>1, <1>2, <1>3, <1>4, <1>5, <1>6, <1>7, <1>8, <1>9, <1>10, <1>11 DEF Worker

\* The callback takes events from the queue's front and publishes frames of
\* the current run.
LEMMA ExecutorIsolated ==
    ASSUME Isolated, ExecutorEvent
    PROVE  Isolated'
<1> USE CloseKeepsEvents, KeepsRunIsolated DEF KeepsRun, WorkerGoto, runVars
<1>0. input \in [accepting : BOOLEAN, events : Seq(Nat)]
  BY DEF Isolated
<1>1. CASE CallbackEntry
  <2>1. CASE CloseInput
    BY <1>1, <2>1 DEF CallbackEntry
  <2>2. CASE input' = input
    BY <1>0, <1>1, <2>2 DEF CallbackEntry
  <2>3. CASE input.events # <<>> /\ input' = [input EXCEPT !.events = Tail(@)]
    <3>0. input.events \in Seq(Nat) /\ Tail(input.events) \in Seq(Nat)
      BY <1>0, <2>3
    <3>1. input' \in [accepting : BOOLEAN, events : Seq(Nat)]
      BY <1>0, <2>3, <3>0
    <3>2. input'.events = Tail(input.events)
      BY <1>0, <2>3
    <3>3. UNCHANGED <<run_generation, frame_generation>>
      BY <1>1 DEF CallbackEntry
    <3>4. \A i \in DOMAIN input'.events :
             i + 1 \in DOMAIN input.events /\ input'.events[i] = input.events[i + 1]
      BY <1>0, <2>3, <3>2
    <3> QED BY <3>1, <3>3, <3>4 DEF Isolated, RunIsolation
  <2> QED BY <1>1, <2>1, <2>2, <2>3 DEF CallbackEntry
<1>2. CASE CallbackPublish
  <2>1. input' \in [accepting : BOOLEAN, events : Seq(Nat)] /\ input'.events = input.events
    BY <1>0, <1>2 DEF CallbackPublish
  <2>2. run_generation' = run_generation
        /\ frame_generation' \in {frame_generation, run_generation}
    BY <1>2 DEF CallbackPublish
  <2> QED BY <2>1, <2>2 DEF Isolated, RunIsolation
<1>3. CASE CallbackPark
  BY <1>0, <1>3 DEF CallbackPark
<1>4. CASE CallbackParkFact
  BY <1>0, <1>4 DEF CallbackParkFact, FailSyncAfter
<1>5. CASE CallbackParked
  BY <1>0, <1>5 DEF CallbackParked, machineVars, failVars
<1>6. CASE CallbackParkWait
  BY <1>0, <1>6 DEF CallbackParkWait
<1>7. CASE CallbackWoken
  BY <1>0, <1>7 DEF CallbackWoken, failVars, FailSync, FailSyncAfter
<1>8. CASE CallbackParkServe
  BY <1>0, <1>8, CompleteKeepsEvents DEF CallbackParkServe, ServiceMedia, ServiceDebug
<1>9. CASE CallbackParkRead
  BY <1>0, <1>9, CompleteKeepsEvents DEF CallbackParkRead, failVars
<1>10. CASE CallbackUnpark
  BY <1>0, <1>10 DEF CallbackUnpark
<1>11. CASE CallbackResumeFact
  BY <1>11, AdmissionKeepsEvents DEF CallbackResumeFact
<1> QED BY <1>1, <1>2, <1>3, <1>4, <1>5, <1>6, <1>7, <1>8, <1>9, <1>10, <1>11
        DEF ExecutorEvent

\* The driver does not touch the queue or the generations.
LEMMA DriverIsolated ==
    ASSUME Isolated, Driver \/ DriverCheckpoint
    PROVE  Isolated'
<1>0. input \in [accepting : BOOLEAN, events : Seq(Nat)]
  BY DEF Isolated
<1> QED BY <1>0, KeepsRunIsolated
        DEF KeepsRun, Driver, RunQuantum, RunLoop, DriverCheckpoint, machineVars, failVars, runVars

\* The control thread's calls keep the run or begin one; input is queued under
\* the generation of its run.
LEMMA UserIsolated ==
    ASSUME Isolated, User \/ TakeFact
    PROVE  Isolated'
<1> USE CloseKeepsEvents, KeepsRunIsolated DEF KeepsRun, runVars
<1>0. input \in [accepting : BOOLEAN, events : Seq(Nat)]
  BY DEF Isolated
<1>1. CASE \E o \in Lifecycle : Refuse(o)
  BY <1>0, <1>1 DEF Refuse, failVars
<1>2. CASE CallStart
  BY <1>2, BeginRunIsolated DEF CallStart
<1>3. CASE CallPause
  BY <1>0, <1>3 DEF CallPause
<1>4. CASE CallResume
  BY <1>0, <1>4 DEF CallResume, ReleasePause, FailSyncAfter
<1>5. CASE CallStop
  BY <1>0, <1>5 DEF CallStop, failVars
<1>6. CASE CallReset
  BY <1>0, <1>6, BeginRunIsolated DEF CallReset
<1>7. CASE \E r \in Requests : CallRequest(r)
  BY <1>0, <1>7 DEF CallRequest, failVars
<1>8. CASE EnqueueInput
  <2>1. UNCHANGED <<run_generation, frame_generation>>
    BY <1>8 DEF EnqueueInput
  <2>2. CASE input' = input
    BY <1>0, <2>1, <2>2
  <2>3. CASE input' = [input EXCEPT !.events = Append(@, run_generation)]
    <3>1. input.events \in Seq(Nat) /\ run_generation \in Nat
      BY <1>0 DEF Isolated
    <3>2. Append(input.events, run_generation) \in Seq(Nat)
      BY <3>1
    <3>3. input' \in [accepting : BOOLEAN, events : Seq(Nat)]
          /\ input'.events = Append(input.events, run_generation)
      BY <1>0, <2>3, <3>2
    <3>4. \A i \in DOMAIN input'.events :
            \/ i \in DOMAIN input.events /\ input'.events[i] = input.events[i]
            \/ input'.events[i] = run_generation
      BY <3>1, <3>3
    <3> QED BY <2>1, <3>3, <3>4 DEF Isolated, RunIsolation
  <2> QED BY <1>8, <2>2, <2>3 DEF EnqueueInput
<1>9. CASE DebugCancel
  BY <1>0, <1>9 DEF DebugCancel, FailSync, FailSyncAfter
<1>10. CASE Quit
  BY <1>0, <1>10 DEF Quit, BeginStop
<1>11. CASE TakeFact
  BY <1>0, <1>11 DEF TakeFact, failVars
<1> QED BY <1>1, <1>2, <1>3, <1>4, <1>5, <1>6, <1>7, <1>8, <1>9, <1>10, <1>11 DEF User

\* A call in progress keeps the run.
LEMMA ControlIsolated ==
    ASSUME Isolated, ControlProgress
    PROVE  Isolated'
<1> USE CloseKeepsEvents, KeepsRunIsolated DEF KeepsRun, runVars
<1>0. input \in [accepting : BOOLEAN, events : Seq(Nat)]
  BY DEF Isolated
<1>1. CASE ResetStop \/ StopDriver \/ Submit \/ Exit \/ Terminate
  BY <1>0, <1>1 DEF ResetStop, StopDriver, Submit, Exit, BeginStop, Terminate
<1>2. CASE StopPause
  BY <1>0, <1>2 DEF StopPause, ReleasePause, FailSyncAfter
<1>3. CASE Await
  BY <1>0, <1>3 DEF Await, failVars, FailSync, FailSyncAfter
<1>4. CASE Join \/ TerminateJoin
  BY <1>0, <1>4 DEF Join, TerminateJoin, machineVars, failVars
<1> QED BY <1>1, <1>2, <1>3, <1>4 DEF ControlProgress

\* No input event or published frame of one run is seen in another, however
\* often and by whichever thread runs are begun.
THEOREM RunsAreIsolated == Spec => []RunIsolation
<1>1. Init => Isolated
  BY DEF Init, Isolated, RunIsolation
<1>2. Isolated /\ [Next]_vars => Isolated'
  <2> SUFFICES ASSUME Isolated, [Next]_vars
               PROVE  Isolated'
    OBVIOUS
  <2>1. CASE UNCHANGED vars
    BY <2>1 DEF Isolated, RunIsolation, vars, machineVars, failVars, runVars
  <2>2. CASE Next
    BY <2>2, WorkerIsolated, ExecutorIsolated, DriverIsolated, UserIsolated, ControlIsolated,
       <2>1
    DEF Next, WorkerThread, Ended
  <2> QED BY <2>1, <2>2
<1>3. Isolated => RunIsolation
  BY DEF Isolated
<1> QED BY <1>1, <1>2, <1>3, PTL DEF Spec
====
