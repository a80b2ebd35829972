# nxvm: a verification of the emulator framework

nxvm is a family of emulators in C: IBM PC machines (`nxvm`, `my5160`, `my5170`,
`mydeskpro386`, `mypc110`), an NES (`mynes`) and an arcade board (`myraidenii`). All of
them run on one framework, `src/emulator`, over the host library `src/lib`. The guest cores
are deterministic and single-threaded; the framework is where threads meet. This project
models the framework: the machine with its worker thread, the session that controls it and
decides what is on the screen, the queues and frames they share with the rest of the
program, and the audio stream with the one driver that sleeps in it.

Paths below are relative to the repository's root.

## Inventory

| Component | State | Operations | Hard behaviour | What makes it correct |
| --- | --- | --- | --- | --- |
| Machine, `src/emulator/machine/machine.c` | lifecycle state, request flags, five manual-reset events, generations, debug lease, input admission | start, pause, resume, stop, reset; media, debug, state read and write; debug cancel; shutdown; the worker loop and the executor callback | two threads over sequentially consistent atomics, waits without timeout, nested wait inside the guest's run hook, native failures | no lost wake, every caller answered, runs isolated, guest executes only when allowed, ERROR is final, shutdown ends |
| Input queue, `src/emulator/machine/input_queue.c` | ring of 256, admission | admit, push, pop, clear | full queue, admission against lifecycle | admitted only while RUNNING, bounded, cleared per run |
| Session, `src/emulator/session/session.c` | `monitor_actual`, `pending_request`, prompt | take an event, apply a command result, process a fact | facts arrive late and from earlier runs; lines typed ahead | monitor settles on the machine's state; a pending request is completed |
| Session queue, `src/emulator/session/control.c` | growing ring, two latched failures, an event | push (several producers), take | growth while wrapped, allocation and native failure, reset against push | FIFO, nothing lost silently, no sleep with work queued |
| Key ledger, `control.c` 203-298 | pressed keys by source | remember, forget, release a source | sources retire, pauses | no key stays down |
| Presentation, `control_state.c`, `presentation_plan.c`, `src/emulator/ui/ui.c` | what runtime, frames and surfaces are believed to be; one action in flight; prompt and text kept back | note a fact, plan, take an action, publish, show the state, arm the prompt | actions planned from facts that change before the completion is back; the newest frame observed by any event | surfaces settle on the plan, show the last frame, and the user has a prompt |
| PCM stream, `src/lib/audio/pcm/stream.c`, `win32/stream.c` | FIFO ring, progress counts, control request, three events, endpoint buffer | enqueue, wait for room, cancel the wait, clear, gain, flush, activate, destroy; the worker | native waits outside the lock, batch used after unlock, clears against submissions, sticky cancellation | frames once and in order, progress monotonic within an epoch, calls return and have done what they say |
| Frame exchange, `src/lib/kvm-base/frame_exchange.c` | four slots, the roles writer, pending, processing, displayed, latest | publish, take, finish, redraw, detach, invalidate | producer draws outside the lock | no torn, lost or older frame |
| Mailbox and component, `src/lib/kvm-base` | control ring, worker | post, stop | reserved stop slot, retirement | stop always accepted |
| Drivers, `src/app-mynes/machine`, `src/app-myraidenii/machine`, `src/x86-nxvm/machine` | stop latch, wake, breakpoint, capture, staged audio | run, reset, request_stop, request_wake, heartbeat, ... | latch against reset, wake against the wait for room | obey the run-hook contract |
| Synchronization, `src/lib/base/sync.c` | events, tasks | signal, reset, wait any, cancel, join | native failure | cancellation outranks events |
| MIDI, storage, console, window back ends | buffers, files, host handles | host I/O | platform | left to tests |
| Guest cores, chips, boards, assembler and debugger | guest registers and memory | instructions, port accesses | size of the data | left to tests |

How they interact. The *control thread* runs the session loop: it takes one event at a time
from the session queue, dispatches at most one lifecycle request, and calls the machine. The
machine's *worker* owns the driver. It waits for `command_event`; a start makes it call
`driver.run`, which calls back into `emulator_machine_executor_event` before and between
quanta of guest work. In that callback input is delivered, frames are published, and a
paused machine parks, waiting for `resume_event` or `command_event`, and serving media, debug
and state requests from there. Completed transitions are *facts*, pushed by the worker into
the session queue with the run's generation. Frames pass through the frame exchange to a
window or console thread; a notice of each goes to the session queue, and the session, on
whatever event it takes, looks at the newest frame, asks the UI for at most one change of the
surfaces and waits for its completion in the same queue. A driver with sound hands frames to
a PCM stream, whose own *worker* feeds the endpoint; when the stream is full the executor
sleeps in it, and wakes and stops cancel that sleep.

## Modules

| Module | Models | Checked by |
| --- | --- | --- |
| `Machine` | machine, input queue, the session's request gate and fact processing, the run-hook contract of the drivers | `MCMachine` with six configurations |
| `MachineProofs` | the driver has unwound when STOPPED; runs are isolated | TLAPS |
| `MachineTypeProofs` | the type invariant of `Machine`; extends `MachineProofs` | TLAPS |
| `MachineStepProofs` | what each step of `Machine` leaves alone: the lemmas of the next module | TLAPS |
| `MachineSafetyProofs` | the other invariants of `Machine`, over the two modules above | TLAPS |
| `FrameExchange` | the frame exchange and the producer that draws into it | `MCFrameExchange` |
| `FrameExchangeProofs` | theorems about `FrameExchange` | TLAPS |
| `EventQueue` | what the session queue promises: a FIFO, and failures reported once it is empty | as a property of `SessionQueue` |
| `SessionQueue` | the ring of `control.c`, its growth, latched failures and event | `MCSessionQueue` |
| `SessionQueueProofs` | the invariants of `SessionQueue` and its refinement of `EventQueue` | TLAPS |
| `Presentation` | `control_state.c`, `presentation_plan.c`, the session loop, the UI's actions and the monitor's answers | `MCPresentation` with two configurations |
| `PresentationProofs` | one action in flight; surfaces, views and prompts settle | TLAPS |
| `PcmProgress` | what a PCM stream promises about the progress it reports | as a property of `PcmStream` |
| `PcmStream` | the PCM stream, its worker and the Windows endpoint | `MCPcmStream` |
| `PcmStreamProofs` | the invariants of `PcmStream` and its refinement of `PcmProgress` | TLAPS |
| `RaidenDriver` | the executor of myraidenii with its audio staging; extends `PcmStream`, whose owner it is | `MCRaidenDriver` |

Operators introduced by a comment "Seeded fault" are wrong variants of the definition that
follows them. No specification uses them; each shows, put in the place of that definition,
that the property it belongs to can fail.

### Machine

State. `state` is the machine's atomic state; `flag` holds the request atomics
(`pause_requested` is `flag["pause"]`); `req` the synchronous request slots and the state
capture; `signaled` the set of manual-reset events that are signaled; `cancelled` the worker
task's cancellation; `input` the admission bit and, for each queued event, the run it was
queued in; `driver` what a driver keeps between hooks: the stop latch, the heartbeat and the
phase of a capture. `lease_current` says whether the debug lease the control thread last
acquired still has the current `debug_generation`. `wpc` and `cpc` are the control points of
the worker and of the control thread, `w` and `op` their locals. `monitor`, `pending` and
`facts` belong to the session.

Actions. `Worker*` are the steps of `emulator_machine_worker`, `Callback*` those of the
executor callback, `Call*`, `ResetStop`, `StopPause`, `StopDriver`, `Submit`, `Await`, `Join`,
`Quit`, `Exit`, `Terminate*` those of the control thread's calls. `TakeFact` is the session
processing one fact. `RunQuantum` is the driver's run hook: it calls back, returns after its
stop latch is set, and may also return early or fail. A native failure may happen at each
signal, reset or wait whose status the code tests.

Granularity. The atomics are sequentially consistent, and the interleavings that matter are
between single accesses. These accesses are joined, because the other thread does nothing
between them that could tell:

- the control side's cold run (start, or reset of a STOPPED machine): the worker is idle and
  looks at nothing before the command event at its end;
- `reset_requested` with `stop_requested` in reset: the worker reads the first only after it
  has seen the second;
- `pause_requested = 0` with the signal of `resume_event` that follows: a parked executor
  reads the flag only when woken, and one not parked does not read the event;
- in the callback: debug stop, capture and input; publication and the test whether to park;
  closing input, the second test of `stop_requested`, the heartbeat and the exchange to
  PAUSED; the fact of the pause and the answers that follow it. The control thread reads none
  of the locals in between, and its own steps commute with all but the one access kept;
- driver reset and the test of `stop_requested` after it; admission and the RUNNING fact;
- the unwind's reading of the state with the one that `finish_requests` begins with;
- termination, the two signals and the cancellation in shutdown; `fail_sync`, which the
  calling thread runs to its end.

The last two items hide one window each, both only open to a native failure on the control
thread: an ERROR stored by `fail_sync` between `finish_requests`' load and store is
overwritten, and the hazard is listed without a property.

Kept apart, because the difference is observable: waiting for an event, resetting it, and
looking at the requests; `stop_requested`, `pause_requested` and `driver.request_stop` in
stop and reset; the exchange to PAUSED and its fact; `finish_requests`' load and its store;
its store and the restart; the exchange to RUNNING and the admission of input.

Abstractions. Debug requests, media paths and state images have no content: only whether a
request is registered, served, allowed, complete. A debug cancellation is kept because it
decides whether a breakpoint pauses. Frames carry only their run. The worker's heartbeat is
kept although no property speaks of it yet. Mynes captures at once; a capture that needs
guest execution ("busy") comes from the driver contract, and the repository's own test
fixture has one (`test/emulator/machine/machine_fixture.c`).

### FrameExchange

`writer`, `pending`, `processing`, `displayed` and `latest` are the pointers of the code, as
slot numbers. `content` gives each slot the number of the publication in it, or 0 for a slot
that holds nothing whole. `Draw` is the producer writing into its slot outside the lock,
leaving it partial or whole, so that a slot held by the display while it is drawn into would
be seen torn. Publish, take, finish,
redraw, detach and invalidate are one step each: they run under the lock.

### SessionQueue and EventQueue

A step is a region under `queue->lock`. `Push` of an event of either failure class stores it
(growing the ring when full) or fails; a failed push leaves the lock, is remembered in
`lost`, and `LatchFailure` takes the lock again. `Wait` is the control thread's wait for the
event, `Take` the locked part of take. The refinement maps the ring to the FIFO of
`EventQueue` by reading it from `first` modulo the capacity; the slots of lost events and
latched failures map to themselves.

### Presentation

State. `st` is `emulator_session_state` field by field; `p` the session's pending line,
pending request, due prompt and kept text; `ui` the native surfaces that exist, which of them
the broker reads from, what each was last given and whether the Window is frozen; `reading`
whether a line is being read for the monitor; `m` the machine as its sinks show it; `fifo` the
control FIFO. `mode` is the configuration, chosen once: Window display, Console display, and
Console display with `console_control`.

Actions. `Take` is one turn of `emulator_session_run`, with everything the handler does: it
reduces the event (a fact, a line, a hotkey, a close of the Window), then drives
(`emulator_session_drive`: observe the newest frame, take at most one action, publish if the
surfaces are there), shows the state and offers the prompt, in the code's order. Whatever
fails on the way ends the session. The handler is one step: the control thread is the only
one that touches this state, and the one thing it reads from another thread, the newest frame,
is read once per handler (`read_presentation`, under the lock). `Publish`, `Complete`,
`Restart` and `Fail` are the machine, reduced to its states, runs, frames and the events its
sinks push; `Machine` has the details. `Input` is the user. A load into a STOPPED machine is
synchronous and is part of the line's handler (`Loaded`).

Left out: native failures (each ends the session), the exit command, mouse and keys for the
guest, and what texts say. The machine pauses only when it was asked to: a breakpoint
(`machine.c` 355) and the pause of a state capture (268), which report PAUSED unrequested, are
in `Machine` only. `Loaded` publishes no frame, while the first callback of a restored run may
publish one before it parks (364). The FIFO is an ordinary sequence here, which `SessionQueue` shows
the ring of `control.c` to implement.

`dropped` remembers that a completion of a UI action was discarded because another run had
begun. The session does not notice; see the further observations below. The properties of the
settled session are about sessions in which this did not happen.

### PcmStream, PcmProgress and RaidenDriver

A step of `PcmStream` is a region under `stream->lock` or one native call outside it. Frames
are named by epoch and ordinal, so that a lost, repeated or stale frame is seen in the
endpoint's buffer. `w` holds the worker's locals, among them the batch it copied under the lock
and uses after it; `o` is the owner in a call, with the status the call returned; `canceller`
another thread in `cancel_wait`, which needs a stream: it calls neither before create has
returned one, nor into a destroy. `WaitEvent` is the endpoint's wait for a period or an
interruption, `WaitWorker` the wait for an event or the worker's cancellation; both may fail.
`Tick` is the endpoint, which is external: it plays a frame and signals a period. Each native
call whose status the code tests may fail, within a bound shared with the cancellations.
A create whose join fails and a destroy of the platform that fails are not followed further.

`PcmProgress` is the contract of the progress a client reads, from the comment of
`lib_audio_pcm_progress`; `PcmStream` maps to it by its own counts.

`RaidenDriver` extends `PcmStream` and takes the owner's place: the run hook's slices, the
audio staging of `audio.c` (submit, copy from the board, submit again), the wait for room, the
heartbeat and the reset; and, on the control thread, wake and stop, each a store followed by
`cancel_wait`. The executor's callback may ask for a wake itself when more input is queued. The
board only makes frames, faults or is stopped. Pacing without a stream is left out.

## Runs

| Run | Configuration | Question | Result |
| --- | --- | --- | --- |
| `machine` | 2 runs, 2 input events, breakpoints, type-ahead, latched stop, no native failure | all safety invariants | hold, 1.75 million states |
| `machine_faults` | 2 runs, 1 native failure, consumed stop | lost wakes, unanswered callers, shutdown ends | hold, 0.85 million states |
| `machine_liveness` | 2 runs, so live resets; breakpoints, latched stop, no native failure | which calls return, requests complete and shutdowns end | hold, 0.33 million states |
| `reset_exit` | 2 runs, consumed stop | shutdown ends, also during a reset | violated |
| `reset_latch` | 2 runs | the stop latch is of its run | violated |
| `type_ahead` | 1 run, lines typed ahead | every synchronous call returns | violated |
| `frame_exchange` | 4 slots, 5 frames | the exchange's safety, and every publication is shown | hold |
| `session_queue` | ring of 2 growing to 8, 5 pushes, 1 native failure | refinement of `EventQueue`, wakes | hold |
| `presentation` | every mode, 4 frames, 2 runs, 3 inputs, failures of the machine | surfaces, view and prompt settle, and do settle | hold, 0.8 million states |
| `presentation_modes` | every mode, 4 frames, 1 run, 1 input | the session does not end by itself | violated |
| `pcm_stream` | FIFO and batch of 2, endpoint of 1, 3 frames, 1 clear, 1 cancellation or native failure | delivery, returned calls, progress, liveness | hold, 0.85 million states |
| `raiden_wake` | the same stream, 6 frames, 1 wake, stop or fault | a wake does not fail the driver | violated |

What the invariants of `machine` say: `NoLostCommand`, a sleeping worker has nothing to do;
`CallerIsAnswered`, a blocked caller is known to a live worker; `RunIsolation`, no event or
frame of an earlier run; `InputOnlyWhileRunning`; `GuestRunsOnlyWhenAllowed`;
`StoppedIsQuiet`, STOPPED and STARTING mean that the run hook has returned;
`CaptureIsStable` and `CaptureFreezesInput`, the guest and its devices stand still between a
checkpoint and its caller; `DebugAnswerIsFresh`, a debug answer is read while the guest is
still parked; `MonitorSettles`, the session's view is right once everything is quiet;
`ErrorIsTerminal`.

Of `machine_liveness`: `ServableCallsReturn`, a call returns if at any moment of it the executor
is bound to look at it, which for a debug or media command means that the pause is still
requested (or the machine is STOPPED) and for a capture that no stop latch of an earlier run
holds the driver (`reset_latch`). `StandingRequestsComplete`: start, pause and resume always
complete; a stop does if no reset can erase it any more, a reset if its run has kept the pause
it begins with. `OrderlyExitEnds`: shutdown ends if no reset is in progress when the session
ends; the condition is about that moment and not about shutdown's own steps. The conditions
are there because a reset of a live machine breaks each property without its condition: see
`type_ahead`, `reset_exit` and the effects of a live reset below. `machine_faults` checks
`OrderlyExitEnds` with native failures as well. The other two are not claimed there: after a
failure `finish_requests` may overwrite the ERROR of `fail_sync` (see Proofs), and a start is
then accepted that the cancelled worker never takes.

Of `presentation`: `OneActionInFlight`, an action in flight has exactly one completion on its
way, and without one the session knows the surfaces as they are; `SettledTopology`, the surfaces
that exist are those the session believes in and those the plan wants; `SettledView`, the Window is frozen exactly while paused and every
surface shows the last frame; `PromptIsOffered`, a monitor that has the console reads a line;
`Settles`, plan, action and completion do not chase each other for ever.

Of `pcm_stream`: `DeliveredInOrder`, the endpoint holds consecutive frames of the current
epoch ending with the last submitted; `ReturnMeansDone`, what a call that returned OK has
done; `NoFalseAlarm`, the stream fails only if something native failed; `Implements`, the
contract of `PcmProgress`; `CallsReturn`, destroy and its join included.

Bounds. Two runs are the least in which something of one run can reach the next, and in which
a live machine can be reset. One native
failure suffices because every failure path ends in ERROR and cancellation; two input events
fill a queue behind a non-empty head. A ring of two slots grows while wrapped after three
pushes, and again with five. Four slots are the code's number; five frames are one more than
the slots, so that each is reused. Four frames let a guest change between text and graphics
three times, which is what a surface's creation, takeover and removal need to overlap; three
inputs are a start, a pause or reset, and one more against it. A FIFO of two frames and an
endpoint of one are the least at which the ring wraps, the FIFO is full and a batch is cut by
an interruption; one clear makes two epochs. One disturbance is enough for a native failure:
it is terminal. The number of facts in flight is not bounded, it is a
consequence of the run bound.

Views. `MCMachine` compares states without what nothing can depend on: a completion event
nobody waits for (it is reset before the next wait), a lease or a debug answer no call in
progress uses, and the session's bookkeeping once the session is over. The states that a view
identifies have the same steps and the same truth of every property checked under it.

Deadlock is checked except where the system may rest for ever: in `session_queue`, whose
pushes are bounded and whose session may end, and in the runs of `Presentation`, `PcmStream`
and `RaidenDriver`, where the user, the owner or the bounds have no more to ask for.
`Ended` is the machine after its destruction.

Fairness. The worker and the control thread are scheduled (weak fairness of the worker's
steps, of taking facts, and of a call in progress, which includes the shutdown that follows a
refused request). A capture is served by a guest that executes again and again, so its
checkpoint has strong fairness: other steps of the run hook disable it between quanta. The
user owes nothing: no lifecycle or monitor command is fair. In the frame exchange a display
that can take a frame again and again does, and one that can finish its frame again and again
eventually succeeds; detaching and redrawing are not fair and may go on for ever. In
`Presentation` the session loop and the machine's completion of what it was asked are fair;
frames, failures and the user are not. In `PcmStream` the worker, a call in progress and the
endpoint, which plays at its sample rate, are fair; nobody has to call anything, and the
native failures are not part of any fair action.

### What the violated runs show

- `reset_latch`: reset calls `driver.request_stop` last (`machine.c` 769). If the worker has
  by then reset the driver for the new run, the latch stays set in it, and with drivers that
  do not consume it (mynes, myraidenii) the machine reads RUNNING and executes nothing.
- `type_ahead`: a line that was armed before a lifecycle request may still execute a debug or
  media command while that request is pending. Registered between the executor's decision to
  leave the pause and its exchange to RUNNING, it is never served, and the control thread
  waits without a timeout. Type-ahead is not the only way into this window: see the effects of a
  live reset.
- `reset_exit`: the restart of a reset clears `stop_requested` (`machine.c` 600, and 460 in
  `begin_cold_run`) after `finish_requests(STARTING)`. Shutdown does not wait for a pending
  reset, and a stop of its own that came before is erased. Its clearing of the pause comes after
  the restart, `driver.reset` clears the latch, and the worker has passed its tests of
  `terminate_requested` when that is stored. A run hook that goes on until it is stopped, as
  x86-nxvm's does (`src/x86-nxvm/machine/runner.c` 36), then never returns, and the join waits
  for ever. mynes and myraidenii return after a slice, and the worker's loop sees
  `terminate_requested` (589); the run hook of `Machine` may do either.
- `raiden_wake`: a wake stores `wake_requested` and calls `cancel_wait`, whose flag in the
  stream only `wait_writable` clears. If the executor meets the wake elsewhere
  (`src/app-myraidenii/machine/driver.c` 128), it consumes the first and leaves the second, and
  the next time the stream is full its wait is refused with nothing requested, which the driver
  takes for a failure. The session makes a wake for every key (`machine.c` 838). The test of
  this path (`test/app-myraidenii/unit/machine/driver_smoke.c`) replaces the stream.
- `presentation_modes`: with `console_control` (`console_control=1` in the ini file) and a
  guest that goes from graphics to text and back, the completion of the VM console's takeover
  may be handled when the newest frame is graphics again. The plan then wants only the Window,
  which exists, so the frame is published, to a console that is still current and cannot show
  it; `publish_frame` returns UNSUPPORTED and the session ends.

`CallerIsAnswered` holds with type-ahead, and does not contradict `type_ahead`: the caller is
registered with a live worker, which never comes to serve it.

### Effects of a live reset

What else a reset of a live machine does to the session. TLC finds each of these in `Machine`
with two runs and no native failure, nothing typed ahead; the properties of `machine_liveness`
hold around them, and the conditions in them mark their extent.

- Reset stores `stop_requested` before it clears `pause_requested` (`machine.c` 763-764). A
  worker that unwinds in between sets the pause of the new run first, the control thread then
  clears it, and the guest executes instead of finishing the reset in PAUSED, which
  `docs/mynes/design/ARCHITECTURE.md` 291 says it does.
- If that store comes when the new run is already parked, the executor leaves the park, but the
  session has been told RESET_COMPLETED and believes in PAUSED. Its next debug or media command
  is registered while the state still reads PAUSED and is left behind, as in `type_ahead`.
- The executor reads `reset_active` after its exchange to PAUSED (387). A run that parks for a
  breakpoint while reset is being called reports RESET_COMPLETED for a reset that has not begun.
- Any fact of the current run ends the pending request (`session.c` 268), also one that was
  queued before the request was made, such as the PAUSED of a capture or of a breakpoint, or the
  premature RESET_COMPLETED. A stop can then be accepted while the reset is in progress; one that
  comes in the window of `reset_exit` is erased, and no fact ever completes it.

### Further observations

Met while modelling, and kept out of the properties on purpose:

- A completion of a UI action that arrives after another run has begun is dropped
  (`session.c` 255), but the action stays in flight: `control_state.h` 20 promises the
  completion, and no later action is ever taken. A load or a cold start while a surface is
  being destroyed does it.
- With `console_control`, a VM console that is created after a resume and destroyed before it
  is bound leaves no event that would unfreeze the Window (`session.c` 289 shows the state on
  runtime facts and takeovers only), so a running guest's Window stays frozen. `SettledView`
  exempts that configuration while running.
- A reset of a live machine does not forget the display route: `control_state.c` 48 clears it
  on STOPPED and ERROR, while the comment there says that a subsequent run must not inherit it.
- If the owner's own wait for a clear, gain or flush fails natively while the worker lives, the
  worker's late answer can answer the next request. `o.lost` marks it.

## Proofs

TLAPS proves for every value of the constants, so for any capacity, number of runs, frames,
pushes and native failures:

| Module | Theorem | Property |
| --- | --- | --- |
| `MachineProofs` | `StoppedQuiet`, `RunsAreIsolated` | `StoppedIsQuiet`, `RunIsolation` |
| `MachineTypeProofs` | `TypeCorrect` | `TypeOK` |
| `MachineSafetyProofs` | `WakesReachTheWorker` | `NoLostCommand` |
| | `CallersAreAnswered` | `CallerIsAnswered` |
| | `GuestIsAllowed` | `GuestRunsOnlyWhenAllowed` |
| | `CapturesAreStable`, `CapturesFreezeInput` | `CaptureIsStable`, `CaptureFreezesInput` |
| | `MonitorAgrees` | `MonitorSettles` |
| | `InputNeedsRunning`, `DebugAnswersAreFresh` | `faults = 0 =>` `InputOnlyWhileRunning`, `DebugAnswerIsFresh` |
| | `ErrorsAreTerminal` | `ErrorIsTerminal`, for `MaxFaults = 0` |
| `FrameExchangeProofs` | `TypeCorrect`, `ProducerAlone`, `LatestFrameKept`, `FramesKept`, `FramesImmutable`, `DisplayForward` | `TypeOK`, `WriterIsFree`, `LatestIsKept`, `HeldFramesAreWhole`, `HeldFramesAreImmutable`, `DisplayNeverGoesBack` |
| `SessionQueueProofs` | `TypeCorrect`, `QueueNeverSleeps`, `EndsForAReason` | `TypeOK`, `NothingSleeps`, `NoSpuriousEnd` |
| | `RingImplementsQueue` | `Implements`, the refinement of `EventQueue` |
| `PcmStreamProofs` | `TypeCorrect`, `FramesInOrder`, `CallsAreCarriedOut`, `NothingFailsAlone` | `TypeOK`, `DeliveredInOrder`, `ReturnMeansDone`, `NoFalseAlarm` |
| | `StreamImplementsProgress` | `Implements`, the refinement of `PcmProgress` |
| `PresentationProofs` | `OneCompletionComes`, `SurfacesSettle` | `OneActionInFlight`, `SettledTopology` |
| | `ViewsSettle`, `PromptsAreOffered` | `SettledView`, `PromptIsOffered` |

Every inductive invariant below was an invariant of a TLC run before it was proved.

**Machine.** `StoppedQuiet`: the property alone is not inductive, since at the control point
"announce", after the exchange to RUNNING and before the run hook, a STOPPED state would
satisfy it and the next step would enter the hook; `LiveFromEnter` excludes that point too.
`RunsAreIsolated`: `Isolated` adds the types of queue and generations; every step keeps the
queue, shortens it, appends the current generation, or is a `BeginRun`, which empties it and
forgets the frame before the generation grows.

The other theorems need one invariant, `Safe`, made of layers that are proved one after the
other, each from those before it:

- `OneCaller`, one request at a time, registered for the call in progress, and restored runs
  wait only for a state write;
- `Starting`, when a start may be outstanding and what the machine reads outside a run;
- `Phases`, which states and flags go with which points of the callback: what the executor
  decided at one access still holds, or a stop is requested, at the next;
- `Capturing`, where a capture stands between the driver, the request and the executor;
- `Wakes`, the argument for `NoLostCommand`: a request that the worker has not looked at has
  a signal that it has not reset, whichever of the two comes first;
- `Reported`, the facts in flight end with the state the machine rests in, or the monitor has
  it already;
- `Faultless`, what holds until a native call fails: nobody cancels the worker before the
  shutdown, input is closed when a run settles, the guest of an answered debug command is still
  parked, and an ERROR that the unwind reads is the state it stores.

With native failures the last three properties of the table's `Machine` part are not theorems.
TLC finds, with one failure: `fail_sync` on the control thread stores ERROR between
`finish_requests`' load and its store, which then overwrites it; or between the exchange to
RUNNING and the admission of input, which then opens in ERROR; and a completion signal that
fails turns an answered debug command's machine to ERROR before its caller has read the
answer. The runs check the three without native failures, and that is what is proved:
`InputNeedsRunning` and `DebugAnswersAreFresh` for every state before the first failure,
`ErrorsAreTerminal` for `MaxFaults = 0`.

**Frame exchange.** Beside the properties the invariant says that a pending frame is the latest
one, that the frame a redraw would repeat is the latest one, that no slot is newer than the
last publication except the one being drawn, and that the frame in processing is no older than
the displayed one. The second keeps `Redraw` from queueing an older frame; the last two make
`DisplayForward` inductive. That the search for a writer never fails rests on four slots
against three roles.

**Session queue.** The invariant adds `WokenForSomething` (a thread past its wait still has
something to find). The refinement rests on lemmas about the ring read from `first` modulo
the capacity: a push appends to it, a take drops its head, and the copy of a growing ring,
wrapped or not, leaves it as it was. `NoneAssumption` (no event is `None`) tells a latched
failure from an empty slot, as `fault_pending` does in the code.

**PCM stream.** The invariant has nine parts. `CallShape` and `WorkerShape` give for each
control point what its locals are; `Handshake` says where a control request is between owner and
worker, so that an answer is the answer to this request; `Done` what the worker has carried
out when it says so; `Fifo` that the ring holds the accepted frames that were not submitted, in
order; `Delivered` where the worker's batch is, in the ring or cut off from it by a clear, and
how the endpoint's buffer continues it; `CancelHasCause` and `NothingFails` exclude failures
without a native cause. The refinement of `PcmProgress` maps every step to `Accept`, `Advance`,
`Clear` or a stutter.

**Presentation.** A handler is a pipeline of functions on a record, and one lemma per function
says what it keeps. The invariant adds to `OneActionInFlight` that the session knows the
surfaces *up to* the action in flight (`Known`), and that every handler leaves nothing to do
but what is in flight (`Planned`: the next action is NONE). With an empty FIFO the first says
that nothing is in flight, and the second is then `SettledTopology`. Both exclude sessions in
which a completion was dropped, as the properties do.

What a settled session shows and offers depends on how it got there, so the other two
properties need a second invariant, `FInv`, which follows each thing on its way between
session, queue, machine and UI:

- `Ranges`: no event and no surface is of a run that has not begun, so a new run finds nothing
  that could be taken for its own.
- `Phased`: where a request is. None is made and the monitor reads what the machine is; or the
  machine serves it; or its report is in the queue (two when the run failed after it began);
  or the machine reports something nobody asked for, before any line.
- `Shaped`: the actions only a running machine makes necessary, and what goes with each; when
  the machine has stopped running meanwhile, the action's completion is ahead of the next
  report.
- `Lined`: a pending line is being read, or typed and in the queue, or ended by a takeover of
  the console that is in the queue behind it.
- `Prompted`: a prompt is pending, due, kept for a request's result or for the return of the
  console from a running guest. With an empty queue and an idle machine `Phased` leaves no
  request, and only the first is left to a monitor that has the console: `PromptIsOffered`.
- `Frozen`: the Window is frozen while paused; one that is still frozen when the machine runs
  waits for the console to be taken over or returned. The exemption of `console_control` enters
  here and nowhere else.
- `Viewed`: every surface shows the last frame of the run, or something in the queue makes the
  session drive, or an action is in flight.

None of them is inductive alone: `Prompted` needs `Phased` to know that a request is answered,
`Frozen` needs `Shaped` to know what a takeover finds, and `Viewed` needs `Ranges` to tell a
frame of an earlier run from one that was missed. The proof states what each function of the
session does as a relation, puts these together in `Turn` (one event handled to its end) and
shows each conjunct at the end of a turn.

The assumptions are those the modules name: the bounds are natural numbers, capacities, sizes
and the number of runs are positive, there are at least four slots, and `None` is no event.

Only model-checked: everything under fairness (liveness and `ENABLED` are beyond the proof
system); the runs that are violated, and `RaidenDriver` with them. Every invariant of a passing
run is a theorem. What a recursive function computes for every input cannot be proved here either,
since the provers cannot instantiate an induction rule; the modules with theorems use no
recursion.

## Not modelled

The guest cores, chips and boards (sequential code over large data), the assembler and
debugger (pure translation), host back ends for windows, consoles, MIDI and files (I/O), and
the wording of the monitor. They are nearly nine tenths of the source's lines, and data rather
than control: an instruction set or a video chip has no small instance. The drivers other than
myraidenii's appear only through their contract with the worker. Of the PCM stream `set_notify`
and the Linux endpoint are missing. The key ledger, the mailbox and the interrupt controller
could be modelled and are not yet. Reasons per component are in `PROJECT.json`.

## Plan

Done: `Machine` with its composition of machine, session gate and drivers; `FrameExchange`;
`SessionQueue` with its abstract specification; `Presentation`; `PcmStream` with its abstract
specification and its composition with a driver; the safety of all of them as theorems.

Models that could follow: `InputQueue`, the ring of `input_queue.c` as an implementation of the
sequence `Machine` uses; `KeyLedger` (`control.c` 224-298), composed with pauses and retiring
sources; `Mailbox`, the control ring with its reserved stop slot; `InterruptController`, the
cascaded 8259 pair of `pic_bus.c`.
