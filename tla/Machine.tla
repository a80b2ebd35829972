------------------------------ MODULE Machine ------------------------------
(***************************************************************************)
(* The emulator machine (src/emulator/machine/machine.c): one worker       *)
(* thread that owns the driver, and the one control thread that calls the  *)
(* machine API.  The control thread is the session loop of                 *)
(* src/emulator/session/session.c: it dispatches one lifecycle request at  *)
(* a time, learns of its completion through the facts the worker notifies, *)
(* and issues the synchronous media, debug and state requests.             *)
(*                                                                         *)
(* The atomics of the code are sequentially consistent.  A step is one     *)
(* shared access, a region under request_lock, or several accesses whose   *)
(* intermediate states the other thread cannot tell apart; the README      *)
(* says which accesses are joined and why.                                 *)
(***************************************************************************)
EXTENDS Naturals, Sequences

CONSTANTS
    MaxRuns,        \* bound: calls that may begin a run (start, reset, load)
    InputCapacity,  \* events the input queue holds (255 in the code)
    MaxFaults,      \* bound: native synchronization failures
    DebugStops,     \* the driver may report a breakpoint or a trap
    TypeAhead,      \* a monitor line may be submitted while a request is pending
    LatchedStop     \* the driver's stop latch survives its run hook (mynes,
                    \* myraidenii), instead of being consumed by it (x86-nxvm)

ASSUME MaxRunsAssumption == MaxRuns \in Nat \ {0}
ASSUME InputCapacityAssumption == InputCapacity \in Nat \ {0}
ASSUME MaxFaultsAssumption == MaxFaults \in Nat
ASSUME OptionsAssumption ==
    DebugStops \in BOOLEAN /\ TypeAhead \in BOOLEAN /\ LatchedStop \in BOOLEAN

VARIABLES
    state,             \* emulator_machine.state
    flag,              \* the *_requested atomics and reset_active
    input,             \* input_queue: admission, and the run of each event
    driver,            \* what the driver remembers between hooks
    cancelled,         \* the worker task's cancellation
    faults,            \* native failures so far
    run_generation,    \* emulator_machine.run_generation
    frame_generation,  \* published_frame_run_generation
    lease_current,     \* the control thread's lease has the debug_generation
    req,               \* the synchronous request slots
    signaled,          \* the manual-reset events that are signaled
    facts,             \* notified, not yet processed by the session
    wpc, w,            \* the worker's control point and locals
    cpc, op,           \* the control thread's control point and call
    monitor, pending,  \* session: monitor_actual and pending_request
    calls              \* calls so far that may begin a run

failVars    == <<state, flag, input, driver, cancelled, faults>>
runVars     == <<run_generation, frame_generation, lease_current>>
machineVars == <<failVars, runVars, req, signaled, facts>>
workerVars  == <<wpc, w>>
sessionVars == <<monitor, pending, calls>>
controlVars == <<cpc, op, sessionVars>>
vars == <<machineVars, workerVars, controlVars>>

-----------------------------------------------------------------------------
States    == {"STOPPED", "STARTING", "RUNNING", "PAUSED", "ERROR"}
FactKinds == {"STOPPED", "RUNNING", "PAUSED", "ERROR", "RESET_COMPLETED"}
Requests  == {"media", "debug", "state_read", "state_write"}
Lifecycle == {"start", "pause", "resume", "stop", "reset"}
Flags  == {"pause", "stop", "start", "reset", "reset_active", "terminate",
           "restored", "debug_cancel"}
Events == {"command", "resume", "media", "debug", "state"}
None   == "none"

\* The completion event of each synchronous request.
Completion(r) == IF r \in {"state_read", "state_write"} THEN "state" ELSE r

\* The states in which submit_request admits each request.
Allowed(r) == CASE r = "media"       -> {"STOPPED", "PAUSED"}
                [] r = "debug"       -> {"PAUSED"}
                [] r = "state_read"  -> {"RUNNING", "PAUSED"}
                [] r = "state_write" -> {"STOPPED"}

\* Where the worker waits, idles or exits; runs the guest; calls back; parks.
OuterPoints == {"wait", "woken", "serve", "boot", "enter", "announce", "settle",
                "notify", "restart", "exit", "done"}
GuestPoints == {"quantum", "loop", "unwind"}
CallbackPoints == {"callback", "publish", "park", "park_fact", "unpark", "resume_fact"}
ParkPoints == {"parked", "park_wait", "resume_woken", "command_woken", "park_serve",
               "park_read"}
WorkerPoints == OuterPoints \cup GuestPoints \cup CallbackPoints \cup ParkPoints

ControlPoints == {"idle", "reset_stop", "stop_pause", "stop_driver", "submit", "await",
                  "join", "refused", "terminate", "terminate_join", "ended"}

Whys == {None, "boot", "stopped", "unwind", "restart", "wait", "exit"}

-----------------------------------------------------------------------------
(***************************************************************************)
(* Helpers on the shared state.                                            *)
(***************************************************************************)
Set(f, b) == flag' = [flag EXCEPT ![f] = b]

\* emulator_machine_notify_state: the sink queues the fact for the session.
Notify(fact) == facts' = Append(facts, [kind |-> fact, run |-> run_generation])

\* A base_sync_* call fails natively, within the fault bound.
Fault == faults < MaxFaults /\ faults' = faults + 1

\* Seeded fault: admission is never closed.
CloseInputNot == UNCHANGED input

\* emulator_machine_close_input.
CloseInput == input' = [input EXCEPT !.accepting = FALSE]

\* Seeded fault: the exchange compares and does not store.
ExchangeOnlyCompares(from, to) == state = from /\ state' \in {from}

\* The compare-exchange of the machine's state, when it succeeds.
Exchange(from, to) == state = from /\ state' = to

\* Seeded fault: the reset of one event resets both.
EventResetBoth(event) == signaled' = signaled \ {"resume", "command"}

\* The waiter resets the manual-reset event that woke it.
EventReset(event) == signaled' = signaled \ {event}

\* Seeded fault: a native failure does not stop the driver.
FailSyncKeepsRunning(f) ==
    /\ CloseInput
    /\ state' = "ERROR"
    /\ flag' = [f EXCEPT !["reset"] = FALSE, !["stop"] = TRUE, !["terminate"] = TRUE]
    /\ UNCHANGED driver
    /\ cancelled' = TRUE

\* emulator_machine_fail_sync, after the flags f.
FailSyncAfter(f) ==
    /\ CloseInput
    /\ state' = "ERROR"
    /\ flag' = [f EXCEPT !["reset"] = FALSE, !["stop"] = TRUE, !["terminate"] = TRUE]
    /\ driver' = [driver EXCEPT !.stop = TRUE]
    /\ cancelled' = TRUE

FailSync == FailSyncAfter(flag)

\* Seeded fault: a completion that cannot be signaled is ignored.
CompleteOrIgnore(events) ==
    \/ signaled' = signaled \cup events /\ UNCHANGED failVars
    \/ Fault /\ UNCHANGED <<signaled, state, flag, input, driver, cancelled>>

\* complete_request: signal the events, or fail natively.
Complete(events) ==
    \/ signaled' = signaled \cup events /\ UNCHANGED failVars
    \/ events # {} /\ Fault /\ FailSync /\ UNCHANGED signaled

\* The worker's locals when its loop waits; failure_notified survives a run.
Locals(notified) == [ok |-> TRUE, suppress |-> FALSE, terminal |-> "STOPPED",
                     why |-> None, notified |-> notified]

\* emulator_machine_create: the worker waits for its first command.
Init ==
    /\ state = "STOPPED"
    /\ flag = [f \in Flags |-> FALSE]
    /\ input = [accepting |-> FALSE, events |-> <<>>]
    /\ driver = [stop |-> FALSE, heartbeat |-> FALSE, capture |-> None]
    /\ cancelled = FALSE /\ faults = 0
    /\ run_generation = 0 /\ frame_generation = 0 /\ lease_current = FALSE
    /\ req = [requested |-> {}, armed |-> FALSE, ready |-> FALSE,
              waiting |-> FALSE, continuing |-> FALSE, debugged |-> FALSE]
    /\ signaled = {} /\ facts = <<>>
    /\ wpc = "wait" /\ w = Locals(FALSE)
    /\ cpc = "idle" /\ op = None
    /\ monitor = "STOPPED" /\ pending = None /\ calls = 0

\* Seeded fault: the queue keeps its events.
KeptQueue == input.events

\* emulator_machine_input_queue_clear.
ClearedQueue == <<>>

\* begin_cold_run and the wake that follows, for start, for reset of a stopped
\* machine, for the worker's restart, and for a loaded image: discard the old
\* run's lease, input and frames, publish the new generation, ask for its
\* start.  A loaded image has also retired the driver's stop latch.
BeginRun(kind) ==
    LET restored == kind = "load"
    IN /\ lease_current' = FALSE
       /\ frame_generation' = 0
       /\ run_generation' = run_generation + 1
       /\ \E fails \in BOOLEAN :
            /\ IF fails THEN Fault ELSE UNCHANGED faults
            /\ input' = [accepting |-> restored /\ input.accepting /\ ~fails,
                         events |-> ClearedQueue]
            /\ state' = IF fails THEN "ERROR" ELSE "STARTING"
            /\ flag' = [flag EXCEPT !["pause"] = kind # "start", !["start"] = TRUE,
                          !["restored"] = @ \/ restored,
                          !["reset_active"] = IF kind = "reset" THEN ~fails ELSE @,
                          !["reset"] = @ /\ ~fails, !["stop"] = fails,
                          !["terminate"] = @ \/ fails]
            /\ driver' = [driver EXCEPT !.stop = fails \/ (@ /\ ~restored)]
            /\ cancelled' = (cancelled \/ fails)
            /\ signaled' = IF fails THEN signaled ELSE signaled \cup {"command"}

-----------------------------------------------------------------------------
(***************************************************************************)
(* The synchronous requests, as the worker serves them.                    *)
(***************************************************************************)
\* take_request: claimed under request_lock, and never after terminate.
Taken(r) == r \in req.requested /\ ~flag["terminate"]

ServiceMedia ==
    /\ Taken("media")
    /\ req' = [req EXCEPT !.requested = @ \ {"media"}]
    /\ Complete({"media"})

\* Seeded fault: a resume that has come does not keep the debugger out.
DebugAllowedAfterResume == state = "PAUSED" /\ lease_current

\* The driver is called only for the paused executor and a lease that no
\* lifecycle change has invalidated.
DebugAllowed == state = "PAUSED" /\ flag["pause"] /\ lease_current

ServiceDebug ==
    /\ Taken("debug")
    /\ req' = [req EXCEPT !.requested = @ \ {"debug"}, !.debugged = DebugAllowed]
    /\ Complete({"debug"})

\* service_state_read, after the flags f: arm the capture once, poll its
\* result, and ask for a pause as soon as the result, or a refusal, is there.
\* A capture that is not immediate is busy until the guest reaches a
\* checkpoint.
Captures == IF req.armed THEN {driver.capture} ELSE {"ready", "busy"}

\* Seeded fault: a finished capture does not ask for the pause.
PausesNot(f, ready) == f

PausesWhen(f, ready) == [f EXCEPT !["pause"] = @ \/ ready]

ServiceStateRead(capture, f) ==
    LET ready == req.ready \/ capture = "ready"
    IN IF Taken("state_read")
       THEN /\ req' = [req EXCEPT !.armed = TRUE, !.ready = ready]
            /\ driver' = [driver EXCEPT !.capture = IF ready THEN None ELSE capture]
            /\ flag' = PausesWhen(f, ready)
       ELSE flag' = f /\ UNCHANGED <<req, driver>>

\* complete_state_read clears the whole capture.
ReadDone(r) == [r EXCEPT !.requested = @ \ {"state_read"}, !.armed = FALSE, !.ready = FALSE]

-----------------------------------------------------------------------------
(***************************************************************************)
(* The worker: emulator_machine_worker.                                    *)
(***************************************************************************)
WorkerGoto(from, to) == wpc = from /\ wpc' = to /\ UNCHANGED controlVars

\* finish_requests begins: close the input and look for an ERROR to keep.
Finish(why, terminal) ==
    /\ wpc' = "settle"
    /\ w' = [w EXCEPT !.why = why, !.terminal = IF state = "ERROR" THEN "ERROR" ELSE terminal]
    /\ CloseInput
    /\ UNCHANGED controlVars

WorkerWait ==
    /\ wpc = "wait"
    /\ UNCHANGED <<runVars, req, signaled, facts, state, flag, driver, cancelled>>
    /\ \/ cancelled /\ WorkerGoto("wait", "exit") /\ UNCHANGED <<w, input, faults>>
       \/ /\ ~cancelled /\ "command" \in signaled
          /\ WorkerGoto("wait", "woken") /\ UNCHANGED <<w, input, faults>>
       \/ Fault /\ Finish("wait", "ERROR")

\* Reset the command event before looking at any request; service_debug
\* takes a cancellation first, which only the driver's debug plan sees.
WorkerWoken ==
    /\ UNCHANGED <<w, runVars, req, facts>>
    /\ \/ /\ WorkerGoto("woken", "serve")
          /\ EventReset("command")
          /\ Set("debug_cancel", FALSE)
          /\ UNCHANGED <<state, input, driver, cancelled, faults>>
       \/ WorkerGoto("woken", "exit") /\ Fault /\ FailSync /\ UNCHANGED signaled

\* Outside a run the worker answers media, loads an image or starts; one pass
\* serves one of them, and a second command event brings the next pass.
WorkerServe ==
    /\ wpc = "serve" /\ UNCHANGED <<w, facts, controlVars>>
    /\ \/ /\ flag["terminate"] /\ wpc' = "exit"
          /\ UNCHANGED <<failVars, runVars, req, signaled>>
       \/ ServiceDebug /\ wpc' = "serve" /\ UNCHANGED runVars
       \/ ServiceMedia /\ wpc' = "wait" /\ UNCHANGED runVars
       \/ /\ Taken("state_write") /\ wpc' = "wait"    \* the driver refuses the image
          /\ req' = [req EXCEPT !.requested = @ \ {"state_write"}]
          /\ Complete({"state"})
          /\ UNCHANGED runVars
       \/ /\ Taken("state_write") /\ wpc' = "wait"    \* and here it takes it
          /\ req' = [req EXCEPT !.requested = @ \ {"state_write"}, !.waiting = TRUE]
          /\ BeginRun("load")
       \/ /\ ~flag["terminate"] /\ req.requested \cap {"debug", "media", "state_write"} = {}
          /\ wpc' = IF flag["start"] THEN "boot" ELSE "wait"
          /\ Set("start", FALSE)
          /\ UNCHANGED <<runVars, req, signaled, state, input, driver, cancelled, faults>>

\* driver.reset clears the stop latch or fails; a restored run skips it.  A
\* stop that came meanwhile ends the run before it begins.
WorkerBoot ==
    /\ wpc = "boot"
    /\ \/ /\ ~flag["restored"] /\ Finish("boot", "ERROR")
          /\ UNCHANGED <<flag, driver>>
       \/ /\ Set("restored", FALSE)
          /\ driver' = [driver EXCEPT !.stop = @ /\ flag["restored"]]
          /\ \/ flag["stop"] /\ Finish("stopped", "STOPPED")
             \/ ~flag["stop"] /\ WorkerGoto("boot", "enter") /\ UNCHANGED <<w, input>>
    /\ UNCHANGED <<runVars, req, signaled, facts, state, cancelled, faults>>

\* Enable the heartbeat; STARTING becomes RUNNING.
WorkerEnter ==
    /\ \/ /\ Exchange("STARTING", "RUNNING")
          /\ WorkerGoto("enter", "announce")
          /\ driver' = [driver EXCEPT !.heartbeat = TRUE]
       \/ /\ state # "STARTING"
          /\ WorkerGoto("enter", "exit")
          /\ driver' = [driver EXCEPT !.heartbeat = FALSE]
          /\ UNCHANGED state
    /\ UNCHANGED <<w, runVars, req, signaled, facts, flag, input, cancelled, faults>>

\* Admit input unless the run begins paused, and announce it unless a reset
\* or a pause will.
WorkerAnnounce ==
    /\ WorkerGoto("announce", "callback")
    /\ input' = [input EXCEPT !.accepting = ~flag["pause"]]
    /\ IF ~flag["reset_active"] /\ ~flag["pause"] THEN Notify("RUNNING") ELSE UNCHANGED facts
    /\ UNCHANGED <<w, runVars, req, signaled, state, flag, driver, cancelled, faults>>

-----------------------------------------------------------------------------
(***************************************************************************)
(* The executor callback: emulator_machine_executor_event, which the       *)
(* driver calls between quanta and in which a paused machine parks.        *)
(***************************************************************************)
\* Seeded fault: the test reads pause_requested before the capture sets it.
FrozenTooEarly == flag["pause"] \/ flag["stop"]

\* A pause, one just asked for included, or a stop is wanted.
Frozen == flag'["pause"] \/ flag["stop"]

\* A debug stop asks for a pause, unless a cancellation wins; then the state
\* capture; then admission closes if a pause or stop is wanted, else one
\* input event is delivered.
CallbackEntry ==
    /\ WorkerGoto("callback", "publish")
    /\ \E hit \in {FALSE, DebugStops /\ ~flag["debug_cancel"]}, capture \in Captures :
         ServiceStateRead(capture, [flag EXCEPT !["debug_cancel"] = FALSE,
                                                !["pause"] = @ \/ hit])
    /\ \/ Frozen /\ CloseInput
       \/ /\ ~Frozen
          /\ input' = IF state = "RUNNING" /\ input.events # <<>>
                      THEN [input EXCEPT !.events = Tail(@)] ELSE input
    /\ w' = [w EXCEPT !.suppress = FALSE]
    /\ UNCHANGED <<runVars, signaled, facts, state, cancelled, faults>>

\* Seeded fault: the capture ends with its first callback.
CaptureEndsAtOnce == req.continuing

\* A capture that left the pause has its result.
CaptureEnds == req.continuing /\ req.ready

\* publish: a frame, or none, or a failure that ends the run in ERROR.  A
\* capture that left the pause returns to it without a second PAUSED fact.
CallbackPublish ==
    /\ wpc = "publish" /\ UNCHANGED controlVars
    /\ \/ /\ wpc' = IF flag["pause"] /\ ~flag["stop"] THEN "park" ELSE "quantum"
          /\ frame_generation' \in {frame_generation, run_generation}
          /\ w' = [w EXCEPT !.suppress = CaptureEnds]
          /\ req' = [req EXCEPT !.continuing = @ /\ ~CaptureEnds]
          /\ UNCHANGED <<state, flag, input, driver>>
       \/ /\ wpc' = "quantum"
          /\ CloseInput
          /\ state' = "ERROR"
          /\ flag' = [flag EXCEPT !["reset"] = FALSE, !["stop"] = TRUE]
          /\ driver' = [driver EXCEPT !.stop = TRUE]
          /\ UNCHANGED <<w, req, frame_generation>>
    /\ UNCHANGED <<run_generation, lease_current, signaled, facts, cancelled, faults>>

\* Close input and, unless a stop has come, disable the heartbeat and park.
CallbackPark ==
    /\ wpc = "park" /\ UNCHANGED controlVars
    /\ CloseInput
    /\ driver' = [driver EXCEPT !.heartbeat = @ /\ flag["stop"]]
    /\ LET expected == IF w.suppress THEN "PAUSED" ELSE "RUNNING"
       IN \/ ~flag["stop"] /\ Exchange(expected, "PAUSED") /\ wpc' = "park_fact"
          \/ (flag["stop"] \/ state # expected) /\ UNCHANGED state /\ wpc' = "quantum"
    /\ UNCHANGED <<w, runVars, req, signaled, facts, flag, cancelled, faults>>

\* Seeded fault: the pause that ends any capture is not reported.
ReportsPauseUnlessReading == ~req.ready

\* A capture that left the pause returns to it silently.
ReportsPause == ~w.suppress

\* The fact of the pause, then the answers to a finished capture and to the
\* caller of a restored run.
CallbackParkFact ==
    /\ WorkerGoto("park_fact", "parked")
    /\ CASE flag["reset_active"]                  -> Notify("RESET_COMPLETED")
         [] ~flag["reset_active"] /\ ReportsPause -> Notify("PAUSED")
         [] OTHER                                 -> UNCHANGED facts
    /\ LET read == req.ready /\ "state_read" \in req.requested
       IN /\ req' = [(IF read THEN ReadDone(req) ELSE req) EXCEPT !.waiting = FALSE]
          /\ \/ /\ signaled' = signaled \cup (IF read \/ req.waiting THEN {"state"} ELSE {})
                /\ Set("reset_active", FALSE)
                /\ UNCHANGED <<state, input, driver, cancelled, faults>>
             \/ /\ read \/ req.waiting
                /\ Fault /\ FailSyncAfter([flag EXCEPT !["reset_active"] = FALSE])
                /\ UNCHANGED signaled
    /\ UNCHANGED <<w, runVars>>

CallbackParked ==
    /\ WorkerGoto("parked", IF flag["pause"] /\ ~flag["stop"] THEN "park_wait" ELSE "unpark")
    /\ UNCHANGED <<machineVars, w>>

\* Cancellation wins, then the resume event, then the command event.
CallbackParkWait ==
    /\ UNCHANGED <<w, runVars, req, signaled, facts, input, cancelled>>
    /\ \/ /\ ~cancelled /\ signaled \cap {"resume", "command"} # {}
          /\ WorkerGoto("park_wait",
                        IF "resume" \in signaled THEN "resume_woken" ELSE "command_woken")
          /\ UNCHANGED <<state, flag, driver, faults>>
       \/ /\ \/ cancelled /\ UNCHANGED <<state, faults>>
             \/ Fault /\ state' = "ERROR"
          /\ WorkerGoto("park_wait", "unpark")
          /\ flag' = [flag EXCEPT !["reset"] = FALSE, !["stop"] = TRUE]
          /\ driver' = [driver EXCEPT !.stop = TRUE]

\* Reset the event that woke the executor, then test the loop condition again
\* or, for a command, serve it.
CallbackWoken ==
    /\ UNCHANGED <<w, runVars, req, facts>>
    /\ \/ /\ WorkerGoto("resume_woken", "parked")
          /\ EventReset("resume")
          /\ UNCHANGED failVars
       \/ /\ WorkerGoto("command_woken", "park_serve")
          /\ EventReset("command")
          /\ Set("debug_cancel", FALSE)
          /\ UNCHANGED <<state, input, driver, cancelled, faults>>
       \/ /\ WorkerGoto("resume_woken", "unpark") \/ WorkerGoto("command_woken", "unpark")
          /\ Fault /\ FailSync
          /\ UNCHANGED signaled

\* service_media, service_debug, service_state_read: the one control caller
\* has at most one of these requests outstanding.
CallbackParkServe ==
    /\ WorkerGoto("park_serve", "park_read")
    /\ \/ ServiceMedia
       \/ ServiceDebug
       \/ /\ ~Taken("media") /\ ~Taken("debug")
          /\ \E capture \in Captures : ServiceStateRead(capture, flag)
          /\ UNCHANGED <<state, input, signaled, cancelled, faults>>
    /\ UNCHANGED <<w, runVars, facts>>

\* Answer a finished capture; one that needs guest execution leaves the pause.
CallbackParkRead ==
    /\ WorkerGoto("park_read", "parked")
    /\ \/ /\ "state_read" \notin req.requested
          /\ UNCHANGED <<failVars, req, signaled>>
       \/ /\ "state_read" \in req.requested /\ req.ready
          /\ req' = ReadDone(req)
          /\ Complete({"state"})
       \/ /\ "state_read" \in req.requested /\ ~req.ready
          /\ req' = [req EXCEPT !.continuing = TRUE]
          /\ Set("pause", FALSE)
          /\ UNCHANGED <<state, input, driver, cancelled, faults, signaled>>
    /\ UNCHANGED <<w, runVars, facts>>

\* Leave the pause: a stop unwinds, a capture continues without a fact, and
\* otherwise PAUSED becomes RUNNING.
CallbackUnpark ==
    /\ wpc = "unpark" /\ UNCHANGED controlVars
    /\ \/ /\ flag["stop"] \/ req.continuing
          /\ wpc' = "quantum"
          /\ driver' = [driver EXCEPT !.heartbeat = @ \/ ~flag["stop"]]
          /\ UNCHANGED state
       \/ /\ ~flag["stop"] /\ ~req.continuing /\ Exchange("PAUSED", "RUNNING")
          /\ wpc' = "resume_fact"
          /\ driver' = [driver EXCEPT !.heartbeat = TRUE]
       \/ /\ ~flag["stop"] /\ ~req.continuing /\ state # "PAUSED"
          /\ wpc' = "quantum"
          /\ driver' = [driver EXCEPT !.heartbeat = FALSE]
          /\ UNCHANGED state
    /\ UNCHANGED <<w, runVars, req, signaled, facts, flag, input, cancelled, faults>>

\* Admit input again and announce the resumed run.
CallbackResumeFact ==
    /\ WorkerGoto("resume_fact", "quantum")
    /\ input' = [input EXCEPT !.accepting = TRUE]
    /\ Notify("RUNNING")
    /\ UNCHANGED <<w, runVars, req, signaled, state, flag, driver, cancelled, faults>>

-----------------------------------------------------------------------------
(***************************************************************************)
(* The driver's run hook, as x86-nxvm, mynes and myraidenii provide it:    *)
(* it calls the callback before any guest work, returns once its stop      *)
(* latch is set, and may also return early or fail.                        *)
(***************************************************************************)
RunQuantum ==
    /\ \/ ~driver.stop /\ WorkerGoto("quantum", "callback") /\ UNCHANGED <<w, driver>>
       \/ /\ WorkerGoto("quantum", "loop")
          /\ \E ok \in BOOLEAN : w' = [w EXCEPT !.ok = ok]
          /\ driver' = [driver EXCEPT !.stop = @ /\ LatchedStop]
    /\ UNCHANGED <<runVars, req, signaled, facts, state, flag, input, cancelled, faults>>

\* A capture in progress reaches its safe boundary while the guest runs.
DriverCheckpoint ==
    /\ wpc = "quantum" /\ driver.capture = "busy" /\ ~driver.stop
    /\ driver' = [driver EXCEPT !.capture = "ready"]
    /\ UNCHANGED <<controlVars, workerVars, runVars, req, signaled, facts, state, flag, input,
                   cancelled, faults>>

\* The worker calls run again until it fails or the run is to end.
RunLoop ==
    /\ WorkerGoto("loop", IF w.ok /\ ~flag["stop"] /\ ~flag["terminate"]
                          THEN "callback" ELSE "unwind")
    /\ UNCHANGED <<machineVars, w>>

\* Seeded fault: a successful unwind hides a failure of the executor.
SucceededAnyway == w.ok

\* The driver's run succeeded and no callback failed.
Succeeded == w.ok /\ state # "ERROR"

\* After the run: a requested reset restarts, anything else ends it.
WorkerUnwind ==
    /\ wpc = "unwind"
    /\ driver' = [driver EXCEPT !.heartbeat = FALSE]
    /\ lease_current' = FALSE
    /\ \/ Succeeded /\ flag["reset"] /\ Set("reset", FALSE) /\ Finish("restart", "STARTING")
       \/ Succeeded /\ ~flag["reset"] /\ UNCHANGED flag /\ Finish("unwind", "STOPPED")
       \/ ~Succeeded /\ UNCHANGED flag /\ Finish("unwind", "ERROR")
    /\ UNCHANGED <<run_generation, frame_generation, req, signaled, facts, state, cancelled,
                   faults>>

\* Seeded fault: the caller of a loaded image is forgotten.
WaitersButLoad == {Completion(r) : r \in req.requested}

\* The completion events of all callers that still wait for an answer.
Waiters == {Completion(r) : r \in req.requested} \cup (IF req.waiting THEN {"state"} ELSE {})

\* finish_requests stores the state and answers every registered request.
WorkerSettle ==
    /\ WorkerGoto("settle", IF w.why = "restart" THEN "restart" ELSE "notify")
    /\ req' = [(IF "state_read" \in req.requested
                THEN [ReadDone(req) EXCEPT !.continuing = FALSE] ELSE req)
                 EXCEPT !.requested = {}, !.waiting = FALSE]
    /\ \/ /\ state' = w.terminal
          /\ signaled' = signaled \cup Waiters
          /\ UNCHANGED <<flag, input, driver, cancelled, faults>>
       \/ Waiters # {} /\ Fault /\ FailSync /\ UNCHANGED signaled
    /\ UNCHANGED <<w, runVars, facts>>

\* The fact that follows finish_requests.
TerminalFact ==
    CASE w.why \in {"boot", "wait"} -> "ERROR"
      [] w.why = "stopped" -> IF state = "ERROR" THEN "ERROR" ELSE "STOPPED"
      [] w.why = "unwind"  -> w.terminal
      [] w.why = "exit"    -> IF ~w.notified /\ state = "ERROR" THEN "ERROR" ELSE None

WorkerNotify ==
    /\ WorkerGoto("notify", CASE w.why = "wait" -> "exit"
                              [] w.why = "exit" -> "done"
                              [] OTHER          -> "wait")
    /\ IF TerminalFact = None THEN UNCHANGED facts ELSE Notify(TerminalFact)
    /\ w' = Locals(IF TerminalFact = None THEN w.notified ELSE TerminalFact = "ERROR")
    /\ UNCHANGED <<failVars, runVars, req, signaled>>

\* A reset begins the next run itself, paused.
WorkerRestart ==
    /\ WorkerGoto("restart", "wait")
    /\ BeginRun("restart")
    /\ w' = Locals(w.notified)
    /\ UNCHANGED <<req, facts>>

WorkerExit ==
    /\ wpc = "exit"
    /\ Set("terminate", TRUE)
    /\ Finish("exit", state)
    /\ UNCHANGED <<runVars, req, signaled, facts, state, driver, cancelled, faults>>

-----------------------------------------------------------------------------
(***************************************************************************)
(* The control thread: the session loop and the API calls it makes.  A     *)
(* call that returns FALSE ends the session (point "refused").             *)
(***************************************************************************)
ControlGoto(from, to) == cpc = from /\ cpc' = to /\ UNCHANGED <<workerVars, sessionVars>>
Returns == op' = None

\* process_completed: a fact of an earlier run is dropped; any other updates
\* monitor_actual and ends the pending request.
TakeFact ==
    /\ cpc = "idle" /\ facts # <<>>
    /\ facts' = Tail(facts)
    /\ LET fact == Head(facts)
       IN IF fact.run \in {0, run_generation}
          THEN /\ monitor' = IF fact.kind = "RESET_COMPLETED" THEN "PAUSED" ELSE fact.kind
               /\ pending' = None
          ELSE UNCHANGED <<monitor, pending>>
    /\ UNCHANGED <<workerVars, cpc, op, calls, failVars, runVars, req, signaled>>

\* The monitor states in which the product offers each operation.
Offered(o) ==
    monitor \in CASE o = "start"  -> {"STOPPED"}
                  [] o = "pause"  -> {"RUNNING"}
                  [] o = "resume" -> {"PAUSED"}
                  [] o = "stop"   -> {"RUNNING", "PAUSED"}
                  [] o = "reset"  -> {"STOPPED", "RUNNING", "PAUSED"}
                  [] OTHER        -> Allowed(o)

\* The states in which the machine accepts each lifecycle call (stop of a
\* stopped machine succeeds without effect).
Accepted(o) ==
    state \in CASE o = "start"  -> {"STOPPED"}
                [] o = "pause"  -> {"RUNNING"}
                [] o = "resume" -> {"PAUSED"}
                [] o = "stop"   -> {"STOPPED", "STARTING", "RUNNING", "PAUSED"}
                [] o = "reset"  -> {"STOPPED", "RUNNING", "PAUSED"}

\* apply_result and dispatch_request: only when no request is pending, and
\* refusal ends the session.
Dispatch(o) ==
    /\ cpc = "idle" /\ Offered(o) /\ pending = None
    /\ calls' = IF o \in {"start", "reset"} THEN calls + 1 ELSE calls
    /\ calls' <= MaxRuns
    /\ pending' = IF Accepted(o) THEN o ELSE None
    /\ UNCHANGED <<workerVars, monitor, req, facts>>

Refuse(o) ==
    /\ Dispatch(o) /\ ~Accepted(o)
    /\ cpc' = "refused" /\ Returns
    /\ UNCHANGED <<failVars, runVars, signaled>>

\* A failed wake makes start or reset return FALSE.
CallStart ==
    /\ Dispatch("start") /\ Accepted("start")
    /\ BeginRun("start")
    /\ cpc' = IF state' = "ERROR" THEN "refused" ELSE "idle"
    /\ Returns

CallPause ==
    /\ Dispatch("pause") /\ Accepted("pause")
    /\ Set("pause", TRUE)
    /\ cpc' = "idle" /\ Returns
    /\ UNCHANGED <<runVars, signaled, state, input, driver, cancelled, faults>>

\* Seeded fault: nobody signals the parked executor.
WakeParkedNot == UNCHANGED signaled

WakeParked == signaled' = signaled \cup {"resume"}

\* Clear the pause and wake the executor, or fail natively and refuse.
ReleasePause(to) ==
    \/ /\ Set("pause", FALSE)
       /\ WakeParked
       /\ cpc' = to
       /\ UNCHANGED <<state, input, driver, cancelled, faults>>
    \/ /\ Fault
       /\ FailSyncAfter([flag EXCEPT !["pause"] = FALSE])
       /\ cpc' = IF op = "exit" THEN "terminate" ELSE "refused"
       /\ UNCHANGED signaled

CallResume ==
    /\ Dispatch("resume") /\ Accepted("resume")
    /\ lease_current' = FALSE
    /\ ReleasePause("idle") /\ Returns
    /\ UNCHANGED <<run_generation, frame_generation>>

CallStop ==
    /\ Dispatch("stop") /\ Accepted("stop")
    /\ \/ /\ state = "STOPPED"
          /\ cpc' = "idle" /\ Returns
          /\ UNCHANGED <<failVars, lease_current>>
       \/ /\ state # "STOPPED"
          /\ cpc' = "stop_pause" /\ op' = "stop"
          /\ Set("stop", TRUE)
          /\ lease_current' = FALSE
          /\ UNCHANGED <<state, input, driver, cancelled, faults>>
    /\ UNCHANGED <<run_generation, frame_generation, signaled>>

\* A stopped machine begins a paused run here; a live one is stopped, and its
\* worker begins the run.  reset_active is set first in both cases.
CallReset ==
    /\ Dispatch("reset") /\ Accepted("reset")
    /\ \/ /\ state = "STOPPED"
          /\ BeginRun("reset")
          /\ cpc' = IF state' = "ERROR" THEN "refused" ELSE "idle"
          /\ Returns
       \/ /\ state # "STOPPED"
          /\ cpc' = "reset_stop" /\ op' = "reset"
          /\ Set("reset_active", TRUE)
          /\ lease_current' = FALSE
          /\ UNCHANGED <<run_generation, frame_generation, signaled, state, input, driver,
                         cancelled, faults>>

ResetStop ==
    /\ ControlGoto("reset_stop", "stop_pause")
    /\ flag' = [flag EXCEPT !["reset"] = TRUE, !["stop"] = TRUE]
    /\ UNCHANGED <<op, runVars, req, signaled, facts, state, input, driver, cancelled, faults>>

StopPause ==
    /\ cpc = "stop_pause"
    /\ ReleasePause("stop_driver")
    /\ UNCHANGED <<workerVars, sessionVars, op, runVars, req, facts>>

StopDriver ==
    /\ ControlGoto("stop_driver", CASE op = "exit" -> "terminate"
                                    [] op = "quit" -> "refused"
                                    [] OTHER       -> "idle")
    /\ driver' = [driver EXCEPT !.stop = TRUE]
    /\ op' = IF op = "exit" THEN op ELSE None
    /\ UNCHANGED <<runVars, req, signaled, facts, state, flag, input, cancelled, faults>>

\* A monitor line for a synchronous request: nothing in apply_result keeps
\* it back while a lifecycle request is pending.  debug acquires a lease.
CallRequest(r) ==
    /\ cpc = "idle" /\ Offered(r)
    /\ pending = None \/ TypeAhead
    /\ calls' = IF r = "state_write" THEN calls + 1 ELSE calls
    /\ calls' <= MaxRuns
    /\ cpc' = "submit" /\ op' = r
    /\ lease_current' = IF r = "debug" THEN state = "PAUSED" ELSE lease_current
    /\ UNCHANGED <<workerVars, monitor, pending, failVars, run_generation, frame_generation,
                   req, signaled, facts>>

\* The checks of submit_request and, for debug, of its caller.
Admitted(r) == ~flag["terminate"] /\ state \in Allowed(r) /\ (r = "debug" => lease_current)

\* submit_request, under request_lock: register and wake, or refuse.
Submit ==
    /\ cpc = "submit"
    /\ \/ /\ Admitted(op)
          /\ ControlGoto("submit", "await")
          /\ req' = [req EXCEPT !.requested = @ \cup {op}, !.debugged = FALSE]
          /\ signaled' = (signaled \ {Completion(op)}) \cup {"command"}
          /\ UNCHANGED <<op, faults>>
       \/ /\ (~Admitted(op) /\ UNCHANGED faults) \/ Fault
          /\ ControlGoto("submit", "idle") /\ Returns
          /\ UNCHANGED <<req, signaled>>
    /\ UNCHANGED <<runVars, facts, state, flag, input, driver, cancelled>>

\* wait_request: the completion event, the worker's cancellation, or a
\* native failure; the last two join the worker.
Await ==
    /\ \/ /\ ~cancelled /\ Completion(op) \in signaled
          /\ ControlGoto("await", "idle") /\ Returns
          /\ UNCHANGED failVars
       \/ /\ cancelled
          /\ ControlGoto("await", "join") /\ UNCHANGED <<op, failVars>>
       \/ ControlGoto("await", "join") /\ Fault /\ FailSync /\ UNCHANGED op
    /\ UNCHANGED <<runVars, req, signaled, facts>>

Join ==
    /\ wpc = "done"
    /\ ControlGoto("join", "idle") /\ Returns
    /\ UNCHANGED machineVars

\* Seeded fault: the full queue admits one event more.
QueueFullTooLate == Len(input.events) > InputCapacity

\* emulator_machine_input_queue_push: LIMIT_EXCEEDED.
QueueFull == Len(input.events) = InputCapacity

\* enqueue_input for a key or mouse event: a closed queue swallows the event,
\* a full one ends the session.
EnqueueInput ==
    /\ monitor = "RUNNING"
    /\ LET full == input.accepting /\ QueueFull
       IN /\ ControlGoto("idle", IF full THEN "refused" ELSE "idle")
          /\ input' = IF input.accepting /\ ~full
                      THEN [input EXCEPT !.events = Append(@, run_generation)] ELSE input
    /\ UNCHANGED <<op, runVars, req, signaled, facts, state, flag, driver, cancelled, faults>>

\* debug_cancel is allowed in every state.
DebugCancel ==
    /\ ControlGoto("idle", "idle")
    /\ \/ /\ Set("debug_cancel", TRUE)
          /\ signaled' = signaled \cup {"command"}
          /\ UNCHANGED <<state, input, driver, cancelled, faults>>
       \/ Fault /\ FailSync /\ UNCHANGED signaled
    /\ UNCHANGED <<op, runVars, req, facts>>

\* The stop that emulator_machine_stop begins for an exit line and again for
\* shutdown; a stopped or failed machine needs none.
BeginStop(call, unneeded) ==
    /\ op' = call
    /\ lease_current' = (lease_current /\ call = "quit" /\ state \in {"STOPPED", "ERROR"})
    /\ \/ /\ state \in {"STOPPED", "ERROR"}
          /\ cpc' = unneeded /\ UNCHANGED flag
       \/ /\ state \notin {"STOPPED", "ERROR"}
          /\ cpc' = "stop_pause" /\ Set("stop", TRUE)
    /\ UNCHANGED <<workerVars, sessionVars, run_generation, frame_generation, req, signaled,
                   facts, state, input, driver, cancelled, faults>>

\* An exit line stops the machine and ends the session loop.
Quit == cpc = "idle" /\ BeginStop("quit", "refused")

\* The loop has returned and the product shuts the machine down: stop, then
\* terminate, wake, cancel, join.
Exit == cpc = "refused" /\ BeginStop("exit", "terminate")

\* Seeded fault: shutdown only stores the flag.
TerminateSilently ==
    /\ ControlGoto("terminate", "terminate_join")
    /\ Set("terminate", TRUE)
    /\ UNCHANGED <<op, runVars, req, facts, state, input, driver, faults, signaled, cancelled>>

Terminate ==
    /\ ControlGoto("terminate", "terminate_join")
    /\ Set("terminate", TRUE)
    /\ signaled' = signaled \cup {"resume", "command"}
    /\ cancelled' = TRUE
    /\ UNCHANGED <<op, runVars, req, facts, state, input, driver, faults>>

TerminateJoin ==
    /\ wpc = "done"
    /\ ControlGoto("terminate_join", "ended")
    /\ UNCHANGED <<machineVars, op>>

\* The session loop has returned, or is about to.
SessionOver == cpc = "refused" \/ op \in {"quit", "exit"}

-----------------------------------------------------------------------------
Worker ==
    \/ WorkerWait \/ WorkerWoken \/ WorkerServe \/ WorkerBoot \/ WorkerEnter
    \/ WorkerAnnounce \/ WorkerUnwind \/ WorkerSettle \/ WorkerNotify \/ WorkerRestart
    \/ WorkerExit

ExecutorEvent ==
    \/ CallbackEntry \/ CallbackPublish \/ CallbackPark \/ CallbackParkFact
    \/ CallbackParked \/ CallbackParkWait \/ CallbackWoken \/ CallbackParkServe
    \/ CallbackParkRead \/ CallbackUnpark \/ CallbackResumeFact

Driver == RunQuantum \/ RunLoop

WorkerThread == Worker \/ ExecutorEvent \/ Driver

\* What a call in progress still has to do.
ControlProgress ==
    \/ ResetStop \/ StopPause \/ StopDriver \/ Submit \/ Await \/ Join
    \/ Exit \/ Terminate \/ TerminateJoin

\* What the user may ask for.
User ==
    \/ \E o \in Lifecycle : Refuse(o)
    \/ CallStart \/ CallPause \/ CallResume \/ CallStop \/ CallReset
    \/ \E r \in Requests : CallRequest(r)
    \/ EnqueueInput \/ DebugCancel \/ Quit

\* The machine is destroyed; nothing happens any more.
Ended == cpc = "ended" /\ UNCHANGED vars

Next == WorkerThread \/ DriverCheckpoint \/ TakeFact \/ User \/ ControlProgress \/ Ended

Spec == Init /\ [][Next]_vars

\* The threads run; the session takes its queue; a call goes on, and a refused
\* one ends in shutdown; a capture whose guest keeps executing reaches its
\* checkpoint.  The user owes nothing.
Fairness ==
    /\ WF_vars(WorkerThread) /\ WF_vars(TakeFact)
    /\ WF_vars(ControlProgress)
    /\ SF_vars(DriverCheckpoint)

FairSpec == Spec /\ Fairness

-----------------------------------------------------------------------------
\* Every variable has its type.
TypeOK ==
    /\ state \in States
    /\ flag \in [Flags -> BOOLEAN]
    /\ input \in [accepting : BOOLEAN, events : Seq(Nat)]
    /\ Len(input.events) <= InputCapacity
    /\ driver \in [stop : BOOLEAN, heartbeat : BOOLEAN, capture : {None, "busy", "ready"}]
    /\ cancelled \in BOOLEAN /\ lease_current \in BOOLEAN
    /\ faults \in 0..MaxFaults
    /\ run_generation \in Nat /\ frame_generation \in Nat
    /\ req \in [requested : SUBSET Requests, armed : BOOLEAN, ready : BOOLEAN,
                waiting : BOOLEAN, continuing : BOOLEAN, debugged : BOOLEAN]
    /\ signaled \subseteq Events
    /\ facts \in Seq([kind : FactKinds, run : Nat])
    /\ wpc \in WorkerPoints
    /\ w \in [ok : BOOLEAN, suppress : BOOLEAN, terminal : States, why : Whys,
              notified : BOOLEAN]
    /\ cpc \in ControlPoints
    /\ op \in {None, "stop", "reset", "quit", "exit"} \cup Requests
    /\ monitor \in States /\ pending \in {None} \cup Lifecycle
    /\ calls \in 0..MaxRuns

-----------------------------------------------------------------------------
(***************************************************************************)
(* Properties.                                                             *)
(***************************************************************************)
\* The worker is blocked in base_sync_wait_any.
BlockedIdle   == wpc = "wait" /\ "command" \notin signaled /\ ~cancelled
BlockedParked == wpc = "park_wait" /\ signaled \cap {"resume", "command"} = {} /\ ~cancelled

\* No wake is lost: while the worker sleeps, nothing is left for it to do.  It
\* resets the manual-reset event before it looks at the requests, so a request
\* registered after the look signals it again (machine.c 516-532, 397-414).
NoLostCommand ==
    /\ BlockedIdle => ~flag["start"] /\ req.requested = {} /\ ~req.waiting
    /\ BlockedParked => req.requested = {} /\ ~req.waiting
    /\ BlockedParked => (flag["pause"] /\ ~flag["stop"]) \/ cpc = "stop_pause"

\* A control thread blocked in wait_request still has a live worker that will
\* answer: its request is registered, or it is the restored run's caller, or
\* its completion event is signaled, or the worker's task is cancelled.
CallerIsAnswered ==
    cpc = "await" /\ Completion(op) \notin signaled /\ ~cancelled =>
        /\ wpc # "done"
        /\ op \in req.requested \/ (op = "state_write" /\ req.waiting)

\* Nothing of one run is seen in the next: every queued input event and the
\* published frame belong to the current run_generation (begin_cold_run).
RunIsolation ==
    /\ \A i \in DOMAIN input.events : input.events[i] = run_generation
    /\ frame_generation \in {0, run_generation}

\* Host input is admitted only to a RUNNING machine, whichever of park, stop,
\* reset, failure or restart closes it (close_input and admit's callers).
InputOnlyWhileRunning == input.accepting => state = "RUNNING"

\* The guest executes only in a RUNNING machine, in a paused one whose capture
\* needs execution, or to unwind for a stop.
GuestRunsOnlyWhenAllowed ==
    wpc = "quantum" => state = "RUNNING" \/ flag["stop"] \/ (state = "PAUSED" /\ req.continuing)

\* STOPPED and STARTING mean that the driver has unwound, so media, images and
\* configuration may change: the worker is outside the run hook.
StoppedIsQuiet == state \in {"STOPPED", "STARTING"} => wpc \in OuterPoints

\* After a capture has its result the guest does not execute until the caller
\* has it, unless the run is stopped.
CaptureIsStable ==
    wpc = "quantum" /\ "state_read" \in req.requested /\ req.ready => flag["stop"]

\* Nor is input delivered to devices after the checkpoint: machine.c 356-357
\* "Do not change devices after its checkpoint by delivering another input."
CaptureFreezesInput ==
    [][req.ready \/ req'.ready \/ (req.armed /\ driver.capture = "ready")
         => Len(input'.events) >= Len(input.events) \/ run_generation' # run_generation]_vars

\* When a debug command has been executed its caller reads the answer while the
\* guest is still parked: no resume, reset or stop slips in between.
DebugAnswerIsFresh ==
    cpc = "await" /\ op = "debug" /\ req.debugged =>
        wpc \in ParkPoints /\ state = "PAUSED" /\ flag["pause"]

\* When everything is quiet the session's monitor_actual is the machine's
\* state: no fact was lost, dropped as stale, or overtaken.
MonitorSettles ==
    cpc = "idle" /\ facts = <<>> /\ (BlockedIdle \/ BlockedParked) => monitor = state

\* A machine in ERROR stays there: no unwind, restart or late request revives
\* it (machine.c 597-598, 312-314).
ErrorIsTerminal == [][state = "ERROR" => state' = "ERROR"]_vars

\* A stop latch belongs to the run it was requested for, so a RUNNING machine
\* that nobody is stopping executes (docs/mynes/etc/app-core-contract.md 101
\* "Reset clears old latches before run").  Violated: the worker may finish the
\* unwind, reset the driver and run again before reset() calls request_stop.
StopLatchIsOfTheRun ==
    wpc = "quantum" /\ state = "RUNNING" /\ ~flag["stop"] /\ cpc = "idle" => ~driver.stop

\* The control thread is in a synchronous call.
InCall == cpc \in {"submit", "await", "join"}

\* Every synchronous call returns (emulator/README.md 90: debug is "synchronous
\* to the control-thread caller and serviced by the existing paused executor").
\* Violated: a request may be admitted while the executor is leaving the pause,
\* after a line typed ahead of a resume, or after a reset whose late store
\* (machine.c 764) releases the pause of the new run.
CallsReturn == InCall ~> ~InCall

\* The executor will look at the request: nobody has released the pause it is
\* served in, and a capture's guest is not held by a stop latch of an older run.
Servable(r) ==
    CASE r \in {"media", "debug"} -> flag["pause"] \/ state = "STOPPED"
      [] r = "state_read"         -> ~driver.stop \/ flag["stop"]
      [] OTHER                    -> TRUE

\* A synchronous call that is servable at any moment of it returns, whatever
\* resets, restarts, parks and stops the run meanwhile (machine.c 186-219, 415).
ServableCallsReturn == InCall /\ Servable(op) ~> ~InCall

\* A reset of a live machine has yet to begin its run, which erases
\* stop_requested (machine.c 600, 460), or to return.
Resetting == op = "reset" \/ w.why = "restart" \/ (flag["reset"] /\ state # "ERROR")

\* A session that is over shuts the machine down, joins the worker and ends
\* (machine_interface.h 174 "Permanently stop/join the worker").  Violated: the
\* stop of shutdown is erased by the restart of a reset that is in progress, and
\* the join (machine.c 983) waits for a run hook that goes on until it is stopped,
\* as that of x86-nxvm does (x86-nxvm/machine/runner.c 36).
ExitEnds == SessionOver ~> cpc = "ended"

\* It does end, from every point of the worker and of the callback, when no reset
\* is in progress as the session ends (shutdown's own stop comes after that).
OrderlyExitEnds == SessionOver /\ op # "exit" /\ ~Resetting ~> cpc = "ended"

\* What the pending request stored in the machine has not been overwritten.
Standing(o) ==
    CASE o = "stop"  -> state = "STOPPED" \/ (flag["stop"] /\ ~Resetting)
      [] o = "reset" -> flag["pause"] /\ ~Resetting
      [] OTHER       -> TRUE

\* A pending request that stands is completed by a fact: every start, pause and
\* resume, a stop no restart can erase, a reset whose run has kept its pause
\* (machine.c 708-771 against the executor's park, unpark and unwind).
StandingRequestsComplete ==
    pending # None /\ Standing(pending) ~> pending = None \/ SessionOver
=============================================================================
