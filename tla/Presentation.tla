---------------------------- MODULE Presentation ----------------------------
(***************************************************************************)
(* The session's reduction of completed facts to what is on the screen:    *)
(* control_state.c and presentation_plan.c, the session loop that drives   *)
(* them (session.c), the UI that carries their actions out (ui.c) and the  *)
(* monitor that answers lines (product/monitor.c).  The control thread     *)
(* takes one event at a time from its FIFO; every UI action completes      *)
(* through an event of its own, and at most one is in flight.              *)
(*                                                                         *)
(* The machine, the native surfaces and the user only produce events here. *)
(* A handler of the control thread is one step.  Native failures and the   *)
(* exit command, which end the session, are left to Machine and            *)
(* SessionQueue.                                                           *)
(***************************************************************************)
EXTENDS Naturals, Sequences

CONSTANTS
    Modes,      \* the configurations: [display, console_control]
    MaxFrames,  \* bound: frames published
    MaxRuns,    \* bound: runs begun
    MaxInputs,  \* bound: lines, hotkeys and window closes
    CanFail     \* the machine may fail

ASSUME ModesAssumption ==
    Modes \subseteq [display : {"WINDOW", "CONSOLE"}, console_control : BOOLEAN]
ASSUME BoundsAssumption == {MaxFrames, MaxRuns, MaxInputs} \subseteq Nat
ASSUME CanFailAssumption == CanFail \in BOOLEAN

VARIABLES
    mode,     \* display and console_control
    st,       \* emulator_session_state
    p,        \* pending_line, pending_request, prompt_due, pending_monitor_text
    ui,       \* emulator_ui: the native surfaces and what each was given
    reading,  \* the broker reads a cooked line for the monitor
    m,        \* the machine: state, request being served, run, last frame
    fifo,     \* the session's control FIFO
    ended,    \* the session loop has returned
    dropped,  \* a completion of a UI action was discarded as of another run
    inputs    \* inputs so far

session == <<st, p, ui, reading, fifo, ended, dropped>>
vars == <<mode, session, m, inputs>>

Event(kind, run, value) == [kind |-> kind, run |-> run, value |-> value]

-----------------------------------------------------------------------------
\* presentation_plan.c and control_state.c, as functions of a state t.

\* emulator_session_derive_presentation: the surfaces that should exist.  The
\* monitor is enabled exactly when the VM console is not.
Plan(t) ==
    IF t.runtime \in {"STOPPED", "ERROR"} THEN {}
    ELSE IF t.runtime = "PAUSED"
         THEN IF mode.display = "WINDOW" \/ t.graphics THEN {"window"} ELSE {}
    ELSE IF mode.display = "WINDOW" THEN {"window"}
    ELSE IF ~t.frame THEN {}
    ELSE IF ~t.graphics THEN {"console"}
    ELSE IF ~mode.console_control THEN {"window", "console"}
    ELSE {"window"}

\* emulator_session_state_desired.
Desired(t) ==
    IF t.suppressed /\ t.runtime = "PAUSED" THEN Plan(t) \ {"window"} ELSE Plan(t)

\* Seeded fault: the VM console is destroyed while the broker still reads from it.
NextActionUnbound(t) ==
    LET desired == Desired(t)
    IN  IF t.inflight # "NONE" THEN "NONE"
        ELSE IF "console" \in desired /\ ~t.console THEN "CREATE_VM_CONSOLE"
        ELSE IF "console" \in desired /\ t.current # "VM" THEN "BIND_VM_CONSOLE"
        ELSE IF "console" \notin desired /\ t.console THEN "DESTROY_VM_CONSOLE"
        ELSE IF "window" \in desired /\ ~t.window /\ t.runtime = "RUNNING" THEN "CREATE_WINDOW"
        ELSE IF "window" \notin desired /\ t.window THEN "DESTROY_WINDOW"
        ELSE "NONE"

\* Seeded fault: an action does not wait for the completion of the one before.
NextActionAtOnce(t) ==
    LET desired == Desired(t)
    IN  IF "console" \in desired /\ ~t.console THEN "CREATE_VM_CONSOLE"
        ELSE IF "console" \in desired /\ t.current # "VM" THEN "BIND_VM_CONSOLE"
        ELSE IF "console" \notin desired /\ t.current # "MONITOR" THEN "BIND_MONITOR"
        ELSE IF "console" \notin desired /\ t.console THEN "DESTROY_VM_CONSOLE"
        ELSE IF "window" \in desired /\ ~t.window /\ t.runtime = "RUNNING" THEN "CREATE_WINDOW"
        ELSE IF "window" \notin desired /\ t.window THEN "DESTROY_WINDOW"
        ELSE "NONE"

\* emulator_session_state_next_action.
NextAction(t) ==
    LET desired == Desired(t)
    IN  IF t.inflight # "NONE" THEN "NONE"
        ELSE IF "console" \in desired /\ ~t.console THEN "CREATE_VM_CONSOLE"
        ELSE IF "console" \in desired /\ t.current # "VM" THEN "BIND_VM_CONSOLE"
        ELSE IF "console" \notin desired /\ t.current # "MONITOR" THEN "BIND_MONITOR"
        ELSE IF "console" \notin desired /\ t.console THEN "DESTROY_VM_CONSOLE"
        ELSE IF "window" \in desired /\ ~t.window /\ t.runtime = "RUNNING" THEN "CREATE_WINDOW"
        ELSE IF "window" \notin desired /\ t.window THEN "DESTROY_WINDOW"
        ELSE "NONE"

\* emulator_session_state_note_runtime.
NoteRuntime(t, completed) ==
    LET runtime == IF completed = "RESET_COMPLETED" THEN "PAUSED" ELSE completed
        over == runtime \in {"STOPPED", "ERROR"}
    IN  [t EXCEPT !.monitor = runtime, !.runtime = runtime,
            !.suppressed = IF runtime = "RUNNING" /\ t.runtime # "RUNNING" THEN FALSE
                           ELSE @ \/ (completed = "PAUSED" /\ t.runtime = "STOPPED"
                                      /\ ~t.window),
            !.frame = @ /\ ~over, !.graphics = @ /\ ~over]

\* emulator_session_state_note_frame; sequences do not wrap within the bound.
NoteFrame(t, sequence, graphics) ==
    IF sequence > t.observed
    THEN [t EXCEPT !.observed = sequence, !.frame = TRUE, !.graphics = graphics]
    ELSE t

\* The completion of action, if it is the one in flight.
Completes(t, action) == IF t.inflight = action THEN "NONE" ELSE t.inflight

\* Seeded fault: the completion of a Window is not remembered.
NoteWindowUnseen(t, exists) ==
    [t EXCEPT !.inflight = Completes(t, IF exists THEN "CREATE_WINDOW" ELSE "DESTROY_WINDOW")]

\* emulator_session_state_note_window, _note_vm_console, _note_current_console.
NoteWindow(t, exists) ==
    [t EXCEPT !.window = exists,
        !.inflight = Completes(t, IF exists THEN "CREATE_WINDOW" ELSE "DESTROY_WINDOW")]
NoteConsole(t, exists) ==
    [t EXCEPT !.console = exists,
        !.inflight = Completes(t, IF exists THEN "CREATE_VM_CONSOLE" ELSE "DESTROY_VM_CONSOLE")]
NoteCurrent(t, vm) ==
    [t EXCEPT !.current = IF vm THEN "VM" ELSE "MONITOR",
        !.inflight = Completes(t, IF vm THEN "BIND_VM_CONSOLE" ELSE "BIND_MONITOR")]

\* emulator_session_state_monitor_is_current.
MonitorIsCurrent(t) ==
    "console" \notin Desired(t) /\ t.current = "MONITOR" /\ t.inflight # "BIND_VM_CONSOLE"

\* emulator_session_state_frame_targets_ready.
TargetsReady(t) ==
    /\ Desired(t) # {}
    /\ "window" \in Desired(t) => t.window
    /\ "console" \in Desired(t) => t.console /\ t.current = "VM"

-----------------------------------------------------------------------------
\* The control thread.  A step works on a record x of what it may change.

Now == [st |-> st, p |-> p, ui |-> ui, reading |-> reading, m |-> m,
        fifo |-> fifo, ended |-> ended]

\* emulator_ui_emit, with the run the UI was last told of.
Emit(x, kind, value) == [x EXCEPT !.fifo = Append(@, Event(kind, x.ui.run, value))]

Surface(name, exists) == [surface |-> name, exists |-> exists]

\* emulator_ui_apply_action: the native work, then its completion.
ApplyAction(x, action) ==
    CASE action = "CREATE_WINDOW" ->
            Emit([x EXCEPT !.ui.window = TRUE,
                     !.ui.wseq = IF x.ui.window THEN @ ELSE 0,
                     !.ui.frozen = IF x.ui.window THEN @ ELSE x.st.runtime # "RUNNING"],
                 "COMPONENT", Surface("window", TRUE))
      [] action = "CREATE_VM_CONSOLE" ->
            Emit([x EXCEPT !.ui.console = TRUE,
                     !.ui.cseq = IF x.ui.console THEN @ ELSE 0,
                     !.ui.status = x.ui.console /\ @],
                 "COMPONENT", Surface("console", TRUE))
      [] action \in {"BIND_VM_CONSOLE", "BIND_MONITOR"} ->
            IF ~x.ui.console \/ (x.ui.bound = "VM") = (action = "BIND_VM_CONSOLE")
            THEN [x EXCEPT !.ended = TRUE]
            ELSE Emit([x EXCEPT !.ui.bound = IF action = "BIND_VM_CONSOLE" THEN "VM" ELSE "MONITOR",
                          !.reading = FALSE],
                      "BROKER", action = "BIND_VM_CONSOLE")
      [] action = "DESTROY_VM_CONSOLE" ->
            IF ~x.ui.console THEN [x EXCEPT !.ended = TRUE]
            ELSE Emit([x EXCEPT !.ui.console = FALSE, !.ui.cseq = 0],
                      "COMPONENT", Surface("console", FALSE))
      [] action = "DESTROY_WINDOW" ->
            IF ~x.ui.window THEN [x EXCEPT !.ended = TRUE]
            ELSE Emit([x EXCEPT !.ui.window = FALSE, !.ui.wseq = 0, !.ui.frozen = FALSE],
                      "COMPONENT", Surface("window", FALSE))

\* emulator_ui_publish_frame.  A graphics frame for a console that is not the
\* status surface is LIB_STATUS_UNSUPPORTED, and ends the session.
PublishFrame(x, sequence, graphics) ==
    LET status == graphics /\ mode.display = "CONSOLE" /\ ~mode.console_control
        toConsole == /\ x.st.console /\ x.st.current = "VM" /\ x.ui.console
                     /\ status # x.ui.status \/ (~status /\ x.ui.cseq # sequence)
        toWindow == x.st.window /\ x.ui.window
    IN  IF toConsole /\ graphics /\ ~status THEN [x EXCEPT !.ended = TRUE]
        ELSE [x EXCEPT !.ui.cseq = IF toConsole THEN sequence ELSE @,
                       !.ui.status = IF toConsole THEN status ELSE @,
                       !.ui.wseq = IF toWindow THEN sequence ELSE @]

\* emulator_session_drive, in its order: observe the latest publication of the
\* current run, take at most one action, and publish if what the plan wants is there.
Available(x) == x.m.pubrun = x.m.run

Observe(x) ==
    IF x.ended THEN x
    ELSE [x EXCEPT !.ui.run = x.m.run,
                   !.st = IF Available(x) THEN NoteFrame(@, x.m.seq, x.m.graphics) ELSE @]

TakeAction(x) ==
    LET action == NextAction(x.st)
    IN  IF x.ended \/ action = "NONE" THEN x
        ELSE ApplyAction([x EXCEPT !.st.inflight = action], action)

ShowFrame(x) ==
    IF x.ended \/ ~Available(x) \/ ~TargetsReady(x.st) THEN x
    ELSE PublishFrame(x, x.m.seq, x.m.graphics)

\* console_broker_cancel_cooked_line: a line that was read already stays pending.
CancelLine(x) == [x EXCEPT !.p.line = @ /\ ~x.reading, !.reading = FALSE]

\* emulator_session_arm_if_ready: the text kept back, then the prompt.
ArmIfReady(x) ==
    IF x.ended \/ ~MonitorIsCurrent(x.st) THEN x
    ELSE LET y == IF x.p.text THEN [CancelLine(x) EXCEPT !.p.text = FALSE] ELSE x
         IN  IF y.p.request # "NONE" \/ ~y.p.due \/ y.p.line THEN y
             ELSE [y EXCEPT !.p.line = TRUE, !.p.due = FALSE, !.reading = TRUE]

\* The effect on the machine of the lifecycle calls a request dispatches
\* (emulator_session_dispatch_request); a call that is refused ends the session.
BeginRun(machine) ==
    [machine EXCEPT !.state = "STARTING", !.run = @ + 1, !.pubrun = 0, !.graphics = FALSE]

Refused(request, state) ==
    CASE request = "START"  -> state # "STOPPED"
      [] request = "PAUSE"  -> state # "RUNNING"
      [] request = "RESUME" -> state # "PAUSED"
      [] request = "STOP"   -> state = "ERROR"
      [] request = "RESET"  -> state \notin {"STOPPED", "RUNNING", "PAUSED"}

Dispatch(x, request) ==
    IF Refused(request, x.m.state) THEN [x EXCEPT !.ended = TRUE]
    ELSE [x EXCEPT !.p.request = request, !.p.due = FALSE,
             !.m = [(IF @.state = "STOPPED" /\ request \in {"START", "RESET"}
                     THEN BeginRun(@) ELSE @) EXCEPT !.job = request]]

\* emulator_session_apply_result of a result with or without text, a request, or
\* a prompt to arm.
ApplyResult(x, text, request, arm) ==
    LET y == IF ~text THEN x
             ELSE IF MonitorIsCurrent(x.st) THEN CancelLine(x)
             ELSE [x EXCEPT !.p.text = TRUE]
    IN  IF request = "NONE" THEN [y EXCEPT !.p.due = @ \/ arm]
        ELSE IF y.p.request # "NONE" THEN [y EXCEPT !.p.text = TRUE]
        ELSE Dispatch(y, request)

\* emulator_product_monitor_provider_note_runtime has something to say.
Announces(prior, completed) ==
    \/ completed \in {"RESET_COMPLETED", "ERROR"}
    \/ completed = "PAUSED" /\ prior = "RUNNING"
    \/ completed = "RUNNING" /\ prior \in {"STOPPED", "PAUSED"}
    \/ completed = "STOPPED" /\ prior # "STOPPED"

\* emulator_ui_set_state: the Window is frozen or not.
SetState(x) ==
    [x EXCEPT !.ui.frozen = IF ~x.ui.window THEN @
                            ELSE CASE x.st.runtime = "RUNNING" -> FALSE
                                   [] x.st.runtime = "PAUSED" -> TRUE
                                   [] OTHER -> @]

\* Seeded fault: the state is shown only when the machine reports it.
ShowStateAtOnce(x, kind) ==
    IF kind = "RUNTIME" /\ (x.st.runtime # "RUNNING" \/ TargetsReady(x.st))
    THEN SetState(x) ELSE x

\* When emulator_session_process_completed shows the state: the machine reported
\* it or the console changed hands, and a running view is complete.
ShowState(x, kind) ==
    IF kind \in {"RUNTIME", "BROKER"} /\ (x.st.runtime # "RUNNING" \/ TargetsReady(x.st))
    THEN SetState(x) ELSE x

\* The facts of process_completed before it drives.
NoteEvent(x, event) ==
    CASE event.kind = "RUNTIME" ->
            LET prior == x.st.monitor
                says == /\ ~(prior = "INIT" /\ event.value = "STOPPED")
                        /\ Announces(prior, event.value)
            IN  ApplyResult([x EXCEPT !.st = NoteRuntime(@, event.value), !.p.request = "NONE"],
                            says, "NONE", says)
      [] event.kind = "FRAME" -> x
      [] event.kind = "COMPONENT" ->
            [x EXCEPT !.st = IF event.value.surface = "window"
                             THEN NoteWindow(@, event.value.exists)
                             ELSE NoteConsole(@, event.value.exists)]
      [] event.kind = "BROKER" ->
            [x EXCEPT !.p.line = FALSE, !.st = NoteCurrent(@, event.value)]

\* Seeded fault: no prompt comes back with a monitor that shares the screen with
\* a running graphics Window.
PromptAfterBrokerNever(x, event) ==
    IF event.kind = "BROKER" /\ event.value /\ x.st.monitor = "RUNNING"
    THEN [x EXCEPT !.p.due = FALSE, !.p.text = FALSE] ELSE x

\* The prompt of a monitor the broker returned to, or took the console from.
PromptAfterBroker(x, event) ==
    IF event.kind # "BROKER" \/ x.st.monitor # "RUNNING" THEN x
    ELSE IF event.value THEN [x EXCEPT !.p.due = FALSE, !.p.text = FALSE]
    ELSE [x EXCEPT !.p.due = @ \/ (/\ MonitorIsCurrent(x.st) /\ mode.display = "CONSOLE"
                                   /\ x.st.runtime = "RUNNING"
                                   /\ x.st.frame /\ x.st.graphics)]

\* The product's answer to a line: which request a command is in a monitor state,
\* or none (emulator_product_monitor_request_lifecycle).
RequestOf(command, state) ==
    CASE command = "start"  -> IF state = "STOPPED" THEN "START" ELSE "NONE"
      [] command = "pause"  -> IF state = "RUNNING" THEN "PAUSE" ELSE "NONE"
      [] command = "resume" -> IF state = "PAUSED" THEN "RESUME" ELSE "NONE"
      [] command = "stop"   -> IF state \in {"RUNNING", "PAUSED"} THEN "STOP" ELSE "NONE"
      [] command = "reset"  -> IF state \in {"STOPPED", "RUNNING", "PAUSED"} THEN "RESET" ELSE "NONE"
      [] OTHER -> "NONE"

\* A load in the STOPPED machine is synchronous: it begins a run that is paused,
\* and the executor has reported it when the command returns.
Loaded(x) ==
    IF x.m.state # "STOPPED" \/ x.m.job # "NONE" THEN x
    ELSE LET begun == [BeginRun(x.m) EXCEPT !.state = "PAUSED"]
         IN  [x EXCEPT !.m = begun, !.fifo = Append(@, Event("RUNTIME", begun.run, "PAUSED"))]

SubmitLine(x, command) ==
    LET read == [x EXCEPT !.p.line = FALSE]
        did == IF command = "load" /\ x.st.monitor = "STOPPED" THEN Loaded(read) ELSE read
        request == RequestOf(command, x.st.monitor)
    IN  ApplyResult(did, request = "NONE" /\ command # "", request, TRUE)

\* emulator_session_handle_kvm_input of a Window close, and of the hotkey that
\* toggles the pause (emulator_session_request_pause_toggle).
WindowClose(x) ==
    LET closed == [x EXCEPT !.st.suppressed = TRUE]
    IN  IF x.st.monitor # "RUNNING" \/ x.p.request # "NONE" THEN closed
        ELSE ApplyResult(closed, FALSE, "PAUSE", FALSE)

Hotkey(x) ==
    ApplyResult(x, FALSE, IF x.st.monitor = "RUNNING" THEN "PAUSE" ELSE "RESUME", FALSE)

\* An event of another run is ignored, and so is input the monitor state does not
\* admit (emulator_session_accept_kvm_event).
Ignored(event) ==
    \/ event.run \notin {0, m.run}
    \/ event.kind = "KVM" /\ st.monitor \notin {"RUNNING", "PAUSED"}

\* What an event changes before the session drives.
Reduce(x, event) ==
    CASE event.kind = "LINE" -> SubmitLine(x, event.value)
      [] event.kind = "KVM" -> IF event.value = "close" THEN WindowClose(x) ELSE Hotkey(x)
      [] OTHER -> NoteEvent(x, event)

\* What follows the drive: the state is shown, then the prompt offered.
Show(x, event) ==
    IF x.ended THEN x ELSE PromptAfterBroker(ShowState(x, event.kind), event)

Prompt(x, event) == IF event.kind = "FRAME" THEN x ELSE ArmIfReady(x)

\* The step of the session loop (emulator_session_run): every event is reduced,
\* drives, and is answered.
Take ==
    /\ ~ended /\ fifo # <<>>
    /\ LET event == Head(fifo)
           x == [Now EXCEPT !.fifo = Tail(@)]
       IN  IF Ignored(event)
           THEN /\ fifo' = x.fifo
                /\ dropped' = (dropped \/ event.kind \in {"COMPONENT", "BROKER"})
                /\ UNCHANGED <<st, p, ui, reading, m, ended>>
           ELSE /\ \E reduced \in {Reduce(x, event)} : \E observed \in {Observe(reduced)} :
                   \E acted \in {TakeAction(observed)} : \E driven \in {ShowFrame(acted)} :
                   \E shown \in {Show(driven, event)} : \E y \in {Prompt(shown, event)} :
                        /\ st' = y.st /\ p' = y.p /\ ui' = y.ui /\ reading' = y.reading
                        /\ m' = y.m /\ fifo' = y.fifo /\ ended' = y.ended
                /\ UNCHANGED dropped
    /\ UNCHANGED <<mode, inputs>>

-----------------------------------------------------------------------------
\* The machine, seen from its sinks, until the session ends.  Machine has the details.

Push(kind, run, value) == fifo' = Append(fifo, Event(kind, run, value))
Others == ~ended /\ UNCHANGED <<mode, st, p, ui, reading, ended, dropped, inputs>>

\* A frame of the current run (emulator_machine_publish).
Publish(graphics) ==
    /\ m.state = "RUNNING" \/ (m.state = "STARTING" /\ m.job = "RESET")
    /\ m.seq < MaxFrames
    /\ m' = [m EXCEPT !.seq = @ + 1, !.pubrun = m.run, !.graphics = graphics]
    /\ Push("FRAME", m.run, "")
    /\ Others

\* A request completes and is reported.
Complete ==
    LET result == CASE m.job = "START" -> "RUNNING"
                    [] m.job = "RESUME" -> "RUNNING"
                    [] m.job = "PAUSE" -> "PAUSED"
                    [] m.job = "STOP" -> "STOPPED"
                    [] m.job = "RESET" -> "RESET_COMPLETED"
                    [] OTHER -> "NONE"
    IN  /\ m.job # "NONE"
        /\ m.job = "RESET" => m.state = "STARTING"
        /\ m' = [m EXCEPT !.job = "NONE",
                    !.state = IF result = "RESET_COMPLETED" THEN "PAUSED" ELSE result]
        /\ Push("RUNTIME", m.run, result)
        /\ Others

\* The executor of a machine that is reset begins the new run when it has left
\* the old one.
Restart ==
    /\ m.job = "RESET" /\ m.state \in {"RUNNING", "PAUSED"}
    /\ m' = BeginRun(m)
    /\ UNCHANGED fifo
    /\ Others

Fail ==
    /\ CanFail /\ m.state \in {"STARTING", "RUNNING"}
    /\ m' = [m EXCEPT !.state = "ERROR", !.job = "NONE"]
    /\ Push("RUNTIME", m.run, "ERROR")
    /\ Others

\* The user.  A native surface tags its events with the run the UI was told of.
Input ==
    /\ inputs < MaxInputs /\ inputs' = inputs + 1 /\ ~ended
    /\ \/ /\ ui.window
          /\ Push("KVM", ui.run, "close")
          /\ UNCHANGED reading
       \/ /\ ui.window \/ ui.bound = "VM"
          /\ Push("KVM", ui.run, "hotkey")
          /\ UNCHANGED reading
       \/ /\ reading
          /\ reading' = FALSE
          /\ \E command \in {"start", "pause", "resume", "stop", "reset", "load", "help", ""} :
               /\ command \in {"start", "reset", "load"} => m.run < MaxRuns
               /\ Push("LINE", 0, command)
    /\ UNCHANGED <<mode, st, p, ui, m, ended, dropped>>

Init ==
    /\ mode \in Modes
    /\ st = [runtime |-> "STOPPED", monitor |-> "INIT", frame |-> FALSE, graphics |-> FALSE,
             window |-> FALSE, console |-> FALSE, current |-> "MONITOR", inflight |-> "NONE",
             suppressed |-> FALSE, observed |-> 0]
    /\ p = [line |-> TRUE, request |-> "NONE", due |-> FALSE, text |-> FALSE]
    /\ ui = [window |-> FALSE, console |-> FALSE, bound |-> "MONITOR", run |-> 0,
             wseq |-> 0, cseq |-> 0, status |-> FALSE, frozen |-> FALSE]
    /\ reading = TRUE
    /\ m = [state |-> "STOPPED", job |-> "NONE", run |-> 0, seq |-> 0, pubrun |-> 0,
            graphics |-> FALSE]
    /\ fifo = <<Event("RUNTIME", 0, "STOPPED")>>
    /\ ended = FALSE /\ dropped = FALSE /\ inputs = 0

Next ==
    \/ Take \/ Complete \/ Restart \/ Fail \/ Input
    \/ \E graphics \in BOOLEAN : Publish(graphics)

\* The session loop and the executor are threads the host schedules.
Fairness == WF_vars(Take) /\ WF_vars(Complete) /\ WF_vars(Restart)

Spec == Init /\ [][Next]_vars /\ Fairness

-----------------------------------------------------------------------------
\* The completions on their way to the session, as the actions they complete.
Completion(event) ==
    CASE event.kind = "COMPONENT" /\ event.value = Surface("window", TRUE) -> "CREATE_WINDOW"
      [] event.kind = "COMPONENT" /\ event.value = Surface("window", FALSE) -> "DESTROY_WINDOW"
      [] event.kind = "COMPONENT" /\ event.value = Surface("console", TRUE) -> "CREATE_VM_CONSOLE"
      [] event.kind = "COMPONENT" /\ event.value = Surface("console", FALSE) -> "DESTROY_VM_CONSOLE"
      [] event.kind = "BROKER" /\ event.value = TRUE -> "BIND_VM_CONSOLE"
      [] event.kind = "BROKER" /\ event.value = FALSE -> "BIND_MONITOR"
      [] OTHER -> "NONE"

\* An action in flight has exactly one completion on its way, and without one the
\* session knows the surfaces as they are, whatever frames, lines and facts were
\* handled in between.  (control_state.h: "Until its completion is returned on the
\* control FIFO, no second transition may be emitted.")
OneActionInFlight ==
    ~ended /\ ~dropped =>
        LET coming == {i \in DOMAIN fifo : Completion(fifo[i]) # "NONE"}
        IN  IF st.inflight = "NONE"
            THEN /\ coming = {}
                 /\ <<st.window, st.console, st.current>> = <<ui.window, ui.console, ui.bound>>
            ELSE \E i \in DOMAIN fifo : coming = {i} /\ Completion(fifo[i]) = st.inflight

\* Nothing is left to do, and nothing went wrong that the session cannot see.
Settled == fifo = <<>> /\ m.job = "NONE" /\ ~ended /\ ~dropped

\* When every event has been handled, what the session believes to exist is what
\* exists, no action is in flight, and it is what the plan wants: all of it while
\* running, no more than it while paused or stopped.  (One action at a time, each
\* planned from facts that may have changed before its completion came back.)
SettledTopology ==
    Settled =>
        /\ st.inflight = "NONE"
        /\ <<st.window, st.console, st.current>> = <<ui.window, ui.console, ui.bound>>
        /\ (ui.console \/ ui.bound = "VM") <=> "console" \in Desired(st)
        /\ ui.window => "window" \in Desired(st)
        /\ "window" \in Desired(st) /\ st.runtime = "RUNNING" => ui.window

\* When every event has been handled, the Window is frozen exactly while the machine
\* is paused and, once the run has a frame, each surface shows the last one (the
\* console of a graphics guest its status page).  With console_control a running
\* machine is exempt: a VM console that is created and destroyed again before it is
\* bound leaves no event that unfreezes a resumed Window (README).
SettledView ==
    Settled /\ m.state \in {"RUNNING", "PAUSED"} =>
        /\ ui.window /\ (m.state = "PAUSED" \/ ~mode.console_control) =>
              ui.frozen = (m.state = "PAUSED")
        /\ ui.window /\ m.pubrun = m.run => ui.wseq = m.seq
        /\ ui.bound = "VM" /\ m.pubrun = m.run =>
              IF m.graphics THEN ui.status ELSE ~ui.status /\ ui.cseq = m.seq

\* When every event has been handled and the monitor has the console, the user can
\* type: a line is being read.
PromptIsOffered == Settled /\ ui.bound = "MONITOR" => reading

\* The session comes to rest: plan, action and completion do not chase each other
\* for ever.
Settles == []<>(ended \/ (fifo = <<>> /\ (st.inflight = "NONE" \/ dropped)))

\* The session does not end by itself: a native failure and the failure of the
\* machine apart, every handler can carry out what it decides.  (src/emulator/
\* README.md on drive: "It may observe a newer publication than the notification.")
SessionSurvives == ended => m.state = "ERROR"
=============================================================================
