------------------------- MODULE PresentationProofs -------------------------
(***************************************************************************)
(* Theorems about Presentation, for every set of modes and all bounds: an  *)
(* action in flight has exactly one completion on its way, and a session   *)
(* with nothing left to do has the surfaces its plan wants, shows the      *)
(* machine as it is, and offers a prompt when the monitor has the console. *)
(*                                                                         *)
(* A handler is a pipeline of functions on a record (reduce, observe, act, *)
(* publish, show, prompt).  IInv, for the first two, needs of each function *)
(* only what it keeps: a completion and a new action alone touch what it   *)
(* speaks of.  FInv, for the last two, needs what each function does.      *)
(* Relations say that (LineTaken, ReportTaken, Drive, Offered...), a Turn  *)
(* puts them together, and each conjunct of FInv is shown of its end.      *)
(***************************************************************************)
EXTENDS Presentation, SequenceTheorems, TLAPS

-----------------------------------------------------------------------------
\* Types.

Runtimes == {"STOPPED", "RUNNING", "PAUSED", "ERROR"}
Requests == {"START", "PAUSE", "RESUME", "STOP", "RESET"}
Actions  == {"CREATE_WINDOW", "DESTROY_WINDOW", "CREATE_VM_CONSOLE",
             "DESTROY_VM_CONSOLE", "BIND_VM_CONSOLE", "BIND_MONITOR"}
Facts    == Runtimes \cup {"RESET_COMPLETED"}
Commands == {"start", "pause", "resume", "stop", "reset", "load", "help", ""}
Consoles == {"MONITOR", "VM"}

StateType ==
    [runtime : Runtimes, monitor : Runtimes \cup {"INIT"}, frame : BOOLEAN,
     graphics : BOOLEAN, window : BOOLEAN, console : BOOLEAN, current : Consoles,
     inflight : Actions \cup {"NONE"}, suppressed : BOOLEAN, observed : Nat]

PromptType ==
    [line : BOOLEAN, request : Requests \cup {"NONE"}, due : BOOLEAN, text : BOOLEAN]

UiType ==
    [window : BOOLEAN, console : BOOLEAN, bound : Consoles, run : Nat, wseq : Nat,
     cseq : Nat, status : BOOLEAN, frozen : BOOLEAN]

MachineType ==
    [state : Runtimes \cup {"STARTING"}, job : Requests \cup {"NONE"}, run : Nat,
     seq : Nat, pubrun : Nat, graphics : BOOLEAN]

EventType ==
    [kind : {"RUNTIME"}, run : Nat, value : Facts]
        \cup [kind : {"FRAME"}, run : Nat, value : {""}]
        \cup [kind : {"COMPONENT"}, run : Nat,
              value : [surface : {"window", "console"}, exists : BOOLEAN]]
        \cup [kind : {"BROKER"}, run : Nat, value : BOOLEAN]
        \cup [kind : {"KVM"}, run : Nat, value : {"close", "hotkey"}]
        \cup [kind : {"LINE"}, run : {0}, value : Commands]

\* What a handler works on.
StepType ==
    [st : StateType, p : PromptType, ui : UiType, reading : BOOLEAN, m : MachineType,
     fifo : Seq(EventType), ended : BOOLEAN]

Typed ==
    /\ st \in StateType /\ p \in PromptType /\ ui \in UiType /\ m \in MachineType
    /\ reading \in BOOLEAN /\ ended \in BOOLEAN /\ dropped \in BOOLEAN
    /\ fifo \in Seq(EventType) /\ inputs \in Nat

-----------------------------------------------------------------------------
\* The inductive invariant.

Coming(q) == {i \in DOMAIN q : Completion(q[i]) # "NONE"}

\* In the queue q exactly the completion of the action a is on its way.
OnTheWay(q, a) ==
    IF a = "NONE" THEN Coming(q) = {}
    ELSE \E i \in DOMAIN q : Coming(q) = {i} /\ Completion(q[i]) = a

\* The session's state t knows the surfaces u up to the action in flight, which
\* the UI has carried out already.
Known(t, u) ==
    /\ u.window = (IF t.inflight \in {"CREATE_WINDOW", "DESTROY_WINDOW"}
                   THEN t.inflight = "CREATE_WINDOW" ELSE t.window)
    /\ u.console = (IF t.inflight \in {"CREATE_VM_CONSOLE", "DESTROY_VM_CONSOLE"}
                    THEN t.inflight = "CREATE_VM_CONSOLE" ELSE t.console)
    /\ u.bound = (IF t.inflight = "BIND_VM_CONSOLE" THEN "VM"
                  ELSE IF t.inflight = "BIND_MONITOR" THEN "MONITOR" ELSE t.current)

\* Every handler leaves its plan carried out as far as one action goes.
Planned(t) == NextAction(t) = "NONE"

Sound(t, u, q) == OnTheWay(q, t.inflight) /\ Known(t, u)

IInv ==
    /\ Typed
    /\ ~ended /\ ~dropped => Sound(st, ui, fifo)
    /\ ~ended => Planned(st)

-----------------------------------------------------------------------------
\* The completions in a queue.

\* The places of completions in a queue without its head, and in one with a new event.
LEMMA ComingTail ==
    ASSUME NEW q \in Seq(EventType), q # <<>>
    PROVE  \A i \in Nat : i \in Coming(Tail(q)) <=> i # 0 /\ i + 1 \in Coming(q)
<1>1. Len(q) \in Nat /\ Len(q) > 0 /\ DOMAIN q = 1..Len(q)
    BY EmptySeq, LenProperties
<1>2. /\ Tail(q) \in Seq(EventType) /\ Len(Tail(q)) = Len(q) - 1
      /\ \A i \in 1..Len(Tail(q)) : Tail(q)[i] = q[i + 1]
    BY HeadTailProperties, <1>1
<1>3. DOMAIN Tail(q) = 1..(Len(q) - 1)
    BY <1>2, LenProperties
<1>. QED
    BY <1>1, <1>2, <1>3 DEF Coming

LEMMA ComingAppend ==
    ASSUME NEW q \in Seq(EventType), NEW e \in EventType
    PROVE  /\ Append(q, e) \in Seq(EventType)
           /\ Completion(e) = "NONE" => Coming(Append(q, e)) = Coming(q)
           /\ Completion(e) # "NONE" => Coming(Append(q, e)) = Coming(q) \cup {Len(q) + 1}
           /\ DOMAIN q \subseteq DOMAIN Append(q, e) /\ Len(q) + 1 \in DOMAIN Append(q, e)
           /\ \A i \in DOMAIN q : Append(q, e)[i] = q[i]
           /\ Append(q, e)[Len(q) + 1] = e
           /\ Len(q) + 1 \notin DOMAIN q
<1>1. Len(q) \in Nat /\ DOMAIN q = 1..Len(q)
    BY LenProperties
<1>2. /\ Append(q, e) \in Seq(EventType) /\ Len(Append(q, e)) = Len(q) + 1
      /\ \A i \in 1..Len(q) : Append(q, e)[i] = q[i]
      /\ Append(q, e)[Len(q) + 1] = e
    BY AppendProperties
<1>3. DOMAIN Append(q, e) = 1..(Len(q) + 1)
    BY <1>2, LenProperties
<1>. QED
    BY <1>1, <1>2, <1>3 DEF Coming

\* A head that completes nothing leaves the completion on its way; one that completes
\* something completes the action in flight, and none is left.
LEMMA OnTheWayTail ==
    ASSUME NEW q \in Seq(EventType), q # <<>>, NEW a, OnTheWay(q, a)
    PROVE  /\ Completion(Head(q)) = "NONE" => OnTheWay(Tail(q), a)
           /\ Completion(Head(q)) # "NONE" => /\ a = Completion(Head(q))
                                              /\ OnTheWay(Tail(q), "NONE")
<1>1. Len(q) \in Nat /\ Len(q) > 0 /\ DOMAIN q = 1..Len(q) /\ Head(q) = q[1]
    BY EmptySeq, LenProperties, HeadTailProperties
<1>2. /\ Len(Tail(q)) = Len(q) - 1 /\ DOMAIN Tail(q) = 1..(Len(q) - 1)
      /\ \A i \in 1..(Len(q) - 1) : Tail(q)[i] = q[i + 1]
    BY HeadTailProperties, LenProperties, <1>1
<1>3. \A i \in Nat : i \in Coming(Tail(q)) <=> i # 0 /\ i + 1 \in Coming(q)
    BY ComingTail
<1>4. Coming(Tail(q)) \subseteq Nat
    BY <1>1, <1>2 DEF Coming
<1>5. 1 \in Coming(q) <=> Completion(Head(q)) # "NONE"
    BY <1>1 DEF Coming
<1>6. CASE a = "NONE"
    <2>1. Coming(q) = {}
        BY <1>6 DEF OnTheWay
    <2>2. Coming(Tail(q)) = {}
        BY <2>1, <1>3, <1>4
    <2>. QED
        BY <2>1, <2>2, <1>5, <1>6 DEF OnTheWay
<1>7. CASE a # "NONE"
    <2>1. PICK i \in DOMAIN q : Coming(q) = {i} /\ Completion(q[i]) = a
        BY <1>7 DEF OnTheWay
    <2>2. CASE i = 1
        <3>1. Completion(Head(q)) = a
            BY <2>1, <2>2, <1>1
        <3>2. Coming(Tail(q)) = {}
            BY <2>1, <2>2, <1>3, <1>4
        <3>. QED
            BY <3>1, <3>2, <1>7 DEF OnTheWay
    <2>3. CASE i # 1
        <3>1. Completion(Head(q)) = "NONE"
            BY <2>1, <2>3, <1>5
        <3>2. i - 1 \in DOMAIN Tail(q) /\ Tail(q)[i - 1] = q[i]
            BY <2>3, <1>1, <1>2
        <3>3. \A j \in Nat : j \in Coming(Tail(q)) <=> j = i - 1
            BY <2>1, <2>3, <1>1, <1>3
        <3>4. Coming(Tail(q)) = {i - 1}
            BY <3>3, <1>4, <3>2, <1>1, <1>2
        <3>. QED
            BY <3>1, <3>2, <3>4, <2>1, <1>7 DEF OnTheWay
    <2>. QED
        BY <2>2, <2>3
<1>. QED
    BY <1>6, <1>7

\* A new event leaves the completion on its way, or is the one that comes.
LEMMA OnTheWayAppend ==
    ASSUME NEW q \in Seq(EventType), NEW e \in EventType, NEW a, OnTheWay(q, a)
    PROVE  /\ Completion(e) = "NONE" => OnTheWay(Append(q, e), a)
           /\ a = "NONE" => OnTheWay(Append(q, e), Completion(e))
<1>1. CASE a = "NONE"
    <2>1. Coming(q) = {}
        BY <1>1 DEF OnTheWay
    <2>2. CASE Completion(e) = "NONE"
        BY <1>1, <2>1, <2>2, ComingAppend DEF OnTheWay
    <2>3. CASE Completion(e) # "NONE"
        <3>1. /\ Coming(Append(q, e)) = {Len(q) + 1}
              /\ Len(q) + 1 \in DOMAIN Append(q, e)
              /\ Completion(Append(q, e)[Len(q) + 1]) = Completion(e)
            BY <2>1, <2>3, ComingAppend
        <3>. QED
            BY <3>1, <2>3 DEF OnTheWay
    <2>. QED
        BY <2>2, <2>3
<1>2. CASE a # "NONE"
    <2>1. PICK i \in DOMAIN q : Coming(q) = {i} /\ Completion(q[i]) = a
        BY <1>2 DEF OnTheWay
    <2>2. ASSUME Completion(e) = "NONE"
          PROVE  OnTheWay(Append(q, e), a)
        <3>1. Coming(Append(q, e)) = {i}
            BY <2>1, <2>2, ComingAppend
        <3>2. i \in DOMAIN Append(q, e) /\ Append(q, e)[i] = q[i]
            BY <2>1, ComingAppend
        <3>. QED
            BY <3>1, <3>2, <2>1, <1>2 DEF OnTheWay
    <2>. QED
        BY <2>2, <1>2
<1>. QED
    BY <1>1, <1>2

\* Only COMPONENT and BROKER events complete an action.
LEMMA Completions ==
    ASSUME NEW e \in EventType
    PROVE  /\ e.kind \notin {"COMPONENT", "BROKER"} => Completion(e) = "NONE"
           /\ e.kind \in {"COMPONENT", "BROKER"} => Completion(e) \in Actions
           /\ e.kind = "BROKER" =>
                /\ e.value \in BOOLEAN
                /\ Completion(e) = IF e.value THEN "BIND_VM_CONSOLE" ELSE "BIND_MONITOR"
           /\ e.kind = "COMPONENT" =>
                /\ e.value.surface \in {"window", "console"} /\ e.value.exists \in BOOLEAN
                /\ Completion(e) =
                     IF e.value.surface = "window"
                     THEN IF e.value.exists THEN "CREATE_WINDOW" ELSE "DESTROY_WINDOW"
                     ELSE IF e.value.exists THEN "CREATE_VM_CONSOLE" ELSE "DESTROY_VM_CONSOLE"
<1>1. CASE e.kind \notin {"COMPONENT", "BROKER"}
    BY <1>1 DEF Completion
<1>2. CASE e.kind = "BROKER"
    <2>1. e.value \in BOOLEAN
        BY <1>2 DEF EventType
    <2>2. CASE e.value = TRUE
        BY <1>2, <2>2 DEF Completion, Actions
    <2>3. CASE e.value = FALSE
        BY <1>2, <2>3 DEF Completion, Actions
    <2>. QED
        BY <1>2, <2>1, <2>2, <2>3
<1>3. CASE e.kind = "COMPONENT"
    <2>1. e.value \in [surface : {"window", "console"}, exists : BOOLEAN]
        BY <1>3 DEF EventType
    <2>2. PICK n \in {"window", "console"}, b \in BOOLEAN : e.value = [surface |-> n, exists |-> b]
        BY <2>1
    <2>3. e.value.surface = n /\ e.value.exists = b
        BY <2>2
    <2>4. CASE n = "window" /\ b = TRUE
        BY <1>3, <2>2, <2>3, <2>4 DEF Completion, Surface, Actions
    <2>5. CASE n = "window" /\ b = FALSE
        <3>1. e.value = Surface("window", FALSE)
            BY <2>2, <2>5 DEF Surface
        <3>2. \A n1 : Surface(n1, TRUE).exists = TRUE /\ Surface(n1, FALSE).surface = n1
            BY DEF Surface
        <3>3. \A n1 : e.value # Surface(n1, TRUE)
            BY <3>2, <2>3, <2>5
        <3>4. \A n1 : e.value = Surface(n1, FALSE) => n1 = "window"
            BY <3>1, <3>2
        <3>. QED
            BY <1>3, <2>3, <2>5, <3>1, <3>3, <3>4 DEF Completion, Actions
    <2>6. CASE n = "console" /\ b = TRUE
        BY <1>3, <2>2, <2>3, <2>6 DEF Completion, Surface, Actions
    <2>7. CASE n = "console" /\ b = FALSE
        <3>1. e.value = Surface("console", FALSE)
            BY <2>2, <2>7 DEF Surface
        <3>2. \A n1 : Surface(n1, TRUE).exists = TRUE /\ Surface(n1, FALSE).surface = n1
            BY DEF Surface
        <3>3. \A n1 : e.value # Surface(n1, TRUE)
            BY <3>2, <2>3, <2>7
        <3>4. \A n1 : e.value = Surface(n1, FALSE) => n1 = "console"
            BY <3>1, <3>2
        <3>. QED
            BY <1>3, <2>3, <2>7, <3>1, <3>3, <3>4 DEF Completion, Actions
    <2>. QED
        BY <1>3, <2>2, <2>3, <2>4, <2>5, <2>6, <2>7
<1>. QED
    BY <1>1, <1>2, <1>3 DEF EventType

-----------------------------------------------------------------------------
\* The functions of a handler.

\* y has the surfaces, the action in flight and the queue of x; an ended session
\* does not begin again.
Same(x, y) ==
    /\ <<y.st.window, y.st.console, y.st.current, y.st.inflight>>
          = <<x.st.window, x.st.console, x.st.current, x.st.inflight>>
    /\ <<y.ui.window, y.ui.console, y.ui.bound>> = <<x.ui.window, x.ui.console, x.ui.bound>>
    /\ y.fifo = x.fifo
    /\ x.ended => y.ended

\* What the session knows depends only on what Same compares.
LEMMA SameSound ==
    ASSUME NEW x, NEW y, Same(x, y), Sound(x.st, x.ui, x.fifo)
    PROVE  Sound(y.st, y.ui, y.fifo)
BY DEF Same, Sound, Known

LEMMA SameTransitive ==
    ASSUME NEW x, NEW y, NEW z, Same(x, y), Same(y, z)
    PROVE  Same(x, z)
BY DEF Same

\* The fields of a step record.
LEMMA Fields ==
    ASSUME NEW x \in StepType
    PROVE  /\ x.st \in StateType /\ x.p \in PromptType /\ x.ui \in UiType
           /\ x.m \in MachineType /\ x.reading \in BOOLEAN /\ x.ended \in BOOLEAN
           /\ x.fifo \in Seq(EventType)
BY DEF StepType

\* Cancelling a line, and keeping or dropping the text kept back, touch the prompt only.
LEMMA CancelLineKeeps ==
    ASSUME NEW x \in StepType
    PROVE  CancelLine(x) \in StepType /\ CancelLine(x).st = x.st /\ Same(x, CancelLine(x))
           /\ CancelLine(x).ended = x.ended /\ CancelLine(x).m = x.m
BY DEF CancelLine, StepType, PromptType, Same

LEMMA TextKeeps ==
    ASSUME NEW x \in StepType, NEW b \in BOOLEAN
    PROVE  [x EXCEPT !.p.text = b] \in StepType /\ [x EXCEPT !.p.text = b].st = x.st
           /\ Same(x, [x EXCEPT !.p.text = b])
BY DEF StepType, PromptType, Same

\* So does offering the prompt (emulator_session_arm_if_ready).
LEMMA ArmIfReadyKeeps ==
    ASSUME NEW x \in StepType
    PROVE  ArmIfReady(x) \in StepType /\ ArmIfReady(x).st = x.st /\ Same(x, ArmIfReady(x))
<1> DEFINE y == IF x.p.text THEN [CancelLine(x) EXCEPT !.p.text = FALSE] ELSE x
<1>1. y \in StepType /\ y.st = x.st /\ Same(x, y)
    <2>1. CASE x.p.text
        <3>1. y = [CancelLine(x) EXCEPT !.p.text = FALSE]
            BY <2>1
        <3>. QED
            BY <3>1, CancelLineKeeps, TextKeeps, SameTransitive
    <2>2. CASE ~x.p.text
        BY <2>2 DEF Same
    <2>. QED
        BY <2>1, <2>2
<1> DEFINE z == [y EXCEPT !.p.line = TRUE, !.p.due = FALSE, !.reading = TRUE]
<1>2. ArmIfReady(x) = x \/ ArmIfReady(x) = y \/ ArmIfReady(x) = z
    BY DEF ArmIfReady
<1> HIDE DEF y
<1>3. z \in StepType /\ z.st = y.st /\ Same(y, z)
    BY <1>1 DEF StepType, PromptType, Same
<1>4. Same(x, x)
    BY DEF Same
<1> HIDE DEF z
<1>5. Same(x, z)
    BY <1>1, <1>3, SameTransitive
<1>. QED
    BY <1>1, <1>2, <1>3, <1>4, <1>5

\* A request changes the machine and the prompt, or ends the session
\* (emulator_session_dispatch_request).
LEMMA BeginRunType ==
    ASSUME NEW n \in MachineType
    PROVE  BeginRun(n) \in MachineType
<1>1. n.run + 1 \in Nat
    BY DEF MachineType
<1>2. PICK r \in Nat : r = n.run + 1
    BY <1>1
<1>3. BeginRun(n) = [n EXCEPT !.state = "STARTING", !.run = r, !.pubrun = 0, !.graphics = FALSE]
    BY <1>2 DEF BeginRun
<1>4. BeginRun(n) = [state |-> "STARTING", job |-> n.job, run |-> r, seq |-> n.seq,
                     pubrun |-> 0, graphics |-> FALSE]
    BY <1>3 DEF MachineType
<1>5. n.job \in Requests \cup {"NONE"} /\ n.seq \in Nat /\ 0 \in Nat
    BY DEF MachineType
<1>. QED
    BY <1>4, <1>5 DEF MachineType

LEMMA DispatchKeeps ==
    ASSUME NEW x \in StepType, NEW request \in Requests
    PROVE  Dispatch(x, request) \in StepType /\ Dispatch(x, request).st = x.st
           /\ Same(x, Dispatch(x, request))
<1>1. CASE Refused(request, x.m.state)
    BY <1>1 DEF Dispatch, StepType, Same
<1>2. CASE ~Refused(request, x.m.state)
    <2> DEFINE n == [(IF x.m.state = "STOPPED" /\ request \in {"START", "RESET"}
                      THEN BeginRun(x.m) ELSE x.m) EXCEPT !.job = request]
               r == [x.p EXCEPT !.request = request, !.due = FALSE]
    <2>1. n \in MachineType
        BY Fields, BeginRunType DEF MachineType
    <2>2. r \in PromptType
        BY Fields DEF PromptType
    <2>3. Dispatch(x, request) = [x EXCEPT !.p = r, !.m = n]
        BY <1>2 DEF Dispatch, StepType, PromptType
    <2>. QED
        <3> HIDE DEF n, r
        <3>. QED
            BY <2>1, <2>2, <2>3 DEF StepType, Same
<1>. QED
    BY <1>1, <1>2

\* A result of the monitor changes the prompt and dispatches at most one request.
LEMMA ApplyResultKeeps ==
    ASSUME NEW x \in StepType, NEW text \in BOOLEAN, NEW request \in Requests \cup {"NONE"},
           NEW arm \in BOOLEAN
    PROVE  /\ ApplyResult(x, text, request, arm) \in StepType
           /\ ApplyResult(x, text, request, arm).st = x.st
           /\ Same(x, ApplyResult(x, text, request, arm))
<1> DEFINE y == IF ~text THEN x
                ELSE IF MonitorIsCurrent(x.st) THEN CancelLine(x)
                ELSE [x EXCEPT !.p.text = TRUE]
<1>1. y \in StepType /\ y.st = x.st /\ Same(x, y)
    <2>1. [x EXCEPT !.p.text = TRUE] \in StepType /\ [x EXCEPT !.p.text = TRUE].st = x.st
          /\ Same(x, [x EXCEPT !.p.text = TRUE])
        BY DEF StepType, PromptType, Same
    <2>2. Same(x, x)
        BY DEF Same
    <2>. QED
        BY <2>1, <2>2, CancelLineKeeps
<1>2. ApplyResult(x, text, request, arm) =
        IF request = "NONE" THEN [y EXCEPT !.p.due = @ \/ arm]
        ELSE IF y.p.request # "NONE" THEN [y EXCEPT !.p.text = TRUE]
        ELSE Dispatch(y, request)
    BY DEF ApplyResult
<1> HIDE DEF y
<1>3. CASE request = "NONE"
    <2>1. [y EXCEPT !.p.due = @ \/ arm] \in StepType /\ [y EXCEPT !.p.due = @ \/ arm].st = y.st
          /\ Same(y, [y EXCEPT !.p.due = @ \/ arm])
        BY <1>1 DEF StepType, PromptType, Same
    <2>. QED
        BY <1>1, <1>2, <1>3, <2>1, SameTransitive
<1>4. CASE request # "NONE"
    <2>1. [y EXCEPT !.p.text = TRUE] \in StepType /\ [y EXCEPT !.p.text = TRUE].st = y.st
          /\ Same(y, [y EXCEPT !.p.text = TRUE])
        BY <1>1 DEF StepType, PromptType, Same
    <2>2. Dispatch(y, request) \in StepType /\ Dispatch(y, request).st = y.st
          /\ Same(y, Dispatch(y, request))
        BY <1>1, <1>4, DispatchKeeps
    <2>. QED
        BY <1>1, <1>2, <1>4, <2>1, <2>2, SameTransitive
<1>. QED
    BY <1>3, <1>4

\* Showing the state freezes or unfreezes the Window and no more (emulator_ui_set_state).
LEMMA SetStateKeeps ==
    ASSUME NEW x \in StepType
    PROVE  SetState(x) \in StepType /\ SetState(x).st = x.st /\ Same(x, SetState(x))
<1> DEFINE b == IF ~x.ui.window THEN x.ui.frozen
                ELSE CASE x.st.runtime = "RUNNING" -> FALSE
                       [] x.st.runtime = "PAUSED" -> TRUE
                       [] OTHER -> x.ui.frozen
<1>1. b \in BOOLEAN
    BY DEF StepType, UiType
<1>2. SetState(x) = [x EXCEPT !.ui.frozen = b]
    BY DEF SetState
<1> HIDE DEF b
<1>. QED
    BY <1>1, <1>2 DEF StepType, UiType, Same

LEMMA ShowKeeps ==
    ASSUME NEW x \in StepType, NEW event \in EventType
    PROVE  Show(x, event) \in StepType /\ Show(x, event).st = x.st /\ Same(x, Show(x, event))
<1>1. Same(x, x)
    BY DEF Same
<1>2. CASE x.ended
    BY <1>1, <1>2 DEF Show
<1>3. CASE ~x.ended
    <2> DEFINE y == ShowState(x, event.kind)
    <2>1. y \in StepType /\ y.st = x.st /\ Same(x, y)
        BY <1>1, SetStateKeeps DEF ShowState
    <2>2. Show(x, event) = PromptAfterBroker(y, event)
        BY <1>3 DEF Show
    <2> HIDE DEF y
    <2> DEFINE b == y.p.due \/ (/\ MonitorIsCurrent(y.st) /\ mode.display = "CONSOLE"
                                /\ y.st.runtime = "RUNNING" /\ y.st.frame /\ y.st.graphics)
    <2>3. b \in BOOLEAN
        OBVIOUS
    <2>4. \/ PromptAfterBroker(y, event) = y
          \/ PromptAfterBroker(y, event) = [y EXCEPT !.p.due = FALSE, !.p.text = FALSE]
          \/ PromptAfterBroker(y, event) = [y EXCEPT !.p.due = b]
        BY DEF PromptAfterBroker
    <2> HIDE DEF b
    <2>5. /\ [y EXCEPT !.p.due = FALSE, !.p.text = FALSE] \in StepType
          /\ [y EXCEPT !.p.due = FALSE, !.p.text = FALSE].st = y.st
          /\ Same(y, [y EXCEPT !.p.due = FALSE, !.p.text = FALSE])
        BY <2>1 DEF StepType, PromptType, Same
    <2>6. /\ [y EXCEPT !.p.due = b] \in StepType
          /\ [y EXCEPT !.p.due = b].st = y.st
          /\ Same(y, [y EXCEPT !.p.due = b])
        BY <2>1, <2>3 DEF StepType, PromptType, Same
    <2> DEFINE z == PromptAfterBroker(y, event)
    <2>7. z \in StepType /\ z.st = y.st /\ (z = y \/ Same(y, z))
        BY <2>1, <2>4, <2>5, <2>6
    <2> HIDE DEF z
    <2>8. Same(x, z)
        BY <2>1, <2>7, SameTransitive
    <2>. QED
        BY <2>1, <2>2, <2>7, <2>8 DEF z
<1>. QED
    BY <1>2, <1>3

\* The end of a handler.
LEMMA PromptKeeps ==
    ASSUME NEW x \in StepType, NEW event \in EventType
    PROVE  Prompt(x, event) \in StepType /\ Prompt(x, event).st = x.st /\ Same(x, Prompt(x, event))
<1>1. Same(x, x)
    BY DEF Same
<1>. QED
    BY <1>1, ArmIfReadyKeeps DEF Prompt

\* A publication reaches the surfaces that exist and creates none (emulator_ui_publish_frame).
LEMMA ShowFrameKeeps ==
    ASSUME NEW x \in StepType
    PROVE  ShowFrame(x) \in StepType /\ ShowFrame(x).st = x.st /\ Same(x, ShowFrame(x))
<1>1. Same(x, x)
    BY DEF Same
<1>2. CASE x.ended \/ ~Available(x) \/ ~TargetsReady(x.st)
    BY <1>1, <1>2 DEF ShowFrame
<1>3. CASE ~(x.ended \/ ~Available(x) \/ ~TargetsReady(x.st))
    <2>1. ShowFrame(x) = PublishFrame(x, x.m.seq, x.m.graphics)
        BY <1>3 DEF ShowFrame
    <2>2. /\ [x EXCEPT !.ended = TRUE] \in StepType
          /\ [x EXCEPT !.ended = TRUE].st = x.st
          /\ Same(x, [x EXCEPT !.ended = TRUE])
        BY DEF StepType, Same
    <2> DEFINE status == x.m.graphics /\ mode.display = "CONSOLE" /\ ~mode.console_control
               toConsole == /\ x.st.console /\ x.st.current = "VM" /\ x.ui.console
                            /\ status # x.ui.status \/ (~status /\ x.ui.cseq # x.m.seq)
               toWindow == x.st.window /\ x.ui.window
    <2>4. PublishFrame(x, x.m.seq, x.m.graphics) =
             IF toConsole /\ x.m.graphics /\ ~status THEN [x EXCEPT !.ended = TRUE]
             ELSE [x EXCEPT !.ui.cseq = IF toConsole THEN x.m.seq ELSE @,
                            !.ui.status = IF toConsole THEN status ELSE @,
                            !.ui.wseq = IF toWindow THEN x.m.seq ELSE @]
        BY DEF PublishFrame
    <2>5. status \in BOOLEAN
        OBVIOUS
    <2> HIDE DEF status, toConsole, toWindow
    <2>6. /\ (IF toConsole THEN x.m.seq ELSE x.ui.cseq) \in Nat
          /\ (IF toConsole THEN status ELSE x.ui.status) \in BOOLEAN
          /\ (IF toWindow THEN x.m.seq ELSE x.ui.wseq) \in Nat
        BY <2>5 DEF StepType, UiType, MachineType
    <2>7. CASE toConsole /\ x.m.graphics /\ ~status
        BY <2>1, <2>2, <2>4, <2>7
    <2>8. CASE ~(toConsole /\ x.m.graphics /\ ~status)
        <3> DEFINE a == IF toConsole THEN x.m.seq ELSE x.ui.cseq
                   b == IF toConsole THEN status ELSE x.ui.status
                   c == IF toWindow THEN x.m.seq ELSE x.ui.wseq
        <3>1. ShowFrame(x) = [x EXCEPT !.ui.cseq = a, !.ui.status = b, !.ui.wseq = c]
            BY <2>1, <2>4, <2>8
        <3>2. a \in Nat /\ b \in BOOLEAN /\ c \in Nat
            BY <2>6
        <3> HIDE DEF a, b, c
        <3> DEFINE u == [x.ui EXCEPT !.cseq = a, !.status = b, !.wseq = c]
        <3>3. /\ u \in UiType
              /\ <<u.window, u.console, u.bound>> = <<x.ui.window, x.ui.console, x.ui.bound>>
            BY <3>2, Fields DEF UiType
        <3>4. ShowFrame(x) = [x EXCEPT !.ui = u]
            BY <3>1 DEF StepType, UiType
        <3> HIDE DEF u
        <3>. QED
            BY <3>3, <3>4 DEF StepType, Same
    <2>. QED
        BY <2>7, <2>8
<1>. QED
    BY <1>2, <1>3

\* The drive observes a frame without a change of the surfaces.
LEMMA ObserveKeeps ==
    ASSUME NEW x \in StepType
    PROVE  Observe(x) \in StepType /\ Same(x, Observe(x))
<1>1. CASE x.ended
    BY <1>1 DEF Observe, Same
<1>2. CASE ~x.ended
    <2> DEFINE t == IF Available(x) THEN NoteFrame(x.st, x.m.seq, x.m.graphics) ELSE x.st
    <2>1. /\ t \in StateType
          /\ <<t.window, t.console, t.current, t.inflight>>
                = <<x.st.window, x.st.console, x.st.current, x.st.inflight>>
        BY DEF NoteFrame, StepType, StateType, MachineType
    <2>2. Observe(x) = [x EXCEPT !.ui.run = x.m.run, !.st = t]
        BY <1>2 DEF Observe
    <2>3. x.m.run \in Nat
        BY DEF StepType, MachineType
    <2> HIDE DEF t
    <2>. QED
        BY <2>1, <2>2, <2>3 DEF StepType, UiType, Same
<1>. QED
    BY <1>1, <1>2

\* An event the UI emits.
LEMMA EmitType ==
    ASSUME NEW x \in StepType, NEW kind, NEW value,
           [kind |-> kind, run |-> x.ui.run, value |-> value] \in EventType
    PROVE  /\ Emit(x, kind, value) \in StepType
           /\ Emit(x, kind, value).st = x.st /\ Emit(x, kind, value).ui = x.ui
           /\ Emit(x, kind, value).ended = x.ended /\ Emit(x, kind, value).m = x.m
           /\ Emit(x, kind, value).p = x.p /\ Emit(x, kind, value).reading = x.reading
           /\ Emit(x, kind, value).fifo = Append(x.fifo, Event(kind, x.ui.run, value))
           /\ Event(kind, x.ui.run, value) \in EventType
<1> DEFINE e == Event(kind, x.ui.run, value)
<1>1. e \in EventType
    BY DEF Event
<1>2. Emit(x, kind, value) = [x EXCEPT !.fifo = Append(x.fifo, e)]
    BY DEF Emit
<1> HIDE DEF e
<1>3. Append(x.fifo, e) \in Seq(EventType)
    BY <1>1, Fields, ComingAppend
<1>. QED
    BY <1>1, <1>2, <1>3 DEF StepType, e

\* z is x but for the native work of the action a.
Carried(x, z, a) ==
    /\ z.m = x.m /\ z.p = x.p /\ z.ui.run = x.ui.run
    /\ z.reading = (x.reading /\ a \notin {"BIND_VM_CONSOLE", "BIND_MONITOR"})
    /\ a \notin {"CREATE_WINDOW", "DESTROY_WINDOW"} =>
          z.ui.window = x.ui.window /\ z.ui.frozen = x.ui.frozen
    /\ a = "CREATE_WINDOW" /\ ~x.ui.window => z.ui.frozen = (x.st.runtime # "RUNNING")

\* y is x after the action a: the UI has carried it out, and its completion is queued.
Acted(x, y, a) ==
    /\ Carried(x, y, a)
    /\ y.st = [x.st EXCEPT !.inflight = a]
    /\ \E e \in EventType :
          y.fifo = Append(x.fifo, e) /\ Completion(e) = a /\ e.run = x.ui.run

\* What a handler has after its action: either it ended, or it still has no action to
\* take, and what the session knows is again sound.
LEMMA TakeActionActs ==
    ASSUME NEW x \in StepType
    PROVE  /\ TakeAction(x) \in StepType
           /\ x.ended => TakeAction(x).ended
           /\ ~TakeAction(x).ended => Planned(TakeAction(x).st)
           /\ ~TakeAction(x).ended /\ Sound(x.st, x.ui, x.fifo) =>
                 Sound(TakeAction(x).st, TakeAction(x).ui, TakeAction(x).fifo)
           /\ ~TakeAction(x).ended /\ NextAction(x.st) # "NONE" =>
                 Acted(x, TakeAction(x), NextAction(x.st))
<1> DEFINE action == NextAction(x.st)
<1>1. CASE x.ended \/ action = "NONE"
    BY <1>1 DEF TakeAction, Planned
<1>2. CASE ~x.ended /\ action # "NONE"
    <2>1. action \in Actions /\ x.st.inflight = "NONE"
        BY <1>2 DEF NextAction, Actions
    <2> DEFINE y == [x EXCEPT !.st.inflight = action]
    <2>2. TakeAction(x) = ApplyAction(y, action)
        BY <1>2 DEF TakeAction
    <2> HIDE DEF action
    <2>3. /\ y \in StepType /\ y.ui = x.ui /\ y.fifo = x.fifo /\ y.ended = x.ended
          /\ y.m = x.m /\ y.p = x.p /\ y.reading = x.reading
          /\ y.st = [x.st EXCEPT !.inflight = action]
        BY <2>1 DEF StepType, StateType
    <2>4. y.st.inflight = action /\ y.st.window = x.st.window /\ y.st.console = x.st.console
          /\ y.st.current = x.st.current
        BY <2>3, Fields DEF StateType
    <2>5. Planned(y.st)
        BY <2>1, <2>4 DEF Planned, NextAction, Actions
    <2>6. action = NextAction(x.st)
        BY DEF action
    <2> HIDE DEF y
    <2>. QED
        <3>1. ASSUME NEW z \in StepType, NEW kind, NEW value,
                     TakeAction(x) = Emit(z, kind, value),
                     z.st = y.st, z.fifo = x.fifo, z.ended = FALSE,
                     [kind |-> kind, run |-> z.ui.run, value |-> value] \in EventType,
                     Completion(Event(kind, z.ui.run, value)) = action,
                     Known(x.st, x.ui) => Known(z.st, z.ui),
                     Carried(x, z, action)
              PROVE  /\ TakeAction(x) \in StepType
                     /\ x.ended => TakeAction(x).ended
                     /\ ~TakeAction(x).ended => Planned(TakeAction(x).st)
                     /\ ~TakeAction(x).ended /\ Sound(x.st, x.ui, x.fifo) =>
                           Sound(TakeAction(x).st, TakeAction(x).ui, TakeAction(x).fifo)
                     /\ ~TakeAction(x).ended => Acted(x, TakeAction(x), action)
            <4>1. /\ Emit(z, kind, value) \in StepType
                  /\ Emit(z, kind, value).st = z.st /\ Emit(z, kind, value).ui = z.ui
                  /\ Emit(z, kind, value).ended = z.ended /\ Emit(z, kind, value).m = z.m
                  /\ Emit(z, kind, value).p = z.p /\ Emit(z, kind, value).reading = z.reading
                  /\ Emit(z, kind, value).fifo = Append(z.fifo, Event(kind, z.ui.run, value))
                  /\ Event(kind, z.ui.run, value) \in EventType
                BY <3>1, EmitType
            <4>2. Sound(x.st, x.ui, x.fifo) =>
                      OnTheWay(Append(x.fifo, Event(kind, z.ui.run, value)), action)
                BY <3>1, <4>1, <2>1, Fields, OnTheWayAppend DEF Sound
            <4>3. ~x.ended /\ TakeAction(x).ended = FALSE
                BY <3>1, <4>1, <1>2
            <4>4. TakeAction(x).st = y.st /\ TakeAction(x).ui = z.ui
                  /\ TakeAction(x).fifo = Append(x.fifo, Event(kind, z.ui.run, value))
                BY <3>1, <4>1
            <4>5. Event(kind, z.ui.run, value).run = x.ui.run
                BY <3>1 DEF Event, Carried
            <4>6. Carried(x, TakeAction(x), action)
                BY <3>1, <4>1, <4>4 DEF Carried
            <4>7. Acted(x, TakeAction(x), action)
                BY <3>1, <4>1, <4>4, <4>5, <4>6, <2>3 DEF Acted
            <4>. QED
                BY <3>1, <4>1, <4>2, <4>3, <4>4, <4>7, <2>4, <2>5 DEF Sound
        <3>2. ASSUME TakeAction(x) = [y EXCEPT !.ended = TRUE]
              PROVE  /\ TakeAction(x) \in StepType
                     /\ x.ended => TakeAction(x).ended
                     /\ ~TakeAction(x).ended => Planned(TakeAction(x).st)
                     /\ ~TakeAction(x).ended /\ Sound(x.st, x.ui, x.fifo) =>
                           Sound(TakeAction(x).st, TakeAction(x).ui, TakeAction(x).fifo)
                     /\ ~TakeAction(x).ended => Acted(x, TakeAction(x), action)
            BY <3>2, <2>3 DEF StepType
        <3>3. y.ui.run \in Nat /\ y.ended = FALSE
            BY <1>2, <2>3, Fields DEF UiType
        <3>4. CASE action = "CREATE_WINDOW"
            <4> DEFINE a == IF y.ui.window THEN y.ui.wseq ELSE 0
                       b == IF y.ui.window THEN y.ui.frozen ELSE y.st.runtime # "RUNNING"
                       u == [y.ui EXCEPT !.window = TRUE, !.wseq = a, !.frozen = b]
                       z == [y EXCEPT !.ui = u]
            <4>1. a \in Nat /\ b \in BOOLEAN
                BY <2>3, Fields DEF UiType
            <4>2. TakeAction(x) =
                      Emit([y EXCEPT !.ui.window = TRUE, !.ui.wseq = a, !.ui.frozen = b],
                           "COMPONENT", Surface("window", TRUE))
                BY <2>2, <3>4 DEF ApplyAction
            <4> HIDE DEF a, b
            <4>3. [y EXCEPT !.ui.window = TRUE, !.ui.wseq = a, !.ui.frozen = b] = z
                BY <2>3 DEF StepType, UiType
            <4>4. /\ u \in UiType /\ u.window = TRUE /\ u.run = y.ui.run
                 /\ u.frozen = b
                 /\ u.console = x.ui.console /\ u.bound = x.ui.bound
                BY <2>3, <4>1, Fields DEF UiType, Consoles
            <4> HIDE DEF u
            <4>5. /\ z \in StepType /\ z.st = y.st /\ z.fifo = x.fifo /\ z.ended = FALSE
                 /\ z.ui = u /\ z.m = x.m /\ z.p = x.p /\ z.reading = x.reading
                BY <2>3, <3>3, <4>4 DEF StepType
            <4> HIDE DEF z
            <4>6. Known(x.st, x.ui) => Known(z.st, z.ui)
                BY <2>1, <2>4, <3>4, <4>4, <4>5 DEF Known
            <4>7. [kind |-> "COMPONENT", run |-> z.ui.run, value |-> Surface("window", TRUE)] \in EventType
                BY <3>3, <4>4, <4>5 DEF EventType, Surface
            <4>8. Completion(Event("COMPONENT", z.ui.run, Surface("window", TRUE))) = action
                <5>1. Event("COMPONENT", z.ui.run, Surface("window", TRUE)) \in EventType
                    BY <4>7 DEF Event
                <5>2. /\ Event("COMPONENT", z.ui.run, Surface("window", TRUE)).kind = "COMPONENT"
                     /\ Event("COMPONENT", z.ui.run, Surface("window", TRUE)).value.surface = "window"
                     /\ Event("COMPONENT", z.ui.run, Surface("window", TRUE)).value.exists = TRUE
                    BY DEF Event, Surface
                <5>. QED
                    BY <3>4, <5>1, <5>2, Completions
            <4>9. TakeAction(x) = Emit(z, "COMPONENT", Surface("window", TRUE))
                BY <4>2, <4>3
            <4>10. Carried(x, z, action)
                BY <3>4, <2>3, <4>4, <4>5, Fields DEF StateType, b, Carried
            <4>. QED
                BY <2>6, <3>1, <4>5, <4>6, <4>7, <4>8, <4>9, <4>10
        <3>5. CASE action = "CREATE_VM_CONSOLE"
            <4> DEFINE a == IF y.ui.console THEN y.ui.cseq ELSE 0
                       b == y.ui.console /\ y.ui.status
                       u == [y.ui EXCEPT !.console = TRUE, !.cseq = a, !.status = b]
                       z == [y EXCEPT !.ui = u]
            <4>1. a \in Nat /\ b \in BOOLEAN
                BY <2>3, Fields DEF UiType
            <4>2. TakeAction(x) =
                      Emit([y EXCEPT !.ui.console = TRUE, !.ui.cseq = a, !.ui.status = b],
                           "COMPONENT", Surface("console", TRUE))
                BY <2>2, <3>5 DEF ApplyAction
            <4> HIDE DEF a, b
            <4>3. [y EXCEPT !.ui.console = TRUE, !.ui.cseq = a, !.ui.status = b] = z
                BY <2>3 DEF StepType, UiType
            <4>4. /\ u \in UiType /\ u.console = TRUE /\ u.run = y.ui.run
                 /\ u.window = x.ui.window /\ u.bound = x.ui.bound
                     /\ u.frozen = x.ui.frozen
                BY <2>3, <4>1, Fields DEF UiType, Consoles
            <4> HIDE DEF u
            <4>5. /\ z \in StepType /\ z.st = y.st /\ z.fifo = x.fifo /\ z.ended = FALSE
                 /\ z.ui = u /\ z.m = x.m /\ z.p = x.p /\ z.reading = x.reading
                BY <2>3, <3>3, <4>4 DEF StepType
            <4> HIDE DEF z
            <4>6. Known(x.st, x.ui) => Known(z.st, z.ui)
                BY <2>1, <2>4, <3>5, <4>4, <4>5 DEF Known
            <4>7. [kind |-> "COMPONENT", run |-> z.ui.run, value |-> Surface("console", TRUE)] \in EventType
                BY <3>3, <4>4, <4>5 DEF EventType, Surface
            <4>8. Completion(Event("COMPONENT", z.ui.run, Surface("console", TRUE))) = action
                <5>1. Event("COMPONENT", z.ui.run, Surface("console", TRUE)) \in EventType
                    BY <4>7 DEF Event
                <5>2. /\ Event("COMPONENT", z.ui.run, Surface("console", TRUE)).kind = "COMPONENT"
                     /\ Event("COMPONENT", z.ui.run, Surface("console", TRUE)).value.surface = "console"
                     /\ Event("COMPONENT", z.ui.run, Surface("console", TRUE)).value.exists = TRUE
                    BY DEF Event, Surface
                <5>. QED
                    BY <3>5, <5>1, <5>2, Completions
            <4>9. TakeAction(x) = Emit(z, "COMPONENT", Surface("console", TRUE))
                BY <4>2, <4>3
            <4>10. Carried(x, z, action)
                BY <3>5, <2>3, <4>4, <4>5, Fields DEF StateType, Carried
            <4>. QED
                BY <2>6, <3>1, <4>5, <4>6, <4>7, <4>8, <4>9, <4>10
        <3>6. CASE action = "BIND_VM_CONSOLE"
            <4>1. CASE ~y.ui.console \/ (y.ui.bound = "VM")
                <5>1. TakeAction(x) = [y EXCEPT !.ended = TRUE]
                    BY <2>2, <3>6, <4>1 DEF ApplyAction
                <5>. QED
                    BY <3>2, <5>1
            <4>2. CASE ~(~y.ui.console \/ (y.ui.bound = "VM"))
                <5> DEFINE u == [y.ui EXCEPT !.bound = "VM"]
                           z == [y EXCEPT !.ui = u, !.reading = FALSE]
                <5>1. TakeAction(x) =
                          Emit([y EXCEPT !.ui.bound = "VM", !.reading = FALSE], "BROKER", TRUE)
                    BY <2>2, <3>6, <4>2 DEF ApplyAction
                <5>2. [y EXCEPT !.ui.bound = "VM", !.reading = FALSE] = z
                    BY <2>3 DEF StepType, UiType
                <5>3. /\ u \in UiType /\ u.bound = "VM" /\ u.run = y.ui.run
                     /\ u.window = x.ui.window /\ u.console = x.ui.console
                     /\ u.frozen = x.ui.frozen
                    BY <2>3, Fields DEF UiType, Consoles
                <5> HIDE DEF u
                <5>4. /\ z \in StepType /\ z.st = y.st /\ z.fifo = x.fifo /\ z.ended = FALSE
                     /\ z.ui = u /\ z.m = x.m /\ z.p = x.p /\ z.reading = FALSE
                    BY <2>3, <3>3, <5>3 DEF StepType
                <5> HIDE DEF z
                <5>5. Known(x.st, x.ui) => Known(z.st, z.ui)
                    BY <2>1, <2>4, <3>6, <5>3, <5>4 DEF Known
                <5>6. [kind |-> "BROKER", run |-> z.ui.run, value |-> TRUE] \in EventType
                    BY <3>3, <5>3, <5>4 DEF EventType
                <5>7. Completion(Event("BROKER", z.ui.run, TRUE)) = action
                    <6>1. Event("BROKER", z.ui.run, TRUE) \in EventType
                        BY <5>6 DEF Event
                    <6>2. /\ Event("BROKER", z.ui.run, TRUE).kind = "BROKER"
                         /\ Event("BROKER", z.ui.run, TRUE).value = TRUE
                        BY DEF Event
                    <6>. QED
                        BY <3>6, <6>1, <6>2, Completions
                <5>8. TakeAction(x) = Emit(z, "BROKER", TRUE)
                    BY <5>1, <5>2
                <5>9. Carried(x, z, action)
                    BY <3>6, <2>3, <5>3, <5>4, Fields DEF Carried
                <5>. QED
                    BY <2>6, <3>1, <5>4, <5>5, <5>6, <5>7, <5>8, <5>9
            <4>. QED
                BY <4>1, <4>2
        <3>7. CASE action = "BIND_MONITOR"
            <4>1. CASE ~y.ui.console \/ ~(y.ui.bound = "VM")
                <5>1. TakeAction(x) = [y EXCEPT !.ended = TRUE]
                    BY <2>2, <3>7, <4>1 DEF ApplyAction
                <5>. QED
                    BY <3>2, <5>1
            <4>2. CASE ~(~y.ui.console \/ ~(y.ui.bound = "VM"))
                <5> DEFINE u == [y.ui EXCEPT !.bound = "MONITOR"]
                           z == [y EXCEPT !.ui = u, !.reading = FALSE]
                <5>1. TakeAction(x) =
                          Emit([y EXCEPT !.ui.bound = "MONITOR", !.reading = FALSE], "BROKER", FALSE)
                    BY <2>2, <3>7, <4>2 DEF ApplyAction
                <5>2. [y EXCEPT !.ui.bound = "MONITOR", !.reading = FALSE] = z
                    BY <2>3 DEF StepType, UiType
                <5>3. /\ u \in UiType /\ u.bound = "MONITOR" /\ u.run = y.ui.run
                     /\ u.window = x.ui.window /\ u.console = x.ui.console
                     /\ u.frozen = x.ui.frozen
                    BY <2>3, Fields DEF UiType, Consoles
                <5> HIDE DEF u
                <5>4. /\ z \in StepType /\ z.st = y.st /\ z.fifo = x.fifo /\ z.ended = FALSE
                     /\ z.ui = u /\ z.m = x.m /\ z.p = x.p /\ z.reading = FALSE
                    BY <2>3, <3>3, <5>3 DEF StepType
                <5> HIDE DEF z
                <5>5. Known(x.st, x.ui) => Known(z.st, z.ui)
                    BY <2>1, <2>4, <3>7, <5>3, <5>4 DEF Known
                <5>6. [kind |-> "BROKER", run |-> z.ui.run, value |-> FALSE] \in EventType
                    BY <3>3, <5>3, <5>4 DEF EventType
                <5>7. Completion(Event("BROKER", z.ui.run, FALSE)) = action
                    <6>1. Event("BROKER", z.ui.run, FALSE) \in EventType
                        BY <5>6 DEF Event
                    <6>2. /\ Event("BROKER", z.ui.run, FALSE).kind = "BROKER"
                         /\ Event("BROKER", z.ui.run, FALSE).value = FALSE
                        BY DEF Event
                    <6>. QED
                        BY <3>7, <6>1, <6>2, Completions
                <5>8. TakeAction(x) = Emit(z, "BROKER", FALSE)
                    BY <5>1, <5>2
                <5>9. Carried(x, z, action)
                    BY <3>7, <2>3, <5>3, <5>4, Fields DEF Carried
                <5>. QED
                    BY <2>6, <3>1, <5>4, <5>5, <5>6, <5>7, <5>8, <5>9
            <4>. QED
                BY <4>1, <4>2
        <3>8. CASE action = "DESTROY_VM_CONSOLE"
            <4>1. CASE ~y.ui.console
                <5>1. TakeAction(x) = [y EXCEPT !.ended = TRUE]
                    BY <2>2, <3>8, <4>1 DEF ApplyAction
                <5>. QED
                    BY <3>2, <5>1
            <4>2. CASE ~(~y.ui.console)
                <5> DEFINE u == [y.ui EXCEPT !.console = FALSE, !.cseq = 0]
                           z == [y EXCEPT !.ui = u]
                <5>1. TakeAction(x) =
                          Emit([y EXCEPT !.ui.console = FALSE, !.ui.cseq = 0],
                               "COMPONENT", Surface("console", FALSE))
                    BY <2>2, <3>8, <4>2 DEF ApplyAction
                <5>2. [y EXCEPT !.ui.console = FALSE, !.ui.cseq = 0] = z
                    BY <2>3 DEF StepType, UiType
                <5>3. /\ u \in UiType /\ u.console = FALSE /\ u.run = y.ui.run
                     /\ u.window = x.ui.window /\ u.bound = x.ui.bound
                     /\ u.frozen = x.ui.frozen
                    BY <2>3, Fields DEF UiType, Consoles
                <5> HIDE DEF u
                <5>4. /\ z \in StepType /\ z.st = y.st /\ z.fifo = x.fifo /\ z.ended = FALSE
                     /\ z.ui = u /\ z.m = x.m /\ z.p = x.p /\ z.reading = x.reading
                    BY <2>3, <3>3, <5>3 DEF StepType
                <5> HIDE DEF z
                <5>5. Known(x.st, x.ui) => Known(z.st, z.ui)
                    BY <2>1, <2>4, <3>8, <5>3, <5>4 DEF Known
                <5>6. [kind |-> "COMPONENT", run |-> z.ui.run, value |-> Surface("console", FALSE)] \in EventType
                    BY <3>3, <5>3, <5>4 DEF EventType, Surface
                <5>7. Completion(Event("COMPONENT", z.ui.run, Surface("console", FALSE))) = action
                    <6>1. Event("COMPONENT", z.ui.run, Surface("console", FALSE)) \in EventType
                        BY <5>6 DEF Event
                    <6>2. /\ Event("COMPONENT", z.ui.run, Surface("console", FALSE)).kind = "COMPONENT"
                         /\ Event("COMPONENT", z.ui.run, Surface("console", FALSE)).value.surface = "console"
                         /\ Event("COMPONENT", z.ui.run, Surface("console", FALSE)).value.exists = FALSE
                        BY DEF Event, Surface
                    <6>. QED
                        BY <3>8, <6>1, <6>2, Completions
                <5>8. TakeAction(x) = Emit(z, "COMPONENT", Surface("console", FALSE))
                    BY <5>1, <5>2
                <5>9. Carried(x, z, action)
                    BY <3>8, <2>3, <5>3, <5>4, Fields DEF Carried
                <5>. QED
                    BY <2>6, <3>1, <5>4, <5>5, <5>6, <5>7, <5>8, <5>9
            <4>. QED
                BY <4>1, <4>2
        <3>9. CASE action = "DESTROY_WINDOW"
            <4>1. CASE ~y.ui.window
                <5>1. TakeAction(x) = [y EXCEPT !.ended = TRUE]
                    BY <2>2, <3>9, <4>1 DEF ApplyAction
                <5>. QED
                    BY <3>2, <5>1
            <4>2. CASE ~(~y.ui.window)
                <5> DEFINE u == [y.ui EXCEPT !.window = FALSE, !.wseq = 0, !.frozen = FALSE]
                           z == [y EXCEPT !.ui = u]
                <5>1. TakeAction(x) =
                          Emit([y EXCEPT !.ui.window = FALSE, !.ui.wseq = 0, !.ui.frozen = FALSE],
                               "COMPONENT", Surface("window", FALSE))
                    BY <2>2, <3>9, <4>2 DEF ApplyAction
                <5>2. [y EXCEPT !.ui.window = FALSE, !.ui.wseq = 0, !.ui.frozen = FALSE] = z
                    BY <2>3 DEF StepType, UiType
                <5>3. /\ u \in UiType /\ u.window = FALSE /\ u.run = y.ui.run
                     /\ u.console = x.ui.console /\ u.bound = x.ui.bound
                    BY <2>3, Fields DEF UiType, Consoles
                <5> HIDE DEF u
                <5>4. /\ z \in StepType /\ z.st = y.st /\ z.fifo = x.fifo /\ z.ended = FALSE
                     /\ z.ui = u /\ z.m = x.m /\ z.p = x.p /\ z.reading = x.reading
                    BY <2>3, <3>3, <5>3 DEF StepType
                <5> HIDE DEF z
                <5>5. Known(x.st, x.ui) => Known(z.st, z.ui)
                    BY <2>1, <2>4, <3>9, <5>3, <5>4 DEF Known
                <5>6. [kind |-> "COMPONENT", run |-> z.ui.run, value |-> Surface("window", FALSE)] \in EventType
                    BY <3>3, <5>3, <5>4 DEF EventType, Surface
                <5>7. Completion(Event("COMPONENT", z.ui.run, Surface("window", FALSE))) = action
                    <6>1. Event("COMPONENT", z.ui.run, Surface("window", FALSE)) \in EventType
                        BY <5>6 DEF Event
                    <6>2. /\ Event("COMPONENT", z.ui.run, Surface("window", FALSE)).kind = "COMPONENT"
                         /\ Event("COMPONENT", z.ui.run, Surface("window", FALSE)).value.surface = "window"
                         /\ Event("COMPONENT", z.ui.run, Surface("window", FALSE)).value.exists = FALSE
                        BY DEF Event, Surface
                    <6>. QED
                        BY <3>9, <6>1, <6>2, Completions
                <5>8. TakeAction(x) = Emit(z, "COMPONENT", Surface("window", FALSE))
                    BY <5>1, <5>2
                <5>9. Carried(x, z, action)
                    BY <3>9, <2>3, <5>3, <5>4, Fields DEF Carried
                <5>. QED
                    BY <2>6, <3>1, <5>4, <5>5, <5>6, <5>7, <5>8, <5>9
            <4>. QED
                BY <4>1, <4>2
        <3>. QED
            BY <2>1, <3>4, <3>5, <3>6, <3>7, <3>8, <3>9 DEF Actions, action
<1>. QED
    BY <1>1, <1>2

-----------------------------------------------------------------------------
\* What an event changes.

\* A load reports a run at most: the surfaces stay, and no completion is added.
LEMMA LoadedKeeps ==
    ASSUME NEW x \in StepType
    PROVE  /\ Loaded(x) \in StepType
           /\ Loaded(x).st = x.st /\ Loaded(x).ui = x.ui
           /\ Sound(x.st, x.ui, x.fifo) => Sound(Loaded(x).st, Loaded(x).ui, Loaded(x).fifo)
<1>1. CASE x.m.state # "STOPPED" \/ x.m.job # "NONE"
    BY <1>1 DEF Loaded
<1>2. CASE ~(x.m.state # "STOPPED" \/ x.m.job # "NONE")
    <2> DEFINE n == [BeginRun(x.m) EXCEPT !.state = "PAUSED"]
               e == Event("RUNTIME", n.run, "PAUSED")
    <2>1. Loaded(x) = [x EXCEPT !.m = n, !.fifo = Append(x.fifo, e)]
        BY <1>2 DEF Loaded
    <2>2. n \in MachineType
        BY Fields, BeginRunType DEF MachineType, Runtimes
    <2> HIDE DEF n
    <2>3. e \in EventType /\ e.kind = "RUNTIME"
        BY <2>2 DEF Event, EventType, Facts, Runtimes, MachineType
    <2> HIDE DEF e
    <2>4. Append(x.fifo, e) \in Seq(EventType)
        BY <2>3, Fields, ComingAppend
    <2>5. /\ Loaded(x) \in StepType /\ Loaded(x).st = x.st /\ Loaded(x).ui = x.ui
          /\ Loaded(x).fifo = Append(x.fifo, e)
        BY <2>1, <2>2, <2>4 DEF StepType
    <2>6. Completion(e) = "NONE"
        BY <2>3, Completions
    <2>. QED
        BY <2>3, <2>5, <2>6, Fields, OnTheWayAppend DEF Sound
<1>. QED
    BY <1>1, <1>2

\* A line: the command, and its result.
LEMMA SubmitLineKeeps ==
    ASSUME NEW x \in StepType, NEW command
    PROVE  /\ SubmitLine(x, command) \in StepType
           /\ Sound(x.st, x.ui, x.fifo) =>
                 Sound(SubmitLine(x, command).st, SubmitLine(x, command).ui,
                       SubmitLine(x, command).fifo)
<1> DEFINE r == [x EXCEPT !.p.line = FALSE]
           y == IF command = "load" /\ x.st.monitor = "STOPPED" THEN Loaded(r) ELSE r
           q == RequestOf(command, x.st.monitor)
           b == q = "NONE" /\ command # ""
           z == ApplyResult(y, b, q, TRUE)
<1>1. r \in StepType /\ r.st = x.st /\ r.ui = x.ui /\ r.fifo = x.fifo
    BY DEF StepType, PromptType
<1>2. q \in Requests \cup {"NONE"} /\ b \in BOOLEAN
    BY DEF RequestOf, Requests
<1>3. SubmitLine(x, command) = z
    BY DEF SubmitLine
<1> HIDE DEF r, q, b
<1>4. /\ y \in StepType
      /\ Sound(x.st, x.ui, x.fifo) => Sound(y.st, y.ui, y.fifo)
    BY <1>1, LoadedKeeps
<1> HIDE DEF y
<1>5. z \in StepType /\ Same(y, z)
    BY <1>2, <1>4, ApplyResultKeeps
<1> HIDE DEF z
<1>. QED
    BY <1>3, <1>4, <1>5, SameSound

\* A close of the Window and the hotkey request a pause or a resume at most.
LEMMA InputKeeps ==
    ASSUME NEW x \in StepType
    PROVE  /\ WindowClose(x) \in StepType /\ Same(x, WindowClose(x))
           /\ Hotkey(x) \in StepType /\ Same(x, Hotkey(x))
<1> DEFINE y == [x EXCEPT !.st.suppressed = TRUE]
<1>1. y \in StepType /\ Same(x, y)
    BY DEF StepType, StateType, Same
<1>2. WindowClose(x) = y \/ WindowClose(x) = ApplyResult(y, FALSE, "PAUSE", FALSE)
    BY DEF WindowClose
<1> HIDE DEF y
<1>3. /\ ApplyResult(y, FALSE, "PAUSE", FALSE) \in StepType
      /\ Same(y, ApplyResult(y, FALSE, "PAUSE", FALSE))
    BY <1>1, ApplyResultKeeps DEF Requests
<1>4. WindowClose(x) \in StepType /\ Same(x, WindowClose(x))
    <2>1. Same(x, ApplyResult(y, FALSE, "PAUSE", FALSE))
        BY <1>1, <1>3, SameTransitive
    <2>2. CASE WindowClose(x) = y
        BY <1>1, <2>2
    <2>3. CASE WindowClose(x) = ApplyResult(y, FALSE, "PAUSE", FALSE)
        BY <1>3, <2>1, <2>3
    <2>. QED
        BY <1>2, <2>2, <2>3
<1> DEFINE q == IF x.st.monitor = "RUNNING" THEN "PAUSE" ELSE "RESUME"
<1>5. q \in Requests \cup {"NONE"} /\ Hotkey(x) = ApplyResult(x, FALSE, q, FALSE)
    BY DEF Hotkey, Requests
<1> HIDE DEF q
<1>6. Hotkey(x) \in StepType /\ Same(x, Hotkey(x))
    BY <1>5, ApplyResultKeeps
<1>. QED
    BY <1>4, <1>6

\* A fact of the machine is noted and announced; the surfaces wait for the drive.
LEMMA RuntimeKeeps ==
    ASSUME NEW x \in StepType, NEW event \in EventType, event.kind = "RUNTIME"
    PROVE  NoteEvent(x, event) \in StepType /\ Same(x, NoteEvent(x, event))
<1>1. event.value \in Facts
    BY DEF EventType
<1> DEFINE t == NoteRuntime(x.st, event.value)
           says == /\ ~(x.st.monitor = "INIT" /\ event.value = "STOPPED")
                   /\ Announces(x.st.monitor, event.value)
           y == [x EXCEPT !.st = t, !.p.request = "NONE"]
<1>2. NoteEvent(x, event) = ApplyResult(y, says, "NONE", says)
    BY DEF NoteEvent
<1>3. says \in BOOLEAN
    BY DEF Announces
<1>4. /\ t \in StateType
      /\ <<t.window, t.console, t.current, t.inflight>>
            = <<x.st.window, x.st.console, x.st.current, x.st.inflight>>
    <2> DEFINE runtime == IF event.value = "RESET_COMPLETED" THEN "PAUSED" ELSE event.value
               over == runtime \in {"STOPPED", "ERROR"}
               sup == IF runtime = "RUNNING" /\ x.st.runtime # "RUNNING" THEN FALSE
                      ELSE x.st.suppressed \/ (event.value = "PAUSED" /\ x.st.runtime = "STOPPED"
                                               /\ ~x.st.window)
               f == x.st.frame /\ ~over
               g == x.st.graphics /\ ~over
    <2>1. runtime \in Runtimes
        BY <1>1 DEF Facts, Runtimes
    <2>2. sup \in BOOLEAN /\ f \in BOOLEAN /\ g \in BOOLEAN
        BY Fields DEF StateType
    <2>3. t = [x.st EXCEPT !.monitor = runtime, !.runtime = runtime, !.suppressed = sup,
                           !.frame = f, !.graphics = g]
        BY DEF NoteRuntime
    <2> HIDE DEF runtime, sup, f, g, t
    <2>. QED
        BY <2>1, <2>2, <2>3, Fields DEF StateType
<1> HIDE DEF t, says
<1>5. y \in StepType /\ Same(x, y)
    BY <1>4 DEF StepType, PromptType, Same
<1> HIDE DEF y
<1>6. /\ ApplyResult(y, says, "NONE", says) \in StepType
      /\ Same(y, ApplyResult(y, says, "NONE", says))
    BY <1>3, <1>5, ApplyResultKeeps
<1>. QED
    BY <1>2, <1>5, <1>6, SameTransitive

\* A completion: the session learns what the UI did, and nothing is in flight.
LEMMA CompletionKnown ==
    ASSUME NEW x \in StepType, NEW event \in EventType, event.kind \in {"COMPONENT", "BROKER"}
    PROVE  /\ NoteEvent(x, event) \in StepType
           /\ NoteEvent(x, event).fifo = x.fifo /\ NoteEvent(x, event).ui = x.ui
           /\ x.st.inflight = Completion(event) /\ Known(x.st, x.ui) =>
                 /\ NoteEvent(x, event).st.inflight = "NONE"
                 /\ Known(NoteEvent(x, event).st, x.ui)
<1>1. CASE event.kind = "BROKER"
    <2>1. event.value \in BOOLEAN
        BY <1>1, Completions
    <2> DEFINE t == NoteCurrent(x.st, event.value)
    <2>2. NoteEvent(x, event) = [x EXCEPT !.p.line = FALSE, !.st = t]
        BY <1>1 DEF NoteEvent
    <2>3. /\ t \in StateType
          /\ t.window = x.st.window /\ t.console = x.st.console
          /\ t.current = (IF event.value THEN "VM" ELSE "MONITOR")
          /\ t.inflight = Completes(x.st, IF event.value THEN "BIND_VM_CONSOLE" ELSE "BIND_MONITOR")
        BY Fields DEF NoteCurrent, Completes, StateType, Consoles
    <2> HIDE DEF t
    <2> DEFINE r == [x.p EXCEPT !.line = FALSE]
    <2>4. r \in PromptType
        BY Fields DEF PromptType
    <2>5. NoteEvent(x, event) = [x EXCEPT !.p = r, !.st = t]
        BY <2>2 DEF StepType, PromptType
    <2>6. t \in StateType
        BY <2>3
    <2> HIDE DEF r
    <2>7. /\ NoteEvent(x, event) \in StepType /\ NoteEvent(x, event).st = t
          /\ NoteEvent(x, event).fifo = x.fifo /\ NoteEvent(x, event).ui = x.ui
        BY <2>4, <2>5, <2>6 DEF StepType
    <2>8. Completion(event) = IF event.value THEN "BIND_VM_CONSOLE" ELSE "BIND_MONITOR"
        BY <1>1, Completions
    <2>9. ASSUME x.st.inflight = Completion(event), Known(x.st, x.ui)
          PROVE  t.inflight = "NONE" /\ Known(t, x.ui)
        BY <2>1, <2>3, <2>8, <2>9 DEF Known, Completes
    <2>. QED
        BY <2>7, <2>9
<1>2. CASE event.kind = "COMPONENT"
    <2>1. /\ event.value.surface \in {"window", "console"} /\ event.value.exists \in BOOLEAN
          /\ Completion(event) =
                IF event.value.surface = "window"
                THEN IF event.value.exists THEN "CREATE_WINDOW" ELSE "DESTROY_WINDOW"
                ELSE IF event.value.exists THEN "CREATE_VM_CONSOLE" ELSE "DESTROY_VM_CONSOLE"
        BY <1>2, Completions
    <2>2. PICK b \in BOOLEAN : b = event.value.exists
        BY <2>1
    <2>3. CASE event.value.surface = "window"
        <3> DEFINE t == NoteWindow(x.st, b)
        <3>1. NoteEvent(x, event) = [x EXCEPT !.st = t]
            BY <1>2, <2>2, <2>3 DEF NoteEvent
        <3>2. /\ t \in StateType /\ t.window = b /\ t.console = x.st.console
              /\ t.current = x.st.current
              /\ t.inflight = Completes(x.st, IF b THEN "CREATE_WINDOW" ELSE "DESTROY_WINDOW")
            BY Fields DEF NoteWindow, Completes, StateType
        <3> HIDE DEF t
        <3>3. /\ NoteEvent(x, event) \in StepType /\ NoteEvent(x, event).st = t
              /\ NoteEvent(x, event).fifo = x.fifo /\ NoteEvent(x, event).ui = x.ui
            BY <3>1, <3>2 DEF StepType
        <3>4. ASSUME x.st.inflight = Completion(event), Known(x.st, x.ui)
              PROVE  t.inflight = "NONE" /\ Known(t, x.ui)
            BY <2>1, <2>2, <2>3, <3>2, <3>4 DEF Known, Completes
        <3>. QED
            BY <3>3, <3>4
    <2>4. CASE event.value.surface = "console"
        <3> DEFINE t == NoteConsole(x.st, b)
        <3>1. NoteEvent(x, event) = [x EXCEPT !.st = t]
            BY <1>2, <2>2, <2>4 DEF NoteEvent
        <3>2. /\ t \in StateType /\ t.window = x.st.window /\ t.console = b
              /\ t.current = x.st.current
              /\ t.inflight = Completes(x.st, IF b THEN "CREATE_VM_CONSOLE" ELSE "DESTROY_VM_CONSOLE")
            BY Fields DEF NoteConsole, Completes, StateType
        <3> HIDE DEF t
        <3>3. /\ NoteEvent(x, event) \in StepType /\ NoteEvent(x, event).st = t
              /\ NoteEvent(x, event).fifo = x.fifo /\ NoteEvent(x, event).ui = x.ui
            BY <3>1, <3>2 DEF StepType
        <3>4. ASSUME x.st.inflight = Completion(event), Known(x.st, x.ui)
              PROVE  t.inflight = "NONE" /\ Known(t, x.ui)
            BY <2>1, <2>2, <2>4, <3>2, <3>4 DEF Known, Completes
        <3>. QED
            BY <3>3, <3>4
    <2>. QED
        BY <2>1, <2>3, <2>4
<1>. QED
    BY <1>1, <1>2

\* Whatever the event, reducing it keeps what the session knows sound.
LEMMA ReduceKeeps ==
    ASSUME NEW x \in StepType, NEW event \in EventType
    PROVE  /\ Reduce(x, event) \in StepType
           /\ Completion(event) = "NONE" /\ Sound(x.st, x.ui, x.fifo) =>
                 Sound(Reduce(x, event).st, Reduce(x, event).ui, Reduce(x, event).fifo)
           /\ Completion(event) # "NONE" /\ x.st.inflight = Completion(event)
              /\ OnTheWay(x.fifo, "NONE") /\ Known(x.st, x.ui) =>
                 Sound(Reduce(x, event).st, Reduce(x, event).ui, Reduce(x, event).fifo)
<1>1. CASE event.kind = "LINE"
    <2>1. Reduce(x, event) = SubmitLine(x, event.value) /\ Completion(event) = "NONE"
        BY <1>1, Completions DEF Reduce
    <2>. QED
        BY <2>1, SubmitLineKeeps
<1>2. CASE event.kind = "KVM"
    <2>1. /\ Reduce(x, event) = WindowClose(x) \/ Reduce(x, event) = Hotkey(x)
          /\ Completion(event) = "NONE"
        BY <1>2, Completions DEF Reduce
    <2>2. Reduce(x, event) \in StepType /\ Same(x, Reduce(x, event))
        BY <2>1, InputKeeps
    <2>. QED
        BY <2>1, <2>2, SameSound
<1>3. CASE event.kind = "RUNTIME"
    <2>1. Reduce(x, event) = NoteEvent(x, event) /\ Completion(event) = "NONE"
        BY <1>3, Completions DEF Reduce
    <2>2. Reduce(x, event) \in StepType /\ Same(x, Reduce(x, event))
        BY <1>3, <2>1, RuntimeKeeps
    <2>. QED
        BY <2>1, <2>2, SameSound
<1>4. CASE event.kind = "FRAME"
    BY <1>4, Completions DEF Reduce, NoteEvent
<1>5. CASE event.kind \in {"COMPONENT", "BROKER"}
    <2>1. Reduce(x, event) = NoteEvent(x, event) /\ Completion(event) # "NONE"
        BY <1>5, Completions DEF Reduce, Actions
    <2>. QED
        BY <1>5, <2>1, CompletionKnown DEF Sound
<1>6. event.kind \in {"LINE", "KVM", "RUNTIME", "FRAME", "COMPONENT", "BROKER"}
    BY DEF EventType
<1>. QED
    BY <1>1, <1>2, <1>3, <1>4, <1>5, <1>6

-----------------------------------------------------------------------------
\* The steps.

\* A handler is reduce, observe, act, publish, show and prompt, in this order.
LEMMA HandlerKeeps ==
    ASSUME NEW x \in StepType, NEW event \in EventType, NEW reduced, NEW observed, NEW acted,
           NEW driven, NEW shown, NEW y,
           reduced = Reduce(x, event), observed = Observe(reduced),
           acted = TakeAction(observed), driven = ShowFrame(acted),
           shown = Show(driven, event), y = Prompt(shown, event)
    PROVE  /\ y \in StepType
           /\ ~y.ended => Planned(y.st)
           /\ ~y.ended /\ Sound(reduced.st, reduced.ui, reduced.fifo) => Sound(y.st, y.ui, y.fifo)
<1>1. reduced \in StepType
    BY ReduceKeeps
<1>2. observed \in StepType /\ Same(reduced, observed)
    BY <1>1, ObserveKeeps
<1>3. /\ acted \in StepType
      /\ ~acted.ended => Planned(acted.st)
      /\ ~acted.ended /\ Sound(observed.st, observed.ui, observed.fifo) =>
            Sound(acted.st, acted.ui, acted.fifo)
    BY <1>2, TakeActionActs
<1>4. driven \in StepType /\ driven.st = acted.st /\ Same(acted, driven)
    BY <1>3, ShowFrameKeeps
<1>5. shown \in StepType /\ shown.st = driven.st /\ Same(driven, shown)
    BY <1>4, ShowKeeps
<1>6. y \in StepType /\ y.st = shown.st /\ Same(shown, y)
    BY <1>5, PromptKeeps
<1>7. Same(acted, y)
    BY <1>4, <1>5, <1>6, SameTransitive
<1>8. ~y.ended => ~acted.ended
    BY <1>7 DEF Same
<1>9. Sound(reduced.st, reduced.ui, reduced.fifo) => Sound(observed.st, observed.ui, observed.fifo)
    BY <1>2, SameSound
<1>10. Sound(acted.st, acted.ui, acted.fifo) => Sound(y.st, y.ui, y.fifo)
    BY <1>7, SameSound
<1>. QED
    BY <1>3, <1>4, <1>5, <1>6, <1>8, <1>9, <1>10

\* A turn of the session loop: an ignored event, or a handler.
LEMMA TakeKeeps ==
    ASSUME IInv, Take
    PROVE  IInv'
<1> DEFINE event == Head(fifo)
           x == [Now EXCEPT !.fifo = Tail(@)]
<1>1. ~ended /\ fifo # <<>> /\ fifo \in Seq(EventType) /\ UNCHANGED inputs
    BY DEF Take, IInv, Typed
<1>2. event \in EventType /\ Tail(fifo) \in Seq(EventType)
    BY <1>1, HeadTailProperties
<1>3. /\ x \in StepType /\ x.st = st /\ x.ui = ui /\ x.fifo = Tail(fifo)
    BY <1>2 DEF IInv, Typed, Now, StepType
<1>4. ~dropped => OnTheWay(fifo, st.inflight) /\ Known(st, ui)
    BY <1>1 DEF IInv, Sound
<1>5. CASE Ignored(event)
    <2>1. /\ fifo' = x.fifo /\ UNCHANGED <<st, p, ui, reading, m, ended>>
          /\ dropped' = (dropped \/ event.kind \in {"COMPONENT", "BROKER"})
        BY <1>5 DEF Take
    <2>2. Typed'
        BY <1>1, <1>2, <1>3, <2>1 DEF IInv, Typed
    <2>3. ASSUME ~dropped'
          PROVE  Sound(st, ui, fifo)'
        <3>1. ~dropped /\ event.kind \notin {"COMPONENT", "BROKER"}
            BY <2>1, <2>3
        <3>2. Completion(event) = "NONE"
            BY <1>2, <3>1, Completions
        <3>3. OnTheWay(Tail(fifo), st.inflight)
            BY <1>1, <1>4, <3>1, <3>2, OnTheWayTail
        <3>. QED
            BY <1>3, <1>4, <2>1, <3>1, <3>3 DEF Sound
    <2>4. Planned(st)'
        BY <1>1, <2>1 DEF IInv, Planned, NextAction, Desired, Plan, Take
    <2>. QED
        BY <2>2, <2>3, <2>4 DEF IInv
<1>6. CASE ~Ignored(event)
    <2>1. PICK reduced \in {Reduce(x, event)} : \E observed \in {Observe(reduced)} :
              \E acted \in {TakeAction(observed)} : \E driven \in {ShowFrame(acted)} :
              \E shown \in {Show(driven, event)} : \E y \in {Prompt(shown, event)} :
                 /\ st' = y.st /\ p' = y.p /\ ui' = y.ui /\ reading' = y.reading
                 /\ m' = y.m /\ fifo' = y.fifo /\ ended' = y.ended
        BY <1>6 DEF Take
    <2>2. PICK observed, acted, driven, shown, y :
              /\ observed = Observe(reduced) /\ acted = TakeAction(observed)
              /\ driven = ShowFrame(acted) /\ shown = Show(driven, event)
              /\ y = Prompt(shown, event)
              /\ st' = y.st /\ p' = y.p /\ ui' = y.ui /\ reading' = y.reading
              /\ m' = y.m /\ fifo' = y.fifo /\ ended' = y.ended
        BY <2>1
    <2>3. UNCHANGED <<dropped, mode>>
        BY <1>6 DEF Take
    <2>4. reduced = Reduce(x, event)
        BY <2>1
    <2> HIDE DEF x, event
    <2>5. /\ y \in StepType
          /\ ~y.ended => Planned(y.st)
          /\ ~y.ended /\ Sound(reduced.st, reduced.ui, reduced.fifo) =>
                Sound(y.st, y.ui, y.fifo)
        BY <1>2, <1>3, <2>2, <2>4, HandlerKeeps
    <2>6. Typed'
        <3>1. inputs' \in Nat /\ dropped' \in BOOLEAN
            BY <1>1, <2>3 DEF IInv, Typed
        <3>. QED
            BY <2>2, <2>5, <3>1, Fields DEF Typed
    <2>7. ASSUME ~dropped
          PROVE  Sound(reduced.st, reduced.ui, reduced.fifo)
        <3>1. /\ Completion(event) = "NONE" => OnTheWay(Tail(fifo), st.inflight)
              /\ Completion(event) # "NONE" => /\ st.inflight = Completion(event)
                                               /\ OnTheWay(Tail(fifo), "NONE")
            BY <1>1, <1>4, <2>7, OnTheWayTail DEF event
        <3>2. CASE Completion(event) = "NONE"
            <4>1. Sound(x.st, x.ui, x.fifo)
                BY <1>3, <1>4, <2>7, <3>1, <3>2 DEF Sound
            <4>. QED
                BY <1>2, <1>3, <2>4, <3>2, <4>1, ReduceKeeps
        <3>3. CASE Completion(event) # "NONE"
            <4>1. x.st.inflight = Completion(event) /\ OnTheWay(x.fifo, "NONE")
                  /\ Known(x.st, x.ui)
                BY <1>3, <1>4, <2>7, <3>1, <3>3
            <4>. QED
                BY <1>2, <1>3, <2>4, <3>3, <4>1, ReduceKeeps
        <3>. QED
            BY <3>2, <3>3
    <2>8. ~ended' /\ ~dropped' => Sound(st, ui, fifo)'
        BY <2>2, <2>3, <2>5, <2>7
    <2>9. ~ended' => Planned(st)'
        BY <2>2, <2>3, <2>5 DEF Planned, NextAction, Desired, Plan
    <2>. QED
        BY <2>6, <2>8, <2>9 DEF IInv
<1>. QED
    BY <1>5, <1>6

\* A step of the machine or the user adds an event that completes nothing, or none.
LEMMA PushKeeps ==
    ASSUME IInv, NEW e \in EventType, e.kind \notin {"COMPONENT", "BROKER"},
           fifo' = Append(fifo, e) \/ fifo' = fifo,
           UNCHANGED <<mode, st, ui, ended, dropped>>,
           p' \in PromptType, m' \in MachineType, reading' \in BOOLEAN, inputs' \in Nat
    PROVE  IInv'
<1>1. fifo \in Seq(EventType)
    BY DEF IInv, Typed
<1>2. Completion(e) = "NONE"
    BY Completions
<1>3. Append(fifo, e) \in Seq(EventType)
    BY <1>1, ComingAppend
<1>4. Typed'
    BY <1>1, <1>3 DEF IInv, Typed
<1>5. OnTheWay(fifo, st.inflight) => OnTheWay(Append(fifo, e), st.inflight)
    BY <1>1, <1>2, OnTheWayAppend
<1>6. ~ended' /\ ~dropped' => Sound(st, ui, fifo)'
    BY <1>5 DEF IInv, Sound
<1>7. ~ended' => Planned(st)'
    BY DEF IInv, Planned, NextAction, Desired, Plan
<1>. QED
    BY <1>4, <1>6, <1>7 DEF IInv

\* The machine and the user.
LEMMA OthersKeep ==
    ASSUME IInv, \/ Complete \/ Restart \/ Fail \/ Input
                 \/ \E graphics \in BOOLEAN : Publish(graphics)
    PROVE  IInv'
<1>1. /\ p \in PromptType /\ m \in MachineType /\ reading \in BOOLEAN /\ inputs \in Nat
      /\ ui \in UiType /\ m.run \in Nat /\ ui.run \in Nat
    BY DEF IInv, Typed, MachineType, UiType
<1>2. /\ \A r \in Nat, v \in Facts : Event("RUNTIME", r, v) \in EventType
      /\ \A r \in Nat, v \in Facts : Event("RUNTIME", r, v).kind = "RUNTIME"
    BY DEF Event, EventType
<1>3. CASE Complete
    <2> DEFINE result == CASE m.job = "START" -> "RUNNING"
                           [] m.job = "RESUME" -> "RUNNING"
                           [] m.job = "PAUSE" -> "PAUSED"
                           [] m.job = "STOP" -> "STOPPED"
                           [] m.job = "RESET" -> "RESET_COMPLETED"
                           [] OTHER -> "NONE"
               s == IF result = "RESET_COMPLETED" THEN "PAUSED" ELSE result
    <2>1. /\ m.job # "NONE" /\ m' = [m EXCEPT !.job = "NONE", !.state = s]
          /\ fifo' = Append(fifo, Event("RUNTIME", m.run, result)) /\ Others
        BY <1>3 DEF Complete, Push
    <2>2. result \in Facts /\ s \in Runtimes
        BY <1>1, <2>1 DEF MachineType, Requests, Facts, Runtimes
    <2> HIDE DEF result, s
    <2>3. m' \in MachineType
        BY <1>1, <2>1, <2>2 DEF MachineType
    <2>. QED
        BY <1>1, <1>2, <2>1, <2>2, <2>3, PushKeeps DEF Others
<1>4. CASE Restart
    <2>1. m' = BeginRun(m) /\ UNCHANGED fifo /\ Others
        BY <1>4 DEF Restart
    <2>2. m' \in MachineType
        BY <1>1, <2>1, BeginRunType
    <2>3. "ERROR" \in Facts
        BY DEF Facts, Runtimes
    <2>. QED
        BY <1>1, <1>2, <2>1, <2>2, <2>3, PushKeeps DEF Others
<1>5. CASE Fail
    <2>1. /\ m' = [m EXCEPT !.state = "ERROR", !.job = "NONE"]
          /\ fifo' = Append(fifo, Event("RUNTIME", m.run, "ERROR")) /\ Others
        BY <1>5 DEF Fail, Push
    <2>2. m' \in MachineType /\ "ERROR" \in Facts
        BY <1>1, <2>1 DEF MachineType, Facts, Runtimes
    <2>. QED
        BY <1>1, <1>2, <2>1, <2>2, PushKeeps DEF Others
<1>6. CASE Input
    <2>1. /\ inputs' \in Nat /\ UNCHANGED <<mode, st, p, ui, m, ended, dropped>>
          /\ reading' \in BOOLEAN
        <3>1. inputs' = inputs + 1 /\ UNCHANGED <<mode, st, p, ui, m, ended, dropped>>
            BY <1>6 DEF Input
        <3>2. reading' = reading \/ reading' = FALSE
            BY <1>6 DEF Input
        <3>3. inputs' \in Nat
            BY <1>1, <3>1
        <3>4. reading' \in BOOLEAN
            BY <1>1, <3>2
        <3>. QED
            BY <3>1, <3>3, <3>4
    <2>2. PICK k \in {"KVM", "LINE"}, r \in Nat, v \in {"close", "hotkey"} \cup Commands :
              /\ fifo' = Append(fifo, Event(k, r, v))
              /\ k = "KVM" <=> v \in {"close", "hotkey"}
              /\ k = "LINE" => r = 0
        BY <1>1, <1>6 DEF Input, Push, Commands
    <2>3. Event(k, r, v) \in EventType /\ Event(k, r, v).kind = k
        BY <2>2 DEF Event, EventType, Commands
    <2>. QED
        BY <1>1, <2>1, <2>2, <2>3, PushKeeps
<1>7. CASE \E graphics \in BOOLEAN : Publish(graphics)
    <2>1. PICK graphics \in BOOLEAN :
              /\ m' = [m EXCEPT !.seq = @ + 1, !.pubrun = m.run, !.graphics = graphics]
              /\ fifo' = Append(fifo, Event("FRAME", m.run, "")) /\ Others
        BY <1>7 DEF Publish, Push
    <2>2. m' \in MachineType
        <3>1. PICK n \in Nat : n = m.seq + 1
            BY <1>1 DEF MachineType
        <3>2. m' = [m EXCEPT !.seq = n, !.pubrun = m.run, !.graphics = graphics]
            BY <2>1, <3>1
        <3>. QED
            BY <1>1, <3>2 DEF MachineType
    <2>3. Event("FRAME", m.run, "") \in EventType /\ Event("FRAME", m.run, "").kind = "FRAME"
        BY <1>1 DEF Event, EventType
    <2>. QED
        BY <1>1, <2>1, <2>2, <2>3, PushKeeps DEF Others
<1>. QED
    BY <1>3, <1>4, <1>5, <1>6, <1>7

LEMMA Initial ==
    ASSUME Init
    PROVE  IInv
<1>1. Typed
    <2>1. Event("RUNTIME", 0, "STOPPED") \in EventType
        BY DEF Event, EventType, Facts, Runtimes
    <2>2. fifo \in Seq(EventType)
        BY <2>1 DEF Init
    <2>3. st \in StateType
        BY DEF Init, StateType, Runtimes, Consoles
    <2>4. ui \in UiType
        BY DEF Init, UiType, Consoles
    <2>5. m \in MachineType
        BY DEF Init, MachineType, Runtimes
    <2>6. p \in PromptType
        BY DEF Init, PromptType
    <2>. QED
        BY <2>2, <2>3, <2>4, <2>5, <2>6 DEF Init, Typed
<1>2. Coming(fifo) = {}
    <2> DEFINE e == Event("RUNTIME", 0, "STOPPED")
    <2>1. e \in EventType /\ e.kind = "RUNTIME"
        BY DEF Event, EventType, Facts, Runtimes
    <2>2. fifo = <<e>>
        BY DEF Init
    <2>3. Completion(e) = "NONE"
        BY <2>1, Completions
    <2> HIDE DEF e
    <2>4. \A i \in DOMAIN fifo : fifo[i] = e
        BY <2>2
    <2>. QED
        BY <2>3, <2>4 DEF Coming
<1>3. Sound(st, ui, fifo)
    BY <1>2 DEF Init, Sound, OnTheWay, Known
<1>4. Planned(st)
    BY DEF Init, Planned, NextAction, Desired, Plan
<1>. QED
    BY <1>1, <1>3, <1>4 DEF IInv

LEMMA Kept ==
    ASSUME IInv, [Next]_vars
    PROVE  IInv'
<1>1. CASE Next
    BY <1>1, TakeKeeps, OthersKeep DEF Next
<1>2. CASE UNCHANGED vars
    <2>1. UNCHANGED <<mode, st, p, ui, reading, m, fifo, ended, dropped, inputs>>
        BY <1>2 DEF vars, session
    <2>2. Typed'
        BY <2>1 DEF IInv, Typed
    <2>3. ~ended' => Planned(st)'
        BY <2>1 DEF IInv, Planned, NextAction, Desired, Plan
    <2>. QED
        BY <2>1, <2>2, <2>3 DEF IInv
<1>. QED
    BY <1>1, <1>2

LEMMA Inductive == Spec => []IInv
<1>1. Init => IInv
    BY Initial
<1>2. IInv /\ [Next]_vars => IInv'
    BY Kept
<1>. QED
    BY <1>1, <1>2, PTL DEF Spec

-----------------------------------------------------------------------------
\* The rest of the inductive invariant, for sessions that have not ended and have
\* dropped no completion.

\* The places in a queue of the events of some kinds and runs.
At(q, kinds, runs) == {i \in DOMAIN q : q[i].kind \in kinds /\ q[i].run \in runs}

Lines(q)        == At(q, {"LINE"}, Nat)
Brokers(q)      == At(q, {"BROKER"}, Nat)
Completed(q)    == At(q, {"COMPONENT", "BROKER"}, Nat)
Reports(q, run) == At(q, {"RUNTIME"}, {0, run})
Drives(q, run)  == At(q, {"RUNTIME", "FRAME", "COMPONENT", "BROKER", "LINE"}, {0, run})

AtMostOne(a) == \A i, j \in a : i = j

\* Every place in a comes before every place in b.
Before(a, b) == \A i \in a, j \in b : i < j

\* The reports of the current run on their way: none, one, or two in this order.
NoReport(q, run) == Reports(q, run) = {}
OneReport(q, run, v) == \E i \in DOMAIN q : Reports(q, run) = {i} /\ q[i].value = v
TwoReports(q, run, v, u) ==
    \E i, j \in DOMAIN q : /\ i < j /\ Reports(q, run) = {i, j}
                           /\ q[i].value = v /\ q[j].value = u

\* No event and no surface is of a run that has not begun.
Ranges(x) ==
    /\ x.ui.run <= x.m.run /\ x.st.observed <= x.m.seq
    /\ \A i \in DOMAIN x.fifo : x.fifo[i].run <= x.m.run

\* The monitor states in which a request is made, what the machine reads while it is
\* served, and what it reports then.
Asked(request, monitor) ==
    /\ request = "START" => monitor = "STOPPED"
    /\ request = "PAUSE" => monitor = "RUNNING"
    /\ request = "RESUME" => monitor = "PAUSED"
    /\ request = "STOP" => monitor \in {"RUNNING", "PAUSED"}
    /\ request = "RESET" => monitor \in {"STOPPED", "RUNNING", "PAUSED"}

Serves(request, state) ==
    /\ request = "START" => state = "STARTING"
    /\ request = "PAUSE" => state = "RUNNING"
    /\ request = "RESUME" => state = "PAUSED"
    /\ request = "STOP" => state \in {"RUNNING", "PAUSED"}
    /\ request = "RESET" => state \in {"STARTING", "RUNNING", "PAUSED"}

ResultOf(request) ==
    CASE request = "START" -> "RUNNING"
      [] request = "RESUME" -> "RUNNING"
      [] request = "PAUSE" -> "PAUSED"
      [] request = "STOP" -> "STOPPED"
      [] OTHER -> "RESET_COMPLETED"

StateOf(v) == IF v = "RESET_COMPLETED" THEN "PAUSED" ELSE v

\* Where a request is between the session, the machine and the queue.
Idle(x) ==
    /\ x.p.request = "NONE" /\ x.m.job = "NONE" /\ x.st.monitor = x.m.state
    /\ NoReport(x.fifo, x.m.run)
Serving(x) ==
    /\ x.p.request # "NONE" /\ x.m.job = x.p.request
    /\ Asked(x.p.request, x.st.monitor) /\ Serves(x.p.request, x.m.state)
    /\ NoReport(x.fifo, x.m.run)
Served(x) ==
    /\ x.p.request # "NONE" /\ x.m.job = "NONE" /\ Asked(x.p.request, x.st.monitor)
    /\ \/ /\ x.m.state = StateOf(ResultOf(x.p.request))
          /\ OneReport(x.fifo, x.m.run, ResultOf(x.p.request))
       \/ x.m.state = "ERROR" /\ OneReport(x.fifo, x.m.run, "ERROR")
       \/ /\ x.m.state = "ERROR" /\ x.p.request \in {"START", "RESUME"}
          /\ TwoReports(x.fifo, x.m.run, "RUNNING", "ERROR")
Unasked(x) ==
    /\ x.p.request = "NONE" /\ x.m.job = "NONE"
    /\ \/ /\ x.st.monitor = "RUNNING" /\ x.m.state = "ERROR"
          /\ OneReport(x.fifo, x.m.run, "ERROR")
       \/ /\ x.st.monitor = "INIT" /\ x.m.state = "STOPPED"
          /\ OneReport(x.fifo, x.m.run, "STOPPED")
          /\ Before(Reports(x.fifo, x.m.run), Lines(x.fifo))
       \/ /\ x.st.monitor = "STOPPED" /\ x.m.state = "PAUSED"
          /\ OneReport(x.fifo, x.m.run, "PAUSED")
          /\ Before(Reports(x.fifo, x.m.run), Lines(x.fifo))

Phased(x) == Idle(x) \/ Serving(x) \/ Served(x) \/ Unasked(x)

\* The actions only a running machine makes necessary, and what goes with each.
Shaped(x) ==
    /\ x.st.monitor = x.st.runtime \/ (x.st.monitor = "INIT" /\ x.st.runtime = "STOPPED")
    /\ x.st.inflight = "BIND_MONITOR" => x.st.current = "VM"
    /\ x.st.inflight \in {"CREATE_VM_CONSOLE", "BIND_VM_CONSOLE", "DESTROY_VM_CONSOLE"} =>
          x.st.current = "MONITOR"
    /\ x.st.current = "VM" \/ x.st.inflight = "BIND_VM_CONSOLE" =>
          x.st.console /\ mode.display = "CONSOLE"
    /\ x.st.inflight = "BIND_VM_CONSOLE" /\ x.st.runtime = "RUNNING" => x.st.frame
    /\ x.st.inflight \in {"BIND_VM_CONSOLE", "CREATE_WINDOW"} /\ x.st.runtime # "RUNNING" =>
          Before(Completed(x.fifo), Reports(x.fifo, x.m.run))

\* A line being read is the one pending; it is typed before the console is taken over.
Lined(x) ==
    /\ x.reading => x.p.line /\ Lines(x.fifo) = {} /\ Brokers(x.fifo) = {}
    /\ Lines(x.fifo) # {} => x.p.line
    /\ AtMostOne(Lines(x.fifo))
    /\ Before(Lines(x.fifo), Brokers(x.fifo))
    /\ x.p.line => x.reading \/ Lines(x.fifo) # {} \/ Brokers(x.fifo) # {}

\* The VM console has the console, or is about to.
Taken(t) == t.current = "VM" \/ t.inflight = "BIND_VM_CONSOLE"

\* A prompt is pending, due, kept for a request's result, or for the return of the console.
Prompted(x) ==
    /\ x.p.text => x.p.due \/ x.p.request # "NONE"
    /\ x.st.inflight = "NONE" /\ MonitorIsCurrent(x.st) =>
          x.p.request # "NONE" \/ ~x.p.due \/ x.p.line
    /\ \/ x.p.line \/ x.p.due \/ x.p.request # "NONE"
       \/ x.st.monitor = "RUNNING" /\ Taken(x.st)
    /\ x.st.monitor # "RUNNING" /\ Taken(x.st) => x.p.due \/ x.p.request # "NONE"
    /\ x.st.monitor = "RUNNING" /\ x.st.current = "VM" =>
          x.st.frame \/ x.p.due \/ x.p.request # "NONE"

\* The Window is frozen while paused; a frozen Window of a running machine waits for the
\* takeover of the console, or will be destroyed.
Frozen(x) ==
    /\ x.ui.window /\ x.st.runtime = "PAUSED" => x.ui.frozen
    /\ x.st.inflight = "CREATE_WINDOW" /\ x.st.runtime = "RUNNING" => ~x.ui.frozen
    /\ ~mode.console_control /\ x.st.runtime = "RUNNING" /\ x.ui.window /\ x.ui.frozen =>
          /\ mode.display = "CONSOLE"
          /\ x.st.current = "MONITOR" \/ ~x.st.frame \/ x.st.inflight = "BIND_MONITOR"

\* The surfaces show the last frame, or something comes that makes the session drive.
FrameShown(x) ==
    /\ x.ui.window => x.ui.wseq = x.m.seq
    /\ x.ui.bound = "VM" => IF x.m.graphics THEN x.ui.status
                            ELSE ~x.ui.status /\ x.ui.cseq = x.m.seq
Viewed(x) ==
    /\ x.m.pubrun = x.m.run /\ x.st.observed = x.m.seq =>
          \/ x.st.frame /\ x.st.graphics = x.m.graphics
          \/ x.m.state \in {"STOPPED", "ERROR"}
    /\ \/ Drives(x.fifo, x.m.run) # {}
       \/ x.st.inflight = "NONE" /\ x.m.state \in {"RUNNING", "PAUSED"} /\ x.m.pubrun = x.m.run =>
             FrameShown(x)

Followed(x) ==
    /\ Ranges(x) /\ Phased(x) /\ Shaped(x) /\ Lined(x) /\ Prompted(x) /\ Frozen(x) /\ Viewed(x)
FInv == IInv /\ mode \in Modes /\ (~ended /\ ~dropped => Followed(Now))

\* The kind and the run of an event; a line is of no run.
LEMMA EventFields ==
    ASSUME NEW e \in EventType
    PROVE  /\ e.kind \in {"RUNTIME", "FRAME", "COMPONENT", "BROKER", "LINE", "KVM"}
           /\ e.run \in Nat
           /\ e.kind = "LINE" => e.run = 0 /\ e.value \in Commands
           /\ e.kind = "RUNTIME" => e.value \in Facts
           /\ e.kind = "KVM" => e.value \in {"close", "hotkey"}
<1>1. 0 \in Nat
    OBVIOUS
<1>2. CASE e \in [kind : {"RUNTIME"}, run : Nat, value : Facts]
    BY <1>2
<1>3. CASE e \in [kind : {"FRAME"}, run : Nat, value : {""}]
    BY <1>3
<1>4. CASE e \in [kind : {"COMPONENT"}, run : Nat,
                  value : [surface : {"window", "console"}, exists : BOOLEAN]]
    BY <1>4
<1>5. CASE e \in [kind : {"BROKER"}, run : Nat, value : BOOLEAN]
    BY <1>5
<1>6. CASE e \in [kind : {"KVM"}, run : Nat, value : {"close", "hotkey"}]
    BY <1>6
<1>7. CASE e \in [kind : {"LINE"}, run : {0}, value : Commands]
    BY <1>1, <1>7
<1>. QED
    BY <1>2, <1>3, <1>4, <1>5, <1>6, <1>7 DEF EventType

-----------------------------------------------------------------------------
\* The places of events in a queue that loses its head or gets a new event.

LEMMA AtTail ==
    ASSUME NEW q \in Seq(EventType), q # <<>>, NEW kinds, NEW runs
    PROVE  /\ At(q, kinds, runs) \subseteq Nat \ {0} /\ At(Tail(q), kinds, runs) \subseteq Nat \ {0}
           /\ \A i \in Nat \ {0} : i \in At(Tail(q), kinds, runs) <=> i + 1 \in At(q, kinds, runs)
           /\ 1 \in At(q, kinds, runs) <=> Head(q).kind \in kinds /\ Head(q).run \in runs
           /\ \A i \in At(q, kinds, runs) : i = 1 \/ i - 1 \in At(Tail(q), kinds, runs)
           /\ \A i \in DOMAIN Tail(q) : i + 1 \in DOMAIN q /\ Tail(q)[i] = q[i + 1]
           /\ \A i \in DOMAIN q : i # 1 => i - 1 \in DOMAIN Tail(q) /\ Tail(q)[i - 1] = q[i]
           /\ 1 \in DOMAIN q /\ q[1] = Head(q) /\ DOMAIN q \subseteq Nat \ {0}
           /\ DOMAIN Tail(q) \subseteq Nat \ {0}
<1>1. Len(q) \in Nat /\ Len(q) > 0 /\ DOMAIN q = 1..Len(q) /\ Head(q) = q[1]
    BY EmptySeq, LenProperties, HeadTailProperties
<1>2. /\ Tail(q) \in Seq(EventType) /\ Len(Tail(q)) = Len(q) - 1
      /\ \A i \in 1..Len(Tail(q)) : Tail(q)[i] = q[i + 1]
    BY HeadTailProperties, <1>1
<1>3. DOMAIN Tail(q) = 1..(Len(q) - 1)
    BY <1>2, LenProperties
<1>4. \A i \in Nat \ {0} : i \in At(Tail(q), kinds, runs) <=> i + 1 \in At(q, kinds, runs)
    BY <1>1, <1>2, <1>3 DEF At
<1>5. At(q, kinds, runs) \subseteq Nat \ {0} /\ At(Tail(q), kinds, runs) \subseteq Nat \ {0}
    BY <1>1, <1>3 DEF At
<1>6. 1 \in At(q, kinds, runs) <=> Head(q).kind \in kinds /\ Head(q).run \in runs
    BY <1>1 DEF At
<1>7. \A i \in At(q, kinds, runs) : i = 1 \/ i - 1 \in At(Tail(q), kinds, runs)
    BY <1>4, <1>5
<1>8. \A i \in DOMAIN Tail(q) : i + 1 \in DOMAIN q /\ Tail(q)[i] = q[i + 1]
    BY <1>1, <1>2, <1>3
<1>9. \A i \in DOMAIN q : i # 1 => i - 1 \in DOMAIN Tail(q) /\ Tail(q)[i - 1] = q[i]
    BY <1>1, <1>2, <1>3
<1>10. DOMAIN q \subseteq Nat \ {0} /\ DOMAIN Tail(q) \subseteq Nat \ {0} /\ 1 \in DOMAIN q
    BY <1>1, <1>3
<1>. QED
    BY <1>1, <1>4, <1>5, <1>6, <1>7, <1>8, <1>9, <1>10

LEMMA AtAppend ==
    ASSUME NEW q \in Seq(EventType), NEW e \in EventType, NEW kinds, NEW runs
    PROVE  /\ At(q, kinds, runs) \subseteq 1..Len(q) /\ Len(q) \in Nat
           /\ e.kind \in kinds /\ e.run \in runs =>
                 At(Append(q, e), kinds, runs) = At(q, kinds, runs) \cup {Len(q) + 1}
           /\ ~(e.kind \in kinds /\ e.run \in runs) =>
                 At(Append(q, e), kinds, runs) = At(q, kinds, runs)
           /\ DOMAIN q = 1..Len(q) /\ DOMAIN Append(q, e) = 1..(Len(q) + 1)
           /\ \A i \in 1..Len(q) : Append(q, e)[i] = q[i]
           /\ Append(q, e)[Len(q) + 1] = e
<1>1. Len(q) \in Nat /\ DOMAIN q = 1..Len(q)
    BY LenProperties
<1>2. /\ Append(q, e) \in Seq(EventType) /\ Len(Append(q, e)) = Len(q) + 1
      /\ \A i \in 1..Len(q) : Append(q, e)[i] = q[i]
      /\ Append(q, e)[Len(q) + 1] = e
    BY AppendProperties
<1>3. DOMAIN Append(q, e) = 1..(Len(q) + 1)
    BY <1>2, LenProperties
<1>. QED
    BY <1>1, <1>2, <1>3 DEF At

\* A head: what it was among, and what is left.
LEMMA BeforeTail ==
    ASSUME NEW q \in Seq(EventType), q # <<>>, NEW k1, NEW r1, NEW k2, NEW r2,
           Before(At(q, k1, r1), At(q, k2, r2))
    PROVE  /\ Before(At(Tail(q), k1, r1), At(Tail(q), k2, r2))
           /\ Head(q).kind \in k2 /\ Head(q).run \in r2 => At(q, k1, r1) = {}
<1>1. /\ \A i \in At(Tail(q), k1, r1) : i \in Nat /\ i + 1 \in At(q, k1, r1)
      /\ \A i \in At(Tail(q), k2, r2) : i \in Nat /\ i + 1 \in At(q, k2, r2)
    BY AtTail
<1>2. ASSUME NEW i \in At(Tail(q), k1, r1), NEW j \in At(Tail(q), k2, r2)
      PROVE  i < j
    <2>1. i + 1 < j + 1 /\ i \in Nat /\ j \in Nat
        BY <1>1, <1>2 DEF Before
    <2>. QED
        BY <2>1
<1>3. ASSUME Head(q).kind \in k2, Head(q).run \in r2, NEW i \in At(q, k1, r1)
      PROVE  FALSE
    <2>1. 1 \in At(q, k2, r2)
        BY <1>3, AtTail
    <2>2. i \in Nat \ {0} /\ i < 1
        BY <1>3, <2>1, AtTail DEF Before
    <2>. QED
        BY <2>2
<1>. QED
    BY <1>2, <1>3 DEF Before

LEMMA BeforeAppend ==
    ASSUME NEW q \in Seq(EventType), NEW e \in EventType, NEW k1, NEW r1, NEW k2, NEW r2
    PROVE  /\ Before(At(q, k1, r1), At(q, k2, r2)) /\ ~(e.kind \in k1 /\ e.run \in r1) =>
                 Before(At(Append(q, e), k1, r1), At(Append(q, e), k2, r2))
           /\ At(q, k2, r2) = {} /\ ~(e.kind \in k2 /\ e.run \in r2) =>
                 Before(At(Append(q, e), k1, r1), At(Append(q, e), k2, r2))
<1>1. ASSUME Before(At(q, k1, r1), At(q, k2, r2)), ~(e.kind \in k1 /\ e.run \in r1)
      PROVE  Before(At(Append(q, e), k1, r1), At(Append(q, e), k2, r2))
    <2>1. ASSUME NEW i \in At(q, k1, r1), NEW j \in At(q, k2, r2) \cup {Len(q) + 1}
          PROVE  i < j
        BY <1>1, <2>1, AtAppend DEF Before
    <2>2. /\ At(Append(q, e), k1, r1) = At(q, k1, r1)
          /\ At(Append(q, e), k2, r2) \subseteq At(q, k2, r2) \cup {Len(q) + 1}
        BY <1>1, AtAppend
    <2>. QED
        BY <2>1, <2>2 DEF Before
<1>2. ASSUME At(q, k2, r2) = {}, ~(e.kind \in k2 /\ e.run \in r2)
      PROVE  Before(At(Append(q, e), k1, r1), At(Append(q, e), k2, r2))
    BY <1>2, AtAppend DEF Before
<1>. QED
    BY <1>1, <1>2

\* The reports of a queue without its head.
LEMMA ReportsTail ==
    ASSUME NEW q \in Seq(EventType), q # <<>>, NEW run \in Nat
    PROVE  /\ ~(Head(q).kind = "RUNTIME" /\ Head(q).run \in {0, run}) =>
                 /\ NoReport(q, run) => NoReport(Tail(q), run)
                 /\ \A v : OneReport(q, run, v) => OneReport(Tail(q), run, v)
                 /\ \A v, u : TwoReports(q, run, v, u) => TwoReports(Tail(q), run, v, u)
           /\ Head(q).kind = "RUNTIME" /\ Head(q).run \in {0, run} =>
                 /\ ~NoReport(q, run)
                 /\ \A v : OneReport(q, run, v) => Head(q).value = v /\ NoReport(Tail(q), run)
                 /\ \A v, u : TwoReports(q, run, v, u) =>
                       Head(q).value = v /\ OneReport(Tail(q), run, u)
<1> DEFINE a == At(q, {"RUNTIME"}, {0, run})
           b == At(Tail(q), {"RUNTIME"}, {0, run})
           d == DOMAIN q
           c == DOMAIN Tail(q)
<1>1. Reports(q, run) = a /\ Reports(Tail(q), run) = b
    BY DEF Reports
<1>2. /\ a \subseteq Nat \ {0} /\ b \subseteq Nat \ {0}
      /\ \A i \in Nat \ {0} : i \in b <=> i + 1 \in a
      /\ \A i \in a : i = 1 \/ i - 1 \in b
    BY AtTail
<1>3. 1 \in a <=> Head(q).kind = "RUNTIME" /\ Head(q).run \in {0, run}
    BY AtTail
<1>4. /\ \A i \in d : i # 1 => i - 1 \in c /\ Tail(q)[i - 1] = q[i]
      /\ d \subseteq Nat \ {0} /\ c \subseteq Nat \ {0} /\ 1 \in d /\ q[1] = Head(q)
    BY AtTail
<1> HIDE DEF a, b, c, d
<1>5. ASSUME 1 \notin a
      PROVE  /\ a = {} => b = {}
             /\ \A v : (\E i \in d : a = {i} /\ q[i].value = v) =>
                          \E i \in c : b = {i} /\ Tail(q)[i].value = v
    <2>1. ASSUME NEW i \in d, a = {i}
          PROVE  b = {i - 1} /\ i - 1 \in c /\ Tail(q)[i - 1] = q[i]
        <3>1. i # 1 /\ i \in Nat \ {0} /\ i - 1 \in Nat \ {0}
            BY <1>4, <1>5, <2>1
        <3>2. \A k \in Nat \ {0} : k \in b <=> k = i - 1
            BY <1>2, <2>1, <3>1
        <3>3. b = {i - 1}
            BY <1>2, <3>1, <3>2
        <3>. QED
            BY <1>4, <2>1, <3>1, <3>3
    <2>. QED
        BY <1>2, <2>1
<1>6. ASSUME 1 \notin a, NEW i \in d, NEW j \in d, i < j, a = {i, j}
      PROVE  /\ b = {i - 1, j - 1} /\ i - 1 \in c /\ j - 1 \in c /\ i - 1 < j - 1
             /\ Tail(q)[i - 1] = q[i] /\ Tail(q)[j - 1] = q[j]
    <2>1. /\ i # 1 /\ i \in Nat \ {0} /\ i - 1 \in Nat \ {0}
          /\ j # 1 /\ j \in Nat \ {0} /\ j - 1 \in Nat \ {0}
        BY <1>4, <1>6
    <2>2. \A k \in Nat \ {0} : k \in b <=> (k = i - 1 \/ k = j - 1)
        BY <1>2, <1>6, <2>1
    <2>3. b = {i - 1, j - 1}
        BY <1>2, <2>1, <2>2
    <2>4. i - 1 < j - 1
        BY <1>6, <2>1
    <2>5. /\ i - 1 \in c /\ Tail(q)[i - 1] = q[i]
          /\ j - 1 \in c /\ Tail(q)[j - 1] = q[j]
        BY <1>4, <1>6, <2>1
    <2>. QED
        BY <2>3, <2>4, <2>5
<1>7. ASSUME 1 \in a
      PROVE  /\ a # {}
             /\ \A v : (\E i \in d : a = {i} /\ q[i].value = v) => Head(q).value = v /\ b = {}
    <2>1. ASSUME NEW i \in d, a = {i}
          PROVE  q[i] = Head(q) /\ b = {}
        BY <1>2, <1>4, <1>7, <2>1
    <2>. QED
        BY <1>7, <2>1
<1>8. ASSUME 1 \in a, NEW i \in d, NEW j \in d, i < j, a = {i, j}
      PROVE  q[i] = Head(q) /\ b = {j - 1} /\ j - 1 \in c /\ Tail(q)[j - 1] = q[j]
    <2>1. i = 1 /\ j # 1 /\ j \in Nat \ {0} /\ j - 1 \in Nat \ {0}
        BY <1>4, <1>8
    <2>2. \A k \in Nat \ {0} : k \in b <=> k = j - 1
        BY <1>2, <1>8, <2>1
    <2>3. b = {j - 1}
        BY <1>2, <2>1, <2>2
    <2>. QED
        BY <1>4, <1>8, <2>1, <2>3
<1>9. CASE 1 \notin a
    <2>1. ASSUME NEW v, NEW u, TwoReports(q, run, v, u)
          PROVE  TwoReports(Tail(q), run, v, u)
        <3>1. PICK i, j \in d : i < j /\ a = {i, j} /\ q[i].value = v /\ q[j].value = u
            BY <1>1, <2>1 DEF TwoReports, d
        <3>2. /\ b = {i - 1, j - 1} /\ i - 1 \in c /\ j - 1 \in c /\ i - 1 < j - 1
              /\ Tail(q)[i - 1] = q[i] /\ Tail(q)[j - 1] = q[j]
            BY <1>6, <1>9, <3>1
        <3>. QED
            BY <1>1, <3>1, <3>2 DEF TwoReports, c
    <2>2. /\ NoReport(q, run) => NoReport(Tail(q), run)
          /\ \A v : OneReport(q, run, v) => OneReport(Tail(q), run, v)
        BY <1>1, <1>5, <1>9 DEF NoReport, OneReport, c, d
    <2>. QED
        BY <1>3, <1>9, <2>1, <2>2
<1>10. CASE 1 \in a
    <2>1. ASSUME NEW v, NEW u, TwoReports(q, run, v, u)
          PROVE  Head(q).value = v /\ OneReport(Tail(q), run, u)
        <3>1. PICK i, j \in d : i < j /\ a = {i, j} /\ q[i].value = v /\ q[j].value = u
            BY <1>1, <2>1 DEF TwoReports, d
        <3>2. q[i] = Head(q) /\ b = {j - 1} /\ j - 1 \in c /\ Tail(q)[j - 1] = q[j]
            BY <1>8, <1>10, <3>1
        <3>. QED
            BY <1>1, <3>1, <3>2 DEF OneReport, c
    <2>2. /\ ~NoReport(q, run)
          /\ \A v : OneReport(q, run, v) => Head(q).value = v /\ NoReport(Tail(q), run)
        BY <1>1, <1>7, <1>10 DEF NoReport, OneReport, d
    <2>. QED
        BY <1>3, <1>10, <2>1, <2>2
<1>. QED
    BY <1>9, <1>10

\* The reports of a queue with a new event.
LEMMA ReportsAppend ==
    ASSUME NEW q \in Seq(EventType), NEW e \in EventType, NEW run \in Nat
    PROVE  /\ ~(e.kind = "RUNTIME" /\ e.run \in {0, run}) =>
                 /\ NoReport(q, run) => NoReport(Append(q, e), run)
                 /\ \A v : OneReport(q, run, v) => OneReport(Append(q, e), run, v)
                 /\ \A v, u : TwoReports(q, run, v, u) => TwoReports(Append(q, e), run, v, u)
           /\ e.kind = "RUNTIME" /\ e.run \in {0, run} =>
                 /\ NoReport(q, run) => OneReport(Append(q, e), run, e.value)
                 /\ \A v : OneReport(q, run, v) => TwoReports(Append(q, e), run, v, e.value)
<1> DEFINE A == Append(q, e)
<1>1. /\ DOMAIN q = 1..Len(q) /\ DOMAIN A = 1..(Len(q) + 1) /\ Len(q) \in Nat
      /\ \A i \in 1..Len(q) : A[i] = q[i]
      /\ A[Len(q) + 1] = e
    BY AtAppend
<1>2. /\ e.kind = "RUNTIME" /\ e.run \in {0, run} =>
            Reports(A, run) = Reports(q, run) \cup {Len(q) + 1}
      /\ ~(e.kind = "RUNTIME" /\ e.run \in {0, run}) => Reports(A, run) = Reports(q, run)
    BY AtAppend DEF Reports
<1>3. DOMAIN q \subseteq DOMAIN A /\ Len(q) + 1 \in DOMAIN A
      /\ \A i \in DOMAIN q : A[i] = q[i] /\ i < Len(q) + 1
    BY <1>1
<1> HIDE DEF A
<1>4. CASE ~(e.kind = "RUNTIME" /\ e.run \in {0, run})
    <2>1. Reports(A, run) = Reports(q, run)
        BY <1>2, <1>4
    <2>. QED
        BY <1>3, <1>4, <2>1 DEF NoReport, OneReport, TwoReports, A
<1>5. CASE e.kind = "RUNTIME" /\ e.run \in {0, run}
    <2>1. Reports(A, run) = Reports(q, run) \cup {Len(q) + 1}
        BY <1>2, <1>5
    <2>2. ASSUME NoReport(q, run)
          PROVE  OneReport(A, run, e.value)
        BY <1>1, <1>3, <2>1, <2>2 DEF NoReport, OneReport
    <2>3. ASSUME NEW v, OneReport(q, run, v)
          PROVE  TwoReports(A, run, v, e.value)
        <3>1. PICK i \in DOMAIN q : Reports(q, run) = {i} /\ q[i].value = v
            BY <2>3 DEF OneReport
        <3>2. /\ Reports(A, run) = {i, Len(q) + 1} /\ A[i].value = v
              /\ A[Len(q) + 1].value = e.value /\ i < Len(q) + 1
            BY <1>1, <1>3, <2>1, <3>1
        <3>. QED
            BY <1>3, <3>1, <3>2 DEF TwoReports
    <2>. QED
        BY <1>5, <2>2, <2>3 DEF A
<1>. QED
    BY <1>4, <1>5

\* Lines, completions and what drives the session, in a queue without its head.
LEMMA QueueTail ==
    ASSUME NEW q \in Seq(EventType), q # <<>>, NEW run \in Nat
    PROVE  /\ Lines(q) = {} => Head(q).kind # "LINE" /\ Lines(Tail(q)) = {}
           /\ AtMostOne(Lines(q)) => AtMostOne(Lines(Tail(q)))
           /\ AtMostOne(Lines(q)) /\ Head(q).kind = "LINE" => Lines(Tail(q)) = {}
           /\ Head(q).kind # "LINE" /\ Lines(q) # {} => Lines(Tail(q)) # {}
           /\ Brokers(q) = {} => Head(q).kind # "BROKER" /\ Brokers(Tail(q)) = {}
           /\ Head(q).kind # "BROKER" /\ Brokers(q) # {} => Brokers(Tail(q)) # {}
           /\ Before(Lines(q), Brokers(q)) =>
                 /\ Before(Lines(Tail(q)), Brokers(Tail(q)))
                 /\ Head(q).kind = "BROKER" => Lines(q) = {}
           /\ Before(Reports(q, run), Lines(q)) =>
                 /\ Before(Reports(Tail(q), run), Lines(Tail(q)))
                 /\ Head(q).kind = "LINE" => NoReport(q, run)
           /\ Before(Completed(q), Reports(q, run)) =>
                 /\ Before(Completed(Tail(q)), Reports(Tail(q), run))
                 /\ Head(q).kind = "RUNTIME" /\ Head(q).run \in {0, run} => Completed(q) = {}
           /\ Drives(q, run) # {} /\ (Head(q).run \notin {0, run} \/ Head(q).kind = "KVM") =>
                 Drives(Tail(q), run) # {}
           /\ \A n \in Nat : (\A i \in DOMAIN q : q[i].run <= n) =>
                 \A i \in DOMAIN Tail(q) : Tail(q)[i].run <= n
<1>1. Head(q).run \in Nat
    <2>1. Head(q) \in EventType
        BY HeadTailProperties
    <2>. QED
        BY <2>1, EventFields
<1>2. ASSUME NEW kinds, NEW runs
      PROVE  /\ At(q, kinds, runs) = {} =>
                   /\ ~(Head(q).kind \in kinds /\ Head(q).run \in runs)
                   /\ At(Tail(q), kinds, runs) = {}
             /\ At(q, kinds, runs) # {} /\ ~(Head(q).kind \in kinds /\ Head(q).run \in runs) =>
                   At(Tail(q), kinds, runs) # {}
             /\ AtMostOne(At(q, kinds, runs)) =>
                   /\ AtMostOne(At(Tail(q), kinds, runs))
                   /\ Head(q).kind \in kinds /\ Head(q).run \in runs => At(Tail(q), kinds, runs) = {}
    <2> DEFINE a == At(q, kinds, runs)
               b == At(Tail(q), kinds, runs)
               h == Head(q).kind \in kinds /\ Head(q).run \in runs
    <2>1. /\ a \subseteq Nat \ {0} /\ b \subseteq Nat \ {0}
          /\ \A i \in Nat \ {0} : i \in b <=> i + 1 \in a
          /\ 1 \in a <=> h
          /\ \A i \in a : i = 1 \/ i - 1 \in b
        BY AtTail
    <2> HIDE DEF a, b, h
    <2>2. a = {} => ~h /\ b = {}
        BY <2>1
    <2>3. a # {} /\ ~h => b # {}
        BY <2>1
    <2>4. AtMostOne(a) => AtMostOne(b)
        <3>1. SUFFICES ASSUME \A i, j \in a : i = j, NEW i \in b, NEW j \in b
                       PROVE  i = j
            BY DEF AtMostOne
        <3>2. i \in Nat /\ j \in Nat /\ i + 1 = j + 1
            BY <2>1, <3>1
        <3>. QED
            BY <3>2
    <2>5. AtMostOne(a) /\ h => b = {}
        <3>1. SUFFICES ASSUME \A i, j \in a : i = j, h, NEW i \in b
                       PROVE  FALSE
            BY DEF AtMostOne
        <3>2. i \in Nat \ {0} /\ i + 1 = 1
            BY <2>1, <3>1
        <3>. QED
            BY <3>2
    <2>. QED
        BY <2>2, <2>3, <2>4, <2>5 DEF a, b, h
<1>3. /\ Lines(q) = {} => Head(q).kind # "LINE" /\ Lines(Tail(q)) = {}
      /\ AtMostOne(Lines(q)) => AtMostOne(Lines(Tail(q)))
      /\ AtMostOne(Lines(q)) /\ Head(q).kind = "LINE" => Lines(Tail(q)) = {}
      /\ Head(q).kind # "LINE" /\ Lines(q) # {} => Lines(Tail(q)) # {}
    BY <1>1, <1>2 DEF Lines
<1>4. /\ Brokers(q) = {} => Head(q).kind # "BROKER" /\ Brokers(Tail(q)) = {}
      /\ Head(q).kind # "BROKER" /\ Brokers(q) # {} => Brokers(Tail(q)) # {}
    BY <1>1, <1>2 DEF Brokers
<1>5. Before(Lines(q), Brokers(q)) =>
         /\ Before(Lines(Tail(q)), Brokers(Tail(q)))
         /\ Head(q).kind = "BROKER" => Lines(q) = {}
    BY <1>1, BeforeTail DEF Lines, Brokers
<1>6. Before(Reports(q, run), Lines(q)) =>
         /\ Before(Reports(Tail(q), run), Lines(Tail(q)))
         /\ Head(q).kind = "LINE" => NoReport(q, run)
    BY <1>1, BeforeTail DEF Lines, Reports, NoReport
<1>7. Before(Completed(q), Reports(q, run)) =>
         /\ Before(Completed(Tail(q)), Reports(Tail(q), run))
         /\ Head(q).kind = "RUNTIME" /\ Head(q).run \in {0, run} => Completed(q) = {}
    BY <1>1, BeforeTail DEF Completed, Reports
<1>8. Drives(q, run) # {} /\ (Head(q).run \notin {0, run} \/ Head(q).kind = "KVM") =>
         Drives(Tail(q), run) # {}
    BY <1>2 DEF Drives
<1>9. ASSUME NEW n \in Nat, \A i \in DOMAIN q : q[i].run <= n, NEW i \in DOMAIN Tail(q)
      PROVE  Tail(q)[i].run <= n
    BY <1>9, AtTail
<1>. QED
    BY <1>3, <1>4, <1>5, <1>6, <1>7, <1>8, <1>9

\* And in a queue with a new event.
LEMMA QueueAppend ==
    ASSUME NEW q \in Seq(EventType), NEW e \in EventType, NEW run \in Nat
    PROVE  /\ e.kind # "LINE" => Lines(Append(q, e)) = Lines(q)
           /\ e.kind = "LINE" /\ Lines(q) = {} =>
                 Lines(Append(q, e)) # {} /\ AtMostOne(Lines(Append(q, e)))
           /\ e.kind # "BROKER" => Brokers(Append(q, e)) = Brokers(q)
           /\ e.kind = "BROKER" => Brokers(Append(q, e)) # {}
           /\ e.kind # "LINE" /\ Before(Lines(q), Brokers(q)) =>
                 Before(Lines(Append(q, e)), Brokers(Append(q, e)))
           /\ e.kind = "LINE" /\ Brokers(q) = {} =>
                 Before(Lines(Append(q, e)), Brokers(Append(q, e)))
           /\ e.kind # "RUNTIME" /\ Before(Reports(q, run), Lines(q)) =>
                 Before(Reports(Append(q, e), run), Lines(Append(q, e)))
           /\ e.kind # "LINE" /\ Lines(q) = {} =>
                 Before(Reports(Append(q, e), run), Lines(Append(q, e)))
           /\ e.kind \notin {"COMPONENT", "BROKER"} /\ Before(Completed(q), Reports(q, run)) =>
                 Before(Completed(Append(q, e)), Reports(Append(q, e), run))
           /\ Drives(q, run) # {} => Drives(Append(q, e), run) # {}
           /\ e.kind # "KVM" /\ e.run \in {0, run} => Drives(Append(q, e), run) # {}
           /\ \A n \in Nat : (\A i \in DOMAIN q : q[i].run <= n) /\ e.run <= n =>
                 \A i \in DOMAIN Append(q, e) : Append(q, e)[i].run <= n
<1>1. e.run \in Nat /\ e.kind \in {"RUNTIME", "FRAME", "COMPONENT", "BROKER", "LINE", "KVM"}
    BY EventFields
<1>2. /\ e.kind # "LINE" => Lines(Append(q, e)) = Lines(q)
      /\ e.kind = "LINE" => Lines(Append(q, e)) = Lines(q) \cup {Len(q) + 1}
    BY <1>1, AtAppend DEF Lines
<1>3. /\ e.kind # "BROKER" => Brokers(Append(q, e)) = Brokers(q)
      /\ e.kind = "BROKER" => Brokers(Append(q, e)) = Brokers(q) \cup {Len(q) + 1}
    BY <1>1, AtAppend DEF Brokers
<1>4. e.kind = "LINE" /\ Lines(q) = {} =>
         Lines(Append(q, e)) # {} /\ AtMostOne(Lines(Append(q, e)))
    BY <1>2 DEF AtMostOne
<1>5. e.kind # "LINE" /\ Before(Lines(q), Brokers(q)) =>
         Before(Lines(Append(q, e)), Brokers(Append(q, e)))
    BY <1>1, BeforeAppend DEF Lines, Brokers
<1>6. e.kind = "LINE" /\ Brokers(q) = {} =>
         Before(Lines(Append(q, e)), Brokers(Append(q, e)))
    BY <1>1, BeforeAppend DEF Lines, Brokers
<1>7. e.kind # "RUNTIME" /\ Before(Reports(q, run), Lines(q)) =>
         Before(Reports(Append(q, e), run), Lines(Append(q, e)))
    BY <1>1, BeforeAppend DEF Lines, Reports
<1>8. e.kind # "LINE" /\ Lines(q) = {} =>
         Before(Reports(Append(q, e), run), Lines(Append(q, e)))
    BY <1>2 DEF Before
<1>9. e.kind \notin {"COMPONENT", "BROKER"} /\ Before(Completed(q), Reports(q, run)) =>
         Before(Completed(Append(q, e)), Reports(Append(q, e), run))
    BY <1>1, BeforeAppend DEF Completed, Reports
<1>10. Drives(q, run) # {} => Drives(Append(q, e), run) # {}
    <2> DEFINE kinds == {"RUNTIME", "FRAME", "COMPONENT", "BROKER", "LINE"}
               runs == {0, run}
    <2>1. /\ Drives(q, run) = At(q, kinds, runs)
          /\ Drives(Append(q, e), run) = At(Append(q, e), kinds, runs)
        BY DEF Drives
    <2> HIDE DEF kinds, runs
    <2>2. At(q, kinds, runs) \subseteq At(Append(q, e), kinds, runs)
        BY AtAppend
    <2>. QED
        BY <2>1, <2>2
<1>11. e.kind # "KVM" /\ e.run \in {0, run} => Drives(Append(q, e), run) # {}
    BY <1>1, AtAppend DEF Drives
<1>12. ASSUME NEW n \in Nat, \A i \in DOMAIN q : q[i].run <= n, e.run <= n,
              NEW i \in DOMAIN Append(q, e)
       PROVE  Append(q, e)[i].run <= n
    <2>1. i \in 1..Len(q) \/ i = Len(q) + 1
        BY <1>12, AtAppend
    <2>. QED
        BY <1>12, <2>1, AtAppend
<1>. QED
    BY <1>2, <1>3, <1>4, <1>5, <1>6, <1>7, <1>8, <1>9, <1>10, <1>11, <1>12

\* A run that begins has no report of its own.
LEMMA ReportsOfNewRun ==
    ASSUME NEW q \in Seq(EventType), NEW run \in Nat, NoReport(q, run),
           \A i \in DOMAIN q : q[i].run <= run
    PROVE  NoReport(q, run + 1)
<1>1. \A i \in DOMAIN q : q[i].run \in Nat
    <2>1. \A i \in DOMAIN q : q[i] \in EventType
        BY LenProperties
    <2>. QED
        BY <2>1, EventFields
<1>. QED
    BY <1>1 DEF NoReport, Reports, At

\* The completions in a queue, and the action in flight.
LEMMA CompletionsOnTheWay ==
    ASSUME NEW q \in Seq(EventType), NEW a \in Actions \cup {"NONE"}, OnTheWay(q, a)
    PROVE  /\ Completed(q) = {} <=> a = "NONE"
           /\ Brokers(q) = {} <=> a \notin {"BIND_VM_CONSOLE", "BIND_MONITOR"}
<1>1. \A i \in DOMAIN q : q[i] \in EventType
    BY LenProperties
<1>2. ASSUME NEW i \in DOMAIN q
      PROVE  /\ i \in Completed(q) <=> Completion(q[i]) # "NONE"
             /\ i \in Brokers(q) <=> Completion(q[i]) \in {"BIND_VM_CONSOLE", "BIND_MONITOR"}
    <2> DEFINE e == q[i]
    <2>1. e \in EventType
        BY <1>1
    <2>2. e.run \in Nat /\ e.kind \in {"RUNTIME", "FRAME", "COMPONENT", "BROKER", "LINE", "KVM"}
        BY <2>1, EventFields
    <2>3. /\ i \in Completed(q) <=> e.kind \in {"COMPONENT", "BROKER"}
          /\ i \in Brokers(q) <=> e.kind = "BROKER"
        BY <2>2 DEF Completed, Brokers, At
    <2> HIDE DEF e
    <2>4. /\ e.kind \notin {"COMPONENT", "BROKER"} => Completion(e) = "NONE"
          /\ e.kind = "BROKER" => Completion(e) \in {"BIND_VM_CONSOLE", "BIND_MONITOR"}
          /\ e.kind = "COMPONENT" => Completion(e) \in {"CREATE_WINDOW", "DESTROY_WINDOW",
                                         "CREATE_VM_CONSOLE", "DESTROY_VM_CONSOLE"}
        BY <2>1, Completions
    <2>. QED
        BY <2>2, <2>3, <2>4 DEF e
<1>3. Completed(q) = Coming(q)
    BY <1>2 DEF Coming, Completed, At
<1>4. Brokers(q) = {i \in Coming(q) : Completion(q[i]) \in {"BIND_VM_CONSOLE", "BIND_MONITOR"}}
    BY <1>2 DEF Coming, Brokers, At
<1>5. CASE a = "NONE"
    BY <1>3, <1>4, <1>5 DEF OnTheWay
<1>6. CASE a # "NONE"
    <2>1. PICK i \in DOMAIN q : Coming(q) = {i} /\ Completion(q[i]) = a
        BY <1>6 DEF OnTheWay
    <2>. QED
        BY <1>3, <1>4, <1>6, <2>1
<1>. QED
    BY <1>5, <1>6

-----------------------------------------------------------------------------
\* What each function of a handler changes, as relations.

\* The fields the prompt is made of are the only ones that differ.
Elsewhere(x, y) ==
    y.st = x.st /\ y.ui = x.ui /\ y.m = x.m /\ y.fifo = x.fifo /\ y.ended = x.ended

\* The line being read is cancelled, or nothing is.
Cancelled(x, y, b) ==
    /\ y.p.line = (x.p.line /\ ~(b /\ x.reading)) /\ y.reading = (x.reading /\ ~b)

\* y is x after a result without a request.
Answered(x, y, text, arm) ==
    /\ Elsewhere(x, y) /\ Cancelled(x, y, text /\ MonitorIsCurrent(x.st))
    /\ y.p.request = x.p.request
    /\ y.p.due = (x.p.due \/ arm)
    /\ y.p.text = (x.p.text \/ (text /\ ~MonitorIsCurrent(x.st)))

\* y is x after a request: refused, kept back, or passed to the machine.
Asks(x, y, request) ==
    /\ y.st = x.st /\ y.ui = x.ui /\ y.fifo = x.fifo /\ y.p.line = x.p.line
    /\ y.reading = x.reading
    /\ IF x.p.request # "NONE"
       THEN /\ y.m = x.m /\ y.ended = x.ended /\ y.p.request = x.p.request
            /\ y.p.due = x.p.due /\ y.p.text = TRUE
       ELSE IF Refused(request, x.m.state) THEN y.ended
       ELSE /\ y.p.request = request /\ y.p.due = FALSE /\ y.p.text = x.p.text
            /\ y.ended = x.ended
            /\ y.m = [(IF x.m.state = "STOPPED" /\ request \in {"START", "RESET"}
                       THEN BeginRun(x.m) ELSE x.m) EXCEPT !.job = request]

LEMMA CancelLineEffect ==
    ASSUME NEW x \in StepType
    PROVE  /\ Elsewhere(x, CancelLine(x)) /\ Cancelled(x, CancelLine(x), TRUE)
           /\ CancelLine(x).p.request = x.p.request /\ CancelLine(x).p.due = x.p.due
           /\ CancelLine(x).p.text = x.p.text
<1>1. /\ Elsewhere(x, CancelLine(x))
      /\ CancelLine(x).p.request = x.p.request /\ CancelLine(x).p.due = x.p.due
      /\ CancelLine(x).p.text = x.p.text
    BY DEF CancelLine, StepType, PromptType, Elsewhere
<1>2. CancelLine(x).p.line = (x.p.line /\ ~x.reading) /\ CancelLine(x).reading = FALSE
    BY DEF CancelLine, StepType, PromptType
<1>. QED
    BY <1>1, <1>2 DEF Cancelled

LEMMA AnsweredResult ==
    ASSUME NEW x \in StepType, NEW text \in BOOLEAN, NEW arm \in BOOLEAN
    PROVE  Answered(x, ApplyResult(x, text, "NONE", arm), text, arm)
<1> DEFINE y == IF ~text THEN x
                ELSE IF MonitorIsCurrent(x.st) THEN CancelLine(x)
                ELSE [x EXCEPT !.p.text = TRUE]
           z == ApplyResult(x, text, "NONE", arm)
<1>1. z = [y EXCEPT !.p.due = @ \/ arm]
    BY DEF ApplyResult
<1>2. /\ y \in StepType /\ Elsewhere(x, y) /\ Cancelled(x, y, text /\ MonitorIsCurrent(x.st))
      /\ y.p.request = x.p.request /\ y.p.due = x.p.due
      /\ y.p.text = (x.p.text \/ (text /\ ~MonitorIsCurrent(x.st)))
    <2>1. CASE ~text
        BY <2>1 DEF Elsewhere, Cancelled, StepType, PromptType
    <2>2. CASE text /\ MonitorIsCurrent(x.st)
        <3>1. y = CancelLine(x)
            BY <2>2
        <3>2. Cancelled(x, y, text /\ MonitorIsCurrent(x.st))
            BY <2>2, <3>1, CancelLineEffect DEF Cancelled
        <3>3. x.p.text \in BOOLEAN
            BY DEF StepType, PromptType
        <3>. QED
            BY <2>2, <3>1, <3>2, <3>3, CancelLineEffect, CancelLineKeeps
    <2>3. CASE text /\ ~MonitorIsCurrent(x.st)
        <3>1. y = [x EXCEPT !.p.text = TRUE]
            BY <2>3
        <3>. QED
            BY <2>3, <3>1 DEF Elsewhere, Cancelled, StepType, PromptType
    <2>. QED
        BY <2>1, <2>2, <2>3
<1> HIDE DEF y, z
<1>3. /\ z.p.line = y.p.line /\ z.p.request = y.p.request /\ z.p.text = y.p.text
      /\ z.reading = y.reading /\ Elsewhere(y, z)
    BY <1>1, <1>2 DEF StepType, PromptType, Elsewhere
<1>4. z.p.due = (y.p.due \/ arm)
    BY <1>1, <1>2 DEF StepType, PromptType
<1>5. Elsewhere(x, z)
    BY <1>2, <1>3 DEF Elsewhere
<1>6. Cancelled(x, z, text /\ MonitorIsCurrent(x.st))
    BY <1>2, <1>3 DEF Cancelled
<1>7. Answered(x, z, text, arm)
    BY <1>2, <1>3, <1>4, <1>5, <1>6 DEF Answered
<1>. QED
    BY <1>7 DEF z

LEMMA AsksRequest ==
    ASSUME NEW x \in StepType, NEW request \in Requests, NEW arm \in BOOLEAN
    PROVE  Asks(x, ApplyResult(x, FALSE, request, arm), request)
<1> DEFINE z == ApplyResult(x, FALSE, request, arm)
<1>1. z = IF x.p.request # "NONE" THEN [x EXCEPT !.p.text = TRUE] ELSE Dispatch(x, request)
    BY DEF ApplyResult, Requests
<1>2. CASE x.p.request # "NONE"
    BY <1>1, <1>2 DEF Asks, StepType, PromptType
<1>3. CASE x.p.request = "NONE" /\ Refused(request, x.m.state)
    BY <1>1, <1>3 DEF Asks, Dispatch, StepType, PromptType
<1>4. CASE x.p.request = "NONE" /\ ~Refused(request, x.m.state)
    <2> DEFINE n == [(IF x.m.state = "STOPPED" /\ request \in {"START", "RESET"}
                      THEN BeginRun(x.m) ELSE x.m) EXCEPT !.job = request]
    <2>1. z = [x EXCEPT !.p.request = request, !.p.due = FALSE, !.m = n]
        BY <1>1, <1>4 DEF Dispatch
    <2>2. /\ z.st = x.st /\ z.ui = x.ui /\ z.fifo = x.fifo /\ z.p.line = x.p.line
          /\ z.reading = x.reading /\ z.ended = x.ended /\ z.p.text = x.p.text /\ z.m = n
          /\ z.p.request = request /\ z.p.due = FALSE
        <3> HIDE DEF n, z
        <3>. QED
            BY <2>1 DEF StepType, PromptType
    <2>. QED
        BY <1>4, <2>2 DEF Asks
<1>. QED
    BY <1>2, <1>3, <1>4

\* The latest publication of the run is observed.
Observed(x, y) ==
    /\ y.m = x.m /\ y.p = x.p /\ y.reading = x.reading /\ y.fifo = x.fifo /\ y.ended = x.ended
    /\ y.ui = [x.ui EXCEPT !.run = x.m.run]
    /\ y.st = IF Available(x) THEN NoteFrame(x.st, x.m.seq, x.m.graphics) ELSE x.st

LEMMA ObserveEffect ==
    ASSUME NEW x \in StepType, ~x.ended
    PROVE  Observed(x, Observe(x))
<1> DEFINE t == IF Available(x) THEN NoteFrame(x.st, x.m.seq, x.m.graphics) ELSE x.st
           u == [x.ui EXCEPT !.run = x.m.run]
<1>1. Observe(x) = [x EXCEPT !.ui.run = x.m.run, !.st = t]
    BY DEF Observe
<1>2. Observe(x) = [x EXCEPT !.ui = u, !.st = t]
    BY <1>1 DEF StepType, UiType
<1> HIDE DEF t, u
<1>3. /\ Observe(x).m = x.m /\ Observe(x).p = x.p /\ Observe(x).reading = x.reading
      /\ Observe(x).fifo = x.fifo /\ Observe(x).ended = x.ended
      /\ Observe(x).ui = u /\ Observe(x).st = t
    BY <1>2 DEF StepType
<1>. QED
    BY <1>3 DEF Observed, t, u

\* y is x but for the frame its surfaces show.
Published(x, y) ==
    /\ y.m = x.m /\ y.p = x.p /\ y.reading = x.reading /\ y.fifo = x.fifo /\ y.st = x.st
    /\ y.ui.run = x.ui.run /\ y.ui.frozen = x.ui.frozen
    /\ y.ui.window = x.ui.window /\ y.ui.console = x.ui.console /\ y.ui.bound = x.ui.bound
    /\ Available(x) /\ TargetsReady(x.st) =>
          /\ x.st.window /\ x.ui.window => y.ui.wseq = x.m.seq
          /\ x.st.console /\ x.st.current = "VM" /\ x.ui.console =>
                /\ x.m.graphics /\ mode.display = "CONSOLE" /\ ~mode.console_control => y.ui.status
                /\ ~x.m.graphics => ~y.ui.status /\ y.ui.cseq = x.m.seq

LEMMA ShowFrameEffect ==
    ASSUME NEW x \in StepType, ~ShowFrame(x).ended
    PROVE  Published(x, ShowFrame(x)) /\ ~x.ended
<1>1. CASE x.ended \/ ~Available(x) \/ ~TargetsReady(x.st)
    BY <1>1 DEF ShowFrame, Published
<1>2. CASE ~(x.ended \/ ~Available(x) \/ ~TargetsReady(x.st))
    <2>1. ShowFrame(x) = PublishFrame(x, x.m.seq, x.m.graphics)
        BY <1>2 DEF ShowFrame
    <2> DEFINE status == x.m.graphics /\ mode.display = "CONSOLE" /\ ~mode.console_control
               toConsole == /\ x.st.console /\ x.st.current = "VM" /\ x.ui.console
                            /\ status # x.ui.status \/ (~status /\ x.ui.cseq # x.m.seq)
               toWindow == x.st.window /\ x.ui.window
               a == IF toConsole THEN x.m.seq ELSE x.ui.cseq
               b == IF toConsole THEN status ELSE x.ui.status
               c == IF toWindow THEN x.m.seq ELSE x.ui.wseq
               u == [x.ui EXCEPT !.cseq = a, !.status = b, !.wseq = c]
    <2>2. PublishFrame(x, x.m.seq, x.m.graphics) =
             IF toConsole /\ x.m.graphics /\ ~status THEN [x EXCEPT !.ended = TRUE]
             ELSE [x EXCEPT !.ui.cseq = a, !.ui.status = b, !.ui.wseq = c]
        BY DEF PublishFrame
    <2>3. x.ui.status \in BOOLEAN /\ status \in BOOLEAN
        BY DEF StepType, UiType
    <2>4. toWindow => c = x.m.seq
        OBVIOUS
    <2>5. x.st.console /\ x.st.current = "VM" /\ x.ui.console =>
             /\ status => b
             /\ ~status => ~b
        BY <2>3
    <2>6. x.st.console /\ x.st.current = "VM" /\ x.ui.console /\ ~status => a = x.m.seq
        OBVIOUS
    <2>7. ~status <=> ~x.m.graphics \/ ~(mode.display = "CONSOLE" /\ ~mode.console_control)
        OBVIOUS
    <2>8. toWindow <=> x.st.window /\ x.ui.window
        OBVIOUS
    <2> HIDE DEF status, toConsole, toWindow, a, b, c
    <2>9. ~(toConsole /\ x.m.graphics /\ ~status)
        BY <2>1, <2>2 DEF StepType
    <2>10. ShowFrame(x) = [x EXCEPT !.ui.cseq = a, !.ui.status = b, !.ui.wseq = c]
        BY <2>1, <2>2, <2>9
    <2>11. ShowFrame(x) = [x EXCEPT !.ui = u]
        BY <2>10 DEF StepType, UiType
    <2>12. /\ u.cseq = a /\ u.status = b /\ u.wseq = c /\ u.run = x.ui.run
           /\ u.frozen = x.ui.frozen /\ u.window = x.ui.window /\ u.console = x.ui.console
           /\ u.bound = x.ui.bound
        BY Fields DEF UiType
    <2> HIDE DEF u
    <2>13. /\ ShowFrame(x).m = x.m /\ ShowFrame(x).p = x.p /\ ShowFrame(x).reading = x.reading
           /\ ShowFrame(x).fifo = x.fifo /\ ShowFrame(x).st = x.st /\ ShowFrame(x).ui = u
        BY <2>11 DEF StepType
    <2>. QED
        BY <1>2, <2>4, <2>5, <2>6, <2>7, <2>8, <2>12, <2>13 DEF Published
<1>. QED
    BY <1>1, <1>2

\* The state is shown, and a prompt becomes due or is no longer.
Shown(x, y, event) ==
    /\ y.st = x.st /\ y.m = x.m /\ y.fifo = x.fifo /\ y.reading = x.reading /\ y.ended = x.ended
    /\ y.ui.window = x.ui.window /\ y.ui.console = x.ui.console /\ y.ui.bound = x.ui.bound
    /\ y.ui.run = x.ui.run /\ y.ui.wseq = x.ui.wseq /\ y.ui.cseq = x.ui.cseq
    /\ y.ui.status = x.ui.status
    /\ IF /\ x.ui.window /\ event.kind \in {"RUNTIME", "BROKER"}
          /\ x.st.runtime = "PAUSED" \/ (x.st.runtime = "RUNNING" /\ TargetsReady(x.st))
       THEN y.ui.frozen = (x.st.runtime = "PAUSED") ELSE y.ui.frozen = x.ui.frozen
    /\ y.p.line = x.p.line /\ y.p.request = x.p.request
    /\ event.kind # "BROKER" \/ x.st.monitor # "RUNNING" =>
          y.p.due = x.p.due /\ y.p.text = x.p.text
    /\ event.kind = "BROKER" /\ x.st.monitor = "RUNNING" =>
          IF event.value THEN y.p.due = FALSE /\ y.p.text = FALSE
          ELSE /\ y.p.text = x.p.text
               /\ y.p.due = (x.p.due \/ (/\ MonitorIsCurrent(x.st) /\ mode.display = "CONSOLE"
                                         /\ x.st.runtime = "RUNNING"
                                         /\ x.st.frame /\ x.st.graphics))

LEMMA ShowEffect ==
    ASSUME NEW x \in StepType, NEW event \in EventType, ~x.ended
    PROVE  Shown(x, Show(x, event), event)
<1> DEFINE y == ShowState(x, event.kind)
           z == PromptAfterBroker(y, event)
           frozen == IF /\ x.ui.window /\ event.kind \in {"RUNTIME", "BROKER"}
                        /\ x.st.runtime = "PAUSED" \/ (x.st.runtime = "RUNNING" /\ TargetsReady(x.st))
                     THEN x.st.runtime = "PAUSED" ELSE x.ui.frozen
           u == [x.ui EXCEPT !.frozen = frozen]
<1>1. Show(x, event) = z
    BY DEF Show
<1>2. x.ui.frozen \in BOOLEAN /\ frozen \in BOOLEAN
    BY DEF StepType, UiType
<1>3. y = [x EXCEPT !.ui = u]
    <2>1. x.ui = [x.ui EXCEPT !.frozen = x.ui.frozen] /\ x = [x EXCEPT !.ui = x.ui]
        BY DEF StepType, UiType
    <2>2. CASE ~(/\ event.kind \in {"RUNTIME", "BROKER"}
                 /\ x.st.runtime # "RUNNING" \/ TargetsReady(x.st))
        <3>1. y = x /\ frozen = x.ui.frozen
            BY <2>2 DEF ShowState
        <3>. QED
            BY <2>1, <3>1
    <2>3. CASE /\ event.kind \in {"RUNTIME", "BROKER"}
               /\ x.st.runtime # "RUNNING" \/ TargetsReady(x.st)
        <3> DEFINE b == IF ~x.ui.window THEN x.ui.frozen
                        ELSE CASE x.st.runtime = "RUNNING" -> FALSE
                               [] x.st.runtime = "PAUSED" -> TRUE
                               [] OTHER -> x.ui.frozen
        <3>1. y = [x EXCEPT !.ui.frozen = b]
            BY <2>3 DEF ShowState, SetState
        <3>2. b = frozen
            BY <2>3, <1>2
        <3> HIDE DEF b, frozen
        <3>. QED
            BY <3>1, <3>2 DEF StepType, UiType
    <2>. QED
        BY <2>2, <2>3
<1>4. IF /\ x.ui.window /\ event.kind \in {"RUNTIME", "BROKER"}
         /\ x.st.runtime = "PAUSED" \/ (x.st.runtime = "RUNNING" /\ TargetsReady(x.st))
      THEN frozen = (x.st.runtime = "PAUSED") ELSE frozen = x.ui.frozen
    OBVIOUS
<1> HIDE DEF frozen
<1>5. /\ u \in UiType
      /\ u.window = x.ui.window /\ u.console = x.ui.console /\ u.bound = x.ui.bound
      /\ u.run = x.ui.run /\ u.wseq = x.ui.wseq /\ u.cseq = x.ui.cseq
      /\ u.status = x.ui.status /\ u.frozen = frozen
    BY <1>2, Fields DEF UiType
<1> HIDE DEF u, y
<1>6. /\ y \in StepType /\ y.st = x.st /\ y.m = x.m /\ y.fifo = x.fifo /\ y.reading = x.reading
      /\ y.ended = x.ended /\ y.ui = u /\ y.p = x.p
    BY <1>3, <1>5 DEF StepType
<1> DEFINE b == y.p.due \/ (/\ MonitorIsCurrent(y.st) /\ mode.display = "CONSOLE"
                            /\ y.st.runtime = "RUNNING" /\ y.st.frame /\ y.st.graphics)
<1>7. z = IF event.kind # "BROKER" \/ y.st.monitor # "RUNNING" THEN y
          ELSE IF event.value THEN [y EXCEPT !.p.due = FALSE, !.p.text = FALSE]
          ELSE [y EXCEPT !.p.due = b]
    BY DEF PromptAfterBroker
<1>8. b = (x.p.due \/ (/\ MonitorIsCurrent(x.st) /\ mode.display = "CONSOLE"
                       /\ x.st.runtime = "RUNNING" /\ x.st.frame /\ x.st.graphics))
    BY <1>6
<1> HIDE DEF b, z
<1>9. /\ z.st = y.st /\ z.m = y.m /\ z.fifo = y.fifo /\ z.reading = y.reading
      /\ z.ended = y.ended /\ z.ui = y.ui
      /\ z.p.line = y.p.line /\ z.p.request = y.p.request
      /\ event.kind # "BROKER" \/ y.st.monitor # "RUNNING" =>
            z.p.due = y.p.due /\ z.p.text = y.p.text
    BY <1>6, <1>7 DEF StepType, PromptType
<1>10. event.kind = "BROKER" /\ y.st.monitor = "RUNNING" =>
         /\ event.value => z.p.due = FALSE /\ z.p.text = FALSE
         /\ ~event.value => z.p.due = b /\ z.p.text = y.p.text
    BY <1>6, <1>7 DEF StepType, PromptType
<1>11. Shown(x, z, event)
    BY <1>4, <1>5, <1>6, <1>8, <1>9, <1>10 DEF Shown
<1>. QED
    BY <1>1, <1>11

\* The prompt is offered, if the monitor has the console and nothing else waits.
Offered(x, y, event) ==
    /\ Elsewhere(x, y) /\ y.p.request = x.p.request
    /\ event.kind = "FRAME" \/ ~MonitorIsCurrent(x.st) =>
          y.p = x.p /\ y.reading = x.reading
    /\ event.kind # "FRAME" /\ MonitorIsCurrent(x.st) =>
          LET line == x.p.line /\ ~(x.p.text /\ x.reading)
          IN  /\ y.p.text = FALSE
              /\ IF x.p.request # "NONE" \/ ~x.p.due \/ line
                 THEN /\ y.p.line = line /\ y.p.due = x.p.due
                      /\ y.reading = (x.reading /\ ~x.p.text)
                 ELSE y.p.line = TRUE /\ y.p.due = FALSE /\ y.reading = TRUE

LEMMA PromptEffect ==
    ASSUME NEW x \in StepType, NEW event \in EventType, ~x.ended
    PROVE  Offered(x, Prompt(x, event), event)
<1>1. CASE event.kind = "FRAME" \/ ~MonitorIsCurrent(x.st)
    BY <1>1 DEF Prompt, ArmIfReady, Offered, Elsewhere
<1>2. CASE event.kind # "FRAME" /\ MonitorIsCurrent(x.st)
    <2> DEFINE y == IF x.p.text THEN [CancelLine(x) EXCEPT !.p.text = FALSE] ELSE x
               line == x.p.line /\ ~(x.p.text /\ x.reading)
               z == Prompt(x, event)
    <2>1. z = IF y.p.request # "NONE" \/ ~y.p.due \/ y.p.line THEN y
              ELSE [y EXCEPT !.p.line = TRUE, !.p.due = FALSE, !.reading = TRUE]
        BY <1>2 DEF Prompt, ArmIfReady
    <2>2. /\ y \in StepType /\ Elsewhere(x, y) /\ y.p.request = x.p.request /\ y.p.due = x.p.due
          /\ y.p.text = FALSE /\ y.p.line = line /\ y.reading = (x.reading /\ ~x.p.text)
        <3>1. CASE x.p.text
            <4>1. y = [CancelLine(x) EXCEPT !.p.text = FALSE]
                BY <3>1
            <4> DEFINE w == CancelLine(x)
            <4>2. /\ w \in StepType /\ Elsewhere(x, w) /\ w.p.request = x.p.request
                  /\ w.p.due = x.p.due /\ w.p.line = (x.p.line /\ ~x.reading) /\ w.reading = FALSE
                BY CancelLineEffect, CancelLineKeeps DEF Cancelled
            <4> HIDE DEF w
            <4>3. y = [w EXCEPT !.p.text = FALSE]
                BY <4>1 DEF w
            <4> HIDE DEF y
            <4>4. /\ y \in StepType /\ Elsewhere(w, y) /\ y.p.request = w.p.request
                  /\ y.p.due = w.p.due /\ y.p.text = FALSE /\ y.p.line = w.p.line
                  /\ y.reading = w.reading
                BY <4>2, <4>3 DEF StepType, PromptType, Elsewhere
            <4>5. Elsewhere(x, y)
                BY <4>2, <4>4 DEF Elsewhere
            <4>. QED
                BY <3>1, <4>2, <4>4, <4>5
        <3>2. CASE ~x.p.text
            <4>1. y = x
                BY <3>2
            <4>2. x.p.line \in BOOLEAN /\ x.reading \in BOOLEAN /\ x.p.text \in BOOLEAN
                BY DEF StepType, PromptType
            <4>. QED
                BY <3>2, <4>1, <4>2 DEF Elsewhere
        <3>. QED
            BY <3>1, <3>2
    <2> HIDE DEF y, z
    <2>3. CASE y.p.request # "NONE" \/ ~y.p.due \/ y.p.line
        <3>1. z = y
            BY <2>1, <2>3
        <3>2. Elsewhere(x, z) /\ z.p.request = x.p.request /\ z.p.text = FALSE
              /\ z.p.line = line /\ z.p.due = x.p.due /\ z.reading = (x.reading /\ ~x.p.text)
              /\ (x.p.request # "NONE" \/ ~x.p.due \/ line)
            BY <2>2, <2>3, <3>1
        <3>. QED
            BY <1>2, <3>2 DEF Offered, z
    <2>4. CASE ~(y.p.request # "NONE" \/ ~y.p.due \/ y.p.line)
        <3>1. z = [y EXCEPT !.p.line = TRUE, !.p.due = FALSE, !.reading = TRUE]
            BY <2>1, <2>4
        <3>2. /\ Elsewhere(y, z) /\ z.p.request = y.p.request /\ z.p.text = y.p.text
              /\ z.p.line = TRUE /\ z.p.due = FALSE /\ z.reading = TRUE
            BY <2>2, <3>1 DEF StepType, PromptType, Elsewhere
        <3>3. Elsewhere(x, z)
            BY <2>2, <3>2 DEF Elsewhere
        <3>4. ~(x.p.request # "NONE" \/ ~x.p.due \/ line)
            BY <2>2, <2>4
        <3>. QED
            BY <1>2, <2>2, <3>2, <3>3, <3>4 DEF Offered, z
    <2>. QED
        BY <2>3, <2>4
<1>. QED
    BY <1>1, <1>2

-----------------------------------------------------------------------------
\* What the drive of a handler changes: from r, where the event is reduced, to s, where
\* the state is shown.

\* The condition under which a state takes the action a.
Wants(t, a) ==
    /\ a = "CREATE_VM_CONSOLE" => "console" \in Desired(t) /\ ~t.console
    /\ a = "BIND_VM_CONSOLE" => "console" \in Desired(t) /\ t.console /\ t.current # "VM"
    /\ a = "BIND_MONITOR" => "console" \notin Desired(t) /\ t.current # "MONITOR"
    /\ a = "DESTROY_VM_CONSOLE" =>
          "console" \notin Desired(t) /\ t.current = "MONITOR" /\ t.console
    /\ a = "CREATE_WINDOW" => "window" \in Desired(t) /\ ~t.window /\ t.runtime = "RUNNING"
    /\ a = "DESTROY_WINDOW" => "window" \notin Desired(t) /\ t.window
    /\ "console" \in Desired(t) /\ t.console /\ t.current # "VM" => a = "BIND_VM_CONSOLE"

\* The facts about the machine and the surfaces stay; a new frame of the run is noted.
Noted(r, s) ==
    /\ s.m = r.m /\ s.ui.run = r.m.run
    /\ s.st.runtime = r.st.runtime /\ s.st.monitor = r.st.monitor
    /\ s.st.suppressed = r.st.suppressed /\ s.st.window = r.st.window
    /\ s.st.console = r.st.console /\ s.st.current = r.st.current
    /\ IF Available(r) /\ r.m.seq > r.st.observed
       THEN s.st.observed = r.m.seq /\ s.st.frame = TRUE /\ s.st.graphics = r.m.graphics
       ELSE /\ s.st.observed = r.st.observed /\ s.st.frame = r.st.frame
            /\ s.st.graphics = r.st.graphics

\* No action is taken, or one.
Waits(r, s) ==
    /\ s.st.inflight = r.st.inflight /\ s.fifo = r.fifo /\ s.reading = r.reading
    /\ s.ui.window = r.ui.window
Moves(r, s) ==
    /\ r.st.inflight = "NONE" /\ s.st.inflight \in Actions /\ Wants(s.st, s.st.inflight)
    /\ s.reading = (r.reading /\ s.st.inflight \notin {"BIND_VM_CONSOLE", "BIND_MONITOR"})
    /\ s.st.inflight \notin {"CREATE_WINDOW", "DESTROY_WINDOW"} => s.ui.window = r.ui.window
    /\ \E e \in EventType :
          s.fifo = Append(r.fifo, e) /\ Completion(e) = s.st.inflight /\ e.run = r.m.run

\* The state is shown: the Window is frozen or thawed.
Sets(s, event) ==
    /\ s.ui.window /\ event.kind \in {"RUNTIME", "BROKER"}
    /\ s.st.runtime = "PAUSED" \/ (s.st.runtime = "RUNNING" /\ TargetsReady(s.st))

\* Otherwise it is left as it was, unless it is destroyed or new.
Thaws(r, s, event) ==
    /\ Sets(s, event) => s.ui.frozen = (s.st.runtime = "PAUSED")
    /\ ~Sets(s, event) =>
          /\ Waits(r, s) \/ s.st.inflight \notin {"CREATE_WINDOW", "DESTROY_WINDOW"} =>
                s.ui.frozen = r.ui.frozen
          /\ Moves(r, s) /\ s.st.inflight = "CREATE_WINDOW" /\ ~r.ui.window =>
                s.ui.frozen = (s.st.runtime # "RUNNING")

\* Surfaces that are ready show the latest frame.
Sees(s) ==
    Available(s) /\ TargetsReady(s.st) =>
       /\ s.st.window /\ s.ui.window => s.ui.wseq = s.m.seq
       /\ s.st.console /\ s.st.current = "VM" /\ s.ui.console =>
             /\ s.m.graphics /\ mode.display = "CONSOLE" /\ ~mode.console_control => s.ui.status
             /\ ~s.m.graphics => ~s.ui.status /\ s.ui.cseq = s.m.seq

\* A prompt becomes due, or is no longer.
Dues(r, s, event) ==
    /\ s.p.line = r.p.line /\ s.p.request = r.p.request
    /\ event.kind # "BROKER" \/ s.st.monitor # "RUNNING" =>
          s.p.due = r.p.due /\ s.p.text = r.p.text
    /\ event.kind = "BROKER" /\ s.st.monitor = "RUNNING" =>
          IF event.value THEN s.p.due = FALSE /\ s.p.text = FALSE
          ELSE /\ s.p.text = r.p.text
               /\ s.p.due = (r.p.due \/ (/\ MonitorIsCurrent(s.st) /\ mode.display = "CONSOLE"
                                         /\ s.st.runtime = "RUNNING"
                                         /\ s.st.frame /\ s.st.graphics))

\* The whole of it; y is the end of the handler.
Drive(r, s, y, event) ==
    /\ ~r.ended /\ ~s.ended /\ s \in StepType
    /\ Noted(r, s) /\ (Waits(r, s) \/ Moves(r, s))
    /\ Thaws(r, s, event) /\ Sees(s) /\ Dues(r, s, event)
    /\ Offered(s, y, event)

\* The wanted surfaces do not depend on the action in flight.
LEMMA DesiredOf ==
    ASSUME NEW t \in StateType, NEW a
    PROVE  Desired([t EXCEPT !.inflight = a]) = Desired(t)
<1> DEFINE u == [t EXCEPT !.inflight = a]
<1>1. /\ u.runtime = t.runtime /\ u.monitor = t.monitor /\ u.frame = t.frame
      /\ u.graphics = t.graphics /\ u.window = t.window /\ u.suppressed = t.suppressed
    BY DEF StateType
<1> HIDE DEF u
<1>2. Desired(u) = Desired(t)
    BY <1>1 DEF Desired, Plan
<1>. QED
    BY <1>1, <1>2 DEF u

\* What NextAction decides.
LEMMA WantsNext ==
    ASSUME NEW t, NextAction(t) # "NONE"
    PROVE  t.inflight = "NONE" /\ NextAction(t) \in Actions /\ Wants(t, NextAction(t))
BY DEF NextAction, Wants, Actions

\* A handler that does not end the session, from the reduced event to its end.
LEMMA DriveEffect ==
    ASSUME NEW event \in EventType, NEW r \in StepType, NEW o, NEW a,
           NEW d, NEW s, NEW y,
           o = Observe(r), a = TakeAction(o), d = ShowFrame(a),
           s = Show(d, event), y = Prompt(s, event), ~y.ended
    PROVE  Drive(r, s, y, event)
<1>1. o \in StepType /\ Same(r, o)
    BY ObserveKeeps
<1>2. a \in StepType /\ (o.ended => a.ended)
      /\ (~a.ended /\ NextAction(o.st) # "NONE" => Acted(o, a, NextAction(o.st)))
    BY <1>1, TakeActionActs
<1>3. d \in StepType /\ Same(a, d)
    BY <1>2, ShowFrameKeeps
<1>4. s \in StepType /\ Same(d, s)
    BY <1>3, ShowKeeps
<1>5. Same(s, y)
    BY <1>4, PromptKeeps
<1>6. ~s.ended /\ ~d.ended /\ ~a.ended /\ ~o.ended /\ ~r.ended
    BY <1>1, <1>2, <1>3, <1>4, <1>5 DEF Same
<1>7. Observed(r, o)
    BY <1>6, ObserveEffect
<1>8. IF NextAction(o.st) = "NONE" THEN a = o ELSE Acted(o, a, NextAction(o.st))
    BY <1>2, <1>6 DEF TakeAction
<1>9. Published(a, d)
    BY <1>2, <1>6, ShowFrameEffect
<1>10. Shown(d, s, event)
    BY <1>3, <1>6, ShowEffect
<1>11. Offered(s, y, event)
    BY <1>4, <1>6, PromptEffect
<1>12. o.st \in StateType /\ r.st \in StateType /\ r.ui \in UiType /\ o.ui \in UiType
    BY <1>1, Fields
<1>13. s.st = a.st
    BY <1>9, <1>10 DEF Published, Shown
<1> DEFINE act == NextAction(o.st)
<1>14. act # "NONE" =>
          /\ act \in Actions /\ o.st.inflight = "NONE" /\ Wants(o.st, act)
          /\ a.st = [o.st EXCEPT !.inflight = act]
    BY <1>8, WantsNext DEF Acted
<1>15. /\ s.st.runtime = o.st.runtime /\ s.st.monitor = o.st.monitor /\ s.st.frame = o.st.frame
       /\ s.st.graphics = o.st.graphics /\ s.st.window = o.st.window
       /\ s.st.console = o.st.console /\ s.st.current = o.st.current
       /\ s.st.suppressed = o.st.suppressed /\ s.st.observed = o.st.observed
       /\ s.st.inflight = (IF act = "NONE" THEN o.st.inflight ELSE act)
       /\ Desired(s.st) = Desired(o.st)
    <2>1. CASE act = "NONE"
        BY <1>8, <1>13, <2>1
    <2>2. CASE act # "NONE"
        <3>1. s.st = [o.st EXCEPT !.inflight = act]
            BY <1>13, <1>14, <2>2
        <3> HIDE DEF act
        <3>2. /\ s.st.runtime = o.st.runtime /\ s.st.monitor = o.st.monitor
              /\ s.st.frame = o.st.frame /\ s.st.graphics = o.st.graphics
              /\ s.st.window = o.st.window /\ s.st.console = o.st.console
              /\ s.st.current = o.st.current /\ s.st.suppressed = o.st.suppressed
              /\ s.st.observed = o.st.observed /\ s.st.inflight = act
            BY <1>12, <3>1 DEF StateType
        <3>3. Desired(s.st) = Desired(o.st)
            BY <1>12, <3>1, DesiredOf
        <3>. QED
            BY <2>2, <3>2, <3>3
    <2>. QED
        BY <2>1, <2>2
<1>16. o.ui.run = r.m.run /\ o.ui.window = r.ui.window /\ o.ui.frozen = r.ui.frozen
    BY <1>7, <1>12 DEF Observed, UiType
<1>17. Noted(r, s)
    <2>1. s.m = r.m
        BY <1>7, <1>8, <1>9, <1>10 DEF Observed, Acted, Carried, Published, Shown
    <2>2. s.ui.run = r.m.run
        <3>1. a.ui.run = o.ui.run
            BY <1>8 DEF Acted, Carried
        <3>. QED
            BY <1>9, <1>10, <1>16, <3>1 DEF Published, Shown
    <2>3. /\ o.st.runtime = r.st.runtime /\ o.st.monitor = r.st.monitor
          /\ o.st.suppressed = r.st.suppressed /\ o.st.window = r.st.window
          /\ o.st.console = r.st.console /\ o.st.current = r.st.current
          /\ IF Available(r) /\ r.m.seq > r.st.observed
             THEN o.st.observed = r.m.seq /\ o.st.frame = TRUE /\ o.st.graphics = r.m.graphics
             ELSE /\ o.st.observed = r.st.observed /\ o.st.frame = r.st.frame
                  /\ o.st.graphics = r.st.graphics
        <3>1. o.st = IF Available(r) THEN NoteFrame(r.st, r.m.seq, r.m.graphics) ELSE r.st
            BY <1>7 DEF Observed
        <3>2. CASE Available(r) /\ r.m.seq > r.st.observed
            <4>1. o.st = [r.st EXCEPT !.observed = r.m.seq, !.frame = TRUE,
                                      !.graphics = r.m.graphics]
                BY <3>1, <3>2 DEF NoteFrame
            <4>. QED
                BY <1>12, <3>2, <4>1 DEF StateType
        <3>3. CASE ~(Available(r) /\ r.m.seq > r.st.observed)
            <4>1. o.st = r.st
                BY <3>1, <3>3 DEF NoteFrame
            <4>. QED
                BY <3>3, <4>1
        <3>. QED
            BY <3>2, <3>3
    <2>. QED
        BY <1>15, <2>1, <2>2, <2>3 DEF Noted
<1>18. act = "NONE" => Waits(r, s)
    <2>1. SUFFICES ASSUME act = "NONE"
                   PROVE  Waits(r, s)
        OBVIOUS
    <2>2. a = o
        BY <1>8, <2>1
    <2>3. s.st.inflight = r.st.inflight
        BY <1>1, <1>15, <2>1 DEF Same
    <2>4. s.fifo = r.fifo /\ s.reading = r.reading
        BY <1>7, <1>9, <1>10, <2>2 DEF Observed, Published, Shown
    <2>5. s.ui.window = r.ui.window
        BY <1>9, <1>10, <1>16, <2>2 DEF Published, Shown
    <2>. QED
        BY <2>3, <2>4, <2>5 DEF Waits
<1>19. act # "NONE" => Moves(r, s)
    <2>1. SUFFICES ASSUME act # "NONE"
                   PROVE  Moves(r, s)
        OBVIOUS
    <2>2. Acted(o, a, act)
        BY <1>8, <2>1
    <2>3. r.st.inflight = "NONE" /\ s.st.inflight = act /\ act \in Actions
        BY <1>1, <1>14, <1>15, <2>1 DEF Same
    <2>4. Wants(s.st, act)
        BY <1>14, <1>15, <2>1 DEF Wants
    <2>5. o.reading = r.reading /\ o.fifo = r.fifo
        BY <1>7 DEF Observed
    <2>6. s.fifo = a.fifo /\ s.reading = a.reading /\ s.ui.window = a.ui.window
        BY <1>9, <1>10 DEF Published, Shown
    <2> HIDE DEF act
    <2>7. s.reading = (r.reading /\ act \notin {"BIND_VM_CONSOLE", "BIND_MONITOR"})
        BY <2>2, <2>5, <2>6 DEF Acted, Carried
    <2>8. act \notin {"CREATE_WINDOW", "DESTROY_WINDOW"} => s.ui.window = r.ui.window
        BY <2>2, <2>6, <1>16 DEF Acted, Carried
    <2>9. PICK e \in EventType :
              a.fifo = Append(o.fifo, e) /\ Completion(e) = act /\ e.run = o.ui.run
        BY <2>2 DEF Acted
    <2>10. s.fifo = Append(r.fifo, e) /\ Completion(e) = act /\ e.run = r.m.run
        BY <2>5, <2>6, <2>9, <1>16
    <2>. QED
        BY <2>3, <2>4, <2>7, <2>8, <2>10 DEF Moves
<1>20. /\ act = "NONE" => d.ui.frozen = r.ui.frozen
       /\ act \notin {"CREATE_WINDOW", "DESTROY_WINDOW"} => d.ui.frozen = r.ui.frozen
       /\ act = "CREATE_WINDOW" /\ ~r.ui.window => d.ui.frozen = (s.st.runtime # "RUNNING")
    <2>1. d.ui.frozen = a.ui.frozen
        BY <1>9 DEF Published
    <2>2. CASE act = "NONE"
        BY <1>8, <1>16, <2>1, <2>2
    <2>3. CASE act # "NONE"
        <3>1. Acted(o, a, act)
            BY <1>8, <2>3
        <3> HIDE DEF act
        <3>. QED
            BY <1>15, <1>16, <2>1, <2>3, <3>1 DEF Acted, Carried
    <2>. QED
        BY <2>2, <2>3
<1>21. d.st = s.st /\ d.m = s.m /\ d.ui.window = s.ui.window /\ d.p = a.p
    BY <1>9, <1>10 DEF Published, Shown
<1>22. act \in Actions \cup {"NONE"}
    BY <1>14
<1>23. Thaws(r, s, event)
    <2>1. IF Sets(s, event)
          THEN s.ui.frozen = (s.st.runtime = "PAUSED") ELSE s.ui.frozen = d.ui.frozen
        BY <1>10, <1>21 DEF Shown, Sets
    <2>2. ~(Waits(r, s) /\ Moves(r, s))
        <3>1. "NONE" \notin Actions
            BY DEF Actions
        <3>. QED
            BY <3>1 DEF Waits, Moves
    <2> HIDE DEF act
    <2>3. Waits(r, s) \/ s.st.inflight \notin {"CREATE_WINDOW", "DESTROY_WINDOW"} =>
             d.ui.frozen = r.ui.frozen
        BY <1>15, <1>19, <1>20, <2>2
    <2>4. Moves(r, s) /\ s.st.inflight = "CREATE_WINDOW" /\ ~r.ui.window =>
             d.ui.frozen = (s.st.runtime # "RUNNING")
        BY <1>15, <1>18, <1>20, <2>2
    <2>. QED
        BY <2>1, <2>3, <2>4 DEF Thaws
<1>24. Sees(s)
    <2>1. d.m = a.m /\ d.st = a.st
        BY <1>9 DEF Published
    <2>2. Available(s) /\ TargetsReady(s.st) => Available(a) /\ TargetsReady(a.st)
        BY <1>13, <1>21, <2>1 DEF Available
    <2>3. /\ s.ui.window = a.ui.window /\ s.ui.console = a.ui.console
          /\ s.ui.wseq = d.ui.wseq /\ s.ui.cseq = d.ui.cseq /\ s.ui.status = d.ui.status
        BY <1>9, <1>10 DEF Published, Shown
    <2>. QED
        BY <1>9, <1>13, <1>21, <2>1, <2>2, <2>3 DEF Published, Sees
<1>25. Dues(r, s, event)
    <2>1. a.p = r.p
        BY <1>7, <1>8 DEF Observed, Acted, Carried
    <2>2. d.p = r.p
        BY <1>21, <2>1
    <2>. QED
        BY <1>10, <1>21, <2>2 DEF Shown, Dues
<1>26. Waits(r, s) \/ Moves(r, s)
    BY <1>18, <1>19
<1>. QED
    BY <1>4, <1>6, <1>11, <1>17, <1>23, <1>24, <1>25, <1>26 DEF Drive

-----------------------------------------------------------------------------
\* What each event changes before the drive: from x, without the event, to r.

\* The machine serves the request.
Dispatched(x, r, request) ==
    /\ x.p.request = "NONE" /\ ~Refused(request, x.m.state) /\ r.p.request = request
    /\ r.m = [(IF x.m.state = "STOPPED" /\ request \in {"START", "RESET"}
               THEN BeginRun(x.m) ELSE x.m) EXCEPT !.job = request]

\* A load begins a run and has reported it.
Loads(x, r) ==
    /\ x.st.monitor = "STOPPED" /\ x.m.state = "STOPPED" /\ x.m.job = "NONE"
    /\ r.p.request = x.p.request /\ r.m = [BeginRun(x.m) EXCEPT !.state = "PAUSED"]
    /\ r.fifo = Append(x.fifo, Event("RUNTIME", r.m.run, "PAUSED"))

LineTaken(x, r, command) ==
    /\ r.st = x.st /\ r.ui = x.ui /\ ~r.p.line /\ (~x.reading => ~r.reading)
    /\ r.p.due \/ r.p.request # "NONE"
    /\ \/ r.m = x.m /\ r.fifo = x.fifo /\ r.p.request = x.p.request
       \/ Loads(x, r)
       \/ /\ r.fifo = x.fifo
          /\ \E request \in Requests :
                RequestOf(command, x.st.monitor) = request /\ Dispatched(x, r, request)

InputTaken(x, r) ==
    /\ r.st = x.st \/ r.st = [x.st EXCEPT !.suppressed = TRUE]
    /\ r.ui = x.ui /\ r.fifo = x.fifo /\ r.p.line = x.p.line /\ r.reading = x.reading
    /\ \/ /\ r.m = x.m /\ r.p.request = x.p.request /\ r.p.due = x.p.due
          /\ r.p.text = x.p.text \/ x.p.request # "NONE"
       \/ \E request \in {"PAUSE", "RESUME"} :
             /\ request = "PAUSE" <=> x.st.monitor = "RUNNING"
             /\ Dispatched(x, r, request)

Announced(x, event) ==
    ~(x.st.monitor = "INIT" /\ event.value = "STOPPED") /\ Announces(x.st.monitor, event.value)

ReportTaken(x, r, event) ==
    /\ r.ui = x.ui /\ r.m = x.m /\ r.fifo = x.fifo /\ r.p.request = "NONE"
    /\ r.st.runtime = StateOf(event.value) /\ r.st.monitor = StateOf(event.value)
    /\ r.st.window = x.st.window /\ r.st.console = x.st.console
    /\ r.st.current = x.st.current /\ r.st.inflight = x.st.inflight
    /\ r.st.observed = x.st.observed
    /\ StateOf(event.value) \in {"RUNNING", "PAUSED"} =>
          r.st.frame = x.st.frame /\ r.st.graphics = x.st.graphics
    /\ r.p.due = (x.p.due \/ Announced(x, event))
    /\ Announced(x, event) \/ r.p.text = x.p.text
    /\ \E b \in BOOLEAN : Cancelled(x, r, b) /\ (b => Announced(x, event))

\* A completion of the action in flight.
CompletionTaken(x, r, event) ==
    /\ r.ui = x.ui /\ r.m = x.m /\ r.fifo = x.fifo /\ r.reading = x.reading
    /\ r.st.runtime = x.st.runtime /\ r.st.monitor = x.st.monitor
    /\ r.st.frame = x.st.frame /\ r.st.graphics = x.st.graphics
    /\ r.st.observed = x.st.observed /\ r.st.suppressed = x.st.suppressed
    /\ r.p.request = x.p.request /\ r.p.due = x.p.due /\ r.p.text = x.p.text
    /\ x.st.inflight = Completion(event) => r.st.inflight = "NONE"
    /\ event.kind = "COMPONENT" =>
          /\ r.p.line = x.p.line /\ r.st.current = x.st.current
          /\ r.st.console = x.st.console \/ (r.st.console <=> Completion(event) = "CREATE_VM_CONSOLE")
          /\ Completion(event) \in {"CREATE_WINDOW", "DESTROY_WINDOW"} => r.st.console = x.st.console
          /\ Completion(event) \notin {"BIND_VM_CONSOLE", "BIND_MONITOR"}
    /\ event.kind = "BROKER" =>
          /\ ~r.p.line /\ r.st.window = x.st.window /\ r.st.console = x.st.console
          /\ event.value \in BOOLEAN
          /\ r.st.current = IF event.value THEN "VM" ELSE "MONITOR"
          /\ Completion(event) = IF event.value THEN "BIND_VM_CONSOLE" ELSE "BIND_MONITOR"

LEMMA LineEffect ==
    ASSUME NEW x \in StepType, NEW command, ~SubmitLine(x, command).ended
    PROVE  LineTaken(x, SubmitLine(x, command), command)
<1> DEFINE w == [x EXCEPT !.p.line = FALSE]
           y == IF command = "load" /\ x.st.monitor = "STOPPED" THEN Loaded(w) ELSE w
           q == RequestOf(command, x.st.monitor)
           b == q = "NONE" /\ command # ""
           r == SubmitLine(x, command)
<1>1. /\ w \in StepType /\ w.st = x.st /\ w.ui = x.ui /\ w.fifo = x.fifo /\ w.m = x.m
      /\ w.reading = x.reading /\ w.ended = x.ended /\ w.p.line = FALSE
      /\ w.p.request = x.p.request /\ w.p.due = x.p.due /\ w.p.text = x.p.text
    BY DEF StepType, PromptType
<1>2. q \in Requests \cup {"NONE"} /\ b \in BOOLEAN
    BY DEF RequestOf, Requests
<1>3. r = ApplyResult(y, b, q, TRUE)
    BY DEF SubmitLine
<1>4. ~r.ended
    OBVIOUS
<1> HIDE DEF r, w
<1>5. CASE q = "NONE"
    <2>1. /\ y \in StepType /\ y.st = x.st /\ y.ui = x.ui /\ y.reading = x.reading
          /\ y.p.line = FALSE /\ y.p.request = x.p.request
          /\ \/ y.m = x.m /\ y.fifo = x.fifo
             \/ /\ x.st.monitor = "STOPPED" /\ x.m.state = "STOPPED" /\ x.m.job = "NONE"
                /\ y.m = [BeginRun(x.m) EXCEPT !.state = "PAUSED"]
                /\ y.fifo = Append(x.fifo, Event("RUNTIME", y.m.run, "PAUSED"))
        <3>1. CASE y = w
            BY <1>1, <3>1
        <3>2. CASE /\ y = Loaded(w) /\ x.st.monitor = "STOPPED"
                   /\ x.m.state = "STOPPED" /\ x.m.job = "NONE"
            <4> DEFINE n == [BeginRun(w.m) EXCEPT !.state = "PAUSED"]
                       f == Append(w.fifo, Event("RUNTIME", n.run, "PAUSED"))
            <4>1. y = [w EXCEPT !.m = n, !.fifo = f]
                BY <1>1, <3>2 DEF Loaded
            <4>2. y \in StepType
                BY <1>1, <3>2, LoadedKeeps
            <4> HIDE DEF f, y
            <4>3. /\ y.m = n /\ y.fifo = f /\ y.st = w.st /\ y.ui = w.ui /\ y.reading = w.reading
                  /\ y.p = w.p
                <5> HIDE DEF n
                <5>. QED
                    BY <1>1, <4>1 DEF StepType
            <4>. QED
                BY <1>1, <3>2, <4>2, <4>3 DEF f
        <3>3. CASE /\ y = Loaded(w)
                   /\ x.m.state # "STOPPED" \/ x.m.job # "NONE"
            <4>1. y = w
                BY <1>1, <3>3 DEF Loaded
            <4>. QED
                BY <1>1, <4>1
        <3>. QED
            BY <3>1, <3>2, <3>3
    <2> HIDE DEF y
    <2>2. Answered(y, r, b, TRUE)
        <3>1. r = ApplyResult(y, b, "NONE", TRUE)
            BY <1>3, <1>5
        <3> HIDE DEF b, q
        <3>. QED
            BY <1>2, <2>1, <3>1, AnsweredResult
    <2>3. /\ r.st = y.st /\ r.ui = y.ui /\ r.m = y.m /\ r.fifo = y.fifo
          /\ r.p.request = y.p.request
        BY <2>2 DEF Answered, Elsewhere
    <2>4. r.p.due
        BY <2>2 DEF Answered
    <2>5. ~r.p.line /\ (~x.reading => ~r.reading)
        BY <2>1, <2>2 DEF Answered, Cancelled
    <2>6. CASE y.m = x.m /\ y.fifo = x.fifo
        BY <2>1, <2>3, <2>4, <2>5, <2>6 DEF LineTaken, r
    <2>7. CASE ~(y.m = x.m /\ y.fifo = x.fifo)
        <3>1. Loads(x, r)
            BY <2>1, <2>3, <2>7 DEF Loads
        <3>. QED
            BY <2>1, <2>3, <2>4, <2>5, <3>1 DEF LineTaken, r
    <2>. QED
        BY <2>6, <2>7
<1>6. CASE q # "NONE"
    <2>1. q \in Requests /\ b = FALSE
        BY <1>2, <1>6
    <2>2. y = w
        <3>1. command # "load"
            BY <1>6 DEF RequestOf
        <3>. QED
            BY <3>1
    <2>3. r = ApplyResult(w, FALSE, q, TRUE)
        BY <1>3, <2>1, <2>2
    <2> HIDE DEF q
    <2>4. Asks(w, r, q)
        BY <1>1, <2>1, <2>3, AsksRequest
    <2>5. /\ r.st = x.st /\ r.ui = x.ui /\ r.fifo = x.fifo /\ r.p.line = FALSE
          /\ r.reading = x.reading
        BY <1>1, <2>4 DEF Asks
    <2>6. CASE x.p.request # "NONE"
        <3>1. r.m = x.m /\ r.p.request = x.p.request
            BY <1>1, <2>4, <2>6 DEF Asks
        <3>. QED
            BY <2>5, <2>6, <3>1 DEF LineTaken, r
    <2>7. CASE x.p.request = "NONE"
        <3>1. Dispatched(x, r, q) /\ r.p.request # "NONE"
            BY <1>1, <1>4, <2>1, <2>4, <2>7 DEF Asks, Dispatched, Requests
        <3>2. \E request \in Requests :
                 RequestOf(command, x.st.monitor) = request /\ Dispatched(x, r, request)
            BY <2>1, <3>1 DEF q
        <3>. QED
            BY <2>5, <3>1, <3>2 DEF LineTaken, r
    <2>. QED
        BY <2>6, <2>7
<1>. QED
    BY <1>5, <1>6

LEMMA InputEffect ==
    ASSUME NEW x \in StepType, NEW r, r = WindowClose(x) \/ r = Hotkey(x), ~r.ended
    PROVE  InputTaken(x, r)
<1> DEFINE w == [x EXCEPT !.st.suppressed = TRUE]
           t == [x.st EXCEPT !.suppressed = TRUE]
<1>1. /\ w \in StepType /\ w.st = t /\ w.ui = x.ui /\ w.fifo = x.fifo /\ w.m = x.m
      /\ w.reading = x.reading /\ w.ended = x.ended /\ w.p = x.p
    BY DEF StepType, StateType
<1>2. t.monitor = x.st.monitor
    BY DEF StepType, StateType
<1>3. r = WindowClose(x) =>
         \/ r = w
         \/ /\ x.st.monitor = "RUNNING" /\ x.p.request = "NONE"
            /\ r = ApplyResult(w, FALSE, "PAUSE", FALSE)
    BY DEF WindowClose
<1> HIDE DEF w, t
<1>4. CASE r = w
    BY <1>1, <1>4 DEF InputTaken, t
<1>5. CASE /\ x.st.monitor = "RUNNING" /\ x.p.request = "NONE"
           /\ r = ApplyResult(w, FALSE, "PAUSE", FALSE)
    <2>1. Asks(w, r, "PAUSE")
        BY <1>1, <1>5, AsksRequest DEF Requests
    <2>2. /\ r.st = t /\ r.ui = x.ui /\ r.fifo = x.fifo /\ r.p.line = x.p.line
          /\ r.reading = x.reading
        BY <1>1, <2>1 DEF Asks
    <2>3. Dispatched(x, r, "PAUSE")
        BY <1>1, <1>5, <2>1 DEF Asks, Dispatched
    <2>. QED
        BY <1>5, <2>2, <2>3 DEF InputTaken, t
<1>6. CASE r = Hotkey(x)
    <2> DEFINE q == IF x.st.monitor = "RUNNING" THEN "PAUSE" ELSE "RESUME"
    <2>1. q \in Requests /\ q \in {"PAUSE", "RESUME"} /\ (q = "PAUSE" <=> x.st.monitor = "RUNNING")
          /\ r = ApplyResult(x, FALSE, q, FALSE)
        BY <1>6 DEF Hotkey, Requests
    <2> HIDE DEF q
    <2>2. Asks(x, r, q)
        BY <2>1, AsksRequest
    <2>3. /\ r.st = x.st /\ r.ui = x.ui /\ r.fifo = x.fifo /\ r.p.line = x.p.line
          /\ r.reading = x.reading
        BY <2>2 DEF Asks
    <2>4. CASE x.p.request # "NONE"
        <3>1. r.m = x.m /\ r.p.request = x.p.request /\ r.p.due = x.p.due
            BY <2>2, <2>4 DEF Asks
        <3>. QED
            BY <2>3, <2>4, <3>1 DEF InputTaken
    <2>5. CASE x.p.request = "NONE"
        <3>1. Dispatched(x, r, q)
            BY <2>2, <2>5 DEF Asks, Dispatched
        <3>. QED
            BY <2>1, <2>3, <3>1 DEF InputTaken
    <2>. QED
        BY <2>4, <2>5
<1>. QED
    BY <1>3, <1>4, <1>5, <1>6

LEMMA ReportEffect ==
    ASSUME NEW x \in StepType, NEW event \in EventType, event.kind = "RUNTIME"
    PROVE  ReportTaken(x, NoteEvent(x, event), event)
<1>1. event.value \in Facts
    BY EventFields
<1> DEFINE t == NoteRuntime(x.st, event.value)
           says == Announced(x, event)
           y == [x EXCEPT !.st = t, !.p.request = "NONE"]
           r == NoteEvent(x, event)
<1>2. r = ApplyResult(y, says, "NONE", says)
    BY DEF NoteEvent, Announced
<1>3. says \in BOOLEAN
    BY DEF Announced, Announces
<1>4. /\ t \in StateType
      /\ t.runtime = StateOf(event.value) /\ t.monitor = StateOf(event.value)
      /\ t.window = x.st.window /\ t.console = x.st.console /\ t.current = x.st.current
      /\ t.inflight = x.st.inflight /\ t.observed = x.st.observed
      /\ StateOf(event.value) \in {"RUNNING", "PAUSED"} =>
            t.frame = x.st.frame /\ t.graphics = x.st.graphics
    <2> DEFINE runtime == StateOf(event.value)
               over == runtime \in {"STOPPED", "ERROR"}
               sup == IF runtime = "RUNNING" /\ x.st.runtime # "RUNNING" THEN FALSE
                      ELSE x.st.suppressed \/ (event.value = "PAUSED" /\ x.st.runtime = "STOPPED"
                                               /\ ~x.st.window)
               f == x.st.frame /\ ~over
               g == x.st.graphics /\ ~over
    <2>1. runtime \in Runtimes
        BY <1>1 DEF Facts, Runtimes, StateOf
    <2>2. sup \in BOOLEAN /\ f \in BOOLEAN /\ g \in BOOLEAN
        BY Fields DEF StateType
    <2>3. t = [x.st EXCEPT !.monitor = runtime, !.runtime = runtime, !.suppressed = sup,
                           !.frame = f, !.graphics = g]
        BY DEF NoteRuntime, StateOf
    <2>4. runtime \in {"RUNNING", "PAUSED"} => f = x.st.frame /\ g = x.st.graphics
        BY Fields DEF StateType
    <2>5. runtime = StateOf(event.value)
        OBVIOUS
    <2> HIDE DEF runtime, sup, f, g, t
    <2>. QED
        BY <2>1, <2>2, <2>3, <2>4, <2>5, Fields DEF StateType
<1> HIDE DEF t, says, r
<1>5. /\ y \in StepType /\ y.st = t /\ y.ui = x.ui /\ y.m = x.m /\ y.fifo = x.fifo
      /\ y.reading = x.reading /\ y.p.line = x.p.line /\ y.p.request = "NONE"
      /\ y.p.due = x.p.due /\ y.p.text = x.p.text
    BY <1>4 DEF StepType, PromptType
<1> HIDE DEF y
<1>6. Answered(y, r, says, says)
    BY <1>2, <1>3, <1>5, AnsweredResult
<1>7. /\ r.st = t /\ r.ui = x.ui /\ r.m = x.m /\ r.fifo = x.fifo /\ r.p.request = "NONE"
    BY <1>5, <1>6 DEF Answered, Elsewhere
<1>8. r.p.due = (x.p.due \/ says)
    BY <1>5, <1>6 DEF Answered
<1>9. says \/ r.p.text = x.p.text
    <2>1. x.p.text \in BOOLEAN
        BY DEF StepType, PromptType
    <2>. QED
        BY <1>3, <1>5, <1>6, <2>1 DEF Answered
<1>10. \E b \in BOOLEAN : Cancelled(x, r, b) /\ (b => says)
    <2> DEFINE b == says /\ MonitorIsCurrent(y.st)
    <2>1. b \in BOOLEAN /\ (b => says)
        BY <1>3
    <2>2. Cancelled(y, r, b)
        BY <1>6 DEF Answered
    <2> HIDE DEF b
    <2>3. Cancelled(x, r, b)
        BY <1>5, <2>2 DEF Cancelled
    <2>. QED
        BY <2>1, <2>3
<1>11. ReportTaken(x, r, event)
    BY <1>4, <1>7, <1>8, <1>9, <1>10 DEF ReportTaken, says
<1>. QED
    BY <1>11 DEF r

LEMMA CompletionEffect ==
    ASSUME NEW x \in StepType, NEW event \in EventType, event.kind \in {"COMPONENT", "BROKER"}
    PROVE  CompletionTaken(x, NoteEvent(x, event), event)
<1> DEFINE r == NoteEvent(x, event)
<1>1. CASE event.kind = "BROKER"
    <2>1. /\ event.value \in BOOLEAN
          /\ Completion(event) = IF event.value THEN "BIND_VM_CONSOLE" ELSE "BIND_MONITOR"
        BY <1>1, Completions
    <2> DEFINE t == NoteCurrent(x.st, event.value)
               l == [x.p EXCEPT !.line = FALSE]
    <2>2. r = [x EXCEPT !.p = l, !.st = t]
        BY <1>1 DEF NoteEvent, StepType, PromptType
    <2>3. /\ t.window = x.st.window /\ t.console = x.st.console
          /\ t.current = (IF event.value THEN "VM" ELSE "MONITOR")
          /\ t.runtime = x.st.runtime /\ t.monitor = x.st.monitor /\ t.frame = x.st.frame
          /\ t.graphics = x.st.graphics /\ t.observed = x.st.observed
          /\ t.suppressed = x.st.suppressed
          /\ t.inflight = Completes(x.st, IF event.value THEN "BIND_VM_CONSOLE" ELSE "BIND_MONITOR")
        BY Fields DEF NoteCurrent, Completes, StateType, Consoles
    <2>4. /\ l.line = FALSE /\ l.request = x.p.request /\ l.due = x.p.due /\ l.text = x.p.text
        BY Fields DEF PromptType
    <2> HIDE DEF t, l, r
    <2>5. /\ r.p = l /\ r.st = t /\ r.ui = x.ui /\ r.m = x.m /\ r.fifo = x.fifo
          /\ r.reading = x.reading
        BY <2>2 DEF StepType
    <2>6. x.st.inflight = Completion(event) => t.inflight = "NONE"
        BY <2>1, <2>3 DEF Completes
    <2>7. CompletionTaken(x, r, event)
        BY <1>1, <2>1, <2>3, <2>4, <2>5, <2>6 DEF CompletionTaken
    <2>. QED
        BY <2>7 DEF r
<1>2. CASE event.kind = "COMPONENT"
    <2>1. /\ event.value.surface \in {"window", "console"} /\ event.value.exists \in BOOLEAN
          /\ Completion(event) =
                IF event.value.surface = "window"
                THEN IF event.value.exists THEN "CREATE_WINDOW" ELSE "DESTROY_WINDOW"
                ELSE IF event.value.exists THEN "CREATE_VM_CONSOLE" ELSE "DESTROY_VM_CONSOLE"
        BY <1>2, Completions
    <2>2. PICK b \in BOOLEAN : b = event.value.exists
        BY <2>1
    <2>3. CASE event.value.surface = "window"
        <3> DEFINE t == NoteWindow(x.st, b)
        <3>1. r = [x EXCEPT !.st = t]
            BY <1>2, <2>2, <2>3 DEF NoteEvent
        <3>2. /\ t.console = x.st.console /\ t.current = x.st.current
              /\ t.runtime = x.st.runtime /\ t.monitor = x.st.monitor /\ t.frame = x.st.frame
              /\ t.graphics = x.st.graphics /\ t.observed = x.st.observed
              /\ t.suppressed = x.st.suppressed
              /\ t.inflight = Completes(x.st, IF b THEN "CREATE_WINDOW" ELSE "DESTROY_WINDOW")
            BY Fields DEF NoteWindow, Completes, StateType
        <3> HIDE DEF t, r
        <3>3. /\ r.p = x.p /\ r.st = t /\ r.ui = x.ui /\ r.m = x.m /\ r.fifo = x.fifo
              /\ r.reading = x.reading
            BY <3>1 DEF StepType
        <3>4. x.st.inflight = Completion(event) => t.inflight = "NONE"
            BY <2>1, <2>2, <2>3, <3>2 DEF Completes
        <3>5. Completion(event) \in {"CREATE_WINDOW", "DESTROY_WINDOW"}
            BY <2>1, <2>3
        <3>6. CompletionTaken(x, r, event)
            BY <1>2, <3>2, <3>3, <3>4, <3>5 DEF CompletionTaken
        <3>. QED
            BY <3>6 DEF r
    <2>4. CASE event.value.surface = "console"
        <3> DEFINE t == NoteConsole(x.st, b)
        <3>1. r = [x EXCEPT !.st = t]
            BY <1>2, <2>2, <2>4 DEF NoteEvent
        <3>2. /\ t.console = b /\ t.current = x.st.current
              /\ t.runtime = x.st.runtime /\ t.monitor = x.st.monitor /\ t.frame = x.st.frame
              /\ t.graphics = x.st.graphics /\ t.observed = x.st.observed
              /\ t.suppressed = x.st.suppressed
              /\ t.inflight = Completes(x.st, IF b THEN "CREATE_VM_CONSOLE"
                                              ELSE "DESTROY_VM_CONSOLE")
            BY Fields DEF NoteConsole, Completes, StateType
        <3> HIDE DEF t, r
        <3>3. /\ r.p = x.p /\ r.st = t /\ r.ui = x.ui /\ r.m = x.m /\ r.fifo = x.fifo
              /\ r.reading = x.reading
            BY <3>1 DEF StepType
        <3>4. x.st.inflight = Completion(event) => t.inflight = "NONE"
            BY <2>1, <2>2, <2>4, <3>2 DEF Completes
        <3>5. /\ Completion(event) \in {"CREATE_VM_CONSOLE", "DESTROY_VM_CONSOLE"}
              /\ Completion(event) = "CREATE_VM_CONSOLE" <=> b
            BY <2>1, <2>2, <2>4
        <3>6. r.st.console <=> Completion(event) = "CREATE_VM_CONSOLE"
            BY <3>2, <3>3, <3>5
        <3>7. CompletionTaken(x, r, event)
            BY <1>2, <3>2, <3>3, <3>4, <3>5, <3>6 DEF CompletionTaken
        <3>. QED
            BY <3>7 DEF r
    <2>. QED
        BY <2>1, <2>3, <2>4
<1>. QED
    BY <1>1, <1>2

-----------------------------------------------------------------------------
\* Where a request is.

\* What a queue q says of the reports of a run, the queue z says too.
Carries(q, z, run) ==
    /\ NoReport(q, run) => NoReport(z, run)
    /\ \A v : OneReport(q, run, v) => OneReport(z, run, v)
    /\ \A v, u : TwoReports(q, run, v, u) => TwoReports(z, run, v, u)
    /\ Before(Reports(q, run), Lines(q)) => Before(Reports(z, run), Lines(z))

LEMMA CarriesTail ==
    ASSUME NEW q \in Seq(EventType), q # <<>>, NEW run \in Nat,
           ~(Head(q).kind = "RUNTIME" /\ Head(q).run \in {0, run})
    PROVE  Carries(q, Tail(q), run)
BY ReportsTail, QueueTail DEF Carries

LEMMA CarriesAppend ==
    ASSUME NEW q \in Seq(EventType), NEW e \in EventType, NEW run \in Nat, e.kind # "RUNTIME"
    PROVE  Carries(q, Append(q, e), run)
BY ReportsAppend, QueueAppend DEF Carries

\* Nothing but the request, the machine, the monitor state and the reports matters.
LEMMA PhasedCarries ==
    ASSUME NEW x, NEW y, Phased(x), y.p.request = x.p.request, y.m.job = x.m.job,
           y.m.state = x.m.state, y.m.run = x.m.run, y.st.monitor = x.st.monitor,
           Carries(x.fifo, y.fifo, x.m.run)
    PROVE  Phased(y)
<1>1. CASE Idle(x)
    BY <1>1 DEF Idle, Phased, Carries
<1>2. CASE Serving(x)
    BY <1>2 DEF Serving, Phased, Carries
<1>3. CASE Served(x)
    BY <1>3 DEF Served, Phased, Carries
<1>4. CASE Unasked(x)
    BY <1>4 DEF Unasked, Phased, Carries
<1>. QED
    BY <1>1, <1>2, <1>3, <1>4 DEF Phased

\* A report at the head of the queue is what the machine last reached, or the first of two;
\* it is announced, unless nobody asked for it.
LEMMA ReportPhases ==
    ASSUME NEW n \in StepType, n.fifo # <<>>, NEW e, e = Head(n.fifo),
           e.kind = "RUNTIME", e.run \in {0, n.m.run}, Phased(n)
    PROVE  /\ n.m.job = "NONE"
           /\ \/ n.m.state = StateOf(e.value) /\ NoReport(Tail(n.fifo), n.m.run)
              \/ /\ e.value = "RUNNING" /\ n.m.state = "ERROR"
                 /\ OneReport(Tail(n.fifo), n.m.run, "ERROR")
           /\ \/ Announced(n, e)
              \/ /\ n.p.request = "NONE" /\ n.st.monitor \in {"INIT", "STOPPED"}
                 /\ e.value \in {"STOPPED", "PAUSED"}
<1> DEFINE q == n.fifo
           run == n.m.run
<1>1. q \in Seq(EventType) /\ run \in Nat
    BY DEF StepType, MachineType
<1>2. /\ ~NoReport(q, run)
      /\ \A v : OneReport(q, run, v) => e.value = v /\ NoReport(Tail(q), run)
      /\ \A v, u : TwoReports(q, run, v, u) => e.value = v /\ OneReport(Tail(q), run, u)
    BY <1>1, ReportsTail
<1>3. n.p.request \in Requests \cup {"NONE"}
    BY DEF StepType, PromptType
<1> HIDE DEF q, run
<1>4. CASE Served(n)
    <2>1. n.m.job = "NONE" /\ n.p.request \in Requests /\ Asked(n.p.request, n.st.monitor)
        BY <1>3, <1>4 DEF Served
    <2>2. CASE n.m.state = StateOf(ResultOf(n.p.request)) /\ OneReport(q, run, ResultOf(n.p.request))
        <3>1. e.value = ResultOf(n.p.request) /\ NoReport(Tail(q), run)
            BY <1>2, <2>2
        <3>2. Announced(n, e)
            BY <2>1, <3>1 DEF Announced, Announces, ResultOf, Asked, Requests
        <3>. QED
            BY <2>1, <2>2, <3>1, <3>2 DEF q, run
    <2>3. CASE n.m.state = "ERROR" /\ OneReport(q, run, "ERROR")
        <3>1. e.value = "ERROR" /\ NoReport(Tail(q), run)
            BY <1>2, <2>3
        <3>. QED
            BY <2>1, <2>3, <3>1 DEF Announced, Announces, StateOf, q, run
    <2>4. CASE /\ n.m.state = "ERROR" /\ n.p.request \in {"START", "RESUME"}
               /\ TwoReports(q, run, "RUNNING", "ERROR")
        <3>1. e.value = "RUNNING" /\ OneReport(Tail(q), run, "ERROR")
            BY <1>2, <2>4
        <3>2. Announced(n, e)
            BY <2>1, <2>4, <3>1 DEF Announced, Announces, Asked
        <3>. QED
            BY <2>1, <2>4, <3>1, <3>2 DEF q, run
    <2>. QED
        BY <1>4, <2>2, <2>3, <2>4 DEF Served, q, run
<1>5. CASE Unasked(n)
    <2>1. n.p.request = "NONE" /\ n.m.job = "NONE"
        BY <1>5 DEF Unasked
    <2>2. CASE n.m.state = "ERROR" /\ OneReport(q, run, "ERROR")
        <3>1. e.value = "ERROR" /\ NoReport(Tail(q), run)
            BY <1>2, <2>2
        <3>. QED
            BY <2>1, <2>2, <3>1 DEF Announced, Announces, StateOf, q, run
    <2>3. CASE n.st.monitor = "INIT" /\ n.m.state = "STOPPED" /\ OneReport(q, run, "STOPPED")
        <3>1. e.value = "STOPPED" /\ NoReport(Tail(q), run)
            BY <1>2, <2>3
        <3>. QED
            BY <2>1, <2>3, <3>1 DEF StateOf, q, run
    <2>4. CASE n.st.monitor = "STOPPED" /\ n.m.state = "PAUSED" /\ OneReport(q, run, "PAUSED")
        <3>1. e.value = "PAUSED" /\ NoReport(Tail(q), run)
            BY <1>2, <2>4
        <3>. QED
            BY <2>1, <2>4, <3>1 DEF StateOf, q, run
    <2>. QED
        BY <1>5, <2>2, <2>3, <2>4 DEF Unasked, q, run
<1>6. ~Idle(n) /\ ~Serving(n)
    BY <1>2 DEF Idle, Serving, q, run
<1>. QED
    BY <1>4, <1>5, <1>6 DEF Phased

\* A request the machine accepts is served.
LEMMA DispatchPhases ==
    ASSUME NEW x \in StepType, NEW r, NEW q \in Requests, Dispatched(x, r, q),
           r.fifo = x.fifo, r.st.monitor = x.st.monitor,
           q = "STOP" => x.st.monitor \in {"RUNNING", "PAUSED"},
           \A i \in DOMAIN x.fifo : x.fifo[i].run <= x.m.run,
           \/ x.st.monitor = x.m.state /\ NoReport(x.fifo, x.m.run)
           \/ x.m.state = "ERROR"
    PROVE  Serving(r) /\ NoReport(r.fifo, r.m.run) /\ NoReport(x.fifo, x.m.run)
           /\ (r.m.run = x.m.run \/ r.m.run = x.m.run + 1) /\ r.m.seq = x.m.seq
           /\ r.m.state = (IF x.m.state = "STOPPED" THEN "STARTING" ELSE x.m.state)
           /\ (r.m = [x.m EXCEPT !.job = q] \/ (r.m.pubrun = 0 /\ r.m.run = x.m.run + 1))
<1>1. x.m \in MachineType /\ x.m.run \in Nat /\ x.fifo \in Seq(EventType)
      /\ x.m.state \in Runtimes \cup {"STARTING"} /\ x.st.monitor \in Runtimes \cup {"INIT"}
    BY DEF StepType, MachineType, StateType
<1>2. x.m.state # "ERROR"
    BY DEF Dispatched, Refused, Requests
<1>3. x.st.monitor = x.m.state /\ NoReport(x.fifo, x.m.run) /\ ~Refused(q, x.m.state)
    BY <1>2 DEF Dispatched
<1>4. NoReport(x.fifo, x.m.run + 1)
    BY <1>1, <1>3, ReportsOfNewRun
<1> DEFINE b == x.m.state = "STOPPED" /\ q \in {"START", "RESET"}
           n == IF b THEN BeginRun(x.m) ELSE x.m
<1>5. r.m = [n EXCEPT !.job = q] /\ r.p.request = q
    BY DEF Dispatched
<1>6. n \in MachineType
    BY <1>1, BeginRunType
<1>7. b => n.state = "STARTING" /\ n.run = x.m.run + 1 /\ n.pubrun = 0 /\ n.seq = x.m.seq
    BY <1>1 DEF BeginRun, MachineType
<1>8. ~b => n = x.m
    OBVIOUS
<1>9. b <=> x.m.state = "STOPPED" /\ q \in {"START", "RESET"}
    OBVIOUS
<1> HIDE DEF b, n
<1>10. r.m.job = q /\ r.m.state = n.state /\ r.m.run = n.run /\ r.m.pubrun = n.pubrun
       /\ r.m.seq = n.seq
    BY <1>5, <1>6 DEF MachineType
<1>11. NoReport(r.fifo, r.m.run)
    BY <1>3, <1>4, <1>7, <1>8, <1>10
<1>12. Asked(q, x.st.monitor) /\ Serves(q, r.m.state)
       /\ r.m.state = (IF x.m.state = "STOPPED" THEN "STARTING" ELSE x.m.state)
    <2>1. r.m.state = IF b THEN "STARTING" ELSE x.m.state
        BY <1>7, <1>8, <1>10
    <2>2. CASE q = "START"
        BY <1>3, <1>9, <2>1, <2>2 DEF Refused, Asked, Serves
    <2>3. CASE q = "PAUSE"
        BY <1>3, <1>9, <2>1, <2>3 DEF Refused, Asked, Serves
    <2>4. CASE q = "RESUME"
        BY <1>3, <1>9, <2>1, <2>4 DEF Refused, Asked, Serves
    <2>5. CASE q = "RESET"
        BY <1>3, <1>9, <2>1, <2>5 DEF Refused, Asked, Serves
    <2>6. CASE q = "STOP"
        BY <1>3, <1>9, <2>1, <2>6 DEF Refused, Asked, Serves
    <2>. QED
        BY <2>2, <2>3, <2>4, <2>5, <2>6 DEF Requests
<1>13. q # "NONE"
    BY DEF Requests
<1>14. Serving(r)
    BY <1>5, <1>10, <1>11, <1>12, <1>13 DEF Serving
<1>15. r.m = [x.m EXCEPT !.job = q] \/ (r.m.pubrun = 0 /\ r.m.run = x.m.run + 1)
    <2>1. CASE b
        BY <1>7, <1>10, <2>1
    <2>2. CASE ~b
        BY <1>5, <1>8, <2>2
    <2>. QED
        BY <2>1, <2>2
<1>16. (r.m.run = x.m.run \/ r.m.run = x.m.run + 1) /\ r.m.seq = x.m.seq
    BY <1>7, <1>8, <1>10
<1>. QED
    BY <1>3, <1>11, <1>12, <1>14, <1>15, <1>16

-----------------------------------------------------------------------------
\* A turn of the session loop that handles an event and does not end the session.

\* From n the event e is taken (x), reduced (r), the session drives (s) and ends at y.
Reduced(x, r, e) ==
    /\ e.kind = "LINE" => LineTaken(x, r, e.value)
    /\ e.kind = "KVM" => InputTaken(x, r) /\ x.st.monitor \in {"RUNNING", "PAUSED"}
    /\ e.kind = "RUNTIME" => ReportTaken(x, r, e)
    /\ e.kind = "FRAME" => r = x
    /\ e.kind \in {"COMPONENT", "BROKER"} => CompletionTaken(x, r, e)

Turn(n, x, r, s, y, e) ==
    /\ n \in StepType /\ x \in StepType /\ r \in StepType /\ y \in StepType /\ e \in EventType
    /\ n.fifo # <<>> /\ e = Head(n.fifo) /\ e.run \in {0, n.m.run}
    /\ x.st = n.st /\ x.p = n.p /\ x.ui = n.ui /\ x.reading = n.reading /\ x.m = n.m
    /\ x.fifo = Tail(n.fifo)
    /\ Sound(n.st, n.ui, n.fifo) /\ Planned(n.st)
    /\ Reduced(x, r, e) /\ Known(r.st, r.ui) /\ Drive(r, s, y, e)
    /\ Sound(y.st, y.ui, y.fifo) /\ Planned(y.st)

\* The machine is left alone but for its request, or begins a run no report is of.
MachineKept(n, r) ==
    /\ r.m.seq = n.m.seq
    /\ \/ /\ r.m.run = n.m.run /\ r.m.pubrun = n.m.pubrun /\ r.m.graphics = n.m.graphics
          /\ r.m.state = n.m.state
       \/ /\ r.m.run = n.m.run + 1 /\ r.m.pubrun = 0
          /\ NoReport(Tail(n.fifo), n.m.run) /\ NoReport(Tail(n.fifo), r.m.run)

\* The phase after the event is reduced.
LEMMA ReducedPhase ==
    ASSUME NEW n, NEW x, NEW r, NEW s, NEW y, NEW e, Turn(n, x, r, s, y, e),
           Ranges(n), Phased(n), Lined(n)
    PROVE  Phased(r) /\ MachineKept(n, r)
<1>1. /\ n \in StepType /\ x \in StepType /\ r \in StepType /\ e \in EventType
      /\ n.fifo # <<>> /\ e = Head(n.fifo) /\ e.run \in {0, n.m.run}
      /\ x.st = n.st /\ x.p = n.p /\ x.m = n.m /\ x.fifo = Tail(n.fifo)
      /\ Reduced(x, r, e)
    BY DEF Turn
<1>2. /\ n.fifo \in Seq(EventType) /\ n.m.run \in Nat /\ n.m \in MachineType
      /\ x.fifo \in Seq(EventType)
    BY <1>1 DEF StepType, MachineType
<1>3. e.kind # "RUNTIME" => Carries(n.fifo, x.fifo, n.m.run)
    BY <1>1, <1>2, CarriesTail
<1>4. e.kind # "RUNTIME" => Phased(x)
    BY <1>1, <1>3, PhasedCarries
<1>5. \A q \in Seq(EventType) : Carries(q, q, n.m.run)
    BY DEF Carries
<1>6. ASSUME r.p.request = x.p.request, r.m = x.m, r.st.monitor = x.st.monitor, r.fifo = x.fifo,
             e.kind # "RUNTIME"
      PROVE  Phased(r) /\ MachineKept(n, r)
    <2>1. Phased(r)
        BY <1>1, <1>2, <1>4, <1>5, <1>6, PhasedCarries
    <2>. QED
        BY <1>1, <1>6, <2>1 DEF MachineKept
<1>7. \A i \in DOMAIN x.fifo : x.fifo[i].run <= x.m.run
    BY <1>1, <1>2, QueueTail DEF Ranges
<1>8. ASSUME NEW q \in Requests, Dispatched(x, r, q), r.fifo = x.fifo,
             r.st.monitor = x.st.monitor, e.kind # "RUNTIME",
             q = "STOP" => x.st.monitor \in {"RUNNING", "PAUSED"},
             x.st.monitor \in {"RUNNING", "PAUSED"} \/ e.kind = "LINE"
      PROVE  Phased(r) /\ MachineKept(n, r)
    <2>1. x.p.request = "NONE"
        BY <1>8 DEF Dispatched
    <2>2. Idle(x) \/ Unasked(x)
        BY <1>4, <1>8, <2>1 DEF Phased, Serving, Served
    <2>3. \/ x.st.monitor = x.m.state /\ NoReport(x.fifo, x.m.run)
          \/ x.m.state = "ERROR"
        <3>1. CASE Idle(x)
            BY <3>1 DEF Idle
        <3>2. CASE Unasked(x) /\ x.m.state # "ERROR"
            <4>1. x.st.monitor \in {"INIT", "STOPPED"}
                BY <3>2 DEF Unasked
            <4>2. e.kind = "LINE"
                BY <1>8, <4>1
            <4>3. Idle(n) \/ Serving(n) \/ Served(n) \/ Unasked(n)
                BY DEF Phased
            <4>4. n.p.request = "NONE" /\ n.m.state # "ERROR"
                  /\ n.st.monitor \in {"INIT", "STOPPED"}
                BY <1>1, <2>1, <3>2, <4>1
            <4>5. CASE Unasked(n)
                <5>1. /\ Before(Reports(n.fifo, n.m.run), Lines(n.fifo))
                      /\ \E v : OneReport(n.fifo, n.m.run, v)
                    BY <4>4, <4>5 DEF Unasked
                <5>2. NoReport(n.fifo, n.m.run)
                    BY <1>1, <1>2, <4>2, <5>1, QueueTail
                <5>. QED
                    BY <5>1, <5>2 DEF OneReport, NoReport
            <4>6. CASE Idle(n)
                <5>1. n.m.state = n.st.monitor /\ NoReport(n.fifo, n.m.run)
                    BY <4>6 DEF Idle
                <5>2. NoReport(x.fifo, n.m.run)
                    BY <1>3, <1>8, <5>1 DEF Carries
                <5>. QED
                    BY <1>1, <5>1, <5>2
            <4>. QED
                BY <4>3, <4>4, <4>5, <4>6 DEF Serving, Served
        <3>. QED
            BY <2>2, <3>1, <3>2
    <2>4. /\ Serving(r) /\ NoReport(r.fifo, r.m.run) /\ NoReport(x.fifo, x.m.run)
          /\ r.m.seq = x.m.seq
          /\ (r.m = [x.m EXCEPT !.job = q] \/ (r.m.pubrun = 0 /\ r.m.run = x.m.run + 1))
        BY <1>1, <1>7, <1>8, <2>3, DispatchPhases
    <2>5. r.m = [x.m EXCEPT !.job = q] =>
             /\ r.m.run = x.m.run /\ r.m.pubrun = x.m.pubrun
             /\ r.m.graphics = x.m.graphics /\ r.m.state = x.m.state
        BY <1>1, <1>2 DEF MachineType
    <2>6. MachineKept(n, r)
        BY <1>1, <1>8, <2>4, <2>5 DEF MachineKept
    <2>. QED
        BY <2>4, <2>6 DEF Phased
<1>9. CASE e.kind = "FRAME"
    <2>1. r = x
        BY <1>1, <1>9 DEF Reduced
    <2>. QED
        BY <1>6, <1>9, <2>1
<1>10. CASE e.kind \in {"COMPONENT", "BROKER"}
    BY <1>1, <1>6, <1>10 DEF Reduced, CompletionTaken
<1>11. CASE e.kind = "KVM"
    <2>1. InputTaken(x, r) /\ x.st.monitor \in {"RUNNING", "PAUSED"}
        BY <1>1, <1>11 DEF Reduced
    <2>2. r.st.monitor = x.st.monitor /\ r.fifo = x.fifo
        BY <1>1, <2>1 DEF InputTaken, StepType, StateType
    <2>3. CASE r.m = x.m /\ r.p.request = x.p.request
        BY <1>6, <1>11, <2>2, <2>3
    <2>4. CASE \E request \in {"PAUSE", "RESUME"} : Dispatched(x, r, request)
        BY <1>8, <1>11, <2>1, <2>2, <2>4 DEF Requests
    <2>. QED
        BY <2>1, <2>3, <2>4 DEF InputTaken
<1>12. CASE e.kind = "LINE"
    <2>1. LineTaken(x, r, e.value)
        BY <1>1, <1>12 DEF Reduced
    <2>2. r.st.monitor = x.st.monitor
        BY <2>1 DEF LineTaken
    <2>3. CASE r.m = x.m /\ r.fifo = x.fifo /\ r.p.request = x.p.request
        BY <1>6, <1>12, <2>2, <2>3
    <2>4. CASE Loads(x, r)
        <3>1. /\ x.st.monitor = "STOPPED" /\ x.m.state = "STOPPED" /\ x.m.job = "NONE"
              /\ r.p.request = x.p.request /\ r.m = [BeginRun(x.m) EXCEPT !.state = "PAUSED"]
              /\ r.fifo = Append(x.fifo, Event("RUNTIME", r.m.run, "PAUSED"))
            BY <2>4 DEF Loads
        <3>2. x.p.request = "NONE" /\ NoReport(x.fifo, n.m.run)
            <4>1. ~Serving(x)
                BY <3>1 DEF Serving
            <4>2. ~Served(x)
                <5>1. x.p.request \in Requests \cup {"NONE"}
                    BY <1>1 DEF StepType, PromptType
                <5>. QED
                    BY <3>1, <5>1 DEF Served, Asked, StateOf, ResultOf, Requests
            <4>3. ~Unasked(x)
                BY <3>1 DEF Unasked
            <4>4. Idle(x)
                BY <1>4, <1>12, <4>1, <4>2, <4>3 DEF Phased
            <4>. QED
                BY <1>1, <4>4 DEF Idle
        <3>3. /\ r.m.run = n.m.run + 1 /\ r.m.state = "PAUSED" /\ r.m.job = "NONE"
              /\ r.m.pubrun = 0 /\ r.m.seq = n.m.seq
            BY <1>1, <1>2, <3>1 DEF BeginRun, MachineType
        <3>4. NoReport(x.fifo, r.m.run) /\ r.m.run \in Nat
            <4>1. \A i \in DOMAIN x.fifo : x.fifo[i].run <= n.m.run
                BY <1>1, <1>7
            <4>2. NoReport(x.fifo, n.m.run + 1)
                BY <1>2, <3>2, <4>1, ReportsOfNewRun
            <4>. QED
                BY <1>2, <3>3, <4>2
        <3> DEFINE c == Event("RUNTIME", r.m.run, "PAUSED")
        <3>5. c \in EventType /\ c.kind = "RUNTIME" /\ c.run = r.m.run /\ c.value = "PAUSED"
            BY <3>4 DEF Event, EventType, Facts, Runtimes
        <3>6. r.fifo = Append(x.fifo, c)
            BY <3>1
        <3> HIDE DEF c
        <3>7. OneReport(r.fifo, r.m.run, "PAUSED")
            BY <1>2, <3>4, <3>5, <3>6, ReportsAppend
        <3>8. Lines(x.fifo) = {}
            BY <1>1, <1>2, <1>12, QueueTail DEF Lined
        <3>9. Before(Reports(r.fifo, r.m.run), Lines(r.fifo))
            BY <1>2, <3>4, <3>5, <3>6, <3>8, QueueAppend
        <3>10. Unasked(r)
            BY <2>2, <3>1, <3>2, <3>3, <3>7, <3>9 DEF Unasked
        <3>. QED
            BY <1>1, <3>2, <3>3, <3>4, <3>10 DEF Phased, MachineKept
    <2>5. CASE /\ r.fifo = x.fifo
               /\ \E request \in Requests :
                     RequestOf(e.value, x.st.monitor) = request /\ Dispatched(x, r, request)
        <3>1. PICK q \in Requests :
                  RequestOf(e.value, x.st.monitor) = q /\ Dispatched(x, r, q)
            BY <2>5
        <3>2. q = "STOP" => x.st.monitor \in {"RUNNING", "PAUSED"}
            BY <3>1 DEF RequestOf
        <3>. QED
            BY <1>8, <1>12, <2>2, <2>5, <3>1, <3>2
    <2>. QED
        BY <2>1, <2>3, <2>4, <2>5 DEF LineTaken
<1>13. CASE e.kind = "RUNTIME"
    <2>1. /\ r.m = x.m /\ r.fifo = x.fifo /\ r.p.request = "NONE"
          /\ r.st.monitor = StateOf(e.value)
        BY <1>1, <1>13 DEF Reduced, ReportTaken
    <2>2. /\ n.m.job = "NONE"
          /\ \/ n.m.state = StateOf(e.value) /\ NoReport(x.fifo, n.m.run)
             \/ /\ e.value = "RUNNING" /\ n.m.state = "ERROR"
                /\ OneReport(x.fifo, n.m.run, "ERROR")
        BY <1>1, <1>13, ReportPhases
    <2>3. CASE n.m.state = StateOf(e.value) /\ NoReport(x.fifo, n.m.run)
        BY <1>1, <2>1, <2>2, <2>3 DEF Phased, Idle, MachineKept
    <2>4. CASE /\ e.value = "RUNNING" /\ n.m.state = "ERROR"
               /\ OneReport(x.fifo, n.m.run, "ERROR")
        BY <1>1, <2>1, <2>2, <2>4 DEF Phased, Unasked, MachineKept, StateOf
    <2>. QED
        BY <2>2, <2>3, <2>4
<1>. QED
    BY <1>1, <1>9, <1>10, <1>11, <1>12, <1>13, EventFields

\* The end of a turn, in terms of the reduced event and the drive.
LEMMA TurnEnd ==
    ASSUME NEW n, NEW x, NEW r, NEW s, NEW y, NEW e, Turn(n, x, r, s, y, e)
    PROVE  /\ y.st = s.st /\ y.ui = s.ui /\ y.m = s.m /\ y.fifo = s.fifo /\ y.m = r.m
           /\ y.p.request = s.p.request /\ s.p.request = r.p.request
           /\ s \in StepType /\ r.fifo \in Seq(EventType) /\ y.m.run \in Nat
           /\ y.st.monitor = r.st.monitor /\ y.st.runtime = r.st.runtime
           /\ y.st.window = r.st.window /\ y.st.console = r.st.console
           /\ y.st.current = r.st.current /\ y.st.suppressed = r.st.suppressed
           /\ \/ Waits(r, s) /\ y.fifo = r.fifo
              \/ /\ Moves(r, s)
                 /\ \E c \in EventType :
                       /\ y.fifo = Append(r.fifo, c) /\ c.run = r.m.run
                       /\ c.kind \in {"COMPONENT", "BROKER"}
                       /\ c.kind = "BROKER" <=>
                             y.st.inflight \in {"BIND_VM_CONSOLE", "BIND_MONITOR"}
<1>1. Drive(r, s, y, e) /\ r \in StepType /\ y \in StepType
    BY DEF Turn
<1>2. /\ y.st = s.st /\ y.ui = s.ui /\ y.m = s.m /\ y.fifo = s.fifo
      /\ y.p.request = s.p.request
    BY <1>1 DEF Drive, Offered, Elsewhere
<1>3. s.m = r.m /\ s.p.request = r.p.request /\ s \in StepType
    BY <1>1 DEF Drive, Noted, Dues
<1>4. /\ s.st.monitor = r.st.monitor /\ s.st.runtime = r.st.runtime
      /\ s.st.window = r.st.window /\ s.st.console = r.st.console
      /\ s.st.current = r.st.current /\ s.st.suppressed = r.st.suppressed
    BY <1>1 DEF Drive, Noted
<1>5. r.fifo \in Seq(EventType) /\ y.m.run \in Nat
    BY <1>1 DEF StepType, MachineType
<1>6. Waits(r, s) => y.fifo = r.fifo
    BY <1>2 DEF Waits
<1>7. ASSUME Moves(r, s)
      PROVE  \E c \in EventType :
                /\ y.fifo = Append(r.fifo, c) /\ c.run = r.m.run
                /\ c.kind \in {"COMPONENT", "BROKER"}
                /\ c.kind = "BROKER" <=> y.st.inflight \in {"BIND_VM_CONSOLE", "BIND_MONITOR"}
    <2>1. PICK c \in EventType :
              s.fifo = Append(r.fifo, c) /\ Completion(c) = s.st.inflight /\ c.run = r.m.run
        BY <1>7 DEF Moves
    <2>2. s.st.inflight \in Actions
        BY <1>7 DEF Moves
    <2>3. c.kind \in {"COMPONENT", "BROKER"}
        BY <2>1, <2>2, Completions DEF Actions
    <2>4. c.kind = "BROKER" => s.st.inflight \in {"BIND_VM_CONSOLE", "BIND_MONITOR"}
        BY <2>1, Completions
    <2>5. c.kind = "COMPONENT" => s.st.inflight \notin {"BIND_VM_CONSOLE", "BIND_MONITOR"}
        BY <2>1, Completions
    <2>. QED
        BY <1>2, <2>1, <2>3, <2>4, <2>5
<1>8. Waits(r, s) \/ Moves(r, s)
    BY <1>1 DEF Drive
<1>. QED
    BY <1>2, <1>3, <1>4, <1>5, <1>6, <1>7, <1>8

\* The phase at the end of a turn.
LEMMA TurnPhased ==
    ASSUME NEW n, NEW x, NEW r, NEW s, NEW y, NEW e, Turn(n, x, r, s, y, e),
           Ranges(n), Phased(n), Lined(n)
    PROVE  Phased(y)
<1>1. Phased(r)
    BY ReducedPhase
<1>2. r.fifo \in Seq(EventType) /\ r.m.run \in Nat /\ y.m = r.m /\ y.p.request = r.p.request
      /\ y.st.monitor = r.st.monitor
    BY TurnEnd
<1>3. Carries(r.fifo, y.fifo, r.m.run)
    <2>1. CASE y.fifo = r.fifo
        BY <2>1 DEF Carries
    <2>2. CASE \E c \in EventType :
                  y.fifo = Append(r.fifo, c) /\ c.kind \in {"COMPONENT", "BROKER"}
        BY <1>2, <2>2, CarriesAppend
    <2>. QED
        BY <2>1, <2>2, TurnEnd
<1>. QED
    BY <1>1, <1>2, <1>3, PhasedCarries

\* No event is of a run that has not begun.
LEMMA TurnRanges ==
    ASSUME NEW n, NEW x, NEW r, NEW s, NEW y, NEW e, Turn(n, x, r, s, y, e),
           Ranges(n), Phased(n), Lined(n)
    PROVE  Ranges(y)
<1>1. MachineKept(n, r)
    BY ReducedPhase
<1>2. /\ n \in StepType /\ x \in StepType /\ r \in StepType /\ y \in StepType /\ e \in EventType
      /\ n.fifo # <<>> /\ x.st = n.st /\ x.m = n.m /\ x.fifo = Tail(n.fifo)
      /\ Reduced(x, r, e) /\ Drive(r, s, y, e)
    BY DEF Turn
<1>3. /\ n.m.run \in Nat /\ r.m.run \in Nat /\ n.m.seq \in Nat /\ n.st.observed \in Nat
      /\ n.fifo \in Seq(EventType) /\ x.fifo \in Seq(EventType) /\ r.fifo \in Seq(EventType)
    BY <1>2 DEF StepType, MachineType, StateType
<1>4. n.m.run <= r.m.run /\ r.m.seq = n.m.seq
    BY <1>1, <1>3 DEF MachineKept
<1>5. y.m = r.m /\ y.ui.run = r.m.run
    BY <1>2, TurnEnd DEF Drive, Noted
<1>6. y.ui.run <= y.m.run
    BY <1>3, <1>5
<1>7. r.st.observed = n.st.observed
    <2>1. e.kind = "LINE" => r.st = x.st
        BY <1>2 DEF Reduced, LineTaken
    <2>2. e.kind = "KVM" => r.st.observed = x.st.observed
        BY <1>2 DEF Reduced, InputTaken, StepType, StateType
    <2>3. e.kind \in {"RUNTIME", "COMPONENT", "BROKER", "FRAME"} => r.st.observed = x.st.observed
        BY <1>2 DEF Reduced, ReportTaken, CompletionTaken
    <2>. QED
        BY <1>2, <2>1, <2>2, <2>3, EventFields
<1>8. y.st.observed <= y.m.seq
    <2>1. y.st.observed = r.m.seq \/ y.st.observed = r.st.observed
        BY <1>2, TurnEnd DEF Drive, Noted
    <2>. QED
        BY <1>3, <1>4, <1>5, <1>7, <2>1 DEF Ranges
<1>9. \A i \in DOMAIN x.fifo : x.fifo[i].run <= r.m.run
    <2>1. \A i \in DOMAIN x.fifo : x.fifo[i].run <= n.m.run
        BY <1>2, <1>3, QueueTail DEF Ranges
    <2>2. \A i \in DOMAIN x.fifo : x.fifo[i].run \in Nat
        <3>1. \A i \in DOMAIN x.fifo : x.fifo[i] \in EventType
            BY <1>3, LenProperties
        <3>. QED
            BY <3>1, EventFields
    <2>. QED
        BY <1>3, <1>4, <2>1, <2>2
<1>10. \A i \in DOMAIN r.fifo : r.fifo[i].run <= r.m.run
    <2>1. CASE r.fifo = x.fifo
        BY <1>9, <2>1
    <2>2. CASE Loads(x, r)
        <3> DEFINE c == Event("RUNTIME", r.m.run, "PAUSED")
        <3>1. c \in EventType /\ c.run = r.m.run
            BY <1>3 DEF Event, EventType, Facts, Runtimes
        <3>2. r.fifo = Append(x.fifo, c)
            BY <2>2 DEF Loads
        <3> HIDE DEF c
        <3>3. c.run <= r.m.run
            BY <1>3, <3>1
        <3>. QED
            BY <1>3, <1>9, <3>1, <3>2, <3>3, QueueAppend
    <2>3. r.fifo = x.fifo \/ Loads(x, r)
        BY <1>2, EventFields DEF Reduced, LineTaken, InputTaken, ReportTaken, CompletionTaken
    <2>. QED
        BY <2>1, <2>2, <2>3
<1>11. \A i \in DOMAIN y.fifo : y.fifo[i].run <= r.m.run
    <2>1. CASE y.fifo = r.fifo
        BY <1>10, <2>1
    <2>2. CASE \E c \in EventType : y.fifo = Append(r.fifo, c) /\ c.run = r.m.run
        <3>1. PICK c \in EventType : y.fifo = Append(r.fifo, c) /\ c.run = r.m.run
            BY <2>2
        <3>2. c.run <= r.m.run
            BY <1>3, <3>1
        <3>. QED
            BY <1>3, <1>10, <3>1, <3>2, QueueAppend
    <2>. QED
        BY <2>1, <2>2, TurnEnd
<1>. QED
    BY <1>5, <1>6, <1>8, <1>11 DEF Ranges

\* What the head of the queue leaves of the state.
LEMMA TurnHead ==
    ASSUME NEW n, NEW x, NEW r, NEW s, NEW y, NEW e, Turn(n, x, r, s, y, e),
           Ranges(n), Phased(n), Lined(n), Shaped(n)
    PROVE  /\ e.kind \in {"COMPONENT", "BROKER"} =>
                 n.st.inflight = Completion(e) /\ r.st.inflight = "NONE"
           /\ e.kind \notin {"COMPONENT", "BROKER"} =>
                 /\ r.st.inflight = n.st.inflight /\ r.st.current = n.st.current
                 /\ r.st.console = n.st.console /\ r.st.window = n.st.window
           /\ e.kind # "RUNTIME" =>
                 /\ r.st.monitor = n.st.monitor /\ r.st.runtime = n.st.runtime
                 /\ r.st.frame = n.st.frame /\ r.st.graphics = n.st.graphics
           /\ e.kind = "RUNTIME" /\ n.st.inflight \in {"BIND_VM_CONSOLE", "CREATE_WINDOW"} =>
                 /\ n.st.runtime = "RUNNING"
                 /\ e.value # "RUNNING" => NoReport(Tail(n.fifo), n.m.run)
           /\ r.st.frame => y.st.frame
           /\ y.st.frame /\ ~r.st.frame => Available(r) /\ y.st.graphics = r.m.graphics
<1>1. /\ n \in StepType /\ x \in StepType /\ r \in StepType /\ e \in EventType
      /\ n.fifo # <<>> /\ e = Head(n.fifo) /\ e.run \in {0, n.m.run}
      /\ x.st = n.st /\ x.m = n.m /\ x.fifo = Tail(n.fifo)
      /\ Reduced(x, r, e) /\ OnTheWay(n.fifo, n.st.inflight)
    BY DEF Turn, Sound
<1>2. /\ n.fifo \in Seq(EventType) /\ n.m.run \in Nat
      /\ n.st.inflight \in Actions \cup {"NONE"}
    BY <1>1 DEF StepType, MachineType, StateType
<1>3. ASSUME e.kind \in {"COMPONENT", "BROKER"}
      PROVE  n.st.inflight = Completion(e) /\ r.st.inflight = "NONE"
    <2>1. Completion(e) # "NONE"
        BY <1>1, <1>3, Completions DEF Actions
    <2>2. n.st.inflight = Completion(e)
        BY <1>1, <1>2, <2>1, OnTheWayTail
    <2>. QED
        BY <1>1, <1>3, <2>2 DEF Reduced, CompletionTaken
<1>4. ASSUME e.kind \notin {"COMPONENT", "BROKER"}
      PROVE  /\ r.st.inflight = n.st.inflight /\ r.st.current = n.st.current
             /\ r.st.console = n.st.console /\ r.st.window = n.st.window
    <2>1. e.kind = "LINE" => r.st = x.st
        BY <1>1 DEF Reduced, LineTaken
    <2>2. e.kind = "KVM" => /\ r.st.inflight = n.st.inflight /\ r.st.current = n.st.current
                            /\ r.st.console = n.st.console /\ r.st.window = n.st.window
        BY <1>1 DEF Reduced, InputTaken, StepType, StateType
    <2>. QED
        BY <1>1, <1>4, <2>1, <2>2, EventFields DEF Reduced, ReportTaken
<1>5. ASSUME e.kind # "RUNTIME"
      PROVE  /\ r.st.monitor = n.st.monitor /\ r.st.runtime = n.st.runtime
             /\ r.st.frame = n.st.frame /\ r.st.graphics = n.st.graphics
    <2>1. e.kind = "LINE" => r.st = x.st
        BY <1>1 DEF Reduced, LineTaken
    <2>2. e.kind = "KVM" => /\ r.st.monitor = n.st.monitor /\ r.st.runtime = n.st.runtime
                            /\ r.st.frame = n.st.frame /\ r.st.graphics = n.st.graphics
        BY <1>1 DEF Reduced, InputTaken, StepType, StateType
    <2>. QED
        BY <1>1, <1>5, <2>1, <2>2, EventFields DEF Reduced, CompletionTaken
<1>6. ASSUME e.kind = "RUNTIME", n.st.inflight \in {"BIND_VM_CONSOLE", "CREATE_WINDOW"}
      PROVE  /\ n.st.runtime = "RUNNING"
             /\ e.value # "RUNNING" => NoReport(Tail(n.fifo), n.m.run)
    <2>1. Completed(n.fifo) # {}
        BY <1>1, <1>2, <1>6, CompletionsOnTheWay
    <2>2. n.st.runtime = "RUNNING"
        <3>1. SUFFICES ASSUME n.st.runtime # "RUNNING"
                       PROVE  FALSE
            OBVIOUS
        <3>2. Before(Completed(n.fifo), Reports(n.fifo, n.m.run))
            BY <1>6, <3>1 DEF Shaped
        <3>. QED
            BY <1>1, <1>2, <1>6, <2>1, <3>2, QueueTail
    <2>3. e.value # "RUNNING" => NoReport(Tail(n.fifo), n.m.run)
        BY <1>1, <1>6, ReportPhases
    <2>. QED
        BY <2>2, <2>3
<1>7. /\ r.st.frame => y.st.frame
      /\ y.st.frame /\ ~r.st.frame => Available(r) /\ y.st.graphics = r.m.graphics
    <2>1. y.st = s.st
        BY TurnEnd
    <2>2. Noted(r, s)
        BY DEF Turn, Drive
    <2>3. r.st.frame \in BOOLEAN
        BY <1>1 DEF StepType, StateType
    <2>. QED
        BY <2>1, <2>2, <2>3 DEF Noted
<1>. QED
    BY <1>3, <1>4, <1>5, <1>6, <1>7

\* Only a running machine with a frame has a VM console.
LEMMA DesiredConsole ==
    ASSUME NEW t \in StateType, "console" \in Desired(t), mode \in Modes
    PROVE  t.runtime = "RUNNING" /\ t.frame /\ mode.display = "CONSOLE"
<1>1. mode.display \in {"WINDOW", "CONSOLE"}
    BY ModesAssumption
<1>2. t.runtime \in Runtimes
    BY DEF StateType
<1>. QED
    BY <1>1, <1>2 DEF Desired, Plan, Runtimes

\* The actions a running machine makes necessary, at the end of a turn.
LEMMA TurnShaped ==
    ASSUME NEW n, NEW x, NEW r, NEW s, NEW y, NEW e, Turn(n, x, r, s, y, e), mode \in Modes,
           Ranges(n), Phased(n), Lined(n), Shaped(n)
    PROVE  Shaped(y)
<1>1. /\ n \in StepType /\ x \in StepType /\ r \in StepType /\ y \in StepType /\ e \in EventType
      /\ n.fifo # <<>> /\ e = Head(n.fifo) /\ e.run \in {0, n.m.run}
      /\ x.st = n.st /\ x.m = n.m /\ x.fifo = Tail(n.fifo)
      /\ Reduced(x, r, e)
    BY DEF Turn
<1>2. /\ y.st.monitor = r.st.monitor /\ y.st.runtime = r.st.runtime
      /\ y.st.console = r.st.console /\ y.st.current = r.st.current
      /\ y.st = s.st /\ y.m = r.m /\ y.st \in StateType
    BY <1>1, TurnEnd DEF StepType
<1>3. /\ e.kind \in {"COMPONENT", "BROKER"} =>
            n.st.inflight = Completion(e) /\ r.st.inflight = "NONE"
      /\ e.kind \notin {"COMPONENT", "BROKER"} =>
            /\ r.st.inflight = n.st.inflight /\ r.st.current = n.st.current
            /\ r.st.console = n.st.console
      /\ e.kind # "RUNTIME" =>
            /\ r.st.monitor = n.st.monitor /\ r.st.runtime = n.st.runtime
            /\ r.st.frame = n.st.frame
    BY TurnHead
<1>4. \/ Waits(r, s) /\ y.fifo = r.fifo /\ y.st.inflight = r.st.inflight
      \/ /\ r.st.inflight = "NONE" /\ y.st.inflight \in Actions
         /\ Wants(y.st, y.st.inflight)
    BY <1>2, TurnEnd DEF Waits, Moves
<1>5. y.st.monitor = y.st.runtime \/ (y.st.monitor = "INIT" /\ y.st.runtime = "STOPPED")
    <2>1. CASE e.kind = "RUNTIME"
        BY <1>1, <1>2, <2>1 DEF Reduced, ReportTaken
    <2>2. CASE e.kind # "RUNTIME"
        BY <1>2, <1>3, <2>2 DEF Shaped
    <2>. QED
        BY <2>1, <2>2
<1>6. y.st.inflight = "BIND_MONITOR" => y.st.current = "VM"
    <2>1. CASE y.st.inflight = r.st.inflight
        BY <1>2, <1>3, <2>1 DEF Shaped
    <2>2. CASE Wants(y.st, y.st.inflight)
        BY <1>2, <2>2 DEF Wants, StateType, Consoles
    <2>. QED
        BY <1>4, <2>1, <2>2
<1>7. y.st.inflight \in {"CREATE_VM_CONSOLE", "BIND_VM_CONSOLE", "DESTROY_VM_CONSOLE"} =>
         y.st.current = "MONITOR"
    <2>1. CASE y.st.inflight = r.st.inflight
        BY <1>2, <1>3, <2>1 DEF Shaped
    <2>2. CASE Wants(y.st, y.st.inflight) /\ r.st.inflight = "NONE"
        <3>1. y.st.inflight = "BIND_VM_CONSOLE" => y.st.current = "MONITOR"
            BY <1>2, <2>2 DEF Wants, StateType, Consoles
        <3>2. y.st.inflight = "DESTROY_VM_CONSOLE" => y.st.current = "MONITOR"
            BY <1>2, <2>2 DEF Wants
        <3>3. y.st.inflight = "CREATE_VM_CONSOLE" => y.st.current = "MONITOR"
            <4>1. SUFFICES ASSUME y.st.inflight = "CREATE_VM_CONSOLE", y.st.current = "VM"
                           PROVE  FALSE
                BY <1>2 DEF StateType, Consoles
            <4>2. ~r.st.console /\ r.st.current = "VM"
                BY <1>2, <2>2, <4>1 DEF Wants
            <4>3. CASE e.kind = "BROKER"
                <5>1. /\ r.st.console = n.st.console /\ e.value \in BOOLEAN
                      /\ r.st.current = (IF e.value THEN "VM" ELSE "MONITOR")
                      /\ Completion(e) = IF e.value THEN "BIND_VM_CONSOLE" ELSE "BIND_MONITOR"
                    BY <1>1, <4>3 DEF Reduced, CompletionTaken
                <5>2. n.st.inflight = "BIND_VM_CONSOLE"
                    BY <1>3, <4>2, <4>3, <5>1
                <5>. QED
                    BY <4>2, <5>1, <5>2 DEF Shaped
            <4>4. CASE e.kind = "COMPONENT"
                <5>1. /\ r.st.current = n.st.current
                      /\ r.st.console = n.st.console
                            \/ (r.st.console <=> Completion(e) = "CREATE_VM_CONSOLE")
                      /\ Completion(e) \in {"CREATE_WINDOW", "DESTROY_WINDOW"} =>
                            r.st.console = n.st.console
                      /\ Completion(e) \notin {"BIND_VM_CONSOLE", "BIND_MONITOR"}
                    BY <1>1, <4>4 DEF Reduced, CompletionTaken
                <5>2. n.st.current = "VM" /\ n.st.console
                    BY <4>2, <5>1 DEF Shaped
                <5>3. n.st.inflight = Completion(e) /\ Completion(e) \in Actions
                    BY <1>1, <1>3, <4>4, Completions
                <5>4. n.st.inflight \notin {"CREATE_VM_CONSOLE", "DESTROY_VM_CONSOLE"}
                    BY <5>2 DEF Shaped
                <5>. QED
                    BY <4>2, <5>1, <5>2, <5>3, <5>4 DEF Actions
            <4>5. CASE e.kind \notin {"COMPONENT", "BROKER"}
                BY <1>3, <4>2, <4>5 DEF Shaped
            <4>. QED
                BY <4>3, <4>4, <4>5
        <3>. QED
            BY <3>1, <3>2, <3>3
    <2>. QED
        BY <1>4, <2>1, <2>2
<1>8. y.st.current = "VM" \/ y.st.inflight = "BIND_VM_CONSOLE" =>
         y.st.console /\ mode.display = "CONSOLE"
    <2>1. CASE y.st.inflight = "BIND_VM_CONSOLE" /\ Wants(y.st, y.st.inflight)
        <3>1. "console" \in Desired(y.st) /\ y.st.console
            BY <2>1 DEF Wants
        <3>. QED
            BY <1>2, <3>1, DesiredConsole
    <2>2. CASE y.st.inflight = "BIND_VM_CONSOLE" /\ y.st.inflight = r.st.inflight
        BY <1>2, <1>3, <2>2 DEF Shaped
    <2>3. CASE y.st.current = "VM"
        <3>1. CASE e.kind = "BROKER"
            <4>1. /\ r.st.console = n.st.console /\ e.value \in BOOLEAN
                  /\ r.st.current = (IF e.value THEN "VM" ELSE "MONITOR")
                  /\ Completion(e) = IF e.value THEN "BIND_VM_CONSOLE" ELSE "BIND_MONITOR"
                BY <1>1, <3>1 DEF Reduced, CompletionTaken
            <4>2. n.st.inflight = "BIND_VM_CONSOLE"
                BY <1>2, <1>3, <2>3, <3>1, <4>1
            <4>. QED
                BY <1>2, <4>1, <4>2 DEF Shaped
        <3>2. CASE e.kind = "COMPONENT"
            <4>1. /\ r.st.current = n.st.current
                  /\ r.st.console = n.st.console
                        \/ (r.st.console <=> Completion(e) = "CREATE_VM_CONSOLE")
                  /\ Completion(e) \in {"CREATE_WINDOW", "DESTROY_WINDOW"} =>
                        r.st.console = n.st.console
                  /\ Completion(e) \notin {"BIND_VM_CONSOLE", "BIND_MONITOR"}
                BY <1>1, <3>2 DEF Reduced, CompletionTaken
            <4>2. n.st.current = "VM" /\ n.st.console /\ mode.display = "CONSOLE"
                BY <1>2, <2>3, <4>1 DEF Shaped
            <4>3. n.st.inflight = Completion(e) /\ Completion(e) \in Actions
                BY <1>1, <1>3, <3>2, Completions
            <4>4. n.st.inflight \notin {"CREATE_VM_CONSOLE", "DESTROY_VM_CONSOLE"}
                BY <4>2 DEF Shaped
            <4>. QED
                BY <1>2, <4>1, <4>2, <4>3, <4>4 DEF Actions
        <3>3. CASE e.kind \notin {"COMPONENT", "BROKER"}
            BY <1>2, <1>3, <2>3, <3>3 DEF Shaped
        <3>. QED
            BY <3>1, <3>2, <3>3
    <2>. QED
        BY <1>4, <2>1, <2>2, <2>3
<1>9. y.st.inflight = "BIND_VM_CONSOLE" /\ y.st.runtime = "RUNNING" => y.st.frame
    <2>1. SUFFICES ASSUME y.st.inflight = "BIND_VM_CONSOLE", y.st.runtime = "RUNNING"
                   PROVE  y.st.frame
        OBVIOUS
    <2>2. CASE Wants(y.st, y.st.inflight)
        <3>1. "console" \in Desired(y.st)
            BY <2>1, <2>2 DEF Wants
        <3>. QED
            BY <1>2, <3>1, DesiredConsole
    <2>3. CASE y.st.inflight = r.st.inflight
        <3>1. e.kind \notin {"COMPONENT", "BROKER"} /\ n.st.inflight = "BIND_VM_CONSOLE"
            BY <1>3, <2>1, <2>3
        <3>2. CASE e.kind = "RUNTIME"
            <4>1. n.st.runtime = "RUNNING"
                BY <3>1, <3>2, TurnHead
            <4>2. n.st.frame
                BY <3>1, <4>1 DEF Shaped
            <4>3. r.st.frame = x.st.frame
                BY <1>1, <1>2, <2>1, <3>2 DEF Reduced, ReportTaken
            <4>. QED
                BY <1>1, <4>2, <4>3, TurnHead
        <3>3. CASE e.kind # "RUNTIME"
            <4>1. n.st.frame
                BY <1>2, <1>3, <2>1, <3>1, <3>3 DEF Shaped
            <4>. QED
                BY <1>3, <3>3, <4>1, TurnHead
        <3>. QED
            BY <3>2, <3>3
    <2>. QED
        BY <1>4, <2>2, <2>3
<1>10. y.st.inflight \in {"BIND_VM_CONSOLE", "CREATE_WINDOW"} /\ y.st.runtime # "RUNNING" =>
          Before(Completed(y.fifo), Reports(y.fifo, y.m.run))
    <2>1. SUFFICES ASSUME y.st.inflight \in {"BIND_VM_CONSOLE", "CREATE_WINDOW"},
                          y.st.runtime # "RUNNING"
                   PROVE  Before(Completed(y.fifo), Reports(y.fifo, y.m.run))
        OBVIOUS
    <2>2. ~Wants(y.st, y.st.inflight)
        <3>1. "console" \notin Desired(y.st)
            BY <1>2, <2>1, DesiredConsole
        <3>. QED
            BY <2>1, <3>1 DEF Wants
    <2>3. y.fifo = r.fifo /\ y.st.inflight = r.st.inflight
        BY <1>4, <2>2
    <2>4. e.kind \notin {"COMPONENT", "BROKER"} /\ n.st.inflight = y.st.inflight
        BY <1>3, <2>1, <2>3
    <2>5. n.fifo \in Seq(EventType) /\ x.fifo \in Seq(EventType)
          /\ n.m.run \in Nat /\ r.m.run \in Nat
        BY <1>1 DEF StepType, MachineType
    <2>6. CASE e.kind = "RUNTIME"
        <3>1. /\ r.m = x.m /\ r.fifo = x.fifo /\ r.st.runtime = StateOf(e.value)
            BY <1>1, <2>6 DEF Reduced, ReportTaken
        <3>2. e.value # "RUNNING"
            BY <1>2, <2>1, <3>1 DEF StateOf
        <3>3. NoReport(Tail(n.fifo), n.m.run)
            BY <2>1, <2>4, <2>6, <3>2, TurnHead
        <3>4. Reports(y.fifo, y.m.run) = {}
            BY <1>1, <1>2, <2>3, <3>1, <3>3 DEF NoReport
        <3>. QED
            BY <3>4 DEF Before
    <2>7. CASE e.kind # "RUNTIME"
        <3>1. Before(Completed(n.fifo), Reports(n.fifo, n.m.run))
            BY <1>2, <1>3, <2>1, <2>4, <2>7 DEF Shaped
        <3>2. Before(Completed(x.fifo), Reports(x.fifo, n.m.run))
            BY <1>1, <2>5, <3>1, QueueTail
        <3>3. r.m.run = n.m.run \/ NoReport(x.fifo, r.m.run)
            BY <1>1, ReducedPhase DEF MachineKept
        <3>4. Before(Completed(x.fifo), Reports(x.fifo, r.m.run))
            BY <3>2, <3>3 DEF NoReport, Before
        <3>5. r.fifo = x.fifo \/ Loads(x, r)
            BY <1>1, EventFields DEF Reduced, LineTaken, InputTaken, ReportTaken, CompletionTaken
        <3>6. CASE Loads(x, r)
            <4> DEFINE c == Event("RUNTIME", r.m.run, "PAUSED")
            <4>1. c \in EventType /\ c.kind = "RUNTIME"
                BY <2>5 DEF Event, EventType, Facts, Runtimes
            <4>2. r.fifo = Append(x.fifo, c)
                BY <3>6 DEF Loads
            <4> HIDE DEF c
            <4>. QED
                BY <1>2, <2>3, <2>5, <3>4, <4>1, <4>2, QueueAppend
        <3>. QED
            BY <1>2, <2>3, <3>4, <3>5, <3>6
    <2>. QED
        BY <2>6, <2>7
<1>. QED
    BY <1>5, <1>6, <1>7, <1>8, <1>9, <1>10 DEF Shaped

\* A line that is cancelled, or kept.
LEMMA LinedCancelled ==
    ASSUME NEW x, NEW y, NEW b \in BOOLEAN, x.reading \in BOOLEAN, x.p.line \in BOOLEAN,
           Lined(x), Cancelled(x, y, b), y.fifo = x.fifo
    PROVE  Lined(y)
<1>1. y.p.line <=> x.p.line /\ ~(b /\ x.reading)
    BY DEF Cancelled
<1>2. y.reading <=> x.reading /\ ~b
    BY DEF Cancelled
<1>. QED
    BY <1>1, <1>2 DEF Lined

\* The line after the event is reduced.
LEMMA ReducedLined ==
    ASSUME NEW n, NEW x, NEW r, NEW s, NEW y, NEW e, Turn(n, x, r, s, y, e), Lined(n)
    PROVE  Lined(r)
<1>1. /\ n \in StepType /\ x \in StepType /\ r \in StepType /\ e \in EventType
      /\ n.fifo # <<>> /\ e = Head(n.fifo)
      /\ x.p = n.p /\ x.m = n.m /\ x.reading = n.reading /\ x.fifo = Tail(n.fifo)
      /\ Reduced(x, r, e)
    BY DEF Turn
<1>2. /\ n.fifo \in Seq(EventType) /\ n.m.run \in Nat /\ r.m.run \in Nat
      /\ x.fifo \in Seq(EventType) /\ x.reading \in BOOLEAN /\ x.p.line \in BOOLEAN
      /\ r.reading \in BOOLEAN /\ r.p.line \in BOOLEAN
    BY <1>1 DEF StepType, MachineType, PromptType
<1>3. /\ Lines(n.fifo) = {} => e.kind # "LINE" /\ Lines(x.fifo) = {}
      /\ AtMostOne(Lines(n.fifo)) => AtMostOne(Lines(x.fifo))
      /\ AtMostOne(Lines(n.fifo)) /\ e.kind = "LINE" => Lines(x.fifo) = {}
      /\ e.kind # "LINE" /\ Lines(n.fifo) # {} => Lines(x.fifo) # {}
      /\ Brokers(n.fifo) = {} => e.kind # "BROKER" /\ Brokers(x.fifo) = {}
      /\ e.kind # "BROKER" /\ Brokers(n.fifo) # {} => Brokers(x.fifo) # {}
      /\ Before(Lines(n.fifo), Brokers(n.fifo)) => Before(Lines(x.fifo), Brokers(x.fifo))
      /\ Before(Lines(n.fifo), Brokers(n.fifo)) /\ e.kind = "BROKER" => Lines(n.fifo) = {}
    BY <1>1, <1>2, QueueTail
<1>4. e.kind \notin {"LINE", "BROKER"} => Lined(x)
    BY <1>1, <1>3 DEF Lined
<1>5. e.kind \in {"LINE", "BROKER"} =>
         /\ ~x.reading /\ Lines(x.fifo) = {} /\ AtMostOne(Lines(x.fifo))
         /\ Before(Lines(x.fifo), Brokers(x.fifo))
    BY <1>1, <1>3 DEF Lined
<1>6. CASE e.kind = "BROKER"
    <2>1. r.fifo = x.fifo /\ r.reading = x.reading /\ ~r.p.line
        BY <1>1, <1>6 DEF Reduced, CompletionTaken
    <2>. QED
        BY <1>5, <1>6, <2>1 DEF Lined
<1>7. CASE e.kind = "LINE"
    <2>1. ~r.p.line /\ ~r.reading /\ (r.fifo = x.fifo \/ Loads(x, r))
        BY <1>1, <1>5, <1>7 DEF Reduced, LineTaken
    <2>2. Lines(r.fifo) = Lines(x.fifo) /\ Brokers(r.fifo) = Brokers(x.fifo)
        <3>1. CASE Loads(x, r)
            <4> DEFINE c == Event("RUNTIME", r.m.run, "PAUSED")
            <4>1. c \in EventType /\ c.kind = "RUNTIME"
                BY <1>2 DEF Event, EventType, Facts, Runtimes
            <4>2. r.fifo = Append(x.fifo, c)
                BY <3>1 DEF Loads
            <4> HIDE DEF c
            <4>. QED
                BY <1>2, <4>1, <4>2, QueueAppend
        <3>. QED
            BY <2>1, <3>1
    <2>. QED
        BY <1>5, <1>7, <2>1, <2>2 DEF Lined
<1>8. CASE e.kind = "RUNTIME"
    <2>1. PICK b \in BOOLEAN : Cancelled(x, r, b) /\ r.fifo = x.fifo
        BY <1>1, <1>8 DEF Reduced, ReportTaken
    <2>. QED
        BY <1>2, <1>4, <1>8, <2>1, LinedCancelled
<1>9. CASE e.kind \in {"COMPONENT", "KVM", "FRAME"}
    <2>1. r.fifo = x.fifo /\ r.reading = x.reading /\ r.p.line = x.p.line
        BY <1>1, <1>9 DEF Reduced, CompletionTaken, InputTaken
    <2>. QED
        BY <1>4, <1>9, <2>1 DEF Lined
<1>. QED
    BY <1>1, <1>6, <1>7, <1>8, <1>9, EventFields

\* The line after the drive.
LEMMA DrivenLined ==
    ASSUME NEW n, NEW x, NEW r, NEW s, NEW y, NEW e, Turn(n, x, r, s, y, e), Lined(n)
    PROVE  Lined(s)
<1>1. Lined(r)
    BY ReducedLined
<1>2. s.p.line = r.p.line
    BY DEF Turn, Drive, Dues
<1>3. CASE Waits(r, s)
    BY <1>1, <1>2, <1>3 DEF Waits, Lined
<1>4. CASE Moves(r, s)
    <2>1. PICK c \in EventType :
             /\ s.fifo = Append(r.fifo, c) /\ c.kind \in {"COMPONENT", "BROKER"}
             /\ c.kind = "BROKER" <=> s.st.inflight \in {"BIND_VM_CONSOLE", "BIND_MONITOR"}
        <3>1. s.st.inflight \in Actions
            BY <1>4 DEF Moves
        <3>2. PICK c \in EventType :
                  s.fifo = Append(r.fifo, c) /\ Completion(c) = s.st.inflight
            BY <1>4 DEF Moves
        <3>3. c.kind \in {"COMPONENT", "BROKER"}
            BY <3>1, <3>2, Completions DEF Actions
        <3>4. c.kind = "BROKER" => s.st.inflight \in {"BIND_VM_CONSOLE", "BIND_MONITOR"}
            BY <3>2, Completions
        <3>5. c.kind = "COMPONENT" => s.st.inflight \notin {"BIND_VM_CONSOLE", "BIND_MONITOR"}
            BY <3>2, Completions
        <3>. QED
            BY <3>2, <3>3, <3>4, <3>5
    <2>2. r.fifo \in Seq(EventType) /\ r.m.run \in Nat /\ r.reading \in BOOLEAN
        BY DEF Turn, StepType, MachineType
    <2>3. s.reading = (r.reading /\ c.kind # "BROKER")
        BY <1>4, <2>1 DEF Moves
    <2>4. s.reading <=> r.reading /\ c.kind # "BROKER"
        BY <2>2, <2>3
    <2>5. /\ Lines(s.fifo) = Lines(r.fifo)
          /\ c.kind # "BROKER" => Brokers(s.fifo) = Brokers(r.fifo)
          /\ c.kind = "BROKER" => Brokers(s.fifo) # {}
          /\ Before(Lines(r.fifo), Brokers(r.fifo)) => Before(Lines(s.fifo), Brokers(s.fifo))
        BY <2>1, <2>2, QueueAppend
    <2>. QED
        BY <1>1, <1>2, <2>4, <2>5 DEF Lined
<1>. QED
    BY <1>3, <1>4 DEF Turn, Drive

\* The line at the end of a turn.
LEMMA TurnLined ==
    ASSUME NEW n, NEW x, NEW r, NEW s, NEW y, NEW e, Turn(n, x, r, s, y, e), Lined(n),
           Shaped(y)
    PROVE  Lined(y)
<1>1. Lined(s)
    BY DrivenLined
<1>2. /\ y.st = s.st /\ y.fifo = s.fifo /\ Offered(s, y, e) /\ s \in StepType /\ y \in StepType
      /\ OnTheWay(y.fifo, y.st.inflight)
    BY TurnEnd DEF Turn, Drive, Sound
<1>3. /\ s.reading \in BOOLEAN /\ s.p.line \in BOOLEAN /\ s.p.text \in BOOLEAN
      /\ y.fifo \in Seq(EventType) /\ y.st.inflight \in Actions \cup {"NONE"}
    BY <1>2 DEF StepType, PromptType, StateType
<1>4. CASE e.kind = "FRAME" \/ ~MonitorIsCurrent(s.st)
    <2>1. y.p = s.p /\ y.reading = s.reading
        BY <1>2, <1>4 DEF Offered
    <2>. QED
        BY <1>1, <1>2, <2>1 DEF Lined
<1>5. CASE e.kind # "FRAME" /\ MonitorIsCurrent(s.st)
    <2>1. CASE s.p.request # "NONE" \/ ~s.p.due \/ (s.p.line /\ ~(s.p.text /\ s.reading))
        <3>1. /\ y.p.line = (s.p.line /\ ~(s.p.text /\ s.reading))
              /\ y.reading = (s.reading /\ ~s.p.text)
            BY <1>2, <1>5, <2>1 DEF Offered
        <3>2. Cancelled(s, y, s.p.text)
            BY <3>1 DEF Cancelled
        <3>. QED
            BY <1>1, <1>2, <1>3, <3>2, LinedCancelled
    <2>2. CASE ~(s.p.request # "NONE" \/ ~s.p.due \/ (s.p.line /\ ~(s.p.text /\ s.reading)))
        <3>1. y.p.line /\ y.reading
            BY <1>2, <1>5, <2>2 DEF Offered
        <3>2. ~s.p.line \/ s.reading
            BY <2>2
        <3>3. Lines(y.fifo) = {}
            BY <1>1, <1>2, <3>2 DEF Lined
        <3>4. y.st.inflight \notin {"BIND_VM_CONSOLE", "BIND_MONITOR"}
            BY <1>2, <1>5 DEF MonitorIsCurrent, Shaped
        <3>5. Brokers(y.fifo) = {}
            BY <1>2, <1>3, <3>4, CompletionsOnTheWay
        <3>. QED
            BY <3>1, <3>3, <3>5 DEF Lined, AtMostOne, Before
    <2>. QED
        BY <2>1, <2>2
<1>. QED
    BY <1>4, <1>5

\* What a session owes the user before the prompt is offered.
Owed(q, t) ==
    /\ q.text => q.due \/ q.request # "NONE"
    /\ \/ q.line \/ q.due \/ q.request # "NONE"
       \/ t.monitor = "RUNNING" /\ Taken(t)
    /\ t.monitor # "RUNNING" /\ Taken(t) => q.due \/ q.request # "NONE"
    /\ t.monitor = "RUNNING" /\ t.current = "VM" => t.frame \/ q.due \/ q.request # "NONE"

LEMMA DrivenOwed ==
    ASSUME NEW n, NEW x, NEW r, NEW s, NEW y, NEW e, Turn(n, x, r, s, y, e), mode \in Modes,
           Ranges(n), Phased(n), Lined(n), Shaped(n), Prompted(n), Shaped(y)
    PROVE  Owed(s.p, s.st)
<1>1. /\ n \in StepType /\ x \in StepType /\ r \in StepType /\ e \in EventType
      /\ x.st = n.st /\ x.p = n.p /\ x.m = n.m
      /\ n.fifo # <<>> /\ e = Head(n.fifo) /\ e.run \in {0, n.m.run}
      /\ Reduced(x, r, e) /\ Dues(r, s, e) /\ Planned(y.st)
    BY DEF Turn, Drive
<1>2. /\ s.st = y.st /\ s.st.monitor = r.st.monitor /\ s.st.runtime = r.st.runtime
      /\ s.st.current = r.st.current /\ s.st.console = r.st.console
      /\ s.p.request = r.p.request /\ s \in StepType
      /\ \/ s.st.inflight = r.st.inflight
         \/ /\ r.st.inflight = "NONE" /\ s.st.inflight \in Actions
            /\ Wants(s.st, s.st.inflight)
    BY TurnEnd DEF Waits, Moves
<1>3. /\ e.kind \in {"COMPONENT", "BROKER"} =>
            n.st.inflight = Completion(e) /\ r.st.inflight = "NONE"
      /\ e.kind \notin {"COMPONENT", "BROKER"} =>
            r.st.inflight = n.st.inflight /\ r.st.current = n.st.current
      /\ e.kind # "RUNTIME" =>
            /\ r.st.monitor = n.st.monitor /\ r.st.runtime = n.st.runtime
            /\ r.st.frame = n.st.frame
      /\ r.st.frame => s.st.frame
    BY <1>2, TurnHead
<1>4. Owed(n.p, n.st)
    BY DEF Prompted, Owed
<1>5. s.st \in StateType
    BY <1>2 DEF StepType
<1>6. s.st.monitor # "RUNNING" /\ s.st.inflight = "BIND_VM_CONSOLE" =>
         r.st.inflight = "BIND_VM_CONSOLE"
    <2>1. s.st.monitor = "RUNNING" \/ s.st.runtime # "RUNNING"
        BY <1>2 DEF Shaped
    <2>2. s.st.monitor # "RUNNING" => "console" \notin Desired(s.st)
        BY <1>5, <2>1, DesiredConsole
    <2>. QED
        BY <1>2, <2>2 DEF Wants
<1>7. ASSUME r.p.due \/ r.p.request # "NONE", e.kind # "BROKER" \/ s.st.monitor # "RUNNING"
      PROVE  Owed(s.p, s.st)
    BY <1>1, <1>2, <1>7 DEF Owed, Dues
<1>8. ASSUME r.p.line = n.p.line, r.p.due = n.p.due, r.p.request = n.p.request,
             r.p.text = n.p.text \/ r.p.request # "NONE", e.kind # "BROKER",
             r.st.monitor = n.st.monitor, r.st.frame = n.st.frame,
             r.st.current = n.st.current,
             Taken(n.st) => Taken(s.st), s.st.monitor # "RUNNING" /\ Taken(s.st) => Taken(n.st)
      PROVE  Owed(s.p, s.st)
    <2>1. /\ s.p.line = n.p.line /\ s.p.due = n.p.due /\ s.p.request = n.p.request
          /\ s.p.text = n.p.text \/ s.p.request # "NONE"
        BY <1>1, <1>2, <1>8 DEF Dues
    <2>2. s.st.monitor = n.st.monitor /\ s.st.current = n.st.current /\ (n.st.frame => s.st.frame)
        BY <1>2, <1>3, <1>8
    <2>. QED
        BY <1>4, <1>8, <2>1, <2>2 DEF Owed
<1>9. e.kind \notin {"COMPONENT", "BROKER"} =>
         /\ Taken(n.st) => Taken(s.st)
         /\ s.st.monitor # "RUNNING" /\ Taken(s.st) => Taken(n.st)
    BY <1>2, <1>3, <1>6 DEF Taken
<1>10. CASE e.kind = "LINE"
    BY <1>1, <1>7, <1>10 DEF Reduced, LineTaken
<1>11. CASE e.kind = "FRAME"
    <2>1. r = x
        BY <1>1, <1>11 DEF Reduced
    <2>. QED
        BY <1>1, <1>8, <1>9, <1>11, <2>1
<1>12. CASE e.kind = "KVM"
    <2>1. InputTaken(x, r)
        BY <1>1, <1>12 DEF Reduced
    <2>2. CASE \E request \in {"PAUSE", "RESUME"} : Dispatched(x, r, request)
        BY <1>7, <1>12, <2>2 DEF Dispatched
    <2>3. CASE /\ r.p.request = x.p.request /\ r.p.due = x.p.due /\ r.p.line = x.p.line
               /\ r.p.text = x.p.text \/ x.p.request # "NONE"
        BY <1>1, <1>3, <1>8, <1>9, <1>12, <2>3
    <2>. QED
        BY <2>1, <2>2, <2>3 DEF InputTaken
<1>13. CASE e.kind = "RUNTIME"
    <2>1. ReportTaken(x, r, e)
        BY <1>1, <1>13 DEF Reduced
    <2>2. CASE Announced(x, e)
        BY <1>7, <1>13, <2>1, <2>2 DEF ReportTaken
    <2>3. CASE ~Announced(x, e)
        <3>1. Announced(n, e) <=> Announced(x, e)
            BY <1>1 DEF Announced
        <3>2. /\ n.p.request = "NONE" /\ n.st.monitor \in {"INIT", "STOPPED"}
              /\ e.value \in {"STOPPED", "PAUSED"}
            BY <1>1, <1>13, <2>3, <3>1, ReportPhases
        <3>3. r.p.text = n.p.text /\ r.st.monitor # "RUNNING" /\ r.p.request = "NONE"
            BY <1>1, <2>1, <2>3, <3>2 DEF ReportTaken, StateOf
        <3>4. r.p.due <=> n.p.due
            <4>1. n.p.due \in BOOLEAN
                BY <1>1 DEF StepType, PromptType
            <4>. QED
                BY <1>1, <2>1, <2>3, <4>1 DEF ReportTaken
        <3>5. r.p.line <=> n.p.line
            <4>1. n.p.line \in BOOLEAN
                BY <1>1 DEF StepType, PromptType
            <4>2. Cancelled(x, r, FALSE)
                BY <2>1, <2>3 DEF ReportTaken
            <4>. QED
                BY <1>1, <4>1, <4>2 DEF Cancelled
        <3>6. s.p.line = r.p.line /\ s.p.due = r.p.due /\ s.p.text = r.p.text
            BY <1>1, <1>13 DEF Dues
        <3>. QED
            BY <1>2, <1>4, <1>9, <1>13, <3>2, <3>3, <3>4, <3>5, <3>6 DEF Owed
    <2>. QED
        BY <2>2, <2>3
<1>14. CASE e.kind = "COMPONENT"
    <2>1. /\ r.p.request = n.p.request /\ r.p.due = n.p.due /\ r.p.text = n.p.text
          /\ r.p.line = n.p.line /\ r.st.current = n.st.current
          /\ Completion(e) \notin {"BIND_VM_CONSOLE", "BIND_MONITOR"}
        BY <1>1, <1>14 DEF Reduced, CompletionTaken
    <2>2. /\ Taken(n.st) => Taken(s.st)
          /\ s.st.monitor # "RUNNING" /\ Taken(s.st) => Taken(n.st)
        BY <1>2, <1>3, <1>6, <1>14, <2>1 DEF Taken
    <2>. QED
        BY <1>3, <1>8, <1>14, <2>1, <2>2
<1>15. CASE e.kind = "BROKER"
    <2>1. /\ r.p.request = n.p.request /\ r.p.due = n.p.due /\ r.p.text = n.p.text
          /\ e.value \in BOOLEAN /\ r.st.console = n.st.console
          /\ r.st.current = (IF e.value THEN "VM" ELSE "MONITOR")
          /\ Completion(e) = IF e.value THEN "BIND_VM_CONSOLE" ELSE "BIND_MONITOR"
        BY <1>1, <1>15 DEF Reduced, CompletionTaken
    <2>2. Taken(n.st) /\ (~e.value => n.st.current = "VM")
        BY <1>3, <1>15, <2>1 DEF Taken, Shaped
    <2>3. CASE s.st.monitor # "RUNNING"
        <3>1. r.p.due \/ r.p.request # "NONE"
            BY <1>2, <1>3, <1>4, <1>15, <2>1, <2>2, <2>3 DEF Owed
        <3>. QED
            BY <1>7, <2>3, <3>1
    <2>4. CASE s.st.monitor = "RUNNING" /\ e.value
        <3>1. ~s.p.due /\ ~s.p.text
            BY <1>1, <1>15, <2>4 DEF Dues
        <3>2. s.st.current = "VM" /\ n.st.inflight = "BIND_VM_CONSOLE"
            BY <1>2, <1>3, <1>15, <2>1, <2>4
        <3>3. n.st.runtime = "RUNNING"
            BY <1>2, <1>3, <1>15, <2>4 DEF Shaped
        <3>4. s.st.frame
            BY <1>3, <1>15, <3>2, <3>3 DEF Shaped
        <3>. QED
            BY <2>4, <3>1, <3>2, <3>4 DEF Owed, Taken
    <2>5. CASE s.st.monitor = "RUNNING" /\ ~e.value
        <3>1. /\ s.st.current = "MONITOR" /\ s.st.runtime = "RUNNING" /\ s.st.console
              /\ mode.display = "CONSOLE" /\ r.st.inflight = "NONE"
            BY <1>2, <1>3, <1>15, <2>1, <2>2, <2>5 DEF Shaped
        <3>2. /\ s.p.text = r.p.text
              /\ s.p.due = (r.p.due \/ (/\ MonitorIsCurrent(s.st) /\ mode.display = "CONSOLE"
                                        /\ s.st.runtime = "RUNNING"
                                        /\ s.st.frame /\ s.st.graphics))
            BY <1>1, <1>15, <2>5 DEF Dues
        <3>3. r.p.due => s.p.due
            BY <3>2
        <3>4. n.st.frame \/ n.p.due \/ n.p.request # "NONE"
            BY <1>2, <1>3, <1>4, <1>15, <2>2, <2>5 DEF Owed
        <3>5. s.p.due \/ s.p.request # "NONE" \/ Taken(s.st)
            <4>1. CASE n.p.due \/ n.p.request # "NONE"
                BY <1>2, <2>1, <3>3, <4>1
            <4>2. CASE s.st.frame /\ "console" \in Desired(s.st)
                <5>1. s.st.inflight # "NONE"
                    BY <1>1, <1>2, <3>1, <4>2 DEF Planned, NextAction
                <5>2. Wants(s.st, s.st.inflight)
                    BY <1>2, <3>1, <5>1
                <5>. QED
                    BY <3>1, <4>2, <5>2 DEF Wants, Taken
            <4>3. CASE s.st.frame /\ "console" \notin Desired(s.st)
                <5>1. s.st.graphics
                    BY <3>1, <4>3 DEF Desired, Plan
                <5>2. s.st.inflight # "BIND_VM_CONSOLE" => MonitorIsCurrent(s.st)
                    BY <3>1, <4>3 DEF MonitorIsCurrent
                <5>. QED
                    BY <3>1, <3>2, <4>3, <5>1, <5>2 DEF Taken
            <4>. QED
                BY <1>3, <1>15, <3>4, <4>1, <4>2, <4>3
        <3>6. s.p.text => s.p.due \/ s.p.request # "NONE"
            BY <1>2, <1>4, <2>1, <3>2, <3>3 DEF Owed
        <3>. QED
            BY <2>5, <3>1, <3>5, <3>6 DEF Owed
    <2>. QED
        BY <2>1, <2>3, <2>4, <2>5
<1>. QED
    BY <1>1, <1>10, <1>11, <1>12, <1>13, <1>14, <1>15, EventFields

\* The prompt at the end of a turn.
LEMMA TurnPrompted ==
    ASSUME NEW n, NEW x, NEW r, NEW s, NEW y, NEW e, Turn(n, x, r, s, y, e), mode \in Modes,
           Ranges(n), Phased(n), Lined(n), Shaped(n), Prompted(n), Shaped(y)
    PROVE  Prompted(y)
<1>1. Owed(s.p, s.st)
    BY DrivenOwed
<1>2. y.st = s.st /\ y.p.request = s.p.request
    BY TurnEnd
<1>3. Offered(s, y, e) /\ Dues(r, s, e) /\ Reduced(x, r, e) /\ x.p = n.p
    BY DEF Turn, Drive
<1>4. Owed(y.p, y.st) => (Prompted(y) <=>
         (y.st.inflight = "NONE" /\ MonitorIsCurrent(y.st) =>
             y.p.request # "NONE" \/ ~y.p.due \/ y.p.line))
    BY DEF Owed, Prompted
<1>5. CASE ~MonitorIsCurrent(s.st)
    <2>1. y.p = s.p
        BY <1>3, <1>5 DEF Offered
    <2>. QED
        BY <1>1, <1>2, <1>4, <1>5, <2>1
<1>6. CASE e.kind = "FRAME"
    <2>1. y.p = s.p
        BY <1>3, <1>6 DEF Offered
    <2>2. ASSUME y.st.inflight = "NONE", MonitorIsCurrent(y.st)
          PROVE  y.p.request # "NONE" \/ ~y.p.due \/ y.p.line
        <3>1. n.st.inflight = "NONE" /\ n.st.current = "MONITOR"
            <4>1. r.st.inflight = n.st.inflight /\ r.st.current = n.st.current
                BY <1>6, TurnHead
            <4>2. y.st.current = r.st.current
                BY TurnEnd
            <4>3. Waits(r, s) \/ s.st.inflight \in Actions
                BY TurnEnd DEF Moves
            <4>4. r.st.inflight = "NONE"
                BY <1>2, <2>2, <4>3 DEF Waits, Actions
            <4>. QED
                BY <2>2, <4>1, <4>2, <4>4 DEF MonitorIsCurrent
        <3>2. NextAction(n.st) = "NONE"
            BY DEF Turn, Planned
        <3>3. MonitorIsCurrent(n.st)
            BY <3>1, <3>2 DEF NextAction, MonitorIsCurrent
        <3>4. n.p.request # "NONE" \/ ~n.p.due \/ n.p.line
            BY <3>1, <3>3 DEF Prompted
        <3>5. r.p = n.p
            BY <1>3, <1>6 DEF Reduced
        <3>. QED
            BY <1>3, <1>6, <2>1, <3>4, <3>5 DEF Dues
    <2>. QED
        BY <1>1, <1>2, <1>4, <2>1, <2>2
<1>7. CASE e.kind # "FRAME" /\ MonitorIsCurrent(s.st)
    <2>1. ~Taken(y.st) /\ y.st.current # "VM"
        BY <1>2, <1>7 DEF MonitorIsCurrent, Taken
    <2>2. ~y.p.text
        BY <1>3, <1>7 DEF Offered
    <2>3. CASE s.p.request # "NONE" \/ ~s.p.due \/ (s.p.line /\ ~(s.p.text /\ s.reading))
        <3>1. /\ y.p.line = (s.p.line /\ ~(s.p.text /\ s.reading))
              /\ y.p.due = s.p.due
            BY <1>3, <1>7, <2>3 DEF Offered
        <3>2. y.p.line <=> s.p.line /\ ~(s.p.text /\ s.reading)
            <4>1. s.p.line \in BOOLEAN /\ s.p.text \in BOOLEAN
                BY TurnEnd DEF StepType, PromptType
            <4>. QED
                BY <3>1, <4>1
        <3>. QED
            BY <1>1, <1>2, <2>1, <2>2, <2>3, <3>1, <3>2 DEF Owed, Prompted
    <2>4. CASE ~(s.p.request # "NONE" \/ ~s.p.due \/ (s.p.line /\ ~(s.p.text /\ s.reading)))
        <3>1. y.p.line
            BY <1>3, <1>7, <2>4 DEF Offered
        <3>. QED
            BY <2>1, <2>2, <3>1 DEF Prompted
    <2>. QED
        BY <2>3, <2>4
<1>. QED
    BY <1>5, <1>6, <1>7

\* An event and its drive leave the surfaces to the action taken.
LEMMA TurnSurfaces ==
    ASSUME NEW n, NEW x, NEW r, NEW s, NEW y, NEW e, Turn(n, x, r, s, y, e)
    PROVE  /\ r.ui = n.ui /\ y.ui = s.ui /\ y.st = s.st
           /\ Known(n.st, n.ui) /\ Known(r.st, r.ui) /\ Known(y.st, y.ui)
           /\ y.st \in StateType /\ y.ui \in UiType /\ n.st \in StateType /\ n.ui \in UiType
           /\ Thaws(r, s, e) /\ Sees(s) /\ Noted(r, s)
           /\ y.st.inflight \notin {"CREATE_WINDOW", "DESTROY_WINDOW"} =>
                 y.ui.window = n.ui.window
<1>1. /\ n \in StepType /\ x \in StepType /\ r \in StepType /\ y \in StepType /\ e \in EventType
      /\ x.ui = n.ui /\ Reduced(x, r, e) /\ Drive(r, s, y, e)
      /\ Known(n.st, n.ui) /\ Known(r.st, r.ui) /\ Known(y.st, y.ui)
    BY DEF Turn, Sound
<1>2. r.ui = x.ui
    BY <1>1, EventFields DEF Reduced, LineTaken, InputTaken, ReportTaken, CompletionTaken
<1>3. y.ui = s.ui /\ y.st = s.st
    BY TurnEnd
<1>4. /\ y.st \in StateType /\ y.ui \in UiType /\ n.st \in StateType /\ n.ui \in UiType
    BY <1>1 DEF StepType
<1>5. Thaws(r, s, e) /\ Sees(s) /\ Noted(r, s) /\ (Waits(r, s) \/ Moves(r, s))
    BY <1>1 DEF Drive
<1>6. s.st.inflight \notin {"CREATE_WINDOW", "DESTROY_WINDOW"} => s.ui.window = r.ui.window
    BY <1>5 DEF Waits, Moves
<1>. QED
    BY <1>1, <1>2, <1>3, <1>4, <1>5, <1>6

\* Whether the Window is frozen at the end of a turn.
LEMMA TurnFrozen ==
    ASSUME NEW n, NEW x, NEW r, NEW s, NEW y, NEW e, Turn(n, x, r, s, y, e), mode \in Modes,
           Ranges(n), Phased(n), Lined(n), Shaped(n), Frozen(n), Shaped(y)
    PROVE  Frozen(y)
<1>1. /\ r.ui = n.ui /\ y.ui = s.ui /\ y.st = s.st
      /\ Known(n.st, n.ui) /\ Known(r.st, r.ui) /\ Known(y.st, y.ui)
      /\ y.st \in StateType /\ y.ui \in UiType /\ n.st \in StateType /\ n.ui \in UiType
      /\ Thaws(r, s, e)
      /\ y.st.inflight \notin {"CREATE_WINDOW", "DESTROY_WINDOW"} => y.ui.window = n.ui.window
    BY TurnSurfaces
<1>2. /\ e.kind \in {"COMPONENT", "BROKER"} =>
            n.st.inflight = Completion(e) /\ r.st.inflight = "NONE"
      /\ e.kind \notin {"COMPONENT", "BROKER"} =>
            r.st.inflight = n.st.inflight /\ r.st.current = n.st.current
      /\ e.kind # "RUNTIME" => r.st.runtime = n.st.runtime /\ r.st.frame = n.st.frame
      /\ e.kind = "RUNTIME" /\ n.st.inflight \in {"BIND_VM_CONSOLE", "CREATE_WINDOW"} =>
            n.st.runtime = "RUNNING"
    BY TurnHead
<1>3. /\ y.st.runtime = r.st.runtime /\ y.st.current = r.st.current /\ y.st.window = r.st.window
      /\ Waits(r, s) \/ Moves(r, s)
    BY TurnEnd
<1>4. y.st.inflight = "DESTROY_WINDOW" => ~y.ui.window
    BY <1>1 DEF Known
<1>5. y.st.runtime = "RUNNING" /\ Sets(s, e) => ~y.ui.frozen
    <2>1. SUFFICES ASSUME y.st.runtime = "RUNNING", Sets(s, e)
                   PROVE  ~y.ui.frozen
        OBVIOUS
    <2>2. s.ui.frozen = (s.st.runtime = "PAUSED")
        BY <1>1, <2>1 DEF Thaws
    <2>3. s.st.runtime # "PAUSED"
        BY <1>1, <2>1
    <2>. QED
        BY <1>1, <2>2, <2>3
<1>6. y.ui.window /\ y.st.runtime = "PAUSED" => y.ui.frozen
    <2>1. SUFFICES ASSUME y.ui.window, y.st.runtime = "PAUSED"
                   PROVE  y.ui.frozen
        OBVIOUS
    <2>2. CASE Sets(s, e)
        BY <1>1, <2>1, <2>2 DEF Thaws
    <2>3. CASE ~Sets(s, e)
        <3>1. e.kind \notin {"RUNTIME", "BROKER"}
            BY <1>1, <2>1, <2>3 DEF Sets
        <3>2. Waits(r, s) \/ y.st.inflight \notin {"CREATE_WINDOW", "DESTROY_WINDOW"}
            BY <1>1, <1>3, <1>4, <2>1 DEF Moves, Wants
        <3>3. y.ui.frozen = n.ui.frozen
            BY <1>1, <2>3, <3>2 DEF Thaws
        <3>4. n.ui.window
            BY <1>1, <2>1, <3>2 DEF Waits
        <3>. QED
            BY <1>2, <1>3, <2>1, <3>1, <3>3, <3>4 DEF Frozen
    <2>. QED
        BY <2>2, <2>3
<1>7. y.st.inflight = "CREATE_WINDOW" /\ y.st.runtime = "RUNNING" => ~y.ui.frozen
    <2>1. SUFFICES ASSUME y.st.inflight = "CREATE_WINDOW", y.st.runtime = "RUNNING",
                          ~Sets(s, e)
                   PROVE  ~y.ui.frozen
        BY <1>5
    <2>2. CASE Waits(r, s)
        <3>1. n.st.inflight = "CREATE_WINDOW" /\ n.st.runtime = "RUNNING"
            BY <1>1, <1>2, <1>3, <2>1, <2>2 DEF Waits
        <3>2. ~n.ui.frozen
            BY <3>1 DEF Frozen
        <3>. QED
            BY <1>1, <2>1, <2>2, <3>2 DEF Thaws
    <2>3. CASE Moves(r, s)
        <3>1. ~r.st.window /\ r.st.inflight = "NONE"
            BY <1>1, <1>3, <2>1, <2>3 DEF Moves, Wants
        <3>2. ~r.ui.window
            BY <1>1, <3>1 DEF Known
        <3>3. s.ui.frozen = (s.st.runtime # "RUNNING")
            BY <1>1, <2>1, <2>3, <3>2 DEF Thaws
        <3>. QED
            BY <1>1, <2>1, <3>3
    <2>. QED
        BY <1>3, <2>2, <2>3
<1>8. ASSUME ~mode.console_control, y.st.runtime = "RUNNING", y.ui.window, y.ui.frozen
      PROVE  /\ mode.display = "CONSOLE"
             /\ y.st.current = "MONITOR" \/ ~y.st.frame \/ y.st.inflight = "BIND_MONITOR"
    <2>1. ~Sets(s, e) /\ y.st.inflight \notin {"CREATE_WINDOW", "DESTROY_WINDOW"}
        BY <1>4, <1>5, <1>7, <1>8
    <2>2. y.st.window /\ mode.display \in {"WINDOW", "CONSOLE"} /\ y.st.current \in Consoles
        BY <1>1, <1>8, <2>1, ModesAssumption DEF Known, StateType
    <2>3. CASE e.kind \in {"RUNTIME", "BROKER"}
        <3>1. ~TargetsReady(y.st)
            BY <1>1, <1>8, <2>1, <2>3 DEF Sets
        <3>2. mode.display = "CONSOLE"
            BY <1>8, <2>2, <3>1 DEF TargetsReady, Desired, Plan
        <3>3. ASSUME y.st.current = "VM", y.st.frame
              PROVE  FALSE
            <4>1. y.st.console
                BY <3>3 DEF Shaped
            <4>2. Desired(y.st) # {}
                BY <1>8, <3>2, <3>3 DEF Desired, Plan
            <4>. QED
                BY <2>2, <3>1, <3>3, <4>1, <4>2 DEF TargetsReady
        <3>. QED
            BY <2>2, <3>2, <3>3 DEF Consoles
    <2>4. CASE e.kind \notin {"RUNTIME", "BROKER"}
        <3>1. /\ n.st.runtime = "RUNNING" /\ n.ui.window /\ n.ui.frozen
            BY <1>1, <1>2, <1>3, <1>8, <2>1, <2>4 DEF Thaws
        <3>2. /\ mode.display = "CONSOLE"
              /\ n.st.current = "MONITOR" \/ ~n.st.frame \/ n.st.inflight = "BIND_MONITOR"
            BY <1>8, <3>1 DEF Frozen
        <3>3. r.st.current = n.st.current
            <4>1. e.kind = "COMPONENT" => r.st.current = n.st.current
                BY DEF Turn, Reduced, CompletionTaken
            <4>. QED
                BY <1>2, <2>4, <4>1
        <3>4. n.st.inflight = "BIND_MONITOR" => y.st.inflight = "BIND_MONITOR"
            <4>1. SUFFICES ASSUME n.st.inflight = "BIND_MONITOR"
                           PROVE  y.st.inflight = "BIND_MONITOR"
                OBVIOUS
            <4>2. e.kind # "COMPONENT"
                <5>1. e.kind = "COMPONENT" => Completion(e) # "BIND_MONITOR"
                    BY DEF Turn, Reduced, CompletionTaken
                <5>. QED
                    BY <1>2, <4>1, <5>1
            <4>3. r.st.inflight = "BIND_MONITOR"
                BY <1>2, <2>4, <4>1, <4>2
            <4>. QED
                BY <1>1, <1>3, <4>3 DEF Waits, Moves
        <3>5. ASSUME n.st.current = "VM", ~n.st.frame
              PROVE  n.st.inflight = "BIND_MONITOR"
            <4>1. n.st.inflight # "NONE"
                <5>1. NextAction(n.st) = "NONE"
                    BY DEF Turn, Planned
                <5>2. "console" \notin Desired(n.st)
                    BY <3>5, <1>1, DesiredConsole
                <5>. QED
                    BY <3>5, <5>1, <5>2 DEF NextAction
            <4>2. n.st.inflight \notin {"CREATE_VM_CONSOLE", "BIND_VM_CONSOLE", "DESTROY_VM_CONSOLE"}
                BY <3>5 DEF Shaped
            <4>3. n.st.inflight # "CREATE_WINDOW"
                BY <3>1 DEF Frozen
            <4>4. n.st.inflight # "DESTROY_WINDOW"
                BY <1>1, <3>1 DEF Known
            <4>. QED
                BY <1>1, <4>1, <4>2, <4>3, <4>4 DEF StateType, Actions
        <3>. QED
            BY <1>1, <1>3, <3>2, <3>3, <3>4, <3>5 DEF StateType, Consoles
    <2>. QED
        BY <2>3, <2>4
<1>. QED
    BY <1>6, <1>7, <1>8 DEF Frozen

\* What the surfaces show at the end of a turn.
LEMMA TurnViewed ==
    ASSUME NEW n, NEW x, NEW r, NEW s, NEW y, NEW e, Turn(n, x, r, s, y, e), mode \in Modes,
           Ranges(n), Phased(n), Lined(n), Shaped(n), Viewed(n), Ranges(y)
    PROVE  Viewed(y)
<1>1. /\ n \in StepType /\ x \in StepType /\ r \in StepType /\ y \in StepType /\ e \in EventType
      /\ n.fifo # <<>> /\ e = Head(n.fifo) /\ e.run \in {0, n.m.run}
      /\ x.st = n.st /\ x.m = n.m /\ Reduced(x, r, e) /\ Planned(y.st)
    BY DEF Turn
<1>2. /\ y.ui = s.ui /\ y.st = s.st /\ Known(y.st, y.ui) /\ Sees(s) /\ Noted(r, s)
      /\ y.st \in StateType /\ y.ui \in UiType /\ n.st \in StateType
    BY TurnSurfaces
<1>3. y.m = r.m /\ s.m = r.m
    BY TurnEnd
<1>4. /\ n.m.run \in Nat /\ r.m.run \in Nat /\ r.m.seq \in Nat /\ n.m.seq \in Nat
      /\ r.st.observed \in Nat /\ y.st.observed \in Nat
    BY <1>1 DEF StepType, MachineType, StateType
<1>5. r.st.observed = n.st.observed
    <2>1. e.kind = "LINE" => r.st = x.st
        BY <1>1 DEF Reduced, LineTaken
    <2>2. e.kind = "KVM" => r.st.observed = x.st.observed
        BY <1>1 DEF Reduced, InputTaken, StepType, StateType
    <2>3. e.kind \in {"RUNTIME", "COMPONENT", "BROKER", "FRAME"} => r.st.observed = x.st.observed
        BY <1>1 DEF Reduced, ReportTaken, CompletionTaken
    <2>. QED
        BY <1>1, <2>1, <2>2, <2>3, EventFields
<1>6. ASSUME y.m.pubrun = y.m.run, y.st.observed = y.m.seq
      PROVE  \/ y.st.frame /\ y.st.graphics = y.m.graphics
             \/ y.m.state \in {"STOPPED", "ERROR"}
    <2>1. CASE Available(r) /\ r.m.seq > r.st.observed
        BY <1>2, <1>3, <2>1 DEF Noted
    <2>2. CASE ~(Available(r) /\ r.m.seq > r.st.observed)
        <3>1. /\ y.st.observed = r.st.observed /\ y.st.frame = r.st.frame
              /\ y.st.graphics = r.st.graphics
            BY <1>2, <2>2 DEF Noted
        <3>2. /\ r.m.run = n.m.run /\ r.m.pubrun = n.m.pubrun /\ r.m.graphics = n.m.graphics
              /\ r.m.state = n.m.state /\ r.m.seq = n.m.seq
            <4>1. MachineKept(n, r)
                BY ReducedPhase
            <4>2. r.m.pubrun = 0 => r.m.run # n.m.run + 1
                BY <1>3, <1>4, <1>6
            <4>. QED
                BY <4>1, <4>2 DEF MachineKept
        <3>3. \/ n.st.frame /\ n.st.graphics = n.m.graphics
              \/ n.m.state \in {"STOPPED", "ERROR"}
            BY <1>3, <1>5, <1>6, <3>1, <3>2 DEF Viewed
        <3>4. CASE e.kind # "RUNTIME"
            BY <1>3, <3>1, <3>2, <3>3, <3>4, TurnHead
        <3>5. CASE e.kind = "RUNTIME"
            <4>1. StateOf(e.value) \in {"RUNNING", "PAUSED"} =>
                     r.st.frame = n.st.frame /\ r.st.graphics = n.st.graphics
                BY <1>1, <3>5 DEF Reduced, ReportTaken
            <4>2. e.value \in Facts
                BY <1>1, <3>5, EventFields
            <4>3. CASE StateOf(e.value) \in {"RUNNING", "PAUSED"}
                BY <1>3, <3>1, <3>2, <3>3, <4>1, <4>3
            <4>4. CASE StateOf(e.value) \notin {"RUNNING", "PAUSED"}
                <5>1. StateOf(e.value) \in {"STOPPED", "ERROR"}
                    BY <4>2, <4>4 DEF StateOf, Facts, Runtimes
                <5>2. e.value # "RUNNING"
                    BY <4>4 DEF StateOf
                <5>3. n.m.state = StateOf(e.value)
                    BY <1>1, <3>5, <5>2, ReportPhases
                <5>. QED
                    BY <1>3, <3>2, <5>1, <5>3
            <4>. QED
                BY <4>3, <4>4
        <3>. QED
            BY <3>4, <3>5
    <2>. QED
        BY <2>1, <2>2
<1>7. ASSUME y.st.inflight = "NONE", y.m.state \in {"RUNNING", "PAUSED"}, y.m.pubrun = y.m.run
      PROVE  FrameShown(y)
    <2>1. Available(r) /\ Available(s) /\ s.m = y.m
        BY <1>3, <1>7 DEF Available
    <2>2. y.st.observed = y.m.seq
        <3>1. r.m.seq > r.st.observed => y.st.observed = r.m.seq
            BY <1>2, <2>1 DEF Noted
        <3>2. ~(r.m.seq > r.st.observed) => y.st.observed = r.st.observed
            BY <1>2 DEF Noted
        <3>3. y.st.observed <= r.m.seq
            BY <1>3 DEF Ranges
        <3>. QED
            BY <1>3, <1>4, <3>1, <3>2, <3>3
    <2>3. y.st.frame /\ y.st.graphics = y.m.graphics
        BY <1>6, <1>7, <2>2
    <2>4. /\ y.ui.window = y.st.window /\ y.ui.console = y.st.console
          /\ y.ui.bound = y.st.current
        BY <1>2, <1>7 DEF Known
    <2>5. /\ "console" \in Desired(y.st) => y.st.console /\ y.st.current = "VM"
          /\ "console" \notin Desired(y.st) => y.st.current = "MONITOR"
          /\ "window" \in Desired(y.st) /\ y.st.runtime = "RUNNING" => y.st.window
          /\ "window" \notin Desired(y.st) => ~y.st.window
        BY <1>1, <1>7 DEF Planned, NextAction
    <2>6. y.ui.window \/ y.ui.bound = "VM" => TargetsReady(s.st)
        <3>1. y.st.current = "VM" => y.st.runtime = "RUNNING" /\ "console" \in Desired(y.st)
            BY <1>2, <2>5, DesiredConsole
        <3>2. y.ui.window => "window" \in Desired(y.st)
            BY <2>4, <2>5
        <3>. QED
            BY <1>2, <2>4, <2>5, <3>1, <3>2 DEF TargetsReady
    <2>7. y.ui.window => y.ui.wseq = y.m.seq
        BY <1>2, <1>3, <2>1, <2>4, <2>6 DEF Sees
    <2>8. ASSUME y.ui.bound = "VM"
          PROVE  IF y.m.graphics THEN y.ui.status ELSE ~y.ui.status /\ y.ui.cseq = y.m.seq
        <3>1. /\ "console" \in Desired(y.st) /\ y.st.console /\ y.st.current = "VM"
            BY <2>4, <2>5, <2>8
        <3>2. y.st.runtime = "RUNNING" /\ mode.display = "CONSOLE"
            BY <1>2, <3>1, DesiredConsole
        <3>3. y.m.graphics => ~mode.console_control
            BY <2>3, <3>1, <3>2 DEF Desired, Plan
        <3>. QED
            BY <1>2, <1>3, <2>1, <2>4, <2>6, <2>8, <3>1, <3>2, <3>3 DEF Sees
    <2>. QED
        BY <2>7, <2>8 DEF FrameShown
<1>. QED
    BY <1>6, <1>7 DEF Viewed

\* A turn that does not end the session keeps all of it.
LEMMA TurnFollowed ==
    ASSUME NEW n, NEW x, NEW r, NEW s, NEW y, NEW e, Turn(n, x, r, s, y, e), mode \in Modes,
           Followed(n)
    PROVE  Followed(y)
<1>1. /\ Ranges(n) /\ Phased(n) /\ Shaped(n) /\ Lined(n) /\ Prompted(n) /\ Frozen(n) /\ Viewed(n)
    BY DEF Followed
<1>2. Ranges(y) /\ Phased(y) /\ Shaped(y)
    BY <1>1, TurnRanges, TurnPhased, TurnShaped
<1>3. Lined(y) /\ Prompted(y) /\ Frozen(y) /\ Viewed(y)
    BY <1>1, <1>2, TurnLined, TurnPrompted, TurnFrozen, TurnViewed
<1>. QED
    BY <1>2, <1>3 DEF Followed

-----------------------------------------------------------------------------
\* The steps that are not a turn of the session.

\* An event that is ignored.
LEMMA IgnoredFollowed ==
    ASSUME NEW n \in StepType, NEW y, NEW e, n.fifo # <<>>, e = Head(n.fifo),
           e.run \notin {0, n.m.run} \/ e.kind = "KVM", e.kind \notin {"COMPONENT", "BROKER"},
           Followed(n), y = [n EXCEPT !.fifo = Tail(n.fifo)]
    PROVE  Followed(y)
<1>1. /\ y.st = n.st /\ y.p = n.p /\ y.ui = n.ui /\ y.reading = n.reading /\ y.m = n.m
      /\ y.fifo = Tail(n.fifo)
    BY DEF StepType
<1>2. /\ n.fifo \in Seq(EventType) /\ n.m.run \in Nat /\ e \in EventType
    BY HeadTailProperties DEF StepType, MachineType
<1>3. e.kind \notin {"LINE", "BROKER"} /\ ~(e.kind = "RUNTIME" /\ e.run \in {0, n.m.run})
    BY <1>2, EventFields
<1>4. Carries(n.fifo, y.fifo, n.m.run)
    BY <1>1, <1>2, <1>3, CarriesTail
<1>5. /\ Ranges(n) /\ Phased(n) /\ Shaped(n) /\ Lined(n) /\ Prompted(n) /\ Frozen(n) /\ Viewed(n)
    BY DEF Followed
<1>6. Phased(y)
    BY <1>1, <1>4, <1>5, PhasedCarries
<1>7. Ranges(y)
    BY <1>1, <1>2, <1>5, QueueTail DEF Ranges
<1>8. Shaped(y)
    <2>1. Before(Completed(n.fifo), Reports(n.fifo, n.m.run)) =>
             Before(Completed(y.fifo), Reports(y.fifo, n.m.run))
        BY <1>1, <1>2, QueueTail
    <2>. QED
        BY <1>1, <1>5, <2>1 DEF Shaped
<1>9. Lined(y)
    <2>1. /\ Lines(n.fifo) = {} <=> Lines(y.fifo) = {}
          /\ AtMostOne(Lines(n.fifo)) => AtMostOne(Lines(y.fifo))
          /\ Brokers(n.fifo) = {} <=> Brokers(y.fifo) = {}
          /\ Before(Lines(n.fifo), Brokers(n.fifo)) => Before(Lines(y.fifo), Brokers(y.fifo))
        BY <1>1, <1>2, <1>3, QueueTail
    <2>. QED
        BY <1>1, <1>5, <2>1 DEF Lined
<1>10. Prompted(y) /\ Frozen(y)
    BY <1>1, <1>5 DEF Prompted, Frozen
<1>11. Viewed(y)
    <2>1. Drives(n.fifo, n.m.run) # {} => Drives(y.fifo, n.m.run) # {}
        BY <1>1, <1>2, QueueTail
    <2>2. FrameShown(n) => FrameShown(y)
        BY <1>1 DEF FrameShown
    <2>. QED
        BY <1>1, <1>5, <2>1, <2>2 DEF Viewed
<1>. QED
    BY <1>6, <1>7, <1>8, <1>9, <1>10, <1>11 DEF Followed

\* An event of the machine or of a native surface is queued.
Pushed(n, y, c) ==
    /\ y.st = n.st /\ y.p = n.p /\ y.ui = n.ui /\ y.reading = n.reading
    /\ y.fifo = Append(n.fifo, c)

\* The event, and the machine after it: its run goes on.
Reporting(c, n, value) == c.kind = "RUNTIME" /\ c.run = n.m.run /\ c.value = value
Became(n, y, state, job) ==
    /\ y.m \in MachineType /\ y.m.state = state /\ y.m.job = job /\ y.m.run = n.m.run

LEMMA PushedFollowed ==
    ASSUME NEW n \in StepType, NEW y, NEW c \in EventType, Pushed(n, y, c), y.m \in MachineType,
           c.kind \in {"RUNTIME", "FRAME", "KVM"}, c.run <= n.m.run,
           y.m.run = n.m.run, n.m.seq <= y.m.seq, Followed(n)
    PROVE  Ranges(y) /\ Shaped(y) /\ Lined(y) /\ Prompted(y) /\ Frozen(y)
<1>1. /\ y.st = n.st /\ y.p = n.p /\ y.ui = n.ui /\ y.reading = n.reading
      /\ y.fifo = Append(n.fifo, c)
    BY DEF Pushed
<1>2. /\ n.fifo \in Seq(EventType) /\ n.m.run \in Nat /\ n.m.seq \in Nat /\ y.m.seq \in Nat
      /\ n.st.observed \in Nat
    BY DEF StepType, MachineType, StateType
<1>3. Ranges(n) /\ Shaped(n) /\ Lined(n) /\ Prompted(n) /\ Frozen(n)
    BY DEF Followed
<1>4. Ranges(y)
    <2>1. \A i \in DOMAIN y.fifo : y.fifo[i].run <= n.m.run
        BY <1>1, <1>2, <1>3, QueueAppend DEF Ranges
    <2>2. y.st.observed <= y.m.seq
        BY <1>1, <1>2, <1>3 DEF Ranges
    <2>. QED
        BY <1>1, <1>3, <2>1, <2>2 DEF Ranges
<1>5. Shaped(y)
    <2>1. Before(Completed(n.fifo), Reports(n.fifo, n.m.run)) =>
             Before(Completed(y.fifo), Reports(y.fifo, n.m.run))
        BY <1>1, <1>2, QueueAppend
    <2>. QED
        BY <1>1, <1>3, <2>1 DEF Shaped
<1>6. Lined(y)
    <2>1. /\ Lines(y.fifo) = Lines(n.fifo) /\ Brokers(y.fifo) = Brokers(n.fifo)
        BY <1>1, <1>2, QueueAppend
    <2>. QED
        BY <1>1, <1>3, <2>1 DEF Lined
<1>7. Prompted(y) /\ Frozen(y)
    BY <1>1, <1>3 DEF Prompted, Frozen
<1>. QED
    BY <1>4, <1>5, <1>6, <1>7

\* What drives the session hides what the surfaces show.
LEMMA DrivenViewed ==
    ASSUME NEW n \in StepType, NEW y, NEW c \in EventType, Pushed(n, y, c),
           c.kind \in {"RUNTIME", "FRAME"}, c.run = y.m.run
    PROVE  Drives(y.fifo, y.m.run) # {}
<1>1. n.fifo \in Seq(EventType) /\ y.m.run \in Nat /\ y.fifo = Append(n.fifo, c)
    BY EventFields DEF StepType, Pushed
<1>. QED
    BY <1>1, QueueAppend

\* A machine that serves a request has made no report.
LEMMA ServingJob ==
    ASSUME NEW n \in StepType, Phased(n), n.m.job # "NONE"
    PROVE  Serving(n) /\ n.m.job \in Requests /\ n.m.state \notin {"STOPPED", "ERROR"}
<1>1. n.m.job \in Requests
    BY DEF StepType, MachineType
<1>2. Serving(n)
    BY DEF Phased, Idle, Served, Unasked
<1>. QED
    BY <1>1, <1>2 DEF Serving, Serves, Requests

\* The machine completes its request and reports it.
LEMMA CompletedFollowed ==
    ASSUME NEW n \in StepType, NEW y, NEW c \in EventType, Followed(n), n.m.job # "NONE",
           Reporting(c, n, ResultOf(n.m.job)), Pushed(n, y, c),
           Became(n, y, StateOf(ResultOf(n.m.job)), "NONE"), y.m.seq = n.m.seq,
           y.m.pubrun = n.m.pubrun, y.m.graphics = n.m.graphics
    PROVE  Followed(y)
<1>1. Serving(n) /\ n.m.job \in Requests /\ n.m.state \notin {"STOPPED", "ERROR"}
    BY ServingJob DEF Followed
<1>2. /\ n.fifo \in Seq(EventType) /\ n.m \in MachineType /\ n.m.run \in Nat /\ n.m.seq \in Nat
    BY DEF StepType, MachineType
<1>3. c.kind = "RUNTIME" /\ c.run = n.m.run /\ c.value = ResultOf(n.m.job)
    BY DEF Reporting
<1>4. /\ y.m \in MachineType /\ y.m.job = "NONE" /\ y.m.state = StateOf(ResultOf(n.m.job))
      /\ y.m.run = n.m.run
    BY DEF Became
<1>5. Ranges(y) /\ Shaped(y) /\ Lined(y) /\ Prompted(y) /\ Frozen(y)
    <2>1. c.run <= n.m.run /\ n.m.seq <= y.m.seq
        BY <1>2, <1>3, <1>4
    <2>. QED
        BY <1>3, <1>4, <2>1, PushedFollowed
<1>6. Phased(y)
    <2>1. y.p = n.p /\ y.st = n.st /\ y.fifo = Append(n.fifo, c)
        BY DEF Pushed
    <2>2. /\ n.p.request = n.m.job /\ n.p.request # "NONE" /\ Asked(n.p.request, n.st.monitor)
          /\ NoReport(n.fifo, n.m.run)
        BY <1>1 DEF Serving
    <2>3. OneReport(y.fifo, n.m.run, ResultOf(n.m.job))
        BY <1>2, <1>3, <2>1, <2>2, ReportsAppend
    <2>. QED
        BY <1>4, <2>1, <2>2, <2>3 DEF Phased, Served
<1>7. Viewed(y)
    <2>1. Drives(y.fifo, y.m.run) # {}
        BY <1>3, <1>4, DrivenViewed
    <2>2. y.st = n.st /\ Viewed(n)
        BY DEF Pushed, Followed
    <2>. QED
        BY <1>1, <1>4, <2>1, <2>2 DEF Viewed
<1>. QED
    BY <1>5, <1>6, <1>7 DEF Followed

\* The machine fails and reports it.
LEMMA FailedFollowed ==
    ASSUME NEW n \in StepType, NEW y, NEW c \in EventType, Followed(n),
           n.m.state \in {"STARTING", "RUNNING"}, Reporting(c, n, "ERROR"), Pushed(n, y, c),
           Became(n, y, "ERROR", "NONE"), y.m.seq = n.m.seq
    PROVE  Followed(y)
<1>1. /\ n.fifo \in Seq(EventType) /\ n.m \in MachineType /\ n.m.run \in Nat /\ n.m.seq \in Nat
      /\ n.st.monitor \in Runtimes \cup {"INIT"} /\ n.p.request \in Requests \cup {"NONE"}
    BY DEF StepType, MachineType, StateType, PromptType
<1>2. c.kind = "RUNTIME" /\ c.run = n.m.run /\ c.value = "ERROR"
    BY DEF Reporting
<1>3. /\ y.m \in MachineType /\ y.m.job = "NONE" /\ y.m.state = "ERROR" /\ y.m.run = n.m.run
    BY DEF Became
<1>4. Ranges(y) /\ Shaped(y) /\ Lined(y) /\ Prompted(y) /\ Frozen(y)
    <2>1. c.run <= n.m.run /\ n.m.seq <= y.m.seq
        BY <1>1, <1>2, <1>3
    <2>. QED
        BY <1>2, <1>3, <2>1, PushedFollowed
<1>5. Phased(y)
    <2>1. y.p = n.p /\ y.st = n.st /\ y.fifo = Append(n.fifo, c) /\ Phased(n)
        BY DEF Pushed, Followed
    <2>2. /\ NoReport(n.fifo, n.m.run) => OneReport(y.fifo, n.m.run, "ERROR")
          /\ OneReport(n.fifo, n.m.run, "RUNNING") => TwoReports(y.fifo, n.m.run, "RUNNING", "ERROR")
        BY <1>1, <1>2, <2>1, ReportsAppend
    <2>3. CASE Idle(n)
        BY <1>1, <1>3, <2>1, <2>2, <2>3 DEF Idle, Phased, Unasked, Runtimes
    <2>4. CASE Serving(n)
        BY <1>3, <2>1, <2>2, <2>4 DEF Serving, Phased, Served
    <2>5. CASE Served(n)
        <3>1. /\ n.m.state = StateOf(ResultOf(n.p.request)) /\ n.p.request # "NONE"
              /\ OneReport(n.fifo, n.m.run, ResultOf(n.p.request))
              /\ Asked(n.p.request, n.st.monitor)
            BY <2>5 DEF Served
        <3>2. n.p.request \in {"START", "RESUME"} /\ ResultOf(n.p.request) = "RUNNING"
            BY <1>1, <3>1 DEF StateOf, ResultOf, Requests
        <3>. QED
            BY <1>3, <2>1, <2>2, <3>1, <3>2 DEF Phased, Served
    <2>6. ~Unasked(n)
        BY DEF Unasked
    <2>. QED
        BY <2>1, <2>3, <2>4, <2>5, <2>6 DEF Phased
<1>6. Viewed(y)
    <2>1. Drives(y.fifo, y.m.run) # {}
        BY <1>2, <1>3, DrivenViewed
    <2>. QED
        BY <1>3, <2>1 DEF Viewed
<1>. QED
    BY <1>4, <1>5, <1>6 DEF Followed

\* The machine publishes a frame.
LEMMA PublishedFollowed ==
    ASSUME NEW n \in StepType, NEW y, NEW c \in EventType, Followed(n),
           c.kind = "FRAME", c.run = n.m.run, Pushed(n, y, c),
           Became(n, y, n.m.state, n.m.job), y.m.seq = n.m.seq + 1
    PROVE  Followed(y)
<1>1. /\ n.fifo \in Seq(EventType) /\ n.m \in MachineType /\ n.m.run \in Nat /\ n.m.seq \in Nat
      /\ n.st.observed \in Nat
    BY DEF StepType, MachineType, StateType
<1>2. c.run \in {n.m.run} /\ c.kind # "RUNTIME"
    OBVIOUS
<1>3. /\ y.m \in MachineType /\ y.m.job = n.m.job /\ y.m.state = n.m.state
      /\ y.m.run = n.m.run
    BY DEF Became
<1>4. Ranges(y) /\ Shaped(y) /\ Lined(y) /\ Prompted(y) /\ Frozen(y)
    <2>1. c.run <= n.m.run /\ n.m.seq <= y.m.seq
        BY <1>1, <1>2, <1>3
    <2>. QED
        BY <1>2, <1>3, <2>1, PushedFollowed
<1>5. y.p = n.p /\ y.st = n.st /\ y.fifo = Append(n.fifo, c) /\ Phased(n) /\ Ranges(n)
    BY DEF Pushed, Followed
<1>6. Phased(y)
    <2>1. Carries(n.fifo, y.fifo, n.m.run)
        BY <1>1, <1>2, <1>5, CarriesAppend
    <2>. QED
        BY <1>3, <1>5, <2>1, PhasedCarries
<1>7. Viewed(y)
    <2>1. Drives(y.fifo, y.m.run) # {}
        BY <1>2, <1>3, DrivenViewed
    <2>2. y.st.observed # y.m.seq
        BY <1>1, <1>3, <1>5 DEF Ranges
    <2>. QED
        BY <2>1, <2>2 DEF Viewed
<1>. QED
    BY <1>4, <1>6, <1>7 DEF Followed

\* The machine begins a run for a reset.
LEMMA RestartFollowed ==
    ASSUME NEW n \in StepType, NEW y, Followed(n), n.m.job = "RESET", y.st = n.st, y.p = n.p,
           y.ui = n.ui, y.reading = n.reading, y.fifo = n.fifo, y.m = BeginRun(n.m)
    PROVE  Followed(y)
<1>1. /\ n.fifo \in Seq(EventType) /\ n.m \in MachineType /\ n.m.run \in Nat /\ n.m.seq \in Nat
      /\ n.st.observed \in Nat /\ n.ui.run \in Nat
    BY DEF StepType, MachineType, StateType, UiType
<1>2. /\ y.st = n.st /\ y.p = n.p /\ y.ui = n.ui /\ y.reading = n.reading /\ y.fifo = n.fifo
    OBVIOUS
<1>3. /\ y.m.job = "RESET" /\ y.m.state = "STARTING" /\ y.m.run = n.m.run + 1
      /\ y.m.seq = n.m.seq /\ y.m.pubrun = 0
    <2> DEFINE k == n.m.run + 1
    <2>1. k \in Nat
        BY <1>1
    <2>2. y.m = [n.m EXCEPT !.state = "STARTING", !.run = k, !.pubrun = 0, !.graphics = FALSE]
        BY DEF BeginRun
    <2> HIDE DEF k
    <2>3. /\ y.m.job = "RESET" /\ y.m.state = "STARTING" /\ y.m.run = k
          /\ y.m.seq = n.m.seq /\ y.m.pubrun = 0
        BY <1>1, <2>1, <2>2 DEF MachineType
    <2>. QED
        BY <2>3 DEF k
<1>4. /\ Ranges(n) /\ Phased(n) /\ Shaped(n) /\ Lined(n) /\ Prompted(n) /\ Frozen(n)
    BY DEF Followed
<1>5. \A i \in DOMAIN n.fifo : n.fifo[i].run \in Nat /\ n.fifo[i].run <= n.m.run
    <2>1. \A i \in DOMAIN n.fifo : n.fifo[i] \in EventType
        BY <1>1, LenProperties
    <2>. QED
        BY <1>4, <2>1, EventFields DEF Ranges
<1>6. Ranges(y)
    <2>1. \A i \in DOMAIN y.fifo : y.fifo[i].run <= y.m.run
        BY <1>1, <1>2, <1>3, <1>5
    <2>2. y.ui.run <= y.m.run /\ y.st.observed <= y.m.seq
        BY <1>1, <1>2, <1>3, <1>4 DEF Ranges
    <2>. QED
        BY <2>1, <2>2 DEF Ranges
<1>7. Serving(n)
    BY <1>4, ServingJob
<1>8. NoReport(y.fifo, y.m.run)
    <2>1. NoReport(n.fifo, n.m.run)
        BY <1>7 DEF Serving
    <2>2. \A i \in DOMAIN n.fifo : n.fifo[i].run <= n.m.run
        BY <1>5
    <2>3. NoReport(n.fifo, n.m.run + 1)
        BY <1>1, <2>1, <2>2, ReportsOfNewRun
    <2>. QED
        BY <1>2, <1>3, <2>3
<1>9. Phased(y)
    BY <1>2, <1>3, <1>7, <1>8 DEF Serving, Serves, Phased
<1>10. Shaped(y)
    <2>1. Before(Completed(y.fifo), Reports(y.fifo, y.m.run))
        BY <1>8 DEF NoReport, Before
    <2>. QED
        BY <1>2, <1>4, <2>1 DEF Shaped
<1>11. Lined(y) /\ Prompted(y) /\ Frozen(y)
    BY <1>2, <1>4 DEF Lined, Prompted, Frozen
<1>12. Viewed(y)
    <2>1. y.m.pubrun # y.m.run
        BY <1>1, <1>3
    <2>. QED
        BY <2>1 DEF Viewed
<1>. QED
    BY <1>6, <1>9, <1>10, <1>11, <1>12 DEF Followed

\* The user closes the Window, presses the hotkey, or enters the line being read.
LEMMA InputFollowed ==
    ASSUME NEW n \in StepType, NEW y, NEW c \in EventType, Followed(n),
           \/ c.kind = "KVM" /\ c.run = n.ui.run /\ Pushed(n, y, c)
           \/ /\ c.kind = "LINE" /\ n.reading /\ ~y.reading
              /\ y.st = n.st /\ y.p = n.p /\ y.ui = n.ui /\ y.fifo = Append(n.fifo, c),
           y.m = n.m
    PROVE  Followed(y)
<1>1. /\ n.fifo \in Seq(EventType) /\ n.m \in MachineType /\ n.m.run \in Nat /\ n.m.seq \in Nat
    BY DEF StepType, MachineType
<1>2. /\ y.st = n.st /\ y.p = n.p /\ y.ui = n.ui /\ y.fifo = Append(n.fifo, c)
      /\ c.kind \in {"KVM", "LINE"}
    BY DEF Pushed
<1>3. /\ Ranges(n) /\ Phased(n) /\ Shaped(n) /\ Lined(n) /\ Prompted(n) /\ Frozen(n) /\ Viewed(n)
    BY DEF Followed
<1>4. Phased(y)
    <2>1. Carries(n.fifo, y.fifo, n.m.run)
        BY <1>1, <1>2, CarriesAppend
    <2>. QED
        BY <1>2, <1>3, <2>1, PhasedCarries
<1>5. Viewed(y)
    <2>1. Drives(n.fifo, n.m.run) # {} => Drives(y.fifo, n.m.run) # {}
        BY <1>1, <1>2, QueueAppend
    <2>2. FrameShown(n) => FrameShown(y)
        BY <1>2 DEF FrameShown
    <2>. QED
        BY <1>2, <1>3, <2>1, <2>2 DEF Viewed
<1>6. CASE c.kind = "KVM"
    <2>1. c.run <= n.m.run /\ n.m.seq <= y.m.seq /\ Pushed(n, y, c)
        BY <1>1, <1>3, <1>6 DEF Ranges
    <2>2. Ranges(y) /\ Shaped(y) /\ Lined(y) /\ Prompted(y) /\ Frozen(y)
        BY <1>1, <1>6, <2>1, PushedFollowed
    <2>. QED
        BY <1>4, <1>5, <2>2 DEF Followed
<1>7. CASE c.kind = "LINE"
    <2>1. n.reading /\ ~y.reading /\ c.run = 0
        BY <1>7, EventFields
    <2>2. n.p.line /\ Lines(n.fifo) = {} /\ Brokers(n.fifo) = {}
        BY <1>3, <2>1 DEF Lined
    <2>3. Ranges(y)
        <3>1. c.run <= n.m.run
            BY <1>1, <2>1
        <3>2. \A i \in DOMAIN y.fifo : y.fifo[i].run <= n.m.run
            BY <1>1, <1>2, <1>3, <3>1, QueueAppend DEF Ranges
        <3>. QED
            BY <1>2, <1>3, <3>2 DEF Ranges
    <2>4. Lined(y)
        <3>1. /\ Lines(y.fifo) # {} /\ AtMostOne(Lines(y.fifo))
              /\ Before(Lines(y.fifo), Brokers(y.fifo))
            BY <1>1, <1>2, <1>7, <2>2, QueueAppend
        <3>. QED
            BY <1>2, <2>1, <2>2, <3>1 DEF Lined
    <2>5. Shaped(y)
        <3>1. Before(Completed(n.fifo), Reports(n.fifo, n.m.run)) =>
                 Before(Completed(y.fifo), Reports(y.fifo, n.m.run))
            BY <1>1, <1>2, <1>7, QueueAppend
        <3>. QED
            BY <1>2, <1>3, <3>1 DEF Shaped
    <2>6. Prompted(y) /\ Frozen(y)
        BY <1>2, <1>3 DEF Prompted, Frozen
    <2>. QED
        BY <1>4, <1>5, <2>3, <2>4, <2>5, <2>6 DEF Followed
<1>. QED
    BY <1>2, <1>6, <1>7

-----------------------------------------------------------------------------
\* The rest of the invariant is inductive.

\* y is the state after a step.
Becomes(y) ==
    /\ st' = y.st /\ p' = y.p /\ ui' = y.ui /\ reading' = y.reading /\ m' = y.m
    /\ fifo' = y.fifo /\ mode' = mode

LEMMA FollowedNext ==
    ASSUME NEW y, Becomes(y), Followed(y)
    PROVE  Followed(Now)'
<1>1. /\ Now'.st = y.st /\ Now'.p = y.p /\ Now'.ui = y.ui /\ Now'.reading = y.reading
      /\ Now'.m = y.m /\ Now'.fifo = y.fifo /\ mode' = mode
    BY DEF Becomes, Now
<1> HIDE DEF Now
<1>2. Ranges(Now)'
    BY <1>1 DEF Followed, Ranges
<1>3. Phased(Now)'
    BY <1>1 DEF Followed, Phased, Idle, Serving, Served, Unasked
<1>4. Shaped(Now)'
    BY <1>1 DEF Followed, Shaped
<1>5. Lined(Now)'
    BY <1>1 DEF Followed, Lined
<1>6. Prompted(Now)'
    BY <1>1 DEF Followed, Prompted, MonitorIsCurrent, Desired, Plan
<1>7. Frozen(Now)'
    BY <1>1 DEF Followed, Frozen
<1>8. Viewed(Now)'
    BY <1>1 DEF Followed, Viewed, FrameShown
<1>. QED
    BY <1>2, <1>3, <1>4, <1>5, <1>6, <1>7, <1>8 DEF Followed

\* The state before a step, as the record a handler starts from.
LEMMA NowTyped ==
    ASSUME IInv, NEW n, n = Now
    PROVE  /\ n \in StepType
           /\ n.st = st /\ n.p = p /\ n.ui = ui /\ n.reading = reading /\ n.m = m
           /\ n.fifo = fifo /\ n.ended = ended
BY DEF IInv, Typed, Now, StepType

\* What an event changes before the drive.
LEMMA ReduceEffect ==
    ASSUME NEW x \in StepType, NEW e \in EventType, NEW r, r = Reduce(x, e), ~r.ended,
           e.kind = "KVM" => x.st.monitor \in {"RUNNING", "PAUSED"}
    PROVE  Reduced(x, r, e)
<1>1. CASE e.kind = "LINE"
    <2>1. r = SubmitLine(x, e.value)
        BY <1>1 DEF Reduce
    <2>. QED
        BY <1>1, <2>1, LineEffect DEF Reduced
<1>2. CASE e.kind = "KVM"
    <2>1. r = WindowClose(x) \/ r = Hotkey(x)
        BY <1>2 DEF Reduce
    <2>. QED
        BY <1>2, <2>1, InputEffect DEF Reduced
<1>3. CASE e.kind = "RUNTIME"
    <2>1. r = NoteEvent(x, e)
        BY <1>3 DEF Reduce
    <2>. QED
        BY <1>3, <2>1, ReportEffect DEF Reduced
<1>4. CASE e.kind = "FRAME"
    <2>1. r = x
        BY <1>4 DEF Reduce, NoteEvent
    <2>. QED
        BY <1>4, <2>1 DEF Reduced
<1>5. CASE e.kind \in {"COMPONENT", "BROKER"}
    <2>1. r = NoteEvent(x, e)
        BY <1>5 DEF Reduce
    <2>. QED
        BY <1>5, <2>1, CompletionEffect DEF Reduced
<1>. QED
    BY <1>1, <1>2, <1>3, <1>4, <1>5, EventFields

LEMMA TakeFollows ==
    ASSUME FInv, Take, IInv', ~ended', ~dropped'
    PROVE  Followed(Now)'
<1>1. PICK n : n = Now
    OBVIOUS
<1>2. /\ n \in StepType
      /\ n.st = st /\ n.p = p /\ n.ui = ui /\ n.reading = reading /\ n.m = m
      /\ n.fifo = fifo /\ n.ended = ended
    BY <1>1, NowTyped DEF FInv
<1>3. PICK e : e = Head(n.fifo)
    OBVIOUS
<1>4. PICK x : x = [n EXCEPT !.fifo = Tail(n.fifo)]
    OBVIOUS
<1>5. n.fifo # <<>> /\ n.fifo \in Seq(EventType) /\ mode' = mode /\ ~ended
    BY <1>2 DEF Take, StepType
<1>6. e \in EventType /\ Tail(n.fifo) \in Seq(EventType)
    BY <1>3, <1>5, HeadTailProperties
<1>7. /\ x \in StepType /\ x.st = n.st /\ x.p = n.p /\ x.ui = n.ui /\ x.reading = n.reading
      /\ x.m = n.m /\ x.fifo = Tail(n.fifo)
    BY <1>2, <1>4, <1>6 DEF StepType
<1>8. x = [Now EXCEPT !.fifo = Tail(@)] /\ e = Head(fifo)
    BY <1>1, <1>2, <1>3, <1>4
<1>9. CASE Ignored(e)
    <2>1. /\ fifo' = x.fifo /\ UNCHANGED <<st, p, ui, reading, m, ended>>
          /\ dropped' = (dropped \/ e.kind \in {"COMPONENT", "BROKER"})
        BY <1>8, <1>9 DEF Take
    <2>2. ~dropped /\ e.kind \notin {"COMPONENT", "BROKER"}
        BY <2>1
    <2>3. Followed(n)
        BY <1>1, <1>5, <2>2 DEF FInv
    <2>4. e.run \notin {0, n.m.run} \/ e.kind = "KVM"
        BY <1>2, <1>9 DEF Ignored
    <2>5. Followed(x)
        BY <1>2, <1>3, <1>4, <1>5, <2>2, <2>3, <2>4, IgnoredFollowed
    <2>6. Becomes(x)
        BY <1>2, <1>5, <1>7, <2>1 DEF Becomes
    <2>. QED
        BY <2>5, <2>6, FollowedNext
<1>10. CASE ~Ignored(e)
    <2>1. /\ \E reduced \in {Reduce(x, e)} : \E observed \in {Observe(reduced)} :
             \E acted \in {TakeAction(observed)} : \E driven \in {ShowFrame(acted)} :
             \E shown \in {Show(driven, e)} : \E y \in {Prompt(shown, e)} :
                /\ st' = y.st /\ p' = y.p /\ ui' = y.ui /\ reading' = y.reading
                /\ m' = y.m /\ fifo' = y.fifo /\ ended' = y.ended
          /\ dropped' = dropped
        BY <1>8, <1>10 DEF Take
    <2>2. PICK r, o, a, d, s, y :
             /\ r = Reduce(x, e) /\ o = Observe(r) /\ a = TakeAction(o) /\ d = ShowFrame(a)
             /\ s = Show(d, e) /\ y = Prompt(s, e)
             /\ st' = y.st /\ p' = y.p /\ ui' = y.ui /\ reading' = y.reading
             /\ m' = y.m /\ fifo' = y.fifo /\ ended' = y.ended
        BY <2>1
    <2>3. ~y.ended /\ ~dropped /\ Becomes(y)
        BY <1>5, <2>1, <2>2 DEF Becomes
    <2>4. r \in StepType
        BY <1>6, <1>7, <2>2, ReduceKeeps
    <2>5. Drive(r, s, y, e)
        BY <1>6, <2>2, <2>3, <2>4, DriveEffect
    <2>6. ~r.ended
        BY <2>5 DEF Drive
    <2>7. /\ e.run \in {0, n.m.run}
          /\ e.kind = "KVM" => x.st.monitor \in {"RUNNING", "PAUSED"}
        BY <1>2, <1>7, <1>10 DEF Ignored
    <2>8. Reduced(x, r, e)
        BY <1>6, <1>7, <2>2, <2>6, <2>7, ReduceEffect
    <2>9. Sound(n.st, n.ui, n.fifo) /\ Planned(n.st)
        BY <1>2, <1>5, <2>3 DEF FInv, IInv
    <2>10. Sound(r.st, r.ui, r.fifo)
        <3>1. /\ Completion(e) = "NONE" => OnTheWay(Tail(n.fifo), n.st.inflight)
              /\ Completion(e) # "NONE" => /\ n.st.inflight = Completion(e)
                                           /\ OnTheWay(Tail(n.fifo), "NONE")
            BY <1>3, <1>5, <2>9, OnTheWayTail DEF Sound
        <3>2. CASE Completion(e) = "NONE"
            <4>1. Sound(x.st, x.ui, x.fifo)
                BY <1>7, <2>9, <3>1, <3>2 DEF Sound
            <4>. QED
                BY <1>6, <1>7, <2>2, <3>2, <4>1, ReduceKeeps
        <3>3. CASE Completion(e) # "NONE"
            <4>1. x.st.inflight = Completion(e) /\ OnTheWay(x.fifo, "NONE") /\ Known(x.st, x.ui)
                BY <1>7, <2>9, <3>1, <3>3 DEF Sound
            <4>. QED
                BY <1>6, <1>7, <2>2, <3>3, <4>1, ReduceKeeps
        <3>. QED
            BY <3>2, <3>3
    <2>11. y \in StepType /\ Planned(y.st) /\ Sound(y.st, y.ui, y.fifo)
        BY <1>6, <1>7, <2>2, <2>3, <2>10, HandlerKeeps
    <2>12. Known(r.st, r.ui)
        BY <2>10 DEF Sound
    <2>13. Turn(n, x, r, s, y, e)
        BY <1>2, <1>3, <1>5, <1>6, <1>7, <2>4, <2>5, <2>7, <2>8, <2>9, <2>11, <2>12 DEF Turn
    <2>14. Followed(n) /\ mode \in Modes
        BY <1>1, <1>5, <2>3 DEF FInv
    <2>15. Followed(y)
        BY <2>13, <2>14, TurnFollowed
    <2>. QED
        BY <2>3, <2>15, FollowedNext
<1>. QED
    BY <1>9, <1>10

\* The machine and the user.
LEMMA OthersFollow ==
    ASSUME FInv, ~ended', ~dropped',
           \/ Complete \/ Restart \/ Fail \/ Input
           \/ \E graphics \in BOOLEAN : Publish(graphics)
    PROVE  Followed(Now)'
<1>1. PICK n : n = Now
    OBVIOUS
<1>2. /\ n \in StepType
      /\ n.st = st /\ n.p = p /\ n.ui = ui /\ n.reading = reading /\ n.m = m
      /\ n.fifo = fifo /\ n.ended = ended
    BY <1>1, NowTyped DEF FInv
<1>3. /\ n.m \in MachineType /\ n.m.run \in Nat /\ n.m.seq \in Nat /\ n.ui.run \in Nat
    BY <1>2 DEF StepType, MachineType, UiType
<1>4. UNCHANGED <<mode, st, p, ui, ended, dropped>>
    BY DEF Complete, Restart, Fail, Input, Publish, Others
<1>5. Followed(n)
    BY <1>1, <1>4 DEF FInv
<1>6. PICK y : y = [st |-> n.st, p |-> n.p, ui |-> n.ui, reading |-> reading', m |-> m',
                    fifo |-> fifo']
    OBVIOUS
<1>7. /\ y.st = n.st /\ y.p = n.p /\ y.ui = n.ui /\ y.reading = reading' /\ y.m = m'
      /\ y.fifo = fifo'
    BY <1>6
<1>8. Becomes(y)
    BY <1>2, <1>4, <1>7 DEF Becomes
<1>9. SUFFICES Followed(y)
    BY <1>8, FollowedNext
<1>10. CASE Complete
    <2> DEFINE result == CASE m.job = "START" -> "RUNNING"
                           [] m.job = "RESUME" -> "RUNNING"
                           [] m.job = "PAUSE" -> "PAUSED"
                           [] m.job = "STOP" -> "STOPPED"
                           [] m.job = "RESET" -> "RESET_COMPLETED"
                           [] OTHER -> "NONE"
               v == ResultOf(n.m.job)
               c == Event("RUNTIME", n.m.run, v)
    <2>1. m.job # "NONE" /\ Others
        BY <1>10 DEF Complete
    <2>2. n.m.job \in Requests /\ n.m.job # "NONE"
        BY <1>2, <1>3, <2>1 DEF MachineType
    <2>3. result = v /\ v \in Facts /\ StateOf(v) \in Runtimes
        BY <1>2, <2>2 DEF ResultOf, StateOf, Requests, Facts, Runtimes
    <2>4. m' = [m EXCEPT !.job = "NONE",
                   !.state = IF result = "RESET_COMPLETED" THEN "PAUSED" ELSE result]
          /\ fifo' = Append(fifo, Event("RUNTIME", m.run, result))
        BY <1>10 DEF Complete, Push
    <2> HIDE DEF result, v
    <2>5. y.m = [n.m EXCEPT !.job = "NONE", !.state = StateOf(v)]
        BY <1>2, <1>7, <2>3, <2>4 DEF StateOf
    <2>6. /\ Became(n, y, StateOf(v), "NONE") /\ y.m.seq = n.m.seq
          /\ y.m.pubrun = n.m.pubrun /\ y.m.graphics = n.m.graphics
        BY <1>3, <2>3, <2>5 DEF Became, MachineType
    <2>7. c \in EventType /\ Reporting(c, n, v)
        BY <1>3, <2>3 DEF Event, EventType, Reporting
    <2>8. y.fifo = Append(n.fifo, c) /\ y.reading = n.reading
        BY <1>2, <1>7, <2>1, <2>3, <2>4 DEF Others
    <2> HIDE DEF c
    <2>9. Pushed(n, y, c)
        BY <1>7, <2>8 DEF Pushed
    <2>. QED
        BY <1>2, <1>5, <2>2, <2>6, <2>7, <2>9, CompletedFollowed DEF v
<1>11. CASE Restart
    <2>1. m.job = "RESET" /\ m' = BeginRun(m) /\ fifo' = fifo /\ reading' = reading
        BY <1>11 DEF Restart, Others
    <2>2. /\ n.m.job = "RESET" /\ y.m = BeginRun(n.m) /\ y.fifo = n.fifo
          /\ y.reading = n.reading
        BY <1>2, <1>7, <2>1
    <2>. QED
        BY <1>2, <1>5, <1>7, <2>2, RestartFollowed
<1>12. CASE Fail
    <2> DEFINE c == Event("RUNTIME", n.m.run, "ERROR")
    <2>1. /\ m.state \in {"STARTING", "RUNNING"}
          /\ m' = [m EXCEPT !.state = "ERROR", !.job = "NONE"]
          /\ fifo' = Append(fifo, Event("RUNTIME", m.run, "ERROR")) /\ reading' = reading
        BY <1>12 DEF Fail, Push, Others
    <2>2. y.m = [n.m EXCEPT !.state = "ERROR", !.job = "NONE"]
        BY <1>2, <1>7, <2>1
    <2>3. Became(n, y, "ERROR", "NONE") /\ y.m.seq = n.m.seq
        BY <1>3, <2>2 DEF Became, MachineType, Runtimes
    <2>4. c \in EventType /\ Reporting(c, n, "ERROR")
        BY <1>3 DEF Event, EventType, Reporting, Facts, Runtimes
    <2>5. y.fifo = Append(n.fifo, c) /\ y.reading = n.reading
        BY <1>2, <1>7, <2>1
    <2> HIDE DEF c
    <2>6. Pushed(n, y, c)
        BY <1>7, <2>5 DEF Pushed
    <2>. QED
        BY <1>2, <1>5, <2>1, <2>3, <2>4, <2>6, FailedFollowed
<1>13. CASE Input
    <2>1. PICK k \in {"KVM", "LINE"}, run \in Nat, v \in {"close", "hotkey"} \cup Commands :
              /\ fifo' = Append(fifo, Event(k, run, v))
              /\ k = "KVM" => v \in {"close", "hotkey"} /\ run = ui.run /\ reading' = reading
              /\ k = "LINE" => v \in Commands /\ run = 0 /\ reading /\ reading' = FALSE
        BY <1>2, <1>3, <1>13 DEF Input, Push, Commands
    <2> DEFINE c == Event(k, run, v)
    <2>2. c \in EventType /\ c.kind = k /\ c.run = run
        BY <2>1 DEF Event, EventType, Commands
    <2>3. y.fifo = Append(n.fifo, c) /\ y.m = n.m
        BY <1>2, <1>7, <1>13, <2>1 DEF Input
    <2> HIDE DEF c
    <2>4. CASE k = "KVM"
        <3>1. Pushed(n, y, c) /\ c.run = n.ui.run
            BY <1>2, <1>7, <2>1, <2>2, <2>3, <2>4 DEF Pushed
        <3>. QED
            BY <1>2, <1>5, <2>2, <2>3, <2>4, <3>1, InputFollowed
    <2>5. CASE k = "LINE"
        <3>1. n.reading /\ ~y.reading
            BY <1>2, <1>7, <2>1, <2>5
        <3>. QED
            BY <1>2, <1>5, <1>7, <2>2, <2>3, <2>5, <3>1, InputFollowed
    <2>. QED
        BY <2>1, <2>4, <2>5
<1>14. CASE \E graphics \in BOOLEAN : Publish(graphics)
    <2> DEFINE c == Event("FRAME", n.m.run, "")
    <2>1. PICK graphics \in BOOLEAN :
              /\ m' = [m EXCEPT !.seq = @ + 1, !.pubrun = m.run, !.graphics = graphics]
              /\ fifo' = Append(fifo, Event("FRAME", m.run, "")) /\ reading' = reading
        BY <1>14 DEF Publish, Push, Others
    <2>2. PICK k \in Nat : k = n.m.seq + 1
        BY <1>3
    <2>3. y.m = [n.m EXCEPT !.seq = k, !.pubrun = n.m.run, !.graphics = graphics]
        BY <1>2, <1>7, <2>1, <2>2
    <2>4. Became(n, y, n.m.state, n.m.job) /\ y.m.seq = k
        BY <1>3, <2>3 DEF Became, MachineType
    <2>5. c \in EventType /\ c.kind = "FRAME" /\ c.run = n.m.run
        BY <1>3 DEF Event, EventType
    <2>6. y.fifo = Append(n.fifo, c) /\ y.reading = n.reading
        BY <1>2, <1>7, <2>1
    <2> HIDE DEF c
    <2>7. Pushed(n, y, c) /\ y.m.seq = n.m.seq + 1
        BY <1>7, <2>2, <2>4, <2>6 DEF Pushed
    <2>. QED
        BY <1>2, <1>5, <2>4, <2>5, <2>7, PublishedFollowed
<1>. QED
    BY <1>10, <1>11, <1>12, <1>13, <1>14

LEMMA InitFollows ==
    ASSUME Init
    PROVE  FInv
<1>1. IInv /\ mode \in Modes
    BY Initial DEF Init
<1>2. PICK n : n = Now
    OBVIOUS
<1>3. /\ n.st = st /\ n.p = p /\ n.ui = ui /\ n.reading = reading /\ n.m = m /\ n.fifo = fifo
    BY <1>1, <1>2, NowTyped
<1> DEFINE e == Event("RUNTIME", 0, "STOPPED")
<1>4. e.kind = "RUNTIME" /\ e.run = 0 /\ e.value = "STOPPED"
    BY DEF Event
<1>5. n.fifo = <<e>>
    BY <1>3 DEF Init
<1> HIDE DEF e
<1>6. DOMAIN n.fifo = {1} /\ n.fifo[1] = e
    BY <1>5
<1>7. /\ Lines(n.fifo) = {} /\ Brokers(n.fifo) = {} /\ Reports(n.fifo, 0) = {1}
    BY <1>4, <1>6 DEF Lines, Brokers, Reports, At
<1>8. Ranges(n)
    BY <1>3, <1>4, <1>6 DEF Init, Ranges
<1>9. Phased(n)
    <2>1. OneReport(n.fifo, 0, "STOPPED")
        BY <1>4, <1>6, <1>7 DEF OneReport
    <2>2. Before(Reports(n.fifo, 0), Lines(n.fifo))
        BY <1>7 DEF Before
    <2>. QED
        BY <1>3, <2>1, <2>2 DEF Init, Phased, Unasked
<1>10. Shaped(n) /\ Frozen(n)
    BY <1>3 DEF Init, Shaped, Frozen
<1>11. Lined(n)
    BY <1>3, <1>7 DEF Init, Lined, AtMostOne, Before
<1>12. Prompted(n)
    BY <1>3 DEF Init, Prompted, Taken
<1>13. Viewed(n)
    BY <1>3 DEF Init, Viewed
<1>14. Followed(n)
    BY <1>8, <1>9, <1>10, <1>11, <1>12, <1>13 DEF Followed
<1>. QED
    BY <1>1, <1>2, <1>14 DEF FInv

LEMMA FollowedInductive == Spec => []FInv
<1>1. Init => FInv
    BY InitFollows
<1>2. ASSUME FInv, [Next]_vars
      PROVE  FInv'
    <2>1. IInv'
        BY <1>2, Kept DEF FInv
    <2>2. mode' \in Modes
        <3>1. mode' = mode
            BY <1>2 DEF Next, vars, session, Take, Complete, Restart, Fail, Input, Publish, Others
        <3>. QED
            BY <1>2, <3>1 DEF FInv
    <2>3. ASSUME ~ended', ~dropped'
          PROVE  Followed(Now)'
        <3>1. CASE Take
            BY <1>2, <2>1, <2>3, <3>1, TakeFollows
        <3>2. CASE \/ Complete \/ Restart \/ Fail \/ Input
                   \/ \E graphics \in BOOLEAN : Publish(graphics)
            BY <1>2, <2>3, <3>2, OthersFollow
        <3>3. CASE UNCHANGED vars
            <4>1. UNCHANGED <<mode, st, p, ui, reading, m, fifo, ended, dropped, inputs>>
                BY <3>3 DEF vars, session
            <4>2. PICK n : n = Now
                OBVIOUS
            <4>3. Followed(n) /\ IInv
                BY <1>2, <2>3, <4>1, <4>2 DEF FInv
            <4>4. Becomes(n)
                BY <4>1, <4>2, <4>3, NowTyped DEF Becomes
            <4>. QED
                BY <4>3, <4>4, FollowedNext
        <3>. QED
            BY <1>2, <3>1, <3>2, <3>3 DEF Next
    <2>. QED
        BY <2>1, <2>2, <2>3 DEF FInv
<1>. QED
    BY <1>1, <1>2, PTL DEF Spec

\* A session with nothing left to do: no action in flight, no request, the surfaces and
\* the machine as the session knows them.
LEMMA AtRest ==
    ASSUME FInv, Settled, NEW n, n = Now
    PROVE  /\ Followed(n) /\ n \in StepType
           /\ n.st = st /\ n.p = p /\ n.ui = ui /\ n.reading = reading /\ n.m = m /\ n.fifo = fifo
           /\ st.inflight = "NONE" /\ p.request = "NONE" /\ st.monitor = m.state
           /\ st.window = ui.window /\ st.console = ui.console /\ st.current = ui.bound
           /\ Lines(fifo) = {} /\ Brokers(fifo) = {} /\ Drives(fifo, m.run) = {}
           /\ "console" \in Desired(st) => st.console /\ st.current = "VM"
           /\ "console" \notin Desired(st) => st.current = "MONITOR"
           /\ "window" \in Desired(st) /\ st.runtime = "RUNNING" => st.window
           /\ "window" \notin Desired(st) => ~st.window
<1>1. /\ n \in StepType
      /\ n.st = st /\ n.p = p /\ n.ui = ui /\ n.reading = reading /\ n.m = m /\ n.fifo = fifo
    BY NowTyped DEF FInv
<1>2. /\ Followed(n) /\ OnTheWay(fifo, st.inflight) /\ Known(st, ui) /\ Planned(st)
      /\ fifo = <<>> /\ m.job = "NONE"
    BY DEF FInv, IInv, Sound, Settled
<1>3. DOMAIN fifo = {}
    BY <1>2
<1>4. st.inflight = "NONE"
    BY <1>2, <1>3 DEF OnTheWay
<1>5. st.window = ui.window /\ st.console = ui.console /\ st.current = ui.bound
    BY <1>2, <1>4 DEF Known
<1>6. Lines(fifo) = {} /\ Brokers(fifo) = {} /\ Drives(fifo, m.run) = {}
    BY <1>3 DEF Lines, Brokers, Drives, At
<1>7. p.request = "NONE" /\ st.monitor = m.state
    <2>1. \A v, u : ~OneReport(fifo, m.run, v) /\ ~TwoReports(fifo, m.run, v, u)
        BY <1>3 DEF OneReport, TwoReports
    <2>2. ~Serving(n)
        BY <1>1, <1>2 DEF Serving
    <2>3. ~Served(n) /\ ~Unasked(n)
        BY <1>1, <2>1 DEF Served, Unasked
    <2>4. Idle(n)
        BY <1>2, <2>2, <2>3 DEF Followed, Phased
    <2>. QED
        BY <1>1, <2>4 DEF Idle
<1>8. /\ "console" \in Desired(st) => st.console /\ st.current = "VM"
      /\ "console" \notin Desired(st) => st.current = "MONITOR"
      /\ "window" \in Desired(st) /\ st.runtime = "RUNNING" => st.window
      /\ "window" \notin Desired(st) => ~st.window
    BY <1>2, <1>4 DEF Planned, NextAction
<1>. QED
    BY <1>1, <1>2, <1>4, <1>5, <1>6, <1>7, <1>8

-----------------------------------------------------------------------------
\* The theorems.

\* For every configuration and any number of frames, runs and inputs, an action in
\* flight has exactly one completion on its way, and without one the session knows
\* the surfaces as they are (control_state.h: "Until its completion is returned on the
\* control FIFO, no second transition may be emitted").
THEOREM OneCompletionComes == Spec => []OneActionInFlight
<1>1. ASSUME IInv
      PROVE  OneActionInFlight
    <2>1. SUFFICES ASSUME ~ended, ~dropped
                   PROVE  IF st.inflight = "NONE"
                          THEN /\ Coming(fifo) = {}
                               /\ <<st.window, st.console, st.current>>
                                     = <<ui.window, ui.console, ui.bound>>
                          ELSE \E i \in DOMAIN fifo : /\ Coming(fifo) = {i}
                                                      /\ Completion(fifo[i]) = st.inflight
        BY DEF OneActionInFlight, Coming
    <2>2. OnTheWay(fifo, st.inflight) /\ Known(st, ui)
        BY <1>1, <2>1 DEF IInv, Sound
    <2>. QED
        BY <2>2 DEF OnTheWay, Known
<1>. QED
    BY <1>1, Inductive, PTL

\* For every configuration and any number of frames, runs and inputs, a session that
\* has handled every event has no action in flight, knows the surfaces that exist, and
\* they are the ones its plan wants (emulator_session_state_next_action).
THEOREM SurfacesSettle == Spec => []SettledTopology
<1>1. ASSUME IInv
      PROVE  SettledTopology
    <2>1. SUFFICES ASSUME Settled
                   PROVE  /\ st.inflight = "NONE"
                          /\ <<st.window, st.console, st.current>>
                                = <<ui.window, ui.console, ui.bound>>
                          /\ (ui.console \/ ui.bound = "VM") <=> "console" \in Desired(st)
                          /\ ui.window => "window" \in Desired(st)
                          /\ "window" \in Desired(st) /\ st.runtime = "RUNNING" => ui.window
        BY DEF SettledTopology
    <2>2. OnTheWay(fifo, st.inflight) /\ Known(st, ui) /\ Planned(st) /\ fifo = <<>>
        BY <1>1, <2>1 DEF IInv, Sound, Settled
    <2>3. st.inflight = "NONE"
        BY <2>2 DEF OnTheWay
    <2>4. st.window = ui.window /\ st.console = ui.console /\ st.current = ui.bound
        BY <2>2, <2>3 DEF Known
    <2>5. /\ "console" \in Desired(st) => st.console /\ st.current = "VM"
          /\ "console" \notin Desired(st) => ~st.console /\ st.current = "MONITOR"
          /\ "window" \in Desired(st) /\ st.runtime = "RUNNING" => st.window
          /\ "window" \notin Desired(st) => ~st.window
        BY <2>2, <2>3 DEF Planned, NextAction
    <2>. QED
        BY <2>3, <2>4, <2>5
<1>. QED
    BY <1>1, Inductive, PTL

\* For every configuration and any number of frames, runs and inputs, a session that
\* has handled every event and whose monitor has the console reads a line: no report,
\* completion or text leaves the user without a prompt (emulator_session_arm_if_ready).
THEOREM PromptsAreOffered == Spec => []PromptIsOffered
<1>1. ASSUME FInv
      PROVE  PromptIsOffered
    <2>1. SUFFICES ASSUME Settled, ui.bound = "MONITOR"
                   PROVE  reading
        BY DEF PromptIsOffered
    <2>2. PICK n : n = Now
        OBVIOUS
    <2>3. /\ Prompted(n) /\ Lined(n) /\ n.st = st /\ n.p = p /\ n.reading = reading
          /\ n.fifo = fifo /\ st.inflight = "NONE" /\ p.request = "NONE"
          /\ st.current = "MONITOR" /\ Lines(fifo) = {} /\ Brokers(fifo) = {}
          /\ "console" \in Desired(st) => st.current = "VM"
        BY <1>1, <2>1, <2>2, AtRest DEF Followed
    <2>4. MonitorIsCurrent(st) /\ ~Taken(st)
        BY <2>3 DEF MonitorIsCurrent, Taken
    <2>5. p.line
        BY <2>3, <2>4 DEF Prompted
    <2>. QED
        BY <2>3, <2>5 DEF Lined
<1>. QED
    BY <1>1, FollowedInductive, PTL

\* For every configuration and any number of frames, runs and inputs, a session that
\* has handled every event shows the machine as it is: the Window is frozen exactly
\* while it is paused (running with console_control apart), and each surface has the
\* last frame of the run (emulator_session_drive, emulator_ui_set_state).
THEOREM ViewsSettle == Spec => []SettledView
<1>1. ASSUME FInv
      PROVE  SettledView
    <2>1. SUFFICES ASSUME Settled, m.state \in {"RUNNING", "PAUSED"}
                   PROVE  /\ ui.window /\ (m.state = "PAUSED" \/ ~mode.console_control) =>
                                ui.frozen = (m.state = "PAUSED")
                          /\ ui.window /\ m.pubrun = m.run => ui.wseq = m.seq
                          /\ ui.bound = "VM" /\ m.pubrun = m.run =>
                                IF m.graphics THEN ui.status ELSE ~ui.status /\ ui.cseq = m.seq
        BY DEF SettledView
    <2>2. PICK n : n = Now
        OBVIOUS
    <2>3. /\ Frozen(n) /\ Viewed(n) /\ Shaped(n) /\ n.st = st /\ n.ui = ui /\ n.m = m
          /\ n.fifo = fifo /\ n \in StepType
          /\ st.inflight = "NONE" /\ st.monitor = m.state
          /\ st.window = ui.window /\ Drives(fifo, m.run) = {}
          /\ "console" \in Desired(st) => st.console /\ st.current = "VM"
          /\ "window" \notin Desired(st) => ~st.window
        BY <1>1, <2>1, <2>2, AtRest DEF Followed
    <2>4. st.runtime = m.state
        BY <2>1, <2>3 DEF Shaped
    <2>5. ui \in UiType
        BY <2>3 DEF StepType
    <2>6. ASSUME ui.window, m.state = "PAUSED"
          PROVE  ui.frozen
        BY <2>3, <2>4, <2>6 DEF Frozen
    <2>7. ASSUME ui.window, m.state = "RUNNING", ~mode.console_control, ui.frozen
          PROVE  FALSE
        <3>1. /\ mode.display = "CONSOLE" /\ st.runtime = "RUNNING"
              /\ st.current = "MONITOR" \/ ~st.frame
            BY <2>3, <2>4, <2>7 DEF Frozen
        <3>2. "window" \in Desired(st)
            BY <2>3, <2>7
        <3>3. "console" \in Desired(st) /\ st.frame
            BY <2>7, <3>1, <3>2 DEF Desired, Plan
        <3>. QED
            BY <2>3, <3>1, <3>3
    <2>8. ui.window /\ (m.state = "PAUSED" \/ ~mode.console_control) =>
             ui.frozen = (m.state = "PAUSED")
        <3>1. CASE m.state = "PAUSED"
            <4>1. ui.window => ui.frozen = TRUE
                BY <2>5, <2>6, <3>1 DEF UiType
            <4>. QED
                BY <3>1, <4>1
        <3>2. CASE m.state = "RUNNING"
            <4>1. ui.window /\ ~mode.console_control => ui.frozen = FALSE
                BY <2>5, <2>7, <3>2 DEF UiType
            <4>. QED
                BY <3>2, <4>1
        <3>. QED
            BY <2>1, <3>1, <3>2
    <2>9. m.pubrun = m.run => FrameShown(n)
        BY <2>1, <2>3 DEF Viewed
    <2>. QED
        BY <2>3, <2>8, <2>9 DEF FrameShown
<1>. QED
    BY <1>1, FollowedInductive, PTL
=============================================================================
