-------------------------- MODULE MachineStepProofs --------------------------
(***************************************************************************)
(* What the helpers and the steps of Machine do to single flags, slots and *)
(* events.  Each fact is proved once here, from the types, so that the     *)
(* invariants of MachineSafetyProofs need not reason about updated records *)
(* and functions.                                                          *)
(***************************************************************************)
EXTENDS MachineTypeProofs

-----------------------------------------------------------------------------
\* The helpers: one flag is stored, and no other.
LEMMA SetEffect ==
    ASSUME Typed, NEW k \in Flags, NEW b, Set(k, b)
    PROVE  flag'[k] = b /\ \A j \in Flags : j # k => flag'[j] = flag[j]
  BY DEF Typed, FailTypes, Set

\* close_input leaves the queued events alone.
LEMMA CloseInputEffect ==
    ASSUME Typed, CloseInput
    PROVE  ~input'.accepting /\ input'.events = input.events
  BY DEF Typed, FailTypes, CloseInput

\* emulator_machine_fail_sync stops, terminates and cancels the worker.
LEMMA FailSyncEffect ==
    ASSUME Typed, NEW f \in [Flags -> BOOLEAN], FailSyncAfter(f)
    PROVE  /\ state' = "ERROR" /\ cancelled' = TRUE
           /\ flag'["stop"] /\ flag'["terminate"] /\ ~flag'["reset"]
           /\ \A j \in Flags \ {"stop", "terminate", "reset"} : flag'[j] = f[j]
           /\ ~input'.accepting /\ input'.events = input.events
           /\ driver'.capture = driver.capture
<1>1. flag' = [f EXCEPT !["reset"] = FALSE, !["stop"] = TRUE, !["terminate"] = TRUE]
  BY DEF FailSyncAfter
<1>2. /\ flag'["stop"] /\ flag'["terminate"] /\ ~flag'["reset"]
      /\ \A j \in Flags \ {"stop", "terminate", "reset"} : flag'[j] = f[j]
  BY <1>1 DEF Flags
<1>3. driver'.capture = driver.capture
  BY DEF FailSyncAfter, Typed, FailTypes
<1> QED BY <1>2, <1>3, CloseInputEffect DEF FailSyncAfter

\* complete_request answers, or fails with no other effect on the flags.
LEMMA CompleteEffect ==
    ASSUME Typed, NEW es, Complete(es)
    PROVE  \/ signaled' = signaled \cup es /\ UNCHANGED failVars
           \/ /\ Fault /\ signaled' = signaled /\ es # {}
              /\ state' = "ERROR" /\ cancelled' = TRUE
              /\ flag'["stop"] /\ flag'["terminate"] /\ ~flag'["reset"]
              /\ \A j \in Flags \ {"stop", "terminate", "reset"} : flag'[j] = flag[j]
              /\ ~input'.accepting /\ input'.events = input.events
              /\ driver'.capture = driver.capture
<1>1. flag \in [Flags -> BOOLEAN]
  BY DEF Typed, FailTypes
<1> QED BY <1>1, FailSyncEffect DEF Complete, FailSync

\* begin_cold_run and its wake, which may fail.
LEMMA BeginRunEffect ==
    ASSUME Typed, NEW kind, BeginRun(kind)
    PROVE  /\ flag'["start"]
           /\ \/ /\ state' = "STARTING" /\ ~flag'["stop"]
                 /\ flag'["terminate"] = flag["terminate"] /\ flag'["reset"] = flag["reset"]
                 /\ cancelled' = cancelled /\ signaled' = signaled \cup {"command"}
                 /\ faults' = faults
              \/ /\ state' = "ERROR" /\ flag'["stop"] /\ flag'["terminate"]
                 /\ cancelled' = TRUE /\ signaled' = signaled /\ Fault
           /\ input'.accepting => kind = "load" /\ input.accepting
           /\ input'.events = <<>>
           /\ run_generation' = run_generation + 1
           /\ driver'.capture = driver.capture
<1>1. PICK fails \in BOOLEAN :
        /\ IF fails THEN Fault ELSE UNCHANGED faults
        /\ input' = [accepting |-> kind = "load" /\ input.accepting /\ ~fails, events |-> <<>>]
        /\ state' = IF fails THEN "ERROR" ELSE "STARTING"
        /\ flag' = [flag EXCEPT !["pause"] = kind # "start", !["start"] = TRUE,
                      !["restored"] = @ \/ kind = "load",
                      !["reset_active"] = IF kind = "reset" THEN ~fails ELSE @,
                      !["reset"] = @ /\ ~fails, !["stop"] = fails,
                      !["terminate"] = @ \/ fails]
        /\ driver' = [driver EXCEPT !.stop = fails \/ (@ /\ ~(kind = "load"))]
        /\ cancelled' = (cancelled \/ fails)
        /\ signaled' = IF fails THEN signaled ELSE signaled \cup {"command"}
  BY DEF BeginRun, ClearedQueue
<1>2. /\ flag'["start"] /\ flag'["stop"] = fails
      /\ flag'["terminate"] = (flag["terminate"] \/ fails)
      /\ flag'["reset"] = (flag["reset"] /\ ~fails)
  BY <1>1 DEF Typed, FailTypes, Flags
<1>3. driver'.capture = driver.capture
  BY <1>1 DEF Typed, FailTypes
<1>4. input'.events = <<>> /\ input'.accepting = (kind = "load" /\ input.accepting /\ ~fails)
  BY <1>1
<1>5. run_generation' = run_generation + 1 /\ lease_current' = FALSE
  BY DEF BeginRun
<1>6. cancelled \in BOOLEAN /\ flag["terminate"] \in BOOLEAN /\ flag["reset"] \in BOOLEAN
  BY DEF Typed, FailTypes, Flags
<1>7. CASE fails
  BY <1>1, <1>2, <1>3, <1>4, <1>5, <1>7
<1>8. CASE ~fails
  BY <1>1, <1>2, <1>3, <1>4, <1>5, <1>6, <1>8
<1> QED BY <1>7, <1>8

\* service_state_read arms the capture, and asks for the pause with its result.
LEMMA StateReadEffect ==
    ASSUME Typed, NEW capture \in Captures, NEW f \in [Flags -> BOOLEAN],
           ServiceStateRead(capture, f)
    PROVE  /\ req'.requested = req.requested /\ req'.waiting = req.waiting
           /\ req'.continuing = req.continuing /\ req'.debugged = req.debugged
           /\ \A j \in Flags : j # "pause" => flag'[j] = f[j]
           /\ \/ /\ Taken("state_read")
                 /\ req'.armed
                 /\ req'.ready = (req.ready \/ capture = "ready")
                 /\ flag'["pause"] = (f["pause"] \/ req'.ready)
              \/ /\ ~Taken("state_read")
                 /\ req'.armed = req.armed /\ req'.ready = req.ready /\ flag'["pause"] = f["pause"]
                 /\ driver' = driver
<1>1. CASE Taken("state_read")
  <2>1. /\ req' = [req EXCEPT !.armed = TRUE, !.ready = req.ready \/ capture = "ready"]
        /\ flag' = [f EXCEPT !["pause"] = @ \/ (req.ready \/ capture = "ready")]
    BY <1>1 DEF ServiceStateRead, PausesWhen
  <2>2. /\ req'.requested = req.requested /\ req'.waiting = req.waiting
        /\ req'.continuing = req.continuing /\ req'.debugged = req.debugged
        /\ req'.armed /\ req'.ready = (req.ready \/ capture = "ready")
    BY <2>1 DEF Typed, RequestTypes
  <2>3. \A j \in Flags : j # "pause" => flag'[j] = f[j]
    BY <2>1
  <2>4. flag'["pause"] = (f["pause"] \/ (req.ready \/ capture = "ready"))
    BY <2>1 DEF Flags
  <2> QED BY <1>1, <2>2, <2>3, <2>4
<1>2. CASE ~Taken("state_read")
  BY <1>2 DEF ServiceStateRead
<1> QED BY <1>1, <1>2

\* complete_state_read clears the capture and leaves the other slots alone.
LEMMA ReadDoneEffect ==
    ASSUME Typed
    PROVE  /\ ReadDone(req).requested = req.requested \ {"state_read"}
           /\ ~ReadDone(req).armed /\ ~ReadDone(req).ready
           /\ ReadDone(req).waiting = req.waiting
           /\ ReadDone(req).continuing = req.continuing
           /\ ReadDone(req).debugged = req.debugged
  BY DEF Typed, RequestTypes, ReadDone

\* finish_requests begins: the worker remembers why, and an ERROR it finds.
LEMMA FinishEffect ==
    ASSUME Typed, NEW why, NEW terminal, Finish(why, terminal)
    PROVE  /\ wpc' = "settle" /\ w'.why = why
           /\ w'.terminal = IF state = "ERROR" THEN "ERROR" ELSE terminal
           /\ w'.notified = w.notified
           /\ ~input'.accepting /\ input'.events = input.events
           /\ cpc' = cpc /\ op' = op
<1>1. /\ w'.why = why /\ w'.notified = w.notified
      /\ w'.terminal = IF state = "ERROR" THEN "ERROR" ELSE terminal
  BY DEF Finish, Typed, WorkerTypes
<1> QED BY <1>1, CloseInputEffect DEF Finish, controlVars

-----------------------------------------------------------------------------
\* The steps in terms of single flags and slots.
Keeps(S) == \A j \in S : flag'[j] = flag[j]

KeepsSlots ==
    /\ req'.armed = req.armed /\ req'.ready = req.ready
    /\ req'.waiting = req.waiting /\ req'.continuing = req.continuing

\* emulator_machine_fail_sync, which leaves the flags S alone.
Fails(S) ==
    /\ Fault /\ state' = "ERROR" /\ cancelled' = TRUE
    /\ flag'["stop"] /\ flag'["terminate"] /\ ~flag'["reset"] /\ Keeps(S)
    /\ ~input'.accepting /\ input'.events = input.events
    /\ driver'.capture = driver.capture

\* complete_request
Completes(es) ==
    \/ signaled' = signaled \cup es /\ UNCHANGED failVars
    \/ Fails({"pause", "start"}) /\ signaled' = signaled /\ es # {}

\* A request is claimed and answered.
Answers(r) ==
    /\ r \in req.requested /\ ~flag["terminate"]
    /\ req'.requested = req.requested \ {r} /\ KeepsSlots
    /\ req'.debugged = IF r = "debug" THEN DebugAllowed ELSE req.debugged
    /\ Completes({Completion(r)})

\* complete_request in these terms.
LEMMA CompletesEffect ==
    ASSUME Typed, NEW es, Complete(es)
    PROVE  Completes(es)
  BY CompleteEffect DEF Completes, Fails, Keeps, Flags

\* service_media and service_debug answer the request they claim.
LEMMA AnswersEffect ==
    ASSUME Typed
    PROVE  (ServiceMedia => Answers("media")) /\ (ServiceDebug => Answers("debug"))
<1>1. ASSUME ServiceMedia PROVE Answers("media")
  <2>1. "media" \in req.requested /\ ~flag["terminate"] /\ Complete({"media"})
    BY <1>1 DEF ServiceMedia, Taken
  <2>2. req'.requested = req.requested \ {"media"} /\ KeepsSlots /\ req'.debugged = req.debugged
    BY <1>1 DEF ServiceMedia, Typed, RequestTypes, KeepsSlots
  <2> QED BY <2>1, <2>2, CompletesEffect DEF Answers, Completion
<1>2. ASSUME ServiceDebug PROVE Answers("debug")
  <2>1. "debug" \in req.requested /\ ~flag["terminate"] /\ Complete({"debug"})
    BY <1>2 DEF ServiceDebug, Taken
  <2>2. req'.requested = req.requested \ {"debug"} /\ KeepsSlots /\ req'.debugged = DebugAllowed
    BY <1>2 DEF ServiceDebug, Typed, RequestTypes, KeepsSlots
  <2> QED BY <2>1, <2>2, CompletesEffect DEF Answers, Completion
<1> QED BY <1>1, <1>2

\* One pass of the worker over the requests outside a run.
LEMMA WorkerServeStep ==
    ASSUME Typed, WorkerServe
    PROVE  /\ wpc = "serve" /\ UNCHANGED <<w, facts, cpc, op>>
           /\ \/ /\ flag["terminate"] /\ wpc' = "exit"
                 /\ UNCHANGED <<failVars, runVars, req, signaled>>
              \/ Answers("debug") /\ wpc' = "serve" /\ UNCHANGED runVars
              \/ Answers("media") /\ wpc' = "wait" /\ UNCHANGED runVars
              \/ Answers("state_write") /\ wpc' = "wait" /\ UNCHANGED runVars
              \/ /\ "state_write" \in req.requested /\ ~flag["terminate"] /\ wpc' = "wait"
                 /\ req'.requested = req.requested \ {"state_write"} /\ req'.waiting
                 /\ req'.armed = req.armed /\ req'.ready = req.ready
                 /\ req'.continuing = req.continuing /\ req'.debugged = req.debugged
                 /\ BeginRun("load")
              \/ /\ ~flag["terminate"] /\ req.requested \cap {"debug", "media", "state_write"} = {}
                 /\ wpc' = IF flag["start"] THEN "boot" ELSE "wait"
                 /\ ~flag'["start"] /\ Keeps(Flags \ {"start"})
                 /\ UNCHANGED <<runVars, req, signaled, state, input, driver, cancelled, faults>>
<1>1. wpc = "serve" /\ UNCHANGED <<w, facts, cpc, op>>
  BY DEF WorkerServe, controlVars
<1>2. CASE /\ flag["terminate"] /\ wpc' = "exit"
           /\ UNCHANGED <<failVars, runVars, req, signaled>>
  BY <1>1, <1>2
<1>3. CASE ServiceDebug /\ wpc' = "serve" /\ UNCHANGED runVars
  BY <1>1, <1>3, AnswersEffect
<1>4. CASE ServiceMedia /\ wpc' = "wait" /\ UNCHANGED runVars
  BY <1>1, <1>4, AnswersEffect
<1>5. CASE /\ Taken("state_write") /\ wpc' = "wait"
           /\ req' = [req EXCEPT !.requested = @ \ {"state_write"}]
           /\ Complete({"state"}) /\ UNCHANGED runVars
  <2>1. /\ req'.requested = req.requested \ {"state_write"}
        /\ KeepsSlots /\ req'.debugged = req.debugged
    BY <1>5 DEF Typed, RequestTypes, KeepsSlots
  <2> QED BY <1>1, <1>5, <2>1, CompletesEffect DEF Answers, Taken, Completion
<1>6. CASE /\ Taken("state_write") /\ wpc' = "wait"
           /\ req' = [req EXCEPT !.requested = @ \ {"state_write"}, !.waiting = TRUE]
           /\ BeginRun("load")
  <2>1. /\ req'.requested = req.requested \ {"state_write"} /\ req'.waiting
        /\ req'.armed = req.armed /\ req'.ready = req.ready
        /\ req'.continuing = req.continuing /\ req'.debugged = req.debugged
    BY <1>6 DEF Typed, RequestTypes
  <2> QED BY <1>1, <1>6, <2>1 DEF Taken
<1>7. CASE /\ ~flag["terminate"] /\ req.requested \cap {"debug", "media", "state_write"} = {}
           /\ wpc' = IF flag["start"] THEN "boot" ELSE "wait"
           /\ Set("start", FALSE)
           /\ UNCHANGED <<runVars, req, signaled, state, input, driver, cancelled, faults>>
  BY <1>1, <1>7, SetEffect DEF Keeps, Flags
<1> QED BY <1>2, <1>3, <1>4, <1>5, <1>6, <1>7 DEF WorkerServe

\* finish_requests stores the state and empties the slots.
LEMMA WorkerSettleStep ==
    ASSUME Typed, WorkerSettle
    PROVE  /\ wpc = "settle" /\ wpc' = IF w.why = "restart" THEN "restart" ELSE "notify"
           /\ UNCHANGED <<w, runVars, facts, cpc, op>>
           /\ req'.requested = {} /\ ~req'.waiting /\ req'.debugged = req.debugged
           /\ \/ "state_read" \in req.requested /\ ~req'.armed /\ ~req'.ready /\ ~req'.continuing
              \/ /\ "state_read" \notin req.requested /\ req'.armed = req.armed
                 /\ req'.ready = req.ready /\ req'.continuing = req.continuing
           /\ \/ /\ state' = w.terminal /\ signaled' = signaled \cup Waiters
                 /\ UNCHANGED <<flag, input, driver, cancelled, faults>>
              \/ Waiters # {} /\ Fails({"pause", "start"}) /\ signaled' = signaled
<1>1. /\ wpc = "settle" /\ wpc' = IF w.why = "restart" THEN "restart" ELSE "notify"
      /\ UNCHANGED <<w, runVars, facts, cpc, op>>
  BY DEF WorkerSettle, WorkerGoto, controlVars
<1>2. req' = [(IF "state_read" \in req.requested
               THEN [ReadDone(req) EXCEPT !.continuing = FALSE] ELSE req)
                EXCEPT !.requested = {}, !.waiting = FALSE]
  BY DEF WorkerSettle
<1>3. /\ req'.requested = {} /\ ~req'.waiting /\ req'.debugged = req.debugged
      /\ \/ "state_read" \in req.requested /\ ~req'.armed /\ ~req'.ready /\ ~req'.continuing
         \/ /\ "state_read" \notin req.requested /\ req'.armed = req.armed
            /\ req'.ready = req.ready /\ req'.continuing = req.continuing
  <2>1. CASE "state_read" \in req.requested
    BY <1>2, <2>1 DEF ReadDone, Typed, RequestTypes
  <2>2. CASE "state_read" \notin req.requested
    BY <1>2, <2>2 DEF Typed, RequestTypes
  <2> QED BY <2>1, <2>2
<1>4. \/ /\ state' = w.terminal /\ signaled' = signaled \cup Waiters
         /\ UNCHANGED <<flag, input, driver, cancelled, faults>>
      \/ Waiters # {} /\ Fails({"pause", "start"}) /\ signaled' = signaled
  <2>1. flag \in [Flags -> BOOLEAN]
    BY DEF Typed, FailTypes
  <2>2. CASE Waiters # {} /\ Fault /\ FailSync /\ UNCHANGED signaled
    BY <2>1, <2>2, FailSyncEffect DEF FailSync, Fails, Keeps, Flags
  <2> QED BY <2>2 DEF WorkerSettle
<1> QED BY <1>1, <1>3, <1>4

\* The callback arms or polls a capture, and closes or drains the input.
LEMMA CallbackEntryStep ==
    ASSUME Typed, CallbackEntry
    PROVE  /\ wpc = "callback" /\ wpc' = "publish"
           /\ UNCHANGED <<runVars, signaled, facts, state, cancelled, faults, cpc, op>>
           /\ ~w'.suppress
           /\ req'.requested = req.requested /\ req'.waiting = req.waiting
           /\ req'.continuing = req.continuing /\ req'.debugged = req.debugged
           /\ Keeps({"stop", "start", "reset", "terminate"})
           /\ flag["pause"] => flag'["pause"]
           /\ \/ /\ "state_read" \in req.requested /\ ~flag["terminate"] /\ req'.armed
                 /\ req.ready \/ (req.armed /\ driver.capture = "ready") => req'.ready
                 /\ req'.ready => flag'["pause"]
              \/ /\ ~("state_read" \in req.requested /\ ~flag["terminate"])
                 /\ req'.armed = req.armed /\ req'.ready = req.ready
                 /\ driver' = driver
           /\ \/ ~input'.accepting /\ input'.events = input.events
              \/ /\ ~flag'["pause"] /\ ~flag["stop"] /\ input'.accepting = input.accepting
                 /\ state # "RUNNING" => input' = input
<1>1. /\ wpc = "callback" /\ wpc' = "publish"
      /\ UNCHANGED <<runVars, signaled, facts, state, cancelled, faults, cpc, op>>
  BY DEF CallbackEntry, WorkerGoto, controlVars
<1>2. ~w'.suppress
  BY DEF CallbackEntry, Typed, WorkerTypes
<1>3. PICK hit \in {FALSE, DebugStops /\ ~flag["debug_cancel"]}, capture \in Captures :
         ServiceStateRead(capture, [flag EXCEPT !["debug_cancel"] = FALSE,
                                                !["pause"] = @ \/ hit])
  BY DEF CallbackEntry
<1> DEFINE f == [flag EXCEPT !["debug_cancel"] = FALSE, !["pause"] = @ \/ hit]
<1>4. f \in [Flags -> BOOLEAN]
  BY OptionsAssumption DEF Typed, FailTypes, Flags
<1>5. /\ f["stop"] = flag["stop"] /\ f["start"] = flag["start"] /\ f["reset"] = flag["reset"]
      /\ f["terminate"] = flag["terminate"] /\ f["pause"] = (flag["pause"] \/ hit)
  BY DEF Typed, FailTypes, Flags
<1>6. ServiceStateRead(capture, f)
  BY <1>3
<1>7. Captures = IF req.armed THEN {driver.capture} ELSE {"ready", "busy"}
  BY DEF Captures
<1> HIDE DEF f
<1>8. /\ req'.requested = req.requested /\ req'.waiting = req.waiting
      /\ req'.continuing = req.continuing /\ req'.debugged = req.debugged
      /\ \A j \in Flags : j # "pause" => flag'[j] = f[j]
      /\ \/ /\ Taken("state_read")
            /\ req'.armed
            /\ req'.ready = (req.ready \/ capture = "ready")
            /\ flag'["pause"] = (f["pause"] \/ req'.ready)
         \/ /\ ~Taken("state_read")
            /\ req'.armed = req.armed /\ req'.ready = req.ready /\ flag'["pause"] = f["pause"]
            /\ driver' = driver
  BY <1>4, <1>6, StateReadEffect
<1>9. Keeps({"stop", "start", "reset", "terminate"})
  BY <1>5, <1>8 DEF Keeps, Flags
<1>10. flag["pause"] => flag'["pause"]
  BY <1>5, <1>8
<1>11. \/ /\ "state_read" \in req.requested /\ ~flag["terminate"] /\ req'.armed
          /\ req.ready \/ (req.armed /\ driver.capture = "ready") => req'.ready
          /\ req'.ready => flag'["pause"]
       \/ /\ ~("state_read" \in req.requested /\ ~flag["terminate"])
          /\ req'.armed = req.armed /\ req'.ready = req.ready
          /\ driver' = driver
  BY <1>7, <1>8 DEF Taken
<1>12. \/ ~input'.accepting /\ input'.events = input.events
       \/ /\ ~flag'["pause"] /\ ~flag["stop"] /\ input'.accepting = input.accepting
          /\ state # "RUNNING" => input' = input
  <2>1. CASE Frozen /\ CloseInput
    BY <2>1, CloseInputEffect
  <2>2. CASE /\ ~Frozen
             /\ input' = IF state = "RUNNING" /\ input.events # <<>>
                         THEN [input EXCEPT !.events = Tail(@)] ELSE input
    <3>1. input'.accepting = input.accepting
      BY <2>2 DEF Typed, FailTypes
    <3>2. ~flag'["pause"] /\ ~flag["stop"]
      BY <2>2 DEF Frozen
    <3>3. state # "RUNNING" => input' = input
      BY <2>2
    <3> QED BY <3>1, <3>2, <3>3
  <2> QED BY <2>1, <2>2 DEF CallbackEntry
<1> QED BY <1>1, <1>2, <1>8, <1>9, <1>10, <1>11, <1>12

\* publish goes on to the pause or the guest, or fails the run.
LEMMA CallbackPublishStep ==
    ASSUME Typed, CallbackPublish
    PROVE  /\ wpc = "publish"
           /\ UNCHANGED <<run_generation, lease_current, signaled, facts, cancelled, faults, cpc, op>>
           /\ req'.requested = req.requested /\ req'.waiting = req.waiting
           /\ req'.armed = req.armed /\ req'.ready = req.ready /\ req'.debugged = req.debugged
           /\ driver'.capture = driver.capture
           /\ \/ /\ wpc' = IF flag["pause"] /\ ~flag["stop"] THEN "park" ELSE "quantum"
                 /\ UNCHANGED <<state, flag, input>>
                 /\ w'.suppress = (req.continuing /\ req.ready)
                 /\ req'.continuing = (req.continuing /\ ~req.ready)
              \/ /\ wpc' = "quantum" /\ state' = "ERROR" /\ flag'["stop"]
                 /\ Keeps({"pause", "start", "terminate"}) /\ req' = req
                 /\ ~input'.accepting /\ input'.events = input.events
<1>1. /\ wpc = "publish"
      /\ UNCHANGED <<run_generation, lease_current, signaled, facts, cancelled, faults, cpc, op>>
  BY DEF CallbackPublish, controlVars
<1>2. CASE /\ wpc' = IF flag["pause"] /\ ~flag["stop"] THEN "park" ELSE "quantum"
           /\ w' = [w EXCEPT !.suppress = CaptureEnds]
           /\ req' = [req EXCEPT !.continuing = @ /\ ~CaptureEnds]
           /\ UNCHANGED <<state, flag, input, driver>>
  <2>1. w'.suppress = (req.continuing /\ req.ready)
    BY <1>2 DEF CaptureEnds, Typed, WorkerTypes
  <2>2. /\ req'.requested = req.requested /\ req'.waiting = req.waiting
        /\ req'.armed = req.armed /\ req'.ready = req.ready /\ req'.debugged = req.debugged
        /\ req'.continuing = (req.continuing /\ ~(req.continuing /\ req.ready))
    BY <1>2 DEF CaptureEnds, Typed, RequestTypes
  <2>3. req.continuing \in BOOLEAN /\ req.ready \in BOOLEAN
    BY DEF Typed, RequestTypes
  <2>4. req'.continuing = (req.continuing /\ ~req.ready)
    BY <2>2, <2>3
  <2> QED BY <1>1, <1>2, <2>1, <2>2, <2>4
<1>3. CASE /\ wpc' = "quantum" /\ CloseInput /\ state' = "ERROR"
           /\ flag' = [flag EXCEPT !["reset"] = FALSE, !["stop"] = TRUE]
           /\ driver' = [driver EXCEPT !.stop = TRUE]
           /\ UNCHANGED <<w, req, frame_generation>>
  <2>1. flag'["stop"] /\ Keeps({"pause", "start", "terminate"})
    BY <1>3 DEF Keeps, Flags, Typed, FailTypes
  <2>2. driver'.capture = driver.capture
    BY <1>3 DEF Typed, FailTypes
  <2> QED BY <1>1, <1>3, <2>1, <2>2, CloseInputEffect
<1> QED BY <1>2, <1>3 DEF CallbackPublish

\* The pause is reported and a finished capture, or a restored run, answered.
LEMMA CallbackParkFactStep ==
    ASSUME Typed, CallbackParkFact
    PROVE  /\ wpc = "park_fact" /\ wpc' = "parked" /\ UNCHANGED <<w, runVars, cpc, op>>
           /\ ~req'.waiting /\ req'.continuing = req.continuing /\ req'.debugged = req.debugged
           /\ \/ /\ req.ready /\ "state_read" \in req.requested
                 /\ req'.requested = req.requested \ {"state_read"} /\ ~req'.armed /\ ~req'.ready
              \/ /\ ~(req.ready /\ "state_read" \in req.requested)
                 /\ req'.requested = req.requested
                 /\ req'.armed = req.armed /\ req'.ready = req.ready
           /\ \/ /\ \/ /\ (req.ready /\ "state_read" \in req.requested) \/ req.waiting
                       /\ signaled' = signaled \cup {"state"}
                    \/ /\ ~((req.ready /\ "state_read" \in req.requested) \/ req.waiting)
                       /\ signaled' = signaled
                 /\ Keeps({"pause", "stop", "start", "reset", "terminate"})
                 /\ UNCHANGED <<state, input, driver, cancelled, faults>>
              \/ /\ (req.ready /\ "state_read" \in req.requested) \/ req.waiting
                 /\ Fails({"pause", "start"}) /\ signaled' = signaled
<1> DEFINE read == req.ready /\ "state_read" \in req.requested
<1>1. wpc = "park_fact" /\ wpc' = "parked" /\ UNCHANGED <<w, runVars, cpc, op>>
  BY DEF CallbackParkFact, WorkerGoto, controlVars
<1>2. req' = [(IF read THEN ReadDone(req) ELSE req) EXCEPT !.waiting = FALSE]
  BY DEF CallbackParkFact
<1>3. /\ ~req'.waiting /\ req'.continuing = req.continuing /\ req'.debugged = req.debugged
      /\ \/ /\ read
            /\ req'.requested = req.requested \ {"state_read"} /\ ~req'.armed /\ ~req'.ready
         \/ /\ ~read
            /\ req'.requested = req.requested
            /\ req'.armed = req.armed /\ req'.ready = req.ready
  <2>1. CASE read
    BY <1>2, <2>1 DEF ReadDone, Typed, RequestTypes
  <2>2. CASE ~read
    BY <1>2, <2>2 DEF Typed, RequestTypes
  <2> QED BY <2>1, <2>2
<1>4. flag \in [Flags -> BOOLEAN] /\ "reset_active" \in Flags
  BY DEF Typed, FailTypes, Flags
<1>5. \/ /\ \/ (read \/ req.waiting) /\ signaled' = signaled \cup {"state"}
            \/ ~(read \/ req.waiting) /\ signaled' = signaled
         /\ Keeps({"pause", "stop", "start", "reset", "terminate"})
         /\ UNCHANGED <<state, input, driver, cancelled, faults>>
      \/ (read \/ req.waiting) /\ Fails({"pause", "start"}) /\ signaled' = signaled
  <2>1. CASE /\ signaled' = signaled \cup (IF read \/ req.waiting THEN {"state"} ELSE {})
             /\ Set("reset_active", FALSE)
             /\ UNCHANGED <<state, input, driver, cancelled, faults>>
    <3>1. Keeps({"pause", "stop", "start", "reset", "terminate"})
      BY <1>4, <2>1, SetEffect DEF Keeps, Flags
    <3> QED BY <2>1, <3>1
  <2>2. CASE /\ read \/ req.waiting
             /\ Fault /\ FailSyncAfter([flag EXCEPT !["reset_active"] = FALSE])
             /\ UNCHANGED signaled
    <3> DEFINE f == [flag EXCEPT !["reset_active"] = FALSE]
    <3>1. f \in [Flags -> BOOLEAN] /\ \A j \in Flags \ {"reset_active"} : f[j] = flag[j]
      BY <1>4
    <3>2. FailSyncAfter(f)
      BY <2>2
    <3> HIDE DEF f
    <3> QED BY <2>2, <3>1, <3>2, FailSyncEffect DEF Fails, Keeps, Flags
  <2> QED BY <2>1, <2>2 DEF CallbackParkFact
<1> QED BY <1>1, <1>3, <1>5

\* The event that woke the executor is reset.
LEMMA CallbackWokenStep ==
    ASSUME Typed, CallbackWoken
    PROVE  /\ UNCHANGED <<w, runVars, req, facts, cpc, op>>
           /\ \/ /\ wpc = "resume_woken" /\ wpc' = "parked"
                 /\ signaled' = signaled \ {"resume"} /\ UNCHANGED failVars
              \/ /\ wpc = "command_woken" /\ wpc' = "park_serve"
                 /\ signaled' = signaled \ {"command"}
                 /\ Keeps({"pause", "stop", "start", "reset", "terminate"})
                 /\ UNCHANGED <<state, input, driver, cancelled, faults>>
              \/ /\ wpc \in {"resume_woken", "command_woken"} /\ wpc' = "unpark"
                 /\ Fails({"pause", "start"}) /\ signaled' = signaled
<1>1. flag \in [Flags -> BOOLEAN] /\ "debug_cancel" \in Flags
  BY DEF Typed, FailTypes, Flags
<1>2. UNCHANGED <<w, runVars, req, facts, cpc, op>>
  BY DEF CallbackWoken, WorkerGoto, controlVars
<1>3. CASE /\ WorkerGoto("resume_woken", "parked") /\ EventReset("resume") /\ UNCHANGED failVars
  BY <1>2, <1>3 DEF WorkerGoto, EventReset
<1>4. CASE /\ WorkerGoto("command_woken", "park_serve") /\ EventReset("command")
           /\ Set("debug_cancel", FALSE)
           /\ UNCHANGED <<state, input, driver, cancelled, faults>>
  BY <1>1, <1>2, <1>4, SetEffect DEF WorkerGoto, EventReset, Keeps, Flags
<1>5. CASE /\ WorkerGoto("resume_woken", "unpark") \/ WorkerGoto("command_woken", "unpark")
           /\ Fault /\ FailSync /\ UNCHANGED signaled
  BY <1>1, <1>2, <1>5, FailSyncEffect DEF WorkerGoto, FailSync, Fails, Keeps, Flags
<1> QED BY <1>3, <1>4, <1>5 DEF CallbackWoken

\* The parked executor serves one request.
LEMMA CallbackParkServeStep ==
    ASSUME Typed, CallbackParkServe
    PROVE  /\ wpc = "park_serve" /\ wpc' = "park_read" /\ UNCHANGED <<w, runVars, facts, cpc, op>>
           /\ \/ Answers("media") \/ Answers("debug")
              \/ /\ flag["terminate"] \/ ("media" \notin req.requested /\ "debug" \notin req.requested)
                 /\ UNCHANGED <<state, input, signaled, cancelled, faults>>
                 /\ req'.requested = req.requested /\ req'.waiting = req.waiting
                 /\ req'.continuing = req.continuing /\ req'.debugged = req.debugged
                 /\ Keeps({"stop", "start", "reset", "terminate"})
                 /\ flag["pause"] => flag'["pause"]
                 /\ \/ /\ "state_read" \in req.requested /\ ~flag["terminate"] /\ req'.armed
                       /\ req.ready => req'.ready
                       /\ req'.ready => flag'["pause"]
                    \/ /\ ~("state_read" \in req.requested /\ ~flag["terminate"])
                       /\ req'.armed = req.armed /\ req'.ready = req.ready
                       /\ flag'["pause"] = flag["pause"] /\ driver' = driver
<1>1. wpc = "park_serve" /\ wpc' = "park_read" /\ UNCHANGED <<w, runVars, facts, cpc, op>>
  BY DEF CallbackParkServe, WorkerGoto, controlVars
<1>2. CASE ServiceMedia
  BY <1>1, <1>2, AnswersEffect
<1>3. CASE ServiceDebug
  BY <1>1, <1>3, AnswersEffect
<1>4. CASE /\ ~Taken("media") /\ ~Taken("debug")
           /\ \E capture \in Captures : ServiceStateRead(capture, flag)
           /\ UNCHANGED <<state, input, signaled, cancelled, faults>>
  <2>1. flag \in [Flags -> BOOLEAN]
    BY DEF Typed, FailTypes
  <2>2. PICK capture \in Captures : ServiceStateRead(capture, flag)
    BY <1>4
  <2>3. /\ req'.requested = req.requested /\ req'.waiting = req.waiting
        /\ req'.continuing = req.continuing /\ req'.debugged = req.debugged
        /\ \A j \in Flags : j # "pause" => flag'[j] = flag[j]
        /\ \/ /\ Taken("state_read")
              /\ req'.armed
              /\ req'.ready = (req.ready \/ capture = "ready")
              /\ flag'["pause"] = (flag["pause"] \/ req'.ready)
           \/ /\ ~Taken("state_read")
              /\ req'.armed = req.armed /\ req'.ready = req.ready /\ flag'["pause"] = flag["pause"]
              /\ driver' = driver
    BY <2>1, <2>2, StateReadEffect
  <2>4. Keeps({"stop", "start", "reset", "terminate"})
    BY <2>3 DEF Keeps, Flags
  <2> QED BY <1>1, <1>4, <2>3, <2>4 DEF Taken
<1> QED BY <1>2, <1>3, <1>4 DEF CallbackParkServe

\* The parked executor answers a finished capture, or leaves the pause for it.
LEMMA CallbackParkReadStep ==
    ASSUME Typed, CallbackParkRead
    PROVE  /\ wpc = "park_read" /\ wpc' = "parked" /\ UNCHANGED <<w, runVars, facts, cpc, op>>
           /\ \/ "state_read" \notin req.requested /\ UNCHANGED <<failVars, req, signaled>>
              \/ /\ "state_read" \in req.requested /\ req.ready
                 /\ req'.requested = req.requested \ {"state_read"}
                 /\ ~req'.armed /\ ~req'.ready
                 /\ req'.waiting = req.waiting /\ req'.continuing = req.continuing
                 /\ req'.debugged = req.debugged
                 /\ Completes({"state"})
              \/ /\ "state_read" \in req.requested /\ ~req.ready
                 /\ req'.requested = req.requested /\ req'.continuing
                 /\ req'.armed = req.armed /\ req'.ready = req.ready
                 /\ req'.waiting = req.waiting /\ req'.debugged = req.debugged
                 /\ ~flag'["pause"] /\ Keeps(Flags \ {"pause"})
                 /\ UNCHANGED <<state, input, driver, cancelled, faults, signaled>>
<1>1. wpc = "park_read" /\ wpc' = "parked" /\ UNCHANGED <<w, runVars, facts, cpc, op>>
  BY DEF CallbackParkRead, WorkerGoto, controlVars
<1>2. CASE "state_read" \notin req.requested /\ UNCHANGED <<failVars, req, signaled>>
  BY <1>1, <1>2
<1>3. CASE /\ "state_read" \in req.requested /\ req.ready
           /\ req' = ReadDone(req) /\ Complete({"state"})
  BY <1>1, <1>3, ReadDoneEffect, CompletesEffect
<1>4. CASE /\ "state_read" \in req.requested /\ ~req.ready
           /\ req' = [req EXCEPT !.continuing = TRUE] /\ Set("pause", FALSE)
           /\ UNCHANGED <<state, input, driver, cancelled, faults, signaled>>
  <2>1. /\ req'.requested = req.requested /\ req'.continuing
        /\ req'.armed = req.armed /\ req'.ready = req.ready
        /\ req'.waiting = req.waiting /\ req'.debugged = req.debugged
    BY <1>4 DEF Typed, RequestTypes
  <2>2. ~flag'["pause"] /\ Keeps(Flags \ {"pause"})
    BY <1>4, SetEffect DEF Keeps, Flags
  <2> QED BY <1>1, <1>4, <2>1, <2>2
<1> QED BY <1>2, <1>3, <1>4 DEF CallbackParkRead

\* submit_request registers and wakes, or refuses.
LEMMA SubmitStep ==
    ASSUME Typed, Submit
    PROVE  /\ cpc = "submit" /\ UNCHANGED <<workerVars, sessionVars>>
           /\ UNCHANGED <<runVars, facts, state, flag, input, driver, cancelled>>
           /\ \/ /\ Admitted(op) /\ cpc' = "await" /\ op' = op /\ op \in Requests
                 /\ req'.requested = req.requested \cup {op} /\ KeepsSlots /\ ~req'.debugged
                 /\ signaled' = (signaled \ {Completion(op)}) \cup {"command"}
                 /\ faults' = faults
              \/ /\ cpc' = "idle" /\ op' = None /\ UNCHANGED <<req, signaled>>
                 /\ (~Admitted(op) /\ UNCHANGED faults) \/ Fault
<1>1. /\ cpc = "submit" /\ UNCHANGED <<workerVars, sessionVars>>
      /\ UNCHANGED <<runVars, facts, state, flag, input, driver, cancelled>>
  BY DEF Submit, ControlGoto
<1>2. CASE /\ Admitted(op) /\ ControlGoto("submit", "await")
           /\ req' = [req EXCEPT !.requested = @ \cup {op}, !.debugged = FALSE]
           /\ signaled' = (signaled \ {Completion(op)}) \cup {"command"}
           /\ UNCHANGED <<op, faults>>
  <2>1. req'.requested = req.requested \cup {op} /\ KeepsSlots /\ ~req'.debugged
    BY <1>2 DEF Typed, RequestTypes, KeepsSlots
  <2>2. op \in Requests
    BY <1>1 DEF Typed, ControlTypes
  <2> QED BY <1>1, <1>2, <2>1, <2>2 DEF ControlGoto
<1>3. CASE /\ (~Admitted(op) /\ UNCHANGED faults) \/ Fault
           /\ ControlGoto("submit", "idle") /\ Returns /\ UNCHANGED <<req, signaled>>
  BY <1>1, <1>3 DEF ControlGoto, Returns
<1> QED BY <1>2, <1>3 DEF Submit

\* Releasing a pause wakes the executor, or fails.
LEMMA ReleasePauseEffect ==
    ASSUME Typed, NEW to, ReleasePause(to)
    PROVE  /\ ~flag'["pause"]
           /\ \/ /\ Keeps({"stop", "start", "reset", "terminate"}) /\ cpc' = to
                 /\ signaled' = signaled \cup {"resume"}
                 /\ UNCHANGED <<state, input, driver, cancelled, faults>>
              \/ /\ Fails({"start"}) /\ signaled' = signaled
                 /\ cpc' = IF op = "exit" THEN "terminate" ELSE "refused"
<1>1. "pause" \in Flags /\ flag \in [Flags -> BOOLEAN]
  BY DEF Typed, FailTypes, Flags
<1>2. CASE Set("pause", FALSE) /\ WakeParked /\ cpc' = to
           /\ UNCHANGED <<state, input, driver, cancelled, faults>>
  <2>1. ~flag'["pause"] /\ Keeps({"stop", "start", "reset", "terminate"})
    BY <1>1, <1>2, SetEffect DEF Keeps, Flags
  <2> QED BY <1>2, <2>1 DEF WakeParked
<1>3. CASE /\ Fault /\ FailSyncAfter([flag EXCEPT !["pause"] = FALSE])
           /\ cpc' = IF op = "exit" THEN "terminate" ELSE "refused"
           /\ UNCHANGED signaled
  <2> DEFINE f == [flag EXCEPT !["pause"] = FALSE]
  <2>1. f \in [Flags -> BOOLEAN] /\ FailSyncAfter(f)
    BY <1>1, <1>3, FlagTypes
  <2>2. ~f["pause"] /\ f["start"] = flag["start"]
    BY <1>1 DEF Flags
  <2> HIDE DEF f
  <2>3. /\ flag'["stop"] /\ flag'["terminate"] /\ ~flag'["reset"]
        /\ flag'["pause"] = f["pause"] /\ flag'["start"] = f["start"]
    BY <2>1, FailSyncEffect DEF Flags
  <2>4. ~flag'["pause"] /\ Keeps({"start"})
    BY <2>2, <2>3 DEF Keeps
  <2>5. Fails({"start"})
    BY <1>3, <2>1, <2>3, <2>4, FailSyncEffect DEF Fails
  <2> QED BY <1>3, <2>4, <2>5
<1> QED BY <1>2, <1>3 DEF ReleasePause

\* What resume and the stop of a live run share: the pause is released.
Released(to) ==
    /\ ~flag'["pause"]
    /\ \/ /\ Keeps({"stop", "start", "reset", "terminate"}) /\ cpc' = to
          /\ signaled' = signaled \cup {"resume"}
          /\ UNCHANGED <<state, input, driver, cancelled, faults>>
       \/ /\ Fails({"start"}) /\ signaled' = signaled
          /\ cpc' \in {"terminate", "refused"}

\* emulator_machine_resume releases the pause of a PAUSED machine.
LEMMA CallResumeStep ==
    ASSUME Typed, CallResume
    PROVE  /\ cpc = "idle" /\ state = "PAUSED" /\ op' = None /\ Released("idle")
           /\ UNCHANGED <<req, wpc, w, run_generation, facts>>
<1>1. /\ cpc = "idle" /\ state = "PAUSED" /\ op' = None /\ ReleasePause("idle")
      /\ UNCHANGED <<req, wpc, w, run_generation, facts>>
  BY DEF CallResume, Dispatch, workerVars, Accepted, Returns
<1> QED BY <1>1, ReleasePauseEffect DEF Released

\* The second half of stop and reset releases the pause of the old run.
LEMMA StopPauseStep ==
    ASSUME Typed, StopPause
    PROVE  /\ cpc = "stop_pause" /\ op' = op /\ Released("stop_driver")
           /\ UNCHANGED <<req, wpc, w, run_generation, facts>>
<1>1. /\ cpc = "stop_pause" /\ op' = op /\ ReleasePause("stop_driver")
      /\ UNCHANGED <<req, wpc, w, run_generation, facts>>
  BY DEF StopPause, workerVars, runVars
<1> QED BY <1>1, ReleasePauseEffect DEF Released

\* The control thread's own stores to the flags.
LEMMA CallPauseStep ==
    ASSUME Typed, CallPause
    PROVE  /\ cpc = "idle" /\ state = "RUNNING" /\ cpc' = "idle" /\ op' = None
           /\ flag'["pause"] /\ Keeps({"stop", "start", "reset", "terminate"})
           /\ UNCHANGED <<req, wpc, w, runVars, facts, signaled, state, input, driver, cancelled,
                          faults>>
<1>1. /\ cpc = "idle" /\ state = "RUNNING" /\ cpc' = "idle" /\ op' = None /\ Set("pause", TRUE)
      /\ UNCHANGED <<req, wpc, w, runVars, facts, signaled, state, input, driver, cancelled,
                     faults>>
  BY DEF CallPause, Dispatch, workerVars, Accepted, Returns
<1>2. flag'["pause"] /\ Keeps({"stop", "start", "reset", "terminate"})
  BY <1>1, SetEffect DEF Keeps, Flags
<1> QED BY <1>1, <1>2

\* emulator_machine_stop marks a live run, and ignores a stopped machine.
LEMMA CallStopStep ==
    ASSUME Typed, CallStop
    PROVE  /\ cpc = "idle"
           /\ UNCHANGED <<req, wpc, w, run_generation, facts, signaled, state, input, driver,
                          cancelled, faults>>
           /\ \/ cpc' = "idle" /\ op' = None /\ flag' = flag
              \/ /\ cpc' = "stop_pause" /\ op' = "stop"
                 /\ flag'["stop"] /\ Keeps({"pause", "start", "reset", "terminate"})
<1>1. /\ cpc = "idle"
      /\ UNCHANGED <<req, wpc, w, run_generation, facts, signaled, state, input, driver,
                     cancelled, faults>>
      /\ \/ cpc' = "idle" /\ op' = None /\ flag' = flag
         \/ cpc' = "stop_pause" /\ op' = "stop" /\ Set("stop", TRUE)
  BY DEF CallStop, Dispatch, workerVars, Returns, failVars
<1>2. CASE cpc' = "idle" /\ op' = None /\ flag' = flag
  BY <1>1, <1>2
<1>3. CASE cpc' = "stop_pause" /\ op' = "stop" /\ Set("stop", TRUE)
  <2>1. flag'["stop"] /\ Keeps({"pause", "start", "reset", "terminate"})
    BY <1>3, SetEffect DEF Keeps, Flags
  <2> QED BY <1>1, <1>3, <2>1
<1> QED BY <1>1, <1>2, <1>3

\* emulator_machine_reset begins a run of a stopped machine, and marks a live one.
LEMMA CallResetStep ==
    ASSUME Typed, CallReset
    PROVE  /\ cpc = "idle" /\ UNCHANGED <<req, wpc, w, facts>>
           /\ \/ /\ state = "STOPPED" /\ BeginRun("reset") /\ op' = None
                 /\ cpc' \in {"refused", "idle"}
              \/ /\ cpc' = "reset_stop" /\ op' = "reset"
                 /\ Keeps({"pause", "stop", "start", "reset", "terminate"})
                 /\ UNCHANGED <<run_generation, signaled, state, input, driver, cancelled, faults>>
<1>1. /\ cpc = "idle" /\ UNCHANGED <<req, wpc, w, facts>>
      /\ \/ /\ state = "STOPPED" /\ BeginRun("reset") /\ op' = None
            /\ cpc' \in {"refused", "idle"}
         \/ /\ cpc' = "reset_stop" /\ op' = "reset" /\ Set("reset_active", TRUE)
            /\ UNCHANGED <<run_generation, signaled, state, input, driver, cancelled, faults>>
  BY DEF CallReset, Dispatch, workerVars, Returns
<1>2. Set("reset_active", TRUE) => Keeps({"pause", "stop", "start", "reset", "terminate"})
  BY SetEffect DEF Keeps, Flags
<1> QED BY <1>1, <1>2

\* debug_cancel wakes the worker, or fails.
LEMMA DebugCancelStep ==
    ASSUME Typed, DebugCancel
    PROVE  /\ cpc = "idle" /\ cpc' = "idle" /\ UNCHANGED <<op, req, wpc, w, runVars, facts>>
           /\ \/ /\ Keeps({"pause", "stop", "start", "reset", "terminate"})
                 /\ signaled' = signaled \cup {"command"}
                 /\ UNCHANGED <<state, input, driver, cancelled, faults>>
              \/ Fails({"pause", "start"}) /\ signaled' = signaled
<1>1. /\ cpc = "idle" /\ cpc' = "idle" /\ UNCHANGED <<op, req, wpc, w, runVars, facts>>
      /\ \/ /\ Set("debug_cancel", TRUE) /\ signaled' = signaled \cup {"command"}
            /\ UNCHANGED <<state, input, driver, cancelled, faults>>
         \/ Fault /\ FailSync /\ signaled' = signaled
  BY DEF DebugCancel, ControlGoto, workerVars
<1>2. Set("debug_cancel", TRUE) => Keeps({"pause", "stop", "start", "reset", "terminate"})
  BY SetEffect DEF Keeps, Flags
<1>3. flag \in [Flags -> BOOLEAN]
  BY DEF Typed, FailTypes
<1>4. Fault /\ FailSync => Fails({"pause", "start"})
  BY <1>3, FailSyncEffect DEF FailSync, Fails, Keeps, Flags
<1> QED BY <1>1, <1>2, <1>4

\* The stop that shutdown begins marks a live run.
LEMMA BeginStopStep ==
    ASSUME Typed, NEW call, NEW unneeded, BeginStop(call, unneeded)
    PROVE  /\ op' = call
           /\ UNCHANGED <<req, wpc, w, run_generation, facts, signaled, state, input, driver,
                          cancelled, faults>>
           /\ \/ state \in {"STOPPED", "ERROR"} /\ cpc' = unneeded /\ flag' = flag
              \/ /\ state \notin {"STOPPED", "ERROR"} /\ cpc' = "stop_pause"
                 /\ flag'["stop"] /\ Keeps({"pause", "start", "reset", "terminate"})
<1>1. /\ op' = call
      /\ UNCHANGED <<req, wpc, w, run_generation, facts, signaled, state, input, driver,
                     cancelled, faults>>
      /\ \/ state \in {"STOPPED", "ERROR"} /\ cpc' = unneeded /\ flag' = flag
         \/ state \notin {"STOPPED", "ERROR"} /\ cpc' = "stop_pause" /\ Set("stop", TRUE)
  BY DEF BeginStop, workerVars
<1>2. Set("stop", TRUE) => flag'["stop"] /\ Keeps({"pause", "start", "reset", "terminate"})
  BY SetEffect DEF Keeps, Flags
<1> QED BY <1>1, <1>2

\* A reset of a live machine asks its run to stop.
LEMMA ResetStopStep ==
    ASSUME Typed, ResetStop
    PROVE  /\ cpc = "reset_stop" /\ cpc' = "stop_pause"
           /\ flag'["stop"] /\ Keeps({"pause", "start", "terminate"})
           /\ UNCHANGED <<op, req, wpc, w, runVars, facts, signaled, state, input, driver,
                          cancelled, faults>>
<1>1. flag'["stop"] /\ Keeps({"pause", "start", "terminate"})
  BY DEF ResetStop, Keeps, Flags, Typed, FailTypes
<1> QED BY <1>1 DEF ResetStop, ControlGoto, workerVars

\* wait_request ends with an answer, a cancellation or a failure.
LEMMA AwaitStep ==
    ASSUME Typed, Await
    PROVE  /\ cpc = "await" /\ UNCHANGED <<req, wpc, w, runVars, facts, signaled>>
           /\ \/ /\ ~cancelled /\ Completion(op) \in signaled /\ cpc' = "idle" /\ op' = None
                 /\ UNCHANGED failVars
              \/ cancelled /\ cpc' = "join" /\ op' = op /\ UNCHANGED failVars
              \/ cpc' = "join" /\ op' = op /\ Fails({"pause", "start"})
<1>1. /\ cpc = "await" /\ UNCHANGED <<req, wpc, w, runVars, facts, signaled>>
      /\ \/ /\ ~cancelled /\ Completion(op) \in signaled /\ cpc' = "idle" /\ op' = None
            /\ UNCHANGED failVars
         \/ cancelled /\ cpc' = "join" /\ op' = op /\ UNCHANGED failVars
         \/ cpc' = "join" /\ op' = op /\ Fault /\ FailSync
  BY DEF Await, ControlGoto, workerVars, Returns
<1>2. flag \in [Flags -> BOOLEAN]
  BY DEF Typed, FailTypes
<1>3. Fault /\ FailSync => Fails({"pause", "start"})
  BY <1>2, FailSyncEffect DEF FailSync, Fails, Keeps, Flags
<1> QED BY <1>1, <1>3

\* Shutdown wakes and cancels the worker.
LEMMA TerminateStep ==
    ASSUME Typed, Terminate
    PROVE  /\ cpc = "terminate" /\ cpc' = "terminate_join"
           /\ flag'["terminate"] /\ Keeps({"pause", "stop", "start", "reset"})
           /\ signaled' = signaled \cup {"resume", "command"} /\ cancelled' = TRUE
           /\ UNCHANGED <<op, req, wpc, w, runVars, facts, state, input, driver, faults>>
<1>1. Set("terminate", TRUE)
  BY DEF Terminate
<1>2. flag'["terminate"] /\ Keeps({"pause", "stop", "start", "reset"})
  BY <1>1, SetEffect DEF Keeps, Flags
<1> QED BY <1>2 DEF Terminate, ControlGoto, workerVars

\* Outside a run the worker resets one event.
LEMMA WorkerWokenStep ==
    ASSUME Typed, WorkerWoken
    PROVE  /\ wpc = "woken" /\ UNCHANGED <<w, runVars, req, facts, cpc, op>>
           /\ \/ /\ wpc' = "serve" /\ signaled' = signaled \ {"command"}
                 /\ Keeps({"pause", "stop", "start", "reset", "terminate"})
                 /\ UNCHANGED <<state, input, driver, cancelled, faults>>
              \/ wpc' = "exit" /\ Fails({"pause", "start"}) /\ signaled' = signaled
<1>1. flag \in [Flags -> BOOLEAN] /\ "debug_cancel" \in Flags
  BY DEF Typed, FailTypes, Flags
<1>2. wpc = "woken" /\ UNCHANGED <<w, runVars, req, facts, cpc, op>>
  BY DEF WorkerWoken, WorkerGoto, controlVars
<1>3. CASE /\ WorkerGoto("woken", "serve") /\ EventReset("command") /\ Set("debug_cancel", FALSE)
           /\ UNCHANGED <<state, input, driver, cancelled, faults>>
  BY <1>1, <1>2, <1>3, SetEffect DEF WorkerGoto, EventReset, Keeps, Flags
<1>4. CASE WorkerGoto("woken", "exit") /\ Fault /\ FailSync /\ UNCHANGED signaled
  BY <1>1, <1>2, <1>4, FailSyncEffect DEF WorkerGoto, FailSync, Fails, Keeps, Flags
<1> QED BY <1>3, <1>4 DEF WorkerWoken

\* The worker settles, remembering why and an ERROR it found.
Settles(why, terminal) ==
    /\ wpc' = "settle" /\ w'.why = why
    /\ w'.terminal = IF state = "ERROR" THEN "ERROR" ELSE terminal
    /\ w'.notified = w.notified
    /\ ~input'.accepting /\ input'.events = input.events

\* The boot of a run settles at once, or goes on.
LEMMA WorkerBootStep ==
    ASSUME Typed, WorkerBoot
    PROVE  /\ wpc = "boot"
           /\ UNCHANGED <<runVars, req, signaled, facts, state, cancelled, faults, cpc, op>>
           /\ Keeps({"pause", "stop", "start", "reset", "terminate"})
           /\ driver'.capture = driver.capture
           /\ \/ Settles("boot", "ERROR")
              \/ flag["stop"] /\ Settles("stopped", "STOPPED")
              \/ ~flag["stop"] /\ wpc' = "enter" /\ UNCHANGED <<w, input>>
<1>1. /\ wpc = "boot"
      /\ UNCHANGED <<runVars, req, signaled, facts, state, cancelled, faults>>
  BY DEF WorkerBoot
<1>2. "restored" \in Flags
  BY DEF Flags
<1>3. CASE ~flag["restored"] /\ Finish("boot", "ERROR") /\ UNCHANGED <<flag, driver>>
  BY <1>1, <1>3, FinishEffect DEF Settles, Keeps
<1>4. CASE /\ Set("restored", FALSE)
           /\ driver' = [driver EXCEPT !.stop = @ /\ flag["restored"]]
           /\ \/ flag["stop"] /\ Finish("stopped", "STOPPED")
              \/ ~flag["stop"] /\ WorkerGoto("boot", "enter") /\ UNCHANGED <<w, input>>
  <2>1. Keeps({"pause", "stop", "start", "reset", "terminate"})
    BY <1>2, <1>4, SetEffect DEF Keeps, Flags
  <2>2. driver'.capture = driver.capture
    BY <1>4 DEF Typed, FailTypes
  <2>3. CASE flag["stop"] /\ Finish("stopped", "STOPPED")
    BY <1>1, <2>1, <2>2, <2>3, FinishEffect DEF Settles
  <2>4. CASE ~flag["stop"] /\ WorkerGoto("boot", "enter") /\ UNCHANGED <<w, input>>
    BY <1>1, <2>1, <2>2, <2>4 DEF WorkerGoto, controlVars
  <2> QED BY <1>4, <2>3, <2>4
<1> QED BY <1>3, <1>4 DEF WorkerBoot

\* A run that ends settles STOPPED, in ERROR, or for a restart of a machine that
\* has not failed.
LEMMA WorkerUnwindStep ==
    ASSUME Typed, WorkerUnwind
    PROVE  /\ wpc = "unwind" /\ driver'.capture = driver.capture
           /\ UNCHANGED <<run_generation, req, signaled, facts, state, cancelled, faults, cpc, op>>
           /\ Keeps({"pause", "stop", "start", "terminate"})
           /\ \/ state # "ERROR" /\ Settles("restart", "STARTING")
              \/ Settles("unwind", "STOPPED")
              \/ Settles("unwind", "ERROR")
<1>1. /\ wpc = "unwind"
      /\ UNCHANGED <<run_generation, req, signaled, facts, state, cancelled, faults>>
  BY DEF WorkerUnwind
<1>2. driver'.capture = driver.capture
  BY DEF WorkerUnwind, Typed, FailTypes
<1>3. "reset" \in Flags
  BY DEF Flags
<1>4. CASE Succeeded /\ flag["reset"] /\ Set("reset", FALSE) /\ Finish("restart", "STARTING")
  <2>1. Keeps({"pause", "stop", "start", "terminate"})
    BY <1>3, <1>4, SetEffect DEF Keeps, Flags
  <2> QED BY <1>1, <1>2, <1>4, <2>1, FinishEffect DEF Settles, Succeeded
<1>5. CASE Succeeded /\ ~flag["reset"] /\ UNCHANGED flag /\ Finish("unwind", "STOPPED")
  BY <1>1, <1>2, <1>5, FinishEffect DEF Settles, Keeps
<1>6. CASE ~Succeeded /\ UNCHANGED flag /\ Finish("unwind", "ERROR")
  BY <1>1, <1>2, <1>6, FinishEffect DEF Settles, Keeps
<1> QED BY <1>4, <1>5, <1>6 DEF WorkerUnwind

\* The worker that exits refuses every later request.
LEMMA WorkerExitStep ==
    ASSUME Typed, WorkerExit
    PROVE  /\ wpc = "exit" /\ Settles("exit", state)
           /\ UNCHANGED <<runVars, req, signaled, facts, state, driver, cancelled, faults, cpc, op>>
           /\ flag'["terminate"] /\ Keeps({"pause", "stop", "start", "reset"})
<1>1. /\ wpc = "exit" /\ Set("terminate", TRUE) /\ Finish("exit", state)
      /\ UNCHANGED <<runVars, req, signaled, facts, state, driver, cancelled, faults>>
  BY DEF WorkerExit
<1>2. flag'["terminate"] /\ Keeps({"pause", "stop", "start", "reset"})
  BY <1>1, SetEffect DEF Keeps, Flags
<1> QED BY <1>1, <1>2, FinishEffect DEF Settles

\* A cancelled or failed wait in the pause stops the run.
LEMMA CallbackParkWaitStep ==
    ASSUME Typed, CallbackParkWait
    PROVE  /\ wpc = "park_wait"
           /\ UNCHANGED <<w, runVars, req, signaled, facts, input, cancelled, cpc, op>>
           /\ driver'.capture = driver.capture
           /\ \/ /\ ~cancelled /\ UNCHANGED <<state, flag, driver, faults>>
                 /\ \/ "resume" \in signaled /\ wpc' = "resume_woken"
                    \/ "command" \in signaled /\ wpc' = "command_woken"
              \/ /\ wpc' = "unpark" /\ flag'["stop"] /\ Keeps({"pause", "start", "terminate"})
                 /\ \/ cancelled /\ UNCHANGED <<state, faults>>
                    \/ Fault /\ state' = "ERROR"
<1>1. /\ wpc = "park_wait"
      /\ UNCHANGED <<w, runVars, req, signaled, facts, input, cancelled, cpc, op>>
  BY DEF CallbackParkWait, WorkerGoto, controlVars
<1>2. CASE /\ ~cancelled /\ signaled \cap {"resume", "command"} # {}
           /\ WorkerGoto("park_wait",
                         IF "resume" \in signaled THEN "resume_woken" ELSE "command_woken")
           /\ UNCHANGED <<state, flag, driver, faults>>
  BY <1>1, <1>2 DEF WorkerGoto
<1>3. CASE /\ \/ cancelled /\ UNCHANGED <<state, faults>>
              \/ Fault /\ state' = "ERROR"
           /\ WorkerGoto("park_wait", "unpark")
           /\ flag' = [flag EXCEPT !["reset"] = FALSE, !["stop"] = TRUE]
           /\ driver' = [driver EXCEPT !.stop = TRUE]
  <2>1. flag'["stop"] /\ Keeps({"pause", "start", "terminate"})
    BY <1>3 DEF Keeps, Flags, Typed, FailTypes
  <2>2. driver'.capture = driver.capture
    BY <1>3 DEF Typed, FailTypes
  <2> QED BY <1>1, <1>3, <2>1, <2>2 DEF WorkerGoto
<1> QED BY <1>2, <1>3 DEF CallbackParkWait

\* A fault is counted, and none is taken back.
LEMMA FaultCounts ==
    ASSUME Typed, Fault
    PROVE  faults' # 0
  BY MaxFaultsAssumption DEF Typed, FailTypes, Fault

\* A caller's completion event is none of those that wake the worker.
LEMMA CompletionEvents ==
    ASSUME Typed, cpc \in {"submit", "await", "join"}
    PROVE  op \in Requests /\ Completion(op) \notin {"command", "resume"}
  BY DEF Typed, ControlTypes, Requests, Completion
=============================================================================
