----------------------------- MODULE PcmStream ------------------------------
(***************************************************************************)
(* The PCM output stream (src/lib/audio/pcm/stream.c) over the Windows     *)
(* endpoint (src/lib/audio/pcm/win32/stream.c).  One owner thread calls    *)
(* the stream's operations one after another, one other thread may call    *)
(* cancel_wait, the stream's worker moves frames from the FIFO to the      *)
(* endpoint, and the endpoint plays them.                                  *)
(*                                                                         *)
(* A step is a region under stream->lock, or one native call outside it.   *)
(* A frame is named by its epoch and its ordinal in that epoch.            *)
(***************************************************************************)
EXTENDS Naturals, Sequences, FiniteSetsExt

CONSTANTS
    Capacity,        \* frames of the FIFO (4096 in the code)
    Batch,           \* frames of a batch (1024)
    MaxSubmission,   \* frames of one enqueue (512)
    EndpointFrames,  \* frames of the endpoint's buffer
    MaxFrames,       \* bound: frames accepted in the first epoch, one fewer in the next
    MaxEpoch,        \* bound: clears
    MaxDisturbances  \* bound: calls of cancel_wait and native failures together

ASSUME SizesAssumption ==
    {Capacity, Batch, MaxSubmission, EndpointFrames} \subseteq Nat \ {0}
ASSUME BoundsAssumption ==
    {MaxFrames, MaxEpoch, MaxDisturbances} \subseteq Nat

VARIABLES
    ring,     \* samples: the frames in the slots of the FIFO
    s,        \* head, count, progress, control, active, failed
    e,        \* the events wake, space, done; the worker's cancellation; wait_cancelled
    d,        \* the endpoint: buffer, submitted, whether it applies the gains last asked
              \* for, render_ready, interruption
    w,        \* the worker's locals
    o,        \* the owner: where it is in which call, what the last call returned,
              \* and whether it ever gave up on a request that was then carried out
    canceller, cancels,  \* the thread in cancel_wait, and its calls so far
    natives   \* native failures so far

shared == <<ring, s, e>>
vars == <<ring, s, e, d, w, o, canceller, cancels, natives>>

Slots == 0..(Capacity - 1)
Frame(epoch, n) == <<epoch, n>>
Silence == Frame(0, 0)

Quiet == cancels + natives >= MaxDisturbances

\* Which of the native calls of a step fails, if any may still fail.
Failing(calls) == {"none"} \cup (IF Quiet THEN {} ELSE calls)
Count(bad) == natives' = natives + (IF bad = "none" THEN 0 ELSE 1)

Looking == [pc |-> "look", gen |-> 0, batch |-> <<>>, accepted |-> 0,
            status |-> "OK", seen |-> <<0, 0>>, after |-> "look", control |-> "NONE"]

\* lib_audio_pcm_stream_create, up to its wait for the worker to attach.
Init ==
    /\ ring = [i \in Slots |-> Silence]
    /\ s = [head |-> 0, count |-> 0, epoch |-> 0, accepted |-> 0, submitted |-> 0,
            consumed |-> 0, control |-> "NONE", active |-> TRUE, failed |-> FALSE]
    /\ e = [wake |-> FALSE, space |-> FALSE, done |-> FALSE,
            cancel |-> FALSE, waitCancelled |-> FALSE]
    /\ d = [buffer |-> <<>>, submitted |-> 0, gained |-> TRUE,
            ready |-> FALSE, interruption |-> FALSE]
    /\ w = [Looking EXCEPT !.pc = "attach"]
    /\ o = [pc |-> "create", op |-> "create", control |-> "NONE",
            signaled |-> FALSE, ret |-> "OK", lost |-> FALSE]
    /\ canceller = "out" /\ cancels = 0 /\ natives = 0

\* audio_pcm_stream_fail_locked: the failure is terminal and cancels the worker.
FailIf(failed) ==
    /\ s' = [s EXCEPT !.failed = @ \/ failed]
    /\ e' = [e EXCEPT !.cancel = @ \/ failed]

-----------------------------------------------------------------------------
\* The worker (audio_pcm_stream_worker).

Attach ==
    /\ w.pc = "attach"
    /\ \E bad \in Failing({"attach", "signal"}) :
         /\ Count(bad)
         /\ s' = [s EXCEPT !.failed = bad # "none"]
         /\ e' = [e EXCEPT !.done = bad # "signal", !.cancel = @ \/ bad = "signal"]
         /\ w' = [Looking EXCEPT !.pc = IF bad = "attach" THEN "ended" ELSE "look"]
         /\ d' = IF bad = "attach" THEN d
                 ELSE [d EXCEPT !.buffer = [i \in 1..EndpointFrames |-> Silence]]
    /\ UNCHANGED <<ring, o, canceller, cancels>>

\* audio_pcm_stream_copy_head.
HeadFrames(n) == [i \in 1..n |-> ring[(s.head + i - 1) % Capacity]]

\* The top of the loop: take a control, a batch, or neither.
Look ==
    /\ w.pc = "look" /\ ~e.cancel
    /\ LET pending == ~s.failed /\ s.submitted > s.consumed
       IN  IF s.control \in {"CLEAR", "GAIN"}
           THEN /\ w' = [Looking EXCEPT !.pc = "native", !.control = s.control]
                /\ s' = [s EXCEPT !.control = "NONE"]
           ELSE /\ w' = IF ~s.failed /\ s.active /\ s.count # 0
                        THEN [Looking EXCEPT !.pc = "write", !.gen = s.epoch,
                                  !.batch = HeadFrames(Min({s.count, Batch}))]
                        ELSE [Looking EXCEPT !.pc = IF pending THEN "progress" ELSE "idle",
                                  !.gen = s.epoch]
                /\ UNCHANGED s
    /\ UNCHANGED <<ring, e, d, o, canceller, cancels, natives>>

\* Where the worker goes once a native wait has returned: out if it is cancelled.
Unless(pc) == IF e.cancel THEN "detach" ELSE pc

\* audio_pcm_stream_wait_event: render_ready comes before interruption, and the
\* wait itself may fail.
WaitEvent(onReady, onInterruption, onError) ==
    \/ /\ d.ready
       /\ d' = [d EXCEPT !.ready = FALSE]
       /\ w' = onReady
       /\ UNCHANGED natives
    \/ /\ ~d.ready /\ d.interruption
       /\ d' = [d EXCEPT !.interruption = FALSE]
       /\ w' = onInterruption
       /\ UNCHANGED natives
    \/ /\ "wait" \in Failing({"wait"}) /\ Count("wait")
       /\ w' = onError
       /\ UNCHANGED d

\* The native side of a clear or a gain; a failed clear may have got anywhere.
Native ==
    /\ w.pc = "native"
    /\ \E bad \in Failing({"control"}) :
         /\ Count(bad)
         /\ LET applied == IF w.control = "GAIN" THEN [d EXCEPT !.gained = TRUE]
                           ELSE [d EXCEPT !.buffer = <<>>, !.submitted = 0,
                                    !.ready = FALSE, !.interruption = FALSE]
            IN  d' \in {applied} \cup (IF bad = "none" THEN {} ELSE {d})
         /\ w' = [w EXCEPT !.pc = "answer", !.status = IF bad = "none" THEN "OK" ELSE "IO"]
    /\ UNCHANGED <<shared, o, canceller, cancels>>

Answer ==
    /\ w.pc = "answer"
    /\ \E bad \in Failing({"signal"}) :
         /\ Count(bad)
         /\ LET failed == w.status = "IO" \/ bad # "none"
            IN  /\ s' = [s EXCEPT !.failed = @ \/ failed]
                /\ e' = [e EXCEPT !.done = @ \/ bad = "none", !.cancel = @ \/ failed]
    /\ w' = Looking
    /\ UNCHANGED <<ring, d, o, canceller, cancels>>

\* Nothing to submit, and the endpoint still plays.
WaitProgress ==
    /\ w.pc = "progress"
    /\ WaitEvent([w EXCEPT !.pc = Unless("observe")],
                 [w EXCEPT !.pc = Unless("look")],
                 [w EXCEPT !.pc = Unless("fault")])
    /\ UNCHANGED <<shared, o, canceller, cancels>>

\* A wait of the worker failed.
Fault ==
    /\ w.pc = "fault"
    /\ FailIf(TRUE)
    /\ w' = Looking
    /\ UNCHANGED <<ring, d, o, canceller, cancels, natives>>

\* audio_pcm_stream_platform_progress: priming silence is never counted.
Consumed == IF d.submitted > Len(d.buffer) THEN d.submitted - Len(d.buffer) ELSE 0

\* audio_pcm_stream_observe_progress: the native part...
Observe ==
    /\ w.pc = "observe"
    /\ \E bad \in Failing({"padding"}) :
         /\ Count(bad)
         /\ w' = [w EXCEPT !.pc = "report",
                      !.seen = IF bad = "none" THEN <<d.submitted, Consumed>> ELSE <<>>]
    /\ UNCHANGED <<shared, d, o, canceller, cancels>>

\* What the endpoint says cannot be true of what the stream gave it.
Inconsistent(seen) ==
    \/ seen = <<>>
    \/ seen[2] > seen[1]
    \/ seen[1] > s.accepted
    \/ seen[1] < s.submitted
    \/ seen[2] < s.consumed

\* Seeded fault: the epoch the observation belongs to is not compared.
ReportAnyEpoch ==
    /\ w.pc = "report"
    /\ IF ~s.failed
       THEN IF Inconsistent(w.seen)
            THEN FailIf(TRUE)
            ELSE /\ s' = [s EXCEPT !.submitted = w.seen[1], !.consumed = w.seen[2]]
                 /\ UNCHANGED e
       ELSE UNCHANGED <<s, e>>
    /\ w' = [w EXCEPT !.pc = w.after]
    /\ UNCHANGED <<ring, d, o, canceller, cancels, natives>>

\* ...and the part under the lock.
Report ==
    /\ w.pc = "report"
    /\ IF s.epoch = w.gen /\ ~s.failed
       THEN IF Inconsistent(w.seen)
            THEN FailIf(TRUE)
            ELSE /\ s' = [s EXCEPT !.submitted = w.seen[1], !.consumed = w.seen[2]]
                 /\ UNCHANGED e
       ELSE UNCHANGED <<s, e>>
    /\ w' = [w EXCEPT !.pc = w.after]
    /\ UNCHANGED <<ring, d, o, canceller, cancels, natives>>

\* Nothing to do: wait for wake or the cancellation.
Idle ==
    /\ w.pc = "idle"
    /\ \/ /\ e.cancel
          /\ w' = [w EXCEPT !.pc = "detach"]
          /\ UNCHANGED <<s, e, natives>>
       \/ /\ ~e.cancel /\ e.wake
          /\ e' = [e EXCEPT !.wake = FALSE]
          /\ w' = Looking
          /\ UNCHANGED <<s, natives>>
       \/ /\ ~e.cancel /\ "wait" \in Failing({"wait"}) /\ Count("wait")
          /\ FailIf(TRUE)
          /\ w' = [w EXCEPT !.pc = "detach"]
    /\ UNCHANGED <<ring, d, o, canceller, cancels>>

\* audio_pcm_stream_platform_wait_writable: is there room, ...
Write ==
    /\ w.pc = "write"
    /\ \E bad \in Failing({"padding"}) :
         /\ Count(bad)
         /\ w' = IF bad # "none" THEN [w EXCEPT !.pc = Unless("commit"), !.status = "IO"]
                 ELSE [w EXCEPT !.pc = IF Len(d.buffer) < EndpointFrames THEN Unless("submit")
                                       ELSE "room"]
    /\ UNCHANGED <<shared, d, o, canceller, cancels>>

\* ...and if not, wait for some.
Room ==
    /\ w.pc = "room"
    /\ WaitEvent([w EXCEPT !.pc = "write"],
                 [w EXCEPT !.pc = Unless("look")],
                 [w EXCEPT !.pc = Unless("commit"), !.status = "IO"])
    /\ UNCHANGED <<shared, o, canceller, cancels>>

\* audio_pcm_stream_platform_enqueue: one turn of its loop, ...
Submit ==
    /\ w.pc = "submit"
    /\ \E bad \in Failing({"buffer"}) :
         /\ Count(bad)
         /\ LET room == EndpointFrames - Len(d.buffer)
                k == IF bad = "none" THEN Min({room, Len(w.batch) - w.accepted}) ELSE 0
            IN  /\ d' = [d EXCEPT !.submitted = @ + k,
                             !.buffer = @ \o SubSeq(w.batch, w.accepted + 1, w.accepted + k)]
                /\ w' = IF bad # "none" THEN [w EXCEPT !.pc = "commit", !.status = "IO"]
                        ELSE [w EXCEPT !.accepted = @ + k, !.after = "commit",
                                 !.pc = IF room = 0 THEN "drain"
                                        ELSE IF w.accepted + k = Len(w.batch) THEN "observe"
                                        ELSE "submit"]
    /\ UNCHANGED <<shared, o, canceller, cancels>>

\* ...and its wait for room; an interruption ends it with the prefix accepted.
Drain ==
    /\ w.pc = "drain"
    /\ WaitEvent([w EXCEPT !.pc = "submit"],
                 [w EXCEPT !.pc = "observe", !.after = "commit", !.status = "LIMIT"],
                 [w EXCEPT !.pc = "commit", !.status = "IO"])
    /\ UNCHANGED <<shared, o, canceller, cancels>>

\* Seeded fault: a prefix accepted before an interruption stays in the FIFO.
TakenIfWhole ==
    IF s.epoch = w.gen /\ s.count >= w.accepted /\ w.status = "OK" THEN w.accepted ELSE 0

\* Seeded fault: a clear since the batch was copied is not noticed.
TakenAnyEpoch == w.accepted

\* How many frames leave the FIFO: those accepted, unless it was cleared since.
Taken == IF s.epoch = w.gen /\ s.count >= w.accepted THEN w.accepted ELSE 0

\* Seeded fault: a flush is complete after any batch.
FlushedAfterBatch(failed, count) == s.control = "FLUSH"

\* The waiting flush is complete.
Flushed(failed, count) == s.control = "FLUSH" /\ (failed \/ count = 0)

Commit ==
    /\ w.pc = "commit"
    /\ \E bad \in Failing({"done", "space"}) :
         LET n == Taken
             failed == s.failed \/ w.status = "IO"
             flushed == Flushed(failed, s.count - n)
             roomy == w.accepted # 0 \/ failed \/ bad = "done"
         IN  /\ Count(bad)
             /\ bad = "done" => flushed
             /\ bad = "space" => roomy
             /\ s' = [s EXCEPT !.head = (@ + n) % Capacity, !.count = @ - n,
                          !.failed = failed \/ bad # "none",
                          !.control = IF flushed THEN "NONE" ELSE @]
             /\ e' = [e EXCEPT !.cancel = @ \/ failed \/ bad # "none",
                          !.done = @ \/ (flushed /\ bad # "done"),
                          !.space = @ \/ (roomy /\ bad # "space")]
    /\ w' = Looking
    /\ UNCHANGED <<ring, d, o, canceller, cancels>>

\* The loop ends, and audio_pcm_stream_platform_worker_detach.
Detach ==
    /\ w.pc = "detach" \/ (w.pc = "look" /\ e.cancel)
    /\ w' = [Looking EXCEPT !.pc = "ended"]
    /\ d' = [d EXCEPT !.buffer = <<>>, !.submitted = 0]
    /\ UNCHANGED <<shared, o, canceller, cancels, natives>>

\* The endpoint plays a frame, if it has one, and reports a period.
Tick ==
    /\ w.pc \notin {"attach", "ended"}
    /\ d' = [d EXCEPT !.buffer = IF @ = <<>> THEN @ ELSE Tail(@), !.ready = TRUE]
    /\ UNCHANGED <<shared, w, o, canceller, cancels, natives>>

Worker ==
    \/ Attach \/ Look \/ Native \/ Answer \/ WaitProgress \/ Fault \/ Observe \/ Report
    \/ Idle \/ Write \/ Room \/ Submit \/ Drain \/ Commit \/ Detach

-----------------------------------------------------------------------------
\* The owner's calls.  A call returns its status in o.ret.

Return(status) == o' = [o EXCEPT !.pc = "idle", !.ret = status]

\* An operation but destroy; a destroy that failed may only be tried again.
Calling == o.pc = "idle" /\ o.op # "destroy"

\* base_sync_wait_any on an event and the worker's cancellation, which comes
\* first; the wait itself may fail.
WaitWorker(event, signaled, otherwise) ==
    \/ /\ e.cancel
       /\ o' = otherwise
       /\ UNCHANGED <<e, natives>>
    \/ /\ ~e.cancel /\ e[event]
       /\ e' = [e EXCEPT ![event] = FALSE]
       /\ o' = signaled
       /\ UNCHANGED natives
    \/ /\ ~e.cancel /\ "wait" \in Failing({"wait"}) /\ Count("wait")
       /\ o' = otherwise
       /\ UNCHANGED e

\* lib_audio_pcm_stream_create: the worker has attached, or could not.
Created ==
    /\ o.pc = "create"
    /\ WaitWorker("done", [o EXCEPT !.pc = IF s.failed THEN "join" ELSE "idle"],
                          [o EXCEPT !.pc = "join"])
    /\ UNCHANGED <<ring, s, d, w, canceller, cancels>>

\* lib_audio_pcm_stream_enqueue of n frames: the part under the lock, ...
Enqueue(n) ==
    /\ Calling /\ s.accepted + n + s.epoch <= MaxFrames
    /\ LET k == Min({Capacity - s.count, n})
       IN  IF s.failed \/ ~s.active \/ k = 0
           THEN /\ o' = [o EXCEPT !.op = "enqueue",
                            !.ret = IF s.failed THEN "IO" ELSE IF ~s.active THEN "INVALID"
                                    ELSE "LIMIT"]
                /\ UNCHANGED <<ring, s>>
           ELSE /\ ring' = [i \in Slots |->
                      LET j == (i + Capacity - ((s.head + s.count) % Capacity)) % Capacity
                      IN  IF j < k THEN Frame(s.epoch, s.accepted + j + 1) ELSE ring[i]]
                /\ s' = [s EXCEPT !.count = @ + k, !.accepted = @ + k]
                /\ o' = [o EXCEPT !.op = "enqueue", !.pc = "wake",
                            !.signaled = s.submitted > s.consumed]
    /\ UNCHANGED <<e, d, w, canceller, cancels, natives>>

\* ...the wake signal, ...
Wake ==
    /\ o.pc = "wake"
    /\ \E bad \in Failing({"signal"}) :
         /\ Count(bad)
         /\ s' = [s EXCEPT !.failed = @ \/ bad # "none"]
         /\ e' = [e EXCEPT !.wake = @ \/ bad = "none", !.cancel = @ \/ bad # "none"]
         /\ IF bad # "none" THEN Return("IO")
            ELSE IF o.signaled THEN o' = [o EXCEPT !.pc = "nudge"]
            ELSE Return("OK")
    /\ UNCHANGED <<ring, d, w, canceller, cancels>>

\* ...and, if the endpoint was playing, the interruption of its wait.
Nudge ==
    /\ o.pc = "nudge"
    /\ \E bad \in Failing({"interrupt"}) :
         /\ Count(bad)
         /\ FailIf(bad # "none")
         /\ d' = [d EXCEPT !.interruption = @ \/ bad = "none"]
         /\ Return(IF bad = "none" THEN "OK" ELSE "IO")
    /\ UNCHANGED <<ring, w, canceller, cancels>>

\* lib_audio_pcm_stream_wait_writable: was the wait cancelled, ...
WaitWritable ==
    /\ Calling \/ o.pc = "again"
    /\ e' = [e EXCEPT !.waitCancelled = FALSE]
    /\ o' = IF e.waitCancelled
            THEN [o EXCEPT !.op = "wait", !.pc = "idle", !.ret = "INVALID"]
            ELSE [o EXCEPT !.op = "wait", !.pc = "check"]
    /\ UNCHANGED <<ring, s, d, w, canceller, cancels, natives>>

\* ...is there space, ...
Check ==
    /\ o.pc = "check"
    /\ IF s.failed THEN Return("IO")
       ELSE IF ~s.active THEN Return("INVALID")
       ELSE IF s.count < Capacity THEN Return("OK")
       ELSE o' = [o EXCEPT !.pc = "space"]
    /\ UNCHANGED <<shared, d, w, canceller, cancels, natives>>

\* ...and if not, wait for it.
Space ==
    /\ o.pc = "space"
    /\ WaitWorker("space", [o EXCEPT !.pc = "again"], [o EXCEPT !.pc = "idle", !.ret = "IO"])
    /\ UNCHANGED <<ring, s, d, w, canceller, cancels>>

\* The call returns at once: the stream has failed, or a native call fails before
\* anything is changed.
Refused(bad) == s.failed \/ bad = "native"

\* The request is made; the worker is woken, or the stream fails.
Ask(op, control, asked, bad) ==
    /\ s' = [asked EXCEPT !.control = control, !.failed = bad = "signal"]
    /\ e' = [e EXCEPT !.done = FALSE, !.wake = @ \/ bad = "none", !.cancel = @ \/ bad = "signal"]
    /\ o' = IF bad = "signal" THEN [o EXCEPT !.pc = "idle", !.op = op, !.ret = "IO"]
            ELSE [o EXCEPT !.pc = "answer", !.op = op, !.control = control]

\* audio_pcm_stream_control_request, up to its wait.
Request(op, control, asked, gained) ==
    /\ \E bad \in Failing({"native", "signal"}) :
         /\ Count(bad)
         /\ IF Refused(bad)
            THEN /\ s.failed => bad = "none"
                 /\ o' = [o EXCEPT !.pc = "idle", !.op = op, !.ret = "IO"]
                 /\ UNCHANGED <<s, e, d>>
            ELSE /\ Ask(op, control, asked, bad)
                 /\ d' = [d EXCEPT !.interruption = TRUE, !.gained = gained]
    /\ UNCHANGED <<ring, w, canceller, cancels>>

\* Seeded fault: a clear stays in the epoch.
ClearedInPlace == [s EXCEPT !.head = 0, !.count = 0,
                       !.accepted = 0, !.submitted = 0, !.consumed = 0]

\* What a clear leaves of the FIFO and its progress.
Cleared == [s EXCEPT !.head = 0, !.count = 0, !.epoch = @ + 1,
                !.accepted = 0, !.submitted = 0, !.consumed = 0]

\* lib_audio_pcm_stream_clear and lib_audio_pcm_stream_set_gain.
ClearStream == Calling /\ s.epoch < MaxEpoch /\ Request("clear", "CLEAR", Cleared, d.gained)

SetGain == Calling /\ Request("gain", "GAIN", s, FALSE)

\* Seeded fault: a flush of an empty FIFO is handed to the worker too.
FlushEmpty(op) ==
    /\ Calling
    /\ op = "off" => ~s.failed /\ s.active /\ s.epoch < MaxEpoch
    /\ \E bad \in Failing({"native", "signal"}) :
         /\ Count(bad)
         /\ IF Refused(bad) \/ ~s.active
            THEN /\ s.failed \/ ~s.active => bad = "none"
                 /\ o' = [o EXCEPT !.op = op, !.ret = IF Refused(bad) THEN "IO" ELSE "INVALID"]
                 /\ UNCHANGED <<s, e>>
            ELSE Ask(op, "FLUSH", s, bad)
    /\ UNCHANGED <<ring, d, w, canceller, cancels>>

\* lib_audio_pcm_stream_flush up to its wait.
Flush(op) ==
    /\ Calling
    /\ op = "off" => ~s.failed /\ s.active /\ s.epoch < MaxEpoch
    /\ \E bad \in Failing({"native", "signal"}) :
         /\ Count(bad)
         /\ IF Refused(bad) \/ ~s.active \/ s.count = 0
            THEN /\ s.failed \/ ~s.active \/ s.count = 0 => bad = "none"
                 /\ o' = [o EXCEPT !.op = op,
                             !.pc = IF op = "off" /\ bad = "none" THEN "off" ELSE "idle",
                             !.ret = IF Refused(bad) THEN "IO"
                                     ELSE IF ~s.active THEN "INVALID" ELSE "OK"]
                 /\ UNCHANGED <<s, e>>
            ELSE Ask(op, "FLUSH", s, bad)
    /\ UNCHANGED <<ring, d, w, canceller, cancels>>

\* Both wait for the worker's answer or its cancellation, ...
Answered ==
    /\ o.pc = "answer"
    /\ WaitWorker("done", [o EXCEPT !.pc = "settle", !.signaled = TRUE],
                          [o EXCEPT !.pc = "settle", !.signaled = FALSE, !.lost = ~e.cancel])
    /\ UNCHANGED <<ring, s, d, w, canceller, cancels>>

\* ...and look at the failure under the lock; a clear makes space.
Settle ==
    /\ o.pc = "settle"
    /\ \E bad \in Failing({"signal"}) :
         LET fine == ~s.failed /\ o.signaled
             clear == fine /\ o.control = "CLEAR"
         IN  /\ bad # "none" => clear
             /\ Count(bad)
             /\ s' = [s EXCEPT !.failed = @ \/ bad # "none"]
             /\ e' = [e EXCEPT !.cancel = @ \/ bad # "none",
                          !.space = @ \/ (clear /\ bad = "none")]
             /\ o' = [o EXCEPT !.control = "NONE", !.signaled = FALSE,
                         !.ret = IF fine /\ bad = "none" THEN "OK" ELSE "IO",
                         !.pc = IF ~fine \/ bad # "none" \/ o.op # "off" THEN "idle"
                                ELSE IF o.control = "FLUSH" THEN "off" ELSE "store"]
    /\ UNCHANGED <<ring, d, w, canceller, cancels>>

\* lib_audio_pcm_stream_set_active(FALSE) flushes (Flush("off")), clears, ...
Off == o.pc = "off" /\ Request("off", "CLEAR", Cleared, d.gained)

\* ...and stores.
Store ==
    /\ o.pc = "store"
    /\ s' = [s EXCEPT !.active = FALSE]
    /\ Return("OK")
    /\ UNCHANGED <<ring, e, d, w, canceller, cancels, natives>>

\* lib_audio_pcm_stream_set_active(TRUE).
On ==
    /\ Calling /\ ~s.active
    /\ s' = [s EXCEPT !.active = @ \/ ~s.failed]
    /\ o' = [o EXCEPT !.op = "on", !.ret = IF s.failed THEN "IO" ELSE "OK"]
    /\ UNCHANGED <<ring, e, d, w, canceller, cancels, natives>>

\* lib_audio_pcm_stream_destroy: cancel_wait, ...
Destroy ==
    /\ o.pc = "idle" /\ canceller = "out"
    /\ \E bad \in Failing({"signal"}) :
         /\ Count(bad)
         /\ s' = [s EXCEPT !.failed = @ \/ bad # "none"]
         /\ e' = [e EXCEPT !.waitCancelled = TRUE, !.space = @ \/ bad = "none",
                      !.cancel = @ \/ bad # "none"]
    /\ o' = [o EXCEPT !.op = "destroy", !.pc = "cancel"]
    /\ UNCHANGED <<ring, d, w, canceller, cancels>>

\* ...cancel the worker, ...
CancelWorker ==
    /\ o.pc = "cancel"
    /\ \E bad \in Failing({"signal"}) :
         /\ Count(bad)
         /\ e' = [e EXCEPT !.cancel = @ \/ bad = "none"]
         /\ IF bad = "none" THEN o' = [o EXCEPT !.pc = "interrupt"] ELSE Return("IO")
    /\ UNCHANGED <<ring, s, d, w, canceller, cancels>>

\* ...then interrupt its native wait and wake it, ...
InterruptWorker ==
    /\ o.pc = "interrupt"
    /\ \E bad \in Failing({"interrupt"}) :
         /\ Count(bad)
         /\ IF bad = "none"
            THEN /\ d' = [d EXCEPT !.interruption = TRUE]
                 /\ e' = [e EXCEPT !.wake = TRUE]
                 /\ o' = [o EXCEPT !.pc = "join"]
            ELSE Return("IO") /\ UNCHANGED <<d, e>>
    /\ UNCHANGED <<ring, s, w, canceller, cancels>>

\* ...and join it (base_sync_task_destroy, which cancels it again).  A create
\* that failed ends here too.
Join ==
    /\ o.pc = "join"
    /\ \/ /\ ~e.cancel
          /\ e' = [e EXCEPT !.cancel = TRUE]
          /\ UNCHANGED o
       \/ /\ w.pc = "ended"
          /\ o' = [o EXCEPT !.pc = "gone"]
          /\ UNCHANGED e
    /\ UNCHANGED <<ring, s, d, w, canceller, cancels, natives>>

-----------------------------------------------------------------------------
\* lib_audio_pcm_stream_cancel_wait on the other thread, which the caller keeps
\* away from create and destroy: the store, ...
CancelWait ==
    /\ canceller = "out" /\ ~Quiet
    /\ o.pc \notin {"create", "join", "gone"} /\ o.op # "destroy"
    /\ canceller' = "in" /\ cancels' = cancels + 1
    /\ e' = [e EXCEPT !.waitCancelled = TRUE]
    /\ UNCHANGED <<ring, s, d, w, o, natives>>

\* ...and the signal under the lock.
CancelSignal ==
    /\ canceller = "in"
    /\ canceller' = "out"
    /\ \E bad \in Failing({"signal"}) :
         /\ Count(bad)
         /\ s' = [s EXCEPT !.failed = @ \/ bad # "none"]
         /\ e' = [e EXCEPT !.space = @ \/ bad = "none", !.cancel = @ \/ bad # "none"]
    /\ UNCHANGED <<ring, d, w, o, cancels>>

Begin ==
    \/ \E n \in 1..MaxSubmission : Enqueue(n)
    \/ (Calling /\ WaitWritable)
    \/ ClearStream \/ SetGain \/ Flush("flush") \/ Flush("off") \/ On \/ Destroy

Continue ==
    \/ Created \/ Wake \/ Nudge \/ (o.pc = "again" /\ WaitWritable) \/ Check \/ Space
    \/ Answered \/ Settle \/ Off \/ Store \/ CancelWorker \/ InterruptWorker \/ Join

Next == Begin \/ Continue \/ Worker \/ Tick \/ CancelWait \/ CancelSignal

\* The host schedules the worker, a thread inside a call, and the endpoint, which
\* plays at its sample rate; nobody has to call anything, and nothing has to fail.
Fairness ==
    /\ WF_vars(Worker /\ UNCHANGED natives) /\ WF_vars(Continue /\ UNCHANGED natives)
    /\ WF_vars(CancelSignal /\ UNCHANGED natives) /\ WF_vars(Tick)

Spec == Init /\ [][Next]_vars /\ Fairness

-----------------------------------------------------------------------------
Frames == {Frame(k, n) : k \in 0..MaxEpoch, n \in 0..MaxFrames}
Statuses == {"OK", "IO", "LIMIT", "INVALID"}
Controls == {"NONE", "CLEAR", "GAIN", "FLUSH"}

TypeOK ==
    /\ ring \in [Slots -> Frames]
    /\ s \in [head : Slots, count : 0..Capacity, epoch : 0..MaxEpoch,
              accepted : 0..MaxFrames, submitted : 0..MaxFrames, consumed : 0..MaxFrames,
              control : Controls, active : BOOLEAN, failed : BOOLEAN]
    /\ e \in [wake : BOOLEAN, space : BOOLEAN, done : BOOLEAN,
              cancel : BOOLEAN, waitCancelled : BOOLEAN]
    /\ d.buffer \in Seq(Frames) /\ Len(d.buffer) <= EndpointFrames
    /\ w.batch \in Seq(Frames) /\ w.accepted <= Len(w.batch) /\ Len(w.batch) <= Batch
    /\ w.status \in Statuses /\ o.ret \in Statuses

\* A clear was asked for and the worker has not answered it.
Clearing == "CLEAR" \in {s.control, w.control}

\* Exactly once and in order, across interrupted submissions, the wrap of the
\* ring and clears: the frames in the endpoint's buffer are consecutive, the last
\* is the last submitted, and none is older than the last clear.  (The worker's
\* batch outlives the lock it was copied under, and an interruption can end its
\* submission anywhere.)
DeliveredInOrder ==
    ~s.failed /\ ~Clearing /\ ~o.lost =>
        \A i \in 1..Len(d.buffer) :
            d.buffer[i] # Silence =>
                d.buffer[i] = Frame(s.epoch, d.submitted - (Len(d.buffer) - i))

\* What a call that returns OK has done: after a flush the endpoint has taken
\* every frame accepted, after a clear or a deactivation it holds none and the
\* worker is not about to give it one, after set_gain it applies the new gain.
\* (If the owner's own wait failed natively, the late answer to that request can
\* answer the next one; lost is then TRUE.)
ReturnMeansDone ==
    o.pc = "idle" /\ o.ret = "OK" /\ ~o.lost /\ ~s.failed =>
        /\ o.op = "flush" => s.count = 0 /\ d.submitted = s.accepted
        /\ o.op \in {"clear", "off"} =>
              s.count = 0 /\ d.buffer = <<>> /\ d.submitted = 0 /\ w.batch = <<>>
        /\ o.op = "gain" => d.gained

\* The stream fails only if something native failed: the check of the endpoint's
\* counts never fires on counts read before a clear and compared after it, and no
\* call mistakes a cancellation it raced for an error.
NoFalseAlarm == natives = 0 => ~s.failed /\ o.ret # "IO"

\* The progress a client reads keeps the contract of PcmProgress.
Progress == INSTANCE PcmProgress
    WITH epoch <- s.epoch, accepted <- s.accepted,
         submitted <- s.submitted, consumed <- s.consumed
Implements == Progress!Spec

\* Every call returns, destroy included: no flush, clear, wait or join is left
\* waiting for a worker that waits for the endpoint.
CallsReturn == o.pc \notin {"idle", "gone"} ~> o.pc \in {"idle", "gone"}
=============================================================================
