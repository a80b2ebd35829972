---------------------------- MODULE RaidenDriver ----------------------------
(***************************************************************************)
(* The executor of the myraidenii product (machine/driver.c with           *)
(* machine/audio.c) over the PCM stream: it owns the stream of PcmStream,  *)
(* runs the board a slice at a time, hands the frames the board made to    *)
(* the stream and sleeps in wait_writable when the FIFO is full.  The      *)
(* control thread wakes it and stops it, both through cancel_wait; the     *)
(* executor wakes itself when more input is queued.                        *)
(***************************************************************************)
EXTENDS PcmStream

CONSTANT BoardFrames  \* frames the board's own PCM queue holds

VARIABLES
    v,    \* the driver: where its executor is; wake_requested, stop_requested,
          \* failed; the staging ring (read, count); the frames the board holds
    c     \* the control thread: "store" between a request's store and its cancel_wait

dvars == <<v, c, vars>>

Staging == 2 * MaxSubmission  \* MYRAIDENII_MACHINE_AUDIO_STAGING_FRAME_CAPACITY

\* myraidenii_machine_create on a new stream; stopped remembers any stop request.
DriverInit ==
    /\ Init
    /\ v = [pc |-> "loop", wake |-> FALSE, stop |-> FALSE, failed |-> FALSE, read |-> 0,
            count |-> 0, board |-> 0, first |-> TRUE, full |-> FALSE, stopped |-> FALSE]
    /\ c = "out"

\* The stream's worker, its endpoint and the rest of the executor's call of it.
Stream == (Continue \/ Worker \/ Tick \/ CancelSignal) /\ UNCHANGED <<v, c>>

At(pc) == v.pc = pc /\ o.pc = "idle"

\* What the executor callback may do to the driver: emulator_machine_drain_input
\* asks for a wake when more input is pending.
Callback(after) ==
    \/ /\ v' = after
       /\ UNCHANGED <<e, cancels>>
    \/ /\ ~Quiet
       /\ v' = [after EXCEPT !.wake = TRUE]
       /\ e' = [e EXCEPT !.waitCancelled = TRUE, !.space = TRUE]
       /\ cancels' = cancels + 1

\* myraidenii_machine_run: the callback first, and nothing more if stopped, ...
\* (A paused executor, whose stream is inactive, is parked in a callback.)
Slice ==
    /\ At("loop") /\ ~v.failed /\ s.active
    /\ Callback([v EXCEPT !.pc = IF v.stop THEN "loop" ELSE "run"])
    /\ UNCHANGED <<ring, s, d, w, o, canceller, natives, c>>

\* ...the board runs its quantum and makes frames, is stopped, or faults, ...
RunBoard ==
    /\ At("run")
    /\ \/ /\ \E n \in 0..(BoardFrames - v.board) :
               v' = [v EXCEPT !.board = @ + n, !.pc = "submit", !.first = TRUE]
          /\ UNCHANGED natives
       \/ /\ v.stop
          /\ v' = [v EXCEPT !.pc = "loop"]
          /\ UNCHANGED natives
       \/ /\ "fault" \in Failing({"fault"}) /\ Count("fault")
          /\ v' = [v EXCEPT !.pc = "loop", !.failed = TRUE]
    /\ UNCHANGED <<ring, s, e, d, w, o, canceller, cancels, c>>

\* myraidenii_machine_audio_submit: the frames of one turn of its loop, ...
Chunk == Min({Staging - v.read, v.count, MaxSubmission})

Submission ==
    /\ At("submit") /\ v.count # 0
    /\ Enqueue(Chunk)
    /\ LET k == IF s.failed \/ ~s.active THEN 0 ELSE Min({Capacity - s.count, Chunk})
       IN  v' = [v EXCEPT !.pc = "submitted", !.read = (@ + k) % Staging,
                     !.count = @ - k, !.full = k # Chunk]
    /\ UNCHANGED c

\* ...and what its status means.
Submitted ==
    /\ At("submitted")
    /\ v' = [v EXCEPT !.failed = o.ret \notin {"OK", "LIMIT"},
                !.pc = IF o.ret \notin {"OK", "LIMIT"} THEN "loop"
                       ELSE IF o.ret = "LIMIT" \/ v.full THEN "full" ELSE "submit"]
    /\ UNCHANGED <<vars, c>>

\* myraidenii_machine_audio_drain: what was staged went out, copy from the board
\* (myraidenii_machine_audio_copy_board) and submit again, once.
CopyBoard ==
    /\ At("submit") /\ v.count = 0
    /\ LET frames == Min({v.board, MaxSubmission, Staging - v.count})
       IN  v' = IF v.first
                THEN [v EXCEPT !.first = FALSE, !.board = @ - frames, !.count = @ + frames]
                ELSE [v EXCEPT !.pc = "callback"]
    /\ UNCHANGED <<vars, c>>

\* The FIFO is full: a wake that was asked for ends the slice, ...
FullAndWoken ==
    /\ At("full") /\ v.wake
    /\ v' = [v EXCEPT !.wake = FALSE, !.pc = "loop"]
    /\ UNCHANGED <<vars, c>>

\* ...otherwise the executor waits for room.
FullAndWaits ==
    /\ At("full") /\ ~v.wake
    /\ WaitWritable
    /\ v' = [v EXCEPT !.pc = "waiting"]
    /\ UNCHANGED c

Waited ==
    /\ At("waiting")
    /\ v' = [v EXCEPT !.failed = o.ret = "IO",
                !.pc = CASE o.ret = "OK" -> "callback"
                         [] o.ret = "INVALID" -> "cancelled"
                         [] OTHER -> "loop"]
    /\ UNCHANGED <<vars, c>>

\* A cancelled wait is a stop, or else a wake, or else a failure.
Cancelled ==
    /\ At("cancelled")
    /\ v' = [v EXCEPT !.pc = IF v.stop THEN "loop" ELSE "woken"]
    /\ UNCHANGED <<vars, c>>

Woken ==
    /\ At("woken")
    /\ v' = [v EXCEPT !.wake = FALSE, !.failed = ~v.wake, !.pc = "loop"]
    /\ UNCHANGED <<vars, c>>

\* The slice ends with another callback.
EndSlice ==
    /\ At("callback")
    /\ Callback([v EXCEPT !.pc = "loop"])
    /\ UNCHANGED <<ring, s, d, w, o, canceller, natives, c>>

\* myraidenii_machine_set_heartbeat and myraidenii_machine_reset between slices:
\* disabling clears the audio and deactivates the stream, a reset clears it.
Clears(next) ==
    /\ At("loop") /\ ClearStream
    /\ v' = [v EXCEPT !.pc = next]
    /\ UNCHANGED c

HeartbeatOff == s.active /\ Clears("quieted")
Reset == s.active /\ Clears("reset")

\* myraidenii_machine_audio_clear after the stream's part of it.
Emptied(pc) == [v EXCEPT !.pc = pc, !.board = 0, !.read = 0, !.count = 0]

Quieted ==
    /\ At("quieted")
    /\ \/ /\ o.ret = "OK"
          /\ Flush("off")
          /\ v' = Emptied("off")
       \/ /\ o.ret # "OK"
          /\ v' = [v EXCEPT !.pc = "loop", !.failed = TRUE]
          /\ UNCHANGED vars
    /\ UNCHANGED c

HeartbeatOn ==
    /\ At("loop") /\ On
    /\ v' = [v EXCEPT !.failed = @ \/ s.failed]
    /\ UNCHANGED c

Settled ==
    /\ v.pc \in {"off", "reset"} /\ o.pc = "idle"
    /\ v' = IF o.ret # "OK" THEN [v EXCEPT !.pc = "loop", !.failed = TRUE]
            ELSE IF v.pc = "off" THEN [v EXCEPT !.pc = "loop"]
            ELSE [Emptied("loop") EXCEPT !.stop = FALSE]
    /\ UNCHANGED <<vars, c>>

\* myraidenii_machine_request_wake and myraidenii_machine_request_stop on the
\* control thread: the store, then cancel_wait.
RequestWake ==
    /\ c = "out" /\ ~Quiet
    /\ c' = "store" /\ v' = [v EXCEPT !.wake = TRUE]
    /\ UNCHANGED vars

RequestStop ==
    /\ c = "out" /\ ~Quiet
    /\ c' = "store" /\ v' = [v EXCEPT !.stop = TRUE, !.stopped = TRUE]
    /\ UNCHANGED vars

Cancel == c = "store" /\ CancelWait /\ c' = "out" /\ UNCHANGED v

DriverNext ==
    \/ Stream \/ Slice \/ RunBoard \/ Submission \/ Submitted \/ CopyBoard
    \/ FullAndWoken \/ FullAndWaits \/ Waited \/ Cancelled \/ Woken \/ EndSlice
    \/ HeartbeatOff \/ Reset \/ Quieted \/ HeartbeatOn \/ Settled
    \/ RequestWake \/ RequestStop \/ Cancel

DriverSpec == DriverInit /\ [][DriverNext]_dvars

-----------------------------------------------------------------------------
\* A wake only ends the executor's wait: if nothing native and nothing in the
\* board failed and nobody asked for a stop, the driver has not failed.  The
\* machine says of the wake edge that "it is not a lifecycle stop request"
\* (src/emulator/machine/machine.c).
WakeIsNotAStop == natives = 0 /\ ~v.stopped => ~v.failed
=============================================================================
