----------------------------- MODULE MCMachine -----------------------------
(***************************************************************************)
(* Machine for TLC: the views under which its states are compared.         *)
(***************************************************************************)
EXTENDS Machine

\* What the progress of a behaviour can depend on.  A completion event matters
\* only to the caller that awaits it (submit_request resets it before the next
\* wait), a lease only to the debug call that acquired it, its answer only to
\* the caller that awaits it, and the queue of facts, the monitor's view and
\* the pending request only while the session loop runs.
ProgressView ==
    <<failVars, run_generation, lease_current /\ op = "debug",
      [req EXCEPT !.debugged = @ /\ cpc = "await" /\ op = "debug"],
      signaled \cap ({"command", "resume"} \cup
                     (IF cpc = "await" THEN {Completion(op)} ELSE {})),
      IF SessionOver THEN <<>> ELSE <<facts, monitor, pending, calls>>,
      workerVars, cpc, op>>

\* With the published frame, which only RunIsolation speaks of.
View == <<ProgressView, frame_generation>>
=============================================================================
