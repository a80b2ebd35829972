---------------------------- MODULE SessionQueue ----------------------------
(***************************************************************************)
(* The session's event queue (src/emulator/session/control.c): the machine *)
(* worker and the user-interface threads push events, and the control      *)
(* thread takes them.  The queue is a ring that doubles when it is full; a *)
(* push that fails latches its failure in a fixed slot.                    *)
(*                                                                         *)
(* A step is a region under queue->lock.  A failed push releases the lock  *)
(* before latch_failure takes it again, and take waits for the available   *)
(* event before it takes the lock.                                         *)
(***************************************************************************)
EXTENDS Naturals, Sequences

CONSTANTS
    None,             \* an empty slot
    InitialCapacity,  \* slots of a new queue (64 in the code)
    MaxPushes,        \* bound: pushes
    MaxFaults         \* bound: native synchronization failures

ASSUME InitialCapacityAssumption == InitialCapacity \in Nat \ {0}
ASSUME MaxPushesAssumption == MaxPushes \in Nat
ASSUME MaxFaultsAssumption == MaxFaults \in Nat

\* The failure slots: KVM input, and everything pushed by push_required.
Classes == {0, 1}

Events == [class : Classes, id : 1..MaxPushes]

\* fault_pending tells an empty slot from a latched event.
ASSUME NoneAssumption == None \notin Events

VARIABLES
    events, first, count,  \* the ring; its capacity is that of events
    fault,                 \* faults and fault_pending: the failure of each class
    available,             \* the manual-reset event is signaled
    lost,                  \* failed pushes that have not latched yet
    taken,                 \* what the control thread took last
    taker,                 \* "waiting", "woken", or "over": the session has ended
    pushes, natives,       \* pushes and native failures so far
    muted                  \* a latched failure could not be signaled

ring == <<events, first, count>>
vars == <<ring, fault, available, lost, taken, taker, pushes, natives, muted>>

Capacity == Len(events)

\* The slot of the ring's ith event, from 0; a TLA+ sequence starts at 1.
Slot(i) == ((first + i) % Capacity) + 1

Took(kind, e) == [kind |-> kind, event |-> e]

NativeFault == natives < MaxFaults /\ natives' = natives + 1

\* emulator_session_queue_initialize.
Init ==
    /\ events = [i \in 1..InitialCapacity |-> None] /\ first = 0 /\ count = 0
    /\ fault = [c \in Classes |-> None]
    /\ available = FALSE
    /\ lost = {}
    /\ taken = Took("nothing", None) /\ taker = "waiting"
    /\ pushes = 0 /\ natives = 0 /\ muted = FALSE

-----------------------------------------------------------------------------
\* Seeded fault: the slots are copied as they lie.
ExpandedAsIs ==
    [i \in 1..(2 * Capacity) |-> IF i <= count THEN events[i] ELSE None]

\* The doubled ring, its events moved to the front.
Expanded ==
    [i \in 1..(2 * Capacity) |-> IF i <= count THEN events[Slot(i - 1)] ELSE None]

\* Seeded fault: the ring counts as full one event too late.
GrownTooLate ==
    IF count > Capacity THEN [events |-> Expanded, first |-> 0]
                        ELSE [events |-> events, first |-> first]

\* Where the next event goes: the ring, doubled first if it is full.
Grown ==
    IF count = Capacity THEN [events |-> Expanded, first |-> 0]
                        ELSE [events |-> events, first |-> first]

\* The push of e fails: no memory to double a full ring, or no signal; the
\* doubled ring is kept.
Refuse(e) ==
    /\ lost' = lost \cup {e}
    /\ \/ count = Capacity /\ UNCHANGED <<events, first, natives>>
       \/ /\ NativeFault
          /\ events' = Grown.events /\ first' = Grown.first
    /\ UNCHANGED <<count, available>>

\* Every push signals, before it stores the event.
Store(e) ==
    /\ available' = TRUE
    /\ events' = [Grown.events EXCEPT
                    ![((Grown.first + count) % Len(Grown.events)) + 1] = e]
    /\ first' = Grown.first
    /\ count' = count + 1
    /\ UNCHANGED <<lost, natives>>

\* emulator_session_queue_push, for KVM input and for required events.
Push(class) ==
    /\ pushes < MaxPushes
    /\ pushes' = pushes + 1
    /\ LET e == [class |-> class, id |-> pushes'] IN Store(e) \/ Refuse(e)
    /\ UNCHANGED <<fault, taken, taker, muted>>

\* emulator_session_queue_latch_failure: the class keeps its first failure,
\* and the result of the signal is ignored.
LatchFailure(e) ==
    /\ e \in lost
    /\ lost' = lost \ {e}
    /\ fault' = [fault EXCEPT ![e.class] = IF @ = None THEN e ELSE @]
    /\ \/ available' = TRUE /\ UNCHANGED <<natives, muted>>
       \/ NativeFault /\ muted' = TRUE /\ UNCHANGED available
    /\ UNCHANGED <<ring, taken, taker, pushes>>

\* The wait of take; the session treats a failed one as the end.
Wait ==
    /\ taker = "waiting"
    /\ \/ available /\ taker' = "woken" /\ UNCHANGED natives
       \/ NativeFault /\ taker' = "over"
    /\ UNCHANGED <<ring, fault, available, lost, taken, pushes, muted>>

\* Seeded fault: the event is reset when the ring is empty.
IdleIgnoringFaults == count' = 0

\* Nothing is left to take.
Idle == count' = 0 /\ \A c \in Classes : fault'[c] = None

\* Seeded fault: the event is reset only by a take that finds nothing.
ResetWhenFoundIdle == available' = (available /\ ~(Idle /\ count = 0)) /\ UNCHANGED natives

\* The event is reset when nothing is left; the result is ignored.
ResetWhenIdle ==
    \/ available' = (available /\ ~Idle) /\ UNCHANGED natives
    \/ Idle /\ NativeFault /\ UNCHANGED available

\* The failure that is reported first.
FailureFirst == IF fault[0] # None THEN 0 ELSE 1

\* The rest of take, and what the session loop makes of it: a failure, or
\* nothing taken, ends the session.
Take ==
    /\ taker = "woken"
    /\ \/ /\ count > 0
          /\ taken' = Took("event", events[Slot(0)])
          /\ first' = (first + 1) % Capacity /\ count' = count - 1
          /\ taker' = "waiting"
          /\ UNCHANGED <<events, fault>>
       \/ /\ count = 0 /\ \E c \in Classes : fault[c] # None
          /\ taken' = Took("failure", fault[FailureFirst])
          /\ fault' = [fault EXCEPT ![FailureFirst] = None]
          /\ taker' = "over"
          /\ UNCHANGED ring
       \/ /\ count = 0 /\ \A c \in Classes : fault[c] = None
          /\ taker' = "over"
          /\ UNCHANGED <<ring, fault, taken>>
    /\ ResetWhenIdle
    /\ UNCHANGED <<lost, pushes, muted>>

Next ==
    \/ \E class \in Classes : Push(class)
    \/ \E e \in Events : LatchFailure(e)
    \/ Wait \/ Take

Spec == Init /\ [][Next]_vars

-----------------------------------------------------------------------------
\* The variables have their types, and the ring's indices are in range.
TypeOK ==
    /\ events \in Seq(Events \cup {None})
    /\ first \in 0..(Capacity - 1) /\ count \in 0..Capacity
    /\ fault \in [Classes -> Events \cup {None}]
    /\ available \in BOOLEAN /\ muted \in BOOLEAN
    /\ lost \subseteq Events
    /\ taken \in [kind : {"nothing", "event", "failure"}, event : Events \cup {None}]
    /\ taker \in {"waiting", "woken", "over"}
    /\ pushes \in 0..MaxPushes /\ natives \in 0..MaxFaults

\* Nothing waits in the queue while the control thread may sleep: an event or
\* a latched failure keeps the manual-reset event signaled, whatever pushes
\* come between the wait, the take and the reset (control.c 62, 197).
NothingSleeps ==
    /\ count > 0 => available
    /\ ~muted => \A c \in Classes : fault[c] # None => available

\* The session ends only for a reason: the control thread is never woken to
\* find nothing (session.c 404 "a failed indefinite wait is terminal, not idle").
NoSpuriousEnd == taker = "over" => taken.kind = "failure" \/ natives > 0

\* The ring implements the queue that is promised.
Promised == INSTANCE EventQueue WITH
    queue   <- [i \in 1..count |-> events[Slot(i - 1)]],
    latched <- fault,
    offered <- pushes

\* Growth, wrapping and the order of two locks change neither the order of the
\* events nor the failures that are reported (control.c 36-71, 174-201).
Implements == Promised!Spec
=============================================================================
