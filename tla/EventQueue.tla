----------------------------- MODULE EventQueue -----------------------------
(***************************************************************************)
(* What the session's event queue promises (src/emulator/session/control.h *)
(* and control.c): accepted events are taken once each and in the order in *)
(* which they were accepted; an event that could not be accepted leaves a  *)
(* failure, of which each class keeps the first; a failure is taken only   *)
(* when no event is left, and the class of KVM input first.                *)
(***************************************************************************)
EXTENDS Naturals, Sequences

CONSTANTS
    None,       \* no event
    MaxPushes   \* bound: events offered to the queue

\* The classes of events: KVM input, and the facts and lines that are required.
Classes == {0, 1}

Events == [class : Classes, id : 1..MaxPushes]

VARIABLES
    queue,    \* the accepted events, in order
    lost,     \* refused events whose failure is not latched yet
    latched,  \* the failure of each class
    taken,    \* what the session took last
    offered   \* events offered so far

vars == <<queue, lost, latched, taken, offered>>

Took(kind, e) == [kind |-> kind, event |-> e]

Init ==
    /\ queue = <<>> /\ lost = {} /\ offered = 0
    /\ latched = [c \in Classes |-> None]
    /\ taken = Took("nothing", None)

Offer(e) == offered < MaxPushes /\ offered' = offered + 1 /\ e.id = offered'

Accept(e) ==
    /\ Offer(e)
    /\ queue' = Append(queue, e)
    /\ UNCHANGED <<lost, latched, taken>>

Lose(e) ==
    /\ Offer(e)
    /\ lost' = lost \cup {e}
    /\ UNCHANGED <<queue, latched, taken>>

Latch(e) ==
    /\ e \in lost
    /\ lost' = lost \ {e}
    /\ latched' = [latched EXCEPT ![e.class] = IF @ = None THEN e ELSE @]
    /\ UNCHANGED <<queue, taken, offered>>

TakeEvent ==
    /\ queue # <<>>
    /\ taken' = Took("event", Head(queue))
    /\ queue' = Tail(queue)
    /\ UNCHANGED <<lost, latched, offered>>

TakeFailure(c) ==
    /\ queue = <<>>
    /\ latched[c] # None /\ \A b \in Classes : b < c => latched[b] = None
    /\ taken' = Took("failure", latched[c])
    /\ latched' = [latched EXCEPT ![c] = None]
    /\ UNCHANGED <<queue, lost, offered>>

Next ==
    \/ \E e \in Events : Accept(e) \/ Lose(e) \/ Latch(e)
    \/ TakeEvent
    \/ \E c \in Classes : TakeFailure(c)

Spec == Init /\ [][Next]_vars
=============================================================================
