--------------------------- MODULE FrameExchange ---------------------------
(***************************************************************************)
(* The frame exchange (src/lib/kvm-base/frame_exchange.c): one producer,   *)
(* the executor that draws frames, and one consumer, the window or console *)
(* worker that shows them, share SlotCount reusable frames without copying *)
(* or waiting for each other.  The roles writer, pending, processing,      *)
(* displayed and latest are pointers to slots.                             *)
(*                                                                         *)
(* Every operation runs under exchange->lock and is one step, except that  *)
(* the producer draws on the writer outside the lock.                      *)
(***************************************************************************)
EXTENDS Naturals

CONSTANTS
    SlotCount,  \* frames of the exchange (4 in the code)
    NULL,       \* no slot
    MaxFrames   \* bound: publications

Slots == 0..(SlotCount - 1)

ASSUME SlotCountAssumption == SlotCount \in Nat /\ SlotCount >= 4
ASSUME NullAssumption == NULL \notin Slots
ASSUME MaxFramesAssumption == MaxFrames \in Nat

VARIABLES
    writer, pending, processing, displayed, latest,
    content,   \* what each slot holds: 0 nothing whole, n the nth publication
    published  \* publications so far

roles == <<pending, processing, displayed, latest>>
vars == <<writer, roles, content, published>>

Holding(slots) == slots \ {NULL}

\* kvm_frame_exchange_create.
Init ==
    /\ writer = 0
    /\ pending = NULL /\ processing = NULL /\ displayed = NULL /\ latest = NULL
    /\ content = [s \in Slots |-> 0]
    /\ published = 0

\* Seeded fault: every slot may be released.
RetireAny(held) ==
    \E released \in SUBSET Slots :
        content' = [s \in Slots |-> IF s \in released THEN 0 ELSE content[s]]

\* retire_free: the payload of a slot in no role is released if its format
\* differs from the latest frame's, else kept for reuse.
RetireFree(held) ==
    \E released \in SUBSET (Slots \ held) :
        content' = [s \in Slots |-> IF s \in released THEN 0 ELSE content[s]]

\* The producer draws on the writer; the drawing is whole or still partial.
Draw(whole) ==
    /\ published < MaxFrames
    /\ content' = [content EXCEPT ![writer] = IF whole THEN published + 1 ELSE 0]
    /\ UNCHANGED <<writer, roles, published>>

\* Seeded fault: the scan does not skip the displayed frame.
UnheldOrDisplayed(p, q, d) == Slots \ {p, q}

\* The slots in none of the roles that a consumer may read.
Unheld(p, q, d) == Slots \ {p, q, d}

\* Seeded fault: the scan stops one slot early.
NextWriterShort(free) ==
    LET scanned == free \ {SlotCount - 1}
    IN IF scanned = {} THEN NULL ELSE CHOOSE s \in scanned : \A t \in scanned : s <= t

\* The scan for the next writer: the first free slot.
NextWriter(free) == IF free = {} THEN NULL ELSE CHOOSE s \in free : \A t \in free : s <= t

\* A whole drawing becomes pending and latest; the producer gets another slot.
Publish ==
    /\ content[writer] = published + 1
    /\ latest' = writer /\ pending' = writer
    /\ published' = published + 1
    /\ RetireFree({writer, processing, displayed})
    /\ writer' = NextWriter(Unheld(writer, processing, displayed))
    /\ UNCHANGED <<processing, displayed>>

\* One outstanding take.
Take ==
    /\ processing = NULL /\ pending # NULL
    /\ processing' = pending
    /\ pending' = NULL
    /\ UNCHANGED <<writer, displayed, latest, content, published>>

\* Seeded fault: a failed frame is requeued over a newer one.
RequeuesAlways == TRUE

\* Only a frame that no newer publication supersedes is shown again.
Requeues == latest = processing

\* The consumer has shown the frame, or failed to.
Finish(success) ==
    /\ processing' = NULL
    /\ displayed' = IF processing # NULL /\ success THEN processing ELSE displayed
    /\ pending' = IF processing # NULL /\ ~success /\ Requeues THEN processing ELSE pending
    /\ RetireFree({writer, pending', displayed'})
    /\ UNCHANGED <<writer, latest, published>>

\* Seeded fault: a redraw prefers the frame already displayed.
RedrawnDisplayed == IF displayed # NULL THEN displayed ELSE processing

\* The frame a redraw repeats.
Redrawn == IF processing # NULL THEN processing ELSE displayed

Redraw ==
    /\ pending' = IF pending = NULL /\ latest # NULL THEN Redrawn ELSE pending
    /\ UNCHANGED <<writer, processing, displayed, latest, content, published>>

\* Seeded fault: the replacement consumer waits for the next publication.
PendingUnchanged == pending

\* What a replacement consumer presents first.
Represented == latest

\* The consumer is gone; its replacement starts from the latest frame.
Detach ==
    /\ processing' = NULL /\ displayed' = NULL
    /\ pending' = Represented
    /\ RetireFree({writer, pending'})
    /\ UNCHANGED <<writer, latest, published>>

\* The run of the published frames has ended; the consumer keeps its input.
Invalidate ==
    /\ pending' = NULL /\ latest' = NULL
    /\ RetireFree({writer, processing, displayed})
    /\ UNCHANGED <<writer, processing, displayed, published>>

Next ==
    \/ \E whole \in BOOLEAN : Draw(whole)
    \/ Publish \/ Take \/ Redraw \/ Detach \/ Invalidate
    \/ \E success \in BOOLEAN : Finish(success)

Spec == Init /\ [][Next]_vars

\* The consumer takes what is pending, and its output succeeds in the end.
Fairness == SF_vars(Take) /\ SF_vars(processing # NULL /\ Finish(TRUE))

FairSpec == Spec /\ Fairness

-----------------------------------------------------------------------------
\* Every variable has its type; the producer always has a slot to draw on.
TypeOK ==
    /\ writer \in Slots
    /\ {pending, processing, displayed, latest} \subseteq Slots \cup {NULL}
    /\ content \in [Slots -> Nat]
    /\ published \in Nat

\* The producer never draws on a slot that the consumer reads, will read, or an
\* observer may copy (frame_exchange.c 72-73: "At most pending, processing and
\* displayed are unavailable").
WriterIsFree == writer \notin {pending, processing, displayed, latest}

\* The latest frame is the newest publication, and it is queued, being shown
\* or displayed: no failure, redraw or replaced consumer loses it.
LatestIsKept ==
    latest # NULL => content[latest] = published /\ latest \in {pending, processing, displayed}

\* Every slot in a role holds a whole frame: none is torn or released.
HeldFramesAreWhole ==
    \A s \in Holding({pending, processing, displayed, latest}) : content[s] # 0

\* A frame stays as it is for as long as it has a role ("Both the returned input
\* and optional previous displayed input remain immutable until finish").
HeldFramesAreImmutable ==
    [][\A s \in Holding({pending, processing, displayed, latest}) :
         s \in {pending', processing', displayed', latest'} => content'[s] = content[s]]_vars

\* The display never goes back to an older frame, unless its consumer changed.
DisplayNeverGoesBack ==
    [][displayed # NULL /\ displayed' # NULL => content'[displayed'] >= content[displayed]]_vars

\* A publication is shown, or a newer one is, or its run ends.
PublicationIsShown ==
    \A n \in 1..MaxFrames :
        (published = n /\ latest # NULL) ~>
            (latest = NULL \/ (displayed # NULL /\ content[displayed] >= n))
=============================================================================
