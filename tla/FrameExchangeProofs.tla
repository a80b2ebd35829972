------------------------ MODULE FrameExchangeProofs ------------------------
(***************************************************************************)
(* What FrameExchange guarantees for every number of slots from four on    *)
(* and every number of publications.                                       *)
(***************************************************************************)
EXTENDS FrameExchange, TLAPS

\* What is pending is the latest publication, also when it is requeued.
PendingIsLatest == pending # NULL => pending = latest

\* The frame a redraw would repeat is the latest one.
RedrawIsLatest == latest # NULL /\ pending = NULL => Redrawn = latest

\* No slot is newer than the last publication, except the drawing.
NothingNewer ==
    /\ \A s \in Slots : s # writer => content[s] <= published
    /\ content[writer] <= published + 1

\* The frame in work is no older than the one displayed.
WorkIsNewer ==
    processing # NULL /\ displayed # NULL => content[displayed] <= content[processing]

\* The inductive invariant.
IInv ==
    /\ TypeOK /\ WriterIsFree /\ LatestIsKept /\ HeldFramesAreWhole
    /\ PendingIsLatest /\ RedrawIsLatest /\ NothingNewer /\ WorkIsNewer

-----------------------------------------------------------------------------
\* Three roles cannot hold four slots: the scan of publish finds a writer, and
\* it finds one in none of the roles (frame_exchange.c 74-81).
LEMMA NextWriterIsUnheld ==
    ASSUME NEW p, NEW q, NEW d
    PROVE  NextWriter(Unheld(p, q, d)) \in Unheld(p, q, d)
<1> DEFINE free == Unheld(p, q, d)
<1>1. {0, 1, 2, 3} \subseteq Slots
  BY SlotCountAssumption DEF Slots
<1>2. \E s \in free : s \in {0, 1, 2, 3}
  BY <1>1 DEF Unheld
<1>3. \A s \in free : s \in Nat
  BY SlotCountAssumption DEF Unheld, Slots
<1>4. \E s \in free : \A t \in free : s <= t
  <2>1. CASE 0 \in free
    BY <2>1, <1>3
  <2>2. CASE 0 \notin free /\ 1 \in free
    BY <2>2, <1>3
  <2>3. CASE 0 \notin free /\ 1 \notin free /\ 2 \in free
    BY <2>3, <1>3
  <2>4. CASE 0 \notin free /\ 1 \notin free /\ 2 \notin free /\ 3 \in free
    BY <2>4, <1>3
  <2> QED BY <2>1, <2>2, <2>3, <2>4, <1>2
<1> HIDE DEF free
<1>5. NextWriter(free) \in free
  BY <1>4 DEF NextWriter
<1> QED BY <1>5 DEF free

\* A retirement blanks slots without a role and keeps the others.
LEMMA RetireFreeKeepsHeld ==
    ASSUME NEW held, content \in [Slots -> Nat], RetireFree(held)
    PROVE  /\ content' \in [Slots -> Nat]
           /\ \A s \in Slots : content'[s] \in {0, content[s]}
           /\ \A s \in Slots : s \in held => content'[s] = content[s]
  BY DEF RetireFree

-----------------------------------------------------------------------------
\* The new exchange satisfies the invariant (create).
LEMMA InitInvariant == Init => IInv
  BY SlotCountAssumption, NullAssumption
  DEF Init, IInv, TypeOK, WriterIsFree, LatestIsKept, HeldFramesAreWhole, Holding,
      PendingIsLatest, RedrawIsLatest, NothingNewer, WorkIsNewer, Slots

\* Drawing changes only the writer, which has no other role.
LEMMA DrawInvariant ==
    ASSUME IInv, NEW whole \in BOOLEAN, Draw(whole)
    PROVE  IInv'
<1> USE NullAssumption DEF IInv, TypeOK, Draw, roles
<1>1. TypeOK'
  OBVIOUS
<1>2. \A s \in Slots : s # writer => content'[s] = content[s]
  OBVIOUS
<1>3. content'[writer] <= published + 1
  OBVIOUS
<1>4. WriterIsFree' /\ PendingIsLatest' /\ RedrawIsLatest'
  BY DEF WriterIsFree, PendingIsLatest, RedrawIsLatest, Redrawn
<1>5. LatestIsKept' /\ HeldFramesAreWhole' /\ WorkIsNewer'
  BY <1>2 DEF WriterIsFree, LatestIsKept, HeldFramesAreWhole, Holding, WorkIsNewer
<1>6. NothingNewer'
  BY <1>2, <1>3 DEF NothingNewer
<1> QED BY <1>1, <1>4, <1>5, <1>6

\* publish gives the producer another slot and makes its frame the newest.
LEMMA PublishInvariant ==
    ASSUME IInv, Publish
    PROVE  IInv'
<1> USE NullAssumption DEF IInv, TypeOK
<1>1. writer' \in Slots /\ writer' \notin {writer, processing, displayed}
  BY NextWriterIsUnheld DEF Publish, Unheld
<1>2. /\ content' \in [Slots -> Nat]
      /\ \A s \in Slots : content'[s] \in {0, content[s]}
      /\ \A s \in Slots : s \in {writer, processing, displayed} => content'[s] = content[s]
  BY RetireFreeKeepsHeld DEF Publish
<1>3. /\ latest' = writer /\ pending' = writer /\ published' = published + 1
      /\ processing' = processing /\ displayed' = displayed /\ content[writer] = published + 1
  BY DEF Publish
<1>4. TypeOK' /\ WriterIsFree' /\ PendingIsLatest' /\ RedrawIsLatest'
  BY <1>1, <1>2, <1>3 DEF WriterIsFree, PendingIsLatest, RedrawIsLatest
<1>5. LatestIsKept' /\ HeldFramesAreWhole'
  BY <1>2, <1>3 DEF LatestIsKept, HeldFramesAreWhole, Holding
<1>6. NothingNewer'
  BY <1>1, <1>2, <1>3 DEF NothingNewer
<1>7. WorkIsNewer'
  BY <1>2, <1>3 DEF WorkIsNewer
<1> QED BY <1>4, <1>5, <1>6, <1>7

\* take moves the latest publication into work.
LEMMA TakeInvariant ==
    ASSUME IInv, Take
    PROVE  IInv'
<1> USE NullAssumption DEF IInv, TypeOK, Take
<1>1. TypeOK' /\ WriterIsFree' /\ PendingIsLatest' /\ NothingNewer'
  BY DEF WriterIsFree, PendingIsLatest, NothingNewer
<1>2. LatestIsKept' /\ HeldFramesAreWhole'
  BY DEF LatestIsKept, HeldFramesAreWhole, Holding
<1>3. RedrawIsLatest'
  BY DEF PendingIsLatest, RedrawIsLatest, Redrawn
<1>4. WorkIsNewer'
  BY DEF WorkIsNewer, PendingIsLatest, LatestIsKept, NothingNewer, WriterIsFree
<1> QED BY <1>1, <1>2, <1>3, <1>4

\* finish keeps the latest frame: it is displayed, still pending, or requeued.
LEMMA FinishInvariant ==
    ASSUME IInv, NEW success \in BOOLEAN, Finish(success)
    PROVE  IInv'
<1> USE NullAssumption DEF IInv, TypeOK
<1>1. /\ content' \in [Slots -> Nat]
      /\ \A s \in Slots : content'[s] \in {0, content[s]}
      /\ \A s \in Slots : s \in {writer, pending', displayed'} => content'[s] = content[s]
  BY RetireFreeKeepsHeld DEF Finish
<1>2. /\ processing' = NULL /\ writer' = writer /\ latest' = latest /\ published' = published
      /\ displayed' = IF processing # NULL /\ success THEN processing ELSE displayed
      /\ pending' = IF processing # NULL /\ ~success /\ latest = processing
                    THEN processing ELSE pending
  BY DEF Finish, Requeues
<1>3. TypeOK' /\ WriterIsFree' /\ PendingIsLatest' /\ WorkIsNewer'
  BY <1>1, <1>2 DEF WriterIsFree, PendingIsLatest, WorkIsNewer
<1>4. NothingNewer'
  BY <1>1, <1>2 DEF NothingNewer
<1>5. latest' # NULL => latest' \in {pending', displayed'}
  BY <1>2 DEF LatestIsKept, PendingIsLatest, RedrawIsLatest, Redrawn
<1>6. LatestIsKept'
  BY <1>1, <1>2, <1>5 DEF LatestIsKept
<1>7. HeldFramesAreWhole'
  BY <1>1, <1>2, <1>5 DEF HeldFramesAreWhole, Holding
<1>8. RedrawIsLatest'
  BY <1>2, <1>5 DEF RedrawIsLatest, Redrawn
<1> QED BY <1>3, <1>4, <1>6, <1>7, <1>8

\* redraw repeats the latest frame.
LEMMA RedrawInvariant ==
    ASSUME IInv, Redraw
    PROVE  IInv'
<1> USE NullAssumption DEF IInv, TypeOK, Redraw
<1>1. pending' = pending \/ (pending' = latest /\ latest # NULL)
  BY DEF RedrawIsLatest
<1>2. TypeOK' /\ WriterIsFree' /\ PendingIsLatest' /\ RedrawIsLatest' /\ NothingNewer'
  BY <1>1 DEF WriterIsFree, PendingIsLatest, RedrawIsLatest, Redrawn, NothingNewer
<1>3. LatestIsKept' /\ HeldFramesAreWhole' /\ WorkIsNewer'
  BY <1>1 DEF LatestIsKept, HeldFramesAreWhole, Holding, WorkIsNewer
<1> QED BY <1>2, <1>3

\* detach leaves the latest frame to the next consumer.
LEMMA DetachInvariant ==
    ASSUME IInv, Detach
    PROVE  IInv'
<1> USE NullAssumption DEF IInv, TypeOK
<1>1. /\ content' \in [Slots -> Nat]
      /\ \A s \in Slots : content'[s] \in {0, content[s]}
      /\ \A s \in Slots : s \in {writer, pending'} => content'[s] = content[s]
  BY RetireFreeKeepsHeld DEF Detach
<1>2. /\ processing' = NULL /\ displayed' = NULL /\ pending' = latest
      /\ writer' = writer /\ latest' = latest /\ published' = published
  BY DEF Detach, Represented
<1>3. TypeOK' /\ WriterIsFree' /\ PendingIsLatest' /\ RedrawIsLatest' /\ WorkIsNewer'
  BY <1>1, <1>2 DEF WriterIsFree, PendingIsLatest, RedrawIsLatest, WorkIsNewer
<1>4. NothingNewer'
  BY <1>1, <1>2 DEF NothingNewer
<1>5. LatestIsKept' /\ HeldFramesAreWhole'
  BY <1>1, <1>2 DEF LatestIsKept, HeldFramesAreWhole, Holding
<1> QED BY <1>3, <1>4, <1>5

\* invalidate forgets the run's frames but not what the consumer reads.
LEMMA InvalidateInvariant ==
    ASSUME IInv, Invalidate
    PROVE  IInv'
<1> USE NullAssumption DEF IInv, TypeOK
<1>1. /\ content' \in [Slots -> Nat]
      /\ \A s \in Slots : content'[s] \in {0, content[s]}
      /\ \A s \in Slots : s \in {writer, processing, displayed} => content'[s] = content[s]
  BY RetireFreeKeepsHeld DEF Invalidate
<1>2. /\ pending' = NULL /\ latest' = NULL /\ writer' = writer
      /\ processing' = processing /\ displayed' = displayed /\ published' = published
  BY DEF Invalidate
<1>3. TypeOK' /\ WriterIsFree' /\ PendingIsLatest' /\ RedrawIsLatest' /\ LatestIsKept'
  BY <1>1, <1>2 DEF WriterIsFree, PendingIsLatest, RedrawIsLatest, LatestIsKept
<1>4. NothingNewer'
  BY <1>1, <1>2 DEF NothingNewer
<1>5. HeldFramesAreWhole' /\ WorkIsNewer'
  BY <1>1, <1>2 DEF HeldFramesAreWhole, Holding, WorkIsNewer
<1> QED BY <1>3, <1>4, <1>5

\* Every step keeps the invariant.
LEMMA StepInvariant == IInv /\ [Next]_vars => IInv'
<1> SUFFICES ASSUME IInv, [Next]_vars
             PROVE  IInv'
  OBVIOUS
<1>1. CASE UNCHANGED vars
  BY <1>1
  DEF IInv, TypeOK, WriterIsFree, LatestIsKept, HeldFramesAreWhole, Holding, PendingIsLatest,
      RedrawIsLatest, Redrawn, NothingNewer, WorkIsNewer, vars, roles
<1>2. CASE Next
  BY <1>2, DrawInvariant, PublishInvariant, TakeInvariant, FinishInvariant, RedrawInvariant,
     DetachInvariant, InvalidateInvariant
  DEF Next
<1> QED BY <1>1, <1>2

-----------------------------------------------------------------------------
\* The invariant holds in every reachable state.
LEMMA Invariance == Spec => []IInv
  BY InitInvariant, StepInvariant, PTL DEF Spec

\* The exchange is well typed; in particular the producer is never without a
\* slot, however slowly the consumer moves.
THEOREM TypeCorrect == Spec => []TypeOK
  BY Invariance, PTL DEF IInv

\* The producer draws on no slot that anybody else may read.
THEOREM ProducerAlone == Spec => []WriterIsFree
  BY Invariance, PTL DEF IInv

\* No frame in a role is torn or released, and the latest one is never lost.
THEOREM FramesKept == Spec => [](HeldFramesAreWhole /\ LatestIsKept)
  BY Invariance, PTL DEF IInv

\* No failure, redraw or replaced consumer loses the newest publication: it is
\* queued, being shown or displayed (frame_exchange.c).
THEOREM LatestFrameKept == Spec => []LatestIsKept
  BY Invariance, PTL DEF IInv

\* A step changes no frame that keeps a role.
LEMMA StepImmutable ==
    ASSUME IInv, [Next]_vars
    PROVE  [\A s \in Holding({pending, processing, displayed, latest}) :
              s \in {pending', processing', displayed', latest'} => content'[s] = content[s]]_vars
<1> SUFFICES ASSUME Next,
                    NEW s \in Holding({pending, processing, displayed, latest}),
                    s \in {pending', processing', displayed', latest'}
             PROVE  content'[s] = content[s]
  OBVIOUS
<1> USE NullAssumption DEF IInv, TypeOK
<1>s. s \in Slots
  BY DEF Holding
<1>1. CASE \E whole \in BOOLEAN : Draw(whole)
  BY <1>1, <1>s DEF Draw, WriterIsFree, Holding
<1>2. CASE Publish
  <2>1. s \in {writer, processing, displayed}
    BY <1>2 DEF Publish, Holding
  <2> QED BY <1>2, <1>s, <2>1, RetireFreeKeepsHeld DEF Publish
<1>3. CASE Take
  BY <1>3 DEF Take
<1>4. ASSUME NEW success \in BOOLEAN, Finish(success)
      PROVE  content'[s] = content[s]
  <2>1. s # NULL /\ processing' = NULL /\ latest' = latest
    BY <1>4, <1>s DEF Finish
  <2>2. latest # NULL => latest \in {pending', displayed'}
    BY <1>4 DEF Finish, Requeues, LatestIsKept, PendingIsLatest, RedrawIsLatest, Redrawn
  <2>3. s \in {writer, pending', displayed'}
    BY <2>1, <2>2
  <2> QED BY <1>4, <1>s, <2>3, RetireFreeKeepsHeld DEF Finish
<1>5. CASE Redraw
  BY <1>5 DEF Redraw
<1>6. CASE Detach
  <2>1. s \in {writer, pending'}
    BY <1>6, <1>s DEF Detach, Represented
  <2> QED BY <1>6, <1>s, <2>1, RetireFreeKeepsHeld DEF Detach
<1>7. CASE Invalidate
  <2>1. s \in {writer, processing, displayed}
    BY <1>7, <1>s DEF Invalidate
  <2> QED BY <1>7, <1>s, <2>1, RetireFreeKeepsHeld DEF Invalidate
<1> QED BY <1>1, <1>2, <1>3, <1>4, <1>5, <1>6, <1>7 DEF Next

\* What the consumer and the observers read stays as it is until they let go.
THEOREM FramesImmutable == Spec => HeldFramesAreImmutable
  BY Invariance, StepImmutable, PTL DEF Spec, HeldFramesAreImmutable

\* A step shows no older frame than the one displayed.
LEMMA StepForward ==
    ASSUME IInv, IInv', [Next]_vars
    PROVE  [displayed # NULL /\ displayed' # NULL
              => content'[displayed'] >= content[displayed]]_vars
<1> SUFFICES ASSUME Next, displayed # NULL, displayed' # NULL
             PROVE  content'[displayed'] >= content[displayed]
  OBVIOUS
<1> USE NullAssumption DEF IInv, TypeOK
<1>1. ASSUME displayed' = displayed
      PROVE  content'[displayed'] >= content[displayed]
  <2>1. content'[displayed] = content[displayed]
    BY <1>1, StepImmutable DEF Holding, vars, roles
  <2> QED BY <1>1, <2>1
<1>2. ASSUME NEW success \in BOOLEAN, Finish(success), displayed' # displayed
      PROVE  content'[displayed'] >= content[displayed]
  <2>1. displayed' = processing /\ processing # NULL
    BY <1>2 DEF Finish
  <2>2. content'[displayed'] = content[displayed']
    BY <1>2, <2>1, RetireFreeKeepsHeld DEF Finish
  <2> QED BY <2>1, <2>2 DEF WorkIsNewer
<1>3. displayed' = displayed \/ \E success \in BOOLEAN : Finish(success)
  BY DEF Next, Draw, Publish, Take, Redraw, Detach, Invalidate, roles
<1> QED BY <1>1, <1>2, <1>3

\* The display never goes back to an older frame.
THEOREM DisplayForward == Spec => DisplayNeverGoesBack
  BY Invariance, StepForward, PTL DEF Spec, DisplayNeverGoesBack
=============================================================================
