--------------------------- MODULE PcmStreamProofs ----------------------------
(***************************************************************************)
(* PcmStream for every size of its FIFO, of its batches and of the         *)
(* endpoint, and for every number of frames, clears, cancellations and     *)
(* native failures.                                                        *)
(***************************************************************************)
EXTENDS PcmStream, SequenceTheorems, TLAPS

WorkerPcs == {"attach", "look", "native", "answer", "progress", "fault", "observe", "report",
              "idle", "write", "room", "submit", "drain", "commit", "detach", "ended"}
OwnerPcs == {"create", "idle", "wake", "nudge", "again", "check", "space", "answer", "settle",
             "off", "store", "cancel", "interrupt", "join", "gone"}
Operations == {"create", "enqueue", "wait", "clear", "gain", "flush", "off", "on", "destroy"}

\* What observe_progress reports: the two counts, or nothing.
Sightings == {<<>>} \cup (Nat \X Nat)

SType == [head : Slots, count : 0..Capacity, epoch : 0..MaxEpoch,
          accepted : 0..MaxFrames, submitted : 0..MaxFrames, consumed : 0..MaxFrames,
          control : Controls, active : BOOLEAN, failed : BOOLEAN]
EType == [wake : BOOLEAN, space : BOOLEAN, done : BOOLEAN,
          cancel : BOOLEAN, waitCancelled : BOOLEAN]
DType == [buffer : Seq(Frames), submitted : Nat, gained : BOOLEAN,
          ready : BOOLEAN, interruption : BOOLEAN]
WType == [pc : WorkerPcs, gen : 0..MaxEpoch, batch : Seq(Frames), accepted : Nat,
          status : Statuses, seen : Sightings, after : {"look", "commit"},
          control : Controls]
OType == [pc : OwnerPcs, op : Operations, control : Controls, signaled : BOOLEAN,
          ret : Statuses, lost : BOOLEAN]

\* The endpoint and the worker's batch keep their sizes.
EndpointFits(x) == Len(x.buffer) <= EndpointFrames
BatchFits(x) == x.accepted <= Len(x.batch) /\ Len(x.batch) <= Batch

\* Every variable has its type, the locals of the threads included.
Typed ==
    /\ ring \in [Slots -> Frames] /\ s \in SType /\ e \in EType
    /\ d \in DType /\ EndpointFits(d)
    /\ w \in WType /\ BatchFits(w)
    /\ o \in OType
    /\ canceller \in {"in", "out"} /\ cancels \in Nat /\ natives \in Nat

\* No native failure has reached the stream, and the owner never gave up.
Sound == ~s.failed /\ ~o.lost

\* Where the worker holds a batch.
Holding ==
    \/ w.pc \in {"write", "room", "submit", "drain", "commit"}
    \/ w.pc \in {"observe", "report"} /\ w.after = "commit"

\* Where the worker relies on the epoch it looked at.
Relying == w.pc \in {"progress", "fault", "observe", "report", "idle",
                     "write", "room", "submit", "drain", "commit"}

\* The frames of this epoch that have left the FIFO.
Base == s.accepted - s.count

\* The worker is cancelled by a failure, a destroy, or a create that failed.
CancelHasCause ==
    e.cancel => \/ s.failed \/ o.op = "destroy"
                \/ o.op = "create" /\ o.pc \in {"join", "gone"}

\* The calls and what they wait for.
CallShape ==
    /\ w.pc = "attach" => ~s.failed /\ o.op = "create" /\ o.pc \in {"create", "join"}
    /\ w.pc = "attach" => ~e.done /\ d.submitted = 0 /\ d.buffer = <<>>
    /\ w.pc = "attach" => canceller = "out"
    /\ w.pc = "detach" => e.cancel
    /\ w.pc = "ended" => e.cancel \/ s.failed
    /\ o.pc = "create" => o.op = "create"
    /\ o.op = "create" => o.pc \in {"create", "idle", "join", "gone"}
    /\ o.op = "create" /\ o.pc = "create" => s.count = 0 /\ s.accepted = 0 /\ s.control = "NONE"
    /\ o.op = "destroy" => o.pc \in {"idle", "cancel", "interrupt", "join", "gone"}
    /\ o.pc \in {"wake", "nudge"} => o.op = "enqueue"
    /\ o.pc \in {"again", "check", "space"} => o.op = "wait"
    /\ o.pc \in {"off", "store"} => o.op = "off"
    /\ o.pc \in {"cancel", "interrupt"} => o.op = "destroy"
    /\ o.pc \in {"join", "gone"} => o.op \in {"create", "destroy"}
    /\ o.pc = "off" => s.epoch < MaxEpoch
    /\ o.pc \in {"answer", "settle"} /\ o.op = "off" /\ o.control = "FLUSH" => s.epoch < MaxEpoch
    /\ o.pc \in {"answer", "settle"} =>
         <<o.op, o.control>> \in {<<"clear", "CLEAR">>, <<"gain", "GAIN">>, <<"flush", "FLUSH">>,
                                  <<"off", "FLUSH">>, <<"off", "CLEAR">>}

\* The worker's locals.
WorkerShape ==
    /\ w.gen <= s.epoch
    /\ (w.control # "NONE") = (w.pc \in {"native", "answer"})
    /\ w.control # "FLUSH"
    /\ w.pc \in {"write", "room"} => w.accepted = 0
    /\ ~Holding => w.accepted = 0
    /\ Holding => w.batch # <<>>
    /\ w.pc \in {"native", "answer", "progress", "idle", "attach", "ended"} => w.batch = <<>>
    /\ w.pc \in {"observe", "report"} /\ w.after = "look" => w.batch = <<>>
    /\ w.pc = "answer" => w.status \in {"OK", "IO"}
    /\ w.pc = "progress" => w.after = "look"

\* A request is with the owner alone, with the worker, or answered.
Handshake ==
    Sound =>
        /\ s.control # "NONE" =>
             o.pc = "answer" /\ o.control = s.control /\ w.control = "NONE" /\ ~e.done
        /\ w.control # "NONE" =>
             o.pc = "answer" /\ o.control = w.control /\ s.control = "NONE" /\ ~e.done
        /\ e.done => \/ o.pc = "answer"
                     \/ o.op = "create" /\ o.pc \in {"create", "join", "gone"}
        /\ Relying => (w.gen # s.epoch) = (s.control = "CLEAR")
        /\ Clearing => s.count = 0 /\ s.accepted = 0 /\ s.submitted = 0 /\ s.consumed = 0
        /\ w.pc = "answer" /\ w.status = "OK" =>
             /\ w.control = "CLEAR" => d.buffer = <<>> /\ d.submitted = 0
             /\ w.control = "GAIN" => d.gained

\* What an answered request has done.
Did(control) ==
    /\ control = "FLUSH" => s.count = 0 /\ d.submitted = s.accepted
    /\ control = "CLEAR" => s.count = 0 /\ d.buffer = <<>> /\ d.submitted = 0 /\ w.batch = <<>>
    /\ control = "GAIN" => d.gained

Done ==
    Sound =>
        /\ o.pc = "answer" /\ e.done => Did(o.control)
        /\ o.pc = "settle" /\ o.signaled => Did(o.control)
        /\ o.pc = "store" => Did("CLEAR")
        /\ o.pc = "idle" /\ o.ret = "OK" =>
             /\ o.op = "flush" => Did("FLUSH")
             /\ o.op \in {"clear", "off"} => Did("CLEAR")
             /\ o.op = "gain" => Did("GAIN")

\* The slots of the ring r from h on hold c consecutive frames of the epoch k,
\* the last of which is number a.
Queue(r, h, c, k, a) == \A i \in 1..c : r[(h + i - 1) % Capacity] = Frame(k, (a - c) + i)

\* b holds the frames of the epoch k that follow number n.
Batched(b, k, n) == \A i \in 1..Len(b) : b[i] = Frame(k, n + i)

\* Up to silence, b holds the frames of the epoch k that end with number n.
InOrder(b, k, n) ==
    \A i \in 1..Len(b) : b[i] # Silence => b[i] = Frame(k, n - (Len(b) - i))

\* The FIFO and the worker's batch hold consecutive frames of the epoch.
Fifo ==
    /\ s.count <= s.accepted
    /\ Queue(ring, s.head, s.count, s.epoch, s.accepted)
    /\ Holding /\ w.gen = s.epoch =>
         Len(w.batch) <= s.count /\ Batched(w.batch, s.epoch, Base)

\* The endpoint has what left the FIFO, in order, and what it reports can be true.
Delivered ==
    Sound /\ ~Clearing =>
        /\ InOrder(d.buffer, s.epoch, d.submitted)
        /\ w.pc # "ended" =>
             /\ d.submitted = Base + w.accepted
             /\ s.submitted <= d.submitted
             /\ s.consumed <= Consumed
             /\ w.pc = "report" /\ w.seen # <<>> =>
                  /\ w.seen[1] = d.submitted /\ w.seen[2] <= Consumed
                  /\ s.consumed <= w.seen[2]

\* Without native failures nothing fails.
NothingFails ==
    natives = 0 =>
        /\ ~s.failed /\ o.ret # "IO" /\ ~o.lost
        /\ w.status # "IO" /\ w.pc # "fault"
        /\ w.pc = "report" => w.seen # <<>>
        /\ o.pc = "settle" => o.signaled

\* The inductive invariant.
IInv ==
    /\ Typed /\ CancelHasCause /\ CallShape /\ WorkerShape
    /\ Handshake /\ Done /\ Fifo /\ Delivered /\ NothingFails

\* A step keeps the FIFO's indices and the reported progress, ...
KeepsProgress ==
    /\ s'.head = s.head /\ s'.count = s.count /\ s'.epoch = s.epoch
    /\ s'.accepted = s.accepted /\ s'.submitted = s.submitted /\ s'.consumed = s.consumed

\* ...and the worker's locals but where it is, its status and what it has seen.
KeepsBatch ==
    /\ w'.gen = w.gen /\ w'.batch = w.batch /\ w'.accepted = w.accepted
    /\ w'.control = w.control

-----------------------------------------------------------------------------
\* The sizes are positive and the bounds are natural numbers.
LEMMA Constants ==
    /\ Capacity \in Nat \ {0} /\ Batch \in Nat \ {0} /\ MaxSubmission \in Nat \ {0}
    /\ EndpointFrames \in Nat \ {0}
    /\ MaxFrames \in Nat /\ MaxEpoch \in Nat /\ MaxDisturbances \in Nat
<1> QED BY SizesAssumption, BoundsAssumption

\* The smaller of two numbers.
LEMMA MinOfTwo ==
    ASSUME NEW a \in Int, NEW b \in Int
    PROVE  Min({a, b}) = IF a <= b THEN a ELSE b
<1>1. CASE a <= b
  <2>1. \A x \in {a, b} : (\A y \in {a, b} : x =< y) => x = a
    BY <1>1
  <2>2. \A y \in {a, b} : a =< y
    BY <1>1
  <2> QED BY <1>1, <2>1, <2>2 DEF Min
<1>2. CASE ~(a <= b)
  <2>1. \A x \in {a, b} : (\A y \in {a, b} : x =< y) => x = b
    BY <1>2
  <2>2. \A y \in {a, b} : b =< y
    BY <1>2
  <2> QED BY <1>2, <2>1, <2>2 DEF Min
<1> QED BY <1>1, <1>2

\* A pair of an epoch and an ordinal in the bounds is a frame.
LEMMA FrameTyped ==
    ASSUME NEW k \in 0..MaxEpoch, NEW n \in 0..MaxFrames
    PROVE  Frame(k, n) \in Frames
<1> QED BY DEF Frames

\* Silence is a frame.
LEMMA SilenceTyped == Silence \in Frames
<1> QED BY FrameTyped, Constants DEF Silence

\* A function on 1..n is a sequence of length n.
LEMMA FunctionIsSequence ==
    ASSUME NEW n \in Nat, NEW S, NEW f \in [1..n -> S]
    PROVE  f \in Seq(S) /\ Len(f) = n
<1>1. f \in Seq(S)
  BY SeqDef
<1>2. DOMAIN f = 1..n /\ DOMAIN f = 1..Len(f) /\ Len(f) \in Nat
  BY <1>1, LenProperties
<1> QED BY <1>1, <1>2

\* The remainder by the capacity is a slot.
LEMMA SlotTyped ==
    ASSUME NEW x \in Nat
    PROVE  x % Capacity \in Slots
<1> QED BY Constants DEF Slots

\* The fields have their types.
LEMMA Scalars ==
    ASSUME Typed
    PROVE  /\ s.head \in Slots /\ s.count \in 0..Capacity /\ s.epoch \in 0..MaxEpoch
           /\ s.accepted \in 0..MaxFrames /\ s.submitted \in 0..MaxFrames
           /\ s.consumed \in 0..MaxFrames
           /\ d.submitted \in Nat /\ Len(d.buffer) \in 0..EndpointFrames
           /\ w.gen \in 0..MaxEpoch /\ w.accepted \in Nat /\ Len(w.batch) \in Nat
           /\ w.accepted <= Len(w.batch) /\ Len(w.batch) <= Batch
           /\ natives \in Nat
<1>1. s.head \in Slots /\ s.count \in 0..Capacity /\ s.epoch \in 0..MaxEpoch
  BY DEF Typed, SType
<1>2. /\ s.accepted \in 0..MaxFrames /\ s.submitted \in 0..MaxFrames
      /\ s.consumed \in 0..MaxFrames
  BY DEF Typed, SType
<1>3. d.submitted \in Nat /\ Len(d.buffer) \in 0..EndpointFrames
  <2>1. d.submitted \in Nat /\ d.buffer \in Seq(Frames) /\ Len(d.buffer) <= EndpointFrames
    BY DEF Typed, DType, EndpointFits
  <2> QED BY <2>1, LenProperties, Constants
<1>4. /\ w.gen \in 0..MaxEpoch /\ w.accepted \in Nat /\ Len(w.batch) \in Nat
      /\ w.accepted <= Len(w.batch) /\ Len(w.batch) <= Batch
  <2>1. w.batch \in Seq(Frames)
    BY DEF Typed, WType
  <2> QED BY <2>1, LenProperties DEF Typed, WType, BatchFits
<1> QED BY <1>1, <1>2, <1>3, <1>4 DEF Typed

\* The numbers of a state are natural numbers.
LEMMA Numbers ==
    ASSUME Typed
    PROVE  /\ s.count \in Nat /\ s.accepted \in Nat /\ s.submitted \in Nat
           /\ s.consumed \in Nat /\ s.epoch \in Nat /\ d.submitted \in Nat
           /\ Len(d.buffer) \in Nat /\ w.gen \in Nat /\ w.accepted \in Nat
           /\ Len(w.batch) \in Nat /\ w.accepted <= Len(w.batch)
<1> \A n \in Nat : \A x \in 0..n : x \in Nat
  OBVIOUS
<1>1. /\ s.count \in Nat /\ s.accepted \in Nat /\ s.submitted \in Nat
      /\ s.consumed \in Nat /\ s.epoch \in Nat
  BY Scalars, Constants
<1>2. w.gen \in Nat /\ Len(d.buffer) \in Nat
  BY Scalars, Constants
<1> QED BY <1>1, <1>2, Scalars

\* The rest of a state has its types, too.
LEMMA Places ==
    ASSUME Typed
    PROVE  /\ s.control \in Controls /\ w.control \in Controls /\ o.control \in Controls
           /\ w.pc \in WorkerPcs /\ w.status \in Statuses /\ w.after \in {"look", "commit"}
           /\ o.pc \in OwnerPcs /\ o.op \in Operations /\ o.ret \in Statuses
<1>1. s.control \in Controls
  BY DEF Typed, SType
<1>2. /\ w.control \in Controls /\ w.pc \in WorkerPcs /\ w.status \in Statuses
      /\ w.after \in {"look", "commit"}
  BY DEF Typed, WType
<1>3. o.control \in Controls /\ o.pc \in OwnerPcs /\ o.op \in Operations /\ o.ret \in Statuses
  BY DEF Typed, OType
<1> QED BY <1>1, <1>2, <1>3

\* An observation is of two numbers.
LEMMA SeenNumbers ==
    ASSUME Typed
    PROVE  w.seen # <<>> => w.seen[1] \in Nat /\ w.seen[2] \in Nat
<1>1. w.seen \in Sightings
  BY DEF Typed, WType
<1> QED BY <1>1 DEF Sightings

\* Which native call of a step fails, and that the failure is counted.
LEMMA Outcome ==
    ASSUME Typed, NEW calls, NEW bad \in Failing(calls), Count(bad)
    PROVE  /\ bad = "none" \/ bad \in calls
           /\ natives' \in Nat /\ (natives' = 0 => natives = 0 /\ bad = "none")
<1>1. natives \in Nat /\ natives' = natives + (IF bad = "none" THEN 0 ELSE 1)
  BY DEF Typed, Count
<1>2. bad = "none" \/ bad \in calls
  BY DEF Failing
<1> QED BY <1>1, <1>2

\* A record of the worker's locals.
LEMMA WorkerRecord ==
    ASSUME NEW pc \in WorkerPcs, NEW g \in 0..MaxEpoch, NEW b \in Seq(Frames),
           NEW v \in Sightings, NEW c \in Controls
    PROVE  [pc |-> pc, gen |-> g, batch |-> b, accepted |-> 0, status |-> "OK",
            seen |-> v, after |-> "look", control |-> c] \in WType
<1> QED BY DEF WType, Statuses

\* The worker at the top of its loop, or past its end.
AtTop(pc) ==
    [pc |-> pc, gen |-> 0, batch |-> <<>>, accepted |-> 0, status |-> "OK",
     seen |-> <<0, 0>>, after |-> "look", control |-> "NONE"]

\* Looking with another place is AtTop.
LEMMA LookingIsAtTop == \A pc : [Looking EXCEPT !.pc = pc] = AtTop(pc)
<1> QED BY DEF Looking, AtTop

\* The fields of AtTop.
LEMMA LookingAt ==
    ASSUME NEW x, NEW pc \in WorkerPcs, x = AtTop(pc)
    PROVE  /\ x \in WType /\ BatchFits(x)
           /\ x.pc = pc /\ x.gen = 0 /\ x.batch = <<>> /\ x.accepted = 0 /\ x.status = "OK"
           /\ x.control = "NONE" /\ x.after = "look"
<1>1. /\ x.pc = pc /\ x.gen = 0 /\ x.batch = <<>> /\ x.accepted = 0 /\ x.status = "OK"
      /\ x.control = "NONE" /\ x.after = "look"
  BY DEF AtTop
<1>2. PICK b \in Seq(Frames) : b = <<>> /\ Len(b) = 0
  BY EmptySeq
<1>3. PICK v \in Sightings : v = <<0, 0>>
  BY DEF Sightings
<1>4. x \in WType
  <2>1. AtTop(pc) = [pc |-> pc, gen |-> 0, batch |-> b, accepted |-> 0, status |-> "OK",
                     seen |-> v, after |-> "look", control |-> "NONE"]
    BY <1>2, <1>3 DEF AtTop
  <2>2. 0 \in 0..MaxEpoch /\ "NONE" \in Controls
    BY Constants DEF Controls
  <2>3. [pc |-> pc, gen |-> 0, batch |-> b, accepted |-> 0, status |-> "OK",
         seen |-> v, after |-> "look", control |-> "NONE"] \in WType
    BY <2>2, WorkerRecord
  <2> QED BY <2>1, <2>3
<1>5. BatchFits(x)
  BY <1>1, <1>2, Constants DEF BatchFits
<1> QED BY <1>1, <1>4, <1>5

\* An empty buffer is in order.
LEMMA EmptyInOrder == \A k, n : InOrder(<<>>, k, n)
<1>1. Len(<<>>) = 0
  BY EmptySeq
<1> QED BY <1>1 DEF InOrder

\* An index of the ring wraps at most once.
LEMMA WrapsOnce ==
    ASSUME NEW c \in Nat \ {0}, NEW x \in 0..(2 * c - 1)
    PROVE  x % c = IF x < c THEN x ELSE x - c
<1>1. CASE x < c
  BY <1>1
<1>2. CASE x >= c
  BY <1>2
<1> QED BY <1>1, <1>2

\* Two ways round the ring lead to the same slot.
LEMMA SameSlot ==
    ASSUME NEW c \in Nat \ {0}, NEW h \in 0..(c - 1), NEW n \in 0..c, NEW i \in Nat,
           n + i <= c - 1
    PROVE  (((h + n) % c) + i) % c = (h + (n + i)) % c
<1>1. PICK x \in 0..(2 * c - 1), y \in 0..(2 * c - 1) : x = h + n /\ y = h + (n + i)
  OBVIOUS
<1>2. PICK g : g = x % c
  OBVIOUS
<1>3. g = IF x < c THEN x ELSE x - c
  BY <1>2, WrapsOnce
<1>9. g \in 0..(c - 1)
  BY <1>1, <1>3
<1>4. PICK z \in 0..(2 * c - 1) : z = g + i
  BY <1>9
<1>5. z % c = IF z < c THEN z ELSE z - c
  BY WrapsOnce
<1>6. y % c = IF y < c THEN y ELSE y - c
  BY WrapsOnce
<1>7. PICK u, v : u = z % c /\ v = y % c
  OBVIOUS
<1>8. u = v
  BY <1>1, <1>3, <1>4, <1>5, <1>6, <1>7
<1> QED BY <1>1, <1>2, <1>4, <1>7, <1>8

\* Frames leave the front of the queue.
LEMMA QueueDrop ==
    ASSUME NEW r, NEW h \in Slots, NEW c \in 0..Capacity, NEW k, NEW a \in Nat,
           NEW n \in Nat, n <= c, Queue(r, h, c, k, a)
    PROVE  Queue(r, (h + n) % Capacity, c - n, k, a)
<1> SUFFICES ASSUME NEW i \in 1..(c - n)
             PROVE  r[(((h + n) % Capacity) + i - 1) % Capacity] = Frame(k, (a - (c - n)) + i)
  BY DEF Queue
<1>1. Capacity \in Nat \ {0} /\ h \in 0..(Capacity - 1) /\ n \in 0..Capacity
  BY Constants DEF Slots
<1>2. PICK g : g = (h + n) % Capacity
  OBVIOUS
<1>3. g \in Nat
  BY <1>1, <1>2
<1>4. PICK j \in Nat : j = i - 1 /\ n + j <= Capacity - 1
  BY <1>1
<1>5. (g + j) % Capacity = (h + (n + j)) % Capacity
  BY <1>1, <1>2, <1>4, SameSlot
<1>6. g + i - 1 = g + j /\ h + (n + i) - 1 = h + (n + j) /\ n + i \in 1..c
  BY <1>1, <1>3, <1>4
<1>7. r[(h + (n + i) - 1) % Capacity] = Frame(k, (a - c) + (n + i))
  BY <1>6 DEF Queue
<1>8. (a - c) + (n + i) = (a - (c - n)) + i
  OBVIOUS
<1> QED BY <1>2, <1>5, <1>6, <1>7, <1>8

\* A batch that is not empty has a frame.
LEMMA BatchNonempty ==
    ASSUME Typed, w.batch # <<>>
    PROVE  Len(w.batch) > 0
<1>1. w.batch \in Seq(Frames)
  BY DEF Typed, WType
<1> QED BY <1>1, EmptySeq


\* The worker on its way from the top of the loop.
Found(pc, g, b, c) ==
    [pc |-> pc, gen |-> g, batch |-> b, accepted |-> 0, status |-> "OK",
     seen |-> <<0, 0>>, after |-> "look", control |-> c]

\* The fields of Found.
LEMMA FoundAt ==
    ASSUME NEW pc \in WorkerPcs, NEW g \in 0..MaxEpoch, NEW b \in Seq(Frames),
           NEW c \in Controls, Len(b) <= Batch
    PROVE  /\ Found(pc, g, b, c) \in WType /\ BatchFits(Found(pc, g, b, c))
           /\ Found(pc, g, b, c).pc = pc /\ Found(pc, g, b, c).gen = g
           /\ Found(pc, g, b, c).batch = b /\ Found(pc, g, b, c).accepted = 0
           /\ Found(pc, g, b, c).status = "OK" /\ Found(pc, g, b, c).control = c
           /\ Found(pc, g, b, c).after = "look"
<1>0. PICK x : x = Found(pc, g, b, c)
  OBVIOUS
<1>1. /\ x.pc = pc /\ x.gen = g /\ x.batch = b /\ x.accepted = 0 /\ x.status = "OK"
      /\ x.control = c /\ x.after = "look"
  BY <1>0 DEF Found
<1>2. PICK v \in Sightings : v = <<0, 0>>
  BY DEF Sightings
<1>3. x = [pc |-> pc, gen |-> g, batch |-> b, accepted |-> 0, status |-> "OK",
           seen |-> v, after |-> "look", control |-> c]
  BY <1>0, <1>2 DEF Found
<1>4. x \in WType
  BY <1>3, WorkerRecord
<1>5. Len(b) \in Nat
  BY LenProperties
<1>6. BatchFits(x)
  BY <1>1, <1>5 DEF BatchFits
<1> QED BY <1>0, <1>1, <1>4, <1>6

\* The first m frames from the slot h on, the frames of a batch after the first a,
\* and the ring once m frames of the epoch k have joined the c frames from h on.
Front(r, h, m) == [i \in 1..m |-> r[(h + i - 1) % Capacity]]
Part(b, a, m) == SubSeq(b, a + 1, a + m)
Filled(r, h, c, m, k, a) ==
    [i \in Slots |-> LET j == (i + Capacity - ((h + c) % Capacity)) % Capacity
                     IN  IF j < m THEN Frame(k, a + j + 1) ELSE r[i]]

\* The front of the queue is a batch.
LEMMA FrontIsBatch ==
    ASSUME NEW r \in [Slots -> Frames], NEW h \in Slots, NEW c \in 0..Capacity, NEW k,
           NEW a \in Nat, NEW m \in Nat, m <= c, Queue(r, h, c, k, a),
           NEW b, b = Front(r, h, m)
    PROVE  b \in Seq(Frames) /\ Len(b) = m /\ Batched(b, k, a - c)
<1>1. \A i \in 1..m : (h + i - 1) % Capacity \in Slots
  <2> SUFFICES ASSUME NEW i \in 1..m PROVE (h + i - 1) % Capacity \in Slots
    OBVIOUS
  <2>1. PICK x \in Nat : x = h + i - 1
    BY Constants DEF Slots
  <2> QED BY <2>1, SlotTyped
<1>2. b \in [1..m -> Frames]
  BY <1>1 DEF Front
<1>3. b \in Seq(Frames) /\ Len(b) = m
  BY <1>2, FunctionIsSequence
<1>4. \A i \in 1..m : b[i] = Frame(k, (a - c) + i)
  BY DEF Queue, Front
<1> QED BY <1>3, <1>4 DEF Batched

\* Consecutive frames appended to a buffer in order leave it in order.
LEMMA AppendInOrder ==
    ASSUME NEW b \in Seq(Frames), NEW c \in Seq(Frames), NEW k, NEW n \in Nat,
           InOrder(b, k, n), Batched(c, k, n)
    PROVE  InOrder(b \o c, k, n + Len(c))
<1>1. PICK p \in Nat, q \in Nat : p = Len(b) /\ q = Len(c)
  BY LenProperties
<1>2. PICK z : z = b \o c
  OBVIOUS
<1>3. Len(z) = p + q /\ \A i \in 1..(p + q) : z[i] = IF i <= p THEN b[i] ELSE c[i - p]
  BY <1>1, <1>2, ConcatProperties
<1>4. ASSUME NEW i \in 1..(p + q), z[i] # Silence
      PROVE  z[i] = Frame(k, (n + q) - ((p + q) - i))
  <2>1. CASE i <= p
    <3>1. i \in 1..Len(b) /\ z[i] = b[i]
      BY <1>1, <1>3, <2>1
    <3>2. b[i] = Frame(k, n - (p - i))
      BY <1>1, <1>4, <3>1 DEF InOrder
    <3>3. (n + q) - ((p + q) - i) = n - (p - i)
      OBVIOUS
    <3> QED BY <3>1, <3>2, <3>3
  <2>2. CASE i > p
    <3>1. PICK j \in 1..Len(c) : j = i - p
      BY <1>1, <2>2
    <3>2. z[i] = c[j]
      BY <1>3, <2>2, <3>1
    <3>3. c[j] = Frame(k, n + j)
      BY <3>1 DEF Batched
    <3>4. (n + q) - ((p + q) - i) = n + j
      BY <3>1
    <3> QED BY <3>2, <3>3, <3>4
  <2> QED BY <2>1, <2>2
<1> QED BY <1>1, <1>2, <1>3, <1>4 DEF InOrder

\* A part of a batch is a batch.
LEMMA PartOfBatch ==
    ASSUME NEW b \in Seq(Frames), NEW a \in Nat, NEW m \in Nat, a + m <= Len(b), NEW c,
           c = Part(b, a, m)
    PROVE  /\ c \in Seq(Frames) /\ Len(c) = m
           /\ \A k : \A n \in Int : Batched(b, k, n) => Batched(c, k, n + a)
<1>1. PICK p \in Nat, x \in Int, y \in Int : p = Len(b) /\ x = a + 1 /\ y = a + m
  BY LenProperties
<1>2. \A i \in x..y : b[i] \in Frames
  <2>1. \A i \in x..y : i \in 1..Len(b)
    BY <1>1
  <2> QED BY <2>1, ElementOfSeq
<1>3. /\ c \in Seq(Frames) /\ Len(c) = IF x <= y THEN y - x + 1 ELSE 0
      /\ \A i \in 1..(y - x + 1) : c[i] = b[x + i - 1]
  BY <1>1, <1>2, SubSeqProperties DEF Part
<1>4. Len(c) = m
  BY <1>1, <1>3
<1>5. ASSUME NEW k, NEW n \in Int, Batched(b, k, n)
      PROVE  Batched(c, k, n + a)
  <2>1. ASSUME NEW i \in 1..m
        PROVE  c[i] = Frame(k, (n + a) + i)
    <3>1. PICK j \in 1..Len(b) : j = a + i /\ x + i - 1 = j
      BY <1>1
    <3>2. c[i] = b[j]
      BY <1>1, <1>3, <3>1
    <3>3. b[j] = Frame(k, n + j)
      BY <1>5 DEF Batched
    <3>4. n + j = (n + a) + i
      BY <3>1
    <3> QED BY <3>2, <3>3, <3>4
  <2> QED BY <1>4, <2>1 DEF Batched
<1> QED BY <1>3, <1>4, <1>5

\* Frames join the back of the queue.
LEMMA QueueGrow ==
    ASSUME NEW r \in [Slots -> Frames], NEW h \in Slots, NEW c \in 0..Capacity,
           NEW m \in Nat, c + m <= Capacity, NEW k, NEW a \in Nat, Queue(r, h, c, k, a), NEW z,
           z = Filled(r, h, c, m, k, a)
    PROVE  Queue(z, h, c + m, k, a + m)
<1> SUFFICES ASSUME NEW i \in 1..(c + m)
             PROVE  z[(h + i - 1) % Capacity] = Frame(k, ((a + m) - (c + m)) + i)
  BY DEF Queue
<1>1. PICK N \in Nat \ {0} : N = Capacity /\ h \in 0..(N - 1) /\ c \in 0..N /\ c + m <= N
  BY Constants DEF Slots
<1>2. PICK x \in 0..(2 * N - 1), y \in 0..(2 * N - 1) : x = h + c /\ y = h + i - 1
  BY <1>1
<1>3. PICK t, p : t = x % N /\ p = y % N
  OBVIOUS
<1>4. /\ t = IF x < N THEN x ELSE x - N
      /\ p = IF y < N THEN y ELSE y - N
  BY <1>3, WrapsOnce
<1>5. t \in 0..(N - 1) /\ p \in 0..(N - 1)
  BY <1>2, <1>4
<1>6. PICK u \in 0..(2 * N - 1) : u = p + N - t
  BY <1>5
<1>7. PICK j : j = u % N
  OBVIOUS
<1>8. j = IF u < N THEN u ELSE u - N
  BY <1>7, WrapsOnce
<1>9. p \in Slots /\ z[p] = IF j < m THEN Frame(k, a + j + 1) ELSE r[p]
  BY <1>1, <1>2, <1>3, <1>5, <1>6, <1>7 DEF Slots, Filled
<1>10. z[(h + i - 1) % Capacity] = z[p]
  BY <1>1, <1>2, <1>3
<1>11. CASE i <= c
  <2>1. j >= m
    BY <1>1, <1>2, <1>4, <1>6, <1>8, <1>11
  <2>2. r[p] = Frame(k, (a - c) + i)
    <3>1. i \in 1..c /\ p = (h + i - 1) % Capacity
      BY <1>1, <1>2, <1>3, <1>11
    <3> QED BY <3>1 DEF Queue
  <2>3. ~(j < m)
    BY <1>5, <1>6, <1>8, <2>1
  <2>4. ((a + m) - (c + m)) + i = (a - c) + i
    BY <1>1
  <2> QED BY <1>9, <1>10, <2>2, <2>3, <2>4
<1>12. CASE i > c
  <2>1. j = i - 1 - c
    BY <1>1, <1>2, <1>4, <1>6, <1>8, <1>12
  <2>2. j < m /\ a + j + 1 = ((a + m) - (c + m)) + i
    BY <1>1, <2>1, <1>12
  <2> QED BY <1>9, <1>10, <2>2
<1> QED BY <1>1, <1>11, <1>12

\* The ring keeps its type when frames join it.
LEMMA FilledTyped ==
    ASSUME NEW r \in [Slots -> Frames], NEW h \in Slots, NEW c \in 0..Capacity,
           NEW m \in Nat, NEW k \in 0..MaxEpoch, NEW a \in Nat, a + m \in 0..MaxFrames
    PROVE  Filled(r, h, c, m, k, a) \in [Slots -> Frames]
<1> SUFFICES ASSUME NEW i \in Slots,
                    NEW j, j = (i + Capacity - ((h + c) % Capacity)) % Capacity
             PROVE  (IF j < m THEN Frame(k, a + j + 1) ELSE r[i]) \in Frames
  BY DEF Filled
<1>1. Capacity \in Nat \ {0} /\ h \in 0..(Capacity - 1) /\ i \in 0..(Capacity - 1)
  BY Constants DEF Slots
<1>2. PICK t \in 0..(Capacity - 1) : t = (h + c) % Capacity
  <2>1. h + c \in Nat
    BY <1>1
  <2> QED BY <2>1, SlotTyped DEF Slots
<1>3. PICK u \in Nat : u = i + Capacity - t
  BY <1>1
<1>4. j \in Nat
  <2>1. j = u % Capacity
    BY <1>2, <1>3
  <2>2. u % Capacity \in 0..(Capacity - 1)
    BY SlotTyped DEF Slots
  <2> QED BY <1>1, <2>1, <2>2
<1>5. CASE j < m
  <2>1. a + j + 1 \in 0..MaxFrames
    BY <1>4, <1>5, Constants
  <2> QED BY <1>5, <2>1, FrameTyped
<1>6. CASE ~(j < m)
  BY <1>6
<1> QED BY <1>5, <1>6
-----------------------------------------------------------------------------
\* The worker attaches the endpoint, or fails to.
LEMMA AttachInv ==
    ASSUME IInv, Attach
    PROVE  IInv'
<1>1. /\ Typed /\ CancelHasCause /\ CallShape /\ WorkerShape
      /\ Handshake /\ Done /\ Fifo /\ Delivered /\ NothingFails
  BY DEF IInv
<1>2. /\ ring \in [Slots -> Frames] /\ s \in SType /\ e \in EType
      /\ d \in DType /\ EndpointFits(d) /\ w \in WType /\ BatchFits(w) /\ o \in OType
      /\ canceller \in {"in", "out"} /\ cancels \in Nat /\ natives \in Nat
  BY <1>1 DEF Typed
<1>3. PICK bad \in Failing({"attach", "signal"}) :
        /\ Count(bad)
        /\ s' = [s EXCEPT !.failed = bad # "none"]
        /\ e' = [e EXCEPT !.done = bad # "signal", !.cancel = @ \/ bad = "signal"]
        /\ w' = [Looking EXCEPT !.pc = IF bad = "attach" THEN "ended" ELSE "look"]
        /\ d' = IF bad = "attach" THEN d
                ELSE [d EXCEPT !.buffer = [i \in 1..EndpointFrames |-> Silence]]
  BY DEF Attach
<1>4. /\ natives' \in Nat /\ (natives' = 0 => natives = 0 /\ bad = "none")
      /\ bad \in {"none", "attach", "signal"}
  BY <1>1, <1>3, Outcome
<1>5. /\ s' \in SType /\ KeepsProgress /\ s'.control = s.control
      /\ s'.failed <=> bad # "none"
  BY <1>2, <1>3 DEF SType, KeepsProgress
<1>6. /\ e' \in EType /\ (e'.done <=> bad # "signal")
      /\ e'.cancel <=> e.cancel \/ bad = "signal"
  BY <1>2, <1>3 DEF EType
<1>7. /\ w' \in WType /\ BatchFits(w')
      /\ w'.pc \in {"look", "ended"} /\ (w'.pc = "ended" <=> bad = "attach")
      /\ w'.gen = 0 /\ w'.batch = <<>> /\ w'.accepted = 0 /\ w'.status = "OK"
      /\ w'.control = "NONE" /\ w'.after = "look"
  <2>1. PICK pc \in {"look", "ended"} : pc = IF bad = "attach" THEN "ended" ELSE "look"
    OBVIOUS
  <2>2. w' = AtTop(pc) /\ pc \in WorkerPcs
    BY <1>3, <2>1, LookingIsAtTop DEF WorkerPcs
  <2>3. /\ w' \in WType /\ BatchFits(w') /\ w'.pc = pc
        /\ w'.gen = 0 /\ w'.batch = <<>> /\ w'.accepted = 0 /\ w'.status = "OK"
        /\ w'.control = "NONE" /\ w'.after = "look"
    BY <2>2, LookingAt
  <2> QED BY <2>1, <2>3
<1>8. /\ d' \in DType /\ EndpointFits(d') /\ d'.submitted = d.submitted /\ d'.gained = d.gained
      /\ Len(d'.buffer) \in Nat
      /\ \A k, n : InOrder(d'.buffer, k, n) \/ d'.buffer = d.buffer
  <2>1. CASE bad = "attach"
    BY <1>1, <1>2, <1>3, <2>1, Numbers
  <2>2. CASE bad # "attach"
    <3>1. PICK b : b = [i \in 1..EndpointFrames |-> Silence]
      OBVIOUS
    <3>2. d' = [d EXCEPT !.buffer = b]
      BY <1>3, <2>2, <3>1
    <3>3. b \in [1..EndpointFrames -> Frames]
      BY <3>1, SilenceTyped
    <3>4. b \in Seq(Frames) /\ Len(b) = EndpointFrames
      BY <3>3, FunctionIsSequence, Constants
    <3>5. \A k, n : InOrder(b, k, n)
      BY <3>1, <3>4 DEF InOrder
    <3>6. d' \in DType /\ d'.submitted = d.submitted /\ d'.gained = d.gained /\ d'.buffer = b
      BY <1>2, <3>2, <3>4 DEF DType
    <3> QED BY <3>4, <3>5, <3>6, Constants DEF EndpointFits
  <2> QED BY <2>1, <2>2
<1>9. /\ ring' = ring /\ o' = o /\ canceller' = canceller /\ cancels' = cancels
      /\ w.pc = "attach"
  BY DEF Attach
<1>10. Typed'
  BY <1>2, <1>4, <1>5, <1>6, <1>7, <1>8, <1>9 DEF Typed
<1>11. Sound' => Sound
  BY <1>1, <1>4, <1>5, <1>6, <1>7, <1>8, <1>9 DEF Sound, CallShape
<1>12. /\ s.count \in Nat /\ s.accepted \in Nat /\ s.submitted \in Nat /\ s.consumed \in Nat
      /\ s.epoch \in Nat /\ w.gen \in Nat /\ w.accepted \in Nat /\ d.submitted \in Nat
      /\ Len(d.buffer) \in Nat /\ Len(w.batch) \in Nat /\ w.accepted <= Len(w.batch)
      /\ s.control \in Controls /\ w.control \in Controls /\ o.control \in Controls
      /\ w.after \in {"look", "commit"}
  BY <1>1, Numbers, Places
<1>13. CancelHasCause'
  BY <1>1, <1>4, <1>5, <1>6, <1>7, <1>8, <1>9, <1>11, <1>12 DEF CancelHasCause, CallShape
<1>14. CallShape'
  BY <1>1, <1>4, <1>5, <1>6, <1>7, <1>8, <1>9, <1>11, <1>12 DEF CallShape, KeepsProgress
<1>15. WorkerShape'
  BY <1>1, <1>4, <1>5, <1>6, <1>7, <1>8, <1>9, <1>11, <1>12
     DEF WorkerShape, Holding, KeepsProgress, Controls
<1>16. Handshake'
  BY <1>1, <1>4, <1>5, <1>6, <1>7, <1>8, <1>9, <1>11, <1>12
     DEF Handshake, CallShape, WorkerShape, Sound, Relying, Clearing, KeepsProgress, Controls
<1>17. Done'
  BY <1>1, <1>4, <1>5, <1>6, <1>7, <1>8, <1>9, <1>11, <1>12
     DEF Done, Handshake, CallShape, WorkerShape, Sound, Did, KeepsProgress
<1>18. Fifo'
  BY <1>1, <1>4, <1>5, <1>6, <1>7, <1>8, <1>9, <1>11, <1>12
     DEF Fifo, WorkerShape, Holding, Base, KeepsProgress
<1>19. Delivered'
  <2>1. w.control = "NONE" /\ d.submitted = 0 /\ w.accepted = 0
    BY <1>1, <1>4, <1>5, <1>6, <1>7, <1>8, <1>9, <1>11, <1>12 DEF WorkerShape, CallShape, Holding
  <2>2. Sound' /\ ~Clearing' => Sound /\ ~Clearing
    BY <1>4, <1>5, <1>6, <1>7, <1>8, <1>9, <1>11, <1>12, <2>1 DEF Clearing
  <2>3. Consumed = 0 /\ Consumed' = 0
    BY <1>4, <1>5, <1>6, <1>7, <1>8, <1>9, <1>11, <1>12, <2>1 DEF Consumed
  <2>4. Sound' /\ ~Clearing' => InOrder(d'.buffer, s'.epoch, d'.submitted)
    BY <1>1, <1>4, <1>5, <1>6, <1>7, <1>8, <1>9, <1>11, <1>12, <2>2 DEF Delivered, KeepsProgress
  <2>5. Base' = Base
    BY <1>4, <1>5, <1>6, <1>7, <1>8, <1>9, <1>11, <1>12 DEF Base, KeepsProgress
  <2>6. w'.pc # "report"
    BY <1>4, <1>5, <1>6, <1>7, <1>8, <1>9, <1>11, <1>12
  <2>7. Sound' /\ ~Clearing' => d.submitted = Base + w.accepted /\ s.submitted <= d.submitted /\ s.consumed <= 0
    BY <1>1, <1>4, <1>5, <1>6, <1>7, <1>8, <1>9, <1>11, <1>12, <2>2, <2>3 DEF Delivered
  <2> QED BY <1>4, <1>5, <1>6, <1>7, <1>8, <1>9, <1>11, <1>12, <2>1, <2>3, <2>4, <2>5, <2>6,
     <2>7 DEF Delivered, KeepsProgress
<1>20. NothingFails'
  BY <1>1, <1>4, <1>5, <1>6, <1>7, <1>8, <1>9, <1>11, <1>12
     DEF NothingFails, CallShape, WorkerShape, CancelHasCause, Sound
<1> QED BY <1>10, <1>13, <1>14, <1>15, <1>16, <1>17, <1>18, <1>19, <1>20 DEF IInv

\* The native side of a clear or a gain.
LEMMA NativeInv ==
    ASSUME IInv, Native
    PROVE  IInv'
<1>1. /\ Typed /\ CancelHasCause /\ CallShape /\ WorkerShape
      /\ Handshake /\ Done /\ Fifo /\ Delivered /\ NothingFails
  BY DEF IInv
<1>2. /\ ring \in [Slots -> Frames] /\ s \in SType /\ e \in EType
      /\ d \in DType /\ EndpointFits(d) /\ w \in WType /\ BatchFits(w) /\ o \in OType
      /\ canceller \in {"in", "out"} /\ cancels \in Nat /\ natives \in Nat
  BY <1>1 DEF Typed
<1>3. PICK bad \in Failing({"control"}) :
        /\ Count(bad)
        /\ LET applied == IF w.control = "GAIN" THEN [d EXCEPT !.gained = TRUE]
                          ELSE [d EXCEPT !.buffer = <<>>, !.submitted = 0,
                                   !.ready = FALSE, !.interruption = FALSE]
           IN  d' \in {applied} \cup (IF bad = "none" THEN {} ELSE {d})
        /\ w' = [w EXCEPT !.pc = "answer", !.status = IF bad = "none" THEN "OK" ELSE "IO"]
  BY DEF Native
<1>4. /\ natives' \in Nat /\ (natives' = 0 => natives = 0 /\ bad = "none")
      /\ bad \in {"none", "control"}
  BY <1>1, <1>3, Outcome
<1>5. /\ w' \in WType /\ BatchFits(w') /\ KeepsBatch
      /\ w'.pc = "answer" /\ w'.after = w.after /\ w'.seen = w.seen
      /\ w'.status = IF bad = "none" THEN "OK" ELSE "IO"
  <2>1. PICK v \in Statuses : v = IF bad = "none" THEN "OK" ELSE "IO"
    BY DEF Statuses
  <2>2. w' = [w EXCEPT !.pc = "answer", !.status = v]
    BY <1>3, <2>1
  <2>3. /\ w' \in WType /\ w'.status = v /\ w'.pc = "answer" /\ w'.after = w.after
        /\ w'.seen = w.seen
    BY <1>2, <2>2 DEF WType, WorkerPcs
  <2>4. KeepsBatch
    BY <1>2, <2>2 DEF WType, KeepsBatch
  <2> QED BY <1>2, <2>1, <2>3, <2>4 DEF BatchFits, KeepsBatch
<1>6. /\ d' \in DType /\ EndpointFits(d')
      /\ (d'.buffer = d.buffer /\ d'.submitted = d.submitted) \/ w.control # "GAIN"
      /\ bad = "none" /\ w.control = "GAIN" => d'.gained
      /\ bad = "none" /\ w.control # "GAIN" => d'.buffer = <<>> /\ d'.submitted = 0
  <2>1. CASE d' = d /\ bad # "none"
    BY <1>2, <2>1
  <2>2. CASE w.control = "GAIN" /\ d' = [d EXCEPT !.gained = TRUE]
    BY <1>2, <2>2 DEF DType, EndpointFits
  <2>3. CASE /\ w.control # "GAIN"
             /\ d' = [d EXCEPT !.buffer = <<>>, !.submitted = 0,
                        !.ready = FALSE, !.interruption = FALSE]
    <3>1. PICK b \in Seq(Frames) : b = <<>> /\ Len(b) = 0
      BY EmptySeq
    <3>2. d' = [d EXCEPT !.buffer = b, !.submitted = 0, !.ready = FALSE, !.interruption = FALSE]
      BY <2>3, <3>1
    <3>3. d' \in DType /\ d'.buffer = b /\ d'.submitted = 0
      BY <1>2, <3>2 DEF DType
    <3> QED BY <2>3, <3>1, <3>3, Constants DEF EndpointFits
  <2> QED BY <1>3, <2>1, <2>2, <2>3
<1>7. /\ ring' = ring /\ s' = s /\ e' = e /\ o' = o /\ canceller' = canceller
      /\ cancels' = cancels
      /\ w.pc = "native"
  BY DEF Native, shared
<1>8. Typed'
  BY <1>2, <1>4, <1>5, <1>6, <1>7 DEF Typed
<1>9. Sound' => Sound
  BY <1>1, <1>4, <1>5, <1>6, <1>7 DEF Sound, CallShape
<1>10. /\ s.count \in Nat /\ s.accepted \in Nat /\ s.submitted \in Nat /\ s.consumed \in Nat
      /\ s.epoch \in Nat /\ w.gen \in Nat /\ w.accepted \in Nat /\ d.submitted \in Nat
      /\ Len(d.buffer) \in Nat /\ Len(w.batch) \in Nat /\ w.accepted <= Len(w.batch)
      /\ s.control \in Controls /\ w.control \in Controls /\ o.control \in Controls
      /\ w.after \in {"look", "commit"}
  BY <1>1, Numbers, Places
<1>11. CancelHasCause'
  BY <1>1, <1>4, <1>5, <1>6, <1>7, <1>9, <1>10 DEF CancelHasCause, CallShape
<1>12. CallShape'
  BY <1>1, <1>4, <1>5, <1>6, <1>7, <1>9, <1>10 DEF CallShape
<1>13. WorkerShape'
  BY <1>1, <1>4, <1>5, <1>6, <1>7, <1>9, <1>10 DEF WorkerShape, Holding, KeepsBatch, Controls
<1>14. Handshake'
  BY <1>1, <1>4, <1>5, <1>6, <1>7, <1>9, <1>10
     DEF Handshake, CallShape, WorkerShape, Sound, Relying, Clearing, KeepsBatch, Controls
<1>15. Done'
  BY <1>1, <1>4, <1>5, <1>6, <1>7, <1>9, <1>10
     DEF Done, Handshake, CallShape, WorkerShape, Sound, Did, KeepsBatch
<1>16. Fifo'
  BY <1>1, <1>4, <1>5, <1>6, <1>7, <1>9, <1>10 DEF Fifo, WorkerShape, Holding, Base, KeepsBatch
<1>17. Delivered'
  BY <1>1, <1>4, <1>5, <1>6, <1>7, <1>9, <1>10 DEF Delivered, Handshake, CallShape, WorkerShape,
     Sound, Clearing, Base, Consumed, KeepsBatch
<1>18. NothingFails'
  BY <1>1, <1>4, <1>5, <1>6, <1>7, <1>9, <1>10
     DEF NothingFails, CallShape, WorkerShape, CancelHasCause, Sound
<1> QED BY <1>8, <1>11, <1>12, <1>13, <1>14, <1>15, <1>16, <1>17, <1>18 DEF IInv

\* The worker answers a clear or a gain.
LEMMA AnswerInv ==
    ASSUME IInv, Answer
    PROVE  IInv'
<1>1. /\ Typed /\ CancelHasCause /\ CallShape /\ WorkerShape
      /\ Handshake /\ Done /\ Fifo /\ Delivered /\ NothingFails
  BY DEF IInv
<1>2. /\ ring \in [Slots -> Frames] /\ s \in SType /\ e \in EType
      /\ d \in DType /\ EndpointFits(d) /\ w \in WType /\ BatchFits(w) /\ o \in OType
      /\ canceller \in {"in", "out"} /\ cancels \in Nat /\ natives \in Nat
  BY <1>1 DEF Typed
<1>3. PICK bad \in Failing({"signal"}) :
        /\ Count(bad)
        /\ s' = [s EXCEPT !.failed = @ \/ (w.status = "IO" \/ bad # "none")]
        /\ e' = [e EXCEPT !.done = @ \/ bad = "none",
                   !.cancel = @ \/ (w.status = "IO" \/ bad # "none")]
  BY DEF Answer
<1>4. /\ natives' \in Nat /\ (natives' = 0 => natives = 0 /\ bad = "none")
      /\ bad \in {"none", "signal"}
  BY <1>1, <1>3, Outcome
<1>5. /\ s' \in SType /\ KeepsProgress /\ s'.control = s.control
      /\ s'.failed <=> s.failed \/ w.status = "IO" \/ bad # "none"
  BY <1>2, <1>3 DEF SType, KeepsProgress
<1>6. /\ e' \in EType /\ (e'.done <=> e.done \/ bad = "none")
      /\ e'.cancel <=> e.cancel \/ w.status = "IO" \/ bad # "none"
  BY <1>2, <1>3 DEF EType
<1>7. /\ w' \in WType /\ BatchFits(w')
      /\ w'.pc = "look" /\ w'.gen = 0 /\ w'.batch = <<>> /\ w'.accepted = 0 /\ w'.status = "OK"
      /\ w'.control = "NONE" /\ w'.after = "look"
  <2>1. w' = AtTop("look")
    BY DEF Answer, Looking, AtTop
  <2>2. "look" \in WorkerPcs
    BY DEF WorkerPcs
  <2> QED BY <2>1, <2>2, LookingAt
<1>8. /\ ring' = ring /\ d' = d /\ o' = o /\ canceller' = canceller /\ cancels' = cancels
      /\ w.pc = "answer"
  BY DEF Answer
<1>9. Typed'
  BY <1>2, <1>4, <1>5, <1>6, <1>7, <1>8 DEF Typed
<1>10. Sound' => Sound
  BY <1>1, <1>4, <1>5, <1>6, <1>7, <1>8 DEF Sound, CallShape
<1>11. /\ s.count \in Nat /\ s.accepted \in Nat /\ s.submitted \in Nat /\ s.consumed \in Nat
      /\ s.epoch \in Nat /\ w.gen \in Nat /\ w.accepted \in Nat /\ d.submitted \in Nat
      /\ Len(d.buffer) \in Nat /\ Len(w.batch) \in Nat /\ w.accepted <= Len(w.batch)
      /\ s.control \in Controls /\ w.control \in Controls /\ o.control \in Controls
      /\ w.after \in {"look", "commit"}
  BY <1>1, Numbers, Places
<1>12. CancelHasCause'
  BY <1>1, <1>4, <1>5, <1>6, <1>7, <1>8, <1>10, <1>11 DEF CancelHasCause, CallShape
<1>13. CallShape'
  BY <1>1, <1>4, <1>5, <1>6, <1>7, <1>8, <1>10, <1>11 DEF CallShape, KeepsProgress
<1>14. WorkerShape'
  BY <1>1, <1>4, <1>5, <1>6, <1>7, <1>8, <1>10, <1>11
     DEF WorkerShape, Holding, KeepsProgress, Controls
<1>15. Handshake'
  BY <1>1, <1>4, <1>5, <1>6, <1>7, <1>8, <1>10, <1>11
     DEF Handshake, CallShape, WorkerShape, Sound, Relying, Clearing, KeepsProgress, Controls
<1>16. Done'
  BY <1>1, <1>4, <1>5, <1>6, <1>7, <1>8, <1>10, <1>11 DEF Done, Handshake, CallShape,
     WorkerShape, Sound, Holding, Relying, Base, Clearing, Did, Consumed, KeepsProgress,
     Statuses, Controls
<1>17. Fifo'
  BY <1>1, <1>4, <1>5, <1>6, <1>7, <1>8, <1>10, <1>11
     DEF Fifo, WorkerShape, Holding, Base, KeepsProgress
<1>18. Delivered'
  BY <1>1, <1>4, <1>5, <1>6, <1>7, <1>8, <1>10, <1>11, EmptyInOrder DEF Delivered, Handshake,
     WorkerShape, Sound, Holding, Relying, Base, Clearing, Did, Consumed, KeepsProgress,
     KeepsBatch, Statuses, Controls
<1>19. NothingFails'
  BY <1>1, <1>4, <1>5, <1>6, <1>7, <1>8, <1>10, <1>11
     DEF NothingFails, CallShape, WorkerShape, CancelHasCause, Sound
<1> QED BY <1>9, <1>12, <1>13, <1>14, <1>15, <1>16, <1>17, <1>18, <1>19 DEF IInv

\* A wait of the worker failed.
LEMMA FaultInv ==
    ASSUME IInv, Fault
    PROVE  IInv'
<1>1. /\ Typed /\ CancelHasCause /\ CallShape /\ WorkerShape
      /\ Handshake /\ Done /\ Fifo /\ Delivered /\ NothingFails
  BY DEF IInv
<1>2. /\ ring \in [Slots -> Frames] /\ s \in SType /\ e \in EType
      /\ d \in DType /\ EndpointFits(d) /\ w \in WType /\ BatchFits(w) /\ o \in OType
      /\ canceller \in {"in", "out"} /\ cancels \in Nat /\ natives \in Nat
  BY <1>1 DEF Typed
<1>3. /\ s' = [s EXCEPT !.failed = @ \/ TRUE] /\ e' = [e EXCEPT !.cancel = @ \/ TRUE]
      /\ w.pc = "fault"
  BY DEF Fault, FailIf
<1>4. /\ s' \in SType /\ KeepsProgress /\ s'.control = s.control /\ s'.failed
  BY <1>2, <1>3 DEF SType, KeepsProgress
<1>5. /\ e' \in EType /\ e'.done = e.done /\ e'.cancel
  BY <1>2, <1>3 DEF EType
<1>6. /\ w' \in WType /\ BatchFits(w')
      /\ w'.pc = "look" /\ w'.gen = 0 /\ w'.batch = <<>> /\ w'.accepted = 0 /\ w'.status = "OK"
      /\ w'.control = "NONE" /\ w'.after = "look"
  <2>1. w' = AtTop("look")
    BY DEF Fault, Looking, AtTop
  <2>2. "look" \in WorkerPcs
    BY DEF WorkerPcs
  <2> QED BY <2>1, <2>2, LookingAt
<1>7. /\ ring' = ring /\ d' = d /\ o' = o /\ canceller' = canceller /\ cancels' = cancels
      /\ natives' = natives
      /\ w.pc = "fault"
  BY DEF Fault
<1>8. Typed'
  BY <1>2, <1>3, <1>4, <1>5, <1>6, <1>7 DEF Typed
<1>9. Sound' => Sound
  BY <1>1, <1>3, <1>4, <1>5, <1>6, <1>7 DEF Sound, CallShape
<1>10. /\ s.count \in Nat /\ s.accepted \in Nat /\ s.submitted \in Nat /\ s.consumed \in Nat
      /\ s.epoch \in Nat /\ w.gen \in Nat /\ w.accepted \in Nat /\ d.submitted \in Nat
      /\ Len(d.buffer) \in Nat /\ Len(w.batch) \in Nat /\ w.accepted <= Len(w.batch)
      /\ s.control \in Controls /\ w.control \in Controls /\ o.control \in Controls
      /\ w.after \in {"look", "commit"}
  BY <1>1, Numbers, Places
<1>11. CancelHasCause'
  BY <1>1, <1>3, <1>4, <1>5, <1>6, <1>7, <1>9, <1>10 DEF CancelHasCause, CallShape
<1>12. CallShape'
  BY <1>1, <1>3, <1>4, <1>5, <1>6, <1>7, <1>9, <1>10 DEF CallShape, KeepsProgress
<1>13. WorkerShape'
  BY <1>1, <1>3, <1>4, <1>5, <1>6, <1>7, <1>9, <1>10
     DEF WorkerShape, Holding, KeepsProgress, Controls
<1>14. Handshake'
  BY <1>1, <1>3, <1>4, <1>5, <1>6, <1>7, <1>9, <1>10
     DEF Handshake, CallShape, WorkerShape, Sound, Relying, Clearing, KeepsProgress, Controls
<1>15. Done'
  BY <1>1, <1>3, <1>4, <1>5, <1>6, <1>7, <1>9, <1>10
     DEF Done, Handshake, CallShape, WorkerShape, Sound, Did, KeepsProgress
<1>16. Fifo'
  BY <1>1, <1>3, <1>4, <1>5, <1>6, <1>7, <1>9, <1>10
     DEF Fifo, WorkerShape, Holding, Base, KeepsProgress
<1>17. Delivered'
  BY <1>1, <1>3, <1>4, <1>5, <1>6, <1>7, <1>9, <1>10 DEF Delivered, Handshake, CallShape,
     WorkerShape, Sound, Clearing, Base, Consumed, KeepsProgress
<1>18. NothingFails'
  BY <1>1, <1>3, <1>4, <1>5, <1>6, <1>7, <1>9, <1>10
     DEF NothingFails, CallShape, WorkerShape, CancelHasCause, Sound
<1> QED BY <1>8, <1>11, <1>12, <1>13, <1>14, <1>15, <1>16, <1>17, <1>18 DEF IInv

\* The worker reads the endpoint's counts.
LEMMA ObserveInv ==
    ASSUME IInv, Observe
    PROVE  IInv'
<1>1. /\ Typed /\ CancelHasCause /\ CallShape /\ WorkerShape
      /\ Handshake /\ Done /\ Fifo /\ Delivered /\ NothingFails
  BY DEF IInv
<1>2. /\ ring \in [Slots -> Frames] /\ s \in SType /\ e \in EType
      /\ d \in DType /\ EndpointFits(d) /\ w \in WType /\ BatchFits(w) /\ o \in OType
      /\ canceller \in {"in", "out"} /\ cancels \in Nat /\ natives \in Nat
  BY <1>1 DEF Typed
<1>3. PICK bad \in Failing({"padding"}) :
        /\ Count(bad)
        /\ w' = [w EXCEPT !.pc = "report",
                    !.seen = IF bad = "none" THEN <<d.submitted, Consumed>> ELSE <<>>]
  BY DEF Observe
<1>4. /\ natives' \in Nat /\ (natives' = 0 => natives = 0 /\ bad = "none")
      /\ bad \in {"none", "padding"}
  BY <1>1, <1>3, Outcome
<1>5. /\ w' \in WType /\ BatchFits(w') /\ KeepsBatch
      /\ w'.pc = "report" /\ w'.after = w.after /\ w'.status = w.status
      /\ bad = "none" => w'.seen # <<>>
      /\ w'.seen # <<>> => w'.seen[1] = d.submitted /\ w'.seen[2] = Consumed
  <2>1. Consumed \in Nat /\ d.submitted \in Nat
    BY <1>1, Numbers DEF Consumed
  <2>2. PICK v \in Sightings : v = IF bad = "none" THEN <<d.submitted, Consumed>> ELSE <<>>
    BY <2>1 DEF Sightings
  <2>3. w' = [w EXCEPT !.pc = "report", !.seen = v]
    BY <1>3, <2>2
  <2>4. /\ w' \in WType /\ w'.pc = "report" /\ w'.after = w.after /\ w'.status = w.status
        /\ w'.seen = v
    BY <1>2, <2>3 DEF WType, WorkerPcs
  <2>5. KeepsBatch
    BY <1>2, <2>3 DEF WType, KeepsBatch
  <2>6. bad = "none" => v # <<>>
    BY <2>2
  <2>7. v # <<>> => v[1] = d.submitted /\ v[2] = Consumed
    BY <2>2
  <2> QED BY <1>2, <2>4, <2>5, <2>6, <2>7 DEF BatchFits, KeepsBatch
<1>6. /\ ring' = ring /\ s' = s /\ e' = e /\ d' = d /\ o' = o /\ canceller' = canceller
      /\ cancels' = cancels
      /\ w.pc = "observe"
  BY DEF Observe, shared
<1>7. Typed'
  BY <1>2, <1>4, <1>5, <1>6 DEF Typed
<1>8. Sound' => Sound
  BY <1>1, <1>4, <1>5, <1>6 DEF Sound, CallShape
<1>9. /\ s.count \in Nat /\ s.accepted \in Nat /\ s.submitted \in Nat /\ s.consumed \in Nat
      /\ s.epoch \in Nat /\ w.gen \in Nat /\ w.accepted \in Nat /\ d.submitted \in Nat
      /\ Len(d.buffer) \in Nat /\ Len(w.batch) \in Nat /\ w.accepted <= Len(w.batch)
      /\ s.control \in Controls /\ w.control \in Controls /\ o.control \in Controls
      /\ w.after \in {"look", "commit"}
  BY <1>1, Numbers, Places
<1>10. CancelHasCause'
  BY <1>1, <1>4, <1>5, <1>6, <1>8, <1>9 DEF CancelHasCause, CallShape
<1>11. CallShape'
  BY <1>1, <1>4, <1>5, <1>6, <1>8, <1>9 DEF CallShape
<1>12. WorkerShape'
  BY <1>1, <1>4, <1>5, <1>6, <1>8, <1>9 DEF WorkerShape, Holding, KeepsBatch, Controls
<1>13. Handshake'
  BY <1>1, <1>4, <1>5, <1>6, <1>8, <1>9 DEF Handshake, CallShape, WorkerShape, Sound, Relying,
     Clearing, KeepsBatch, Controls
<1>14. Done'
  BY <1>1, <1>4, <1>5, <1>6, <1>8, <1>9 DEF Done, Handshake, CallShape, WorkerShape, Sound, Did,
     KeepsBatch
<1>15. Fifo'
  BY <1>1, <1>4, <1>5, <1>6, <1>8, <1>9 DEF Fifo, WorkerShape, Holding, Base, KeepsBatch
<1>16. Delivered'
  BY <1>1, <1>4, <1>5, <1>6, <1>8, <1>9 DEF Delivered, Handshake, CallShape, WorkerShape, Sound,
     Clearing, Base, Consumed, KeepsBatch
<1>17. NothingFails'
  BY <1>1, <1>4, <1>5, <1>6, <1>8, <1>9 DEF NothingFails, CallShape, WorkerShape,
     CancelHasCause, Sound
<1> QED BY <1>7, <1>10, <1>11, <1>12, <1>13, <1>14, <1>15, <1>16, <1>17 DEF IInv

\* Nothing to submit, and the endpoint still plays.
LEMMA WaitProgressInv ==
    ASSUME IInv, WaitProgress
    PROVE  IInv'
<1>1. /\ Typed /\ CancelHasCause /\ CallShape /\ WorkerShape
      /\ Handshake /\ Done /\ Fifo /\ Delivered /\ NothingFails
  BY DEF IInv
<1>2. /\ ring \in [Slots -> Frames] /\ s \in SType /\ e \in EType
      /\ d \in DType /\ EndpointFits(d) /\ w \in WType /\ BatchFits(w) /\ o \in OType
      /\ canceller \in {"in", "out"} /\ cancels \in Nat /\ natives \in Nat
  BY <1>1 DEF Typed
<1>3. \/ /\ d.ready /\ d' = [d EXCEPT !.ready = FALSE] /\ natives' = natives
         /\ w' = [w EXCEPT !.pc = Unless("observe")]
      \/ /\ d' = [d EXCEPT !.interruption = FALSE] /\ natives' = natives
         /\ w' = [w EXCEPT !.pc = Unless("look")]
      \/ /\ Count("wait") /\ d' = d
         /\ w' = [w EXCEPT !.pc = Unless("fault")]
  BY DEF WaitProgress, WaitEvent
<1>4. /\ d' \in DType /\ EndpointFits(d') /\ d'.buffer = d.buffer /\ d'.submitted = d.submitted
      /\ d'.gained = d.gained
  BY <1>2, <1>3 DEF DType, EndpointFits
<1>5. /\ natives' \in Nat /\ (natives' = 0 => natives = 0)
  BY <1>2, <1>3 DEF Count
<1>6. PICK pc \in {"observe", "look", "fault", "detach"} :
        /\ w' = [w EXCEPT !.pc = pc] /\ (natives' = 0 => pc # "fault")
        /\ (pc = "detach" => e.cancel)
  BY <1>2, <1>3 DEF Unless, Count
<1>7. /\ w' \in WType /\ BatchFits(w') /\ KeepsBatch
      /\ w'.pc \in {"observe", "look", "fault", "detach"} /\ (natives' = 0 => w'.pc # "fault")
      /\ w'.after = w.after /\ w'.status = w.status /\ (w'.pc = "detach" => e.cancel)
  BY <1>2, <1>6 DEF WType, WorkerPcs, Statuses, Controls, BatchFits, KeepsBatch
<1>8. /\ ring' = ring /\ s' = s /\ e' = e /\ o' = o /\ canceller' = canceller
      /\ cancels' = cancels
      /\ w.pc = "progress"
  BY DEF WaitProgress, shared
<1>9. Typed'
  BY <1>2, <1>4, <1>5, <1>7, <1>8 DEF Typed
<1>10. Sound' => Sound
  BY <1>1, <1>4, <1>5, <1>7, <1>8 DEF Sound, CallShape
<1>11. /\ s.count \in Nat /\ s.accepted \in Nat /\ s.submitted \in Nat /\ s.consumed \in Nat
      /\ s.epoch \in Nat /\ w.gen \in Nat /\ w.accepted \in Nat /\ d.submitted \in Nat
      /\ Len(d.buffer) \in Nat /\ Len(w.batch) \in Nat /\ w.accepted <= Len(w.batch)
      /\ s.control \in Controls /\ w.control \in Controls /\ o.control \in Controls
      /\ w.after \in {"look", "commit"}
  BY <1>1, Numbers, Places
<1>12. CancelHasCause'
  BY <1>1, <1>4, <1>5, <1>7, <1>8, <1>10, <1>11 DEF CancelHasCause, CallShape
<1>13. CallShape'
  BY <1>1, <1>4, <1>5, <1>7, <1>8, <1>10, <1>11 DEF CallShape
<1>14. WorkerShape'
  BY <1>1, <1>4, <1>5, <1>7, <1>8, <1>10, <1>11 DEF WorkerShape, Holding, KeepsBatch, Controls
<1>15. Handshake'
  BY <1>1, <1>4, <1>5, <1>7, <1>8, <1>10, <1>11
     DEF Handshake, CallShape, WorkerShape, Sound, Relying, Clearing, KeepsBatch, Controls
<1>16. Done'
  BY <1>1, <1>4, <1>5, <1>7, <1>8, <1>10, <1>11
     DEF Done, Handshake, CallShape, WorkerShape, Sound, Did, KeepsBatch
<1>17. Fifo'
  BY <1>1, <1>4, <1>5, <1>7, <1>8, <1>10, <1>11 DEF Fifo, WorkerShape, Holding, Base, KeepsBatch
<1>18. Delivered'
  BY <1>1, <1>4, <1>5, <1>7, <1>8, <1>10, <1>11 DEF Delivered, Handshake, CallShape,
     WorkerShape, Sound, Clearing, Base, Consumed, KeepsBatch
<1>19. NothingFails'
  BY <1>1, <1>4, <1>5, <1>7, <1>8, <1>10, <1>11
     DEF NothingFails, CallShape, WorkerShape, CancelHasCause, Sound
<1> QED BY <1>9, <1>12, <1>13, <1>14, <1>15, <1>16, <1>17, <1>18, <1>19 DEF IInv

\* The worker waits for room in the endpoint.
LEMMA RoomInv ==
    ASSUME IInv, Room
    PROVE  IInv'
<1>1. /\ Typed /\ CancelHasCause /\ CallShape /\ WorkerShape
      /\ Handshake /\ Done /\ Fifo /\ Delivered /\ NothingFails
  BY DEF IInv
<1>2. /\ ring \in [Slots -> Frames] /\ s \in SType /\ e \in EType
      /\ d \in DType /\ EndpointFits(d) /\ w \in WType /\ BatchFits(w) /\ o \in OType
      /\ canceller \in {"in", "out"} /\ cancels \in Nat /\ natives \in Nat
  BY <1>1 DEF Typed
<1>3. \/ /\ d.ready /\ d' = [d EXCEPT !.ready = FALSE] /\ natives' = natives
         /\ w' = [w EXCEPT !.pc = "write"]
      \/ /\ d' = [d EXCEPT !.interruption = FALSE] /\ natives' = natives
         /\ w' = [w EXCEPT !.pc = Unless("look")]
      \/ /\ Count("wait") /\ d' = d
         /\ w' = [w EXCEPT !.pc = Unless("commit"), !.status = "IO"]
  BY DEF Room, WaitEvent
<1>4. /\ d' \in DType /\ EndpointFits(d') /\ d'.buffer = d.buffer /\ d'.submitted = d.submitted
      /\ d'.gained = d.gained
  BY <1>2, <1>3 DEF DType, EndpointFits
<1>5. /\ natives' \in Nat /\ (natives' = 0 => natives = 0)
  BY <1>2, <1>3 DEF Count
<1>6. /\ w' \in WType /\ BatchFits(w') /\ KeepsBatch
      /\ w'.pc \in {"write", "look", "commit", "detach"} /\ w'.after = w.after
      /\ w'.pc = "detach" => e.cancel
      /\ natives' = 0 => w'.status = w.status
  <2>1. PICK pc \in {"write", "look", "commit", "detach"}, v \in Statuses :
          /\ w' = [w EXCEPT !.pc = pc, !.status = v] /\ (natives' = 0 => v = w.status)
          /\ pc = "detach" => e.cancel
    <3>1. w.status \in Statuses /\ "IO" \in Statuses /\ w = [w EXCEPT !.status = w.status]
      BY <1>2 DEF WType, Statuses
    <3>2. w' = [w EXCEPT !.pc = "write"] => w' = [w EXCEPT !.pc = "write", !.status = w.status]
      BY <1>2 DEF WType
    <3>3. w' = [w EXCEPT !.pc = Unless("look")]
            => w' = [w EXCEPT !.pc = Unless("look"), !.status = w.status]
      BY <1>2 DEF WType
    <3>4. /\ Unless("look") \in {"look", "detach"} /\ Unless("commit") \in {"commit", "detach"}
          /\ Unless("look") = "detach" \/ Unless("commit") = "detach" => e.cancel
      BY DEF Unless
    <3>5. natives' = 0 => ~Count("wait")
      BY <1>2 DEF Count
    <3> QED BY <1>3, <3>1, <3>2, <3>3, <3>4, <3>5
  <2> QED BY <1>2, <2>1 DEF WType, WorkerPcs, Statuses, Controls, BatchFits, KeepsBatch
<1>7. /\ ring' = ring /\ s' = s /\ e' = e /\ o' = o /\ canceller' = canceller
      /\ cancels' = cancels
      /\ w.pc = "room"
  BY DEF Room, shared
<1>8. Typed'
  BY <1>2, <1>4, <1>5, <1>6, <1>7 DEF Typed
<1>9. Sound' => Sound
  BY <1>1, <1>4, <1>5, <1>6, <1>7 DEF Sound, CallShape
<1>10. /\ s.count \in Nat /\ s.accepted \in Nat /\ s.submitted \in Nat /\ s.consumed \in Nat
      /\ s.epoch \in Nat /\ w.gen \in Nat /\ w.accepted \in Nat /\ d.submitted \in Nat
      /\ Len(d.buffer) \in Nat /\ Len(w.batch) \in Nat /\ w.accepted <= Len(w.batch)
      /\ s.control \in Controls /\ w.control \in Controls /\ o.control \in Controls
      /\ w.after \in {"look", "commit"}
  BY <1>1, Numbers, Places
<1>11. CancelHasCause'
  BY <1>1, <1>4, <1>5, <1>6, <1>7, <1>9, <1>10 DEF CancelHasCause, CallShape
<1>12. CallShape'
  BY <1>1, <1>4, <1>5, <1>6, <1>7, <1>9, <1>10 DEF CallShape
<1>13. WorkerShape'
  BY <1>1, <1>4, <1>5, <1>6, <1>7, <1>9, <1>10 DEF WorkerShape, Holding, KeepsBatch, Controls
<1>14. Handshake'
  BY <1>1, <1>4, <1>5, <1>6, <1>7, <1>9, <1>10
     DEF Handshake, CallShape, WorkerShape, Sound, Relying, Clearing, KeepsBatch, Controls
<1>15. Done'
  BY <1>1, <1>4, <1>5, <1>6, <1>7, <1>9, <1>10
     DEF Done, Handshake, CallShape, WorkerShape, Sound, Did, KeepsBatch
<1>16. Fifo'
  BY <1>1, <1>4, <1>5, <1>6, <1>7, <1>9, <1>10 DEF Fifo, WorkerShape, Holding, Base, KeepsBatch
<1>17. Delivered'
  BY <1>1, <1>4, <1>5, <1>6, <1>7, <1>9, <1>10 DEF Delivered, Handshake, CallShape, WorkerShape,
     Sound, Clearing, Base, Consumed, KeepsBatch
<1>18. NothingFails'
  BY <1>1, <1>4, <1>5, <1>6, <1>7, <1>9, <1>10
     DEF NothingFails, CallShape, WorkerShape, CancelHasCause, Sound
<1> QED BY <1>8, <1>11, <1>12, <1>13, <1>14, <1>15, <1>16, <1>17, <1>18 DEF IInv

\* The worker waits for room in the middle of a submission.
LEMMA DrainInv ==
    ASSUME IInv, Drain
    PROVE  IInv'
<1>1. /\ Typed /\ CancelHasCause /\ CallShape /\ WorkerShape
      /\ Handshake /\ Done /\ Fifo /\ Delivered /\ NothingFails
  BY DEF IInv
<1>2. /\ ring \in [Slots -> Frames] /\ s \in SType /\ e \in EType
      /\ d \in DType /\ EndpointFits(d) /\ w \in WType /\ BatchFits(w) /\ o \in OType
      /\ canceller \in {"in", "out"} /\ cancels \in Nat /\ natives \in Nat
  BY <1>1 DEF Typed
<1>3. \/ /\ d.ready /\ d' = [d EXCEPT !.ready = FALSE] /\ natives' = natives
         /\ w' = [w EXCEPT !.pc = "submit"]
      \/ /\ d' = [d EXCEPT !.interruption = FALSE] /\ natives' = natives
         /\ w' = [w EXCEPT !.pc = "observe", !.after = "commit", !.status = "LIMIT"]
      \/ /\ Count("wait") /\ d' = d
         /\ w' = [w EXCEPT !.pc = "commit", !.status = "IO"]
  BY DEF Drain, WaitEvent
<1>4. /\ d' \in DType /\ EndpointFits(d') /\ d'.buffer = d.buffer /\ d'.submitted = d.submitted
      /\ d'.gained = d.gained
  BY <1>2, <1>3 DEF DType, EndpointFits
<1>5. /\ natives' \in Nat /\ (natives' = 0 => natives = 0)
  BY <1>2, <1>3 DEF Count
<1>6. /\ w' \in WType /\ BatchFits(w') /\ KeepsBatch
      /\ w'.pc \in {"submit", "commit", "observe"} /\ (w'.pc = "observe" => w'.after = "commit")
      /\ natives' = 0 => w'.status \in {"LIMIT", w.status}
  <2>1. CASE w' = [w EXCEPT !.pc = "submit"]
    BY <1>2, <2>1 DEF WType, WorkerPcs, Statuses, Controls, BatchFits, KeepsBatch
  <2>2. CASE w' = [w EXCEPT !.pc = "observe", !.after = "commit", !.status = "LIMIT"]
    BY <1>2, <2>2 DEF WType, WorkerPcs, Statuses, Controls, BatchFits, KeepsBatch
  <2>3. CASE Count("wait") /\ w' = [w EXCEPT !.pc = "commit", !.status = "IO"]
    <3>1. natives' # 0
      BY <1>2, <2>3 DEF Count
    <3> QED BY <1>2, <2>3, <3>1 DEF WType, WorkerPcs, Statuses, Controls, BatchFits, KeepsBatch
  <2> QED BY <1>3, <2>1, <2>2, <2>3
<1>7. /\ ring' = ring /\ s' = s /\ e' = e /\ o' = o /\ canceller' = canceller
      /\ cancels' = cancels
      /\ w.pc = "drain"
  BY DEF Drain, shared
<1>8. Typed'
  BY <1>2, <1>4, <1>5, <1>6, <1>7 DEF Typed
<1>9. Sound' => Sound
  BY <1>1, <1>4, <1>5, <1>6, <1>7 DEF Sound, CallShape
<1>10. /\ s.count \in Nat /\ s.accepted \in Nat /\ s.submitted \in Nat /\ s.consumed \in Nat
      /\ s.epoch \in Nat /\ w.gen \in Nat /\ w.accepted \in Nat /\ d.submitted \in Nat
      /\ Len(d.buffer) \in Nat /\ Len(w.batch) \in Nat /\ w.accepted <= Len(w.batch)
      /\ s.control \in Controls /\ w.control \in Controls /\ o.control \in Controls
      /\ w.after \in {"look", "commit"}
  BY <1>1, Numbers, Places
<1>11. CancelHasCause'
  BY <1>1, <1>4, <1>5, <1>6, <1>7, <1>9, <1>10 DEF CancelHasCause, CallShape
<1>12. CallShape'
  BY <1>1, <1>4, <1>5, <1>6, <1>7, <1>9, <1>10 DEF CallShape
<1>13. WorkerShape'
  BY <1>1, <1>4, <1>5, <1>6, <1>7, <1>9, <1>10 DEF WorkerShape, Holding, KeepsBatch, Controls
<1>14. Handshake'
  BY <1>1, <1>4, <1>5, <1>6, <1>7, <1>9, <1>10
     DEF Handshake, CallShape, WorkerShape, Sound, Relying, Clearing, KeepsBatch, Controls
<1>15. Done'
  BY <1>1, <1>4, <1>5, <1>6, <1>7, <1>9, <1>10
     DEF Done, Handshake, CallShape, WorkerShape, Sound, Did, KeepsBatch
<1>16. Fifo'
  BY <1>1, <1>4, <1>5, <1>6, <1>7, <1>9, <1>10 DEF Fifo, WorkerShape, Holding, Base, KeepsBatch
<1>17. Delivered'
  BY <1>1, <1>4, <1>5, <1>6, <1>7, <1>9, <1>10 DEF Delivered, Handshake, CallShape, WorkerShape,
     Sound, Clearing, Base, Consumed, KeepsBatch
<1>18. NothingFails'
  BY <1>1, <1>4, <1>5, <1>6, <1>7, <1>9, <1>10
     DEF NothingFails, CallShape, WorkerShape, CancelHasCause, Sound
<1> QED BY <1>8, <1>11, <1>12, <1>13, <1>14, <1>15, <1>16, <1>17, <1>18 DEF IInv

\* The worker asks the endpoint for room.
LEMMA WriteInv ==
    ASSUME IInv, Write
    PROVE  IInv'
<1>1. /\ Typed /\ CancelHasCause /\ CallShape /\ WorkerShape
      /\ Handshake /\ Done /\ Fifo /\ Delivered /\ NothingFails
  BY DEF IInv
<1>2. /\ ring \in [Slots -> Frames] /\ s \in SType /\ e \in EType
      /\ d \in DType /\ EndpointFits(d) /\ w \in WType /\ BatchFits(w) /\ o \in OType
      /\ canceller \in {"in", "out"} /\ cancels \in Nat /\ natives \in Nat
  BY <1>1 DEF Typed
<1>3. PICK bad \in Failing({"padding"}) :
        /\ Count(bad)
        /\ w' = IF bad # "none" THEN [w EXCEPT !.pc = Unless("commit"), !.status = "IO"]
                ELSE [w EXCEPT !.pc = IF Len(d.buffer) < EndpointFrames THEN Unless("submit")
                                      ELSE "room"]
  BY DEF Write
<1>4. /\ natives' \in Nat /\ (natives' = 0 => natives = 0 /\ bad = "none")
      /\ bad \in {"none", "padding"}
  BY <1>1, <1>3, Outcome
<1>5. /\ w' \in WType /\ BatchFits(w') /\ KeepsBatch
      /\ w'.pc \in {"submit", "room", "commit", "detach"} /\ w'.after = w.after
      /\ w'.pc = "detach" => e.cancel
      /\ bad = "none" => w'.status = w.status
  <2>1. CASE bad # "none"
    <3>1. PICK pc \in {"commit", "detach"} :
            w' = [w EXCEPT !.pc = pc, !.status = "IO"] /\ (pc = "detach" => e.cancel)
      BY <1>3, <2>1 DEF Unless
    <3> QED BY <1>2, <2>1, <3>1 DEF WType, WorkerPcs, Statuses, Controls, BatchFits, KeepsBatch
  <2>2. CASE bad = "none"
    <3>1. PICK pc \in {"submit", "room", "detach"} :
            w' = [w EXCEPT !.pc = pc] /\ (pc = "detach" => e.cancel)
      BY <1>3, <2>2 DEF Unless
    <3> QED BY <1>2, <3>1 DEF WType, WorkerPcs, Statuses, Controls, BatchFits, KeepsBatch
  <2> QED BY <2>1, <2>2
<1>6. /\ ring' = ring /\ s' = s /\ e' = e /\ d' = d /\ o' = o /\ canceller' = canceller
      /\ cancels' = cancels
      /\ w.pc = "write"
  BY DEF Write, shared
<1>7. Typed'
  BY <1>2, <1>4, <1>5, <1>6 DEF Typed
<1>8. Sound' => Sound
  BY <1>1, <1>4, <1>5, <1>6 DEF Sound, CallShape
<1>9. /\ s.count \in Nat /\ s.accepted \in Nat /\ s.submitted \in Nat /\ s.consumed \in Nat
      /\ s.epoch \in Nat /\ w.gen \in Nat /\ w.accepted \in Nat /\ d.submitted \in Nat
      /\ Len(d.buffer) \in Nat /\ Len(w.batch) \in Nat /\ w.accepted <= Len(w.batch)
      /\ s.control \in Controls /\ w.control \in Controls /\ o.control \in Controls
      /\ w.after \in {"look", "commit"}
  BY <1>1, Numbers, Places
<1>10. CancelHasCause'
  BY <1>1, <1>4, <1>5, <1>6, <1>8, <1>9 DEF CancelHasCause, CallShape
<1>11. CallShape'
  BY <1>1, <1>4, <1>5, <1>6, <1>8, <1>9 DEF CallShape
<1>12. WorkerShape'
  BY <1>1, <1>4, <1>5, <1>6, <1>8, <1>9 DEF WorkerShape, Holding, KeepsBatch, Controls
<1>13. Handshake'
  BY <1>1, <1>4, <1>5, <1>6, <1>8, <1>9 DEF Handshake, CallShape, WorkerShape, Sound, Relying,
     Clearing, KeepsBatch, Controls
<1>14. Done'
  BY <1>1, <1>4, <1>5, <1>6, <1>8, <1>9 DEF Done, Handshake, CallShape, WorkerShape, Sound, Did,
     KeepsBatch
<1>15. Fifo'
  BY <1>1, <1>4, <1>5, <1>6, <1>8, <1>9 DEF Fifo, WorkerShape, Holding, Base, KeepsBatch
<1>16. Delivered'
  BY <1>1, <1>4, <1>5, <1>6, <1>8, <1>9 DEF Delivered, Handshake, CallShape, WorkerShape, Sound,
     Clearing, Base, Consumed, KeepsBatch
<1>17. NothingFails'
  BY <1>1, <1>4, <1>5, <1>6, <1>8, <1>9 DEF NothingFails, CallShape, WorkerShape,
     CancelHasCause, Sound
<1> QED BY <1>7, <1>10, <1>11, <1>12, <1>13, <1>14, <1>15, <1>16, <1>17 DEF IInv

\* The loop ends.
LEMMA DetachInv ==
    ASSUME IInv, Detach
    PROVE  IInv'
<1>1. /\ Typed /\ CancelHasCause /\ CallShape /\ WorkerShape
      /\ Handshake /\ Done /\ Fifo /\ Delivered /\ NothingFails
  BY DEF IInv
<1>2. /\ ring \in [Slots -> Frames] /\ s \in SType /\ e \in EType
      /\ d \in DType /\ EndpointFits(d) /\ w \in WType /\ BatchFits(w) /\ o \in OType
      /\ canceller \in {"in", "out"} /\ cancels \in Nat /\ natives \in Nat
  BY <1>1 DEF Typed
<1>3. /\ w' \in WType /\ BatchFits(w')
      /\ w'.pc = "ended" /\ w'.gen = 0 /\ w'.batch = <<>> /\ w'.accepted = 0 /\ w'.status = "OK"
      /\ w'.control = "NONE" /\ w'.after = "look"
  <2>1. w' = AtTop("ended")
    BY DEF Detach, Looking, AtTop
  <2>2. "ended" \in WorkerPcs
    BY DEF WorkerPcs
  <2> QED BY <2>1, <2>2, LookingAt
<1>4. /\ d' \in DType /\ EndpointFits(d') /\ d'.buffer = <<>> /\ d'.submitted = 0
      /\ d'.gained = d.gained /\ Len(d'.buffer) = 0
  <2>1. PICK b \in Seq(Frames) : b = <<>> /\ Len(b) = 0
    BY EmptySeq
  <2>2. d' = [d EXCEPT !.buffer = b, !.submitted = 0]
    BY <2>1 DEF Detach
  <2>3. d' \in DType /\ d'.buffer = b /\ d'.submitted = 0 /\ d'.gained = d.gained
    BY <1>2, <2>2 DEF DType
  <2> QED BY <2>1, <2>3, Constants DEF EndpointFits
<1>5. /\ ring' = ring /\ s' = s /\ e' = e /\ o' = o /\ canceller' = canceller
      /\ cancels' = cancels /\ natives' = natives
      /\ (w.pc = "detach" \/ e.cancel)
  BY DEF Detach, shared
<1>6. Typed'
  BY <1>2, <1>3, <1>4, <1>5 DEF Typed
<1>7. Sound' => Sound
  BY <1>1, <1>3, <1>4, <1>5 DEF Sound, CallShape
<1>8. /\ s.count \in Nat /\ s.accepted \in Nat /\ s.submitted \in Nat /\ s.consumed \in Nat
      /\ s.epoch \in Nat /\ w.gen \in Nat /\ w.accepted \in Nat /\ d.submitted \in Nat
      /\ Len(d.buffer) \in Nat /\ Len(w.batch) \in Nat /\ w.accepted <= Len(w.batch)
      /\ s.control \in Controls /\ w.control \in Controls /\ o.control \in Controls
      /\ w.after \in {"look", "commit"}
  BY <1>1, Numbers, Places
<1>9. CancelHasCause'
  BY <1>1, <1>3, <1>4, <1>5, <1>7, <1>8 DEF CancelHasCause, CallShape
<1>10. CallShape'
  BY <1>1, <1>3, <1>4, <1>5, <1>7, <1>8 DEF CallShape
<1>11. WorkerShape'
  BY <1>1, <1>3, <1>4, <1>5, <1>7, <1>8 DEF WorkerShape, Holding, Controls
<1>12. Handshake'
  BY <1>1, <1>3, <1>4, <1>5, <1>7, <1>8 DEF Handshake, CallShape, WorkerShape, Sound, Relying,
     Clearing, Controls
<1>13. Done'
  BY <1>1, <1>3, <1>4, <1>5, <1>7, <1>8 DEF Done, Handshake, CallShape, CancelHasCause,
     WorkerShape, Sound, Holding, Relying, Base, Clearing, Did, Consumed, KeepsProgress,
     KeepsBatch, Statuses, Controls
<1>14. Fifo'
  BY <1>1, <1>3, <1>4, <1>5, <1>7, <1>8 DEF Fifo, WorkerShape, Holding, Base
<1>15. Delivered'
  BY <1>1, <1>3, <1>4, <1>5, <1>7, <1>8, EmptyInOrder DEF Delivered, Handshake, CallShape,
     WorkerShape, Sound, Holding, Relying, Base, Clearing, Did, Consumed, KeepsProgress,
     KeepsBatch, Statuses, Controls
<1>16. NothingFails'
  BY <1>1, <1>3, <1>4, <1>5, <1>7, <1>8 DEF NothingFails, CallShape, WorkerShape,
     CancelHasCause, Sound
<1> QED BY <1>6, <1>9, <1>10, <1>11, <1>12, <1>13, <1>14, <1>15, <1>16 DEF IInv

\* The worker waits for something to do.
LEMMA IdleInv ==
    ASSUME IInv, Idle
    PROVE  IInv'
<1>1. /\ Typed /\ CancelHasCause /\ CallShape /\ WorkerShape
      /\ Handshake /\ Done /\ Fifo /\ Delivered /\ NothingFails
  BY DEF IInv
<1>2. /\ ring \in [Slots -> Frames] /\ s \in SType /\ e \in EType
      /\ d \in DType /\ EndpointFits(d) /\ w \in WType /\ BatchFits(w) /\ o \in OType
      /\ canceller \in {"in", "out"} /\ cancels \in Nat /\ natives \in Nat
  BY <1>1 DEF Typed
<1>3. \/ /\ e.cancel /\ w' = [w EXCEPT !.pc = "detach"] /\ UNCHANGED <<s, e, natives>>
      \/ /\ e' = [e EXCEPT !.wake = FALSE] /\ w' = Looking /\ UNCHANGED <<s, natives>>
      \/ /\ Count("wait") /\ s' = [s EXCEPT !.failed = @ \/ TRUE]
         /\ e' = [e EXCEPT !.cancel = @ \/ TRUE] /\ w' = [w EXCEPT !.pc = "detach"]
  BY DEF Idle, FailIf
<1>4. /\ natives' \in Nat /\ (natives' = 0 => natives = 0 /\ s' = s)
  BY <1>2, <1>3 DEF Count
<1>5. /\ s' \in SType /\ KeepsProgress /\ s'.control = s.control
      /\ s'.failed => s.failed \/ (e'.cancel /\ natives' # 0)
      /\ s.failed => s'.failed
  <2>1. CASE s' = s
    <3>1. KeepsProgress
      BY <2>1 DEF KeepsProgress
    <3> QED BY <1>2, <2>1, <3>1
  <2>2. CASE Count("wait") /\ s' = [s EXCEPT !.failed = @ \/ TRUE] /\ e' = [e EXCEPT !.cancel = @ \/ TRUE]
    <3>1. natives' # 0
      BY <1>2, <2>2 DEF Count
    <3>2. e'.cancel
      BY <1>2, <2>2 DEF EType
    <3>3. s' \in SType /\ KeepsProgress /\ s'.control = s.control /\ s'.failed
      BY <1>2, <2>2 DEF SType, KeepsProgress
    <3> QED BY <3>1, <3>2, <3>3
  <2> QED BY <1>3, <2>1, <2>2
<1>6. /\ e' \in EType /\ e'.done = e.done /\ (e.cancel => e'.cancel)
      /\ e'.cancel => e.cancel \/ s'.failed
  <2>1. CASE e' = e
    BY <1>2, <2>1
  <2>2. CASE e' = [e EXCEPT !.wake = FALSE]
    BY <1>2, <2>2 DEF EType
  <2>3. CASE s' = [s EXCEPT !.failed = @ \/ TRUE] /\ e' = [e EXCEPT !.cancel = @ \/ TRUE]
    <3>1. s'.failed
      BY <1>2, <2>3 DEF SType
    <3>2. e' \in EType /\ e'.done = e.done /\ e'.cancel
      BY <1>2, <2>3 DEF EType
    <3> QED BY <3>1, <3>2
  <2> QED BY <1>3, <2>1, <2>2, <2>3
<1>7. /\ w' \in WType /\ BatchFits(w') /\ w'.pc \in {"look", "detach"} /\ w'.batch = <<>>
      /\ w'.accepted = 0 /\ w'.control = "NONE" /\ w'.status \in {"OK", w.status}
      /\ w'.gen \in {0, w.gen} /\ (w'.pc = "detach" => e'.cancel)
  <2>1. w.batch = <<>> /\ w.accepted = 0 /\ w.control = "NONE"
    <3>1. w.pc = "idle"
      BY DEF Idle
    <3> QED BY <1>1, <3>1 DEF WorkerShape, Holding
  <2>2. CASE w' = Looking
    <3>1. w' = AtTop("look") /\ "look" \in WorkerPcs
      BY <2>2 DEF Looking, AtTop, WorkerPcs
    <3> QED BY <3>1, LookingAt
  <2>3. CASE w' = [w EXCEPT !.pc = "detach"] /\ e'.cancel
    <3>1. w' \in WType /\ w'.pc = "detach" /\ w'.status = w.status /\ KeepsBatch
      BY <1>2, <2>3 DEF WType, WorkerPcs, KeepsBatch
    <3> QED BY <1>2, <2>1, <2>3, <3>1 DEF BatchFits, KeepsBatch
  <2>4. w' = Looking \/ (w' = [w EXCEPT !.pc = "detach"] /\ e'.cancel)
    <3>1. e' = [e EXCEPT !.cancel = @ \/ TRUE] => e'.cancel
      BY <1>2 DEF EType
    <3> QED BY <1>3, <3>1
  <2> QED BY <2>2, <2>3, <2>4
<1>8. /\ ring' = ring /\ d' = d /\ o' = o /\ canceller' = canceller /\ cancels' = cancels
      /\ w.pc = "idle"
  BY DEF Idle
<1>9. Typed'
  BY <1>2, <1>4, <1>5, <1>6, <1>7, <1>8 DEF Typed
<1>10. Sound' => Sound
  BY <1>1, <1>4, <1>5, <1>6, <1>7, <1>8 DEF Sound, CallShape
<1>11. /\ s.count \in Nat /\ s.accepted \in Nat /\ s.submitted \in Nat /\ s.consumed \in Nat
      /\ s.epoch \in Nat /\ w.gen \in Nat /\ w.accepted \in Nat /\ d.submitted \in Nat
      /\ Len(d.buffer) \in Nat /\ Len(w.batch) \in Nat /\ w.accepted <= Len(w.batch)
      /\ s.control \in Controls /\ w.control \in Controls /\ o.control \in Controls
      /\ w.after \in {"look", "commit"}
  BY <1>1, Numbers, Places
<1>12. CancelHasCause'
  BY <1>1, <1>4, <1>5, <1>6, <1>7, <1>8, <1>10, <1>11 DEF CancelHasCause, CallShape
<1>13. CallShape'
  BY <1>1, <1>4, <1>5, <1>6, <1>7, <1>8, <1>10, <1>11 DEF CallShape, KeepsProgress
<1>14. WorkerShape'
  BY <1>1, <1>4, <1>5, <1>6, <1>7, <1>8, <1>10, <1>11
     DEF WorkerShape, Holding, KeepsProgress, Controls
<1>15. Handshake'
  BY <1>1, <1>4, <1>5, <1>6, <1>7, <1>8, <1>10, <1>11
     DEF Handshake, CallShape, WorkerShape, Sound, Relying, Clearing, KeepsProgress, Controls
<1>16. Done'
  BY <1>1, <1>4, <1>5, <1>6, <1>7, <1>8, <1>10, <1>11
     DEF Done, Handshake, CallShape, WorkerShape, Sound, Did, KeepsProgress
<1>17. Fifo'
  BY <1>1, <1>4, <1>5, <1>6, <1>7, <1>8, <1>10, <1>11
     DEF Fifo, WorkerShape, Holding, Base, KeepsProgress
<1>18. Delivered'
  BY <1>1, <1>4, <1>5, <1>6, <1>7, <1>8, <1>10, <1>11 DEF Delivered, Handshake, CallShape,
     WorkerShape, Sound, Clearing, Base, Consumed, KeepsProgress
<1>19. NothingFails'
  BY <1>1, <1>4, <1>5, <1>6, <1>7, <1>8, <1>10, <1>11
     DEF NothingFails, CallShape, WorkerShape, CancelHasCause, Sound
<1> QED BY <1>9, <1>12, <1>13, <1>14, <1>15, <1>16, <1>17, <1>18, <1>19 DEF IInv

\* The endpoint plays a frame and reports a period.
LEMMA TickInv ==
    ASSUME IInv, Tick
    PROVE  IInv'
<1>1. /\ Typed /\ CancelHasCause /\ CallShape /\ WorkerShape
      /\ Handshake /\ Done /\ Fifo /\ Delivered /\ NothingFails
  BY DEF IInv
<1>2. /\ ring \in [Slots -> Frames] /\ s \in SType /\ e \in EType
      /\ d \in DType /\ EndpointFits(d) /\ w \in WType /\ BatchFits(w) /\ o \in OType
      /\ canceller \in {"in", "out"} /\ cancels \in Nat /\ natives \in Nat
  BY <1>1 DEF Typed
<1>3. /\ d' \in DType /\ EndpointFits(d') /\ d'.submitted = d.submitted /\ d'.gained = d.gained
      /\ d'.buffer = IF d.buffer = <<>> THEN <<>> ELSE Tail(d.buffer)
  <2>1. PICK b : b = IF d.buffer = <<>> THEN d.buffer ELSE Tail(d.buffer)
    OBVIOUS
  <2>2. d.buffer \in Seq(Frames) /\ Len(d.buffer) <= EndpointFrames
    BY <1>2 DEF DType, EndpointFits
  <2>3. b \in Seq(Frames) /\ Len(b) <= EndpointFrames
    BY <2>1, <2>2, HeadTailProperties, LenProperties, Constants
  <2>4. d' = [d EXCEPT !.buffer = b, !.ready = TRUE]
    BY <2>1 DEF Tick
  <2>5. d' \in DType /\ d'.submitted = d.submitted /\ d'.gained = d.gained /\ d'.buffer = b
    BY <1>2, <2>3, <2>4 DEF DType
  <2> QED BY <2>1, <2>3, <2>5 DEF EndpointFits
<1>4. /\ d.buffer = <<>> => d'.buffer = <<>>
      /\ Len(d'.buffer) \in Nat /\ Len(d'.buffer) <= Len(d.buffer)
      /\ \A k, n \in Nat : InOrder(d.buffer, k, n) => InOrder(d'.buffer, k, n)
  <2>1. CASE d.buffer = <<>>
    <3>1. d'.buffer = d.buffer
      BY <1>3, <2>1
    <3> QED BY <1>1, <3>1, <2>1, Numbers
  <2>2. CASE d.buffer # <<>>
    <3>1. PICK b, c : b = d.buffer /\ c = d'.buffer
      OBVIOUS
    <3>2. b \in Seq(Frames) /\ b # <<>> /\ c = Tail(b)
      BY <1>2, <1>3, <2>2, <3>1 DEF DType
    <3>3. /\ Len(c) = Len(b) - 1 /\ Len(b) \in Nat \ {0}
          /\ \A i \in 1..Len(c) : c[i] = b[i + 1]
      BY <3>2, HeadTailProperties, EmptySeq
    <3>4. ASSUME NEW k, NEW n \in Nat, InOrder(b, k, n)
          PROVE  InOrder(c, k, n)
      <4>1. ASSUME NEW i \in 1..Len(c), c[i] # Silence
            PROVE  c[i] = Frame(k, n - (Len(c) - i))
        <5>1. i + 1 \in 1..Len(b) /\ Len(b) - (i + 1) = Len(c) - i
          BY <3>3
        <5>2. b[i + 1] = Frame(k, n - (Len(b) - (i + 1)))
          BY <3>3, <3>4, <4>1, <5>1 DEF InOrder
        <5> QED BY <3>3, <5>1, <5>2
      <4> QED BY <4>1 DEF InOrder
    <3> QED BY <2>2, <3>1, <3>3, <3>4
  <2> QED BY <2>1, <2>2
<1>5. /\ ring' = ring /\ s' = s /\ e' = e /\ w' = w /\ o' = o /\ canceller' = canceller
      /\ cancels' = cancels /\ natives' = natives
      /\ w.pc \notin {"attach", "ended"}
  BY DEF Tick, shared
<1>6. Typed'
  BY <1>2, <1>3, <1>4, <1>5 DEF Typed
<1>7. Sound' => Sound
  BY <1>1, <1>3, <1>4, <1>5 DEF Sound, CallShape
<1>8. /\ s.count \in Nat /\ s.accepted \in Nat /\ s.submitted \in Nat /\ s.consumed \in Nat
      /\ s.epoch \in Nat /\ w.gen \in Nat /\ w.accepted \in Nat /\ d.submitted \in Nat
      /\ Len(d.buffer) \in Nat /\ Len(w.batch) \in Nat /\ w.accepted <= Len(w.batch)
      /\ s.control \in Controls /\ w.control \in Controls /\ o.control \in Controls
      /\ w.after \in {"look", "commit"}
  BY <1>1, Numbers, Places
<1>9. CancelHasCause'
  BY <1>1, <1>3, <1>4, <1>5, <1>7, <1>8 DEF CancelHasCause, CallShape
<1>10. CallShape'
  BY <1>1, <1>3, <1>4, <1>5, <1>7, <1>8 DEF CallShape
<1>11. WorkerShape'
  BY <1>1, <1>3, <1>4, <1>5, <1>7, <1>8 DEF WorkerShape, Holding, Controls
<1>12. Handshake'
  BY <1>1, <1>3, <1>4, <1>5, <1>7, <1>8 DEF Handshake, CallShape, WorkerShape, Sound, Relying,
     Clearing, Controls
<1>13. Done'
  BY <1>1, <1>3, <1>4, <1>5, <1>7, <1>8 DEF Done, Handshake, CallShape, WorkerShape, Sound, Did
<1>14. Fifo'
  BY <1>1, <1>3, <1>4, <1>5, <1>7, <1>8 DEF Fifo, WorkerShape, Holding, Base
<1>15. Delivered'
  <2>1. Consumed <= Consumed' /\ Consumed \in Nat /\ Consumed' \in Nat
    BY <1>1, <1>3, <1>4, <1>5, <1>7, <1>8, Numbers DEF Consumed
  <2>2. w.seen # <<>> => w.seen[2] \in Nat
    BY <1>1, SeenNumbers
  <2>3. Base' = Base /\ (Clearing' <=> Clearing)
    BY <1>3, <1>4, <1>5, <1>7, <1>8 DEF Base, Clearing
  <2> QED BY <1>1, <1>3, <1>4, <1>5, <1>7, <1>8, <2>1, <2>2, <2>3 DEF Delivered
<1>16. NothingFails'
  BY <1>1, <1>3, <1>4, <1>5, <1>7, <1>8 DEF NothingFails, CallShape, WorkerShape,
     CancelHasCause, Sound
<1> QED BY <1>6, <1>9, <1>10, <1>11, <1>12, <1>13, <1>14, <1>15, <1>16 DEF IInv

\* The worker records what it has observed.
LEMMA ReportInv ==
    ASSUME IInv, Report
    PROVE  IInv'
<1>1. /\ Typed /\ CancelHasCause /\ CallShape /\ WorkerShape
      /\ Handshake /\ Done /\ Fifo /\ Delivered /\ NothingFails
  BY DEF IInv
<1>2. /\ ring \in [Slots -> Frames] /\ s \in SType /\ e \in EType
      /\ d \in DType /\ EndpointFits(d) /\ w \in WType /\ BatchFits(w) /\ o \in OType
      /\ canceller \in {"in", "out"} /\ cancels \in Nat /\ natives \in Nat
  BY <1>1 DEF Typed
<1>3. /\ w' \in WType /\ BatchFits(w') /\ KeepsBatch
      /\ w'.pc = w.after /\ w'.after = w.after /\ w'.status = w.status /\ w'.seen = w.seen
  <2>1. PICK pc \in {"look", "commit"} : pc = w.after
    BY <1>1, Places
  <2>2. w' = [w EXCEPT !.pc = pc]
    BY <2>1 DEF Report
  <2> QED BY <1>2, <2>1, <2>2 DEF WType, WorkerPcs, Statuses, Controls, BatchFits, KeepsBatch
<1>4. /\ s' \in SType /\ e' \in EType /\ e'.done = e.done /\ s'.control = s.control
      /\ s'.head = s.head /\ s'.count = s.count /\ s'.epoch = s.epoch /\ s'.accepted = s.accepted
      /\ (s.failed => s'.failed) /\ (e.cancel => e'.cancel)
      /\ \/ s' = s /\ e' = e
         \/ /\ s.epoch = w.gen /\ ~s.failed /\ Inconsistent(w.seen)
            /\ KeepsProgress /\ s'.failed /\ e'.cancel
         \/ /\ s.epoch = w.gen /\ ~Inconsistent(w.seen) /\ e' = e /\ s'.failed = s.failed
            /\ s'.submitted = w.seen[1] /\ s'.consumed = w.seen[2]
  <2>1. CASE s' = s /\ e' = e
    BY <1>2, <2>1
  <2>2. CASE /\ s.epoch = w.gen /\ ~s.failed /\ Inconsistent(w.seen)
             /\ s' = [s EXCEPT !.failed = @ \/ TRUE] /\ e' = [e EXCEPT !.cancel = @ \/ TRUE]
    <3>1. e' \in EType /\ e'.done = e.done /\ e'.cancel
      BY <1>2, <2>2 DEF EType
    <3>2. s' \in SType /\ KeepsProgress /\ s'.control = s.control /\ s'.failed
      BY <1>2, <2>2 DEF SType, KeepsProgress
    <3> QED BY <2>2, <3>1, <3>2 DEF KeepsProgress
  <2>3. CASE /\ s.epoch = w.gen /\ ~s.failed /\ ~Inconsistent(w.seen) /\ e' = e
             /\ s' = [s EXCEPT !.submitted = w.seen[1], !.consumed = w.seen[2]]
    <3>1. PICK a, c : a = w.seen[1] /\ c = w.seen[2]
      OBVIOUS
    <3>2. a \in Nat /\ c \in Nat /\ c <= a /\ a <= s.accepted
      BY <1>1, <2>3, <3>1, SeenNumbers, Numbers DEF Inconsistent
    <3>3. s.accepted \in 0..MaxFrames
      BY <1>1, Scalars
    <3>4. a \in 0..MaxFrames /\ c \in 0..MaxFrames
      BY <3>2, <3>3, Constants
    <3>5. s' = [s EXCEPT !.submitted = a, !.consumed = c]
      BY <2>3, <3>1
    <3>6. /\ s' \in SType /\ s'.control = s.control /\ s'.failed = s.failed
          /\ s'.head = s.head /\ s'.count = s.count /\ s'.epoch = s.epoch
          /\ s'.accepted = s.accepted /\ s'.submitted = a /\ s'.consumed = c
      BY <1>2, <3>4, <3>5 DEF SType
    <3> QED BY <1>2, <2>3, <3>1, <3>6
  <2> QED BY <2>1, <2>2, <2>3 DEF Report, FailIf
<1>5. /\ ring' = ring /\ d' = d /\ o' = o /\ canceller' = canceller /\ cancels' = cancels
      /\ natives' = natives
      /\ w.pc = "report"
  BY DEF Report
<1>6. Typed'
  BY <1>2, <1>3, <1>4, <1>5 DEF Typed
<1>7. Sound' => Sound
  BY <1>1, <1>3, <1>4, <1>5 DEF Sound
<1>8. /\ s.count \in Nat /\ s.accepted \in Nat /\ s.submitted \in Nat /\ s.consumed \in Nat
      /\ s.epoch \in Nat /\ w.gen \in Nat /\ w.accepted \in Nat /\ d.submitted \in Nat
      /\ Len(d.buffer) \in Nat /\ Len(w.batch) \in Nat /\ w.accepted <= Len(w.batch)
      /\ s.control \in Controls /\ w.control \in Controls /\ o.control \in Controls
      /\ w.after \in {"look", "commit"}
  BY <1>1, Numbers, Places
<1>9. CancelHasCause'
  BY <1>1, <1>3, <1>4, <1>5, <1>7, <1>8 DEF CancelHasCause, CallShape
<1>10. CallShape'
  BY <1>1, <1>3, <1>4, <1>5, <1>7, <1>8 DEF CallShape, KeepsProgress
<1>11. WorkerShape'
  BY <1>1, <1>3, <1>4, <1>5, <1>7, <1>8 DEF WorkerShape, Holding, KeepsProgress, KeepsBatch,
     Controls
<1>12. Handshake'
  BY <1>1, <1>3, <1>4, <1>5, <1>7, <1>8 DEF Handshake, CallShape, WorkerShape, Sound, Relying,
     Clearing, KeepsProgress, KeepsBatch, Controls
<1>13. Done'
  BY <1>1, <1>3, <1>4, <1>5, <1>7, <1>8 DEF Done, Handshake, CallShape, WorkerShape, Sound, Did,
     KeepsProgress, KeepsBatch
<1>14. Fifo'
  BY <1>1, <1>3, <1>4, <1>5, <1>7, <1>8 DEF Fifo, WorkerShape, Holding, Base, KeepsProgress,
     KeepsBatch
<1>15. Delivered'
  <2>1. Sound' /\ ~Clearing' => Sound /\ ~Clearing
    BY <1>3, <1>4, <1>5, <1>7, <1>8 DEF Clearing, KeepsBatch
  <2>2. Base' = Base /\ Consumed' = Consumed /\ w'.accepted = w.accepted
    BY <1>3, <1>4, <1>5, <1>7, <1>8 DEF Base, Consumed, KeepsBatch
  <2>3. w'.pc # "report" /\ w.pc # "ended"
    BY <1>3, <1>4, <1>5, <1>7, <1>8
  <2>4. Sound' /\ ~Clearing' => s'.submitted <= d.submitted /\ s'.consumed <= Consumed
    <3>1. CASE s' = s
      BY <1>1, <1>3, <1>4, <1>5, <1>7, <1>8, <2>1, <3>1 DEF Delivered
    <3>2. CASE s'.failed
      BY <3>2 DEF Sound
    <3>3. CASE ~Inconsistent(w.seen) /\ s'.submitted = w.seen[1] /\ s'.consumed = w.seen[2]
      BY <1>1, <1>3, <1>4, <1>5, <1>7, <1>8, <2>1, <3>3 DEF Delivered, Inconsistent
    <3> QED BY <1>3, <1>4, <1>5, <1>7, <1>8, <3>1, <3>2, <3>3
  <2> QED BY <1>1, <1>3, <1>4, <1>5, <1>7, <1>8, <2>1, <2>2, <2>3, <2>4 DEF Delivered
<1>16. NothingFails'
  <2>1. CASE natives # 0
    BY <1>3, <1>4, <1>5, <1>7, <1>8, <2>1 DEF NothingFails
  <2>2. CASE natives = 0
    <3>1. Sound /\ w.seen # <<>>
      BY <1>1, <1>3, <1>4, <1>5, <1>7, <1>8, <2>2 DEF NothingFails, Sound
    <3>2. CASE s.epoch = w.gen
      <4>1. ~Clearing
        BY <1>1, <1>3, <1>4, <1>5, <1>7, <1>8, <3>1, <3>2
           DEF Handshake, WorkerShape, Relying, Clearing
      <4>2. /\ w.seen[1] = d.submitted /\ w.seen[2] <= Consumed /\ s.consumed <= w.seen[2]
            /\ d.submitted = Base + w.accepted /\ s.submitted <= d.submitted
        BY <1>1, <1>3, <1>4, <1>5, <1>7, <1>8, <3>1, <4>1 DEF Delivered
      <4>3. w.accepted <= s.count
        <5>1. CASE w.after = "look"
          BY <1>1, <1>3, <1>4, <1>5, <1>7, <1>8, <5>1 DEF WorkerShape, Holding
        <5>2. CASE w.after = "commit"
          BY <1>1, <1>3, <1>4, <1>5, <1>7, <1>8, <3>2, <5>2 DEF Fifo, Holding
        <5> QED BY <1>3, <1>4, <1>5, <1>7, <1>8, <5>1, <5>2
      <4>4. w.seen[1] \in Nat /\ w.seen[2] \in Nat
        BY <1>1, <3>1, SeenNumbers
      <4>5. Consumed <= d.submitted
        BY <1>3, <1>4, <1>5, <1>7, <1>8 DEF Consumed
      <4>6. Consumed \in Nat
        BY <1>3, <1>4, <1>5, <1>7, <1>8 DEF Consumed
      <4>7. ~Inconsistent(w.seen)
        <5>1. PICK p \in Nat, q \in Nat : p = w.seen[1] /\ q = w.seen[2]
          BY <4>4
        <5>2. /\ p = d.submitted /\ q <= Consumed /\ s.consumed <= q
              /\ d.submitted = Base + w.accepted /\ s.submitted <= d.submitted
          BY <4>2, <5>1
        <5>3. ~(q > p) /\ ~(q < s.consumed)
          BY <1>8, <4>5, <4>6, <5>2
        <5>4. ~(p > s.accepted)
          BY <1>8, <4>3, <5>2 DEF Base
        <5>5. ~(p < s.submitted)
          BY <1>8, <5>2
        <5> QED BY <3>1, <5>1, <5>3, <5>4, <5>5 DEF Inconsistent
      <4> QED BY <1>1, <1>3, <1>4, <1>5, <1>7, <1>8, <2>2, <4>7 DEF NothingFails
    <3>3. CASE s.epoch # w.gen
      BY <1>1, <1>3, <1>4, <1>5, <1>7, <1>8, <2>2, <3>3 DEF NothingFails
    <3> QED BY <3>2, <3>3
  <2> QED BY <2>1, <2>2
<1> QED BY <1>6, <1>9, <1>10, <1>11, <1>12, <1>13, <1>14, <1>15, <1>16 DEF IInv

\* The worker takes the accepted frames from the FIFO.
LEMMA CommitInv ==
    ASSUME IInv, Commit
    PROVE  IInv'
<1>1. /\ Typed /\ CancelHasCause /\ CallShape /\ WorkerShape
      /\ Handshake /\ Done /\ Fifo /\ Delivered /\ NothingFails
  BY DEF IInv
<1>2. /\ ring \in [Slots -> Frames] /\ s \in SType /\ e \in EType
      /\ d \in DType /\ EndpointFits(d) /\ w \in WType /\ BatchFits(w) /\ o \in OType
      /\ canceller \in {"in", "out"} /\ cancels \in Nat /\ natives \in Nat
  BY <1>1 DEF Typed
<1>3. PICK bad \in Failing({"done", "space"}) :
        /\ Count(bad)
        /\ bad = "done" => Flushed(s.failed \/ w.status = "IO", s.count - Taken)
        /\ s' = [s EXCEPT !.head = (@ + Taken) % Capacity, !.count = @ - Taken,
                   !.failed = (s.failed \/ w.status = "IO") \/ bad # "none",
                   !.control = IF Flushed(s.failed \/ w.status = "IO", s.count - Taken)
                               THEN "NONE" ELSE @]
        /\ e' = [e EXCEPT !.cancel = @ \/ (s.failed \/ w.status = "IO") \/ bad # "none",
                   !.done = @ \/ (/\ Flushed(s.failed \/ w.status = "IO", s.count - Taken)
                                  /\ bad # "done"),
                   !.space = @ \/ (/\ w.accepted # 0 \/ (s.failed \/ w.status = "IO") \/ bad = "done"
                                   /\ bad # "space")]
  BY DEF Commit
<1>4. /\ natives' \in Nat /\ (natives' = 0 => natives = 0 /\ bad = "none")
      /\ bad \in {"none", "done", "space"}
  BY <1>1, <1>3, Outcome
<1>5. PICK n, flushed, failed :
        /\ n = Taken /\ failed = (s.failed \/ w.status = "IO")
        /\ flushed = Flushed(failed, s.count - n)
  OBVIOUS
<1>6. /\ n \in Nat /\ n <= s.count /\ flushed \in BOOLEAN /\ failed \in BOOLEAN
      /\ (s.epoch = w.gen /\ s.count >= w.accepted => n = w.accepted)
      /\ s.epoch # w.gen => n = 0
      /\ flushed <=> s.control = "FLUSH" /\ (failed \/ s.count - n = 0)
      /\ (failed <=> s.failed \/ w.status = "IO")
  <2>1. n \in Nat /\ n <= s.count
    BY <1>1, <1>5, Numbers DEF Taken
  <2>2. /\ (s.epoch = w.gen /\ s.count >= w.accepted => n = w.accepted)
        /\ s.epoch # w.gen => n = 0
    BY <1>5 DEF Taken
  <2>3. flushed \in BOOLEAN /\ failed \in BOOLEAN
    BY <1>5 DEF Flushed
  <2>4. /\ (flushed <=> s.control = "FLUSH" /\ (failed \/ s.count - n = 0))
        /\ (failed <=> s.failed \/ w.status = "IO")
    BY <1>5 DEF Flushed
  <2> QED BY <2>1, <2>2, <2>3, <2>4
<1>7. /\ s' \in SType /\ s'.epoch = s.epoch /\ s'.accepted = s.accepted
      /\ s'.submitted = s.submitted /\ s'.consumed = s.consumed
      /\ s'.head = (s.head + n) % Capacity /\ s'.count = s.count - n
      /\ s'.failed <=> failed \/ bad # "none"
      /\ s'.control = IF flushed THEN "NONE" ELSE s.control
  <2>1. PICK h \in Slots, c \in 0..Capacity, f \in BOOLEAN, k \in Controls :
          /\ h = (s.head + n) % Capacity /\ c = s.count - n /\ f = (failed \/ bad # "none")
          /\ k = IF flushed THEN "NONE" ELSE s.control
    <3>1. s.head \in Nat /\ s.count \in 0..Capacity
      BY <1>1, Scalars, Constants DEF Slots
    <3>2. (s.head + n) % Capacity \in Slots
      BY <1>6, <3>1, SlotTyped
    <3>3. s.count - n \in 0..Capacity
      BY <1>6, <3>1, Constants
    <3>4. (IF flushed THEN "NONE" ELSE s.control) \in Controls
      BY <1>1, Places DEF Controls
    <3> QED BY <3>2, <3>3, <3>4
  <2>2. s' = [s EXCEPT !.head = h, !.count = c, !.failed = f, !.control = k]
    BY <1>3, <1>5, <2>1
  <2>3. /\ s' \in SType /\ s'.epoch = s.epoch /\ s'.accepted = s.accepted
        /\ s'.submitted = s.submitted /\ s'.consumed = s.consumed
        /\ s'.head = h /\ s'.count = c /\ s'.failed = f /\ s'.control = k
    BY <1>2, <2>2 DEF SType
  <2> QED BY <2>1, <2>3
<1>8. /\ e' \in EType /\ (e'.done <=> e.done \/ (flushed /\ bad # "done"))
      /\ e'.cancel <=> e.cancel \/ failed \/ bad # "none"
  <2>1. PICK dn \in BOOLEAN, ca \in BOOLEAN, sp \in BOOLEAN :
          /\ dn = (e.done \/ (flushed /\ bad # "done"))
          /\ ca = (e.cancel \/ failed \/ bad # "none")
          /\ sp = (e.space \/ ((w.accepted # 0 \/ failed \/ bad = "done") /\ bad # "space"))
    OBVIOUS
  <2>2. e' = [e EXCEPT !.cancel = ca, !.done = dn, !.space = sp]
    BY <1>3, <1>5, <2>1
  <2>3. e' \in EType /\ e'.done = dn /\ e'.cancel = ca
    BY <1>2, <2>2 DEF EType
  <2> QED BY <2>1, <2>3
<1>9. /\ w' \in WType /\ BatchFits(w')
      /\ w'.pc = "look" /\ w'.gen = 0 /\ w'.batch = <<>> /\ w'.accepted = 0 /\ w'.status = "OK"
      /\ w'.control = "NONE" /\ w'.after = "look"
  <2>1. w' = AtTop("look")
    BY DEF Commit, Looking, AtTop
  <2>2. "look" \in WorkerPcs
    BY DEF WorkerPcs
  <2> QED BY <2>1, <2>2, LookingAt
<1>10. /\ ring' = ring /\ d' = d /\ o' = o /\ canceller' = canceller /\ cancels' = cancels
      /\ w.pc = "commit"
  BY DEF Commit
<1>11. Typed'
  BY <1>2, <1>4, <1>6, <1>7, <1>8, <1>9, <1>10 DEF Typed
<1>12. Sound' => Sound
  BY <1>1, <1>4, <1>6, <1>7, <1>8, <1>9, <1>10 DEF Sound, CallShape
<1>13. /\ s.count \in Nat /\ s.accepted \in Nat /\ s.submitted \in Nat /\ s.consumed \in Nat
      /\ s.epoch \in Nat /\ w.gen \in Nat /\ w.accepted \in Nat /\ d.submitted \in Nat
      /\ Len(d.buffer) \in Nat /\ Len(w.batch) \in Nat /\ w.accepted <= Len(w.batch)
      /\ s.control \in Controls /\ w.control \in Controls /\ o.control \in Controls
      /\ w.after \in {"look", "commit"}
  BY <1>1, Numbers, Places
<1>14. CancelHasCause'
  BY <1>1, <1>4, <1>6, <1>7, <1>8, <1>9, <1>10, <1>12, <1>13 DEF CancelHasCause, CallShape
<1>15. CallShape'
  BY <1>1, <1>4, <1>6, <1>7, <1>8, <1>9, <1>10, <1>12, <1>13 DEF CallShape
<1>16. WorkerShape'
  BY <1>1, <1>4, <1>6, <1>7, <1>8, <1>9, <1>10, <1>12, <1>13 DEF WorkerShape, Holding, Controls
<1>17. Handshake'
  BY <1>1, <1>4, <1>6, <1>7, <1>8, <1>9, <1>10, <1>12, <1>13
     DEF Handshake, CallShape, WorkerShape, Sound, Relying, Clearing, Controls
<1>18. Done'
  <2>1. Len(w.batch) > 0 /\ Holding /\ Relying /\ w.control = "NONE"
    BY <1>1, <1>4, <1>6, <1>7, <1>8, <1>9, <1>10, <1>12, <1>13, BatchNonempty
       DEF WorkerShape, Holding, Relying
  <2>2. Sound' /\ s.control # "CLEAR" =>
          /\ s.epoch = w.gen /\ Len(w.batch) <= s.count /\ n = w.accepted
          /\ d.submitted = Base + w.accepted
    BY <1>1, <1>4, <1>6, <1>7, <1>8, <1>9, <1>10, <1>12, <1>13, <2>1
       DEF Handshake, Fifo, Delivered, Clearing
  <2>3. Sound' /\ s.control # "CLEAR" => s.count # 0 /\ w.batch # <<>>
    BY <1>1, <1>4, <1>6, <1>7, <1>8, <1>9, <1>10, <1>12, <1>13, <2>1, <2>2 DEF WorkerShape
  <2>4. Sound' /\ s.control # "CLEAR" => \A c : Did(c) => (c \in {"CLEAR", "FLUSH"} => FALSE) /\ (c = "GAIN" => d.gained)
    BY <2>3 DEF Did
  <2>5. Sound' /\ o.pc = "answer" /\ e'.done => Did(o.control)'
    <3>1. CASE flushed
      <4>1. Sound' => ~failed /\ s.count - n = 0
        BY <1>4, <1>6, <1>7, <1>8, <1>9, <1>10, <1>12, <1>13, <3>1 DEF Sound
      <4>2. Sound' => d.submitted = s.accepted /\ o.control = "FLUSH"
        BY <1>1, <1>4, <1>6, <1>7, <1>8, <1>9, <1>10, <1>12, <1>13, <2>2, <3>1, <4>1
           DEF Base, Handshake
      <4> QED BY <1>4, <1>6, <1>7, <1>8, <1>9, <1>10, <1>12, <1>13, <4>1, <4>2 DEF Did
    <3>2. CASE ~flushed
      <4>1. Sound' /\ e'.done => e.done
        BY <1>4, <1>6, <1>7, <1>8, <1>9, <1>10, <1>12, <1>13, <3>2
      <4>2. Sound' /\ o.pc = "answer" /\ e'.done => s.control # "CLEAR" /\ Did(o.control)
        BY <1>1, <1>4, <1>6, <1>7, <1>8, <1>9, <1>10, <1>12, <1>13, <4>1 DEF Handshake, Done
      <4> QED BY <1>4, <1>6, <1>7, <1>8, <1>9, <1>10, <1>12, <1>13, <2>4, <4>2 DEF Did
    <3> QED BY <3>1, <3>2
  <2>6. Sound' /\ o.pc # "answer" => s.control # "CLEAR"
    BY <1>1, <1>4, <1>6, <1>7, <1>8, <1>9, <1>10, <1>12, <1>13 DEF Handshake
  <2>7. Sound' /\ o.pc = "settle" /\ o.signaled => Did(o.control)'
    BY <1>1, <1>4, <1>6, <1>7, <1>8, <1>9, <1>10, <1>12, <1>13, <2>4, <2>6 DEF Done, Did
  <2>8. Sound' => o.pc # "store"
    BY <1>1, <1>4, <1>6, <1>7, <1>8, <1>9, <1>10, <1>12, <1>13, <2>4, <2>6 DEF Done
  <2>9. Sound' /\ o.pc = "idle" /\ o.ret = "OK" =>
          o.op \notin {"flush", "clear", "off"} /\ (o.op = "gain" => Did("GAIN")')
    BY <1>1, <1>4, <1>6, <1>7, <1>8, <1>9, <1>10, <1>12, <1>13, <2>4, <2>6 DEF Done, Did
  <2> QED BY <1>4, <1>6, <1>7, <1>8, <1>9, <1>10, <1>12, <1>13, <2>5, <2>7, <2>8, <2>9 DEF Done
<1>19. Fifo'
  <2>1. ~Holding'
    BY <1>4, <1>6, <1>7, <1>8, <1>9, <1>10, <1>12, <1>13 DEF Holding
  <2>2. Queue(ring, (s.head + n) % Capacity, s.count - n, s.epoch, s.accepted)
    BY <1>1, <1>4, <1>6, <1>7, <1>8, <1>9, <1>10, <1>12, <1>13, QueueDrop, Scalars DEF Fifo
  <2>3. s.count - n <= s.accepted
    BY <1>1, <1>4, <1>6, <1>7, <1>8, <1>9, <1>10, <1>12, <1>13 DEF Fifo
  <2> QED BY <1>4, <1>6, <1>7, <1>8, <1>9, <1>10, <1>12, <1>13, <2>1, <2>2, <2>3 DEF Fifo
<1>20. Delivered'
  <2>1. Sound' /\ ~Clearing' => Sound /\ ~Clearing
    BY <1>1, <1>4, <1>6, <1>7, <1>8, <1>9, <1>10, <1>12, <1>13 DEF Clearing, WorkerShape
  <2>2. Sound /\ ~Clearing => s.epoch = w.gen /\ Len(w.batch) <= s.count
    BY <1>1, <1>4, <1>6, <1>7, <1>8, <1>9, <1>10, <1>12, <1>13
       DEF Handshake, Fifo, Clearing, Relying, Holding
  <2>3. Sound /\ ~Clearing => n = w.accepted
    BY <1>4, <1>6, <1>7, <1>8, <1>9, <1>10, <1>12, <1>13, <2>2
  <2>4. Sound /\ ~Clearing => Base' + 0 = Base + w.accepted
    BY <1>4, <1>6, <1>7, <1>8, <1>9, <1>10, <1>12, <1>13, <2>3 DEF Base
  <2>5. Consumed' = Consumed /\ w'.pc \notin {"report", "ended"} /\ w.pc # "ended"
    BY <1>4, <1>6, <1>7, <1>8, <1>9, <1>10, <1>12, <1>13 DEF Consumed
  <2> QED BY <1>1, <1>4, <1>6, <1>7, <1>8, <1>9, <1>10, <1>12, <1>13, <2>1, <2>4, <2>5
     DEF Delivered
<1>21. NothingFails'
  BY <1>1, <1>4, <1>6, <1>7, <1>8, <1>9, <1>10, <1>12, <1>13
     DEF NothingFails, CallShape, WorkerShape, CancelHasCause, Sound
<1> QED BY <1>11, <1>14, <1>15, <1>16, <1>17, <1>18, <1>19, <1>20, <1>21 DEF IInv

\* The top of the loop: the worker takes a control, a batch, or neither.
LEMMA LookInv ==
    ASSUME IInv, Look
    PROVE  IInv'
<1>1. /\ Typed /\ CancelHasCause /\ CallShape /\ WorkerShape
      /\ Handshake /\ Done /\ Fifo /\ Delivered /\ NothingFails
  BY DEF IInv
<1>2. /\ ring \in [Slots -> Frames] /\ s \in SType /\ e \in EType
      /\ d \in DType /\ EndpointFits(d) /\ w \in WType /\ BatchFits(w) /\ o \in OType
      /\ canceller \in {"in", "out"} /\ cancels \in Nat /\ natives \in Nat
  BY <1>1 DEF Typed
<1>3. /\ w.pc = "look" /\ ~e.cancel /\ w.control = "NONE" /\ w.accepted = 0
  <2>1. w.pc = "look" /\ ~e.cancel
    BY DEF Look
  <2> QED BY <1>1, <2>1, Places DEF WorkerShape, Holding, Controls
<1>4. /\ s' \in SType /\ KeepsProgress /\ s'.failed = s.failed
      /\ w' \in WType /\ BatchFits(w') /\ w'.accepted = 0 /\ w'.status = "OK" /\ w'.after = "look"
      /\ \/ /\ s.control \in {"CLEAR", "GAIN"} /\ s'.control = "NONE"
            /\ w'.pc = "native" /\ w'.control = s.control /\ w'.batch = <<>> /\ w'.gen = 0
         \/ /\ s.control \notin {"CLEAR", "GAIN"} /\ s'.control = s.control
            /\ w'.pc \in {"progress", "idle"} /\ w'.control = "NONE" /\ w'.batch = <<>>
            /\ w'.gen = s.epoch
         \/ /\ s.control \notin {"CLEAR", "GAIN"} /\ s'.control = s.control
            /\ w'.pc = "write" /\ w'.control = "NONE" /\ w'.gen = s.epoch
            /\ s.count # 0 /\ w'.batch # <<>> /\ Len(w'.batch) <= s.count
            /\ Batched(w'.batch, s.epoch, Base)
  <2>0. PICK em \in Seq(Frames) : em = <<>> /\ Len(em) = 0
    BY EmptySeq
  <2>9. Len(em) <= Batch /\ 0 \in 0..MaxEpoch /\ s.epoch \in 0..MaxEpoch /\ "NONE" \in Controls
    BY <1>1, <2>0, Constants, Scalars DEF Controls
  <2>1. CASE s.control \in {"CLEAR", "GAIN"}
    <3>1. w' = Found("native", 0, em, s.control) /\ s' = [s EXCEPT !.control = "NONE"]
      BY <2>0, <2>1 DEF Look, Looking, Found
    <3>2. s' \in SType /\ KeepsProgress /\ s'.failed = s.failed /\ s'.control = "NONE"
      BY <1>2, <3>1 DEF SType, KeepsProgress, Controls
    <3>3. "native" \in WorkerPcs /\ s.control \in Controls
      BY <2>1 DEF WorkerPcs, Controls
    <3>4. /\ w' \in WType /\ BatchFits(w') /\ w'.pc = "native" /\ w'.gen = 0 /\ w'.batch = em
          /\ w'.accepted = 0 /\ w'.status = "OK" /\ w'.control = s.control /\ w'.after = "look"
      <4>1. PICK g \in 0..MaxEpoch, c \in Controls, pc \in WorkerPcs :
              g = 0 /\ c = s.control /\ pc = "native"
        BY <2>9, <3>3
      <4>2. w' = Found(pc, g, em, c)
        BY <3>1, <4>1
      <4>3. /\ w' \in WType /\ BatchFits(w') /\ w'.pc = pc /\ w'.gen = g /\ w'.batch = em
            /\ w'.accepted = 0 /\ w'.status = "OK" /\ w'.control = c /\ w'.after = "look"
        BY <2>9, <4>2, FoundAt
      <4> QED BY <4>1, <4>3
    <3> QED BY <2>0, <2>1, <3>2, <3>4
  <2>2. CASE s.control \notin {"CLEAR", "GAIN"} /\ ~(~s.failed /\ s.active /\ s.count # 0)
    <3>1. PICK pc \in {"progress", "idle"} : w' = Found(pc, s.epoch, em, "NONE")
      BY <2>0, <2>2 DEF Look, Looking, Found
    <3>2. s' = s
      BY <2>2 DEF Look
    <3>3. pc \in WorkerPcs
      BY DEF WorkerPcs
    <3>4. /\ w' \in WType /\ BatchFits(w') /\ w'.pc = pc /\ w'.gen = s.epoch /\ w'.batch = em
          /\ w'.accepted = 0 /\ w'.status = "OK" /\ w'.control = "NONE" /\ w'.after = "look"
      BY <2>9, <3>1, <3>3, FoundAt
    <3> QED BY <1>2, <2>0, <2>2, <3>2, <3>4 DEF KeepsProgress
  <2>3. CASE s.control \notin {"CLEAR", "GAIN"} /\ ~s.failed /\ s.active /\ s.count # 0
    <3>1. PICK m, b : m = Min({s.count, Batch}) /\ b = HeadFrames(m)
      OBVIOUS
    <3>2. m \in Nat /\ m <= s.count /\ m <= Batch /\ m # 0
      <4>1. s.count \in Nat /\ Batch \in Nat /\ s.count # 0 /\ Batch # 0
        BY <1>1, <2>3, Numbers, Constants
      <4>2. m = IF s.count <= Batch THEN s.count ELSE Batch
        BY <3>1, <4>1, MinOfTwo
      <4> QED BY <4>1, <4>2
    <3>3. b = [i \in 1..m |-> ring[(s.head + i - 1) % Capacity]]
      BY <3>1 DEF HeadFrames
    <3>4. b \in Seq(Frames) /\ Len(b) = m /\ Batched(b, s.epoch, s.accepted - s.count)
      <4>1. PICK h \in Slots, c \in 0..Capacity, a \in Nat : h = s.head /\ c = s.count /\ a = s.accepted
        BY <1>1, Scalars, Numbers
      <4>2. Queue(ring, h, c, s.epoch, a)
        BY <1>1, <4>1 DEF Fifo
      <4>3. m \in Nat /\ m <= c /\ b = Front(ring, h, m)
        BY <3>2, <3>3, <4>1 DEF Front
      <4>4. b \in Seq(Frames) /\ Len(b) = m /\ Batched(b, s.epoch, a - c)
        BY <1>2, <4>2, <4>3, FrontIsBatch
      <4> QED BY <4>1, <4>4
    <3>5. b # <<>>
      BY <2>0, <3>2, <3>4
    <3>6. w' = Found("write", s.epoch, b, "NONE")
      BY <2>3, <3>1 DEF Look, Looking, Found
    <3>7. s' = s
      BY <2>3 DEF Look
    <3>8. "write" \in WorkerPcs /\ Len(b) <= Batch /\ b \in Seq(Frames)
      BY <3>2, <3>4 DEF WorkerPcs
    <3>9. /\ w' \in WType /\ BatchFits(w') /\ w'.pc = "write" /\ w'.gen = s.epoch /\ w'.batch = b
          /\ w'.accepted = 0 /\ w'.status = "OK" /\ w'.control = "NONE" /\ w'.after = "look"
      <4>1. PICK pc \in WorkerPcs, c \in Controls : pc = "write" /\ c = "NONE"
        BY <2>9, <3>8
      <4>2. w' = Found(pc, s.epoch, b, c)
        BY <3>6, <4>1
      <4>3. /\ w' \in WType /\ BatchFits(w') /\ w'.pc = pc /\ w'.gen = s.epoch /\ w'.batch = b
            /\ w'.accepted = 0 /\ w'.status = "OK" /\ w'.control = c /\ w'.after = "look"
        BY <2>9, <3>8, <4>2, FoundAt
      <4> QED BY <4>1, <4>3
    <3> QED BY <1>2, <2>3, <3>2, <3>4, <3>5, <3>7, <3>9 DEF KeepsProgress, Base
  <2> QED BY <2>1, <2>2, <2>3
<1>5. /\ ring' = ring /\ e' = e /\ d' = d /\ o' = o /\ canceller' = canceller
      /\ cancels' = cancels /\ natives' = natives
      /\ w.pc = "look"
  BY DEF Look
<1>6. Typed'
  BY <1>2, <1>3, <1>4, <1>5 DEF Typed
<1>7. Sound' => Sound
  BY <1>1, <1>3, <1>4, <1>5 DEF Sound, CallShape
<1>8. /\ s.count \in Nat /\ s.accepted \in Nat /\ s.submitted \in Nat /\ s.consumed \in Nat
      /\ s.epoch \in Nat /\ w.gen \in Nat /\ w.accepted \in Nat /\ d.submitted \in Nat
      /\ Len(d.buffer) \in Nat /\ Len(w.batch) \in Nat /\ w.accepted <= Len(w.batch)
      /\ s.control \in Controls /\ w.control \in Controls /\ o.control \in Controls
      /\ w.after \in {"look", "commit"}
  BY <1>1, Numbers, Places
<1>9. CancelHasCause'
  BY <1>1, <1>3, <1>4, <1>5, <1>7, <1>8 DEF CancelHasCause, CallShape
<1>10. CallShape'
  BY <1>1, <1>3, <1>4, <1>5, <1>7, <1>8 DEF CallShape, KeepsProgress
<1>11. WorkerShape'
  BY <1>1, <1>3, <1>4, <1>5, <1>7, <1>8 DEF WorkerShape, Holding, KeepsProgress, Controls
<1>12. Handshake'
  BY <1>1, <1>3, <1>4, <1>5, <1>7, <1>8 DEF Handshake, CallShape, WorkerShape, Sound, Relying,
     Clearing, KeepsProgress, Controls
<1>13. Done'
  BY <1>1, <1>3, <1>4, <1>5, <1>7, <1>8 DEF Done, Handshake, CallShape, WorkerShape, Sound, Did,
     KeepsProgress
<1>14. Fifo'
  BY <1>1, <1>3, <1>4, <1>5, <1>7, <1>8 DEF Fifo, WorkerShape, Holding, Base, KeepsProgress
<1>15. Delivered'
  BY <1>1, <1>3, <1>4, <1>5, <1>7, <1>8 DEF Delivered, Handshake, CallShape, WorkerShape, Sound,
     Clearing, Base, Consumed, KeepsProgress
<1>16. NothingFails'
  BY <1>1, <1>3, <1>4, <1>5, <1>7, <1>8 DEF NothingFails, CallShape, WorkerShape,
     CancelHasCause, Sound
<1> QED BY <1>6, <1>9, <1>10, <1>11, <1>12, <1>13, <1>14, <1>15, <1>16 DEF IInv

\* The worker gives the endpoint what it has room for.
LEMMA SubmitInv ==
    ASSUME IInv, Submit
    PROVE  IInv'
<1>1. /\ Typed /\ CancelHasCause /\ CallShape /\ WorkerShape
      /\ Handshake /\ Done /\ Fifo /\ Delivered /\ NothingFails
  BY DEF IInv
<1>2. /\ ring \in [Slots -> Frames] /\ s \in SType /\ e \in EType
      /\ d \in DType /\ EndpointFits(d) /\ w \in WType /\ BatchFits(w) /\ o \in OType
      /\ canceller \in {"in", "out"} /\ cancels \in Nat /\ natives \in Nat
  BY <1>1 DEF Typed
<1>3. PICK bad \in Failing({"buffer"}) :
        /\ Count(bad)
        /\ LET room == EndpointFrames - Len(d.buffer)
               k == IF bad = "none" THEN Min({room, Len(w.batch) - w.accepted}) ELSE 0
           IN  /\ d' = [d EXCEPT !.submitted = @ + k,
                            !.buffer = @ \o SubSeq(w.batch, w.accepted + 1, w.accepted + k)]
               /\ w' = IF bad # "none" THEN [w EXCEPT !.pc = "commit", !.status = "IO"]
                       ELSE [w EXCEPT !.accepted = @ + k, !.after = "commit",
                                !.pc = IF room = 0 THEN "drain"
                                       ELSE IF w.accepted + k = Len(w.batch) THEN "observe"
                                       ELSE "submit"]
  BY DEF Submit
<1>4. /\ natives' \in Nat /\ (natives' = 0 => natives = 0 /\ bad = "none")
      /\ bad \in {"none", "buffer"}
  BY <1>1, <1>3, Outcome
<1>5. PICK k \in Nat :
        /\ w.accepted + k <= Len(w.batch) /\ Len(d.buffer) + k <= EndpointFrames
        /\ (bad # "none" => k = 0)
        /\ d' = [d EXCEPT !.submitted = @ + k,
                   !.buffer = @ \o SubSeq(w.batch, w.accepted + 1, w.accepted + k)]
        /\ bad # "none" => w' = [w EXCEPT !.pc = "commit", !.status = "IO"]
        /\ bad = "none" => \E pc \in {"drain", "observe", "submit"} :
             w' = [w EXCEPT !.accepted = @ + k, !.after = "commit", !.pc = pc]
  <2>1. /\ Len(d.buffer) \in Nat /\ w.accepted \in Nat /\ Len(w.batch) \in Nat
        /\ w.accepted <= Len(w.batch) /\ Len(d.buffer) <= EndpointFrames /\ EndpointFrames \in Nat
    BY <1>1, <1>2, Numbers, Constants DEF EndpointFits
  <2>2. PICK k : k = IF bad = "none"
                     THEN Min({EndpointFrames - Len(d.buffer), Len(w.batch) - w.accepted}) ELSE 0
    OBVIOUS
  <2>3. /\ k \in Nat /\ w.accepted + k <= Len(w.batch) /\ Len(d.buffer) + k <= EndpointFrames
        /\ (bad # "none" => k = 0)
    BY <2>1, <2>2, MinOfTwo
  <2>4. d' = [d EXCEPT !.submitted = @ + k,
                !.buffer = @ \o SubSeq(w.batch, w.accepted + 1, w.accepted + k)]
    BY <1>3, <2>2
  <2>5. bad # "none" => w' = [w EXCEPT !.pc = "commit", !.status = "IO"]
    BY <1>3
  <2>6. bad = "none" => \E pc \in {"drain", "observe", "submit"} :
          w' = [w EXCEPT !.accepted = @ + k, !.after = "commit", !.pc = pc]
    BY <1>3, <2>2
  <2> QED BY <2>3, <2>4, <2>5, <2>6
<1>6. k \in Nat
  OBVIOUS
<1>7. /\ w' \in WType /\ BatchFits(w') /\ w'.gen = w.gen /\ w'.batch = w.batch
      /\ w'.control = w.control /\ w'.accepted = w.accepted + k
      /\ w'.pc \in {"drain", "observe", "submit", "commit"}
      /\ (w'.pc = "observe" => w'.after = "commit")
      /\ bad = "none" => w'.status = w.status
  <2>1. w.accepted \in Nat /\ w.accepted + k \in Nat /\ w.accepted + k <= Len(w.batch)
    BY <1>1, <1>5, Numbers
  <2>2. CASE bad # "none"
    <3>1. w' = [w EXCEPT !.pc = "commit", !.status = "IO"] /\ k = 0
      BY <1>5, <2>2
    <3>2. /\ w' \in WType /\ w'.gen = w.gen /\ w'.batch = w.batch /\ w'.control = w.control
          /\ w'.accepted = w.accepted /\ w'.pc = "commit"
      BY <1>2, <3>1 DEF WType, WorkerPcs, Statuses
    <3> QED BY <1>2, <2>1, <2>2, <3>1, <3>2 DEF BatchFits
  <2>3. CASE bad = "none"
    <3>1. PICK pc \in {"drain", "observe", "submit"}, a \in Nat :
            w' = [w EXCEPT !.accepted = a, !.after = "commit", !.pc = pc] /\ a = w.accepted + k
      BY <1>5, <2>1, <2>3
    <3>2. /\ w' \in WType /\ w'.gen = w.gen /\ w'.batch = w.batch /\ w'.control = w.control
          /\ w'.accepted = a /\ w'.pc = pc /\ w'.after = "commit" /\ w'.status = w.status
      BY <1>2, <3>1 DEF WType, WorkerPcs
    <3>3. BatchFits(w')
      BY <1>2, <2>1, <3>1, <3>2 DEF BatchFits
    <3> QED BY <3>1, <3>2, <3>3
  <2> QED BY <2>2, <2>3
<1>8. /\ d' \in DType /\ EndpointFits(d') /\ d'.submitted = d.submitted + k
      /\ d'.gained = d.gained /\ Len(d'.buffer) = Len(d.buffer) + k
      /\ \A j : /\ InOrder(d.buffer, j, d.submitted) /\ Batched(w.batch, j, Base)
                /\ d.submitted = Base + w.accepted
                => InOrder(d'.buffer, j, d'.submitted)
  <2>10. PICK c : c = SubSeq(w.batch, w.accepted + 1, w.accepted + k)
    OBVIOUS
  <2>1. PICK b \in Seq(Frames), a \in Nat, n \in Nat :
          b = d.buffer /\ a = w.accepted /\ n = d.submitted
    <3>1. d.buffer \in Seq(Frames)
      BY <1>2 DEF DType
    <3>2. w.accepted \in Nat /\ d.submitted \in Nat
      BY <1>1, Numbers
    <3> QED BY <3>1, <3>2
  <2>2. w.batch \in Seq(Frames) /\ a + k <= Len(w.batch)
    BY <1>2, <1>5, <2>1 DEF WType
  <2>3. /\ c \in Seq(Frames) /\ Len(c) = k
        /\ \A j : \A i \in Int : Batched(w.batch, j, i) => Batched(c, j, i + a)
    <3>1. c = Part(w.batch, a, k)
      BY <2>1, <2>10 DEF Part
    <3> QED BY <1>6, <2>2, <3>1, PartOfBatch
  <2>4. b \o c \in Seq(Frames) /\ Len(b \o c) = Len(b) + k /\ n + k \in Nat
    <3>1. b \o c \in Seq(Frames) /\ Len(b \o c) = Len(b) + Len(c)
      BY <2>3, ConcatProperties
    <3> QED BY <1>6, <2>3, <3>1
  <2>5. PICK z \in Seq(Frames), m \in Nat : z = b \o c /\ m = n + k
    BY <2>4
  <2>6. d' = [d EXCEPT !.submitted = m, !.buffer = z]
    BY <1>5, <2>1, <2>5, <2>10
  <2>7. d' \in DType /\ d'.submitted = m /\ d'.buffer = z /\ d'.gained = d.gained
    BY <1>2, <2>6 DEF DType
  <2>8. Len(z) = Len(d.buffer) + k /\ Len(z) <= EndpointFrames
    BY <1>5, <2>1, <2>4, <2>5
  <2>9. ASSUME NEW j, InOrder(d.buffer, j, d.submitted), Batched(w.batch, j, Base),
               d.submitted = Base + w.accepted
        PROVE  InOrder(d'.buffer, j, d'.submitted)
    <3>1. Base \in Int
      BY <1>1, Numbers DEF Base
    <3>2. Batched(c, j, n)
      BY <2>1, <2>3, <2>9, <3>1
    <3>3. InOrder(b \o c, j, n + k)
      BY <2>1, <2>3, <2>9, <3>2, AppendInOrder
    <3> QED BY <2>5, <2>7, <3>3
  <2> QED BY <2>1, <2>5, <2>7, <2>8, <2>9 DEF EndpointFits
<1>9. /\ ring' = ring /\ s' = s /\ e' = e /\ o' = o /\ canceller' = canceller
      /\ cancels' = cancels
      /\ w.pc = "submit"
  BY DEF Submit, shared
<1>10. Typed'
  BY <1>2, <1>4, <1>6, <1>7, <1>8, <1>9 DEF Typed
<1>11. Sound' => Sound
  BY <1>1, <1>4, <1>6, <1>7, <1>8, <1>9 DEF Sound, CallShape
<1>12. /\ s.count \in Nat /\ s.accepted \in Nat /\ s.submitted \in Nat /\ s.consumed \in Nat
      /\ s.epoch \in Nat /\ w.gen \in Nat /\ w.accepted \in Nat /\ d.submitted \in Nat
      /\ Len(d.buffer) \in Nat /\ Len(w.batch) \in Nat /\ w.accepted <= Len(w.batch)
      /\ s.control \in Controls /\ w.control \in Controls /\ o.control \in Controls
      /\ w.after \in {"look", "commit"}
  BY <1>1, Numbers, Places
<1>13. CancelHasCause'
  BY <1>1, <1>4, <1>6, <1>7, <1>8, <1>9, <1>11, <1>12 DEF CancelHasCause, CallShape
<1>14. CallShape'
  BY <1>1, <1>4, <1>6, <1>7, <1>8, <1>9, <1>11, <1>12 DEF CallShape
<1>15. WorkerShape'
  BY <1>1, <1>4, <1>6, <1>7, <1>8, <1>9, <1>11, <1>12 DEF WorkerShape, Sound, Holding, Relying,
     Base, Clearing, Did, Consumed, Statuses, Controls
<1>16. Handshake'
  BY <1>1, <1>4, <1>6, <1>7, <1>8, <1>9, <1>11, <1>12
     DEF Handshake, CallShape, WorkerShape, Sound, Relying, Clearing, Controls
<1>17. Done'
  <2>1. Len(w.batch) > 0 /\ Holding /\ Relying /\ w.control = "NONE" /\ w.batch # <<>>
    BY <1>1, <1>4, <1>6, <1>7, <1>8, <1>9, <1>11, <1>12, BatchNonempty
       DEF WorkerShape, Holding, Relying
  <2>2. Sound /\ s.control # "CLEAR" => s.count # 0
    BY <1>1, <1>12, <2>1 DEF Handshake, Fifo
  <2>3. Sound /\ s.control # "CLEAR" =>
          \A c : Did(c) => (c \in {"CLEAR", "FLUSH"} => FALSE) /\ (c = "GAIN" => d.gained)
    BY <2>1, <2>2 DEF Did
  <2>4. Sound /\ o.pc = "answer" /\ e.done => s.control # "CLEAR"
    BY <1>1 DEF Handshake
  <2>5. Sound /\ o.pc # "answer" => s.control # "CLEAR"
    BY <1>1 DEF Handshake
  <2>6. Sound /\ o.pc = "answer" /\ e.done => o.control \notin {"CLEAR", "FLUSH"} /\ (o.control = "GAIN" => d.gained)
    BY <1>1, <2>3, <2>4 DEF Done
  <2>7. Sound /\ o.pc = "settle" /\ o.signaled => o.control \notin {"CLEAR", "FLUSH"} /\ (o.control = "GAIN" => d.gained)
    BY <1>1, <2>3, <2>5 DEF Done
  <2>8. Sound => o.pc # "store"
    BY <1>1, <2>3, <2>5 DEF Done
  <2>9. Sound /\ o.pc = "idle" /\ o.ret = "OK" =>
          o.op \notin {"flush", "clear", "off"} /\ (o.op = "gain" => d.gained)
    BY <1>1, <2>3, <2>5 DEF Done
  <2> QED BY <1>4, <1>6, <1>7, <1>8, <1>9, <1>11, <1>12, <2>6, <2>7, <2>8, <2>9 DEF Done, Did
<1>18. Fifo'
  BY <1>1, <1>4, <1>6, <1>7, <1>8, <1>9, <1>11, <1>12 DEF Fifo, WorkerShape, Holding, Base
<1>19. Delivered'
  <2>1. (Sound' <=> Sound) /\ (Clearing' <=> Clearing) /\ Base' = Base
    BY <1>4, <1>6, <1>7, <1>8, <1>9, <1>11, <1>12 DEF Sound, Clearing, Base
  <2>2. Sound /\ ~Clearing => w.gen = s.epoch
    BY <1>1, <1>4, <1>6, <1>7, <1>8, <1>9, <1>11, <1>12 DEF Handshake, Relying, Clearing
  <2>3. Sound /\ ~Clearing => Batched(w.batch, s.epoch, Base)
    BY <1>1, <1>4, <1>6, <1>7, <1>8, <1>9, <1>11, <1>12, <2>2 DEF Fifo, Holding
  <2>4. Sound /\ ~Clearing => /\ InOrder(d.buffer, s.epoch, d.submitted)
                              /\ d.submitted = Base + w.accepted
                              /\ s.submitted <= d.submitted /\ s.consumed <= Consumed
    BY <1>1, <1>4, <1>6, <1>7, <1>8, <1>9, <1>11, <1>12 DEF Delivered
  <2>5. Sound /\ ~Clearing => InOrder(d'.buffer, s.epoch, d'.submitted)
    BY <1>4, <1>6, <1>7, <1>8, <1>9, <1>11, <1>12, <2>3, <2>4
  <2>6. Consumed' = Consumed
    BY <1>4, <1>6, <1>7, <1>8, <1>9, <1>11, <1>12 DEF Consumed
  <2>7. Base \in Int
    BY <1>12 DEF Base
  <2>8. Sound /\ ~Clearing => d'.submitted = Base + w'.accepted /\ s.submitted <= d'.submitted
    <3>1. d'.submitted = d.submitted + k /\ w'.accepted = w.accepted + k /\ k \in Nat
      BY <1>4, <1>6, <1>7, <1>8, <1>9, <1>11, <1>12
    <3> QED BY <1>12, <2>4, <2>7, <3>1
  <2>9. w'.pc # "report"
    BY <1>4, <1>6, <1>7, <1>8, <1>9, <1>11, <1>12
  <2> QED BY <1>4, <1>6, <1>7, <1>8, <1>9, <1>11, <1>12, <2>1, <2>4, <2>5, <2>6, <2>8, <2>9
     DEF Delivered
<1>20. NothingFails'
  BY <1>1, <1>4, <1>6, <1>7, <1>8, <1>9, <1>11, <1>12
     DEF NothingFails, CallShape, WorkerShape, CancelHasCause, Sound
<1> QED BY <1>10, <1>13, <1>14, <1>15, <1>16, <1>17, <1>18, <1>19, <1>20 DEF IInv

\* The owner learns how the worker's attachment ended.
LEMMA CreatedInv ==
    ASSUME IInv, Created
    PROVE  IInv'
<1>1. /\ Typed /\ CancelHasCause /\ CallShape /\ WorkerShape
      /\ Handshake /\ Done /\ Fifo /\ Delivered /\ NothingFails
  BY DEF IInv
<1>2. /\ ring \in [Slots -> Frames] /\ s \in SType /\ e \in EType
      /\ d \in DType /\ EndpointFits(d) /\ w \in WType /\ BatchFits(w) /\ o \in OType
      /\ canceller \in {"in", "out"} /\ cancels \in Nat /\ natives \in Nat
  BY <1>1 DEF Typed
<1>3. \/ /\ e.cancel /\ o' = [o EXCEPT !.pc = "join"] /\ e' = e /\ natives' = natives
      \/ /\ ~e.cancel /\ e.done /\ e' = [e EXCEPT !["done"] = FALSE]
         /\ o' = [o EXCEPT !.pc = IF s.failed THEN "join" ELSE "idle"] /\ natives' = natives
      \/ /\ Count("wait") /\ o' = [o EXCEPT !.pc = "join"] /\ e' = e
  BY DEF Created, WaitWorker
<1>4. /\ natives' \in Nat /\ (natives' = 0 => natives = 0)
  BY <1>2, <1>3 DEF Count
<1>5. /\ o' \in OType /\ o'.op = o.op /\ o'.control = o.control /\ o'.lost = o.lost
      /\ o'.ret = o.ret /\ o'.signaled = o.signaled
      /\ e' \in EType /\ e'.cancel = e.cancel /\ (e'.done => e.done)
      /\ o'.pc \in {"join", "idle"} /\ (o'.pc = "idle" => ~s.failed /\ e.done /\ ~e'.done)
  <2>1. CASE o' = [o EXCEPT !.pc = "join"] /\ e' = e
    BY <1>2, <2>1 DEF OType, OwnerPcs
  <2>2. CASE /\ e.done /\ e' = [e EXCEPT !["done"] = FALSE]
             /\ o' = [o EXCEPT !.pc = IF s.failed THEN "join" ELSE "idle"]
    <3>1. e' \in EType /\ e'.cancel = e.cancel /\ ~e'.done
      BY <1>2, <2>2 DEF EType
    <3>2. PICK pc \in {"join", "idle"} : o' = [o EXCEPT !.pc = pc] /\ (pc = "idle" => ~s.failed)
      BY <2>2
    <3>3. /\ o' \in OType /\ o'.op = o.op /\ o'.control = o.control /\ o'.lost = o.lost
          /\ o'.ret = o.ret /\ o'.signaled = o.signaled /\ o'.pc = pc
      BY <1>2, <3>2 DEF OType, OwnerPcs
    <3> QED BY <2>2, <3>1, <3>2, <3>3
  <2> QED BY <1>3, <2>1, <2>2
<1>6. /\ ring' = ring /\ s' = s /\ d' = d /\ w' = w /\ canceller' = canceller
      /\ cancels' = cancels
      /\ o.pc = "create"
  BY DEF Created
<1>7. Typed'
  BY <1>2, <1>4, <1>5, <1>6 DEF Typed
<1>8. Sound' => Sound
  BY <1>1, <1>4, <1>5, <1>6 DEF Sound, CallShape
<1>9. /\ s.count \in Nat /\ s.accepted \in Nat /\ s.submitted \in Nat /\ s.consumed \in Nat
      /\ s.epoch \in Nat /\ w.gen \in Nat /\ w.accepted \in Nat /\ d.submitted \in Nat
      /\ Len(d.buffer) \in Nat /\ Len(w.batch) \in Nat /\ w.accepted <= Len(w.batch)
      /\ s.control \in Controls /\ w.control \in Controls /\ o.control \in Controls
      /\ w.after \in {"look", "commit"}
  BY <1>1, Numbers, Places
<1>10. CancelHasCause'
  BY <1>1, <1>4, <1>5, <1>6, <1>8, <1>9 DEF CancelHasCause, CallShape
<1>11. CallShape'
  BY <1>1, <1>4, <1>5, <1>6, <1>8, <1>9 DEF CallShape
<1>12. WorkerShape'
  BY <1>1, <1>4, <1>5, <1>6, <1>8, <1>9 DEF WorkerShape, Holding, Controls
<1>13. Handshake'
  BY <1>1, <1>4, <1>5, <1>6, <1>8, <1>9 DEF Handshake, CallShape, WorkerShape, Sound, Relying,
     Clearing, Controls
<1>14. Done'
  BY <1>1, <1>4, <1>5, <1>6, <1>8, <1>9 DEF Done, Handshake, CallShape, WorkerShape, Sound, Did
<1>15. Fifo'
  BY <1>1, <1>4, <1>5, <1>6, <1>8, <1>9 DEF Fifo, WorkerShape, Holding, Base
<1>16. Delivered'
  BY <1>1, <1>4, <1>5, <1>6, <1>8, <1>9 DEF Delivered, Handshake, CallShape, WorkerShape, Sound,
     Clearing, Base, Consumed
<1>17. NothingFails'
  BY <1>1, <1>4, <1>5, <1>6, <1>8, <1>9 DEF NothingFails, CallShape, WorkerShape,
     CancelHasCause, Sound
<1> QED BY <1>7, <1>10, <1>11, <1>12, <1>13, <1>14, <1>15, <1>16, <1>17 DEF IInv

\* Frames join the FIFO.
LEMMA EnqueueInv ==
    ASSUME IInv, NEW n \in 1..MaxSubmission, Enqueue(n)
    PROVE  IInv'
<1>1. /\ Typed /\ CancelHasCause /\ CallShape /\ WorkerShape
      /\ Handshake /\ Done /\ Fifo /\ Delivered /\ NothingFails
  BY DEF IInv
<1>2. /\ ring \in [Slots -> Frames] /\ s \in SType /\ e \in EType
      /\ d \in DType /\ EndpointFits(d) /\ w \in WType /\ BatchFits(w) /\ o \in OType
      /\ canceller \in {"in", "out"} /\ cancels \in Nat /\ natives \in Nat
  BY <1>1 DEF Typed
<1>3. o.pc = "idle" /\ o.op # "destroy" /\ s.accepted + n + s.epoch <= MaxFrames
  BY DEF Enqueue, Calling
<1>4. PICK k : k = Min({Capacity - s.count, n})
  OBVIOUS
<1>5. k \in Nat /\ k <= n /\ s.count + k <= Capacity
  <2>1. s.count \in 0..Capacity /\ Capacity \in Nat /\ n \in Nat
    BY <1>1, Scalars, Constants
  <2>2. Capacity - s.count \in Int /\ n \in Int
    BY <2>1
  <2>3. k = IF Capacity - s.count <= n THEN Capacity - s.count ELSE n
    BY <1>4, <2>2, MinOfTwo
  <2> QED BY <2>1, <2>3
<1>6. /\ s' \in SType /\ ring' \in [Slots -> Frames]
      /\ o' \in OType /\ o'.op = "enqueue" /\ o'.control = o.control /\ o'.lost = o.lost
      /\ s'.head = s.head /\ s'.epoch = s.epoch /\ s'.submitted = s.submitted
      /\ s'.consumed = s.consumed /\ s'.control = s.control /\ s'.failed = s.failed
      /\ s.count <= s.accepted => s'.count <= s'.accepted
      /\ s'.accepted - s'.count = s.accepted - s.count /\ s'.count >= s.count
      /\ s'.count \in Nat /\ s'.accepted \in Nat
      /\ Queue(ring', s'.head, s'.count, s'.epoch, s'.accepted)
      /\ \/ o'.pc = "idle" /\ o'.ret # "OK" /\ (o'.ret = "IO" => s.failed)
         \/ o'.pc = "wake" /\ o'.ret = o.ret
  <2>1. CASE s.failed \/ ~s.active \/ k = 0
    <3>1. /\ ring' = ring /\ s' = s
          /\ o' = [o EXCEPT !.op = "enqueue",
                     !.ret = IF s.failed THEN "IO" ELSE IF ~s.active THEN "INVALID" ELSE "LIMIT"]
      BY <1>4, <2>1 DEF Enqueue
    <3>2. PICK v \in Statuses : v = IF s.failed THEN "IO" ELSE IF ~s.active THEN "INVALID" ELSE "LIMIT"
      BY DEF Statuses
    <3>3. o' = [o EXCEPT !.op = "enqueue", !.ret = v]
      BY <3>1, <3>2
    <3>4. /\ o' \in OType /\ o'.op = "enqueue" /\ o'.control = o.control /\ o'.lost = o.lost
          /\ o'.pc = o.pc /\ o'.ret = v
      BY <1>2, <3>3 DEF OType, Operations
    <3>5. v # "OK" /\ (v = "IO" => s.failed)
      BY <3>2
    <3>6. s.count \in Nat /\ s.accepted \in Nat
      BY <1>1, Numbers
    <3>7. Queue(ring', s'.head, s'.count, s'.epoch, s'.accepted)
      BY <1>1, <3>1 DEF Fifo
    <3> QED BY <1>2, <1>3, <3>1, <3>4, <3>5, <3>6, <3>7
  <2>2. CASE ~(s.failed \/ ~s.active \/ k = 0)
    <3>1. /\ ring' = Filled(ring, s.head, s.count, k, s.epoch, s.accepted)
          /\ s' = [s EXCEPT !.count = @ + k, !.accepted = @ + k]
          /\ o' = [o EXCEPT !.op = "enqueue", !.pc = "wake", !.signaled = s.submitted > s.consumed]
      BY <1>4, <2>2 DEF Enqueue, Filled
    <3>2. PICK h \in Slots, c \in 0..Capacity, p \in 0..MaxEpoch, a \in 0..MaxFrames :
            h = s.head /\ c = s.count /\ p = s.epoch /\ a = s.accepted
      BY <1>1, Scalars
    <3>3. /\ c + k \in 0..Capacity /\ a + k \in 0..MaxFrames /\ a \in Nat /\ c \in Nat
          /\ p \in Nat
      BY <1>3, <1>5, <3>2, Constants
    <3>4. PICK cc \in 0..Capacity, aa \in 0..MaxFrames : cc = c + k /\ aa = a + k
      BY <3>3
    <3>5. s' = [s EXCEPT !.count = cc, !.accepted = aa]
      BY <3>1, <3>2, <3>4
    <3>6. /\ s' \in SType /\ s'.head = s.head /\ s'.epoch = s.epoch /\ s'.submitted = s.submitted
          /\ s'.consumed = s.consumed /\ s'.control = s.control /\ s'.failed = s.failed
          /\ s'.count = cc /\ s'.accepted = aa
      BY <1>2, <3>5 DEF SType
    <3>7. PICK b \in BOOLEAN : b = (s.submitted > s.consumed)
      <4>1. (s.submitted > s.consumed) \in BOOLEAN
        BY <1>1, Numbers
      <4> QED BY <4>1
    <3>8. o' = [o EXCEPT !.op = "enqueue", !.pc = "wake", !.signaled = b]
      BY <3>1, <3>7
    <3>9. /\ o' \in OType /\ o'.op = "enqueue" /\ o'.control = o.control /\ o'.lost = o.lost
          /\ o'.pc = "wake" /\ o'.ret = o.ret
      BY <1>2, <3>8 DEF OType, Operations, OwnerPcs
    <3>10. ring' = Filled(ring, h, c, k, p, a)
      BY <3>1, <3>2
    <3>11. Queue(ring', h, c + k, p, a + k)
      <4>1. Queue(ring, h, c, p, a)
        BY <1>1, <3>2 DEF Fifo
      <4> QED BY <1>2, <1>5, <3>3, <3>10, <4>1, QueueGrow
    <3>12. ring' \in [Slots -> Frames]
      BY <1>2, <1>5, <3>3, <3>10, FilledTyped
    <3>13. /\ s.count <= s.accepted => s'.count <= s'.accepted
           /\ s'.accepted - s'.count = s.accepted - s.count /\ s'.count >= s.count
           /\ s'.count \in Nat /\ s'.accepted \in Nat
      BY <1>5, <3>2, <3>3, <3>4, <3>6
    <3>14. Queue(ring', s'.head, s'.count, s'.epoch, s'.accepted)
      BY <3>2, <3>4, <3>6, <3>11
    <3> QED BY <3>6, <3>9, <3>12, <3>13, <3>14
  <2> QED BY <2>1, <2>2
<1>7. /\ e' = e /\ d' = d /\ w' = w /\ canceller' = canceller /\ cancels' = cancels
      /\ natives' = natives
      /\ o.pc = "idle"
  BY DEF Enqueue, Calling
<1>8. Typed'
  BY <1>2, <1>3, <1>5, <1>6, <1>7 DEF Typed
<1>9. Sound' => Sound
  BY <1>1, <1>3, <1>5, <1>6, <1>7 DEF Sound, CallShape
<1>10. /\ s.count \in Nat /\ s.accepted \in Nat /\ s.submitted \in Nat /\ s.consumed \in Nat
      /\ s.epoch \in Nat /\ w.gen \in Nat /\ w.accepted \in Nat /\ d.submitted \in Nat
      /\ Len(d.buffer) \in Nat /\ Len(w.batch) \in Nat /\ w.accepted <= Len(w.batch)
      /\ s.control \in Controls /\ w.control \in Controls /\ o.control \in Controls
      /\ w.after \in {"look", "commit"}
  BY <1>1, Numbers, Places
<1>11. CancelHasCause'
  BY <1>1, <1>3, <1>5, <1>6, <1>7, <1>9, <1>10 DEF CancelHasCause, CallShape
<1>12. CallShape'
  BY <1>1, <1>3, <1>5, <1>6, <1>7, <1>9, <1>10 DEF CallShape
<1>13. WorkerShape'
  BY <1>1, <1>3, <1>5, <1>6, <1>7, <1>9, <1>10 DEF WorkerShape, Holding, Controls
<1>14. Handshake'
  BY <1>1, <1>3, <1>5, <1>6, <1>7, <1>9, <1>10
     DEF Handshake, CallShape, WorkerShape, Sound, Relying, Clearing, Controls
<1>15. Done'
  BY <1>1, <1>3, <1>5, <1>6, <1>7, <1>9, <1>10
     DEF Done, Handshake, CallShape, WorkerShape, Sound, Did
<1>16. Fifo'
  <2>1. Base' = Base /\ s'.epoch = s.epoch /\ w' = w /\ s'.count >= s.count /\ s'.count \in Nat
    BY <1>3, <1>5, <1>6, <1>7, <1>9, <1>10 DEF Base
  <2>2. Holding' <=> Holding
    BY <2>1 DEF Holding
  <2>3. s'.count <= s'.accepted
    BY <1>1, <1>3, <1>5, <1>6, <1>7, <1>9, <1>10 DEF Fifo
  <2>4. Queue(ring', s'.head, s'.count, s'.epoch, s'.accepted)
    BY <1>3, <1>5, <1>6, <1>7, <1>9, <1>10
  <2>5. Holding /\ w.gen = s.epoch => Len(w.batch) <= s'.count /\ Batched(w.batch, s.epoch, Base)
    BY <1>1, <1>10, <2>1 DEF Fifo
  <2> QED BY <2>1, <2>2, <2>3, <2>4, <2>5 DEF Fifo
<1>17. Delivered'
  <2>1. Base' = Base /\ Consumed' = Consumed /\ (Clearing' <=> Clearing)
    BY <1>3, <1>5, <1>6, <1>7, <1>9, <1>10 DEF Base, Consumed, Clearing
  <2>2. /\ s'.epoch = s.epoch /\ s'.submitted = s.submitted /\ s'.consumed = s.consumed
        /\ w' = w /\ d' = d
    BY <1>3, <1>5, <1>6, <1>7, <1>9, <1>10
  <2>3. Sound' => Sound
    BY <1>3, <1>5, <1>6, <1>7, <1>9, <1>10
  <2> QED BY <1>1, <2>1, <2>2, <2>3 DEF Delivered
<1>18. NothingFails'
  BY <1>1, <1>3, <1>5, <1>6, <1>7, <1>9, <1>10
     DEF NothingFails, CallShape, WorkerShape, CancelHasCause, Sound
<1> QED BY <1>8, <1>11, <1>12, <1>13, <1>14, <1>15, <1>16, <1>17, <1>18 DEF IInv

\* The owner wakes the worker after an enqueue.
LEMMA WakeInv ==
    ASSUME IInv, Wake
    PROVE  IInv'
<1>1. /\ Typed /\ CancelHasCause /\ CallShape /\ WorkerShape
      /\ Handshake /\ Done /\ Fifo /\ Delivered /\ NothingFails
  BY DEF IInv
<1>2. /\ ring \in [Slots -> Frames] /\ s \in SType /\ e \in EType
      /\ d \in DType /\ EndpointFits(d) /\ w \in WType /\ BatchFits(w) /\ o \in OType
      /\ canceller \in {"in", "out"} /\ cancels \in Nat /\ natives \in Nat
  BY <1>1 DEF Typed
<1>3. PICK bad \in Failing({"signal"}) :
        /\ Count(bad)
        /\ s' = [s EXCEPT !.failed = @ \/ bad # "none"]
        /\ e' = [e EXCEPT !.wake = @ \/ bad = "none", !.cancel = @ \/ bad # "none"]
        /\ IF bad # "none" THEN o' = [o EXCEPT !.pc = "idle", !.ret = "IO"]
           ELSE IF o.signaled THEN o' = [o EXCEPT !.pc = "nudge"]
           ELSE o' = [o EXCEPT !.pc = "idle", !.ret = "OK"]
  BY DEF Wake, Return
<1>4. /\ natives' \in Nat /\ (natives' = 0 => natives = 0 /\ bad = "none")
      /\ bad \in {"none", "signal"}
  BY <1>1, <1>3, Outcome
<1>5. /\ s' \in SType /\ KeepsProgress /\ s'.control = s.control
      /\ s'.failed <=> s.failed \/ bad # "none"
  BY <1>2, <1>3 DEF SType, KeepsProgress
<1>6. /\ e' \in EType /\ e'.done = e.done
      /\ e'.cancel <=> e.cancel \/ bad # "none"
  BY <1>2, <1>3 DEF EType
<1>7. /\ o' \in OType /\ o'.op = o.op /\ o'.control = o.control /\ o'.lost = o.lost
      /\ o'.pc \in {"idle", "nudge"}
      /\ bad = "none" => o'.ret \in {"OK", o.ret}
  <2>1. CASE bad # "none"
    BY <1>2, <1>3, <2>1 DEF OType, OwnerPcs, Statuses
  <2>2. CASE bad = "none" /\ o.signaled
    BY <1>2, <1>3, <2>2 DEF OType, OwnerPcs
  <2>3. CASE bad = "none" /\ ~o.signaled
    BY <1>2, <1>3, <2>3 DEF OType, OwnerPcs, Statuses
  <2> QED BY <2>1, <2>2, <2>3
<1>8. /\ ring' = ring /\ d' = d /\ w' = w /\ canceller' = canceller /\ cancels' = cancels
      /\ o.pc = "wake"
  BY DEF Wake
<1>9. Typed'
  BY <1>2, <1>4, <1>5, <1>6, <1>7, <1>8 DEF Typed
<1>10. Sound' => Sound
  BY <1>1, <1>4, <1>5, <1>6, <1>7, <1>8 DEF Sound, CallShape
<1>11. /\ s.count \in Nat /\ s.accepted \in Nat /\ s.submitted \in Nat /\ s.consumed \in Nat
      /\ s.epoch \in Nat /\ w.gen \in Nat /\ w.accepted \in Nat /\ d.submitted \in Nat
      /\ Len(d.buffer) \in Nat /\ Len(w.batch) \in Nat /\ w.accepted <= Len(w.batch)
      /\ s.control \in Controls /\ w.control \in Controls /\ o.control \in Controls
      /\ w.after \in {"look", "commit"}
  BY <1>1, Numbers, Places
<1>12. CancelHasCause'
  BY <1>1, <1>4, <1>5, <1>6, <1>7, <1>8, <1>10, <1>11 DEF CancelHasCause, CallShape
<1>13. CallShape'
  BY <1>1, <1>4, <1>5, <1>6, <1>7, <1>8, <1>10, <1>11 DEF CallShape, KeepsProgress
<1>14. WorkerShape'
  BY <1>1, <1>4, <1>5, <1>6, <1>7, <1>8, <1>10, <1>11
     DEF WorkerShape, Holding, KeepsProgress, Controls
<1>15. Handshake'
  BY <1>1, <1>4, <1>5, <1>6, <1>7, <1>8, <1>10, <1>11
     DEF Handshake, CallShape, WorkerShape, Sound, Relying, Clearing, KeepsProgress, Controls
<1>16. Done'
  BY <1>1, <1>4, <1>5, <1>6, <1>7, <1>8, <1>10, <1>11
     DEF Done, Handshake, CallShape, WorkerShape, Sound, Did, KeepsProgress
<1>17. Fifo'
  BY <1>1, <1>4, <1>5, <1>6, <1>7, <1>8, <1>10, <1>11
     DEF Fifo, WorkerShape, Holding, Base, KeepsProgress
<1>18. Delivered'
  BY <1>1, <1>4, <1>5, <1>6, <1>7, <1>8, <1>10, <1>11 DEF Delivered, Handshake, CallShape,
     WorkerShape, Sound, Clearing, Base, Consumed, KeepsProgress
<1>19. NothingFails'
  BY <1>1, <1>4, <1>5, <1>6, <1>7, <1>8, <1>10, <1>11
     DEF NothingFails, CallShape, WorkerShape, CancelHasCause, Sound
<1> QED BY <1>9, <1>12, <1>13, <1>14, <1>15, <1>16, <1>17, <1>18, <1>19 DEF IInv

\* The owner interrupts the worker's wait for the endpoint.
LEMMA NudgeInv ==
    ASSUME IInv, Nudge
    PROVE  IInv'
<1>1. /\ Typed /\ CancelHasCause /\ CallShape /\ WorkerShape
      /\ Handshake /\ Done /\ Fifo /\ Delivered /\ NothingFails
  BY DEF IInv
<1>2. /\ ring \in [Slots -> Frames] /\ s \in SType /\ e \in EType
      /\ d \in DType /\ EndpointFits(d) /\ w \in WType /\ BatchFits(w) /\ o \in OType
      /\ canceller \in {"in", "out"} /\ cancels \in Nat /\ natives \in Nat
  BY <1>1 DEF Typed
<1>3. PICK bad \in Failing({"interrupt"}) :
        /\ Count(bad)
        /\ s' = [s EXCEPT !.failed = @ \/ bad # "none"]
        /\ e' = [e EXCEPT !.cancel = @ \/ bad # "none"]
        /\ d' = [d EXCEPT !.interruption = @ \/ bad = "none"]
        /\ o' = [o EXCEPT !.pc = "idle", !.ret = IF bad = "none" THEN "OK" ELSE "IO"]
  BY DEF Nudge, Return, FailIf
<1>4. /\ natives' \in Nat /\ (natives' = 0 => natives = 0 /\ bad = "none")
      /\ bad \in {"none", "interrupt"}
  BY <1>1, <1>3, Outcome
<1>5. /\ s' \in SType /\ KeepsProgress /\ s'.control = s.control
      /\ s'.failed <=> s.failed \/ bad # "none"
  BY <1>2, <1>3 DEF SType, KeepsProgress
<1>6. /\ e' \in EType /\ e'.done = e.done
      /\ e'.cancel <=> e.cancel \/ bad # "none"
  BY <1>2, <1>3 DEF EType
<1>7. /\ d' \in DType /\ EndpointFits(d') /\ d'.buffer = d.buffer /\ d'.submitted = d.submitted
      /\ d'.gained = d.gained
  BY <1>2, <1>3 DEF DType, EndpointFits
<1>8. /\ o' \in OType /\ o'.op = o.op /\ o'.control = o.control /\ o'.lost = o.lost
      /\ o'.pc = "idle" /\ (bad = "none" => o'.ret = "OK")
  <2>1. PICK v \in Statuses : v = IF bad = "none" THEN "OK" ELSE "IO"
    BY DEF Statuses
  <2>2. o' = [o EXCEPT !.pc = "idle", !.ret = v]
    BY <1>3, <2>1
  <2>3. /\ o' \in OType /\ o'.op = o.op /\ o'.control = o.control /\ o'.lost = o.lost
        /\ o'.pc = "idle" /\ o'.ret = v
    BY <1>2, <2>2 DEF OType, OwnerPcs
  <2> QED BY <2>1, <2>3
<1>9. /\ ring' = ring /\ w' = w /\ canceller' = canceller /\ cancels' = cancels
      /\ o.pc = "nudge"
  BY DEF Nudge
<1>10. Typed'
  BY <1>2, <1>4, <1>5, <1>6, <1>7, <1>8, <1>9 DEF Typed
<1>11. Sound' => Sound
  BY <1>1, <1>4, <1>5, <1>6, <1>7, <1>8, <1>9 DEF Sound, CallShape
<1>12. /\ s.count \in Nat /\ s.accepted \in Nat /\ s.submitted \in Nat /\ s.consumed \in Nat
      /\ s.epoch \in Nat /\ w.gen \in Nat /\ w.accepted \in Nat /\ d.submitted \in Nat
      /\ Len(d.buffer) \in Nat /\ Len(w.batch) \in Nat /\ w.accepted <= Len(w.batch)
      /\ s.control \in Controls /\ w.control \in Controls /\ o.control \in Controls
      /\ w.after \in {"look", "commit"}
  BY <1>1, Numbers, Places
<1>13. CancelHasCause'
  BY <1>1, <1>4, <1>5, <1>6, <1>7, <1>8, <1>9, <1>11, <1>12 DEF CancelHasCause, CallShape
<1>14. CallShape'
  BY <1>1, <1>4, <1>5, <1>6, <1>7, <1>8, <1>9, <1>11, <1>12 DEF CallShape, KeepsProgress
<1>15. WorkerShape'
  BY <1>1, <1>4, <1>5, <1>6, <1>7, <1>8, <1>9, <1>11, <1>12
     DEF WorkerShape, Holding, KeepsProgress, Controls
<1>16. Handshake'
  BY <1>1, <1>4, <1>5, <1>6, <1>7, <1>8, <1>9, <1>11, <1>12
     DEF Handshake, CallShape, WorkerShape, Sound, Relying, Clearing, KeepsProgress, Controls
<1>17. Done'
  BY <1>1, <1>4, <1>5, <1>6, <1>7, <1>8, <1>9, <1>11, <1>12
     DEF Done, Handshake, CallShape, WorkerShape, Sound, Did, KeepsProgress
<1>18. Fifo'
  BY <1>1, <1>4, <1>5, <1>6, <1>7, <1>8, <1>9, <1>11, <1>12
     DEF Fifo, WorkerShape, Holding, Base, KeepsProgress
<1>19. Delivered'
  BY <1>1, <1>4, <1>5, <1>6, <1>7, <1>8, <1>9, <1>11, <1>12 DEF Delivered, Handshake, CallShape,
     WorkerShape, Sound, Clearing, Base, Consumed, KeepsProgress
<1>20. NothingFails'
  BY <1>1, <1>4, <1>5, <1>6, <1>7, <1>8, <1>9, <1>11, <1>12
     DEF NothingFails, CallShape, WorkerShape, CancelHasCause, Sound
<1> QED BY <1>10, <1>13, <1>14, <1>15, <1>16, <1>17, <1>18, <1>19, <1>20 DEF IInv

\* The owner takes a cancellation of its wait, or goes on to look for space.
LEMMA WaitWritableInv ==
    ASSUME IInv, WaitWritable
    PROVE  IInv'
<1>1. /\ Typed /\ CancelHasCause /\ CallShape /\ WorkerShape
      /\ Handshake /\ Done /\ Fifo /\ Delivered /\ NothingFails
  BY DEF IInv
<1>2. /\ ring \in [Slots -> Frames] /\ s \in SType /\ e \in EType
      /\ d \in DType /\ EndpointFits(d) /\ w \in WType /\ BatchFits(w) /\ o \in OType
      /\ canceller \in {"in", "out"} /\ cancels \in Nat /\ natives \in Nat
  BY <1>1 DEF Typed
<1>3. /\ e' = [e EXCEPT !.waitCancelled = FALSE]
      /\ o' = IF e.waitCancelled
              THEN [o EXCEPT !.op = "wait", !.pc = "idle", !.ret = "INVALID"]
              ELSE [o EXCEPT !.op = "wait", !.pc = "check"]
  BY DEF WaitWritable
<1>4. /\ e' \in EType /\ e'.done = e.done /\ e'.cancel = e.cancel
      /\ o' \in OType /\ o'.op = "wait" /\ o'.control = o.control /\ o'.lost = o.lost
      /\ o'.pc \in {"idle", "check"} /\ o'.ret \in {"INVALID", o.ret}
  <2>1. e' \in EType /\ e'.done = e.done /\ e'.cancel = e.cancel
    BY <1>2, <1>3 DEF EType
  <2>2. CASE e.waitCancelled
    BY <1>2, <1>3, <2>1, <2>2 DEF OType, OwnerPcs, Operations, Statuses
  <2>3. CASE ~e.waitCancelled
    BY <1>2, <1>3, <2>1, <2>3 DEF OType, OwnerPcs, Operations
  <2> QED BY <2>2, <2>3
<1>5. /\ ring' = ring /\ s' = s /\ d' = d /\ w' = w /\ canceller' = canceller
      /\ cancels' = cancels
      /\ natives' = natives /\ o.pc \in {"idle", "again"} /\ o.op # "destroy"
  <2>1. o.pc = "again" => o.op = "wait"
    BY <1>1 DEF CallShape
  <2> QED BY <2>1 DEF WaitWritable, Calling
<1>6. Typed'
  BY <1>2, <1>3, <1>4, <1>5 DEF Typed
<1>7. Sound' => Sound
  BY <1>1, <1>3, <1>4, <1>5 DEF Sound, CallShape
<1>8. /\ s.count \in Nat /\ s.accepted \in Nat /\ s.submitted \in Nat /\ s.consumed \in Nat
      /\ s.epoch \in Nat /\ w.gen \in Nat /\ w.accepted \in Nat /\ d.submitted \in Nat
      /\ Len(d.buffer) \in Nat /\ Len(w.batch) \in Nat /\ w.accepted <= Len(w.batch)
      /\ s.control \in Controls /\ w.control \in Controls /\ o.control \in Controls
      /\ w.after \in {"look", "commit"}
  BY <1>1, Numbers, Places
<1>9. CancelHasCause'
  BY <1>1, <1>3, <1>4, <1>5, <1>7, <1>8 DEF CancelHasCause, CallShape
<1>10. CallShape'
  BY <1>1, <1>3, <1>4, <1>5, <1>7, <1>8 DEF CallShape
<1>11. WorkerShape'
  BY <1>1, <1>3, <1>4, <1>5, <1>7, <1>8 DEF WorkerShape, Holding, Controls
<1>12. Handshake'
  BY <1>1, <1>3, <1>4, <1>5, <1>7, <1>8 DEF Handshake, CallShape, WorkerShape, Sound, Relying,
     Clearing, Controls
<1>13. Done'
  BY <1>1, <1>3, <1>4, <1>5, <1>7, <1>8 DEF Done, Handshake, CallShape, WorkerShape, Sound, Did
<1>14. Fifo'
  BY <1>1, <1>3, <1>4, <1>5, <1>7, <1>8 DEF Fifo, WorkerShape, Holding, Base
<1>15. Delivered'
  BY <1>1, <1>3, <1>4, <1>5, <1>7, <1>8 DEF Delivered, Handshake, CallShape, WorkerShape, Sound,
     Clearing, Base, Consumed
<1>16. NothingFails'
  BY <1>1, <1>3, <1>4, <1>5, <1>7, <1>8 DEF NothingFails, CallShape, WorkerShape,
     CancelHasCause, Sound
<1> QED BY <1>6, <1>9, <1>10, <1>11, <1>12, <1>13, <1>14, <1>15, <1>16 DEF IInv

\* The owner looks for space.
LEMMA CheckInv ==
    ASSUME IInv, Check
    PROVE  IInv'
<1>1. /\ Typed /\ CancelHasCause /\ CallShape /\ WorkerShape
      /\ Handshake /\ Done /\ Fifo /\ Delivered /\ NothingFails
  BY DEF IInv
<1>2. /\ ring \in [Slots -> Frames] /\ s \in SType /\ e \in EType
      /\ d \in DType /\ EndpointFits(d) /\ w \in WType /\ BatchFits(w) /\ o \in OType
      /\ canceller \in {"in", "out"} /\ cancels \in Nat /\ natives \in Nat
  BY <1>1 DEF Typed
<1>3. \/ s.failed /\ o' = [o EXCEPT !.pc = "idle", !.ret = "IO"]
      \/ o' = [o EXCEPT !.pc = "idle", !.ret = "INVALID"]
      \/ o' = [o EXCEPT !.pc = "idle", !.ret = "OK"]
      \/ o' = [o EXCEPT !.pc = "space"]
  BY DEF Check, Return
<1>4. /\ o' \in OType /\ o'.op = o.op /\ o'.control = o.control /\ o'.lost = o.lost
      /\ o'.pc \in {"idle", "space"}
      /\ o'.ret = "IO" => s.failed \/ o.ret = "IO"
  <2>1. CASE s.failed /\ o' = [o EXCEPT !.pc = "idle", !.ret = "IO"]
    BY <1>2, <2>1 DEF OType, OwnerPcs, Statuses
  <2>2. CASE o' = [o EXCEPT !.pc = "idle", !.ret = "INVALID"]
    BY <1>2, <2>2 DEF OType, OwnerPcs, Statuses
  <2>3. CASE o' = [o EXCEPT !.pc = "idle", !.ret = "OK"]
    BY <1>2, <2>3 DEF OType, OwnerPcs, Statuses
  <2>4. CASE o' = [o EXCEPT !.pc = "space"]
    BY <1>2, <2>4 DEF OType, OwnerPcs
  <2> QED BY <1>3, <2>1, <2>2, <2>3, <2>4
<1>5. /\ ring' = ring /\ s' = s /\ e' = e /\ d' = d /\ w' = w /\ canceller' = canceller
      /\ cancels' = cancels /\ natives' = natives
      /\ o.pc = "check"
  BY DEF Check, shared
<1>6. Typed'
  BY <1>2, <1>4, <1>5 DEF Typed
<1>7. Sound' => Sound
  BY <1>1, <1>4, <1>5 DEF Sound, CallShape
<1>8. /\ s.count \in Nat /\ s.accepted \in Nat /\ s.submitted \in Nat /\ s.consumed \in Nat
      /\ s.epoch \in Nat /\ w.gen \in Nat /\ w.accepted \in Nat /\ d.submitted \in Nat
      /\ Len(d.buffer) \in Nat /\ Len(w.batch) \in Nat /\ w.accepted <= Len(w.batch)
      /\ s.control \in Controls /\ w.control \in Controls /\ o.control \in Controls
      /\ w.after \in {"look", "commit"}
  BY <1>1, Numbers, Places
<1>9. CancelHasCause'
  BY <1>1, <1>4, <1>5, <1>7, <1>8 DEF CancelHasCause, CallShape
<1>10. CallShape'
  BY <1>1, <1>4, <1>5, <1>7, <1>8 DEF CallShape
<1>11. WorkerShape'
  BY <1>1, <1>4, <1>5, <1>7, <1>8 DEF WorkerShape, Holding, Controls
<1>12. Handshake'
  BY <1>1, <1>4, <1>5, <1>7, <1>8 DEF Handshake, CallShape, WorkerShape, Sound, Relying,
     Clearing, Controls
<1>13. Done'
  BY <1>1, <1>4, <1>5, <1>7, <1>8 DEF Done, Handshake, CallShape, WorkerShape, Sound, Did
<1>14. Fifo'
  BY <1>1, <1>4, <1>5, <1>7, <1>8 DEF Fifo, WorkerShape, Holding, Base
<1>15. Delivered'
  BY <1>1, <1>4, <1>5, <1>7, <1>8 DEF Delivered, Handshake, CallShape, WorkerShape, Sound,
     Clearing, Base, Consumed
<1>16. NothingFails'
  BY <1>1, <1>4, <1>5, <1>7, <1>8 DEF NothingFails, CallShape, WorkerShape, CancelHasCause, Sound
<1> QED BY <1>6, <1>9, <1>10, <1>11, <1>12, <1>13, <1>14, <1>15, <1>16 DEF IInv

\* The owner waits for space.
LEMMA SpaceInv ==
    ASSUME IInv, Space
    PROVE  IInv'
<1>1. /\ Typed /\ CancelHasCause /\ CallShape /\ WorkerShape
      /\ Handshake /\ Done /\ Fifo /\ Delivered /\ NothingFails
  BY DEF IInv
<1>2. /\ ring \in [Slots -> Frames] /\ s \in SType /\ e \in EType
      /\ d \in DType /\ EndpointFits(d) /\ w \in WType /\ BatchFits(w) /\ o \in OType
      /\ canceller \in {"in", "out"} /\ cancels \in Nat /\ natives \in Nat
  BY <1>1 DEF Typed
<1>3. \/ e.cancel /\ o' = [o EXCEPT !.pc = "idle", !.ret = "IO"] /\ e' = e /\ natives' = natives
      \/ /\ e' = [e EXCEPT !["space"] = FALSE] /\ o' = [o EXCEPT !.pc = "again"]
         /\ natives' = natives
      \/ Count("wait") /\ o' = [o EXCEPT !.pc = "idle", !.ret = "IO"] /\ e' = e
  BY DEF Space, WaitWorker
<1>4. /\ natives' \in Nat /\ (natives' = 0 => natives = 0)
  BY <1>2, <1>3 DEF Count
<1>5. /\ o' \in OType /\ o'.op = o.op /\ o'.control = o.control /\ o'.lost = o.lost
      /\ o'.pc \in {"idle", "again"}
      /\ e' \in EType /\ e'.done = e.done /\ e'.cancel = e.cancel
      /\ o'.ret = "IO" => e.cancel \/ natives' # 0 \/ o.ret = "IO"
  <2>1. CASE o' = [o EXCEPT !.pc = "idle", !.ret = "IO"] /\ e' = e /\ (e.cancel \/ natives' # 0)
    <3>1. /\ o' \in OType /\ o'.op = o.op /\ o'.control = o.control /\ o'.lost = o.lost
          /\ o'.pc = "idle"
      BY <1>2, <2>1 DEF OType, OwnerPcs, Statuses
    <3> QED BY <1>2, <2>1, <3>1
  <2>2. CASE e' = [e EXCEPT !["space"] = FALSE] /\ o' = [o EXCEPT !.pc = "again"]
    <3>1. e' \in EType /\ e'.done = e.done /\ e'.cancel = e.cancel
      BY <1>2, <2>2 DEF EType
    <3>2. /\ o' \in OType /\ o'.op = o.op /\ o'.control = o.control /\ o'.lost = o.lost
          /\ o'.pc = "again" /\ o'.ret = o.ret
      BY <1>2, <2>2 DEF OType, OwnerPcs
    <3> QED BY <3>1, <3>2
  <2>3. Count("wait") => natives' # 0
    BY <1>2 DEF Count
  <2> QED BY <1>3, <2>1, <2>2, <2>3
<1>6. /\ ring' = ring /\ s' = s /\ d' = d /\ w' = w /\ canceller' = canceller
      /\ cancels' = cancels
      /\ o.pc = "space"
  BY DEF Space
<1>7. Typed'
  BY <1>2, <1>4, <1>5, <1>6 DEF Typed
<1>8. Sound' => Sound
  BY <1>1, <1>4, <1>5, <1>6 DEF Sound, CallShape
<1>9. /\ s.count \in Nat /\ s.accepted \in Nat /\ s.submitted \in Nat /\ s.consumed \in Nat
      /\ s.epoch \in Nat /\ w.gen \in Nat /\ w.accepted \in Nat /\ d.submitted \in Nat
      /\ Len(d.buffer) \in Nat /\ Len(w.batch) \in Nat /\ w.accepted <= Len(w.batch)
      /\ s.control \in Controls /\ w.control \in Controls /\ o.control \in Controls
      /\ w.after \in {"look", "commit"}
  BY <1>1, Numbers, Places
<1>10. CancelHasCause'
  BY <1>1, <1>4, <1>5, <1>6, <1>8, <1>9 DEF CancelHasCause, CallShape
<1>11. CallShape'
  BY <1>1, <1>4, <1>5, <1>6, <1>8, <1>9 DEF CallShape
<1>12. WorkerShape'
  BY <1>1, <1>4, <1>5, <1>6, <1>8, <1>9 DEF WorkerShape, Holding, Controls
<1>13. Handshake'
  BY <1>1, <1>4, <1>5, <1>6, <1>8, <1>9 DEF Handshake, CallShape, WorkerShape, Sound, Relying,
     Clearing, Controls
<1>14. Done'
  BY <1>1, <1>4, <1>5, <1>6, <1>8, <1>9 DEF Done, Handshake, CallShape, WorkerShape, Sound, Did
<1>15. Fifo'
  BY <1>1, <1>4, <1>5, <1>6, <1>8, <1>9 DEF Fifo, WorkerShape, Holding, Base
<1>16. Delivered'
  BY <1>1, <1>4, <1>5, <1>6, <1>8, <1>9 DEF Delivered, Handshake, CallShape, WorkerShape, Sound,
     Clearing, Base, Consumed
<1>17. NothingFails'
  BY <1>1, <1>4, <1>5, <1>6, <1>8, <1>9 DEF NothingFails, CallShape, WorkerShape,
     CancelHasCause, Sound
<1> QED BY <1>7, <1>10, <1>11, <1>12, <1>13, <1>14, <1>15, <1>16, <1>17 DEF IInv

\* A clear is asked for.
LEMMA ClearStreamInv ==
    ASSUME IInv, ClearStream
    PROVE  IInv'
<1>1. /\ Typed /\ CancelHasCause /\ CallShape /\ WorkerShape
      /\ Handshake /\ Done /\ Fifo /\ Delivered /\ NothingFails
  BY DEF IInv
<1>2. /\ ring \in [Slots -> Frames] /\ s \in SType /\ e \in EType
      /\ d \in DType /\ EndpointFits(d) /\ w \in WType /\ BatchFits(w) /\ o \in OType
      /\ canceller \in {"in", "out"} /\ cancels \in Nat /\ natives \in Nat
  BY <1>1 DEF Typed
<1>3. /\ o.pc \in {"idle", "off"} /\ o.op # "destroy"
      /\ s.epoch < MaxEpoch
  <2>1. o.pc = "off" => o.op = "off" /\ s.epoch < MaxEpoch
    BY <1>1 DEF CallShape
  <2> QED BY <2>1 DEF ClearStream, Calling
<1>4. PICK bad \in Failing({"native", "signal"}) :
        /\ Count(bad)
        /\ IF Refused(bad)
           THEN /\ s.failed => bad = "none"
                /\ o' = [o EXCEPT !.pc = "idle", !.op = "clear", !.ret = "IO"]
                /\ UNCHANGED <<s, e, d>>
           ELSE /\ Ask("clear", "CLEAR", Cleared, bad)
                /\ d' = [d EXCEPT !.interruption = TRUE, !.gained = d.gained]
  BY DEF ClearStream, Calling, Request
<1>5. /\ natives' \in Nat /\ (natives' = 0 => natives = 0 /\ bad = "none")
      /\ bad \in {"none", "native", "signal"}
  BY <1>1, <1>4, Outcome
<1>6. /\ s' \in SType /\ e' \in EType /\ d' \in DType /\ EndpointFits(d') /\ o' \in OType
      /\ d'.buffer = d.buffer /\ d'.submitted = d.submitted
      /\ o'.op = "clear" /\ o'.lost = o.lost
      /\ \/ /\ s' = s /\ e' = e /\ d' = d /\ o'.pc = "idle" /\ o'.ret = "IO"
            /\ bad = "none" => s.failed
         \/ /\ ~s.failed /\ ~e'.done /\ s'.control = "CLEAR"
            /\ s'.head = 0 /\ s'.count = 0 /\ s'.epoch = s.epoch + 1 /\ s'.accepted = 0
            /\ s'.submitted = 0 /\ s'.consumed = 0
            /\ (s'.failed <=> bad = "signal") /\ (e'.cancel <=> e.cancel \/ bad = "signal")
            /\ bad = "signal" => o'.pc = "idle" /\ o'.ret = "IO"
            /\ bad # "signal" => o'.pc = "answer" /\ o'.control = "CLEAR" /\ o'.ret = o.ret
  <2>1. CASE Refused(bad)
    <3>1. /\ o' = [o EXCEPT !.pc = "idle", !.op = "clear", !.ret = "IO"] /\ s' = s /\ e' = e
          /\ d' = d
      BY <1>4, <2>1
    <3>2. o' \in OType /\ o'.op = "clear" /\ o'.lost = o.lost /\ o'.pc = "idle" /\ o'.ret = "IO"
      BY <1>2, <3>1 DEF OType, OwnerPcs, Operations, Statuses
    <3> QED BY <1>2, <2>1, <3>1, <3>2 DEF Refused
  <2>2. CASE ~Refused(bad)
    <3>1. /\ Ask("clear", "CLEAR", Cleared, bad)
          /\ d' = [d EXCEPT !.interruption = TRUE, !.gained = d.gained]
      BY <1>4, <2>2
    <3>2. d' \in DType /\ d'.buffer = d.buffer /\ d'.submitted = d.submitted
      BY <1>2, <3>1 DEF DType
    <3>3. ~s.failed
      BY <2>2 DEF Refused
    <3>4. PICK b \in BOOLEAN : b = (bad = "signal")
      OBVIOUS
    <3>5. /\ s' \in SType /\ s'.control = "CLEAR" /\ s'.failed = b
          /\ s'.head = 0 /\ s'.count = 0 /\ s'.epoch = s.epoch + 1 /\ s'.accepted = 0
          /\ s'.submitted = 0 /\ s'.consumed = 0
      <4>1. PICK p \in 0..MaxEpoch : p = s.epoch + 1
        BY <1>1, <1>3, Scalars, Constants
      <4>2. 0 \in Slots /\ 0 \in 0..Capacity /\ 0 \in 0..MaxFrames
        BY Constants DEF Slots
      <4>3. PICK z \in Slots : z = 0 /\ z \in 0..Capacity /\ z \in 0..MaxFrames
        BY <4>2
      <4>4. s' = [s EXCEPT !.head = z, !.count = z, !.epoch = p, !.accepted = z, !.submitted = z,
                    !.consumed = z, !.control = "CLEAR", !.failed = b]
        BY <1>2, <3>1, <3>4, <4>1, <4>3 DEF Ask, Cleared, SType
      <4>5. /\ s' \in SType /\ s'.control = "CLEAR" /\ s'.failed = b
            /\ s'.head = z /\ s'.count = z /\ s'.epoch = p /\ s'.accepted = z
            /\ s'.submitted = z /\ s'.consumed = z
        BY <1>2, <4>3, <4>4 DEF SType, Controls
      <4> QED BY <4>1, <4>3, <4>5
    <3>6. e' \in EType /\ ~e'.done /\ (e'.cancel <=> e.cancel \/ bad = "signal")
      BY <1>2, <3>1 DEF Ask, EType
    <3>7. CASE bad = "signal"
      <4>1. o' = [o EXCEPT !.pc = "idle", !.op = "clear", !.ret = "IO"]
        BY <3>1, <3>7 DEF Ask
      <4>2. o' \in OType /\ o'.op = "clear" /\ o'.lost = o.lost /\ o'.pc = "idle" /\ o'.ret = "IO"
        BY <1>2, <4>1 DEF OType, OwnerPcs, Operations, Statuses
      <4> QED BY <1>2, <3>2, <3>3, <3>4, <3>5, <3>6, <3>7, <4>2 DEF EndpointFits
    <3>8. CASE bad # "signal"
      <4>1. o' = [o EXCEPT !.pc = "answer", !.op = "clear", !.control = "CLEAR"]
        BY <3>1, <3>8 DEF Ask
      <4>2. /\ o' \in OType /\ o'.op = "clear" /\ o'.lost = o.lost /\ o'.pc = "answer"
            /\ o'.control = "CLEAR" /\ o'.ret = o.ret
        BY <1>2, <4>1 DEF OType, OwnerPcs, Operations, Controls
      <4> QED BY <1>2, <3>2, <3>3, <3>4, <3>5, <3>6, <3>8, <4>2 DEF EndpointFits
    <3> QED BY <3>7, <3>8
  <2> QED BY <2>1, <2>2
<1>7. /\ ring' = ring /\ w' = w /\ canceller' = canceller /\ cancels' = cancels
      /\ o.pc \in {"idle", "off"}
  BY DEF ClearStream, Calling, Request
<1>8. Typed'
  BY <1>2, <1>3, <1>5, <1>6, <1>7 DEF Typed
<1>9. Sound' => Sound
  BY <1>1, <1>3, <1>5, <1>6, <1>7 DEF Sound, CallShape
<1>10. /\ s.count \in Nat /\ s.accepted \in Nat /\ s.submitted \in Nat /\ s.consumed \in Nat
      /\ s.epoch \in Nat /\ w.gen \in Nat /\ w.accepted \in Nat /\ d.submitted \in Nat
      /\ Len(d.buffer) \in Nat /\ Len(w.batch) \in Nat /\ w.accepted <= Len(w.batch)
      /\ s.control \in Controls /\ w.control \in Controls /\ o.control \in Controls
      /\ w.after \in {"look", "commit"}
  BY <1>1, Numbers, Places
<1>11. CancelHasCause'
  BY <1>1, <1>3, <1>5, <1>6, <1>7, <1>9, <1>10 DEF CancelHasCause, CallShape
<1>12. CallShape'
  BY <1>1, <1>3, <1>5, <1>6, <1>7, <1>9, <1>10 DEF CallShape
<1>13. WorkerShape'
  BY <1>1, <1>3, <1>5, <1>6, <1>7, <1>9, <1>10 DEF WorkerShape, Holding, Controls
<1>14. Handshake'
  BY <1>1, <1>3, <1>5, <1>6, <1>7, <1>9, <1>10
     DEF Handshake, CallShape, WorkerShape, Sound, Relying, Clearing, Controls
<1>15. Done'
  BY <1>1, <1>3, <1>5, <1>6, <1>7, <1>9, <1>10 DEF Done, Handshake, CallShape, Did
<1>16. Fifo'
  <2>1. w.gen <= s.epoch /\ (Holding' <=> Holding)
    BY <1>1, <1>3, <1>5, <1>6, <1>7, <1>9, <1>10 DEF WorkerShape, Holding
  <2>2. CASE s' = s
    BY <1>1, <1>3, <1>5, <1>6, <1>7, <1>9, <1>10, <2>1, <2>2 DEF Fifo, Base
  <2>3. CASE s' # s
    <3>1. s'.count = 0 /\ s'.accepted = 0 /\ s'.epoch = s.epoch + 1
      BY <1>3, <1>5, <1>6, <1>7, <1>9, <1>10, <2>3
    <3>2. Queue(ring', s'.head, s'.count, s'.epoch, s'.accepted)
      BY <3>1 DEF Queue
    <3>3. w'.gen # s'.epoch
      BY <1>3, <1>5, <1>6, <1>7, <1>9, <1>10, <2>1, <3>1
    <3> QED BY <3>1, <3>2, <3>3 DEF Fifo
  <2> QED BY <2>2, <2>3
<1>17. Delivered'
  BY <1>1, <1>3, <1>5, <1>6, <1>7, <1>9, <1>10
     DEF Delivered, Handshake, CallShape, WorkerShape, Sound, Clearing, Base, Consumed
<1>18. NothingFails'
  BY <1>1, <1>3, <1>5, <1>6, <1>7, <1>9, <1>10
     DEF NothingFails, CallShape, WorkerShape, CancelHasCause, Sound
<1> QED BY <1>8, <1>11, <1>12, <1>13, <1>14, <1>15, <1>16, <1>17, <1>18 DEF IInv

\* A gain is asked for.
LEMMA SetGainInv ==
    ASSUME IInv, SetGain
    PROVE  IInv'
<1>1. /\ Typed /\ CancelHasCause /\ CallShape /\ WorkerShape
      /\ Handshake /\ Done /\ Fifo /\ Delivered /\ NothingFails
  BY DEF IInv
<1>2. /\ ring \in [Slots -> Frames] /\ s \in SType /\ e \in EType
      /\ d \in DType /\ EndpointFits(d) /\ w \in WType /\ BatchFits(w) /\ o \in OType
      /\ canceller \in {"in", "out"} /\ cancels \in Nat /\ natives \in Nat
  BY <1>1 DEF Typed
<1>3. /\ o.pc \in {"idle", "off"} /\ o.op # "destroy"
  <2>1. o.pc = "off" => o.op = "off" /\ s.epoch < MaxEpoch
    BY <1>1 DEF CallShape
  <2> QED BY <2>1 DEF SetGain, Calling
<1>4. PICK bad \in Failing({"native", "signal"}) :
        /\ Count(bad)
        /\ IF Refused(bad)
           THEN /\ s.failed => bad = "none"
                /\ o' = [o EXCEPT !.pc = "idle", !.op = "gain", !.ret = "IO"]
                /\ UNCHANGED <<s, e, d>>
           ELSE /\ Ask("gain", "GAIN", s, bad)
                /\ d' = [d EXCEPT !.interruption = TRUE, !.gained = FALSE]
  BY DEF SetGain, Calling, Request
<1>5. /\ natives' \in Nat /\ (natives' = 0 => natives = 0 /\ bad = "none")
      /\ bad \in {"none", "native", "signal"}
  BY <1>1, <1>4, Outcome
<1>6. /\ s' \in SType /\ e' \in EType /\ d' \in DType /\ EndpointFits(d') /\ o' \in OType
      /\ d'.buffer = d.buffer /\ d'.submitted = d.submitted
      /\ o'.op = "gain" /\ o'.lost = o.lost
      /\ \/ /\ s' = s /\ e' = e /\ d' = d /\ o'.pc = "idle" /\ o'.ret = "IO"
            /\ bad = "none" => s.failed
         \/ /\ ~s.failed /\ ~e'.done /\ s'.control = "GAIN"
            /\ KeepsProgress
            /\ (s'.failed <=> bad = "signal") /\ (e'.cancel <=> e.cancel \/ bad = "signal")
            /\ bad = "signal" => o'.pc = "idle" /\ o'.ret = "IO"
            /\ bad # "signal" => o'.pc = "answer" /\ o'.control = "GAIN" /\ o'.ret = o.ret
  <2>1. CASE Refused(bad)
    <3>1. o' = [o EXCEPT !.pc = "idle", !.op = "gain", !.ret = "IO"] /\ s' = s /\ e' = e /\ d' = d
      BY <1>4, <2>1
    <3>2. o' \in OType /\ o'.op = "gain" /\ o'.lost = o.lost /\ o'.pc = "idle" /\ o'.ret = "IO"
      BY <1>2, <3>1 DEF OType, OwnerPcs, Operations, Statuses
    <3> QED BY <1>2, <2>1, <3>1, <3>2 DEF Refused
  <2>2. CASE ~Refused(bad)
    <3>1. Ask("gain", "GAIN", s, bad) /\ d' = [d EXCEPT !.interruption = TRUE, !.gained = FALSE]
      BY <1>4, <2>2
    <3>2. d' \in DType /\ d'.buffer = d.buffer /\ d'.submitted = d.submitted
      BY <1>2, <3>1 DEF DType
    <3>3. ~s.failed
      BY <2>2 DEF Refused
    <3>4. PICK b \in BOOLEAN : b = (bad = "signal")
      OBVIOUS
    <3>5. /\ s' \in SType /\ s'.control = "GAIN" /\ s'.failed = b
          /\ KeepsProgress
      <4>1. s' = [s EXCEPT !.control = "GAIN", !.failed = b]
        BY <3>1, <3>4 DEF Ask
      <4> QED BY <1>2, <4>1 DEF SType, Controls, KeepsProgress
    <3>6. e' \in EType /\ ~e'.done /\ (e'.cancel <=> e.cancel \/ bad = "signal")
      BY <1>2, <3>1 DEF Ask, EType
    <3>7. CASE bad = "signal"
      <4>1. o' = [o EXCEPT !.pc = "idle", !.op = "gain", !.ret = "IO"]
        BY <3>1, <3>7 DEF Ask
      <4>2. o' \in OType /\ o'.op = "gain" /\ o'.lost = o.lost /\ o'.pc = "idle" /\ o'.ret = "IO"
        BY <1>2, <4>1 DEF OType, OwnerPcs, Operations, Statuses
      <4> QED BY <1>2, <3>2, <3>3, <3>4, <3>5, <3>6, <3>7, <4>2 DEF EndpointFits
    <3>8. CASE bad # "signal"
      <4>1. o' = [o EXCEPT !.pc = "answer", !.op = "gain", !.control = "GAIN"]
        BY <3>1, <3>8 DEF Ask
      <4>2. /\ o' \in OType /\ o'.op = "gain" /\ o'.lost = o.lost /\ o'.pc = "answer"
            /\ o'.control = "GAIN" /\ o'.ret = o.ret
        BY <1>2, <4>1 DEF OType, OwnerPcs, Operations, Controls
      <4> QED BY <1>2, <3>2, <3>3, <3>4, <3>5, <3>6, <3>8, <4>2 DEF EndpointFits
    <3> QED BY <3>7, <3>8
  <2> QED BY <2>1, <2>2
<1>7. /\ ring' = ring /\ w' = w /\ canceller' = canceller /\ cancels' = cancels
      /\ o.pc \in {"idle", "off"}
  BY DEF SetGain, Calling, Request
<1>8. Typed'
  BY <1>2, <1>3, <1>5, <1>6, <1>7 DEF Typed
<1>9. Sound' => Sound
  BY <1>1, <1>3, <1>5, <1>6, <1>7 DEF Sound, CallShape
<1>10. /\ s.count \in Nat /\ s.accepted \in Nat /\ s.submitted \in Nat /\ s.consumed \in Nat
      /\ s.epoch \in Nat /\ w.gen \in Nat /\ w.accepted \in Nat /\ d.submitted \in Nat
      /\ Len(d.buffer) \in Nat /\ Len(w.batch) \in Nat /\ w.accepted <= Len(w.batch)
      /\ s.control \in Controls /\ w.control \in Controls /\ o.control \in Controls
      /\ w.after \in {"look", "commit"}
  BY <1>1, Numbers, Places
<1>11. CancelHasCause'
  BY <1>1, <1>3, <1>5, <1>6, <1>7, <1>9, <1>10 DEF CancelHasCause, CallShape
<1>12. CallShape'
  BY <1>1, <1>3, <1>5, <1>6, <1>7, <1>9, <1>10 DEF CallShape, KeepsProgress
<1>13. WorkerShape'
  BY <1>1, <1>3, <1>5, <1>6, <1>7, <1>9, <1>10 DEF WorkerShape, Holding, KeepsProgress, Controls
<1>14. Handshake'
  BY <1>1, <1>3, <1>5, <1>6, <1>7, <1>9, <1>10
     DEF Handshake, CallShape, WorkerShape, Sound, Relying, Clearing, KeepsProgress, Controls
<1>15. Done'
  BY <1>1, <1>3, <1>5, <1>6, <1>7, <1>9, <1>10 DEF Done, Handshake, CallShape, Did
<1>16. Fifo'
  <2>1. w.gen <= s.epoch /\ (Holding' <=> Holding)
    BY <1>1, <1>3, <1>5, <1>6, <1>7, <1>9, <1>10 DEF WorkerShape, Holding
  <2>2. CASE s' = s
    BY <1>1, <1>3, <1>5, <1>6, <1>7, <1>9, <1>10, <2>1, <2>2 DEF Fifo, Base
  <2>3. CASE s' # s
    BY <1>1, <1>3, <1>5, <1>6, <1>7, <1>9, <1>10, <2>1, <2>3 DEF Fifo, Base, KeepsProgress
  <2> QED BY <2>2, <2>3
<1>17. Delivered'
  BY <1>1, <1>3, <1>5, <1>6, <1>7, <1>9, <1>10 DEF Delivered, Handshake, CallShape, WorkerShape,
     Sound, Clearing, Base, Consumed, KeepsProgress
<1>18. NothingFails'
  BY <1>1, <1>3, <1>5, <1>6, <1>7, <1>9, <1>10
     DEF NothingFails, CallShape, WorkerShape, CancelHasCause, Sound
<1> QED BY <1>8, <1>11, <1>12, <1>13, <1>14, <1>15, <1>16, <1>17, <1>18 DEF IInv

\* The clear of a deactivation is asked for.
LEMMA OffInv ==
    ASSUME IInv, Off
    PROVE  IInv'
<1>1. /\ Typed /\ CancelHasCause /\ CallShape /\ WorkerShape
      /\ Handshake /\ Done /\ Fifo /\ Delivered /\ NothingFails
  BY DEF IInv
<1>2. /\ ring \in [Slots -> Frames] /\ s \in SType /\ e \in EType
      /\ d \in DType /\ EndpointFits(d) /\ w \in WType /\ BatchFits(w) /\ o \in OType
      /\ canceller \in {"in", "out"} /\ cancels \in Nat /\ natives \in Nat
  BY <1>1 DEF Typed
<1>3. /\ o.pc \in {"idle", "off"} /\ o.op # "destroy"
      /\ s.epoch < MaxEpoch
  <2>1. o.pc = "off" => o.op = "off" /\ s.epoch < MaxEpoch
    BY <1>1 DEF CallShape
  <2> QED BY <2>1 DEF Off
<1>4. PICK bad \in Failing({"native", "signal"}) :
        /\ Count(bad)
        /\ IF Refused(bad)
           THEN /\ s.failed => bad = "none"
                /\ o' = [o EXCEPT !.pc = "idle", !.op = "off", !.ret = "IO"]
                /\ UNCHANGED <<s, e, d>>
           ELSE /\ Ask("off", "CLEAR", Cleared, bad)
                /\ d' = [d EXCEPT !.interruption = TRUE, !.gained = d.gained]
  BY DEF Off, Request
<1>5. /\ natives' \in Nat /\ (natives' = 0 => natives = 0 /\ bad = "none")
      /\ bad \in {"none", "native", "signal"}
  BY <1>1, <1>4, Outcome
<1>6. /\ s' \in SType /\ e' \in EType /\ d' \in DType /\ EndpointFits(d') /\ o' \in OType
      /\ d'.buffer = d.buffer /\ d'.submitted = d.submitted
      /\ o'.op = "off" /\ o'.lost = o.lost
      /\ \/ /\ s' = s /\ e' = e /\ d' = d /\ o'.pc = "idle" /\ o'.ret = "IO"
            /\ bad = "none" => s.failed
         \/ /\ ~s.failed /\ ~e'.done /\ s'.control = "CLEAR"
            /\ s'.head = 0 /\ s'.count = 0 /\ s'.epoch = s.epoch + 1 /\ s'.accepted = 0
            /\ s'.submitted = 0 /\ s'.consumed = 0
            /\ (s'.failed <=> bad = "signal") /\ (e'.cancel <=> e.cancel \/ bad = "signal")
            /\ bad = "signal" => o'.pc = "idle" /\ o'.ret = "IO"
            /\ bad # "signal" => o'.pc = "answer" /\ o'.control = "CLEAR" /\ o'.ret = o.ret
  <2>1. CASE Refused(bad)
    <3>1. o' = [o EXCEPT !.pc = "idle", !.op = "off", !.ret = "IO"] /\ s' = s /\ e' = e /\ d' = d
      BY <1>4, <2>1
    <3>2. o' \in OType /\ o'.op = "off" /\ o'.lost = o.lost /\ o'.pc = "idle" /\ o'.ret = "IO"
      BY <1>2, <3>1 DEF OType, OwnerPcs, Operations, Statuses
    <3> QED BY <1>2, <2>1, <3>1, <3>2 DEF Refused
  <2>2. CASE ~Refused(bad)
    <3>1. /\ Ask("off", "CLEAR", Cleared, bad)
          /\ d' = [d EXCEPT !.interruption = TRUE, !.gained = d.gained]
      BY <1>4, <2>2
    <3>2. d' \in DType /\ d'.buffer = d.buffer /\ d'.submitted = d.submitted
      BY <1>2, <3>1 DEF DType
    <3>3. ~s.failed
      BY <2>2 DEF Refused
    <3>4. PICK b \in BOOLEAN : b = (bad = "signal")
      OBVIOUS
    <3>5. /\ s' \in SType /\ s'.control = "CLEAR" /\ s'.failed = b
          /\ s'.head = 0 /\ s'.count = 0 /\ s'.epoch = s.epoch + 1 /\ s'.accepted = 0
          /\ s'.submitted = 0 /\ s'.consumed = 0
      <4>1. PICK p \in 0..MaxEpoch : p = s.epoch + 1
        BY <1>1, <1>3, Scalars, Constants
      <4>2. 0 \in Slots /\ 0 \in 0..Capacity /\ 0 \in 0..MaxFrames
        BY Constants DEF Slots
      <4>3. PICK z \in Slots : z = 0 /\ z \in 0..Capacity /\ z \in 0..MaxFrames
        BY <4>2
      <4>4. s' = [s EXCEPT !.head = z, !.count = z, !.epoch = p, !.accepted = z, !.submitted = z,
                    !.consumed = z, !.control = "CLEAR", !.failed = b]
        BY <1>2, <3>1, <3>4, <4>1, <4>3 DEF Ask, Cleared, SType
      <4>5. /\ s' \in SType /\ s'.control = "CLEAR" /\ s'.failed = b
            /\ s'.head = z /\ s'.count = z /\ s'.epoch = p /\ s'.accepted = z
            /\ s'.submitted = z /\ s'.consumed = z
        BY <1>2, <4>3, <4>4 DEF SType, Controls
      <4> QED BY <4>1, <4>3, <4>5
    <3>6. e' \in EType /\ ~e'.done /\ (e'.cancel <=> e.cancel \/ bad = "signal")
      BY <1>2, <3>1 DEF Ask, EType
    <3>7. CASE bad = "signal"
      <4>1. o' = [o EXCEPT !.pc = "idle", !.op = "off", !.ret = "IO"]
        BY <3>1, <3>7 DEF Ask
      <4>2. o' \in OType /\ o'.op = "off" /\ o'.lost = o.lost /\ o'.pc = "idle" /\ o'.ret = "IO"
        BY <1>2, <4>1 DEF OType, OwnerPcs, Operations, Statuses
      <4> QED BY <1>2, <3>2, <3>3, <3>4, <3>5, <3>6, <3>7, <4>2 DEF EndpointFits
    <3>8. CASE bad # "signal"
      <4>1. o' = [o EXCEPT !.pc = "answer", !.op = "off", !.control = "CLEAR"]
        BY <3>1, <3>8 DEF Ask
      <4>2. /\ o' \in OType /\ o'.op = "off" /\ o'.lost = o.lost /\ o'.pc = "answer"
            /\ o'.control = "CLEAR" /\ o'.ret = o.ret
        BY <1>2, <4>1 DEF OType, OwnerPcs, Operations, Controls
      <4> QED BY <1>2, <3>2, <3>3, <3>4, <3>5, <3>6, <3>8, <4>2 DEF EndpointFits
    <3> QED BY <3>7, <3>8
  <2> QED BY <2>1, <2>2
<1>7. ring' = ring /\ w' = w /\ canceller' = canceller /\ cancels' = cancels
  BY DEF Off, Request
<1>8. Typed'
  BY <1>2, <1>3, <1>5, <1>6, <1>7 DEF Typed
<1>9. Sound' => Sound
  BY <1>1, <1>3, <1>5, <1>6, <1>7 DEF Sound, CallShape
<1>10. /\ s.count \in Nat /\ s.accepted \in Nat /\ s.submitted \in Nat /\ s.consumed \in Nat
      /\ s.epoch \in Nat /\ w.gen \in Nat /\ w.accepted \in Nat /\ d.submitted \in Nat
      /\ Len(d.buffer) \in Nat /\ Len(w.batch) \in Nat /\ w.accepted <= Len(w.batch)
      /\ s.control \in Controls /\ w.control \in Controls /\ o.control \in Controls
      /\ w.after \in {"look", "commit"}
  BY <1>1, Numbers, Places
<1>11. CancelHasCause'
  BY <1>1, <1>3, <1>5, <1>6, <1>7, <1>9, <1>10 DEF CancelHasCause, CallShape
<1>12. CallShape'
  BY <1>1, <1>3, <1>5, <1>6, <1>7, <1>9, <1>10 DEF CallShape
<1>13. WorkerShape'
  BY <1>1, <1>3, <1>5, <1>6, <1>7, <1>9, <1>10 DEF WorkerShape, Holding, Controls
<1>14. Handshake'
  BY <1>1, <1>3, <1>5, <1>6, <1>7, <1>9, <1>10
     DEF Handshake, CallShape, WorkerShape, Sound, Relying, Clearing, Controls
<1>15. Done'
  BY <1>1, <1>3, <1>5, <1>6, <1>7, <1>9, <1>10 DEF Done, Handshake, CallShape, Did
<1>16. Fifo'
  <2>1. w.gen <= s.epoch /\ (Holding' <=> Holding)
    BY <1>1, <1>3, <1>5, <1>6, <1>7, <1>9, <1>10 DEF WorkerShape, Holding
  <2>2. CASE s' = s
    BY <1>1, <1>3, <1>5, <1>6, <1>7, <1>9, <1>10, <2>1, <2>2 DEF Fifo, Base
  <2>3. CASE s' # s
    <3>1. s'.count = 0 /\ s'.accepted = 0 /\ s'.epoch = s.epoch + 1
      BY <1>3, <1>5, <1>6, <1>7, <1>9, <1>10, <2>3
    <3>2. Queue(ring', s'.head, s'.count, s'.epoch, s'.accepted)
      BY <3>1 DEF Queue
    <3>3. w'.gen # s'.epoch
      BY <1>3, <1>5, <1>6, <1>7, <1>9, <1>10, <2>1, <3>1
    <3> QED BY <3>1, <3>2, <3>3 DEF Fifo
  <2> QED BY <2>2, <2>3
<1>17. Delivered'
  BY <1>1, <1>3, <1>5, <1>6, <1>7, <1>9, <1>10
     DEF Delivered, Handshake, CallShape, WorkerShape, Sound, Clearing, Base, Consumed
<1>18. NothingFails'
  BY <1>1, <1>3, <1>5, <1>6, <1>7, <1>9, <1>10
     DEF NothingFails, CallShape, WorkerShape, CancelHasCause, Sound
<1> QED BY <1>8, <1>11, <1>12, <1>13, <1>14, <1>15, <1>16, <1>17, <1>18 DEF IInv

\* A flush is asked for, or has nothing to wait for.
LEMMA FlushInv ==
    ASSUME IInv, NEW op \in {"flush", "off"}, Flush(op)
    PROVE  IInv'
<1>1. /\ Typed /\ CancelHasCause /\ CallShape /\ WorkerShape
      /\ Handshake /\ Done /\ Fifo /\ Delivered /\ NothingFails
  BY DEF IInv
<1>2. /\ ring \in [Slots -> Frames] /\ s \in SType /\ e \in EType
      /\ d \in DType /\ EndpointFits(d) /\ w \in WType /\ BatchFits(w) /\ o \in OType
      /\ canceller \in {"in", "out"} /\ cancels \in Nat /\ natives \in Nat
  BY <1>1 DEF Typed
<1>3. /\ o.pc = "idle" /\ o.op # "destroy" /\ w.pc # "attach"
      /\ op = "off" => ~s.failed /\ s.active /\ s.epoch < MaxEpoch
  <2>1. /\ o.pc = "idle" /\ o.op # "destroy"
        /\ op = "off" => ~s.failed /\ s.active /\ s.epoch < MaxEpoch
    BY DEF Flush, Calling
  <2> QED BY <1>1, <2>1 DEF CallShape
<1>4. PICK bad \in Failing({"native", "signal"}) :
        /\ Count(bad)
        /\ IF Refused(bad) \/ ~s.active \/ s.count = 0
           THEN /\ s.failed \/ ~s.active \/ s.count = 0 => bad = "none"
                /\ o' = [o EXCEPT !.op = op,
                            !.pc = IF op = "off" /\ bad = "none" THEN "off" ELSE "idle",
                            !.ret = IF Refused(bad) THEN "IO"
                                    ELSE IF ~s.active THEN "INVALID" ELSE "OK"]
                /\ UNCHANGED <<s, e>>
           ELSE Ask(op, "FLUSH", s, bad)
  BY DEF Flush
<1>5. /\ natives' \in Nat /\ (natives' = 0 => natives = 0 /\ bad = "none")
      /\ bad \in {"none", "native", "signal"}
  BY <1>1, <1>4, Outcome
<1>6. /\ s' \in SType /\ e' \in EType /\ o' \in OType /\ KeepsProgress
      /\ o'.op = op /\ o'.lost = o.lost
      /\ \/ /\ s' = s /\ e' = e /\ (o'.ret = "IO" => s.failed \/ bad # "none")
            /\ o'.pc = "idle" \/ (o'.pc = "off" /\ op = "off")
            /\ o'.pc = "idle" /\ o'.ret = "OK" => op = "flush" /\ s.count = 0
         \/ /\ ~s.failed /\ ~e'.done /\ s'.control = "FLUSH"
            /\ (s'.failed <=> bad = "signal") /\ (e'.cancel <=> e.cancel \/ bad = "signal")
            /\ bad = "signal" => o'.pc = "idle" /\ o'.ret = "IO"
            /\ bad # "signal" => o'.pc = "answer" /\ o'.control = "FLUSH" /\ o'.ret = o.ret
  <2>1. CASE Refused(bad) \/ ~s.active \/ s.count = 0
    <3>1. PICK pc \in {"off", "idle"}, v \in Statuses :
            /\ pc = IF op = "off" /\ bad = "none" THEN "off" ELSE "idle"
            /\ v = IF Refused(bad) THEN "IO" ELSE IF ~s.active THEN "INVALID" ELSE "OK"
      BY DEF Statuses
    <3>2. o' = [o EXCEPT !.op = op, !.pc = pc, !.ret = v] /\ s' = s /\ e' = e
      BY <1>4, <2>1, <3>1
    <3>3. o' \in OType /\ o'.op = op /\ o'.lost = o.lost /\ o'.pc = pc /\ o'.ret = v
      BY <1>2, <3>2 DEF OType, OwnerPcs, Operations
    <3>4. /\ v = "IO" => s.failed \/ bad # "none"
          /\ pc = "idle" \/ op = "off"
      BY <3>1 DEF Refused
    <3>5. pc = "idle" /\ v = "OK" => op = "flush" /\ s.count = 0
      BY <1>3, <1>4, <1>5, <2>1, <3>1 DEF Refused
    <3>6. KeepsProgress
      BY <3>2 DEF KeepsProgress
    <3> QED BY <1>2, <3>1, <3>2, <3>3, <3>4, <3>5, <3>6
  <2>2. CASE ~(Refused(bad) \/ ~s.active \/ s.count = 0)
    <3>1. Ask(op, "FLUSH", s, bad)
      BY <1>4, <2>2
    <3>3. ~s.failed
      BY <2>2 DEF Refused
    <3>4. PICK b \in BOOLEAN : b = (bad = "signal")
      OBVIOUS
    <3>5. s' \in SType /\ s'.control = "FLUSH" /\ s'.failed = b /\ KeepsProgress
      <4>1. s' = [s EXCEPT !.control = "FLUSH", !.failed = b]
        BY <3>1, <3>4 DEF Ask
      <4> QED BY <1>2, <4>1 DEF SType, Controls, KeepsProgress
    <3>6. e' \in EType /\ ~e'.done /\ (e'.cancel <=> e.cancel \/ bad = "signal")
      BY <1>2, <3>1 DEF Ask, EType
    <3>7. CASE bad = "signal"
      <4>1. o' = [o EXCEPT !.pc = "idle", !.op = op, !.ret = "IO"]
        BY <3>1, <3>7 DEF Ask
      <4>2. o' \in OType /\ o'.op = op /\ o'.lost = o.lost /\ o'.pc = "idle" /\ o'.ret = "IO"
        BY <1>2, <4>1 DEF OType, OwnerPcs, Operations, Statuses
      <4> QED BY <3>3, <3>4, <3>5, <3>6, <3>7, <4>2
    <3>8. CASE bad # "signal"
      <4>1. o' = [o EXCEPT !.pc = "answer", !.op = op, !.control = "FLUSH"]
        BY <3>1, <3>8 DEF Ask
      <4>2. /\ o' \in OType /\ o'.op = op /\ o'.lost = o.lost /\ o'.pc = "answer"
            /\ o'.control = "FLUSH" /\ o'.ret = o.ret
        BY <1>2, <4>1 DEF OType, OwnerPcs, Operations, Controls
      <4> QED BY <3>3, <3>4, <3>5, <3>6, <3>8, <4>2
    <3> QED BY <3>7, <3>8
  <2> QED BY <2>1, <2>2
<1>7. op \in {"flush", "off"} /\ ring' = ring /\ d' = d /\ w' = w /\ canceller' = canceller
      /\ cancels' = cancels
  BY DEF Flush
<1>8. Typed'
  BY <1>2, <1>3, <1>5, <1>6, <1>7 DEF Typed
<1>9. Sound' => Sound
  BY <1>1, <1>3, <1>5, <1>6, <1>7 DEF Sound, CallShape
<1>10. /\ s.count \in Nat /\ s.accepted \in Nat /\ s.submitted \in Nat /\ s.consumed \in Nat
      /\ s.epoch \in Nat /\ w.gen \in Nat /\ w.accepted \in Nat /\ d.submitted \in Nat
      /\ Len(d.buffer) \in Nat /\ Len(w.batch) \in Nat /\ w.accepted <= Len(w.batch)
      /\ s.control \in Controls /\ w.control \in Controls /\ o.control \in Controls
      /\ w.after \in {"look", "commit"}
  BY <1>1, Numbers, Places
<1>11. CancelHasCause'
  BY <1>1, <1>3, <1>5, <1>6, <1>7, <1>9, <1>10 DEF CancelHasCause, CallShape
<1>12. CallShape'
  BY <1>1, <1>3, <1>5, <1>6, <1>7, <1>9, <1>10 DEF CallShape, KeepsProgress
<1>13. WorkerShape'
  BY <1>1, <1>3, <1>5, <1>6, <1>7, <1>9, <1>10 DEF WorkerShape, Holding, KeepsProgress, Controls
<1>14. Handshake'
  BY <1>1, <1>3, <1>5, <1>6, <1>7, <1>9, <1>10
     DEF Handshake, CallShape, WorkerShape, Sound, Relying, Clearing, KeepsProgress, Controls
<1>15. Done'
  <2>1. Sound' => s.control = "NONE" /\ w.control = "NONE" /\ ~e.cancel /\ w.pc # "ended"
    BY <1>1, <1>3, <1>5, <1>6, <1>7, <1>9, <1>10 DEF Handshake, CancelHasCause, CallShape, Sound
  <2>2. Sound' /\ s.count = 0 => w.accepted = 0
    <3>1. Holding => Relying
      BY DEF Holding, Relying
    <3>2. Sound' /\ Holding => Len(w.batch) <= s.count
      BY <1>1, <1>3, <1>5, <1>6, <1>7, <1>9, <1>10, <2>1, <3>1 DEF Handshake, Fifo
    <3> QED BY <1>1, <1>10, <3>2 DEF WorkerShape
  <2>3. Sound' => d.submitted = Base + w.accepted
    BY <1>1, <1>3, <1>5, <1>6, <1>7, <1>9, <1>10, <2>1 DEF Delivered, Clearing
  <2>4. Sound' /\ s.count = 0 => d.submitted = s.accepted
    BY <1>10, <2>2, <2>3 DEF Base
  <2>5. Sound' /\ o'.pc = "idle" /\ o'.ret = "OK" => s' = s /\ op = "flush" /\ s.count = 0
    BY <1>3, <1>5, <1>6, <1>7, <1>9, <1>10 DEF Sound
  <2>6. Sound' /\ o'.pc = "idle" /\ o'.ret = "OK" => Did("FLUSH")'
    BY <1>3, <1>5, <1>6, <1>7, <1>9, <1>10, <2>4, <2>5 DEF Did
  <2>7. ~(o'.pc = "answer" /\ e'.done) /\ o'.pc \notin {"settle", "store"}
    BY <1>3, <1>5, <1>6, <1>7, <1>9, <1>10
  <2> QED BY <1>3, <1>5, <1>6, <1>7, <1>9, <1>10, <2>5, <2>6, <2>7 DEF Done
<1>16. Fifo'
  BY <1>1, <1>3, <1>5, <1>6, <1>7, <1>9, <1>10 DEF Fifo, WorkerShape, Holding, Base, KeepsProgress
<1>17. Delivered'
  BY <1>1, <1>3, <1>5, <1>6, <1>7, <1>9, <1>10 DEF Delivered, Handshake, CallShape, WorkerShape,
     Sound, Clearing, Base, Consumed, KeepsProgress
<1>18. NothingFails'
  BY <1>1, <1>3, <1>5, <1>6, <1>7, <1>9, <1>10
     DEF NothingFails, CallShape, WorkerShape, CancelHasCause, Sound
<1> QED BY <1>8, <1>11, <1>12, <1>13, <1>14, <1>15, <1>16, <1>17, <1>18 DEF IInv

\* The owner's wait for the worker's answer ends.
LEMMA AnsweredInv ==
    ASSUME IInv, Answered
    PROVE  IInv'
<1>1. /\ Typed /\ CancelHasCause /\ CallShape /\ WorkerShape
      /\ Handshake /\ Done /\ Fifo /\ Delivered /\ NothingFails
  BY DEF IInv
<1>2. /\ ring \in [Slots -> Frames] /\ s \in SType /\ e \in EType
      /\ d \in DType /\ EndpointFits(d) /\ w \in WType /\ BatchFits(w) /\ o \in OType
      /\ canceller \in {"in", "out"} /\ cancels \in Nat /\ natives \in Nat
  BY <1>1 DEF Typed
<1>3. \/ /\ e.cancel /\ o' = [o EXCEPT !.pc = "settle", !.signaled = FALSE, !.lost = ~e.cancel]
         /\ e' = e /\ natives' = natives
      \/ /\ ~e.cancel /\ e.done /\ e' = [e EXCEPT !["done"] = FALSE] /\ natives' = natives
         /\ o' = [o EXCEPT !.pc = "settle", !.signaled = TRUE]
      \/ /\ ~e.cancel /\ Count("wait") /\ e' = e
         /\ o' = [o EXCEPT !.pc = "settle", !.signaled = FALSE, !.lost = ~e.cancel]
  BY DEF Answered, WaitWorker
<1>4. /\ natives' \in Nat /\ (natives' = 0 => natives = 0)
  BY <1>2, <1>3 DEF Count
<1>5. /\ o' \in OType /\ o'.pc = "settle" /\ o'.op = o.op /\ o'.control = o.control
      /\ o'.ret = o.ret
      /\ e' \in EType /\ e'.cancel = e.cancel /\ o.pc = "answer"
      /\ \/ e.cancel /\ e' = e /\ ~o'.signaled /\ ~o'.lost
         \/ e.done /\ ~e'.done /\ o'.signaled /\ o'.lost = o.lost
         \/ ~e.cancel /\ natives' # 0 /\ e' = e /\ ~o'.signaled /\ o'.lost
  <2>1. CASE /\ e.cancel /\ o' = [o EXCEPT !.pc = "settle", !.signaled = FALSE, !.lost = ~e.cancel]
             /\ e' = e
    <3>1. o' = [o EXCEPT !.pc = "settle", !.signaled = FALSE, !.lost = FALSE]
      BY <2>1
    <3> QED BY <1>2, <2>1, <3>1 DEF OType, OwnerPcs, Answered
  <2>2. CASE /\ e.done /\ e' = [e EXCEPT !["done"] = FALSE]
             /\ o' = [o EXCEPT !.pc = "settle", !.signaled = TRUE]
    <3>1. e' \in EType /\ e'.cancel = e.cancel /\ ~e'.done
      BY <1>2, <2>2 DEF EType
    <3> QED BY <1>2, <2>2, <3>1 DEF OType, OwnerPcs, Answered
  <2>3. CASE /\ ~e.cancel /\ Count("wait") /\ e' = e
             /\ o' = [o EXCEPT !.pc = "settle", !.signaled = FALSE, !.lost = ~e.cancel]
    <3>1. o' = [o EXCEPT !.pc = "settle", !.signaled = FALSE, !.lost = TRUE]
      BY <2>3
    <3>2. natives' # 0
      BY <1>2, <2>3 DEF Count
    <3> QED BY <1>2, <2>3, <3>1, <3>2 DEF OType, OwnerPcs, Answered
  <2> QED BY <1>3, <2>1, <2>2, <2>3
<1>6. /\ ring' = ring /\ s' = s /\ d' = d /\ w' = w /\ canceller' = canceller
      /\ cancels' = cancels
      /\ o.pc = "answer"
  BY DEF Answered
<1>7. Typed'
  BY <1>2, <1>4, <1>5, <1>6 DEF Typed
<1>8. Sound' => Sound
  BY <1>1, <1>4, <1>5, <1>6 DEF Sound, CallShape, CancelHasCause
<1>9. /\ s.count \in Nat /\ s.accepted \in Nat /\ s.submitted \in Nat /\ s.consumed \in Nat
      /\ s.epoch \in Nat /\ w.gen \in Nat /\ w.accepted \in Nat /\ d.submitted \in Nat
      /\ Len(d.buffer) \in Nat /\ Len(w.batch) \in Nat /\ w.accepted <= Len(w.batch)
      /\ s.control \in Controls /\ w.control \in Controls /\ o.control \in Controls
      /\ w.after \in {"look", "commit"}
  BY <1>1, Numbers, Places
<1>10. CancelHasCause'
  BY <1>1, <1>4, <1>5, <1>6, <1>8, <1>9 DEF CancelHasCause, CallShape
<1>11. CallShape'
  BY <1>1, <1>4, <1>5, <1>6, <1>8, <1>9 DEF CallShape
<1>12. WorkerShape'
  BY <1>1, <1>4, <1>5, <1>6, <1>8, <1>9 DEF WorkerShape, Holding, Controls
<1>13. Handshake'
  BY <1>1, <1>4, <1>5, <1>6, <1>8, <1>9 DEF Handshake, CallShape, WorkerShape, CancelHasCause,
     Sound, Relying, Clearing
<1>14. Done'
  BY <1>1, <1>4, <1>5, <1>6, <1>8, <1>9 DEF Done, Handshake, CallShape, WorkerShape, Sound, Did
<1>15. Fifo'
  BY <1>1, <1>4, <1>5, <1>6, <1>8, <1>9 DEF Fifo, WorkerShape, Holding, Base
<1>16. Delivered'
  BY <1>1, <1>4, <1>5, <1>6, <1>8, <1>9 DEF Delivered, Handshake, CallShape, WorkerShape, Sound,
     Clearing, Base, Consumed
<1>17. NothingFails'
  BY <1>1, <1>4, <1>5, <1>6, <1>8, <1>9 DEF NothingFails, CallShape, WorkerShape,
     CancelHasCause, Sound
<1> QED BY <1>7, <1>10, <1>11, <1>12, <1>13, <1>14, <1>15, <1>16, <1>17 DEF IInv

\* The owner settles its request.
LEMMA SettleInv ==
    ASSUME IInv, Settle
    PROVE  IInv'
<1>1. /\ Typed /\ CancelHasCause /\ CallShape /\ WorkerShape
      /\ Handshake /\ Done /\ Fifo /\ Delivered /\ NothingFails
  BY DEF IInv
<1>2. /\ ring \in [Slots -> Frames] /\ s \in SType /\ e \in EType
      /\ d \in DType /\ EndpointFits(d) /\ w \in WType /\ BatchFits(w) /\ o \in OType
      /\ canceller \in {"in", "out"} /\ cancels \in Nat /\ natives \in Nat
  BY <1>1 DEF Typed
<1>3. PICK bad \in Failing({"signal"}) :
        /\ Count(bad)
        /\ bad # "none" => (~s.failed /\ o.signaled) /\ o.control = "CLEAR"
        /\ s' = [s EXCEPT !.failed = @ \/ bad # "none"]
        /\ e' = [e EXCEPT !.cancel = @ \/ bad # "none",
                   !.space = @ \/ (((~s.failed /\ o.signaled) /\ o.control = "CLEAR") /\ bad = "none")]
        /\ o' = [o EXCEPT !.control = "NONE", !.signaled = FALSE,
                   !.ret = IF (~s.failed /\ o.signaled) /\ bad = "none" THEN "OK" ELSE "IO",
                   !.pc = IF ~(~s.failed /\ o.signaled) \/ bad # "none" \/ o.op # "off" THEN "idle"
                          ELSE IF o.control = "FLUSH" THEN "off" ELSE "store"]
  BY DEF Settle
<1>4. /\ natives' \in Nat /\ (natives' = 0 => natives = 0 /\ bad = "none")
      /\ bad \in {"none", "signal"}
  BY <1>1, <1>3, Outcome
<1>5. /\ s' \in SType /\ KeepsProgress /\ s'.control = s.control
      /\ s'.failed <=> s.failed \/ bad # "none"
  BY <1>2, <1>3 DEF SType, KeepsProgress
<1>6. /\ e' \in EType /\ e'.done = e.done
      /\ e'.cancel <=> e.cancel \/ bad # "none"
  BY <1>2, <1>3 DEF EType
<1>7. /\ o' \in OType /\ o'.op = o.op /\ o'.control = "NONE" /\ o'.lost = o.lost
      /\ o'.ret = "OK" => ~s.failed /\ o.signaled /\ bad = "none"
      /\ o'.ret = "IO" => s.failed \/ ~o.signaled \/ bad # "none"
      /\ o'.pc \in {"idle", "off", "store"} /\ (o'.pc # "idle" => o.op = "off" /\ o.signaled)
      /\ (o'.pc = "off" => o.control = "FLUSH") /\ (o'.pc = "store" => o.control # "FLUSH")
      /\ o'.pc = "idle" /\ o'.ret = "OK" => o.op # "off"
  <2>1. PICK v \in {"OK", "IO"} : v = IF (~s.failed /\ o.signaled) /\ bad = "none" THEN "OK" ELSE "IO"
    OBVIOUS
  <2>2. PICK pc \in {"idle", "off", "store"} :
          pc = IF ~(~s.failed /\ o.signaled) \/ bad # "none" \/ o.op # "off" THEN "idle"
               ELSE IF o.control = "FLUSH" THEN "off" ELSE "store"
    OBVIOUS
  <2>3. o' = [o EXCEPT !.control = "NONE", !.signaled = FALSE, !.ret = v, !.pc = pc]
    BY <1>3, <2>1, <2>2
  <2>4. /\ o' \in OType /\ o'.op = o.op /\ o'.control = "NONE" /\ o'.lost = o.lost
        /\ o'.ret = v /\ o'.pc = pc
    BY <1>2, <2>3 DEF OType, OwnerPcs, Statuses, Controls
  <2> QED BY <2>1, <2>2, <2>4
<1>8. /\ ring' = ring /\ d' = d /\ w' = w /\ canceller' = canceller /\ cancels' = cancels
      /\ o.pc = "settle"
  BY DEF Settle
<1>9. Typed'
  BY <1>2, <1>4, <1>5, <1>6, <1>7, <1>8 DEF Typed
<1>10. Sound' => Sound
  BY <1>1, <1>4, <1>5, <1>6, <1>7, <1>8 DEF Sound, CallShape
<1>11. /\ s.count \in Nat /\ s.accepted \in Nat /\ s.submitted \in Nat /\ s.consumed \in Nat
      /\ s.epoch \in Nat /\ w.gen \in Nat /\ w.accepted \in Nat /\ d.submitted \in Nat
      /\ Len(d.buffer) \in Nat /\ Len(w.batch) \in Nat /\ w.accepted <= Len(w.batch)
      /\ s.control \in Controls /\ w.control \in Controls /\ o.control \in Controls
      /\ w.after \in {"look", "commit"}
  BY <1>1, Numbers, Places
<1>12. CancelHasCause'
  BY <1>1, <1>4, <1>5, <1>6, <1>7, <1>8, <1>10, <1>11 DEF CancelHasCause, CallShape
<1>13. CallShape'
  BY <1>1, <1>4, <1>5, <1>6, <1>7, <1>8, <1>10, <1>11 DEF CallShape, KeepsProgress
<1>14. WorkerShape'
  BY <1>1, <1>4, <1>5, <1>6, <1>7, <1>8, <1>10, <1>11
     DEF WorkerShape, Holding, KeepsProgress, Controls
<1>15. Handshake'
  BY <1>1, <1>4, <1>5, <1>6, <1>7, <1>8, <1>10, <1>11
     DEF Handshake, CallShape, WorkerShape, Sound, Relying, Clearing, KeepsProgress, Controls
<1>16. Done'
  <2>1. /\ o.op = "flush" => o.control = "FLUSH"
        /\ o.op = "clear" => o.control = "CLEAR"
        /\ o.op = "gain" => o.control = "GAIN"
        /\ o.op = "off" => o.control \in {"FLUSH", "CLEAR"}
    BY <1>1, <1>4, <1>5, <1>6, <1>7, <1>8, <1>10, <1>11 DEF CallShape
  <2>2. Sound' /\ o.signaled => Did(o.control)
    BY <1>1, <1>4, <1>5, <1>6, <1>7, <1>8, <1>10, <1>11 DEF Done
  <2>7. PICK c : c = o.control
    OBVIOUS
  <2>3. Sound' /\ o.signaled => Did(c)'
    BY <1>4, <1>5, <1>6, <1>7, <1>8, <1>10, <1>11, <2>2, <2>7 DEF Did, KeepsProgress
  <2>4. Sound' /\ o'.pc = "store" => Did("CLEAR")'
    BY <1>4, <1>5, <1>6, <1>7, <1>8, <1>10, <1>11, <2>1, <2>3, <2>7 DEF Did
  <2>5. Sound' /\ o'.pc = "idle" /\ o'.ret = "OK" =>
          /\ o.op = "flush" => Did("FLUSH")'
          /\ o.op \in {"clear", "off"} => Did("CLEAR")'
          /\ o.op = "gain" => Did("GAIN")'
    BY <1>4, <1>5, <1>6, <1>7, <1>8, <1>10, <1>11, <2>1, <2>3, <2>7 DEF Did
  <2>6. o'.pc \notin {"answer", "settle"} /\ o'.op = o.op
    BY <1>4, <1>5, <1>6, <1>7, <1>8, <1>10, <1>11
  <2> QED BY <2>4, <2>5, <2>6 DEF Done
<1>17. Fifo'
  BY <1>1, <1>4, <1>5, <1>6, <1>7, <1>8, <1>10, <1>11
     DEF Fifo, WorkerShape, Holding, Base, KeepsProgress
<1>18. Delivered'
  BY <1>1, <1>4, <1>5, <1>6, <1>7, <1>8, <1>10, <1>11 DEF Delivered, Handshake, CallShape,
     WorkerShape, Sound, Clearing, Base, Consumed, KeepsProgress
<1>19. NothingFails'
  BY <1>1, <1>4, <1>5, <1>6, <1>7, <1>8, <1>10, <1>11
     DEF NothingFails, CallShape, WorkerShape, CancelHasCause, Sound
<1> QED BY <1>9, <1>12, <1>13, <1>14, <1>15, <1>16, <1>17, <1>18, <1>19 DEF IInv

\* The stream is inactive.
LEMMA StoreInv ==
    ASSUME IInv, Store
    PROVE  IInv'
<1>1. /\ Typed /\ CancelHasCause /\ CallShape /\ WorkerShape
      /\ Handshake /\ Done /\ Fifo /\ Delivered /\ NothingFails
  BY DEF IInv
<1>2. /\ ring \in [Slots -> Frames] /\ s \in SType /\ e \in EType
      /\ d \in DType /\ EndpointFits(d) /\ w \in WType /\ BatchFits(w) /\ o \in OType
      /\ canceller \in {"in", "out"} /\ cancels \in Nat /\ natives \in Nat
  BY <1>1 DEF Typed
<1>3. /\ s' = [s EXCEPT !.active = FALSE] /\ o' = [o EXCEPT !.pc = "idle", !.ret = "OK"]
  BY DEF Store, Return
<1>4. /\ s' \in SType /\ KeepsProgress /\ s'.control = s.control /\ s'.failed = s.failed
  BY <1>2, <1>3 DEF SType, KeepsProgress
<1>5. /\ o' \in OType /\ o'.op = o.op /\ o'.control = o.control /\ o'.lost = o.lost
      /\ o'.pc = "idle" /\ o'.ret = "OK"
  BY <1>2, <1>3 DEF OType, OwnerPcs, Statuses
<1>6. /\ ring' = ring /\ e' = e /\ d' = d /\ w' = w /\ canceller' = canceller
      /\ cancels' = cancels /\ natives' = natives
      /\ o.pc = "store"
  BY DEF Store
<1>7. Typed'
  BY <1>2, <1>3, <1>4, <1>5, <1>6 DEF Typed
<1>8. Sound' => Sound
  BY <1>1, <1>3, <1>4, <1>5, <1>6 DEF Sound, CallShape
<1>9. /\ s.count \in Nat /\ s.accepted \in Nat /\ s.submitted \in Nat /\ s.consumed \in Nat
      /\ s.epoch \in Nat /\ w.gen \in Nat /\ w.accepted \in Nat /\ d.submitted \in Nat
      /\ Len(d.buffer) \in Nat /\ Len(w.batch) \in Nat /\ w.accepted <= Len(w.batch)
      /\ s.control \in Controls /\ w.control \in Controls /\ o.control \in Controls
      /\ w.after \in {"look", "commit"}
  BY <1>1, Numbers, Places
<1>10. CancelHasCause'
  BY <1>1, <1>3, <1>4, <1>5, <1>6, <1>8, <1>9 DEF CancelHasCause, CallShape
<1>11. CallShape'
  BY <1>1, <1>3, <1>4, <1>5, <1>6, <1>8, <1>9 DEF CallShape, KeepsProgress
<1>12. WorkerShape'
  BY <1>1, <1>3, <1>4, <1>5, <1>6, <1>8, <1>9 DEF WorkerShape, Holding, KeepsProgress, Controls
<1>13. Handshake'
  BY <1>1, <1>3, <1>4, <1>5, <1>6, <1>8, <1>9
     DEF Handshake, CallShape, WorkerShape, Sound, Relying, Clearing, KeepsProgress, Controls
<1>14. Done'
  BY <1>1, <1>3, <1>4, <1>5, <1>6, <1>8, <1>9
     DEF Done, Handshake, CallShape, WorkerShape, Sound, Did, KeepsProgress
<1>15. Fifo'
  BY <1>1, <1>3, <1>4, <1>5, <1>6, <1>8, <1>9 DEF Fifo, WorkerShape, Holding, Base, KeepsProgress
<1>16. Delivered'
  BY <1>1, <1>3, <1>4, <1>5, <1>6, <1>8, <1>9 DEF Delivered, Handshake, CallShape, WorkerShape,
     Sound, Clearing, Base, Consumed, KeepsProgress
<1>17. NothingFails'
  BY <1>1, <1>3, <1>4, <1>5, <1>6, <1>8, <1>9
     DEF NothingFails, CallShape, WorkerShape, CancelHasCause, Sound
<1> QED BY <1>7, <1>10, <1>11, <1>12, <1>13, <1>14, <1>15, <1>16, <1>17 DEF IInv

\* The stream is activated.
LEMMA OnInv ==
    ASSUME IInv, On
    PROVE  IInv'
<1>1. /\ Typed /\ CancelHasCause /\ CallShape /\ WorkerShape
      /\ Handshake /\ Done /\ Fifo /\ Delivered /\ NothingFails
  BY DEF IInv
<1>2. /\ ring \in [Slots -> Frames] /\ s \in SType /\ e \in EType
      /\ d \in DType /\ EndpointFits(d) /\ w \in WType /\ BatchFits(w) /\ o \in OType
      /\ canceller \in {"in", "out"} /\ cancels \in Nat /\ natives \in Nat
  BY <1>1 DEF Typed
<1>3. /\ s' = [s EXCEPT !.active = @ \/ ~s.failed]
      /\ o' = [o EXCEPT !.op = "on", !.ret = IF s.failed THEN "IO" ELSE "OK"]
  BY DEF On
<1>4. /\ s' \in SType /\ KeepsProgress /\ s'.control = s.control /\ s'.failed = s.failed
  BY <1>2, <1>3 DEF SType, KeepsProgress
<1>5. /\ o' \in OType /\ o'.op = "on" /\ o'.control = o.control /\ o'.lost = o.lost
      /\ o'.pc = o.pc
      /\ o'.ret = "IO" => s.failed
  <2>1. PICK v \in {"OK", "IO"} : v = IF s.failed THEN "IO" ELSE "OK"
    OBVIOUS
  <2>2. o' = [o EXCEPT !.op = "on", !.ret = v]
    BY <1>3, <2>1
  <2>3. /\ o' \in OType /\ o'.op = "on" /\ o'.control = o.control /\ o'.lost = o.lost
        /\ o'.pc = o.pc /\ o'.ret = v
    BY <1>2, <2>2 DEF OType, Operations, Statuses
  <2> QED BY <2>1, <2>3
<1>6. /\ ring' = ring /\ e' = e /\ d' = d /\ w' = w /\ canceller' = canceller
      /\ cancels' = cancels /\ natives' = natives
      /\ o.pc = "idle" /\ o.op # "destroy"
  BY DEF On, Calling
<1>7. Typed'
  BY <1>2, <1>3, <1>4, <1>5, <1>6 DEF Typed
<1>8. Sound' => Sound
  BY <1>1, <1>3, <1>4, <1>5, <1>6 DEF Sound, CallShape
<1>9. /\ s.count \in Nat /\ s.accepted \in Nat /\ s.submitted \in Nat /\ s.consumed \in Nat
      /\ s.epoch \in Nat /\ w.gen \in Nat /\ w.accepted \in Nat /\ d.submitted \in Nat
      /\ Len(d.buffer) \in Nat /\ Len(w.batch) \in Nat /\ w.accepted <= Len(w.batch)
      /\ s.control \in Controls /\ w.control \in Controls /\ o.control \in Controls
      /\ w.after \in {"look", "commit"}
  BY <1>1, Numbers, Places
<1>10. CancelHasCause'
  BY <1>1, <1>3, <1>4, <1>5, <1>6, <1>8, <1>9 DEF CancelHasCause, CallShape
<1>11. CallShape'
  BY <1>1, <1>3, <1>4, <1>5, <1>6, <1>8, <1>9 DEF CallShape, KeepsProgress
<1>12. WorkerShape'
  BY <1>1, <1>3, <1>4, <1>5, <1>6, <1>8, <1>9 DEF WorkerShape, Holding, KeepsProgress, Controls
<1>13. Handshake'
  BY <1>1, <1>3, <1>4, <1>5, <1>6, <1>8, <1>9
     DEF Handshake, CallShape, WorkerShape, Sound, Relying, Clearing, KeepsProgress, Controls
<1>14. Done'
  BY <1>1, <1>3, <1>4, <1>5, <1>6, <1>8, <1>9
     DEF Done, Handshake, CallShape, WorkerShape, Sound, Did, KeepsProgress
<1>15. Fifo'
  BY <1>1, <1>3, <1>4, <1>5, <1>6, <1>8, <1>9 DEF Fifo, WorkerShape, Holding, Base, KeepsProgress
<1>16. Delivered'
  BY <1>1, <1>3, <1>4, <1>5, <1>6, <1>8, <1>9 DEF Delivered, Handshake, CallShape, WorkerShape,
     Sound, Clearing, Base, Consumed, KeepsProgress
<1>17. NothingFails'
  BY <1>1, <1>3, <1>4, <1>5, <1>6, <1>8, <1>9
     DEF NothingFails, CallShape, WorkerShape, CancelHasCause, Sound
<1> QED BY <1>7, <1>10, <1>11, <1>12, <1>13, <1>14, <1>15, <1>16, <1>17 DEF IInv

\* A destroy begins by cancelling the waits.
LEMMA DestroyInv ==
    ASSUME IInv, Destroy
    PROVE  IInv'
<1>1. /\ Typed /\ CancelHasCause /\ CallShape /\ WorkerShape
      /\ Handshake /\ Done /\ Fifo /\ Delivered /\ NothingFails
  BY DEF IInv
<1>2. /\ ring \in [Slots -> Frames] /\ s \in SType /\ e \in EType
      /\ d \in DType /\ EndpointFits(d) /\ w \in WType /\ BatchFits(w) /\ o \in OType
      /\ canceller \in {"in", "out"} /\ cancels \in Nat /\ natives \in Nat
  BY <1>1 DEF Typed
<1>3. PICK bad \in Failing({"signal"}) :
        /\ Count(bad)
        /\ s' = [s EXCEPT !.failed = @ \/ bad # "none"]
        /\ e' = [e EXCEPT !.waitCancelled = TRUE, !.space = @ \/ bad = "none",
                     !.cancel = @ \/ bad # "none"]
  BY DEF Destroy
<1>4. /\ natives' \in Nat /\ (natives' = 0 => natives = 0 /\ bad = "none")
      /\ bad \in {"none", "signal"}
  BY <1>1, <1>3, Outcome
<1>5. /\ s' \in SType /\ KeepsProgress /\ s'.control = s.control
      /\ s'.failed <=> s.failed \/ bad # "none"
  BY <1>2, <1>3 DEF SType, KeepsProgress
<1>6. /\ e' \in EType /\ e'.done = e.done
      /\ e'.cancel <=> e.cancel \/ bad # "none"
  BY <1>2, <1>3 DEF EType
<1>7. /\ o' \in OType /\ o'.op = "destroy" /\ o'.control = o.control /\ o'.lost = o.lost
      /\ o'.pc = "cancel" /\ o'.ret = o.ret
  <2>1. o' = [o EXCEPT !.op = "destroy", !.pc = "cancel"]
    BY DEF Destroy
  <2> QED BY <1>2, <2>1 DEF OType, OwnerPcs, Operations
<1>8. /\ ring' = ring /\ d' = d /\ w' = w /\ canceller' = canceller /\ cancels' = cancels
      /\ o.pc = "idle"
  BY DEF Destroy
<1>9. Typed'
  BY <1>2, <1>4, <1>5, <1>6, <1>7, <1>8 DEF Typed
<1>10. Sound' => Sound
  BY <1>1, <1>4, <1>5, <1>6, <1>7, <1>8 DEF Sound, CallShape
<1>11. /\ s.count \in Nat /\ s.accepted \in Nat /\ s.submitted \in Nat /\ s.consumed \in Nat
      /\ s.epoch \in Nat /\ w.gen \in Nat /\ w.accepted \in Nat /\ d.submitted \in Nat
      /\ Len(d.buffer) \in Nat /\ Len(w.batch) \in Nat /\ w.accepted <= Len(w.batch)
      /\ s.control \in Controls /\ w.control \in Controls /\ o.control \in Controls
      /\ w.after \in {"look", "commit"}
  BY <1>1, Numbers, Places
<1>12. CancelHasCause'
  BY <1>1, <1>4, <1>5, <1>6, <1>7, <1>8, <1>10, <1>11 DEF CancelHasCause, CallShape
<1>13. CallShape'
  BY <1>1, <1>4, <1>5, <1>6, <1>7, <1>8, <1>10, <1>11 DEF CallShape, KeepsProgress
<1>14. WorkerShape'
  BY <1>1, <1>4, <1>5, <1>6, <1>7, <1>8, <1>10, <1>11
     DEF WorkerShape, Holding, KeepsProgress, Controls
<1>15. Handshake'
  BY <1>1, <1>4, <1>5, <1>6, <1>7, <1>8, <1>10, <1>11
     DEF Handshake, CallShape, WorkerShape, Sound, Relying, Clearing, KeepsProgress, Controls
<1>16. Done'
  BY <1>1, <1>4, <1>5, <1>6, <1>7, <1>8, <1>10, <1>11
     DEF Done, Handshake, CallShape, WorkerShape, Sound, Did, KeepsProgress
<1>17. Fifo'
  BY <1>1, <1>4, <1>5, <1>6, <1>7, <1>8, <1>10, <1>11
     DEF Fifo, WorkerShape, Holding, Base, KeepsProgress
<1>18. Delivered'
  BY <1>1, <1>4, <1>5, <1>6, <1>7, <1>8, <1>10, <1>11 DEF Delivered, Handshake, CallShape,
     WorkerShape, Sound, Clearing, Base, Consumed, KeepsProgress
<1>19. NothingFails'
  BY <1>1, <1>4, <1>5, <1>6, <1>7, <1>8, <1>10, <1>11
     DEF NothingFails, CallShape, WorkerShape, CancelHasCause, Sound
<1> QED BY <1>9, <1>12, <1>13, <1>14, <1>15, <1>16, <1>17, <1>18, <1>19 DEF IInv

\* A destroy cancels the worker.
LEMMA CancelWorkerInv ==
    ASSUME IInv, CancelWorker
    PROVE  IInv'
<1>1. /\ Typed /\ CancelHasCause /\ CallShape /\ WorkerShape
      /\ Handshake /\ Done /\ Fifo /\ Delivered /\ NothingFails
  BY DEF IInv
<1>2. /\ ring \in [Slots -> Frames] /\ s \in SType /\ e \in EType
      /\ d \in DType /\ EndpointFits(d) /\ w \in WType /\ BatchFits(w) /\ o \in OType
      /\ canceller \in {"in", "out"} /\ cancels \in Nat /\ natives \in Nat
  BY <1>1 DEF Typed
<1>3. PICK bad \in Failing({"signal"}) :
        /\ Count(bad)
        /\ e' = [e EXCEPT !.cancel = @ \/ bad = "none"]
        /\ IF bad = "none" THEN o' = [o EXCEPT !.pc = "interrupt"]
           ELSE o' = [o EXCEPT !.pc = "idle", !.ret = "IO"]
  BY DEF CancelWorker, Return
<1>4. /\ natives' \in Nat /\ (natives' = 0 => natives = 0 /\ bad = "none")
      /\ bad \in {"none", "signal"}
  BY <1>1, <1>3, Outcome
<1>5. /\ e' \in EType /\ e'.done = e.done
      /\ e'.cancel <=> e.cancel \/ bad = "none"
  BY <1>2, <1>3 DEF EType
<1>6. /\ o' \in OType /\ o'.op = o.op /\ o'.control = o.control /\ o'.lost = o.lost
      /\ o'.pc \in {"interrupt", "idle"}
      /\ bad = "none" => o'.ret = o.ret
      /\ o'.pc = "idle" => o'.ret = "IO"
  <2>1. CASE bad = "none"
    BY <1>2, <1>3, <2>1 DEF OType, OwnerPcs
  <2>2. CASE bad # "none"
    BY <1>2, <1>3, <2>2 DEF OType, OwnerPcs, Statuses
  <2> QED BY <2>1, <2>2
<1>7. /\ ring' = ring /\ s' = s /\ d' = d /\ w' = w /\ canceller' = canceller
      /\ cancels' = cancels
      /\ o.pc = "cancel"
  BY DEF CancelWorker
<1>8. Typed'
  BY <1>2, <1>4, <1>5, <1>6, <1>7 DEF Typed
<1>9. Sound' => Sound
  BY <1>1, <1>4, <1>5, <1>6, <1>7 DEF Sound, CallShape
<1>10. /\ s.count \in Nat /\ s.accepted \in Nat /\ s.submitted \in Nat /\ s.consumed \in Nat
      /\ s.epoch \in Nat /\ w.gen \in Nat /\ w.accepted \in Nat /\ d.submitted \in Nat
      /\ Len(d.buffer) \in Nat /\ Len(w.batch) \in Nat /\ w.accepted <= Len(w.batch)
      /\ s.control \in Controls /\ w.control \in Controls /\ o.control \in Controls
      /\ w.after \in {"look", "commit"}
  BY <1>1, Numbers, Places
<1>11. CancelHasCause'
  BY <1>1, <1>4, <1>5, <1>6, <1>7, <1>9, <1>10 DEF CancelHasCause, CallShape
<1>12. CallShape'
  BY <1>1, <1>4, <1>5, <1>6, <1>7, <1>9, <1>10 DEF CallShape
<1>13. WorkerShape'
  BY <1>1, <1>4, <1>5, <1>6, <1>7, <1>9, <1>10 DEF WorkerShape, Holding, Controls
<1>14. Handshake'
  BY <1>1, <1>4, <1>5, <1>6, <1>7, <1>9, <1>10
     DEF Handshake, CallShape, WorkerShape, Sound, Relying, Clearing, Controls
<1>15. Done'
  BY <1>1, <1>4, <1>5, <1>6, <1>7, <1>9, <1>10
     DEF Done, Handshake, CallShape, WorkerShape, Sound, Did
<1>16. Fifo'
  BY <1>1, <1>4, <1>5, <1>6, <1>7, <1>9, <1>10 DEF Fifo, WorkerShape, Holding, Base
<1>17. Delivered'
  BY <1>1, <1>4, <1>5, <1>6, <1>7, <1>9, <1>10
     DEF Delivered, Handshake, CallShape, WorkerShape, Sound, Clearing, Base, Consumed
<1>18. NothingFails'
  BY <1>1, <1>4, <1>5, <1>6, <1>7, <1>9, <1>10
     DEF NothingFails, CallShape, WorkerShape, CancelHasCause, Sound
<1> QED BY <1>8, <1>11, <1>12, <1>13, <1>14, <1>15, <1>16, <1>17, <1>18 DEF IInv

\* A destroy interrupts the worker's wait for the endpoint.
LEMMA InterruptWorkerInv ==
    ASSUME IInv, InterruptWorker
    PROVE  IInv'
<1>1. /\ Typed /\ CancelHasCause /\ CallShape /\ WorkerShape
      /\ Handshake /\ Done /\ Fifo /\ Delivered /\ NothingFails
  BY DEF IInv
<1>2. /\ ring \in [Slots -> Frames] /\ s \in SType /\ e \in EType
      /\ d \in DType /\ EndpointFits(d) /\ w \in WType /\ BatchFits(w) /\ o \in OType
      /\ canceller \in {"in", "out"} /\ cancels \in Nat /\ natives \in Nat
  BY <1>1 DEF Typed
<1>3. PICK bad \in Failing({"interrupt"}) :
        /\ Count(bad)
        /\ IF bad = "none"
           THEN /\ d' = [d EXCEPT !.interruption = TRUE]
                /\ e' = [e EXCEPT !.wake = TRUE]
                /\ o' = [o EXCEPT !.pc = "join"]
           ELSE /\ o' = [o EXCEPT !.pc = "idle", !.ret = "IO"]
                /\ UNCHANGED <<d, e>>
  BY DEF InterruptWorker, Return
<1>4. /\ natives' \in Nat /\ (natives' = 0 => natives = 0 /\ bad = "none")
      /\ bad \in {"none", "interrupt"}
  BY <1>1, <1>3, Outcome
<1>5. /\ o' \in OType /\ o'.op = o.op /\ o'.control = o.control /\ o'.lost = o.lost
      /\ o'.pc \in {"join", "idle"} /\ (bad = "none" => o'.ret = o.ret)
      /\ o'.pc = "idle" => o'.ret = "IO"
      /\ e' \in EType /\ e'.done = e.done /\ e'.cancel = e.cancel
      /\ d' \in DType /\ EndpointFits(d') /\ d'.buffer = d.buffer /\ d'.submitted = d.submitted
      /\ d'.gained = d.gained
  <2>1. CASE bad = "none"
    <3>1. d' = [d EXCEPT !.interruption = TRUE] /\ e' = [e EXCEPT !.wake = TRUE]
          /\ o' = [o EXCEPT !.pc = "join"]
      BY <1>3, <2>1
    <3>2. /\ d' \in DType /\ d'.buffer = d.buffer /\ d'.submitted = d.submitted
          /\ d'.gained = d.gained
      BY <1>2, <3>1 DEF DType
    <3>3. e' \in EType /\ e'.done = e.done /\ e'.cancel = e.cancel
      BY <1>2, <3>1 DEF EType
    <3>4. /\ o' \in OType /\ o'.op = o.op /\ o'.control = o.control /\ o'.lost = o.lost
          /\ o'.pc = "join" /\ o'.ret = o.ret
      BY <1>2, <3>1 DEF OType, OwnerPcs
    <3> QED BY <1>2, <3>2, <3>3, <3>4 DEF EndpointFits
  <2>2. CASE bad # "none"
    <3>1. o' = [o EXCEPT !.pc = "idle", !.ret = "IO"] /\ d' = d /\ e' = e
      BY <1>3, <2>2
    <3>2. /\ o' \in OType /\ o'.op = o.op /\ o'.control = o.control /\ o'.lost = o.lost
          /\ o'.pc = "idle" /\ o'.ret = "IO"
      BY <1>2, <3>1 DEF OType, OwnerPcs, Statuses
    <3> QED BY <1>2, <2>2, <3>1, <3>2
  <2> QED BY <2>1, <2>2
<1>6. /\ ring' = ring /\ s' = s /\ w' = w /\ canceller' = canceller /\ cancels' = cancels
      /\ o.pc = "interrupt"
  BY DEF InterruptWorker
<1>7. Typed'
  BY <1>2, <1>4, <1>5, <1>6 DEF Typed
<1>8. Sound' => Sound
  BY <1>1, <1>4, <1>5, <1>6 DEF Sound, CallShape
<1>9. /\ s.count \in Nat /\ s.accepted \in Nat /\ s.submitted \in Nat /\ s.consumed \in Nat
      /\ s.epoch \in Nat /\ w.gen \in Nat /\ w.accepted \in Nat /\ d.submitted \in Nat
      /\ Len(d.buffer) \in Nat /\ Len(w.batch) \in Nat /\ w.accepted <= Len(w.batch)
      /\ s.control \in Controls /\ w.control \in Controls /\ o.control \in Controls
      /\ w.after \in {"look", "commit"}
  BY <1>1, Numbers, Places
<1>10. CancelHasCause'
  BY <1>1, <1>4, <1>5, <1>6, <1>8, <1>9 DEF CancelHasCause, CallShape
<1>11. CallShape'
  BY <1>1, <1>4, <1>5, <1>6, <1>8, <1>9 DEF CallShape
<1>12. WorkerShape'
  BY <1>1, <1>4, <1>5, <1>6, <1>8, <1>9 DEF WorkerShape, Holding, Controls
<1>13. Handshake'
  BY <1>1, <1>4, <1>5, <1>6, <1>8, <1>9 DEF Handshake, CallShape, WorkerShape, Sound, Relying,
     Clearing, Controls
<1>14. Done'
  BY <1>1, <1>4, <1>5, <1>6, <1>8, <1>9 DEF Done, Handshake, CallShape, WorkerShape, Sound, Did
<1>15. Fifo'
  BY <1>1, <1>4, <1>5, <1>6, <1>8, <1>9 DEF Fifo, WorkerShape, Holding, Base
<1>16. Delivered'
  BY <1>1, <1>4, <1>5, <1>6, <1>8, <1>9 DEF Delivered, Handshake, CallShape, WorkerShape, Sound,
     Clearing, Base, Consumed
<1>17. NothingFails'
  BY <1>1, <1>4, <1>5, <1>6, <1>8, <1>9 DEF NothingFails, CallShape, WorkerShape,
     CancelHasCause, Sound
<1> QED BY <1>7, <1>10, <1>11, <1>12, <1>13, <1>14, <1>15, <1>16, <1>17 DEF IInv

\* The owner joins the worker.
LEMMA JoinInv ==
    ASSUME IInv, Join
    PROVE  IInv'
<1>1. /\ Typed /\ CancelHasCause /\ CallShape /\ WorkerShape
      /\ Handshake /\ Done /\ Fifo /\ Delivered /\ NothingFails
  BY DEF IInv
<1>2. /\ ring \in [Slots -> Frames] /\ s \in SType /\ e \in EType
      /\ d \in DType /\ EndpointFits(d) /\ w \in WType /\ BatchFits(w) /\ o \in OType
      /\ canceller \in {"in", "out"} /\ cancels \in Nat /\ natives \in Nat
  BY <1>1 DEF Typed
<1>3. \/ ~e.cancel /\ e' = [e EXCEPT !.cancel = TRUE] /\ o' = o
      \/ w.pc = "ended" /\ o' = [o EXCEPT !.pc = "gone"] /\ e' = e
  BY DEF Join
<1>4. /\ o' \in OType /\ o'.op = o.op /\ o'.control = o.control /\ o'.lost = o.lost
      /\ o'.ret = o.ret /\ o'.signaled = o.signaled
      /\ e' \in EType /\ e'.done = e.done /\ (e.cancel => e'.cancel)
      /\ o'.pc = "join" \/ (o'.pc = "gone" /\ w.pc = "ended")
  <2>1. CASE e' = [e EXCEPT !.cancel = TRUE] /\ o' = o
    <3>1. e' \in EType /\ e'.done = e.done /\ e'.cancel
      BY <1>2, <2>1 DEF EType
    <3>2. o.pc = "join"
      BY DEF Join
    <3> QED BY <1>2, <2>1, <3>1, <3>2
  <2>2. CASE w.pc = "ended" /\ o' = [o EXCEPT !.pc = "gone"] /\ e' = e
    BY <1>2, <2>2 DEF OType, OwnerPcs
  <2> QED BY <1>3, <2>1, <2>2
<1>5. /\ ring' = ring /\ s' = s /\ d' = d /\ w' = w /\ canceller' = canceller
      /\ cancels' = cancels /\ natives' = natives
      /\ o.pc = "join"
  BY DEF Join
<1>6. Typed'
  BY <1>2, <1>4, <1>5 DEF Typed
<1>7. Sound' => Sound
  BY <1>1, <1>4, <1>5 DEF Sound, CallShape
<1>8. /\ s.count \in Nat /\ s.accepted \in Nat /\ s.submitted \in Nat /\ s.consumed \in Nat
      /\ s.epoch \in Nat /\ w.gen \in Nat /\ w.accepted \in Nat /\ d.submitted \in Nat
      /\ Len(d.buffer) \in Nat /\ Len(w.batch) \in Nat /\ w.accepted <= Len(w.batch)
      /\ s.control \in Controls /\ w.control \in Controls /\ o.control \in Controls
      /\ w.after \in {"look", "commit"}
  BY <1>1, Numbers, Places
<1>9. CancelHasCause'
  BY <1>1, <1>4, <1>5, <1>7, <1>8 DEF CancelHasCause, CallShape
<1>10. CallShape'
  BY <1>1, <1>4, <1>5, <1>7, <1>8 DEF CallShape
<1>11. WorkerShape'
  BY <1>1, <1>4, <1>5, <1>7, <1>8 DEF WorkerShape, Holding, Controls
<1>12. Handshake'
  BY <1>1, <1>4, <1>5, <1>7, <1>8 DEF Handshake, CallShape, WorkerShape, Sound, Relying,
     Clearing, Controls
<1>13. Done'
  BY <1>1, <1>4, <1>5, <1>7, <1>8 DEF Done, Handshake, CallShape, WorkerShape, Sound, Did
<1>14. Fifo'
  BY <1>1, <1>4, <1>5, <1>7, <1>8 DEF Fifo, WorkerShape, Holding, Base
<1>15. Delivered'
  BY <1>1, <1>4, <1>5, <1>7, <1>8 DEF Delivered, Handshake, CallShape, WorkerShape, Sound,
     Clearing, Base, Consumed
<1>16. NothingFails'
  BY <1>1, <1>4, <1>5, <1>7, <1>8 DEF NothingFails, CallShape, WorkerShape, CancelHasCause, Sound
<1> QED BY <1>6, <1>9, <1>10, <1>11, <1>12, <1>13, <1>14, <1>15, <1>16 DEF IInv

\* Another thread cancels the owner's wait.
LEMMA CancelWaitInv ==
    ASSUME IInv, CancelWait
    PROVE  IInv'
<1>1. /\ Typed /\ CancelHasCause /\ CallShape /\ WorkerShape
      /\ Handshake /\ Done /\ Fifo /\ Delivered /\ NothingFails
  BY DEF IInv
<1>2. /\ ring \in [Slots -> Frames] /\ s \in SType /\ e \in EType
      /\ d \in DType /\ EndpointFits(d) /\ w \in WType /\ BatchFits(w) /\ o \in OType
      /\ canceller \in {"in", "out"} /\ cancels \in Nat /\ natives \in Nat
  BY <1>1 DEF Typed
<1>3. /\ e' = [e EXCEPT !.waitCancelled = TRUE] /\ canceller' = "in" /\ cancels' = cancels + 1
      /\ o.pc \notin {"create", "join", "gone"}
  BY DEF CancelWait
<1>4. /\ e' \in EType /\ e'.done = e.done /\ e'.cancel = e.cancel
      /\ canceller' = "in" /\ cancels' \in Nat
  <2>1. e' \in EType /\ e'.done = e.done /\ e'.cancel = e.cancel
    BY <1>2, <1>3 DEF EType
  <2>2. cancels' \in Nat
    BY <1>2, <1>3
  <2> QED BY <1>3, <2>1, <2>2
<1>5. /\ ring' = ring /\ s' = s /\ d' = d /\ w' = w /\ o' = o /\ natives' = natives
      /\ o.pc \notin {"create", "join", "gone"}
  BY DEF CancelWait
<1>6. Typed'
  BY <1>2, <1>3, <1>4, <1>5 DEF Typed
<1>7. Sound' => Sound
  BY <1>1, <1>3, <1>4, <1>5 DEF Sound, CallShape
<1>8. /\ s.count \in Nat /\ s.accepted \in Nat /\ s.submitted \in Nat /\ s.consumed \in Nat
      /\ s.epoch \in Nat /\ w.gen \in Nat /\ w.accepted \in Nat /\ d.submitted \in Nat
      /\ Len(d.buffer) \in Nat /\ Len(w.batch) \in Nat /\ w.accepted <= Len(w.batch)
      /\ s.control \in Controls /\ w.control \in Controls /\ o.control \in Controls
      /\ w.after \in {"look", "commit"}
  BY <1>1, Numbers, Places
<1>9. CancelHasCause'
  BY <1>1, <1>3, <1>4, <1>5, <1>7, <1>8 DEF CancelHasCause, CallShape
<1>10. CallShape'
  BY <1>1, <1>3, <1>4, <1>5, <1>7, <1>8 DEF CallShape
<1>11. WorkerShape'
  BY <1>1, <1>3, <1>4, <1>5, <1>7, <1>8 DEF WorkerShape, Holding, Controls
<1>12. Handshake'
  BY <1>1, <1>3, <1>4, <1>5, <1>7, <1>8 DEF Handshake, CallShape, WorkerShape, Sound, Relying,
     Clearing, Controls
<1>13. Done'
  BY <1>1, <1>3, <1>4, <1>5, <1>7, <1>8 DEF Done, Handshake, CallShape, WorkerShape, Sound, Did
<1>14. Fifo'
  BY <1>1, <1>3, <1>4, <1>5, <1>7, <1>8 DEF Fifo, WorkerShape, Holding, Base
<1>15. Delivered'
  BY <1>1, <1>3, <1>4, <1>5, <1>7, <1>8 DEF Delivered, Handshake, CallShape, WorkerShape, Sound,
     Clearing, Base, Consumed
<1>16. NothingFails'
  BY <1>1, <1>3, <1>4, <1>5, <1>7, <1>8 DEF NothingFails, CallShape, WorkerShape,
     CancelHasCause, Sound
<1> QED BY <1>6, <1>9, <1>10, <1>11, <1>12, <1>13, <1>14, <1>15, <1>16 DEF IInv

\* The cancellation signals space.
LEMMA CancelSignalInv ==
    ASSUME IInv, CancelSignal
    PROVE  IInv'
<1>1. /\ Typed /\ CancelHasCause /\ CallShape /\ WorkerShape
      /\ Handshake /\ Done /\ Fifo /\ Delivered /\ NothingFails
  BY DEF IInv
<1>2. /\ ring \in [Slots -> Frames] /\ s \in SType /\ e \in EType
      /\ d \in DType /\ EndpointFits(d) /\ w \in WType /\ BatchFits(w) /\ o \in OType
      /\ canceller \in {"in", "out"} /\ cancels \in Nat /\ natives \in Nat
  BY <1>1 DEF Typed
<1>3. PICK bad \in Failing({"signal"}) :
        /\ Count(bad)
        /\ s' = [s EXCEPT !.failed = @ \/ bad # "none"]
        /\ e' = [e EXCEPT !.space = @ \/ bad = "none", !.cancel = @ \/ bad # "none"]
  BY DEF CancelSignal
<1>4. /\ natives' \in Nat /\ (natives' = 0 => natives = 0 /\ bad = "none")
      /\ bad \in {"none", "signal"}
  BY <1>1, <1>3, Outcome
<1>5. /\ s' \in SType /\ KeepsProgress /\ s'.control = s.control
      /\ s'.failed <=> s.failed \/ bad # "none"
  BY <1>2, <1>3 DEF SType, KeepsProgress
<1>6. /\ e' \in EType /\ e'.done = e.done
      /\ e'.cancel <=> e.cancel \/ bad # "none"
  BY <1>2, <1>3 DEF EType
<1>7. /\ ring' = ring /\ d' = d /\ w' = w /\ o' = o /\ cancels' = cancels
      /\ canceller = "in" /\ canceller' = "out"
  BY DEF CancelSignal
<1>8. Typed'
  BY <1>2, <1>4, <1>5, <1>6, <1>7 DEF Typed
<1>9. Sound' => Sound
  BY <1>1, <1>4, <1>5, <1>6, <1>7 DEF Sound, CallShape
<1>10. /\ s.count \in Nat /\ s.accepted \in Nat /\ s.submitted \in Nat /\ s.consumed \in Nat
      /\ s.epoch \in Nat /\ w.gen \in Nat /\ w.accepted \in Nat /\ d.submitted \in Nat
      /\ Len(d.buffer) \in Nat /\ Len(w.batch) \in Nat /\ w.accepted <= Len(w.batch)
      /\ s.control \in Controls /\ w.control \in Controls /\ o.control \in Controls
      /\ w.after \in {"look", "commit"}
  BY <1>1, Numbers, Places
<1>11. CancelHasCause'
  BY <1>1, <1>4, <1>5, <1>6, <1>7, <1>9, <1>10 DEF CancelHasCause, CallShape
<1>12. CallShape'
  BY <1>1, <1>4, <1>5, <1>6, <1>7, <1>9, <1>10 DEF CallShape, KeepsProgress
<1>13. WorkerShape'
  BY <1>1, <1>4, <1>5, <1>6, <1>7, <1>9, <1>10 DEF WorkerShape, Holding, KeepsProgress, Controls
<1>14. Handshake'
  BY <1>1, <1>4, <1>5, <1>6, <1>7, <1>9, <1>10
     DEF Handshake, CallShape, WorkerShape, Sound, Relying, Clearing, KeepsProgress, Controls
<1>15. Done'
  BY <1>1, <1>4, <1>5, <1>6, <1>7, <1>9, <1>10
     DEF Done, Handshake, CallShape, WorkerShape, Sound, Did, KeepsProgress
<1>16. Fifo'
  BY <1>1, <1>4, <1>5, <1>6, <1>7, <1>9, <1>10 DEF Fifo, WorkerShape, Holding, Base, KeepsProgress
<1>17. Delivered'
  BY <1>1, <1>4, <1>5, <1>6, <1>7, <1>9, <1>10 DEF Delivered, Handshake, CallShape, WorkerShape,
     Sound, Clearing, Base, Consumed, KeepsProgress
<1>18. NothingFails'
  BY <1>1, <1>4, <1>5, <1>6, <1>7, <1>9, <1>10
     DEF NothingFails, CallShape, WorkerShape, CancelHasCause, Sound
<1> QED BY <1>8, <1>11, <1>12, <1>13, <1>14, <1>15, <1>16, <1>17, <1>18 DEF IInv

-----------------------------------------------------------------------------
\* The stream the owner asks for satisfies the invariant.
LEMMA InitInv ==
    ASSUME Init
    PROVE  IInv
<1>1. PICK em \in Seq(Frames) : em = <<>> /\ Len(em) = 0
  BY EmptySeq
<1>2. PICK z \in Slots : z = 0 /\ z \in 0..Capacity /\ z \in 0..MaxFrames /\ z \in 0..MaxEpoch
  BY Constants DEF Slots
<1>3. ring \in [Slots -> Frames]
  BY SilenceTyped DEF Init
<1>4. /\ s \in SType /\ s.head = 0 /\ s.count = 0 /\ s.epoch = 0 /\ s.accepted = 0
      /\ s.submitted = 0 /\ s.consumed = 0 /\ s.control = "NONE" /\ ~s.failed
  <2>1. s = [head |-> z, count |-> z, epoch |-> z, accepted |-> z, submitted |-> z,
             consumed |-> z, control |-> "NONE", active |-> TRUE, failed |-> FALSE]
    BY <1>2 DEF Init
  <2>2. s \in SType
    BY <1>2, <2>1 DEF SType, Controls
  <2> QED BY <2>2 DEF Init
<1>5. e \in EType /\ ~e.done /\ ~e.cancel
  BY DEF Init, EType
<1>6. d \in DType /\ EndpointFits(d) /\ d.buffer = <<>> /\ d.submitted = 0 /\ Len(d.buffer) = 0
  <2>1. d = [buffer |-> em, submitted |-> 0, gained |-> TRUE, ready |-> FALSE,
             interruption |-> FALSE]
    BY <1>1 DEF Init
  <2>2. d \in DType /\ d.buffer = em /\ d.submitted = 0
    BY <2>1 DEF DType
  <2> QED BY <1>1, <2>2, Constants DEF EndpointFits
<1>7. /\ w \in WType /\ BatchFits(w) /\ w.pc = "attach" /\ w.gen = 0 /\ w.batch = <<>>
      /\ w.accepted = 0 /\ w.status = "OK" /\ w.control = "NONE" /\ w.after = "look"
  <2>1. w = AtTop("attach") /\ "attach" \in WorkerPcs
    BY LookingIsAtTop DEF Init, WorkerPcs
  <2> QED BY <2>1, LookingAt
<1>8. /\ o \in OType /\ o.pc = "create" /\ o.op = "create" /\ o.control = "NONE"
      /\ ~o.signaled /\ o.ret = "OK" /\ ~o.lost
  BY DEF Init, OType, OwnerPcs, Operations, Controls, Statuses
<1>9. canceller = "out" /\ cancels = 0 /\ natives = 0
  BY DEF Init
<1>10. Typed
  BY <1>3, <1>4, <1>5, <1>6, <1>7, <1>8, <1>9 DEF Typed
<1>11. CancelHasCause /\ CallShape
  BY <1>4, <1>5, <1>6, <1>7, <1>8, <1>9 DEF CancelHasCause, CallShape
<1>12. WorkerShape
  BY <1>4, <1>7 DEF WorkerShape, Holding
<1>13. Handshake
  BY <1>4, <1>5, <1>7, <1>8 DEF Handshake, Relying, Clearing
<1>14. Done
  BY <1>8 DEF Done
<1>15. Fifo
  BY <1>4, <1>7 DEF Fifo, Queue, Holding
<1>16. Delivered
  <2>1. Consumed = 0
    BY <1>6 DEF Consumed
  <2>2. Base = 0
    BY <1>4 DEF Base
  <2> QED BY <1>4, <1>6, <1>7, <2>1, <2>2, EmptyInOrder DEF Delivered
<1>17. NothingFails
  BY <1>4, <1>7, <1>8 DEF NothingFails
<1> QED BY <1>10, <1>11, <1>12, <1>13, <1>14, <1>15, <1>16, <1>17 DEF IInv

\* The actions of the specification.
LEMMA Actions ==
    ASSUME Next
    PROVE  \/ \E n \in 1..MaxSubmission : Enqueue(n)
           \/ \E op \in {"flush", "off"} : Flush(op)
           \/ ClearStream \/ SetGain \/ On \/ Destroy \/ WaitWritable
           \/ Created \/ Wake \/ Nudge \/ Check \/ Space
           \/ Answered \/ Settle \/ Off \/ Store \/ CancelWorker \/ InterruptWorker \/ Join
           \/ Attach \/ Look \/ Native \/ Answer \/ WaitProgress \/ Fault \/ Observe \/ Report
           \/ Idle \/ Write \/ Room \/ Submit \/ Drain \/ Commit \/ Detach
           \/ Tick \/ CancelWait \/ CancelSignal
<1>1. CASE Begin
  BY <1>1 DEF Begin
<1>2. CASE Continue
  BY <1>2 DEF Continue
<1>3. CASE Worker
  BY <1>3 DEF Worker
<1> QED BY <1>1, <1>2, <1>3 DEF Next

\* Every step preserves the invariant.
LEMMA NextInv ==
    ASSUME IInv, [Next]_vars
    PROVE  IInv'
<1>1. CASE UNCHANGED vars
  <2>1. Typed'
    BY <1>1 DEF IInv, Typed, vars
  <2>2. CancelHasCause' /\ CallShape'
    BY <1>1 DEF IInv, CancelHasCause, CallShape, vars
  <2>3. WorkerShape'
    BY <1>1 DEF IInv, WorkerShape, Holding, vars
  <2>4. Handshake'
    BY <1>1 DEF IInv, Handshake, Sound, Relying, Clearing, vars
  <2>5. Done'
    BY <1>1 DEF IInv, Done, Sound, Did, vars
  <2>6. Fifo'
    BY <1>1 DEF IInv, Fifo, Holding, Base, vars
  <2>7. Delivered'
    BY <1>1 DEF IInv, Delivered, Sound, Clearing, Base, Consumed, vars
  <2>8. NothingFails'
    BY <1>1 DEF IInv, NothingFails, vars
  <2> QED BY <2>1, <2>2, <2>3, <2>4, <2>5, <2>6, <2>7, <2>8 DEF IInv
<1>2. CASE \E n \in 1..MaxSubmission : Enqueue(n)
  BY <1>2, EnqueueInv
<1>3. CASE \E op \in {"flush", "off"} : Flush(op)
  BY <1>3, FlushInv
<1>4. CASE ClearStream \/ SetGain \/ On \/ Destroy \/ WaitWritable
  BY <1>4, ClearStreamInv, SetGainInv, OnInv, DestroyInv, WaitWritableInv
<1>5. CASE \/ Created \/ Wake \/ Nudge \/ Check \/ Space
           \/ Answered \/ Settle \/ Off \/ Store \/ CancelWorker \/ InterruptWorker \/ Join
  BY <1>5, CreatedInv, WakeInv, NudgeInv, CheckInv, SpaceInv, AnsweredInv, SettleInv, OffInv,
     StoreInv, CancelWorkerInv, InterruptWorkerInv, JoinInv
<1>6. CASE \/ Attach \/ Look \/ Native \/ Answer \/ WaitProgress \/ Fault \/ Observe \/ Report
           \/ Idle \/ Write \/ Room \/ Submit \/ Drain \/ Commit \/ Detach
  BY <1>6, AttachInv, LookInv, NativeInv, AnswerInv, WaitProgressInv, FaultInv, ObserveInv,
     ReportInv, IdleInv, WriteInv, RoomInv, SubmitInv, DrainInv, CommitInv, DetachInv
<1>7. CASE Tick \/ CancelWait \/ CancelSignal
  BY <1>7, TickInv, CancelWaitInv, CancelSignalInv
<1> QED BY <1>1, <1>2, <1>3, <1>4, <1>5, <1>6, <1>7, Actions

\* The invariant holds in every reachable state.
LEMMA Invariance == Spec => []IInv
<1> QED BY InitInv, NextInv, PTL DEF Spec

-----------------------------------------------------------------------------
\* The variables keep their types: no count leaves the FIFO, the endpoint's buffer
\* or a batch (audio_pcm_stream_worker, lib_audio_pcm_stream_enqueue).
THEOREM TypeCorrect == Spec => []TypeOK
<1>1. IInv => TypeOK
  <2> SUFFICES ASSUME Typed PROVE TypeOK
    BY DEF IInv
  <2>1. /\ ring \in [Slots -> Frames] /\ d.buffer \in Seq(Frames)
        /\ Len(d.buffer) <= EndpointFrames
    BY DEF Typed, DType, EndpointFits
  <2>2. /\ w.batch \in Seq(Frames) /\ w.accepted <= Len(w.batch) /\ Len(w.batch) <= Batch
        /\ w.status \in Statuses /\ o.ret \in Statuses
    BY DEF Typed, WType, BatchFits, OType
  <2>3. s \in SType /\ e \in EType
    BY DEF Typed
  <2> QED BY <2>1, <2>2, <2>3 DEF TypeOK, SType, EType
<1> QED BY <1>1, Invariance, PTL

\* Without a native failure the stream never fails and no call returns an I/O
\* error: the consistency check of audio_pcm_stream_observe_progress and the races
\* of a cancellation with a call raise no false alarm.
THEOREM NothingFailsAlone == Spec => []NoFalseAlarm
<1>1. IInv => NoFalseAlarm
  BY DEF IInv, NothingFails, NoFalseAlarm
<1> QED BY <1>1, Invariance, PTL

\* A flush, clear, deactivation or gain that returns OK has been carried out on the
\* endpoint (lib_audio_pcm_stream_flush, audio_pcm_stream_control_request).
THEOREM CallsAreCarriedOut == Spec => []ReturnMeansDone
<1>1. IInv => ReturnMeansDone
  BY DEF IInv, Done, Sound, Did, ReturnMeansDone
<1> QED BY <1>1, Invariance, PTL

\* The endpoint gets every frame once and in order, across interrupted submissions,
\* the wrap of the ring and clears (audio_pcm_stream_worker).
THEOREM FramesInOrder == Spec => []DeliveredInOrder
<1>1. IInv => DeliveredInOrder
  BY DEF IInv, Delivered, Sound, InOrder, DeliveredInOrder
<1> QED BY <1>1, Invariance, PTL

-----------------------------------------------------------------------------
\* The progress a client reads stays as it is.
Stays ==
    s'.epoch = s.epoch /\ s'.accepted = s.accepted /\ s'.submitted = s.submitted
      /\ s'.consumed = s.consumed

\* What keeps the counts is a stutter of PcmProgress.
LEMMA StaysIsStutter ==
    ASSUME Stays
    PROVE  [Progress!Next]_(Progress!progress)
<1> QED BY DEF Stays, Progress!progress

\* The steps that do not touch the stream's record.
LEMMA Untouched ==
    ASSUME \/ WaitWritable \/ Created \/ Check \/ Space \/ Answered
           \/ CancelWorker \/ InterruptWorker \/ Join \/ CancelWait
           \/ Native \/ WaitProgress \/ Observe \/ Write \/ Room \/ Submit \/ Drain \/ Detach
           \/ Tick
    PROVE  Stays
<1>1. CASE \/ WaitWritable \/ Created \/ Check \/ Space \/ Answered
           \/ CancelWorker \/ InterruptWorker \/ Join \/ CancelWait
  <2>1. s' = s
    BY <1>1 DEF WaitWritable, Created, Check, Space, Answered, CancelWorker, InterruptWorker,
       Join, CancelWait, shared
  <2> QED BY <2>1 DEF Stays
<1>2. CASE \/ Native \/ WaitProgress \/ Observe \/ Write \/ Room \/ Submit \/ Drain \/ Detach
           \/ Tick
  <2>1. s' = s
    BY <1>2 DEF Native, WaitProgress, Observe, Write, Room, Submit, Drain, Detach, Tick, shared
  <2> QED BY <2>1 DEF Stays
<1> QED BY <1>1, <1>2

\* A step that changes only the failure of the stream keeps the counts.
LEMMA OnlyFails ==
    ASSUME s \in SType, NEW f, s' = [s EXCEPT !.failed = f]
    PROVE  Stays
<1> QED BY DEF SType, Stays

\* The steps that touch only its failure, its control or its activity.
LEMMA Marked ==
    ASSUME IInv,
           \/ On \/ Destroy \/ Wake \/ Nudge \/ Settle \/ Store \/ CancelSignal \/ SetGain
           \/ (\E op \in {"flush", "off"} : Flush(op))
           \/ Attach \/ Look \/ Answer \/ Fault \/ Idle \/ Commit
    PROVE  Stays
<1>1. s \in SType
  BY DEF IInv, Typed
<1>2. (\E f : s' = [s EXCEPT !.failed = f]) => Stays
  BY <1>1, OnlyFails
<1>3. s' = s => Stays
  BY DEF Stays
<1>4. CASE Destroy \/ Wake \/ Nudge \/ Settle \/ CancelSignal
  BY <1>2, <1>4 DEF Destroy, Wake, Nudge, Settle, CancelSignal, FailIf
<1>5. CASE Attach \/ Answer \/ Fault \/ Idle
  BY <1>2, <1>3, <1>5 DEF Attach, Answer, Fault, Idle, FailIf
<1>6. CASE On \/ Store
  <2>1. PICK b : s' = [s EXCEPT !.active = b]
    BY <1>6 DEF On, Store
  <2> QED BY <1>1, <2>1 DEF SType, Stays
<1>7. CASE Look
  <2>1. CASE s' = [s EXCEPT !.control = "NONE"]
    BY <1>1, <2>1 DEF SType, Stays
  <2> QED BY <1>3, <1>7, <2>1 DEF Look
<1>8. CASE Commit
  <2>1. PICK bad :
          s' = [s EXCEPT !.head = (@ + Taken) % Capacity, !.count = @ - Taken,
                  !.failed = (s.failed \/ w.status = "IO") \/ bad # "none",
                  !.control = IF Flushed(s.failed \/ w.status = "IO", s.count - Taken)
                              THEN "NONE" ELSE @]
    BY <1>8 DEF Commit
  <2>2. PICK h, c : h = (s.head + Taken) % Capacity /\ c = s.count - Taken
    OBVIOUS
  <2>3. PICK f, k :
          /\ f = ((s.failed \/ w.status = "IO") \/ bad # "none")
          /\ k = IF Flushed(s.failed \/ w.status = "IO", s.count - Taken)
                 THEN "NONE" ELSE s.control
    OBVIOUS
  <2>4. s' = [s EXCEPT !.head = h, !.count = c, !.failed = f, !.control = k]
    BY <2>1, <2>2, <2>3
  <2> QED BY <1>1, <2>4 DEF SType, Stays
<1>9. CASE SetGain \/ (\E op \in {"flush", "off"} : Flush(op))
  <2>1. ASSUME NEW op, NEW control, NEW bad, Ask(op, control, s, bad)
        PROVE  Stays
    <3>1. PICK f : f = (bad = "signal")
      OBVIOUS
    <3>2. s' = [s EXCEPT !.control = control, !.failed = f]
      BY <2>1, <3>1 DEF Ask
    <3> QED BY <1>1, <3>2 DEF SType, Stays
  <2>2. CASE SetGain
    <3>1. s' = s \/ \E bad : Ask("gain", "GAIN", s, bad)
      BY <2>2 DEF SetGain, Request
    <3> QED BY <1>3, <2>1, <3>1
  <2>3. CASE \E op \in {"flush", "off"} : Flush(op)
    <3>1. s' = s \/ \E op, bad : Ask(op, "FLUSH", s, bad)
      BY <2>3 DEF Flush
    <3> QED BY <1>3, <2>1, <3>1
  <2> QED BY <1>9, <2>2, <2>3
<1> QED BY <1>4, <1>5, <1>6, <1>7, <1>8, <1>9

\* A clear begins the next epoch, or is refused.
LEMMA ClearIsClear ==
    ASSUME IInv, ClearStream \/ Off
    PROVE  [Progress!Next]_(Progress!progress)
<1>1. s \in SType
  BY DEF IInv, Typed
<1>2. s' = s \/ \E f : s' = [Cleared EXCEPT !.control = "CLEAR", !.failed = f]
  BY DEF ClearStream, Off, Request, Ask
<1>3. CASE s' = s
  BY <1>3, StaysIsStutter DEF Stays
<1>4. ASSUME NEW f, s' = [Cleared EXCEPT !.control = "CLEAR", !.failed = f]
      PROVE  Progress!Clear
  <2>1. /\ s'.epoch = s.epoch + 1 /\ s'.accepted = 0 /\ s'.submitted = 0 /\ s'.consumed = 0
    BY <1>1, <1>4 DEF Cleared, SType
  <2> QED BY <2>1 DEF Progress!Clear, Progress!progress
<1> QED BY <1>2, <1>3, <1>4 DEF Progress!Next

\* An enqueue accepts frames, or is refused.
LEMMA EnqueueIsAccept ==
    ASSUME IInv, NEW n \in 1..MaxSubmission, Enqueue(n)
    PROVE  [Progress!Next]_(Progress!progress)
<1>1. s \in SType /\ s.count \in 0..Capacity /\ s.accepted \in Nat /\ Capacity \in Nat
  BY Scalars, Numbers, Constants DEF IInv, Typed
<1>2. PICK k : k = Min({Capacity - s.count, n})
  OBVIOUS
<1>3. k \in Nat
  <2>1. k = IF Capacity - s.count <= n THEN Capacity - s.count ELSE n
    BY <1>1, <1>2, MinOfTwo
  <2> QED BY <1>1, <2>1
<1>4. CASE s' = s
  BY <1>4, StaysIsStutter DEF Stays
<1>5. CASE k # 0 /\ s' = [s EXCEPT !.count = @ + k, !.accepted = @ + k]
  <2>1. /\ s'.epoch = s.epoch /\ s'.accepted = s.accepted + k
        /\ s'.submitted = s.submitted /\ s'.consumed = s.consumed
    BY <1>1, <1>5 DEF SType
  <2>2. s'.accepted > s.accepted
    BY <1>1, <1>3, <1>5, <2>1
  <2> QED BY <2>1, <2>2 DEF Progress!Accept, Progress!Next
<1> QED BY <1>2, <1>4, <1>5 DEF Enqueue

\* A report advances the counts, or is dropped.
LEMMA ReportIsAdvance ==
    ASSUME IInv, Report
    PROVE  [Progress!Next]_(Progress!progress)
<1>1. s \in SType /\ s.accepted \in Nat /\ s.submitted \in Nat /\ s.consumed \in Nat
  BY Numbers DEF IInv, Typed
<1>2. CASE s' = s
  BY <1>2, StaysIsStutter DEF Stays
<1>3. CASE \E f : s' = [s EXCEPT !.failed = f]
  BY <1>1, <1>3, OnlyFails, StaysIsStutter
<1>4. CASE /\ ~Inconsistent(w.seen)
           /\ s' = [s EXCEPT !.submitted = w.seen[1], !.consumed = w.seen[2]]
  <2>1. PICK a \in Nat, c \in Nat : a = w.seen[1] /\ c = w.seen[2]
    BY <1>4, SeenNumbers DEF IInv, Inconsistent
  <2>2. ~(c > a) /\ ~(a > s.accepted) /\ ~(a < s.submitted) /\ ~(c < s.consumed)
    BY <1>4, <2>1 DEF Inconsistent
  <2>3. c <= a /\ a <= s.accepted /\ a >= s.submitted /\ c >= s.consumed
    BY <1>1, <2>2
  <2>4. s' = [s EXCEPT !.submitted = a, !.consumed = c]
    BY <1>4, <2>1
  <2>5. /\ s'.epoch = s.epoch /\ s'.accepted = s.accepted
        /\ s'.submitted = a /\ s'.consumed = c
    BY <1>1, <2>4 DEF SType
  <2> QED BY <2>3, <2>5 DEF Progress!Advance, Progress!Next
<1> QED BY <1>2, <1>3, <1>4 DEF Report, FailIf

\* Every step of the stream is a step or a stutter of PcmProgress.
LEMMA StepImplements ==
    ASSUME IInv, [Next]_vars
    PROVE  [Progress!Next]_(Progress!progress)
<1>1. CASE UNCHANGED vars
  <2>1. Stays
    BY <1>1 DEF vars, Stays
  <2> QED BY <2>1, StaysIsStutter
<1>2. CASE \E n \in 1..MaxSubmission : Enqueue(n)
  BY <1>2, EnqueueIsAccept
<1>3. CASE ClearStream \/ Off
  BY <1>3, ClearIsClear
<1>4. CASE Report
  BY <1>4, ReportIsAdvance
<1>5. CASE \/ WaitWritable \/ Created \/ Check \/ Space \/ Answered
           \/ CancelWorker \/ InterruptWorker \/ Join \/ CancelWait
           \/ Native \/ WaitProgress \/ Observe \/ Write \/ Room \/ Submit \/ Drain \/ Detach
           \/ Tick
  BY <1>5, Untouched, StaysIsStutter
<1>6. CASE \/ On \/ Destroy \/ Wake \/ Nudge \/ Settle \/ Store \/ CancelSignal \/ SetGain
           \/ (\E op \in {"flush", "off"} : Flush(op))
           \/ Attach \/ Look \/ Answer \/ Fault \/ Idle \/ Commit
  BY <1>6, Marked, StaysIsStutter
<1> QED BY <1>1, <1>2, <1>3, <1>4, <1>5, <1>6, Actions

\* The progress the stream reports keeps the contract of PcmProgress: within an
\* epoch it never goes back, and only a clear begins another (lib_audio_pcm_progress).
THEOREM StreamImplementsProgress == Spec => Implements
<1>1. Init => Progress!Init
  <2> SUFFICES ASSUME Init PROVE Progress!Init
    OBVIOUS
  <2>1. s.epoch = 0 /\ s.accepted = 0 /\ s.submitted = 0 /\ s.consumed = 0
    BY DEF Init
  <2> QED BY <2>1 DEF Progress!Init, Progress!progress
<1>2. IInv /\ [Next]_vars => [Progress!Next]_(Progress!progress)
  BY StepImplements
<1> QED BY <1>1, <1>2, Invariance, PTL DEF Spec, Implements, Progress!Spec
===============================================================================
