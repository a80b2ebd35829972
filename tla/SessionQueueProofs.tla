-------------------------- MODULE SessionQueueProofs --------------------------
(***************************************************************************)
(* SessionQueue for every initial capacity, every number of pushes and     *)
(* every number of native failures: its types, its wakes, and that the     *)
(* ring implements the queue that EventQueue promises.                     *)
(***************************************************************************)
EXTENDS SessionQueue, SequenceTheorems, TLAPS

Items == Events \cup {None}

\* The ith event, from 0, of the ring es that starts at f.
At(es, f, i) == es[((f + i) % Len(es)) + 1]

\* The n events, in order, of the ring es that starts at f.
RingOf(es, f, n) == [i \in 1..n |-> At(es, f, i - 1)]

\* es, f and n are a ring: its capacity is positive and its indices are in range.
IsRing(es, f, n) ==
    /\ es \in Seq(Items) /\ Len(es) \in Nat \ {0}
    /\ f \in 0..(Len(es) - 1) /\ n \in 0..Len(es)

\* The control thread is woken only by the event, and without native failures
\* the event is signaled only for something to take.
WokenForSomething ==
    /\ taker = "woken" => available
    /\ natives = 0 /\ available => count > 0 \/ \E c \in Classes : fault[c] # None

\* The inductive invariant.
IInv == TypeOK /\ NothingSleeps /\ NoSpuriousEnd /\ WokenForSomething

-----------------------------------------------------------------------------
\* An index of the ring wraps at most once.
LEMMA WrapsOnce ==
    ASSUME NEW c \in Nat \ {0}, NEW x \in 0..(2 * c - 1)
    PROVE  x % c = IF x < c THEN x ELSE x - c
<1>1. CASE x < c
  BY <1>1
<1>2. CASE x >= c
  BY <1>2
<1> QED BY <1>1, <1>2

\* A function on 1..n is a sequence of length n.
LEMMA FunctionIsSequence ==
    ASSUME NEW n \in Nat, NEW S, NEW f \in [1..n -> S]
    PROVE  f \in Seq(S) /\ Len(f) = n
<1>1. f \in Seq(S)
  BY SeqDef
<1>2. DOMAIN f = 1..n /\ DOMAIN f = 1..Len(f) /\ Len(f) \in Nat
  BY <1>1, LenProperties
<1> QED BY <1>1, <1>2

\* The ith event of a ring that starts at f lies in a slot of the ring.
LEMMA SlotOf ==
    ASSUME NEW c \in Nat \ {0}, NEW f \in 0..(c - 1), NEW i \in 0..(c - 1)
    PROVE  /\ (f + i) % c = IF f + i < c THEN f + i ELSE f + i - c
           /\ (f + i) % c \in 0..(c - 1)
           /\ ((f + i) % c) + 1 \in 1..c
<1>1. PICK x \in 0..(2 * c - 1) : x = f + i
  OBVIOUS
<1>2. x % c = IF x < c THEN x ELSE x - c
  BY WrapsOnce
<1>3. PICK y : y = x % c
  OBVIOUS
<1>4. y = (IF f + i < c THEN f + i ELSE f + i - c) /\ y = (f + i) % c
  BY <1>1, <1>2, <1>3
<1>5. y \in 0..(c - 1) /\ y + 1 \in 1..c
  BY <1>4
<1> QED BY <1>4, <1>5

\* Two events of the ring lie in two slots.
LEMMA SlotsDiffer ==
    ASSUME NEW c \in Nat \ {0}, NEW f \in 0..(c - 1),
           NEW i \in 0..(c - 1), NEW j \in 0..(c - 1), i # j
    PROVE  ((f + i) % c) + 1 # ((f + j) % c) + 1
<1>1. PICK x : x = (f + i) % c
  OBVIOUS
<1>2. PICK y : y = (f + j) % c
  OBVIOUS
<1>3. x = IF f + i < c THEN f + i ELSE f + i - c
  BY <1>1, SlotOf
<1>4. y = IF f + j < c THEN f + j ELSE f + j - c
  BY <1>2, SlotOf
<1>5. x + 1 # y + 1
  BY <1>3, <1>4
<1> QED BY <1>1, <1>2, <1>5

\* The event after the next one is the next one of the ring that starts one
\* slot later.
LEMMA NextSlot ==
    ASSUME NEW c \in Nat \ {0}, NEW f \in 0..(c - 1), NEW i \in 0..(c - 1), i + 1 <= c - 1
    PROVE  (((f + 1) % c) + i) % c = (f + (i + 1)) % c
<1>1. PICK g : g = (f + 1) % c
  OBVIOUS
<1>2. g = IF f + 1 < c THEN f + 1 ELSE f + 1 - c
  <2>1. 1 \in 0..(c - 1)
    OBVIOUS
  <2> QED BY <1>1, <2>1, SlotOf
<1>3. g \in 0..(c - 1)
  BY <1>2
<1>4. PICK x : x = (g + i) % c
  OBVIOUS
<1>5. PICK j \in 0..(c - 1) : j = i + 1
  OBVIOUS
<1>6. PICK y : y = (f + j) % c
  OBVIOUS
<1>7. x = IF g + i < c THEN g + i ELSE g + i - c
  BY <1>3, <1>4, SlotOf
<1>8. y = IF f + j < c THEN f + j ELSE f + j - c
  BY <1>6, SlotOf
<1>9. x = y
  BY <1>2, <1>5, <1>7, <1>8
<1> QED BY <1>1, <1>4, <1>5, <1>6, <1>9

\* A ring stands for the sequence of its events.
LEMMA RingIsSequence ==
    ASSUME NEW es, NEW f, NEW n, IsRing(es, f, n)
    PROVE  /\ RingOf(es, f, n) \in Seq(Items) /\ Len(RingOf(es, f, n)) = n
           /\ \A i \in 1..n : RingOf(es, f, n)[i] = At(es, f, i - 1)
<1>1. ASSUME NEW i \in 1..n
      PROVE  At(es, f, i - 1) \in Items
  <2>1. PICK j \in 0..(Len(es) - 1) : j = i - 1
    BY DEF IsRing
  <2>2. ((f + j) % Len(es)) + 1 \in 1..Len(es)
    BY SlotOf DEF IsRing
  <2> QED BY <2>1, <2>2, ElementOfSeq DEF At, IsRing
<1>2. RingOf(es, f, n) \in [1..n -> Items]
  BY <1>1 DEF RingOf
<1>3. n \in Nat
  BY DEF IsRing
<1>4. RingOf(es, f, n) \in Seq(Items) /\ Len(RingOf(es, f, n)) = n
  BY <1>2, <1>3, FunctionIsSequence
<1>5. \A i \in 1..n : RingOf(es, f, n)[i] = At(es, f, i - 1)
  BY DEF RingOf
<1> QED BY <1>4, <1>5

\* An event stored in the first free slot is appended.
LEMMA RingAppend ==
    ASSUME NEW es, NEW f, NEW n, IsRing(es, f, n), n < Len(es), NEW e \in Items,
           NEW fs \in Seq(Items), Len(fs) = Len(es),
           \A j \in 1..Len(es) : fs[j] = IF j = ((f + n) % Len(es)) + 1 THEN e ELSE es[j]
    PROVE  /\ IsRing(fs, f, n + 1)
           /\ RingOf(fs, f, n + 1) = Append(RingOf(es, f, n), e)
<1> DEFINE c == Len(es)
<1>1. c \in Nat \ {0} /\ f \in 0..(c - 1) /\ n \in 0..(c - 1) /\ es \in Seq(Items)
  BY DEF IsRing
<1>2. PICK s : s = ((f + n) % c) + 1
  OBVIOUS
<1>3. s \in 1..c
  BY <1>1, <1>2, SlotOf
<1>4. /\ fs \in Seq(Items) /\ Len(fs) = c
      /\ \A j \in 1..c : fs[j] = IF j = s THEN e ELSE es[j]
  BY <1>2
<1>5. IsRing(fs, f, n + 1)
  BY <1>1, <1>4 DEF IsRing
<1>6. At(fs, f, n) = e
  BY <1>2, <1>3, <1>4 DEF At
<1>7. ASSUME NEW i \in 0..(n - 1)
      PROVE  At(fs, f, i) = At(es, f, i)
  <2>1. i \in 0..(c - 1) /\ i # n
    BY <1>1
  <2>2. PICK t : t = ((f + i) % c) + 1
    OBVIOUS
  <2>3. t \in 1..c
    BY <1>1, <2>1, <2>2, SlotOf
  <2>4. t # s
    BY <1>1, <1>2, <2>1, <2>2, SlotsDiffer
  <2> QED BY <1>4, <2>2, <2>3, <2>4 DEF At
<1> DEFINE q == RingOf(es, f, n)
           r == RingOf(fs, f, n + 1)
<1>8. /\ q \in Seq(Items) /\ Len(q) = n
      /\ \A i \in 1..n : q[i] = At(es, f, i - 1)
  BY RingIsSequence
<1>9. /\ r \in Seq(Items) /\ Len(r) = n + 1
      /\ \A i \in 1..(n + 1) : r[i] = At(fs, f, i - 1)
  BY <1>5, RingIsSequence
<1>10. /\ Append(q, e) \in Seq(Items) /\ Len(Append(q, e)) = n + 1
       /\ \A i \in 1..n : Append(q, e)[i] = q[i]
       /\ Append(q, e)[n + 1] = e
  BY <1>8, AppendProperties
<1> HIDE DEF q, r
<1>11. ASSUME NEW i \in 1..(n + 1)
       PROVE  r[i] = Append(q, e)[i]
  <2>1. CASE i = n + 1
    <3>1. i - 1 = n
      BY <1>1, <2>1
    <3> QED BY <1>6, <1>9, <1>10, <2>1, <3>1
  <2>2. CASE i # n + 1
    <3>1. i \in 1..n /\ i - 1 \in 0..(n - 1)
      BY <1>1, <2>2
    <3>2. At(fs, f, i - 1) = At(es, f, i - 1)
      BY <1>7, <3>1
    <3> QED BY <1>8, <1>9, <1>10, <3>1, <3>2
  <2> QED BY <2>1, <2>2
<1>12. r = Append(q, e)
  BY <1>9, <1>10, <1>11, SeqEqual
<1> QED BY <1>5, <1>12 DEF q, r

\* A ring that starts one slot later stands for the tail.
LEMMA RingTail ==
    ASSUME NEW es, NEW f, NEW n, IsRing(es, f, n), n > 0
    PROVE  /\ IsRing(es, (f + 1) % Len(es), n - 1)
           /\ RingOf(es, f, n) # <<>>
           /\ Head(RingOf(es, f, n)) = At(es, f, 0) /\ At(es, f, 0) \in Items
           /\ RingOf(es, (f + 1) % Len(es), n - 1) = Tail(RingOf(es, f, n))
<1> DEFINE c == Len(es)
<1>1. c \in Nat \ {0} /\ f \in 0..(c - 1) /\ n \in 1..c /\ es \in Seq(Items)
  BY DEF IsRing
<1>2. PICK g : g = (f + 1) % c
  OBVIOUS
<1>3. g \in 0..(c - 1)
  <2>1. CASE c = 1
    <3>1. f = 0 /\ (0 + 1) % 1 = 0
      BY <1>1, <2>1
    <3> QED BY <1>2, <2>1, <3>1
  <2>2. CASE c # 1
    <3>1. 1 \in 0..(c - 1)
      BY <1>1, <2>2
    <3> QED BY <1>1, <1>2, <3>1, SlotOf
  <2> QED BY <2>1, <2>2
<1>4. IsRing(es, g, n - 1)
  BY <1>1, <1>3 DEF IsRing
<1> DEFINE q == RingOf(es, f, n)
           r == RingOf(es, g, n - 1)
<1>5. /\ q \in Seq(Items) /\ Len(q) = n
      /\ \A i \in 1..n : q[i] = At(es, f, i - 1)
  BY RingIsSequence
<1>6. /\ r \in Seq(Items) /\ Len(r) = n - 1
      /\ \A i \in 1..(n - 1) : r[i] = At(es, g, i - 1)
  BY <1>4, RingIsSequence
<1> HIDE DEF q, r
<1>7. q # <<>>
  BY <1>1, <1>5, EmptySeq
<1>8. /\ Head(q) = q[1] /\ Tail(q) \in Seq(Items) /\ Len(Tail(q)) = n - 1
      /\ \A i \in 1..(n - 1) : Tail(q)[i] = q[i + 1]
  BY <1>5, <1>7, HeadTailProperties
<1>9. q[1] = At(es, f, 0) /\ At(es, f, 0) \in Items
  <2>1. 1 \in 1..n /\ 1 - 1 = 0
    BY <1>1
  <2> QED BY <1>5, <2>1, ElementOfSeq
<1>10. ASSUME NEW i \in 1..(n - 1)
       PROVE  r[i] = Tail(q)[i]
  <2>1. PICK j \in 0..(c - 1) : j = i - 1
    BY <1>1
  <2>2. j + 1 <= c - 1 /\ j + 1 = i /\ i + 1 \in 1..n /\ (i + 1) - 1 = i
    BY <1>1, <2>1
  <2>3. (g + j) % c = (f + i) % c
    BY <1>1, <1>2, <2>1, <2>2, NextSlot
  <2>4. At(es, g, j) = At(es, f, i)
    BY <2>3 DEF At
  <2>5. r[i] = At(es, g, j)
    BY <1>6, <2>1
  <2>6. q[i + 1] = At(es, f, i)
    BY <1>5, <2>2
  <2> QED BY <1>8, <2>4, <2>5, <2>6
<1>11. r = Tail(q)
  BY <1>6, <1>8, <1>10, SeqEqual
<1> QED BY <1>2, <1>4, <1>7, <1>8, <1>9, <1>11 DEF q, r

\* The state's ring is one.
LEMMA StateRing ==
    ASSUME TypeOK
    PROVE  IsRing(events, first, count)
<1> QED BY DEF TypeOK, Capacity, IsRing, Items

\* The ring that a push writes to has room, and holds the same events.
LEMMA GrownRing ==
    ASSUME TypeOK
    PROVE  /\ IsRing(Grown.events, Grown.first, count) /\ count < Len(Grown.events)
           /\ RingOf(Grown.events, Grown.first, count) = RingOf(events, first, count)
<1>1. /\ events \in Seq(Items) /\ Capacity \in Nat \ {0} /\ Capacity = Len(events)
      /\ first \in 0..(Capacity - 1) /\ count \in 0..Capacity
  BY StateRing DEF Capacity, IsRing
<1>2. CASE count # Capacity
  <2>1. Grown.events = events /\ Grown.first = first
    BY <1>2 DEF Grown
  <2> QED BY <1>1, <1>2, <2>1 DEF IsRing
<1>3. CASE count = Capacity
  <2>1. Grown.events = Expanded /\ Grown.first = 0
    BY <1>3 DEF Grown
  <2>2. PICK d : d = 2 * Capacity
    OBVIOUS
  <2>3. d \in Nat \ {0} /\ count \in 0..(d - 1) /\ count < d
    BY <1>1, <1>3, <2>2
  <2>4. /\ RingOf(events, first, count) \in Seq(Items)
        /\ Len(RingOf(events, first, count)) = count
        /\ \A i \in 1..count : RingOf(events, first, count)[i] = At(events, first, i - 1)
    BY StateRing, RingIsSequence
  <2>5. \A i \in 1..count : /\ events[Slot(i - 1)] = RingOf(events, first, count)[i]
                            /\ events[Slot(i - 1)] \in Items
    BY <2>4, ElementOfSeq DEF At, Slot, Capacity
  <2>6. Expanded = [i \in 1..d |-> IF i <= count THEN events[Slot(i - 1)] ELSE None]
    BY <2>2 DEF Expanded
  <2>7. Expanded \in [1..d -> Items]
    <3>1. ASSUME NEW i \in 1..d
          PROVE  (IF i <= count THEN events[Slot(i - 1)] ELSE None) \in Items
      BY <1>1, <2>5 DEF Items
    <3> QED BY <2>6, <3>1
  <2>8. Expanded \in Seq(Items) /\ Len(Expanded) = d
    BY <2>3, <2>7, FunctionIsSequence
  <2>9. IsRing(Expanded, 0, count)
    BY <2>3, <2>8 DEF IsRing
  <2>10. /\ RingOf(Expanded, 0, count) \in Seq(Items)
         /\ Len(RingOf(Expanded, 0, count)) = count
         /\ \A i \in 1..count : RingOf(Expanded, 0, count)[i] = At(Expanded, 0, i - 1)
    BY <2>9, RingIsSequence
  <2>11. ASSUME NEW i \in 1..count
         PROVE  At(Expanded, 0, i - 1) = events[Slot(i - 1)]
    <3>1. PICK j \in 0..(d - 1) : j = i - 1
      BY <2>3
    <3>2. j + 1 = i /\ i \in 1..d /\ i <= count /\ 0 + j = j /\ j < d /\ 0 \in 0..(d - 1)
      BY <2>3, <3>1
    <3>3. (0 + j) % d = j
      <4>1. (0 + j) % d = IF 0 + j < d THEN 0 + j ELSE 0 + j - d
        BY <2>3, <3>2, SlotOf
      <4> QED BY <3>2, <4>1
    <3>4. Expanded[i] = events[Slot(i - 1)]
      BY <2>6, <3>2
    <3> QED BY <2>8, <3>1, <3>2, <3>3, <3>4 DEF At
  <2>12. RingOf(Expanded, 0, count) = RingOf(events, first, count)
    <3>1. \A i \in 1..count : RingOf(Expanded, 0, count)[i] = RingOf(events, first, count)[i]
      BY <2>5, <2>10, <2>11
    <3> QED BY <2>4, <2>10, <3>1, SeqEqual
  <2> QED BY <2>1, <2>3, <2>8, <2>9, <2>12
<1> QED BY <1>2, <1>3

-----------------------------------------------------------------------------
\* A push stores its event behind the others.
LEMMA StoreAppends ==
    ASSUME TypeOK, NEW e \in Events, Store(e)
    PROVE  /\ IsRing(events', first', count')
           /\ RingOf(events', first', count') = Append(RingOf(events, first, count), e)
<1>1. PICK es, f, n : es = Grown.events /\ f = Grown.first /\ n = count
  OBVIOUS
<1>2. /\ IsRing(es, f, n) /\ n < Len(es)
      /\ RingOf(es, f, n) = RingOf(events, first, count)
  BY <1>1, GrownRing
<1>3. PICK s : s = ((f + n) % Len(es)) + 1
  OBVIOUS
<1>4. PICK fs : fs = [es EXCEPT ![s] = e]
  OBVIOUS
<1>5. fs = events' /\ first' = f /\ count' = n + 1 /\ e \in Items
  BY <1>1, <1>3, <1>4 DEF Store, Items
<1>6. s \in 1..Len(es)
  <2>1. PICK c \in Nat \ {0} : c = Len(es)
    BY <1>2 DEF IsRing
  <2>2. f \in 0..(c - 1) /\ n \in 0..(c - 1)
    BY <1>2, <2>1 DEF IsRing
  <2> QED BY <1>3, <2>1, <2>2, SlotOf
<1>7. /\ fs \in Seq(Items) /\ Len(fs) = Len(es)
      /\ \A j \in 1..Len(es) : fs[j] = IF j = s THEN e ELSE es[j]
  BY <1>2, <1>4, <1>5, <1>6, ExceptSeq DEF IsRing
<1>8. IsRing(fs, f, n + 1) /\ RingOf(fs, f, n + 1) = Append(RingOf(es, f, n), e)
  BY <1>2, <1>3, <1>5, <1>7, RingAppend
<1> QED BY <1>2, <1>5, <1>8

\* A refused push may double the ring, and keeps its events.
LEMMA RefuseKeeps ==
    ASSUME TypeOK, NEW e \in Events, Refuse(e)
    PROVE  /\ IsRing(events', first', count')
           /\ RingOf(events', first', count') = RingOf(events, first, count)
<1>1. count' = count
  BY DEF Refuse
<1>2. CASE UNCHANGED <<events, first>>
  BY <1>1, <1>2, StateRing
<1>3. CASE events' = Grown.events /\ first' = Grown.first
  BY <1>1, <1>3, GrownRing
<1> QED BY <1>2, <1>3 DEF Refuse

\* The parts of a step, without the ring.
LEMMA PushEffect ==
    ASSUME TypeOK, NEW class \in Classes, Push(class)
    PROVE  \E e \in Events :
             /\ e.id = pushes' /\ e.class = class
             /\ Store(e) \/ Refuse(e)
             /\ pushes < MaxPushes /\ pushes' = pushes + 1 /\ pushes' \in 0..MaxPushes
             /\ UNCHANGED <<fault, taken, taker, muted>>
<1> DEFINE e == [class |-> class, id |-> pushes']
<1>1. pushes < MaxPushes /\ pushes' = pushes + 1 /\ pushes \in 0..MaxPushes
  BY DEF Push, TypeOK
<1>2. pushes' \in 1..MaxPushes
  BY <1>1, MaxPushesAssumption
<1>3. e \in Events /\ e.id = pushes' /\ e.class = class
  BY <1>2 DEF Events
<1>4. Store(e) \/ Refuse(e)
  BY DEF Push
<1> HIDE DEF e
<1> QED BY <1>1, <1>2, <1>3, <1>4 DEF Push

\* A native failure is counted, and never beyond its bound.
LEMMA NativeFaultCounted ==
    ASSUME TypeOK, NativeFault
    PROVE  natives' \in 0..MaxFaults /\ natives' > 0
<1> QED BY MaxFaultsAssumption DEF TypeOK, NativeFault

\* The invariant holds of a new queue.
LEMMA InitInv == Init => IInv
<1> SUFFICES ASSUME Init PROVE IInv
  OBVIOUS
<1>1. events \in [1..InitialCapacity -> Items] /\ InitialCapacity \in Nat
  BY InitialCapacityAssumption DEF Init, Items
<1>2. events \in Seq(Items) /\ Len(events) = InitialCapacity
  BY <1>1, FunctionIsSequence
<1>3. first \in 0..(Capacity - 1) /\ count \in 0..Capacity
  BY <1>2, InitialCapacityAssumption DEF Init, Capacity
<1>4. TypeOK
  <2>1. fault \in [Classes -> Items] /\ lost \subseteq Events
    BY DEF Init, Items
  <2>2. taken \in [kind : {"nothing", "event", "failure"}, event : Items]
    BY DEF Init, Took, Items
  <2>3. pushes \in 0..MaxPushes /\ natives \in 0..MaxFaults
    BY MaxPushesAssumption, MaxFaultsAssumption DEF Init
  <2>4. available \in BOOLEAN /\ muted \in BOOLEAN /\ taker \in {"waiting", "woken", "over"}
    BY DEF Init
  <2> QED BY <1>2, <1>3, <2>1, <2>2, <2>3, <2>4 DEF TypeOK, Items
<1>5. NothingSleeps /\ NoSpuriousEnd /\ WokenForSomething
  BY DEF Init, NothingSleeps, NoSpuriousEnd, WokenForSomething
<1> QED BY <1>4, <1>5 DEF IInv

\* The types of a step, when its ring is one.
LEMMA TypesFromRing ==
    ASSUME IsRing(events', first', count'),
           fault' \in [Classes -> Items], available' \in BOOLEAN, muted' \in BOOLEAN,
           lost' \subseteq Events,
           taken' \in [kind : {"nothing", "event", "failure"}, event : Items],
           taker' \in {"waiting", "woken", "over"},
           pushes' \in 0..MaxPushes, natives' \in 0..MaxFaults
    PROVE  TypeOK'
<1> QED BY DEF IsRing, TypeOK, Capacity, Items

\* A push keeps the invariant: it signals before it stores.
LEMMA PushInv ==
    ASSUME IInv, NEW class \in Classes, Push(class)
    PROVE  IInv'
<1>1. TypeOK /\ NothingSleeps /\ NoSpuriousEnd /\ WokenForSomething
  BY DEF IInv
<1>2. PICK e \in Events :
        /\ Store(e) \/ Refuse(e)
        /\ pushes' \in 0..MaxPushes
        /\ UNCHANGED <<fault, taken, taker, muted>>
  BY <1>1, PushEffect
<1>3. /\ fault' \in [Classes -> Items] /\ muted' \in BOOLEAN
      /\ taken' \in [kind : {"nothing", "event", "failure"}, event : Items]
      /\ taker' \in {"waiting", "woken", "over"}
      /\ count \in Nat /\ natives \in 0..MaxFaults /\ lost \subseteq Events /\ available \in BOOLEAN
  BY <1>1, <1>2 DEF TypeOK, Items, Capacity
<1>4. CASE Store(e)
  <2>1. IsRing(events', first', count')
    BY <1>1, <1>4, StoreAppends
  <2>2. available' = TRUE /\ count' = count + 1 /\ lost' = lost /\ natives' = natives
    BY <1>4 DEF Store
  <2>3. TypeOK'
    BY <1>2, <1>3, <2>1, <2>2, TypesFromRing
  <2>4. NothingSleeps'
    BY <2>2 DEF NothingSleeps
  <2>5. NoSpuriousEnd'
    BY <1>1, <1>2, <2>2 DEF NoSpuriousEnd
  <2>6. WokenForSomething'
    <3>1. count' > 0
      BY <1>3, <2>2
    <3> QED BY <2>2, <3>1 DEF WokenForSomething
  <2> QED BY <2>3, <2>4, <2>5, <2>6 DEF IInv
<1>5. CASE Refuse(e)
  <2>1. IsRing(events', first', count')
    BY <1>1, <1>5, RefuseKeeps
  <2>2. /\ lost' = lost \cup {e} /\ count' = count /\ available' = available
        /\ natives' = natives \/ NativeFault
    BY <1>5 DEF Refuse
  <2>3. natives' \in 0..MaxFaults /\ (natives' = natives \/ natives' > 0)
    BY <1>1, <1>3, <2>2, NativeFaultCounted
  <2>4. TypeOK'
    BY <1>2, <1>3, <2>1, <2>2, <2>3, TypesFromRing
  <2>5. NothingSleeps'
    BY <1>1, <1>2, <2>2 DEF NothingSleeps
  <2>6. NoSpuriousEnd'
    BY <1>1, <1>2, <2>3 DEF NoSpuriousEnd
  <2>7. WokenForSomething'
    <3>1. natives' = 0 => natives = 0
      BY <2>3
    <3> QED BY <1>1, <1>2, <2>2, <3>1 DEF WokenForSomething
  <2> QED BY <2>4, <2>5, <2>6, <2>7 DEF IInv
<1> QED BY <1>2, <1>4, <1>5

\* A latched failure is signaled, or the queue is muted.
LEMMA LatchInv ==
    ASSUME IInv, NEW e \in Events, LatchFailure(e)
    PROVE  IInv'
<1>1. TypeOK /\ NothingSleeps /\ NoSpuriousEnd /\ WokenForSomething
  BY DEF IInv
<1>2. /\ fault' = [fault EXCEPT ![e.class] = IF @ = None THEN e ELSE @]
      /\ lost' = lost \ {e} /\ events' = events /\ first' = first /\ count' = count
      /\ taken' = taken /\ taker' = taker /\ pushes' = pushes
      /\ \/ available' = TRUE /\ natives' = natives /\ muted' = muted
         \/ NativeFault /\ muted' = TRUE /\ available' = available
  BY DEF LatchFailure, ring
<1>3. /\ fault \in [Classes -> Items] /\ muted \in BOOLEAN /\ available \in BOOLEAN
      /\ taken \in [kind : {"nothing", "event", "failure"}, event : Items]
      /\ taker \in {"waiting", "woken", "over"} /\ pushes \in 0..MaxPushes
      /\ natives \in 0..MaxFaults /\ lost \subseteq Events
  BY <1>1 DEF TypeOK, Items
<1>4. e.class \in Classes /\ e \in Items /\ e # None
  BY NoneAssumption DEF Events, Items
<1>5. fault' \in [Classes -> Items] /\ fault'[e.class] # None
  BY <1>2, <1>3, <1>4
<1>6. natives' \in 0..MaxFaults /\ (natives' = natives \/ natives' > 0)
  BY <1>1, <1>2, <1>3, NativeFaultCounted
<1>7. TypeOK'
  <2>1. IsRing(events', first', count')
    BY <1>1, <1>2, StateRing
  <2> QED BY <1>2, <1>3, <1>5, <1>6, <2>1, TypesFromRing
<1>8. NothingSleeps'
  BY <1>1, <1>2 DEF NothingSleeps
<1>9. NoSpuriousEnd'
  BY <1>1, <1>2, <1>6 DEF NoSpuriousEnd
<1>10. WokenForSomething'
  BY <1>1, <1>2, <1>4, <1>5 DEF WokenForSomething
<1> QED BY <1>7, <1>8, <1>9, <1>10 DEF IInv

\* The wait keeps the invariant.
LEMMA WaitInv ==
    ASSUME IInv, Wait
    PROVE  IInv'
<1>1. TypeOK /\ NothingSleeps /\ NoSpuriousEnd /\ WokenForSomething
  BY DEF IInv
<1>2. /\ events' = events /\ first' = first /\ count' = count /\ fault' = fault
      /\ available' = available /\ lost' = lost /\ taken' = taken
      /\ pushes' = pushes /\ muted' = muted
      /\ \/ available /\ taker' = "woken" /\ natives' = natives
         \/ NativeFault /\ taker' = "over"
  BY DEF Wait, ring
<1>3. natives' \in 0..MaxFaults /\ (natives' = natives \/ natives' > 0)
  BY <1>1, <1>2, NativeFaultCounted DEF TypeOK
<1>4. TypeOK'
  <2>1. IsRing(events', first', count')
    BY <1>1, <1>2, StateRing
  <2>2. taker' \in {"waiting", "woken", "over"}
    BY <1>2
  <2>3. /\ fault \in [Classes -> Items] /\ muted \in BOOLEAN /\ available \in BOOLEAN
        /\ taken \in [kind : {"nothing", "event", "failure"}, event : Items]
        /\ pushes \in 0..MaxPushes /\ lost \subseteq Events
    BY <1>1 DEF TypeOK, Items
  <2> QED BY <1>2, <1>3, <2>1, <2>2, <2>3, TypesFromRing
<1>5. NothingSleeps'
  BY <1>1, <1>2 DEF NothingSleeps
<1>6. NoSpuriousEnd'
  <2>1. CASE taker' = "woken"
    BY <2>1 DEF NoSpuriousEnd
  <2>2. CASE NativeFault
    BY <1>1, <2>2, NativeFaultCounted DEF NoSpuriousEnd
  <2> QED BY <1>2, <2>1, <2>2
<1>7. WokenForSomething'
  <2>1. natives' = 0 => natives = 0
    BY <1>1, <1>3
  <2> QED BY <1>1, <1>2, <2>1 DEF WokenForSomething
<1> QED BY <1>4, <1>5, <1>6, <1>7 DEF IInv

\* What a take does, whatever it finds.
LEMMA TakeEffect ==
    ASSUME TypeOK, Take
    PROVE  /\ taker = "woken" /\ lost' = lost /\ pushes' = pushes /\ muted' = muted
           /\ events' = events /\ IsRing(events', first', count')
           /\ fault' \in [Classes -> Items]
           /\ taken' \in [kind : {"nothing", "event", "failure"}, event : Items]
           /\ taker' \in {"waiting", "over"}
           /\ \/ available' = (available /\ ~Idle) /\ natives' = natives
              \/ Idle /\ NativeFault /\ available' = available
<1>1. /\ taker = "woken" /\ lost' = lost /\ pushes' = pushes /\ muted' = muted
      /\ \/ available' = (available /\ ~Idle) /\ natives' = natives
         \/ Idle /\ NativeFault /\ available' = available
  BY DEF Take, ResetWhenIdle
<1>2. IsRing(events, first, count)
  BY StateRing
<1>3. /\ fault \in [Classes -> Items]
      /\ taken \in [kind : {"nothing", "event", "failure"}, event : Items]
  BY DEF TypeOK, Items
<1>4. CASE /\ count > 0 /\ taken' = Took("event", events[Slot(0)])
           /\ first' = (first + 1) % Capacity /\ count' = count - 1
           /\ taker' = "waiting" /\ UNCHANGED <<events, fault>>
  <2>1. At(events, first, 0) = events[Slot(0)]
    BY DEF At, Slot, Capacity
  <2>2. IsRing(events, (first + 1) % Capacity, count - 1) /\ At(events, first, 0) \in Items
    BY <1>2, <1>4, RingTail DEF Capacity
  <2>3. taken' \in [kind : {"nothing", "event", "failure"}, event : Items]
    BY <1>4, <2>1, <2>2 DEF Took
  <2> QED BY <1>1, <1>3, <1>4, <2>2, <2>3
<1>5. CASE /\ taken' = Took("failure", fault[FailureFirst])
           /\ fault' = [fault EXCEPT ![FailureFirst] = None]
           /\ taker' = "over" /\ UNCHANGED ring
  <2>1. FailureFirst \in Classes
    BY DEF FailureFirst, Classes
  <2>2. fault' \in [Classes -> Items] /\ fault[FailureFirst] \in Items
    BY <1>3, <1>5, <2>1 DEF Items
  <2>3. taken' \in [kind : {"nothing", "event", "failure"}, event : Items]
    BY <1>5, <2>2 DEF Took
  <2> QED BY <1>1, <1>2, <1>5, <2>2, <2>3 DEF ring
<1>6. CASE taker' = "over" /\ UNCHANGED <<ring, fault, taken>>
  BY <1>1, <1>2, <1>3, <1>6 DEF ring
<1> QED BY <1>4, <1>5, <1>6 DEF Take

\* A take keeps the invariant: it resets the event only when nothing is left.
LEMMA TakeInv ==
    ASSUME IInv, Take
    PROVE  IInv'
<1>1. TypeOK /\ NothingSleeps /\ NoSpuriousEnd /\ WokenForSomething
  BY DEF IInv
<1>2. /\ taker = "woken" /\ lost' = lost /\ pushes' = pushes /\ muted' = muted
      /\ events' = events /\ IsRing(events', first', count')
      /\ fault' \in [Classes -> Items]
      /\ taken' \in [kind : {"nothing", "event", "failure"}, event : Items]
      /\ taker' \in {"waiting", "over"}
  BY <1>1, TakeEffect
<1>3. \/ available' = (available /\ ~Idle) /\ natives' = natives
      \/ Idle /\ NativeFault /\ available' = available
  BY <1>1, TakeEffect
<1>4. natives' \in 0..MaxFaults /\ (natives' = natives \/ natives' > 0)
  BY <1>1, <1>3, NativeFaultCounted DEF TypeOK
<1>5. available /\ available' \in BOOLEAN
  BY <1>1, <1>2, <1>3 DEF WokenForSomething, TypeOK
<1>6. ~Idle => available'
  BY <1>3, <1>5
<1>7. Idle <=> count' = 0 /\ \A c \in Classes : fault'[c] = None
  BY DEF Idle
<1>8. count' \in Nat
  BY <1>2 DEF IsRing
<1>9. TypeOK'
  <2>1. lost \subseteq Events /\ pushes \in 0..MaxPushes /\ muted \in BOOLEAN
    BY <1>1 DEF TypeOK
  <2>2. taker' \in {"waiting", "woken", "over"}
    BY <1>2
  <2> QED BY <1>2, <1>4, <1>5, <2>1, <2>2, TypesFromRing
<1>10. NothingSleeps'
  <2>1. count' > 0 => available'
    BY <1>6, <1>7
  <2>2. \A c \in Classes : fault'[c] # None => available'
    BY <1>6, <1>7
  <2> QED BY <2>1, <2>2 DEF NothingSleeps
<1>11. NoSpuriousEnd'
  <2>1. CASE natives' > 0
    BY <2>1 DEF NoSpuriousEnd
  <2>2. CASE ~(natives' > 0)
    <3>1. natives = 0
      BY <1>1, <1>4, <2>2 DEF TypeOK
    <3>2. count > 0 \/ \E c \in Classes : fault[c] # None
      BY <1>1, <1>5, <3>1 DEF WokenForSomething
    <3>3. taker' = "waiting" \/ taken' = Took("failure", fault[FailureFirst])
      BY <3>2 DEF Take
    <3>4. taken' = Took("failure", fault[FailureFirst]) => taken'.kind = "failure"
      BY DEF Took
    <3> QED BY <3>3, <3>4 DEF NoSpuriousEnd
  <2> QED BY <2>1, <2>2
<1>12. WokenForSomething'
  <2>1. taker' # "woken"
    BY <1>2
  <2>2. CASE natives' # 0
    BY <2>1, <2>2 DEF WokenForSomething
  <2>3. CASE natives' = 0
    <3>1. natives' = natives /\ ~(natives' > 0)
      BY <1>4, <2>3
    <3>2. ~NativeFault
      BY <1>1, <3>1, NativeFaultCounted
    <3>3. available' => ~Idle
      BY <1>3, <3>2
    <3>4. available' => count' > 0 \/ \E c \in Classes : fault'[c] # None
      <4>1. count' = 0 \/ count' > 0
        BY <1>8
      <4> QED BY <1>7, <3>3, <4>1
    <3> QED BY <2>1, <3>4 DEF WokenForSomething
  <2> QED BY <2>2, <2>3
<1> QED BY <1>9, <1>10, <1>11, <1>12 DEF IInv

\* The invariant is inductive.
LEMMA NextInv == IInv /\ [Next]_vars => IInv'
<1> SUFFICES ASSUME IInv, [Next]_vars PROVE IInv'
  OBVIOUS
<1>1. CASE \E class \in Classes : Push(class)
  BY <1>1, PushInv
<1>2. CASE \E e \in Events : LatchFailure(e)
  BY <1>2, LatchInv
<1>3. CASE Wait
  BY <1>3, WaitInv
<1>4. CASE Take
  BY <1>4, TakeInv
<1>5. CASE UNCHANGED vars
  <2>1. /\ UNCHANGED <<events, first, count, fault, available, lost, taken, taker>>
        /\ UNCHANGED <<pushes, natives, muted>>
    BY <1>5 DEF vars, ring
  <2> QED BY <2>1 DEF IInv, TypeOK, NothingSleeps, NoSpuriousEnd, WokenForSomething, Capacity
<1> QED BY <1>1, <1>2, <1>3, <1>4, <1>5 DEF Next

\* Every state of the queue satisfies the invariant.
LEMMA Invariance == Spec => []IInv
<1> QED BY InitInv, NextInv, PTL DEF Spec

-----------------------------------------------------------------------------
\* The ring's indices stay in range, and its variables in their types,
\* through every growth and wrap (control.c 17-34, 60-70, 186-190).
THEOREM TypeCorrect == Spec => []TypeOK
<1>1. IInv => TypeOK
  BY DEF IInv
<1> QED BY <1>1, Invariance, PTL

\* Nothing waits in the queue while the control thread may sleep (control.c
\* 62, 197), for every interleaving of pushes, latches, waits and takes.
THEOREM QueueNeverSleeps == Spec => []NothingSleeps
<1>1. IInv => NothingSleeps
  BY DEF IInv
<1> QED BY <1>1, Invariance, PTL

\* The control thread is never woken to find nothing, unless a native
\* synchronization call has failed (session.c 404).
THEOREM EndsForAReason == Spec => []NoSpuriousEnd
<1>1. IInv => NoSpuriousEnd
  BY DEF IInv
<1> QED BY <1>1, Invariance, PTL

-----------------------------------------------------------------------------
\* What queue stands for in EventQueue.
LEMMA QueueIsRing ==
    [i \in 1..count |-> events[Slot(i - 1)]] = RingOf(events, first, count)
<1> QED BY DEF RingOf, At, Slot, Capacity

\* A new queue is empty.
LEMMA InitMaps == Init => Promised!Init
<1> SUFFICES ASSUME Init PROVE Promised!Init
  OBVIOUS
<1>1. [i \in 1..count |-> events[Slot(i - 1)]] = <<>>
  <2>1. RingOf(events, first, count) \in Seq(Items) /\ Len(RingOf(events, first, count)) = 0
    <3>1. TypeOK /\ count = 0
      BY InitInv DEF IInv, Init
    <3> QED BY <3>1, StateRing, RingIsSequence
  <2>2. RingOf(events, first, count) = <<>>
    BY <2>1, EmptySeq
  <2> QED BY <2>2, QueueIsRing
<1> QED BY <1>1 DEF Init, Promised!Init, Promised!Took, Promised!Classes, Took, Classes

\* A step of the ring is a step of the promised queue, or changes none of it.
LEMMA StepMaps == IInv /\ IInv' /\ [Next]_vars => [Promised!Next]_(Promised!vars)
<1> SUFFICES ASSUME IInv, IInv', [Next]_vars PROVE [Promised!Next]_(Promised!vars)
  OBVIOUS
<1> DEFINE q == [i \in 1..count |-> events[Slot(i - 1)]]
<1>1. TypeOK
  BY DEF IInv
<1>2. q = RingOf(events, first, count) /\ q' = RingOf(events', first', count')
  <2>1. q = RingOf(events, first, count)
    BY QueueIsRing
  <2>2. q' = RingOf(events', first', count')
    BY DEF RingOf, At, Slot, Capacity
  <2> QED BY <2>1, <2>2
<1>3. UNCHANGED <<q, lost, fault, taken, pushes>> => UNCHANGED Promised!vars
  BY DEF Promised!vars
<1> HIDE DEF q
<1>4. ASSUME NEW class \in Classes, Push(class)
      PROVE  Promised!Next
  <2>1. PICK e \in Events :
          /\ e.id = pushes'
          /\ Store(e) \/ Refuse(e)
          /\ pushes < MaxPushes /\ pushes' = pushes + 1
          /\ UNCHANGED <<fault, taken, taker, muted>>
    BY <1>1, <1>4, PushEffect
  <2>2. e \in Promised!Events /\ Promised!Offer(e)
    <3>1. e \in Promised!Events
      BY DEF Events, Classes, Promised!Events, Promised!Classes
    <3>2. Promised!Offer(e)
      BY <2>1 DEF Promised!Offer
    <3> QED BY <3>1, <3>2
  <2>3. CASE Store(e)
    <3>1. q' = Append(q, e)
      BY <1>1, <1>2, <2>3, StoreAppends
    <3>2. Promised!Accept(e)
      BY <2>1, <2>2, <2>3, <3>1 DEF Promised!Accept, Store, q
    <3> QED BY <2>2, <3>2 DEF Promised!Next
  <2>4. CASE Refuse(e)
    <3>1. q' = q
      BY <1>1, <1>2, <2>4, RefuseKeeps
    <3>2. Promised!Lose(e)
      BY <2>1, <2>2, <2>4, <3>1 DEF Promised!Lose, Refuse, q
    <3> QED BY <2>2, <3>2 DEF Promised!Next
  <2> QED BY <2>1, <2>3, <2>4
<1>5. ASSUME NEW e \in Events, LatchFailure(e)
      PROVE  Promised!Next
  <2>1. q' = q
    BY <1>2, <1>5 DEF LatchFailure, ring
  <2>2. Promised!Latch(e)
    BY <1>5, <2>1 DEF LatchFailure, Promised!Latch, q
  <2>3. e \in Promised!Events
    BY DEF Events, Classes, Promised!Events, Promised!Classes
  <2> QED BY <2>2, <2>3 DEF Promised!Next
<1>6. ASSUME Wait
      PROVE  UNCHANGED <<q, lost, fault, taken, pushes>>
  BY <1>2, <1>6 DEF Wait, ring
<1>7. ASSUME Take, count > 0
      PROVE  Promised!Next
  <2>1. /\ taken' = Took("event", events[Slot(0)])
        /\ first' = (first + 1) % Capacity /\ count' = count - 1
        /\ UNCHANGED <<events, fault, lost, pushes>>
    BY <1>1, <1>7 DEF Take, TypeOK
  <2>2. At(events, first, 0) = events[Slot(0)]
    BY DEF At, Slot, Capacity
  <2>3. q # <<>> /\ Head(q) = events[Slot(0)] /\ q' = Tail(q)
    BY <1>1, <1>2, <1>7, <2>1, <2>2, StateRing, RingTail DEF Capacity
  <2>4. Promised!TakeEvent
    BY <2>1, <2>3 DEF Promised!TakeEvent, Promised!Took, Took, q
  <2> QED BY <2>4 DEF Promised!Next
<1>8. ASSUME Take, count = 0, NEW c \in Classes, fault[c] # None
      PROVE  Promised!Next
  <2>1. /\ taken' = Took("failure", fault[FailureFirst])
        /\ fault' = [fault EXCEPT ![FailureFirst] = None]
        /\ UNCHANGED ring /\ UNCHANGED <<lost, pushes>>
    BY <1>8 DEF Take
  <2>2. /\ FailureFirst \in Classes /\ fault[FailureFirst] # None
        /\ \A b \in Classes : b < FailureFirst => fault[b] = None
    BY <1>8 DEF FailureFirst, Classes
  <2>3. q = <<>> /\ q' = q
    <3>1. q \in Seq(Items) /\ Len(q) = 0
      BY <1>1, <1>2, <1>8, StateRing, RingIsSequence
    <3> QED BY <1>2, <2>1, <3>1, EmptySeq DEF ring
  <2>4. Promised!TakeFailure(FailureFirst)
    BY <2>1, <2>2, <2>3 DEF Promised!TakeFailure, Promised!Took, Promised!Classes, Classes, Took, q
  <2> QED BY <2>2, <2>4 DEF Promised!Next, Promised!Classes, Classes
<1>9. ASSUME Take, count = 0, \A c \in Classes : fault[c] = None
      PROVE  UNCHANGED <<q, lost, fault, taken, pushes>>
  BY <1>2, <1>9 DEF Take, ring
<1>10. ASSUME UNCHANGED vars
       PROVE  UNCHANGED <<q, lost, fault, taken, pushes>>
  BY <1>2, <1>10 DEF vars, ring
<1>11. count = 0 \/ count > 0
  BY <1>1, StateRing DEF IsRing
<1>12. CASE Take
  BY <1>3, <1>7, <1>8, <1>9, <1>11, <1>12
<1>13. CASE Wait \/ UNCHANGED vars
  BY <1>3, <1>6, <1>10, <1>13
<1>14. CASE (\E class \in Classes : Push(class)) \/ (\E e \in Events : LatchFailure(e))
  BY <1>4, <1>5, <1>14
<1> QED BY <1>12, <1>13, <1>14 DEF Next

\* Growth, wrapping and the order of two locks change neither the order of the
\* events nor the failures that are reported (control.c 36-71, 174-201): the
\* ring implements EventQueue.
THEOREM RingImplementsQueue == Spec => Implements
<1> QED BY InitMaps, StepMaps, Invariance, PTL DEF Spec, Implements, Promised!Spec
===============================================================================
