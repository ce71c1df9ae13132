-------------------------- MODULE ThreadingProofs ---------------------------
(***************************************************************************)
(* The control thread and the threads beside it: the ring buffer of the    *)
(* logger, for every capacity, and the asynchronous jobs, for every number *)
(* of jobs and every input.                                                *)
(*                                                                         *)
(* The ring buffer never lets its two threads meet in a slot.              *)
(* SlotsDisjoint is not inductive: when the consumer publishes head_, the  *)
(* slot the producer has been granted stays out of reach only because a    *)
(* consumer that has passed its test is not at tail_, which in turn holds  *)
(* because the producer publishes no tail_ equal to head_.  From the same  *)
(* facts, every step is a step of the abstract queue.                      *)
(*                                                                         *)
(* What the control thread may assume of a job, although startAsync() is   *)
(* not protected against being called again, rests on one invariant: at    *)
(* most the job of futureResult_ computes, but for the one startAsync()    *)
(* has launched and not assigned yet.                                      *)
(***************************************************************************)
EXTENDS CircularBuffer, AsyncJob, Integers, TLAPS

-----------------------------------------------------------------------------
(* The ring buffer                                                         *)
(* increment() walks through the slots and wraps at the last one.          *)
LEMMA IncrementWraps ==
  ASSUME NEW i \in 0..Size
  PROVE  Increment(i) = IF i = Size THEN 0 ELSE i + 1
<1>1. Size \in Nat /\ Size # 0
  BY SizeAssumption
<1>2. CASE i = Size
  <2>1. (Size + 1) % (Size + 1) = 0
    BY <1>1
  <2> QED BY <1>2, <2>1 DEF Increment, Capacity
<1>3. CASE i # Size
  <2>1. i + 1 \in Nat /\ i + 1 < Size + 1 /\ Size + 1 \in Nat
    BY <1>1, <1>3
  <2>2. (i + 1) % (Size + 1) = i + 1
    BY <2>1
  <2> QED BY <1>3, <2>2 DEF Increment, Capacity
<1> QED BY <1>2, <1>3

(* Two slots with the same successor are the same slot.                    *)
LEMMA IncrementInjective ==
  ASSUME NEW i \in 0..Size, NEW j \in 0..Size, Increment(i) = Increment(j)
  PROVE  i = j
BY IncrementWraps, SizeAssumption

(* The successor of a slot is a slot.                                      *)
LEMMA IncrementType == ASSUME NEW i \in 0..Size PROVE Increment(i) \in 0..Size
BY IncrementWraps, SizeAssumption

(* The variables of the buffer and of its threads keep their types, so no  *)
(* access is out of the array.                                             *)
LEMMA TypeStep == TypeOK /\ [Next]_vars => TypeOK'
<1> SUFFICES ASSUME TypeOK, [Next]_vars PROVE TypeOK'
  OBVIOUS
<1> USE DEF TypeOK
<1>1. ASSUME NEW v \in Item, PushCall(v) PROVE TypeOK'
  BY <1>1 DEF PushCall
<1>2. CASE PushCheck
  BY <1>2 DEF PushCheck
<1>3. CASE PushStore
  BY <1>3 DEF PushStore
<1>4. CASE PushPublish
  BY <1>4, IncrementType DEF PushPublish
<1>5. CASE PopCheck
  BY <1>5 DEF PopCheck
<1>6. CASE PopLoad
  BY <1>6 DEF PopLoad
<1>7. CASE PopPublish
  BY <1>7, IncrementType DEF PopPublish
<1>8. CASE UNCHANGED vars
  BY <1>8 DEF vars
<1> QED BY <1>1, <1>2, <1>3, <1>4, <1>5, <1>6, <1>7, <1>8
        DEF Next, Producer, Consumer

(* An empty buffer with both threads idle is well typed.                   *)
LEMMA InitTyped == Init => TypeOK
<1> SUFFICES ASSUME Init PROVE TypeOK
  OBVIOUS
<1>1. 0 \in 0..Size
  BY SizeAssumption
<1>2. data \in [0..Size -> Item \cup {NoItem}]
  BY DEF Init
<1>3. pc \in [producer : {"idle", "check", "store", "publish"},
             consumer : {"idle", "load", "publish"}]
  BY DEF Init
<1> QED BY <1>1, <1>2, <1>3 DEF Init, TypeOK

(* Every index stays inside the array.                                     *)
THEOREM BufferTypes == Spec => []TypeOK
BY InitTyped, TypeStep, PTL DEF Spec

(* What each thread knows after its test.                                  *)
Granted ==
  /\ pc.producer \in {"store", "publish"} => Increment(tail) # head
  /\ pc.consumer \in {"load", "publish"} => head # tail

(* Neither thread invalidates what the other has tested.                   *)
LEMMA GrantedStep == TypeOK /\ Granted /\ [Next]_vars => Granted'
<1> SUFFICES ASSUME TypeOK, Granted, [Next]_vars PROVE Granted'
  OBVIOUS
<1> USE DEF Granted, TypeOK
<1>1. ASSUME NEW v \in Item, PushCall(v) PROVE Granted'
  BY <1>1 DEF PushCall
<1>2. CASE PushCheck
  BY <1>2 DEF PushCheck
<1>3. CASE PushStore
  BY <1>3 DEF PushStore
<1>4. CASE PushPublish
  BY <1>4 DEF PushPublish
<1>5. CASE PopCheck
  BY <1>5 DEF PopCheck
<1>6. CASE PopLoad
  BY <1>6 DEF PopLoad
<1>7. CASE PopPublish
  BY <1>7, IncrementInjective DEF PopPublish
<1>8. CASE UNCHANGED vars
  BY <1>8 DEF vars
<1> QED BY <1>1, <1>2, <1>3, <1>4, <1>5, <1>6, <1>7, <1>8
        DEF Next, Producer, Consumer

(* push() and pop() never access the same slot together, whatever the      *)
(* capacity and however the two threads interleave.                        *)
THEOREM ThreadsNeverShareSlot == Spec => []SlotsDisjoint
<1>1. Init => TypeOK /\ Granted
  BY InitTyped DEF Init, Granted
<1>2. TypeOK /\ Granted /\ [Next]_vars => (TypeOK /\ Granted)'
  BY TypeStep, GrantedStep
<1>3. TypeOK /\ Granted => SlotsDisjoint
  BY DEF TypeOK, Granted, SlotsDisjoint
<1> QED BY <1>1, <1>2, <1>3, PTL DEF Spec

-----------------------------------------------------------------------------
(* A remainder below twice the capacity.                                   *)
LEMMA OneTurn ==
  ASSUME NEW n \in Nat, n < 2 * Capacity
  PROVE  n % Capacity = IF n < Capacity THEN n ELSE n - Capacity
<1>1. Capacity \in Nat /\ Capacity > 0
  BY SizeAssumption DEF Capacity
<1>2. CASE n < Capacity
  BY <1>1, <1>2
<1>3. CASE n >= Capacity
  <2> DEFINE r == n % Capacity
             q == n \div Capacity
  <2>1. r \in 0..(Capacity - 1) /\ q \in Int /\ n = Capacity * q + r
    BY <1>1
  <2> HIDE DEF r, q
  <2>2. q = 1
    <3>1. q > 0
      BY <1>1, <1>3, <2>1
    <3>2. q < 2
      BY <1>1, <1>3, <2>1
    <3> QED BY <2>1, <3>1, <3>2
  <2> QED BY <1>1, <1>3, <2>1, <2>2 DEF r
<1> QED BY <1>1, <1>2, <1>3

(* The number of items between two indices, the i-th slot from an index    *)
(* on, both without remainders, and the items between two indices.         *)
Dist(h, t) == IF t >= h THEN t - h ELSE t + Capacity - h
Slot(h, i) == IF h + i <= Capacity THEN h + i - 1 ELSE h + i - 1 - Capacity
Cell == Item \cup {NoItem}
Held(d, h, t) == [i \in 1..Dist(h, t) |-> d[Slot(h, i)]]

(* There are at most Size items, each in a slot of the array.              *)
LEMMA DistType ==
  ASSUME NEW h \in 0..Size, NEW t \in 0..Size
  PROVE  Dist(h, t) \in 0..Size
BY SizeAssumption DEF Dist, Capacity

(* The i-th slot from an index on is a slot of the array.                  *)
LEMMA SlotType ==
  ASSUME NEW h \in 0..Size, NEW i \in 1..Size
  PROVE  Slot(h, i) \in 0..Size
BY SizeAssumption DEF Slot, Capacity

(* The queue the buffer stands for, in these terms.                        *)
LEMMA ContentsIsHeld == TypeOK => contents = Held(data, head, tail)
<1> SUFFICES ASSUME TypeOK PROVE contents = Held(data, head, tail)
  OBVIOUS
<1>1. Size \in Nat /\ tail \in 0..Size /\ head \in 0..Size /\ Capacity = Size + 1
  BY SizeAssumption DEF TypeOK, Capacity
<1>2. Count = Dist(head, tail)
  <2> DEFINE n == tail + Capacity - head
  <2>1. n \in Nat /\ n < 2 * Capacity
    BY <1>1
  <2>2. Count = n % Capacity
    BY DEF Count
  <2> HIDE DEF n
  <2>3. n % Capacity = IF n < Capacity THEN n ELSE n - Capacity
    BY <2>1, OneTurn
  <2> QED BY <1>1, <2>2, <2>3 DEF Dist, n
<1>3. ASSUME NEW i \in 1..Dist(head, tail)
      PROVE  (head + i - 1) % Capacity = Slot(head, i)
  <2>1. i \in 1..Size
    BY <1>1, DistType
  <2> DEFINE n == head + i - 1
  <2>2. n \in Nat /\ n < 2 * Capacity
    BY <1>1, <2>1
  <2> HIDE DEF n
  <2>3. n % Capacity = IF n < Capacity THEN n ELSE n - Capacity
    BY <2>2, OneTurn
  <2> QED BY <1>1, <2>1, <2>3 DEF Slot, n
<1> QED BY <1>2, <1>3 DEF contents, Held

(* A queue is a sequence of as many items as lie between the indices.      *)
LEMMA HeldType ==
  ASSUME NEW d \in [0..Size -> Cell], NEW h \in 0..Size, NEW t \in 0..Size
  PROVE  /\ Held(d, h, t) \in Seq(Cell)
         /\ Len(Held(d, h, t)) = Dist(h, t)
         /\ (Held(d, h, t) = <<>>) <=> (h = t)
<1>1. Dist(h, t) \in 0..Size
  BY DistType
<1>2. \A i \in 1..Dist(h, t) : d[Slot(h, i)] \in Cell
  <2> TAKE i \in 1..Dist(h, t)
  <2>1. i \in 1..Size
    BY <1>1, SizeAssumption
  <2> QED BY <2>1, SlotType
<1>3. Dist(h, t) \in Nat
  BY <1>1, SizeAssumption
<1>4. Held(d, h, t) \in [1..Dist(h, t) -> Cell]
  BY <1>2 DEF Held
<1>5. Held(d, h, t) \in Seq(Cell) /\ Len(Held(d, h, t)) = Dist(h, t)
  BY <1>3, <1>4
<1>6. (Dist(h, t) = 0) <=> (h = t)
  BY SizeAssumption DEF Dist, Capacity
<1>7. (Held(d, h, t) = <<>>) <=> (Dist(h, t) = 0)
  BY <1>5
<1> QED BY <1>5, <1>6, <1>7

(* Publishing tail_ appends the item in its slot.                          *)
LEMMA PublishTail ==
  ASSUME NEW d \in [0..Size -> Cell], NEW h \in 0..Size, NEW t \in 0..Size,
         Increment(t) # h
  PROVE  /\ Dist(h, t) < Size
         /\ Held(d, h, Increment(t)) = Append(Held(d, h, t), d[t])
<1> DEFINE n == Dist(h, t)
           u == Increment(t)
<1>0. u = (IF t = Size THEN 0 ELSE t + 1) /\ u # h /\ u \in 0..Size
  BY IncrementWraps, IncrementType
<1> HIDE DEF u
<1>1. n \in Nat /\ n < Size /\ Dist(h, u) = n + 1 /\ Slot(h, n + 1) = t
  BY <1>0, SizeAssumption DEF Dist, Slot, Capacity
<1> HIDE DEF n
<1>2. /\ Held(d, h, t) \in Seq(Cell) /\ Len(Held(d, h, t)) = n
      /\ Held(d, h, u) \in Seq(Cell) /\ Len(Held(d, h, u)) = n + 1
  <2>1. Held(d, h, t) \in Seq(Cell) /\ Len(Held(d, h, t)) = Dist(h, t)
    BY HeldType
  <2>2. u \in 0..Size
    BY <1>0
  <2>3. Held(d, h, u) \in Seq(Cell) /\ Len(Held(d, h, u)) = Dist(h, u)
    BY <2>2, HeldType
  <2> QED BY <1>1, <2>1, <2>3 DEF n
<1>3. \A i \in 1..(n + 1) :
        Held(d, h, u)[i] = IF i = n + 1 THEN d[t] ELSE Held(d, h, t)[i]
  BY <1>1 DEF Held, n
<1>4. d[t] \in Cell
  OBVIOUS
<1> DEFINE x == Held(d, h, t)
           y == Held(d, h, u)
<1>5. x \in Seq(Cell) /\ Len(x) = n /\ y \in Seq(Cell) /\ Len(y) = n + 1
  BY <1>2
<1>6. \A i \in 1..(n + 1) : y[i] = IF i = n + 1 THEN d[t] ELSE x[i]
  BY <1>3
<1> HIDE DEF x, y
<1>7. y = Append(x, d[t])
  BY <1>1, <1>4, <1>5, <1>6
<1> QED BY <1>1, <1>7 DEF n, u, x, y

(* Publishing head_ removes the item in its slot.                          *)
LEMMA PublishHead ==
  ASSUME NEW d \in [0..Size -> Cell], NEW h \in 0..Size, NEW t \in 0..Size,
         h # t
  PROVE  /\ Head(Held(d, h, t)) = d[h]
         /\ Held(d, Increment(h), t) = Tail(Held(d, h, t))
<1> DEFINE n == Dist(h, t)
           u == Increment(h)
           x == Held(d, h, t)
           y == Held(d, u, t)
<1>0. u = (IF h = Size THEN 0 ELSE h + 1) /\ u \in 0..Size
  BY IncrementWraps, IncrementType
<1> HIDE DEF u
<1>1. /\ n \in 1..Size /\ Dist(u, t) = n - 1 /\ Slot(h, 1) = h
      /\ \A i \in 1..(n - 1) : Slot(u, i) = Slot(h, i + 1)
  <2>1. n \in 1..Size /\ Dist(u, t) = n - 1 /\ Slot(h, 1) = h
    BY <1>0, SizeAssumption DEF Dist, Slot, Capacity
  <2>2. ASSUME NEW i \in 1..(n - 1) PROVE Slot(u, i) = Slot(h, i + 1)
    BY <1>0, SizeAssumption DEF Dist, Slot, Capacity
  <2> QED BY <2>1, <2>2
<1>2. n \in Nat /\ n > 0
  BY <1>1, SizeAssumption
<1>3. x \in Seq(Cell) /\ Len(x) = n /\ y \in Seq(Cell) /\ Len(y) = n - 1
  <2>1. x \in Seq(Cell) /\ Len(x) = Dist(h, t)
    BY HeldType
  <2>2. u \in 0..Size
    BY <1>0
  <2>3. y \in Seq(Cell) /\ Len(y) = Dist(u, t)
    BY <2>2, HeldType
  <2> QED BY <1>1, <2>1, <2>3
<1>4. x[1] = d[h] /\ \A i \in 1..(n - 1) : y[i] = x[i + 1]
  <2>1. x[1] = d[h]
    BY <1>1, <1>2 DEF Held
  <2>2. ASSUME NEW i \in 1..(n - 1) PROVE y[i] = x[i + 1]
    <3>1. i \in 1..Dist(u, t) /\ i + 1 \in 1..Dist(h, t)
      BY <1>1, <1>2
    <3>2. y[i] = d[Slot(u, i)] /\ x[i + 1] = d[Slot(h, i + 1)]
      BY <3>1 DEF Held
    <3> QED BY <1>1, <3>2
  <2> QED BY <2>1, <2>2
<1> HIDE DEF n, u, x, y
<1>5. Head(x) = d[h] /\ y = Tail(x)
  <2>1. x # <<>>
    BY <1>2, <1>3
  <2>2. Tail(x) \in Seq(Cell) /\ Len(Tail(x)) = n - 1 /\ \A i \in 1..(n - 1) : Tail(x)[i] = x[i + 1]
    BY <1>2, <1>3, <2>1
  <2> QED BY <1>2, <1>3, <1>4, <2>1, <2>2
<1> QED BY <1>5 DEF n, u, x, y

(* A store at tail_ touches no item of the queue.                          *)
LEMMA StoreOutside ==
  ASSUME NEW d \in [0..Size -> Cell], NEW h \in 0..Size, NEW t \in 0..Size,
         NEW v
  PROVE  Held([d EXCEPT ![t] = v], h, t) = Held(d, h, t)
<1>1. \A i \in 1..Dist(h, t) : Slot(h, i) # t /\ Slot(h, i) \in 0..Size
  BY SizeAssumption DEF Dist, Slot, Capacity
<1> QED BY <1>1 DEF Held

(* What lies between the two steps of each operation: the item is still    *)
(* where its thread left it or found it.                                   *)
InFlight ==
  /\ pc.producer # "idle" => item \in Item
  /\ pc.producer = "publish" => data[tail] = item
  /\ pc.consumer = "publish" => got = data[head]

(* Neither thread overwrites what the other is about to publish.           *)
LEMMA InFlightStep == TypeOK /\ Granted /\ InFlight /\ [Next]_vars => InFlight'
<1> SUFFICES ASSUME TypeOK, Granted, InFlight, [Next]_vars PROVE InFlight'
  OBVIOUS
<1> USE DEF InFlight, Granted, TypeOK
<1>1. ASSUME NEW v \in Item, PushCall(v) PROVE InFlight'
  BY <1>1 DEF PushCall
<1>2. CASE PushCheck
  BY <1>2 DEF PushCheck
<1>3. CASE PushStore
  BY <1>3 DEF PushStore
<1>4. CASE PushPublish
  BY <1>4 DEF PushPublish
<1>5. CASE PopCheck
  BY <1>5 DEF PopCheck
<1>6. CASE PopLoad
  BY <1>6 DEF PopLoad
<1>7. CASE PopPublish
  BY <1>7 DEF PopPublish
<1>8. CASE UNCHANGED vars
  BY <1>8 DEF vars
<1> QED BY <1>1, <1>2, <1>3, <1>4, <1>5, <1>6, <1>7, <1>8
        DEF Next, Producer, Consumer

(* Every step of the two threads is a step of the abstract queue, or none. *)
LEMMA FifoStep ==
  TypeOK /\ Granted /\ InFlight /\ TypeOK' /\ [Next]_vars
    => [Fifo!FifoNext]_(Fifo!fifoVars)
<1> SUFFICES ASSUME TypeOK, Granted, InFlight, TypeOK', [Next]_vars
             PROVE  [Fifo!FifoNext]_(Fifo!fifoVars)
  OBVIOUS
<1> DEFINE q == Held(data, head, tail)
<1>0. /\ contents = q /\ contents' = q'
      /\ Len(q) = Dist(head, tail)
      /\ (q = <<>>) <=> (head = tail)
      /\ data \in [0..Size -> Cell]
      /\ tail \in 0..Size /\ head \in 0..Size
  <2>1. contents = q /\ (contents = q)'
    BY ContentsIsHeld, PTL
  <2>2. /\ data \in [0..Size -> Cell]
        /\ tail \in 0..Size /\ head \in 0..Size
    BY DEF TypeOK, Cell
  <2>3. Len(q) = Dist(head, tail) /\ ((q = <<>>) <=> (head = tail))
    BY <2>2, HeldType
  <2> QED BY <2>1, <2>2, <2>3
<1>a. ASSUME UNCHANGED <<data, head, tail, pushed, popped>>
      PROVE  UNCHANGED Fifo!fifoVars
  <2>1. q' = q
    BY <1>a
  <2> QED BY <1>0, <1>a, <2>1 DEF Fifo!fifoVars
<1>1. ASSUME NEW v \in Item, PushCall(v) PROVE UNCHANGED Fifo!fifoVars
  BY <1>1, <1>a DEF PushCall
<1>2. CASE PushCheck
  <2>1. CASE Increment(tail) # head
    BY <1>2, <1>a, <2>1 DEF PushCheck
  <2>2. CASE Increment(tail) = head
    <3>1. Dist(head, tail) = Size
      <4>1. head = IF tail = Size THEN 0 ELSE tail + 1
        BY <1>0, <2>2, IncrementWraps
      <4> QED BY <1>0, <4>1, SizeAssumption DEF Dist, Capacity
    <3>2. q' = q /\ pushed' = FALSE /\ popped' = popped
      BY <1>2, <2>2 DEF PushCheck
    <3>3. Fifo!PushFull
      BY <1>0, <3>1, <3>2 DEF Fifo!PushFull
    <3> QED BY <3>3 DEF Fifo!FifoNext
  <2> QED BY <2>1, <2>2
<1>3. CASE PushStore
  <2>1. q' = q
    <3>1. q' = Held([data EXCEPT ![tail] = item], head, tail)
      BY <1>3 DEF PushStore
    <3> QED BY <1>0, <3>1, StoreOutside
  <2> QED BY <1>0, <1>3, <2>1 DEF PushStore, Fifo!fifoVars
<1>4. CASE PushPublish
  <2>1. Increment(tail) # head /\ data[tail] = item /\ item \in Item
    BY <1>4 DEF PushPublish, Granted, InFlight
  <2>2. q' = Held(data, head, Increment(tail))
    BY <1>4 DEF PushPublish
  <2>3. Dist(head, tail) < Size /\ q' = Append(q, item)
    BY <1>0, <2>1, <2>2, PublishTail
  <2>4. Fifo!Push(item)
    BY <1>0, <1>4, <2>3 DEF Fifo!Push, PushPublish
  <2> QED BY <2>1, <2>4 DEF Fifo!FifoNext
<1>5. CASE PopCheck
  <2>1. CASE head = tail
    <3>1. q' = q /\ popped' = NoItem /\ pushed' = pushed
      BY <1>5, <2>1 DEF PopCheck
    <3>2. Fifo!PopEmpty
      BY <1>0, <2>1, <3>1 DEF Fifo!PopEmpty
    <3> QED BY <3>2 DEF Fifo!FifoNext
  <2>2. CASE head # tail
    BY <1>5, <1>a, <2>2 DEF PopCheck
  <2> QED BY <2>1, <2>2
<1>6. CASE PopLoad
  BY <1>6, <1>a DEF PopLoad
<1>7. CASE PopPublish
  <2>1. head # tail /\ got = data[head]
    BY <1>7 DEF PopPublish, Granted, InFlight
  <2>2. q' = Held(data, Increment(head), tail)
    BY <1>7 DEF PopPublish
  <2>3. Head(q) = got /\ q' = Tail(q)
    BY <1>0, <2>1, <2>2, PublishHead
  <2>4. Fifo!Pop
    BY <1>0, <1>7, <2>1, <2>3 DEF Fifo!Pop, PopPublish
  <2> QED BY <2>4 DEF Fifo!FifoNext
<1>8. CASE UNCHANGED vars
  BY <1>8, <1>a DEF vars
<1> QED BY <1>1, <1>2, <1>3, <1>4, <1>5, <1>6, <1>7, <1>8
        DEF Next, Producer, Consumer

(* The ring buffer with its two unsynchronised threads implements a        *)
(* bounded first-in first-out queue whose operations are atomic, for every *)
(* capacity and every set of items.                                        *)
THEOREM BufferImplementsFifo == Spec => ImplementsFifo
<1>1. Init => TypeOK /\ Granted /\ InFlight
  BY InitTyped DEF Init, Granted, InFlight
<1>2. Init => Fifo!FifoInit
  <2> SUFFICES ASSUME Init PROVE Fifo!FifoInit
    OBVIOUS
  <2>1. TypeOK
    BY InitTyped
  <2>2. /\ data \in [0..Size -> Cell]
        /\ tail \in 0..Size /\ head \in 0..Size /\ head = tail
    BY <2>1 DEF TypeOK, Init, Cell
  <2>3. Held(data, head, tail) = <<>>
    BY <2>2, HeldType
  <2> QED BY <2>1, <2>3, ContentsIsHeld DEF Fifo!FifoInit, Init
<1>3. TypeOK /\ Granted /\ InFlight /\ [Next]_vars
        => (TypeOK /\ Granted /\ InFlight)' /\ [Fifo!FifoNext]_(Fifo!fifoVars)
  BY TypeStep, GrantedStep, InFlightStep, FifoStep
<1> QED BY <1>1, <1>2, <1>3, PTL DEF Spec, ImplementsFifo, Fifo!FifoSpec

-----------------------------------------------------------------------------
(* Asynchronous jobs                                                       *)
JobTypeOK ==
  /\ ctl \in {"idle", "launched", "assigned", "destroying", "gone"}
  /\ job \in [1..MaxJobs -> {"none", "deferred", "computing", "done", "failed",
                           "thrown"}]
  /\ started \in 0..MaxJobs /\ future \in 0..MaxJobs
  /\ running \in BOOLEAN

(* futureResult_ waits for the job it lets go, so that no other computes.  *)
OneComputes ==
  \A j \in 1..MaxJobs :
    job[j] = "computing" => j = future \/ (ctl = "launched" /\ j = started)

(* Outside startAsync(), futureResult_ is empty or the last job; and empty *)
(* whenever running_ is false.                                             *)
FutureIsLast == ctl # "launched" => future \in {0, started}
IdleIsEmpty == ctl = "idle" /\ ~running => future = 0

JobInv == JobTypeOK /\ OneComputes /\ FutureIsLast /\ IdleIsEmpty

(* An object that was just made has no job.                                *)
LEMMA JobInitInv == JobInit => JobInv
<1> SUFFICES ASSUME JobInit PROVE JobInv
  OBVIOUS
<1>1. \A j \in 1..MaxJobs : job[j] = "none"
  BY DEF JobInit
<1>2. job \in [1..MaxJobs -> {"none", "deferred", "computing", "done", "failed",
                           "thrown"}]
  BY DEF JobInit
<1>3. ctl = "idle" /\ started = 0 /\ future = 0 /\ running = FALSE
  BY DEF JobInit
<1>4. JobTypeOK
  <2>1. running \in BOOLEAN
    BY <1>3
  <2>2. started \in 0..MaxJobs /\ future \in 0..MaxJobs
    BY <1>3, JobAssumption
  <2> QED BY <1>2, <1>3, <2>1, <2>2 DEF JobTypeOK
<1> QED BY <1>1, <1>3, <1>4 DEF JobInv, OneComputes, FutureIsLast, IdleIsEmpty

(* Every call of the control thread, and the end of every job, keeps it.   *)
LEMMA JobNextInv == JobInv /\ [JobNext]_jobVars => JobInv'
<1> SUFFICES ASSUME JobInv, [JobNext]_jobVars PROVE JobInv'
  OBVIOUS
<1> USE JobAssumption DEF JobInv, JobTypeOK, OneComputes, FutureIsLast, IdleIsEmpty
<1>1. CASE TakeInput
  BY <1>1 DEF TakeInput, futureVars
<1>11. ASSUME NEW v \in Input, WriteInput(v) PROVE JobInv'
  BY <1>11 DEF WriteInput, futureVars
<1>2. CASE Launch
  BY <1>2 DEF Launch, futureVars
<1>3. CASE Assign
  BY <1>3 DEF Assign
<1>4. CASE Started
  BY <1>4 DEF Started
<1>5. CASE CheckResult
  <2>1. /\ ctl' = "idle" /\ ctl = "idle" /\ job' = job /\ started' = started
        /\ future' = 0 /\ job[future] # "computing"
    BY <1>5 DEF CheckResult, Ready, Ended
  <2>2. \A j \in 1..MaxJobs : job[j] # "computing"
    BY <2>1
  <2>3. running' \in BOOLEAN
    <3>1. \/ running' = FALSE \/ running' = running
          \/ \E threw \in {"none"} \cup Hook : running' = (threw # "none")
      BY <1>5 DEF CheckResult
    <3> QED BY <3>1
  <2>4. future' \in 0..MaxJobs
    BY <2>1
  <2>5. JobTypeOK'
    BY <2>1, <2>3, <2>4
  <2>6. OneComputes'
    BY <2>1, <2>2
  <2>7. FutureIsLast' /\ IdleIsEmpty'
    BY <2>1
  <2> QED BY <2>5, <2>6, <2>7
<1>6. ASSUME NEW h \in Hook, AddEntry(h) \/ RemoveEntry(h) PROVE JobInv'
  BY <1>6 DEF AddEntry, RemoveEntry, SetEntry, futureVars
<1>7. CASE Destroy
  BY <1>7 DEF Destroy, futureVars
<1>8. CASE Destroyed
  BY <1>8 DEF Destroyed
<1>9. ASSUME NEW j \in 1..MaxJobs, Compute(j) PROVE JobInv'
  BY <1>9 DEF Compute, Ended, futureVars
<1>10. CASE UNCHANGED jobVars
  BY <1>10 DEF jobVars, futureVars
<1> QED BY <1>1, <1>2, <1>3, <1>4, <1>5, <1>6, <1>7, <1>8, <1>9, <1>10, <1>11
        DEF JobNext, Worker

(* JobInv holds in every reachable state.                                  *)
THEOREM JobInvariance == JobSpec => []JobInv
BY JobInitInv, JobNextInv, PTL DEF JobSpec

(* When running() is false between two calls no thread reads the input, so *)
(* that a write then is safe, for every number of jobs and through any     *)
(* reference that input() ever returned: running_ is enough of a test      *)
(* although startAsync() sets it after the launch.                         *)
THEOREM InputIsStable == JobSpec => InputStable
<1>1. JobInv => (ctl = "idle" /\ ~running => \A j \in 1..MaxJobs : job[j] # "computing")
  <2> SUFFICES ASSUME JobInv, ctl = "idle", ~running, NEW j \in 1..MaxJobs
               PROVE  job[j] # "computing"
    OBVIOUS
  <2>1. future = 0
    BY DEF JobInv, IdleIsEmpty
  <2> QED BY <2>1, JobAssumption DEF JobInv, OneComputes
<1>2. JobInv /\ [JobNext]_jobVars
        => [input' # input /\ ctl = "idle" /\ ~running
              => \A j \in 1..MaxJobs : job[j] # "computing"]_jobVars
  BY <1>1
<1> QED BY <1>2, JobInvariance, PTL DEF JobSpec, InputStable

(* checkResult() only delivers the result of the last startAsync().        *)
THEOREM ResultsAreCurrent == JobSpec => ResultIsCurrent
<1>1. JobInv /\ [JobNext]_jobVars
        => [lastResult' # lastResult => lastResult' = started]_jobVars
  <2> SUFFICES ASSUME JobInv, JobNext, lastResult' # lastResult
               PROVE  lastResult' = started
    OBVIOUS
  <2>1. CheckResult
    BY DEF JobNext, TakeInput, WriteInput, Launch, Assign, Started, AddEntry,
           RemoveEntry, SetEntry, Destroy, Destroyed, Worker, Compute
  <2> QED BY <2>1 DEF CheckResult, Ready, JobInv, FutureIsLast
<1> QED BY <1>1, JobInvariance, PTL DEF JobSpec, ResultIsCurrent
=============================================================================
