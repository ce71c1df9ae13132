--------------------------- MODULE CircularBuffer ---------------------------
(***************************************************************************)
(* The lock-free ring buffer between the control thread and the log        *)
(* writer (include/mc_rtc/utils.h).  One thread pushes, one pops; every    *)
(* access to the atomics head_ and tail_ and to a slot is a step of its    *)
(* own.  Each index is written by one thread only, so that thread's read   *)
(* of it is merged with the read of the other index.                       *)
(***************************************************************************)
EXTENDS Naturals, Sequences

CONSTANTS Item, NoItem, Size

ASSUME SizeAssumption == Size \in Nat \ {0} /\ NoItem \notin Item

Capacity == Size + 1
Increment(idx) == (idx + 1) % Capacity

VARIABLES
  data, tail, head,  \* data_, tail_, head_
  pc,                \* where the producer and the consumer are
  item,              \* push's argument
  got,               \* pop's local copy of the slot
  pushed, popped     \* the last results

vars == <<data, tail, head, pc, item, got, pushed, popped>>

Init ==
  /\ data = [i \in 0..Size |-> NoItem]
  /\ tail = 0 /\ head = 0
  /\ pc = [producer |-> "idle", consumer |-> "idle"]
  /\ item = NoItem /\ got = NoItem
  /\ pushed = FALSE /\ popped = NoItem

PushCall(v) ==
  /\ pc.producer = "idle"
  /\ item' = v
  /\ pc' = [pc EXCEPT !.producer = "check"]
  /\ UNCHANGED <<data, tail, head, got, pushed, popped>>

(* next_tail != head_                                                      *)
BugPushCheck ==
  /\ pc.producer = "check"
  /\ pc' = [pc EXCEPT !.producer = "store"]
  /\ UNCHANGED <<data, tail, head, item, got, pushed, popped>>
PushCheck ==
  /\ pc.producer = "check"
  /\ IF Increment(tail) # head
     THEN pc' = [pc EXCEPT !.producer = "store"] /\ UNCHANGED pushed
     ELSE pc' = [pc EXCEPT !.producer = "idle"] /\ pushed' = FALSE
  /\ UNCHANGED <<data, tail, head, item, got, popped>>

BugPushStore ==
  /\ pc.producer = "store"
  /\ data' = [data EXCEPT ![Increment(tail)] = item]
  /\ pc' = [pc EXCEPT !.producer = "publish"]
  /\ UNCHANGED <<tail, head, item, got, pushed, popped>>
PushStore ==
  /\ pc.producer = "store"
  /\ data' = [data EXCEPT ![tail] = item]
  /\ pc' = [pc EXCEPT !.producer = "publish"]
  /\ UNCHANGED <<tail, head, item, got, pushed, popped>>

PushPublish ==
  /\ pc.producer = "publish"
  /\ tail' = Increment(tail)
  /\ pushed' = TRUE
  /\ pc' = [pc EXCEPT !.producer = "idle"]
  /\ UNCHANGED <<data, head, item, got, popped>>

(* head == tail_                                                           *)
PopCheck ==
  /\ pc.consumer = "idle"
  /\ IF head = tail
     THEN popped' = NoItem /\ UNCHANGED pc
     ELSE pc' = [pc EXCEPT !.consumer = "load"] /\ UNCHANGED popped
  /\ UNCHANGED <<data, tail, head, item, got, pushed>>

PopLoad ==
  /\ pc.consumer = "load"
  /\ got' = data[head]
  /\ pc' = [pc EXCEPT !.consumer = "publish"]
  /\ UNCHANGED <<data, tail, head, item, pushed, popped>>

PopPublish ==
  /\ pc.consumer = "publish"
  /\ head' = Increment(head)
  /\ popped' = got
  /\ pc' = [pc EXCEPT !.consumer = "idle"]
  /\ UNCHANGED <<data, tail, item, got, pushed>>

Producer == (\E v \in Item : PushCall(v)) \/ PushCheck \/ PushStore \/ PushPublish
Consumer == PopCheck \/ PopLoad \/ PopPublish
Next == Producer \/ Consumer
Spec == Init /\ [][Next]_vars

-----------------------------------------------------------------------------
TypeOK ==
  /\ data \in [0..Size -> Item \cup {NoItem}]
  /\ tail \in 0..Size /\ head \in 0..Size
  /\ pc \in [producer : {"idle", "check", "store", "publish"},
             consumer : {"idle", "load", "publish"}]
  /\ item \in Item \cup {NoItem} /\ got \in Item \cup {NoItem}
  /\ pushed \in BOOLEAN /\ popped \in Item \cup {NoItem}

(* The two threads never touch the same slot at the same time, although    *)
(* neither takes a lock: the slot at tail_ is not between head_ and tail_, *)
(* and the guard of push keeps one slot free.                              *)
SlotsDisjoint ==
  /\ pc.producer = "store" /\ pc.consumer = "load" => tail # head
  /\ pc.producer \in {"store", "publish"} => Increment(tail) # head

(* The buffer is a bounded first-in first-out queue: push takes effect     *)
(* when tail_ is published and pop when head_ is.                          *)
Count == (tail + Capacity - head) % Capacity
contents == [i \in 1..Count |-> data[(head + i - 1) % Capacity]]
Fifo == INSTANCE BoundedFifo WITH queue <- contents
ImplementsFifo == Fifo!FifoSpec
=============================================================================
