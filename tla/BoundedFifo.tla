---------------------------- MODULE BoundedFifo ----------------------------
(***************************************************************************)
(* What a single-producer single-consumer queue of "Size" items promises:  *)
(* operations that take effect at one instant, items that leave in the     *)
(* order they entered, a refusal only when it is full, an empty answer     *)
(* only when it is empty.                                                  *)
(***************************************************************************)
EXTENDS Naturals, Sequences

CONSTANTS Item, NoItem, Size

VARIABLES
  queue,     \* the items inside
  pushed,    \* what the last push returned
  popped     \* what the last pop returned, NoItem when it found none

fifoVars == <<queue, pushed, popped>>

FifoInit == queue = <<>> /\ pushed = FALSE /\ popped = NoItem

Push(v) == /\ Len(queue) < Size
           /\ queue' = Append(queue, v) /\ pushed' = TRUE
           /\ UNCHANGED popped
PushFull == /\ Len(queue) = Size
            /\ pushed' = FALSE
            /\ UNCHANGED <<queue, popped>>
Pop == /\ queue # <<>>
       /\ popped' = Head(queue) /\ queue' = Tail(queue)
       /\ UNCHANGED pushed
PopEmpty == /\ queue = <<>>
            /\ popped' = NoItem
            /\ UNCHANGED <<queue, pushed>>

FifoNext == (\E v \in Item : Push(v)) \/ PushFull \/ Pop \/ PopEmpty
FifoSpec == FifoInit /\ [][FifoNext]_fifoVars
=============================================================================
