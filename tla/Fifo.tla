-------------------------------- MODULE Fifo --------------------------------
(***************************************************************************)
(* What a queue of the client promises to its two ends: elements leave in  *)
(* the order in which they came, none is lost or doubled, there are never  *)
(* more than Capacity of them, and a queue is closed only when empty.      *)
(***************************************************************************)
EXTENDS Naturals, Sequences

CONSTANTS Capacity, Elements

VARIABLES items,  \* the elements under way, oldest first
          closed  \* the queue has been destroyed

Init == items = <<>> /\ closed = FALSE

Enqueue(e) == /\ ~closed /\ Len(items) < Capacity
              /\ items' = Append(items, e)
              /\ UNCHANGED closed

Dequeue == /\ ~closed /\ items # <<>>
           /\ items' = Tail(items)
           /\ UNCHANGED closed

Close == /\ ~closed /\ items = <<>>
         /\ closed' = TRUE
         /\ UNCHANGED items

Next == (\E e \in Elements : Enqueue(e)) \/ Dequeue \/ Close

Spec == Init /\ [][Next]_<<items, closed>>
=============================================================================
