------------------------------- MODULE Queue -------------------------------
(***************************************************************************)
(* The bounded queue of client/src/utils/queue.c: a ring buffer with a     *)
(* count.  Each operator is one critical section of q->lock; blocking, and *)
(* so the two condition variables, belong to the modules that use a queue. *)
(***************************************************************************)
EXTENDS Integers, Sequences

CONSTANTS Capacity,  \* 64 in the program
          Elements,  \* what the queue's pointers point to
          Junk       \* what malloc leaves in the buffer

ASSUME CapacityAssumption == Capacity \in Nat \ {0}

Indices == 0..(Capacity - 1)
QueueType == [buffer : [Indices -> Elements \cup {Junk}], head : Indices, tail : Indices,
              count : 0..Capacity, destroyed : BOOLEAN]

queue_create == [buffer |-> [i \in Indices |-> Junk], head |-> 0, tail |-> 0, count |-> 0,
                 destroyed |-> FALSE]

IsFull(q) == q.count = Capacity
IsEmpty(q) == q.count = 0

\* queue_push_locked and queue_pop_locked once they may go on.
Pushed(q, data) ==
  [q EXCEPT !.buffer[q.tail] = data, !.tail = (q.tail + 1) % Capacity, !.count = @ + 1]

Front(q) == q.buffer[q.head]

\* Mutant: the read index is not advanced.
PoppedInPlace(q) == [q EXCEPT !.count = @ - 1]

Popped(q) == [q EXCEPT !.head = (q.head + 1) % Capacity, !.count = @ - 1]

\* queue_destroy once its assertion has held.
Destroyed(q) == [q EXCEPT !.destroyed = TRUE]

-----------------------------------------------------------------------------
\* The elements between head and tail, oldest first.
Contents(q) == [i \in 1..q.count |-> q.buffer[(q.head + i - 1) % Capacity]]

\* Head, tail and count agree, and the elements between them were pushed.
RingOK(q) ==
  /\ q \in QueueType
  /\ q.tail = (q.head + q.count) % Capacity
  /\ \A i \in 1..q.count : q.buffer[(q.head + i - 1) % Capacity] \in Elements
=============================================================================
