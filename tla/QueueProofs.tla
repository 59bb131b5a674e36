---------------------------- MODULE QueueProofs ----------------------------
(***************************************************************************)
(* The ring buffer of Queue holds a sequence, for every capacity: pushing  *)
(* appends to it, popping takes its head.                                  *)
(***************************************************************************)
EXTENDS Queue, TLAPS

\* An index that may have run past the end of the buffer.
Wrapped(a) == a % Capacity

(* Past the end at most once, the index starts again at 0. *)
LEMMA Wrap ==
  ASSUME NEW a \in Nat, a < 2 * Capacity
  PROVE  Wrapped(a) = IF a < Capacity THEN a ELSE a - Capacity
<1>1. Capacity \in Nat /\ Capacity > 0
  BY CapacityAssumption
<1>2. CASE a < Capacity
  BY <1>1, <1>2 DEF Wrapped
<1>3. CASE a >= Capacity
  BY <1>1, <1>3 DEF Wrapped
<1> QED
  BY <1>1, <1>2, <1>3

\* Where the i-th element of a queue lies.
Place(q, i) == Wrapped(q.head + i - 1)

(* The elements of a queue, and the next free slot, lie in places of their  *)
(* own.                                                                     *)
LEMMA PlacesDiffer ==
  ASSUME NEW q \in QueueType
  PROVE  /\ \A i \in 1..(Capacity + 1) : Place(q, i) \in Indices
         /\ \A i, j \in 1..Capacity : i # j => Place(q, i) # Place(q, j)
<1>1. Capacity \in Nat /\ Capacity > 0 /\ q.head \in 0..(Capacity - 1)
  BY CapacityAssumption DEF QueueType, Indices
<1>2. ASSUME NEW i \in 1..(Capacity + 1)
      PROVE  Place(q, i) = IF q.head + i - 1 < Capacity THEN q.head + i - 1
                                                        ELSE q.head + i - 1 - Capacity
  <2>1. q.head + i - 1 \in Nat /\ q.head + i - 1 < 2 * Capacity
    BY <1>1
  <2> QED BY <1>1, <2>1, Wrap DEF Place
<1> QED
  BY <1>1, <1>2 DEF Indices

(* A new queue is an empty ring. *)
LEMMA CreatedRing == RingOK(queue_create) /\ Contents(queue_create) = <<>>
<1>1. Capacity \in Nat /\ Capacity > 0
  BY CapacityAssumption
<1>2. 0 % Capacity = 0
  BY <1>1, Wrap DEF Wrapped
<1> QED
  BY <1>1, <1>2 DEF queue_create, RingOK, QueueType, Indices, Contents

(* What RingOK says of the parts of a queue. *)
LEMMA RingParts ==
  ASSUME NEW q, RingOK(q)
  PROVE  /\ q \in QueueType
         /\ q.buffer \in [Indices -> Elements \cup {Junk}]
         /\ q.head \in Indices /\ q.tail \in Indices /\ q.count \in 0..Capacity
         /\ q.destroyed \in BOOLEAN
         /\ q.tail = Place(q, q.count + 1)
         /\ \A i \in 1..q.count : q.buffer[Place(q, i)] \in Elements
         /\ Contents(q) = [i \in 1..q.count |-> q.buffer[Place(q, i)]]
         /\ Contents(q) \in Seq(Elements) /\ Len(Contents(q)) = q.count
<1>1. /\ q \in QueueType
      /\ q.buffer \in [Indices -> Elements \cup {Junk}]
      /\ q.head \in Indices /\ q.tail \in Indices /\ q.count \in 0..Capacity
      /\ q.destroyed \in BOOLEAN
  BY DEF RingOK, QueueType
<1>2. q.head + (q.count + 1) - 1 = q.head + q.count
  BY <1>1, CapacityAssumption DEF Indices
<1>3. q.tail = Place(q, q.count + 1)
  BY <1>2 DEF RingOK, Place, Wrapped
<1>4. /\ \A i \in 1..q.count : q.buffer[Place(q, i)] \in Elements
      /\ Contents(q) = [i \in 1..q.count |-> q.buffer[Place(q, i)]]
  BY DEF RingOK, Contents, Place, Wrapped
<1>5. Contents(q) \in Seq(Elements) /\ Len(Contents(q)) = q.count
  BY <1>1, <1>4, CapacityAssumption
<1> QED
  BY <1>1, <1>3, <1>4, <1>5

(* queue_push_locked on a queue that is not full: the ring stays a ring and *)
(* the element is the last of its contents.                                 *)
LEMMA PushedRing ==
  ASSUME NEW q, RingOK(q), ~IsFull(q), NEW e \in Elements
  PROVE  /\ RingOK(Pushed(q, e))
         /\ Contents(Pushed(q, e)) = Append(Contents(q), e)
         /\ Pushed(q, e).destroyed = q.destroyed
         /\ Pushed(q, e).count = q.count + 1
<1> DEFINE p == Pushed(q, e)
<1>1. Capacity \in Nat /\ Capacity > 0
  BY CapacityAssumption
<1>2. /\ q.buffer \in [Indices -> Elements \cup {Junk}]
      /\ q.head \in 0..(Capacity - 1) /\ q.tail \in 0..(Capacity - 1)
      /\ q.count \in 0..(Capacity - 1)
      /\ q.destroyed \in BOOLEAN
      /\ q.tail = Place(q, q.count + 1)
  BY <1>1, RingParts DEF IsFull, Indices
<1>3. /\ p.buffer = [q.buffer EXCEPT ![q.tail] = e] /\ p.head = q.head
      /\ p.tail = Wrapped(q.tail + 1) /\ p.count = q.count + 1
      /\ p.destroyed = q.destroyed
  BY <1>2, RingParts DEF Pushed, QueueType, Wrapped
<1>4. Wrapped(q.tail + 1) = IF q.tail + 1 < Capacity THEN q.tail + 1 ELSE 0
  BY <1>1, <1>2, Wrap
<1>5. p \in QueueType
  <2>1. p.buffer \in [Indices -> Elements \cup {Junk}]
    BY <1>2, <1>3
  <2>2. p.tail \in Indices /\ p.count \in 0..Capacity
    BY <1>1, <1>2, <1>3, <1>4 DEF Indices
  <2> QED BY <1>2, <1>3, <2>1, <2>2, RingParts DEF Pushed, QueueType
<1> HIDE DEF p
<1>6. p.tail = Wrapped(p.head + p.count)
  <2>1. q.head + q.count \in Nat /\ q.head + q.count < 2 * Capacity
    BY <1>1, <1>2
  <2>2. q.tail = Wrapped(q.head + q.count)
    BY DEF RingOK, Wrapped
  <2>3. q.tail = IF q.head + q.count < Capacity THEN q.head + q.count
                                                ELSE q.head + q.count - Capacity
    BY <1>1, <1>2, <2>1, <2>2, Wrap
  <2>4. q.head + q.count + 1 \in Nat /\ q.head + q.count + 1 < 2 * Capacity
    BY <1>1, <1>2
  <2>5. Wrapped(q.head + (q.count + 1)) =
          IF q.head + q.count + 1 < Capacity THEN q.head + q.count + 1
                                             ELSE q.head + q.count + 1 - Capacity
    BY <1>1, <1>2, <2>4, Wrap
  <2> QED BY <1>1, <1>2, <1>3, <1>4, <2>3, <2>5
<1>7. \A i \in 1..Capacity : Place(p, i) = Place(q, i) /\ Place(q, i) \in Indices
  BY <1>1, <1>3, PlacesDiffer, RingParts DEF Place
<1>8. \A i \in 1..q.count : p.buffer[Place(p, i)] = q.buffer[Place(q, i)]
  BY <1>1, <1>2, <1>3, <1>7, PlacesDiffer, RingParts
<1>9. p.buffer[Place(p, q.count + 1)] = e
  BY <1>1, <1>2, <1>3, <1>7
<1>10. \A i \in 1..p.count : p.buffer[Place(p, i)] \in Elements
  BY <1>2, <1>3, <1>8, <1>9, RingParts
<1>11. RingOK(p)
  BY <1>5, <1>6, <1>10 DEF RingOK, Place, Wrapped
<1>12. Contents(p) = Append(Contents(q), e)
  <2>1. /\ Contents(p) = [i \in 1..(q.count + 1) |-> p.buffer[Place(p, i)]]
        /\ Contents(q) = [i \in 1..q.count |-> q.buffer[Place(q, i)]]
        /\ Contents(q) \in Seq(Elements) /\ Len(Contents(q)) = q.count
    BY <1>3, <1>11, RingParts
  <2> QED BY <1>2, <1>8, <1>9, <2>1
<1> QED
  BY <1>3, <1>11, <1>12 DEF p

(* queue_pop_locked on a queue that is not empty: it yields the first of    *)
(* the contents and leaves the others.                                      *)
LEMMA PoppedRing ==
  ASSUME NEW q, RingOK(q), ~IsEmpty(q)
  PROVE  /\ RingOK(Popped(q))
         /\ Contents(q) # <<>>
         /\ Contents(Popped(q)) = Tail(Contents(q))
         /\ Front(q) = Head(Contents(q)) /\ Front(q) \in Elements
         /\ Popped(q).destroyed = q.destroyed
         /\ Popped(q).count = q.count - 1
<1> DEFINE p == Popped(q)
<1>1. Capacity \in Nat /\ Capacity > 0
  BY CapacityAssumption
<1>2. /\ q.buffer \in [Indices -> Elements \cup {Junk}]
      /\ q.head \in 0..(Capacity - 1) /\ q.tail \in 0..(Capacity - 1)
      /\ q.count \in 1..Capacity
      /\ q.destroyed \in BOOLEAN
  BY <1>1, RingParts DEF IsEmpty, Indices
<1>3. /\ p.buffer = q.buffer /\ p.tail = q.tail
      /\ p.head = Wrapped(q.head + 1) /\ p.count = q.count - 1
      /\ p.destroyed = q.destroyed
  BY <1>2, RingParts DEF Popped, QueueType, Wrapped
<1>4. Wrapped(q.head + 1) = IF q.head + 1 < Capacity THEN q.head + 1 ELSE 0
  BY <1>1, <1>2, Wrap
<1>5. p \in QueueType
  <2>1. p.head \in Indices /\ p.count \in 0..Capacity
    BY <1>1, <1>2, <1>3, <1>4 DEF Indices
  <2> QED BY <1>2, <1>3, <2>1, RingParts DEF Popped, QueueType
<1> HIDE DEF p
<1>6. ASSUME NEW i \in 1..q.count
      PROVE  Place(p, i) = Place(q, i + 1)
  <2>1. q.head + i \in Nat /\ q.head + i < 2 * Capacity
    BY <1>1, <1>2
  <2>2. Place(q, i + 1) = IF q.head + i < Capacity THEN q.head + i ELSE q.head + i - Capacity
    <3>1. q.head + (i + 1) - 1 = q.head + i
      BY <1>2
    <3> QED BY <1>1, <1>2, <2>1, <3>1, Wrap DEF Place
  <2>3. p.head + i - 1 \in Nat /\ p.head + i - 1 < 2 * Capacity
    BY <1>1, <1>2, <1>3, <1>4
  <2>4. Place(p, i) = IF p.head + i - 1 < Capacity THEN p.head + i - 1
                                                   ELSE p.head + i - 1 - Capacity
    BY <1>1, <1>3, <1>5, <2>3, Wrap DEF Place, QueueType, Indices
  <2> QED BY <1>1, <1>2, <1>3, <1>4, <2>2, <2>4
<1>7. p.tail = Wrapped(p.head + p.count)
  <2>1. q.tail = Place(p, q.count)
    BY <1>2, <1>6, RingParts
  <2>2. p.head + q.count - 1 = p.head + p.count
    BY <1>2, <1>3, <1>5 DEF QueueType, Indices
  <2> QED BY <1>3, <2>1, <2>2 DEF Place
<1>8. \A i \in 1..p.count : p.buffer[Place(p, i)] = q.buffer[Place(q, i + 1)]
                            /\ q.buffer[Place(q, i + 1)] \in Elements
  BY <1>2, <1>3, <1>6, RingParts
<1>9. RingOK(p)
  BY <1>5, <1>7, <1>8 DEF RingOK, Place, Wrapped
<1>10. Contents(q) = [i \in 1..q.count |-> q.buffer[Place(q, i)]]
       /\ Contents(q) \in Seq(Elements) /\ Len(Contents(q)) = q.count
  BY RingParts
<1>11. Contents(p) = Tail(Contents(q)) /\ Contents(q) # <<>>
  <2>1. Contents(p) = [i \in 1..(q.count - 1) |-> q.buffer[Place(q, i + 1)]]
    BY <1>3, <1>8, <1>9, RingParts
  <2>2. Tail(Contents(q)) = [i \in 1..(q.count - 1) |-> Contents(q)[i + 1]]
    BY <1>2, <1>10
  <2>3. \A i \in 1..(q.count - 1) : Contents(q)[i + 1] = q.buffer[Place(q, i + 1)]
    BY <1>2, <1>10
  <2> QED BY <1>2, <1>10, <2>1, <2>2, <2>3
<1>12. Front(q) = Head(Contents(q)) /\ Front(q) \in Elements
  <2>1. Place(q, 1) = q.head
    BY <1>1, <1>2, Wrap DEF Place
  <2> QED BY <1>2, <1>10, <2>1, RingParts DEF Front
<1> QED
  BY <1>3, <1>9, <1>11, <1>12 DEF p

(* queue_destroy on an empty queue. *)
LEMMA DestroyedRing ==
  ASSUME NEW q, RingOK(q)
  PROVE  /\ RingOK(Destroyed(q)) /\ Contents(Destroyed(q)) = Contents(q)
         /\ Destroyed(q).destroyed = TRUE /\ Destroyed(q).count = q.count
<1>1. /\ Destroyed(q) \in QueueType
      /\ Destroyed(q).buffer = q.buffer /\ Destroyed(q).head = q.head
      /\ Destroyed(q).tail = q.tail /\ Destroyed(q).count = q.count
      /\ Destroyed(q).destroyed = TRUE
  BY DEF RingOK, QueueType, Destroyed
<1> QED
  BY <1>1 DEF RingOK, Contents

-----------------------------------------------------------------------------
\* What one critical section may do to a queue of elements of S.
QueueStep(q, p, S) ==
  \/ p = q
  \/ ~q.destroyed /\ ~IsFull(q) /\ \E e \in S : p = Pushed(q, e)
  \/ ~q.destroyed /\ ~IsEmpty(q) /\ p = Popped(q)
  \/ ~q.destroyed /\ IsEmpty(q) /\ p = Destroyed(q)

(* Such a step keeps the ring and the type of its contents, and does to the *)
(* contents what Fifo allows.                                               *)
LEMMA QueueStepIsFifo ==
  ASSUME NEW q, NEW p, NEW S \in SUBSET Elements, RingOK(q), Contents(q) \in Seq(S),
         QueueStep(q, p, S)
  PROVE  /\ RingOK(p) /\ Contents(p) \in Seq(S)
         /\ \/ Contents(p) = Contents(q) /\ p.destroyed = q.destroyed
            \/ /\ ~q.destroyed /\ Len(Contents(q)) < Capacity /\ p.destroyed = q.destroyed
               /\ \E e \in Elements : Contents(p) = Append(Contents(q), e)
            \/ /\ ~q.destroyed /\ Contents(q) # <<>> /\ p.destroyed = q.destroyed
               /\ Contents(p) = Tail(Contents(q))
            \/ /\ ~q.destroyed /\ Contents(q) = <<>> /\ p.destroyed = TRUE
               /\ Contents(p) = Contents(q)
<1>1. CASE p = q
  BY <1>1
<1>2. CASE ~q.destroyed /\ ~IsFull(q) /\ \E e \in S : p = Pushed(q, e)
  <2>1. PICK e \in S : p = Pushed(q, e)
    BY <1>2
  <2>2. /\ RingOK(p) /\ Contents(p) = Append(Contents(q), e)
        /\ p.destroyed = q.destroyed /\ e \in Elements
    BY <1>2, <2>1, PushedRing
  <2>3. Len(Contents(q)) < Capacity
    BY <1>2, RingParts, CapacityAssumption DEF IsFull
  <2>4. Contents(p) \in Seq(S)
    BY <2>2
  <2> QED BY <1>2, <2>2, <2>3, <2>4
<1>3. CASE ~q.destroyed /\ ~IsEmpty(q) /\ p = Popped(q)
  <2>1. /\ RingOK(p) /\ Contents(q) # <<>> /\ Contents(p) = Tail(Contents(q))
        /\ p.destroyed = q.destroyed
    BY <1>3, PoppedRing
  <2>2. Contents(p) \in Seq(S)
    BY <2>1
  <2> QED BY <1>3, <2>1, <2>2
<1>4. CASE ~q.destroyed /\ IsEmpty(q) /\ p = Destroyed(q)
  <2>1. RingOK(p) /\ Contents(p) = Contents(q) /\ p.destroyed = TRUE
    BY <1>4, DestroyedRing
  <2>2. Contents(q) = <<>>
    BY <1>4, RingParts DEF IsEmpty
  <2> QED BY <1>4, <2>1, <2>2
<1> QED
  BY <1>1, <1>2, <1>3, <1>4 DEF QueueStep
=============================================================================
